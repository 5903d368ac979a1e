---------------------------- MODULE RegistryProofs ----------------------------
(***************************************************************************)
(* Theorems about Registry, for any threads, entities, identifiers and     *)
(* data resources and any number of registrations.                         *)
(***************************************************************************)
EXTENDS Registry, SequenceFacts

-----------------------------------------------------------------------------
(* The inductive invariant. *)

Registrations == [entity : Entities, table : Tables, id : Names]
Here(e, t, id) == [entity |-> e, table |-> t, id |-> id]
FirstIn(all, n) == \A k \in 1..(n - 1) : all[k] # all[n]

RegistryTypeOK ==
    /\ registered \in [Entities -> [Tables -> Seq(Holders)]]
    /\ poisoned \in [Entities -> SUBSET Tables]
    /\ log \in Seq(Registrations) /\ Len(log) <= MaxLog
    /\ entities \in Seq(Entities)
    /\ todo \in Seq(Entities)
    /\ listed \in Seq(1..MaxLog)

\* A table whose mutex is sound holds what was registered in it, once and in
\* order: whoever registers twice poisons it.
IsLog(holders, all, e, t) ==
    /\ \A k \in 1..Len(holders) :
          /\ holders[k].no \in 1..Len(all)
          /\ all[holders[k].no] = Here(e, t, holders[k].id)
          /\ FirstIn(all, holders[k].no)
    /\ \A j, k \in 1..Len(holders) : j < k => holders[j].no < holders[k].no
    /\ \A n \in 1..Len(all) : all[n].entity = e /\ all[n].table = t =>
          \E k \in 1..Len(holders) : holders[k].no = n

SoundTablesAreLogs ==
    \A e \in Entities, t \in Tables :
        t \notin poisoned[e] => IsLog(registered[e][t], log, e, t)

\* What the loop has listed of the operations of all entities so far.
ListedSoFar ==
    \A k \in 1..Len(listed) : listed[k] \in 1..Len(log) /\ FirstIn(log, listed[k])

RegistryInv ==
    /\ RegistryTypeOK
    /\ SoundTablesAreLogs
    /\ ListedSoFar

LEMMA InitRegistryInv == Init => RegistryInv
<1> SUFFICES ASSUME Init PROVE RegistryInv
  OBVIOUS
<1>1. registered \in [Entities -> [Tables -> Seq(Holders)]]
  BY DEF Init
<1>2. log \in Seq(Registrations) /\ Len(log) <= MaxLog
  BY RegistryAssumption DEF Init
<1>3. entities \in Seq(Entities) /\ todo \in Seq(Entities) /\ listed \in Seq(1..MaxLog)
  BY DEF Init
<1>4. RegistryTypeOK
  BY <1>1, <1>2, <1>3 DEF Init, RegistryTypeOK
<1>5. SoundTablesAreLogs
  BY DEF Init, SoundTablesAreLogs, IsLog
<1>6. ListedSoFar
  BY DEF Init, ListedSoFar
<1> QED BY <1>4, <1>5, <1>6 DEF RegistryInv

-----------------------------------------------------------------------------
(* Registrations. *)

LEMMA AppendedLast ==
    ASSUME NEW S, NEW s \in Seq(S), NEW x \in S
    PROVE  /\ Append(s, x) \in Seq(S) /\ Len(s) \in Nat /\ Len(Append(s, x)) = Len(s) + 1
           /\ Append(s, x)[Len(s) + 1] = x
           /\ \A k \in 1..Len(s) : Append(s, x)[k] = s[k] /\ s[k] \in S
OBVIOUS

LEMMA FunctionIsSequence ==
    ASSUME NEW S, NEW n \in Nat, NEW f \in [1..n -> S]
    PROVE  f \in Seq(S) /\ Len(f) = n
OBVIOUS

\* A registration leaves the originals before it.
LEMMA OriginalsStay ==
    ASSUME NEW all \in Seq(Registrations), NEW r \in Registrations, NEW n \in 1..Len(all)
    PROVE  FirstIn(Append(all, r), n) <=> FirstIn(all, n)
<1>1. \A k \in 1..(n - 1) : k \in 1..Len(all)
  BY AppendedLast
<1>2. \A k \in 1..Len(all) : Append(all, r)[k] = all[k]
  BY AppendedLast
<1> QED BY <1>1, <1>2 DEF FirstIn

\* A registration elsewhere leaves a table what it was.
LEMMA OtherTablesStay ==
    ASSUME NEW all \in Seq(Registrations), NEW r \in Registrations,
           NEW holders, NEW e, NEW t, IsLog(holders, all, e, t),
           r.entity # e \/ r.table # t
    PROVE  IsLog(holders, Append(all, r), e, t)
<1> DEFINE grown == Append(all, r)
<1>1. Len(all) \in Nat /\ Len(grown) = Len(all) + 1
  BY AppendedLast
<1>2. grown[Len(all) + 1] = r
  BY AppendedLast
<1>3. \A n \in 1..Len(all) : n \in 1..Len(grown) /\ grown[n] = all[n]
  BY <1>1, AppendedLast
<1>4. \A n \in 1..Len(all) : FirstIn(all, n) => FirstIn(grown, n)
  BY OriginalsStay
<1>5. \A n \in 1..Len(grown) : n \in 1..Len(all) \/ n = Len(all) + 1
  BY <1>1
<1> HIDE DEF grown
<1>6. ASSUME NEW k \in 1..Len(holders)
      PROVE  holders[k].no \in 1..Len(grown) /\ grown[holders[k].no] = Here(e, t, holders[k].id)
               /\ FirstIn(grown, holders[k].no)
  BY <1>3, <1>4, <1>6 DEF IsLog
<1>7. \A j, k \in 1..Len(holders) : j < k => holders[j].no < holders[k].no
  BY DEF IsLog
<1>8. ASSUME NEW n \in 1..Len(grown), grown[n].entity = e, grown[n].table = t
      PROVE  \E k \in 1..Len(holders) : holders[k].no = n
  <2>1. n \in 1..Len(all) /\ all[n].entity = e /\ all[n].table = t
    BY <1>2, <1>3, <1>5, <1>8
  <2> QED BY <2>1 DEF IsLog
<1> QED BY <1>6, <1>7, <1>8 DEF IsLog, grown

\* The first registration of an identifier is the last of its table.
LEMMA FirstRegistration ==
    ASSUME NEW all \in Seq(Registrations), NEW S, NEW holders \in Seq(S),
           NEW e \in Entities, NEW t \in Tables, NEW id \in Names, NEW h \in S,
           h.id = id, h.no = Len(all) + 1,
           IsLog(holders, all, e, t), ~Has(holders, id)
    PROVE  IsLog(Append(holders, h), Append(all, Here(e, t, id)), e, t)
<1> DEFINE r == Here(e, t, id)
           grown == Append(all, r)
           n == Len(all) + 1
           held == Append(holders, h)
           l == Len(holders)
<1>1. r \in Registrations /\ r.entity = e /\ r.table = t /\ r.id = id
  BY DEF Registrations, Here
<1>2. Len(all) \in Nat /\ Len(grown) = n /\ n \in 1..Len(grown)
  BY <1>1, AppendedLast
<1>3. grown[n] = r
  BY <1>1, AppendedLast
<1>4. \A k \in 1..Len(all) : k \in 1..Len(grown) /\ grown[k] = all[k]
  BY <1>1, <1>2, AppendedLast
<1>5. l \in Nat /\ Len(held) = l + 1 /\ held[l + 1] = h /\ DOMAIN holders = 1..l
  BY AppendedLast
<1>6. \A k \in 1..l : held[k] = holders[k]
  BY AppendedLast
<1>7. \A k \in 1..(l + 1) : k \in 1..l \/ k = l + 1
  BY <1>5
<1>8. \A k \in 1..Len(grown) : k \in 1..Len(all) \/ k = n
  BY <1>2
<1>9. \A k \in 1..Len(all) : FirstIn(all, k) => FirstIn(grown, k)
  BY <1>1, OriginalsStay
<1>10. \A k \in 1..Len(all) : k < n
  BY <1>2
<1>11. \A k \in 1..(n - 1) : k \in 1..Len(all)
  BY <1>2
<1>12. \A k \in 1..l : k \in 1..(l + 1)
  BY <1>5
<1>13. l + 1 \in 1..(l + 1)
  BY <1>5
<1>14. \A j \in 1..(l + 1) : ~(l + 1 < j)
  BY <1>5
<1>15. FirstIn(grown, n)
  <2> SUFFICES ASSUME NEW k \in 1..Len(all), all[k] = r PROVE FALSE
    BY <1>3, <1>4, <1>11 DEF FirstIn
  <2>1. PICK j \in 1..l : holders[j].no = k
    BY <1>1 DEF IsLog
  <2>2. r = Here(e, t, holders[j].id)
    BY <2>1 DEF IsLog
  <2>3. holders[j].id = id
    BY <2>2 DEF Here
  <2> QED BY <2>3, <1>5 DEF Has
<1> HIDE DEF r, grown, n, held, l
<1>16. \A k \in 1..l :
          holders[k].no \in 1..Len(all) /\ all[holders[k].no] = Here(e, t, holders[k].id)
            /\ FirstIn(all, holders[k].no)
  BY DEF IsLog, l
<1>17. ASSUME NEW k \in 1..Len(held)
       PROVE  held[k].no \in 1..Len(grown) /\ grown[held[k].no] = Here(e, t, held[k].id)
                /\ FirstIn(grown, held[k].no)
  <2>1. CASE k \in 1..l
    BY <2>1, <1>4, <1>6, <1>9, <1>16
  <2>2. CASE k = l + 1
    <3>1. h.no = n
      BY DEF n
    <3> QED BY <2>2, <3>1, <1>2, <1>3, <1>5, <1>15 DEF r
  <2> QED BY <1>5, <1>7, <2>1, <2>2
<1>18. ASSUME NEW j \in 1..Len(held), NEW k \in 1..Len(held), j < k
       PROVE  held[j].no < held[k].no
  <2>1. j \in 1..l
    BY <1>5, <1>7, <1>14, <1>18
  <2>2. CASE k \in 1..l
    BY <2>1, <2>2, <1>6, <1>18 DEF IsLog, l
  <2>3. CASE k = l + 1
    BY <2>1, <2>3, <1>5, <1>6, <1>10, <1>16 DEF n
  <2> QED BY <1>5, <1>7, <2>2, <2>3
<1>19. ASSUME NEW k \in 1..Len(grown), grown[k].entity = e, grown[k].table = t
       PROVE  \E j \in 1..Len(held) : held[j].no = k
  <2>1. CASE k = n
    BY <2>1, <1>5, <1>13 DEF n
  <2>2. CASE k \in 1..Len(all)
    <3>1. all[k].entity = e /\ all[k].table = t
      BY <2>2, <1>4, <1>19
    <3>2. PICK j \in 1..l : holders[j].no = k
      BY <2>2, <3>1 DEF IsLog, l
    <3> QED BY <3>2, <1>5, <1>6, <1>12
  <2> QED BY <1>8, <2>1, <2>2
<1> QED BY <1>17, <1>18, <1>19 DEF IsLog, held, grown, r

\* What a registration does to the table it is made in.
LEMMA InsertKeepsHolders ==
    ASSUME NEW S, NEW holders \in Seq(S), NEW h \in S
    PROVE  Insert(holders, h) \in Seq(S)
<1>1. CASE Has(holders, h.id)
  <2> DEFINE f == [k \in DOMAIN holders |-> IF holders[k].id = h.id THEN h ELSE holders[k]]
  <2>1. DOMAIN holders = 1..Len(holders) /\ Len(holders) \in Nat /\ \A k \in DOMAIN holders : holders[k] \in S
    OBVIOUS
  <2>2. f \in [1..Len(holders) -> S]
    BY <2>1
  <2>3. f \in Seq(S)
    BY <2>1, <2>2
  <2> QED BY <1>1, <2>3 DEF Insert
<1>2. CASE ~Has(holders, h.id)
  BY <1>2 DEF Insert
<1> QED BY <1>1, <1>2

LEMMA RegisterKeepsInv ==
    ASSUME RegistryInv, NEW t \in Threads, NEW e \in Entities, NEW table \in Tables,
           NEW id \in Names, NEW instance \in Resources \cup {None},
           Register(t, e, table, id, instance)
    PROVE  RegistryInv'
<1> DEFINE h == Holder(id, Len(log) + 1, instance)
           r == Here(e, table, id)
<1>1. CASE table \in poisoned[e]
  <2>1. UNCHANGED <<log, registered, poisoned, entities, todo, listed>>
    BY <1>1 DEF Register, loopVars
  <2> QED BY <2>1 DEF RegistryInv, RegistryTypeOK, SoundTablesAreLogs, ListedSoFar
<1>2. CASE table \notin poisoned[e]
  <2>1. /\ Len(log) < MaxLog /\ log' = Append(log, r) /\ UNCHANGED <<entities, todo, listed>>
        /\ registered' = [registered EXCEPT ![e][table] = Insert(@, h)]
        /\ IF Has(registered[e][table], id)
           THEN poisoned' = [poisoned EXCEPT ![e] = @ \cup {table}]
           ELSE poisoned' = poisoned
    BY <1>2 DEF Register, Here, loopVars
  <2>2. log \in Seq(Registrations) /\ Len(log) \in Nat /\ r \in Registrations /\ Len(log) + 1 \in 1..MaxLog
    BY <2>1, RegistryAssumption DEF RegistryInv, RegistryTypeOK, Here, Registrations
  <2>3. h \in Holders /\ h.id = id /\ h.no = Len(log) + 1
    BY <2>2 DEF Holder, Holders
  <2>4. registered[e][table] \in Seq(Holders)
    BY DEF RegistryInv, RegistryTypeOK
  <2>5. Insert(registered[e][table], h) \in Seq(Holders)
    BY <2>3, <2>4, InsertKeepsHolders
  <2> HIDE DEF h, r
  <2>6. /\ registered' \in [Entities -> [Tables -> Seq(Holders)]]
        /\ registered'[e][table] = Insert(registered[e][table], h)
        /\ \A f \in Entities, u \in Tables :
              f # e \/ u # table => registered'[f][u] = registered[f][u]
    BY <2>1, <2>5 DEF RegistryInv, RegistryTypeOK
  <2>7. /\ poisoned' \in [Entities -> SUBSET Tables]
        /\ \A f \in Entities : poisoned[f] \subseteq poisoned'[f]
        /\ Has(registered[e][table], id) => table \in poisoned'[e]
    <3>1. poisoned \in [Entities -> SUBSET Tables]
      BY DEF RegistryInv, RegistryTypeOK
    <3>2. CASE Has(registered[e][table], id)
      BY <2>1, <3>1, <3>2
    <3>3. CASE ~Has(registered[e][table], id)
      BY <2>1, <3>1, <3>3
    <3> QED BY <3>2, <3>3
  <2>8. log' \in Seq(Registrations) /\ Len(log') = Len(log) + 1
    BY <2>1, <2>2, AppendedLast
  <2>9. RegistryTypeOK'
    BY <2>1, <2>2, <2>6, <2>7, <2>8, RegistryAssumption DEF RegistryInv, RegistryTypeOK
  <2>10. ASSUME NEW f \in Entities, NEW u \in Tables, u \notin poisoned'[f]
         PROVE  IsLog(registered'[f][u], log', f, u)
    <3>1. IsLog(registered[f][u], log, f, u)
      BY <2>7, <2>10 DEF RegistryInv, SoundTablesAreLogs
    <3>2. CASE f # e \/ u # table
      <4>1. r.entity # f \/ r.table # u
        BY <3>2 DEF r, Here
      <4> QED BY <3>1, <3>2, <4>1, <2>1, <2>2, <2>6, OtherTablesStay
    <3>3. CASE f = e /\ u = table
      <4>1. ~Has(registered[e][table], id)
        BY <3>3, <2>7, <2>10
      <4>2. registered'[e][table] = Append(registered[e][table], h)
        BY <4>1, <2>3, <2>6 DEF Insert
      <4> QED BY <3>1, <3>3, <4>1, <4>2, <2>1, <2>2, <2>3, <2>4, FirstRegistration DEF r
    <3> QED BY <3>2, <3>3
  <2>11. ListedSoFar'
    <3>1. listed' = listed
      BY <2>1
    <3>2. ASSUME NEW k \in 1..Len(listed)
          PROVE  listed[k] \in 1..Len(log') /\ FirstIn(log', listed[k])
      <4>1. listed[k] \in 1..Len(log) /\ FirstIn(log, listed[k])
        BY DEF RegistryInv, ListedSoFar
      <4> QED BY <4>1, <2>1, <2>2, <2>8, OriginalsStay
    <3> QED BY <3>1, <3>2 DEF ListedSoFar
  <2> QED BY <2>9, <2>10, <2>11 DEF RegistryInv, SoundTablesAreLogs
<1> QED BY <1>1, <1>2

\* GetOrCreateEntity and nothing else changes `entities`.
LEMMA GetOrCreateKeepsInv ==
    ASSUME RegistryInv, NEW t \in Threads, NEW e \in Entities, GetOrCreateEntity(t, e)
    PROVE  RegistryInv'
<1>1. entities' = entities \/ entities' = Append(entities, e)
  BY DEF GetOrCreateEntity
<1>2. entities \in Seq(Entities)
  BY DEF RegistryInv, RegistryTypeOK
<1>3. entities' \in Seq(Entities)
  BY <1>1, <1>2, AppendedLast
<1>4. UNCHANGED <<registered, log, poisoned, todo, listed>>
  BY DEF GetOrCreateEntity, lockVars, loopVars
<1> QED BY <1>3, <1>4 DEF RegistryInv, RegistryTypeOK, SoundTablesAreLogs, ListedSoFar

\* What neither registers nor lists keeps the invariant, whatever it poisons.
LEMMA PoisonKeepsInv ==
    ASSUME RegistryInv, UNCHANGED <<entities, registered, log, todo, listed>>,
           poisoned' = poisoned
             \/ \E e \in Entities, t \in Tables : poisoned' = [poisoned EXCEPT ![e] = @ \cup {t}]
    PROVE  RegistryInv'
<1>1. /\ poisoned' \in [Entities -> SUBSET Tables]
      /\ \A e \in Entities : poisoned[e] \subseteq poisoned'[e]
  BY DEF RegistryInv, RegistryTypeOK
<1>2. RegistryTypeOK'
  BY <1>1 DEF RegistryInv, RegistryTypeOK
<1>3. SoundTablesAreLogs'
  BY <1>1 DEF RegistryInv, SoundTablesAreLogs
<1>4. ListedSoFar'
  BY DEF RegistryInv, ListedSoFar
<1> QED BY <1>2, <1>3, <1>4 DEF RegistryInv

-----------------------------------------------------------------------------
(* Replies. *)

\* The registrations a sound table names are the first of their identifiers.
LEMMA NumbersAreFirst ==
    ASSUME RegistryInv, NEW e \in Entities, NEW t \in Tables, t \notin poisoned[e],
           NEW k \in 1..Len(registered[e][t])
    PROVE  /\ registered[e][t][k].no \in 1..Len(log)
           /\ FirstIn(log, registered[e][t][k].no)
BY DEF RegistryInv, SoundTablesAreLogs, IsLog

\* So are those a listing adds.
LEMMA ListNextKeepsInv ==
    ASSUME RegistryInv, ListNext
    PROVE  RegistryInv'
<1>1. CASE "operations" \in poisoned[Head(todo)]
  <2>1. UNCHANGED <<entities, registered, log, todo, listed, poisoned>>
    BY <1>1 DEF ListNext, LoopDies, registryVars
  <2> QED BY <2>1, PoisonKeepsInv
<1>2. CASE "operations" \notin poisoned[Head(todo)]
  <2> DEFINE e == Head(todo)
             holders == registered[e]["operations"]
             nos == Numbers(holders)
  <2>1. /\ listed' = listed \o nos
        /\ todo' = Tail(todo) /\ UNCHANGED <<entities, registered, log, poisoned>>
    BY <1>2 DEF ListNext, registryVars, lockVars
  <2>2. e \in Entities /\ Tail(todo) \in Seq(Entities) /\ "operations" \in Tables
    BY DEF ListNext, RegistryInv, RegistryTypeOK, Tables
  <2>3. holders \in Seq(Holders) /\ DOMAIN holders = 1..Len(holders) /\ Len(holders) \in Nat
    BY <2>2 DEF RegistryInv, RegistryTypeOK
  <2>4. \A k \in 1..Len(holders) : holders[k].no \in 1..Len(log) /\ FirstIn(log, holders[k].no)
    BY <1>2, <2>2, NumbersAreFirst
  <2>5. Len(log) \in Nat /\ MaxLog \in Nat /\ Len(log) <= MaxLog
    BY RegistryAssumption DEF RegistryInv, RegistryTypeOK
  <2>6. \A k \in 1..Len(holders) : holders[k].no \in 1..MaxLog
    BY <2>4, <2>5
  <2> HIDE DEF holders
  <2>7. /\ nos \in Seq(1..MaxLog) /\ Len(nos) = Len(holders)
        /\ \A k \in 1..Len(nos) : nos[k] = holders[k].no
    <3>1. nos \in [1..Len(holders) -> 1..MaxLog]
      BY <2>3, <2>6 DEF Numbers
    <3>2. nos \in Seq(1..MaxLog) /\ Len(nos) = Len(holders)
      BY <2>3, <3>1, FunctionIsSequence
    <3> QED BY <2>3, <3>2 DEF Numbers
  <2> HIDE DEF nos
  <2>8. listed \in Seq(1..MaxLog) /\ Len(listed) \in Nat /\ Len(nos) \in Nat
    BY <2>7 DEF RegistryInv, RegistryTypeOK
  <2>9. /\ listed' \in Seq(1..MaxLog) /\ Len(listed') = Len(listed) + Len(nos)
        /\ \A k \in 1..Len(listed) : listed'[k] = listed[k]
        /\ \A k \in 1..Len(listed') : k \in 1..Len(listed) \/
              (k - Len(listed) \in 1..Len(nos) /\ listed'[k] = nos[k - Len(listed)])
    BY <2>1, <2>7, <2>8
  <2>10. RegistryTypeOK'
    BY <2>1, <2>2, <2>9 DEF RegistryInv, RegistryTypeOK
  <2>11. SoundTablesAreLogs'
    BY <2>1 DEF RegistryInv, SoundTablesAreLogs
  <2>12. ASSUME NEW k \in 1..Len(listed')
         PROVE  listed'[k] \in 1..Len(log) /\ FirstIn(log, listed'[k])
    <3>1. CASE k \in 1..Len(listed)
      BY <2>9, <3>1 DEF RegistryInv, ListedSoFar
    <3>2. CASE k - Len(listed) \in 1..Len(nos) /\ listed'[k] = nos[k - Len(listed)]
      BY <2>4, <2>7, <3>2
    <3> QED BY <2>9, <3>1, <3>2
  <2>13. ListedSoFar'
    BY <2>1, <2>12 DEF ListedSoFar
  <2> QED BY <2>10, <2>11, <2>13 DEF RegistryInv
<1> QED BY <1>1, <1>2

-----------------------------------------------------------------------------
(* Every step. *)

LEMMA ThreadStepKeepsInv ==
    ASSUME RegistryInv, NEW t \in Threads, ThreadStep(t)
    PROVE  RegistryInv'
<1>1. ASSUME NEW e \in Entities, GetOrCreateEntity(t, e) PROVE RegistryInv'
  BY <1>1, GetOrCreateKeepsInv
<1>2. ASSUME NEW e \in Entities, DirectListPanics(t, e) PROVE RegistryInv'
  <2>1. UNCHANGED <<entities, registered, log, todo, listed, poisoned>>
    BY <1>2 DEF DirectListPanics, registryVars, lockVars, loopVars
  <2> QED BY <2>1, PoisonKeepsInv
<1>3. ASSUME NEW e \in Entities, NEW id \in Names, RegisterOperation(t, e, id)
      PROVE  RegistryInv'
  BY <1>3, RegisterKeepsInv DEF RegisterOperation, Tables
<1>4. ASSUME NEW e \in Entities, NEW id \in Names, NEW resource \in Resources,
             RegisterDataResource(t, e, id, resource)
      PROVE  RegistryInv'
  BY <1>4, RegisterKeepsInv DEF RegisterDataResource, Tables
<1>5. ASSUME NEW e \in Entities, NEW id \in Names, NEW encoding \in Encodings,
             DirectReadPanics(t, e, id, encoding)
      PROVE  RegistryInv'
  <2>1. /\ UNCHANGED <<entities, registered, log, todo, listed>>
        /\ poisoned' = [poisoned EXCEPT ![e] = @ \cup {"resources"}]
    BY <1>5 DEF DirectReadPanics, registryVars, loopVars
  <2> QED BY <2>1, PoisonKeepsInv DEF Tables
<1>6. ASSUME NEW resource, NEW service, NEW userData, DirectWrite(t, resource, userData, service)
      PROVE  RegistryInv'
  <2>1. UNCHANGED <<entities, registered, log, todo, listed, poisoned>>
    BY <1>6 DEF DirectWrite, registryVars, lockVars, loopVars
  <2> QED BY <2>1, PoisonKeepsInv
<1> QED BY <1>1, <1>2, <1>3, <1>4, <1>5, <1>6 DEF ThreadStep

\* An answer changes nothing but the reply.
LEMMA AnswerKeepsInv ==
    ASSUME RegistryInv, NEW m, NEW result, NEW nos, AnswersAtOnce(m, result, nos)
    PROVE  RegistryInv'
<1>1. UNCHANGED <<entities, registered, log, todo, listed, poisoned>>
  BY DEF AnswersAtOnce, Answers, registryVars, lockVars, loopVars
<1> QED BY <1>1, PoisonKeepsInv

LEMMA ListAllKeepsInv ==
    ASSUME RegistryInv, NEW m, ListAllOperations(m)
    PROVE  RegistryInv'
<1>1. /\ UNCHANGED <<entities, registered, log, listed, poisoned>>
      /\ todo' = todo \/ todo' = entities
  BY DEF ListAllOperations, LoopDies, registryVars, lockVars
<1> QED BY <1>1 DEF RegistryInv, RegistryTypeOK, SoundTablesAreLogs, ListedSoFar

LEMMA ListEndsKeepsInv ==
    ASSUME RegistryInv, ListEnds
    PROVE  RegistryInv'
<1>1. UNCHANGED <<entities, registered, log, todo, poisoned>> /\ listed' = <<>>
  BY DEF ListEnds, Answers, registryVars, lockVars
<1> QED BY <1>1 DEF RegistryInv, RegistryTypeOK, SoundTablesAreLogs, ListedSoFar

LEMMA HandlesKeepsInv ==
    ASSUME RegistryInv, NEW m \in Requests, Handles(m)
    PROVE  RegistryInv'
<1>1. CASE EntityUnavailable(m)
  BY <1>1, AnswerKeepsInv DEF EntityUnavailable
<1>2. ASSUME NEW table, List(m, table) PROVE RegistryInv'
  <2>1. CASE LoopDies(poisoned, TRUE)
    <3>1. UNCHANGED <<entities, registered, log, todo, listed, poisoned>>
      BY <2>1 DEF LoopDies, registryVars
    <3> QED BY <3>1, PoisonKeepsInv
  <2>2. CASE AnswersAtOnce(m, Ok("list"), Numbers(registered[m.entity][table]))
    BY <2>2, AnswerKeepsInv
  <2> QED BY <1>2, <2>1, <2>2 DEF List
<1>3. CASE ListDataResources(m) \/ ListOperations(m)
  BY <1>2, <1>3 DEF ListDataResources, ListOperations
<1>4. CASE ListAllOperations(m)
  BY <1>4, ListAllKeepsInv
<1>5. CASE GetOperationMetadata(m)
  BY <1>5, AnswerKeepsInv DEF GetOperationMetadata
<1>6. CASE ReadNothing(m)
  BY <1>6, AnswerKeepsInv DEF ReadNothing
<1>7. CASE ReadDataResource(m)
  <2>1. m.entity \in Entities
    BY <1>7 DEF ReadDataResource, Requests
  <2>2. CASE LoopDies([poisoned EXCEPT ![m.entity] = @ \cup {"resources"}], TRUE)
    <3>1. /\ UNCHANGED <<entities, registered, log, todo, listed>>
          /\ poisoned' = [poisoned EXCEPT ![m.entity] = @ \cup {"resources"}]
      BY <2>2 DEF LoopDies, registryVars
    <3> QED BY <2>1, <3>1, PoisonKeepsInv DEF Tables
  <2>3. ASSUME NEW result, NEW nos, AnswersAtOnce(m, result, nos) PROVE RegistryInv'
    BY <2>3, AnswerKeepsInv
  <2> QED BY <1>7, <2>2, <2>3 DEF ReadDataResource
<1> QED BY <1>1, <1>3, <1>4, <1>5, <1>6, <1>7 DEF Handles

LEMMA NextRegistryInv == RegistryInv /\ [Next]_vars => RegistryInv'
<1> SUFFICES ASSUME RegistryInv, [Next]_vars PROVE RegistryInv'
  OBVIOUS
<1>1. CASE UNCHANGED vars
  <2>1. UNCHANGED <<entities, registered, log, todo, listed, poisoned>>
    BY <1>1 DEF vars, registryVars, lockVars, loopVars
  <2> QED BY <2>1, PoisonKeepsInv
<1>2. CASE Next
  BY <1>2, ThreadStepKeepsInv, HandlesKeepsInv, ListNextKeepsInv, ListEndsKeepsInv DEF Next
<1> QED BY <1>1, <1>2

\* However threads register and whatever panics, a table behind a sound mutex
\* is what was registered in it: once each, in order, nothing missing.
THEOREM RegistryInvariance == Spec => []RegistryInv
BY InitRegistryInv, NextRegistryInv, PTL DEF Spec

-----------------------------------------------------------------------------
(* What clients are told. *)

\* A step that replies nothing, or reports a write, tells clients nothing.
LEMMA SilentStep ==
    ASSUME reply'.ask \in {"nothing", "write"}
    PROVE  OriginalIsServed'
<1>1. \A m \in Requests : m.ask \notin {"nothing", "write"}
  BY DEF Requests
<1> QED BY <1>1 DEF OriginalIsServed

LEMMA NoReplyIsSilent ==
    ASSUME reply' = NoReply
    PROVE  OriginalIsServed'
BY SilentStep DEF NoReply

LEMMA OriginalIsFirst == \A n : Original(n) <=> FirstIn(log, n)
BY DEF Original, FirstIn

LEMMA AnswerFromFirst ==
    ASSUME NEW m, NEW since, NEW result, NEW nos, Answers(m, since, result, nos),
           \A k \in DOMAIN nos : FirstIn(log, nos[k])
    PROVE  OriginalIsServed'
<1>1. reply'.from = nos /\ log' = log
  BY DEF Answers, registryVars
<1>2. \A k \in DOMAIN nos : Original(nos[k])'
  BY <1>1 DEF Original, FirstIn
<1> QED BY <1>1, <1>2 DEF OriginalIsServed

LEMMA AnswerFromNothing ==
    ASSUME NEW m, NEW result, AnswersAtOnce(m, result, <<>>)
    PROVE  OriginalIsServed'
<1>1. \A k \in DOMAIN <<>> : FirstIn(log, <<>>[k])
  OBVIOUS
<1> QED BY <1>1, AnswerFromFirst DEF AnswersAtOnce

\* The holder an identifier is looked up as.
LEMMA LookupIsFirst ==
    ASSUME RegistryInv, NEW e \in Entities, NEW t \in Tables, t \notin poisoned[e],
           NEW id, Has(registered[e][t], id)
    PROVE  FirstIn(log, Lookup(registered[e][t], id).no)
<1>1. DOMAIN registered[e][t] = 1..Len(registered[e][t])
  BY DEF RegistryInv, RegistryTypeOK
<1>2. PICK k \in 1..Len(registered[e][t]) : Lookup(registered[e][t], id) = registered[e][t][k]
  BY <1>1 DEF Has, Lookup
<1> QED BY <1>2, NumbersAreFirst

LEMMA AnswerFromHolder ==
    ASSUME RegistryInv, NEW e \in Entities, NEW t \in Tables, t \notin poisoned[e],
           NEW id, Has(registered[e][t], id),
           NEW m, NEW result, AnswersAtOnce(m, result, <<Lookup(registered[e][t], id).no>>)
    PROVE  OriginalIsServed'
<1> DEFINE no == Lookup(registered[e][t], id).no
<1>1. FirstIn(log, no)
  BY LookupIsFirst
<1> HIDE DEF no
<1>2. \A k \in DOMAIN <<no>> : FirstIn(log, <<no>>[k])
  BY <1>1
<1> QED BY <1>2, AnswerFromFirst DEF AnswersAtOnce, no

LEMMA ListFromTable ==
    ASSUME RegistryInv, NEW m \in Requests, NEW table \in Tables, List(m, table),
           m.entity \in Entities
    PROVE  OriginalIsServed'
<1>1. CASE table \in poisoned[m.entity]
  BY <1>1, NoReplyIsSilent DEF List, LoopDies
<1>2. CASE table \notin poisoned[m.entity]
  <2> DEFINE nos == Numbers(registered[m.entity][table])
  <2>1. AnswersAtOnce(m, Ok("list"), nos)
    BY <1>2 DEF List
  <2>2. /\ DOMAIN nos = DOMAIN registered[m.entity][table]
        /\ \A k \in DOMAIN nos : nos[k] = registered[m.entity][table][k].no
    BY DEF Numbers
  <2>3. DOMAIN registered[m.entity][table] = 1..Len(registered[m.entity][table])
    BY DEF RegistryInv, RegistryTypeOK
  <2>4. \A k \in DOMAIN nos : FirstIn(log, nos[k])
    BY <1>2, <2>2, <2>3, NumbersAreFirst
  <2> QED BY <2>1, <2>4, AnswerFromFirst DEF AnswersAtOnce
<1> QED BY <1>1, <1>2

LEMMA HandlesServesOriginal ==
    ASSUME RegistryInv, NEW m \in Requests, Handles(m)
    PROVE  OriginalIsServed'
<1> USE DEF Tables
<1>1. CASE EntityUnavailable(m)
  BY <1>1, AnswerFromNothing DEF EntityUnavailable
<1>2. CASE ListDataResources(m)
  <2>1. m.entity \in Entities
    BY <1>2 DEF ListDataResources, Requests
  <2> QED BY <1>2, <2>1, ListFromTable DEF ListDataResources
<1>3. CASE ListOperations(m)
  <2>1. m.entity \in Entities
    BY <1>3 DEF ListOperations, Requests
  <2> QED BY <1>3, <2>1, ListFromTable DEF ListOperations
<1>4. CASE ListAllOperations(m)
  BY <1>4, NoReplyIsSilent DEF ListAllOperations, LoopDies
<1>5. CASE GetOperationMetadata(m)
  <2>1. m.entity \in Entities
    BY <1>5 DEF GetOperationMetadata, Requests
  <2>2. \/ \E result : AnswersAtOnce(m, result, <<>>)
        \/ /\ "operations" \notin poisoned[m.entity]
           /\ Has(registered[m.entity]["operations"], m.id)
           /\ \E result : AnswersAtOnce(m, result, <<Lookup(registered[m.entity]["operations"], m.id).no>>)
    BY <1>5 DEF GetOperationMetadata
  <2> QED BY <2>1, <2>2, AnswerFromNothing, AnswerFromHolder
<1>6. CASE ReadNothing(m)
  BY <1>6, AnswerFromNothing DEF ReadNothing
<1>7. CASE ReadDataResource(m)
  <2>1. m.entity \in Entities
    BY <1>7 DEF ReadDataResource, Requests
  <2>2. \/ reply' = NoReply
        \/ /\ "resources" \notin poisoned[m.entity]
           /\ Has(registered[m.entity]["resources"], m.id)
           /\ \E result : AnswersAtOnce(m, result, <<Lookup(registered[m.entity]["resources"], m.id).no>>)
    BY <1>7 DEF ReadDataResource, LoopDies
  <2> QED BY <2>1, <2>2, NoReplyIsSilent, AnswerFromHolder
<1> QED BY <1>1, <1>2, <1>3, <1>4, <1>5, <1>6, <1>7 DEF Handles

LEMMA NextServesOriginal ==
    ASSUME RegistryInv, OriginalIsServed, [Next]_vars
    PROVE  OriginalIsServed'
<1>1. CASE UNCHANGED vars
  BY <1>1 DEF vars, registryVars, OriginalIsServed, Original
<1>2. ASSUME NEW t \in Threads, ThreadStep(t) PROVE OriginalIsServed'
  <2>1. CASE reply' = NoReply
    BY <2>1, NoReplyIsSilent
  <2>2. ASSUME NEW resource, NEW service, NEW userData, DirectWrite(t, resource, userData, service)
        PROVE  OriginalIsServed'
    BY <2>2, SilentStep DEF DirectWrite
  <2>3. ASSUME NEW e \in Entities, NEW table, NEW id, NEW instance, Register(t, e, table, id, instance)
        PROVE  reply' = NoReply
    BY <2>3 DEF Register
  <2>4. ASSUME NEW e \in Entities, NEW id, NEW encoding,
               \/ GetOrCreateEntity(t, e)
               \/ DirectListPanics(t, e)
               \/ DirectReadPanics(t, e, id, encoding)
        PROVE  reply' = NoReply
    BY <2>4 DEF GetOrCreateEntity, DirectListPanics, DirectReadPanics
  <2>5. CASE \E e \in Entities : \/ GetOrCreateEntity(t, e) \/ DirectListPanics(t, e)
    BY <2>1, <2>4, <2>5
  <2> QED BY <1>2, <2>1, <2>2, <2>3, <2>4, <2>5
        DEF ThreadStep, RegisterOperation, RegisterDataResource
<1>3. CASE ListNext
  BY <1>3, NoReplyIsSilent DEF ListNext, LoopDies
<1>4. CASE ListEnds
  <2>1. DOMAIN listed = 1..Len(listed)
    BY DEF RegistryInv, RegistryTypeOK
  <2>2. \A k \in DOMAIN listed : FirstIn(log, listed[k])
    BY <2>1 DEF RegistryInv, ListedSoFar
  <2> QED BY <1>4, <2>2, AnswerFromFirst DEF ListEnds
<1> QED BY <1>1, <1>2, <1>3, <1>4, HandlesServesOriginal DEF Next

\* What clients are told of an identifier comes from the first registration of
\* it, though a second one replaces it in the table before the panic.
THEOREM FirstRegistrationIsServed == Spec => []OriginalIsServed
<1>1. Init => OriginalIsServed
  <2>1. \A m \in Requests : m.ask # "nothing"
    BY DEF Requests
  <2> QED BY <2>1 DEF Init, NoReply, OriginalIsServed
<1> QED BY <1>1, RegistryInvariance, NextServesOriginal, PTL DEF Spec

-----------------------------------------------------------------------------
(* Listings are complete and in order. *)

\* What the loop is about to answer a listing with: nothing missing of what was
\* registered when it was asked, nothing foreign, in order within an entity.
Brackets(nos, since, m) ==
    /\ \A n \in 1..since : Matches(n, m) => In(nos, n)
    /\ \A k \in DOMAIN nos : nos[k] \in 1..Len(log) /\ Matches(nos[k], m)
    /\ \A j, k \in DOMAIN nos :
          j < k /\ log[nos[j]].entity = log[nos[k]].entity => nos[j] < nos[k]

\* Registrations are made on entities there are, each there once; and while the
\* loop lists, an operation registered before it began is listed or its entity
\* is yet to come, and what is listed is of an entity that is done.
ListingInv ==
    /\ Once(entities)
    /\ \A n \in 1..Len(log) : In(entities, log[n].entity)
    /\ loop = "idle" => listed = <<>>
    /\ loop = "listing" =>
        /\ Once(todo) /\ askedAt \in 0..Len(log)
        /\ \A n \in 1..askedAt :
              log[n].table = "operations" => In(listed, n) \/ In(todo, log[n].entity)
        /\ \A k \in DOMAIN listed :
              /\ listed[k] \in 1..Len(log) /\ log[listed[k]].table = "operations"
              /\ ~In(todo, log[listed[k]].entity)
        /\ \A j, k \in DOMAIN listed :
              j < k /\ log[listed[j]].entity = log[listed[k]].entity => listed[j] < listed[k]

LEMMA InitListingInv == Init => ListingInv
BY EmptyIn DEF Init, ListingInv, Once

\* A registration comes last, and changes none before it.
LEMMA GrownLog ==
    ASSUME RegistryInv, NEW r \in Registrations, log' = Append(log, r)
    PROVE  /\ Len(log) \in Nat /\ Len(log') = Len(log) + 1 /\ log'[Len(log) + 1] = r
           /\ \A n \in 1..Len(log) : n \in 1..Len(log') /\ log'[n] = log[n]
           /\ \A n \in 1..Len(log') : n \in 1..Len(log) \/ n = Len(log) + 1
<1>1. Len(log) \in Nat /\ Len(log') = Len(log) + 1 /\ log'[Len(log) + 1] = r
      /\ \A n \in 1..Len(log) : log'[n] = log[n]
  BY AppendedLast DEF RegistryInv, RegistryTypeOK
<1> QED BY <1>1

\* What does not touch the log or the listing keeps ListingInv.
LEMMA SameListing ==
    ASSUME ListingInv, UNCHANGED <<entities, log, todo, listed, askedAt>>,
           loop' = loop \/ loop' = "dead"
    PROVE  ListingInv'
BY DEF ListingInv, Once, In

LEMMA RegisterKeepsListing ==
    ASSUME RegistryInv, ListingInv, NEW t \in Threads, NEW e \in Entities, NEW table \in Tables,
           NEW id \in Names, NEW instance, Register(t, e, table, id, instance)
    PROVE  ListingInv'
<1>1. UNCHANGED <<entities, loop, todo, listed, askedAt>> /\ Known(e)
  BY DEF Register, loopVars, MayUse
<1>2. CASE log' = log
  BY <1>1, <1>2, SameListing
<1>3. CASE log' = Append(log, Here(e, table, id))
  <2>1. Here(e, table, id) \in Registrations /\ Here(e, table, id).entity = e
    BY DEF Here, Registrations
  <2> DEFINE r == Here(e, table, id)
  <2>2. /\ Len(log) \in Nat /\ Len(log') = Len(log) + 1 /\ log'[Len(log) + 1] = r
        /\ \A n \in 1..Len(log) : n \in 1..Len(log') /\ log'[n] = log[n]
        /\ \A n \in 1..Len(log') : n \in 1..Len(log) \/ n = Len(log) + 1
    BY <1>3, <2>1, GrownLog
  <2>3. In(entities, r.entity)
    BY <1>1, <2>1 DEF Known, In
  <2> HIDE DEF r
  <2>4. \A n \in 1..Len(log') : In(entities, log'[n].entity)
    BY <2>2, <2>3 DEF ListingInv
  <2>5. CASE loop = "listing"
    <3>1. askedAt \in 0..Len(log') /\ \A n \in 1..askedAt : n \in 1..Len(log)
      BY <2>2, <2>5 DEF ListingInv
    <3>2. \A n \in 1..askedAt :
              log'[n].table = "operations" => In(listed, n) \/ In(todo, log'[n].entity)
      BY <2>2, <2>5, <3>1 DEF ListingInv
    <3>3. \A k \in DOMAIN listed :
              /\ listed[k] \in 1..Len(log') /\ log'[listed[k]] = log[listed[k]]
              /\ log[listed[k]].table = "operations" /\ ~In(todo, log[listed[k]].entity)
      BY <2>2, <2>5 DEF ListingInv
    <3>4. \A j, k \in DOMAIN listed :
              j < k /\ log'[listed[j]].entity = log'[listed[k]].entity => listed[j] < listed[k]
      BY <2>5, <3>3 DEF ListingInv
    <3> QED BY <1>1, <2>4, <2>5, <3>1, <3>2, <3>3, <3>4 DEF ListingInv
  <2>6. CASE loop # "listing"
    BY <1>1, <2>4, <2>6 DEF ListingInv
  <2> QED BY <2>5, <2>6
<1> QED BY <1>2, <1>3 DEF Register, Here

LEMMA CreateKeepsListing ==
    ASSUME RegistryInv, ListingInv, NEW t \in Threads, NEW e \in Entities, GetOrCreateEntity(t, e)
    PROVE  ListingInv'
<1>1. UNCHANGED <<log, loop, todo, listed, askedAt>>
  BY DEF GetOrCreateEntity, loopVars
<1>2. CASE entities' = entities
  BY <1>1, <1>2, SameListing
<1>3. CASE entities' = Append(entities, e) /\ ~Known(e)
  <2>1. entities \in Seq(Entities) /\ ~In(entities, e)
    BY <1>3 DEF RegistryInv, RegistryTypeOK, Known, In
  <2>2. Once(entities') /\ \A d : In(entities, d) => In(entities', d)
    BY <1>3, <2>1, AppendIn DEF ListingInv
  <2> QED BY <1>1, <2>2 DEF ListingInv
<1> QED BY <1>2, <1>3 DEF GetOrCreateEntity

LEMMA ThreadStepKeepsListing ==
    ASSUME RegistryInv, ListingInv, NEW t \in Threads, ThreadStep(t)
    PROVE  ListingInv'
<1>1. ASSUME NEW e \in Entities, NEW id, NEW encoding, NEW resource, NEW service, NEW userData,
             \/ DirectListPanics(t, e) \/ DirectReadPanics(t, e, id, encoding)
             \/ DirectWrite(t, resource, userData, service)
      PROVE  ListingInv'
  <2>1. UNCHANGED <<entities, log, loop, todo, listed, askedAt>>
    BY <1>1 DEF DirectListPanics, DirectReadPanics, DirectWrite, registryVars, loopVars
  <2> QED BY <2>1, SameListing
<1>2. ASSUME NEW resource, NEW service, NEW userData, DirectWrite(t, resource, userData, service)
      PROVE  ListingInv'
  <2>1. UNCHANGED <<entities, log, loop, todo, listed, askedAt>>
    BY <1>2 DEF DirectWrite, registryVars, loopVars
  <2> QED BY <2>1, SameListing
<1>3. ASSUME NEW e \in Entities, DirectListPanics(t, e) PROVE ListingInv'
  BY <1>1, <1>3
<1>4. ASSUME NEW e \in Entities, NEW id, NEW encoding, DirectReadPanics(t, e, id, encoding)
      PROVE  ListingInv'
  BY <1>1, <1>4
<1>5. ASSUME NEW e \in Entities, NEW id \in Names,
             \/ RegisterOperation(t, e, id)
             \/ \E resource \in Resources : RegisterDataResource(t, e, id, resource)
      PROVE  ListingInv'
  BY <1>5, RegisterKeepsListing DEF RegisterOperation, RegisterDataResource, Tables
<1> QED BY <1>2, <1>3, <1>4, <1>5, CreateKeepsListing DEF ThreadStep

\* One entity more is listed.
LEMMA ListNextKeepsListing ==
    ASSUME RegistryInv, ListingInv, ListNext, "operations" \notin poisoned[Head(todo)]
    PROVE  ListingInv'
<1> DEFINE e == Head(todo)
           holders == registered[e]["operations"]
           nos == Numbers(holders)
<1>1. /\ loop = "listing" /\ todo # <<>>
      /\ listed' = listed \o nos /\ todo' = Tail(todo)
      /\ UNCHANGED <<entities, log, loop, askedAt>>
  BY DEF ListNext, registryVars
<1>2. /\ e \in Entities /\ todo \in Seq(Entities) /\ "operations" \in Tables
      /\ listed \in Seq(1..MaxLog) /\ MaxLog \in Nat /\ Len(log) \in Nat /\ Len(log) <= MaxLog
  BY <1>1, RegistryAssumption DEF RegistryInv, RegistryTypeOK, Tables
<1>3. IsLog(holders, log, e, "operations") /\ holders \in Seq(Holders)
  BY <1>2 DEF RegistryInv, RegistryTypeOK, SoundTablesAreLogs
<1>4. /\ DOMAIN nos = 1..Len(holders) /\ Len(holders) \in Nat
      /\ \A k \in 1..Len(holders) : nos[k] = holders[k].no
  BY <1>3 DEF Numbers
<1> HIDE DEF holders
<1>5. \A k \in DOMAIN nos :
          nos[k] \in 1..Len(log) /\ log[nos[k]] = Here(e, "operations", holders[k].id)
  BY <1>3, <1>4 DEF IsLog
<1>6. \A j, k \in DOMAIN nos : j < k => nos[j] < nos[k]
  BY <1>3, <1>4 DEF IsLog
<1>7. \A n \in 1..Len(log) : log[n].entity = e /\ log[n].table = "operations" => In(nos, n)
  BY <1>3, <1>4 DEF IsLog, In
<1> HIDE DEF nos
<1>8. nos \in Seq(1..MaxLog)
  <2>1. \A k \in 1..Len(holders) : nos[k] \in 1..MaxLog
    BY <1>2, <1>4, <1>5
  <2>2. nos = [k \in 1..Len(holders) |-> nos[k]]
    BY <1>4 DEF nos, Numbers
  <2> QED BY <1>4, <2>1, <2>2, FunctionIsSequence
<1>9. /\ \A d : In(listed', d) <=> In(listed, d) \/ In(nos, d)
      /\ \A k \in DOMAIN listed' :
            \/ k \in DOMAIN listed /\ listed'[k] = listed[k]
            \/ k - Len(listed) \in DOMAIN nos /\ listed'[k] = nos[k - Len(listed)] /\ k > Len(listed)
      /\ DOMAIN listed = 1..Len(listed) /\ Len(listed) \in Nat
      /\ DOMAIN listed' = 1..(Len(listed) + Len(nos))
  BY <1>1, <1>2, <1>8, ConcatIn
<1>10. /\ \A d : In(todo', d) <=> In(todo, d) /\ d # e
       /\ In(todo, e) /\ Once(todo')
  BY <1>1, <1>2, TailIn DEF ListingInv
<1>11. \A k \in DOMAIN nos : log[nos[k]].entity = e /\ log[nos[k]].table = "operations"
  <2>1. \A id : Here(e, "operations", id).entity = e /\ Here(e, "operations", id).table = "operations"
    BY DEF Here
  <2> QED BY <1>5, <2>1
<1> HIDE DEF e
<1>12. ASSUME NEW n \in 1..askedAt, log[n].table = "operations"
       PROVE  In(listed', n) \/ In(todo', log[n].entity)
  <2>1. n \in 1..Len(log)
    BY <1>1, <1>2 DEF ListingInv
  <2>2. In(listed, n) \/ In(todo, log[n].entity)
    BY <1>1, <1>12 DEF ListingInv
  <2> QED BY <1>7, <1>9, <1>10, <1>12, <2>1, <2>2
<1>13. ASSUME NEW k \in DOMAIN listed'
       PROVE  /\ listed'[k] \in 1..Len(log) /\ log[listed'[k]].table = "operations"
              /\ ~In(todo', log[listed'[k]].entity)
  <2>1. CASE k \in DOMAIN listed /\ listed'[k] = listed[k]
    BY <1>1, <1>10, <2>1 DEF ListingInv
  <2>2. CASE k - Len(listed) \in DOMAIN nos /\ listed'[k] = nos[k - Len(listed)]
    BY <1>5, <1>10, <1>11, <2>2
  <2> QED BY <1>9, <1>13, <2>1, <2>2
<1>14. ASSUME NEW j \in DOMAIN listed', NEW k \in DOMAIN listed', j < k,
              log[listed'[j]].entity = log[listed'[k]].entity
       PROVE  listed'[j] < listed'[k]
  <2>1. CASE k \in DOMAIN listed /\ listed'[k] = listed[k]
    <3>1. j \in DOMAIN listed /\ listed'[j] = listed[j]
      BY <1>9, <1>14, <2>1
    <3> QED BY <1>1, <1>14, <2>1, <3>1 DEF ListingInv
  <2>2. CASE /\ k - Len(listed) \in DOMAIN nos /\ listed'[k] = nos[k - Len(listed)]
             /\ j \in DOMAIN listed /\ listed'[j] = listed[j]
    <3>1. ~In(todo, log[listed[j]].entity)
      BY <1>1, <2>2 DEF ListingInv
    <3> QED BY <1>10, <1>11, <1>14, <2>2, <3>1
  <2>3. CASE /\ k - Len(listed) \in DOMAIN nos /\ listed'[k] = nos[k - Len(listed)]
             /\ j - Len(listed) \in DOMAIN nos /\ listed'[j] = nos[j - Len(listed)]
    <3>1. j - Len(listed) < k - Len(listed)
      BY <1>9, <1>14
    <3> QED BY <1>6, <2>3, <3>1
  <2> QED BY <1>9, <1>14, <2>1, <2>2, <2>3
<1> QED BY <1>1, <1>10, <1>12, <1>13, <1>14 DEF ListingInv

LEMMA NextListingInv == RegistryInv /\ ListingInv /\ [Next]_vars => ListingInv'
<1> SUFFICES ASSUME RegistryInv, ListingInv, [Next]_vars PROVE ListingInv'
  OBVIOUS
<1>1. CASE UNCHANGED vars
  BY <1>1, SameListing DEF vars, registryVars, loopVars
<1>2. ASSUME NEW tables, NEW held, LoopDies(tables, held) PROVE ListingInv'
  BY <1>2, SameListing DEF LoopDies, registryVars
<1>3. ASSUME NEW m, NEW result, NEW nos, AnswersAtOnce(m, result, nos) PROVE ListingInv'
  BY <1>3, SameListing DEF AnswersAtOnce, Answers, registryVars, loopVars
<1>4. CASE ListNext
  BY <1>2, <1>4, ListNextKeepsListing DEF ListNext
<1>5. CASE ListEnds
  <2>1. UNCHANGED <<entities, log>> /\ loop' = "idle" /\ listed' = <<>>
    BY <1>5 DEF ListEnds, Answers, registryVars
  <2> QED BY <2>1 DEF ListingInv
<1>6. ASSUME NEW m, ListAllOperations(m) PROVE ListingInv'
  <2>1. CASE entitiesPoisoned
    BY <1>2, <1>6, <2>1 DEF ListAllOperations
  <2>2. CASE ~entitiesPoisoned
    <3>1. /\ loop = "idle" /\ loop' = "listing" /\ todo' = entities /\ askedAt' = Len(log)
          /\ UNCHANGED <<entities, log, listed>>
      BY <1>6, <2>2 DEF ListAllOperations, registryVars
    <3>2. listed' = <<>> /\ Len(log) \in Nat
      BY <3>1 DEF ListingInv, RegistryInv, RegistryTypeOK
    <3>3. DOMAIN listed' = {}
      BY <3>2
    <3> QED BY <3>1, <3>2, <3>3 DEF ListingInv
  <2> QED BY <2>1, <2>2
<1>7. ASSUME NEW m \in Requests, Handles(m) PROVE ListingInv'
  <2>1. ASSUME NEW table, List(m, table) PROVE ListingInv'
    BY <1>2, <1>3, <2>1 DEF List
  <2>2. CASE GetOperationMetadata(m)
    <3>1. \E result, nos : AnswersAtOnce(m, result, nos)
      BY <2>2 DEF GetOperationMetadata
    <3> QED BY <1>3, <3>1
  <2>3. CASE ReadDataResource(m)
    BY <1>2, <1>3, <2>3 DEF ReadDataResource
  <2>4. CASE EntityUnavailable(m) \/ ReadNothing(m)
    BY <1>3, <2>4 DEF EntityUnavailable, ReadNothing
  <2> QED BY <1>6, <1>7, <2>1, <2>2, <2>3, <2>4 DEF Handles, ListDataResources, ListOperations
<1> QED BY <1>1, <1>4, <1>5, <1>7, ThreadStepKeepsListing DEF Next

THEOREM ListingInvariance == Spec => []ListingInv
BY InitListingInv, NextListingInv, RegistryInvariance, PTL DEF Spec

\* The answer is what the loop was about to answer.
LEMMA BracketedAnswer ==
    ASSUME RegistryInv, NEW m, NEW since, NEW result, NEW nos,
           Answers(m, since, result, nos), Brackets(nos, since, m)
    PROVE  ListIsBracketed'
<1>1. reply'.from = nos /\ reply'.since = since /\ reply'.request = m /\ log' = log
  BY DEF Answers, registryVars
<1>2. DOMAIN log = 1..Len(log)
  BY DEF RegistryInv, RegistryTypeOK
<1>3. \A n : Matches(n, m)' <=> Matches(n, m)
  BY <1>1 DEF Matches
<1> QED BY <1>1, <1>2, <1>3 DEF ListIsBracketed, Brackets, In

\* What is no listing, or no success, says nothing.
LEMMA NoListing ==
    ASSUME \/ reply'.ask \notin {"ListDataResources", "ListOperations", "ListAllOperations"}
           \/ reply'.result.is # "Ok"
    PROVE  ListIsBracketed'
BY DEF ListIsBracketed

LEMMA ListBrackets ==
    ASSUME RegistryInv, NEW m \in Requests, NEW table \in Tables, List(m, table),
           m.entity \in Entities, m.ask = IF table = "resources" THEN "ListDataResources" ELSE "ListOperations"
    PROVE  ListIsBracketed'
<1>1. CASE table \in poisoned[m.entity]
  BY <1>1, NoListing DEF List, LoopDies, NoReply
<1>2. CASE table \notin poisoned[m.entity]
  <2> DEFINE e == m.entity
             holders == registered[e][table]
             nos == Numbers(holders)
  <2>1. Answers(m, Len(log), Ok("list"), nos)
    BY <1>2 DEF List, AnswersAtOnce
  <2>2. IsLog(holders, log, e, table) /\ holders \in Seq(Holders)
    BY <1>2 DEF RegistryInv, RegistryTypeOK, SoundTablesAreLogs
  <2>3. /\ DOMAIN nos = 1..Len(holders)
        /\ \A k \in 1..Len(holders) : nos[k] = holders[k].no
    BY <2>2 DEF Numbers
  <2>4. \A n : Matches(n, m) <=> log[n].entity = e /\ log[n].table = table
    BY DEF Matches, Tables
  <2>5. \A id : Here(e, table, id).entity = e /\ Here(e, table, id).table = table
    BY DEF Here
  <2> HIDE DEF holders, nos, e
  <2>6. \A n \in 1..Len(log) : Matches(n, m) => In(nos, n)
    BY <2>2, <2>3, <2>4 DEF IsLog, In
  <2>7. \A k \in DOMAIN nos : nos[k] \in 1..Len(log) /\ Matches(nos[k], m)
    BY <2>2, <2>3, <2>4, <2>5 DEF IsLog
  <2>8. \A j, k \in DOMAIN nos : j < k => nos[j] < nos[k]
    BY <2>2, <2>3 DEF IsLog
  <2> QED BY <2>1, <2>6, <2>7, <2>8, BracketedAnswer DEF Brackets
<1> QED BY <1>1, <1>2

LEMMA ListAllBrackets ==
    ASSUME RegistryInv, ListingInv, ListEnds
    PROVE  ListIsBracketed'
<1> DEFINE m == [ask |-> "ListAllOperations"]
<1>1. /\ loop = "listing" /\ todo = <<>>
      /\ Answers(m, askedAt, Ok("list"), listed)
  BY DEF ListEnds
<1>2. \A n : Matches(n, m) <=> log[n].table = "operations"
  BY DEF Matches
<1> HIDE DEF m
<1>3. \A d : ~In(todo, d)
  BY <1>1, EmptyIn
<1>4. Brackets(listed, askedAt, m)
  BY <1>1, <1>2, <1>3 DEF ListingInv, Brackets
<1> QED BY <1>1, <1>4, BracketedAnswer

LEMMA NextBrackets ==
    ASSUME RegistryInv, ListingInv, ListIsBracketed, [Next]_vars
    PROVE  ListIsBracketed'
<1>1. CASE UNCHANGED vars
  BY <1>1 DEF vars, registryVars, ListIsBracketed, Matches
<1>2. CASE reply' = NoReply
  BY <1>2, NoListing DEF NoReply
<1>3. ASSUME NEW t \in Threads, ThreadStep(t) PROVE ListIsBracketed'
  <2>1. ASSUME NEW resource, NEW service, NEW userData, DirectWrite(t, resource, userData, service)
        PROVE  ListIsBracketed'
    BY <2>1, NoListing DEF DirectWrite
  <2>2. ASSUME NEW e \in Entities, NEW table, NEW id, NEW instance, Register(t, e, table, id, instance)
        PROVE  reply' = NoReply
    BY <2>2 DEF Register
  <2>3. ASSUME NEW e \in Entities, NEW id, NEW encoding,
               \/ GetOrCreateEntity(t, e)
               \/ DirectListPanics(t, e)
               \/ DirectReadPanics(t, e, id, encoding)
        PROVE  reply' = NoReply
    BY <2>3 DEF GetOrCreateEntity, DirectListPanics, DirectReadPanics
  <2>4. CASE \E e \in Entities : \/ GetOrCreateEntity(t, e) \/ DirectListPanics(t, e)
    BY <1>2, <2>3, <2>4
  <2> QED BY <1>2, <1>3, <2>1, <2>2, <2>3, <2>4
        DEF ThreadStep, RegisterOperation, RegisterDataResource
<1>4. CASE ListNext
  BY <1>2, <1>4 DEF ListNext, LoopDies
<1>5. CASE ListEnds
  BY <1>5, ListAllBrackets
<1>6. ASSUME NEW m \in Requests, Handles(m) PROVE ListIsBracketed'
  <2>1. CASE EntityUnavailable(m)
    <3>1. PICK error : reply'.result = Err(error)
      BY <2>1 DEF EntityUnavailable, AnswersAtOnce, Answers, Refusal
    <3>2. reply'.result.is # "Ok"
      BY <3>1 DEF Err
    <3> QED BY <3>2, NoListing
  <2>2. CASE ListDataResources(m)
    <3>1. m.entity \in Entities
      BY <2>2 DEF ListDataResources, Requests
    <3> QED BY <2>2, <3>1, ListBrackets DEF ListDataResources, Tables
  <2>3. CASE ListOperations(m)
    <3>1. m.entity \in Entities
      BY <2>3 DEF ListOperations, Requests
    <3> QED BY <2>3, <3>1, ListBrackets DEF ListOperations, Tables
  <2>4. CASE ListAllOperations(m)
    BY <1>2, <2>4 DEF ListAllOperations, LoopDies
  <2>5. ASSUME NEW result, NEW nos, AnswersAtOnce(m, result, nos),
               m.ask \in {"GetOperationMetadata", "ReadDataResource"}
        PROVE  ListIsBracketed'
    BY <2>5, NoListing DEF AnswersAtOnce, Answers
  <2>6. CASE GetOperationMetadata(m)
    <3>1. \E result, nos : AnswersAtOnce(m, result, nos)
      BY <2>6 DEF GetOperationMetadata
    <3> QED BY <2>5, <2>6, <3>1 DEF GetOperationMetadata
  <2>7. CASE ReadNothing(m)
    BY <2>5, <2>7 DEF ReadNothing
  <2>8. CASE ReadDataResource(m)
    <3>1. \/ reply' = NoReply
          \/ \E result, nos : AnswersAtOnce(m, result, nos)
      BY <2>8 DEF ReadDataResource, LoopDies
    <3> QED BY <1>2, <2>5, <2>8, <3>1 DEF ReadDataResource
  <2> QED BY <1>6, <2>1, <2>2, <2>3, <2>4, <2>6, <2>7, <2>8 DEF Handles
<1> QED BY <1>1, <1>3, <1>4, <1>5, <1>6 DEF Next

\* A listing is complete and in order, although entities are listed one by one
\* while threads create and register on others.
THEOREM ListingsAreBracketed == Spec => []ListIsBracketed
<1>1. Init => ListIsBracketed
  BY DEF Init, NoReply, ListIsBracketed
<1> QED BY <1>1, RegistryInvariance, ListingInvariance, NextBrackets, PTL DEF Spec

-----------------------------------------------------------------------------
(* Types. *)

ControlTypes ==
    /\ entitiesPoisoned \in BOOLEAN
    /\ thread \in [Threads -> {"alive", "dead"}]
    /\ loop \in {"idle", "listing", "dead"}
    /\ askedAt \in 0..MaxLog

LEMMA NextControlTypes == RegistryInv /\ ControlTypes /\ [Next]_vars => ControlTypes'
<1> SUFFICES ASSUME RegistryInv, ControlTypes, [Next]_vars PROVE ControlTypes'
  OBVIOUS
<1>1. MaxLog \in Nat /\ Len(log) \in 0..MaxLog
  BY RegistryAssumption DEF RegistryInv, RegistryTypeOK
<1>2. CASE UNCHANGED vars
  BY <1>2 DEF vars, lockVars, loopVars, ControlTypes
<1>3. ASSUME NEW t \in Threads, ThreadStep(t) PROVE ControlTypes'
  <2>1. UNCHANGED <<entitiesPoisoned, loop, askedAt>> /\ (thread' = thread \/ Dies(t))
    BY <1>3 DEF ThreadStep, GetOrCreateEntity, RegisterOperation, RegisterDataResource, Register,
                DirectListPanics, DirectReadPanics, DirectWrite, lockVars, loopVars
  <2> QED BY <2>1 DEF ControlTypes, Dies
<1>4. ASSUME NEW tables, NEW held \in BOOLEAN, LoopDies(tables, held) PROVE ControlTypes'
  BY <1>4 DEF LoopDies, ControlTypes
<1>5. ASSUME NEW m, NEW result, NEW nos, AnswersAtOnce(m, result, nos) PROVE ControlTypes'
  BY <1>5 DEF AnswersAtOnce, Answers, lockVars, loopVars, ControlTypes
<1>6. CASE ListNext
  BY <1>4, <1>6 DEF ListNext, lockVars, ControlTypes
<1>7. CASE ListEnds
  BY <1>1, <1>7 DEF ListEnds, Answers, lockVars, ControlTypes
<1>8. ASSUME NEW m \in Requests, Handles(m) PROVE ControlTypes'
  <2>1. CASE ListAllOperations(m)
    BY <1>1, <1>4, <2>1 DEF ListAllOperations, lockVars, ControlTypes
  <2>2. CASE GetOperationMetadata(m)
    <3>1. \E result, nos : AnswersAtOnce(m, result, nos)
      BY <2>2 DEF GetOperationMetadata
    <3> QED BY <1>5, <3>1
  <2>3. CASE ReadDataResource(m)
    BY <1>4, <1>5, <2>3 DEF ReadDataResource
  <2>4. CASE EntityUnavailable(m) \/ ReadNothing(m)
    BY <1>5, <2>4 DEF EntityUnavailable, ReadNothing
  <2>5. CASE ListDataResources(m) \/ ListOperations(m)
    BY <1>4, <1>5, <2>5 DEF ListDataResources, ListOperations, List
  <2> QED BY <1>8, <2>1, <2>2, <2>3, <2>4, <2>5 DEF Handles
<1> QED BY <1>2, <1>3, <1>6, <1>7, <1>8 DEF Next

\* Every variable has the values it may have, and entities are there once.
THEOREM RegistryTypeCorrect == Spec => []TypeOK
<1>1. Init => ControlTypes
  <2> SUFFICES ASSUME Init PROVE ControlTypes
    OBVIOUS
  <2>1. thread \in [Threads -> {"alive", "dead"}]
    BY DEF Init
  <2>2. askedAt \in 0..MaxLog
    BY RegistryAssumption DEF Init
  <2> QED BY <2>1, <2>2 DEF Init, ControlTypes
<1>2. RegistryInv /\ ListingInv /\ ControlTypes => TypeOK
  <2> SUFFICES ASSUME RegistryInv, ListingInv, ControlTypes PROVE TypeOK
    OBVIOUS
  <2>1. \A j, k \in DOMAIN entities : entities[j] = entities[k] => j = k
    BY DEF ListingInv, Once
  <2> QED BY <2>1 DEF RegistryInv, RegistryTypeOK, Registrations, ControlTypes, TypeOK
<1> QED BY <1>1, <1>2, NextControlTypes, RegistryInvariance, ListingInvariance, PTL DEF Spec

-----------------------------------------------------------------------------
(* Panics stay where the locks confine them. *)

\* A step of a thread replies nothing to clients, and poisons tables only.
LEMMA ThreadStepPoisons ==
    ASSUME RegistryInv, NEW t \in Threads, ThreadStep(t)
    PROVE  /\ reply'.ask \in {"nothing", "write"}
           /\ \A e \in Entities : poisoned[e] \subseteq poisoned'[e]
           /\ UNCHANGED <<loop, entitiesPoisoned>>
<1> USE DEF RegistryInv, RegistryTypeOK, NoReply
<1>1. ASSUME NEW resource, NEW service, NEW userData, DirectWrite(t, resource, userData, service)
      PROVE  reply'.ask = "write" /\ UNCHANGED <<loop, lockVars>>
  BY <1>1 DEF DirectWrite, loopVars
<1>2. ASSUME NEW e \in Entities, NEW table \in Tables, NEW id, NEW instance,
             Register(t, e, table, id, instance)
      PROVE  /\ reply' = NoReply /\ UNCHANGED <<loop, entitiesPoisoned>>
             /\ poisoned' = poisoned \/ poisoned' = [poisoned EXCEPT ![e] = @ \cup {table}]
  BY <1>2 DEF Register, loopVars
<1> DEFINE Confined(e) ==
        /\ reply' = NoReply /\ UNCHANGED <<loop, entitiesPoisoned>>
        /\ poisoned' = poisoned \/ poisoned' = [poisoned EXCEPT ![e] = @ \cup {"resources"}]
<1>3. ASSUME NEW e \in Entities, GetOrCreateEntity(t, e) \/ DirectListPanics(t, e)
      PROVE  Confined(e)
  BY <1>3 DEF GetOrCreateEntity, DirectListPanics, loopVars, lockVars
<1>14. ASSUME NEW e \in Entities, NEW id, NEW encoding, DirectReadPanics(t, e, id, encoding)
       PROVE  Confined(e)
  BY <1>14 DEF DirectReadPanics, loopVars, lockVars
<1>4. ASSUME NEW e \in Entities, NEW table, poisoned' = [poisoned EXCEPT ![e] = @ \cup {table}]
      PROVE  \A f \in Entities : poisoned[f] \subseteq poisoned'[f]
  BY <1>4
<1> DEFINE Poisons == \A f \in Entities : poisoned[f] \subseteq poisoned'[f]
<1>5. CASE \E resource, service, userData : DirectWrite(t, resource, userData, service)
  BY <1>1, <1>5 DEF lockVars
<1>6. ASSUME NEW e \in Entities, NEW table \in Tables, NEW id, NEW instance,
             Register(t, e, table, id, instance)
      PROVE  Poisons
  BY <1>2, <1>4, <1>6
<1>7. ASSUME NEW e \in Entities, Confined(e)
      PROVE  Poisons /\ reply'.ask = "nothing" /\ UNCHANGED <<loop, entitiesPoisoned>>
  BY <1>4, <1>7
<1> HIDE DEF Poisons, Confined
<1>8. CASE \E e \in Entities, table \in Tables : \E id, instance : Register(t, e, table, id, instance)
  BY <1>2, <1>6, <1>8 DEF Poisons
<1>9. CASE \E e \in Entities : GetOrCreateEntity(t, e) \/ DirectListPanics(t, e)
  BY <1>3, <1>7, <1>9 DEF Poisons
<1>11. CASE \E e \in Entities : \E id, encoding : DirectReadPanics(t, e, id, encoding)
  BY <1>7, <1>11, <1>14 DEF Poisons
<1>10. "resources" \in Tables /\ "operations" \in Tables
  BY DEF Tables
<1>12. CASE \E e \in Entities, id \in Names : RegisterOperation(t, e, id)
  BY <1>8, <1>10, <1>12 DEF RegisterOperation
<1>13. CASE \E e \in Entities, id \in Names, resource \in Resources : RegisterDataResource(t, e, id, resource)
  BY <1>8, <1>10, <1>13 DEF RegisterDataResource
<1> QED BY <1>5, <1>9, <1>11, <1>12, <1>13 DEF ThreadStep

\* The loop ends on a panic below a lock, or behind a mutex poisoned before.
LEMMA DeathHasOrigin ==
    ASSUME RegistryInv, NEW held, NEW e \in Entities, NEW table,
           \/ poisoned[e] # {} /\ LoopDies(poisoned, held)
           \/ LoopDies([poisoned EXCEPT ![e] = @ \cup {table}], held)
    PROVE  PoisonHasOrigin'
<1>1. poisoned'[e] # {}
  BY DEF LoopDies, RegistryInv, RegistryTypeOK
<1>2. loop' = "dead" /\ reply' = NoReply
  BY DEF LoopDies
<1> QED BY <1>1, <1>2 DEF PoisonHasOrigin, NoReply

\* An answer blames a mutex only for one that is poisoned.
LEMMA AnswerHasOrigin ==
    ASSUME PoisonHasOrigin, NEW m, NEW since, NEW result, NEW nos, Answers(m, since, result, nos),
           loop' = loop \/ loop' = "idle",
           \/ result # Err(MutexPoisoned) \/ nos # <<>>
           \/ m.ask \notin {"ReadDataResource", "GetOperationMetadata"}
           \/ poisoned[m.entity] # {},
           ~entitiesPoisoned
    PROVE  PoisonHasOrigin'
BY DEF PoisonHasOrigin, Answers, lockVars

\* Clients are refused without the mutex being blamed.
LEMMA RefusalBlamesNoMutex ==
    ASSUME NEW message, NEW code \in {"ErrorResponse", "PreconditionNotFulfilled"}
    PROVE  Refusal(code, message) # Err(MutexPoisoned)
BY DEF Refusal, MutexPoisoned, FromError, FromCode, Sovd, GenericError, ErrorCode, Err

LEMMA HandlesHasOrigin ==
    ASSUME RegistryInv, PoisonHasOrigin, NEW m \in Requests, Handles(m)
    PROVE  PoisonHasOrigin'
<1>0. loop = "idle" /\ ~entitiesPoisoned /\ (m.ask # "ListAllOperations" => m.entity \in Entities)
  BY DEF Handles, EntityUnavailable, ListDataResources, ListOperations, List, ListAllOperations,
         GetOperationMetadata, ReadNothing, ReadDataResource, Selects, PoisonHasOrigin, Requests
<1> USE DEF AnswersAtOnce, loopVars
<1>1. CASE EntityUnavailable(m)
  BY <1>0, <1>1, AnswerHasOrigin, RefusalBlamesNoMutex DEF EntityUnavailable
<1>2. ASSUME NEW table, m.ask \in {"ListDataResources", "ListOperations"}, List(m, table)
      PROVE  PoisonHasOrigin'
  <2>1. CASE table \in poisoned[m.entity]
    BY <1>0, <1>2, <2>1, DeathHasOrigin DEF List
  <2>2. CASE table \notin poisoned[m.entity]
    BY <1>0, <1>2, <2>2, AnswerHasOrigin DEF List
  <2> QED BY <2>1, <2>2
<1>3. CASE ListAllOperations(m)
  BY <1>0, <1>3 DEF ListAllOperations, PoisonHasOrigin, lockVars, NoReply
<1>4. CASE GetOperationMetadata(m)
  <2>1. CASE "operations" \in poisoned[m.entity]
    BY <1>0, <1>4, <2>1, AnswerHasOrigin DEF GetOperationMetadata
  <2>2. CASE "operations" \notin poisoned[m.entity] /\ Has(registered[m.entity]["operations"], m.id)
    <3>1. \E no : AnswersAtOnce(m, Ok("info"), <<no>>)
      BY <1>4, <2>2 DEF GetOperationMetadata
    <3> QED BY <1>0, <3>1, AnswerHasOrigin
  <2>3. CASE "operations" \notin poisoned[m.entity] /\ ~Has(registered[m.entity]["operations"], m.id)
    <3>1. AnswersAtOnce(m, Refusal("ErrorResponse", "no operation"), <<>>)
      BY <1>4, <2>3 DEF GetOperationMetadata
    <3> QED BY <1>0, <3>1, AnswerHasOrigin, RefusalBlamesNoMutex
  <2> QED BY <2>1, <2>2, <2>3
<1>5. CASE ReadNothing(m)
  <2>1. CASE "resources" \in poisoned[m.entity] /\ AnswersAtOnce(m, Err(MutexPoisoned), <<>>)
    BY <1>0, <2>1, AnswerHasOrigin
  <2>2. CASE AnswersAtOnce(m, Refusal("ErrorResponse", "no resource"), <<>>)
    BY <1>0, <2>2, AnswerHasOrigin, RefusalBlamesNoMutex
  <2> QED BY <1>5, <2>1, <2>2 DEF ReadNothing
<1>6. CASE ReadDataResource(m)
  <2>1. ASSUME NEW result, NEW no, AnswersAtOnce(m, result, <<no>>) PROVE PoisonHasOrigin'
    BY <1>0, <2>1, AnswerHasOrigin
  <2>2. \/ \E result, no : AnswersAtOnce(m, result, <<no>>)
        \/ LoopDies([poisoned EXCEPT ![m.entity] = @ \cup {"resources"}], TRUE)
    BY <1>6 DEF ReadDataResource
  <2>3. m.entity \in Entities
    BY <1>0, <1>6 DEF ReadDataResource
  <2> QED BY <2>1, <2>2, <2>3, DeathHasOrigin
<1> QED BY <1>1, <1>2, <1>3, <1>4, <1>5, <1>6 DEF Handles, ListDataResources, ListOperations

LEMMA NextHasOrigin == RegistryInv /\ PoisonHasOrigin /\ [Next]_vars => PoisonHasOrigin'
<1> SUFFICES ASSUME RegistryInv, PoisonHasOrigin, [Next]_vars PROVE PoisonHasOrigin'
  OBVIOUS
<1>1. CASE UNCHANGED vars
  BY <1>1 DEF vars, lockVars, loopVars, PoisonHasOrigin
<1>2. ASSUME NEW t \in Threads, ThreadStep(t) PROVE PoisonHasOrigin'
  BY <1>2, ThreadStepPoisons DEF PoisonHasOrigin
<1>3. CASE ListNext
  <2>1. Head(todo) \in Entities
    BY <1>3 DEF ListNext, RegistryInv, RegistryTypeOK
  <2>2. CASE "operations" \in poisoned[Head(todo)]
    BY <1>3, <2>1, <2>2, DeathHasOrigin DEF ListNext
  <2>3. CASE "operations" \notin poisoned[Head(todo)]
    BY <1>3, <2>3 DEF ListNext, PoisonHasOrigin, NoReply, lockVars
  <2> QED BY <2>2, <2>3
<1>4. CASE ListEnds
  <2>1. ~entitiesPoisoned
    BY <1>4 DEF ListEnds, PoisonHasOrigin
  <2> QED BY <1>4, <2>1, AnswerHasOrigin DEF ListEnds
<1> QED BY <1>1, <1>2, <1>3, <1>4, HandlesHasOrigin DEF Next

\* A loop that is over goes back to a panic that poisoned a table of an entity,
\* and so does every error of the runtime's own that blames a mutex.
THEOREM PanicsAreConfined == Spec => []PoisonHasOrigin
<1>1. Init => PoisonHasOrigin
  BY DEF Init, PoisonHasOrigin, NoReply
<1> QED BY <1>1, RegistryInvariance, NextHasOrigin, PTL DEF Spec

-----------------------------------------------------------------------------
(* Writes. *)

\* The two kinds of code cannot be taken for each other.
LEMMA CodesAreApart ==
    \A nrc, error : Uds(nrc) # Sovd(error) /\ Uds(nrc).of = "UDS" /\ Sovd(error).of = "SOVD"
<1> SUFFICES ASSUME NEW nrc, NEW error
             PROVE  Uds(nrc) # Sovd(error) /\ Uds(nrc).of = "UDS" /\ Sovd(error).of = "SOVD"
  OBVIOUS
<1>1. Uds(nrc).of = "UDS" /\ Sovd(error).of = "SOVD"
  BY DEF Uds, Sovd
<1> QED BY <1>1

\* An error of another name is no response code.
LEMMA OtherNamesReadBack ==
    ASSUME NEW error, error.sovd_error # ErrorCode.ErrorResponse
    PROVE  ReadBack(error) = Sovd(error)
BY DEF ReadBack

\* What is read back of the error of a failed write is what the service
\* returned, also if that was the text of an error of its own.
LEMMA ServiceErrorReadsBack ==
    ASSUME NEW s \in ServiceResults, s.is = "Err"
    PROVE  ReadBack(WriteError(s.error.code)) = s.error.code
<1>1. s.error.code \in ServiceCodes
  BY DEF ServiceCodes
<1>2. CASE s.error.code = Uds(s.error.code.nrc)
  <2>1. WriteError(s.error.code) = FromCode("ErrorResponse", s.error.code.nrc)
    BY <1>2, CodesAreApart DEF WriteError
  <2> QED BY <1>1, <1>2, <2>1 DEF ReadBack, FromCode, GenericError
<1>3. CASE /\ s.error.code = Sovd(s.error.code.error)
           /\ \A r \in ServiceResults :
                 r.is = "Err" /\ r.error.code.of = "UDS"
                    => r.error.code.nrc # s.error.code.error.message_text
  <2> DEFINE error == s.error.code.error
  <2>1. WriteError(s.error.code) = error
    BY <1>3, CodesAreApart DEF WriteError
  <2>2. Uds(error.message_text) \notin ServiceCodes
    <3> SUFFICES ASSUME NEW r \in ServiceResults, r.is = "Err", r.error.code = Uds(error.message_text)
                 PROVE  FALSE
      BY DEF ServiceCodes
    <3>1. r.error.code.of = "UDS" /\ r.error.code.nrc = error.message_text
      BY DEF Uds
    <3> QED BY <1>3, <3>1
  <2> QED BY <1>3, <2>1, <2>2 DEF ReadBack
<1> QED BY <1>2, <1>3, ServiceAssumption, CodesAreApart

\* What a write of the model comes with.
WriteInputs == {None, FromByteVector("data"), FromString("data"), FromJson("data")}

LEMMA PayloadsAreApart ==
    ASSUME NEW userData \in WriteInputs
    PROVE  userData = FromByteVector("data") <=> userData # None /\ userData.encoding = "Binary"
BY ServiceAssumption DEF WriteInputs, FromByteVector, FromString, FromJson, Payload

\* A write the service gets tells what it returned.
LEMMA ServedWriteTells ==
    ASSUME NEW resource \in Resources, resource.as = "adapter", resource.wdbi,
           NEW s \in ServiceResults
    PROVE  LET result == Write(resource, FromByteVector("data"), s).result IN
           /\ result.is = s.is
           /\ result.is = "Err" => ReadBack(result.error.error) = s.error.code
<1>1. FromByteVector("data").encoding = "Binary" /\ FromByteVector("data") # None
  BY ServiceAssumption DEF FromByteVector, Payload
<1>2. Write(resource, FromByteVector("data"), s) =
        IF s.is = "Ok" THEN WriteReady ELSE HandleFromError(DataErrorFromError(WriteError(s.error.code)))
  BY <1>1 DEF Write, AdapterWrite
<1>3. CASE s.is = "Ok"
  BY <1>2, <1>3 DEF WriteReady, Ready, Ok
<1>4. CASE s.is = "Err"
  <2> DEFINE error == WriteError(s.error.code)
  <2>1. ReadBack(error) = s.error.code
    BY <1>4, ServiceErrorReadsBack
  <2> HIDE DEF error
  <2>2. HandleFromError(DataErrorFromError(error)).result.is = "Err"
    BY DEF HandleFromError, Ready, Err
  <2>3. HandleFromError(DataErrorFromError(error)).result.error.error = error
    BY DEF HandleFromError, Ready, Err, DataErrorFromError, WithError, DataError
  <2> QED BY <1>2, <1>4, <2>1, <2>2, <2>3 DEF error
<1> QED BY <1>3, <1>4, ServiceAssumption

\* A write it does not get is refused under another name.
LEMMA RefusedWriteTells ==
    ASSUME NEW resource \in Resources, NEW userData \in WriteInputs, NEW s,
           ~(resource.as = "adapter" /\ resource.wdbi /\ userData = FromByteVector("data"))
    PROVE  LET result == Write(resource, userData, s).result IN
           result.is = "Err" /\ ReadBack(result.error.error) = Sovd(result.error.error)
<1> DEFINE Refused(code, message) == HandleFromError(DataErrorFromError(FromCode(code, message)))
<1>1. ASSUME NEW code \in {"PreconditionNotFulfilled", "IncompleteRequest"}, NEW message
      PROVE  LET result == Refused(code, message).result IN
             result.is = "Err" /\ ReadBack(result.error.error) = Sovd(result.error.error)
  <2> DEFINE error == FromCode(code, message)
  <2>1. ReadBack(error) = Sovd(error)
    BY OtherNamesReadBack DEF FromCode, GenericError, ErrorCode
  <2> HIDE DEF error
  <2>2. HandleFromError(DataErrorFromError(error)).result.is = "Err"
    BY DEF HandleFromError, Ready, Err
  <2>3. HandleFromError(DataErrorFromError(error)).result.error.error = error
    BY DEF HandleFromError, Ready, Err, DataErrorFromError, WithError, DataError
  <2> QED BY <2>1, <2>2, <2>3 DEF error
<1>2. CASE resource.as # "adapter"
  <2>1. Write(resource, userData, s) = HandleFromError(DataErrorFromError(FromCode("PreconditionNotFulfilled", "read only")))
    BY <1>2 DEF Write, DefaultWrite
  <2> HIDE DEF Refused
  <2> QED BY <1>1, <2>1 DEF Refused
<1>3. CASE resource.as = "adapter"
  <2>0. resource.wdbi \in BOOLEAN
    BY <1>3, ServiceAssumption
  <2>1. \/ Write(resource, userData, s) = Refused("PreconditionNotFulfilled", "no wdbi")
        \/ Write(resource, userData, s) = Refused("IncompleteRequest", "binary only")
    BY <1>3, <2>0, PayloadsAreApart DEF Write, AdapterWrite
  <2> HIDE DEF Refused
  <2> QED BY <1>1, <2>1
<1> QED BY <1>2, <1>3

LEMMA WriteTells ==
    ASSUME NEW t, NEW resource \in Resources, NEW s \in ServiceResults, NEW userData \in WriteInputs,
           DirectWrite(t, resource, userData, s)
    PROVE  WriteTellsCode'
<1>1. /\ reply'.resource = resource /\ reply'.userData = userData /\ reply'.service = s
      /\ reply'.handle = Write(resource, userData, s)
  BY DEF DirectWrite
<1>2. CASE resource.as = "adapter" /\ resource.wdbi /\ userData = FromByteVector("data")
  BY <1>1, <1>2, ServedWriteTells DEF WriteTellsCode
<1>3. CASE ~(resource.as = "adapter" /\ resource.wdbi /\ userData = FromByteVector("data"))
  BY <1>1, <1>3, RefusedWriteTells DEF WriteTellsCode
<1> QED BY <1>2, <1>3

\* The error of a failed write tells which code the service failed with, and a
\* missing precondition is not taken for a response code.
THEOREM FailedWritesTell == Spec => []WriteTellsCode
<1>1. Init => WriteTellsCode
  BY DEF Init, NoReply, WriteTellsCode
<1>2. ASSUME WriteTellsCode, [Next]_vars PROVE WriteTellsCode'
  <2>1. ASSUME reply'.ask # "write" PROVE WriteTellsCode'
    BY <2>1 DEF WriteTellsCode
  <2>2. NoReply.ask # "write" /\ \A m \in Requests : m.ask # "write"
    BY DEF NoReply, Requests
  <2>3. CASE UNCHANGED vars
    BY <1>2, <2>3 DEF vars, WriteTellsCode
  <2>4. ASSUME NEW t \in Threads, ThreadStep(t) PROVE WriteTellsCode'
    <3>1. \/ reply' = NoReply
          \/ \E resource \in Resources, s \in ServiceResults, userData \in WriteInputs :
                DirectWrite(t, resource, userData, s)
      BY <2>4 DEF ThreadStep, GetOrCreateEntity, RegisterOperation, RegisterDataResource, Register,
                  DirectListPanics, DirectReadPanics, WriteInputs
    <3> QED BY <2>1, <2>2, <3>1, WriteTells
  <2>5. ASSUME NEW m, NEW since, NEW result, NEW nos, Answers(m, since, result, nos)
        PROVE  reply'.ask = m.ask
    BY <2>5 DEF Answers
  <2>6. CASE ListNext \/ ListEnds
    <3>1. reply' = NoReply \/ reply'.ask = "ListAllOperations"
      BY <2>5, <2>6 DEF ListNext, LoopDies, ListEnds
    <3> QED BY <2>1, <2>2, <3>1
  <2>7. ASSUME NEW m \in Requests, Handles(m) PROVE WriteTellsCode'
    <3>1. reply' = NoReply \/ \E result, nos : AnswersAtOnce(m, result, nos)
      BY <2>7 DEF Handles, EntityUnavailable, ListDataResources, ListOperations, List, ListAllOperations,
                  GetOperationMetadata, ReadNothing, ReadDataResource, LoopDies
    <3> QED BY <2>1, <2>2, <2>5, <3>1 DEF AnswersAtOnce
  <2> QED BY <1>2, <2>3, <2>4, <2>6, <2>7 DEF Next
<1> QED BY <1>1, <1>2, PTL DEF Spec

=============================================================================
