----------------------------- MODULE SequenceFacts -----------------------------
(* What proofs about queues and listings need of finite sequences. *)
EXTENDS Naturals, Sequences, TLAPS

In(s, c) == \E k \in DOMAIN s : s[k] = c
Once(s) == \A j, k \in DOMAIN s : s[j] = s[k] => j = k

\* Appending what is not there, and taking the head, keep elements apart.
LEMMA AppendIn ==
    ASSUME NEW S, NEW s \in Seq(S), NEW c \in S
    PROVE  /\ Append(s, c) \in Seq(S) /\ Len(Append(s, c)) = Len(s) + 1
           /\ \A d : In(Append(s, c), d) <=> In(s, d) \/ d = c
           /\ Once(s) /\ ~In(s, c) => Once(Append(s, c))
<1> DEFINE t == Append(s, c)
           n == Len(s)
<1>1. /\ t \in Seq(S) /\ n \in Nat /\ DOMAIN s = 1..n /\ DOMAIN t = 1..(n + 1)
      /\ Len(t) = n + 1 /\ t[n + 1] = c
  OBVIOUS
<1>2. \A k \in 1..n : t[k] = s[k]
  OBVIOUS
<1>3. /\ \A k \in 1..(n + 1) : k \in 1..n \/ k = n + 1
      /\ \A k \in 1..n : k \in 1..(n + 1)
      /\ n + 1 \in 1..(n + 1)
  BY <1>1
<1> HIDE DEF t, n
<1>4. \A d : In(t, d) <=> In(s, d) \/ d = c
  BY <1>1, <1>2, <1>3 DEF In
<1>5. Once(s) /\ ~In(s, c) => Once(t)
  BY <1>1, <1>2, <1>3 DEF In, Once
<1> QED BY <1>1, <1>4, <1>5 DEF t, n

LEMMA TailIn ==
    ASSUME NEW S, NEW s \in Seq(S), s # <<>>, Once(s)
    PROVE  /\ Head(s) \in S /\ In(s, Head(s))
           /\ Tail(s) \in Seq(S) /\ Len(Tail(s)) <= Len(s)
           /\ \A d : In(Tail(s), d) <=> In(s, d) /\ d # Head(s)
           /\ Once(Tail(s))
<1> DEFINE t == Tail(s)
           n == Len(s)
<1>1. /\ t \in Seq(S) /\ n \in Nat /\ n >= 1 /\ DOMAIN s = 1..n /\ DOMAIN t = 1..(n - 1)
      /\ Len(t) <= n /\ Head(s) = s[1] /\ Head(s) \in S
  OBVIOUS
<1>2. \A k \in 1..(n - 1) : t[k] = s[k + 1]
  OBVIOUS
<1>3. /\ \A k \in 1..n : k = 1 \/ (k - 1 \in 1..(n - 1) /\ (k - 1) + 1 = k)
      /\ \A k \in 1..(n - 1) : k + 1 \in 1..n /\ k + 1 # 1
      /\ \A j, k \in 1..(n - 1) : j + 1 = k + 1 => j = k
      /\ 1 \in 1..n
  BY <1>1
<1> HIDE DEF t, n
<1>4. ASSUME NEW d PROVE In(t, d) <=> In(s, d) /\ d # Head(s)
  <2>1. ASSUME In(t, d) PROVE In(s, d) /\ d # Head(s)
    BY <1>1, <1>2, <1>3, <2>1 DEF In, Once
  <2>2. ASSUME In(s, d), d # Head(s) PROVE In(t, d)
    <3>1. PICK k \in 1..n : s[k] = d
      BY <1>1, <2>2 DEF In
    <3>2. k - 1 \in 1..(n - 1) /\ (k - 1) + 1 = k
      BY <1>1, <1>3, <2>2, <3>1
    <3> QED BY <1>1, <1>2, <3>1, <3>2 DEF In
  <2> QED BY <2>1, <2>2
<1>5. Once(t)
  <2> SUFFICES ASSUME NEW j \in 1..(n - 1), NEW k \in 1..(n - 1), t[j] = t[k] PROVE j = k
    BY <1>1 DEF Once
  <2>1. s[j + 1] = s[k + 1] /\ j + 1 \in 1..n /\ k + 1 \in 1..n
    BY <1>2, <1>3
  <2> QED BY <1>1, <1>3, <2>1 DEF Once
<1>6. In(s, Head(s))
  BY <1>1, <1>3 DEF In
<1> QED BY <1>1, <1>4, <1>5, <1>6 DEF t, n

LEMMA EmptyIn == Once(<<>>) /\ \A c : ~In(<<>>, c)
BY DEF Once, In

\* One sequence after another: where its elements come from.
LEMMA ConcatIn ==
    ASSUME NEW S, NEW s \in Seq(S), NEW t \in Seq(S)
    PROVE  /\ s \o t \in Seq(S)
           /\ \A d : In(s \o t, d) <=> In(s, d) \/ In(t, d)
           /\ \A k \in DOMAIN (s \o t) :
                 \/ k \in DOMAIN s /\ (s \o t)[k] = s[k]
                 \/ k - Len(s) \in DOMAIN t /\ (s \o t)[k] = t[k - Len(s)] /\ k > Len(s)
           /\ DOMAIN s = 1..Len(s) /\ Len(s) \in Nat
           /\ DOMAIN (s \o t) = 1..(Len(s) + Len(t))
<1> DEFINE u == s \o t
           n == Len(s)
<1>1. /\ u \in Seq(S) /\ n \in Nat /\ Len(t) \in Nat
      /\ DOMAIN s = 1..n /\ DOMAIN t = 1..Len(t) /\ DOMAIN u = 1..(n + Len(t))
  OBVIOUS
<1>2. \A k \in 1..n : u[k] = s[k]
  OBVIOUS
<1>3. \A k \in 1..Len(t) : u[n + k] = t[k]
  OBVIOUS
<1>4. /\ \A k \in 1..(n + Len(t)) : k \in 1..n \/ (k - n \in 1..Len(t) /\ n + (k - n) = k /\ k > n)
      /\ \A k \in 1..n : k \in 1..(n + Len(t))
      /\ \A k \in 1..Len(t) : n + k \in 1..(n + Len(t))
  BY <1>1
<1> HIDE DEF u, n
<1>5. \A k \in DOMAIN u :
          \/ k \in DOMAIN s /\ u[k] = s[k]
          \/ k - n \in DOMAIN t /\ u[k] = t[k - n] /\ k > n
  BY <1>1, <1>2, <1>3, <1>4
<1>6. \A d : In(u, d) <=> In(s, d) \/ In(t, d)
  BY <1>1, <1>2, <1>3, <1>4 DEF In
<1> QED BY <1>1, <1>5, <1>6 DEF u, n
=============================================================================
