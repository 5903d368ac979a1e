----------------------- MODULE NegativeResponseCodeProofs -----------------------
(***************************************************************************)
(* What NegativeResponseCode.tla checks for the codes of one instance,     *)
(* proved for every integer.                                               *)
(***************************************************************************)
EXTENDS NegativeResponseCode, TLAPS

\* Within a byte the narrowing of ToNegativeResponseCode changes nothing.
LEMMA ByteIsKept ==
    ASSUME NEW c \in Byte
    PROVE  Truncated(c) = c
BY DEF Byte, Truncated

\* ToNegativeResponseCode is the identity on the table and nullopt elsewhere.
LEMMA DecodesTheTable ==
    ASSUME NEW c \in Int
    PROVE  ToNegativeResponseCode(c) = IF c \in Enumerators THEN c ELSE None
<1>1. CASE c \notin Byte
  <2>1. c < 0 \/ c > 255
    BY <1>1 DEF Byte
  <2>2. c \notin Enumerators
    BY <2>1 DEF Enumerators
  <2> QED BY <2>1, <2>2 DEF ToNegativeResponseCode
<1>2. CASE c \in Byte
  <2>1. Truncated(c) = c
    BY <1>2, ByteIsKept
  <2>2. ~(c < 0 \/ c > 255)
    BY <1>2 DEF Byte
  <2>3. c # None
    BY CodeAssumption
  <2>4. Described = Enumerators
    BY DEF Described, Enumerators
  <2> QED BY <2>1, <2>2, <2>3, <2>4 DEF ToNegativeResponseCode, GetMessageForNegativeResponseCode
<1> QED BY <1>1, <1>2

\* MessageFor has a message for the codes of the table and for no other.
LEMMA DescribesTheTable ==
    ASSUME NEW c \in Int
    PROVE  MessageFor(c) = IF c \in Enumerators THEN c ELSE None
<1>1. Described = Enumerators
  BY DEF Described, Enumerators
<1>2. c # None
  BY CodeAssumption
<1> QED BY <1>1, <1>2, DecodesTheTable DEF MessageFor, GetMessageForNegativeResponseCode

\* A code that was made has the value its origin gives it, and it is read with
\* the two functions of the module.
CInv ==
    /\ origin = "none" => decoded = Unread
    /\ origin # "none" => code \in Int
    /\ origin = "enumerator" => code \in Enumerators
    /\ origin = "rust" => code \in RustEnumerators
    /\ origin \in {"range", "rustRange"} => code \in RangeMin..RangeMax
    /\ decoded # Unread =>
          /\ decoded = ToNegativeResponseCode(code)
          /\ text = MessageFor(code)

\* Nothing but MakeError and its like makes a code, and nothing but Read reads it.
LEMMA CodesAreMadeOnce == Spec => []CInv
<1>1. Init => CInv
  BY DEF Init, CInv
<1>2. CInv /\ [Next]_vars => CInv'
  <2> SUFFICES ASSUME CInv, [Next]_vars PROVE CInv'
    OBVIOUS
  <2>1. CASE MakeError
    <3>1. PICK nrc \in Enumerators : Makes("enumerator", nrc)
      BY <2>1 DEF MakeError
    <3>2. nrc \in Int
      BY DEF Enumerators
    <3> QED BY <3>1, <3>2 DEF CInv, Makes
  <2>2. CASE MakeErrorInRange
    <3>1. PICK val \in Byte : FromValue(val) # None /\ Makes("range", FromValue(val))
      BY <2>2 DEF MakeErrorInRange
    <3>2. FromValue(val) \in RangeMin..RangeMax
      BY <3>1 DEF FromValue, Byte, RangeMin, RangeMax
    <3>3. FromValue(val) \in Int
      BY <3>2 DEF RangeMin, RangeMax
    <3> QED BY <3>1, <3>2, <3>3 DEF CInv, Makes
  <2>3. CASE AnyErrorCode
    BY <2>3, CodeAssumption DEF AnyErrorCode, CInv, Makes
  <2>4. CASE IntoByte
    <3>1. PICK nrc \in RustEnumerators : Makes("rust", nrc)
      BY <2>4 DEF IntoByte
    <3>2. nrc \in Int
      BY DEF RustEnumerators, Enumerators
    <3> QED BY <3>1, <3>2 DEF CInv, Makes
  <2>5. CASE IntoByteInRange
    <3>1. PICK val \in Byte : ~FromBytePanics(val) /\ Makes("rustRange", val)
      BY <2>5 DEF IntoByteInRange
    <3>2. val \in 240..254
      BY <3>1 DEF FromBytePanics
    <3>3. val \in RangeMin..RangeMax /\ val \in Int
      BY <3>2 DEF RangeMin, RangeMax
    <3> QED BY <3>1, <3>3 DEF CInv, Makes
  <2>6. CASE Read
    BY <2>6 DEF Read, CInv
  <2>7. CASE UNCHANGED vars
    BY <2>7 DEF vars, CInv
  <2> QED BY <2>1, <2>2, <2>3, <2>4, <2>5, <2>6, <2>7 DEF Next
<1> QED BY <1>1, <1>2, PTL DEF Spec

\* For every integer: ToNegativeResponseCode never reads a code as another one.
THEOREM NeverMisread == Spec => []DecodedIsTheCode
<1>1. CInv => DecodedIsTheCode
  <2> SUFFICES ASSUME CInv, decoded \notin {None, Unread}
               PROVE  decoded = code /\ code \in Enumerators
    BY DEF DecodedIsTheCode
  <2>1. code \in Int /\ decoded = ToNegativeResponseCode(code)
    BY DEF CInv
  <2> QED BY <2>1, DecodesTheTable
<1> QED BY <1>1, CodesAreMadeOnce, PTL

\* Every enumerator is read back as itself and has a message, and of what Rust
\* makes only 0x23 is not read.
THEOREM TableIsComplete == Spec => []EnumeratorsAreRead
<1>1. CInv => EnumeratorsAreRead
  <2> SUFFICES ASSUME CInv, decoded # Unread
               PROVE  /\ origin = "enumerator" => decoded = code /\ text = code
                      /\ origin = "rust" => decoded = IF code = 35 THEN None ELSE code
    BY DEF EnumeratorsAreRead
  <2>1. decoded = ToNegativeResponseCode(code) /\ text = MessageFor(code)
    BY DEF CInv
  <2>2. ASSUME origin = "enumerator" PROVE decoded = code /\ text = code
    <3>1. code \in Int /\ code \in Enumerators
      BY <2>2 DEF CInv
    <3> QED BY <2>1, <3>1, DecodesTheTable, DescribesTheTable
  <2>3. ASSUME origin = "rust" PROVE decoded = IF code = 35 THEN None ELSE code
    <3>1. code \in Int /\ code \in RustEnumerators
      BY <2>3 DEF CInv
    <3>2. code \in Enumerators <=> code # 35
      <4>1. 35 \notin Enumerators
        BY DEF Enumerators
      <4> QED BY <3>1, <4>1 DEF RustEnumerators
    <3> QED BY <2>1, <3>1, <3>2, DecodesTheTable
  <2> QED BY <2>2, <2>3
<1> QED BY <1>1, CodesAreMadeOnce, PTL

\* The manufacturer's range holds no code of the table, in C++ and in Rust.
THEOREM RangeHoldsNoTableCode == Spec => []RangeIsApart
<1>1. CInv => RangeIsApart
  <2> SUFFICES ASSUME CInv, origin \in {"range", "rustRange"}
               PROVE  /\ decoded \in {None, Unread}
                      /\ ~FromBytePanics(code)
                      /\ FromValue(code) # None
    BY DEF RangeIsApart
  <2>1. code \in 240..254
    BY DEF CInv, RangeMin, RangeMax
  <2>2. code \notin Enumerators
    <3>1. \A c \in 240..254 : c \notin Enumerators
      BY DEF Enumerators
    <3> QED BY <2>1, <3>1
  <2>3. code \in Int
    BY <2>1
  <2>4. decoded \in {None, Unread}
    BY <2>2, <2>3, DecodesTheTable DEF CInv
  <2>5. ~FromBytePanics(code)
    BY <2>1 DEF FromBytePanics
  <2>6. FromValue(code) # None
    <3>1. \A c \in 240..254 : FromValue(c) = c
      BY DEF FromValue, RangeMin, RangeMax
    <3> QED BY <2>1, <2>3, <3>1, CodeAssumption
  <2> QED BY <2>4, <2>5, <2>6
<1> QED BY <1>1, CodesAreMadeOnce, PTL

=============================================================================
