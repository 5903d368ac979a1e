-------------------------- MODULE NegativeResponseCode --------------------------
(***************************************************************************)
(* UDS negative response codes on their way from the code that makes them  *)
(* to the one that reads them: the C++ error domain                        *)
(* (score/mw/diag/uds/negative_response_code.h and .cpp) and the Rust enum *)
(* (score/mw/diag/api/common.rs, module uds), which encode the same table. *)
(*                                                                         *)
(* An ErrorCode is an integer wider than the byte of a response code; the  *)
(* message of an enumerator is modelled by the enumerator itself.          *)
(***************************************************************************)
EXTENDS Integers

CONSTANTS
    Codes,      \* bound of the model: error codes of other domains
    None,       \* std::nullopt, and the message "Undefined ErrorCode!"
    Unread      \* nobody has read the code yet

ASSUME CodeAssumption ==
    /\ Codes \subseteq Int
    /\ None \notin Int /\ Unread \notin Int
    /\ None # Unread

Byte == 0..255

\* static_cast<std::uint8_t>
Truncated(code) == code % 256

\* enum class NegativeResponseCode
Enumerators ==
    (\h10..\h14) \cup {\h21, \h22} \cup (\h24..\h26) \cup {\h31} \cup (\h33..\h3A)
        \cup (\h50..\h5D) \cup (\h70..\h73) \cup {\h78, \h7E, \h7F}
        \cup (\h81..\h8D) \cup (\h8F..\h94) \cup {\hFF}

\* The enumerators the switch has a message for.
Described ==
    (\h10..\h14) \cup {\h21, \h22} \cup (\h24..\h26) \cup {\h31} \cup (\h33..\h3A)
        \cup (\h50..\h5D) \cup (\h70..\h73) \cup {\h78, \h7E, \h7F}
        \cup (\h81..\h8D) \cup (\h8F..\h94) \cup {\hFF}

GetMessageForNegativeResponseCode(nrc) == IF nrc \in Described THEN nrc ELSE None

\* Fault: the value is narrowed to a byte without a look at its range.
ToNegativeResponseCodeTruncates(code) ==
    LET raw == Truncated(code) IN
    IF GetMessageForNegativeResponseCode(raw) # None THEN raw ELSE None

\* Fault: an off-by-one in the upper bound.
ToNegativeResponseCodeOffByOne(code) ==
    IF code < 0 \/ code >= 255 THEN None
    ELSE LET raw == Truncated(code) IN
         IF GetMessageForNegativeResponseCode(raw) # None THEN raw ELSE None

ToNegativeResponseCode(code) ==
    IF code < 0 \/ code > 255 THEN None
    ELSE LET raw == Truncated(code) IN
         IF GetMessageForNegativeResponseCode(raw) # None THEN raw ELSE None

MessageFor(code) ==
    IF ToNegativeResponseCode(code) = None THEN None
    ELSE GetMessageForNegativeResponseCode(ToNegativeResponseCode(code))

\* VehicleManufacturerSpecificCNC in C++ ...
RangeMin == \hF0
RangeMax == \hFE

\* Fault: the upper bound is left out.
FromValueUnbounded(val) == IF val < RangeMin THEN None ELSE val

FromValue(val) == IF val < RangeMin \/ val > RangeMax THEN None ELSE val

\* ... and in Rust, where From<u8> panics.
FromBytePanics(val) == val \notin \hF0..\hFE

\* The Rust enum: 0x23 and 0x25 both mean no response from a subnet component,
\* and 0xFF is missing.
RustEnumerators == (Enumerators \ {\hFF}) \cup {\h23}

VARIABLES
    origin,     \* who made the code
    code,       \* the error code (C++), or the byte (Rust)
    decoded,    \* what ToNegativeResponseCode says of it
    text        \* what MessageFor says of it

vars == <<origin, code, decoded, text>>

Init ==
    /\ origin = "none"
    /\ code = None
    /\ decoded = Unread
    /\ text = Unread

Makes(who, value) ==
    /\ origin = "none"
    /\ origin' = who
    /\ code' = value
    /\ UNCHANGED <<decoded, text>>

\* MakeError of an enumerator, or of a code of the manufacturer's range, which
\* converts to the enum; an error code of some other origin.
MakeError == \E nrc \in Enumerators : Makes("enumerator", nrc)

MakeErrorInRange ==
    \E val \in Byte : FromValue(val) # None /\ Makes("range", FromValue(val))

AnyErrorCode == \E c \in Codes : Makes("foreign", c)

\* u8::from(NegativeResponseCode), for an enumerator and for a code of the
\* manufacturer's range.
IntoByte == \E nrc \in RustEnumerators : Makes("rust", nrc)

IntoByteInRange == \E val \in Byte : ~FromBytePanics(val) /\ Makes("rustRange", val)

Read ==
    /\ origin # "none" /\ decoded = Unread
    /\ decoded' = ToNegativeResponseCode(code)
    /\ text' = MessageFor(code)
    /\ UNCHANGED <<origin, code>>

Next ==
    \/ MakeError
    \/ MakeErrorInRange
    \/ AnyErrorCode
    \/ IntoByte
    \/ IntoByteInRange
    \/ Read

Spec == Init /\ [][Next]_vars

-----------------------------------------------------------------------------

\* A code is only ever read as itself and as one of the table: an error code
\* that is negative or too wide is not narrowed to a response code it does not
\* mean (negative_response_code.cpp, ToNegativeResponseCode).
DecodedIsTheCode == decoded \notin {None, Unread} => decoded = code /\ code \in Enumerators

\* Every enumerator survives the trip through an error, and has a message: no
\* case of the switch and no bound of the conversion forgets one.  A byte that
\* Rust makes of an enumerator is known to C++, but for 0x23, which C++ has as a
\* gap of the table (negative_response_code_test.cpp:103).
EnumeratorsAreRead ==
    decoded # Unread =>
        /\ origin = "enumerator" => decoded = code /\ text = code
        /\ origin = "rust" => decoded = IF code = \h23 THEN None ELSE code

\* The manufacturer's range holds no code of the table, so a code of that range
\* is never read as one with another meaning, and C++ and Rust agree about the
\* range.
RangeIsApart ==
    /\ origin \in {"range", "rustRange"} => decoded \in {None, Unread}
    /\ origin = "range" => ~FromBytePanics(code)
    /\ origin = "rustRange" => FromValue(code) # None

\* What the declaration of ToNegativeResponseCode says of std::nullopt: that
\* "code does not belong to the NRC error domain"
\* (negative_response_code.h:102). An error that MakeError made does.
NulloptMeansForeign == decoded = None => origin \notin {"enumerator", "range"}

=============================================================================
