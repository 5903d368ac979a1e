------------------------------ MODULE DiagCommon ------------------------------
(***************************************************************************)
(* The values all of the Rust API speaks of (score/mw/diag/api/common.rs): *)
(* SOVD errors and their names, errors that carry an SOVD error or a UDS   *)
(* response code, message payloads and their encodings, and the Result of  *)
(* a diagnostic action.                                                    *)
(*                                                                         *)
(* A message text is modelled by a word for what it says.  Attributes and  *)
(* translation identifiers are carried along by the code and read by none  *)
(* of it: they are left out.                                               *)
(***************************************************************************)

CONSTANT None   \* Option::None

(***************************************************************************)
(* module sovd                                                             *)
(***************************************************************************)

\* sovd::ErrorCode with the name an error of that code is sent under.
ErrorCode ==
    [ ErrorResponse               |-> "error-response",
      IncompleteRequest           |-> "incomplete-request",
      InsufficientAccessRights    |-> "insufficient-access-rights",
      InvalidResponseContent      |-> "invalid-response-content",
      InvalidSignature            |-> "invalid-signature",
      LockBroken                  |-> "lock-broken",
      NotResponding               |-> "not-responding",
      PreconditionNotFulfilled    |-> "precondition-not-fulfilled",
      SovdServerFailure           |-> "sovd-server-failure",
      SovdServerMisconfigured     |-> "sovd-server-misconfigured",
      UpdateAutomatedNotSupported |-> "update-automated-not-supported",
      UpdateExecutionInProgress   |-> "update-execution-in-progress",
      UpdatePreparationInProgress |-> "update-preparation-in-progress",
      UpdateProcessInProgress     |-> "update-process-in-progress",
      VendorSpecific              |-> "vendor-specific" ]

GenericError(name, message, vendor) ==
    [sovd_error |-> name, message_text |-> message, vendor_error |-> vendor]

FromCode(code, message) == GenericError(ErrorCode[code], message, None)

FromVendorError(error, message) == GenericError(ErrorCode.VendorSpecific, message, error)

\* sovd::DataError: what is wrong with which element of a data resource.
DataError(path) == [path |-> path, error |-> None]
WithError(dataError, error) == [dataError EXCEPT !.error = error]
DataErrorFromError(error) == WithError(DataError(""), error)

(***************************************************************************)
(* Payloads                                                                *)
(***************************************************************************)

\* ReplyMessageEncoding; whether a JSON schema comes along is left out.
Encodings == {"Binary", "JSON", "UTF8"}

Payload(encoding, content) == [encoding |-> encoding, content |-> content]
FromByteVector(bytes) == Payload("Binary", bytes)
FromJson(value) == Payload("JSON", value)
FromString(text) == Payload("UTF8", text)

(***************************************************************************)
(* Error and Result                                                        *)
(***************************************************************************)

Sovd(error) == [of |-> "SOVD", error |-> error]
Uds(nrc) == [of |-> "UDS", nrc |-> nrc]

FromError(error) == [code |-> Sovd(error), payload |-> None]
FromNrc(nrc) == [code |-> Uds(nrc), payload |-> None]
WithPayload(error, payload) == [error EXCEPT !.payload = payload]

MutexPoisoned == FromError(FromCode("SovdServerFailure", "mutex"))

Ok(value) == [is |-> "Ok", value |-> value]
Err(error) == [is |-> "Err", error |-> error]

=============================================================================
