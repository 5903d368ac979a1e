------------------------------- MODULE UdsRoutine -------------------------------
(***************************************************************************)
(* RoutineControlAdapter (score/mw/diag/api/uds_adapters.rs): a UDS        *)
(* RoutineControl service (uds.rs) as a SimpleOperation.  The adapter only *)
(* converts; what the service returns is an argument here.                 *)
(***************************************************************************)
EXTENDS DiagCommon

\* DiagnosticReply, None inside for the default one.
DiagnosticReply(payload) == [message_payload |-> payload]

\* A reply with the bytes of the service, if there are any.
ReplyWith(bytes) == IF bytes = None THEN None ELSE DiagnosticReply(FromByteVector(bytes))

\* What the user passes to the service: bytes, or nothing.
ByteInput(parameters) ==
    CASE parameters = None -> Ok(None)
      [] parameters # None /\ parameters.encoding = "Binary" -> Ok(parameters.content)
      [] OTHER -> Err(FromError(FromCode("PreconditionNotFulfilled", "binary only")))

\* StartRoutine: what the routine will end with, and the reply to its start.
StartRoutine(result, reply) == Ok([future |-> result, reply |-> reply])

RoutineResult(result) ==
    CASE result.is = "Err" -> result
      [] result.is = "Ok" /\ result.value = None -> Ok(DiagnosticReply(None))
      [] OTHER -> Ok(ReplyWith(result.value))

Start(parameters, service) ==
    IF ByteInput(parameters).is = "Err" THEN ByteInput(parameters)
    ELSE IF service.is = "Err" THEN service
    ELSE Ok([future |-> RoutineResult(service.value.future), reply |-> ReplyWith(service.value.reply)])

\* No arguments at all and none for the user are the same.
Stop(args, service) ==
    LET parameters == IF args = None THEN None ELSE args.user_parameters IN
    IF ByteInput(parameters).is = "Err" THEN ByteInput(parameters)
    ELSE IF service.is = "Err" THEN service
    ELSE Ok(ReplyWith(service.value))

=============================================================================
