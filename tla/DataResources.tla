----------------------------- MODULE DataResources -----------------------------
(***************************************************************************)
(* Data resources: the handles of the DataResource trait                   *)
(* (score/mw/diag/api/data_resource.rs), the resource made of UDS services *)
(* (DataResourceAdapter, score/mw/diag/api/uds_adapters.rs, over the       *)
(* services of uds.rs), and the resources a user implements, as the        *)
(* example and the guide of the API do.  None of them keeps state of its   *)
(* own; what a UDS service answers is an argument here.                    *)
(***************************************************************************)
EXTENDS DiagCommon

(***************************************************************************)
(* Handles                                                                 *)
(***************************************************************************)

ReadReply(data) == [data |-> data, errors |-> None]

\* A handle holds the result, or a future that will produce it.
Ready(result) == [is |-> "Ready", result |-> result]
Pending(result) == [is |-> "Pending", result |-> result]

ReadReady(reply) == Ready(Ok(reply))
WriteReady == Ready(Ok("written"))
HandleFromError(error) == Ready(Err(error))
HandleFromFuture(result) == Pending(result)

\* A closure is run by a future, not by the call that makes the handle.
HandleFromClosure(result) == HandleFromFuture(result)

\* read() or write() does not return.
Panicked == [is |-> "Panicked"]

(***************************************************************************)
(* DataResourceAdapter                                                     *)
(***************************************************************************)

\* DataResourceAdapter::new, with_rdbi and with_wdbi: which services it has.
Adapter(rdbi, wdbi) == [as |-> "adapter", rdbi |-> rdbi, wdbi |-> wdbi]

\* service is what ReadDataByIdentifier::read returns, if it gets called.
AdapterRead(adapter, encoding, service) ==
    CASE ~adapter.rdbi ->
            HandleFromError(FromError(FromCode("PreconditionNotFulfilled", "no rdbi")))
      [] adapter.rdbi /\ encoding # "Binary" ->
            HandleFromError(FromError(FromCode("PreconditionNotFulfilled", "binary only")))
      [] adapter.rdbi /\ encoding = "Binary" ->
            IF service.is = "Ok"
            THEN ReadReady(ReadReply(FromByteVector(service.value)))
            ELSE HandleFromError(service.error)

\* Fault: a response code is reported as the precondition errors are.
WriteErrorUnnumbered(code) ==
    IF code.of = "SOVD" THEN code.error
    ELSE FromCode("PreconditionNotFulfilled", "write failed")

\* An SOVD error of the service is passed on; of a response code its number is
\* all the text says.  A payload of the error is lost in both cases.
WriteError(code) ==
    IF code.of = "SOVD" THEN code.error ELSE FromCode("ErrorResponse", code.nrc)

\* userData is None or a payload, service what WriteDataByIdentifier::write
\* returns, if it gets called.
AdapterWrite(adapter, userData, service) ==
    CASE ~adapter.wdbi ->
            HandleFromError(DataErrorFromError(FromCode("PreconditionNotFulfilled", "no wdbi")))
      [] adapter.wdbi /\ (userData = None \/ userData.encoding # "Binary") ->
            HandleFromError(DataErrorFromError(FromCode("IncompleteRequest", "binary only")))
      [] OTHER ->
            IF service.is = "Ok"
            THEN WriteReady
            ELSE HandleFromError(DataErrorFromError(WriteError(service.error.code)))

(***************************************************************************)
(* Resources a user implements                                             *)
(***************************************************************************)

User(kind) == [as |-> kind]

\* A resource that only knows UTF8 asserts it; it answers at once
\* (MyDataResource) or from a closure (BuildInfoResource of the guide).
UserRead(resource, encoding, value) ==
    LET reply == Ok(ReadReply(FromString(value))) IN
    CASE encoding # "UTF8" -> Panicked
      [] resource.as = "ready" -> Ready(reply)
      [] resource.as = "closure" -> HandleFromClosure(reply)

\* DataResource::write, unless the resource implements it.
DefaultWrite == HandleFromError(DataErrorFromError(FromCode("PreconditionNotFulfilled", "read only")))

\* DataResource::read of either kind.
Read(resource, encoding, service) ==
    IF resource.as = "adapter"
    THEN AdapterRead(resource, encoding, service)
    ELSE UserRead(resource, encoding, "value")

Write(resource, userData, service) ==
    IF resource.as = "adapter" THEN AdapterWrite(resource, userData, service) ELSE DefaultWrite

=============================================================================
