---------------------------- MODULE MutationPath ----------------------------
(* The handlers that change the stored object, or list it: DELETE, abort of a
   multipart upload, single PUT and LIST.  What matters here is what each
   outcome of the backend does to the reservation: a mutation that certainly
   did not happen releases it, one that happened records it, one whose outcome
   is unknown leaves it. *)
EXTENDS RequestGate

WithEffect(r, effect, phase) ==
  req' = [req EXCEPT ![r].effect = effect, ![r].phase = phase]

\* Mutant: an unknown outcome releases like a failure.
LeaveUnknownReleased(r) ==
  \E happened \in BOOLEAN :
    req' = [req EXCEPT ![r].effect = happened, ![r].phase = "release"]

\* The call failed without telling whether the mutation happened.
LeaveUnknown(r) ==
  \E happened \in BOOLEAN :
    req' = [req EXCEPT ![r].effect = happened, ![r].phase = "ended",
                       ![r].answer = "error", ![r].cause = @ \cup {"unknown"}]

\* Any error of the backend, presigned, S3 or managed, leaves the reservation;
\* an observing managed store refuses before the call.
DeleteObject(r) ==
  /\ At(r, "call") /\ req[r].op = "delete"
  /\ \/ WithEffect(r, TRUE, "record") /\ NoFault
     \/ ToRelease(r) /\ NoFault
     \/ Fault /\ LeaveUnknown(r)
  /\ UNCHANGED reservation

\* An upload that is not found or not this workspace's releases; one that is
\* not open is answered as if it had been aborted; only an error past the start
\* of the transaction leaves the outcome open.
AbortUpload(r) ==
  /\ At(r, "call") /\ req[r].op = "abort"
  /\ \/ WithEffect(r, TRUE, "record") /\ NoFault
     \/ GoTo(r, "record") /\ NoFault
     \/ ToRelease(r) /\ NoFault
     \/ Fault /\ LeaveUnknown(r)
  /\ UNCHANGED reservation

ListObjects(r) ==
  /\ At(r, "call") /\ req[r].op = "list"
  /\ \/ GoTo(r, "record") /\ NoFault
     \/ ToRelease(r) /\ NoFault
  /\ UNCHANGED reservation

\* streaming_put_failure_response: an error that preserves the reservation
\* leaves it, every other one releases it.
PutFails(r, preserved) ==
  IF preserved THEN LeaveUnknown(r) ELSE ToRelease(r)

\* validate_streaming_backend: the backend cannot stream, or not durably.
BackendUnsuitable(r) == ToRelease(r)

\* The managed store's mode and the write mode of the process and the tenant:
\* refused before anything is begun.
WriteRefused(r) == ToRelease(r)

\* begin_streaming_sink: an intent whose insertion may have been accepted
\* preserves the reservation, although nothing is written.
BeginSink(r) ==
  /\ At(r, "sink")
  /\ \/ GoTo(r, "stream") /\ NoFault
     \/ (BackendUnsuitable(r) \/ WriteRefused(r)) /\ NoFault
     \/ PutFails(r, FALSE) /\ NoFault
     \/ Fault /\ Leave(r, "unknown")
  /\ UNCHANGED reservation

\* The body goes through verifier, decoder and pipeline into the sink; then the
\* output is verified and the usage evidence persisted, before the commit.  A
\* failure aborts the sink.
StreamBody(r) ==
  /\ At(r, "stream")
  /\ GoTo(r, "commit") \/ PutFails(r, FALSE)
  /\ NoFault /\ UNCHANGED reservation

\* The Avro form: the body is collected, verified, converted and written at once.
StreamAvro(r) ==
  /\ At(r, "stream") /\ ~ req[r].avro
  /\ \/ req' = [req EXCEPT ![r].phase = "commit", ![r].avro = TRUE]
     \/ PutFails(r, FALSE)
  /\ NoFault /\ UNCHANGED reservation

\* The object is stored: its usage is recorded before the answer.
PutCommitted(r) == WithEffect(r, TRUE, "record")

\* sink.complete: committed; failed before the commit started; or unknown.
CommitSink(r) ==
  /\ At(r, "commit")
  /\ \/ PutCommitted(r) /\ NoFault
     \/ PutFails(r, FALSE) /\ NoFault
     \/ Fault /\ PutFails(r, TRUE)
  /\ UNCHANGED reservation

MutationStep(r) ==
  \/ DeleteObject(r) \/ AbortUpload(r) \/ ListObjects(r)
  \/ BeginSink(r) \/ StreamBody(r) \/ StreamAvro(r) \/ CommitSink(r)
=============================================================================
