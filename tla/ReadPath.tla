------------------------------ MODULE ReadPath ------------------------------
(* Reads: the passthrough GET and HEAD, and the transformed GET in its three
   forms.  A transformed read inspects the stored object's metadata, opens the
   object, and checks that it opened what it had inspected.  If every component
   is prefix-safe the output is streamed while it is produced (direct); if not
   it is staged whole in an encrypted spool file first and replayed.  An Avro
   object is collected, converted and always spooled.

   Concurrently: others overwrite the object; a worker task transforms for a
   direct body and a replay task reads for a spooled one; the stale-file cleaner
   unlinks; all spools share one byte quota. *)
EXTENDS RequestGate

CONSTANTS
  SpoolQuota,   \* spools the quota has room for: each reserves the largest object
  SettlementAttempts,  \* DIRECT_READ_SETTLEMENT_ATTEMPTS
  MaxWrites     \* bound on overwrites by others

ReadAssumption ==
  SpoolQuota \in Nat /\ SettlementAttempts \in Nat \ {0} /\ MaxWrites \in Nat

VARIABLES
  object,   \* the stored object, its content numbered by the write that made it
  stream,   \* the events in each direct body's channel, and its worker
  spool,    \* each request's spool
  reserved  \* SpoolQuota::reserved_bytes, in objects

readVars == <<object, stream, spool, reserved>>

Kinds == {"text", "avro", "opaque"}
NoStream == [events |-> <<>>, live |-> FALSE, full |-> FALSE]
NoSpool == [phase |-> "none", file |-> FALSE]
StreamCapacity == 2

Validators == {"version", "etag", "weak"}

\* validator: what the backend's metadata carry to name the content by.
ReadInit ==
  /\ object \in [content : {1}, kind : Kinds, validator : Validators]
  /\ stream = [r \in Requests |-> NoStream]
  /\ spool = [r \in Requests |-> NoSpool]
  /\ reserved = 0

ReadTypeOK ==
  /\ object \in [content : 0 .. MaxWrites + 1, kind : Kinds, validator : Validators]
  /\ \A r \in Requests :
       /\ Len(stream[r].events) <= StreamCapacity
       /\ spool[r].phase \in {"none", "begun", "writing", "queued", "open"}
  /\ reserved \in 0 .. SpoolQuota

\* Another client's PUT.
Overwrite ==
  /\ object.content <= MaxWrites
  /\ \E kind \in Kinds :
       object' = [object EXCEPT !.content = @ + 1, !.kind = kind]
  /\ UNCHANGED <<gateVars, stream, spool, reserved>>

-----------------------------------------------------------------------------
(* GET and HEAD *)

\* open_error_response: not found, a bad range, a refused or failing source.
OpenError(r) == ToRelease(r)

\* open_backend_object: the object, from whichever backend, or an error.
OpenBackendObject(r, next) == next \/ OpenError(r)

\* What HEAD and GET tell of the object.
HeadMetadata == [kind |-> object.kind, content |-> object.content, validator |-> object.validator]
GetMetadata == [kind |-> object.kind, content |-> object.content, validator |-> object.validator]

\* The id "null" of an unversioned bucket, and a weak ETag, name no content.
IsImmutableVersionId(metadata) == metadata.validator = "version"
StrongEtag(metadata) == metadata.validator = "etag"

\* If-Match and its kin: 304 and 412 are not charged.
ConditionFails(r) == ToRelease(r)

\* GET as it is stored; with reads disabled nothing is served.
GetObject(r) ==
  /\ At(r, "open") /\ req[r].op = "get"
  /\ OpenBackendObject(r, MeteredRead(r)) \/ ConditionFails(r)
  /\ NoFault /\ UNCHANGED <<reservation, readVars>>

HeadObject(r) ==
  /\ At(r, "open") /\ req[r].op = "head"
  /\ OpenBackendObject(r, GoTo(r, "record")) \/ ConditionFails(r)
  /\ NoFault /\ UNCHANGED <<reservation, readVars>>

\* The metadata decide the form of a transformed read; what has no known
\* format, a range or an encoding is refused.
Preflight(r) ==
  /\ At(r, "preflight")
  /\ \/ /\ HeadMetadata.kind = "text"
        /\ req' = [req EXCEPT ![r].phase = "source", ![r].seen = HeadMetadata.content]
     \/ /\ HeadMetadata.kind = "avro"
        /\ req' = [req EXCEPT ![r].phase = "avro", ![r].seen = HeadMetadata.content, ![r].avro = TRUE]
     \/ ToRelease(r)
  /\ NoFault /\ UNCHANGED <<reservation, readVars>>

\* Mutant: the second preflight asks for the format alone.
SourceMatchesFormat(r) == GetMetadata.kind = "text"

\* The source GET is a second call; its metadata go through the preflight again
\* and must name the content the first call saw.
SourceMatches(r) ==
  /\ GetMetadata.kind = "text"
  /\ IsImmutableVersionId(GetMetadata) \/ StrongEtag(GetMetadata)
  /\ GetMetadata.content = req[r].seen

OpenSource(r) ==
  /\ At(r, "source")
  /\ \/ OpenBackendObject(r, /\ SourceMatches(r)
                             /\ req' = [req EXCEPT ![r].phase = "session", ![r].got = object.content])
     \/ ConditionFails(r)
  /\ NoFault /\ UNCHANGED <<reservation, readVars>>

\* avro_read_preflight: a range, a part or an encoding; it returns without releasing.
AvroRefused(r) == Leave(r, "avro")

\* The Avro form opens the object without comparing it with the preflight, and
\* an error in opening it returns without releasing, too.
OpenAvroSource(r) ==
  /\ At(r, "avro")
  /\ \/ req' = [req EXCEPT ![r].phase = "collect", ![r].got = GetMetadata.content]
     \/ AvroRefused(r) \/ Leave(r, "avro")
  /\ NoFault /\ UNCHANGED <<reservation, readVars>>

\* collect_opened_object: the whole source, up to the limit.
CollectAvro(r) ==
  /\ At(r, "collect")
  /\ GoTo(r, "convert") \/ ToRelease(r)
  /\ NoFault /\ UNCHANGED <<reservation, readVars>>

\* process_ocf rebuilds the container; without a spool nothing is converted.
ConvertAvro(r) ==
  /\ At(r, "convert")
  /\ GoTo(r, "spool") \/ ToRelease(r)
  /\ NoFault /\ UNCHANGED <<reservation, readVars>>

\* start_streaming_session
StartSession(r) ==
  /\ At(r, "session")
  /\ \/ /\ req[r].safe
        /\ GoTo(r, "first")
        /\ stream' = [stream EXCEPT ![r] = [NoStream EXCEPT !.live = TRUE]]
     \/ /\ ~ req[r].safe
        /\ GoTo(r, "spool") /\ UNCHANGED stream
     \/ ToRelease(r) /\ UNCHANGED stream
  /\ NoFault /\ UNCHANGED <<reservation, object, spool, reserved>>

-----------------------------------------------------------------------------
(* Direct: the worker, the handler's first event, the body *)

Push(r, event, live) ==
  /\ stream[r].live
  /\ Len(stream[r].events) < StreamCapacity
  /\ stream' = [stream EXCEPT ![r].events = Append(@, event), ![r].live = live,
                              ![r].full = @ \/ event = "data"]
  /\ UNCHANGED <<gateVars, object, spool, reserved>>

\* process_transformed_source emits what the pipeline lets through.  One piece
\* of data stands for all of them but the first.
EmitData(r) == ~ stream[r].full /\ Push(r, "data", TRUE)

\* "large": more than the grant allows, known only at the end.
EmitDone(r) == \E event \in {"done", "large"} : Push(r, event, FALSE)
EmitFailed(r) == Push(r, "failed", FALSE)

\* The receiver is gone: the worker's next send fails.
WorkerStops(r) ==
  /\ stream[r].live /\ req[r].phase \in {"ended", "detached"}
  /\ stream' = [stream EXCEPT ![r] = NoStream]
  /\ UNCHANGED <<gateVars, object, spool, reserved>>

Pop(r) == [stream EXCEPT ![r].events = Tail(@)]

\* The handler waits for the first event before it sends headers.  A pipeline
\* without output is settled whatever its size.
FirstEvent(r) ==
  /\ At(r, "first") /\ stream[r].events # <<>>
  /\ CASE Head(stream[r].events) = "failed" -> ToRelease(r) /\ stream' = Pop(r)
       [] Head(stream[r].events) = "data" -> GoTo(r, "body") /\ UNCHANGED stream
       [] OTHER -> GoTo(r, "settling") /\ stream' = Pop(r)
  /\ NoFault /\ UNCHANGED <<reservation, object, spool, reserved>>

PollData(r) ==
  /\ At(r, "body") /\ stream[r].events # <<>> /\ Head(stream[r].events) = "data"
  /\ req' = [req EXCEPT ![r].sent = TRUE]
  /\ stream' = Pop(r)
  /\ NoFault /\ UNCHANGED <<reservation, object, spool, reserved>>

\* A failure after the headers ends the body with an error; the reservation is
\* released by a spawned task unless something has been disclosed.
PollFailed(r) ==
  /\ At(r, "body") /\ stream[r].events # <<>> /\ Head(stream[r].events) = "failed"
  /\ req' = [req EXCEPT ![r].phase = IF req[r].sent THEN "ended" ELSE "detached",
                        ![r].answer = "truncated"]
  /\ stream' = Pop(r)
  /\ NoFault /\ UNCHANGED <<reservation, object, spool, reserved>>

PollDone(r) ==
  /\ At(r, "body") /\ stream[r].events # <<>> /\ Head(stream[r].events) \in {"done", "large"}
  /\ IF Head(stream[r].events) = "large"
     THEN req' = [req EXCEPT ![r].phase = "ended", ![r].answer = "truncated",
                             ![r].cause = @ \cup {"oversize"}]
     ELSE GoTo(r, "settling")
  /\ stream' = Pop(r)
  /\ NoFault /\ UNCHANGED <<reservation, object, spool, reserved>>

\* The end of the body is withheld while the usage is recorded, SettlementAttempts times at most.
Settle(r) ==
  /\ At(r, "settling")
  /\ \/ Recorded(r) /\ Answer(r, "ok") /\ NoFault
     \/ /\ Fault /\ (Recorded(r) \/ UNCHANGED reservation)
        /\ req' = IF req[r].tries + 1 = SettlementAttempts
                  THEN [req EXCEPT ![r].phase = "ended", ![r].answer = "truncated",
                                   ![r].cause = @ \cup {"control"}]
                  ELSE [req EXCEPT ![r].tries = @ + 1, ![r].cause = @ \cup {"control"}]
  /\ UNCHANGED readVars

\* The client goes away while its body is streamed or settled: an undisclosed
\* one releases its reservation from a spawned task.
BodyDropped(r) ==
  /\ req[r].phase \in {"body", "settling"} /\ ClientGone
  /\ req' = [req EXCEPT ![r].phase = IF req[r].sent THEN "ended" ELSE "detached",
                        ![r].cause = @ \cup {"cancelled"}]
  /\ UNCHANGED readVars
  /\ IF At(r, "settling") THEN Recorded(r) \/ UNCHANGED reservation ELSE UNCHANGED reservation

-----------------------------------------------------------------------------
(* Spooled *)

\* EncryptedReadSpool::begin: the quota first.
ReserveSpool(r) ==
  /\ At(r, "spool")
  /\ \/ /\ reserved < SpoolQuota
        /\ reserved' = reserved + 1
        /\ spool' = [spool EXCEPT ![r] = [phase |-> "begun", file |-> FALSE]]
        /\ GoTo(r, "creating")
     \/ ToRelease(r) /\ UNCHANGED <<reserved, spool>>
  /\ NoFault /\ UNCHANGED <<reservation, object, stream>>

FreeSpool(r) ==
  /\ spool' = [spool EXCEPT ![r] = NoSpool]
  /\ reserved' = reserved - 1

\* Then the directory and the file, each awaited; an error gives the quota back.
\* The value whose drop would do so exists only afterwards.
CreateSpool(r) ==
  /\ At(r, "creating") /\ spool[r].phase = "begun"
  /\ \/ /\ spool' = [spool EXCEPT ![r] = [phase |-> "writing", file |-> TRUE]]
        /\ GoTo(r, "spooling") /\ UNCHANGED reserved
     \/ FreeSpool(r) /\ ToRelease(r)
  /\ NoFault /\ UNCHANGED <<reservation, object, stream>>

\* The whole output is written and synced; into_body spawns the replay.  Then
\* the usage is recorded, unless the size is above the grant.
SpoolWritten(r) ==
  /\ At(r, "spooling") /\ spool[r].phase = "writing"
  /\ spool' = [spool EXCEPT ![r].phase = "queued"]
  /\ MeteredRead(r)
  /\ NoFault /\ UNCHANGED <<reservation, object, stream, reserved>>

\* Mutant: the error is returned without releasing.
SpoolFailsForgotten(r) ==
  /\ At(r, "spooling") /\ spool[r].phase = "writing"
  /\ FreeSpool(r)
  /\ Answer(r, "error")
  /\ NoFault /\ UNCHANGED <<reservation, object, stream>>

\* The source, the pipeline or the file fails: abort gives everything back.
SpoolFails(r) ==
  /\ At(r, "spooling") /\ spool[r].phase = "writing"
  /\ FreeSpool(r)
  /\ ToRelease(r)
  /\ NoFault /\ UNCHANGED <<reservation, object, stream>>

\* Mutant: a replay whose file is gone waits for it.
OpenReplayWaits(r) ==
  /\ spool[r].phase = "queued" /\ spool[r].file
  /\ spool' = [spool EXCEPT ![r].phase = "open"]
  /\ UNCHANGED <<req, reserved, reservation, budget, object, stream>>

\* stream_decrypted_file opens the file by name, at some later time; with the
\* file gone the body ends with an error.
OpenReplay(r) ==
  /\ spool[r].phase = "queued"
  /\ \/ spool[r].file /\ spool' = [spool EXCEPT ![r].phase = "open"] /\ UNCHANGED <<req, reserved>>
     \/ /\ ~ spool[r].file
        /\ FreeSpool(r)
        /\ req' = IF At(r, "replay") THEN [req EXCEPT ![r].phase = "ended", ![r].answer = "truncated"]
                                     ELSE req
  /\ UNCHANGED <<reservation, budget, object, stream>>

\* The headers are out and the replay is gone: the body is an error.
ReplayMissing(r) ==
  /\ At(r, "replay") /\ spool[r].phase = "none"
  /\ req' = [req EXCEPT ![r].phase = "ended", ![r].answer = "truncated"]
  /\ UNCHANGED <<reservation, budget, readVars>>

\* The client reads to the end, or stops reading; the file goes and the quota returns.
ReplayEnds(r) ==
  /\ At(r, "replay") /\ spool[r].phase = "open"
  /\ req' = [req EXCEPT ![r].phase = "ended", ![r].sent = TRUE]
  /\ FreeSpool(r)
  /\ UNCHANGED <<reservation, budget, object, stream>>

\* The handler or its response was dropped, or the response was an error: a
\* writer drops its spool, a replay finds its receiver gone.  A spool only begun
\* has nothing to drop.
SpoolDropped(r) ==
  /\ spool[r].phase \notin {"none", "begun"} /\ req[r].phase \in {"ended", "release"}
  /\ FreeSpool(r)
  /\ UNCHANGED <<gateVars, object, stream>>

\* cleanup_stale: a file that has not been written to for stale_after is
\* unlinked, whoever owns it.
CleanupStale(r) ==
  /\ spool[r].file
  /\ spool' = [spool EXCEPT ![r].file = FALSE]
  /\ UNCHANGED <<gateVars, object, stream, reserved>>

-----------------------------------------------------------------------------
WorkerStep(r) == EmitData(r) \/ EmitDone(r) \/ EmitFailed(r) \/ WorkerStops(r)

SpoolStep(r) == OpenReplay(r) \/ SpoolDropped(r)

ReadStep(r) ==
  \/ GetObject(r) \/ HeadObject(r) \/ Preflight(r) \/ OpenSource(r) \/ OpenAvroSource(r)
  \/ CollectAvro(r) \/ ConvertAvro(r) \/ StartSession(r)
  \/ FirstEvent(r) \/ PollData(r) \/ PollFailed(r) \/ PollDone(r) \/ Settle(r)
  \/ ReserveSpool(r) \/ CreateSpool(r) \/ SpoolWritten(r) \/ SpoolFails(r) \/ ReplayEnds(r) \/ ReplayMissing(r)
=============================================================================
