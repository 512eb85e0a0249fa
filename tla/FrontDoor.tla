------------------------------ MODULE FrontDoor ------------------------------
(* The S3 front door: concurrent requests of every kind through the gate, the
   read path and the mutation path, with clients that go away, a control plane
   and a backend that fail, and a process that dies. *)
EXTENDS ReadPath, MutationPath

CONSTANT MaxCrashes

VARIABLE crashes

doorVars == <<gateVars, readVars, crashes>>

DoorInit == GateInit /\ ReadInit /\ crashes = 0

\* Everything in memory is lost, the quota's counter with it; the control plane
\* keeps its books and the spool directory its files.
Crash ==
  /\ crashes < MaxCrashes
  /\ crashes' = crashes + 1
  /\ req' = [r \in Requests |->
       IF req[r].phase \in {"idle", "ended"} THEN req[r]
       ELSE [req[r] EXCEPT !.phase = "ended", !.cause = @ \cup {"crash"},
                           !.effect = @ \/ req[r].phase \in {"call", "commit"}]]
  /\ stream' = [r \in Requests |-> NoStream]
  /\ spool' = [r \in Requests |-> NoSpool]
  /\ reserved' = 0
  /\ UNCHANGED <<reservation, budget, object>>

HandlerStep(r) ==
  \/ GateStep(r) /\ UNCHANGED readVars
  \/ MutationStep(r) /\ UNCHANGED readVars
  \/ ReadStep(r)

DoorNext ==
  \/ \E r \in Requests :
       \/ /\ \/ Arrive(r) /\ UNCHANGED readVars
             \/ Cancel(r) /\ UNCHANGED readVars
             \/ HandlerStep(r) \/ WorkerStep(r) \/ SpoolStep(r)
             \/ BodyDropped(r) \/ CleanupStale(r)
          /\ UNCHANGED crashes
  \/ Overwrite /\ UNCHANGED crashes
  \/ Crash

DoorSpec == DoorInit /\ [][DoorNext]_doorVars

(* Tasks are scheduled: a handler, a worker and a replay that can go on do.
   Clients that neither read nor go away would hold a body for ever, so the
   steps of a body are part of it; nothing is assumed of the faults. *)
DoorFairness ==
  \A r \in Requests :
    /\ WF_doorVars(HandlerStep(r) /\ UNCHANGED crashes)
    /\ WF_doorVars(WorkerStep(r) /\ UNCHANGED crashes)
    /\ WF_doorVars(SpoolStep(r) /\ UNCHANGED crashes)

-----------------------------------------------------------------------------
(* The books agree with what happened.  A reservation is given back only for a
   request that changed nothing and disclosed nothing of the object, and it is
   never given back later; an answer that claims success has been paid for, and
   nothing but a direct body discloses data before that. *)
SettledAsServed ==
  \A r \in Requests :
    /\ reservation[r] = "released" => ~ req[r].effect /\ ~ req[r].sent
    /\ req[r].answer = "ok" /\ ~ Unmetered(req[r].op) => reservation[r] = "recorded"
    /\ req[r].sent /\ ~ (req[r].op = "transformed" /\ req[r].safe /\ ~ req[r].avro)
         => reservation[r] = "recorded"

(* A reservation stays behind a finished request only for a reason: the control
   plane failed it, its client or its process went away, the outcome of its
   mutation is unknown, part of the body was out already, or it is one of the
   Avro form's early errors.  No other path forgets it. *)
LeftOnlyWithCause ==
  \A r \in Requests :
    Ended(r) /\ reservation[r] = "held" =>
      \/ req[r].cause \cap {"control", "cancelled", "crash", "unknown", "avro"} # {}
      \/ req[r].sent

(* What the client is sent of a transformed object comes from the content whose
   metadata admitted the read, whatever others write meanwhile (the Avro form
   apart). *)
ServedAsPreflighted ==
  \A r \in Requests :
    req[r].op = "transformed" /\ req[r].sent /\ ~ req[r].avro => req[r].got = req[r].seen

(* docs/security.md: "If the source metadata changed between preflight and GET,
   the request is rejected - never silently served", in every form. *)
NeverServedChanged ==
  \A r \in Requests :
    req[r].op = "transformed" /\ req[r].sent => req[r].got = req[r].seen

(* docs/security.md, of direct streaming: "Cancellation before disclosure
   releases the reservation". *)
CancelledDirectReleased ==
  \A r \in Requests :
    Ended(r) /\ req[r].cause = {"cancelled"} /\ req[r].got # 0 /\ req[r].safe /\ ~ req[r].sent
      => reservation[r] # "held"

\* the begun ones included
QuotaCounts == reserved = Cardinality({r \in Requests : spool[r].phase # "none"})

\* The client went away between the reservation and the file of its spool.
Stranded(r) == Ended(r) /\ spool[r].phase = "begun"

(* The quota's counter is the number of spools, the begun ones included: no path
   returns a reservation twice or returns less than it took, and what no spool
   will ever give back was taken by a request cancelled while its file was being
   created (read_spool.rs). *)
QuotaExact ==
  /\ QuotaCounts
  /\ \A r \in Requests : Stranded(r) => "cancelled" \in req[r].cause
=============================================================================
