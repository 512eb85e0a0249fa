------------------------------ MODULE MCProgress ------------------------------
(* What must eventually happen in the gateway: sessions of the WebAssembly
   executor end, and requests end.  The two share no state; an initial state
   picks one of them, and the instances take turns at the variables v1 to v8. *)
EXTENDS Naturals, FiniteSets

CONSTANTS
  Sessions, Workers, QueueCapacity, Budget, NeedsOf,
  Requests, OperationsOf, MaxFaults, MaxCancels, SpoolQuota, SettlementAttempts, MaxWrites, MaxCrashes,
  small      \* the session whose pipeline has one plugin

VARIABLES part, v1, v2, v3, v4, v5, v6, v7, v8

vars == <<part, v1, v2, v3, v4, v5, v6, v7, v8>>

Executor == INSTANCE WasmExecutor WITH
  used <- v1, queue <- v2, runs <- v3, call <- v4, guest <- v5, client <- v6

Door == INSTANCE FrontDoor WITH
  req <- v1, reservation <- v2, budget <- v3, object <- v4, stream <- v5,
  spool <- v6, reserved <- v7, crashes <- v8

ASSUME ProgressAssumption ==
  Executor!ExecutorAssumption /\ Door!GateAssumption /\ Door!ReadAssumption

Init ==
  \/ part = "executor" /\ Executor!ExecutorInit /\ v7 = "unused" /\ v8 = "unused"
  \/ part = "requests" /\ Door!DoorInit

InExecutor == part = "executor" /\ UNCHANGED <<part, v7, v8>>
InRequests == part = "requests" /\ UNCHANGED part

Next ==
  \/ InExecutor /\ Executor!ExecutorNext
  \/ InRequests /\ Door!DoorNext

(* ExecutorFairness and DoorFairness: threads, tasks, timers and the watchdog are
   scheduled, and a guest whose polls return ends its call, since every turn of it
   burns fuel; nothing is assumed of clients, faults and crashes, nor of the host
   that a guest waits for. *)
Fairness ==
  /\ \A s \in Sessions :
       /\ WF_vars(InExecutor /\ Executor!CallStep(s)) /\ SF_vars(InExecutor /\ Executor!GuestStep(s))
       /\ WF_vars(InExecutor /\ Executor!ClientAnswer(s))
       /\ WF_vars(InExecutor /\ Executor!Deadline(s)) /\ WF_vars(InExecutor /\ Executor!Watchdog(s))
  /\ \A w \in Workers : WF_vars(InExecutor /\ Executor!WorkerStep(w))
  /\ \A r \in Requests :
       /\ WF_vars(InRequests /\ Door!HandlerStep(r) /\ UNCHANGED v8)
       /\ WF_vars(InRequests /\ Door!WorkerStep(r) /\ UNCHANGED v8)
       /\ WF_vars(InRequests /\ Door!SpoolStep(r) /\ UNCHANGED v8)

Spec == Init /\ [][Next]_vars /\ Fairness

-----------------------------------------------------------------------------
(* Whatever a request does with its session, the session's memory comes back: a
   deadline bounds its queueing, its guest and its caller (executor.rs).  The
   exception is a session whose own guest waits for ever in a blocking host call,
   where neither fuel nor the epoch's callback reaches it (lib.rs,
   add_hardened_wasi_to_linker): it keeps its memory and its worker, and the
   sessions that queue behind it get theirs back all the same. *)
MemoryComesBack ==
  \A s \in Sessions :
    \/ []<> (part = "executor" => ~ Executor!Holding(s))
    \/ <>[] (part = "executor" /\ v5[s].polls)

(* Every request comes to its end, its worker stops and its spool gives its
   space back, whatever fails or crashes on the way, but for a client that goes
   away while the spool's file is created: that space is lost to the quota for as
   long as the process runs.  Once all have ended nothing else is missing from
   the quota (server.rs, read_spool.rs). *)
RequestsEnd ==
  /\ \A r \in Requests :
       (part = "requests" /\ ~ Door!At(r, "idle")) ~>
         (part = "requests" => Door!Ended(r) /\ ~ v5[r].live
                                /\ (v6[r].phase = "none" \/ Door!Stranded(r)))
  /\ (part = "requests" /\ \A r \in Requests : Door!Ended(r)) ~>
       (part = "requests" => v7 = Cardinality({r \in Requests : Door!Stranded(r)}))

-----------------------------------------------------------------------------
(* Instances *)

MCNeedsOf == [s \in Sessions |-> IF s = small THEN {1} ELSE {1, 2}]

MCOperationsOf ==
  [r \in Requests |->
     {"get", "transformed", "head", "delete", "abort", "list", "put", "parts", "initiate", "part"}]
=============================================================================
