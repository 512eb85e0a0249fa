---------------------------- MODULE WasmExecutor ----------------------------
(* Guest execution: the executor's memory admission, bounded queue and worker
   threads, and the streaming session a request drives through it.

   A session is three concurrent parties.  The request's future sends commands
   and awaits their answers; a blocking thread runs execute_until for it
   (admission, queue, result); a worker thread runs the guest.  The task and
   its memory permit sit in a slot that both the blocking thread and the worker
   may empty, each under the slot's lock.  A cancellation token and the
   object's deadline are read by all three. *)
EXTENDS Naturals, Sequences, FiniteSets, Functions

CONSTANTS
  Sessions,
  Workers,
  QueueCapacity,  \* ExecutorConfig::queue_capacity
  Budget,         \* ExecutorConfig::guest_memory_budget_bytes
  NeedsOf         \* the guest_memory_reservations a session's pipeline may need

ExecutorAssumption ==
  /\ QueueCapacity \in Nat \ {0} /\ Budget \in Nat \ {0} /\ IsFiniteSet(Sessions)
  /\ \A s \in Sessions : NeedsOf[s] \subseteq Nat

VARIABLES
  used,    \* AdmissionState::used
  queue,   \* the jobs in the channel
  runs,    \* the session each worker runs
  call,    \* the blocking thread of each session
  guest,   \* the guest of each session
  client   \* the request's future

executorVars == <<used, queue, runs, call, guest, client>>

(* call.slot: the pair of task and permit is still in the slot; call.sent: the
   worker has sent the result.  client.sender: a command can still reach the
   guest; client.command and client.reply are the channels between them.
   guest.polls: the guest has called the host and the host has not returned. *)
ExecutorInit ==
  /\ used = 0
  /\ queue = <<>>
  /\ runs = [w \in Workers |-> {}]
  /\ call = [s \in Sessions |-> [phase |-> "none", need |-> 0, slot |-> FALSE, sent |-> FALSE]]
  /\ guest = [s \in Sessions |-> [phase |-> "none", cancelled |-> FALSE, overdue |-> FALSE, polls |-> FALSE]]
  /\ client = [s \in Sessions |->
       [phase |-> "none", sender |-> FALSE, command |-> "none", reply |-> "none",
        watched |-> FALSE]]

Stopped(s) == guest[s].cancelled \/ guest[s].overdue   \* execution_control_error

Cancelled(s) == guest' = [guest EXCEPT ![s].cancelled = TRUE]

-----------------------------------------------------------------------------
(* The blocking thread: execute_until *)

\* reserve_until waits while there is no room, and gives up when it is stopped.
Reserve(s) ==
  /\ call[s].phase = "admission" /\ ~ Stopped(s)
  /\ used + call[s].need <= Budget
  /\ used' = used + call[s].need
  /\ call' = [call EXCEPT ![s].phase = "sending", ![s].slot = TRUE]
  /\ UNCHANGED <<queue, runs, guest, client>>

AdmissionRefused(s) ==
  /\ call[s].phase = "admission"
  /\ Stopped(s) \/ call[s].need > Budget
  /\ call' = [call EXCEPT ![s].phase = "returned"]
  /\ UNCHANGED <<used, queue, runs, guest, client>>

\* try_send; the queue is tried again until it has room or the call is stopped.
TrySend(s) ==
  /\ call[s].phase = "sending"
  /\ Len(queue) < QueueCapacity
  /\ queue' = Append(queue, s)
  /\ call' = [call EXCEPT ![s].phase = "waiting"]
  /\ UNCHANGED <<used, runs, guest, client>>

\* Whoever empties the slot drops the permit it finds there.
EmptySlot(s, phase) ==
  /\ call' = [call EXCEPT ![s].phase = phase, ![s].slot = FALSE]
  /\ used' = used - call[s].need

SendRefused(s) ==
  /\ call[s].phase = "sending"
  /\ Len(queue) = QueueCapacity /\ Stopped(s)
  /\ EmptySlot(s, "returned")
  /\ Cancelled(s)
  /\ UNCHANGED <<queue, runs, client>>

ReceiveResult(s) ==
  /\ call[s].phase = "waiting" /\ call[s].sent
  /\ call' = [call EXCEPT ![s].phase = "returned"]
  /\ guest' = [guest EXCEPT ![s].cancelled = @ \/ guest[s].overdue]
  /\ UNCHANGED <<used, queue, runs, client>>

\* Mutant: a stopped call does not wait for the worker that has its task.
WaitAbandoned(s) ==
  /\ call[s].phase = "waiting" /\ Stopped(s)
  /\ IF call[s].slot THEN EmptySlot(s, "returned")
     ELSE call' = [call EXCEPT ![s].phase = "returned"] /\ UNCHANGED used
  /\ Cancelled(s)
  /\ UNCHANGED <<queue, runs, client>>

\* receive_result_until: a stopped call takes the task back, or waits for the
\* worker that has it.
WaitInterrupted(s) ==
  /\ call[s].phase = "waiting" /\ Stopped(s)
  /\ IF call[s].slot THEN EmptySlot(s, "returned")
     ELSE call' = [call EXCEPT ![s].phase = "draining"] /\ UNCHANGED used
  /\ Cancelled(s)
  /\ UNCHANGED <<queue, runs, client>>

Drained(s) ==
  /\ call[s].phase = "draining" /\ call[s].sent
  /\ call' = [call EXCEPT ![s].phase = "returned"]
  /\ UNCHANGED <<used, queue, runs, guest, client>>

-----------------------------------------------------------------------------
(* The worker thread *)

\* A job whose slot has been emptied is a no-op.
TakeJob(w) ==
  LET s == Head(queue)
  IN /\ runs[w] = {} /\ queue # <<>>
     /\ queue' = Tail(queue)
     /\ IF call[s].slot
        THEN /\ runs' = [runs EXCEPT ![w] = {s}]
             /\ call' = [call EXCEPT ![s].slot = FALSE]
             /\ guest' = [guest EXCEPT ![s].phase = "starting"]
        ELSE UNCHANGED <<runs, call, guest>>
     /\ UNCHANGED <<used, client>>

InGuest(s) == guest[s].phase \in {"starting", "begin", "process", "finish"}

(* A filter is linked with the blocking bindings of WASI's clocks and polls: while
   the host waits for the guest it burns no fuel and meets no epoch, so neither
   the deadline nor a cancellation ends the wait. *)
HostPoll(s) ==
  /\ InGuest(s) /\ ~ guest[s].polls
  /\ guest' = [guest EXCEPT ![s].polls = TRUE]
  /\ UNCHANGED <<used, queue, runs, call, client>>

PollReturns(s) ==
  /\ guest[s].polls
  /\ guest' = [guest EXCEPT ![s].polls = FALSE]
  /\ UNCHANGED <<used, queue, runs, call, client>>

Reply(s, phase, reply) ==
  /\ guest' = [guest EXCEPT ![s].phase = phase]
  /\ client' = [client EXCEPT ![s].reply = reply]

\* start_runtime: the last check_start_control comes before the guest's begin.
StartGuest(s) ==
  /\ guest[s].phase = "starting" /\ ~ guest[s].polls
  /\ \/ ~ Stopped(s) /\ guest' = [guest EXCEPT ![s].phase = "begin"] /\ UNCHANGED client
     \/ Reply(s, "over", "error")
  /\ UNCHANGED <<used, queue, runs, call>>

\* The worker's loop; prepare_call refuses a command that comes too late.
ReceiveCommand(s) ==
  LET command == client[s].command
  IN /\ guest[s].phase = "receiving"
     /\ command # "none" \/ ~ client[s].sender
     /\ guest' = [guest EXCEPT ![s].phase =
          IF command \in {"process", "finish"} /\ ~ Stopped(s) THEN command ELSE "over"]
     /\ client' = [client EXCEPT ![s].command = "none",
                                 ![s].reply = IF command \in {"process", "finish"} /\ Stopped(s) THEN "error" ELSE @]
     /\ UNCHANGED <<used, queue, runs, call>>

\* complete_call: a guest call ends by itself, even if it has been stopped since
\* it began, or with an error, which the epoch's callback may have raised.
GuestCall(s) ==
  /\ guest[s].phase \in {"begin", "process", "finish"} /\ ~ guest[s].polls
  /\ \/ Reply(s, IF guest[s].phase = "finish" THEN "over" ELSE "receiving", "ok")
     \/ Reply(s, "over", "error")
  /\ UNCHANGED <<used, queue, runs, call>>

\* The permit is dropped before the result is published.
PermitDropped(w, s) ==
  /\ s \in runs[w] /\ guest[s].phase = "over"
  /\ used' = used - call[s].need
  /\ guest' = [guest EXCEPT ![s].phase = "ended"]
  /\ UNCHANGED <<queue, runs, call, client>>

ResultSent(w, s) ==
  /\ s \in runs[w] /\ guest[s].phase = "ended"
  /\ call' = [call EXCEPT ![s].sent = TRUE]
  /\ runs' = [runs EXCEPT ![w] = {}]
  /\ UNCHANGED <<used, queue, guest, client>>

-----------------------------------------------------------------------------
(* The request's future: StreamingPipelineSession *)

Answered(s) == client[s].reply # "none"
Lost(s) == guest[s].phase \in {"over", "ended"} \/ call[s].phase = "returned"

StartSession(s) ==
  /\ client[s].phase = "none"
  /\ client' = [client EXCEPT ![s].phase = "starting", ![s].sender = TRUE]
  /\ \E need \in NeedsOf[s] :
       call' = [call EXCEPT ![s].phase = "admission", ![s].need = need]
  /\ UNCHANGED <<used, queue, runs, guest>>

Started(s) ==
  /\ client[s].phase = "starting" /\ client[s].reply = "ok"
  /\ client' = [client EXCEPT ![s].phase = "open", ![s].reply = "none", ![s].watched = TRUE]
  /\ UNCHANGED <<used, queue, runs, call, guest>>

\* An error, the deadline or a lost worker: cancel, drop the sender, await the task.
Abort(s) ==
  /\ Cancelled(s)
  /\ client' = [client EXCEPT ![s].phase = "aborting", ![s].sender = FALSE, ![s].reply = "none"]
  /\ UNCHANGED <<used, queue, runs, call>>

StartFails(s) ==
  /\ client[s].phase = "starting"
  /\ client[s].reply = "error" \/ guest[s].overdue \/ (Lost(s) /\ ~ Answered(s))
  /\ Abort(s)

SendProcess(s) ==
  /\ client[s].phase = "open" /\ client[s].command = "none"
  /\ client' = [client EXCEPT ![s].phase = "asked", ![s].command = "process"]
  /\ UNCHANGED <<used, queue, runs, call, guest>>

\* finish takes the sender: nothing can follow the command.
SendFinish(s) ==
  /\ client[s].phase = "open" /\ client[s].command = "none"
  /\ client' = [client EXCEPT ![s].phase = "finishing", ![s].command = "finish",
                              ![s].sender = FALSE]
  /\ UNCHANGED <<used, queue, runs, call, guest>>

RecordProcessed(s) ==
  /\ client[s].phase = "asked" /\ client[s].reply = "ok"
  /\ client' = [client EXCEPT ![s].phase = "open", ![s].reply = "none"]
  /\ UNCHANGED <<used, queue, runs, call, guest>>

Finished(s) ==
  /\ client[s].phase = "finishing" /\ client[s].reply = "ok"
  /\ client' = [client EXCEPT ![s].phase = "joining", ![s].reply = "none"]
  /\ UNCHANGED <<used, queue, runs, call, guest>>

CommandFails(s) ==
  /\ client[s].phase \in {"asked", "finishing"}
  /\ client[s].reply = "error" \/ guest[s].overdue \/ (Lost(s) /\ ~ Answered(s))
  /\ Abort(s)

\* The request fails for a reason of its own: cancel_and_wait.
CancelAndWait(s) == client[s].phase = "open" /\ Abort(s)

Joined(s) ==
  /\ client[s].phase \in {"aborting", "joining"} /\ call[s].phase = "returned"
  /\ client' = [client EXCEPT ![s].phase = "closed", ![s].sender = FALSE]
  /\ UNCHANGED <<used, queue, runs, call, guest>>

\* The request's future is dropped; before the session exists only its sender goes with it.
Dropped(s) ==
  /\ client[s].phase \in {"starting", "open", "asked", "finishing", "aborting", "joining"}
  /\ client' = [client EXCEPT ![s].phase = "dropped", ![s].sender = FALSE, ![s].reply = "none"]
  /\ IF client[s].phase = "starting" THEN UNCHANGED guest ELSE Cancelled(s)
  /\ UNCHANGED <<used, queue, runs, call>>

\* max_wall_time passes.
Deadline(s) ==
  /\ call[s].phase \notin {"none", "returned"} /\ ~ guest[s].overdue
  /\ guest' = [guest EXCEPT ![s].overdue = TRUE]
  /\ UNCHANGED <<used, queue, runs, call, client>>

\* Mutant: the watchdog cancels and does not wake a guest that waits for a command.
WatchdogSilent(s) ==
  /\ client[s].phase \in {"open", "asked", "finishing", "joining"} /\ client[s].watched
  /\ guest[s].overdue
  /\ client[s].command = "none" \/ ~ client[s].sender
  /\ Cancelled(s)
  /\ client' = [client EXCEPT ![s].watched = FALSE]
  /\ UNCHANGED <<used, queue, runs, call>>

\* spawn_deadline_watchdog: cancels, and wakes a guest that waits for a command
\* unless the session's sender is gone; dropping the session aborts it.
Watchdog(s) ==
  /\ client[s].phase \in {"open", "asked", "finishing", "joining"} /\ client[s].watched
  /\ guest[s].overdue
  /\ client[s].command = "none" \/ ~ client[s].sender
  /\ Cancelled(s)
  /\ client' = [client EXCEPT ![s].watched = FALSE,
                              ![s].command = IF client[s].sender THEN "cancel" ELSE @]
  /\ UNCHANGED <<used, queue, runs, call>>

-----------------------------------------------------------------------------
CallStep(s) ==
  \/ Reserve(s) \/ AdmissionRefused(s) \/ TrySend(s) \/ SendRefused(s)
  \/ ReceiveResult(s) \/ WaitInterrupted(s) \/ Drained(s)

WorkerStep(w) ==
  \/ TakeJob(w)
  \/ \E s \in Sessions : PermitDropped(w, s) \/ ResultSent(w, s)

GuestStep(s) == StartGuest(s) \/ ReceiveCommand(s) \/ GuestCall(s)

ClientAnswer(s) ==
  \/ Started(s) \/ StartFails(s) \/ RecordProcessed(s) \/ Finished(s)
  \/ CommandFails(s) \/ Joined(s)

ExecutorNext ==
  \/ \E s \in Sessions :
       \/ CallStep(s) \/ GuestStep(s) \/ HostPoll(s) \/ PollReturns(s) \/ ClientAnswer(s)
       \/ StartSession(s) \/ SendProcess(s) \/ SendFinish(s)
       \/ CancelAndWait(s) \/ Dropped(s) \/ Deadline(s) \/ Watchdog(s)
  \/ \E w \in Workers : WorkerStep(w)

ExecutorSpec == ExecutorInit /\ [][ExecutorNext]_executorVars

(* Threads are scheduled, time passes and the watchdog task runs; nothing is
   assumed of the request, which may leave its session open for ever, nor of the
   host a guest waits for, which need not return.  A guest whose polls return ends
   its call: every turn of it burns fuel, and once it is stopped the epoch's
   callback meets it between two polls. *)
ExecutorFairness ==
  /\ \A s \in Sessions :
       /\ WF_executorVars(CallStep(s)) /\ SF_executorVars(GuestStep(s))
       /\ WF_executorVars(ClientAnswer(s))
       /\ WF_executorVars(Deadline(s)) /\ WF_executorVars(Watchdog(s))
  /\ \A w \in Workers : WF_executorVars(WorkerStep(w))

-----------------------------------------------------------------------------
(* Two parties race for a task's permit and a third reserves against the total:
   the admitted memory is exactly that of the tasks still in their slot and of
   the guests that run, and never more than the budget. *)
Holding(s) == call[s].slot \/ guest[s].phase \in {"starting", "begin", "receiving", "process", "finish", "over"}

MemoryAccounted ==
  /\ used = SumFunctionOnSet([s \in Sessions |-> call[s].need], {s \in Sessions : Holding(s)})
  /\ used <= Budget
  /\ \A s \in Sessions : call[s].phase = "returned" => ~ Holding(s)

(* abort_and_wait and finish return only when the guest is gone: a request
   that goes on after its session leaves nothing that runs, waits in the queue
   with a task, or holds memory. *)
NoGuestOutlivesSession ==
  \A s \in Sessions : client[s].phase = "closed" =>
    /\ ~ Holding(s)
    /\ \A w \in Workers : s \notin runs[w]

(* Whatever requests do, a session's memory comes back and its worker is free
   again, unless its own guest waits in the host for ever: the deadline bounds all
   the rest, also the sessions queued behind that guest. *)
MemoryComesBack == \A s \in Sessions : ([]<> ~ Holding(s)) \/ <>[] guest[s].polls
=============================================================================
