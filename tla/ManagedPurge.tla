----------------------------- MODULE ManagedPurge -----------------------------
(***************************************************************************)
(* The purge of a managed namespace (purge_namespace, finalize_purge_if_     *)
(* ready and the purge targets of managed.rs, drive_namespace_purge of      *)
(* service_storage.rs) and the multipart registrations that hold it back.   *)
(*                                                                         *)
(* finalize_purge_if_ready runs at READ COMMITTED under a lock on the purge  *)
(* row alone: each of its queries sees what other transactions committed     *)
(* before it, so its queries are separate steps.  What it writes becomes     *)
(* visible when it commits.                                                *)
(***************************************************************************)
EXTENDS ManagedRepair

CONSTANTS
    Purges,     \* purge operations
    Drivers,    \* requests that start, query or advance a purge
    Uploads,    \* multipart uploads
    MaxDrives   \* bound on the requests about purges

ASSUME PurgeAssumption == Nil \notin Purges

VARIABLES
    purges,    \* managed_namespace_purge, by operation
    driver,    \* each request's step
    activity,  \* managed_multipart_activity, by upload
    upload,    \* multipart_upload rows: the epoch they carry, or Nil
    creator,   \* where the creation of each upload is
    drives     \* requests about purges so far

purgeVars == <<purges, driver, activity, upload, creator, drives>>

IdleDriver == [pc |-> "idle", purge |-> Nil, round |-> 0, intents |-> {}, counted |-> 0,
               todo |-> {}, victim |-> Nil]

NoActivity == [state |-> "NONE", epoch |-> 0, expired |-> FALSE]

PurgeInit ==
    /\ purges = [p \in Purges |-> [state |-> "NONE", epoch |-> 0, deleted |-> 0]]
    /\ driver = [d \in Drivers |-> IdleDriver]
    /\ activity = [u \in Uploads |-> NoActivity]
    /\ upload = [u \in Uploads |-> Nil]
    /\ creator = [u \in Uploads |-> [pc |-> "idle", epoch |-> 0]]
    /\ drives = 0

managedVars == <<writeVars, repairVars, purgeVars>>

Drive(d, pc) == driver' = [driver EXCEPT ![d].pc = pc]

\* The row lock of the finalizer: whoever updates the purge row waits for it.
PurgeRowFree(p) ==
    \A d \in Drivers : driver[d].purge = p => driver[d].pc \notin {"scanned", "settling"}

-----------------------------------------------------------------------------
(* purge_namespace.                                                         *)

\* The locations a purge must find in the ledger before it may start.
AccountedFor(a) ==
    a # Nil /\ ~a.tombstone =>
        /\ Ledgered(a.primary, a.gen) # {}
        /\ a.replicaStatus = "READY" /\ a.replica # Nil => Ledgered(a.replica, a.gen) # {}

\* Mutant: the current epoch is not included.
CondemnedBefore(p, epoch, states) ==
    {IF l.epoch < epoch /\ l.state \in states
     THEN [l EXCEPT !.state = "PURGE_PENDING", !.purge = p] ELSE l : l \in ledger}

Condemned(p, epoch, states) ==
    {IF l.epoch <= epoch /\ l.state \in states
     THEN [l EXCEPT !.state = "PURGE_PENDING", !.purge = p] ELSE l : l \in ledger}

StartPurge(d, p) ==
    /\ driver[d].pc = "idle" /\ drives < MaxDrives
    /\ purges[p].state = "NONE"
    /\ Active
    /\ \A k \in Keys : AccountedFor(auth[k])
    /\ purges' = [purges EXCEPT ![p] = [@ EXCEPT !.state = "RUNNING", !.epoch = ns.epoch]]
    /\ ns' = [ns EXCEPT !.state = "PURGING", !.purge = p]
    /\ ledger' = Condemned(p, ns.epoch, {"LIVE", "PURGE_PENDING", "PURGE_BLOCKED"})
    /\ driver' = [driver EXCEPT ![d] = [IdleDriver EXCEPT !.pc = "locking", !.purge = p]]
    /\ drives' = drives + 1
    /\ UNCHANGED <<ops, usage, auth, repairs, intents, child, prov, put, config, deletes, faults,
                   repairVars, activity, upload, creator>>

\* A repeated purge_namespace and namespace_purge_status go straight to the
\* finalizer, and then drive the purge.
QueryPurge(d, p) ==
    /\ driver[d].pc = "idle" /\ drives < MaxDrives
    /\ purges[p].state # "NONE"
    /\ driver' = [driver EXCEPT ![d] = [IdleDriver EXCEPT !.pc = "locking", !.purge = p]]
    /\ drives' = drives + 1
    /\ UNCHANGED <<writeVars, repairVars, purges, activity, upload, creator>>

-----------------------------------------------------------------------------
(* finalize_purge_if_ready.                                                 *)

\* After the finalizer: the first call drives the targets, the second answers.
Finalized(d) ==
    driver' = [driver EXCEPT ![d] =
        IF driver[d].round = 0 THEN [@ EXCEPT !.pc = "listing", !.round = 1, !.intents = {},
                                                 !.counted = 0]
        ELSE IdleDriver]

\* The purge row is locked and the intents of its epoch are read.
ReadIntents(d) ==
    LET p == driver[d].purge
        old == {w \in DOMAIN intents : intents[w].epoch <= purges[p].epoch}
    IN  /\ driver[d].pc = "locking" /\ PurgeRowFree(p)
        /\ driver' = [driver EXCEPT ![d] =
              IF purges[p].state = "COMPLETE" THEN IdleDriver
              ELSE [@ EXCEPT !.pc = "scanned", !.intents = {intents[w].state : w \in old}]]
        /\ UNCHANGED <<writeVars, repairVars, purges, activity, upload, creator, drives>>

\* Then the targets: what is still to be deleted keeps the purge running, and
\* what is ambiguous blocks it.
ReadTargets(d) ==
    LET p == driver[d].purge
        marked == Condemned(p, purges[p].epoch, {"LIVE"})
        states == {l.state : l \in {m \in marked : m.purge = p}}
        blocked == \/ "BLOCKED" \in driver[d].intents
                   \/ driver[d].intents = {} /\ states = {"PURGE_BLOCKED"}
    IN  /\ driver[d].pc = "scanned"
        /\ ledger' = marked
        /\ IF driver[d].intents = {} /\ states = {}
           THEN Drive(d, "settling") /\ UNCHANGED purges
           ELSE /\ purges' = IF blocked THEN [purges EXCEPT ![p].state = "BLOCKED"] ELSE purges
                /\ Finalized(d)
        /\ UNCHANGED <<ns, ops, usage, auth, repairs, intents, child, prov, put, config, deletes, faults,
                       repairVars, activity, upload, creator, drives>>

\* Mutant: multipart registrations do not hold a purge back.
CountsWritesOnly(n, epoch) ==
    CASE n = 0 -> \E w \in DOMAIN child : child[w].epoch <= epoch /\ ~Terminal(child[w].state)
      [] n = 1 -> \E o \in Ops : ops[o].state # "NONE" /\ ~Terminal(ops[o].state)
      [] OTHER -> FALSE

\* What else keeps a namespace from being empty, in the order it is counted:
\* journal rows, logical operations (of any epoch), multipart uploads and their
\* registrations.
Unresolved(n, epoch) ==
    CASE n = 0 -> \E w \in DOMAIN child : child[w].epoch <= epoch /\ ~Terminal(child[w].state)
      [] n = 1 -> \E o \in Ops : ops[o].state # "NONE" /\ ~Terminal(ops[o].state)
      [] n = 2 -> \E u \in Uploads : upload[u] # Nil /\ upload[u] <= epoch
      [] n = 3 -> \E u \in Uploads : activity[u].state # "NONE" /\ activity[u].epoch <= epoch

\* The next count finds something: the purge is blocked.
FinalizeBlocked(d) ==
    /\ driver[d].pc = "settling"
    /\ Unresolved(driver[d].counted, purges[driver[d].purge].epoch)
    /\ purges' = [purges EXCEPT ![driver[d].purge].state = "BLOCKED"]
    /\ Finalized(d)
    /\ UNCHANGED <<writeVars, repairVars, activity, upload, creator, drives>>

\* It finds nothing, and is not the last.
FinalizeCounts(d) ==
    /\ driver[d].pc = "settling" /\ driver[d].counted < 3
    /\ ~Unresolved(driver[d].counted, purges[driver[d].purge].epoch)
    /\ driver' = [driver EXCEPT ![d].counted = @ + 1]
    /\ UNCHANGED <<writeVars, repairVars, purges, activity, upload, creator, drives>>

\* The authority table once the tenant's rows are deleted.
NoAuthority == [k \in Keys |-> Nil]

\* After the last count the tenant's rows go and the next epoch opens, all in the
\* transaction that completes the purge.
FinalizeComplete(d) ==
    LET p == driver[d].purge
        epoch == purges[p].epoch
    IN  /\ driver[d].pc = "settling" /\ driver[d].counted = 3
        /\ ~Unresolved(3, epoch)
        /\ repairs' = [key \in RepairKeys |->
              IF repairs[key].epoch <= epoch THEN NoRepair ELSE repairs[key]]
        /\ child' = Restrict(child, {w \in DOMAIN child :
                                       child[w].epoch > epoch \/ ~Terminal(child[w].state)})
        /\ ops' = [o \in Ops |-> [ops[o] EXCEPT !.released = ops[o].committed]]
        /\ usage' = [usage EXCEPT !.visible = 0, !.allocated = 0, !.reserved = 0, !.active = Nil]
        /\ auth' = NoAuthority
        /\ ns' = IF ns.purge = p
                 THEN [state |-> "ACTIVE", epoch |-> epoch + 1, routing |-> ns.routing + 1,
                       purge |-> Nil]
                 ELSE ns
        /\ purges' = [purges EXCEPT ![p].state = "COMPLETE"]
        /\ driver' = [driver EXCEPT ![d] = IdleDriver]
        /\ UNCHANGED <<intents, ledger, prov, put, config, deletes, faults, repairVars, activity, upload,
                       creator, drives>>

-----------------------------------------------------------------------------
(* drive_namespace_purge.                                                   *)

\* purge_targets: a list the driver works through, however old it gets.
PurgeTargets(d) ==
    LET p == driver[d].purge
        found == {l \in ledger : l.purge = p}
    IN  /\ driver[d].pc = "listing"
        /\ driver' = [driver EXCEPT ![d] =
              [@ EXCEPT !.pc = IF found = {} THEN "locking" ELSE "driving",
                        !.todo = {[write |-> l.write, n |-> l.n] : l \in found}]]
        /\ UNCHANGED <<writeVars, repairVars, purges, activity, upload, creator, drives>>

\* delete_and_verify_purge_target.
DeleteTarget(d, v) ==
    /\ driver[d].pc = "driving" /\ v \in driver[d].todo
    /\ \E ok \in BOOLEAN :
         /\ IF ok THEN UNCHANGED faults ELSE Fault
         /\ prov' = IF ok THEN prov \ {v} ELSE prov
         /\ driver' = [driver EXCEPT ![d] =
               [@ EXCEPT !.pc = IF ok THEN "deleted" ELSE "refused", !.victim = v]]
    /\ UNCHANGED <<ns, ops, usage, auth, repairs, intents, ledger, child, put, config, deletes,
                   repairVars, purges, activity, upload, creator, drives>>

\* The driver goes on with its list, and ends with another look at the status.
NextTarget(d) ==
    LET rest == driver[d].todo \ {driver[d].victim}
    IN  driver' = [driver EXCEPT ![d] =
           [@ EXCEPT !.pc = IF rest = {} THEN "locking" ELSE "driving",
                     !.todo = rest, !.victim = Nil]]

\* mark_purge_target_deleted: the row and, with the last of them, the journal
\* row of its write.
MarkPurgeTargetDeleted(d) ==
    LET p == driver[d].purge
        v == driver[d].victim
        gone == {l \in ledger : l.write = v.write /\ l.n = v.n /\ l.purge = p}
        last == gone # {} /\ ChildVersions(v.write) = gone
    IN  /\ driver[d].pc = "deleted"
        /\ gone # {} => PurgeRowFree(p)
        /\ ledger' = ledger \ gone
        /\ purges' = IF gone = {} THEN purges
                     ELSE [purges EXCEPT ![p] = [@ EXCEPT !.state = "RUNNING", !.deleted = purges[p].deleted + 1]]
        /\ child' = IF last /\ v.write \in DOMAIN child /\ Terminal(child[v.write].state)
                    THEN Restrict(child, DOMAIN child \ {v.write}) ELSE child
        /\ NextTarget(d)
        /\ UNCHANGED <<ns, ops, usage, auth, repairs, intents, prov, put, config, deletes, faults,
                       repairVars, activity, upload, creator, drives>>

\* mark_purge_target_blocked: the target if it is still there, and the purge
\* whatever it says.
MarkPurgeTargetBlocked(d) ==
    LET p == driver[d].purge
        v == driver[d].victim
    IN  /\ driver[d].pc = "refused"
        /\ PurgeRowFree(p)
        /\ ledger' = {IF l.write = v.write /\ l.n = v.n /\ l.purge = p
                      THEN [l EXCEPT !.state = "PURGE_BLOCKED"] ELSE l : l \in ledger}
        /\ purges' = [purges EXCEPT ![p].state = "BLOCKED"]
        /\ NextTarget(d)
        /\ UNCHANGED <<ns, ops, usage, auth, repairs, intents, child, prov, put, config, deletes, faults,
                       repairVars, activity, upload, creator, drives>>

\* A request that stops between two transactions.
DriverCrash(d) ==
    /\ driver[d].pc \notin {"idle", "scanned", "settling"}
    /\ Fault
    /\ driver' = [driver EXCEPT ![d] = IdleDriver]
    /\ UNCHANGED <<ns, ops, usage, auth, repairs, intents, ledger, child, prov, put, config, deletes,
                   repairVars, purges, activity, upload, creator, drives>>

Creating(u, pc) == creator' = [creator EXCEPT ![u].pc = pc]

\* begin_multipart_activity.
BeginMultipartActivity(u) ==
    /\ creator[u].pc = "idle"
    /\ Active
    /\ activity' = [activity EXCEPT ![u] = [state |-> "REGISTERING", epoch |-> ns.epoch,
                                            expired |-> FALSE]]
    /\ creator' = [creator EXCEPT ![u] = [pc |-> "registered", epoch |-> ns.epoch]]
    /\ UNCHANGED <<writeVars, repairVars, purges, driver, upload, drives>>

\* The staging repository inserts the upload row, or fails to.
CreateUpload(u) ==
    /\ creator[u].pc = "registered"
    /\ \/ upload' = [upload EXCEPT ![u] = creator[u].epoch] /\ Creating(u, "created")
       \/ UNCHANGED upload /\ Creating(u, "withdrawn")
    /\ UNCHANGED <<writeVars, repairVars, purges, driver, activity, drives>>

\* confirm_multipart_activity, after which the client learns the upload id.
ConfirmMultipartActivity(u) ==
    /\ creator[u].pc = "created"
    /\ IF Active /\ ns.epoch = creator[u].epoch /\ activity[u].state # "NONE"
       THEN /\ activity' = [activity EXCEPT ![u].state = "ACTIVE"]
            /\ Creating(u, "open")
       ELSE UNCHANGED activity /\ Creating(u, "withdrawing")
    /\ UNCHANGED <<writeVars, repairVars, purges, driver, upload, drives>>

\* A creation that cannot be confirmed takes its upload row back.
WithdrawUpload(u) ==
    /\ creator[u].pc = "withdrawing"
    /\ upload' = [upload EXCEPT ![u] = Nil]
    /\ Creating(u, "withdrawn")
    /\ UNCHANGED <<writeVars, repairVars, purges, driver, activity, drives>>

\* finish_multipart_activity: only for the epoch the caller knows.
FinishMultipartActivity(u) ==
    /\ creator[u].pc \in {"withdrawn", "retired"}
    /\ activity' = IF activity[u].epoch = creator[u].epoch
                   THEN [activity EXCEPT ![u] = NoActivity] ELSE activity
    /\ Creating(u, "done")
    /\ UNCHANGED <<writeVars, repairVars, purges, driver, upload, drives>>

\* An upload that is over loses its row (retire_terminal_uploads).
RetireUpload(u) ==
    /\ creator[u].pc \in {"open", "crashed"}
    /\ upload[u] # Nil
    /\ upload' = [upload EXCEPT ![u] = Nil]
    /\ Creating(u, "retired")
    /\ UNCHANGED <<writeVars, repairVars, purges, driver, activity, drives>>

\* The process that creates or retires an upload stops.
CreatorCrash(u) ==
    /\ creator[u].pc \in {"registered", "created", "withdrawing", "withdrawn", "retired"}
    /\ Fault
    /\ Creating(u, "crashed")
    /\ UNCHANGED <<ns, ops, usage, auth, repairs, intents, ledger, child, prov, put, config, deletes,
                   repairVars, purges, driver, activity, upload, drives>>

\* The ten minutes of a registration pass; a live creation is that slow only as
\* a fault.
ExpireRegistration(u) ==
    /\ activity[u].state = "REGISTERING" /\ ~activity[u].expired
    /\ IF creator[u].pc \in {"crashed", "done"} THEN UNCHANGED faults ELSE Fault
    /\ activity' = [activity EXCEPT ![u].expired = TRUE]
    /\ UNCHANGED <<ns, ops, usage, auth, repairs, intents, ledger, child, prov, put, config, deletes,
                   repairVars, purges, driver, upload, creator, drives>>

\* reconcile_multipart_activities: an expired registration follows its upload.
\* The upload is read first; what is written then asks for REGISTERING again.
ReconcileMultipartActivity(u) ==
    /\ activity[u].state = "REGISTERING" /\ activity[u].expired
    /\ activity' = [activity EXCEPT ![u] =
          IF upload[u] = activity[u].epoch THEN [@ EXCEPT !.state = "ACTIVE"] ELSE NoActivity]
    /\ UNCHANGED <<writeVars, repairVars, purges, driver, upload, creator, drives>>

-----------------------------------------------------------------------------

DriverStep(d) ==
    \/ \E p \in Purges : StartPurge(d, p) \/ QueryPurge(d, p)
    \/ ReadIntents(d) \/ ReadTargets(d) \/ FinalizeBlocked(d) \/ FinalizeCounts(d)
    \/ FinalizeComplete(d)
    \/ PurgeTargets(d) \/ MarkPurgeTargetDeleted(d) \/ MarkPurgeTargetBlocked(d)
    \/ \E v \in driver[d].todo : DeleteTarget(d, v)
    \/ DriverCrash(d)

MultipartStep(u) ==
    \/ BeginMultipartActivity(u) \/ CreateUpload(u) \/ ConfirmMultipartActivity(u)
    \/ WithdrawUpload(u) \/ FinishMultipartActivity(u) \/ RetireUpload(u)
    \/ CreatorCrash(u) \/ ExpireRegistration(u) \/ ReconcileMultipartActivity(u)

ManagedInit == Init /\ RepairInit /\ PurgeInit

ManagedNext ==
    \/ WriteStep /\ UNCHANGED <<repairVars, purgeVars>>
    \/ RepairStep /\ UNCHANGED purgeVars
    \/ \E d \in Drivers : DriverStep(d)
    \/ \E u \in Uploads : MultipartStep(u)

ManagedSpec == ManagedInit /\ [][ManagedNext]_managedVars

\* What the background loops of a gateway (server.rs) keep doing, and what time
\* alone does: a live gateway polls for repairs and for expired intents, its
\* requests go on to their end, and the lease of a process that is gone runs out.
RequestProgress(o) ==
    (RequestStep(o) /\ put'[o].pc # "crashed") /\ UNCHANGED <<repairVars, purgeVars>>

LeaseTimeout ==
    /\ \/ /\ \E w \in DOMAIN intents : WriterGone(w) /\ ExpireIntent(w)
          /\ UNCHANGED repairVars
       \/ \E c \in DOMAIN intents : ExpireCopyIntent(c)
       \/ \E key \in RepairKeys : Abandoned(key) /\ ExpireRepairLease(key)
    /\ faults' = faults
    /\ UNCHANGED purgeVars

Reconciliation ==
    /\ (\E w \in DOMAIN intents : ReconcileIntent(w)) \/ ChildStep
    /\ UNCHANGED <<repairVars, purgeVars>>

ManagedFairSpec ==
    /\ ManagedSpec
    /\ \A w \in Workers : WF_managedVars(WorkerProgress(w) /\ UNCHANGED purgeVars)
    /\ \A o \in Ops : WF_managedVars(RequestProgress(o))
    /\ WF_managedVars(LeaseTimeout)
    /\ WF_managedVars(Reconciliation)

-----------------------------------------------------------------------------
(* Properties.                                                              *)

Writes == [gen : Ops, backend : Backends, by : {"PUT", "REPLICA", "PLACEMENT"}, token : Nat]

RepairRows ==
    [state : {"NONE", "PENDING", "WAITING_CUTOVER", "LEASED", "DONE", "DEAD"}, cas : Nat,
     source : Backends \cup {Nil}, role : {"CLEANUP", "PRIMARY", "REPLICA"}, version : Nat,
     primary : Backends \cup {Nil}, replica : Backends \cup {Nil}, attempts : Nat,
     token : Nat, live : BOOLEAN, epoch : Nat]

\* The rows of the repository and the states of its clients have their types.
ManagedTypeOK ==
    /\ ns \in [state : {"ACTIVE", "PURGING"}, epoch : Nat, routing : Nat,
               purge : Purges \cup {Nil}]
    /\ \A o \in Ops : ops[o].state \in {"NONE", "INTENT", "OPEN", "COMPLETING",
                                       "COMMITTED", "PROVEN_ABORTED"}
    /\ usage \in [exists : BOOLEAN, visible : Nat, allocated : Nat, reserved : Nat,
                  active : Ops \cup {Nil}]
    /\ \A k \in Keys : auth[k] # Nil =>
          /\ auth[k].primaryStatus \in CopyStatuses /\ auth[k].replicaStatus \in CopyStatuses
          /\ auth[k].cas \in Nat \ {0} /\ auth[k].primary \in Backends
    /\ repairs \in [RepairKeys -> RepairRows]
    /\ DOMAIN intents \subseteq Writes /\ DOMAIN child \subseteq Writes
    /\ \A w \in DOMAIN intents : intents[w].state \in {"PENDING", "BLOCKED"}
    /\ \A l \in ledger : l.write \in Writes /\ l.state \in {"LIVE", "PURGE_PENDING", "PURGE_BLOCKED"}
    /\ \A p \in Purges : purges[p].state \in {"NONE", "RUNNING", "BLOCKED", "COMPLETE"}
    /\ \A w \in Workers : worker[w].key \in RepairKeys \cup {Nil}
    /\ \A u \in Uploads : activity[u].state \in {"NONE", "REGISTERING", "ACTIVE"}

\* A write intent of the operation is open.
PendingFor(o) == \E w \in DOMAIN intents : w.gen = o /\ intents[w].state = "PENDING"

\* A completed purge has erased every physical copy of every generation the
\* namespace had.
PurgeErases ==
    \A p \in Purges : purges[p].state = "COMPLETE" =>
        \A v \in prov : ops[v.write.gen].epoch > purges[p].epoch

\* A completed purge stays completed: its row never changes again.
CompleteIsFinal ==
    [][\A p \in Purges : purges[p].state = "COMPLETE" => purges'[p] = purges[p]]_<<purges>>

\* What the authority shows was written in the current epoch.
AuthorityInEpoch ==
    \A k \in Keys : auth[k] # Nil /\ ~auth[k].tombstone => ops[auth[k].gen].epoch = ns.epoch

\* assert_multipart_activity, as the abort and the completion of an upload ask it.
UploadUsable(u) ==
    /\ ns.epoch = upload[u]
    /\ activity[u].state = "ACTIVE" /\ activity[u].epoch = ns.epoch

\* An upload a client knows of stays usable: neither a purge that completes over
\* it nor the reconciler of registrations takes it away.
OpenUploadKept ==
    \A u \in Uploads : creator[u].pc = "open" => UploadUsable(u)

\* The backlog of repairs drains: every row that is due comes to an end, done or
\* dead, or goes with its namespace, and none stays leased by a worker that died.
Due == {key \in RepairKeys : repairs[key].state \in {"PENDING", "LEASED"}}

RepairsDrain == Due # {} ~> Due = {}

\* Every write intent is settled, or blocked for an operator to see: none stays
\* pending when its writer has crashed or lost its lease.
IntentsSettle ==
    \A o \in Ops : [](PendingFor(o) => <>~PendingFor(o))
=============================================================================
