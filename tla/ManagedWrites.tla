---------------------------- MODULE ManagedWrites ----------------------------
(***************************************************************************)
(* One managed workspace: its namespace row, its logical operations, its    *)
(* usage row, its object authority and its ledger of physical versions      *)
(* (PostgresManagedRepository in crates/gateway/src/managed.rs), and the     *)
(* streaming PUT that goes through them (ManagedLogicalSink,                 *)
(* ManagedReplicatedSink and ManagedDirectSink in service_storage.rs).       *)
(*                                                                         *)
(* Every repository method is one transaction that locks the rows it        *)
(* decides on, so each is one action; the PUT is a sequence of them, each    *)
(* of which another request, a reconciler or a crash may separate from the  *)
(* next.  The child write at the provider is the atomic write that module   *)
(* AtomicWrite specifies: it ends COMMITTED with its versions at the        *)
(* provider, or PROVEN_ABORTED with none.                                  *)
(***************************************************************************)
EXTENDS ManagedRecords, FiniteSetsExt, Functions, TLC

CONSTANTS
    Keys,            \* logical object keys of the workspace
    Sizes,           \* sizes an output can have
    Placements,      \* sequence of placements, by placement version
    VisibleLimit,    \* visible_limit_bytes of the workspace
    Headroom,        \* replacement_headroom_bytes
    MaxProcessed,    \* max_processed_bytes of a request grant
    MaxVersions,     \* provider versions one child write may leave behind
    MaxRouting,      \* bound on routing epochs
    MaxDeletes,      \* bound on unjournaled deletes
    MaxFaults        \* bound on crashes, failed calls and lost leases

ASSUME ManagedAssumption ==
    /\ Sizes \subseteq Nat /\ VisibleLimit \in Nat /\ Headroom \in Nat
    /\ MaxProcessed \in Nat /\ MaxVersions \in Nat \ {0} /\ MaxFaults \in Nat
    /\ Nil \notin Backends \cup Ops \cup Nat
    /\ IsFiniteSet(Ops) /\ IsFiniteSet(Keys)

VARIABLES
    ns,        \* managed_namespace: state, epoch, routing epoch, purge operation
    ops,       \* managed_logical_operation, by operation
    usage,     \* managed_workspace_usage
    auth,      \* managed_object_authority, by logical key
    repairs,   \* managed_object_repair, by kind, generation and target
    intents,   \* managed_physical_write_intent, by write
    ledger,    \* managed_physical_object_version
    child,     \* operation journal row of each physical write
    prov,      \* what the providers hold
    put,       \* where each request is, and what it has read
    config,    \* placement version the gateway is configured with
    deletes,   \* unjournaled deletes so far
    faults     \* faults so far

writeVars == <<ns, ops, usage, auth, repairs, intents, ledger, child, prov, put,
               config, deletes, faults>>

Placed(v) == [version |-> v, primary |-> Placements[v].primary,
              replica |-> Placements[v].replica]

NoOp == [state |-> "NONE", kind |-> Nil, key |-> Nil, backend |-> Nil, version |-> 0,
         epoch |-> 0, routing |-> 0, cas |-> Nil, prior |-> 0, size |-> Nil,
         reserved |-> 0, committed |-> 0, released |-> 0]

\* The identity of a physical write (ManagedOperationScope::deterministic_child):
\* the generation it writes, where, and for whom.
Child(o) == [gen |-> o, backend |-> ops[o].backend, by |-> "PUT", token |-> 0]

\* The versions a write leaves at the provider; the last is the object.
Versions(w, n) == {[write |-> w, n |-> i] : i \in 1..n}

\* Ledger rows of a generation on a backend.
Ledgered(b, g) == {l \in ledger : l.write.backend = b /\ l.write.gen = g}

LedgeredBackends(g) == {l.write.backend : l \in {m \in ledger : m.write.gen = g}}

\* Ledger rows a child write accounts for.
ChildVersions(w) == {l \in ledger : l.write = w}

SizeAt(a) == IF a = Nil \/ a.tombstone THEN 0 ELSE a.size

CasAt(a) == IF a = Nil THEN Nil ELSE a.cas

NextCas(c) == IF c = Nil THEN 1 ELSE c + 1

Terminal(s) == s \in {"COMMITTED", "PROVEN_ABORTED"}

Active == ns.state = "ACTIVE"

\* The operator routing fence of an operation is still the persisted one.
Fenced(o) == Active /\ ops[o].epoch = ns.epoch /\ ops[o].routing = ns.routing

\* A table with a row inserted, unless it has that row already.
WithRow(rows, w, row) ==
    [x \in DOMAIN rows \cup {w} |-> IF x \in DOMAIN rows THEN rows[x] ELSE row]

\* begin_physical_write leases the intent it inserts.
NewIntent == [state |-> "PENDING", epoch |-> ns.epoch, live |-> TRUE]

\* The intent lease the writer's next provider call renews is still its own.
WriterLease(w) == w \in DOMAIN intents /\ intents[w].live

\* A fault: one of the bounded number of things that go wrong.
Fault == faults < MaxFaults /\ faults' = faults + 1

Goto(o, pc) == put' = [put EXCEPT ![o].pc = pc]

Init ==
    /\ ns = [state |-> "ACTIVE", epoch |-> 1, routing |-> 1, purge |-> Nil]
    /\ ops = [o \in Ops |-> NoOp]
    /\ usage = [exists |-> FALSE, visible |-> 0, allocated |-> 0, reserved |-> 0,
                active |-> Nil]
    /\ auth = [k \in Keys |-> Nil]
    /\ repairs = [key \in RepairKeys |-> NoRepair]
    /\ intents = <<>>
    /\ ledger = {}
    /\ child = <<>>
    /\ prov = {}
    /\ put = [o \in Ops |-> [pc |-> "idle", key |-> Nil, cas |-> Nil, prior |-> 0,
                             epoch |-> 0, routing |-> 0, resv |-> 0, size |-> Nil]]
    /\ config = 1
    /\ deletes = 0
    /\ faults = 0

-----------------------------------------------------------------------------
(* Admission of a request: begin_managed_put_sink and its caller.           *)

\* The handler reads the authority row it means to replace.
ReadAuthority(o, k) ==
    /\ put[o].pc = "idle"
    /\ Active
    /\ put' = [put EXCEPT ![o] = [@ EXCEPT !.pc = "read", !.key = k,
                                           !.cas = CasAt(auth[k]),
                                           !.prior = SizeAt(auth[k])]]
    /\ UNCHANGED <<ns, ops, usage, auth, repairs, intents, ledger, child, prov, config, deletes, faults>>

\* assert_namespace_active, then route_fence.
RouteFence(o) ==
    /\ put[o].pc = "read"
    /\ Active
    /\ put' = [put EXCEPT ![o] = [@ EXCEPT !.pc = "fenced", !.epoch = ns.epoch,
                                           !.routing = ns.routing]]
    /\ UNCHANGED <<ns, ops, usage, auth, repairs, intents, ledger, child, prov, config, deletes, faults>>

\* insert_logical_operation: refused when the fence has moved on.
InsertLogicalOperation(o, kind) ==
    /\ put[o].pc = "fenced"
    /\ IF Active /\ ns.epoch = put[o].epoch /\ ns.routing = put[o].routing
       THEN /\ ops' = [ops EXCEPT ![o] =
                 [NoOp EXCEPT !.state = "INTENT", !.kind = kind, !.key = put[o].key,
                              !.backend = Placed(config).primary, !.version = config,
                              !.epoch = put[o].epoch, !.routing = put[o].routing,
                              !.cas = put[o].cas, !.prior = put[o].prior]]
            /\ Goto(o, "inserted")
       ELSE Goto(o, "failed") /\ UNCHANGED ops
    /\ UNCHANGED <<ns, usage, auth, repairs, intents, ledger, child, prov, config, deletes, faults>>

\* The unlocked read of the usage row the reservation is computed from; the
\* request exposes at most four times what it may process.
ReadUsage(o) ==
    /\ put[o].pc = "inserted"
    /\ LET bound == VisibleLimit + Headroom
           spent == usage.allocated + usage.reserved
           free  == IF usage.exists
                    THEN IF spent < bound THEN bound - spent ELSE 0
                    ELSE VisibleLimit
           most  == Max({free, 1})
           want  == IF ops[o].kind = "DELETE" THEN 0 ELSE Min({4 * MaxProcessed, most})
       IN  put' = [put EXCEPT ![o] = [@ EXCEPT !.pc = "sized", !.resv = want]]
    /\ UNCHANGED <<ns, ops, usage, auth, repairs, intents, ledger, child, prov, config, deletes, faults>>

\* Mutant: the capacity of the workspace is not checked again under the lock.
ReserveUnbounded(o) ==
    /\ put[o].pc = "sized"
    /\ IF Fenced(o) /\ ops[o].state = "INTENT" /\ usage.active = Nil
       THEN /\ usage' = [usage EXCEPT !.exists = TRUE, !.active = o, !.reserved = @ + put[o].resv]
            /\ ops' = [ops EXCEPT ![o].state = "OPEN", ![o].reserved = put[o].resv]
            /\ Goto(o, IF ops[o].kind = "PUT" THEN "reserved" ELSE "verified")
       ELSE Goto(o, "refused") /\ UNCHANGED <<usage, ops>>
    /\ UNCHANGED <<ns, auth, repairs, intents, ledger, child, prov, config, deletes, faults>>

\* reserve_logical_operation: takes the workspace's only mutation slot.
ReserveLogicalOperation(o) ==
    /\ put[o].pc = "sized"
    /\ IF /\ Fenced(o)
          /\ ops[o].state = "INTENT"
          /\ usage.active = Nil
          /\ usage.allocated + usage.reserved + put[o].resv <= VisibleLimit + Headroom
       THEN /\ usage' = [usage EXCEPT !.exists = TRUE, !.active = o,
                                      !.reserved = @ + put[o].resv]
            /\ ops' = [ops EXCEPT ![o].state = "OPEN", ![o].reserved = put[o].resv]
            /\ Goto(o, IF ops[o].kind = "PUT" THEN "reserved" ELSE "verified")
       ELSE Goto(o, "refused") /\ UNCHANGED <<usage, ops>>
    /\ UNCHANGED <<ns, auth, repairs, intents, ledger, child, prov, config, deletes, faults>>

\* begin_authoritative_sink_for_operation: the child is this open operation's
\* own, and the operation holds the workspace's slot.
ParentMatches(o) == ops[o].kind = "PUT" /\ ops[o].state = "OPEN" /\ usage.active = o

\* begin_physical_write for the primary child, which checks the same again in
\* its transaction.
BeginPhysicalWrite(o) ==
    /\ put[o].pc = "reserved"
    /\ IF Fenced(o) /\ ParentMatches(o)
       THEN /\ intents' = WithRow(intents, Child(o), NewIntent)
            /\ Goto(o, "intended")
       ELSE Goto(o, "refused") /\ UNCHANGED intents
    /\ UNCHANGED <<ns, ops, usage, auth, repairs, ledger, child, prov, config, deletes, faults>>

\* DirectS3Sink::new_scoped inserts the journal row, in the epoch of the lease.
NewChild(epoch) == [state |-> "OPEN", n |-> 0, exact |-> TRUE, epoch |-> epoch]

BeginJournal(o) ==
    /\ put[o].pc = "intended"
    /\ child' = WithRow(child, Child(o), NewChild(intents[Child(o)].epoch))
    /\ Goto(o, "writing")
    /\ UNCHANGED <<ns, ops, usage, auth, repairs, intents, ledger, prov, config, deletes, faults>>

\* It can fail instead: the intent is given back before anything is written.
BeginJournalFails(o) ==
    /\ put[o].pc = "intended"
    /\ intents' = IF WriterLease(Child(o))
                  THEN Restrict(intents, DOMAIN intents \ {Child(o)})
                  ELSE intents
    /\ Goto(o, "refused")
    /\ Fault
    /\ UNCHANGED <<ns, ops, usage, auth, repairs, ledger, child, prov, config, deletes>>

-----------------------------------------------------------------------------
(* prove_logical_abort.                                                     *)

CanProveAbort(o) ==
    /\ ops[o].state # "NONE" /\ ~Terminal(ops[o].state)
    /\ ops[o].epoch = ns.epoch
    /\ ops[o].state # "INTENT" => usage.active = o

\* Mutant: the slot is given back and the reserved bytes are not.
ReleasedSlotOnly(o, bytes) ==
    [usage EXCEPT !.exists = TRUE, !.allocated = @ + bytes,
                  !.active = IF @ = o THEN Nil ELSE @]

\* The usage row once the reservation is released and `bytes` stay allocated.
Released(o, bytes) ==
    [usage EXCEPT !.exists = TRUE,
                  !.reserved = @ - ops[o].reserved,
                  !.allocated = @ + bytes,
                  !.active = IF @ = o THEN Nil ELSE @]

\* With no physical evidence: only when the child left nothing in the ledger.
\* The callers ignore a refusal.
ProveLogicalAbort(o) ==
    /\ put[o].pc \in {"refused", "withdrawn"}
    /\ IF CanProveAbort(o) /\ ChildVersions(Child(o)) = {}
       THEN /\ usage' = Released(o, 0)
            /\ ops' = [ops EXCEPT ![o].state = "PROVEN_ABORTED"]
       ELSE UNCHANGED <<usage, ops>>
    /\ Goto(o, "failed")
    /\ UNCHANGED <<ns, auth, repairs, intents, ledger, child, prov, config, deletes, faults>>

\* With the allocation the child left: it stays charged until the cleanup that
\* is inserted here has deleted it.
ProvePhysicalAbort(o) ==
    LET left  == Cardinality(ChildVersions(Child(o)))
        bytes == left * ops[o].size
        gone  == [gen |-> o, size |-> ops[o].size, version |-> ops[o].version,
                  primary |-> ops[o].backend, replica |-> Nil, cas |-> 0]
    IN  /\ put[o].pc \in {"failed", "crashed"}
        /\ CanProveAbort(o)
        /\ ops[o].size # Nil
        /\ left > 0
        /\ bytes <= ops[o].reserved
        /\ repairs' = WithCleanups(repairs, gone, LedgeredBackends(o), ops[o].epoch)
        /\ usage' = Released(o, bytes)
        /\ ops' = [ops EXCEPT ![o].state = "PROVEN_ABORTED", ![o].committed = bytes]
        /\ UNCHANGED <<ns, auth, intents, ledger, child, prov, put, config, deletes, faults>>

-----------------------------------------------------------------------------
(* Writing, evidence and completion of the child.                           *)

\* write and verify_output: the output is whole and its size is known.
VerifyOutput(o, size) ==
    /\ put[o].pc = "writing"
    /\ WriterLease(Child(o))
    /\ put' = [put EXCEPT ![o] = [@ EXCEPT !.pc = "verified", !.size = size]]
    /\ UNCHANGED <<ns, ops, usage, auth, repairs, intents, ledger, child, prov, config, deletes, faults>>

\* A lost lease, a body error or a client that gives up before the evidence is
\* recorded: the handler aborts the sink.
WriteFails(o) ==
    /\ put[o].pc \in {"writing", "verified"}
    /\ ops[o].kind = "PUT"
    /\ Goto(o, "aborting")
    /\ Fault
    /\ UNCHANGED <<ns, ops, usage, auth, repairs, intents, ledger, child, prov, config, deletes>>

OutputSize(o) == IF ops[o].kind = "DELETE" THEN 0 ELSE put[o].size

\* record_logical_usage: the evidence is written once, before completion.
RecordLogicalUsage(o) ==
    /\ put[o].pc = "verified"
    /\ IF /\ ops[o].size = Nil
          /\ ops[o].state # "INTENT" /\ ~Terminal(ops[o].state)
          /\ OutputSize(o) <= MaxProcessed
       THEN /\ ops' = [ops EXCEPT ![o].size = OutputSize(o)]
            /\ Goto(o, "recorded")
       ELSE Goto(o, "aborting") /\ UNCHANGED ops
    /\ UNCHANGED <<ns, usage, auth, repairs, intents, ledger, child, prov, config, deletes, faults>>

\* transition_logical_operation from OPEN to COMPLETING, a compare-and-set.
\* From here on the handler never aborts the sink.
TransitionLogicalOperation(o) ==
    /\ put[o].pc = "recorded"
    /\ IF ops[o].state = "OPEN"
       THEN /\ ops' = [ops EXCEPT ![o].state = "COMPLETING"]
            /\ Goto(o, IF ops[o].kind = "PUT" THEN "completing" ELSE "ledgered")
       ELSE Goto(o, "aborting") /\ UNCHANGED ops
    /\ UNCHANGED <<ns, usage, auth, repairs, intents, ledger, child, prov, config, deletes, faults>>

\* ManagedDirectSink::complete, its provider part: the child write commits with
\* one or more versions (earlier attempts that landed are superseded), commits
\* with a history it could not enumerate, or stays unknown.
StoreChild(w) ==
    \/ \E n \in 1..MaxVersions :
         /\ child' = [child EXCEPT ![w] = [@ EXCEPT !.state = "COMMITTED", !.n = n]]
         /\ prov' = prov \cup Versions(w, n)
         /\ UNCHANGED faults
    \/ \E n \in 1..MaxVersions :
         /\ child' = [child EXCEPT ![w] = [@ EXCEPT !.state = "COMMITTED", !.n = n, !.exact = FALSE]]
         /\ prov' = prov \cup Versions(w, n)
         /\ Fault
    \/ \E n \in {0, 1} :
         /\ child' = [child EXCEPT ![w] = [@ EXCEPT !.state = "COMMIT_UNKNOWN", !.n = n]]
         /\ prov' = prov \cup Versions(w, n)
         /\ Fault

\* A child that a reconciler has decided meanwhile is left as it is.
CompletedChild(w) ==
    IF child[w].state = "OPEN" THEN StoreChild(w) ELSE UNCHANGED <<child, prov, faults>>

CompleteChild(o) ==
    /\ put[o].pc = "completing"
    /\ WriterLease(Child(o))
    /\ CompletedChild(Child(o))
    /\ Goto(o, "stored")
    /\ UNCHANGED <<ns, ops, usage, auth, repairs, intents, ledger, config, deletes>>

\* The lease is no longer the writer's: completion fails and the operation keeps
\* its slot.
CompleteRefused(o) ==
    /\ put[o].pc = "completing"
    /\ ~WriterLease(Child(o))
    /\ Goto(o, "failed")
    /\ UNCHANGED <<ns, ops, usage, auth, repairs, intents, ledger, child, prov, config, deletes, faults>>

\* commit_physical_write: every version of the write enters the ledger and the
\* intent goes, in one transaction; during a purge the rows are its targets.
LedgerRows(w) ==
    {[write |-> w, n |-> i, epoch |-> intents[w].epoch,
      state |-> IF ns.state = "PURGING" THEN "PURGE_PENDING" ELSE "LIVE",
      purge |-> IF ns.state = "PURGING" THEN ns.purge ELSE Nil] : i \in 1..child[w].n}

CommitIntent(w) ==
    /\ ledger' = ledger \cup LedgerRows(w)
    /\ intents' = Restrict(intents, DOMAIN intents \ {w})

BlockIntent(w) ==
    /\ intents' = [intents EXCEPT ![w].state = "BLOCKED"]
    /\ UNCHANGED ledger

DropIntent(w) ==
    /\ intents' = Restrict(intents, DOMAIN intents \ {w})
    /\ UNCHANGED ledger

\* Mutant: an intent whose child cannot be settled is dropped.
SettleOptimistic(w) ==
    IF child[w].state = "COMMITTED" /\ child[w].exact THEN CommitIntent(w) ELSE DropIntent(w)

\* What the journal says of the child decides the intent
\* (settle_managed_intent_from_journal).
SettleFromJournal(w) ==
    CASE child[w].state = "COMMITTED" /\ child[w].exact -> CommitIntent(w)
      [] child[w].state = "PROVEN_ABORTED" -> DropIntent(w)
      [] OTHER -> BlockIntent(w)

\* The end of ManagedDirectSink::complete: the writer reads the journal
\* (complete_reconciled) and commits its intent, or blocks it for the reconciler.
\* A decision that falls between the read and the block is one that follows both.
SettleCompleted(w) ==
    IF child[w].state = "COMMITTED" /\ child[w].exact THEN CommitIntent(w) ELSE BlockIntent(w)

CommitPhysicalWrite(o) ==
    LET w == Child(o)
    IN  /\ put[o].pc = "stored"
        /\ IF w \notin DOMAIN intents
           THEN Goto(o, "ledgered") /\ UNCHANGED <<intents, ledger>>
           ELSE IF ~WriterLease(w)
           THEN Goto(o, "failed") /\ UNCHANGED <<intents, ledger>>
           ELSE /\ SettleCompleted(w)
                /\ Goto(o, IF child[w].state = "COMMITTED" /\ child[w].exact
                           THEN "ledgered" ELSE "failed")
        /\ UNCHANGED <<ns, ops, usage, auth, repairs, child, prov, config, deletes, faults>>

\* ManagedDirectSink::abort renews the lease and reads the journal: a child that
\* may have committed settles the intent and keeps the slot, an open one starts
\* to abort, and one that a reconciler has taken on is an error.
AbortChild(o) ==
    LET w == Child(o)
    IN  /\ put[o].pc = "aborting"
        /\ IF ~WriterLease(w) \/ child[w].state \in {"ABORTING", "PROVEN_ABORTED"}
           THEN Goto(o, "failed") /\ UNCHANGED <<intents, ledger, child>>
           ELSE IF child[w].state = "OPEN"
           THEN /\ child' = [child EXCEPT ![w].state = "ABORTING"]
                /\ Goto(o, "withdrawing") /\ UNCHANGED <<intents, ledger>>
           ELSE SettleFromJournal(w) /\ Goto(o, "failed") /\ UNCHANGED child
        /\ UNCHANGED <<ns, ops, usage, auth, repairs, prov, config, deletes, faults>>

\* The provider calls of the abort and the transition that ends it.  A call that
\* fails leaves the row ABORTING, and a reconciler that was first is a conflict;
\* either is an error and the intent stays.
AbortAtProvider(o) ==
    LET w == Child(o)
    IN  /\ put[o].pc = "withdrawing"
        /\ \/ /\ w \in DOMAIN child /\ child[w].state = "ABORTING"
              /\ child' = [child EXCEPT ![w].state = "PROVEN_ABORTED"]
              /\ Goto(o, "aborted") /\ UNCHANGED faults
           \/ Fault /\ Goto(o, "failed") /\ UNCHANGED child
           \/ /\ w \in DOMAIN child => child[w].state # "ABORTING"
              /\ Goto(o, "failed") /\ UNCHANGED <<child, faults>>
        /\ UNCHANGED <<ns, ops, usage, auth, repairs, intents, ledger, prov, config, deletes>>

\* abort_physical_write: the intent goes if the lease is still the writer's.
WithdrawIntent(o) ==
    /\ put[o].pc = "aborted"
    /\ IF WriterLease(Child(o))
       THEN DropIntent(Child(o)) /\ Goto(o, "withdrawn")
       ELSE Goto(o, "failed") /\ UNCHANGED <<intents, ledger>>
    /\ UNCHANGED <<ns, ops, usage, auth, repairs, child, prov, config, deletes, faults>>

-----------------------------------------------------------------------------
(* Commit of the logical operation.                                         *)

\* Mutant: the replica is published as ready before its repair has run.
PublishedReady(o) ==
    [gen |-> o, size |-> ops[o].size, version |-> ops[o].version,
     primary |-> ops[o].backend, pin |-> [write |-> Child(o), n |-> child[Child(o)].n],
     replica |-> Placed(ops[o].version).replica, primaryStatus |-> "READY",
     replicaStatus |-> IF Placed(ops[o].version).replica = Nil THEN "ABSENT" ELSE "READY",
     tombstone |-> FALSE, cas |-> NextCas(ops[o].cas)]

\* The authority row a PUT publishes: its replica, if the placement has one, is
\* left to a repair.
Published(o) ==
    [gen |-> o, size |-> ops[o].size, version |-> ops[o].version,
     primary |-> ops[o].backend, pin |-> [write |-> Child(o), n |-> child[Child(o)].n],
     replica |-> Placed(ops[o].version).replica,
     primaryStatus |-> "READY",
     replicaStatus |-> IF Placed(ops[o].version).replica = Nil THEN "ABSENT" ELSE "REPAIR_PENDING",
     tombstone |-> FALSE, cas |-> NextCas(ops[o].cas)]

\* The row a delete leaves.
Tombstone(gen, cas) ==
    [gen |-> gen, size |-> 0, version |-> config, primary |-> Placed(config).primary,
     pin |-> Nil, replica |-> Placed(config).replica, primaryStatus |-> "ABSENT",
     replicaStatus |-> "ABSENT", tombstone |-> TRUE, cas |-> NextCas(cas)]

\* What both commits check of the rows they lock.
CanCommit(o) ==
    /\ ops[o].state \in {"COMPLETING", "COMMIT_UNKNOWN"}
    /\ ops[o].size # Nil
    /\ Fenced(o)
    /\ CasAt(auth[ops[o].key]) = ops[o].cas
    /\ SizeAt(auth[ops[o].key]) = ops[o].prior
    /\ usage.active = o

Allocation(o) == ops[o].size * Cardinality(ChildVersions(Child(o)))

PutFits(o) ==
    /\ ChildVersions(Child(o)) # {}
    /\ Allocation(o) = ops[o].size * child[Child(o)].n
    /\ Allocation(o) <= ops[o].reserved
    /\ usage.visible + ops[o].size <= VisibleLimit + ops[o].prior

\* Inserts the cleanup of the generation a commit replaces.
Superseding(repairs0, k, epoch) ==
    IF auth[k] = Nil \/ auth[k].tombstone THEN repairs0
    ELSE WithCleanups(repairs0, auth[k], LedgeredBackends(auth[k].gen), epoch)

\* commit_logical_put.
CommitLogicalPut(o) ==
    LET k == ops[o].key
    IN  /\ put[o].pc = "ledgered" /\ ops[o].kind = "PUT"
        /\ IF CanCommit(o) /\ PutFits(o)
           THEN /\ auth' = [auth EXCEPT ![k] = Published(o)]
                /\ repairs' = Superseding(WithPublication(repairs, Published(o), ops[o].epoch),
                                          k, ops[o].epoch)
                /\ usage' = [usage EXCEPT !.visible = @ + ops[o].size - ops[o].prior,
                                          !.allocated = @ + Allocation(o),
                                          !.reserved = @ - ops[o].reserved,
                                          !.active = Nil]
                /\ ops' = [ops EXCEPT ![o].state = "COMMITTED", ![o].committed = Allocation(o)]
                /\ Goto(o, "done")
           ELSE Goto(o, "failed") /\ UNCHANGED <<auth, repairs, usage, ops>>
        /\ UNCHANGED <<ns, intents, ledger, child, prov, config, deletes, faults>>

\* What commit_logical_delete checks of the rows it locks.
CanCommitDelete(o) == CanCommit(o) /\ ops[o].reserved = 0 /\ ops[o].prior <= usage.visible

\* commit_logical_delete.
CommitLogicalDelete(o) ==
    LET k == ops[o].key
    IN  /\ put[o].pc = "ledgered" /\ ops[o].kind = "DELETE"
        /\ IF CanCommitDelete(o)
           THEN /\ auth' = [auth EXCEPT ![k] = Tombstone(o, ops[o].cas)]
                /\ repairs' = Superseding(repairs, k, ops[o].epoch)
                /\ usage' = [usage EXCEPT !.visible = @ - ops[o].prior, !.active = Nil]
                /\ ops' = [ops EXCEPT ![o].state = "COMMITTED"]
                /\ Goto(o, "done")
           ELSE Goto(o, "failed") /\ UNCHANGED <<auth, repairs, usage, ops>>
        /\ UNCHANGED <<ns, intents, ledger, child, prov, config, deletes, faults>>

\* tombstone_authoritative: what a DELETE request runs, whether or not the key
\* has a row.  The row it publishes depends on nothing it read but the CAS, which
\* publish compares again under its lock: a read that is stale by then is a
\* conflict that changes nothing.  No usage row changes.
TombstoneAuthoritative(k) ==
    /\ Active
    /\ deletes < MaxDeletes
    /\ auth' = [auth EXCEPT ![k] = Tombstone(Nil, CasAt(@))]
    /\ repairs' = Superseding(repairs, k, ns.epoch)
    /\ deletes' = deletes + 1
    /\ UNCHANGED <<ns, ops, usage, intents, ledger, child, prov, put, config, faults>>

-----------------------------------------------------------------------------
(* Failures and the background reconciler.                                  *)

\* The gateway that serves a request stops.
Crash(o) ==
    /\ put[o].pc \notin {"idle", "done", "failed", "crashed"}
    /\ Goto(o, "crashed")
    /\ Fault
    /\ UNCHANGED <<ns, ops, usage, auth, repairs, intents, ledger, child, prov, config, deletes>>

\* The lease of an intent runs out: certainly when its writer is gone, and while
\* the writer is at work only if its renewals do not get through.
WriterGone(w) == put[w.gen].pc \in {"done", "failed", "crashed"}

ExpireIntent(w) ==
    /\ w \in DOMAIN intents /\ intents[w].live
    /\ w.by = "PUT"
    /\ IF WriterGone(w) THEN UNCHANGED faults ELSE Fault
    /\ intents' = [intents EXCEPT ![w].live = FALSE]
    /\ UNCHANGED <<ns, ops, usage, auth, repairs, ledger, child, prov, put, config, deletes>>

\* The operation reconciler decides a child from what the provider holds.  It goes
\* by the age of the journal row alone: a writer that still holds its intent loses
\* its child only when it is that slow.
ReconcileChild(w) ==
    /\ w \in DOMAIN child
    /\ child[w].state \in {"OPEN", "ABORTING", "COMMIT_UNKNOWN"}
    /\ IF WriterLease(w) THEN Fault ELSE UNCHANGED faults
    /\ child' = [child EXCEPT ![w].state = IF child[w].n > 0 THEN "COMMITTED" ELSE "PROVEN_ABORTED"]
    /\ UNCHANGED <<ns, ops, usage, auth, repairs, intents, ledger, prov, put, config, deletes>>

\* Mutant: an intent without a journal row is left alone.
ReconcileJournaled(w) ==
    /\ w \in DOMAIN intents /\ ~intents[w].live
    /\ w \in DOMAIN child /\ SettleFromJournal(w)
    /\ UNCHANGED <<ns, ops, usage, auth, repairs, child, prov, put, config, deletes, faults>>

\* reconcile_managed_write_intents, for one intent: an expired lease is claimed
\* (claim_expired_physical_write_intent), which ends the writer's; then, without
\* a journal row or with one that cannot settle it, the intent is blocked.
ReconcileIntent(w) ==
    /\ w \in DOMAIN intents /\ ~intents[w].live
    /\ IF w \in DOMAIN child THEN SettleFromJournal(w) ELSE BlockIntent(w)
    /\ UNCHANGED <<ns, ops, usage, auth, repairs, child, prov, put, config, deletes, faults>>

\* advance_routing_epoch.
AdvanceRoutingEpoch ==
    /\ Active
    /\ ns.routing < MaxRouting
    /\ ns' = [ns EXCEPT !.routing = @ + 1]
    /\ UNCHANGED <<ops, usage, auth, repairs, intents, ledger, child, prov, put, config, deletes, faults>>

RequestStep(o) ==
    \/ \E k \in Keys : ReadAuthority(o, k)
    \/ RouteFence(o)
    \/ \E kind \in {"PUT", "DELETE"} : InsertLogicalOperation(o, kind)
    \/ ReadUsage(o) \/ ReserveLogicalOperation(o)
    \/ BeginPhysicalWrite(o) \/ BeginJournal(o) \/ BeginJournalFails(o)
    \/ \E s \in Sizes : VerifyOutput(o, s)
    \/ WriteFails(o) \/ RecordLogicalUsage(o) \/ TransitionLogicalOperation(o)
    \/ CompleteChild(o) \/ CompleteRefused(o) \/ CommitPhysicalWrite(o)
    \/ AbortChild(o) \/ AbortAtProvider(o) \/ WithdrawIntent(o)
    \/ ProveLogicalAbort(o) \/ ProvePhysicalAbort(o)
    \/ CommitLogicalPut(o) \/ CommitLogicalDelete(o)
    \/ Crash(o)

IntentStep ==
    \E w \in DOMAIN intents : ExpireIntent(w) \/ ReconcileIntent(w)

ChildStep == \E w \in DOMAIN child : ReconcileChild(w)

WriteStep ==
    \/ \E o \in Ops : RequestStep(o)
    \/ \E k \in Keys : TombstoneAuthoritative(k)
    \/ IntentStep \/ ChildStep \/ AdvanceRoutingEpoch

-----------------------------------------------------------------------------
(* Properties.                                                              *)

HoldsSlot == {"OPEN", "COMPLETING", "COMMIT_UNKNOWN"}

\* What the operations have committed and no cleanup has released, and what the
\* current objects of the workspace hold.
ChargedBytes == SumFunction([o \in Ops |-> ops[o].committed - ops[o].released])
CurrentBytes == SumFunction([k \in Keys |-> SizeAt(auth[k])])

\* The usage row is what the operations add up to: the mutation slot is free or an
\* open operation's, the reserved bytes are those of that operation, and the
\* allocated bytes those that operations committed and no cleanup has released
\* (reserve_logical_operation, commit_logical_put, prove_logical_abort,
\* forget_physical_version and the reset of a purge all change one of them).
UsageExact ==
    /\ usage.reserved = IF usage.active = Nil THEN 0 ELSE ops[usage.active].reserved
    /\ usage.allocated = ChargedBytes
    /\ usage.active # Nil => ops[usage.active].state \in HoldsSlot

\* An open operation holds the slot, without which it can neither commit nor
\* abort.  Two requests that drive one purge break this: see the README.
OpenHoldsSlot == \A o \in Ops : ops[o].state \in HoldsSlot => usage.active = o

\* The quota of a workspace is never exceeded and never undercharged: the sizes
\* of its current objects are covered by the visible bytes, those stay within
\* the limit, and allocated and reserved bytes within limit and headroom.
QuotaCovers ==
    /\ CurrentBytes <= usage.visible
    /\ usage.visible <= VisibleLimit
    /\ usage.allocated + usage.reserved <= VisibleLimit + Headroom

\* Every version at a provider is either in the ledger, where cleanup and purge
\* find it, or covered by a write intent that a reconciler will settle.
LedgerCovers ==
    \A v \in prov : \/ \E l \in ledger : l.write = v.write /\ l.n = v.n
                    \/ v.write \in DOMAIN intents
=============================================================================
