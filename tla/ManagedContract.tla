--------------------------- MODULE ManagedContract ---------------------------
(***************************************************************************)
(* What the repository of managed storage promises, as the implementation   *)
(* that keeps its tables behind one lock states it                          *)
(* (InMemoryManagedRepository in crates/gateway/src/managed.rs).  Every      *)
(* method is one action and any client may call it with any arguments, in    *)
(* any order; a call that is refused changes nothing.                       *)
(*                                                                         *)
(* Who holds a lease is left out: a lease only decides who may make a call.  *)
(* The sizes, keys and digests that a call repeats for validation are the    *)
(* ones it names.                                                          *)
(***************************************************************************)
EXTENDS ManagedRecords

CONSTANTS
    Keys, Sizes, Placements, VisibleLimit, Headroom, MaxProcessed, MaxVersions,
    Purges,      \* purge operations
    Uploads,     \* multipart uploads
    MaxCas,      \* bound on CAS versions a client knows
    MaxToken,    \* bound on repair leases, which name the children of repairs
    MaxEpochs    \* bound on namespace and routing epochs

VARIABLES
    ns,         \* fenced_namespaces, namespace_epochs and routing_epochs
    ops,        \* logical_operations
    usage,      \* workspace_usage
    auth,       \* authorities
    repairs,    \* repairs
    intents,    \* physical_write_intents
    ledger,     \* physical_versions
    purges,     \* purges
    activity    \* multipart_activities

vars == <<ns, ops, usage, auth, repairs, intents, ledger, purges, activity>>

NoOp == [state |-> "NONE", kind |-> Nil, key |-> Nil, backend |-> Nil, version |-> 0,
         epoch |-> 0, routing |-> 0, cas |-> Nil, prior |-> 0, size |-> Nil,
         reserved |-> 0, committed |-> 0, released |-> 0]

NoActivity == [state |-> "NONE", epoch |-> 0]

Init ==
    /\ ns = [state |-> "ACTIVE", epoch |-> 1, routing |-> 1, purge |-> Nil]
    /\ ops = [o \in Ops |-> NoOp]
    /\ usage = [exists |-> FALSE, visible |-> 0, allocated |-> 0, reserved |-> 0,
                active |-> Nil]
    /\ auth = [k \in Keys |-> Nil]
    /\ repairs = [key \in RepairKeys |-> NoRepair]
    /\ intents = {}
    /\ ledger = {}
    /\ purges = [p \in Purges |-> [state |-> "NONE", deleted |-> 0]]
    /\ activity = [u \in Uploads |-> NoActivity]

Placed(v) == [version |-> v, primary |-> Placements[v].primary, replica |-> Placements[v].replica]

CasVersions == {Nil} \cup 1..MaxCas

Active == ns.state = "ACTIVE"

Fenced(o) == Active /\ ops[o].epoch = ns.epoch /\ ops[o].routing = ns.routing

Child(o) == [gen |-> o, backend |-> ops[o].backend, by |-> "PUT", token |-> 0]

Terminal(s) == s \in {"COMMITTED", "PROVEN_ABORTED"}

SizeAt(a) == IF a = Nil \/ a.tombstone THEN 0 ELSE a.size

CasAt(a) == IF a = Nil THEN Nil ELSE a.cas

NextCas(c) == IF c = Nil THEN 1 ELSE c + 1

ChildVersions(w) == {l \in ledger : l.write = w}

LedgeredOn(g) == {l.write.backend : l \in {m \in ledger : m.write.gen = g}}

-----------------------------------------------------------------------------
(* Logical operations and the usage row.                                    *)

AdvanceRoutingEpoch ==
    /\ Active
    /\ ns.routing < MaxEpochs
    /\ ns' = [ns EXCEPT !.routing = @ + 1]
    /\ UNCHANGED <<ops, usage, auth, repairs, intents, ledger, purges, activity>>

\* The intent carries the current fence and what its client read of the row it
\* is going to replace; the child it names is nowhere yet.
InsertLogicalOperation(o, kind, k, v, cas, prior) ==
    /\ Active
    /\ ops[o].state = "NONE"
    /\ ~\E i \in intents : i.write.by = "PUT" /\ i.write.gen = o
    /\ ~\E l \in ledger : l.write.by = "PUT" /\ l.write.gen = o
    /\ ops' = [ops EXCEPT ![o] =
          [NoOp EXCEPT !.state = "INTENT", !.kind = kind, !.key = k, !.version = v,
                       !.backend = Placed(v).primary, !.epoch = ns.epoch,
                       !.routing = ns.routing, !.cas = cas, !.prior = prior]]
    /\ UNCHANGED <<ns, usage, auth, repairs, intents, ledger, purges, activity>>

\* The one mutation slot of the workspace.
ReserveLogicalOperation(o, bytes) ==
    /\ Fenced(o)
    /\ ops[o].state = "INTENT"
    /\ usage.active = Nil
    /\ usage.allocated + usage.reserved + bytes <= VisibleLimit + Headroom
    /\ usage' = [usage EXCEPT !.exists = TRUE, !.active = o, !.reserved = @ + bytes]
    /\ ops' = [ops EXCEPT ![o].state = "OPEN", ![o].reserved = bytes]
    /\ UNCHANGED <<ns, auth, repairs, intents, ledger, purges, activity>>

RecordLogicalUsage(o, size) ==
    /\ ops[o].size = Nil
    /\ ops[o].state \in {"OPEN", "COMPLETING", "COMMIT_UNKNOWN"}
    /\ size <= MaxProcessed
    /\ ops[o].kind = "DELETE" => size = 0
    /\ ops' = [ops EXCEPT ![o].size = size]
    /\ UNCHANGED <<ns, usage, auth, repairs, intents, ledger, purges, activity>>

TransitionLogicalOperation(o, to) ==
    /\ <<ops[o].state, to>> \in {<<"OPEN", "COMPLETING">>, <<"OPEN", "COMMIT_UNKNOWN">>,
                                 <<"COMPLETING", "COMMIT_UNKNOWN">>, <<"COMMIT_UNKNOWN", "COMPLETING">>}
    /\ ops' = [ops EXCEPT ![o].state = to]
    /\ UNCHANGED <<ns, usage, auth, repairs, intents, ledger, purges, activity>>

Insert(rs, key, row) ==
    IF rs[key].state \in {"NONE", "DONE"} THEN [rs EXCEPT ![key] = row] ELSE rs

\* The cleanup of a generation at the locations of `a` that have versions.
Cleanups(rs, a, epoch) ==
    [key \in RepairKeys |->
        IF /\ key[1] = "DELETE_GENERATION" /\ key[2] = a.gen
           /\ key[3] \in CleanupTargets(a) \cap LedgeredOn(a.gen)
        THEN Insert(rs, key, CopyRepair(a, Nil, "CLEANUP", a.version, epoch))[key]
        ELSE rs[key]]

Publication(rs, a, epoch) ==
    IF a.replica # Nil /\ a.replicaStatus = "REPAIR_PENDING"
    THEN Insert(rs, <<"REPLICA", a.gen, a.replica>>,
                CopyRepair(a, a.primary, "REPLICA", a.version, epoch))
    ELSE rs

\* The repairs that go with a row that replaces another.
Replacing(k, new, epoch) ==
    LET old == auth[k]
        rs  == Publication(repairs, new, epoch)
    IN  IF old = Nil \/ old.tombstone THEN rs ELSE Cleanups(rs, old, epoch)

CanCommit(o) ==
    /\ ops[o].state \in {"COMPLETING", "COMMIT_UNKNOWN"}
    /\ ops[o].size # Nil
    /\ Fenced(o)
    /\ CasAt(auth[ops[o].key]) = ops[o].cas
    /\ SizeAt(auth[ops[o].key]) = ops[o].prior
    /\ usage.active = o

Allocation(o) == ops[o].size * Cardinality(ChildVersions(Child(o)))

Row(o, p, n) ==
    [gen |-> o, size |-> ops[o].size, version |-> p.version, primary |-> ops[o].backend,
     pin |-> [write |-> Child(o), n |-> n], replica |-> p.replica, primaryStatus |-> "READY",
     replicaStatus |-> IF p.replica = Nil THEN "ABSENT" ELSE "REPAIR_PENDING",
     tombstone |-> FALSE, cas |-> NextCas(ops[o].cas)]

CommitLogicalPut(o, v, n) ==
    LET new == Row(o, Placed(v), n)
    IN  /\ ops[o].kind = "PUT" /\ CanCommit(o)
        /\ ChildVersions(Child(o)) # {}
        /\ Allocation(o) <= ops[o].reserved
        /\ ops[o].prior <= usage.visible
        /\ usage.visible - ops[o].prior + ops[o].size <= VisibleLimit
        /\ auth' = [auth EXCEPT ![ops[o].key] = new]
        /\ repairs' = Replacing(ops[o].key, new, ops[o].epoch)
        /\ usage' = [usage EXCEPT !.visible = @ - ops[o].prior + ops[o].size,
                                  !.allocated = @ + Allocation(o),
                                  !.reserved = @ - ops[o].reserved, !.active = Nil]
        /\ ops' = [ops EXCEPT ![o].state = "COMMITTED", ![o].committed = Allocation(o)]
        /\ UNCHANGED <<ns, intents, ledger, purges, activity>>

TombstoneRow(gen, p, cas) ==
    [gen |-> gen, size |-> 0, version |-> p.version, primary |-> p.primary, pin |-> Nil,
     replica |-> p.replica, primaryStatus |-> "ABSENT", replicaStatus |-> "ABSENT",
     tombstone |-> TRUE, cas |-> NextCas(cas)]

CommitLogicalDelete(o, v) ==
    LET new == TombstoneRow(o, Placed(v), ops[o].cas)
    IN  /\ ops[o].kind = "DELETE" /\ CanCommit(o)
        /\ ops[o].reserved = 0 /\ ops[o].prior <= usage.visible
        /\ auth' = [auth EXCEPT ![ops[o].key] = new]
        /\ repairs' = Replacing(ops[o].key, new, ops[o].epoch)
        /\ usage' = [usage EXCEPT !.visible = @ - ops[o].prior, !.active = Nil]
        /\ ops' = [ops EXCEPT ![o].state = "COMMITTED"]
        /\ UNCHANGED <<ns, intents, ledger, purges, activity>>

\* Without physical evidence nothing may be in the ledger; with it, everything
\* that is there stays charged and is going to be cleaned up.
ProveLogicalAbort(o) ==
    LET left  == Cardinality(ChildVersions(Child(o)))
        bytes == IF left = 0 THEN 0 ELSE left * ops[o].size
        gone  == [gen |-> o, version |-> ops[o].version, primary |-> ops[o].backend,
                  replica |-> Nil, cas |-> 0]
    IN  /\ ops[o].state # "NONE" /\ ~Terminal(ops[o].state)
        /\ ops[o].epoch = ns.epoch
        /\ ops[o].state # "INTENT" => usage.active = o
        /\ left > 0 => ops[o].size # Nil
        /\ bytes <= ops[o].reserved
        /\ repairs' = IF left = 0 THEN repairs ELSE Cleanups(repairs, gone, ops[o].epoch)
        /\ usage' = [usage EXCEPT !.exists = TRUE, !.reserved = @ - ops[o].reserved,
                                  !.allocated = @ + bytes,
                                  !.active = IF @ = o THEN Nil ELSE @]
        /\ ops' = [ops EXCEPT ![o].state = "PROVEN_ABORTED", ![o].committed = bytes]
        /\ UNCHANGED <<ns, auth, intents, ledger, purges, activity>>

-----------------------------------------------------------------------------
(* The authority and its repairs.                                           *)

\* tombstone, which is a publish: no usage row changes with it.
Tombstone(k, v) ==
    LET new == TombstoneRow(Nil, Placed(v), CasAt(auth[k]))
    IN  /\ Active
        /\ auth' = [auth EXCEPT ![k] = new]
        /\ repairs' = Replacing(k, new, ns.epoch)
        /\ UNCHANGED <<ns, ops, usage, intents, ledger, purges, activity>>

AdvancePlacementVersion(k, v) ==
    /\ Active
    /\ auth[k] # Nil
    /\ ~auth[k].tombstone
    /\ v > auth[k].version
    /\ LocationsMatch(auth[k], Placed(v).primary, Placed(v).replica)
    /\ auth' = [auth EXCEPT ![k] = [@ EXCEPT !.version = v, !.cas = @ + 1]]
    /\ UNCHANGED <<ns, ops, usage, repairs, intents, ledger, purges, activity>>

\* A copy must be computed from the current row.
Enqueue(k, kind, source, target, role, p) ==
    LET a == auth[k]
        row == IF kind = "PLACEMENT" THEN PlacementRepair(a, source, role, p, ns.epoch)
               ELSE CopyRepair(a, source, role, a.version, ns.epoch)
    IN  /\ Active
        /\ a # Nil /\ a.gen # Nil
        /\ repairs' = Insert(repairs, <<kind, a.gen, target>>, row)
        /\ UNCHANGED <<ns, ops, usage, auth, intents, ledger, purges, activity>>

ClaimRepair(key) ==
    /\ Active /\ repairs[key].epoch = ns.epoch
    /\ repairs[key].state = "PENDING"
    /\ repairs' = [repairs EXCEPT ![key].state = "LEASED"]
    /\ UNCHANGED <<ns, ops, usage, auth, intents, ledger, purges, activity>>

Applied(a, key, r) ==
    [(IF key[1] = "PLACEMENT" THEN ApplyPlacement(a, key[3], r) ELSE ApplyCopy(a, key[3], r))
        EXCEPT !.cas = a.cas + 1]

\* The cleanups of a finished placement leg wait, and the leg that reaches the
\* placement version releases them.
Moved(rs, old, new, r) ==
    LET waiting == [key \in RepairKeys |->
            IF /\ key[1] = "DELETE_GENERATION" /\ key[2] = old.gen
               /\ key[3] \in AbandonedLocations(old, new)
            THEN InsertWaiting(rs, key, CopyRepair(old, Nil, "CLEANUP", r.version, r.epoch))[key]
            ELSE rs[key]]
    IN  IF new.version = r.version THEN ReleaseWaiting(waiting, old.gen, r.version) ELSE waiting

\* complete_repair takes the record of its caller's claim, of which it checks the
\* lease and the epoch; what it applies is that record and not the stored row.
Record(key, cas, role, v) ==
    LET p == IF key[1] = "PLACEMENT" THEN Placed(v) ELSE [primary |-> Nil, replica |-> Nil]
    IN  [NoRepair EXCEPT !.cas = cas, !.role = role, !.version = v, !.epoch = ns.epoch,
                         !.primary = p.primary, !.replica = p.replica]

CompleteRepair(key, r) ==
    LET done == [repairs EXCEPT ![key].state = "DONE"]
        hit  == {k \in Keys : key[1] # "DELETE_GENERATION" /\ RepairApplies(auth[k], key, r)}
    IN  /\ repairs[key].state = "LEASED"
        /\ IF hit = {} THEN repairs' = done /\ UNCHANGED auth
           ELSE \E k \in hit :
                  LET new == Applied(auth[k], key, r)
                  IN  /\ auth' = [auth EXCEPT ![k] = new]
                      /\ repairs' = IF key[1] = "PLACEMENT" THEN Moved(done, auth[k], new, r)
                                    ELSE done
        /\ UNCHANGED <<ns, ops, usage, intents, ledger, purges, activity>>

\* fail_repair: the attempts are not part of the contract, because the two
\* implementations count them differently when a finished row is revived.
FailRepair(key) ==
    /\ repairs[key].state = "LEASED"
    /\ \E next \in {"PENDING", "DEAD"} : repairs' = [repairs EXCEPT ![key].state = next]
    /\ UNCHANGED <<ns, ops, usage, auth, intents, ledger, purges, activity>>

-----------------------------------------------------------------------------
(* Physical writes.                                                         *)

\* The child of a logical operation needs its open parent, in the slot and in
\* the fence; any other write needs an active namespace.
BeginPhysicalWrite(w) ==
    /\ Active
    /\ w \notin {i.write : i \in intents}
    /\ w.by = "PUT" => /\ w = Child(w.gen)
                       /\ ops[w.gen].state = "OPEN" /\ usage.active = w.gen /\ Fenced(w.gen)
    /\ intents' = intents \cup {[write |-> w, epoch |-> ns.epoch, blocked |-> FALSE]}
    /\ UNCHANGED <<ns, ops, usage, auth, repairs, ledger, purges, activity>>

CommitPhysicalWrite(i, n) ==
    /\ intents' = intents \ {i}
    /\ ledger' = ledger \cup {[write |-> i.write, n |-> j, epoch |-> i.epoch] : j \in 1..n}
    /\ UNCHANGED <<ns, ops, usage, auth, repairs, purges, activity>>

AbortPhysicalWrite(i) ==
    /\ intents' = intents \ {i}
    /\ UNCHANGED <<ns, ops, usage, auth, repairs, ledger, purges, activity>>

BlockPhysicalWrite(i) ==
    /\ intents' = (intents \ {i}) \cup {[i EXCEPT !.blocked = TRUE]}
    /\ UNCHANGED <<ns, ops, usage, auth, repairs, ledger, purges, activity>>

\* With the last version of a child its parent's bytes are released.
ForgetPhysicalVersion(l) ==
    LET o    == l.write.gen
        free == ops[o].committed - ops[o].released
        last == ChildVersions(l.write) = {l} /\ l.write = Child(o) /\ free > 0
    IN  /\ ledger' = ledger \ {l}
        /\ usage' = IF last THEN [usage EXCEPT !.allocated = @ - free] ELSE usage
        /\ ops' = IF last THEN [ops EXCEPT ![o].released = ops[o].committed] ELSE ops
        /\ UNCHANGED <<ns, auth, repairs, intents, purges, activity>>

-----------------------------------------------------------------------------
(* Purge and multipart registrations.                                       *)

Settled == \A o \in Ops : ops[o].state = "NONE" \/ Terminal(ops[o].state)

Emptied == intents = {} /\ ledger = {} /\ \A u \in Uploads : activity[u].state = "NONE"

\* finish_purge: blocked by an ambiguous write or an unresolved operation, held
\* back by what is still there, and otherwise the end of the epoch.
FinishPurge(p, status) ==
    IF (\E i \in intents : i.blocked) \/ ~Settled
    THEN /\ purges' = [purges EXCEPT ![p] = [status EXCEPT !.state = "BLOCKED"]]
         /\ UNCHANGED <<ops, usage, auth, repairs>>
    ELSE IF ~Emptied
    THEN /\ purges' = [purges EXCEPT ![p] = status]
         /\ UNCHANGED <<ops, usage, auth, repairs>>
    ELSE /\ purges' = [purges EXCEPT ![p] = [status EXCEPT !.state = "COMPLETE"]]
         /\ auth' = [k \in Keys |-> Nil]
         /\ repairs' = [key \in RepairKeys |-> NoRepair]
         /\ ops' = [o \in Ops |-> [ops[o] EXCEPT !.released = ops[o].committed]]
         /\ usage' = [usage EXCEPT !.visible = 0, !.allocated = 0, !.reserved = 0, !.active = Nil]

\* Whether finish_purge ends the epoch.
Finishes == Settled /\ Emptied

Reopened == [state |-> "ACTIVE", epoch |-> ns.epoch + 1, routing |-> ns.routing + 1, purge |-> Nil]

AccountedFor(a) ==
    a # Nil /\ ~a.tombstone =>
        /\ a.primary \in LedgeredOn(a.gen)
        /\ a.replicaStatus = "READY" /\ a.replica # Nil => a.replica \in LedgeredOn(a.gen)

\* purge_namespace fences the namespace and then asks for the status, which the
\* database does in a transaction of its own.
PurgeNamespace(p) ==
    /\ purges[p].state = "NONE"
    /\ Active
    /\ ns.epoch < MaxEpochs
    /\ \A k \in Keys : AccountedFor(auth[k])
    /\ purges' = [purges EXCEPT ![p] = [state |-> "RUNNING", deleted |-> 0]]
    /\ ns' = [ns EXCEPT !.state = "PURGING", !.purge = p]
    /\ UNCHANGED <<ops, usage, auth, repairs, intents, ledger, activity>>

\* namespace_purge_status, and a repeated purge_namespace.
NamespacePurgeStatus(p) ==
    /\ purges[p].state \notin {"NONE", "COMPLETE"}
    /\ ns.epoch < MaxEpochs
    /\ FinishPurge(p, purges[p])
    /\ ns' = IF Finishes THEN Reopened ELSE ns
    /\ UNCHANGED <<intents, ledger, activity>>

MarkPurgeTargetDeleted(p, l) ==
    /\ purges[p].state # "NONE"
    /\ ledger' = ledger \ {l}
    /\ purges' = [purges EXCEPT ![p] = [state |-> "RUNNING", deleted |-> @.deleted + 1]]
    /\ UNCHANGED <<ns, ops, usage, auth, repairs, intents, activity>>

MarkPurgeTargetBlocked(p) ==
    /\ purges[p].state # "NONE"
    /\ purges' = [purges EXCEPT ![p].state = "BLOCKED"]
    /\ UNCHANGED <<ns, ops, usage, auth, repairs, intents, ledger, activity>>

BeginMultipartActivity(u) ==
    /\ Active
    /\ activity[u].state = "NONE"
    /\ activity' = [activity EXCEPT ![u] = [state |-> "REGISTERING", epoch |-> ns.epoch]]
    /\ UNCHANGED <<ns, ops, usage, auth, repairs, intents, ledger, purges>>

ConfirmMultipartActivity(u) ==
    /\ Active
    /\ activity[u].state # "NONE"
    /\ activity' = [activity EXCEPT ![u].state = "ACTIVE"]
    /\ UNCHANGED <<ns, ops, usage, auth, repairs, intents, ledger, purges>>

\* finish_multipart_activity.
RemoveMultipartActivity(u) ==
    /\ activity[u].state # "NONE"
    /\ activity' = [activity EXCEPT ![u] = NoActivity]
    /\ UNCHANGED <<ns, ops, usage, auth, repairs, intents, ledger, purges>>

\* reconcile_multipart_activities, whose default does nothing: a registration
\* that was never confirmed follows its upload, in a fenced namespace too.
ReconcileMultipartActivity(u) ==
    /\ activity[u].state = "REGISTERING"
    /\ activity' \in {[activity EXCEPT ![u].state = "ACTIVE"], [activity EXCEPT ![u] = NoActivity]}
    /\ UNCHANGED <<ns, ops, usage, auth, repairs, intents, ledger, purges>>

-----------------------------------------------------------------------------

\* The writes that copy a generation for a repair.
Copies == [gen : Ops, backend : Backends, by : {"REPLICA", "PLACEMENT"}, token : 1..MaxToken]

OperationCall(o) ==
    \/ /\ ops[o].state = "NONE"
       /\ \E kind \in {"PUT", "DELETE"}, k \in Keys, v \in DOMAIN Placements, cas \in CasVersions,
             prior \in {0} \cup Sizes : InsertLogicalOperation(o, kind, k, v, cas, prior)
    \/ \E bytes \in 0..(VisibleLimit + Headroom) : ReserveLogicalOperation(o, bytes)
    \/ \E size \in {0} \cup Sizes : RecordLogicalUsage(o, size)
    \/ \E to \in {"COMPLETING", "COMMIT_UNKNOWN"} : TransitionLogicalOperation(o, to)
    \/ \E v \in DOMAIN Placements, n \in 1..MaxVersions : CommitLogicalPut(o, v, n)
    \/ \E v \in DOMAIN Placements : CommitLogicalDelete(o, v)
    \/ ProveLogicalAbort(o)

AuthorityCall(k) ==
    \E v \in DOMAIN Placements :
       \/ Tombstone(k, v)
       \/ /\ auth[k] # Nil
          /\ \/ AdvancePlacementVersion(k, v)
             \/ \E source \in Backends, role \in {"PRIMARY", "REPLICA"} :
                   LET target == IF role = "PRIMARY" THEN Placed(v).primary ELSE Placed(v).replica
                   IN  \/ target # Nil /\ Enqueue(k, "PLACEMENT", source, target, role, Placed(v))
                       \/ \E b \in Backends : Enqueue(k, "REPLICA", source, b, role, Placed(v))

RepairCall(key) ==
    \/ ClaimRepair(key) \/ FailRepair(key)
    \/ /\ repairs[key].state = "LEASED"
       /\ \E cas \in {0} \cup {CasAt(auth[k]) : k \in Keys}, role \in {"PRIMARY", "REPLICA"},
             v \in DOMAIN Placements : CompleteRepair(key, Record(key, cas, role, v))

WriteCall ==
    \/ \E w \in {Child(o) : o \in Ops} \cup Copies : BeginPhysicalWrite(w)
    \/ \E i \in intents : \/ \E n \in 1..MaxVersions : CommitPhysicalWrite(i, n)
                          \/ AbortPhysicalWrite(i) \/ BlockPhysicalWrite(i)
    \/ \E l \in ledger : ForgetPhysicalVersion(l)

PurgeCall ==
    \/ \E p \in Purges : \/ PurgeNamespace(p) \/ NamespacePurgeStatus(p)
                         \/ MarkPurgeTargetBlocked(p)
                         \/ \E l \in ledger : MarkPurgeTargetDeleted(p, l)
    \/ \E u \in Uploads : \/ BeginMultipartActivity(u) \/ ConfirmMultipartActivity(u)
                          \/ RemoveMultipartActivity(u) \/ ReconcileMultipartActivity(u)

Refused == UNCHANGED vars

Next ==
    \/ Refused
    \/ AdvanceRoutingEpoch
    \/ \E o \in Ops : OperationCall(o)
    \/ \E k \in Keys : AuthorityCall(k)
    \/ \E key \in RepairKeys : RepairCall(key)
    \/ WriteCall
    \/ PurgeCall

Spec == Init /\ [][Next]_vars
=============================================================================
