--------------------------- MODULE ManagedRecords ---------------------------
(***************************************************************************)
(* The rows of the managed object authority (crates/gateway/src/managed.rs)*)
(* and what the repository computes from them: which repairs an authority  *)
(* change calls for, how a repair row is inserted or revived, and how a     *)
(* finished repair changes the authority row.                              *)
(*                                                                         *)
(* A generation is named by the logical operation that writes it, so the    *)
(* physical key of a generation is the generation itself.  Digests, sizes   *)
(* and metadata copied into a repair row identify the generation and are    *)
(* left out of the row.                                                    *)
(***************************************************************************)
EXTENDS Naturals, FiniteSets

CONSTANTS
    Ops,         \* logical operations; each names the generation it writes
    Backends,    \* managed provider backends
    Nil          \* an absent value

CopyStatuses == {"READY", "REPAIR_PENDING", "ABSENT"}

RepairKinds == {"REPLICA", "PLACEMENT", "DELETE_GENERATION"}

\* The unique index of managed_object_repair: kind, generation, target.
RepairKeys == RepairKinds \X Ops \X Backends

NoRepair ==
    [state |-> "NONE", cas |-> 0, source |-> Nil, role |-> "CLEANUP",
     version |-> 0, primary |-> Nil, replica |-> Nil, attempts |-> 0,
     token |-> 0, live |-> FALSE, epoch |-> 0]

\* RepairRecord::copy: a fresh, unleased row bound to the authority it was
\* computed from.
CopyRepair(a, source, role, version, epoch) ==
    [NoRepair EXCEPT !.state = "PENDING", !.cas = a.cas, !.source = source,
                     !.role = role, !.version = version, !.epoch = epoch]

\* RepairRecord::placement: a copy that also carries the requested placement.
PlacementRepair(a, source, role, p, epoch) ==
    [CopyRepair(a, source, role, p.version, epoch) EXCEPT
        !.primary = p.primary, !.replica = p.replica]

\* cleanup_repairs: where a replaced generation has to be deleted.
CleanupTargets(a) == {a.primary, a.replica} \ {Nil}

\* placement_cleanup_repairs: the locations a placement change gives up.
AbandonedLocations(old, new) ==
    {old.primary, old.replica} \ {Nil, new.primary, new.replica}

\* insert_repair: ON CONFLICT DO NOTHING on the unique index, after which only
\* a DONE row is revived; attempts and backoff of the old row survive.
InsertRepair(repairs, key, row) ==
    CASE repairs[key].state = "NONE" -> [repairs EXCEPT ![key] = row]
      [] repairs[key].state = "DONE" ->
            [repairs EXCEPT ![key] = [row EXCEPT !.attempts = repairs[key].attempts,
                                                 !.token = repairs[key].token]]
      [] OTHER -> repairs

\* insert_waiting_placement_cleanup: the same insertion without the revival.
InsertWaiting(repairs, key, row) ==
    IF repairs[key].state = "NONE"
    THEN [repairs EXCEPT ![key] = [row EXCEPT !.state = "WAITING_CUTOVER"]]
    ELSE repairs

\* The cleanup rows a commit inserts for the generation it replaces: one per
\* location that has ledgered versions.
WithCleanups(repairs, a, ledgered, epoch) ==
    [key \in RepairKeys |->
        IF /\ key[1] = "DELETE_GENERATION"
           /\ key[2] = a.gen
           /\ key[3] \in CleanupTargets(a) \cap ledgered
        THEN InsertRepair(repairs, key,
                          CopyRepair(a, Nil, "CLEANUP", a.version, epoch))[key]
        ELSE repairs[key]]

\* publication_repairs: a published authority whose replica is still to be
\* written gets one replica repair.
WithPublication(repairs, a, epoch) ==
    IF a.replica # Nil /\ a.replicaStatus = "REPAIR_PENDING"
    THEN InsertRepair(repairs, <<"REPLICA", a.gen, a.replica>>,
                      CopyRepair(a, a.primary, "REPLICA", a.version, epoch))
    ELSE repairs

\* The cutover of complete_repair: the rows that waited for this placement
\* version of the generation become claimable.
ReleaseWaiting(repairs, gen, version) ==
    [key \in RepairKeys |->
        IF /\ repairs[key].state = "WAITING_CUTOVER"
           /\ key[2] = gen
           /\ repairs[key].version = version
        THEN [repairs[key] EXCEPT !.state = "PENDING"]
        ELSE repairs[key]]

\* The locations and copy states an authority must have to be at a placement
\* (reconcile_authority_placement, advance_placement_version and the last
\* condition of apply_repair_to_authority).
LocationsMatch(a, primary, replica) ==
    /\ a.primary = primary
    /\ a.primaryStatus = "READY"
    /\ IF replica = Nil
       THEN a.replica = Nil /\ a.replicaStatus = "ABSENT"
       ELSE a.replica = replica /\ a.replicaStatus = "READY"

\* apply_repair_to_authority, for a placement repair: one leg of the move.
ApplyPlacement(a, target, r) ==
    LET moved ==
          IF r.role = "PRIMARY"
          THEN [a EXCEPT
                  !.primary = target,
                  !.primaryStatus = "READY",
                  !.replica = IF r.replica = Nil THEN Nil ELSE @,
                  !.replicaStatus = IF r.replica = Nil THEN "ABSENT" ELSE @]
          ELSE [a EXCEPT !.replica = target, !.replicaStatus = "READY"]
    IN  [moved EXCEPT !.version = IF LocationsMatch(moved, r.primary, r.replica)
                                  THEN r.version ELSE @]

\* apply_repair_to_authority, for a replica repair: the copy is in place.
ApplyCopy(a, target, r) ==
    IF r.role = "PRIMARY"
    THEN [a EXCEPT !.primary = target, !.primaryStatus = "READY"]
    ELSE [a EXCEPT !.replica = target, !.replicaStatus = "READY"]

\* Whether a finished copy changes the authority at all: the row still shows
\* the generation and the CAS version the repair was computed from, and no
\* newer placement has been reached.
RepairApplies(a, key, r) ==
    /\ a # Nil
    /\ ~a.tombstone
    /\ a.gen = key[2]
    /\ a.cas = r.cas
    /\ key[1] = "PLACEMENT" => r.version >= a.version
=============================================================================
