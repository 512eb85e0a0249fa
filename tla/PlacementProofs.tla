--------------------------- MODULE PlacementProofs ---------------------------
(* Where the copies of an object are, and that what the authority calls READY is
   held there and ledgered, for any number of operations, keys, backends, repair
   workers and purges, and any sequence of placements, at every backend that the
   placements do not come back to.

   The first part follows the locations of a row: which placement a leg was computed
   for, which cleanups may run, and that no step brings a row to a location whose
   cleanup may run.  The second part follows the copies: the ledger, the providers,
   and who may delete what. *)
EXTENDS ManagedProofs

-----------------------------------------------------------------------------
(* Ready copies *)

\* A row that shows an object, and where its copies are.
Shows(a) == a # Nil /\ ~ a.tombstone
LocationsOf(a) == {a.primary, a.replica}

\* The cleanup of a generation at a backend that is not come back to may run, or has run.
Cleared(rs, g, b) == OneWay(b) /\ rs[<<"DELETE_GENERATION", g, b>>].state \notin {"NONE", "WAITING_CUTOVER"}

\* The copies of a row are where placements up to version v have them.
PrimaryBy(a, v) == \E u \in 1..v : Placements[u].primary = a.primary
ReplicaBy(a, v) == a.replica # Nil => \E u \in 1..v : Placements[u].replica = a.replica

(* A cleanup that may run is for a location that the row has left and no placement
   from version c on has, or for its primary, which was a replica before. *)
ClearedOK(a, rs, c, b) ==
    Cleared(rs, a.gen, b) =>
        IF b \in LocationsOf(a) THEN a.primary = b /\ a.replica # b
        ELSE \A u \in c..Len(Placements) : b \notin LocationsAt(u)

RowPlaced(a, rs, c) ==
    /\ a.primary \in Backends /\ a.replica \in Backends \cup {Nil}
    /\ a.replicaStatus = "READY" => a.replica # Nil
    /\ PrimaryBy(a, c) /\ ReplicaBy(a, c)
    /\ \A b \in Backends : ClearedOK(a, rs, c, b)

\* A leg to backend b of placement version v, computed from row a.
Leg(a, rs, b, v) ==
    /\ v > a.version /\ PrimaryBy(a, v) /\ ReplicaBy(a, v)
    /\ b \in LocationsOf(a) \/ ~ Cleared(rs, a.gen, b)

(* A repair row, or the copy of it that a worker has: it was computed from the row as
   it is or from an earlier one. *)
Bound(a, rs, key, r) ==
    /\ r.cas \in Nat /\ r.cas <= a.cas
    /\ r.cas = a.cas =>
        IF key[1] = "PLACEMENT"
        THEN /\ Leg(a, rs, key[3], r.version)
             /\ r.primary = Placements[r.version].primary /\ r.replica = Placements[r.version].replica
             /\ key[3] = IF r.role = "PRIMARY" THEN r.primary ELSE r.replica
        ELSE key[3] = IF r.role = "PRIMARY" THEN a.primary ELSE a.replica

\* So is what a survey or a read is about to enqueue.
SurveyBound(a, rs, s) ==
    s.legs # {} /\ s.row.gen = a.gen =>
        /\ s.row.cas \in Nat /\ s.row.cas <= a.cas
        /\ s.row.cas = a.cas =>
            /\ s.row = a
            /\ s.legs \ {"RESTORE", "ADVANCE"} # {} =>
                 \A b \in LocationsAt(s.version) \ {Nil} : Leg(a, rs, b, s.version)

\* The repair rows of table rows, the workers ws and the survey s are so about row a.
WorkBound(a, rs, rows, ws, s) ==
    /\ \A key \in RepairKeys : key[1] \in CopyKinds /\ key[2] = a.gen /\ rows[key].state # "NONE" => Bound(a, rs, key, rows[key])
    /\ \A i \in Workers : ws[i].pc # "idle" /\ ws[i].key[1] \in CopyKinds /\ ws[i].key[2] = a.gen =>
          Bound(a, rs, ws[i].key, ws[i].row)
    /\ SurveyBound(a, rs, s)

KeyPlaced(k) ==
    /\ auth[k].gen \in Ops /\ ops[auth[k].gen].key = k /\ ops[auth[k].gen].epoch = ns.epoch
    /\ RowPlaced(auth[k], repairs, config)
    /\ WorkBound(auth[k], repairs, repairs, worker, survey)
RowsPlaced == \A k \in Keys : Shows(auth[k]) => KeyPlaced(k)

\* A location waits for a placement version to be reached that has no replica there.
WaitOK(key, v) ==
    /\ Placements[v].replica # key[3]
    /\ v > 0 /\ \E u \in 1..v : key[3] \in LocationsAt(u)
WaitsFor(key, v) == key[1] = "DELETE_GENERATION" /\ (OneWay(key[3]) => WaitOK(key, v))
Waits == \A key \in RepairKeys : repairs[key].state = "WAITING_CUTOVER" => WaitsFor(key, repairs[key].version)

\* What operations, repair rows, workers and the survey are about.
OpsPlaced ==
    \A o \in Ops : /\ ops[o].epoch \in Nat /\ ops[o].epoch <= ns.epoch
                   /\ ops[o].state # "NONE" => ops[o].version > 0 /\ ops[o].backend = Placements[ops[o].version].primary
WorkKnown ==
    /\ config \in 1..Len(Placements)
    /\ \A key \in RepairKeys : repairs[key].state # "NONE" => repairs[key].epoch = ns.epoch /\ Terminal(ops[key[2]].state)
    /\ \A i \in Workers : worker[i].pc # "idle" => Terminal(ops[worker[i].key[2]].state)
    /\ survey.legs # {} => survey.row.gen \in Ops /\ Terminal(ops[survey.row.gen].state)

PlacedInvariant == EpochInvariant /\ ForwardInvariant /\ RowsPlaced /\ Waits /\ OpsPlaced /\ WorkKnown

\* The placements as the constants give them.
LEMMA PlacementTypes ==
  /\ Len(Placements) \in Nat \ {0}
  /\ \A v \in 1..Len(Placements) : Placements[v].primary \in Backends /\ Placements[v].replica \in Backends \cup {Nil}
<1>1. PICK S : S = [primary : Backends, replica : Backends \cup {Nil}]
  OBVIOUS
<1>2. Placements \in Seq(S) /\ Placements # <<>>
  BY <1>1, RepairAssumption
<1>3. Len(Placements) \in Nat /\ Len(Placements) # 0 /\ \A v \in 1..Len(Placements) : Placements[v] \in S
  BY <1>2
<1>4. \A v \in 1..Len(Placements) : Placements[v] \in [primary : Backends, replica : Backends \cup {Nil}]
  BY <1>1, <1>3
<1> QED BY <1>3, <1>4

\* What a leg of version v moves: the primary, and a replica that v does without, or the replica.
Moved(a, b, v, role) ==
    /\ b.gen = a.gen
    /\ role = "PRIMARY" =>
         /\ b.primary = Placements[v].primary
         /\ b.replica = IF Placements[v].replica = Nil THEN Nil ELSE a.replica
    /\ role # "PRIMARY" => b.primary = a.primary /\ b.replica = Placements[v].replica
    /\ b.version \in {a.version, v}
    /\ b.version = v => b.primary = Placements[v].primary /\ b.replica = Placements[v].replica

(* A location that a leg gives up is waited for rightly. *)
LEMMA AbandonedWaits ==
  ASSUME NEW c \in 1..Len(Placements), NEW v \in 1..c, NEW a, NEW b, NEW role, NEW g,
         PrimaryBy(a, v), ReplicaBy(a, v), Moved(a, b, v, role),
         NEW x \in Backends, OneWay(x), x \in AbandonedLocations(a, b)
  PROVE  WaitOK(<<"DELETE_GENERATION", g, x>>, v)
<1>1. x \in {a.primary, a.replica} /\ x \notin {b.primary, b.replica} /\ x # Nil /\ v \in 1..Len(Placements) /\ v \in Nat
  BY PlacementTypes DEF AbandonedLocations
<1>2. CASE role = "PRIMARY" /\ x = a.primary
  <2>1. PICK u \in 1..v : Placements[u].primary = x
    BY <1>2 DEF PrimaryBy
  <2>2. u \in 1..Len(Placements) /\ u <= v
    BY <1>1, PlacementTypes
  <2> QED BY <1>1, <2>1, <2>2 DEF OneWay, WaitOK, LocationsAt
<1>3. CASE role = "PRIMARY" /\ x # a.primary
  <2>1. x = a.replica /\ Placements[v].replica = Nil
    BY <1>1, <1>3 DEF Moved
  <2>2. PICK u \in 1..v : Placements[u].replica = x
    BY <1>1, <2>1 DEF ReplicaBy
  <2> QED BY <1>1, <2>1, <2>2 DEF WaitOK, LocationsAt
<1>4. CASE role # "PRIMARY"
  <2>1. x = a.replica /\ Placements[v].replica # x
    BY <1>1, <1>4 DEF Moved
  <2>2. PICK u \in 1..v : Placements[u].replica = x
    BY <1>1, <2>1 DEF ReplicaBy
  <2> QED BY <1>1, <2>1, <2>2 DEF WaitOK, LocationsAt
<1> QED BY <1>2, <1>3, <1>4

(* A cleanup that the cutover to version v releases is for the new primary or for a
   location that no placement to come has. *)
LEMMA ReleasedOK ==
  ASSUME NEW c \in 1..Len(Placements), NEW v \in 1..c, NEW b, NEW rs, NEW x \in Backends, OneWay(x), NEW g,
         WaitOK(<<"DELETE_GENERATION", g, x>>, v), b.primary = Placements[v].primary, b.replica = Placements[v].replica
  PROVE  ClearedOK(b, rs, c, x)
<1>1. v \in 1..Len(Placements) /\ Placements[v].replica # x
  BY PlacementTypes DEF WaitOK
<1>2. PICK u \in 1..v : x \in LocationsAt(u)
  BY DEF WaitOK
<1>3. CASE x \in LocationsOf(b)
  BY <1>1, <1>3 DEF LocationsOf, ClearedOK
<1>4. CASE x \notin LocationsOf(b)
  <2>1. x \notin LocationsAt(v)
    BY <1>4 DEF LocationsOf, LocationsAt
  <2>2. u # v /\ u \in Nat /\ v \in Nat /\ u < v
    BY <1>2, <2>1
  <2>3. ASSUME NEW w \in c..Len(Placements) PROVE x \notin LocationsAt(w)
    <3>1. w = v \/ v < w
      BY PlacementTypes
    <3>2. u \in 1..Len(Placements) /\ w \in 1..Len(Placements)
      BY <1>1, PlacementTypes
    <3> QED BY <1>1, <1>2, <2>1, <2>2, <3>1, <3>2 DEF OneWay
  <2> QED BY <1>4, <2>3 DEF ClearedOK
<1> QED BY <1>3, <1>4

(* A leg keeps what is said of the cleanups that could run before, and comes to none of
   their locations. *)
LEMMA LegKeepsCleared ==
  ASSUME NEW c \in 1..Len(Placements), NEW v \in 1..c, NEW a, NEW b, NEW role, NEW rs, NEW to, NEW x \in Backends,
         PrimaryBy(a, v), ReplicaBy(a, v), Moved(a, b, v, role), ClearedOK(a, rs, c, x), Cleared(rs, a.gen, x),
         NEW t, t = IF role = "PRIMARY" THEN Placements[v].primary ELSE Placements[v].replica,
         t \in LocationsOf(a) \/ ~ Cleared(rs, a.gen, t)
  PROVE  ClearedOK(b, to, c, x) /\ (x \in LocationsOf(b) => x \in LocationsOf(a))
<1>1. v \in 1..Len(Placements) /\ x # Nil /\ v \in Nat /\ c \in Nat
  BY PlacementTypes, ManagedAssumption
<1>2. PICK u \in 1..v : Placements[u].primary = a.primary
  BY DEF PrimaryBy
<1>3. u \in 1..Len(Placements) /\ u <= v /\ u \in Nat
  BY <1>1, PlacementTypes
<1>0. OneWay(x)
  BY DEF Cleared
<1>4. x = a.primary => \A w \in v..Len(Placements) : Placements[w].replica # x
  BY <1>0, <1>1, <1>2, <1>3 DEF OneWay
<1>5. CASE x \notin LocationsOf(a)
  <2>1. x # t
    BY <1>5
  <2>2. x \notin LocationsOf(b)
    BY <1>1, <1>5, <2>1 DEF Moved, LocationsOf
  <2> QED BY <1>5, <2>2 DEF ClearedOK
<1>6. CASE x \in LocationsOf(a)
  <2>1. a.primary = x /\ a.replica # x
    BY <1>6 DEF ClearedOK
  <2>2. CASE x \in LocationsOf(b)
    <3>1. b.replica # x
      BY <1>1, <1>4, <2>1 DEF Moved
    <3> QED BY <1>6, <2>2, <3>1 DEF ClearedOK, LocationsOf
  <2>3. CASE x \notin LocationsOf(b)
    <3>1. role = "PRIMARY" /\ Placements[v].primary # x
      BY <2>1, <2>3 DEF Moved, LocationsOf
    <3>2. x \notin LocationsAt(v) /\ x \in LocationsAt(u)
      BY <1>1, <1>2, <1>4, <2>1, <3>1 DEF LocationsAt
    <3>3. u < v
      BY <1>1, <1>3, <3>2
    <3>4. ASSUME NEW w \in c..Len(Placements) PROVE x \notin LocationsAt(w)
      <4>1. w = v \/ v < w
        BY <1>1, PlacementTypes
      <4>2. w \in 1..Len(Placements)
        BY PlacementTypes
      <4> QED BY <1>0, <1>1, <1>3, <3>2, <3>3, <4>1, <4>2 DEF OneWay
    <3> QED BY <2>3, <3>4 DEF ClearedOK
  <2> QED BY <2>2, <2>3
<1> QED BY <1>5, <1>6

-----------------------------------------------------------------------------
(* What a step does to the repair rows, the workers and the survey.          *)

\* A repair row says the same, and a row that is there stays there and waits or not as before.
Same(r, s) == s.cas = r.cas /\ s.version = r.version /\ s.role = r.role /\ s.primary = r.primary /\ s.replica = r.replica
RowSame(rs, to, key) ==
    /\ to[key].state # "NONE" <=> rs[key].state # "NONE"
    /\ to[key].state = "WAITING_CUTOVER" <=> rs[key].state = "WAITING_CUTOVER"
    /\ rs[key].state # "NONE" => Same(rs[key], to[key]) /\ to[key].epoch = rs[key].epoch

\* A worker has the row it had, or one that it selects.
WorkerSame(i) ==
    worker'[i].pc # "idle" =>
        \/ worker[i].pc # "idle" /\ worker'[i].key = worker[i].key /\ Same(worker[i].row, worker'[i].row)
        \/ /\ worker'[i].key \in RepairKeys /\ worker'[i].row = repairs[worker'[i].key]
           /\ repairs[worker'[i].key].state \notin {"NONE", "WAITING_CUTOVER"}

\* The cleanups that may run stay, and none comes into a row but those of its locations before.
ClearedKept ==
    /\ \A g \in Ops, b \in Backends : Cleared(repairs, g, b) /\ ns'.epoch = ns.epoch => Cleared(repairs', g, b)
    /\ \A k \in Keys : Shows(auth'[k]) =>
         \A b \in Backends : b \in LocationsOf(auth'[k]) /\ Cleared(repairs, auth'[k].gen, b) =>
            Shows(auth[k]) /\ auth[k].gen = auth'[k].gen /\ b \in LocationsOf(auth[k])

\* What is ready was ready there before, or is in the ledger.
ReadyFrom(a, b) ==
    /\ b.primaryStatus = "READY" =>
         \/ Shows(a) /\ a.gen = b.gen /\ a.primary = b.primary /\ a.primaryStatus = "READY"
         \/ Ledgered(b.primary, b.gen) # {}
    /\ b.replicaStatus = "READY" =>
         \/ Shows(a) /\ a.gen = b.gen /\ a.replica = b.replica /\ a.replicaStatus = "READY"
         \/ Ledgered(b.replica, b.gen) # {}
ReadyKept == \A k \in Keys : Shows(auth'[k]) => ReadyFrom(auth[k], auth'[k])

PlacedKept == ClearedKept /\ ReadyKept

\* What is bound to a row stays so when it says the same.
LEMMA BoundSame ==
  ASSUME NEW a, NEW rs, NEW key, NEW r, NEW s, Bound(a, rs, key, r), Same(r, s) PROVE Bound(a, rs, key, s)
  BY DEF Bound, Same

\* Nothing is unbound by a table in which fewer cleanups may run.
LEMMA BoundThere ==
  ASSUME NEW a, NEW rs, NEW to, NEW key, NEW r, Bound(a, rs, key, r),
         key[3] \in Backends, \A b \in Backends : Cleared(to, a.gen, b) => Cleared(rs, a.gen, b)
  PROVE  Bound(a, to, key, r)
  BY DEF Bound, Leg

\* Work that was computed from an earlier row is bound to the next one.
LEMMA BoundLater ==
  ASSUME NEW a, NEW b, NEW rs, NEW to, NEW key, NEW r, Bound(a, rs, key, r), b.cas \in Nat, a.cas \in Nat, b.cas > a.cas
  PROVE  Bound(b, to, key, r)
  BY DEF Bound

\* The rows of copies are of backends.
LEMMA KeyParts == ASSUME NEW key \in RepairKeys
  PROVE key = <<key[1], key[2], key[3]>> /\ key[1] \in RepairKinds /\ key[2] \in Ops /\ key[3] \in Backends
  BY DEF RepairKeys

\* The work about a row stays bound to it when each part of it says the same or is bound to it.
LEMMA WorkStays ==
  ASSUME PlacedInvariant, NEW k \in Keys, Shows(auth[k]), \A i \in Workers : WorkerSame(i),
         \A key \in RepairKeys : key[1] \in CopyKinds /\ key[2] = auth[k].gen =>
             RowSame(repairs, repairs', key) \/ Bound(auth[k], repairs, key, repairs'[key]),
         SurveyBound(auth[k], repairs, survey')
  PROVE  WorkBound(auth[k], repairs, repairs', worker', survey')
<1>1. WorkBound(auth[k], repairs, repairs, worker, survey)
  BY DEF PlacedInvariant, RowsPlaced, KeyPlaced
<1>2. ASSUME NEW key \in RepairKeys, key[1] \in CopyKinds, key[2] = auth[k].gen, repairs'[key].state # "NONE"
      PROVE  Bound(auth[k], repairs, key, repairs'[key])
  BY <1>1, <1>2, BoundSame DEF WorkBound, RowSame
<1>3. ASSUME NEW i \in Workers, worker'[i].pc # "idle", worker'[i].key[1] \in CopyKinds, worker'[i].key[2] = auth[k].gen
      PROVE  Bound(auth[k], repairs, worker'[i].key, worker'[i].row)
  BY <1>1, <1>3, BoundSame DEF WorkBound, WorkerSame
<1> QED BY <1>2, <1>3 DEF WorkBound

\* An operation that has ended keeps the key and the epoch it was inserted with.
LEMMA EndedStays ==
  ASSUME PlacedInvariant, GenKept, NEW g \in Ops, ops[g].state # "NONE" PROVE SameWork(ops'[g], ops[g])
  BY DEF PlacedInvariant, ForwardInvariant, GenInvariant, NotInserted, GenKept

\* The generation of a row that shows an object has ended.
LEMMA ShownEnded ==
  ASSUME PlacedInvariant, NEW k \in Keys, Shows(auth[k])
  PROVE  /\ auth[k].gen \in Ops /\ ops[auth[k].gen].state = "COMMITTED" /\ ops[auth[k].gen].key = k /\ ops[auth[k].gen].epoch = ns.epoch
         /\ Has(auth[k], AuthFields) /\ auth[k].cas \in Nat /\ auth[k].version \in Nat
         /\ RowPlaced(auth[k], repairs, config) /\ WorkBound(auth[k], repairs, repairs, worker, survey)
  BY DEF PlacedInvariant, RowsPlaced, KeyPlaced, Shows, ForwardInvariant, GenInvariant, ShownCommitted, GenShapes, PlacementKnown, Recorded

\* A placed row stays placed under a later configuration with fewer cleanups.
LEMMA PlacedThere ==
  ASSUME NEW a, NEW rs, NEW to, NEW c \in Nat, NEW d \in Nat, c <= d, RowPlaced(a, rs, c),
         \A b \in Backends : Cleared(to, a.gen, b) => Cleared(rs, a.gen, b)
  PROVE  RowPlaced(a, to, d)
<1>0. Len(Placements) \in Nat
  BY PlacementTypes
<1>1. PrimaryBy(a, d) /\ ReplicaBy(a, d)
  BY DEF RowPlaced, PrimaryBy, ReplicaBy
<1>2. \A u \in d..Len(Placements) : u \in c..Len(Placements)
  BY <1>0
<1>3. ASSUME NEW b \in Backends PROVE ClearedOK(a, to, d, b)
  BY <1>2 DEF RowPlaced, ClearedOK
<1> QED BY <1>1, <1>3 DEF RowPlaced

\* A row that stays as it is, with no cleanup more that may run, stays placed.
LEMMA KeyStays ==
  ASSUME PlacedInvariant, ForwardInvariant', GenKept, NEW k \in Keys, Shows(auth[k]), auth'[k] = auth[k], ns'.epoch = ns.epoch,
         config' \in 1..Len(Placements), config <= config', \A b \in Backends : Cleared(repairs', auth[k].gen, b) => Cleared(repairs, auth[k].gen, b),
         WorkBound(auth[k], repairs, repairs', worker', survey')
  PROVE  KeyPlaced(k)'
<1>0. config \in Nat
  BY DEF PlacedInvariant, ForwardInvariant, PlacementKnown
<1>a. PICK a, c, rs, to, ws, s, e :
         /\ a = auth[k] /\ c = config' /\ rs = repairs /\ to = repairs' /\ ws = worker' /\ s = survey' /\ e = ns'.epoch
  OBVIOUS
<1>1. a.gen \in Ops /\ ops'[a.gen].key = k /\ ops'[a.gen].epoch = e
  BY <1>a, ShownEnded, EndedStays DEF SameWork
<1>2. RowPlaced(a, to, c)
  BY <1>0, <1>a, ShownEnded, PlacedThere, PlacementTypes
<1>b. WorkBound(a, rs, to, ws, s) /\ (\A b \in Backends : Cleared(to, a.gen, b) => Cleared(rs, a.gen, b))
  BY <1>a
<1>3. \A key \in RepairKeys : key[1] \in CopyKinds /\ key[2] = a.gen /\ to[key].state # "NONE" => Bound(a, to, key, to[key])
  BY <1>b, BoundThere, KeyParts DEF WorkBound
<1>c. \A i \in Workers : ws[i].pc # "idle" => ws[i].key \in RepairKeys
  BY <1>a DEF ForwardInvariant, GenInvariant, TokensSpent
<1>4. \A i \in Workers : ws[i].pc # "idle" /\ ws[i].key[1] \in CopyKinds /\ ws[i].key[2] = a.gen => Bound(a, to, ws[i].key, ws[i].row)
  BY <1>b, <1>c, BoundThere, KeyParts DEF WorkBound
<1>5. SurveyBound(a, to, s)
  <2>1. SurveyBound(a, rs, s)
    BY <1>b DEF WorkBound
  <2>2. ASSUME NEW b, Leg(a, rs, b, s.version), b \in Backends PROVE Leg(a, to, b, s.version)
    BY <1>b, <2>2 DEF Leg
  <2>3. ASSUME NEW b \in LocationsAt(s.version) \ {Nil}, Leg(a, rs, b, s.version) PROVE Leg(a, to, b, s.version)
    <3>1. CASE b \in LocationsOf(a)
      BY <2>3, <3>1 DEF Leg
    <3>2. CASE b \in Backends
      BY <2>2, <2>3, <3>2
    <3>3. s.version \in 1..Len(Placements)
      <4>1. a.version \in Nat /\ s.version > a.version
        BY <1>a, <2>3, ShownEnded DEF Leg
      <4>2. s.version \in Nat /\ s.version <= c
        BY <1>a DEF ForwardInvariant, PlacementKnown, Recorded
      <4> QED BY <1>a, <4>1, <4>2, PlacementTypes
    <3>4. CASE b \notin Backends
      BY <2>3, <3>3, <3>4, PlacementTypes DEF LocationsAt
    <3> QED BY <3>1, <3>2, <3>4
  <2> QED BY <2>1, <2>3 DEF SurveyBound
<1>6. WorkBound(a, to, to, ws, s)
  BY <1>3, <1>4, <1>5 DEF WorkBound
<1> QED BY <1>a, <1>1, <1>2, <1>6 DEF KeyPlaced

\* A row that moves on is placed when its next state is: what was computed before is from an earlier row.
LEMMA KeyBumped ==
  ASSUME PlacedInvariant, ForwardInvariant', GenKept, NEW k \in Keys, Shows(auth[k]), Shows(auth'[k]), auth'[k].gen = auth[k].gen,
         auth'[k].cas > auth[k].cas, ns'.epoch = ns.epoch, RowPlaced(auth'[k], repairs', config'),
         WorkBound(auth[k], repairs, repairs', worker', survey')
  PROVE  KeyPlaced(k)'
<1>a. PICK a, b, rs, to, ws, s, e, c :
         /\ a = auth[k] /\ b = auth'[k] /\ rs = repairs /\ to = repairs' /\ ws = worker' /\ s = survey' /\ e = ns'.epoch /\ c = config'
  OBVIOUS
<1>1. b.gen \in Ops /\ ops'[b.gen].key = k /\ ops'[b.gen].epoch = e
  BY <1>a, ShownEnded, EndedStays DEF SameWork
<1>2. WorkBound(a, rs, to, ws, s) /\ a.cas \in Nat /\ b.cas \in Nat /\ b.cas > a.cas /\ b.gen = a.gen /\ RowPlaced(b, to, c)
  BY <1>a, ShownEnded DEF ForwardInvariant, PlacementKnown, Shows
<1>3. \A key \in RepairKeys : key[1] \in CopyKinds /\ key[2] = b.gen /\ to[key].state # "NONE" => Bound(b, to, key, to[key])
  BY <1>2, BoundLater DEF WorkBound
<1>4. \A i \in Workers : ws[i].pc # "idle" /\ ws[i].key[1] \in CopyKinds /\ ws[i].key[2] = b.gen => Bound(b, to, ws[i].key, ws[i].row)
  BY <1>2, BoundLater DEF WorkBound
<1>5. SurveyBound(b, to, s)
  BY <1>2 DEF WorkBound, SurveyBound
<1>6. WorkBound(b, to, to, ws, s)
  BY <1>3, <1>4, <1>5 DEF WorkBound
<1> QED BY <1>a, <1>1, <1>2, <1>6 DEF KeyPlaced

(* What a step does to the row of an operation: it stays of the same work, or it is
   inserted at the placement of the day. *)
OpMoves(s, r) ==
    \/ SameWork(s, r) /\ (s.state # "NONE" => r.state # "NONE") /\ (Terminal(r.state) => Terminal(s.state))
    \/ /\ r.state = "NONE" /\ ~ Terminal(s.state)
       /\ s.epoch = ns.epoch /\ s.version = config /\ s.backend = Placements[config].primary

\* So the placed operations stay placed.
LEMMA OpsGo ==
  ASSUME PlacedInvariant, \A o \in Ops : OpMoves(ops'[o], ops[o]), ns'.epoch \in Nat, ns.epoch <= ns'.epoch
  PROVE  OpsPlaced' /\ \A o \in Ops : Terminal(ops[o].state) => Terminal(ops'[o].state)
<1>1. OpsPlaced /\ config \in Nat /\ config > 0 /\ ns.epoch \in Nat /\ ~ Terminal("NONE")
  BY DEF PlacedInvariant, WorkKnown, ForwardInvariant, PlacementKnown, EpochInvariant, PurgeShapes, Terminal
<1>2. ASSUME NEW o \in Ops
      PROVE  /\ ops'[o].epoch \in Nat /\ ops'[o].epoch <= ns'.epoch
             /\ ops'[o].state # "NONE" => ops'[o].version > 0 /\ ops'[o].backend = Placements[ops'[o].version].primary
  BY <1>1 DEF OpsPlaced, OpMoves, SameWork
<1> QED BY <1>1, <1>2 DEF OpsPlaced, OpMoves

\* A step that leaves the operations alone, or moves the row of one.
LEMMA OneOp ==
  ASSUME GenInvariant, NEW o \in Ops, NEW s, UNCHANGED ops \/ (ops' = [ops EXCEPT ![o] = s] /\ OpMoves(s, ops[o]))
  PROVE  \A g \in Ops : OpMoves(ops'[g], ops[g])
<1>1. \A g \in Ops : OpMoves(ops[g], ops[g])
  BY DEF OpMoves, SameWork
<1>2. Has(ops, Ops)
  BY DEF GenInvariant, GenShapes
<1>3. \A g \in Ops : ops'[g] = ops[g] \/ (g = o /\ ops'[g] = s /\ OpMoves(s, ops[o]))
  BY <1>2 DEF Has
<1> QED BY <1>1, <1>3

\* The steps of a request.
LEMMA RequestOps == ASSUME GenInvariant, NEW o \in Ops, RequestStep(o) PROVE \A g \in Ops : OpMoves(ops'[g], ops[g])
<1>0. Has(ops[o], OpFields) /\ (put[o].pc \in Uninserted => ops[o].state = "NONE")
  BY DEF GenInvariant, GenShapes, NotInserted
<1> USE DEF OpMoves, SameWork, Terminal
<1>1. ASSUME NEW kind, InsertLogicalOperation(o, kind) PROVE \A g \in Ops : OpMoves(ops'[g], ops[g])
  <2> DEFINE s == [NoOp EXCEPT !.state = "INTENT", !.kind = kind, !.key = put[o].key,
                              !.backend = Placed(config).primary, !.version = config,
                              !.epoch = put[o].epoch, !.routing = put[o].routing,
                              !.cas = put[o].cas, !.prior = put[o].prior]
  <2>1. s.state = "INTENT" /\ s.version = config /\ s.epoch = put[o].epoch /\ s.backend = Placements[config].primary
    BY DEF NoOp, Placed
  <2>2. /\ put[o].pc \in Uninserted
        /\ (ops' = [ops EXCEPT ![o] = s] /\ ns.epoch = put[o].epoch) \/ UNCHANGED ops
    BY <1>1 DEF InsertLogicalOperation, Uninserted
  <2> HIDE DEF s
  <2> QED BY <1>0, <2>1, <2>2, OneOp
<1>2. CASE ReserveLogicalOperation(o)
  <2> DEFINE s == [ops[o] EXCEPT !.state = "OPEN", !.reserved = put[o].resv]
  <2>1. SameWork(s, ops[o])
    BY <1>0 DEF Has, OpFields
  <2>2. UNCHANGED ops \/ (ops[o].state = "INTENT" /\ ops' = [ops EXCEPT ![o] = s])
    BY <1>0, <1>2 DEF ReserveLogicalOperation, Has
  <2> HIDE DEF s
  <2> QED BY <2>1, <2>2, OneOp
<1>3. CASE RecordLogicalUsage(o)
  <2> DEFINE s == [ops[o] EXCEPT !.size = OutputSize(o)]
  <2>1. SameWork(s, ops[o]) /\ s.state = ops[o].state
    BY <1>0 DEF Has, OpFields
  <2>2. UNCHANGED ops \/ ops' = [ops EXCEPT ![o] = s]
    BY <1>3 DEF RecordLogicalUsage
  <2> HIDE DEF s
  <2> QED BY <2>1, <2>2, OneOp
<1>4. CASE TransitionLogicalOperation(o)
  <2> DEFINE s == [ops[o] EXCEPT !.state = "COMPLETING"]
  <2>1. SameWork(s, ops[o])
    BY <1>0 DEF Has, OpFields
  <2>2. UNCHANGED ops \/ (ops[o].state = "OPEN" /\ ops' = [ops EXCEPT ![o] = s])
    BY <1>4 DEF TransitionLogicalOperation
  <2> HIDE DEF s
  <2> QED BY <2>1, <2>2, OneOp
<1>5. ASSUME NEW state \in {"PROVEN_ABORTED", "COMMITTED"}, NEW bytes, ops[o].state # "NONE",
             \/ ops' = [ops EXCEPT ![o].state = state]
             \/ ops' = [ops EXCEPT ![o].state = state, ![o].committed = bytes]
      PROVE  \A g \in Ops : OpMoves(ops'[g], ops[g])
  <2> DEFINE s == [ops[o] EXCEPT !.state = state]
             t == [ops[o] EXCEPT !.state = state, !.committed = bytes]
  <2>1. SameWork(s, ops[o]) /\ s.state = state
    BY <1>0 DEF Has, OpFields
  <2>2. SameWork(t, ops[o]) /\ t.state = state
    BY <1>0 DEF Has, OpFields
  <2>3. ops' = [ops EXCEPT ![o] = s] \/ ops' = [ops EXCEPT ![o] = t]
    <3>1. CASE ops' = [ops EXCEPT ![o].state = state]
      BY <3>1
    <3>2. CASE ops' = [ops EXCEPT ![o].state = state, ![o].committed = bytes]
      BY <3>2 DEF GenInvariant, GenShapes, Has
    <3> QED BY <1>5, <3>1, <3>2
  <2> HIDE DEF s, t
  <2> QED BY <1>5, <2>1, <2>2, <2>3, OneOp
<1>6. CASE ProveLogicalAbort(o)
  <2>1. UNCHANGED ops \/ (ops[o].state # "NONE" /\ ops' = [ops EXCEPT ![o].state = "PROVEN_ABORTED"])
    BY <1>6 DEF ProveLogicalAbort, CanProveAbort
  <2> QED BY <1>5, <2>1, OneOp
<1>7. CASE ProvePhysicalAbort(o)
  <2>1. PICK bytes : ops[o].state # "NONE" /\ ops' = [ops EXCEPT ![o].state = "PROVEN_ABORTED", ![o].committed = bytes]
    BY <1>7 DEF ProvePhysicalAbort, CanProveAbort
  <2> QED BY <1>5, <2>1
<1>8. CASE CommitLogicalPut(o)
  <2>1. \/ UNCHANGED ops
        \/ ops[o].state # "NONE" /\ ops' = [ops EXCEPT ![o].state = "COMMITTED", ![o].committed = Allocation(o)]
    BY <1>8 DEF CommitLogicalPut, CanCommit
  <2> QED BY <1>5, <2>1, OneOp
<1>9. CASE CommitLogicalDelete(o)
  <2>1. UNCHANGED ops \/ (ops[o].state # "NONE" /\ ops' = [ops EXCEPT ![o].state = "COMMITTED"])
    BY <1>9 DEF CommitLogicalDelete, CanCommitDelete, CanCommit
  <2> QED BY <1>5, <2>1, OneOp
<1>10. UNCHANGED ops => \A g \in Ops : OpMoves(ops'[g], ops[g])
  BY OneOp
<1> QED BY <1>1, <1>2, <1>3, <1>4, <1>6, <1>7, <1>8, <1>9, <1>10 DEF RequestStep, ReadAuthority, RouteFence, ReadUsage,
     BeginPhysicalWrite, BeginJournal, BeginJournalFails, VerifyOutput, WriteFails,
     CompleteChild, CompleteRefused, CommitPhysicalWrite, AbortChild, AbortAtProvider, WithdrawIntent, Crash

\* A step that completes the purge under way opens the next epoch, and the tenant's rows are gone.
NextEpoch ==
    \E d \in Drivers : FinalizeComplete(d) /\ driver[d].purge = ns.purge /\ ns.purge # Nil /\ ns'.epoch = ns.epoch + 1

(* What a step does to the namespace: it leaves it in its epoch, starts a purge in it,
   or completes the purge. *)
LEMMA NamespaceMoves ==
  ASSUME EpochInvariant, [ManagedNext]_managedVars
  PROVE  SameEpoch \/ (Active /\ ~ Active' /\ ns'.epoch = ns.epoch) \/ NextEpoch
<1>0. NsShape /\ ns.epoch \in Nat
  BY DEF EpochInvariant, PurgeShapes
<1>1. CASE WriteStep \/ RepairStep
  BY <1>0, <1>1, WritesKeepNamespace DEF SameEpoch
<1>2. ASSUME NEW d \in Drivers, FinalizeComplete(d) PROVE SameEpoch \/ NextEpoch
  <2>1. driver[d].pc # "idle"
    BY <1>2 DEF FinalizeComplete
  <2>2. driver[d].purge \in Purges
    BY <2>1 DEF EpochInvariant, DriversStarted
  <2>3. CASE ns.purge = driver[d].purge
    <3>1. ns.purge # Nil /\ purges[ns.purge].epoch = ns.epoch
      BY <2>2, <2>3, PurgeAssumption DEF EpochInvariant, PurgeEpochs
    <3>2. ns'.epoch = ns.epoch + 1
      BY <1>2, <2>3, <3>1 DEF FinalizeComplete
    <3> QED BY <1>2, <2>3, <3>1, <3>2 DEF NextEpoch
  <2>4. CASE ns.purge # driver[d].purge
    BY <1>2, <2>4 DEF FinalizeComplete, SameEpoch
  <2> QED BY <2>3, <2>4
<1>3. ASSUME NEW d \in Drivers, NEW p, StartPurge(d, p) PROVE Active /\ ~ Active' /\ ns'.epoch = ns.epoch
  BY <1>0, <1>3 DEF StartPurge, Active, NsShape, Has, NsFields
<1>4. ASSUME NEW d \in Drivers, DriverStep(d) PROVE UNCHANGED ns \/ FinalizeComplete(d) \/ \E p \in Purges : StartPurge(d, p)
  BY <1>4 DEF DriverStep, QueryPurge, ReadIntents, ReadTargets, FinalizeBlocked, FinalizeCounts, PurgeTargets,
     MarkPurgeTargetDeleted, MarkPurgeTargetBlocked, DeleteTarget, DriverCrash, writeVars
<1>5. ASSUME NEW u \in Uploads, MultipartStep(u) PROVE UNCHANGED ns
  BY <1>5 DEF MultipartStep, BeginMultipartActivity, CreateUpload, ConfirmMultipartActivity, WithdrawUpload,
     FinishMultipartActivity, RetireUpload, CreatorCrash, ExpireRegistration, ReconcileMultipartActivity, writeVars
<1>6. UNCHANGED ns => SameEpoch
  BY DEF SameEpoch
<1> QED BY <1>1, <1>2, <1>3, <1>4, <1>5, <1>6 DEF ManagedNext, managedVars, writeVars

\* Every step.
LEMMA OpsStep ==
  ASSUME PlacedInvariant, [ManagedNext]_managedVars
  PROVE  /\ \A o \in Ops : OpMoves(ops'[o], ops[o])
         /\ ns'.epoch \in Nat /\ ns.epoch <= ns'.epoch
         /\ OpsPlaced' /\ \A o \in Ops : Terminal(ops[o].state) => Terminal(ops'[o].state)
<1>0. GenInvariant /\ EpochInvariant /\ EpochInvariant'
  BY EpochStepPreserves DEF PlacedInvariant, ForwardInvariant
<1>1. \A o \in Ops : OpMoves(ops'[o], ops[o])
  <2>1. UNCHANGED ops => \A g \in Ops : OpMoves(ops'[g], ops[g])
    BY DEF OpMoves, SameWork
  <2>2. ASSUME NEW i \in Workers, ForgetVersion(i) PROVE \A g \in Ops : OpMoves(ops'[g], ops[g])
    <3>1. PICK o, x : UNCHANGED ops \/ ops' = [ops EXCEPT ![o].released = x]
      BY <2>2 DEF ForgetVersion, ForgetEffects
    <3>2. ASSUME NEW g \in Ops PROVE SameWork([ops[g] EXCEPT !.released = x], ops[g]) /\ [ops[g] EXCEPT !.released = x].state = ops[g].state
      BY <1>0 DEF GenInvariant, GenShapes, Has, OpFields, SameWork
    <3>3. \A g \in Ops : ops'[g] = ops[g] \/ ops'[g] = [ops[g] EXCEPT !.released = x]
      BY <1>0, <3>1 DEF GenInvariant, GenShapes, Has
    <3> QED BY <3>2, <3>3 DEF OpMoves, SameWork
  <2>3. ASSUME NEW d \in Drivers, FinalizeComplete(d) PROVE \A g \in Ops : OpMoves(ops'[g], ops[g])
    <3>1. ops' = [o \in Ops |-> [ops[o] EXCEPT !.released = ops[o].committed]]
      BY <2>3 DEF FinalizeComplete
    <3>2. ASSUME NEW g \in Ops, NEW x PROVE SameWork([ops[g] EXCEPT !.released = x], ops[g]) /\ [ops[g] EXCEPT !.released = x].state = ops[g].state
      BY <1>0 DEF GenInvariant, GenShapes, Has, OpFields, SameWork
    <3>3. \A g \in Ops : ops'[g] = [ops[g] EXCEPT !.released = ops[g].committed]
      BY <3>1
    <3>4. ASSUME NEW g \in Ops PROVE SameWork(ops'[g], ops[g]) /\ ops'[g].state = ops[g].state
      <4>1. PICK x : x = ops[g].committed
        OBVIOUS
      <4>2. ops'[g] = [ops[g] EXCEPT !.released = x]
        BY <3>3, <4>1
      <4>3. SameWork([ops[g] EXCEPT !.released = x], ops[g]) /\ [ops[g] EXCEPT !.released = x].state = ops[g].state
        BY <3>2
      <4> QED BY <4>2, <4>3
    <3> QED BY <3>4 DEF OpMoves
  <2>4. CASE WriteStep
    BY <1>0, <2>1, <2>4, RequestOps DEF WriteStep, TombstoneAuthoritative, IntentStep, ExpireIntent, ReconcileIntent, ChildStep,
       ReconcileChild, AdvanceRoutingEpoch
  <2>5. ASSUME NEW i \in Workers, WorkerProgress(i) \/ WorkerCrash(i) PROVE UNCHANGED ops \/ ForgetVersion(i)
    BY <2>5 DEF WorkerProgress, WorkerCrash, SelectCandidate, ClaimRepair, OpenSource, BeginCopy, BeginCopyJournal, BeginCopyFails, StoreCopy, CopyFails,
       SettleCopy, CheckCleanup, ListCleanup, DeleteVersion, CompleteRepair, FailRepair, writeVars
  <2>6. CASE RepairStep
    BY <2>1, <2>2, <2>5, <2>6 DEF RepairStep, ExpireRepairLease, ExpireCopyIntent, PlacementStep, RaisePlacement,
       AdvancePlacementVersion, SurveyPlacement, Enqueue, OpenAuthoritative, HeadAuthoritative, writeVars
  <2>7. ASSUME NEW d \in Drivers, DriverStep(d) PROVE UNCHANGED ops \/ FinalizeComplete(d)
    BY <2>7 DEF DriverStep, StartPurge, QueryPurge, ReadIntents, ReadTargets, FinalizeBlocked, FinalizeCounts, PurgeTargets,
       MarkPurgeTargetDeleted, MarkPurgeTargetBlocked, DeleteTarget, DriverCrash, writeVars
  <2>8. ASSUME NEW u \in Uploads, MultipartStep(u) PROVE UNCHANGED ops
    BY <2>8 DEF MultipartStep, BeginMultipartActivity, CreateUpload, ConfirmMultipartActivity, WithdrawUpload,
       FinishMultipartActivity, RetireUpload, CreatorCrash, ExpireRegistration, ReconcileMultipartActivity, writeVars
  <2> QED BY <2>1, <2>3, <2>4, <2>6, <2>7, <2>8 DEF ManagedNext, managedVars, writeVars
<1>2. ns'.epoch \in Nat /\ ns.epoch \in Nat
  BY <1>0 DEF EpochInvariant, PurgeShapes
<1>3. ns'.epoch = ns.epoch \/ ns'.epoch = ns.epoch + 1
  BY <1>0, NamespaceMoves DEF SameEpoch, NextEpoch
<1>4. ns.epoch <= ns'.epoch
  BY <1>2, <1>3
<1> QED BY <1>1, <1>2, <1>4, OpsGo

\* A repair row stays, or is inserted or moved for a generation that has ended.
RowKept(key) ==
    \/ RowSame(repairs, repairs', key)
    \/ /\ repairs'[key].epoch = ns.epoch /\ Terminal(ops'[key[2]].state)
       /\ repairs'[key].state = "WAITING_CUTOVER" => WaitsFor(key, repairs'[key].version)

\* A step in one epoch keeps the invariant when it keeps its parts.
LEMMA PlacedMoves ==
  ASSUME PlacedInvariant, [ManagedNext]_managedVars, ns'.epoch = ns.epoch, config' \in 1..Len(Placements),
         \A i \in Workers : WorkerSame(i), \A key \in RepairKeys : RowKept(key),
         survey'.legs # {} => survey'.row.gen \in Ops /\ Terminal(ops'[survey'.row.gen].state),
         \A k \in Keys : Shows(auth'[k]) => KeyPlaced(k)'
  PROVE  PlacedInvariant'
<1>0. /\ EpochInvariant' /\ ForwardInvariant' /\ OpsPlaced'
      /\ \A o \in Ops : Terminal(ops[o].state) => Terminal(ops'[o].state)
      /\ GenInvariant /\ Waits /\ WorkKnown
  BY EpochStepPreserves, ForwardStep, OpsStep DEF PlacedInvariant, ForwardInvariant
<1>1. Waits'
  BY <1>0 DEF Waits, RowKept, RowSame, Same
<1>2. \A key \in RepairKeys : repairs'[key].state # "NONE" => repairs'[key].epoch = ns'.epoch /\ Terminal(ops'[key[2]].state)
  BY <1>0, KeyParts DEF WorkKnown, RowKept, RowSame
<1>3. ASSUME NEW i \in Workers, worker'[i].pc # "idle" PROVE Terminal(ops'[worker'[i].key[2]].state)
  <2>1. CASE worker[i].pc # "idle" /\ worker'[i].key = worker[i].key
    <3>1. worker[i].key[2] \in Ops
      BY <1>0, <2>1, KeyParts DEF GenInvariant, TokensSpent
    <3> QED BY <1>0, <2>1, <3>1 DEF WorkKnown
  <2>2. CASE worker'[i].key \in RepairKeys /\ repairs[worker'[i].key].state # "NONE"
    BY <1>0, <2>2, KeyParts DEF WorkKnown
  <2> QED BY <1>3, <2>1, <2>2 DEF WorkerSame
<1>4. WorkKnown'
  BY <1>2, <1>3 DEF WorkKnown
<1> QED BY <1>0, <1>1, <1>4 DEF PlacedInvariant, RowsPlaced

\* A row that says the same is cleared or not as before.
LEMMA SameCleared ==
  ASSUME NEW rs, NEW to, NEW g \in Ops, NEW b \in Backends, RowSame(rs, to, <<"DELETE_GENERATION", g, b>>)
  PROVE  Cleared(to, g, b) <=> Cleared(rs, g, b)
  BY DEF Cleared, RowSame

\* So cleanups are kept by a step in which no authority row comes to a location.
LEMMA RowsKeepCleared ==
  ASSUME PlacedInvariant, \A key \in RepairKeys : key[1] = "DELETE_GENERATION" => RowSame(repairs, repairs', key)
  PROVE  \A g \in Ops, b \in Backends : Cleared(repairs', g, b) <=> Cleared(repairs, g, b)
<1>1. \A g \in Ops, b \in Backends : <<"DELETE_GENERATION", g, b>> \in RepairKeys
  BY DEF RepairKeys, RepairKinds
<1> QED BY <1>1, SameCleared

\* A step that leaves the authority alone and says the same in every other table.
LEMMA PlacedSteady ==
  ASSUME PlacedInvariant, [ManagedNext]_managedVars, ns'.epoch = ns.epoch, config' \in 1..Len(Placements), config <= config',
         UNCHANGED auth, \A i \in Workers : WorkerSame(i), \A key \in RepairKeys : RowSame(repairs, repairs', key),
         UNCHANGED survey \/ survey'.legs = {}
  PROVE  PlacedInvariant' /\ PlacedKept
<1>0. /\ ForwardInvariant' /\ GenKept /\ WorkKnown
      /\ \A o \in Ops : Terminal(ops[o].state) => Terminal(ops'[o].state)
  BY ForwardStep, GenStep, OpsStep DEF PlacedInvariant, ForwardInvariant
<1>1. \A g \in Ops, b \in Backends : Cleared(repairs', g, b) <=> Cleared(repairs, g, b)
  BY RowsKeepCleared
<1>2. ASSUME NEW k \in Keys, Shows(auth'[k]) PROVE KeyPlaced(k)'
  <2>1. Shows(auth[k]) /\ auth[k].gen \in Ops
    BY <1>2, ShownEnded
  <2>2. SurveyBound(auth[k], repairs, survey')
    BY <2>1, ShownEnded DEF WorkBound, SurveyBound
  <2>3. WorkBound(auth[k], repairs, repairs', worker', survey')
    BY <2>1, <2>2, WorkStays
  <2> QED BY <1>0, <1>1, <2>1, <2>3, KeyStays
<1>3. \A key \in RepairKeys : RowKept(key)
  BY DEF RowKept
<1>4. survey'.legs # {} => survey'.row.gen \in Ops /\ Terminal(ops'[survey'.row.gen].state)
  BY <1>0 DEF WorkKnown
<1>5. PlacedInvariant'
  BY <1>2, <1>3, <1>4, PlacedMoves
<1>6. PlacedKept
  BY <1>1 DEF PlacedKept, ClearedKept, ReadyKept, ReadyFrom
<1> QED BY <1>5, <1>6

\* One worker moves, one row changes its state.
LEMMA OneWorkerSame ==
  ASSUME GenInvariant, NEW w \in Workers, NEW r, worker' = [worker EXCEPT ![w] = r],
         \/ r.pc = "idle"
         \/ worker[w].pc # "idle" /\ r.key = worker[w].key /\ Same(worker[w].row, r.row)
         \/ r.key \in RepairKeys /\ r.row = repairs[r.key] /\ repairs[r.key].state \notin {"NONE", "WAITING_CUTOVER"}
  PROVE  \A i \in Workers : WorkerSame(i)
<1>1. \A i \in Workers : worker'[i] = IF i = w THEN r ELSE worker[i]
  BY DEF GenInvariant, GenShapes, Has
<1> QED BY <1>1 DEF WorkerSame, Same

\* The workers stay.
LEMMA NoWorker == ASSUME UNCHANGED worker PROVE \A i \in Workers : WorkerSame(i)
  BY DEF WorkerSame, Same

Changes(r, q) ==
    /\ r.state \notin {"NONE", "WAITING_CUTOVER"} /\ q.state \notin {"NONE", "WAITING_CUTOVER"}
    /\ Same(r, q) /\ q.epoch = r.epoch
LEMMA OneRowSame ==
  ASSUME NEW rs, RowsOK(rs), NEW x \in RepairKeys, NEW q, Changes(rs[x], q)
  PROVE  RowsOK(rs) /\ \A key \in RepairKeys : RowSame(rs, [rs EXCEPT ![x] = q], key)
  BY DEF RowsOK, Has, RowSame, Same, Changes

\* A worker goes on with the row it has.
LEMMA StepSame ==
  ASSUME GenInvariant, NEW w \in Workers, worker[w].pc # "idle", NEW pc, NEW todo, NEW victim,
         \/ Step(w, pc) \/ worker' = [worker EXCEPT ![w] = IdleWorker]
         \/ worker' = [worker EXCEPT ![w] = [@ EXCEPT !.pc = pc, !.todo = todo]]
         \/ worker' = [worker EXCEPT ![w] = [@ EXCEPT !.pc = pc, !.victim = victim]]
         \/ worker' = [worker EXCEPT ![w] = [@ EXCEPT !.todo = todo, !.victim = victim, !.pc = pc]]
  PROVE  \A i \in Workers : WorkerSame(i)
<1>1. Has(worker[w], WorkerFields)
  BY DEF GenInvariant, GenShapes
<1>2. IdleWorker.pc = "idle"
  BY DEF IdleWorker
<1>3. LET r == [worker[w] EXCEPT !.pc = pc] IN r.row = worker[w].row /\ r.key = worker[w].key
  BY <1>1 DEF Has, WorkerFields
<1>4. LET r == [worker[w] EXCEPT !.pc = pc, !.todo = todo] IN r.row = worker[w].row /\ r.key = worker[w].key
  BY <1>1 DEF Has, WorkerFields
<1>5. LET r == [worker[w] EXCEPT !.pc = pc, !.victim = victim] IN r.row = worker[w].row /\ r.key = worker[w].key
  BY <1>1 DEF Has, WorkerFields
<1>6. LET r == [worker[w] EXCEPT !.todo = todo, !.victim = victim, !.pc = pc] IN r.row = worker[w].row /\ r.key = worker[w].key
  BY <1>1 DEF Has, WorkerFields
<1>7. \E r : worker' = [worker EXCEPT ![w] = r] /\ (r.pc = "idle" \/ (r.row = worker[w].row /\ r.key = worker[w].key))
  BY <1>2, <1>3, <1>4, <1>5, <1>6 DEF Step
<1> QED BY <1>7, OneWorkerSame DEF Same

\* Every step of a worker, and of a lease, but the end of a repair.
LEMMA WorkerSteady ==
  ASSUME PlacedInvariant, NEW w \in Workers, WorkerProgress(w) \/ WorkerCrash(w)
  PROVE  /\ \A i \in Workers : WorkerSame(i)
         /\ CompleteRepair(w) \/ (UNCHANGED auth /\ \A key \in RepairKeys : RowSame(repairs, repairs', key))
<1>0. /\ GenInvariant /\ RowsOK(repairs) /\ Has(worker[w], WorkerFields) /\ Has(worker[w].row, RepairFields)
      /\ worker[w].pc # "idle" => worker[w].key \in RepairKeys
  BY DEF PlacedInvariant, ForwardInvariant, GenInvariant, GenShapes, RowsOK, TokensSpent
<1>a. \A key \in RepairKeys : RowSame(repairs, repairs, key)
  BY DEF RowSame, Same
<1>1. ASSUME NEW key \in RepairKeys, SelectCandidate(w, key)
      PROVE  UNCHANGED <<auth, repairs>> /\ \A i \in Workers : WorkerSame(i)
  <2> DEFINE r == [worker[w] EXCEPT !.pc = "selected", !.key = key, !.row = repairs[key]]
  <2>1. r.key = key /\ r.row = repairs[key]
    BY <1>0 DEF Has, WorkerFields
  <2>2. worker' = [worker EXCEPT ![w] = r] /\ repairs[key].state \in {"PENDING", "LEASED"} /\ UNCHANGED <<auth, repairs>>
    BY <1>1 DEF SelectCandidate, Claimable, writeVars
  <2> HIDE DEF r
  <2> QED BY <1>0, <2>1, <2>2, OneWorkerSame
<1>2. ASSUME ClaimRepair(w)
      PROVE  UNCHANGED auth /\ (\A i \in Workers : WorkerSame(i)) /\ \A key \in RepairKeys : RowSame(repairs, repairs', key)
  <2>0. UNCHANGED auth /\ worker[w].key \in RepairKeys /\ worker[w].pc # "idle"
    BY <1>0, <1>2 DEF ClaimRepair
  <2>1. CASE worker' = [worker EXCEPT ![w] = IdleWorker] /\ UNCHANGED repairs
    BY <1>0, <1>a, <2>0, <2>1, StepSame
  <2>2. CASE ~ (worker' = [worker EXCEPT ![w] = IdleWorker] /\ UNCHANGED repairs)
    <3>1. PICK key, n : key = worker[w].key /\ n = repairs[key].token + 1
      OBVIOUS
    <3> DEFINE q == [repairs[key] EXCEPT !.state = "LEASED", !.live = TRUE, !.token = n]
               row == [worker[w].row EXCEPT !.token = n]
               r == [worker[w] EXCEPT !.pc = "claimed", !.row = row]
    <3>2. repairs' = [repairs EXCEPT ![key] = q] /\ repairs[key].state \in {"PENDING", "LEASED"}
      BY <1>2, <2>2, <3>1 DEF ClaimRepair, Claimable
    <3>3. worker' = [worker EXCEPT ![w] = [worker[w] EXCEPT !.pc = "claimed", !.row.token = n]]
      BY <1>2, <2>2, <3>1 DEF ClaimRepair
    <3>4. [worker[w] EXCEPT !.pc = "claimed", !.row.token = n] = r
      BY <1>0 DEF Has, WorkerFields
    <3>5. key \in RepairKeys /\ Has(repairs[key], RepairFields)
      BY <1>0, <2>0, <3>1 DEF RowsOK
    <3>6. Same(repairs[key], q) /\ q.epoch = repairs[key].epoch /\ q.state = "LEASED"
      BY <3>5 DEF Has, RepairFields, Same
    <3>8. Same(worker[w].row, row)
      BY <1>0 DEF Has, RepairFields, Same
    <3> HIDE DEF q, row
    <3>9. r.row = row /\ r.key = worker[w].key
      BY <1>0 DEF Has, WorkerFields
    <3> HIDE DEF r
    <3>10. \A x \in RepairKeys : RowSame(repairs, repairs', x)
      BY <1>0, <3>2, <3>5, <3>6, OneRowSame DEF Changes
    <3>11. \A i \in Workers : WorkerSame(i)
      BY <1>0, <2>0, <3>3, <3>4, <3>8, <3>9, OneWorkerSame
    <3> QED BY <2>0, <3>10, <3>11
  <2> QED BY <2>1, <2>2
<1>3. ASSUME OpenSource(w) \/ BeginCopy(w) \/ BeginCopyJournal(w) \/ BeginCopyFails(w) \/ StoreCopy(w) \/ CopyFails(w) \/ SettleCopy(w) \/ CheckCleanup(w)
      PROVE  UNCHANGED <<auth, repairs>> /\ worker[w].pc # "idle" /\ \E pc : Step(w, pc)
  BY <1>3 DEF OpenSource, BeginCopy, BeginCopyJournal, BeginCopyFails, StoreCopy, CopyFails, SettleCopy, CheckCleanup, writeVars
<1>4. ASSUME ListCleanup(w) PROVE UNCHANGED <<auth, repairs>> /\ \A i \in Workers : WorkerSame(i)
  <2>1. \/ worker' = [worker EXCEPT ![w] = [@ EXCEPT !.pc = "failing"]]
        \/ \E todo : worker' = [worker EXCEPT ![w] = [@ EXCEPT !.pc = "deleting", !.todo = todo]]
    BY <1>4 DEF ListCleanup
  <2>2. UNCHANGED <<auth, repairs>> /\ worker[w].pc # "idle"
    BY <1>4 DEF ListCleanup, writeVars
  <2>3. CASE worker' = [worker EXCEPT ![w] = [@ EXCEPT !.pc = "failing"]]
    <3>1. Step(w, "failing")
      BY <2>3 DEF Step
    <3> QED BY <1>0, <2>2, <3>1, StepSame
  <2>4. ASSUME NEW todo, worker' = [worker EXCEPT ![w] = [@ EXCEPT !.pc = "deleting", !.todo = todo]]
        PROVE  \A i \in Workers : WorkerSame(i)
    BY <1>0, <2>2, <2>4, StepSame
  <2> QED BY <2>1, <2>2, <2>3, <2>4
<1>5. ASSUME NEW v, DeleteVersion(w, v) PROVE UNCHANGED <<auth, repairs>> /\ \A i \in Workers : WorkerSame(i)
  <2>1. Step(w, "failing") \/ worker' = [worker EXCEPT ![w] = [@ EXCEPT !.pc = "forgetting", !.victim = v]]
    BY <1>5 DEF DeleteVersion
  <2>2. UNCHANGED <<auth, repairs>> /\ worker[w].pc # "idle"
    BY <1>5 DEF DeleteVersion
  <2>3. CASE Step(w, "failing")
    BY <1>0, <2>2, <2>3, StepSame
  <2>4. CASE worker' = [worker EXCEPT ![w] = [@ EXCEPT !.pc = "forgetting", !.victim = v]]
    BY <1>0, <2>2, <2>4, StepSame
  <2> QED BY <2>1, <2>2, <2>3, <2>4
<1>6. ASSUME ForgetVersion(w) PROVE UNCHANGED <<auth, repairs>> /\ \A i \in Workers : WorkerSame(i)
  <2>1. PICK pc, todo : worker' = [worker EXCEPT ![w] = [@ EXCEPT !.todo = todo, !.victim = Nil, !.pc = pc]]
    BY <1>6 DEF ForgetVersion
  <2>2. UNCHANGED <<auth, repairs>> /\ worker[w].pc # "idle"
    BY <1>6 DEF ForgetVersion
  <2> QED BY <1>0, <2>1, <2>2, StepSame
<1>7. ASSUME CompleteRepair(w) \/ FailRepair(w) \/ WorkerCrash(w) PROVE worker[w].pc # "idle" /\ worker' = [worker EXCEPT ![w] = IdleWorker]
  BY <1>7 DEF CompleteRepair, FailRepair, WorkerCrash
<1>8. ASSUME FailRepair(w) PROVE UNCHANGED auth /\ \A key \in RepairKeys : RowSame(repairs, repairs', key)
  <2>1. PICK key, attempts, state :
          /\ key = worker[w].key /\ state \in {"DEAD", "PENDING"}
          /\ \/ UNCHANGED repairs
             \/ /\ repairs' = [repairs EXCEPT ![key] = [@ EXCEPT !.attempts = attempts, !.live = FALSE, !.state = state]]
                /\ repairs[key].state = "LEASED"
    BY <1>8 DEF FailRepair, HoldsLease
  <2> DEFINE q == [repairs[key] EXCEPT !.attempts = attempts, !.live = FALSE, !.state = state]
  <2>2. key \in RepairKeys /\ Has(repairs[key], RepairFields)
    BY <1>0, <1>8, <2>1 DEF RowsOK, FailRepair
  <2>3. Same(repairs[key], q) /\ q.epoch = repairs[key].epoch /\ q.state = state
    BY <2>2 DEF Has, RepairFields, Same
  <2>4. UNCHANGED repairs \/ (repairs' = [repairs EXCEPT ![key] = q] /\ repairs[key].state = "LEASED")
    BY <2>1
  <2> HIDE DEF q
  <2>5. \A x \in RepairKeys : RowSame(repairs, repairs', x)
    BY <1>0, <1>a, <2>1, <2>2, <2>3, <2>4, OneRowSame DEF Changes
  <2> QED BY <1>8, <2>5 DEF FailRepair
<1>9. ASSUME WorkerCrash(w) PROVE UNCHANGED <<auth, repairs>>
  BY <1>9 DEF WorkerCrash
<1>10. UNCHANGED repairs => \A key \in RepairKeys : RowSame(repairs, repairs', key)
  BY <1>a
<1> QED BY <1>0, <1>1, <1>2, <1>3, <1>4, <1>5, <1>6, <1>7, <1>8, <1>9, <1>10, StepSame DEF WorkerProgress

(* A step that leaves the rows about some objects as they are, and moves or replaces
   the authority row of the others. *)
Comes(k, b) == b \in LocationsOf(auth'[k]) /\ Cleared(repairs, auth'[k].gen, b)
KeyMoves(k) ==
    \/ auth'[k] = auth[k] /\ \A key \in RepairKeys : key[2] = auth[k].gen => RowSame(repairs, repairs', key)
    \/ /\ KeyPlaced(k)' /\ ReadyFrom(auth[k], auth'[k])
       /\ \A b \in Backends : Comes(k, b) => Shows(auth[k]) /\ auth[k].gen = auth'[k].gen /\ b \in LocationsOf(auth[k])

LEMMA PlacedOthers ==
  ASSUME PlacedInvariant, [ManagedNext]_managedVars, ns'.epoch = ns.epoch, UNCHANGED config,
         \A i \in Workers : WorkerSame(i), \A key \in RepairKeys : RowKept(key), UNCHANGED survey \/ survey'.legs = {},
         \A g \in Ops, b \in Backends : Cleared(repairs, g, b) => Cleared(repairs', g, b),
         \A k \in Keys : Shows(auth'[k]) => KeyMoves(k)
  PROVE  PlacedInvariant' /\ PlacedKept
<1>0. /\ ForwardInvariant' /\ GenKept /\ WorkKnown /\ config \in 1..Len(Placements) /\ config' = config /\ config <= config'
      /\ \A o \in Ops : Terminal(ops[o].state) => Terminal(ops'[o].state)
  BY ForwardStep, GenStep, OpsStep, PlacementTypes DEF PlacedInvariant, ForwardInvariant, WorkKnown
<1>1. ASSUME NEW k \in Keys, Shows(auth[k]), auth'[k] = auth[k], \A key \in RepairKeys : key[2] = auth[k].gen => RowSame(repairs, repairs', key)
      PROVE  KeyPlaced(k)'
  <2>1. auth[k].gen \in Ops
    BY <1>1, ShownEnded
  <2>2. SurveyBound(auth[k], repairs, survey')
    BY <1>1, ShownEnded DEF WorkBound, SurveyBound
  <2>3. WorkBound(auth[k], repairs, repairs', worker', survey')
    BY <1>1, <2>2, WorkStays
  <2>4. ASSUME NEW b \in Backends PROVE Cleared(repairs', auth[k].gen, b) <=> Cleared(repairs, auth[k].gen, b)
    <3>1. PICK key : key = <<"DELETE_GENERATION", auth[k].gen, b>>
      OBVIOUS
    <3>2. key \in RepairKeys /\ key[2] = auth[k].gen
      BY <2>1, <3>1 DEF RepairKeys, RepairKinds
    <3>3. RowSame(repairs, repairs', key)
      BY <1>1, <3>2
    <3> QED BY <2>1, <3>1, <3>3, SameCleared
  <2> QED BY <1>0, <1>1, <2>3, <2>4, KeyStays
<1>2. \A k \in Keys : Shows(auth'[k]) => KeyPlaced(k)'
  BY <1>1 DEF KeyMoves
<1>3. survey'.legs # {} => survey'.row.gen \in Ops /\ Terminal(ops'[survey'.row.gen].state)
  BY <1>0 DEF WorkKnown
<1>4. PlacedInvariant'
  BY <1>0, <1>2, <1>3, PlacedMoves
<1>5. ReadyKept
  BY DEF ReadyKept, KeyMoves, ReadyFrom
<1>6. ClearedKept
  BY DEF ClearedKept, KeyMoves, Comes
<1> QED BY <1>4, <1>5, <1>6 DEF PlacedKept

\* The row an insertion adds, or revives, says what it is given.
Inserted(rs, to, key, row) ==
    /\ rs[key].state \in {"NONE", "DONE"}
    /\ to[key].state = row.state /\ to[key].epoch = row.epoch /\ Same(row, to[key])
LEMMA InsertSame ==
  ASSUME NEW rs, RowsOK(rs), NEW x, NEW row, Has(row, RepairFields)
  PROVE  \A key \in RepairKeys :
            \/ InsertRepair(rs, x, row)[key] = rs[key]
            \/ key = x /\ Inserted(rs, InsertRepair(rs, x, row), key, row)
<1> DEFINE old == [row EXCEPT !.attempts = rs[x].attempts, !.token = rs[x].token]
           to == InsertRepair(rs, x, row)
<1>1. old.state = row.state /\ old.epoch = row.epoch /\ Same(row, old) /\ Same(row, row)
  BY DEF Has, RepairFields, Same
<1> HIDE DEF old
<1>2. \/ to = rs
      \/ rs[x].state = "NONE" /\ to = [rs EXCEPT ![x] = row]
      \/ rs[x].state = "DONE" /\ to = [rs EXCEPT ![x] = old]
  BY DEF InsertRepair, old
<1> HIDE DEF to
<1>3. \A key \in RepairKeys : to[key] = rs[key] \/ (key = x /\ rs[x].state \in {"NONE", "DONE"} /\ to[key] \in {row, old})
  BY <1>2 DEF RowsOK, Has
<1>4. \A key \in RepairKeys : to[key] = rs[key] \/ (key = x /\ Inserted(rs, to, key, row))
  BY <1>1, <1>3 DEF Inserted
<1> QED BY <1>4 DEF to

\* The rows of cleanups.
LEMMA CleanupsSame ==
  ASSUME NEW rs, RowsOK(rs), NEW a, NEW ledgered, NEW epoch
  PROVE  \A key \in RepairKeys :
            \/ WithCleanups(rs, a, ledgered, epoch)[key] = rs[key]
            \/ /\ key[1] = "DELETE_GENERATION" /\ key[2] = a.gen
               /\ WithCleanups(rs, a, ledgered, epoch)[key].state = "PENDING" /\ WithCleanups(rs, a, ledgered, epoch)[key].epoch = epoch
               /\ rs[key].state \in {"NONE", "DONE"}
<1> DEFINE to == WithCleanups(rs, a, ledgered, epoch)
           row == CopyRepair(a, Nil, "CLEANUP", a.version, epoch)
<1>1. Has(row, RepairFields) /\ row.state = "PENDING" /\ row.epoch = epoch
  <2>1. row.epoch = epoch
    BY DEF CopyRepair, NoRepair
  <2> QED BY <2>1, CopyRepairRow
<1> HIDE DEF row
<1>2. \A key \in RepairKeys : to[key] = rs[key] \/ (key[1] = "DELETE_GENERATION" /\ key[2] = a.gen /\ to[key] = InsertRepair(rs, key, row)[key])
  BY DEF WithCleanups, row
<1> HIDE DEF to
<1>3. \A key \in RepairKeys : InsertRepair(rs, key, row)[key] = rs[key] \/ Inserted(rs, InsertRepair(rs, key, row), key, row)
  BY <1>1, InsertSame
<1>4. ASSUME NEW key \in RepairKeys
      PROVE  to[key] = rs[key] \/ (/\ key[1] = "DELETE_GENERATION" /\ key[2] = a.gen
                                   /\ to[key].state = "PENDING" /\ to[key].epoch = epoch /\ rs[key].state \in {"NONE", "DONE"})
  BY <1>1, <1>2, <1>3 DEF Inserted
<1> QED BY <1>4 DEF to

\* Cleanups of one generation keep every row, and no cleanup is taken back.
LEMMA CleanupsKept ==
  ASSUME PlacedInvariant, NEW g, g \in Ops => Terminal(ops'[g].state),
         \A key \in RepairKeys :
            \/ RowSame(repairs, repairs', key)
            \/ /\ key[1] = "DELETE_GENERATION" /\ key[2] = g
               /\ repairs'[key].state = "PENDING" /\ repairs'[key].epoch = ns.epoch
               /\ repairs[key].state \in {"NONE", "DONE"}
  PROVE  /\ \A key \in RepairKeys : RowKept(key)
         /\ \A h \in Ops, b \in Backends : Cleared(repairs, h, b) => Cleared(repairs', h, b)
         /\ \A key \in RepairKeys : key[2] # g => RowSame(repairs, repairs', key)
<1>1. \A key \in RepairKeys : RowKept(key)
  BY KeyParts DEF RowKept
<1>2. ASSUME NEW h \in Ops, NEW b \in Backends, Cleared(repairs, h, b) PROVE Cleared(repairs', h, b)
  <2>1. PICK key : key = <<"DELETE_GENERATION", h, b>>
    OBVIOUS
  <2>2. key \in RepairKeys
    BY <2>1 DEF RepairKeys, RepairKinds
  <2> QED BY <1>2, <2>1, <2>2 DEF Cleared, RowSame
<1> QED BY <1>1, <1>2

\* A row is the same as itself.
LEMMA SameRow == ASSUME NEW rs, NEW to, NEW key, to[key] = rs[key] PROVE RowSame(rs, to, key)
  BY DEF RowSame, Same

\* Two keys do not show the same generation.
LEMMA OneKey ==
  ASSUME PlacedInvariant, NEW j \in Keys, NEW k \in Keys, Shows(auth[j]), Shows(auth[k]), auth[j].gen = auth[k].gen PROVE j = k
  BY ShownEnded

\* prove_logical_abort cleans up a generation that no row shows.
LEMMA AbortPlaced ==
  ASSUME PlacedInvariant, [ManagedNext]_managedVars, ns'.epoch = ns.epoch, UNCHANGED <<worker, survey, config>>,
         NEW o \in Ops, ProvePhysicalAbort(o)
  PROVE  PlacedInvariant' /\ PlacedKept
<1>0. RowsOK(repairs) /\ GenInvariant
  BY DEF PlacedInvariant, ForwardInvariant, GenInvariant, GenShapes, RowsOK
<1>1. PICK gone : /\ gone = [gen |-> o, size |-> ops[o].size, version |-> ops[o].version,
                              primary |-> ops[o].backend, replica |-> Nil, cas |-> 0]
                  /\ repairs' = WithCleanups(repairs, gone, LedgeredBackends(o), ops[o].epoch)
  BY DEF ProvePhysicalAbort
<1>2. UNCHANGED auth /\ ops[o].epoch = ns.epoch /\ ~ Terminal(ops[o].state) /\ Terminal(ops'[o].state)
  <2>1. PICK bytes : ops' = [ops EXCEPT ![o].state = "PROVEN_ABORTED", ![o].committed = bytes]
    BY DEF ProvePhysicalAbort
  <2>2. ops'[o].state = "PROVEN_ABORTED"
    <3>1. Has(ops, Ops) /\ Has(ops[o], OpFields)
      BY <1>0 DEF GenInvariant, GenShapes
    <3> QED BY <2>1, <3>1 DEF Has, OpFields
  <2> QED BY <2>2 DEF ProvePhysicalAbort, CanProveAbort, Terminal
<1>3. gone.gen = o
  BY <1>1
<1>4. \A key \in RepairKeys :
            \/ RowSame(repairs, repairs', key)
            \/ /\ key[1] = "DELETE_GENERATION" /\ key[2] = o
               /\ repairs'[key].state = "PENDING" /\ repairs'[key].epoch = ns.epoch
               /\ repairs[key].state \in {"NONE", "DONE"}
  BY <1>0, <1>1, <1>2, <1>3, CleanupsSame, SameRow
<1>5. /\ \A key \in RepairKeys : RowKept(key)
      /\ \A h \in Ops, b \in Backends : Cleared(repairs, h, b) => Cleared(repairs', h, b)
      /\ \A key \in RepairKeys : key[2] # o => RowSame(repairs, repairs', key)
  BY <1>2, <1>4, CleanupsKept
<1>6. ASSUME NEW k \in Keys, Shows(auth'[k]) PROVE KeyMoves(k)
  <2>1. auth'[k] = auth[k] /\ auth[k].gen # o
    BY <1>2, <1>6, ShownEnded DEF Terminal
  <2> QED BY <1>5, <2>1 DEF KeyMoves
<1>7. \A i \in Workers : WorkerSame(i)
  BY NoWorker
<1> QED BY <1>5, <1>6, <1>7, PlacedOthers

(* The rows of a commit or a tombstone: what cleans up the generation of key k, and what
   table mid already had. *)
LEMMA SupersedingSame ==
  ASSUME NEW rs, RowsOK(rs), NEW k, NEW epoch
  PROVE  \A key \in RepairKeys :
            \/ Superseding(rs, k, epoch)[key] = rs[key]
            \/ /\ Shows(auth[k]) /\ key[1] = "DELETE_GENERATION" /\ key[2] = auth[k].gen
               /\ Superseding(rs, k, epoch)[key].state = "PENDING" /\ Superseding(rs, k, epoch)[key].epoch = epoch
               /\ rs[key].state \in {"NONE", "DONE"}
  BY CleanupsSame DEF Superseding, Shows

\* A tombstone takes the place of the row of key k.
LEMMA TombstonePlaced ==
  ASSUME PlacedInvariant, [ManagedNext]_managedVars, ns'.epoch = ns.epoch, UNCHANGED <<worker, survey, config>>,
         NEW k \in Keys, NEW b, b.tombstone, auth' = [auth EXCEPT ![k] = b], repairs' = Superseding(repairs, k, ns.epoch)
  PROVE  PlacedInvariant' /\ PlacedKept
<1>0. RowsOK(repairs) /\ Has(auth, Keys)
  BY DEF PlacedInvariant, ForwardInvariant, GenInvariant, GenShapes, RowsOK
<1>1. \A j \in Keys : auth'[j] = IF j = k THEN b ELSE auth[j]
  BY <1>0 DEF Has
<1>2. \A key \in RepairKeys :
            \/ RowSame(repairs, repairs', key)
            \/ /\ Shows(auth[k]) /\ key[1] = "DELETE_GENERATION" /\ key[2] = auth[k].gen
               /\ repairs'[key].state = "PENDING" /\ repairs'[key].epoch = ns.epoch
               /\ repairs[key].state \in {"NONE", "DONE"}
  BY <1>0, SupersedingSame, SameRow
<1>3. PICK g : g = IF Shows(auth[k]) THEN auth[k].gen ELSE Nil
  OBVIOUS
<1>4. g \in Ops => Shows(auth[k]) /\ Terminal(ops'[g].state)
  BY <1>3, ShownEnded, OpsStep, ManagedAssumption DEF Terminal
<1>5. /\ \A key \in RepairKeys : RowKept(key)
      /\ \A h \in Ops, x \in Backends : Cleared(repairs, h, x) => Cleared(repairs', h, x)
      /\ \A key \in RepairKeys : key[2] # g => RowSame(repairs, repairs', key)
  BY <1>2, <1>3, <1>4, CleanupsKept
<1>6. ASSUME NEW j \in Keys, Shows(auth'[j]) PROVE KeyMoves(j)
  <2>1. j # k /\ auth'[j] = auth[j]
    BY <1>1, <1>6 DEF Shows
  <2>2. auth[j].gen # g
    BY <1>3, <1>6, <2>1, OneKey, ShownEnded, ManagedAssumption
  <2> QED BY <1>5, <2>1, <2>2 DEF KeyMoves
<1>7. \A i \in Workers : WorkerSame(i)
  BY NoWorker
<1> QED BY <1>5, <1>6, <1>7, PlacedOthers

\* The row a publication adds.
LEMMA PublicationSame ==
  ASSUME NEW rs, RowsOK(rs), NEW a, NEW epoch
  PROVE  \A key \in RepairKeys :
            \/ WithPublication(rs, a, epoch)[key] = rs[key]
            \/ /\ key = <<"REPLICA", a.gen, a.replica>> /\ rs[key].state \in {"NONE", "DONE"}
               /\ WithPublication(rs, a, epoch)[key].state = "PENDING" /\ WithPublication(rs, a, epoch)[key].epoch = epoch
               /\ WithPublication(rs, a, epoch)[key].cas = a.cas /\ WithPublication(rs, a, epoch)[key].role = "REPLICA"
<1> DEFINE row == CopyRepair(a, a.primary, "REPLICA", a.version, epoch)
           x == <<"REPLICA", a.gen, a.replica>>
<1>1. Has(row, RepairFields) /\ row.state = "PENDING"
  BY CopyRepairRow
<1>2. row.epoch = epoch /\ row.cas = a.cas /\ row.role = "REPLICA"
  BY DEF CopyRepair, NoRepair
<1>3. WithPublication(rs, a, epoch) = rs \/ WithPublication(rs, a, epoch) = InsertRepair(rs, x, row)
  BY DEF WithPublication
<1> HIDE DEF row, x
<1>4. \A key \in RepairKeys : InsertRepair(rs, x, row)[key] = rs[key] \/ (key = x /\ Inserted(rs, InsertRepair(rs, x, row), key, row))
  BY <1>1, InsertSame
<1>5. PICK to : to = WithPublication(rs, a, epoch)
  OBVIOUS
<1>6. \A key \in RepairKeys : to[key] = rs[key] \/ (key = x /\ Inserted(rs, to, key, row))
  BY <1>3, <1>4, <1>5
<1> QED BY <1>1, <1>2, <1>5, <1>6 DEF Inserted, Same, x

\* commit_logical_put publishes a generation that no repair is about yet.
LEMMA PublishPlaced ==
  ASSUME PlacedInvariant, [ManagedNext]_managedVars, ns'.epoch = ns.epoch, UNCHANGED <<worker, survey, config>>,
         NEW o \in Ops, CommitLogicalPut(o), ~ UNCHANGED <<auth, repairs>>
  PROVE  PlacedInvariant' /\ PlacedKept
<1>0. RowsOK(repairs) /\ Has(auth, Keys) /\ GenInvariant /\ WorkKnown
  BY DEF PlacedInvariant, ForwardInvariant, GenInvariant, GenShapes, RowsOK
<1>1. PICK b, k, e : b = Published(o) /\ k = ops[o].key /\ e = ops[o].epoch
  OBVIOUS
<1>2. /\ CanCommit(o) /\ PutFits(o) /\ auth' = [auth EXCEPT ![k] = b]
      /\ repairs' = Superseding(WithPublication(repairs, b, e), k, e)
  BY <1>1 DEF CommitLogicalPut
<1>3. /\ ~ Terminal(ops[o].state) /\ ops[o].state # "NONE" /\ e = ns.epoch /\ k \in Keys /\ ops[o].version \in Nat /\ ops[o].version <= config
      /\ ops[o].version > 0 /\ ops[o].backend = Placements[ops[o].version].primary /\ config \in 1..Len(Placements)
  BY <1>1, <1>2 DEF CanCommit, Fenced, Terminal, PlacedInvariant, ForwardInvariant, PlacementKnown, OpsPlaced, WorkKnown, Recorded
<1>4. /\ b.gen = o /\ b.primary = ops[o].backend /\ b.replica = Placements[ops[o].version].replica /\ b.version = ops[o].version
      /\ b.replicaStatus # "READY" /\ ~ b.tombstone
  BY <1>1 DEF Published, Placed
<1>5. /\ auth'[k] = b /\ b.cas \in Nat /\ \A j \in Keys : j # k => auth'[j] = auth[j]
      /\ Terminal(ops'[o].state) /\ ops'[o].key = k /\ ops'[o].epoch = ns'.epoch
  <2>1. auth'[k] = b /\ \A j \in Keys : j # k => auth'[j] = auth[j]
    BY <1>0, <1>2, <1>3 DEF Has
  <2>2. b.cas = NextCas(CasAt(auth[k]))
    BY <1>1, <1>2 DEF CanCommit, Published
  <2>3. b.cas \in Nat
    BY <1>3, <2>2, NextCasGrows DEF PlacedInvariant
  <2>4. ops'[o].state = "COMMITTED"
    <3>1. Has(ops, Ops) /\ Has(ops[o], OpFields)
      BY <1>0 DEF GenInvariant, GenShapes
    <3>2. PICK bytes : ops' = [ops EXCEPT ![o].state = "COMMITTED", ![o].committed = bytes]
      BY DEF CommitLogicalPut
    <3> QED BY <3>1, <3>2 DEF Has, OpFields
  <2> QED BY <1>1, <1>3, <2>1, <2>3, <2>4, EndedStays, GenStep DEF PlacedInvariant, ForwardInvariant, SameWork, Terminal
<1>6. PICK mid : mid = WithPublication(repairs, b, e)
  OBVIOUS
<1>7. /\ RowsOK(mid)
      /\ \A key \in RepairKeys :
            \/ mid[key] = repairs[key]
            \/ /\ key = <<"REPLICA", o, b.replica>> /\ repairs[key].state \in {"NONE", "DONE"}
               /\ mid[key].state = "PENDING" /\ mid[key].epoch = ns.epoch
               /\ mid[key].cas = b.cas /\ mid[key].role = "REPLICA"
  BY <1>0, <1>3, <1>4, <1>6, PublicationSame, PublicationGrows DEF Grows
<1>8. PICK g : g = IF Shows(auth[k]) THEN auth[k].gen ELSE Nil
  OBVIOUS
<1>9. (g \in Ops => Shows(auth[k]) /\ Terminal(ops'[g].state)) /\ g # o
  BY <1>3, <1>8, ShownEnded, OpsStep, ManagedAssumption DEF Terminal
<1>10. \A key \in RepairKeys :
            \/ repairs'[key] = mid[key]
            \/ /\ key[1] = "DELETE_GENERATION" /\ key[2] = g
               /\ repairs'[key].state = "PENDING" /\ repairs'[key].epoch = ns.epoch
               /\ mid[key].state \in {"NONE", "DONE"}
  BY <1>2, <1>3, <1>6, <1>7, <1>8, SupersedingSame
<1>11. \A key \in RepairKeys :
            \/ RowSame(repairs, repairs', key)
            \/ /\ key[1] = "DELETE_GENERATION" /\ key[2] = g
               /\ repairs'[key].state = "PENDING" /\ repairs'[key].epoch = ns.epoch
            \/ /\ key[1] = "REPLICA" /\ key[2] = o
               /\ repairs'[key].state = "PENDING" /\ repairs'[key].epoch = ns.epoch
  BY <1>7, <1>10, SameRow
<1>12. \A key \in RepairKeys : key[2] = o => repairs[key].state = "NONE"
  BY <1>0, <1>3 DEF WorkKnown
<1>a. \A key \in RepairKeys : RowKept(key)
  BY <1>5, <1>9, <1>11, KeyParts DEF RowKept
<1>b. ASSUME NEW h \in Ops, NEW x \in Backends, Cleared(repairs, h, x) PROVE Cleared(repairs', h, x)
  <2>1. PICK key : key = <<"DELETE_GENERATION", h, x>>
    OBVIOUS
  <2>2. key \in RepairKeys
    BY <2>1 DEF RepairKeys, RepairKinds
  <2> QED BY <1>b, <1>11, <2>1, <2>2 DEF Cleared, RowSame
<1>c. ASSUME NEW x \in Backends PROVE ~ Cleared(repairs, o, x) /\ ~ Cleared(repairs', o, x)
  <2>1. PICK key : key = <<"DELETE_GENERATION", o, x>>
    OBVIOUS
  <2>2. key \in RepairKeys /\ key[2] = o /\ key[1] = "DELETE_GENERATION"
    BY <2>1 DEF RepairKeys, RepairKinds
  <2>3. repairs[key].state = "NONE" /\ repairs'[key].state = "NONE"
    BY <1>9, <1>11, <1>12, <2>2 DEF RowSame
  <2> QED BY <2>1, <2>3 DEF Cleared
<1>d. RowPlaced(b, repairs', config')
  <2>1. ops[o].version \in 1..config /\ ops[o].version \in 1..Len(Placements) /\ config' = config
    BY <1>3, PlacementTypes
  <2>2. PrimaryBy(b, config) /\ ReplicaBy(b, config)
    BY <1>3, <1>4, <2>1 DEF PrimaryBy, ReplicaBy
  <2>3. b.primary \in Backends /\ b.replica \in Backends \cup {Nil}
    BY <1>3, <1>4, <2>1, PlacementTypes
  <2>4. \A x \in Backends : ClearedOK(b, repairs', config', x)
    BY <1>4, <1>c DEF ClearedOK
  <2> QED BY <1>4, <2>1, <2>2, <2>3, <2>4 DEF RowPlaced
<1>e. WorkBound(b, repairs', repairs', worker', survey')
  <2>1. ASSUME NEW key \in RepairKeys, key[1] \in CopyKinds, key[2] = o, repairs'[key].state # "NONE"
        PROVE  Bound(b, repairs', key, repairs'[key])
    <3>1. repairs'[key] = mid[key]
      BY <1>9, <1>10, <2>1
    <3>2. key = <<"REPLICA", o, b.replica>> /\ repairs'[key].cas = b.cas /\ repairs'[key].role = "REPLICA"
      BY <1>7, <1>12, <2>1, <3>1
    <3> QED BY <1>5, <3>2 DEF Bound
  <2>2. ASSUME NEW i \in Workers, worker'[i].pc # "idle" PROVE worker'[i].key[2] # o
    BY <1>0, <1>3, <2>2 DEF WorkKnown
  <2>3. SurveyBound(b, repairs', survey')
    BY <1>0, <1>3, <1>4 DEF WorkKnown, SurveyBound
  <2> QED BY <1>4, <2>1, <2>2, <2>3 DEF WorkBound
<1>f. KeyPlaced(k)'
  BY <1>4, <1>5, <1>d, <1>e DEF KeyPlaced
<1>g. ReadyFrom(auth[k], b)
  <2>1. PICK l : l \in ChildVersions(Child(o))
    BY <1>2 DEF PutFits
  <2>2. l \in Ledgered(b.primary, b.gen)
    BY <1>4, <2>1 DEF ChildVersions, Child, Ledgered
  <2> QED BY <1>4, <2>2 DEF ReadyFrom
<1>h. ASSUME NEW j \in Keys, Shows(auth'[j]) PROVE KeyMoves(j)
  <2>1. CASE j = k
    BY <1>4, <1>5, <1>c, <1>f, <1>g, <2>1 DEF KeyMoves, Comes
  <2>2. CASE j # k
    <3>1. auth'[j] = auth[j] /\ Shows(auth[j])
      BY <1>5, <1>h, <2>2
    <3>2. auth[j].gen # g /\ auth[j].gen # o
      BY <1>3, <1>8, <2>2, <3>1, OneKey, ShownEnded, ManagedAssumption DEF Terminal
    <3> QED BY <1>11, <3>1, <3>2 DEF KeyMoves
  <2> QED BY <2>1, <2>2
<1>i. \A i \in Workers : WorkerSame(i)
  BY NoWorker
<1> QED BY <1>a, <1>b, <1>h, <1>i, PlacedOthers

\* commit_logical_delete and tombstone take a row away.
LEMMA DeletePlaced ==
  ASSUME PlacedInvariant, [ManagedNext]_managedVars, ns'.epoch = ns.epoch, UNCHANGED <<worker, survey, config>>,
         (\E o \in Ops : CommitLogicalDelete(o)) \/ (\E k \in Keys : TombstoneAuthoritative(k)), ~ UNCHANGED <<auth, repairs>>
  PROVE  PlacedInvariant' /\ PlacedKept
<1>1. ASSUME NEW g, NEW c PROVE Tombstone(g, c).tombstone
  BY DEF Tombstone
<1>2. ASSUME NEW o \in Ops, CommitLogicalDelete(o) PROVE PlacedInvariant' /\ PlacedKept
  <2>1. PICK b, k : b = Tombstone(o, ops[o].cas) /\ k = ops[o].key
    OBVIOUS
  <2>2. /\ CanCommit(o) /\ auth' = [auth EXCEPT ![k] = b] /\ repairs' = Superseding(repairs, k, ops[o].epoch)
    BY <1>2, <2>1 DEF CommitLogicalDelete, CanCommitDelete
  <2>3. k \in Keys /\ ops[o].epoch = ns.epoch
    BY <2>1, <2>2 DEF CanCommit, Fenced, PlacedInvariant, ForwardInvariant, PlacementKnown
  <2>4. repairs' = Superseding(repairs, k, ns.epoch) /\ b.tombstone
    BY <1>1, <2>1, <2>2, <2>3
  <2> QED BY <2>2, <2>3, <2>4, TombstonePlaced
<1>3. ASSUME NEW k \in Keys, TombstoneAuthoritative(k) PROVE PlacedInvariant' /\ PlacedKept
  <2>1. PICK b : b = Tombstone(Nil, CasAt(auth[k]))
    OBVIOUS
  <2>2. auth' = [auth EXCEPT ![k] = b] /\ repairs' = Superseding(repairs, k, ns.epoch) /\ b.tombstone
    BY <1>1, <1>3, <2>1 DEF TombstoneAuthoritative
  <2> QED BY <2>2, TombstonePlaced
<1> QED BY <1>2, <1>3

\* The row that a finished copy leaves.
LEMMA AppliedRow ==
  ASSUME NEW a, Has(a, AuthFields), NEW key, NEW r, NEW b, b = Applied(a, key, r)
  PROVE  /\ b.gen = a.gen /\ b.tombstone = a.tombstone /\ b.cas = a.cas + 1
         /\ r.role = "PRIMARY" =>
              /\ b.primary = key[3] /\ b.primaryStatus = "READY"
              /\ IF key[1] = "PLACEMENT" /\ r.replica = Nil THEN b.replica = Nil /\ b.replicaStatus = "ABSENT"
                 ELSE b.replica = a.replica /\ b.replicaStatus = a.replicaStatus
         /\ r.role # "PRIMARY" =>
              b.primary = a.primary /\ b.primaryStatus = a.primaryStatus /\ b.replica = key[3] /\ b.replicaStatus = "READY"
         /\ key[1] = "PLACEMENT" =>
              b.version \in {a.version, r.version} /\ (b.version # a.version => b.primary = r.primary /\ b.replica = r.replica)
<1> DEFINE moved == IF r.role = "PRIMARY"
                    THEN [a EXCEPT !.primary = key[3], !.primaryStatus = "READY",
                                   !.replica = IF r.replica = Nil THEN Nil ELSE @,
                                   !.replicaStatus = IF r.replica = Nil THEN "ABSENT" ELSE @]
                    ELSE [a EXCEPT !.replica = key[3], !.replicaStatus = "READY"]
           copied == IF r.role = "PRIMARY" THEN [a EXCEPT !.primary = key[3], !.primaryStatus = "READY"]
                     ELSE [a EXCEPT !.replica = key[3], !.replicaStatus = "READY"]
           v == IF LocationsMatch(moved, r.primary, r.replica) THEN r.version ELSE moved.version
           placed == [moved EXCEPT !.version = v]
           m == IF key[1] = "PLACEMENT" THEN placed ELSE copied
           n == a.cas + 1
<1>1. /\ Has(moved, AuthFields) /\ moved.gen = a.gen /\ moved.tombstone = a.tombstone /\ moved.version = a.version
      /\ r.role = "PRIMARY" =>
              /\ moved.primary = key[3] /\ moved.primaryStatus = "READY"
              /\ IF r.replica = Nil THEN moved.replica = Nil /\ moved.replicaStatus = "ABSENT"
                 ELSE moved.replica = a.replica /\ moved.replicaStatus = a.replicaStatus
      /\ r.role # "PRIMARY" =>
              moved.primary = a.primary /\ moved.primaryStatus = a.primaryStatus /\ moved.replica = key[3] /\ moved.replicaStatus = "READY"
  BY DEF Has, AuthFields
<1>2. /\ Has(copied, AuthFields) /\ copied.gen = a.gen /\ copied.tombstone = a.tombstone /\ copied.version = a.version
      /\ r.role = "PRIMARY" =>
              /\ copied.primary = key[3] /\ copied.primaryStatus = "READY"
              /\ copied.replica = a.replica /\ copied.replicaStatus = a.replicaStatus
      /\ r.role # "PRIMARY" =>
              copied.primary = a.primary /\ copied.primaryStatus = a.primaryStatus /\ copied.replica = key[3] /\ copied.replicaStatus = "READY"
  BY DEF Has, AuthFields
<1>3. b = [m EXCEPT !.cas = n]
  BY DEF Applied, ApplyPlacement, ApplyCopy
<1> HIDE DEF moved, copied
<1>4. /\ Has(placed, AuthFields) /\ placed.version = v
      /\ placed.gen = moved.gen /\ placed.tombstone = moved.tombstone /\ placed.primary = moved.primary /\ placed.replica = moved.replica
      /\ placed.primaryStatus = moved.primaryStatus /\ placed.replicaStatus = moved.replicaStatus
  BY <1>1 DEF Has, AuthFields
<1>5. v \in {a.version, r.version} /\ (v # a.version => moved.primary = r.primary /\ moved.replica = r.replica)
  BY <1>1 DEF LocationsMatch
<1> HIDE DEF v, placed
<1>6. Has(m, AuthFields)
  BY <1>2, <1>4
<1> HIDE DEF m
<1>7. /\ b.cas = n /\ b.gen = m.gen /\ b.tombstone = m.tombstone /\ b.primary = m.primary /\ b.replica = m.replica
      /\ b.primaryStatus = m.primaryStatus /\ b.replicaStatus = m.replicaStatus /\ b.version = m.version
  BY <1>3, <1>6 DEF Has, AuthFields
<1>8. CASE key[1] = "PLACEMENT"
  <2>1. m = placed
    BY <1>8 DEF m
  <2> QED BY <1>1, <1>4, <1>5, <1>7, <1>8, <2>1
<1>9. CASE key[1] # "PLACEMENT"
  <2>1. m = copied
    BY <1>9 DEF m
  <2> QED BY <1>2, <1>7, <1>9, <2>1
<1> QED BY <1>8, <1>9

\* The rows that a placement leg adds or releases.
LEMMA PlacementCleanupsSame ==
  ASSUME NEW rs, RowsOK(rs), NEW old, NEW new, NEW v, NEW epoch, NEW to, to = WithPlacementCleanups(rs, old, new, v, epoch)
  PROVE  \A key \in RepairKeys :
            \/ to[key] = rs[key]
            \/ /\ key[1] = "DELETE_GENERATION" /\ key[2] = old.gen /\ key[3] \in AbandonedLocations(old, new)
               /\ rs[key].state = "NONE" /\ to[key].epoch = epoch /\ to[key].version = v
               /\ to[key].state = "WAITING_CUTOVER" \/ (to[key].state = "PENDING" /\ new.version = v)
            \/ /\ key[2] = old.gen /\ rs[key].state = "WAITING_CUTOVER" /\ rs[key].version = v /\ new.version = v
               /\ to[key].state = "PENDING" /\ to[key].epoch = rs[key].epoch
<1> DEFINE row == CopyRepair(old, Nil, "CLEANUP", v, epoch)
           late == [row EXCEPT !.state = "WAITING_CUTOVER"]
           waiting == [key \in RepairKeys |->
              IF /\ key[1] = "DELETE_GENERATION" /\ key[2] = old.gen
                 /\ key[3] \in AbandonedLocations(old, new)
              THEN InsertWaiting(rs, key, row)[key] ELSE rs[key]]
           freed == ReleaseWaiting(waiting, old.gen, v)
<1>1. Has(row, RepairFields) /\ row.epoch = epoch /\ row.version = v
  <2>1. row.epoch = epoch /\ row.version = v
    BY DEF CopyRepair, NoRepair
  <2> QED BY <2>1, CopyRepairRow
<1>2. Has(late, RepairFields) /\ late.state = "WAITING_CUTOVER" /\ late.epoch = epoch /\ late.version = v
  BY <1>1 DEF Has, RepairFields
<1>3. \A key \in RepairKeys :
          \/ waiting[key] = rs[key]
          \/ /\ key[1] = "DELETE_GENERATION" /\ key[2] = old.gen /\ key[3] \in AbandonedLocations(old, new)
             /\ waiting[key] = InsertWaiting(rs, key, row)[key]
  OBVIOUS
<1>4. \A key \in RepairKeys : InsertWaiting(rs, key, row)[key] = rs[key]
                              \/ (rs[key].state = "NONE" /\ InsertWaiting(rs, key, row)[key] = late)
  BY DEF InsertWaiting, RowsOK, Has
<1>5. to = IF new.version = v THEN freed ELSE waiting
  BY DEF WithPlacementCleanups
<1>6. \A key \in RepairKeys :
          \/ freed[key] = waiting[key]
          \/ /\ waiting[key].state = "WAITING_CUTOVER" /\ key[2] = old.gen /\ waiting[key].version = v
             /\ freed[key] = [waiting[key] EXCEPT !.state = "PENDING"]
  BY DEF ReleaseWaiting
<1> HIDE DEF row, late, waiting, freed
<1>7. \A key \in RepairKeys :
          \/ waiting[key] = rs[key]
          \/ /\ key[1] = "DELETE_GENERATION" /\ key[2] = old.gen /\ key[3] \in AbandonedLocations(old, new)
             /\ rs[key].state = "NONE" /\ waiting[key] = late
  BY <1>3, <1>4
<1>8. ASSUME NEW key \in RepairKeys
      PROVE  /\ Has(waiting[key], RepairFields)
             /\ [waiting[key] EXCEPT !.state = "PENDING"].state = "PENDING"
             /\ [waiting[key] EXCEPT !.state = "PENDING"].epoch = waiting[key].epoch
             /\ [waiting[key] EXCEPT !.state = "PENDING"].version = waiting[key].version
  <2>1. Has(waiting[key], RepairFields)
    BY <1>2, <1>7 DEF RowsOK
  <2> QED BY <2>1 DEF Has, RepairFields
<1>9. \A key \in RepairKeys :
          \/ freed[key] = waiting[key]
          \/ /\ waiting[key].state = "WAITING_CUTOVER" /\ key[2] = old.gen /\ waiting[key].version = v
             /\ freed[key].state = "PENDING" /\ freed[key].epoch = waiting[key].epoch /\ freed[key].version = waiting[key].version
  BY <1>6, <1>8
<1> QED BY <1>2, <1>5, <1>7, <1>9

(* A leg of a placement that applies: the row comes to the locations of the placement
   version, and leaves what waits for its cleanup. *)
LEMMA LegPlaced ==
  ASSUME NEW c \in 1..Len(Placements), NEW a, NEW b, NEW key \in RepairKeys, NEW r, NEW rs, NEW to,
         key[1] = "PLACEMENT", Has(a, AuthFields), b = Applied(a, key, r), a.version \in Nat, r.version \in Nat, r.version <= c,
         RowPlaced(a, rs, c), r.cas = a.cas, Bound(a, rs, key, r), a.gen = key[2],
         \A x \in Backends : Cleared(to, a.gen, x) =>
             Cleared(rs, a.gen, x) \/ (b.version = r.version /\ \E g : WaitOK(<<"DELETE_GENERATION", g, x>>, r.version))
  PROVE  /\ RowPlaced(b, to, c) /\ Moved(a, b, r.version, r.role)
         /\ r.version \in 1..c /\ PrimaryBy(a, r.version) /\ ReplicaBy(a, r.version)
         /\ \A x \in Backends : x \in LocationsOf(b) /\ Cleared(rs, a.gen, x) => x \in LocationsOf(a)
<1>1. PICK v, t : v = r.version /\ t = key[3]
  OBVIOUS
<1>2. /\ v > a.version /\ PrimaryBy(a, v) /\ ReplicaBy(a, v) /\ (t \in LocationsOf(a) \/ ~ Cleared(rs, a.gen, t))
      /\ r.primary = Placements[v].primary /\ r.replica = Placements[v].replica
      /\ t = IF r.role = "PRIMARY" THEN Placements[v].primary ELSE Placements[v].replica
  BY <1>1 DEF Bound, Leg
<1>3. v \in 1..c /\ v \in 1..Len(Placements) /\ v \in Nat
  BY <1>1, <1>2, PlacementTypes
<1>4. /\ b.gen = a.gen
      /\ r.role = "PRIMARY" =>
              /\ b.primary = t
              /\ IF r.replica = Nil THEN b.replica = Nil /\ b.replicaStatus = "ABSENT"
                 ELSE b.replica = a.replica /\ b.replicaStatus = a.replicaStatus
      /\ r.role # "PRIMARY" => b.primary = a.primary /\ b.replica = t
      /\ b.version \in {a.version, v} /\ (b.version # a.version => b.primary = r.primary /\ b.replica = r.replica)
  BY <1>1, AppliedRow
<1>5. Moved(a, b, v, r.role)
  BY <1>2, <1>3, <1>4 DEF Moved
<1>6. t \in Backends /\ t # Nil
  BY <1>1, KeyParts, ManagedAssumption
<1>7. b.primary \in Backends /\ b.replica \in Backends \cup {Nil} /\ (b.replicaStatus = "READY" => b.replica # Nil)
  BY <1>4, <1>6 DEF RowPlaced
<1>8. PrimaryBy(b, c) /\ ReplicaBy(b, c)
  <2>1. PrimaryBy(a, c) /\ ReplicaBy(a, c)
    BY DEF RowPlaced
  <2> QED BY <1>2, <1>3, <1>4, <2>1 DEF PrimaryBy, ReplicaBy
<1>9. ASSUME NEW x \in Backends, Cleared(rs, a.gen, x) PROVE ClearedOK(b, to, c, x) /\ (x \in LocationsOf(b) => x \in LocationsOf(a))
  <2>1. ClearedOK(a, rs, c, x)
    BY DEF RowPlaced
  <2> QED BY <1>2, <1>3, <1>5, <1>9, <2>1, LegKeepsCleared
<1>10. ASSUME NEW x \in Backends PROVE ClearedOK(b, to, c, x)
  <2>1. CASE Cleared(rs, a.gen, x)
    BY <1>9, <2>1
  <2>2. CASE ~ Cleared(to, a.gen, x)
    BY <1>4, <2>2 DEF ClearedOK
  <2>3. CASE OneWay(x) /\ b.version = v /\ \E g : WaitOK(<<"DELETE_GENERATION", g, x>>, v)
    <3>1. PICK g : WaitOK(<<"DELETE_GENERATION", g, x>>, v)
      BY <2>3
    <3>2. b.primary = Placements[v].primary /\ b.replica = Placements[v].replica
      BY <1>5, <2>3 DEF Moved
    <3> QED BY <1>3, <2>3, <3>1, <3>2, ReleasedOK
  <2> QED BY <1>1, <2>1, <2>2, <2>3 DEF Cleared
<1> QED BY <1>1, <1>2, <1>3, <1>5, <1>7, <1>8, <1>9, <1>10 DEF RowPlaced

\* A repaired copy leaves a row where it was.
LEMMA CopyPlaced ==
  ASSUME NEW c, NEW a, NEW b, NEW key \in RepairKeys, NEW r, NEW rs, NEW to,
         key[1] # "PLACEMENT", Has(a, AuthFields), b = Applied(a, key, r), RowPlaced(a, rs, c), r.cas = a.cas, Bound(a, rs, key, r),
         \A x \in Backends : Cleared(to, a.gen, x) => Cleared(rs, a.gen, x)
  PROVE  RowPlaced(b, to, c) /\ b.primary = a.primary /\ b.replica = a.replica
<1>1. key[3] = IF r.role = "PRIMARY" THEN a.primary ELSE a.replica
  BY DEF Bound
<1>2. b.gen = a.gen /\ b.primary = a.primary /\ b.replica = a.replica /\ (b.replicaStatus = a.replicaStatus \/ b.replica = key[3])
  BY <1>1, AppliedRow
<1>3. key[3] # Nil
  BY KeyParts, ManagedAssumption
<1>4. PrimaryBy(b, c) /\ ReplicaBy(b, c)
  BY <1>2 DEF RowPlaced, PrimaryBy, ReplicaBy
<1>5. ASSUME NEW x \in Backends PROVE ClearedOK(b, to, c, x)
  BY <1>2 DEF RowPlaced, ClearedOK, LocationsOf
<1> QED BY <1>2, <1>3, <1>4, <1>5 DEF RowPlaced

\* complete_repair.
LEMMA CompletePlaced ==
  ASSUME PlacedInvariant, [ManagedNext]_managedVars, ns'.epoch = ns.epoch, UNCHANGED <<survey, config>>,
         NEW w \in Workers, CompleteRepair(w)
  PROVE  PlacedInvariant' /\ PlacedKept
<1>0. /\ RowsOK(repairs) /\ Has(auth, Keys) /\ Has(worker[w].row, RepairFields) /\ Recorded(worker[w].row.version) /\ GenInvariant
      /\ worker[w].key \in RepairKeys /\ worker[w].pc # "idle" /\ WorkKnown /\ Waits
  BY DEF PlacedInvariant, ForwardInvariant, PlacementKnown, GenInvariant, GenShapes, RowsOK, TokensSpent, CompleteRepair
<1>1. PICK key, row, q, done :
         /\ key = worker[w].key /\ row = worker[w].row
         /\ q = [repairs[key] EXCEPT !.state = "DONE", !.live = FALSE] /\ done = [repairs EXCEPT ![key] = q]
  OBVIOUS
<1>2. \/ UNCHANGED <<auth, repairs>>
      \/ /\ CanComplete(w)
         /\ \/ UNCHANGED auth /\ repairs' = done
            \/ /\ Copying(w)
               /\ \E k \in Keys :
                   /\ RepairApplies(auth[k], key, row) /\ auth' = [auth EXCEPT ![k] = Applied(auth[k], key, row)]
                   /\ repairs' = IF key[1] = "PLACEMENT"
                         THEN WithPlacementCleanups(done, auth[k], Applied(auth[k], key, row), row.version, row.epoch)
                         ELSE done
  BY <1>1 DEF CompleteRepair, AppliesTo
<1>3. (\A i \in Workers : WorkerSame(i)) /\ config \in 1..Len(Placements) /\ config' = config /\ config \in Nat /\ config <= config'
  BY <1>0, WorkerSteady, PlacementTypes DEF WorkKnown, WorkerProgress
<1>4. CASE UNCHANGED <<auth, repairs>>
  BY <1>3, <1>4, SameRow, PlacedSteady
<1>5. ASSUME CanComplete(w) PROVE RowsOK(done) /\ \A x \in RepairKeys : RowSame(repairs, done, x)
  <2>1. Has(repairs[key], RepairFields) /\ repairs[key].state = "LEASED"
    BY <1>0, <1>1, <1>5 DEF CanComplete, HoldsLease, RowsOK
  <2>2. Same(repairs[key], q) /\ q.epoch = repairs[key].epoch /\ q.state = "DONE" /\ Has(q, RepairFields) /\ q.token = repairs[key].token
    BY <1>1, <2>1 DEF Has, RepairFields, Same
  <2>3. RowsOK(done)
    BY <1>0, <1>1, <2>2 DEF RowsOK, Has
  <2> QED BY <1>0, <1>1, <2>1, <2>2, <2>3, OneRowSame DEF Changes
<1>6. CASE CanComplete(w) /\ UNCHANGED auth /\ repairs' = done
  BY <1>3, <1>5, <1>6, PlacedSteady
<1>7. ASSUME NEW k \in Keys, CanComplete(w), Copying(w), RepairApplies(auth[k], key, row), auth' = [auth EXCEPT ![k] = Applied(auth[k], key, row)],
             repairs' = IF key[1] = "PLACEMENT"
                        THEN WithPlacementCleanups(done, auth[k], Applied(auth[k], key, row), row.version, row.epoch)
                        ELSE done
      PROVE  PlacedInvariant' /\ PlacedKept
  <2>1. PICK a, b, v, g : a = auth[k] /\ b = Applied(auth[k], key, row) /\ v = row.version /\ g = auth[k].gen
    OBVIOUS
  <2>2. /\ Shows(a) /\ a.gen = key[2] /\ row.cas = a.cas /\ row.epoch = ns.epoch
        /\ key \in RepairKeys /\ key[1] \in CopyKinds /\ key[1] # "DELETE_GENERATION" /\ v \in Nat /\ v <= config
    BY <1>0, <1>1, <1>7, <2>1, KeyParts DEF RepairApplies, Shows, CanComplete, Copying, RepairKinds, CopyKinds, Recorded
  <2>3. /\ Has(a, AuthFields) /\ a.cas \in Nat /\ a.version \in Nat /\ g \in Ops /\ RowPlaced(a, repairs, config)
        /\ Bound(a, repairs, key, row) /\ Terminal(ops'[g].state)
    BY <1>0, <1>1, <2>1, <2>2, ShownEnded, OpsStep DEF WorkBound, Terminal
  <2>4. \A j \in Keys : auth'[j] = IF j = k THEN b ELSE auth[j]
    BY <1>0, <1>7, <2>1 DEF Has
  <2>5. /\ b.gen = a.gen /\ b.cas = a.cas + 1
        /\ row.role = "PRIMARY" =>
              /\ b.primary = key[3]
              /\ b.replicaStatus = "READY" => b.replica = a.replica /\ b.replicaStatus = a.replicaStatus
        /\ row.role # "PRIMARY" =>
              b.primary = a.primary /\ b.primaryStatus = a.primaryStatus /\ b.replica = key[3]
    BY <2>1, <2>3, AppliedRow
  <2>6. /\ RowsOK(done) /\ \A x \in RepairKeys : RowSame(repairs, done, x)
    BY <1>5, <1>7
  <2>7. ASSUME key[1] = "PLACEMENT"
        PROVE  \A x \in RepairKeys :
            \/ repairs'[x] = done[x]
            \/ /\ x[1] = "DELETE_GENERATION" /\ x[2] = g /\ x[3] \in AbandonedLocations(a, b)
               /\ done[x].state = "NONE" /\ repairs'[x].epoch = ns.epoch /\ repairs'[x].version = v
               /\ repairs'[x].state = "WAITING_CUTOVER" \/ (repairs'[x].state = "PENDING" /\ b.version = v)
            \/ /\ x[2] = g /\ done[x].state = "WAITING_CUTOVER" /\ done[x].version = v /\ b.version = v
               /\ repairs'[x].state = "PENDING" /\ repairs'[x].epoch = done[x].epoch
    <3>1. repairs' = WithPlacementCleanups(done, a, b, v, ns.epoch)
      BY <1>7, <2>1, <2>2, <2>7
    <3> QED BY <2>1, <2>6, <3>1, PlacementCleanupsSame
  <2>8. ASSUME key[1] = "PLACEMENT", NEW x \in Backends, OneWay(x), x \in AbandonedLocations(a, b) PROVE WaitOK(<<"DELETE_GENERATION", g, x>>, v)
    <3>1. /\ v > a.version /\ PrimaryBy(a, v) /\ ReplicaBy(a, v)
      BY <2>1, <2>2, <2>3, <2>8 DEF Bound, Leg
    <3>2. v \in 1..config
      BY <1>3, <2>2, <2>3, <3>1
    <3>3. Moved(a, b, v, row.role)
      <4>1. \A y \in Backends : Cleared(repairs, a.gen, y) => Cleared(repairs, a.gen, y)
        OBVIOUS
      <4> QED BY <1>3, <2>1, <2>2, <2>3, <2>8, <4>1, LegPlaced
    <3> QED BY <1>3, <2>8, <3>1, <3>2, <3>3, AbandonedWaits
  <2>9. ASSUME NEW x \in RepairKeys
        PROVE  \/ repairs'[x] = done[x]
               \/ /\ key[1] = "PLACEMENT" /\ x[1] = "DELETE_GENERATION" /\ x[2] = g /\ repairs'[x].epoch = ns.epoch
                  /\ OneWay(x[3]) => WaitOK(x, v)
                  /\ done[x].state \in {"NONE", "WAITING_CUTOVER"}
                  /\ repairs'[x].state = "WAITING_CUTOVER" => repairs'[x].version = v
                  /\ repairs'[x].state \in {"WAITING_CUTOVER", "PENDING"} /\ (repairs'[x].state = "PENDING" => b.version = v)
    <3>0. x = <<x[1], x[2], x[3]>> /\ x[3] \in Backends
      BY KeyParts
    <3>1. CASE key[1] # "PLACEMENT"
      BY <1>7, <3>1
    <3>2. CASE key[1] = "PLACEMENT" /\ x[1] = "DELETE_GENERATION" /\ x[2] = g /\ x[3] \in AbandonedLocations(a, b)
               /\ done[x].state = "NONE" /\ repairs'[x].epoch = ns.epoch /\ repairs'[x].version = v
               /\ (repairs'[x].state = "WAITING_CUTOVER" \/ (repairs'[x].state = "PENDING" /\ b.version = v))
      <4>1. OneWay(x[3]) => WaitOK(x, v)
        BY <2>8, <3>0, <3>2
      <4> QED BY <3>2, <4>1
    <3>3. CASE key[1] = "PLACEMENT" /\ x[2] = g /\ done[x].state = "WAITING_CUTOVER" /\ done[x].version = v /\ b.version = v
               /\ repairs'[x].state = "PENDING" /\ repairs'[x].epoch = done[x].epoch
      <4>1. repairs[x].state = "WAITING_CUTOVER" /\ repairs[x].version = v /\ repairs[x].epoch = done[x].epoch
        BY <2>6, <3>3 DEF RowSame, Same
      <4>2. x[1] = "DELETE_GENERATION" /\ (OneWay(x[3]) => WaitOK(x, v)) /\ repairs[x].epoch = ns.epoch
        BY <1>0, <4>1 DEF Waits, WaitsFor, WorkKnown
      <4> QED BY <3>3, <4>1, <4>2
    <3> QED BY <2>7, <3>1, <3>2, <3>3
  <2>a. ASSUME NEW x \in RepairKeys, repairs'[x] = done[x] PROVE RowSame(repairs, repairs', x)
    BY <2>6, <2>a DEF RowSame
  <2>b. \A x \in RepairKeys : RowKept(x)
    BY <2>3, <2>9, <2>a DEF RowKept, WaitsFor
  <2>c. ASSUME NEW h \in Ops, NEW x \in Backends
        PROVE  /\ Cleared(repairs, h, x) => Cleared(repairs', h, x)
               /\ Cleared(repairs', h, x) => Cleared(repairs, h, x) \/ (key[1] = "PLACEMENT" /\ b.version = v /\ WaitOK(<<"DELETE_GENERATION", h, x>>, v))
    <3>1. PICK y : y = <<"DELETE_GENERATION", h, x>>
      OBVIOUS
    <3>2. y \in RepairKeys
      BY <3>1 DEF RepairKeys, RepairKinds
    <3>3. RowSame(repairs, done, y)
      BY <2>6, <3>2
    <3> QED BY <2>9, <3>1, <3>2, <3>3 DEF Cleared, RowSame
  <2>d. RowPlaced(b, repairs', config) /\ \A x \in Backends : x \in LocationsOf(b) /\ Cleared(repairs, a.gen, x) => x \in LocationsOf(a)
    <3>1. CASE key[1] = "PLACEMENT"
      BY <1>3, <2>1, <2>2, <2>3, <2>c, <3>1, LegPlaced
    <3>2. CASE key[1] # "PLACEMENT"
      <4>1. \A x \in Backends : Cleared(repairs', a.gen, x) => Cleared(repairs, a.gen, x)
        BY <2>1, <2>3, <2>c, <3>2
      <4>2. RowPlaced(b, repairs', config) /\ b.primary = a.primary /\ b.replica = a.replica
        BY <2>1, <2>2, <2>3, <3>2, <4>1, CopyPlaced
      <4> QED BY <4>2 DEF LocationsOf
    <3> QED BY <3>1, <3>2
  <2>e. WorkBound(auth[k], repairs, repairs', worker', survey')
    <3>1. \A x \in RepairKeys : x[1] \in CopyKinds => RowSame(repairs, repairs', x)
      BY <2>9, <2>a DEF CopyKinds
    <3>2. SurveyBound(auth[k], repairs, survey')
      BY <2>1, <2>2, ShownEnded DEF WorkBound
    <3> QED BY <1>3, <2>1, <2>2, <3>1, <3>2, WorkStays
  <2>f. ReadyFrom(a, b)
    <3>1. Ledgered(key[3], a.gen) # {}
      BY <1>1, <1>7, <2>2 DEF CanComplete, Target, Gen
    <3> QED BY <2>2, <2>5, <3>1 DEF ReadyFrom
  <2>g. ASSUME NEW j \in Keys, Shows(auth'[j]) PROVE KeyMoves(j)
    <3>1. CASE j = k
      <4>1. Shows(auth'[k]) /\ auth'[k] = b /\ auth[k] = a /\ auth'[k].cas > auth[k].cas /\ RowPlaced(auth'[k], repairs', config')
        BY <1>3, <2>1, <2>3, <2>4, <2>5, <2>d, <2>g, <3>1
      <4>2. KeyPlaced(k)'
        BY <2>2, <2>5, <2>e, <4>1, KeyBumped, ForwardStep, GenStep DEF PlacedInvariant, ForwardInvariant
      <4> QED BY <2>2, <2>5, <2>d, <2>f, <3>1, <4>1, <4>2 DEF KeyMoves, Comes
    <3>2. CASE j # k
      <4>1. auth'[j] = auth[j] /\ Shows(auth[j])
        BY <2>4, <2>g, <3>2
      <4>2. auth[j].gen # g
        BY <2>1, <2>2, <3>2, <4>1, OneKey
      <4> QED BY <2>9, <2>a, <4>1, <4>2 DEF KeyMoves
    <3> QED BY <3>1, <3>2
  <2> QED BY <1>3, <2>b, <2>c, <2>g, PlacedOthers
<1> QED BY <1>2, <1>4, <1>6, <1>7

\* advance_placement_version: the row has the locations of the later version already.
LEMMA AdvancePlaced ==
  ASSUME PlacedInvariant, [ManagedNext]_managedVars, ns'.epoch = ns.epoch, UNCHANGED config, AdvancePlacementVersion
  PROVE  PlacedInvariant' /\ PlacedKept
<1>0. /\ Has(auth, Keys) /\ config \in 1..Len(Placements) /\ config' = config /\ config \in Nat /\ config <= config'
      /\ survey.legs # {} /\ survey.key \in Keys /\ survey'.legs = {} /\ UNCHANGED <<worker, repairs>>
  BY PlacementTypes DEF PlacedInvariant, WorkKnown, ForwardInvariant, PlacementKnown, GenInvariant, GenShapes, Surveyed, AdvancePlacementVersion, NoSurvey
<1>1. (\A i \in Workers : WorkerSame(i)) /\ \A key \in RepairKeys : RowSame(repairs, repairs', key)
  BY <1>0, NoWorker, SameRow
<1>2. CASE UNCHANGED auth
  BY <1>0, <1>1, <1>2, PlacedSteady
<1>3. CASE ~ UNCHANGED auth
  <2>1. PICK k, a, b, v, n : /\ k = survey.key /\ a = auth[k] /\ v = Placed(survey.version).version /\ n = a.cas + 1
                             /\ b = [a EXCEPT !.version = v, !.cas = n]
    OBVIOUS
  <2>2. auth' = [auth EXCEPT ![k] = b] /\ Shows(a)
    BY <1>3, <2>1 DEF AdvancePlacementVersion, Unmoved, Shows
  <2>3. k \in Keys /\ Has(a, AuthFields) /\ a.cas \in Nat /\ RowPlaced(a, repairs, config)
    BY <1>0, <2>1, <2>2, ShownEnded
  <2>4. /\ b.gen = a.gen /\ b.cas = a.cas + 1 /\ b.primary = a.primary /\ b.replica = a.replica
        /\ b.primaryStatus = a.primaryStatus /\ b.replicaStatus = a.replicaStatus
    BY <2>1, <2>3 DEF Has, AuthFields
  <2>5. \A j \in Keys : auth'[j] = IF j = k THEN b ELSE auth[j]
    BY <1>0, <2>2 DEF Has
  <2>a. auth[k] = a /\ b.cas > a.cas
    BY <2>1, <2>3, <2>4
  <2>6. RowPlaced(b, repairs', config')
    BY <1>0, <2>3, <2>4 DEF RowPlaced, PrimaryBy, ReplicaBy, ClearedOK, LocationsOf
  <2>7. WorkBound(auth[k], repairs, repairs', worker', survey')
    BY <1>0, <1>1, <2>1, <2>2, <2>3, WorkStays DEF SurveyBound
  <2>8. ASSUME NEW j \in Keys, Shows(auth'[j]) PROVE KeyMoves(j)
    <3>1. CASE j = k
      <4>1. Shows(auth'[k]) /\ auth'[k] = b /\ auth[k] = a /\ auth'[k].cas > auth[k].cas
        BY <2>3, <2>5, <2>8, <2>a, <3>1
      <4>2. KeyPlaced(k)'
        BY <2>2, <2>3, <2>4, <2>6, <2>7, <4>1, KeyBumped, ForwardStep, GenStep DEF PlacedInvariant, ForwardInvariant
      <4> QED BY <2>2, <2>4, <3>1, <4>1, <4>2 DEF KeyMoves, Comes, ReadyFrom, LocationsOf
    <3>2. CASE j # k
      BY <1>1, <2>5, <3>2 DEF KeyMoves
    <3> QED BY <3>1, <3>2
  <2>9. \A key \in RepairKeys : RowKept(key)
    BY <1>1 DEF RowKept
  <2> QED BY <1>0, <1>1, <2>8, <2>9, PlacedOthers
<1> QED BY <1>2, <1>3

\* The row of a leg.
LEMMA LegRow ==
  ASSUME NEW leg, NEW a, NEW v, NEW key, NEW row, LegRepair(leg, a, Placed(v)) = [key |-> key, row |-> row]
  PROVE  /\ Has(row, RepairFields) /\ row.state = "PENDING" /\ row.epoch = ns.epoch /\ row.cas = a.cas
         /\ leg = "RESTORE" => key = <<"REPLICA", a.gen, a.primary>> /\ row.role = "PRIMARY"
         /\ leg # "RESTORE" =>
              /\ key = <<"PLACEMENT", a.gen, IF leg = "PRIMARY" THEN Placements[v].primary ELSE Placements[v].replica>>
              /\ row.role = leg /\ row.version = v /\ row.primary = Placements[v].primary /\ row.replica = Placements[v].replica
<1>1. CASE leg = "RESTORE"
  <2>1. key = <<"REPLICA", a.gen, a.primary>> /\ row = CopyRepair(a, survey.source, "PRIMARY", a.version, ns.epoch)
    BY <1>1 DEF LegRepair
  <2>2. row.epoch = ns.epoch /\ row.cas = a.cas /\ row.role = "PRIMARY"
    BY <2>1 DEF CopyRepair, NoRepair
  <2> QED BY <1>1, <2>1, <2>2, CopyRepairRow
<1>2. CASE leg # "RESTORE"
  <2>1. PICK p : p = Placed(v)
    OBVIOUS
  <2>2. p.version = v /\ p.primary = Placements[v].primary /\ p.replica = Placements[v].replica
    BY <2>1 DEF Placed
  <2>3. /\ key = <<"PLACEMENT", a.gen, IF leg = "PRIMARY" THEN p.primary ELSE p.replica>>
        /\ row = PlacementRepair(a, survey.source, leg, p, ns.epoch)
    BY <1>2, <2>1 DEF LegRepair
  <2> DEFINE c == CopyRepair(a, survey.source, leg, p.version, ns.epoch)
  <2>4. Has(c, RepairFields) /\ c.epoch = ns.epoch /\ c.cas = a.cas /\ c.role = leg /\ c.version = p.version
    <3>1. c.epoch = ns.epoch /\ c.cas = a.cas /\ c.role = leg /\ c.version = p.version
      BY DEF CopyRepair, NoRepair
    <3> QED BY <3>1, CopyRepairRow
  <2>5. row = [c EXCEPT !.primary = p.primary, !.replica = p.replica]
    BY <2>3 DEF PlacementRepair
  <2> HIDE DEF c
  <2>6. row.epoch = ns.epoch /\ row.cas = a.cas /\ row.role = leg /\ row.version = p.version /\ row.primary = p.primary /\ row.replica = p.replica
    BY <2>4, <2>5 DEF Has, RepairFields
  <2> QED BY <1>2, <2>2, <2>3, <2>6, PlacementRepairRow
<1> QED BY <1>1, <1>2

\* What a survey or a read enqueues is bound to the row it was computed from.
LEMMA EnqueuePlaced ==
  ASSUME PlacedInvariant, [ManagedNext]_managedVars, ns'.epoch = ns.epoch, UNCHANGED config, NEW leg, Enqueue(leg)
  PROVE  PlacedInvariant' /\ PlacedKept
<1>0. /\ RowsOK(repairs) /\ config \in 1..Len(Placements) /\ config' = config /\ config \in Nat /\ config <= config' /\ WorkKnown
      /\ survey.legs # {} /\ Has(survey, SurveyFields) /\ UNCHANGED <<worker, auth>> /\ ForwardInvariant' /\ GenKept
      /\ \A o \in Ops : Terminal(ops[o].state) => Terminal(ops'[o].state)
  BY PlacementTypes, ForwardStep, GenStep, OpsStep DEF PlacedInvariant, WorkKnown, ForwardInvariant, PlacementKnown, GenInvariant, GenShapes, RowsOK, Surveyed, Enqueue
<1>1. (\A i \in Workers : WorkerSame(i)) /\ NoSurvey.legs = {}
  BY <1>0, NoWorker DEF NoSurvey
<1>2. CASE UNCHANGED repairs /\ survey' = NoSurvey
  BY <1>0, <1>1, <1>2, SameRow, PlacedSteady
<1>3. CASE ~ (UNCHANGED repairs /\ survey' = NoSurvey)
  <2>1. PICK a, v, x, row : a = survey.row /\ v = survey.version /\ LegRepair(leg, a, Placed(v)) = [key |-> x, row |-> row]
    BY DEF LegRepair
  <2>2. repairs' = InsertRepair(repairs, x, row) /\ leg \in survey.legs \ {"ADVANCE"}
    BY <1>3, <2>1 DEF Enqueue
  <2>3. /\ Has(row, RepairFields) /\ row.state = "PENDING" /\ row.epoch = ns.epoch /\ row.cas = a.cas
        /\ leg = "RESTORE" => x = <<"REPLICA", a.gen, a.primary>> /\ row.role = "PRIMARY"
        /\ leg # "RESTORE" =>
              /\ x = <<"PLACEMENT", a.gen, IF leg = "PRIMARY" THEN Placements[v].primary ELSE Placements[v].replica>>
              /\ row.role = leg /\ row.version = v /\ row.primary = Placements[v].primary /\ row.replica = Placements[v].replica
    BY <2>1, LegRow
  <2>4. \A key \in RepairKeys :
            \/ repairs'[key] = repairs[key]
            \/ key = x /\ repairs'[key].state = "PENDING" /\ repairs'[key].epoch = ns.epoch /\ Same(row, repairs'[key])
    BY <1>0, <2>2, <2>3, InsertSame DEF Inserted
  <2>5. survey'.legs \subseteq survey.legs /\ (survey'.legs # {} => survey'.row = survey.row /\ survey'.version = survey.version)
    <3>1. survey' = NoSurvey \/ survey' = [survey EXCEPT !.legs = @ \ {leg}]
      BY DEF Enqueue
    <3> QED BY <1>0, <1>1, <3>1 DEF Has, SurveyFields
  <2>6. a.gen \in Ops /\ Terminal(ops[a.gen].state) /\ x[2] = a.gen /\ x[1] # "DELETE_GENERATION"
    BY <1>0, <2>1, <2>3 DEF WorkKnown
  <2>7. \A key \in RepairKeys : RowKept(key)
    BY <1>0, <2>4, <2>6, SameRow DEF RowKept
  <2>8. \A g \in Ops, b \in Backends : Cleared(repairs', g, b) <=> Cleared(repairs, g, b)
    BY <2>4, <2>6, SameRow, RowsKeepCleared
  <2>9. ASSUME NEW j \in Keys, Shows(auth[j]) PROVE KeyPlaced(j)'
    <3>1. auth[j].gen \in Ops /\ SurveyBound(auth[j], repairs, survey)
      BY <2>9, ShownEnded DEF WorkBound
    <3>2. ASSUME x \in RepairKeys, auth[j].gen = a.gen PROVE Bound(auth[j], repairs, x, row)
      <4>1. /\ a.cas \in Nat /\ a.cas <= auth[j].cas
            /\ a.cas = auth[j].cas =>
                 /\ a = auth[j]
                 /\ survey.legs \ {"RESTORE", "ADVANCE"} # {} => \A b \in LocationsAt(v) \ {Nil} : Leg(auth[j], repairs, b, v)
        BY <1>0, <2>1, <3>1, <3>2 DEF SurveyBound
      <4>2. x[3] # Nil
        BY <3>2, KeyParts, ManagedAssumption
      <4>3. CASE leg = "RESTORE"
        BY <2>3, <4>1, <4>3 DEF Bound
      <4>4. CASE leg # "RESTORE"
        <5>1. x[1] = "PLACEMENT" /\ x[3] \in LocationsAt(v) \ {Nil} /\ x[3] = IF row.role = "PRIMARY" THEN row.primary ELSE row.replica
          BY <2>3, <4>2, <4>4 DEF LocationsAt
        <5> QED BY <2>2, <2>3, <4>1, <4>4, <5>1 DEF Bound
      <4> QED BY <4>3, <4>4
    <3>3. ASSUME NEW key \in RepairKeys, key[1] \in CopyKinds, key[2] = auth[j].gen
          PROVE  RowSame(repairs, repairs', key) \/ Bound(auth[j], repairs, key, repairs'[key])
      BY <2>4, <2>6, <3>2, <3>3, SameRow, BoundSame
    <3>4. SurveyBound(auth[j], repairs, survey')
      BY <2>5, <3>1 DEF SurveyBound
    <3>5. WorkBound(auth[j], repairs, repairs', worker', survey')
      BY <1>1, <2>9, <3>3, <3>4, WorkStays
    <3> QED BY <1>0, <2>8, <2>9, <3>1, <3>5, KeyStays
  <2>a. survey'.legs # {} => survey'.row.gen \in Ops /\ Terminal(ops'[survey'.row.gen].state)
    BY <1>0, <2>5 DEF WorkKnown
  <2>b. \A k \in Keys : Shows(auth'[k]) => KeyPlaced(k)'
    BY <1>0, <2>9
  <2>c. PlacedInvariant'
    BY <1>0, <1>1, <2>7, <2>a, <2>b, PlacedMoves
  <2>d. PlacedKept
    BY <1>0, <2>8 DEF PlacedKept, ClearedKept, ReadyKept, ReadyFrom
  <2> QED BY <2>c, <2>d
<1> QED BY <1>2, <1>3

(* A survey of a placement, or a read, looks at a row: no cleanup that may run is for a
   location of the configured placement that the row does not have. *)
LEMMA SurveyPlaced ==
  ASSUME PlacedInvariant, [ManagedNext]_managedVars, ns'.epoch = ns.epoch, UNCHANGED <<auth, repairs, worker, config>>,
         NEW k \in Keys, SurveyPlacement(k) \/ \E i \in 1..4 : OpenAuthoritative(k, i)
  PROVE  PlacedInvariant' /\ PlacedKept
<1>0. /\ config \in 1..Len(Placements) /\ config' = config /\ config \in Nat /\ config <= config' /\ WorkKnown
      /\ ForwardInvariant' /\ GenKept /\ \A o \in Ops : Terminal(ops[o].state) => Terminal(ops'[o].state)
  BY PlacementTypes, ForwardStep, GenStep, OpsStep DEF PlacedInvariant, WorkKnown, ForwardInvariant, PlacementKnown
<1>1. (\A i \in Workers : WorkerSame(i)) /\ \A key \in RepairKeys : RowSame(repairs, repairs', key)
  BY NoWorker, SameRow
<1>2. Shows(auth[k])
  BY DEF SurveyPlacement, OpenAuthoritative, Shows
<1>3. /\ auth[k].gen \in Ops /\ Terminal(ops[auth[k].gen].state) /\ auth[k].cas \in Nat /\ auth[k].version \in Nat
      /\ auth[k].version <= config /\ RowPlaced(auth[k], repairs, config)
  BY <1>2, ShownEnded DEF Terminal, PlacedInvariant, ForwardInvariant, PlacementKnown, Recorded, Shows
<1>4. /\ survey'.row = auth[k] /\ survey'.version = config
      /\ survey'.legs \ {"RESTORE", "ADVANCE"} # {} => auth[k].version < config
  <2>1. CASE SurveyPlacement(k)
    BY <2>1 DEF SurveyPlacement, Placed
  <2>2. ASSUME NEW i \in 1..4, OpenAuthoritative(k, i) PROVE <1>4
    <3>1. PICK source : survey' = [key |-> k, row |-> auth[k], source |-> source, version |-> config, legs |-> ReadLegs(auth[k], source)]
      BY <2>2 DEF OpenAuthoritative
    <3>2. ReadLegs(auth[k], source) \ {"RESTORE", "ADVANCE"} # {} => config # auth[k].version
      BY DEF ReadLegs, Placed
    <3> QED BY <1>0, <1>3, <3>1, <3>2
  <2> QED BY <2>1, <2>2
<1>5. ASSUME NEW b \in LocationsAt(config) \ {Nil}, auth[k].version < config PROVE Leg(auth[k], repairs, b, config)
  <2>1. b \in Backends /\ config \in config..Len(Placements)
    BY <1>0, PlacementTypes DEF LocationsAt
  <2>2. b \in LocationsOf(auth[k]) \/ ~ Cleared(repairs, auth[k].gen, b)
    BY <1>3, <2>1 DEF RowPlaced, ClearedOK
  <2> QED BY <1>0, <1>3, <1>5, <2>2 DEF Leg, RowPlaced
<1>6. ASSUME NEW j \in Keys, Shows(auth[j]) PROVE KeyPlaced(j)'
  <2>1. SurveyBound(auth[j], repairs, survey')
    <3>1. CASE j = k
      BY <1>3, <1>4, <1>5, <3>1 DEF SurveyBound
    <3>2. CASE j # k
      BY <1>2, <1>4, <1>6, <3>2, OneKey DEF SurveyBound
    <3> QED BY <3>1, <3>2
  <2>2. WorkBound(auth[j], repairs, repairs', worker', survey')
    BY <1>1, <1>6, <2>1, WorkStays
  <2> QED BY <1>0, <1>6, <2>2, KeyStays
<1>7. survey'.row.gen \in Ops /\ Terminal(ops'[survey'.row.gen].state)
  BY <1>0, <1>3, <1>4
<1>8. \A key \in RepairKeys : RowKept(key)
  BY <1>1 DEF RowKept
<1>9. PlacedInvariant'
  BY <1>0, <1>1, <1>6, <1>7, <1>8, PlacedMoves
<1>10. PlacedKept
  BY DEF PlacedKept, ClearedKept, ReadyKept, ReadyFrom
<1> QED BY <1>9, <1>10

\* The end of a purge takes the rows with it, and none of a later epoch.
LEMMA FinalizePlaced ==
  ASSUME PlacedInvariant, [ManagedNext]_managedVars, NEW d \in Drivers, FinalizeComplete(d)
  PROVE  PlacedInvariant' /\ PlacedKept
<1>0. /\ EpochInvariant /\ EpochInvariant' /\ ForwardInvariant' /\ OpsPlaced' /\ WorkKnown /\ Waits /\ ForwardInvariant
      /\ \A o \in Ops : Terminal(ops[o].state) => Terminal(ops'[o].state)
      /\ UNCHANGED <<worker, survey, config>>
  BY EpochStepPreserves, ForwardStep, OpsStep DEF PlacedInvariant, ForwardInvariant, FinalizeComplete, repairVars
<1>1. \A k \in Keys : ~ Shows(auth'[k])
  BY DEF FinalizeComplete, NoAuthority, Shows
<1>2. PICK p, e : /\ p = driver[d].purge /\ e = purges[p].epoch
                  /\ repairs' = [key \in RepairKeys |-> IF repairs[key].epoch <= e THEN NoRepair ELSE repairs[key]]
                  /\ driver[d].pc = "settling"
                  /\ ns' = IF ns.purge = p THEN [state |-> "ACTIVE", epoch |-> e + 1, routing |-> ns.routing + 1, purge |-> Nil] ELSE ns
  BY DEF FinalizeComplete
<1>3. p \in Purges /\ purges[p].state # "NONE" /\ e \in Nat /\ ns.epoch \in Nat
  BY <1>0, <1>2 DEF EpochInvariant, DriversStarted, PurgeShapes
<1>4. NoRepair.state = "NONE"
  BY DEF NoRepair
<1>5. ReadyKept
  BY <1>1 DEF ReadyKept
<1>6. CASE ns.purge = p
  <2>1. e = ns.epoch /\ ns'.epoch # ns.epoch
    BY <1>0, <1>2, <1>3, <1>6, PurgeAssumption DEF EpochInvariant, PurgeEpochs
  <2>2. \A key \in RepairKeys : repairs'[key].state = "NONE"
    BY <1>0, <1>2, <1>3, <1>4, <2>1 DEF WorkKnown
  <2>3. ASSUME NEW i \in Workers, worker'[i].pc # "idle" PROVE Terminal(ops'[worker'[i].key[2]].state)
    <3>1. worker[i].key[2] \in Ops
      BY <1>0, <2>3, KeyParts DEF ForwardInvariant, GenInvariant, TokensSpent
    <3> QED BY <1>0, <2>3, <3>1 DEF WorkKnown
  <2>4. WorkKnown'
    BY <1>0, <2>2, <2>3 DEF WorkKnown
  <2>5. PlacedInvariant'
    BY <1>0, <1>1, <2>2, <2>4 DEF PlacedInvariant, RowsPlaced, Waits
  <2>6. ClearedKept
    BY <1>1, <2>1 DEF ClearedKept
  <2> QED BY <1>5, <2>5, <2>6 DEF PlacedKept
<1>7. CASE ns.purge # p
  <2>1. e < ns.epoch /\ UNCHANGED ns
    BY <1>0, <1>2, <1>3, <1>7 DEF EpochInvariant, PurgeEpochs
  <2>2. \A key \in RepairKeys : RowSame(repairs, repairs', key)
    <3>1. ASSUME NEW key \in RepairKeys PROVE repairs'[key] = repairs[key] \/ (repairs'[key] = NoRepair /\ repairs[key].epoch <= e)
      BY <1>2
    <3>2. ASSUME NEW key \in RepairKeys, repairs[key].epoch <= e PROVE repairs[key].state = "NONE"
      BY <1>0, <1>3, <2>1, <3>2 DEF WorkKnown
    <3>3. ASSUME NEW key \in RepairKeys, repairs'[key] = NoRepair, repairs[key].state = "NONE" PROVE RowSame(repairs, repairs', key)
      BY <1>4, <3>3 DEF RowSame
    <3> QED BY <3>1, <3>2, <3>3, SameRow
  <2>3. \A key \in RepairKeys : RowKept(key)
    BY <2>2 DEF RowKept
  <2>4. \A g \in Ops, b \in Backends : Cleared(repairs, g, b) => Cleared(repairs', g, b)
    BY <2>2, RowsKeepCleared
  <2>5. \A i \in Workers : WorkerSame(i)
    BY <1>0, NoWorker
  <2> QED BY <1>0, <1>1, <2>1, <2>3, <2>4, <2>5, PlacedOthers
<1> QED BY <1>6, <1>7

\* The end of a lease changes no more of a repair row.
LEMMA LeaseSame == ASSUME PlacedInvariant, NEW key \in RepairKeys, ExpireRepairLease(key) PROVE \A x \in RepairKeys : RowSame(repairs, repairs', x)
<1>1. PICK q : q = [repairs[key] EXCEPT !.live = FALSE]
  OBVIOUS
<1>2. RowsOK(repairs) /\ Has(repairs[key], RepairFields) /\ repairs[key].state = "LEASED" /\ repairs' = [repairs EXCEPT ![key] = q]
  BY <1>1 DEF PlacedInvariant, ForwardInvariant, GenInvariant, GenShapes, RowsOK, ExpireRepairLease
<1>3. q.state = repairs[key].state /\ Same(repairs[key], q) /\ q.epoch = repairs[key].epoch
  BY <1>1, <1>2 DEF Has, RepairFields, Same
<1> QED BY <1>2, <1>3, OneRowSame DEF Changes

(* Every step keeps the invariant, takes no cleanup back, and brings no row to a
   location whose cleanup may run. *)
LEMMA PlacedStep == ASSUME PlacedInvariant, [ManagedNext]_managedVars PROVE PlacedInvariant' /\ PlacedKept
<1>0. NsShape /\ EpochInvariant /\ config \in 1..Len(Placements) /\ config \in Nat /\ Len(Placements) \in Nat
  BY PlacementTypes DEF PlacedInvariant, WorkKnown, ForwardInvariant, PlacementKnown, EpochInvariant, PurgeShapes
<1>1. ASSUME UNCHANGED <<auth, repairs, worker, survey, config>>, ns'.epoch = ns.epoch PROVE PlacedInvariant' /\ PlacedKept
  <2>1. config' \in 1..Len(Placements) /\ config <= config'
    BY <1>0, <1>1
  <2> QED BY <1>1, <2>1, NoWorker, SameRow, PlacedSteady
<1>2. ASSUME NEW o \in Ops, RequestStep(o)
      PROVE  UNCHANGED config /\ (UNCHANGED <<auth, repairs>> \/ ProvePhysicalAbort(o) \/ CommitLogicalPut(o) \/ CommitLogicalDelete(o))
  BY <1>2 DEF RequestStep, ReadAuthority, RouteFence, InsertLogicalOperation, ReadUsage, ReserveLogicalOperation,
     BeginPhysicalWrite, BeginJournal, BeginJournalFails, VerifyOutput, WriteFails, RecordLogicalUsage,
     TransitionLogicalOperation, CompleteChild, CompleteRefused, CommitPhysicalWrite, AbortChild, AbortAtProvider, WithdrawIntent, ProveLogicalAbort,
     ProvePhysicalAbort, CommitLogicalPut, CommitLogicalDelete, Crash
<1>3. ASSUME WriteStep, UNCHANGED <<repairVars, purgeVars>> PROVE PlacedInvariant' /\ PlacedKept
  <2>1. ns'.epoch = ns.epoch /\ UNCHANGED <<worker, survey>>
    BY <1>0, <1>3, WritesKeepNamespace DEF repairVars
  <2>2. ASSUME NEW o \in Ops, RequestStep(o) PROVE PlacedInvariant' /\ PlacedKept
    BY <1>1, <1>2, <2>1, <2>2, AbortPlaced, PublishPlaced, DeletePlaced
  <2>3. ASSUME NEW k \in Keys, TombstoneAuthoritative(k) PROVE PlacedInvariant' /\ PlacedKept
    BY <1>1, <2>1, <2>3, DeletePlaced DEF TombstoneAuthoritative
  <2>4. CASE IntentStep \/ ChildStep \/ AdvanceRoutingEpoch
    BY <1>1, <2>1, <2>4 DEF IntentStep, ChildStep, AdvanceRoutingEpoch, ExpireIntent, ReconcileIntent, ReconcileChild
  <2> QED BY <1>3, <2>2, <2>3, <2>4 DEF WriteStep
<1>4. ASSUME RepairStep PROVE PlacedInvariant' /\ PlacedKept
  <2>1. ns'.epoch = ns.epoch
    BY <1>0, <1>4, WritesKeepNamespace
  <2>2. ASSUME NEW w \in Workers, WorkerProgress(w) \/ WorkerCrash(w) PROVE PlacedInvariant' /\ PlacedKept
    <3>1. UNCHANGED <<survey, config>>
      BY <2>2 DEF WorkerProgress, WorkerCrash, SelectCandidate, ClaimRepair, OpenSource, BeginCopy, BeginCopyJournal, BeginCopyFails, StoreCopy, CopyFails,
         SettleCopy, CheckCleanup, ListCleanup, ForgetVersion, DeleteVersion, CompleteRepair, FailRepair, writeVars
    <3>2. config' \in 1..Len(Placements) /\ config <= config'
      BY <1>0, <3>1
    <3>3. CASE CompleteRepair(w)
      BY <2>1, <3>1, <3>3, CompletePlaced
    <3>4. CASE ~ CompleteRepair(w)
      BY <2>1, <2>2, <3>1, <3>2, <3>4, WorkerSteady, PlacedSteady
    <3> QED BY <3>3, <3>4
  <2>3. ASSUME NEW key \in RepairKeys, ExpireRepairLease(key) PROVE PlacedInvariant' /\ PlacedKept
    <3>1. UNCHANGED <<auth, worker, survey, config>>
      BY <2>3 DEF ExpireRepairLease, repairVars
    <3>2. config' \in 1..Len(Placements) /\ config <= config'
      BY <1>0, <3>1
    <3> QED BY <2>1, <2>3, <3>1, <3>2, LeaseSame, NoWorker, PlacedSteady
  <2>4. ASSUME NEW c, ExpireCopyIntent(c) PROVE PlacedInvariant' /\ PlacedKept
    BY <1>1, <2>1, <2>4 DEF ExpireCopyIntent, repairVars
  <2>5. CASE RaisePlacement
    <3>1. UNCHANGED <<auth, repairs, worker, survey>> /\ config' \in 1..Len(Placements) /\ config <= config'
      BY <1>0, <2>5 DEF RaisePlacement, repairVars
    <3> QED BY <2>1, <3>1, NoWorker, SameRow, PlacedSteady
  <2>6. CASE AdvancePlacementVersion
    BY <2>1, <2>6, AdvancePlaced DEF AdvancePlacementVersion
  <2>7. ASSUME NEW leg, Enqueue(leg) PROVE PlacedInvariant' /\ PlacedKept
    BY <2>1, <2>7, EnqueuePlaced DEF Enqueue
  <2>8. ASSUME NEW k \in Keys, SurveyPlacement(k) \/ \E i \in 1..4 : OpenAuthoritative(k, i) PROVE PlacedInvariant' /\ PlacedKept
    <3>1. UNCHANGED <<auth, repairs, worker, config>>
      BY <2>8 DEF SurveyPlacement, OpenAuthoritative, writeVars
    <3> QED BY <2>1, <2>8, <3>1, SurveyPlaced
  <2> QED BY <1>4, <2>2, <2>3, <2>4, <2>5, <2>6, <2>7, <2>8 DEF RepairStep, PlacementStep, HeadAuthoritative
<1>5. ASSUME NEW d \in Drivers, DriverStep(d)
      PROVE  UNCHANGED <<auth, repairs, worker, survey, config>> \/ FinalizeComplete(d)
  BY <1>5 DEF DriverStep, StartPurge, QueryPurge, ReadIntents, ReadTargets, FinalizeBlocked, FinalizeCounts, PurgeTargets,
     MarkPurgeTargetDeleted, MarkPurgeTargetBlocked, DeleteTarget, DriverCrash, writeVars, repairVars
<1>6. ASSUME NEW u \in Uploads, MultipartStep(u) PROVE UNCHANGED <<auth, repairs, worker, survey, config>>
  BY <1>6 DEF MultipartStep, BeginMultipartActivity, CreateUpload, ConfirmMultipartActivity, WithdrawUpload,
     FinishMultipartActivity, RetireUpload, CreatorCrash, ExpireRegistration, ReconcileMultipartActivity, writeVars, repairVars
<1>7. UNCHANGED managedVars => UNCHANGED <<auth, repairs, worker, survey, config>>
  BY DEF managedVars, writeVars, repairVars
<1>8. ns'.epoch = ns.epoch \/ \E d \in Drivers : FinalizeComplete(d)
  BY <1>0, NamespaceMoves DEF SameEpoch, NextEpoch
<1> QED BY <1>1, <1>3, <1>4, <1>5, <1>6, <1>7, <1>8, FinalizePlaced DEF ManagedNext

\* The initial state: no row, no repair, the first placement.
LEMMA PlacedInitially == ASSUME ManagedInit PROVE PlacedInvariant
<1>1. /\ ops = [o \in Ops |-> NoOp] /\ auth = [k \in Keys |-> Nil] /\ repairs = [key \in RepairKeys |-> NoRepair]
      /\ worker = [i \in Workers |-> IdleWorker] /\ survey = NoSurvey /\ config = 1 /\ ns.epoch = 1
  BY DEF ManagedInit, Init, RepairInit
<1>2. NoOp.state = "NONE" /\ NoOp.epoch = 0 /\ NoRepair.state = "NONE" /\ IdleWorker.pc = "idle" /\ NoSurvey.legs = {}
  BY DEF NoOp, NoRepair, IdleWorker, NoSurvey
<1>3. RowsPlaced /\ Waits /\ OpsPlaced /\ WorkKnown
  BY <1>1, <1>2, PlacementTypes DEF RowsPlaced, Shows, Waits, OpsPlaced, WorkKnown
<1> QED BY <1>3, EpochInitially, ForwardInitially DEF PlacedInvariant

-----------------------------------------------------------------------------
(* The copies themselves: the ledger, the providers and the cleanups. *)

\* A generation of the epoch that is active.
Current(g) == Active /\ ops[g].epoch = ns.epoch

\* No row that shows the generation has a copy of it at the backend.
Unread(g, b) == \A k \in Keys : Shows(auth[k]) /\ auth[k].gen = g => b \notin LocationsOf(auth[k])

\* The copies of a generation at a backend may be deleted, or have been.
Deleted(g, b) == Cleared(repairs, g, b) /\ Unread(g, b)

\* The version a ledger row is for.
Version(l) == [write |-> l.write, n |-> l.n]

\* A ledger row whose version is not at the provider is one that may be deleted.
LostDeleted ==
    \A l \in ledger : l.write.backend \in Backends /\ OneWay(l.write.backend) /\ Current(l.write.gen) /\ Version(l) \notin prov =>
        Deleted(l.write.gen, l.write.backend)

\* While its intent stands, a write has at the provider what its journal row counts.
CountedHeld == \A w \in DOMAIN intents \cap DOMAIN child : \A n \in 1..child[w].n : [write |-> w, n |-> n] \in prov

(* A worker with the row of a cleanup has one that may run; once it has looked at the
   authority no row shows the location; and what it deletes is the generation there. *)
Cleaning == {"cleared", "deleting", "forgetting"}
CleanerRight(i) ==
    LET key == worker[i].key
    IN  /\ worker[i].pc # "idle" /\ key[1] = "DELETE_GENERATION" /\ Current(key[2]) /\ OneWay(key[3]) => Cleared(repairs, key[2], key[3])
        /\ worker[i].pc \in Cleaning => key[1] = "DELETE_GENERATION" /\ (Current(key[2]) /\ OneWay(key[3]) => Unread(key[2], key[3]))
        /\ worker[i].pc \in {"deleting", "forgetting"} =>
             \A v \in worker[i].todo : v.write.gen = key[2] /\ v.write.backend = key[3]
CleanersRight == \A i \in Workers : CleanerRight(i)

\* What a purge deletes is of an epoch that is over, and nothing is marked while none is under way.
TargetsOld == \A d \in Drivers : \A v \in driver[d].todo : ~ Current(v.write.gen)
Unmarked == Active => \A l \in ledger : l.purge = Nil

\* What a row calls ready is in the ledger.
ReadyAt(a, b) ==
    \/ a.primary = b /\ a.primaryStatus = "READY"
    \/ a.replica = b /\ a.replicaStatus = "READY"
ReadyLedgered ==
    Active => \A k \in Keys, b \in Backends : Shows(auth[k]) /\ OneWay(b) /\ ReadyAt(auth[k], b) => Ledgered(b, auth[k].gen) # {}

\* ReadyCopiesPresent is inductive together with these.
CopiesInvariant ==
    /\ PurgeInvariant /\ PlacedInvariant
    /\ LostDeleted /\ CountedHeld /\ CleanersRight /\ TargetsOld /\ Unmarked /\ ReadyLedgered

\* What a step may do to the ledger, the providers and the journal.
Entered(l) ==
    \/ \E m \in ledger : m.write = l.write /\ m.n = l.n /\ (l.purge = m.purge \/ ~ Active')
    \/ /\ l.write \in DOMAIN intents \cap DOMAIN child /\ l.n \in 1..child[l.write].n
       /\ prov \subseteq prov' /\ (l.purge = Nil \/ ~ Active')
Left(m) ==
    \/ \E l \in ledger' : l.write = m.write
    \/ /\ UNCHANGED <<auth, ns>>
       /\ \/ \E i \in Workers : worker[i].pc = "forgetting" /\ worker[i].victim.write = m.write
          \/ \E d \in Drivers : driver[d].pc = "deleted" /\ driver[d].victim.write = m.write
Gone(v) ==
    \/ \E i \in Workers : worker[i].pc = "deleting" /\ v \in worker[i].todo
    \/ \E d \in Drivers : v \in driver[d].todo
Counts(w) ==
    \/ w \in DOMAIN intents \cap DOMAIN child /\ child'[w].n = child[w].n
    \/ \A n \in 1..child'[w].n : [write |-> w, n |-> n] \in prov'
CopiesMove ==
    /\ \A l \in ledger' : Entered(l)
    /\ \A m \in ledger : Left(m)
    /\ \A v \in prov \ prov' : Gone(v)
    /\ \A w \in DOMAIN intents' \cap DOMAIN child' : Counts(w)

\* Journal rows that count what they counted.
CountKept == \A w \in DOMAIN child' : IF w \in DOMAIN child THEN child'[w].n = child[w].n ELSE child'[w].n = 0
LEMMA CountsStay ==
  ASSUME CoverInvariant, WritesKept, CountKept PROVE \A w \in DOMAIN intents' \cap DOMAIN child' : Counts(w)
<1>1. ASSUME NEW w \in DOMAIN intents' \cap DOMAIN child', w \in DOMAIN child PROVE Counts(w)
  <2>1. Begun(w)
    BY <1>1 DEF CoverInvariant, KnownBegun
  <2>2. w \in DOMAIN intents
    BY <2>1 DEF WritesKept
  <2> QED BY <1>1, <2>2 DEF CountKept, Counts
<1>2. ASSUME NEW w \in DOMAIN intents' \cap DOMAIN child', w \notin DOMAIN child PROVE Counts(w)
  <2>1. child'[w].n = 0
    BY <1>2 DEF CountKept
  <2> QED BY <2>1 DEF Counts
<1> QED BY <1>1, <1>2

\* The ledger and the providers stay.
LEMMA CopiesStay ==
  ASSUME CoverInvariant, WritesKept, UNCHANGED <<ledger, prov>>, CountKept PROVE CopiesMove
<1>1. \A w \in DOMAIN intents' \cap DOMAIN child' : Counts(w)
  BY CountsStay
<1> QED BY <1>1 DEF CopiesMove, Entered, Left

\* A write is settled.
LEMMA CopiesSettle ==
  ASSUME CoverInvariant, WritesKept, NEW w, w \in DOMAIN intents, w \in DOMAIN child, UNCHANGED <<child, prov, ns>>,
         SettleFromJournal(w) \/ SettleCompleted(w)
  PROVE  CopiesMove
<1>1. CountKept
  BY DEF CountKept
<1>2. ledger' = ledger \/ ledger' = ledger \cup LedgerRows(w)
  BY BothSettle DEF Settling, CommitIntent, DropIntent, BlockIntent
<1>3. \A l \in LedgerRows(w) : l.write = w /\ l.n \in 1..child[w].n /\ (l.purge = Nil \/ ~ Active)
  BY DEF LedgerRows, Active
<1>4. ASSUME NEW l \in ledger' PROVE Entered(l)
  BY <1>2, <1>3 DEF Entered, Active
<1>5. \A m \in ledger : Left(m)
  BY <1>2 DEF Left
<1>6. \A x \in DOMAIN intents' \cap DOMAIN child' : Counts(x)
  BY <1>1, CountsStay
<1> QED BY <1>4, <1>5, <1>6 DEF CopiesMove

\* A write is stored.
LEMMA CopiesStored ==
  ASSUME CoverInvariant, NEW w, w \in DOMAIN child, StoreChild(w), UNCHANGED <<ledger, intents>> PROVE CopiesMove
<1>0. WriteShapes
  BY DEF CoverInvariant
<1>1. PICK n, c : Stored(w, n, c)
  BY <1>0, StoresCount
<1>2. /\ DOMAIN child' = DOMAIN child /\ child'[w] = c /\ (\A x \in DOMAIN child \ {w} : child'[x] = child[x])
      /\ c.n = n /\ prov' = prov \cup Versions(w, n)
  BY <1>0, <1>1, RowChanged DEF WriteShapes, Stored
<1>3. ASSUME NEW x \in DOMAIN intents' \cap DOMAIN child' PROVE Counts(x)
  BY <1>2 DEF Counts, Versions
<1> QED BY <1>2, <1>3 DEF CopiesMove, Entered, Left

\* Journal tables that count what they counted.
LEMMA CountCases ==
  ASSUME WriteShapes,
         \/ UNCHANGED child
         \/ \E w, e : child' = WithRow(child, w, NewChild(e))
         \/ \E w, s : w \in DOMAIN child /\ child' = [child EXCEPT ![w].state = s]
         \/ \E S : S \subseteq DOMAIN child /\ child' = Restrict(child, S)
  PROVE  CountKept
<1>0. Has(child, DOMAIN child) /\ \A w \in DOMAIN child : Has(child[w], ChildFields)
  BY DEF WriteShapes
<1>1. ASSUME NEW w, NEW e, child' = WithRow(child, w, NewChild(e)) PROVE CountKept
  <2>1. PICK c : c = NewChild(e)
    OBVIOUS
  <2>2. c.n = 0
    BY <2>1 DEF NewChild
  <2>3. child' = WithRow(child, w, c)
    BY <1>1, <2>1
  <2>4. DOMAIN child' = DOMAIN child \cup {w} /\ (\A x \in DOMAIN child : child'[x] = child[x]) /\ (w \notin DOMAIN child => child'[w] = c)
    BY <1>0, <2>3 DEF Has, WithRow
  <2> QED BY <2>2, <2>4 DEF CountKept
<1>2. ASSUME NEW w, NEW s, w \in DOMAIN child, child' = [child EXCEPT ![w].state = s] PROVE CountKept
  <2> DEFINE c == [child[w] EXCEPT !.state = s]
  <2>1. c.n = child[w].n /\ child' = [child EXCEPT ![w] = c]
    BY <1>0, <1>2 DEF Has, ChildFields
  <2> HIDE DEF c
  <2>2. DOMAIN child' = DOMAIN child /\ child'[w] = c /\ \A x \in DOMAIN child \ {w} : child'[x] = child[x]
    BY <1>0, <1>2, <2>1, RowChanged
  <2> QED BY <2>1, <2>2 DEF CountKept
<1>3. ASSUME NEW S, S \subseteq DOMAIN child, child' = Restrict(child, S) PROVE CountKept
  BY <1>3, RowsLeft DEF CountKept
<1> QED BY <1>1, <1>2, <1>3 DEF CountKept

\* A request.
LEMMA RequestCopies ==
  ASSUME CoverInvariant, WritesKept, NEW o \in Ops, RequestStep(o), UNCHANGED ns PROVE CopiesMove
<1>0. GenInvariant /\ WriteShapes /\ KnownBegun /\ JournalsKept
  BY DEF CoverInvariant
<1>1. PICK w : w = Child(o)
  OBVIOUS
<1>2. put[o].pc \in AtWork /\ w \in DOMAIN intents => w \in DOMAIN child
  BY <1>0, <1>1 DEF JournalsKept
<1>3. CASE CompleteChild(o)
  <2>1. /\ put[o].pc \in AtWork /\ w \in DOMAIN intents /\ UNCHANGED <<ledger, intents>>
        /\ StoreChild(w) \/ UNCHANGED <<child, prov>>
    BY <1>1, <1>3 DEF CompleteChild, CompletedChild, WriterLease, AtWork
  <2> QED BY <1>0, <1>2, <2>1, CopiesStored, CountCases, CopiesStay
<1>4. CASE CommitPhysicalWrite(o)
  <2>1. /\ put[o].pc \in AtWork /\ UNCHANGED <<child, prov>>
        /\ UNCHANGED ledger \/ (w \in DOMAIN intents /\ SettleCompleted(w))
    BY <1>1, <1>4 DEF CommitPhysicalWrite, AtWork
  <2> QED BY <1>0, <1>2, <2>1, CountCases, CopiesStay, CopiesSettle
<1>5. CASE AbortChild(o)
  <2>1. put[o].pc \in AtWork /\ UNCHANGED prov
    BY <1>5 DEF AbortChild, AtWork
  <2>2. CASE WriterLease(w) /\ child' = [child EXCEPT ![w].state = "ABORTING"] /\ UNCHANGED ledger
    <3>1. w \in DOMAIN child
      BY <1>2, <2>1, <2>2 DEF WriterLease
    <3>2. CountKept
      BY <1>0, <2>2, <3>1, CountCases
    <3> QED BY <2>1, <2>2, <3>2, CopiesStay
  <2>3. CASE UNCHANGED <<ledger, child>> \/ (w \in DOMAIN intents /\ SettleFromJournal(w) /\ UNCHANGED child)
    BY <1>0, <1>2, <2>1, <2>3, CountCases, CopiesStay, CopiesSettle
  <2> QED BY <1>1, <1>5, <2>2, <2>3 DEF AbortChild, WriterLease
<1>6. CASE AbortAtProvider(o) \/ WithdrawIntent(o)
  <2>1. UNCHANGED <<ledger, prov>> /\ (UNCHANGED child \/ (w \in DOMAIN child /\ \E s : child' = [child EXCEPT ![w].state = s]))
    BY <1>1, <1>6 DEF AbortAtProvider, WithdrawIntent, DropIntent
  <2> QED BY <1>0, <2>1, CountCases, CopiesStay
<1>7. ASSUME ~ CompleteChild(o), ~ CommitPhysicalWrite(o), ~ AbortChild(o), ~ AbortAtProvider(o), ~ WithdrawIntent(o)
      PROVE  UNCHANGED <<ledger, prov>> /\ (UNCHANGED child \/ \E e : child' = WithRow(child, w, NewChild(e)))
  BY <1>1, <1>7 DEF RequestStep, ReadAuthority, RouteFence, InsertLogicalOperation, ReadUsage, BeginJournal, BeginJournalFails,
     ReserveLogicalOperation, BeginPhysicalWrite, VerifyOutput, WriteFails, RecordLogicalUsage, TransitionLogicalOperation,
     CompleteRefused, ProveLogicalAbort, ProvePhysicalAbort, CommitLogicalPut, CommitLogicalDelete, Crash
<1>8. ASSUME ~ CompleteChild(o), ~ CommitPhysicalWrite(o), ~ AbortChild(o), ~ AbortAtProvider(o), ~ WithdrawIntent(o)
      PROVE  CopiesMove
  BY <1>0, <1>7, <1>8, CountCases, CopiesStay
<1> QED BY <1>3, <1>4, <1>5, <1>6, <1>8

\* The reconcilers, and leases that run out.
LEMMA ReconcilerCopies ==
  ASSUME CoverInvariant, WritesKept, UNCHANGED ns, NEW w,
         ExpireIntent(w) \/ ExpireCopyIntent(w) \/ ReconcileIntent(w) \/ ReconcileChild(w)
  PROVE  CopiesMove
<1>0. WriteShapes
  BY DEF CoverInvariant
<1>1. CASE ExpireIntent(w) \/ ExpireCopyIntent(w)
  <2>1. UNCHANGED <<ledger, prov, child>>
    BY <1>1 DEF ExpireIntent, ExpireCopyIntent
  <2> QED BY <1>0, <2>1, CountCases, CopiesStay
<1>2. CASE ReconcileIntent(w)
  <2>1. UNCHANGED <<child, prov>> /\ w \in DOMAIN intents /\ (UNCHANGED ledger \/ (w \in DOMAIN child /\ SettleFromJournal(w)))
    BY <1>2 DEF ReconcileIntent, BlockIntent
  <2> QED BY <1>0, <2>1, CountCases, CopiesStay, CopiesSettle
<1>3. CASE ReconcileChild(w)
  <2>1. UNCHANGED <<ledger, prov>> /\ w \in DOMAIN child /\ \E s : child' = [child EXCEPT ![w].state = s]
    BY <1>3 DEF ReconcileChild
  <2> QED BY <1>0, <2>1, CountCases, CopiesStay
<1> QED BY <1>1, <1>2, <1>3

\* A version that was deleted leaves the ledger.
LEMMA CopiesForgotten ==
  ASSUME CoverInvariant, WritesKept, NEW v, UNCHANGED <<prov, auth, ns>>, ledger' \subseteq ledger,
         \A l \in ledger \ ledger' : l.write = v.write,
         child' = child \/ child' = Restrict(child, DOMAIN child \ {v.write}),
         \/ \E i \in Workers : worker[i].pc = "forgetting" /\ worker[i].victim = v
         \/ \E d \in Drivers : driver[d].pc = "deleted" /\ driver[d].victim = v
  PROVE  CopiesMove
<1>1. CountKept
  BY CountCases DEF CoverInvariant
<1>2. \A w \in DOMAIN intents' \cap DOMAIN child' : Counts(w)
  BY <1>1, CountsStay
<1>3. \A m \in ledger : Left(m)
  BY DEF Left
<1>4. \A l \in ledger' : Entered(l)
  BY DEF Entered
<1> QED BY <1>2, <1>3, <1>4 DEF CopiesMove

\* A version is deleted.
LEMMA CopiesDeleted ==
  ASSUME CoverInvariant, WritesKept, NEW v, prov' = prov \ {v} \/ prov' = prov, UNCHANGED <<ledger, child>>, Gone(v) PROVE CopiesMove
<1>1. CountKept
  BY DEF CountKept
<1>2. \A w \in DOMAIN intents' \cap DOMAIN child' : Counts(w)
  BY <1>1, CountsStay
<1> QED BY <1>2 DEF CopiesMove, Entered, Left

\* A worker.
LEMMA WorkerCopies ==
  ASSUME CoverInvariant, WritesKept, NEW i \in Workers, WorkerProgress(i) \/ WorkerCrash(i), UNCHANGED ns PROVE CopiesMove
<1>0. GenInvariant /\ WriteShapes /\ KnownBegun /\ JournalsKept
  BY DEF CoverInvariant
<1>1. PICK w : w = RepairChild(i)
  OBVIOUS
<1>3. worker[i].pc \in Writing /\ w \in DOMAIN intents => w \in DOMAIN child
  BY <1>0, <1>1 DEF JournalsKept
<1>4. CASE StoreCopy(i)
  <2>1. /\ worker[i].pc \in Writing /\ w \in DOMAIN intents /\ UNCHANGED <<ledger, intents>>
        /\ StoreChild(w) \/ UNCHANGED <<child, prov>>
    BY <1>1, <1>4 DEF StoreCopy, CompletedChild, WriterLease, Writing
  <2> QED BY <1>0, <1>3, <2>1, CopiesStored, CountCases, CopiesStay
<1>5. CASE SettleCopy(i)
  <2>1. /\ worker[i].pc \in Writing /\ UNCHANGED <<child, prov>>
        /\ UNCHANGED ledger \/ (w \in DOMAIN intents /\ SettleCompleted(w))
    BY <1>1, <1>5 DEF SettleCopy, Writing
  <2> QED BY <1>0, <1>3, <2>1, CountCases, CopiesStay, CopiesSettle
<1>6. ASSUME NEW v \in worker[i].todo, DeleteVersion(i, v) PROVE CopiesMove
  <2>1. /\ prov' = prov \ {v} \/ prov' = prov
        /\ worker[i].pc = "deleting" /\ UNCHANGED <<ledger, child>>
    BY <1>6 DEF DeleteVersion
  <2>2. Gone(v)
    BY <1>6, <2>1 DEF Gone
  <2> QED BY <2>1, <2>2, CopiesDeleted
<1>7. CASE ForgetVersion(i)
  <2>1. PICK v : v = worker[i].victim
    OBVIOUS
  <2>2. ForgetEffects(v) /\ UNCHANGED <<auth, prov>> /\ worker[i].pc = "forgetting"
    BY <1>7, <2>1 DEF ForgetVersion
  <2>3. /\ ledger' = ledger \ {l \in ledger : l.write = v.write /\ l.n = v.n}
        /\ child' = child \/ child' = Restrict(child, DOMAIN child \ {v.write})
    BY <2>2 DEF ForgetEffects
  <2>4. ledger' \subseteq ledger /\ \A l \in ledger \ ledger' : l.write = v.write
    BY <2>3
  <2> QED BY <2>1, <2>2, <2>3, <2>4, CopiesForgotten
<1>8. ASSUME \/ \E k \in RepairKeys : SelectCandidate(i, k)
             \/ ClaimRepair(i) \/ OpenSource(i) \/ BeginCopy(i) \/ BeginCopyJournal(i) \/ BeginCopyFails(i) \/ CopyFails(i) \/ CheckCleanup(i) \/ ListCleanup(i)
             \/ CompleteRepair(i) \/ FailRepair(i) \/ WorkerCrash(i)
      PROVE  UNCHANGED <<ledger, prov>> /\ (UNCHANGED child \/ \E e : child' = WithRow(child, w, NewChild(e)))
  BY <1>1, <1>8 DEF SelectCandidate, ClaimRepair, OpenSource, BeginCopy, BeginCopyJournal, BeginCopyFails, CopyFails, CheckCleanup, ListCleanup, CompleteRepair, FailRepair,
     WorkerCrash, writeVars
<1>9. ASSUME UNCHANGED <<ledger, prov>> /\ (UNCHANGED child \/ \E e : child' = WithRow(child, w, NewChild(e))) PROVE CopiesMove
  BY <1>0, <1>9, CountCases, CopiesStay
<1> QED BY <1>4, <1>5, <1>6, <1>7, <1>8, <1>9 DEF WorkerProgress

\* Ledger rows are marked, while the namespace is purged or not at all.
LEMMA CopiesMarked ==
  ASSUME CoverInvariant, WritesKept, UNCHANGED <<prov, child>>,
         \A l \in ledger' : \E m \in ledger : m.write = l.write /\ m.n = l.n /\ (l.purge = m.purge \/ ~ Active'),
         \A m \in ledger : \E l \in ledger' : m.write = l.write
  PROVE  CopiesMove
<1>1. CountKept
  BY DEF CountKept
<1>2. \A w \in DOMAIN intents' \cap DOMAIN child' : Counts(w)
  BY <1>1, CountsStay
<1> QED BY <1>2 DEF CopiesMove, Entered, Left

\* The rows a purge marks.
LEMMA CopiesCondemned ==
  ASSUME PurgeInvariant, WritesKept, UNCHANGED <<prov, child>>, NEW p, NEW e \in Nat, NEW states, ledger' = Condemned(p, e, states),
         Active' => e < ns.epoch
  PROVE  CopiesMove
<1>0. CoverInvariant /\ WriteShapes /\ RowsInEpoch /\ ns.epoch \in Nat
  BY DEF PurgeInvariant, CoverInvariant, EpochInvariant, PurgeShapes
<1>1. \A m \in ledger : LET l == [m EXCEPT !.state = "PURGE_PENDING", !.purge = p] IN l.write = m.write /\ l.n = m.n
  BY <1>0 DEF WriteShapes, Has, LedgerFields
<1>2. ASSUME NEW l \in ledger' PROVE \E m \in ledger : m.write = l.write /\ m.n = l.n /\ (l.purge = m.purge \/ ~ Active')
  <2>1. PICK m \in ledger : l = IF m.epoch <= e /\ m.state \in states THEN [m EXCEPT !.state = "PURGE_PENDING", !.purge = p] ELSE m
    BY DEF Condemned
  <2>2. l = m \/ (m.epoch <= e /\ m.write = l.write /\ m.n = l.n)
    BY <1>1, <2>1
  <2>3. m.epoch = ns.epoch
    BY <1>0 DEF RowsInEpoch
  <2>4. Active' => ~ (m.epoch <= e)
    BY <1>0, <2>3
  <2> QED BY <2>2, <2>4
<1>3. ASSUME NEW m \in ledger PROVE \E l \in ledger' : m.write = l.write
  <2> DEFINE l == IF m.epoch <= e /\ m.state \in states
                  THEN [m EXCEPT !.state = "PURGE_PENDING", !.purge = p] ELSE m
  <2>1. l \in ledger'
    BY DEF Condemned
  <2>2. l.write = m.write
    BY <1>1
  <2> HIDE DEF l
  <2> QED BY <2>1, <2>2
<1> QED BY <1>0, <1>2, <1>3, CopiesMarked

\* A request about a purge.
LEMMA DriverCopies ==
  ASSUME PurgeInvariant, WritesKept, NEW d \in Drivers, DriverStep(d) PROVE CopiesMove
<1>0. CoverInvariant /\ WriteShapes /\ EpochInvariant /\ ns.epoch \in Nat /\ NsShape
  BY DEF PurgeInvariant, CoverInvariant, EpochInvariant, PurgeShapes
<1>1. ASSUME NEW p \in Purges, StartPurge(d, p) PROVE CopiesMove
  <2>1. ~ Active' /\ UNCHANGED <<prov, child>> /\ ledger' = Condemned(p, ns.epoch, {"LIVE", "PURGE_PENDING", "PURGE_BLOCKED"})
    BY <1>0, <1>1 DEF StartPurge, Active, NsShape, Has, NsFields
  <2> QED BY <1>0, <2>1, CopiesCondemned
<1>2. CASE ReadTargets(d)
  <2>1. PICK p, e : p = driver[d].purge /\ e = purges[p].epoch
    OBVIOUS
  <2>2. UNCHANGED <<prov, child, ns>> /\ ledger' = Condemned(p, e, {"LIVE"}) /\ driver[d].pc # "idle"
    BY <1>2, <2>1 DEF ReadTargets
  <2>3. p \in Purges /\ purges[p].state # "NONE" /\ e \in Nat
    BY <1>0, <2>1, <2>2 DEF EpochInvariant, DriversStarted, PurgeShapes
  <2>4. Active => ns.purge = Nil /\ p # Nil
    BY <1>0, <2>3, PurgeAssumption DEF EpochInvariant, PurgeEpochs
  <2>5. Active => e < ns.epoch
    BY <1>0, <2>1, <2>3, <2>4 DEF EpochInvariant, PurgeEpochs
  <2> QED BY <2>2, <2>3, <2>5, CopiesCondemned DEF Active
<1>3. CASE MarkPurgeTargetBlocked(d)
  <2>1. PICK p, v : /\ p = driver[d].purge /\ v = driver[d].victim
    OBVIOUS
  <2>2. /\ ledger' = {IF l.write = v.write /\ l.n = v.n /\ l.purge = p
                      THEN [l EXCEPT !.state = "PURGE_BLOCKED"] ELSE l : l \in ledger}
        /\ UNCHANGED <<child, prov>>
    BY <1>3, <2>1 DEF MarkPurgeTargetBlocked
  <2>3. \A m \in ledger : LET l == [m EXCEPT !.state = "PURGE_BLOCKED"]
                          IN  l.write = m.write /\ l.n = m.n /\ l.purge = m.purge
    BY <1>0 DEF WriteShapes, Has, LedgerFields
  <2>4. \A l \in ledger' : \E m \in ledger : m.write = l.write /\ m.n = l.n /\ l.purge = m.purge
    BY <2>2, <2>3
  <2>5. ASSUME NEW m \in ledger PROVE \E l \in ledger' : m.write = l.write
    <3> DEFINE l == IF m.write = v.write /\ m.n = v.n /\ m.purge = p THEN [m EXCEPT !.state = "PURGE_BLOCKED"] ELSE m
    <3>1. l \in ledger'
      BY <2>2
    <3>2. l.write = m.write
      BY <2>3
    <3> HIDE DEF l
    <3> QED BY <3>1, <3>2
  <2> QED BY <1>0, <2>2, <2>4, <2>5, CopiesMarked
<1>4. ASSUME NEW v \in driver[d].todo, DeleteTarget(d, v) PROVE CopiesMove
  <2>1. (prov' = prov \ {v} \/ prov' = prov) /\ UNCHANGED <<child, ledger>> /\ Gone(v)
    BY <1>4 DEF DeleteTarget, Gone
  <2> QED BY <1>0, <2>1, CopiesDeleted
<1>5. CASE MarkPurgeTargetDeleted(d)
  <2>1. PICK p, v : p = driver[d].purge /\ v = driver[d].victim
    OBVIOUS
  <2>2. /\ ledger' = ledger \ {l \in ledger : l.write = v.write /\ l.n = v.n /\ l.purge = p}
        /\ child' = child \/ child' = Restrict(child, DOMAIN child \ {v.write})
        /\ UNCHANGED <<auth, ns, prov>> /\ driver[d].pc = "deleted"
    BY <1>5, <2>1 DEF MarkPurgeTargetDeleted
  <2>3. ledger' \subseteq ledger /\ \A l \in ledger \ ledger' : l.write = v.write
    BY <2>2
  <2> QED BY <1>0, <2>1, <2>2, <2>3, CopiesForgotten
<1>6. CASE FinalizeComplete(d)
  <2>1. UNCHANGED <<ledger, prov>> /\ \E S : S \subseteq DOMAIN child /\ child' = Restrict(child, S)
    BY <1>6 DEF FinalizeComplete
  <2> QED BY <1>0, <2>1, CountCases, CopiesStay
<1>7. ASSUME \/ \E p \in Purges : QueryPurge(d, p)
             \/ ReadIntents(d) \/ FinalizeBlocked(d) \/ FinalizeCounts(d) \/ PurgeTargets(d) \/ DriverCrash(d)
      PROVE  UNCHANGED <<child, ledger, prov>>
  BY <1>7 DEF QueryPurge, ReadIntents, FinalizeBlocked, FinalizeCounts, PurgeTargets, DriverCrash, writeVars
<1>8. UNCHANGED <<child, ledger, prov>> => CopiesMove
  BY <1>0, CountCases, CopiesStay
<1> QED BY <1>1, <1>2, <1>3, <1>4, <1>5, <1>6, <1>7, <1>8 DEF DriverStep

\* Every step.
LEMMA StepCopies ==
  ASSUME PurgeInvariant, WritesKept, [ManagedNext]_managedVars PROVE CopiesMove
<1>0. CoverInvariant /\ WriteShapes /\ EpochInvariant /\ NsShape
  BY DEF PurgeInvariant, CoverInvariant, EpochInvariant, PurgeShapes
<1>1. CASE UNCHANGED <<child, ledger, prov>>
  BY <1>0, <1>1, CountCases, CopiesStay
<1>2. CASE WriteStep
  <2>1. ASSUME NEW o \in Ops, RequestStep(o) PROVE UNCHANGED ns
    BY <2>1 DEF RequestStep, ReadAuthority, RouteFence, InsertLogicalOperation, ReadUsage, ReserveLogicalOperation,
       BeginPhysicalWrite, BeginJournal, BeginJournalFails, VerifyOutput, WriteFails, RecordLogicalUsage,
       TransitionLogicalOperation, CompleteChild, CompleteRefused, CommitPhysicalWrite, AbortChild, AbortAtProvider, WithdrawIntent, ProveLogicalAbort,
       ProvePhysicalAbort, CommitLogicalPut, CommitLogicalDelete, Crash
  <2>2. ASSUME NEW w, ExpireIntent(w) \/ ReconcileIntent(w) \/ ReconcileChild(w) PROVE UNCHANGED ns
    BY <2>2 DEF ExpireIntent, ReconcileIntent, ReconcileChild
  <2>3. (\E k \in Keys : TombstoneAuthoritative(k)) \/ AdvanceRoutingEpoch => UNCHANGED <<child, ledger, prov>>
    BY DEF TombstoneAuthoritative, AdvanceRoutingEpoch
  <2> QED BY <1>0, <1>1, <1>2, <2>1, <2>2, <2>3, RequestCopies, ReconcilerCopies DEF WriteStep, IntentStep, ChildStep
<1>3. CASE RepairStep
  <2>1. ASSUME NEW i \in Workers, WorkerProgress(i) \/ WorkerCrash(i) PROVE UNCHANGED ns
    BY <2>1 DEF WorkerProgress, WorkerCrash, SelectCandidate, ClaimRepair, OpenSource, BeginCopy, BeginCopyJournal, BeginCopyFails, StoreCopy, CopyFails,
       SettleCopy, CheckCleanup, ListCleanup, ForgetVersion, DeleteVersion, CompleteRepair, FailRepair, writeVars
  <2>2. ASSUME NEW w, ExpireCopyIntent(w) PROVE UNCHANGED ns
    BY <2>2 DEF ExpireCopyIntent
  <2>3. ASSUME \/ \E key \in RepairKeys : ExpireRepairLease(key)
               \/ PlacementStep
               \/ \E k \in Keys, i \in 1..4 : OpenAuthoritative(k, i) \/ HeadAuthoritative(k, i)
        PROVE  UNCHANGED <<child, ledger, prov>>
    BY <2>3 DEF ExpireRepairLease, PlacementStep, RaisePlacement, AdvancePlacementVersion, SurveyPlacement, Enqueue,
       OpenAuthoritative, HeadAuthoritative, writeVars
  <2> QED BY <1>0, <1>1, <1>3, <2>1, <2>2, <2>3, WorkerCopies, ReconcilerCopies DEF RepairStep
<1>4. ASSUME NEW u \in Uploads, MultipartStep(u) PROVE UNCHANGED <<child, ledger, prov>>
  BY <1>4 DEF MultipartStep, BeginMultipartActivity, CreateUpload, ConfirmMultipartActivity, WithdrawUpload,
     FinishMultipartActivity, RetireUpload, CreatorCrash, ExpireRegistration, ReconcileMultipartActivity, writeVars
<1>5. CASE UNCHANGED managedVars
  BY <1>1, <1>5 DEF managedVars, writeVars
<1> QED BY <1>1, <1>2, <1>3, <1>4, <1>5, DriverCopies DEF ManagedNext

\* What a step may do to a worker at a cleanup.
CleanerTo(j, r) ==
    LET key == worker[j].key
    IN  /\ r.pc \in Cleaning =>
             /\ worker[j].pc # "idle" /\ r.key = key
             /\ worker[j].pc \in Cleaning \/ (key[1] = "DELETE_GENERATION" /\ Unread(key[2], key[3]))
        /\ r.pc \in {"deleting", "forgetting"} =>
             \/ worker[j].pc \in {"deleting", "forgetting"} /\ r.todo \subseteq worker[j].todo
             \/ r.todo = {Version(l) : l \in Ledgered(key[3], key[2])}

\* A worker looks at the authority before it deletes, and deletes what the ledger lists.
LEMMA CleanerMoves ==
  ASSUME GenInvariant, NEW i \in Workers, WorkerProgress(i) \/ WorkerCrash(i) PROVE \A j \in Workers : CleanerTo(j, worker'[j])
<1>0. Has(worker, Workers) /\ Has(worker[i], WorkerFields)
  BY DEF GenInvariant, GenShapes
<1>1. ASSUME NEW r, worker' = [worker EXCEPT ![i] = r], CleanerTo(i, r) PROVE \A j \in Workers : CleanerTo(j, worker'[j])
  <2>1. worker'[i] = r /\ \A j \in Workers \ {i} : worker'[j] = worker[j]
    BY <1>0, <1>1 DEF Has
  <2>2. \A j \in Workers \ {i} : CleanerTo(j, worker[j])
    BY DEF CleanerTo, Cleaning
  <2> QED BY <1>1, <2>1, <2>2
<1>2. ASSUME NEW pc, pc \notin Cleaning, Step(i, pc) PROVE \A j \in Workers : CleanerTo(j, worker'[j])
  <2>1. PICK r : r = [worker[i] EXCEPT !.pc = pc]
    OBVIOUS
  <2>2. r.pc = pc /\ worker' = [worker EXCEPT ![i] = r]
    BY <1>0, <1>2, <2>1 DEF Step, Has, WorkerFields
  <2> QED BY <1>1, <1>2, <2>2 DEF CleanerTo, Cleaning
<1>3. ASSUME worker' = [worker EXCEPT ![i] = IdleWorker] PROVE \A j \in Workers : CleanerTo(j, worker'[j])
  BY <1>1, <1>3 DEF CleanerTo, Cleaning, IdleWorker
<1>4. ASSUME NEW key \in RepairKeys, SelectCandidate(i, key) PROVE \A j \in Workers : CleanerTo(j, worker'[j])
  <2>1. PICK r : r = [worker[i] EXCEPT !.pc = "selected", !.key = key, !.row = repairs[key]]
    OBVIOUS
  <2>2. r.pc = "selected" /\ worker' = [worker EXCEPT ![i] = r]
    BY <1>0, <1>4, <2>1 DEF SelectCandidate, Has, WorkerFields
  <2> QED BY <1>1, <2>2 DEF CleanerTo, Cleaning
<1>5. CASE ClaimRepair(i)
  <2>1. PICK n : \/ worker' = [worker EXCEPT ![i] = [@ EXCEPT !.pc = "claimed", !.row.token = n]]
                 \/ worker' = [worker EXCEPT ![i] = IdleWorker]
    BY <1>5 DEF ClaimRepair
  <2>2. PICK r : r = [worker[i] EXCEPT !.pc = "claimed", !.row.token = n]
    OBVIOUS
  <2>3. r.pc = "claimed"
    BY <1>0, <2>2 DEF Has, WorkerFields
  <2>4. worker' = [worker EXCEPT ![i] = r] \/ worker' = [worker EXCEPT ![i] = IdleWorker]
    BY <2>1, <2>2
  <2>5. CleanerTo(i, r)
    BY <2>3 DEF CleanerTo, Cleaning
  <2> QED BY <1>1, <1>3, <2>4, <2>5
<1>6. CASE OpenSource(i) \/ BeginCopy(i) \/ BeginCopyJournal(i) \/ BeginCopyFails(i) \/ StoreCopy(i) \/ CopyFails(i) \/ SettleCopy(i)
  <2>1. \E pc \in {"opened", "failing", "intended", "copying", "stored", "finished"} : Step(i, pc)
    BY <1>6 DEF OpenSource, BeginCopy, BeginCopyJournal, BeginCopyFails, StoreCopy, CopyFails, SettleCopy
  <2> QED BY <1>2, <2>1 DEF Cleaning
<1>7. CASE CheckCleanup(i)
  <2>1. CASE Authoritative(Gen(i), Target(i))
    BY <1>2, <1>7, <2>1 DEF CheckCleanup, Cleaning
  <2>2. CASE ~ Authoritative(Gen(i), Target(i))
    <3>1. PICK r, key : r = [worker[i] EXCEPT !.pc = "cleared"] /\ key = worker[i].key
      OBVIOUS
    <3>2. worker' = [worker EXCEPT ![i] = r] /\ worker[i].pc = "claimed" /\ key[1] = "DELETE_GENERATION"
      BY <1>7, <2>2, <3>1 DEF CheckCleanup, Step, Copying
    <3>3. r.pc = "cleared" /\ r.key = key
      BY <1>0, <3>1 DEF Has, WorkerFields
    <3>4. ~ Authoritative(key[2], key[3])
      BY <2>2, <3>1 DEF Gen, Target
    <3>5. Unread(key[2], key[3])
      BY <3>4 DEF Authoritative, Unread, Shows, LocationsOf
    <3>6. CleanerTo(i, r)
      BY <3>1, <3>2, <3>3, <3>5 DEF CleanerTo
    <3> QED BY <1>1, <3>2, <3>6
  <2> QED BY <2>1, <2>2
<1>8. CASE ListCleanup(i)
  <2>1. PICK key, todo : key = worker[i].key /\ todo = {Version(l) : l \in Ledgered(key[3], key[2])}
    OBVIOUS
  <2>2. PICK q, p : q = [worker[i] EXCEPT !.pc = "deleting", !.todo = todo] /\ p = [worker[i] EXCEPT !.pc = "failing"]
    OBVIOUS
  <2>3. q.pc = "deleting" /\ q.todo = todo /\ q.key = key /\ p.pc = "failing"
    BY <1>0, <2>1, <2>2 DEF Has, WorkerFields
  <2>4. (worker' = [worker EXCEPT ![i] = q] \/ worker' = [worker EXCEPT ![i] = p]) /\ worker[i].pc = "cleared"
    BY <1>8, <2>1, <2>2 DEF ListCleanup, Gen, Target, Version
  <2>5. CleanerTo(i, q) /\ CleanerTo(i, p)
    BY <2>1, <2>3, <2>4 DEF CleanerTo, Cleaning
  <2> QED BY <1>1, <2>4, <2>5
<1>9. ASSUME NEW v, DeleteVersion(i, v) PROVE \A j \in Workers : CleanerTo(j, worker'[j])
  <2>1. PICK q : q = [worker[i] EXCEPT !.pc = "forgetting", !.victim = v]
    OBVIOUS
  <2>2. q.pc = "forgetting" /\ q.todo = worker[i].todo /\ q.key = worker[i].key
    BY <1>0, <2>1 DEF Has, WorkerFields
  <2>3. (worker' = [worker EXCEPT ![i] = q] \/ Step(i, "failing")) /\ worker[i].pc = "deleting"
    BY <1>9, <2>1 DEF DeleteVersion
  <2>4. CleanerTo(i, q)
    BY <2>2, <2>3 DEF CleanerTo, Cleaning
  <2> QED BY <1>1, <1>2, <2>3, <2>4 DEF Cleaning
<1>10. CASE ForgetVersion(i)
  <2>1. PICK q : q = [worker[i] EXCEPT !.todo = worker[i].todo \ {worker[i].victim}, !.victim = Nil,
                                       !.pc = IF worker[i].todo = {worker[i].victim} THEN "finished" ELSE "deleting"]
    OBVIOUS
  <2>2. q.todo \subseteq worker[i].todo /\ q.key = worker[i].key
    BY <1>0, <2>1 DEF Has, WorkerFields
  <2>3. worker' = [worker EXCEPT ![i] = q] /\ worker[i].pc = "forgetting"
    BY <1>10, <2>1 DEF ForgetVersion
  <2>4. CleanerTo(i, q)
    BY <2>2, <2>3 DEF CleanerTo, Cleaning
  <2> QED BY <1>1, <2>3, <2>4
<1>11. CASE CompleteRepair(i) \/ FailRepair(i) \/ WorkerCrash(i)
  BY <1>3, <1>11 DEF CompleteRepair, FailRepair, WorkerCrash
<1> QED BY <1>4, <1>5, <1>6, <1>7, <1>8, <1>9, <1>10, <1>11 DEF WorkerProgress

\* Every step.
LEMMA StepCleaners ==
  ASSUME PlacedInvariant, [ManagedNext]_managedVars PROVE \A j \in Workers : WorkerSame(j) /\ CleanerTo(j, worker'[j])
<1>0. GenInvariant
  BY DEF PlacedInvariant, ForwardInvariant
<1>1. UNCHANGED worker => \A j \in Workers : WorkerSame(j) /\ CleanerTo(j, worker'[j])
  BY NoWorker DEF CleanerTo, Cleaning
<1>2. ASSUME NEW i \in Workers, WorkerProgress(i) \/ WorkerCrash(i) PROVE \A j \in Workers : WorkerSame(j) /\ CleanerTo(j, worker'[j])
  BY <1>0, <1>2, WorkerSteady, CleanerMoves
<1>3. ASSUME NEW u \in Uploads, MultipartStep(u) PROVE UNCHANGED worker
  BY <1>3 DEF MultipartStep, BeginMultipartActivity, CreateUpload, ConfirmMultipartActivity, WithdrawUpload,
     FinishMultipartActivity, RetireUpload, CreatorCrash, ExpireRegistration, ReconcileMultipartActivity, repairVars
<1>4. ASSUME NEW d \in Drivers, DriverStep(d) PROVE UNCHANGED worker
  BY <1>4 DEF DriverStep, StartPurge, QueryPurge, ReadIntents, ReadTargets, FinalizeBlocked, FinalizeCounts, FinalizeComplete, PurgeTargets,
     MarkPurgeTargetDeleted, MarkPurgeTargetBlocked, DeleteTarget, DriverCrash, repairVars
<1>5. CASE RepairStep
  BY <1>1, <1>2, <1>5 DEF RepairStep, ExpireRepairLease, ExpireCopyIntent, PlacementStep, RaisePlacement,
     AdvancePlacementVersion, SurveyPlacement, Enqueue, OpenAuthoritative, HeadAuthoritative, repairVars
<1> QED BY <1>1, <1>3, <1>4, <1>5 DEF ManagedNext, managedVars, repairVars

\* What a purge lists is of an epoch that is over.
LEMMA StepTargets ==
  ASSUME EpochInvariant, Unmarked, [ManagedNext]_managedVars
  PROVE  \A d \in Drivers : driver'[d].todo \subseteq driver[d].todo \/ ~ Active'
<1>0. Has(driver, Drivers) /\ \A d \in Drivers : Has(driver[d], DriverFields)
  BY DEF EpochInvariant, PurgeShapes, DriverShape
<1>1. ASSUME NEW d \in Drivers, NEW r, driver' = [driver EXCEPT ![d] = r], r.todo \subseteq driver[d].todo
      PROVE  \A e \in Drivers : driver'[e].todo \subseteq driver[e].todo
  BY <1>0, <1>1 DEF Has
<1>2. ASSUME NEW d \in Drivers, driver' = [driver EXCEPT ![d] = IdleDriver] PROVE \A e \in Drivers : driver'[e].todo \subseteq driver[e].todo
  BY <1>1, <1>2 DEF IdleDriver
<1>3. ASSUME NEW d \in Drivers, NextTarget(d) PROVE \A e \in Drivers : driver'[e].todo \subseteq driver[e].todo
  <2>1. PICK q : q = [driver[d] EXCEPT !.pc = IF driver[d].todo \ {driver[d].victim} = {} THEN "locking" ELSE "driving",
                                       !.todo = driver[d].todo \ {driver[d].victim}, !.victim = Nil]
    OBVIOUS
  <2>2. q.todo \subseteq driver[d].todo
    BY <1>0, <2>1 DEF Has, DriverFields
  <2>3. driver' = [driver EXCEPT ![d] = q]
    BY <1>3, <2>1 DEF NextTarget
  <2> QED BY <1>1, <2>2, <2>3
<1>4. ASSUME NEW d \in Drivers, Finalized(d) PROVE \A e \in Drivers : driver'[e].todo \subseteq driver[e].todo
  <2>1. PICK q : q = [driver[d] EXCEPT !.pc = "listing", !.round = 1, !.intents = {}, !.counted = 0]
    OBVIOUS
  <2>2. q.todo = driver[d].todo
    BY <1>0, <2>1 DEF Has, DriverFields
  <2>3. driver' = [driver EXCEPT ![d] = q] \/ driver' = [driver EXCEPT ![d] = IdleDriver]
    BY <1>4, <2>1 DEF Finalized
  <2> QED BY <1>1, <1>2, <2>2, <2>3
<1>5. ASSUME NEW d \in Drivers, NEW p \in Purges, StartPurge(d, p) \/ QueryPurge(d, p) PROVE \A e \in Drivers : driver'[e].todo \subseteq driver[e].todo
  <2>1. PICK q : q = [IdleDriver EXCEPT !.pc = "locking", !.purge = p]
    OBVIOUS
  <2>2. q.todo = {}
    BY <2>1 DEF IdleDriver
  <2>3. driver' = [driver EXCEPT ![d] = q]
    BY <1>5, <2>1 DEF StartPurge, QueryPurge
  <2> QED BY <1>1, <2>2, <2>3
<1>6. ASSUME NEW d \in Drivers, ReadIntents(d) PROVE \A e \in Drivers : driver'[e].todo \subseteq driver[e].todo
  <2>1. PICK s : driver' = [driver EXCEPT ![d] = IdleDriver] \/ driver' = [driver EXCEPT ![d] = [@ EXCEPT !.pc = "scanned", !.intents = s]]
    BY <1>6 DEF ReadIntents
  <2>2. PICK q : q = [driver[d] EXCEPT !.pc = "scanned", !.intents = s]
    OBVIOUS
  <2>3. q.todo = driver[d].todo
    BY <1>0, <2>2 DEF Has, DriverFields
  <2>4. driver' = [driver EXCEPT ![d] = IdleDriver] \/ driver' = [driver EXCEPT ![d] = q]
    BY <2>1, <2>2
  <2> QED BY <1>1, <1>2, <2>3, <2>4
<1>7. ASSUME NEW d \in Drivers, ReadTargets(d) PROVE \A e \in Drivers : driver'[e].todo \subseteq driver[e].todo
  <2>1. PICK q : q = [driver[d] EXCEPT !.pc = "settling"]
    OBVIOUS
  <2>2. q.todo = driver[d].todo
    BY <1>0, <2>1 DEF Has, DriverFields
  <2>3. driver' = [driver EXCEPT ![d] = q] \/ Finalized(d)
    BY <1>7, <2>1 DEF ReadTargets, Drive
  <2> QED BY <1>1, <1>4, <2>2, <2>3
<1>8. ASSUME NEW d \in Drivers, PurgeTargets(d) PROVE \A e \in Drivers : driver'[e].todo \subseteq driver[e].todo \/ ~ Active'
  <2>1. PICK found : found = {l \in ledger : l.purge = driver[d].purge}
    OBVIOUS
  <2>2. driver[d].purge # Nil
    BY <1>8, PurgeAssumption DEF EpochInvariant, DriversStarted, PurgeTargets
  <2>3. UNCHANGED ns
    BY <1>8 DEF PurgeTargets, writeVars
  <2>4. CASE Active
    <3>1. found = {}
      BY <2>1, <2>2, <2>4 DEF Unmarked
    <3>2. {[write |-> l.write, n |-> l.n] : l \in found} = {}
      BY <3>1
    <3>3. PICK q : q = [driver[d] EXCEPT !.pc = IF found = {} THEN "locking" ELSE "driving", !.todo = {}]
      OBVIOUS
    <3>4. driver' = [driver EXCEPT ![d] = q]
      BY <1>8, <2>1, <3>2, <3>3 DEF PurgeTargets
    <3>5. q.todo = {}
      BY <1>0, <3>3 DEF Has, DriverFields
    <3> QED BY <1>1, <3>4, <3>5
  <2> QED BY <2>3, <2>4 DEF Active
<1>9. ASSUME NEW d \in Drivers, NEW v, DeleteTarget(d, v) PROVE \A e \in Drivers : driver'[e].todo \subseteq driver[e].todo
  <2>1. PICK pc : driver' = [driver EXCEPT ![d] = [@ EXCEPT !.pc = pc, !.victim = v]]
    BY <1>9 DEF DeleteTarget
  <2>2. PICK q : q = [driver[d] EXCEPT !.pc = pc, !.victim = v]
    OBVIOUS
  <2>3. q.todo = driver[d].todo
    BY <1>0, <2>2 DEF Has, DriverFields
  <2>4. driver' = [driver EXCEPT ![d] = q]
    BY <2>1, <2>2
  <2> QED BY <1>1, <2>3, <2>4
<1>10. ASSUME NEW d \in Drivers, FinalizeBlocked(d) PROVE \A e \in Drivers : driver'[e].todo \subseteq driver[e].todo
  BY <1>4, <1>10 DEF FinalizeBlocked
<1>15. ASSUME NEW d \in Drivers, FinalizeCounts(d) PROVE \A e \in Drivers : driver'[e].todo \subseteq driver[e].todo
  <2>1. PICK q : q = [driver[d] EXCEPT !.counted = driver[d].counted + 1]
    OBVIOUS
  <2>2. q.todo = driver[d].todo
    BY <1>0, <2>1 DEF Has, DriverFields
  <2>3. driver' = [driver EXCEPT ![d] = q]
    BY <1>15, <2>1 DEF FinalizeCounts
  <2> QED BY <1>1, <2>2, <2>3
<1>11. ASSUME NEW d \in Drivers, FinalizeComplete(d) \/ DriverCrash(d) PROVE \A e \in Drivers : driver'[e].todo \subseteq driver[e].todo
  BY <1>2, <1>11 DEF FinalizeComplete, DriverCrash
<1>12. ASSUME NEW d \in Drivers, MarkPurgeTargetDeleted(d) \/ MarkPurgeTargetBlocked(d) PROVE \A e \in Drivers : driver'[e].todo \subseteq driver[e].todo
  BY <1>3, <1>12 DEF MarkPurgeTargetDeleted, MarkPurgeTargetBlocked
<1>13. ASSUME NEW d \in Drivers, DriverStep(d) PROVE \A e \in Drivers : driver'[e].todo \subseteq driver[e].todo \/ ~ Active'
  BY <1>5, <1>6, <1>7, <1>8, <1>9, <1>10, <1>11, <1>12, <1>13, <1>15 DEF DriverStep
<1>14. ASSUME NEW u \in Uploads, MultipartStep(u) PROVE UNCHANGED driver
  BY <1>14 DEF MultipartStep, BeginMultipartActivity, CreateUpload, ConfirmMultipartActivity, WithdrawUpload,
     FinishMultipartActivity, RetireUpload, CreatorCrash, ExpireRegistration, ReconcileMultipartActivity
<1> QED BY <1>13, <1>14 DEF ManagedNext, managedVars, purgeVars

\* What a write that was begun is about was inserted.
LEMMA BegunInserted ==
  ASSUME GenInvariant, NEW w, IsWrite(w), Begun(w) PROVE w.gen \in Ops /\ put[w.gen].pc \notin Uninserted
<1>1. CASE w.by = "PUT"
  BY <1>1 DEF IsWrite, Begun, Early, CopyKinds
<1>2. CASE w.by # "PUT"
  <2>1. PICK key : key = <<w.by, w.gen, w.backend>> /\ key \in RepairKeys
    BY <1>2 DEF IsWrite
  <2>2. key[2] = w.gen /\ w.gen \in Ops /\ Spent(key, w.token)
    BY <1>2, <2>1, KeyParts DEF Begun
  <2>3. ops[w.gen].state = "COMMITTED"
    BY <2>2 DEF Spent
  <2> QED BY <2>2, <2>3 DEF GenInvariant, NotInserted
<1> QED BY <1>1, <1>2

\* A generation that is current was so before the step, in the same epoch.
LEMMA CurrentBefore ==
  ASSUME PlacedInvariant, GenKept, [ManagedNext]_managedVars, NEW g \in Ops, put[g].pc \notin Uninserted, Current(g)'
  PROVE  Current(g) /\ ns'.epoch = ns.epoch
<1>1. ops'[g].epoch = ops[g].epoch /\ ops[g].epoch \in Nat /\ ns.epoch \in Nat /\ ops[g].epoch <= ns.epoch
  BY DEF GenKept, SameWork, PlacedInvariant, OpsPlaced, EpochInvariant, PurgeShapes
<1>2. Active' /\ ops[g].epoch = ns'.epoch
  BY <1>1 DEF Current
<1>3. SameEpoch
  BY <1>1, <1>2, NamespaceMoves DEF PlacedInvariant, NextEpoch
<1> QED BY <1>1, <1>2, <1>3 DEF Current, Active, SameEpoch

\* So was what a write that was begun is about.
LEMMA WriteCurrentBefore ==
  ASSUME PlacedInvariant, GenKept, [ManagedNext]_managedVars, NEW w, IsWrite(w), Begun(w), Current(w.gen)'
  PROVE  w.gen \in Ops /\ Current(w.gen) /\ ns'.epoch = ns.epoch
<1>1. PICK g : g = w.gen
  OBVIOUS
<1>2. g \in Ops /\ put[g].pc \notin Uninserted
  BY <1>1, BegunInserted DEF PlacedInvariant, ForwardInvariant
<1>3. Current(g)'
  BY <1>1
<1> QED BY <1>1, <1>2, <1>3, CurrentBefore

\* So was what an operation that has ended is about.
LEMMA EndedCurrentBefore ==
  ASSUME PlacedInvariant, GenKept, [ManagedNext]_managedVars, NEW g \in Ops, Terminal(ops[g].state), Current(g)'
  PROVE  Current(g) /\ ns'.epoch = ns.epoch
<1>1. put[g].pc \notin Uninserted
  BY DEF PlacedInvariant, ForwardInvariant, GenInvariant, NotInserted, Terminal
<1> QED BY <1>1, CurrentBefore

\* What may be deleted stays so within an epoch.
LEMMA DeletedKept ==
  ASSUME ClearedKept, ns'.epoch = ns.epoch, NEW g \in Ops, NEW b \in Backends, Deleted(g, b) PROVE Deleted(g, b)'
<1>1. Cleared(repairs', g, b)
  BY DEF ClearedKept, Deleted
<1>2. ASSUME NEW k \in Keys, Shows(auth'[k]), auth'[k].gen = g PROVE b \notin LocationsOf(auth'[k])
  BY <1>2 DEF ClearedKept, Deleted, Unread
<1> QED BY <1>1, <1>2 DEF Deleted, Unread

\* What a worker or a purge is about to delete is over.
LEMMA GoneOver ==
  ASSUME CoverInvariant, NEW v, Gone(v) PROVE Over(v.write)
  BY DEF CoverInvariant, VictimsGone, Marked, Listed, Gone

\* A version that leaves the provider may be deleted.
LEMMA LostKept ==
  ASSUME CopiesInvariant, GenKept, ClearedKept, CopiesMove, [ManagedNext]_managedVars PROVE LostDeleted'
<1>0. CoverInvariant /\ PlacedInvariant
  BY DEF CopiesInvariant, PurgeInvariant
<1>1. SUFFICES ASSUME NEW l \in ledger', NEW g, NEW b \in Backends, OneWay(b), g = l.write.gen, b = l.write.backend, Current(g)',
                      NEW v, v = Version(l), v \notin prov'
               PROVE  Deleted(g, b)'
  BY DEF LostDeleted, Version
<1>2. v.write = l.write /\ v.n = l.n
  BY <1>1 DEF Version
<1>3. ASSUME NEW m \in ledger, m.write = l.write, m.n = l.n PROVE Deleted(g, b)'
  <2>1. IsWrite(m.write) /\ Begun(m.write)
    BY <1>0 DEF CoverInvariant, KnownBegun, Over
  <2>2. Current(m.write.gen)'
    BY <1>1, <1>3
  <2>3. g \in Ops /\ Current(g) /\ ns'.epoch = ns.epoch
    BY <1>0, <1>1, <1>3, <2>1, <2>2, WriteCurrentBefore
  <2>4. Version(m) = v
    BY <1>1, <1>3 DEF Version
  <2>5. CASE v \notin prov
    <3>1. Deleted(g, b)
      BY <1>1, <1>3, <2>3, <2>4, <2>5 DEF CopiesInvariant, LostDeleted
    <3> QED BY <2>3, <3>1, DeletedKept
  <2>6. CASE v \in prov
    <3>1. Gone(v)
      BY <1>1, <2>6 DEF CopiesMove
    <3>2. ASSUME NEW d \in Drivers, v \in driver[d].todo PROVE FALSE
      BY <1>1, <1>2, <2>3, <3>2 DEF CopiesInvariant, TargetsOld
    <3>3. PICK i \in Workers : worker[i].pc = "deleting" /\ v \in worker[i].todo
      BY <3>1, <3>2 DEF Gone
    <3>4. CleanerRight(i)
      BY DEF CopiesInvariant, CleanersRight
    <3>5. worker[i].key[1] = "DELETE_GENERATION" /\ g = worker[i].key[2] /\ b = worker[i].key[3]
      BY <1>1, <1>2, <3>3, <3>4 DEF CleanerRight, Cleaning
    <3>6. Deleted(g, b)
      BY <1>1, <2>3, <3>3, <3>4, <3>5 DEF CleanerRight, Cleaning, Deleted
    <3> QED BY <2>3, <3>6, DeletedKept
  <2> QED BY <2>5, <2>6
<1>4. CASE l.write \in DOMAIN intents \cap DOMAIN child /\ l.n \in 1..child[l.write].n /\ prov \subseteq prov'
  BY <1>1, <1>4 DEF CopiesInvariant, CountedHeld, Version
<1> QED BY <1>1, <1>3, <1>4 DEF CopiesMove, Entered

\* A write keeps at the provider what its row counts until its intent is settled.
LEMMA CountedKept == ASSUME CopiesInvariant, CopiesMove PROVE CountedHeld'
<1>1. SUFFICES ASSUME NEW w \in DOMAIN intents' \cap DOMAIN child', NEW n \in 1..child'[w].n,
                      NEW v, v = [write |-> w, n |-> n], v \notin prov'
               PROVE  FALSE
  BY DEF CountedHeld
<1>2. w \in DOMAIN intents \cap DOMAIN child /\ child'[w].n = child[w].n
  BY <1>1 DEF CopiesMove, Counts
<1>3. v \in prov /\ v.write = w
  BY <1>1, <1>2 DEF CopiesInvariant, CountedHeld
<1>4. Gone(v)
  BY <1>1, <1>3 DEF CopiesMove
<1>5. Over(v.write)
  BY <1>4, GoneOver DEF CopiesInvariant, PurgeInvariant
<1> QED BY <1>2, <1>3, <1>5 DEF Over

\* A worker at a cleanup stays right about it.
LEMMA CleanersKept ==
  ASSUME CopiesInvariant, GenKept, ClearedKept, [ManagedNext]_managedVars PROVE CleanersRight'
<1>0. PlacedInvariant
  BY DEF CopiesInvariant
<1>1. SUFFICES ASSUME NEW i \in Workers PROVE CleanerRight(i)'
  BY DEF CleanersRight
<1>2. WorkerSame(i) /\ CleanerTo(i, worker'[i]) /\ CleanerRight(i)
  BY <1>0, StepCleaners DEF CopiesInvariant, CleanersRight
<1>3. PICK key : key = worker'[i].key
  OBVIOUS
<1>4. ASSUME worker'[i].pc # "idle", key[1] = "DELETE_GENERATION", Current(key[2])', OneWay(key[3])
      PROVE  /\ key[2] \in Ops /\ key[3] \in Backends /\ ns'.epoch = ns.epoch /\ Current(key[2])
             /\ Cleared(repairs, key[2], key[3])
  <2>1. CASE worker[i].pc # "idle" /\ key = worker[i].key
    <3>1. key \in RepairKeys /\ Terminal(ops[key[2]].state)
      BY <1>0, <2>1 DEF PlacedInvariant, ForwardInvariant, GenInvariant, TokensSpent, WorkKnown
    <3>2. key[2] \in Ops /\ key[3] \in Backends
      BY <3>1, KeyParts
    <3>3. Current(key[2]) /\ ns'.epoch = ns.epoch
      BY <1>0, <1>4, <3>1, <3>2, EndedCurrentBefore
    <3> QED BY <1>2, <1>4, <2>1, <3>2, <3>3 DEF CleanerRight
  <2>2. CASE key \in RepairKeys /\ repairs[key].state \notin {"NONE", "WAITING_CUTOVER"}
    <3>1. key = <<"DELETE_GENERATION", key[2], key[3]>> /\ key[2] \in Ops /\ key[3] \in Backends
      BY <1>4, <2>2, KeyParts
    <3>2. Terminal(ops[key[2]].state)
      BY <1>0, <2>2 DEF PlacedInvariant, WorkKnown
    <3>3. Current(key[2]) /\ ns'.epoch = ns.epoch
      BY <1>0, <1>4, <3>1, <3>2, EndedCurrentBefore
    <3>4. Cleared(repairs, key[2], key[3])
      BY <1>4, <2>2, <3>1 DEF Cleared
    <3> QED BY <3>1, <3>3, <3>4
  <2> QED BY <1>2, <1>3, <1>4, <2>1, <2>2 DEF WorkerSame
<1>5. ASSUME worker'[i].pc # "idle", key[1] = "DELETE_GENERATION", Current(key[2])', OneWay(key[3]) PROVE Cleared(repairs', key[2], key[3])
  BY <1>4, <1>5 DEF ClearedKept
<1>6. ASSUME worker'[i].pc \in Cleaning
      PROVE  worker'[i].pc # "idle" /\ worker[i].key = key /\ key[1] = "DELETE_GENERATION" /\ (Current(key[2]) /\ OneWay(key[3]) => Unread(key[2], key[3]))
  BY <1>2, <1>3, <1>6 DEF CleanerTo, CleanerRight, Cleaning
<1>7. ASSUME worker'[i].pc \in Cleaning, Current(key[2])', OneWay(key[3]) PROVE Unread(key[2], key[3])'
  <2>1. PICK g \in Ops, b \in Backends : g = key[2] /\ b = key[3]
    BY <1>4, <1>6, <1>7
  <2>2. Deleted(g, b) /\ ns'.epoch = ns.epoch
    BY <1>4, <1>6, <1>7, <2>1 DEF Deleted
  <2>3. Deleted(g, b)'
    BY <2>2, DeletedKept
  <2> QED BY <2>1, <2>3 DEF Deleted
<1>8. ASSUME worker'[i].pc \in {"deleting", "forgetting"}, NEW v \in worker'[i].todo PROVE v.write.gen = key[2] /\ v.write.backend = key[3]
  <2>1. worker[i].key = key
    BY <1>6, <1>8 DEF Cleaning
  <2>2. CASE worker[i].pc \in {"deleting", "forgetting"} /\ v \in worker[i].todo
    BY <1>2, <2>1, <2>2 DEF CleanerRight
  <2>3. ASSUME NEW l \in Ledgered(key[3], key[2]), v = Version(l) PROVE v.write.gen = key[2] /\ v.write.backend = key[3]
    BY <2>3 DEF Ledgered, Version
  <2> QED BY <1>2, <1>8, <2>1, <2>2, <2>3 DEF CleanerTo
<1> QED BY <1>3, <1>5, <1>6, <1>7, <1>8 DEF CleanerRight

\* What a purge is about to delete stays old, and nothing is marked in the next epoch.
LEMMA TargetsKept ==
  ASSUME CopiesInvariant, GenKept, CopiesMove, [ManagedNext]_managedVars PROVE TargetsOld' /\ Unmarked'
<1>0. PlacedInvariant /\ EpochInvariant /\ CoverInvariant
  BY DEF CopiesInvariant, PurgeInvariant, PlacedInvariant
<1>1. ASSUME NEW d \in Drivers, NEW v \in driver'[d].todo, Current(v.write.gen)' PROVE FALSE
  <2>1. v \in driver[d].todo
    BY <1>0, <1>1, StepTargets DEF CopiesInvariant, Current
  <2>2. Over(v.write)
    BY <1>0, <2>1 DEF CoverInvariant, VictimsGone, Marked, Listed
  <2>3. Current(v.write.gen)
    BY <1>0, <1>1, <2>2, WriteCurrentBefore DEF Over
  <2> QED BY <2>1, <2>3 DEF CopiesInvariant, TargetsOld
<1>2. ASSUME NEW l \in ledger', Active' PROVE l.purge = Nil
  <2>1. CASE NextEpoch
    <3>1. PICK d \in Drivers : FinalizeComplete(d) /\ driver[d].purge = ns.purge
      BY <2>1 DEF NextEpoch
    <3>2. driver[d].pc = "settling" /\ ledger' = ledger
      BY <3>1 DEF FinalizeComplete
    <3> QED BY <1>2, <3>1, <3>2 DEF CopiesInvariant, PurgeInvariant, SettledEmpty
  <2>2. CASE Active
    BY <1>2, <2>2 DEF CopiesMove, Entered, CopiesInvariant, Unmarked
  <2> QED BY <1>0, <1>2, <2>1, <2>2, NamespaceMoves DEF SameEpoch, Active
<1> QED BY <1>1, <1>2 DEF TargetsOld, Unmarked

\* No row of the ledger goes while an authority row shows its location.
LEMMA ShownStays ==
  ASSUME CopiesInvariant, CopiesMove, Active, NEW k \in Keys, Shows(auth'[k]), NEW g, g = auth'[k].gen,
         NEW b, OneWay(b), b \in LocationsOf(auth'[k]), Ledgered(b, g) # {}
  PROVE  \E l \in ledger' : l.write.backend = b /\ l.write.gen = g
<1>1. PICK m \in ledger : m.write.backend = b /\ m.write.gen = g
  BY DEF Ledgered
<1>2. SUFFICES ASSUME UNCHANGED <<auth, ns>>,
                      \/ \E i \in Workers : worker[i].pc = "forgetting" /\ worker[i].victim.write = m.write
                      \/ \E d \in Drivers : driver[d].pc = "deleted" /\ driver[d].victim.write = m.write
               PROVE  FALSE
  BY <1>1 DEF CopiesMove, Left
<1>3. Current(g) /\ ~ Unread(g, b)
  <2>1. Shows(auth[k]) /\ auth[k].gen = g /\ b \in LocationsOf(auth[k])
    BY <1>2
  <2> QED BY <2>1, ShownEnded DEF CopiesInvariant, Current, Unread
<1>4. ASSUME NEW i \in Workers, worker[i].pc = "forgetting", worker[i].victim.write = m.write PROVE FALSE
  <2>1. worker[i].victim \in worker[i].todo
    BY <1>4 DEF CopiesInvariant, PurgeInvariant, CoverInvariant, VictimsGone, Marked
  <2>2. CleanerRight(i)
    BY DEF CopiesInvariant, CleanersRight
  <2>3. worker[i].key[2] = g /\ worker[i].key[3] = b
    BY <1>1, <1>4, <2>1, <2>2 DEF CleanerRight
  <2> QED BY <1>3, <1>4, <2>2, <2>3 DEF CleanerRight, Cleaning
<1>5. ASSUME NEW d \in Drivers, driver[d].pc = "deleted", driver[d].victim.write = m.write PROVE FALSE
  <2>1. driver[d].victim \in driver[d].todo
    BY <1>5 DEF CopiesInvariant, PurgeInvariant, CoverInvariant, VictimsGone, Marked
  <2> QED BY <1>1, <1>3, <1>5, <2>1 DEF CopiesInvariant, TargetsOld
<1> QED BY <1>2, <1>4, <1>5

\* What a row calls ready stays in the ledger.
LEMMA ReadyStays ==
  ASSUME CopiesInvariant, ReadyKept, CopiesMove, [ManagedNext]_managedVars PROVE ReadyLedgered'
<1>1. SUFFICES ASSUME Active', NEW k \in Keys, NEW b \in Backends, Shows(auth'[k]), OneWay(b), ReadyAt(auth'[k], b)
               PROVE  \E l \in ledger' : l.write.backend = b /\ l.write.gen = auth'[k].gen
  BY DEF ReadyLedgered, Ledgered
<1>2. ~ NextEpoch
  BY <1>1 DEF NextEpoch, FinalizeComplete, NoAuthority, Shows
<1>3. Active
  BY <1>1, <1>2, NamespaceMoves DEF CopiesInvariant, PlacedInvariant, SameEpoch, Active
<1>4. ReadyFrom(auth[k], auth'[k])
  BY <1>1 DEF ReadyKept
<1>5. Ledgered(b, auth'[k].gen) # {}
  BY <1>1, <1>3, <1>4 DEF ReadyFrom, ReadyAt, CopiesInvariant, ReadyLedgered
<1> QED BY <1>1, <1>3, <1>5, ShownStays DEF LocationsOf, ReadyAt

\* Every step.
LEMMA CopiesStep == ASSUME CopiesInvariant, [ManagedNext]_managedVars PROVE CopiesInvariant'
<1>0. PurgeInvariant /\ PlacedInvariant /\ CoverInvariant /\ GenInvariant
  BY DEF CopiesInvariant, PurgeInvariant, CoverInvariant
<1>1. PurgeInvariant' /\ PlacedInvariant' /\ ClearedKept /\ ReadyKept
  BY <1>0, PurgeStep, PlacedStep DEF PlacedKept
<1>2. GenInvariant' /\ GenKept
  BY <1>0, GenStep
<1>3. WritesKept
  BY <1>0, <1>2, StepWrites
<1>4. CopiesMove
  BY <1>0, <1>3, StepCopies
<1>5. LostDeleted' /\ CountedHeld' /\ CleanersRight' /\ TargetsOld' /\ Unmarked' /\ ReadyLedgered'
  BY <1>1, <1>2, <1>4, LostKept, CountedKept, CleanersKept, TargetsKept, ReadyStays
<1> QED BY <1>1, <1>5 DEF CopiesInvariant

\* The initial state: nothing is written and no one is at work.
LEMMA CopiesInitially == ASSUME ManagedInit PROVE CopiesInvariant
<1>1. /\ intents = <<>> /\ ledger = {} /\ auth = [k \in Keys |-> Nil]
      /\ driver = [d \in Drivers |-> IdleDriver] /\ worker = [i \in Workers |-> IdleWorker]
  BY DEF ManagedInit, Init, RepairInit, PurgeInit
<1>2. DOMAIN intents = {} /\ IdleDriver.todo = {} /\ IdleWorker.pc = "idle"
  BY <1>1 DEF IdleDriver, IdleWorker
<1>3. LostDeleted /\ CountedHeld /\ TargetsOld /\ Unmarked /\ ReadyLedgered
  BY <1>1, <1>2 DEF LostDeleted, CountedHeld, TargetsOld, Unmarked, ReadyLedgered, Shows
<1>4. CleanersRight
  BY <1>1, <1>2 DEF CleanersRight, CleanerRight, Cleaning
<1> QED BY <1>3, <1>4, PurgeInitially, PlacedInitially DEF CopiesInvariant

\* What the ledger has at a location that is read is at the provider.
LEMMA ReadHeld ==
  ASSUME CopiesInvariant, Active, NEW k \in Keys, Shows(auth[k]), NEW b \in Backends, OneWay(b), b \in LocationsOf(auth[k]),
         Ledgered(b, auth[k].gen) # {}
  PROVE  Held(b, auth[k].gen) # {}
<1>1. PICK l \in ledger : l.write.backend = b /\ l.write.gen = auth[k].gen
  BY DEF Ledgered
<1>2. Current(l.write.gen)
  BY <1>1, ShownEnded DEF CopiesInvariant, Current
<1>3. ~ Unread(l.write.gen, l.write.backend)
  BY <1>1 DEF Unread
<1>4. Version(l) \in prov
  BY <1>1, <1>2, <1>3 DEF CopiesInvariant, LostDeleted, Deleted
<1>5. Version(l).write = l.write
  BY DEF Version
<1> QED BY <1>1, <1>4, <1>5 DEF Held

(* ReadyCopiesPresent for every number of requests, workers, purges and backends and
   every sequence of placements: what the authority calls READY at a backend that the
   placements do not come back to is held there and ledgered, whatever order commits,
   repairs, cutovers, cleanups and purges come in.  The first half of OneWay is needed:
   a cleanup that was released for a location deletes what a later placement has
   written there again (execute_repair lists what the ledger has by then, and
   complete_repair released it).  The second half is what this argument needs. *)
THEOREM ReadyCopiesKept == ManagedSpec => []ReadyCopiesPresent
<1>1. ASSUME CopiesInvariant PROVE ReadyCopiesPresent
  <2>1. SUFFICES ASSUME NEW k \in Keys, NEW b \in Backends, Active, Shows(auth[k]), OneWay(b), ReadyAt(auth[k], b)
                 PROVE  Held(b, auth[k].gen) # {} /\ Ledgered(b, auth[k].gen) # {}
    BY DEF ReadyCopiesPresent, Shows, ReadyAt
  <2>2. Ledgered(b, auth[k].gen) # {}
    BY <1>1, <2>1 DEF CopiesInvariant, ReadyLedgered
  <2> QED BY <1>1, <2>1, <2>2, ReadHeld DEF LocationsOf, ReadyAt
<1>2. ManagedInit => CopiesInvariant
  BY CopiesInitially
<1>3. CopiesInvariant /\ [ManagedNext]_managedVars => CopiesInvariant'
  BY CopiesStep
<1> QED BY <1>1, <1>2, <1>3, PTL DEF ManagedSpec
=============================================================================
