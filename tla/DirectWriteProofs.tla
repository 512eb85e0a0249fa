-------------------------- MODULE DirectWriteProofs --------------------------
(***************************************************************************)
(* The type invariant of DirectWrite, and machine-checked proof that an    *)
(* operation recorded as PROVEN_ABORTED has no version at the provider,    *)
(* for any number of attempts, reconcilers and failures and any timing     *)
(* constants that satisfy DirectWriteAssumption.                           *)
(*                                                                         *)
(* The proof follows the conjuncts of IInv: one lemma per conjunct, one    *)
(* step per action.  DirectWriteInvariant says what each conjunct is for.  *)
(* Two further invariants, PlainInv and ExactInv, show that a committed    *)
(* version survives, and with it that the write implements AtomicWrite.    *)
(***************************************************************************)
EXTENDS DirectWriteInvariant, WellFoundedInduction, TLAPS

-----------------------------------------------------------------------------
(* Operators.                                                               *)

NatLess == OpToRel(<, Nat)

LEMMA NatLessPairs == \A x, y \in Nat : <<x, y>> \in NatLess <=> x < y
BY DEF NatLess, OpToRel

\* A nonempty set of naturals has a least element.
LEMMA NatMinimum ==
    ASSUME NEW T \in SUBSET Nat, T # {}
    PROVE  \E x \in T : \A y \in T : x <= y
<1>1. IsWellFoundedOn(NatLess, Nat)
  BY NatLessThanWellFounded DEF NatLess
<1>2. PICK x \in T : \A y \in T : ~(<<y, x>> \in NatLess)
  BY <1>1, WFMin
<1>3. \A y \in T : ~(y < x)
  BY <1>2, NatLessPairs
<1> QED BY <1>3

\* Latest() picks the newest version: a nonempty bounded set of version
\* numbers has a greatest element.
LEMMA LatestMember ==
    ASSUME NEW n \in Nat, NEW S \in SUBSET (1..n), S # {}
    PROVE  Latest(S) \in S
<1> DEFINE T == {m \in Nat : \E i \in S : m = n - i}
<1>1. PICK s : s \in S
  OBVIOUS
<1>2. n - s \in T
  BY <1>1
<1>3. PICK x \in T : \A y \in T : x <= y
  <2> HIDE DEF T
  <2>1. T \in SUBSET Nat
    BY DEF T
  <2> QED BY <1>2, <2>1, NatMinimum
<1>4. PICK i \in S : x = n - i
  BY <1>3
<1>5. ASSUME NEW j \in S PROVE j <= i
  <2>1. n - j \in T
    OBVIOUS
  <2>2. x <= n - j
    BY <1>3, <2>1
  <2> HIDE DEF T
  <2> QED BY <1>4, <2>2
<1> QED BY <1>4, <1>5 DEF Latest

-----------------------------------------------------------------------------
(* Typing.  First the operators the actions are built from.                 *)

LEMMA RowOperators ==
    ASSUME NEW r \in Rows(Reconcilers, Nat)
    PROVE  /\ \A s \in OperationStates : Moved(r, s) \in Rows(Reconcilers, Nat)
           /\ \A v \in Nat : \A h \in BOOLEAN :
                MovedToCommitted(r, v, h) \in Rows(Reconcilers, Nat)
           /\ \A u \in BOOLEAN : Opened(r, u) \in Rows(Reconcilers, Nat)
           /\ \A n \in 0..Window : Launched(r, n) \in Rows(Reconcilers, Nat)
           /\ \A n \in Nat : AbsenceStored(r, n) \in Rows(Reconcilers, Nat)
           /\ \A o \in Reconcilers : Claimed(r, o) \in Rows(Reconcilers, Nat)
           /\ RowTick(r) \in Rows(Reconcilers, Nat)
<1>1. \A s \in OperationStates : Moved(r, s) \in Rows(Reconcilers, Nat)
  <2>1. 0 \in 0..JournalLease
    BY JournalAssumption
  <2> QED BY <2>1 DEF Rows, Moved
<1>2. \A v \in Nat : \A h \in BOOLEAN : MovedToCommitted(r, v, h) \in Rows(Reconcilers, Nat)
  <2>1. Moved(r, "Committed") \in Rows(Reconcilers, Nat)
    BY <1>1 DEF OperationStates
  <2> QED BY <2>1 DEF Rows, MovedToCommitted
<1>3. \A u \in BOOLEAN : Opened(r, u) \in Rows(Reconcilers, Nat)
  BY DEF Rows, Opened, OperationStates
<1>4. ASSUME NEW n \in 0..Window PROVE Launched(r, n) \in Rows(Reconcilers, Nat)
  <2>1. (IF n > r.window THEN n ELSE r.window) \in 0..Window
    BY JournalAssumption DEF Rows
  <2> QED BY <2>1 DEF Rows, Launched
<1>5. \A n \in Nat : AbsenceStored(r, n) \in Rows(Reconcilers, Nat)
  BY JournalAssumption DEF Rows, AbsenceStored
<1>6. \A o \in Reconcilers : Claimed(r, o) \in Rows(Reconcilers, Nat)
  <2>1. JournalLease \in 0..JournalLease
    BY JournalAssumption
  <2> QED BY <2>1 DEF Rows, Claimed
<1>7. RowTick(r) \in Rows(Reconcilers, Nat)
  <2> DEFINE age == IF r.absence = NoAbsence \/ r.absence = Separation
                    THEN r.absence ELSE r.absence + 1
  <2>1. Decrement(r.window) \in 0..Window /\ Decrement(r.lease) \in 0..JournalLease
    BY JournalAssumption DEF Rows, Decrement
  <2>2. age \in Nat \cup {NoAbsence}
    BY JournalAssumption DEF Rows, NoAbsence
  <2> QED BY <2>1, <2>2 DEF Rows, RowTick
<1> QED BY <1>1, <1>2, <1>3, <1>4, <1>5, <1>6, <1>7

LEMMA GotoType ==
    ASSUME TypeOK, NEW a \in Actors, NEW pc \in Pcs, Goto(a, pc)
    PROVE  work' \in [Actors -> Works]
BY DEF TypeOK, Goto, Works

LEMMA IdleType == \A pc \in Pcs : [Idle EXCEPT !.pc = pc] \in Works
BY DEF Idle, Works, OperationStates

LEMMA ReturnType ==
    ASSUME TypeOK, NEW a \in Actors, Return(a)
    PROVE  work' \in [Actors -> Works]
<1>1. Returned(a) \in Works
  BY IdleType DEF Returned, Pcs
<1> QED BY <1>1 DEF TypeOK, Return

LEMMA ErrorType ==
    ASSUME TypeOK, NEW a \in Actors, Error(a)
    PROVE  work' \in [Actors -> Works] /\ sink' \in Sinks
<1>1. CASE a = Sink /\ work[a].from = "Completing"
  <2>1. work' \in [Actors -> Works]
    BY <1>1, GotoType DEF Error, Pcs
  <2>2. sink' \in Sinks
    BY <1>1 DEF Error, TypeOK, Sinks
  <2> QED BY <2>1, <2>2
<1>2. CASE ~(a = Sink /\ work[a].from = "Completing")
  BY <1>2, ReturnType DEF Error, TypeOK
<1> QED BY <1>1, <1>2

LEMMA FlightType ==
    ASSUME TypeOK, NEW a \in Actors, NEW v \in Nat,
           NEW kind \in {"create", "put", "complete", "rewrite", "delete"}, Send(kind, a, v)
    PROVE  flights' \subseteq Flights
<1>1. Flight(kind, a, v) \in Flights
  BY DirectWriteAssumption DEF Flight, Flights, TypeOK, Sinks
<1> QED BY <1>1 DEF Send, TypeOK

LEMMA UnawaitedType ==
    ASSUME TypeOK, NEW a \in Actors
    PROVE  Unawaited(a) \subseteq Flights
BY DEF Unawaited, TypeOK, Flights

LEMMA IdsType ==
    TypeOK => /\ Ids \in SUBSET (1..minted) /\ FullIds \in SUBSET (1..minted)
              /\ minted \in Nat
BY DirectWriteAssumption DEF TypeOK, Ids, FullIds

LEMMA ProbeFindsType ==
    ASSUME TypeOK, NEW a \in Actors, ProbeFinds(a)
    PROVE  work' \in [Actors -> Works]
<1>1. Ids \in SUBSET (1..minted)
  BY IdsType
<1>2. FullIds \in SUBSET (1..minted)
  BY IdsType
<1>3. minted \in Nat
  BY IdsType
<1>4. Ids # {} => Latest(Ids) \in Ids
  BY <1>1, <1>3, LatestMember, Zenon
<1>5. FullIds # {} => Latest(FullIds) \in FullIds
  BY <1>2, <1>3, LatestMember, Zenon
<1>6. Ids \subseteq Nat /\ FullIds \subseteq Nat
  BY <1>1, <1>2, <1>3
<1>7. ProbeCommitted => ProbeVersion \in Nat
  BY <1>4, <1>5, <1>6 DEF ProbeCommitted, ProbeVersion
<1>8. ProbeRedundant \in SUBSET Nat
  BY <1>6 DEF ProbeRedundant
<1>9. ProbePartial => Latest(Ids) \in Nat
  BY <1>4, <1>6 DEF ProbePartial
<1> QED BY <1>7, <1>8, <1>9 DEF ProbeFinds, TypeOK, Works, Pcs

LEMMA LandVersions ==
    ASSUME TypeOK, NEW f \in flights, Land(f)
    PROVE  versions' \subseteq [id : 1..minted', full : BOOLEAN]
<1>1. minted \in Nat
  BY IdsType
<1>2. minted + 1 \in 1..(minted + 1) /\ 1..minted \subseteq 1..(minted + 1)
  BY <1>1
<1>3. ASSUME NEW full \in BOOLEAN, NewVersion(full)
      PROVE  versions' \subseteq [id : 1..minted', full : BOOLEAN]
  BY <1>2, <1>3 DEF NewVersion, TypeOK
<1>4. CASE UNCHANGED <<versions, minted>>
  BY <1>4 DEF TypeOK
<1>5. CASE versions' = {v \in versions : v.id # f.version} /\ UNCHANGED minted
  BY <1>5 DEF TypeOK
<1> QED BY <1>3, <1>4, <1>5 DEF Land

LEMMA TickFlights ==
    ASSUME TypeOK
    PROVE  {[f EXCEPT !.left = @ - 1] : f \in {g \in flights : g.left > 1}} \subseteq Flights
<1> SUFFICES ASSUME NEW f \in flights, f.left > 1
             PROVE  [f EXCEPT !.left = @ - 1] \in Flights
  OBVIOUS
<1>1. f \in Flights
  BY DEF TypeOK
<1>2. f.left - 1 \in 1..FlightTime
  BY <1>1, DirectWriteAssumption DEF Flights
<1> QED BY <1>1, <1>2 DEF Flights

LEMMA TypeStep == ASSUME TypeOK, [Next]_vars PROVE TypeOK'
<1>0. Sink \in Actors /\ Request \in Actors /\ Reconcilers \subseteq Actors
  BY DEF Actors, Reconcilers
<1>1. CASE SinkLaunch
  <2>1. Stall \in 0..Stall /\ (sink.attempt < MaxAttempts => sink.attempt + 1 \in 0..MaxAttempts)
    BY <1>0, <1>1, DirectWriteAssumption DEF SinkLaunch, Sinks, TypeOK
  <2>2. sink' \in Sinks
    BY <1>0, <1>1, <2>1 DEF SinkLaunch, Sinks, TypeOK
  <2>3. work' \in [Actors -> Works]
    BY <1>0, <1>1, GotoType, ReturnType DEF SinkLaunch, Pcs
  <2> QED BY <1>1, <2>1, <2>2, <2>3 DEF SinkLaunch, TypeOK, provider
<1>2. CASE SinkRecordLaunch
  <2>1. Window - (Stall - sink.stall) \in 0..Window
    BY <1>0, <1>2, JournalAssumption, DirectWriteAssumption DEF SinkRecordLaunch, TypeOK, Sinks
  <2>2. row' \in Rows(Reconcilers, Nat)
    BY <1>0, <1>2, <2>1, RowOperators DEF SinkRecordLaunch, TypeOK
  <2>3. work' \in [Actors -> Works]
    BY <1>0, <1>2, GotoType, ReturnType DEF SinkRecordLaunch, Pcs
  <2> QED BY <1>2, <2>1, <2>2, <2>3 DEF SinkRecordLaunch, TypeOK, provider
<1>3. CASE SinkCallCreate
  <2>1. work' \in [Actors -> Works]
    BY <1>0, <1>3, GotoType, ReturnType DEF SinkCallCreate, Pcs, TypeOK
  <2>2. flights' \subseteq Flights
    BY <1>0, <1>3, FlightType DEF SinkCallCreate, TypeOK
  <2> QED BY <1>3, <2>1, <2>2 DEF SinkCallCreate, TypeOK, provider
<1>4. CASE SinkCreated
  <2>1. work' \in [Actors -> Works]
    BY <1>0, <1>4, GotoType, ReturnType DEF SinkCreated, Pcs
  <2> QED BY <1>4, <2>1 DEF SinkCreated, TypeOK, provider
<1>5. CASE SinkSetOpen
  <2>1. row' \in Rows(Reconcilers, Nat)
    BY <1>0, <1>5, RowOperators DEF SinkSetOpen, TypeOK
  <2>2. sink' \in Sinks
    BY <1>0, <1>5 DEF SinkSetOpen, TypeOK, Sinks, OperationStates
  <2>3. work' \in [Actors -> Works]
    BY <1>0, <1>5, GotoType, ReturnType DEF SinkSetOpen, Pcs
  <2> QED BY <1>5, <2>1, <2>2, <2>3 DEF SinkSetOpen, TypeOK, provider
<1>6. CASE SinkUploadPart
  <2>1. row' \in Rows(Reconcilers, Nat)
    BY <1>0, <1>6, JournalAssumption, RowOperators DEF SinkUploadPart, TypeOK
  <2>2. work' \in [Actors -> Works]
    BY <1>0, <1>6, ReturnType DEF SinkUploadPart, TypeOK
  <2> QED BY <1>6, <2>1, <2>2 DEF SinkUploadPart, TypeOK, provider
<1>7. CASE SinkVerify
  <2>1. work' \in [Actors -> Works]
    BY <1>0, <1>7, GotoType, ReturnType DEF SinkVerify, Pcs
  <2> QED BY <1>7, <2>1 DEF SinkVerify, TypeOK, provider
<1>8. CASE SinkOpenSingle
  <2>1. row' \in Rows(Reconcilers, Nat)
    BY <1>0, <1>8, RowOperators DEF SinkOpenSingle, TypeOK
  <2>2. sink' \in Sinks
    BY <1>0, <1>8 DEF SinkOpenSingle, TypeOK, Sinks, OperationStates
  <2>3. work' \in [Actors -> Works]
    BY <1>0, <1>8, GotoType, ReturnType DEF SinkOpenSingle, Pcs
  <2> QED BY <1>8, <2>1, <2>2, <2>3 DEF SinkOpenSingle, TypeOK, provider
<1>9. CASE SinkStartCompletion
  <2>1. row' \in Rows(Reconcilers, Nat)
    BY <1>0, <1>9, RowOperators DEF SinkStartCompletion, TypeOK, OperationStates
  <2>2. sink' \in Sinks
    BY <1>0, <1>9 DEF SinkStartCompletion, TypeOK, Sinks, OperationStates
  <2>3. work' \in [Actors -> Works]
    BY <1>0, <1>9, GotoType, ReturnType DEF SinkStartCompletion, Pcs
  <2> QED BY <1>9, <2>1, <2>2, <2>3 DEF SinkStartCompletion, TypeOK, provider
<1>10. CASE SinkCallPut
  <2>1. sink' \in Sinks
    BY <1>0, <1>10, ErrorType DEF SinkCallPut, TypeOK
  <2>2. work' \in [Actors -> Works]
    BY <1>0, <1>10, GotoType, ErrorType DEF SinkCallPut, Pcs
  <2>3. flights' \subseteq Flights
    BY <1>0, <1>10, FlightType DEF SinkCallPut, TypeOK
  <2> QED BY <1>10, <2>1, <2>2, <2>3 DEF SinkCallPut, TypeOK, provider
<1>11. CASE SinkCallComplete
  <2>1. sink' \in Sinks
    BY <1>0, <1>11, ErrorType DEF SinkCallComplete, TypeOK
  <2>2. work' \in [Actors -> Works]
    BY <1>0, <1>11, GotoType, ErrorType, ProbeFindsType DEF SinkCallComplete, Pcs
  <2>3. flights' \subseteq Flights
    BY <1>0, <1>11, FlightType DEF SinkCallComplete, TypeOK
  <2> QED BY <1>11, <2>1, <2>2, <2>3 DEF SinkCallComplete, TypeOK, provider
<1>12. CASE SinkCommitted
  <2>1. work' \in [Actors -> Works]
    BY <1>0, <1>12 DEF SinkCommitted, TypeOK, Works, Pcs
  <2> QED BY <1>12, <2>1 DEF SinkCommitted, TypeOK, provider
<1>13. CASE SinkRejected
  <2>1. work' \in [Actors -> Works]
    BY <1>0, <1>13, GotoType, ReturnType DEF SinkRejected, Pcs
  <2>2. flights' \subseteq Flights
    BY <1>0, <1>13 DEF SinkRejected, TypeOK
  <2> QED BY <1>13, <2>1, <2>2 DEF SinkRejected, TypeOK, provider
<1>14. CASE SinkMarkUnknown
  <2>1. row' \in Rows(Reconcilers, Nat)
    BY <1>0, <1>14, RowOperators DEF SinkMarkUnknown, TypeOK, OperationStates
  <2>2. sink' \in Sinks
    BY <1>0, <1>14 DEF SinkMarkUnknown, TypeOK, Sinks, OperationStates
  <2>3. work' \in [Actors -> Works]
    BY <1>0, <1>14, GotoType, ReturnType DEF SinkMarkUnknown, Pcs
  <2> QED BY <1>14, <2>1, <2>2, <2>3 DEF SinkMarkUnknown, TypeOK, provider
<1>15. CASE SinkReprobe
  <2>1. row' \in Rows(Reconcilers, Nat)
    BY <1>0, <1>15, RowOperators DEF SinkReprobe, TypeOK, OperationStates
  <2>2. sink' \in Sinks
    BY <1>0, <1>15, <2>1 DEF SinkReprobe, TypeOK, Sinks, Rows
  <2>3. [Idle EXCEPT !.pc = "probe", !.from = "CommitUnknown"] \in Works
    BY <1>0, <1>15 DEF SinkReprobe, Idle, Works, Pcs, OperationStates
  <2>4. work' \in [Actors -> Works]
    BY <1>0, <1>15, GotoType, ReturnType, <2>3 DEF SinkReprobe, Pcs, TypeOK
  <2> QED BY <1>15, <2>1, <2>2, <2>3, <2>4 DEF SinkReprobe, TypeOK, provider
<1>16. CASE SinkAbort
  <2>1. row' \in Rows(Reconcilers, Nat)
    BY <1>0, <1>16, RowOperators DEF SinkAbort, TypeOK, OperationStates
  <2>2. sink' \in Sinks
    BY <1>0, <1>16 DEF SinkAbort, TypeOK, Sinks, OperationStates
  <2>3. "Aborting" \in OperationStates /\ "cleanup" \in Pcs
    BY <1>0, <1>16 DEF SinkAbort, OperationStates, Pcs
  <2>4. work' \in [Actors -> Works]
    BY <1>0, <1>16, <2>3 DEF SinkAbort, TypeOK, Works
  <2> QED BY <1>16, <2>1, <2>2, <2>3, <2>4 DEF SinkAbort, TypeOK, provider
<1>17. CASE SinkAbortFinished
  <2>1. work' \in [Actors -> Works]
    BY <1>0, <1>17, GotoType, ReturnType DEF SinkAbortFinished, Pcs
  <2> QED BY <1>17, <2>1 DEF SinkAbortFinished, TypeOK, provider
<1>18. CASE SinkRelease
  <2>1. work' \in [Actors -> Works]
    BY <1>0, <1>18, GotoType, ReturnType DEF SinkRelease, Pcs
  <2>2. route' \in Routes
    BY <1>0, <1>18 DEF SinkRelease, TypeOK, Routes
  <2> QED BY <1>18, <2>1, <2>2 DEF SinkRelease, TypeOK, provider
<1>19. CASE SinkDrop
  <2>1. sink' \in Sinks
    BY <1>0, <1>19 DEF SinkDrop, TypeOK, Sinks
  <2>2. [Idle EXCEPT !.pc = "gone"] \in Works /\ [Idle EXCEPT !.pc = "over"] \in Works
    BY <1>0, <1>19, IdleType DEF SinkDrop, Pcs
  <2>3. work' \in [Actors -> Works]
    BY <1>0, <1>19, <2>2 DEF SinkDrop, TypeOK
  <2>4. flights' \subseteq Flights
    BY <1>0, <1>19, UnawaitedType DEF SinkDrop
  <2> QED BY <1>19, <2>1, <2>2, <2>3, <2>4 DEF SinkDrop, TypeOK, provider
<1>20. ASSUME NEW a \in Actors, AmbiguousReply(a) PROVE TypeOK'
  <2>1. sink' \in Sinks
    BY <1>0, <1>20, ErrorType DEF AmbiguousReply, TypeOK
  <2>2. work' \in [Actors -> Works]
    BY <1>0, <1>20, ReturnType, ErrorType DEF AmbiguousReply
  <2>3. flights' \subseteq Flights
    BY <1>0, <1>20, UnawaitedType DEF AmbiguousReply
  <2> QED BY <1>20, <2>1, <2>2, <2>3 DEF AmbiguousReply, TypeOK, provider
<1>21. ASSUME NEW a \in Actors, Rewrite(a) PROVE TypeOK'
  <2>1. work[a].version \in Nat
    BY <1>0, <1>21 DEF Rewrite, TypeOK, Works
  <2>2. sink' \in Sinks
    BY <1>0, <1>21, ErrorType DEF Rewrite, TypeOK
  <2>3. work' \in [Actors -> Works]
    BY <1>0, <1>21, GotoType, ErrorType DEF Rewrite, Pcs
  <2>4. flights' \subseteq Flights
    BY <1>0, <1>21, <2>1, FlightType DEF Rewrite, TypeOK
  <2> QED BY <1>21, <2>1, <2>2, <2>3, <2>4 DEF Rewrite, TypeOK, provider
<1>22. ASSUME NEW a \in Actors, Rewritten(a) PROVE TypeOK'
  <2>1. work' \in [Actors -> Works]
    BY <1>0, <1>22 DEF Rewritten, TypeOK, Works, Pcs
  <2> QED BY <1>22, <2>1 DEF Rewritten, TypeOK, provider
<1>23. ASSUME NEW a \in Actors, Resolve(a) PROVE TypeOK'
  <2>1. sink' \in Sinks
    BY <1>0, <1>23, ErrorType DEF Resolve, TypeOK
  <2>2. Ids \in SUBSET Nat
    BY <1>0, <1>23, IdsType DEF Resolve
  <2>3. work' \in [Actors -> Works]
    BY <1>0, <1>23, <2>2, ErrorType DEF Resolve, TypeOK, Works, Pcs
  <2> QED BY <1>23, <2>1, <2>2, <2>3 DEF Resolve, TypeOK, provider
<1>24. ASSUME NEW a \in Actors, Purge(a) PROVE TypeOK'
  <2>1. work[a].redundant \in SUBSET Nat
    BY <1>0, <1>24 DEF Purge, TypeOK, Works
  <2>2. work' \in [Actors -> Works]
    BY <1>0, <1>24, GotoType, ReturnType DEF Purge, Pcs
  <2>3. flights' \subseteq Flights
    BY <1>0, <1>24, <2>1, FlightType DEF Purge, TypeOK
  <2> QED BY <1>24, <2>1, <2>2, <2>3 DEF Purge, TypeOK, provider
<1>25. ASSUME NEW a \in Actors, Purged(a) PROVE TypeOK'
  <2>1. work' \in [Actors -> Works]
    BY <1>0, <1>25 DEF Purged, TypeOK, Works, Pcs
  <2> QED BY <1>25, <2>1 DEF Purged, TypeOK, provider
<1>26. ASSUME NEW a \in Actors, Commit(a) PROVE TypeOK'
  <2>1. work[a].version \in Nat /\ History(a) \in BOOLEAN
    BY <1>0, <1>26, DirectWriteAssumption DEF Commit, TypeOK, Works, History
  <2>2. row' \in Rows(Reconcilers, Nat)
    BY <1>0, <1>26, <2>1, RowOperators DEF Commit, TypeOK
  <2>3. sink' \in Sinks
    BY <1>0, <1>26 DEF Commit, TypeOK, Sinks, OperationStates
  <2>4. work' \in [Actors -> Works]
    BY <1>0, <1>26, GotoType, ReturnType DEF Commit, Pcs
  <2> QED BY <1>26, <2>1, <2>2, <2>3, <2>4 DEF Commit, TypeOK, provider
<1>27. ASSUME NEW a \in Actors, Probe(a) PROVE TypeOK'
  <2>1. work' \in [Actors -> Works]
    BY <1>0, <1>27, GotoType, ReturnType, ProbeFindsType DEF Probe, Pcs
  <2> QED BY <1>27, <2>1 DEF Probe, TypeOK, provider
<1>28. ASSUME NEW a \in Actors, ProbeUploads(a) PROVE TypeOK'
  <2>1. work' \in [Actors -> Works]
    BY <1>0, <1>28, GotoType, ReturnType DEF ProbeUploads, Pcs
  <2> QED BY <1>28, <2>1 DEF ProbeUploads, TypeOK, provider
<1>29. ASSUME NEW a \in Actors, ConfirmRead(a) PROVE TypeOK'
  <2>1. work' \in [Actors -> Works]
    BY <1>0, <1>29, GotoType, ReturnType DEF ConfirmRead, Pcs
  <2> QED BY <1>29, <2>1 DEF ConfirmRead, TypeOK, provider
<1>30. ASSUME NEW a \in Actors, ConfirmWrite(a) PROVE TypeOK'
  <2>1. work[a].got \in Nat
    BY <1>0, <1>30 DEF ConfirmWrite, TypeOK, Works
  <2>2. row' \in Rows(Reconcilers, Nat)
    BY <1>0, <1>30, <2>1, RowOperators DEF ConfirmWrite, TypeOK
  <2>3. work' \in [Actors -> Works]
    BY <1>0, <1>30, ReturnType DEF ConfirmWrite
  <2> QED BY <1>30, <2>1, <2>2, <2>3 DEF ConfirmWrite, TypeOK, provider
<1>31. ASSUME NEW a \in Actors, Cleanup(a) PROVE TypeOK'
  <2>1. work' \in [Actors -> Works]
    BY <1>0, <1>31, GotoType, ReturnType DEF Cleanup, Pcs
  <2>2. upload' \in {"none", "live", "closed"}
    BY <1>0, <1>31 DEF Cleanup, TypeOK
  <2> QED BY <1>31, <2>1, <2>2 DEF Cleanup, TypeOK, provider
<1>32. ASSUME NEW a \in Actors, FinishAbort(a) PROVE TypeOK'
  <2>1. row' \in Rows(Reconcilers, Nat)
    BY <1>0, <1>32, RowOperators DEF FinishAbort, TypeOK, OperationStates
  <2>2. sink' \in Sinks
    BY <1>0, <1>32 DEF FinishAbort, TypeOK, Sinks, OperationStates
  <2>3. work' \in [Actors -> Works]
    BY <1>0, <1>32, GotoType, ReturnType DEF FinishAbort, Pcs
  <2> QED BY <1>32, <2>1, <2>2, <2>3 DEF FinishAbort, TypeOK, provider
<1>33. ASSUME NEW a \in Actors, Fail(a) PROVE TypeOK'
  <2>1. work' \in [Actors -> Works]
    BY <1>0, <1>33, ReturnType DEF Fail
  <2>2. flights' \subseteq Flights
    BY <1>0, <1>33, UnawaitedType DEF Fail
  <2>3. faults' \in 0..MaxFaults
    BY <1>0, <1>33, DirectWriteAssumption DEF Fail, TypeOK
  <2> QED BY <1>33, <2>1, <2>2, <2>3 DEF Fail, TypeOK, provider
<1>34. ASSUME NEW a \in Actors, Renew(a) PROVE TypeOK'
  <2>1. route' \in Routes
    BY <1>0, <1>34, DirectWriteAssumption DEF Renew, TypeOK, Routes
  <2> QED BY <1>34, <2>1 DEF Renew, TypeOK, provider
<1>35. ASSUME NEW r \in Reconcilers, ClaimRead(r) PROVE TypeOK'
  <2>1. row.state \in OperationStates /\ row.upload \in BOOLEAN /\ "claim" \in Pcs
    BY <1>0, <1>35 DEF ClaimRead, TypeOK, Rows, Pcs
  <2>2. work' \in [Actors -> Works]
    BY <1>0, <1>35, <2>1 DEF ClaimRead, TypeOK, Works
  <2> QED BY <1>35, <2>1, <2>2 DEF ClaimRead, TypeOK, provider
<1>36. ASSUME NEW r \in Reconcilers, ClaimWrite(r) PROVE TypeOK'
  <2>1. row' \in Rows(Reconcilers, Nat)
    BY <1>0, <1>36, RowOperators DEF ClaimWrite, TypeOK
  <2>2. work' \in [Actors -> Works]
    BY <1>0, <1>36, GotoType, ReturnType DEF ClaimWrite, Pcs
  <2> QED BY <1>36, <2>1, <2>2 DEF ClaimWrite, TypeOK, provider
<1>37. ASSUME NEW r \in Reconcilers, Recover(r) PROVE TypeOK'
  <2>1. {r} \in SUBSET Actors /\ RouteLease \in 0..RouteLease
    BY <1>0, <1>37, DirectWriteAssumption DEF Recover
  <2>2. route' \in Routes
    BY <1>0, <1>37, <2>1 DEF Recover, TypeOK, Routes
  <2>3. work' \in [Actors -> Works]
    BY <1>0, <1>37, GotoType, ReturnType DEF Recover, Pcs
  <2> QED BY <1>37, <2>1, <2>2, <2>3 DEF Recover, TypeOK, provider
<1>38. ASSUME NEW r \in Reconcilers, Begin(r) PROVE TypeOK'
  <2>1. row' \in Rows(Reconcilers, Nat)
    BY <1>0, <1>38, RowOperators DEF Begin, TypeOK, OperationStates
  <2>2. work' \in [Actors -> Works]
    BY <1>0, <1>38, ReturnType DEF Begin, TypeOK, Works, Pcs, OperationStates
  <2> QED BY <1>38, <2>1, <2>2 DEF Begin, TypeOK, provider
<1>39. ASSUME NEW r \in Reconcilers, SettleTerminal(r) PROVE TypeOK'
  <2>1. route' \in Routes
    BY <1>0, <1>39 DEF SettleTerminal, TypeOK, Routes
  <2> QED BY <1>39, <2>1 DEF SettleTerminal, TypeOK, provider
<1>40. ASSUME NEW f \in flights, Land(f) PROVE TypeOK'
  <2>1. f \in Flights
    BY <1>0, <1>40 DEF Land, TypeOK
  <2>2. minted + 1 \in Nat /\ minted \in 0..minted+1
    BY <1>0, <1>40, DirectWriteAssumption DEF Land, TypeOK
  <2>3. minted' \in 0..MaxVersions
    BY <1>0, <1>40, DirectWriteAssumption DEF Land, TypeOK, NewVersion
  <2>4. versions' \subseteq [id : 1..minted', full : BOOLEAN]
    BY <1>0, <1>40, LandVersions DEF Land
  <2>5. work' \in [Actors -> Works]
    BY <1>0, <1>40, <2>1, <2>2 DEF Land, TypeOK, Works, Flights
  <2>6. flights' \subseteq Flights
    BY <1>0, <1>40 DEF Land, TypeOK
  <2>7. upload' \in {"none", "live", "closed"}
    BY <1>0, <1>40 DEF Land, TypeOK, NewVersion
  <2> QED BY <1>40, <2>1, <2>2, <2>3, <2>4, <2>5, <2>6, <2>7 DEF Land, TypeOK, provider
<1>41. CASE ExpireUpload
  <2> QED BY <1>41 DEF ExpireUpload, TypeOK, provider
<1>42. CASE Tick
  <2>1. row' \in Rows(Reconcilers, Nat)
    BY <1>0, <1>42, RowOperators DEF Tick, TypeOK
  <2>2. route' \in Routes
    BY <1>0, <1>42, DirectWriteAssumption DEF Tick, TypeOK, Routes, Decrement
  <2>3. sink' \in Sinks
    BY <1>0, <1>42, DirectWriteAssumption DEF Tick, TypeOK, Sinks, Decrement
  <2>4. flights' \subseteq Flights
    BY <1>0, <1>42, TickFlights DEF Tick, TypeOK
  <2>5. work' \in [Actors -> Works]
    BY <1>0, <1>42 DEF Tick, TypeOK, Works
  <2> QED BY <1>42, <2>1, <2>2, <2>3, <2>4, <2>5 DEF Tick, TypeOK, provider
<1>43. CASE UNCHANGED vars
  BY <1>43 DEF vars, TypeOK
<1> QED
  BY <1>1, <1>2, <1>3, <1>4, <1>5, <1>6, <1>7, <1>8, <1>9, <1>10, <1>11, <1>12, <1>13, <1>14,
     <1>15, <1>16, <1>17, <1>18, <1>19, <1>20, <1>21, <1>22, <1>23, <1>24, <1>25, <1>26, <1>27,
     <1>28, <1>29, <1>30, <1>31, <1>32, <1>33, <1>34, <1>35, <1>36, <1>37, <1>38, <1>39, <1>40,
     <1>41, <1>42, <1>43
  DEF Next, SinkNext, CallNext, ReconcilerNext

LEMMA TypeInit == Init => TypeOK
<1> SUFFICES ASSUME Init PROVE TypeOK
  OBVIOUS
<1>0. Sink \in Actors /\ Request \in Actors
  BY DEF Actors, Reconcilers
<1>1. row \in Rows(Reconcilers, Nat)
  BY JournalAssumption DEF Init, IntentRow, Rows, OperationStates
<1>2. route \in Routes
  BY <1>0, DirectWriteAssumption DEF Init, Routes
<1>3. sink \in Sinks
  BY DirectWriteAssumption DEF Init, Sinks, OperationStates
<1>4. [Idle EXCEPT !.pc = "write"] \in Works /\ Idle \in Works
  BY DEF Idle, Works, Pcs, OperationStates
<1>5. work \in [Actors -> Works]
  BY <1>4 DEF Init
<1> QED BY <1>1, <1>2, <1>3, <1>5, DirectWriteAssumption DEF Init, TypeOK

\* Every reachable state has the declared types: the journal row keeps its
\* columns' ranges through every statement, and Latest() is only applied to
\* version sets that have a latest member.
THEOREM Typing == Spec => []TypeOK
BY TypeInit, TypeStep, PTL DEF Spec

-----------------------------------------------------------------------------
(* The inductive invariant.                                                 *)

\* What the journal's updates do to the columns the invariant speaks of.
LEMMA RowFields ==
    ASSUME NEW r \in Rows(Reconcilers, Nat)
    PROVE  /\ \A s : /\ Moved(r, s).state = s /\ Moved(r, s).window = r.window
                     /\ Moved(r, s).absence = r.absence
           /\ \A v, h : /\ MovedToCommitted(r, v, h).state = "Committed"
                        /\ MovedToCommitted(r, v, h).window = r.window
                        /\ MovedToCommitted(r, v, h).absence = r.absence
           /\ \A u : /\ Opened(r, u).state = "Open" /\ Opened(r, u).window = r.window
                     /\ Opened(r, u).absence = r.absence
           /\ \A n : /\ Launched(r, n).state = r.state
                     /\ Launched(r, n).window = IF n > r.window THEN n ELSE r.window
                     /\ Launched(r, n).absence = NoAbsence
           /\ \A n : /\ AbsenceStored(r, n).state = r.state
                     /\ AbsenceStored(r, n).window = r.window
                     /\ AbsenceStored(r, n).absence = n
           /\ \A o : /\ Claimed(r, o).state = r.state /\ Claimed(r, o).window = r.window
                     /\ Claimed(r, o).absence = r.absence
           /\ RowTick(r).state = r.state
           /\ RowTick(r).window = Decrement(r.window)
           /\ RowTick(r).absence = NoAbsence <=> r.absence = NoAbsence
<1>1. /\ \A s : /\ Moved(r, s).state = s /\ Moved(r, s).window = r.window
                /\ Moved(r, s).absence = r.absence
      /\ \A v, h : /\ MovedToCommitted(r, v, h).state = "Committed"
                   /\ MovedToCommitted(r, v, h).window = r.window
                   /\ MovedToCommitted(r, v, h).absence = r.absence
  BY DEF Rows, Moved, MovedToCommitted
<1>2. \A u : /\ Opened(r, u).state = "Open" /\ Opened(r, u).window = r.window
             /\ Opened(r, u).absence = r.absence
  BY DEF Rows, Opened
<1>3. \A n : /\ Launched(r, n).state = r.state
             /\ Launched(r, n).window = IF n > r.window THEN n ELSE r.window
             /\ Launched(r, n).absence = NoAbsence
  BY DEF Rows, Launched
<1>4. \A n : /\ AbsenceStored(r, n).state = r.state
             /\ AbsenceStored(r, n).window = r.window
             /\ AbsenceStored(r, n).absence = n
  BY DEF Rows, AbsenceStored
<1>5. \A o : /\ Claimed(r, o).state = r.state /\ Claimed(r, o).window = r.window
             /\ Claimed(r, o).absence = r.absence
  BY DEF Rows, Claimed
<1>6. RowTick(r).state = r.state /\ RowTick(r).window = Decrement(r.window)
  BY DEF Rows, RowTick
<1>7. RowTick(r).absence = NoAbsence <=> r.absence = NoAbsence
  <2>1. r.absence \in Nat \cup {NoAbsence}
    BY DEF Rows
  <2>2. RowTick(r).absence = IF r.absence = NoAbsence \/ r.absence = Separation
                             THEN r.absence ELSE r.absence + 1
    BY DEF Rows, RowTick
  <2> QED BY <2>1, <2>2 DEF NoAbsence
<1> QED BY <1>1, <1>2, <1>3, <1>4, <1>5, <1>6, <1>7

\* COMMITTED is reached from COMPLETING or COMMIT_UNKNOWN only.
LEMMA CommitFrom ==
    ASSUME NEW r, NEW s, Cas(r, s, "Committed")
    PROVE  r.state = s /\ s \in {"Completing", "CommitUnknown"}
BY DEF Cas, CanTransitionTo


-----------------------------------------------------------------------------
(* What some steps do, in the terms of the invariant.                       *)

LEMMA ActorFacts ==
    /\ Sink \in Actors /\ Request \in Actors /\ Reconcilers \subseteq Actors
    /\ Sink \notin Reconcilers /\ Sink # Request /\ Request \in Reconcilers
    /\ Periodic \subseteq Reconcilers /\ Request \notin Periodic
    /\ Actors = {Sink, Request} \cup Periodic
BY DirectWriteAssumption DEF Actors, Reconcilers

LEMMA LaunchFacts ==
    ASSUME TypeOK, SinkLaunch
    PROVE  /\ \/ At(Sink, "write") /\ ~sink.upload /\ sink'.next = "create"
              \/ /\ At(Sink, "attempt")
                 /\ sink'.next \in {"put", "complete"} /\ (sink'.next = "complete" => sink.upload)
           /\ work'[Sink].pc \in {"launch", "failed"}
           /\ \A b \in Actors \ {Sink} : work'[b] = work[b]
           /\ sink'.upload = sink.upload /\ sink'.ambiguous = sink.ambiguous
           /\ sink'.signalled = sink.signalled /\ sink'.state = sink.state
           /\ UNCHANGED <<row, route, flights, versions, minted, upload, faults>>
<1>1. work \in [Actors -> Works] /\ sink \in Sinks
  BY DEF TypeOK
<1>2. /\ work'[Sink].pc \in {"launch", "failed"}
      /\ \A b \in Actors \ {Sink} : work'[b] = work[b]
  BY <1>1, ActorFacts DEF SinkLaunch, Goto, Return, Returned, Idle, Works
<1>3. CASE At(Sink, "write") /\ ~sink.upload
           /\ sink' = [sink EXCEPT !.next = "create", !.stall = Stall]
  BY <1>1, <1>2, <1>3 DEF SinkLaunch, provider, Sinks
<1>4. CASE /\ At(Sink, "attempt")
           /\ sink' = [sink EXCEPT !.next = IF sink.upload THEN "complete" ELSE "put",
                                   !.attempt = @ + 1, !.stall = Stall]
  BY <1>1, <1>2, <1>4 DEF SinkLaunch, provider, Sinks
<1> QED BY <1>3, <1>4 DEF SinkLaunch

LEMMA ReprobeFacts ==
    ASSUME TypeOK, SinkReprobe
    PROVE  /\ At(Sink, "reprobe")
           /\ row'.state = IF row.state = "Completing" THEN "CommitUnknown" ELSE row.state
           /\ row'.window = row.window /\ row'.absence = row.absence
           /\ work'[Sink].pc \in {"probe", "release", "failed"}
           /\ work'[Sink].pc = "probe" => work'[Sink].from = "CommitUnknown"
           /\ \A b \in Actors \ {Sink} : work'[b] = work[b]
           /\ work'[Sink].pc = "probe" => row'.state = "CommitUnknown"
           /\ sink' = sink \/ sink' = [sink EXCEPT !.state = row'.state]
           /\ UNCHANGED <<route, flights, versions, minted, upload, faults>>
<1>1. work \in [Actors -> Works] /\ row \in Rows(Reconcilers, Nat)
  BY DEF TypeOK
<1>2. /\ row'.state = IF row.state = "Completing" THEN "CommitUnknown" ELSE row.state
      /\ row'.window = row.window /\ row'.absence = row.absence
  BY <1>1, RowFields DEF SinkReprobe
<1>3. \/ /\ row'.state = "CommitUnknown"
         /\ work' = [work EXCEPT ![Sink] = [Idle EXCEPT !.pc = "probe", !.from = "CommitUnknown"]]
      \/ Goto(Sink, "release") \/ Return(Sink)
  BY DEF SinkReprobe
<1>4. /\ work'[Sink].pc \in {"probe", "release", "failed"}
      /\ work'[Sink].pc = "probe" => work'[Sink].from = "CommitUnknown"
      /\ work'[Sink].pc = "probe" => row'.state = "CommitUnknown"
      /\ \A b \in Actors \ {Sink} : work'[b] = work[b]
  <2>1. CASE /\ row'.state = "CommitUnknown"
             /\ work' = [work EXCEPT ![Sink] = [Idle EXCEPT !.pc = "probe",
                                                            !.from = "CommitUnknown"]]
    <3>1. /\ [Idle EXCEPT !.pc = "probe", !.from = "CommitUnknown"].pc = "probe"
          /\ [Idle EXCEPT !.pc = "probe", !.from = "CommitUnknown"].from = "CommitUnknown"
      BY DEF Idle
    <3> QED BY <1>1, <2>1, <3>1, ActorFacts
  <2>2. CASE Goto(Sink, "release")
    BY <1>1, <2>2, ActorFacts DEF Goto, Works
  <2>3. CASE Return(Sink)
    <3>1. Returned(Sink).pc = "failed"
      BY DEF Returned, Idle
    <3> QED BY <1>1, <2>3, <3>1, ActorFacts DEF Return
  <2> QED BY <1>3, <2>1, <2>2, <2>3
<1> QED BY <1>2, <1>4 DEF SinkReprobe, provider

LEMMA CommitFacts ==
    ASSUME TypeOK, NEW a \in Actors, Commit(a)
    PROVE  /\ At(a, "purge")
           /\ \/ row' = row
              \/ /\ row.state = work[a].from /\ row.state \in {"Completing", "CommitUnknown"}
                 /\ row'.state = "Committed"
                 /\ row'.window = row.window /\ row'.absence = row.absence
           /\ work'[a].pc \in {"release", "reprobe", "failed", "over", "idle"}
           /\ \A b \in Actors \ {a} : work'[b] = work[b]
           /\ sink' = sink \/ sink' = [sink EXCEPT !.state = "Committed"]
           /\ UNCHANGED <<route, flights, versions, minted, upload, faults>>
<1>1. work \in [Actors -> Works] /\ row \in Rows(Reconcilers, Nat)
  BY DEF TypeOK
<1>2. \/ row' = row
      \/ /\ Cas(row, work[a].from, "Committed")
         /\ row' = MovedToCommitted(row, work[a].version, History(a))
  BY DEF Commit
<1>3. ASSUME Cas(row, work[a].from, "Committed")
      PROVE  row.state = work[a].from /\ row.state \in {"Completing", "CommitUnknown"}
  BY <1>3, CommitFrom
<1>4. ASSUME row' = MovedToCommitted(row, work[a].version, History(a))
      PROVE  /\ row'.state = "Committed"
             /\ row'.window = row.window /\ row'.absence = row.absence
  BY <1>1, <1>4 DEF MovedToCommitted, Moved, Rows
<1>5. Goto(a, "release") \/ Goto(a, "reprobe") \/ Return(a)
  BY DEF Commit
<1>6. /\ work'[a].pc \in {"release", "reprobe", "failed", "over", "idle"}
      /\ \A b \in Actors \ {a} : work'[b] = work[b]
  BY <1>1, <1>5 DEF Goto, Return, Returned, Idle, Works
<1>7. sink' = sink \/ sink' = [sink EXCEPT !.state = "Committed"]
  BY DEF Commit
<1> QED BY <1>2, <1>3, <1>4, <1>6, <1>7 DEF Commit, provider

\* Giving up a call changes nothing but who waits for it.
LEMMA UnawaitedFacts ==
    ASSUME TypeOK, NEW a \in Actors, NEW g \in Unawaited(a)
    PROVE  \E f \in flights : /\ g.kind = f.kind /\ g.by = f.by /\ g.left = f.left
                              /\ g.awaited => f.awaited /\ f.by # a /\ g = f
<1>1. PICK f \in flights : g = [f EXCEPT !.awaited = f.awaited /\ f.by # a]
  BY DEF Unawaited
<1>2. f \in Flights
  BY DEF TypeOK
<1>3. g.kind = f.kind /\ g.by = f.by /\ g.left = f.left
  BY <1>1, <1>2 DEF Flights
<1>4. ASSUME g.awaited PROVE f.awaited /\ f.by # a /\ g = f
  <2>1. f.awaited /\ f.by # a
    BY <1>1, <1>2, <1>4 DEF Flights
  <2> QED BY <1>1, <1>2, <2>1 DEF Flights
<1> QED BY <1>3, <1>4

LEMMA TickFacts ==
    ASSUME TypeOK, Tick, NEW g \in flights'
    PROVE  \E f \in flights : /\ g.kind = f.kind /\ g.by = f.by /\ g.awaited = f.awaited
                              /\ f.left = g.left + 1 /\ f.left \in Int /\ f.left > 1
<1>1. PICK f \in flights : f.left > 1 /\ g = [f EXCEPT !.left = @ - 1]
  BY DEF Tick
<1>2. f \in Flights
  BY DEF TypeOK
<1> QED BY <1>1, <1>2, DirectWriteAssumption DEF Flights

\* Sending a call and waiting for it keeps the bookkeeping of awaited calls.
LEMMA AwaitsSend ==
    ASSUME TypeOK, AwaitsInv, NEW a \in Actors, NEW v, NEW pc,
           NEW k \in {"create", "put", "complete", "rewrite", "delete"},
           work[a].pc \notin {"wait", "rewriteWait", "purgeWait"},
           Send(k, a, v), Goto(a, pc), UNCHANGED sink,
           pc = AwaitPc(Flight(k, a, v)),
           k \in {"create", "put", "complete"} => a = Sink /\ k = sink.next
    PROVE  AwaitsInv'
<1> DEFINE n == Flight(k, a, v)
<1>1. n.kind = k /\ n.by = a /\ n.awaited = TRUE
  BY DEF Flight
<1>2. flights' = flights \cup {n}
  BY DEF Send
<1>3. /\ work'[a].pc = pc /\ work'[a].got = 0
      /\ \A b \in Actors \ {a} : work'[b] = work[b]
  BY DEF Goto, TypeOK, Works
<1>4. \A f \in flights : f.by \in Actors
  BY DEF TypeOK, Flights
<1>5. \A f \in flights : f.awaited => f.by # a
  BY DEF AwaitsInv, At, AwaitPc
<1>6. sink' = sink
  OBVIOUS
<1> HIDE DEF n
<1>7. \A f \in flights' : f.kind \in {"create", "put", "complete"} => f.by = Sink
  BY <1>1, <1>2 DEF AwaitsInv
<1>8. ASSUME NEW f \in flights', f.awaited
      PROVE  /\ work'[f.by].pc = AwaitPc(f) /\ work'[f.by].got = 0
             /\ f.kind \in {"create", "put", "complete"} => f.kind = sink'.next
  <2>1. CASE f = n
    BY <1>1, <1>3, <1>6, <2>1 DEF n
  <2>2. CASE f # n
    BY <1>2, <1>3, <1>4, <1>5, <1>6, <1>8, <2>2 DEF AwaitsInv, At
  <2> QED BY <2>1, <2>2
<1>9. ASSUME NEW f \in flights', NEW g \in flights', f.awaited, g.awaited, f.by = g.by
      PROVE  f = g
  BY <1>1, <1>2, <1>5, <1>9 DEF AwaitsInv
<1> QED BY <1>7, <1>8, <1>9 DEF AwaitsInv, At

\* So does giving up, as long as nobody else stops waiting.
LEMMA AwaitsGiveUp ==
    ASSUME TypeOK, AwaitsInv, NEW a \in Actors, flights' = Unawaited(a),
           \A b \in Actors \ {a} :
              work[b].pc \in {"wait", "rewriteWait", "purgeWait"} =>
                 work'[b].pc = work[b].pc /\ work'[b].got = work[b].got,
           sink'.next = sink.next
    PROVE  AwaitsInv'
<1>1. \A f \in flights : f.by \in Actors
  BY DEF TypeOK, Flights
<1>2. \A g \in flights' : g.kind \in {"create", "put", "complete"} => g.by = Sink
  BY UnawaitedFacts DEF AwaitsInv
<1>3. ASSUME NEW g \in flights', g.awaited
      PROVE  g \in flights /\ g.by # a
  BY <1>3, UnawaitedFacts
<1>4. ASSUME NEW g \in flights', g.awaited
      PROVE  /\ work'[g.by].pc = AwaitPc(g) /\ work'[g.by].got = 0
             /\ g.kind \in {"create", "put", "complete"} => g.kind = sink'.next
  <2>1. g \in flights /\ g.by # a /\ g.by \in Actors
    BY <1>1, <1>3, <1>4
  <2>2. /\ work[g.by].pc = AwaitPc(g) /\ work[g.by].got = 0
        /\ g.kind \in {"create", "put", "complete"} => g.kind = sink.next
    BY <1>4, <2>1 DEF AwaitsInv, At
  <2> QED BY <2>1, <2>2 DEF AwaitPc
<1>5. ASSUME NEW f \in flights', NEW g \in flights', f.awaited, g.awaited, f.by = g.by
      PROVE  f = g
  BY <1>3, <1>5 DEF AwaitsInv
<1> QED BY <1>2, <1>4, <1>5 DEF AwaitsInv, At

-----------------------------------------------------------------------------
(* The conjuncts of the invariant, in the order in which they build on each *)
(* other.                                                                   *)

\* A route is held by the request's sink and reconciler or by one periodic pass.
LEMMA HoldersStep == ASSUME TypeOK, HoldersInv, [Next]_vars PROVE HoldersInv'
<1>0. /\ work \in [Actors -> Works] /\ route \in Routes /\ sink \in Sinks
      /\ flights \subseteq Flights /\ row \in Rows(Reconcilers, Nat)
  BY DEF TypeOK
<1>1. CASE SinkLaunch
  BY ActorFacts, <1>0, <1>1
  DEF SinkLaunch, HoldersInv, At, Goto, Return, Returned, Idle, provider, Works, Routes, Sinks,
      LaunchAllowed
<1>2. CASE SinkRecordLaunch
  BY ActorFacts, <1>0, <1>2
  DEF SinkRecordLaunch, HoldersInv, At, Goto, provider, Works, Routes, Sinks
<1>3. CASE SinkCallCreate
  BY ActorFacts, <1>0, <1>3
  DEF SinkCallCreate, HoldersInv, At, Goto, Return, Returned, Idle, Works, Routes, Sinks, Send,
      Flight, Fenced
<1>4. CASE SinkCreated
  BY ActorFacts, <1>0, <1>4
  DEF SinkCreated, HoldersInv, At, Goto, provider, Works, Routes, Sinks
<1>5. CASE SinkSetOpen
  BY ActorFacts, <1>0, <1>5
  DEF SinkSetOpen, HoldersInv, At, Goto, Return, Returned, Idle, provider, Works, Routes, Sinks,
      Opened, Cas
<1>6. CASE SinkUploadPart
  BY ActorFacts, <1>0, <1>6
  DEF SinkUploadPart, HoldersInv, At, Return, Returned, Idle, provider, Works, Routes, Sinks
<1>7. CASE SinkVerify
  BY ActorFacts, <1>0, <1>7
  DEF SinkVerify, HoldersInv, At, Goto, Return, Returned, Idle, provider, Works, Routes, Sinks
<1>8. CASE SinkOpenSingle
  BY ActorFacts, <1>0, <1>8
  DEF SinkOpenSingle, HoldersInv, At, Goto, Return, Returned, Idle, provider, Works, Routes,
      Sinks, Opened, Cas
<1>9. CASE SinkStartCompletion
  BY ActorFacts, <1>0, <1>9
  DEF SinkStartCompletion, HoldersInv, At, Goto, Return, Returned, Idle, provider, Works,
      Routes, Sinks, Cas
<1>10. CASE SinkCallPut
  BY ActorFacts, <1>0, <1>10
  DEF SinkCallPut, HoldersInv, At, Goto, Return, Returned, Idle, Works, Routes, Sinks, Send,
      Flight, Fenced, Error
<1>11. CASE SinkCallComplete
  BY ActorFacts, <1>0, <1>11
  DEF SinkCallComplete, HoldersInv, At, Goto, Return, Returned, Idle, Works, Routes, Sinks,
      Send, Flight, Fenced, Error, ProbeFinds, ProbeMissing
<1>12. CASE SinkCommitted
  BY ActorFacts, <1>0, <1>12 DEF SinkCommitted, HoldersInv, At, provider, Works, Routes, Sinks
<1>13. CASE SinkRejected
  BY ActorFacts, <1>0, <1>13
  DEF SinkRejected, HoldersInv, At, Goto, Return, Returned, Idle, Works, Routes, Sinks
<1>14. CASE SinkMarkUnknown
  BY ActorFacts, <1>0, <1>14
  DEF SinkMarkUnknown, HoldersInv, At, Goto, Return, Returned, Idle, provider, Works, Routes,
      Sinks, Cas
<1>15. CASE SinkReprobe
  BY ActorFacts, <1>0, <1>15
  DEF SinkReprobe, HoldersInv, At, Goto, Return, Returned, Idle, provider, Works, Routes, Sinks
<1>16. CASE SinkAbort
  BY ActorFacts, <1>0, <1>16 DEF SinkAbort, HoldersInv, At, provider, Works, Routes, Sinks, Cas
<1>17. CASE SinkAbortFinished
  BY ActorFacts, <1>0, <1>17
  DEF SinkAbortFinished, HoldersInv, At, Goto, provider, Works, Routes, Sinks
<1>18. CASE SinkRelease
  BY ActorFacts, <1>0, <1>18
  DEF SinkRelease, HoldersInv, At, Goto, Return, Returned, Idle, provider, Works, Routes, Sinks
<1>19. CASE SinkDrop
  BY ActorFacts, <1>0, <1>19
  DEF SinkDrop, HoldersInv, At, Idle, Works, Routes, Sinks, Unawaited, Running
<1>20. ASSUME NEW a \in Actors, AmbiguousReply(a) PROVE HoldersInv'
  BY ActorFacts, <1>0, <1>20
  DEF AmbiguousReply, HoldersInv, At, Goto, Return, Returned, Idle, Works, Routes, Sinks,
      Unawaited, Error
<1>21. ASSUME NEW a \in Actors, Rewrite(a) PROVE HoldersInv'
  BY ActorFacts, <1>0, <1>21
  DEF Rewrite, HoldersInv, At, Goto, Return, Returned, Idle, Works, Routes, Sinks, Send, Flight,
      Error, Fenced
<1>22. ASSUME NEW a \in Actors, Rewritten(a) PROVE HoldersInv'
  BY ActorFacts, <1>0, <1>22 DEF Rewritten, HoldersInv, At, provider, Works, Routes, Sinks
<1>23. ASSUME NEW a \in Actors, Resolve(a) PROVE HoldersInv'
  BY ActorFacts, <1>0, <1>23
  DEF Resolve, HoldersInv, At, Goto, Return, Returned, Idle, provider, Works, Routes, Sinks,
      Error
<1>24. ASSUME NEW a \in Actors, Purge(a) PROVE HoldersInv'
  BY ActorFacts, <1>0, <1>24
  DEF Purge, HoldersInv, At, Goto, Return, Returned, Idle, Works, Routes, Sinks, Send, Flight,
      Fenced
<1>25. ASSUME NEW a \in Actors, Purged(a) PROVE HoldersInv'
  BY ActorFacts, <1>0, <1>25 DEF Purged, HoldersInv, At, provider, Works, Routes, Sinks
<1>26. ASSUME NEW a \in Actors, Commit(a) PROVE HoldersInv'
  BY ActorFacts, <1>0, <1>26
  DEF Commit, HoldersInv, At, Goto, Return, Returned, Idle, provider, Works, Routes, Sinks,
      MovedToCommitted, Cas
<1>27. ASSUME NEW a \in Actors, Probe(a) PROVE HoldersInv'
  BY ActorFacts, <1>0, <1>27
  DEF Probe, HoldersInv, At, Goto, Return, Returned, Idle, provider, Works, Routes, Sinks,
      ProbeFinds, ProbeMissing, Fenced
<1>28. ASSUME NEW a \in Actors, ProbeUploads(a) PROVE HoldersInv'
  BY ActorFacts, <1>0, <1>28
  DEF ProbeUploads, HoldersInv, At, Goto, Return, Returned, Idle, provider, Works, Routes,
      Sinks, Fenced
<1>29. ASSUME NEW a \in Actors, ConfirmRead(a) PROVE HoldersInv'
  BY ActorFacts, <1>0, <1>29
  DEF ConfirmRead, HoldersInv, At, Goto, Return, Returned, Idle, provider, Works, Routes, Sinks
<1>30. ASSUME NEW a \in Actors, ConfirmWrite(a) PROVE HoldersInv'
  BY ActorFacts, <1>0, <1>30
  DEF ConfirmWrite, HoldersInv, At, Return, Returned, Idle, provider, Works, Routes, Sinks
<1>31. ASSUME NEW a \in Actors, Cleanup(a) PROVE HoldersInv'
  BY ActorFacts, <1>0, <1>31
  DEF Cleanup, HoldersInv, At, Goto, Return, Returned, Idle, Works, Routes, Sinks
<1>32. ASSUME NEW a \in Actors, FinishAbort(a) PROVE HoldersInv'
  BY ActorFacts, <1>0, <1>32
  DEF FinishAbort, HoldersInv, At, Goto, Return, Returned, Idle, provider, Works, Routes, Sinks,
      Cas
<1>33. ASSUME NEW a \in Actors, Fail(a) PROVE HoldersInv'
  BY ActorFacts, <1>0, <1>33
  DEF Fail, HoldersInv, At, Return, Returned, Idle, Works, Routes, Sinks, Unawaited, Running
<1>34. ASSUME NEW a \in Actors, Renew(a) PROVE HoldersInv'
  BY ActorFacts, <1>0, <1>34 DEF Renew, HoldersInv, At, provider, Works, Routes, Sinks
<1>35. ASSUME NEW r \in Reconcilers, ClaimRead(r) PROVE HoldersInv'
  BY ActorFacts, <1>0, <1>35
  DEF ClaimRead, HoldersInv, At, provider, Works, Routes, Sinks, Claimable
<1>36. ASSUME NEW r \in Reconcilers, ClaimWrite(r) PROVE HoldersInv'
  BY ActorFacts, <1>0, <1>36
  DEF ClaimWrite, HoldersInv, At, Goto, Return, Returned, Idle, provider, Works, Routes, Sinks
<1>37. ASSUME NEW r \in Reconcilers, Recover(r) PROVE HoldersInv'
  <2>1. r \in Periodic
    BY ActorFacts, <1>37 DEF Recover, HoldersInv, At, Reconcilers
  <2> QED
    BY ActorFacts, <1>0, <1>37, <2>1
    DEF Recover, HoldersInv, At, Goto, Return, Returned, Idle, Works, Routes
<1>38. ASSUME NEW r \in Reconcilers, Begin(r) PROVE HoldersInv'
  BY ActorFacts, <1>0, <1>38
  DEF Begin, HoldersInv, At, Return, Returned, Idle, provider, Works, Routes, Sinks, Cas
<1>39. ASSUME NEW r \in Reconcilers, SettleTerminal(r) PROVE HoldersInv'
  BY ActorFacts, <1>0, <1>39 DEF SettleTerminal, HoldersInv, At, provider, Works, Routes, Sinks
<1>40. ASSUME NEW f \in flights, Land(f) PROVE HoldersInv'
  BY ActorFacts, <1>0, <1>40 DEF Land, HoldersInv, At, Works, Routes, Sinks, NewVersion
<1>41. CASE ExpireUpload
  BY ActorFacts, <1>0, <1>41 DEF ExpireUpload, HoldersInv, At, Works, Routes, Sinks
<1>42. CASE Tick
  BY ActorFacts, <1>0, <1>42 DEF Tick, HoldersInv, At, Works, Routes, Sinks, Decrement
<1>43. CASE UNCHANGED vars
  BY <1>0, <1>43 DEF vars, HoldersInv, At, Works, Routes, Sinks
<1> QED
  BY <1>1, <1>2, <1>3, <1>4, <1>5, <1>6, <1>7, <1>8, <1>9, <1>10, <1>11, <1>12, <1>13, <1>14,
     <1>15, <1>16, <1>17, <1>18, <1>19, <1>20, <1>21, <1>22, <1>23, <1>24, <1>25, <1>26, <1>27,
     <1>28, <1>29, <1>30, <1>31, <1>32, <1>33, <1>34, <1>35, <1>36, <1>37, <1>38, <1>39, <1>40,
     <1>41, <1>42, <1>43
  DEF Next, SinkNext, CallNext, ReconcilerNext

\* Calls are awaited by the actor that sent them, one at a time.
LEMMA AwaitsStep == ASSUME TypeOK, HoldersInv, AwaitsInv, [Next]_vars PROVE AwaitsInv'
<1>0. /\ work \in [Actors -> Works] /\ route \in Routes /\ sink \in Sinks
      /\ flights \subseteq Flights /\ row \in Rows(Reconcilers, Nat)
  BY DEF TypeOK
<1>1. CASE SinkLaunch
  BY ActorFacts, <1>0, <1>1
  DEF SinkLaunch, AwaitsInv, AwaitPc, At, Goto, Return, Returned, Idle, provider, Works, Sinks,
      Flights, LaunchAllowed
<1>2. CASE SinkRecordLaunch
  BY ActorFacts, <1>0, <1>2
  DEF SinkRecordLaunch, AwaitsInv, AwaitPc, At, Goto, provider, Works, Sinks, Flights
<1>3. CASE SinkCallCreate
  <2>1. CASE Fenced(Sink)
    <3>1. Send("create", Sink, 0) /\ Goto(Sink, "wait") /\ UNCHANGED sink
      BY <1>3, <2>1 DEF SinkCallCreate
    <3>2. "wait" = AwaitPc(Flight("create", Sink, 0))
      BY DEF AwaitPc, Flight
    <3> QED BY <1>3, <3>1, <3>2, AwaitsSend, ActorFacts DEF SinkCallCreate, At
  <2>2. CASE ~Fenced(Sink)
    BY ActorFacts, <1>0, <1>3, <2>2
    DEF SinkCallCreate, AwaitsInv, AwaitPc, At, Goto, Return, Returned, Idle, Error, Works,
        Sinks, Flights
  <2> QED BY <2>1, <2>2
<1>4. CASE SinkCreated
  BY ActorFacts, <1>0, <1>4
  DEF SinkCreated, AwaitsInv, AwaitPc, At, Goto, provider, Works, Sinks, Flights
<1>5. CASE SinkSetOpen
  BY ActorFacts, <1>0, <1>5
  DEF SinkSetOpen, AwaitsInv, AwaitPc, At, Goto, Return, Returned, Idle, provider, Works, Sinks,
      Flights, Opened, Cas
<1>6. CASE SinkUploadPart
  BY ActorFacts, <1>0, <1>6
  DEF SinkUploadPart, AwaitsInv, AwaitPc, At, Return, Returned, Idle, provider, Works, Sinks,
      Flights
<1>7. CASE SinkVerify
  BY ActorFacts, <1>0, <1>7
  DEF SinkVerify, AwaitsInv, AwaitPc, At, Goto, Return, Returned, Idle, provider, Works, Sinks,
      Flights
<1>8. CASE SinkOpenSingle
  BY ActorFacts, <1>0, <1>8
  DEF SinkOpenSingle, AwaitsInv, AwaitPc, At, Goto, Return, Returned, Idle, provider, Works,
      Sinks, Flights, Opened, Cas
<1>9. CASE SinkStartCompletion
  BY ActorFacts, <1>0, <1>9
  DEF SinkStartCompletion, AwaitsInv, AwaitPc, At, Goto, Return, Returned, Idle, provider,
      Works, Sinks, Flights, Cas
<1>10. CASE SinkCallPut
  <2>1. CASE Fenced(Sink)
    <3>1. Send("put", Sink, 0) /\ Goto(Sink, "wait") /\ UNCHANGED sink
      BY <1>10, <2>1 DEF SinkCallPut
    <3>2. "wait" = AwaitPc(Flight("put", Sink, 0))
      BY DEF AwaitPc, Flight
    <3> QED BY <1>10, <3>1, <3>2, AwaitsSend, ActorFacts DEF SinkCallPut, At
  <2>2. CASE ~Fenced(Sink)
    BY ActorFacts, <1>0, <1>10, <2>2
    DEF SinkCallPut, AwaitsInv, AwaitPc, At, Goto, Return, Returned, Idle, Error, Works, Sinks,
        Flights
  <2> QED BY <2>1, <2>2
<1>11. CASE SinkCallComplete
  <2>1. CASE Send("complete", Sink, 0) /\ Goto(Sink, "wait") /\ UNCHANGED sink
    <3>1. "wait" = AwaitPc(Flight("complete", Sink, 0))
      BY DEF AwaitPc, Flight
    <3> QED BY <1>11, <2>1, <3>1, AwaitsSend, ActorFacts DEF SinkCallComplete, At
  <2>2. CASE UNCHANGED flights /\ Error(Sink)
    BY ActorFacts, <1>0, <1>11, <2>2
    DEF SinkCallComplete, AwaitsInv, AwaitPc, At, Goto, Return, Returned, Idle, Error, Works,
        Sinks, Flights
  <2>3. CASE UNCHANGED <<sink, flights>> /\ ProbeFinds(Sink)
    BY ActorFacts, <1>0, <1>11, <2>3
    DEF SinkCallComplete, AwaitsInv, AwaitPc, At, ProbeFinds, Works, Sinks, Flights
  <2> QED BY <1>11, <2>1, <2>2, <2>3 DEF SinkCallComplete
<1>12. CASE SinkCommitted
  BY ActorFacts, <1>0, <1>12
  DEF SinkCommitted, AwaitsInv, AwaitPc, At, provider, Works, Sinks, Flights
<1>13. CASE SinkRejected
  BY ActorFacts, <1>0, <1>13
  DEF SinkRejected, AwaitsInv, AwaitPc, At, Goto, Return, Returned, Idle, Works, Sinks, Flights
<1>14. CASE SinkMarkUnknown
  BY ActorFacts, <1>0, <1>14
  DEF SinkMarkUnknown, AwaitsInv, AwaitPc, At, Goto, Return, Returned, Idle, provider, Works,
      Sinks, Flights, Cas
<1>15. CASE SinkReprobe
  BY ActorFacts, <1>0, <1>15
  DEF SinkReprobe, AwaitsInv, AwaitPc, At, Goto, Return, Returned, Idle, provider, Works, Sinks,
      Flights
<1>16. CASE SinkAbort
  BY ActorFacts, <1>0, <1>16
  DEF SinkAbort, AwaitsInv, AwaitPc, At, provider, Works, Sinks, Flights, Cas
<1>17. CASE SinkAbortFinished
  BY ActorFacts, <1>0, <1>17
  DEF SinkAbortFinished, AwaitsInv, AwaitPc, At, Goto, provider, Works, Sinks, Flights
<1>18. CASE SinkRelease
  BY ActorFacts, <1>0, <1>18
  DEF SinkRelease, AwaitsInv, AwaitPc, At, Goto, Return, Returned, Idle, provider, Works, Sinks,
      Flights
<1>19. CASE SinkDrop
  <2>1. \A b \in Actors \ {Sink} : work[b].pc \in {"wait", "rewriteWait", "purgeWait"} =>
           work'[b].pc = work[b].pc /\ work'[b].got = work[b].got
    BY ActorFacts, <1>0, <1>19 DEF SinkDrop, HoldersInv, At, Running, Works
  <2>2. sink'.next = sink.next
    BY <1>0, <1>19 DEF SinkDrop, Sinks
  <2> QED BY <1>19, <2>1, <2>2, AwaitsGiveUp, ActorFacts DEF SinkDrop
<1>20. ASSUME NEW a \in Actors, AmbiguousReply(a) PROVE AwaitsInv'
  <2>1. \A b \in Actors \ {a} : work'[b] = work[b]
    BY <1>0, <1>20 DEF AmbiguousReply, Error, Return, Goto
  <2>2. sink'.next = sink.next
    BY <1>0, <1>20 DEF AmbiguousReply, Error, Sinks
  <2> QED BY <1>20, <2>1, <2>2, AwaitsGiveUp DEF AmbiguousReply
<1>21. ASSUME NEW a \in Actors, Rewrite(a) PROVE AwaitsInv'
  <2>1. CASE Fenced(a)
    <3>1. Send("rewrite", a, work[a].version) /\ Goto(a, "rewriteWait") /\ UNCHANGED sink
      BY <1>21, <2>1 DEF Rewrite
    <3>2. "rewriteWait" = AwaitPc(Flight("rewrite", a, work[a].version))
      BY DEF AwaitPc, Flight
    <3> QED BY <1>21, <3>1, <3>2, AwaitsSend, ActorFacts DEF Rewrite, At
  <2>2. CASE ~Fenced(a)
    BY ActorFacts, <1>0, <1>21, <2>2
    DEF Rewrite, AwaitsInv, AwaitPc, At, Goto, Return, Returned, Idle, Error, Works, Sinks,
        Flights
  <2> QED BY <2>1, <2>2
<1>22. ASSUME NEW a \in Actors, Rewritten(a) PROVE AwaitsInv'
  BY ActorFacts, <1>0, <1>22
  DEF Rewritten, AwaitsInv, AwaitPc, At, provider, Works, Sinks, Flights
<1>23. ASSUME NEW a \in Actors, Resolve(a) PROVE AwaitsInv'
  BY ActorFacts, <1>0, <1>23
  DEF Resolve, AwaitsInv, AwaitPc, At, Goto, Return, Returned, Idle, provider, Works, Sinks,
      Flights, Error
<1>24. ASSUME NEW a \in Actors, Purge(a) PROVE AwaitsInv'
  <2>1. CASE Fenced(a)
    <3>1. PICK v \in work[a].redundant :
             Send("delete", a, v) /\ Goto(a, "purgeWait") /\ UNCHANGED sink
      BY <1>24, <2>1 DEF Purge
    <3>2. "purgeWait" = AwaitPc(Flight("delete", a, v))
      BY DEF AwaitPc, Flight
    <3> QED BY <1>24, <3>1, <3>2, AwaitsSend, ActorFacts DEF Purge, At
  <2>2. CASE ~Fenced(a)
    BY ActorFacts, <1>0, <1>24, <2>2
    DEF Purge, AwaitsInv, AwaitPc, At, Return, Returned, Idle, Works, Sinks, Flights
  <2> QED BY <2>1, <2>2
<1>25. ASSUME NEW a \in Actors, Purged(a) PROVE AwaitsInv'
  BY ActorFacts, <1>0, <1>25 DEF Purged, AwaitsInv, AwaitPc, At, provider, Works, Sinks, Flights
<1>26. ASSUME NEW a \in Actors, Commit(a) PROVE AwaitsInv'
  BY ActorFacts, <1>0, <1>26
  DEF Commit, AwaitsInv, AwaitPc, At, Goto, Return, Returned, Idle, provider, Works, Sinks,
      Flights, MovedToCommitted, Cas
<1>27. ASSUME NEW a \in Actors, Probe(a) PROVE AwaitsInv'
  BY ActorFacts, <1>0, <1>27
  DEF Probe, AwaitsInv, AwaitPc, At, Goto, Return, Returned, Idle, provider, Works, Sinks,
      Flights, ProbeFinds, ProbeMissing, Fenced
<1>28. ASSUME NEW a \in Actors, ProbeUploads(a) PROVE AwaitsInv'
  BY ActorFacts, <1>0, <1>28
  DEF ProbeUploads, AwaitsInv, AwaitPc, At, Goto, Return, Returned, Idle, provider, Works,
      Sinks, Flights, Fenced
<1>29. ASSUME NEW a \in Actors, ConfirmRead(a) PROVE AwaitsInv'
  BY ActorFacts, <1>0, <1>29
  DEF ConfirmRead, AwaitsInv, AwaitPc, At, Goto, Return, Returned, Idle, provider, Works, Sinks,
      Flights
<1>30. ASSUME NEW a \in Actors, ConfirmWrite(a) PROVE AwaitsInv'
  BY ActorFacts, <1>0, <1>30
  DEF ConfirmWrite, AwaitsInv, AwaitPc, At, Return, Returned, Idle, provider, Works, Sinks,
      Flights
<1>31. ASSUME NEW a \in Actors, Cleanup(a) PROVE AwaitsInv'
  BY ActorFacts, <1>0, <1>31
  DEF Cleanup, AwaitsInv, AwaitPc, At, Goto, Return, Returned, Idle, Works, Sinks, Flights
<1>32. ASSUME NEW a \in Actors, FinishAbort(a) PROVE AwaitsInv'
  BY ActorFacts, <1>0, <1>32
  DEF FinishAbort, AwaitsInv, AwaitPc, At, Goto, Return, Returned, Idle, provider, Works, Sinks,
      Flights, Cas
<1>33. ASSUME NEW a \in Actors, Fail(a) PROVE AwaitsInv'
  <2>1. \A b \in Actors \ {a} : work'[b] = work[b]
    BY <1>0, <1>33 DEF Fail, Return
  <2> QED BY <1>33, <2>1, AwaitsGiveUp DEF Fail
<1>34. ASSUME NEW a \in Actors, Renew(a) PROVE AwaitsInv'
  BY ActorFacts, <1>0, <1>34 DEF Renew, AwaitsInv, AwaitPc, At, provider, Works, Sinks, Flights
<1>35. ASSUME NEW r \in Reconcilers, ClaimRead(r) PROVE AwaitsInv'
  BY ActorFacts, <1>0, <1>35
  DEF ClaimRead, AwaitsInv, AwaitPc, At, provider, Works, Sinks, Flights, Claimable
<1>36. ASSUME NEW r \in Reconcilers, ClaimWrite(r) PROVE AwaitsInv'
  BY ActorFacts, <1>0, <1>36
  DEF ClaimWrite, AwaitsInv, AwaitPc, At, Goto, Return, Returned, Idle, provider, Works, Sinks,
      Flights
<1>37. ASSUME NEW r \in Reconcilers, Recover(r) PROVE AwaitsInv'
  BY ActorFacts, <1>0, <1>37
  DEF Recover, AwaitsInv, AwaitPc, At, Goto, Return, Returned, Idle, provider, Works, Sinks,
      Flights
<1>38. ASSUME NEW r \in Reconcilers, Begin(r) PROVE AwaitsInv'
  BY ActorFacts, <1>0, <1>38
  DEF Begin, AwaitsInv, AwaitPc, At, Return, Returned, Idle, provider, Works, Sinks, Flights,
      Cas
<1>39. ASSUME NEW r \in Reconcilers, SettleTerminal(r) PROVE AwaitsInv'
  BY ActorFacts, <1>0, <1>39
  DEF SettleTerminal, AwaitsInv, AwaitPc, At, provider, Works, Sinks, Flights
<1>40. ASSUME NEW f \in flights, Land(f) PROVE AwaitsInv'
  BY ActorFacts, <1>0, <1>40 DEF Land, AwaitsInv, AwaitPc, At, Works, Sinks, Flights, NewVersion
<1>41. CASE ExpireUpload
  BY ActorFacts, <1>0, <1>41 DEF ExpireUpload, AwaitsInv, AwaitPc, At, Works, Sinks, Flights
<1>42. CASE Tick
  BY ActorFacts, <1>0, <1>42 DEF Tick, AwaitsInv, AwaitPc, At, Works, Sinks, Flights, Decrement
<1>43. CASE UNCHANGED vars
  BY <1>0, <1>43 DEF vars, AwaitsInv, AwaitPc, At, Works, Sinks, Flights
<1> QED
  BY <1>1, <1>2, <1>3, <1>4, <1>5, <1>6, <1>7, <1>8, <1>9, <1>10, <1>11, <1>12, <1>13, <1>14,
     <1>15, <1>16, <1>17, <1>18, <1>19, <1>20, <1>21, <1>22, <1>23, <1>24, <1>25, <1>26, <1>27,
     <1>28, <1>29, <1>30, <1>31, <1>32, <1>33, <1>34, <1>35, <1>36, <1>37, <1>38, <1>39, <1>40,
     <1>41, <1>42, <1>43
  DEF Next, SinkNext, CallNext, ReconcilerNext

\* An upload exists before it is recorded, and before it is completed.
LEMMA UploadStep == ASSUME TypeOK, AwaitsInv, UploadInv, [Next]_vars PROVE UploadInv'
<1>0. /\ work \in [Actors -> Works] /\ route \in Routes /\ sink \in Sinks
      /\ flights \subseteq Flights /\ row \in Rows(Reconcilers, Nat)
  BY DEF TypeOK
<1>1. CASE SinkLaunch
  BY <1>1, LaunchFacts DEF UploadInv, At
<1>2. CASE SinkRecordLaunch
  BY ActorFacts, <1>0, <1>2
  DEF SinkRecordLaunch, AwaitsInv, AwaitPc, UploadInv, At, Goto, provider, Works, Sinks, Flights
<1>3. CASE SinkCallCreate
  BY ActorFacts, <1>0, <1>3
  DEF SinkCallCreate, AwaitsInv, AwaitPc, UploadInv, At, Goto, Return, Returned, Idle, Works,
      Sinks, Flights, Send, Flight, Fenced
<1>4. CASE SinkCreated
  BY ActorFacts, <1>0, <1>4
  DEF SinkCreated, AwaitsInv, AwaitPc, UploadInv, At, Goto, provider, Works, Sinks, Flights
<1>5. CASE SinkSetOpen
  BY ActorFacts, <1>0, <1>5
  DEF SinkSetOpen, AwaitsInv, AwaitPc, UploadInv, At, Goto, Return, Returned, Idle, provider,
      Works, Sinks, Flights, Opened, Cas
<1>6. CASE SinkUploadPart
  BY ActorFacts, <1>0, <1>6
  DEF SinkUploadPart, AwaitsInv, AwaitPc, UploadInv, At, Return, Returned, Idle, provider,
      Works, Sinks, Flights
<1>7. CASE SinkVerify
  BY ActorFacts, <1>0, <1>7
  DEF SinkVerify, AwaitsInv, AwaitPc, UploadInv, At, Goto, Return, Returned, Idle, provider,
      Works, Sinks, Flights
<1>8. CASE SinkOpenSingle
  BY ActorFacts, <1>0, <1>8
  DEF SinkOpenSingle, AwaitsInv, AwaitPc, UploadInv, At, Goto, Return, Returned, Idle, provider,
      Works, Sinks, Flights, Opened, Cas
<1>9. CASE SinkStartCompletion
  BY ActorFacts, <1>0, <1>9
  DEF SinkStartCompletion, AwaitsInv, AwaitPc, UploadInv, At, Goto, Return, Returned, Idle,
      provider, Works, Sinks, Flights, Cas
<1>10. CASE SinkCallPut
  BY ActorFacts, <1>0, <1>10
  DEF SinkCallPut, AwaitsInv, AwaitPc, UploadInv, At, Goto, Return, Returned, Idle, Works,
      Sinks, Flights, Send, Flight, Fenced, Error
<1>11. CASE SinkCallComplete
  BY ActorFacts, <1>0, <1>11
  DEF SinkCallComplete, AwaitsInv, AwaitPc, UploadInv, At, Goto, Return, Returned, Idle, Works,
      Sinks, Flights, Send, Flight, Fenced, Error, ProbeFinds, ProbeMissing
<1>12. CASE SinkCommitted
  BY ActorFacts, <1>0, <1>12
  DEF SinkCommitted, AwaitsInv, AwaitPc, UploadInv, At, provider, Works, Sinks, Flights
<1>13. CASE SinkRejected
  BY ActorFacts, <1>0, <1>13
  DEF SinkRejected, AwaitsInv, AwaitPc, UploadInv, At, Goto, Return, Returned, Idle, Works,
      Sinks, Flights
<1>14. CASE SinkMarkUnknown
  BY ActorFacts, <1>0, <1>14
  DEF SinkMarkUnknown, AwaitsInv, AwaitPc, UploadInv, At, Goto, Return, Returned, Idle,
      provider, Works, Sinks, Flights, Cas
<1>15. CASE SinkReprobe
  BY <1>0, <1>15, ReprobeFacts DEF UploadInv, At, Sinks
<1>16. CASE SinkAbort
  BY ActorFacts, <1>0, <1>16
  DEF SinkAbort, AwaitsInv, AwaitPc, UploadInv, At, provider, Works, Sinks, Flights, Cas
<1>17. CASE SinkAbortFinished
  BY ActorFacts, <1>0, <1>17
  DEF SinkAbortFinished, AwaitsInv, AwaitPc, UploadInv, At, Goto, provider, Works, Sinks,
      Flights
<1>18. CASE SinkRelease
  BY ActorFacts, <1>0, <1>18
  DEF SinkRelease, AwaitsInv, AwaitPc, UploadInv, At, Goto, Return, Returned, Idle, provider,
      Works, Sinks, Flights
<1>19. CASE SinkDrop
  BY ActorFacts, <1>0, <1>19
  DEF SinkDrop, AwaitsInv, AwaitPc, UploadInv, At, Idle, Works, Sinks, Flights, Unawaited,
      Running
<1>20. ASSUME NEW a \in Actors, AmbiguousReply(a) PROVE UploadInv'
  BY ActorFacts, <1>0, <1>20
  DEF AmbiguousReply, AwaitsInv, AwaitPc, UploadInv, At, Goto, Return, Returned, Idle, Works,
      Sinks, Flights, Unawaited, Error
<1>21. ASSUME NEW a \in Actors, Rewrite(a) PROVE UploadInv'
  BY ActorFacts, <1>0, <1>21
  DEF Rewrite, AwaitsInv, AwaitPc, UploadInv, At, Goto, Return, Returned, Idle, Works, Sinks,
      Flights, Send, Flight, Error, Fenced
<1>22. ASSUME NEW a \in Actors, Rewritten(a) PROVE UploadInv'
  BY ActorFacts, <1>0, <1>22
  DEF Rewritten, AwaitsInv, AwaitPc, UploadInv, At, provider, Works, Sinks, Flights
<1>23. ASSUME NEW a \in Actors, Resolve(a) PROVE UploadInv'
  BY ActorFacts, <1>0, <1>23
  DEF Resolve, AwaitsInv, AwaitPc, UploadInv, At, Goto, Return, Returned, Idle, provider, Works,
      Sinks, Flights, Error
<1>24. ASSUME NEW a \in Actors, Purge(a) PROVE UploadInv'
  BY ActorFacts, <1>0, <1>24
  DEF Purge, AwaitsInv, AwaitPc, UploadInv, At, Goto, Return, Returned, Idle, Works, Sinks,
      Flights, Send, Flight, Fenced
<1>25. ASSUME NEW a \in Actors, Purged(a) PROVE UploadInv'
  BY ActorFacts, <1>0, <1>25
  DEF Purged, AwaitsInv, AwaitPc, UploadInv, At, provider, Works, Sinks, Flights
<1>26. ASSUME NEW a \in Actors, Commit(a) PROVE UploadInv'
  BY ActorFacts, <1>0, <1>26
  DEF Commit, AwaitsInv, AwaitPc, UploadInv, At, Goto, Return, Returned, Idle, provider, Works,
      Sinks, Flights, MovedToCommitted, Cas
<1>27. ASSUME NEW a \in Actors, Probe(a) PROVE UploadInv'
  BY ActorFacts, <1>0, <1>27
  DEF Probe, AwaitsInv, AwaitPc, UploadInv, At, Goto, Return, Returned, Idle, provider, Works,
      Sinks, Flights, ProbeFinds, ProbeMissing, Fenced
<1>28. ASSUME NEW a \in Actors, ProbeUploads(a) PROVE UploadInv'
  BY ActorFacts, <1>0, <1>28
  DEF ProbeUploads, AwaitsInv, AwaitPc, UploadInv, At, Goto, Return, Returned, Idle, provider,
      Works, Sinks, Flights, Fenced
<1>29. ASSUME NEW a \in Actors, ConfirmRead(a) PROVE UploadInv'
  BY ActorFacts, <1>0, <1>29
  DEF ConfirmRead, AwaitsInv, AwaitPc, UploadInv, At, Goto, Return, Returned, Idle, provider,
      Works, Sinks, Flights
<1>30. ASSUME NEW a \in Actors, ConfirmWrite(a) PROVE UploadInv'
  BY ActorFacts, <1>0, <1>30
  DEF ConfirmWrite, AwaitsInv, AwaitPc, UploadInv, At, Return, Returned, Idle, provider, Works,
      Sinks, Flights
<1>31. ASSUME NEW a \in Actors, Cleanup(a) PROVE UploadInv'
  BY ActorFacts, <1>0, <1>31
  DEF Cleanup, AwaitsInv, AwaitPc, UploadInv, At, Goto, Return, Returned, Idle, Works, Sinks,
      Flights
<1>32. ASSUME NEW a \in Actors, FinishAbort(a) PROVE UploadInv'
  BY ActorFacts, <1>0, <1>32
  DEF FinishAbort, AwaitsInv, AwaitPc, UploadInv, At, Goto, Return, Returned, Idle, provider,
      Works, Sinks, Flights, Cas
<1>33. ASSUME NEW a \in Actors, Fail(a) PROVE UploadInv'
  BY ActorFacts, <1>0, <1>33
  DEF Fail, AwaitsInv, AwaitPc, UploadInv, At, Return, Returned, Idle, Works, Sinks, Flights,
      Unawaited, Running
<1>34. ASSUME NEW a \in Actors, Renew(a) PROVE UploadInv'
  BY ActorFacts, <1>0, <1>34
  DEF Renew, AwaitsInv, AwaitPc, UploadInv, At, provider, Works, Sinks, Flights
<1>35. ASSUME NEW r \in Reconcilers, ClaimRead(r) PROVE UploadInv'
  BY ActorFacts, <1>0, <1>35
  DEF ClaimRead, AwaitsInv, AwaitPc, UploadInv, At, provider, Works, Sinks, Flights, Claimable
<1>36. ASSUME NEW r \in Reconcilers, ClaimWrite(r) PROVE UploadInv'
  BY ActorFacts, <1>0, <1>36
  DEF ClaimWrite, AwaitsInv, AwaitPc, UploadInv, At, Goto, Return, Returned, Idle, provider,
      Works, Sinks, Flights
<1>37. ASSUME NEW r \in Reconcilers, Recover(r) PROVE UploadInv'
  BY ActorFacts, <1>0, <1>37
  DEF Recover, AwaitsInv, AwaitPc, UploadInv, At, Goto, Return, Returned, Idle, provider, Works,
      Sinks, Flights
<1>38. ASSUME NEW r \in Reconcilers, Begin(r) PROVE UploadInv'
  BY ActorFacts, <1>0, <1>38
  DEF Begin, AwaitsInv, AwaitPc, UploadInv, At, Return, Returned, Idle, provider, Works, Sinks,
      Flights, Cas
<1>39. ASSUME NEW r \in Reconcilers, SettleTerminal(r) PROVE UploadInv'
  BY ActorFacts, <1>0, <1>39
  DEF SettleTerminal, AwaitsInv, AwaitPc, UploadInv, At, provider, Works, Sinks, Flights
<1>40. ASSUME NEW f \in flights, Land(f) PROVE UploadInv'
  BY ActorFacts, <1>0, <1>40
  DEF Land, AwaitsInv, AwaitPc, UploadInv, At, Works, Sinks, Flights, NewVersion
<1>41. CASE ExpireUpload
  BY ActorFacts, <1>0, <1>41
  DEF ExpireUpload, AwaitsInv, AwaitPc, UploadInv, At, Works, Sinks, Flights
<1>42. CASE Tick
  BY ActorFacts, <1>0, <1>42
  DEF Tick, AwaitsInv, AwaitPc, UploadInv, At, Works, Sinks, Flights, Decrement
<1>43. CASE UNCHANGED vars
  BY <1>0, <1>43 DEF vars, AwaitsInv, AwaitPc, UploadInv, At, Works, Sinks, Flights
<1> QED
  BY <1>1, <1>2, <1>3, <1>4, <1>5, <1>6, <1>7, <1>8, <1>9, <1>10, <1>11, <1>12, <1>13, <1>14,
     <1>15, <1>16, <1>17, <1>18, <1>19, <1>20, <1>21, <1>22, <1>23, <1>24, <1>25, <1>26, <1>27,
     <1>28, <1>29, <1>30, <1>31, <1>32, <1>33, <1>34, <1>35, <1>36, <1>37, <1>38, <1>39, <1>40,
     <1>41, <1>42, <1>43
  DEF Next, SinkNext, CallNext, ReconcilerNext

\* Every launch is covered by the window recorded before it.
LEMMA WindowStep == ASSUME TypeOK, WindowInv, [Next]_vars PROVE WindowInv'
<1>0. /\ work \in [Actors -> Works] /\ route \in Routes /\ sink \in Sinks
      /\ flights \subseteq Flights /\ row \in Rows(Reconcilers, Nat)
  BY DEF TypeOK
<1>1. CASE SinkLaunch
  BY ActorFacts, <1>0, JournalAssumption, DirectWriteAssumption, <1>1
  DEF SinkLaunch, WindowInv, At, Goto, Return, Returned, Idle, provider, Works, Sinks, Flights,
      LaunchAllowed
<1>2. CASE SinkRecordLaunch
  <2> DEFINE left == Window - (Stall - sink.stall)
  <2>1. left \in Int /\ row.window \in Int /\ FlightTime + sink.stall <= left
    BY <1>0, JournalAssumption, DirectWriteAssumption DEF Sinks, Rows
  <2>2. row'.window = IF left > row.window THEN left ELSE row.window
    BY <1>0, <1>2, RowFields DEF SinkRecordLaunch
  <2>3. \A f \in flights : f.left \in Int
    BY <1>0 DEF Flights
  <2>4. FlightTime + sink.stall \in Int
    BY <1>0, DirectWriteAssumption DEF Sinks
  <2> HIDE DEF left
  <2> QED BY <1>2, <2>1, <2>2, <2>3, <2>4 DEF SinkRecordLaunch, WindowInv, provider
<1>3. CASE SinkCallCreate
  BY ActorFacts, <1>0, JournalAssumption, DirectWriteAssumption, <1>3
  DEF SinkCallCreate, WindowInv, At, Goto, Return, Returned, Idle, Works, Sinks, Flights, Send,
      Flight, Fenced
<1>4. CASE SinkCreated
  BY ActorFacts, <1>0, JournalAssumption, DirectWriteAssumption, <1>4
  DEF SinkCreated, WindowInv, At, Goto, provider, Works, Sinks, Flights
<1>5. CASE SinkSetOpen
  <2>1. row'.window = row.window
    BY <1>0, <1>5 DEF SinkSetOpen, Opened, Rows
  <2> QED
    BY ActorFacts, <1>0, <1>5, <2>1
    DEF SinkSetOpen, Opened, WindowInv, At, Goto, Return, Returned, Idle, provider, Works, Sinks
<1>6. CASE SinkUploadPart
  BY ActorFacts, <1>0, RowFields, JournalAssumption, DirectWriteAssumption, <1>6
  DEF SinkUploadPart, WindowInv, At, Return, Returned, Idle, provider, Works, Sinks, Flights
<1>7. CASE SinkVerify
  BY ActorFacts, <1>0, JournalAssumption, DirectWriteAssumption, <1>7
  DEF SinkVerify, WindowInv, At, Goto, Return, Returned, Idle, provider, Works, Sinks, Flights
<1>8. CASE SinkOpenSingle
  <2>1. row'.window = row.window
    BY <1>0, <1>8 DEF SinkOpenSingle, Opened, Rows
  <2> QED
    BY ActorFacts, <1>0, <1>8, <2>1
    DEF SinkOpenSingle, Opened, WindowInv, At, Goto, Return, Returned, Idle, provider, Works,
        Sinks
<1>9. CASE SinkStartCompletion
  BY ActorFacts, <1>0, RowFields, JournalAssumption, DirectWriteAssumption, <1>9
  DEF SinkStartCompletion, WindowInv, At, Goto, Return, Returned, Idle, provider, Works, Sinks,
      Flights, Cas
<1>10. CASE SinkCallPut
  <2>1. CASE Fenced(Sink)
    <3>1. flights' = flights \cup {Flight("put", Sink, 0)} /\ UNCHANGED <<row, sink>>
      BY <1>10, <2>1 DEF SinkCallPut, Send
    <3>2. work'[Sink].pc = "wait"
      BY ActorFacts, <1>0, <1>10, <2>1 DEF SinkCallPut, Goto, Works
    <3>3. FlightTime <= row.window
      BY <1>0, <1>10, DirectWriteAssumption DEF SinkCallPut, WindowInv, Sinks, Rows
    <3>4. Flight("put", Sink, 0).left = FlightTime
      BY DEF Flight
    <3> QED BY <3>1, <3>2, <3>3, <3>4 DEF WindowInv, At
  <2>2. CASE ~Fenced(Sink)
    BY ActorFacts, <1>0, <1>10, <2>2
    DEF SinkCallPut, WindowInv, At, Goto, Return, Returned, Idle, Error, Works, Sinks
  <2> QED BY <2>1, <2>2
<1>11. CASE SinkCallComplete
  BY ActorFacts, <1>0, JournalAssumption, DirectWriteAssumption, <1>11
  DEF SinkCallComplete, WindowInv, At, Goto, Return, Returned, Idle, Works, Sinks, Flights,
      Send, Flight, Fenced, Error, ProbeFinds, ProbeMissing
<1>12. CASE SinkCommitted
  BY ActorFacts, <1>0, JournalAssumption, DirectWriteAssumption, <1>12
  DEF SinkCommitted, WindowInv, At, provider, Works, Sinks, Flights
<1>13. CASE SinkRejected
  BY ActorFacts, <1>0, JournalAssumption, DirectWriteAssumption, <1>13
  DEF SinkRejected, WindowInv, At, Goto, Return, Returned, Idle, Works, Sinks, Flights
<1>14. CASE SinkMarkUnknown
  BY ActorFacts, <1>0, RowFields, JournalAssumption, DirectWriteAssumption, <1>14
  DEF SinkMarkUnknown, WindowInv, At, Goto, Return, Returned, Idle, provider, Works, Sinks,
      Flights, Cas
<1>15. CASE SinkReprobe
  BY <1>0, <1>15, ReprobeFacts DEF WindowInv, At, Sinks
<1>16. CASE SinkAbort
  BY ActorFacts, <1>0, RowFields, JournalAssumption, DirectWriteAssumption, <1>16
  DEF SinkAbort, WindowInv, At, provider, Works, Sinks, Flights, Cas
<1>17. CASE SinkAbortFinished
  BY ActorFacts, <1>0, JournalAssumption, DirectWriteAssumption, <1>17
  DEF SinkAbortFinished, WindowInv, At, Goto, provider, Works, Sinks, Flights
<1>18. CASE SinkRelease
  BY ActorFacts, <1>0, JournalAssumption, DirectWriteAssumption, <1>18
  DEF SinkRelease, WindowInv, At, Goto, Return, Returned, Idle, provider, Works, Sinks, Flights
<1>19. CASE SinkDrop
  BY ActorFacts, <1>0, JournalAssumption, DirectWriteAssumption, <1>19
  DEF SinkDrop, WindowInv, At, Idle, Works, Sinks, Flights, Unawaited, Running
<1>20. ASSUME NEW a \in Actors, AmbiguousReply(a) PROVE WindowInv'
  BY ActorFacts, <1>0, JournalAssumption, DirectWriteAssumption, <1>20
  DEF AmbiguousReply, WindowInv, At, Goto, Return, Returned, Idle, Works, Sinks, Flights,
      Unawaited, Error
<1>21. ASSUME NEW a \in Actors, Rewrite(a) PROVE WindowInv'
  BY ActorFacts, <1>0, JournalAssumption, DirectWriteAssumption, <1>21
  DEF Rewrite, WindowInv, At, Goto, Return, Returned, Idle, Works, Sinks, Flights, Send, Flight,
      Error, Fenced
<1>22. ASSUME NEW a \in Actors, Rewritten(a) PROVE WindowInv'
  BY ActorFacts, <1>0, JournalAssumption, DirectWriteAssumption, <1>22
  DEF Rewritten, WindowInv, At, provider, Works, Sinks, Flights
<1>23. ASSUME NEW a \in Actors, Resolve(a) PROVE WindowInv'
  BY ActorFacts, <1>0, JournalAssumption, DirectWriteAssumption, <1>23
  DEF Resolve, WindowInv, At, Goto, Return, Returned, Idle, provider, Works, Sinks, Flights,
      Error
<1>24. ASSUME NEW a \in Actors, Purge(a) PROVE WindowInv'
  BY ActorFacts, <1>0, JournalAssumption, DirectWriteAssumption, <1>24
  DEF Purge, WindowInv, At, Goto, Return, Returned, Idle, Works, Sinks, Flights, Send, Flight,
      Fenced
<1>25. ASSUME NEW a \in Actors, Purged(a) PROVE WindowInv'
  BY ActorFacts, <1>0, JournalAssumption, DirectWriteAssumption, <1>25
  DEF Purged, WindowInv, At, provider, Works, Sinks, Flights
<1>26. ASSUME NEW a \in Actors, Commit(a) PROVE WindowInv'
  BY ActorFacts, <1>0, <1>26, CommitFacts DEF WindowInv, At, Sinks
<1>27. ASSUME NEW a \in Actors, Probe(a) PROVE WindowInv'
  BY ActorFacts, <1>0, JournalAssumption, DirectWriteAssumption, <1>27
  DEF Probe, WindowInv, At, Goto, Return, Returned, Idle, provider, Works, Sinks, Flights,
      ProbeFinds, ProbeMissing, Fenced
<1>28. ASSUME NEW a \in Actors, ProbeUploads(a) PROVE WindowInv'
  BY ActorFacts, <1>0, JournalAssumption, DirectWriteAssumption, <1>28
  DEF ProbeUploads, WindowInv, At, Goto, Return, Returned, Idle, provider, Works, Sinks,
      Flights, Fenced
<1>29. ASSUME NEW a \in Actors, ConfirmRead(a) PROVE WindowInv'
  BY ActorFacts, <1>0, JournalAssumption, DirectWriteAssumption, <1>29
  DEF ConfirmRead, WindowInv, At, Goto, Return, Returned, Idle, provider, Works, Sinks, Flights
<1>30. ASSUME NEW a \in Actors, ConfirmWrite(a) PROVE WindowInv'
  BY ActorFacts, <1>0, RowFields, JournalAssumption, DirectWriteAssumption, <1>30
  DEF ConfirmWrite, WindowInv, At, Return, Returned, Idle, provider, Works, Sinks, Flights
<1>31. ASSUME NEW a \in Actors, Cleanup(a) PROVE WindowInv'
  BY ActorFacts, <1>0, JournalAssumption, DirectWriteAssumption, <1>31
  DEF Cleanup, WindowInv, At, Goto, Return, Returned, Idle, Works, Sinks, Flights
<1>32. ASSUME NEW a \in Actors, FinishAbort(a) PROVE WindowInv'
  BY ActorFacts, <1>0, RowFields, JournalAssumption, DirectWriteAssumption, <1>32
  DEF FinishAbort, WindowInv, At, Goto, Return, Returned, Idle, provider, Works, Sinks, Flights,
      Cas
<1>33. ASSUME NEW a \in Actors, Fail(a) PROVE WindowInv'
  BY ActorFacts, <1>0, JournalAssumption, DirectWriteAssumption, <1>33
  DEF Fail, WindowInv, At, Return, Returned, Idle, Works, Sinks, Flights, Unawaited, Running
<1>34. ASSUME NEW a \in Actors, Renew(a) PROVE WindowInv'
  BY ActorFacts, <1>0, JournalAssumption, DirectWriteAssumption, <1>34
  DEF Renew, WindowInv, At, provider, Works, Sinks, Flights
<1>35. ASSUME NEW r \in Reconcilers, ClaimRead(r) PROVE WindowInv'
  BY ActorFacts, <1>0, JournalAssumption, DirectWriteAssumption, <1>35
  DEF ClaimRead, WindowInv, At, provider, Works, Sinks, Flights, Claimable
<1>36. ASSUME NEW r \in Reconcilers, ClaimWrite(r) PROVE WindowInv'
  BY ActorFacts, <1>0, RowFields, JournalAssumption, DirectWriteAssumption, <1>36
  DEF ClaimWrite, WindowInv, At, Goto, Return, Returned, Idle, provider, Works, Sinks, Flights
<1>37. ASSUME NEW r \in Reconcilers, Recover(r) PROVE WindowInv'
  BY ActorFacts, <1>0, JournalAssumption, DirectWriteAssumption, <1>37
  DEF Recover, WindowInv, At, Goto, Return, Returned, Idle, provider, Works, Sinks, Flights
<1>38. ASSUME NEW r \in Reconcilers, Begin(r) PROVE WindowInv'
  BY ActorFacts, <1>0, RowFields, JournalAssumption, DirectWriteAssumption, <1>38
  DEF Begin, WindowInv, At, Return, Returned, Idle, provider, Works, Sinks, Flights, Cas
<1>39. ASSUME NEW r \in Reconcilers, SettleTerminal(r) PROVE WindowInv'
  BY ActorFacts, <1>0, JournalAssumption, DirectWriteAssumption, <1>39
  DEF SettleTerminal, WindowInv, At, provider, Works, Sinks, Flights
<1>40. ASSUME NEW f \in flights, Land(f) PROVE WindowInv'
  BY ActorFacts, <1>0, JournalAssumption, DirectWriteAssumption, <1>40
  DEF Land, WindowInv, At, Works, Sinks, Flights, NewVersion
<1>41. CASE ExpireUpload
  BY ActorFacts, <1>0, JournalAssumption, DirectWriteAssumption, <1>41
  DEF ExpireUpload, WindowInv, At, Works, Sinks, Flights
<1>42. CASE Tick
  <2>1. row'.window = Decrement(row.window) /\ row.window \in Nat
    BY <1>0, <1>42, RowFields, JournalAssumption DEF Tick, Rows
  <2>2. ASSUME NEW g \in flights', g.kind = "put" PROVE g.left <= row'.window
    <3>1. PICK f \in flights : f.kind = "put" /\ f.left = g.left + 1 /\ f.left \in Int /\ f.left > 1
      BY <1>42, <2>2, TickFacts
    <3>2. f.left <= row.window
      BY <3>1 DEF WindowInv
    <3>3. g \in Flights
      BY <1>42, TickFlights DEF Tick
    <3> QED BY <2>1, <3>1, <3>2, <3>3 DEF Decrement, Flights
  <2>3. ASSUME At(Sink, "call")', sink'.next = "put"
        PROVE  FlightTime + sink'.stall <= row'.window
    <3>1. At(Sink, "call") /\ sink.next = "put" /\ sink'.stall = Decrement(sink.stall)
      BY ActorFacts, <1>0, <1>42, <2>3 DEF Tick, At, Works, Sinks
    <3>2. sink.stall # 0
      BY <1>42, <3>1 DEF Tick, Urgent
    <3>3. FlightTime + sink.stall <= row.window
      BY <3>1 DEF WindowInv
    <3> QED BY <1>0, <2>1, <3>1, <3>2, <3>3, DirectWriteAssumption DEF Decrement, Sinks
  <2> QED BY <2>2, <2>3 DEF WindowInv
<1>43. CASE UNCHANGED vars
  BY <1>0, <1>43 DEF vars, WindowInv, At, Works, Sinks, Flights
<1> QED
  BY <1>1, <1>2, <1>3, <1>4, <1>5, <1>6, <1>7, <1>8, <1>9, <1>10, <1>11, <1>12, <1>13, <1>14,
     <1>15, <1>16, <1>17, <1>18, <1>19, <1>20, <1>21, <1>22, <1>23, <1>24, <1>25, <1>26, <1>27,
     <1>28, <1>29, <1>30, <1>31, <1>32, <1>33, <1>34, <1>35, <1>36, <1>37, <1>38, <1>39, <1>40,
     <1>41, <1>42, <1>43
  DEF Next, SinkNext, CallNext, ReconcilerNext

\* Nothing that creates a version is sent from an early row.
LEMMA EarlyStep == ASSUME TypeOK, EarlyInv, [Next]_vars PROVE EarlyInv'
<1>0. /\ work \in [Actors -> Works] /\ route \in Routes /\ sink \in Sinks
      /\ flights \subseteq Flights /\ row \in Rows(Reconcilers, Nat)
  BY DEF TypeOK
<1>1. CASE SinkLaunch
  BY ActorFacts, <1>0, <1>1, LaunchFacts
  DEF EarlyInv, NoCommitBeforeCompleting, LatePc, Early, At
<1>2. CASE SinkRecordLaunch
  BY ActorFacts, <1>0, RowFields, <1>2
  DEF SinkRecordLaunch, EarlyInv, NoCommitBeforeCompleting, LatePc, Early, At, Goto, provider,
      Works, Sinks, Flights
<1>3. CASE SinkCallCreate
  BY ActorFacts, <1>0, <1>3
  DEF SinkCallCreate, EarlyInv, NoCommitBeforeCompleting, LatePc, Early, At, Goto, Return,
      Returned, Idle, Works, Sinks, Flights, Send, Flight, Fenced
<1>4. CASE SinkCreated
  BY ActorFacts, <1>0, <1>4
  DEF SinkCreated, EarlyInv, NoCommitBeforeCompleting, LatePc, Early, At, Goto, provider, Works,
      Sinks, Flights
<1>5. CASE SinkSetOpen
  <2>1. row'.state = row.state \/ (row.state = "Intent" /\ row'.state = "Open")
    BY <1>0, <1>5 DEF SinkSetOpen, Opened, Cas, Rows
  <2> QED
    BY ActorFacts, <1>0, <1>5, <2>1
    DEF SinkSetOpen, Opened, EarlyInv, NoCommitBeforeCompleting, LatePc, Early, At, Goto,
        Return, Returned, 
        Idle, provider, Works, Sinks
<1>6. CASE SinkUploadPart
  BY ActorFacts, <1>0, RowFields, <1>6
  DEF SinkUploadPart, EarlyInv, NoCommitBeforeCompleting, LatePc, Early, At, Return, Returned,
      Idle, provider, Works, Sinks, Flights
<1>7. CASE SinkVerify
  BY ActorFacts, <1>0, <1>7
  DEF SinkVerify, EarlyInv, NoCommitBeforeCompleting, LatePc, Early, At, Goto, Return, Returned,
      Idle, provider, Works, Sinks, Flights
<1>8. CASE SinkOpenSingle
  <2>1. row'.state = row.state \/ (row.state = "Intent" /\ row'.state = "Open")
    BY <1>0, <1>8 DEF SinkOpenSingle, Opened, Cas, Rows
  <2> QED
    BY ActorFacts, <1>0, <1>8, <2>1
    DEF SinkOpenSingle, Opened, EarlyInv, NoCommitBeforeCompleting, LatePc, Early, At, Goto,
        Return, Returned, 
        Idle, provider, Works, Sinks
<1>9. CASE SinkStartCompletion
  BY ActorFacts, <1>0, RowFields, <1>9
  DEF SinkStartCompletion, EarlyInv, NoCommitBeforeCompleting, LatePc, Early, At, Goto, Return,
      Returned, Idle, provider, Works, Sinks, Flights, Cas
<1>10. CASE SinkCallPut
  BY ActorFacts, <1>0, <1>10
  DEF SinkCallPut, EarlyInv, NoCommitBeforeCompleting, LatePc, Early, At, Goto, Return,
      Returned, Idle, Works, Sinks, Flights, Send, Flight, Fenced, Error
<1>11. CASE SinkCallComplete
  BY ActorFacts, <1>0, <1>11
  DEF SinkCallComplete, EarlyInv, NoCommitBeforeCompleting, LatePc, Early, At, Goto, Return,
      Returned, Idle, Works, Sinks, Flights, Send, Flight, Fenced, Error, ProbeFinds,
      ProbeMissing
<1>12. CASE SinkCommitted
  BY ActorFacts, <1>0, <1>12
  DEF SinkCommitted, EarlyInv, NoCommitBeforeCompleting, LatePc, Early, At, provider, Works,
      Sinks, Flights
<1>13. CASE SinkRejected
  BY ActorFacts, <1>0, <1>13
  DEF SinkRejected, EarlyInv, NoCommitBeforeCompleting, LatePc, Early, At, Goto, Return,
      Returned, Idle, Works, Sinks, Flights
<1>14. CASE SinkMarkUnknown
  BY ActorFacts, <1>0, RowFields, <1>14
  DEF SinkMarkUnknown, EarlyInv, NoCommitBeforeCompleting, LatePc, Early, At, Goto, Return,
      Returned, Idle, provider, Works, Sinks, Flights, Cas
<1>15. CASE SinkReprobe
  BY ActorFacts, <1>0, <1>15, ReprobeFacts
  DEF EarlyInv, NoCommitBeforeCompleting, LatePc, Early, At, Sinks
<1>16. CASE SinkAbort
  BY ActorFacts, <1>0, RowFields, <1>16
  DEF SinkAbort, EarlyInv, NoCommitBeforeCompleting, LatePc, Early, At, provider, Works, Sinks,
      Flights, Cas
<1>17. CASE SinkAbortFinished
  BY ActorFacts, <1>0, <1>17
  DEF SinkAbortFinished, EarlyInv, NoCommitBeforeCompleting, LatePc, Early, At, Goto, provider,
      Works, Sinks, Flights
<1>18. CASE SinkRelease
  BY ActorFacts, <1>0, <1>18
  DEF SinkRelease, EarlyInv, NoCommitBeforeCompleting, LatePc, Early, At, Goto, Return, Returned,
      Idle, provider, Works, Sinks, Flights
<1>19. CASE SinkDrop
  BY ActorFacts, <1>0, <1>19
  DEF SinkDrop, EarlyInv, NoCommitBeforeCompleting, LatePc, Early, At, Idle, Works, Sinks,
      Flights, Unawaited, Running
<1>20. ASSUME NEW a \in Actors, AmbiguousReply(a) PROVE EarlyInv'
  BY ActorFacts, <1>0, <1>20
  DEF AmbiguousReply, EarlyInv, NoCommitBeforeCompleting, LatePc, Early, At, Goto, Return,
      Returned, Idle, Works, Sinks, Flights, Unawaited, Error
<1>21. ASSUME NEW a \in Actors, Rewrite(a) PROVE EarlyInv'
  BY ActorFacts, <1>0, <1>21
  DEF Rewrite, EarlyInv, NoCommitBeforeCompleting, LatePc, Early, At, Goto, Return, Returned,
      Idle, Works, Sinks, Flights, Send, Flight, Error, Fenced
<1>22. ASSUME NEW a \in Actors, Rewritten(a) PROVE EarlyInv'
  BY ActorFacts, <1>0, <1>22
  DEF Rewritten, EarlyInv, NoCommitBeforeCompleting, LatePc, Early, At, provider, Works, Sinks,
      Flights
<1>23. ASSUME NEW a \in Actors, Resolve(a) PROVE EarlyInv'
  BY ActorFacts, <1>0, <1>23
  DEF Resolve, EarlyInv, NoCommitBeforeCompleting, LatePc, Early, At, Goto, Return, Returned,
      Idle, provider, Works, Sinks, Flights, Error
<1>24. ASSUME NEW a \in Actors, Purge(a) PROVE EarlyInv'
  BY ActorFacts, <1>0, <1>24
  DEF Purge, EarlyInv, NoCommitBeforeCompleting, LatePc, Early, At, Goto, Return, Returned,
      Idle, Works, Sinks, Flights, Send, Flight, Fenced
<1>25. ASSUME NEW a \in Actors, Purged(a) PROVE EarlyInv'
  BY ActorFacts, <1>0, <1>25
  DEF Purged, EarlyInv, NoCommitBeforeCompleting, LatePc, Early, At, provider, Works, Sinks,
      Flights
<1>26. ASSUME NEW a \in Actors, Commit(a) PROVE EarlyInv'
  <2>1. row.state \notin Early
    BY <1>26 DEF Commit, EarlyInv, LatePc, At
  <2> QED
    BY ActorFacts, <1>0, <1>26, <2>1, CommitFacts
    DEF EarlyInv, NoCommitBeforeCompleting, LatePc, Early, At, Sinks
<1>27. ASSUME NEW a \in Actors, Probe(a) PROVE EarlyInv'
  BY ActorFacts, <1>0, <1>27
  DEF Probe, EarlyInv, NoCommitBeforeCompleting, LatePc, Early, At, Goto, Return, Returned,
      Idle, provider, Works, Sinks, Flights, ProbeFinds, ProbeMissing, Fenced
<1>28. ASSUME NEW a \in Actors, ProbeUploads(a) PROVE EarlyInv'
  BY ActorFacts, <1>0, <1>28
  DEF ProbeUploads, EarlyInv, NoCommitBeforeCompleting, LatePc, Early, At, Goto, Return,
      Returned, Idle, provider, Works, Sinks, Flights, Fenced
<1>29. ASSUME NEW a \in Actors, ConfirmRead(a) PROVE EarlyInv'
  BY ActorFacts, <1>0, <1>29
  DEF ConfirmRead, EarlyInv, NoCommitBeforeCompleting, LatePc, Early, At, Goto, Return,
      Returned, Idle, provider, Works, Sinks, Flights
<1>30. ASSUME NEW a \in Actors, ConfirmWrite(a) PROVE EarlyInv'
  BY ActorFacts, <1>0, RowFields, <1>30
  DEF ConfirmWrite, EarlyInv, NoCommitBeforeCompleting, LatePc, Early, At, Return, Returned,
      Idle, provider, Works, Sinks, Flights
<1>31. ASSUME NEW a \in Actors, Cleanup(a) PROVE EarlyInv'
  BY ActorFacts, <1>0, <1>31
  DEF Cleanup, EarlyInv, NoCommitBeforeCompleting, LatePc, Early, At, Goto, Return, Returned,
      Idle, Works, Sinks, Flights
<1>32. ASSUME NEW a \in Actors, FinishAbort(a) PROVE EarlyInv'
  BY ActorFacts, <1>0, RowFields, <1>32
  DEF FinishAbort, EarlyInv, NoCommitBeforeCompleting, LatePc, Early, At, Goto, Return,
      Returned, Idle, provider, Works, Sinks, Flights, Cas
<1>33. ASSUME NEW a \in Actors, Fail(a) PROVE EarlyInv'
  BY ActorFacts, <1>0, <1>33
  DEF Fail, EarlyInv, NoCommitBeforeCompleting, LatePc, Early, At, Return, Returned, Idle,
      Works, Sinks, Flights, Unawaited, Running
<1>34. ASSUME NEW a \in Actors, Renew(a) PROVE EarlyInv'
  BY ActorFacts, <1>0, <1>34
  DEF Renew, EarlyInv, NoCommitBeforeCompleting, LatePc, Early, At, provider, Works, Sinks,
      Flights
<1>35. ASSUME NEW r \in Reconcilers, ClaimRead(r) PROVE EarlyInv'
  BY ActorFacts, <1>0, <1>35
  DEF ClaimRead, EarlyInv, NoCommitBeforeCompleting, LatePc, Early, At, provider, Works, Sinks,
      Flights, Claimable
<1>36. ASSUME NEW r \in Reconcilers, ClaimWrite(r) PROVE EarlyInv'
  BY ActorFacts, <1>0, RowFields, <1>36
  DEF ClaimWrite, EarlyInv, NoCommitBeforeCompleting, LatePc, Early, At, Goto, Return, Returned,
      Idle, provider, Works, Sinks, Flights
<1>37. ASSUME NEW r \in Reconcilers, Recover(r) PROVE EarlyInv'
  BY ActorFacts, <1>0, <1>37
  DEF Recover, EarlyInv, NoCommitBeforeCompleting, LatePc, Early, At, Goto, Return, Returned,
      Idle, provider, Works, Sinks, Flights
<1>38. ASSUME NEW r \in Reconcilers, Begin(r) PROVE EarlyInv'
  BY ActorFacts, <1>0, RowFields, <1>38
  DEF Begin, EarlyInv, NoCommitBeforeCompleting, LatePc, Early, At, Return, Returned, Idle,
      provider, Works, Sinks, Flights, Cas
<1>39. ASSUME NEW r \in Reconcilers, SettleTerminal(r) PROVE EarlyInv'
  BY ActorFacts, <1>0, <1>39
  DEF SettleTerminal, EarlyInv, NoCommitBeforeCompleting, LatePc, Early, At, provider, Works,
      Sinks, Flights
<1>40. ASSUME NEW f \in flights, Land(f) PROVE EarlyInv'
  BY ActorFacts, <1>0, <1>40
  DEF Land, EarlyInv, NoCommitBeforeCompleting, LatePc, Early, At, Works, Sinks, Flights,
      NewVersion
<1>41. CASE ExpireUpload
  BY ActorFacts, <1>0, <1>41
  DEF ExpireUpload, EarlyInv, NoCommitBeforeCompleting, LatePc, Early, At, Works, Sinks, Flights
<1>42. CASE Tick
  BY ActorFacts, <1>0, RowFields, <1>42
  DEF Tick, EarlyInv, NoCommitBeforeCompleting, LatePc, Early, At, Works, Sinks, Flights,
      Decrement
<1>43. CASE UNCHANGED vars
  BY <1>0, <1>43
  DEF vars, EarlyInv, NoCommitBeforeCompleting, LatePc, Early, At, Works, Sinks, Flights
<1> QED
  BY <1>1, <1>2, <1>3, <1>4, <1>5, <1>6, <1>7, <1>8, <1>9, <1>10, <1>11, <1>12, <1>13, <1>14,
     <1>15, <1>16, <1>17, <1>18, <1>19, <1>20, <1>21, <1>22, <1>23, <1>24, <1>25, <1>26, <1>27,
     <1>28, <1>29, <1>30, <1>31, <1>32, <1>33, <1>34, <1>35, <1>36, <1>37, <1>38, <1>39, <1>40,
     <1>41, <1>42, <1>43
  DEF Next, SinkNext, CallNext, ReconcilerNext

\* Once no first version can be created, none can be created later.
LEMMA QuietStep == ASSUME TypeOK, EarlyInv, Quiet, [Next]_vars PROVE Quiet'
<1>0. /\ work \in [Actors -> Works] /\ route \in Routes /\ sink \in Sinks
      /\ flights \subseteq Flights /\ row \in Rows(Reconcilers, Nat)
  BY DEF TypeOK
<1>1. CASE SinkLaunch
  BY <1>1, LaunchFacts DEF Quiet, Sending, At
<1>2. CASE SinkRecordLaunch
  BY ActorFacts, <1>0, RowFields, <1>2
  DEF SinkRecordLaunch, EarlyInv, Quiet, Sending, Routes, At, Goto, provider, Works, Sinks,
      Flights
<1>3. CASE SinkCallCreate
  BY ActorFacts, <1>0, <1>3
  DEF SinkCallCreate, EarlyInv, Quiet, Sending, Routes, At, Goto, Return, Returned, Idle, Works,
      Sinks, Flights, Send, Flight, Fenced
<1>4. CASE SinkCreated
  BY ActorFacts, <1>0, <1>4
  DEF SinkCreated, EarlyInv, Quiet, Sending, Routes, At, Goto, provider, Works, Sinks, Flights
<1>5. CASE SinkSetOpen
  <2>1. row' = row
    BY <1>5 DEF SinkSetOpen, Cas, Quiet
  <2> QED
    BY ActorFacts, <1>0, <1>5, <2>1
    DEF SinkSetOpen, Opened, Quiet, Sending, At, Goto, Return, Returned, Idle, provider, Works,
        Sinks, Cas
<1>6. CASE SinkUploadPart
  BY ActorFacts, <1>0, RowFields, <1>6
  DEF SinkUploadPart, EarlyInv, Quiet, Sending, Routes, At, Return, Returned, Idle, provider,
      Works, Sinks, Flights
<1>7. CASE SinkVerify
  BY ActorFacts, <1>0, <1>7
  DEF SinkVerify, EarlyInv, Quiet, Sending, Routes, At, Goto, Return, Returned, Idle, provider,
      Works, Sinks, Flights
<1>8. CASE SinkOpenSingle
  <2>1. row' = row
    BY <1>8 DEF SinkOpenSingle, Cas, Quiet
  <2> QED
    BY ActorFacts, <1>0, <1>8, <2>1
    DEF SinkOpenSingle, Opened, Quiet, Sending, At, Goto, Return, Returned, Idle, provider,
        Works, Sinks, Cas
<1>9. CASE SinkStartCompletion
  BY ActorFacts, <1>0, RowFields, <1>9
  DEF SinkStartCompletion, EarlyInv, Quiet, Sending, Routes, At, Goto, Return, Returned, Idle,
      provider, Works, Sinks, Flights, Cas
<1>10. CASE SinkCallPut
  BY ActorFacts, <1>0, <1>10
  DEF SinkCallPut, EarlyInv, Quiet, Sending, Routes, At, Goto, Return, Returned, Idle, Works,
      Sinks, Flights, Send, Flight, Fenced, Error
<1>11. CASE SinkCallComplete
  BY ActorFacts, <1>0, <1>11
  DEF SinkCallComplete, EarlyInv, Quiet, Sending, Routes, At, Goto, Return, Returned, Idle,
      Works, Sinks, Flights, Send, Flight, Fenced, Error, ProbeFinds, ProbeMissing
<1>12. CASE SinkCommitted
  BY ActorFacts, <1>0, <1>12
  DEF SinkCommitted, EarlyInv, Quiet, Sending, Routes, At, provider, Works, Sinks, Flights
<1>13. CASE SinkRejected
  BY ActorFacts, <1>0, <1>13
  DEF SinkRejected, EarlyInv, Quiet, Sending, Routes, At, Goto, Return, Returned, Idle, Works,
      Sinks, Flights
<1>14. CASE SinkMarkUnknown
  BY ActorFacts, <1>0, RowFields, <1>14
  DEF SinkMarkUnknown, EarlyInv, Quiet, Sending, Routes, At, Goto, Return, Returned, Idle,
      provider, Works, Sinks, Flights, Cas
<1>15. CASE SinkReprobe
  BY <1>0, <1>15, ReprobeFacts DEF Quiet, Sending, At, Sinks
<1>16. CASE SinkAbort
  BY ActorFacts, <1>0, RowFields, <1>16
  DEF SinkAbort, EarlyInv, Quiet, Sending, Routes, At, provider, Works, Sinks, Flights, Cas
<1>17. CASE SinkAbortFinished
  BY ActorFacts, <1>0, <1>17
  DEF SinkAbortFinished, EarlyInv, Quiet, Sending, Routes, At, Goto, provider, Works, Sinks,
      Flights
<1>18. CASE SinkRelease
  BY ActorFacts, <1>0, <1>18
  DEF SinkRelease, EarlyInv, Quiet, Sending, Routes, At, Goto, Return, Returned, Idle, provider,
      Works, Sinks, Flights
<1>19. CASE SinkDrop
  BY ActorFacts, <1>0, <1>19
  DEF SinkDrop, EarlyInv, Quiet, Sending, Routes, At, Idle, Works, Sinks, Flights, Unawaited,
      Running
<1>20. ASSUME NEW a \in Actors, AmbiguousReply(a) PROVE Quiet'
  BY ActorFacts, <1>0, <1>20
  DEF AmbiguousReply, EarlyInv, Quiet, Sending, Routes, At, Goto, Return, Returned, Idle, Works,
      Sinks, Flights, Unawaited, Error
<1>21. ASSUME NEW a \in Actors, Rewrite(a) PROVE Quiet'
  BY ActorFacts, <1>0, <1>21
  DEF Rewrite, EarlyInv, Quiet, Sending, Routes, At, Goto, Return, Returned, Idle, Works, Sinks,
      Flights, Send, Flight, Error, Fenced
<1>22. ASSUME NEW a \in Actors, Rewritten(a) PROVE Quiet'
  BY ActorFacts, <1>0, <1>22
  DEF Rewritten, EarlyInv, Quiet, Sending, Routes, At, provider, Works, Sinks, Flights
<1>23. ASSUME NEW a \in Actors, Resolve(a) PROVE Quiet'
  BY ActorFacts, <1>0, <1>23
  DEF Resolve, EarlyInv, Quiet, Sending, Routes, At, Goto, Return, Returned, Idle, provider,
      Works, Sinks, Flights, Error
<1>24. ASSUME NEW a \in Actors, Purge(a) PROVE Quiet'
  BY ActorFacts, <1>0, <1>24
  DEF Purge, EarlyInv, Quiet, Sending, Routes, At, Goto, Return, Returned, Idle, Works, Sinks,
      Flights, Send, Flight, Fenced
<1>25. ASSUME NEW a \in Actors, Purged(a) PROVE Quiet'
  BY ActorFacts, <1>0, <1>25
  DEF Purged, EarlyInv, Quiet, Sending, Routes, At, provider, Works, Sinks, Flights
<1>26. ASSUME NEW a \in Actors, Commit(a) PROVE Quiet'
  BY ActorFacts, <1>0, <1>26, CommitFacts DEF Quiet, Sending, At, Sinks
<1>27. ASSUME NEW a \in Actors, Probe(a) PROVE Quiet'
  BY ActorFacts, <1>0, <1>27
  DEF Probe, EarlyInv, Quiet, Sending, Routes, At, Goto, Return, Returned, Idle, provider,
      Works, Sinks, Flights, ProbeFinds, ProbeMissing, Fenced
<1>28. ASSUME NEW a \in Actors, ProbeUploads(a) PROVE Quiet'
  BY ActorFacts, <1>0, <1>28
  DEF ProbeUploads, EarlyInv, Quiet, Sending, Routes, At, Goto, Return, Returned, Idle,
      provider, Works, Sinks, Flights, Fenced
<1>29. ASSUME NEW a \in Actors, ConfirmRead(a) PROVE Quiet'
  BY ActorFacts, <1>0, <1>29
  DEF ConfirmRead, EarlyInv, Quiet, Sending, Routes, At, Goto, Return, Returned, Idle, provider,
      Works, Sinks, Flights
<1>30. ASSUME NEW a \in Actors, ConfirmWrite(a) PROVE Quiet'
  BY ActorFacts, <1>0, RowFields, <1>30
  DEF ConfirmWrite, EarlyInv, Quiet, Sending, Routes, At, Return, Returned, Idle, provider,
      Works, Sinks, Flights
<1>31. ASSUME NEW a \in Actors, Cleanup(a) PROVE Quiet'
  BY ActorFacts, <1>0, <1>31
  DEF Cleanup, EarlyInv, Quiet, Sending, Routes, At, Goto, Return, Returned, Idle, Works, Sinks,
      Flights
<1>32. ASSUME NEW a \in Actors, FinishAbort(a) PROVE Quiet'
  BY ActorFacts, <1>0, RowFields, <1>32
  DEF FinishAbort, EarlyInv, Quiet, Sending, Routes, At, Goto, Return, Returned, Idle, provider,
      Works, Sinks, Flights, Cas
<1>33. ASSUME NEW a \in Actors, Fail(a) PROVE Quiet'
  BY ActorFacts, <1>0, <1>33
  DEF Fail, EarlyInv, Quiet, Sending, Routes, At, Return, Returned, Idle, Works, Sinks, Flights,
      Unawaited, Running
<1>34. ASSUME NEW a \in Actors, Renew(a) PROVE Quiet'
  BY ActorFacts, <1>0, <1>34
  DEF Renew, EarlyInv, Quiet, Sending, Routes, At, provider, Works, Sinks, Flights
<1>35. ASSUME NEW r \in Reconcilers, ClaimRead(r) PROVE Quiet'
  BY ActorFacts, <1>0, <1>35
  DEF ClaimRead, EarlyInv, Quiet, Sending, Routes, At, provider, Works, Sinks, Flights,
      Claimable
<1>36. ASSUME NEW r \in Reconcilers, ClaimWrite(r) PROVE Quiet'
  BY ActorFacts, <1>0, RowFields, <1>36
  DEF ClaimWrite, EarlyInv, Quiet, Sending, Routes, At, Goto, Return, Returned, Idle, provider,
      Works, Sinks, Flights
<1>37. ASSUME NEW r \in Reconcilers, Recover(r) PROVE Quiet'
  <2>1. CASE route' = [route EXCEPT !.holders = {r}, !.left = RouteLease]
    <3>1. Sink \notin route'.holders
      BY ActorFacts, <1>0, <2>1 DEF Routes
    <3> QED BY <1>37, <3>1 DEF Recover, Quiet, provider
  <2>2. CASE UNCHANGED route
    BY ActorFacts, <1>0, <1>37, <2>2
    DEF Recover, Quiet, Sending, At, Goto, Return, provider, Works
  <2> QED BY <1>37, <2>1, <2>2 DEF Recover
<1>38. ASSUME NEW r \in Reconcilers, Begin(r) PROVE Quiet'
  BY ActorFacts, <1>0, RowFields, <1>38
  DEF Begin, EarlyInv, Quiet, Sending, Routes, At, Return, Returned, Idle, provider, Works,
      Sinks, Flights, Cas
<1>39. ASSUME NEW r \in Reconcilers, SettleTerminal(r) PROVE Quiet'
  BY ActorFacts, <1>0, <1>39
  DEF SettleTerminal, EarlyInv, Quiet, Sending, Routes, At, provider, Works, Sinks, Flights
<1>40. ASSUME NEW f \in flights, Land(f) PROVE Quiet'
  BY ActorFacts, <1>0, <1>40
  DEF Land, EarlyInv, Quiet, Sending, Routes, At, Works, Sinks, Flights, NewVersion
<1>41. CASE ExpireUpload
  BY ActorFacts, <1>0, <1>41
  DEF ExpireUpload, EarlyInv, Quiet, Sending, Routes, At, Works, Sinks, Flights
<1>42. CASE Tick
  BY ActorFacts, <1>0, RowFields, <1>42
  DEF Tick, EarlyInv, Quiet, Sending, Routes, At, Works, Sinks, Flights, Decrement
<1>43. CASE UNCHANGED vars
  BY <1>0, <1>43 DEF vars, EarlyInv, Quiet, Sending, Routes, At, Works, Sinks, Flights
<1> QED
  BY <1>1, <1>2, <1>3, <1>4, <1>5, <1>6, <1>7, <1>8, <1>9, <1>10, <1>11, <1>12, <1>13, <1>14,
     <1>15, <1>16, <1>17, <1>18, <1>19, <1>20, <1>21, <1>22, <1>23, <1>24, <1>25, <1>26, <1>27,
     <1>28, <1>29, <1>30, <1>31, <1>32, <1>33, <1>34, <1>35, <1>36, <1>37, <1>38, <1>39, <1>40,
     <1>41, <1>42, <1>43
  DEF Next, SinkNext, CallNext, ReconcilerNext

\* Another actor's giving up leaves the sink's own call awaited.
LEMMA FirstAttemptGiveUp ==
    ASSUME TypeOK, AwaitsInv, FirstAttemptInv, NEW a \in Actors \ {Sink},
           flights' = Unawaited(a), UNCHANGED <<sink, versions>>, work'[Sink] = work[Sink]
    PROVE  FirstAttemptInv'
<1>1. CommitFlights' = CommitFlights
  <2>1. \A f \in flights : f \in Flights
    BY DEF TypeOK
  <2>2. ASSUME NEW f \in flights, f.kind \in {"put", "complete"}
        PROVE  f \in Unawaited(a)
    <3>1. f.by = Sink
      BY <2>2 DEF AwaitsInv
    <3>2. f.awaited \in BOOLEAN
      BY <2>1 DEF Flights
    <3>3. f = [f EXCEPT !.awaited = f.awaited /\ f.by # a]
      BY <2>1, <3>1, <3>2 DEF Flights
    <3> QED BY <2>2, <3>1, <3>3 DEF Unawaited
  <2>3. ASSUME NEW g \in Unawaited(a), g.kind \in {"put", "complete"}
        PROVE  g \in flights
    <3>1. PICK f \in flights : g = [f EXCEPT !.awaited = f.awaited /\ f.by # a]
      BY DEF Unawaited
    <3>2. f.kind = g.kind
      BY <2>1, <3>1 DEF Flights
    <3>3. f.by = Sink
      BY <2>3, <3>2 DEF AwaitsInv
    <3>4. g = f
      BY <2>1, <3>1, <3>3 DEF Flights
    <3> QED BY <3>4
  <2> QED BY <2>2, <2>3 DEF CommitFlights
<1> QED BY <1>1 DEF FirstAttemptInv, CommitFlights, At

\* Before an ambiguous answer the sink knows all it sent.
LEMMA FirstAttemptStep ==
    ASSUME TypeOK, AwaitsInv, EarlyInv, FirstAttemptInv,
           [Next]_vars
    PROVE  FirstAttemptInv'
<1>0. /\ work \in [Actors -> Works] /\ route \in Routes /\ sink \in Sinks
      /\ flights \subseteq Flights /\ row \in Rows(Reconcilers, Nat)
  BY DEF TypeOK
<1>1. CASE SinkLaunch
  BY <1>1, LaunchFacts, ActorFacts, <1>0
  DEF FirstAttemptInv, CommitFlights, EarlyInv, NoCommitBeforeCompleting, At, Sinks
<1>2. CASE SinkRecordLaunch
  BY ActorFacts, <1>0, RowFields, <1>2
  DEF SinkRecordLaunch, AwaitsInv, AwaitPc, EarlyInv, NoCommitBeforeCompleting, FirstAttemptInv,
      CommitFlights, At, Goto, provider, Works, Sinks, Flights
<1>3. CASE SinkCallCreate
  BY ActorFacts, <1>0, <1>3
  DEF SinkCallCreate, AwaitsInv, AwaitPc, EarlyInv, NoCommitBeforeCompleting, FirstAttemptInv,
      CommitFlights, At, Goto, Return, Returned, Idle, Works, Sinks, Flights, Send, Flight,
      Fenced
<1>4. CASE SinkCreated
  BY ActorFacts, <1>0, <1>4
  DEF SinkCreated, AwaitsInv, AwaitPc, EarlyInv, NoCommitBeforeCompleting, FirstAttemptInv,
      CommitFlights, At, Goto, provider, Works, Sinks, Flights
<1>5. CASE SinkSetOpen
  BY ActorFacts, <1>0, RowFields, <1>5
  DEF SinkSetOpen, AwaitsInv, AwaitPc, EarlyInv, NoCommitBeforeCompleting, FirstAttemptInv,
      CommitFlights, At, Goto, Return, Returned, Idle, provider, Works, Sinks, Flights, Opened,
      Cas
<1>6. CASE SinkUploadPart
  BY ActorFacts, <1>0, RowFields, <1>6
  DEF SinkUploadPart, AwaitsInv, AwaitPc, EarlyInv, NoCommitBeforeCompleting, FirstAttemptInv,
      CommitFlights, At, Return, Returned, Idle, provider, Works, Sinks, Flights
<1>7. CASE SinkVerify
  BY ActorFacts, <1>0, <1>7
  DEF SinkVerify, AwaitsInv, AwaitPc, EarlyInv, NoCommitBeforeCompleting, FirstAttemptInv,
      CommitFlights, At, Goto, Return, Returned, Idle, provider, Works, Sinks, Flights
<1>8. CASE SinkOpenSingle
  BY ActorFacts, <1>0, RowFields, <1>8
  DEF SinkOpenSingle, AwaitsInv, AwaitPc, EarlyInv, NoCommitBeforeCompleting, FirstAttemptInv,
      CommitFlights, At, Goto, Return, Returned, Idle, provider, Works, Sinks, Flights, Opened,
      Cas
<1>9. CASE SinkStartCompletion
  BY ActorFacts, <1>0, RowFields, <1>9
  DEF SinkStartCompletion, AwaitsInv, AwaitPc, EarlyInv, NoCommitBeforeCompleting,
      FirstAttemptInv, CommitFlights, At, Goto, Return, Returned, Idle, provider, Works, Sinks,
      Flights, Cas
<1>10. CASE SinkCallPut
  <2>1. CASE Fenced(Sink)
    <3> DEFINE g == Flight("put", Sink, 0)
    <3>1. flights' = flights \cup {g} /\ UNCHANGED <<sink, versions>>
      BY <1>10, <2>1 DEF SinkCallPut, Send
    <3>2. work'[Sink].pc = "wait" /\ sink.next = "put" /\ At(Sink, "call")
      BY ActorFacts, <1>0, <1>10, <2>1 DEF SinkCallPut, Goto, Works
    <3>3. g.kind = "put" /\ g.awaited
      BY DEF Flight
    <3> HIDE DEF g
    <3>4. ~sink.ambiguous => versions = {} /\ CommitFlights = {}
      BY <3>2 DEF FirstAttemptInv, At
    <3>5. CommitFlights = {} => CommitFlights' = {g}
      BY <3>1, <3>3 DEF CommitFlights
    <3> QED BY <3>1, <3>2, <3>3, <3>4, <3>5 DEF FirstAttemptInv, At
  <2>2. CASE ~Fenced(Sink)
    BY ActorFacts, <1>0, <1>10, <2>2
    DEF SinkCallPut, FirstAttemptInv, CommitFlights, At, Goto, Return, Returned, Idle, Error,
        Works, Sinks
  <2> QED BY <2>1, <2>2
<1>11. CASE SinkCallComplete
  <2>1. CASE Send("complete", Sink, 0) /\ Goto(Sink, "wait") /\ UNCHANGED sink
    <3> DEFINE g == Flight("complete", Sink, 0)
    <3>1. flights' = flights \cup {g} /\ UNCHANGED <<sink, versions>>
      BY <1>11, <2>1 DEF SinkCallComplete, Send
    <3>2. work'[Sink].pc = "wait" /\ sink.next = "complete" /\ At(Sink, "call")
      BY ActorFacts, <1>0, <1>11, <2>1 DEF SinkCallComplete, Goto, Works
    <3>3. g.kind = "complete" /\ g.awaited
      BY DEF Flight
    <3> HIDE DEF g
    <3>4. ~sink.ambiguous => versions = {} /\ CommitFlights = {}
      BY <3>2 DEF FirstAttemptInv, At
    <3>5. CommitFlights = {} => CommitFlights' = {g}
      BY <3>1, <3>3 DEF CommitFlights
    <3> QED BY <3>1, <3>2, <3>3, <3>4, <3>5 DEF FirstAttemptInv, At
  <2>2. CASE UNCHANGED flights /\ Error(Sink)
    BY ActorFacts, <1>0, <1>11, <2>2
    DEF SinkCallComplete, FirstAttemptInv, CommitFlights, At, Goto, Return, Returned, Idle,
        Error, Works, Sinks
  <2>3. CASE UNCHANGED <<sink, flights>> /\ ProbeFinds(Sink)
    BY ActorFacts, <1>0, <1>11, <2>3
    DEF SinkCallComplete, FirstAttemptInv, CommitFlights, At, ProbeFinds, Works, Sinks
  <2> QED BY <1>11, <2>1, <2>2, <2>3 DEF SinkCallComplete
<1>12. CASE SinkCommitted
  BY ActorFacts, <1>0, <1>12
  DEF SinkCommitted, AwaitsInv, AwaitPc, EarlyInv, NoCommitBeforeCompleting, FirstAttemptInv,
      CommitFlights, At, provider, Works, Sinks, Flights
<1>13. CASE SinkRejected
  BY ActorFacts, <1>0, <1>13
  DEF SinkRejected, AwaitsInv, AwaitPc, EarlyInv, NoCommitBeforeCompleting, FirstAttemptInv,
      CommitFlights, At, Goto, Return, Returned, Idle, Works, Sinks, Flights
<1>14. CASE SinkMarkUnknown
  BY ActorFacts, <1>0, RowFields, <1>14
  DEF SinkMarkUnknown, AwaitsInv, AwaitPc, EarlyInv, NoCommitBeforeCompleting, FirstAttemptInv,
      CommitFlights, At, Goto, Return, Returned, Idle, provider, Works, Sinks, Flights, Cas
<1>15. CASE SinkReprobe
  BY <1>0, <1>15, ReprobeFacts DEF FirstAttemptInv, CommitFlights, At, Sinks
<1>16. CASE SinkAbort
  BY ActorFacts, <1>0, RowFields, <1>16
  DEF SinkAbort, AwaitsInv, AwaitPc, EarlyInv, NoCommitBeforeCompleting, FirstAttemptInv,
      CommitFlights, At, provider, Works, Sinks, Flights, Cas
<1>17. CASE SinkAbortFinished
  BY ActorFacts, <1>0, <1>17
  DEF SinkAbortFinished, AwaitsInv, AwaitPc, EarlyInv, NoCommitBeforeCompleting,
      FirstAttemptInv, CommitFlights, At, Goto, provider, Works, Sinks, Flights
<1>18. CASE SinkRelease
  BY ActorFacts, <1>0, <1>18
  DEF SinkRelease, AwaitsInv, AwaitPc, EarlyInv, NoCommitBeforeCompleting, FirstAttemptInv,
      CommitFlights, At, Goto, Return, Returned, Idle, provider, Works, Sinks, Flights
<1>19. CASE SinkDrop
  BY ActorFacts, <1>0, <1>19
  DEF SinkDrop, AwaitsInv, AwaitPc, EarlyInv, NoCommitBeforeCompleting, FirstAttemptInv,
      CommitFlights, At, Idle, Works, Sinks, Flights, Unawaited, Running
<1>20. ASSUME NEW a \in Actors, AmbiguousReply(a) PROVE FirstAttemptInv'
  <2>1. CASE a = Sink
    <3>1. sink'.next = sink.next /\ (work'[Sink].pc = "failed" \/ sink'.ambiguous)
      BY ActorFacts, <1>0, <1>20, <2>1
      DEF AmbiguousReply, Error, Goto, Return, Returned, Idle, Works, Sinks
    <3> QED BY <3>1 DEF FirstAttemptInv, At
  <2>2. CASE a # Sink
    <3>1. work'[Sink] = work[Sink] /\ sink' = sink
      BY ActorFacts, <1>0, <1>20, <2>2 DEF AmbiguousReply, Error, Return
    <3>2. flights' = Unawaited(a) /\ UNCHANGED versions
      BY <1>20 DEF AmbiguousReply
    <3> QED BY <1>20, <2>2, <3>1, <3>2, FirstAttemptGiveUp
  <2> QED BY <2>1, <2>2
<1>21. ASSUME NEW a \in Actors, Rewrite(a) PROVE FirstAttemptInv'
  BY ActorFacts, <1>0, <1>21
  DEF Rewrite, AwaitsInv, AwaitPc, EarlyInv, NoCommitBeforeCompleting, FirstAttemptInv,
      CommitFlights, At, Goto, Return, Returned, Idle, Works, Sinks, Flights, Send, Flight,
      Error, Fenced
<1>22. ASSUME NEW a \in Actors, Rewritten(a) PROVE FirstAttemptInv'
  BY ActorFacts, <1>0, <1>22
  DEF Rewritten, AwaitsInv, AwaitPc, EarlyInv, NoCommitBeforeCompleting, FirstAttemptInv,
      CommitFlights, At, provider, Works, Sinks, Flights
<1>23. ASSUME NEW a \in Actors, Resolve(a) PROVE FirstAttemptInv'
  BY ActorFacts, <1>0, <1>23
  DEF Resolve, AwaitsInv, AwaitPc, EarlyInv, NoCommitBeforeCompleting, FirstAttemptInv,
      CommitFlights, At, Goto, Return, Returned, Idle, provider, Works, Sinks, Flights, Error
<1>24. ASSUME NEW a \in Actors, Purge(a) PROVE FirstAttemptInv'
  BY ActorFacts, <1>0, <1>24
  DEF Purge, AwaitsInv, AwaitPc, EarlyInv, NoCommitBeforeCompleting, FirstAttemptInv,
      CommitFlights, At, Goto, Return, Returned, Idle, Works, Sinks, Flights, Send, Flight,
      Fenced
<1>25. ASSUME NEW a \in Actors, Purged(a) PROVE FirstAttemptInv'
  BY ActorFacts, <1>0, <1>25
  DEF Purged, AwaitsInv, AwaitPc, EarlyInv, NoCommitBeforeCompleting, FirstAttemptInv,
      CommitFlights, At, provider, Works, Sinks, Flights
<1>26. ASSUME NEW a \in Actors, Commit(a) PROVE FirstAttemptInv'
  <2>1. work'[Sink].pc \notin {"attempt", "launch", "call", "wait"}
          \/ work'[Sink] = work[Sink]
    BY <1>26, CommitFacts, ActorFacts
  <2>2. sink'.next = sink.next /\ sink'.ambiguous = sink.ambiguous
    BY <1>0, <1>26, CommitFacts DEF Sinks
  <2> QED BY <1>26, <2>1, <2>2, CommitFacts DEF FirstAttemptInv, CommitFlights, At
<1>27. ASSUME NEW a \in Actors, Probe(a) PROVE FirstAttemptInv'
  BY ActorFacts, <1>0, <1>27
  DEF Probe, AwaitsInv, AwaitPc, EarlyInv, NoCommitBeforeCompleting, FirstAttemptInv,
      CommitFlights, At, Goto, Return, Returned, Idle, provider, Works, Sinks, Flights,
      ProbeFinds, ProbeMissing, Fenced
<1>28. ASSUME NEW a \in Actors, ProbeUploads(a) PROVE FirstAttemptInv'
  BY ActorFacts, <1>0, <1>28
  DEF ProbeUploads, AwaitsInv, AwaitPc, EarlyInv, NoCommitBeforeCompleting, FirstAttemptInv,
      CommitFlights, At, Goto, Return, Returned, Idle, provider, Works, Sinks, Flights, Fenced
<1>29. ASSUME NEW a \in Actors, ConfirmRead(a) PROVE FirstAttemptInv'
  BY ActorFacts, <1>0, <1>29
  DEF ConfirmRead, AwaitsInv, AwaitPc, EarlyInv, NoCommitBeforeCompleting, FirstAttemptInv,
      CommitFlights, At, Goto, Return, Returned, Idle, provider, Works, Sinks, Flights
<1>30. ASSUME NEW a \in Actors, ConfirmWrite(a) PROVE FirstAttemptInv'
  BY ActorFacts, <1>0, RowFields, <1>30
  DEF ConfirmWrite, AwaitsInv, AwaitPc, EarlyInv, NoCommitBeforeCompleting, FirstAttemptInv,
      CommitFlights, At, Return, Returned, Idle, provider, Works, Sinks, Flights
<1>31. ASSUME NEW a \in Actors, Cleanup(a) PROVE FirstAttemptInv'
  BY ActorFacts, <1>0, <1>31
  DEF Cleanup, AwaitsInv, AwaitPc, EarlyInv, NoCommitBeforeCompleting, FirstAttemptInv,
      CommitFlights, At, Goto, Return, Returned, Idle, Works, Sinks, Flights
<1>32. ASSUME NEW a \in Actors, FinishAbort(a) PROVE FirstAttemptInv'
  BY ActorFacts, <1>0, RowFields, <1>32
  DEF FinishAbort, AwaitsInv, AwaitPc, EarlyInv, NoCommitBeforeCompleting, FirstAttemptInv,
      CommitFlights, At, Goto, Return, Returned, Idle, provider, Works, Sinks, Flights, Cas
<1>33. ASSUME NEW a \in Actors, Fail(a) PROVE FirstAttemptInv'
  <2>1. CASE a = Sink
    <3>1. work'[Sink].pc = "failed"
      BY ActorFacts, <1>0, <1>33, <2>1 DEF Fail, Return, Returned, Idle
    <3> QED BY <3>1 DEF FirstAttemptInv, At
  <2>2. CASE a # Sink
    <3>1. work'[Sink] = work[Sink] /\ sink' = sink
      BY ActorFacts, <1>0, <1>33, <2>2 DEF Fail, Return
    <3>2. flights' = Unawaited(a) /\ UNCHANGED versions
      BY <1>33 DEF Fail
    <3> QED BY <1>33, <2>2, <3>1, <3>2, FirstAttemptGiveUp
  <2> QED BY <2>1, <2>2
<1>34. ASSUME NEW a \in Actors, Renew(a) PROVE FirstAttemptInv'
  BY ActorFacts, <1>0, <1>34
  DEF Renew, AwaitsInv, AwaitPc, EarlyInv, NoCommitBeforeCompleting, FirstAttemptInv,
      CommitFlights, At, provider, Works, Sinks, Flights
<1>35. ASSUME NEW r \in Reconcilers, ClaimRead(r) PROVE FirstAttemptInv'
  BY ActorFacts, <1>0, <1>35
  DEF ClaimRead, AwaitsInv, AwaitPc, EarlyInv, NoCommitBeforeCompleting, FirstAttemptInv,
      CommitFlights, At, provider, Works, Sinks, Flights, Claimable
<1>36. ASSUME NEW r \in Reconcilers, ClaimWrite(r) PROVE FirstAttemptInv'
  BY ActorFacts, <1>0, RowFields, <1>36
  DEF ClaimWrite, AwaitsInv, AwaitPc, EarlyInv, NoCommitBeforeCompleting, FirstAttemptInv,
      CommitFlights, At, Goto, Return, Returned, Idle, provider, Works, Sinks, Flights
<1>37. ASSUME NEW r \in Reconcilers, Recover(r) PROVE FirstAttemptInv'
  BY ActorFacts, <1>0, <1>37
  DEF Recover, AwaitsInv, AwaitPc, EarlyInv, NoCommitBeforeCompleting, FirstAttemptInv,
      CommitFlights, At, Goto, Return, Returned, Idle, provider, Works, Sinks, Flights
<1>38. ASSUME NEW r \in Reconcilers, Begin(r) PROVE FirstAttemptInv'
  BY ActorFacts, <1>0, RowFields, <1>38
  DEF Begin, AwaitsInv, AwaitPc, EarlyInv, NoCommitBeforeCompleting, FirstAttemptInv,
      CommitFlights, At, Return, Returned, Idle, provider, Works, Sinks, Flights, Cas
<1>39. ASSUME NEW r \in Reconcilers, SettleTerminal(r) PROVE FirstAttemptInv'
  BY ActorFacts, <1>0, <1>39
  DEF SettleTerminal, AwaitsInv, AwaitPc, EarlyInv, NoCommitBeforeCompleting, FirstAttemptInv,
      CommitFlights, At, provider, Works, Sinks, Flights
<1>40. ASSUME NEW f \in flights, Land(f) PROVE FirstAttemptInv'
  BY ActorFacts, <1>0, <1>40
  DEF Land, AwaitsInv, AwaitPc, EarlyInv, NoCommitBeforeCompleting, FirstAttemptInv,
      CommitFlights, At, Works, Sinks, Flights, NewVersion, Ids
<1>41. CASE ExpireUpload
  BY ActorFacts, <1>0, <1>41
  DEF ExpireUpload, AwaitsInv, AwaitPc, EarlyInv, NoCommitBeforeCompleting, FirstAttemptInv,
      CommitFlights, At, Works, Sinks, Flights
<1>42. CASE Tick
  <2>1. work'[Sink].pc = work[Sink].pc
    BY ActorFacts, <1>0, <1>42 DEF Tick, Works
  <2>2. sink'.next = sink.next /\ sink'.ambiguous = sink.ambiguous /\ versions' = versions
    BY <1>0, <1>42 DEF Tick, Sinks
  <2>3. CommitFlights = {} => CommitFlights' = {}
    BY <1>42, TickFacts DEF CommitFlights
  <2>4. ASSUME NEW f \in flights, CommitFlights = {f}, f.awaited, CommitFlights' # {}
        PROVE  \E g \in flights' : CommitFlights' = {g} /\ g.awaited
    <3>1. PICK g \in CommitFlights' : TRUE
      BY <2>4
    <3>2. /\ f \in Flights
          /\ flights' = {[h EXCEPT !.left = @ - 1] : h \in {k \in flights : k.left > 1}}
      BY <1>0, <1>42 DEF Tick
    <3>3. \A k \in CommitFlights' : k = [f EXCEPT !.left = @ - 1]
      <4> TAKE k \in CommitFlights'
      <4>1. PICK h \in flights : k = [h EXCEPT !.left = @ - 1]
        BY <3>2 DEF CommitFlights
      <4>2. h.kind = k.kind
        BY <1>0, <4>1 DEF Flights
      <4>3. h \in CommitFlights
        BY <4>2 DEF CommitFlights
      <4> QED BY <2>4, <4>1, <4>3
    <3>4. [f EXCEPT !.left = @ - 1].awaited
      BY <2>4, <3>2 DEF Flights
    <3>5. CommitFlights' = {g} /\ g.awaited /\ g \in flights'
      BY <3>1, <3>3, <3>4 DEF CommitFlights
    <3> QED BY <3>5
  <2> QED BY <2>1, <2>2, <2>3, <2>4 DEF FirstAttemptInv, At
<1>43. CASE UNCHANGED vars
  BY <1>0, <1>43
  DEF vars, AwaitsInv, AwaitPc, EarlyInv, NoCommitBeforeCompleting, FirstAttemptInv,
      CommitFlights, At, Works, Sinks, Flights
<1> QED
  BY <1>1, <1>2, <1>3, <1>4, <1>5, <1>6, <1>7, <1>8, <1>9, <1>10, <1>11, <1>12, <1>13, <1>14,
     <1>15, <1>16, <1>17, <1>18, <1>19, <1>20, <1>21, <1>22, <1>23, <1>24, <1>25, <1>26, <1>27,
     <1>28, <1>29, <1>30, <1>31, <1>32, <1>33, <1>34, <1>35, <1>36, <1>37, <1>38, <1>39, <1>40,
     <1>41, <1>42, <1>43
  DEF Next, SinkNext, CallNext, ReconcilerNext

\* The fence of the upload listing holds until the row is read.
LEMMA ConfirmStep ==
    ASSUME TypeOK, HoldersInv, UploadInv, ConfirmInv,
           [Next]_vars
    PROVE  ConfirmInv'
<1>0. /\ work \in [Actors -> Works] /\ route \in Routes /\ sink \in Sinks
      /\ flights \subseteq Flights /\ row \in Rows(Reconcilers, Nat)
  BY DEF TypeOK
<1>1. CASE SinkLaunch
  BY ActorFacts, <1>0, DirectWriteAssumption, <1>1
  DEF SinkLaunch, HoldersInv, UploadInv, ConfirmInv, Routes, At, Goto, Return, Returned, Idle,
      provider, Works, Sinks, Flights, LaunchAllowed
<1>2. CASE SinkRecordLaunch
  BY ActorFacts, <1>0, RowFields, DirectWriteAssumption, <1>2
  DEF SinkRecordLaunch, HoldersInv, UploadInv, ConfirmInv, Routes, At, Goto, provider, Works,
      Sinks, Flights
<1>3. CASE SinkCallCreate
  BY ActorFacts, <1>0, DirectWriteAssumption, <1>3
  DEF SinkCallCreate, HoldersInv, UploadInv, ConfirmInv, Routes, At, Goto, Return, Returned,
      Idle, Works, Sinks, Flights, Send, Flight, Fenced
<1>4. CASE SinkCreated
  BY ActorFacts, <1>0, DirectWriteAssumption, <1>4
  DEF SinkCreated, HoldersInv, UploadInv, ConfirmInv, Routes, At, Goto, provider, Works, Sinks,
      Flights
<1>5. CASE SinkSetOpen
  BY ActorFacts, <1>0, RowFields, DirectWriteAssumption, <1>5
  DEF SinkSetOpen, HoldersInv, UploadInv, ConfirmInv, Routes, At, Goto, Return, Returned, Idle,
      provider, Works, Sinks, Flights, Opened, Cas
<1>6. CASE SinkUploadPart
  BY ActorFacts, <1>0, RowFields, DirectWriteAssumption, <1>6
  DEF SinkUploadPart, HoldersInv, UploadInv, ConfirmInv, Routes, At, Return, Returned, Idle,
      provider, Works, Sinks, Flights
<1>7. CASE SinkVerify
  BY ActorFacts, <1>0, DirectWriteAssumption, <1>7
  DEF SinkVerify, HoldersInv, UploadInv, ConfirmInv, Routes, At, Goto, Return, Returned, Idle,
      provider, Works, Sinks, Flights
<1>8. CASE SinkOpenSingle
  BY ActorFacts, <1>0, RowFields, DirectWriteAssumption, <1>8
  DEF SinkOpenSingle, HoldersInv, UploadInv, ConfirmInv, Routes, At, Goto, Return, Returned,
      Idle, provider, Works, Sinks, Flights, Opened, Cas
<1>9. CASE SinkStartCompletion
  BY ActorFacts, <1>0, RowFields, DirectWriteAssumption, <1>9
  DEF SinkStartCompletion, HoldersInv, UploadInv, ConfirmInv, Routes, At, Goto, Return,
      Returned, Idle, provider, Works, Sinks, Flights, Cas
<1>10. CASE SinkCallPut
  BY ActorFacts, <1>0, DirectWriteAssumption, <1>10
  DEF SinkCallPut, HoldersInv, UploadInv, ConfirmInv, Routes, At, Goto, Return, Returned, Idle,
      Works, Sinks, Flights, Send, Flight, Fenced, Error
<1>11. CASE SinkCallComplete
  BY ActorFacts, <1>0, DirectWriteAssumption, <1>11
  DEF SinkCallComplete, HoldersInv, UploadInv, ConfirmInv, Routes, At, Goto, Return, Returned,
      Idle, Works, Sinks, Flights, Send, Flight, Fenced, Error, ProbeFinds, ProbeMissing
<1>12. CASE SinkCommitted
  BY ActorFacts, <1>0, DirectWriteAssumption, <1>12
  DEF SinkCommitted, HoldersInv, UploadInv, ConfirmInv, Routes, At, provider, Works, Sinks,
      Flights
<1>13. CASE SinkRejected
  BY ActorFacts, <1>0, DirectWriteAssumption, <1>13
  DEF SinkRejected, HoldersInv, UploadInv, ConfirmInv, Routes, At, Goto, Return, Returned, Idle,
      Works, Sinks, Flights
<1>14. CASE SinkMarkUnknown
  BY ActorFacts, <1>0, RowFields, DirectWriteAssumption, <1>14
  DEF SinkMarkUnknown, HoldersInv, UploadInv, ConfirmInv, Routes, At, Goto, Return, Returned,
      Idle, provider, Works, Sinks, Flights, Cas
<1>15. CASE SinkReprobe
  <2>1. \A b \in Actors : work'[b].pc = "confirm" => work[b].pc = "confirm"
    BY <1>15, ReprobeFacts
  <2> QED BY <1>15, <2>1, ReprobeFacts DEF ConfirmInv, At
<1>16. CASE SinkAbort
  BY ActorFacts, <1>0, RowFields, DirectWriteAssumption, <1>16
  DEF SinkAbort, HoldersInv, UploadInv, ConfirmInv, Routes, At, provider, Works, Sinks, Flights,
      Cas
<1>17. CASE SinkAbortFinished
  BY ActorFacts, <1>0, DirectWriteAssumption, <1>17
  DEF SinkAbortFinished, HoldersInv, UploadInv, ConfirmInv, Routes, At, Goto, provider, Works,
      Sinks, Flights
<1>18. CASE SinkRelease
  BY ActorFacts, <1>0, DirectWriteAssumption, <1>18
  DEF SinkRelease, HoldersInv, UploadInv, ConfirmInv, Routes, At, Goto, Return, Returned, Idle,
      provider, Works, Sinks, Flights
<1>19. CASE SinkDrop
  BY ActorFacts, <1>0, DirectWriteAssumption, <1>19
  DEF SinkDrop, HoldersInv, UploadInv, ConfirmInv, Routes, At, Idle, Works, Sinks, Flights,
      Unawaited, Running
<1>20. ASSUME NEW a \in Actors, AmbiguousReply(a) PROVE ConfirmInv'
  BY ActorFacts, <1>0, DirectWriteAssumption, <1>20
  DEF AmbiguousReply, HoldersInv, UploadInv, ConfirmInv, Routes, At, Goto, Return, Returned,
      Idle, Works, Sinks, Flights, Unawaited, Error
<1>21. ASSUME NEW a \in Actors, Rewrite(a) PROVE ConfirmInv'
  BY ActorFacts, <1>0, DirectWriteAssumption, <1>21
  DEF Rewrite, HoldersInv, UploadInv, ConfirmInv, Routes, At, Goto, Return, Returned, Idle,
      Works, Sinks, Flights, Send, Flight, Error, Fenced
<1>22. ASSUME NEW a \in Actors, Rewritten(a) PROVE ConfirmInv'
  BY ActorFacts, <1>0, DirectWriteAssumption, <1>22
  DEF Rewritten, HoldersInv, UploadInv, ConfirmInv, Routes, At, provider, Works, Sinks, Flights
<1>23. ASSUME NEW a \in Actors, Resolve(a) PROVE ConfirmInv'
  BY ActorFacts, <1>0, DirectWriteAssumption, <1>23
  DEF Resolve, HoldersInv, UploadInv, ConfirmInv, Routes, At, Goto, Return, Returned, Idle,
      provider, Works, Sinks, Flights, Error
<1>24. ASSUME NEW a \in Actors, Purge(a) PROVE ConfirmInv'
  BY ActorFacts, <1>0, DirectWriteAssumption, <1>24
  DEF Purge, HoldersInv, UploadInv, ConfirmInv, Routes, At, Goto, Return, Returned, Idle, Works,
      Sinks, Flights, Send, Flight, Fenced
<1>25. ASSUME NEW a \in Actors, Purged(a) PROVE ConfirmInv'
  BY ActorFacts, <1>0, DirectWriteAssumption, <1>25
  DEF Purged, HoldersInv, UploadInv, ConfirmInv, Routes, At, provider, Works, Sinks, Flights
<1>26. ASSUME NEW a \in Actors, Commit(a) PROVE ConfirmInv'
  <2>1. \A b \in Actors : work'[b].pc = "confirm" => work[b].pc = "confirm"
    BY <1>26, CommitFacts
  <2> QED BY <1>26, <2>1, CommitFacts DEF ConfirmInv, At
<1>27. ASSUME NEW a \in Actors, Probe(a) PROVE ConfirmInv'
  BY ActorFacts, <1>0, DirectWriteAssumption, <1>27
  DEF Probe, HoldersInv, UploadInv, ConfirmInv, Routes, At, Goto, Return, Returned, Idle,
      provider, Works, Sinks, Flights, ProbeFinds, ProbeMissing, Fenced
<1>28. ASSUME NEW a \in Actors, ProbeUploads(a) PROVE ConfirmInv'
  <2>1. \A b \in Actors \ {a} : work'[b] = work[b]
    BY <1>0, <1>28 DEF ProbeUploads, Goto, Return
  <2>2. work'[a].pc = "confirm" => Fenced(a) /\ upload # "live"
    BY <1>0, <1>28 DEF ProbeUploads, Return, Returned, Idle
  <2>3. upload \in {"none", "live", "closed"}
    BY DEF TypeOK
  <2> QED
    BY <1>0, <1>28, <2>1, <2>2, <2>3
    DEF ProbeUploads, ConfirmInv, UploadInv, Fenced, At, provider, Routes
<1>29. ASSUME NEW a \in Actors, ConfirmRead(a) PROVE ConfirmInv'
  BY ActorFacts, <1>0, DirectWriteAssumption, <1>29
  DEF ConfirmRead, HoldersInv, UploadInv, ConfirmInv, Routes, At, Goto, Return, Returned, Idle,
      provider, Works, Sinks, Flights
<1>30. ASSUME NEW a \in Actors, ConfirmWrite(a) PROVE ConfirmInv'
  BY ActorFacts, <1>0, RowFields, DirectWriteAssumption, <1>30
  DEF ConfirmWrite, HoldersInv, UploadInv, ConfirmInv, Routes, At, Return, Returned, Idle,
      provider, Works, Sinks, Flights
<1>31. ASSUME NEW a \in Actors, Cleanup(a) PROVE ConfirmInv'
  BY ActorFacts, <1>0, DirectWriteAssumption, <1>31
  DEF Cleanup, HoldersInv, UploadInv, ConfirmInv, Routes, At, Goto, Return, Returned, Idle,
      Works, Sinks, Flights
<1>32. ASSUME NEW a \in Actors, FinishAbort(a) PROVE ConfirmInv'
  BY ActorFacts, <1>0, RowFields, DirectWriteAssumption, <1>32
  DEF FinishAbort, HoldersInv, UploadInv, ConfirmInv, Routes, At, Goto, Return, Returned, Idle,
      provider, Works, Sinks, Flights, Cas
<1>33. ASSUME NEW a \in Actors, Fail(a) PROVE ConfirmInv'
  BY ActorFacts, <1>0, DirectWriteAssumption, <1>33
  DEF Fail, HoldersInv, UploadInv, ConfirmInv, Routes, At, Return, Returned, Idle, Works, Sinks,
      Flights, Unawaited, Running
<1>34. ASSUME NEW a \in Actors, Renew(a) PROVE ConfirmInv'
  BY ActorFacts, <1>0, DirectWriteAssumption, <1>34
  DEF Renew, HoldersInv, UploadInv, ConfirmInv, Routes, At, provider, Works, Sinks, Flights
<1>35. ASSUME NEW r \in Reconcilers, ClaimRead(r) PROVE ConfirmInv'
  BY ActorFacts, <1>0, DirectWriteAssumption, <1>35
  DEF ClaimRead, HoldersInv, UploadInv, ConfirmInv, Routes, At, provider, Works, Sinks, Flights,
      Claimable
<1>36. ASSUME NEW r \in Reconcilers, ClaimWrite(r) PROVE ConfirmInv'
  BY ActorFacts, <1>0, RowFields, DirectWriteAssumption, <1>36
  DEF ClaimWrite, HoldersInv, UploadInv, ConfirmInv, Routes, At, Goto, Return, Returned, Idle,
      provider, Works, Sinks, Flights
<1>37. ASSUME NEW r \in Reconcilers, Recover(r) PROVE ConfirmInv'
  BY ActorFacts, <1>0, DirectWriteAssumption, <1>37
  DEF Recover, HoldersInv, UploadInv, ConfirmInv, Routes, At, Goto, Return, Returned, Idle,
      provider, Works, Sinks, Flights
<1>38. ASSUME NEW r \in Reconcilers, Begin(r) PROVE ConfirmInv'
  BY ActorFacts, <1>0, RowFields, DirectWriteAssumption, <1>38
  DEF Begin, HoldersInv, UploadInv, ConfirmInv, Routes, At, Return, Returned, Idle, provider,
      Works, Sinks, Flights, Cas
<1>39. ASSUME NEW r \in Reconcilers, SettleTerminal(r) PROVE ConfirmInv'
  BY ActorFacts, <1>0, DirectWriteAssumption, <1>39
  DEF SettleTerminal, HoldersInv, UploadInv, ConfirmInv, Routes, At, provider, Works, Sinks,
      Flights
<1>40. ASSUME NEW f \in flights, Land(f) PROVE ConfirmInv'
  BY ActorFacts, <1>0, DirectWriteAssumption, <1>40
  DEF Land, HoldersInv, UploadInv, ConfirmInv, Routes, At, Works, Sinks, Flights, NewVersion
<1>41. CASE ExpireUpload
  BY ActorFacts, <1>0, DirectWriteAssumption, <1>41
  DEF ExpireUpload, HoldersInv, UploadInv, ConfirmInv, Routes, At, Works, Sinks, Flights
<1>42. CASE Tick
  BY ActorFacts, <1>0, RowFields, DirectWriteAssumption, <1>42
  DEF Tick, HoldersInv, UploadInv, ConfirmInv, Routes, At, Works, Sinks, Flights, RowTick,
      Decrement, Urgent
<1>43. CASE UNCHANGED vars
  BY <1>0, <1>43 DEF vars, HoldersInv, UploadInv, ConfirmInv, Routes, At, Works, Sinks, Flights
<1> QED
  BY <1>1, <1>2, <1>3, <1>4, <1>5, <1>6, <1>7, <1>8, <1>9, <1>10, <1>11, <1>12, <1>13, <1>14,
     <1>15, <1>16, <1>17, <1>18, <1>19, <1>20, <1>21, <1>22, <1>23, <1>24, <1>25, <1>26, <1>27,
     <1>28, <1>29, <1>30, <1>31, <1>32, <1>33, <1>34, <1>35, <1>36, <1>37, <1>38, <1>39, <1>40,
     <1>41, <1>42, <1>43
  DEF Next, SinkNext, CallNext, ReconcilerNext

\* Where the provider is quiet and holds no version, none appears.
LEMMA StaysEmpty == ASSUME TypeOK, Quiet, versions = {}, [Next]_vars PROVE versions' = {}
<1>1. ASSUME NEW f \in flights, Land(f) PROVE versions' = {}
  <2>1. f.kind # "put"
    BY DEF Quiet
  <2>2. ~(f.kind = "complete" /\ upload = "live")
    BY DEF Quiet
  <2>3. Ids = {}
    BY DEF Ids
  <2> QED BY <1>1, <2>1, <2>2, <2>3 DEF Land
<1>2. CASE UNCHANGED versions
  BY <1>2
<1>3. (\E f \in flights : Land(f)) \/ UNCHANGED versions
  <2>1. SinkNext => UNCHANGED versions
    BY DEF SinkNext, provider, SinkLaunch, SinkRecordLaunch, SinkCallCreate, SinkCreated,
       SinkSetOpen, SinkUploadPart, SinkVerify, SinkOpenSingle, SinkStartCompletion, SinkCallPut,
       SinkCallComplete, SinkCommitted, SinkRejected, SinkMarkUnknown, SinkReprobe, SinkAbort,
       SinkAbortFinished, SinkRelease, SinkDrop
  <2>2. ASSUME NEW a \in Actors, CallNext(a) PROVE UNCHANGED versions
    BY <2>2 DEF CallNext, provider, AmbiguousReply, Rewrite, Rewritten, Resolve, Purge, Purged,
       Commit, Probe, ProbeUploads, ConfirmRead, ConfirmWrite, Cleanup, FinishAbort
  <2>3. ASSUME NEW a \in Actors, Fail(a) \/ Renew(a) PROVE UNCHANGED versions
    BY <2>3 DEF Fail, Renew, provider
  <2>4. ASSUME NEW r \in Reconcilers, ReconcilerNext(r) PROVE UNCHANGED versions
    BY <2>4 DEF ReconcilerNext, ClaimRead, ClaimWrite, Recover, Begin, SettleTerminal, provider
  <2>5. ExpireUpload \/ Tick \/ UNCHANGED vars => UNCHANGED versions
    BY DEF ExpireUpload, Tick, vars
  <2> QED BY <2>1, <2>2, <2>3, <2>4, <2>5 DEF Next
<1> QED BY <1>1, <1>2, <1>3

\* Dead is stable.
LEMMA DeadStep == ASSUME TypeOK, EarlyInv, Dead, [Next]_vars PROVE Dead'
BY QuietStep, StaysEmpty DEF Dead

\* Of the route's holders only one is at work when a holder reads the row.
LEMMA OneAtWork ==
    ASSUME HoldersInv, NEW a \in route.holders, NEW b \in route.holders, a # b,
           work[a].pc \notin {"idle", "over", "gone"}
    PROVE  work[b].pc \in {"idle", "over", "gone"}
<1>1. route.holders = {Sink, Request}
  BY DEF HoldersInv
<1>2. CASE a = Sink
  BY <1>1, <1>2 DEF HoldersInv, At
<1>3. CASE a = Request
  BY <1>1, <1>3 DEF HoldersInv, At
<1> QED BY <1>1, <1>2, <1>3

\* Quiet lasts, so only a new observation or a new version could disturb AbsenceInv.
LEMMA AbsenceKept ==
    ASSUME TypeOK, AbsenceInv, Quiet => Quiet', Quiet /\ versions = {} => versions' = {},
           route'.holders \subseteq route.holders, Observed' => Observed,
           \A b \in Actors : work'[b].pc \in {"uploads", "confirm", "confirmWrite"} =>
                                work[b].pc = work'[b].pc
    PROVE  AbsenceInv'
<1>1. route.holders \subseteq Actors
  BY DEF TypeOK, Routes
<1>2. \A b \in Actors : At(b, "confirmWrite")' => At(b, "confirmWrite")
  BY DEF At
<1>3. (Observed \/ \E b \in Actors : At(b, "confirmWrite"))' => Quiet
  BY <1>2 DEF AbsenceInv
<1>4. ASSUME NEW a \in route'.holders, work'[a].pc \in {"uploads", "confirm"},
             (Observed \/ \E b \in Actors \ {a} : At(b, "confirmWrite"))'
      PROVE  versions' = {}
  <2>1. a \in route.holders /\ work[a].pc \in {"uploads", "confirm"}
    BY <1>1, <1>4
  <2>2. Observed \/ \E b \in Actors \ {a} : At(b, "confirmWrite")
    BY <1>2, <1>4
  <2>3. versions = {}
    BY <2>1, <2>2 DEF AbsenceInv
  <2> QED BY <1>3, <1>4, <2>3
<1> QED BY <1>3, <1>4 DEF AbsenceInv

\* A stored observation was made of a quiet provider.
LEMMA AbsenceStep ==
    ASSUME TypeOK, HoldersInv, UploadInv, EarlyInv, WindowInv, ConfirmInv, AbsenceInv,
           [Next]_vars
    PROVE  AbsenceInv'
<1>0. /\ work \in [Actors -> Works] /\ route \in Routes /\ sink \in Sinks
      /\ flights \subseteq Flights /\ row \in Rows(Reconcilers, Nat)
  BY DEF TypeOK
<1>00. Quiet => Quiet'
  BY QuietStep
<1>000. Quiet /\ versions = {} => versions' = {}
  BY StaysEmpty
<1>1. CASE SinkLaunch
  <2>1. \A b \in Actors : work'[b].pc \in {"uploads", "confirm", "confirmWrite"} =>
                           work[b].pc = work'[b].pc
    BY <1>1, LaunchFacts
  <2> QED BY <1>1, <1>00, <1>000, <2>1, LaunchFacts, AbsenceKept DEF Observed
<1>2. CASE SinkRecordLaunch
  BY ActorFacts, <1>0, RowFields, <1>00, <1>2
  DEF SinkRecordLaunch, AbsenceInv, Observed, Routes, NoAbsence, At, Goto, provider, Works,
      Sinks, Flights
<1>3. CASE SinkCallCreate
  BY ActorFacts, <1>0, <1>00, <1>3
  DEF SinkCallCreate, AbsenceInv, Observed, Routes, NoAbsence, At, Goto, Return, Returned, Idle,
      Works, Sinks, Flights, Send, Flight, Fenced
<1>4. CASE SinkCreated
  BY ActorFacts, <1>0, <1>00, <1>4
  DEF SinkCreated, AbsenceInv, Observed, Routes, NoAbsence, At, Goto, provider, Works, Sinks,
      Flights
<1>5. CASE SinkSetOpen
  <2>1. row'.absence = row.absence
    BY <1>0, <1>5 DEF SinkSetOpen, Opened, Rows
  <2>2. \A b \in Actors : work'[b].pc \in {"uploads", "confirm", "confirmWrite"} =>
                           work[b].pc = work'[b].pc
    <3>1. Goto(Sink, "write") \/ Goto(Sink, "opened") \/ Return(Sink)
      BY <1>5, Zenon DEF SinkSetOpen
    <3> QED BY ActorFacts, <1>0, <3>1 DEF Goto, Return, Returned, Idle, Works
  <2>3. UNCHANGED <<route, versions>>
    BY <1>5 DEF SinkSetOpen, provider
  <2> QED BY <1>00, <1>000, <2>1, <2>2, <2>3, AbsenceKept DEF Observed
<1>6. CASE SinkUploadPart
  BY ActorFacts, <1>0, RowFields, <1>00, <1>6
  DEF SinkUploadPart, AbsenceInv, Observed, Routes, NoAbsence, At, Return, Returned, Idle,
      provider, Works, Sinks, Flights
<1>7. CASE SinkVerify
  BY ActorFacts, <1>0, <1>00, <1>7
  DEF SinkVerify, AbsenceInv, Observed, Routes, NoAbsence, At, Goto, Return, Returned, Idle,
      provider, Works, Sinks, Flights
<1>8. CASE SinkOpenSingle
  <2>1. row'.absence = row.absence
    BY <1>0, <1>8 DEF SinkOpenSingle, Opened, Rows
  <2>2. \A b \in Actors : work'[b].pc \in {"uploads", "confirm", "confirmWrite"} =>
                           work[b].pc = work'[b].pc
    <3>1. Goto(Sink, "write") \/ Goto(Sink, "opened") \/ Return(Sink)
      BY <1>8, Zenon DEF SinkOpenSingle
    <3> QED BY ActorFacts, <1>0, <3>1 DEF Goto, Return, Returned, Idle, Works
  <2>3. UNCHANGED <<route, versions>>
    BY <1>8 DEF SinkOpenSingle, provider
  <2> QED BY <1>00, <1>000, <2>1, <2>2, <2>3, AbsenceKept DEF Observed
<1>9. CASE SinkStartCompletion
  BY ActorFacts, <1>0, RowFields, <1>00, <1>9
  DEF SinkStartCompletion, AbsenceInv, Observed, Routes, NoAbsence, At, Goto, Return, Returned,
      Idle, provider, Works, Sinks, Flights, Cas
<1>10. CASE SinkCallPut
  BY ActorFacts, <1>0, <1>00, <1>10
  DEF SinkCallPut, AbsenceInv, Observed, Routes, NoAbsence, At, Goto, Return, Returned, Idle,
      Works, Sinks, Flights, Send, Flight, Fenced, Error
<1>11. CASE SinkCallComplete
  BY ActorFacts, <1>0, <1>00, <1>11
  DEF SinkCallComplete, AbsenceInv, Observed, Routes, NoAbsence, At, Goto, Return, Returned,
      Idle, Works, Sinks, Flights, Send, Flight, Fenced, Error, ProbeFinds, ProbeMissing
<1>12. CASE SinkCommitted
  BY ActorFacts, <1>0, <1>00, <1>12
  DEF SinkCommitted, AbsenceInv, Observed, Routes, NoAbsence, At, provider, Works, Sinks,
      Flights
<1>13. CASE SinkRejected
  BY ActorFacts, <1>0, <1>00, <1>13
  DEF SinkRejected, AbsenceInv, Observed, Routes, NoAbsence, At, Goto, Return, Returned, Idle,
      Works, Sinks, Flights
<1>14. CASE SinkMarkUnknown
  BY ActorFacts, <1>0, RowFields, <1>00, <1>14
  DEF SinkMarkUnknown, AbsenceInv, Observed, Routes, NoAbsence, At, Goto, Return, Returned,
      Idle, provider, Works, Sinks, Flights, Cas
<1>15. CASE SinkReprobe
  <2>1. \A b \in Actors : work'[b].pc \in {"uploads", "confirm", "confirmWrite"} =>
                           work[b].pc = work'[b].pc
    BY <1>15, ReprobeFacts
  <2> QED BY <1>15, <1>00, <1>000, <2>1, ReprobeFacts, AbsenceKept DEF Observed
<1>16. CASE SinkAbort
  BY ActorFacts, <1>0, RowFields, <1>00, <1>16
  DEF SinkAbort, AbsenceInv, Observed, Routes, NoAbsence, At, provider, Works, Sinks, Flights,
      Cas
<1>17. CASE SinkAbortFinished
  BY ActorFacts, <1>0, <1>00, <1>17
  DEF SinkAbortFinished, AbsenceInv, Observed, Routes, NoAbsence, At, Goto, provider, Works,
      Sinks, Flights
<1>18. CASE SinkRelease
  BY ActorFacts, <1>0, <1>00, <1>18
  DEF SinkRelease, AbsenceInv, Observed, Routes, NoAbsence, At, Goto, Return, Returned, Idle,
      provider, Works, Sinks, Flights
<1>19. CASE SinkDrop
  BY ActorFacts, <1>0, <1>00, <1>19
  DEF SinkDrop, AbsenceInv, Observed, Routes, NoAbsence, At, Idle, Works, Sinks, Flights,
      Unawaited, Running
<1>20. ASSUME NEW a \in Actors, AmbiguousReply(a) PROVE AbsenceInv'
  BY ActorFacts, <1>0, <1>00, <1>20
  DEF AmbiguousReply, AbsenceInv, Observed, Routes, NoAbsence, At, Goto, Return, Returned, Idle,
      Works, Sinks, Flights, Unawaited, Error
<1>21. ASSUME NEW a \in Actors, Rewrite(a) PROVE AbsenceInv'
  BY ActorFacts, <1>0, <1>00, <1>21
  DEF Rewrite, AbsenceInv, Observed, Routes, NoAbsence, At, Goto, Return, Returned, Idle, Works,
      Sinks, Flights, Send, Flight, Error, Fenced
<1>22. ASSUME NEW a \in Actors, Rewritten(a) PROVE AbsenceInv'
  BY ActorFacts, <1>0, <1>00, <1>22
  DEF Rewritten, AbsenceInv, Observed, Routes, NoAbsence, At, provider, Works, Sinks, Flights
<1>23. ASSUME NEW a \in Actors, Resolve(a) PROVE AbsenceInv'
  BY ActorFacts, <1>0, <1>00, <1>23
  DEF Resolve, AbsenceInv, Observed, Routes, NoAbsence, At, Goto, Return, Returned, Idle,
      provider, Works, Sinks, Flights, Error
<1>24. ASSUME NEW a \in Actors, Purge(a) PROVE AbsenceInv'
  BY ActorFacts, <1>0, <1>00, <1>24
  DEF Purge, AbsenceInv, Observed, Routes, NoAbsence, At, Goto, Return, Returned, Idle, Works,
      Sinks, Flights, Send, Flight, Fenced
<1>25. ASSUME NEW a \in Actors, Purged(a) PROVE AbsenceInv'
  BY ActorFacts, <1>0, <1>00, <1>25
  DEF Purged, AbsenceInv, Observed, Routes, NoAbsence, At, provider, Works, Sinks, Flights
<1>26. ASSUME NEW a \in Actors, Commit(a) PROVE AbsenceInv'
  <2>1. \A b \in Actors : work'[b].pc \in {"uploads", "confirm", "confirmWrite"} =>
                           work[b].pc = work'[b].pc
    BY <1>26, CommitFacts
  <2> QED BY <1>26, <1>00, <1>000, <2>1, CommitFacts, AbsenceKept DEF Observed
<1>27. ASSUME NEW a \in Actors, Probe(a) PROVE AbsenceInv'
  <2>1. \A b \in Actors \ {a} : work'[b] = work[b]
    BY <1>0, <1>27 DEF Probe, ProbeFinds, Goto, Return
  <2>2. work'[a].pc \notin {"confirm", "confirmWrite"}
    BY <1>0, <1>27 DEF Probe, ProbeFinds, Goto, Return, Returned, Idle, Works
  <2>3. work'[a].pc = "uploads" => versions = {}
    <3>1. work'[a].pc = "uploads" => ProbeMissing
      BY <1>0, <1>27 DEF Probe, ProbeFinds, Goto, Return, Returned, Idle, Works
    <3> QED BY <3>1 DEF ProbeMissing, Ids
  <2>4. UNCHANGED <<row, route, versions>>
    BY <1>27 DEF Probe, provider
  <2> QED BY <1>0, <1>00, <2>1, <2>2, <2>3, <2>4 DEF AbsenceInv, Observed, At, Routes
<1>28. ASSUME NEW a \in Actors, ProbeUploads(a) PROVE AbsenceInv'
  <2>1. \A b \in Actors \ {a} : work'[b] = work[b]
    BY <1>0, <1>28 DEF ProbeUploads, Goto, Return
  <2>2. work'[a].pc \notin {"uploads", "confirmWrite"} /\ work[a].pc = "uploads"
    BY <1>0, <1>28 DEF ProbeUploads, At, Goto, Return, Returned, Idle, Works
  <2>3. UNCHANGED <<row, route, versions>>
    BY <1>28 DEF ProbeUploads, provider
  <2> QED BY <1>0, <1>00, <2>1, <2>2, <2>3 DEF AbsenceInv, Observed, At, Routes
<1>29. ASSUME NEW a \in Actors, ConfirmRead(a) PROVE AbsenceInv'
  <2>1. \A b \in Actors \ {a} : work'[b] = work[b]
    BY <1>0, <1>29 DEF ConfirmRead, Goto, Return
  <2>2. work'[a].pc \notin {"uploads", "confirm"}
    BY <1>0, <1>29 DEF ConfirmRead, Goto, Return, Returned, Idle, Works
  <2>3. UNCHANGED <<row, route, sink, flights, versions, upload>> /\ At(a, "confirm")
    BY <1>29 DEF ConfirmRead, provider
  <2>4. CASE work'[a].pc = "confirmWrite"
    <3>1. row.window = 0
      BY <1>0, <1>29, <2>4 DEF ConfirmRead, AbsenceFirst, Goto, Return, Returned, Idle, Works
    <3>2. Quiet
      <4>1. \A f \in flights : f.kind # "put"
        BY <1>0, <3>1, DirectWriteAssumption DEF WindowInv, Flights
      <4>2. row.state \notin {"Intent", "Open"}
        BY <2>3 DEF EarlyInv, LatePc, Early, At
      <4>3. upload = "closed" \/ \A f \in flights : f.kind # "complete"
        BY <2>3 DEF ConfirmInv
      <4>4. Sink \in route.holders => ~Sending
        BY <2>3, OneAtWork DEF ConfirmInv, Sending, At
      <4> QED BY <4>1, <4>2, <4>3, <4>4 DEF Quiet
    <3>3. \A b \in route.holders \ {a} : work[b].pc \notin {"uploads", "confirm"}
      BY <2>3, OneAtWork DEF ConfirmInv, At
    <3> QED BY <1>0, <1>00, <2>1, <2>2, <2>3, <3>2, <3>3 DEF AbsenceInv, At, Routes
  <2>5. CASE work'[a].pc # "confirmWrite"
    BY <1>00, <1>000, <2>1, <2>2, <2>3, <2>5, AbsenceKept DEF Observed
  <2> QED BY <2>4, <2>5
<1>30. ASSUME NEW a \in Actors, ConfirmWrite(a) PROVE AbsenceInv'
  <2>1. \A b \in Actors \ {a} : work'[b] = work[b]
    BY <1>0, <1>30 DEF ConfirmWrite, Return
  <2>2. work'[a].pc \notin {"uploads", "confirm", "confirmWrite"} /\ At(a, "confirmWrite")
    BY <1>0, <1>30 DEF ConfirmWrite, Return, Returned, Idle
  <2>3. UNCHANGED <<route, versions>>
    BY <1>30 DEF ConfirmWrite, provider
  <2> QED BY <1>0, <1>00, <2>1, <2>2, <2>3 DEF AbsenceInv, At, Routes
<1>31. ASSUME NEW a \in Actors, Cleanup(a) PROVE AbsenceInv'
  BY ActorFacts, <1>0, <1>00, <1>31
  DEF Cleanup, AbsenceInv, Observed, Routes, NoAbsence, At, Goto, Return, Returned, Idle, Works,
      Sinks, Flights
<1>32. ASSUME NEW a \in Actors, FinishAbort(a) PROVE AbsenceInv'
  BY ActorFacts, <1>0, RowFields, <1>00, <1>32
  DEF FinishAbort, AbsenceInv, Observed, Routes, NoAbsence, At, Goto, Return, Returned, Idle,
      provider, Works, Sinks, Flights, Cas
<1>33. ASSUME NEW a \in Actors, Fail(a) PROVE AbsenceInv'
  BY ActorFacts, <1>0, <1>00, <1>33
  DEF Fail, AbsenceInv, Observed, Routes, NoAbsence, At, Return, Returned, Idle, Works, Sinks,
      Flights, Unawaited, Running
<1>34. ASSUME NEW a \in Actors, Renew(a) PROVE AbsenceInv'
  BY ActorFacts, <1>0, <1>00, <1>34
  DEF Renew, AbsenceInv, Observed, Routes, NoAbsence, At, provider, Works, Sinks, Flights
<1>35. ASSUME NEW r \in Reconcilers, ClaimRead(r) PROVE AbsenceInv'
  BY ActorFacts, <1>0, <1>00, <1>35
  DEF ClaimRead, AbsenceInv, Observed, Routes, NoAbsence, At, provider, Works, Sinks, Flights,
      Claimable
<1>36. ASSUME NEW r \in Reconcilers, ClaimWrite(r) PROVE AbsenceInv'
  BY ActorFacts, <1>0, RowFields, <1>00, <1>36
  DEF ClaimWrite, AbsenceInv, Observed, Routes, NoAbsence, At, Goto, Return, Returned, Idle,
      provider, Works, Sinks, Flights
<1>37. ASSUME NEW r \in Reconcilers, Recover(r) PROVE AbsenceInv'
  <2>1. \A b \in Actors : work'[b].pc \in {"uploads", "confirm", "confirmWrite"} =>
                           work[b].pc = work'[b].pc
    BY <1>0, <1>37 DEF Recover, Goto, Return, Returned, Idle, Works
  <2>2. work'[r].pc \notin {"uploads", "confirm"}
    BY ActorFacts, <1>0, <1>37 DEF Recover, Goto, Return, Returned, Idle, Works
  <2>3. route'.holders = {r} \/ route' = route
    BY <1>0, <1>37 DEF Recover, Routes
  <2>4. CASE route' = route
    BY <1>37, <1>00, <1>000, <2>1, <2>4, AbsenceKept DEF Recover, Observed, provider
  <2>5. CASE route'.holders = {r}
    BY <1>37, <1>00, <2>1, <2>2, <2>5 DEF Recover, AbsenceInv, Observed, At, provider
  <2> QED BY <2>3, <2>4, <2>5
<1>38. ASSUME NEW r \in Reconcilers, Begin(r) PROVE AbsenceInv'
  <2>1. \A b \in Actors : work'[b].pc \in {"uploads", "confirm", "confirmWrite"} =>
                           work[b].pc = work'[b].pc
    BY <1>0, <1>38 DEF Begin, Return, Returned, Idle, Works
  <2>2. row'.absence = row.absence
    BY <1>0, <1>38, RowFields DEF Begin
  <2>3. UNCHANGED <<route, versions>>
    BY <1>38 DEF Begin, provider
  <2> QED BY <1>00, <1>000, <2>1, <2>2, <2>3, AbsenceKept DEF Observed
<1>39. ASSUME NEW r \in Reconcilers, SettleTerminal(r) PROVE AbsenceInv'
  BY ActorFacts, <1>0, <1>00, <1>39
  DEF SettleTerminal, AbsenceInv, Observed, Routes, NoAbsence, At, provider, Works, Sinks,
      Flights
<1>40. ASSUME NEW f \in flights, Land(f) PROVE AbsenceInv'
  <2>1. \A b \in Actors : work'[b].pc = work[b].pc
    BY <1>0, <1>40 DEF Land, Works
  <2> QED BY <1>40, <1>00, <1>000, <2>1 DEF Land, AbsenceInv, Observed, At
<1>41. CASE ExpireUpload
  BY ActorFacts, <1>0, <1>00, <1>41
  DEF ExpireUpload, AbsenceInv, Observed, Routes, NoAbsence, At, Works, Sinks, Flights
<1>42. CASE Tick
  <2>1. \A b \in Actors : work'[b].pc = work[b].pc
    BY <1>0, <1>42 DEF Tick, Works
  <2>2. row'.absence = NoAbsence <=> row.absence = NoAbsence
    BY <1>0, <1>42, RowFields DEF Tick
  <2>3. route'.holders = route.holders /\ versions' = versions
    BY <1>0, <1>42 DEF Tick, Routes
  <2> QED BY <1>00, <1>000, <2>1, <2>2, <2>3, AbsenceKept DEF Observed
<1>43. CASE UNCHANGED vars
  BY <1>0, <1>00, <1>43
  DEF vars, AbsenceInv, Observed, Routes, NoAbsence, At, Works, Sinks, Flights
<1> QED
  BY <1>1, <1>2, <1>3, <1>4, <1>5, <1>6, <1>7, <1>8, <1>9, <1>10, <1>11, <1>12, <1>13, <1>14,
     <1>15, <1>16, <1>17, <1>18, <1>19, <1>20, <1>21, <1>22, <1>23, <1>24, <1>25, <1>26, <1>27,
     <1>28, <1>29, <1>30, <1>31, <1>32, <1>33, <1>34, <1>35, <1>36, <1>37, <1>38, <1>39, <1>40,
     <1>41, <1>42, <1>43
  DEF Next, SinkNext, CallNext, ReconcilerNext

\* Every way to start an abort begins with a proof of absence.
LEMMA DeadInvStep ==
    ASSUME TypeOK, AwaitsInv, EarlyInv, FirstAttemptInv, ConfirmInv, AbsenceInv, DeadInv,
           [Next]_vars
    PROVE  DeadInv'
<1>0. /\ work \in [Actors -> Works] /\ route \in Routes /\ sink \in Sinks
      /\ flights \subseteq Flights /\ row \in Rows(Reconcilers, Nat)
  BY DEF TypeOK
<1>00. Dead => Dead'
  BY DeadStep
<1>1. CASE SinkLaunch
  BY <1>1, <1>00, LaunchFacts DEF DeadInv, Abandoned
<1>2. CASE SinkRecordLaunch
  BY ActorFacts, <1>0, RowFields, <1>00, <1>2
  DEF SinkRecordLaunch, DeadInv, Abandoned, At, Goto, provider, Works, Sinks, Flights
<1>3. CASE SinkCallCreate
  BY ActorFacts, <1>0, <1>00, <1>3
  DEF SinkCallCreate, DeadInv, Abandoned, At, Goto, Return, Returned, Idle, Works, Sinks,
      Flights, Send, Flight, Fenced
<1>4. CASE SinkCreated
  BY ActorFacts, <1>0, <1>00, <1>4
  DEF SinkCreated, DeadInv, Abandoned, At, Goto, provider, Works, Sinks, Flights
<1>5. CASE SinkSetOpen
  <2>1. row'.state = row.state \/ row'.state = "Open"
    BY <1>0, <1>5 DEF SinkSetOpen, Opened, Rows
  <2>2. sink'.state = sink.state \/ sink'.state = "Open"
    BY <1>0, <1>5 DEF SinkSetOpen, Sinks
  <2>3. \A b \in Actors : work'[b].pc \in {"cleanup", "finishAbort"} => work[b].pc = work'[b].pc
    <3>1. Goto(Sink, "write") \/ Goto(Sink, "opened") \/ Return(Sink)
      BY <1>5, Zenon DEF SinkSetOpen
    <3> QED BY ActorFacts, <1>0, <3>1 DEF Goto, Return, Returned, Idle, Works
  <2> QED BY <1>00, <2>1, <2>2, <2>3 DEF DeadInv, Abandoned
<1>6. CASE SinkUploadPart
  BY ActorFacts, <1>0, RowFields, <1>00, <1>6
  DEF SinkUploadPart, DeadInv, Abandoned, At, Return, Returned, Idle, provider, Works, Sinks,
      Flights
<1>7. CASE SinkVerify
  BY ActorFacts, <1>0, <1>00, <1>7
  DEF SinkVerify, DeadInv, Abandoned, At, Goto, Return, Returned, Idle, provider, Works, Sinks,
      Flights
<1>8. CASE SinkOpenSingle
  <2>1. row'.state = row.state \/ row'.state = "Open"
    BY <1>0, <1>8 DEF SinkOpenSingle, Opened, Rows
  <2>2. sink'.state = sink.state \/ sink'.state = "Open"
    BY <1>0, <1>8 DEF SinkOpenSingle, Sinks
  <2>3. \A b \in Actors : work'[b].pc \in {"cleanup", "finishAbort"} => work[b].pc = work'[b].pc
    <3>1. Goto(Sink, "write") \/ Goto(Sink, "opened") \/ Return(Sink)
      BY <1>8, Zenon DEF SinkOpenSingle
    <3> QED BY ActorFacts, <1>0, <3>1 DEF Goto, Return, Returned, Idle, Works
  <2> QED BY <1>00, <2>1, <2>2, <2>3 DEF DeadInv, Abandoned
<1>9. CASE SinkStartCompletion
  BY ActorFacts, <1>0, RowFields, <1>00, <1>9
  DEF SinkStartCompletion, DeadInv, Abandoned, At, Goto, Return, Returned, Idle, provider,
      Works, Sinks, Flights, Cas
<1>10. CASE SinkCallPut
  BY ActorFacts, <1>0, <1>00, <1>10
  DEF SinkCallPut, DeadInv, Abandoned, At, Goto, Return, Returned, Idle, Works, Sinks, Flights,
      Send, Flight, Fenced, Error
<1>11. CASE SinkCallComplete
  BY ActorFacts, <1>0, <1>00, <1>11
  DEF SinkCallComplete, DeadInv, Abandoned, At, Goto, Return, Returned, Idle, Works, Sinks,
      Flights, Send, Flight, Fenced, Error, ProbeFinds, ProbeMissing
<1>12. CASE SinkCommitted
  BY ActorFacts, <1>0, <1>00, <1>12
  DEF SinkCommitted, DeadInv, Abandoned, At, provider, Works, Sinks, Flights
<1>13. CASE SinkRejected
  <2>1. CASE work'[Sink].pc \in {"cleanup", "finishAbort"}
    <3>1. /\ At(Sink, "wait") /\ sink.next # "create" /\ ~sink.ambiguous
          /\ UNCHANGED <<sink, row, route, versions>>
      BY ActorFacts, <1>0, <1>13, <2>1 DEF SinkRejected, Goto, Return, Returned, Idle, Works
    <3>2. PICK f \in flights : f.by = Sink /\ f.awaited /\ flights' = flights \ {f}
      BY <1>13 DEF SinkRejected
    <3>3. f.kind \in {"put", "complete"}
      BY <1>0, <3>1, <3>2 DEF AwaitsInv, AwaitPc, At, Flights
    <3>4. versions = {} /\ CommitFlights = {f}
      BY <3>1, <3>2, <3>3 DEF FirstAttemptInv, CommitFlights
    <3>5. \A g \in flights' : g.kind \notin {"put", "complete"}
      BY <3>2, <3>4 DEF CommitFlights
    <3>6. row.state \notin {"Intent", "Open"}
      BY ActorFacts, <3>1 DEF EarlyInv, LatePc, Early, At
    <3>7. ~Sending'
      BY <2>1 DEF Sending, At
    <3> QED BY <3>1, <3>4, <3>5, <3>6, <3>7 DEF DeadInv, Dead, Quiet
  <2>2. CASE work'[Sink].pc \notin {"cleanup", "finishAbort"}
    BY ActorFacts, <1>0, <1>00, <1>13, <2>2
    DEF SinkRejected, DeadInv, Abandoned, At, Goto, Return, Returned, Idle, Works
  <2> QED BY <2>1, <2>2
<1>14. CASE SinkMarkUnknown
  BY ActorFacts, <1>0, RowFields, <1>00, <1>14
  DEF SinkMarkUnknown, DeadInv, Abandoned, At, Goto, Return, Returned, Idle, provider, Works,
      Sinks, Flights, Cas
<1>15. CASE SinkReprobe
  <2>1. \A b \in Actors : work'[b].pc \in {"cleanup", "finishAbort"} => work[b].pc = work'[b].pc
    BY <1>15, ReprobeFacts
  <2>2. sink'.state = "Aborting" => sink.state = "Aborting" \/ row.state = "Aborting"
    BY <1>15, <1>0, <1>15, ReprobeFacts DEF Sinks
  <2> QED BY <1>15, <1>00, <2>1, <2>2, <1>15, ReprobeFacts DEF DeadInv, Abandoned
<1>16. CASE SinkAbort
  <2>1. CASE sink.state = "Aborting"
    BY <1>00, <2>1 DEF DeadInv, Abandoned
  <2>2. CASE sink.state # "Aborting"
    <3>1. row.state \in {"Intent", "Open"} /\ row'.state = "Aborting"
      BY <1>0, <1>16, <2>2, RowFields DEF SinkAbort, Cas
    <3>2. UNCHANGED <<flights, versions, upload>> /\ work'[Sink].pc = "cleanup"
      BY ActorFacts, <1>0, <1>16 DEF SinkAbort, provider, Works
    <3>3. versions = {} /\ \A f \in flights : f.kind = "create"
      BY <3>1 DEF EarlyInv, NoCommitBeforeCompleting
    <3> QED BY <3>1, <3>2, <3>3 DEF DeadInv, Dead, Quiet, Sending, At
  <2> QED BY <2>1, <2>2
<1>17. CASE SinkAbortFinished
  BY ActorFacts, <1>0, <1>00, <1>17
  DEF SinkAbortFinished, DeadInv, Abandoned, At, Goto, provider, Works, Sinks, Flights
<1>18. CASE SinkRelease
  BY ActorFacts, <1>0, <1>00, <1>18
  DEF SinkRelease, DeadInv, Abandoned, At, Goto, Return, Returned, Idle, provider, Works, Sinks,
      Flights
<1>19. CASE SinkDrop
  BY ActorFacts, <1>0, <1>00, <1>19
  DEF SinkDrop, DeadInv, Abandoned, At, Idle, Works, Sinks, Flights, Unawaited, Running
<1>20. ASSUME NEW a \in Actors, AmbiguousReply(a) PROVE DeadInv'
  BY ActorFacts, <1>0, <1>00, <1>20
  DEF AmbiguousReply, DeadInv, Abandoned, At, Goto, Return, Returned, Idle, Works, Sinks,
      Flights, Unawaited, Error
<1>21. ASSUME NEW a \in Actors, Rewrite(a) PROVE DeadInv'
  BY ActorFacts, <1>0, <1>00, <1>21
  DEF Rewrite, DeadInv, Abandoned, At, Goto, Return, Returned, Idle, Works, Sinks, Flights,
      Send, Flight, Error, Fenced
<1>22. ASSUME NEW a \in Actors, Rewritten(a) PROVE DeadInv'
  BY ActorFacts, <1>0, <1>00, <1>22
  DEF Rewritten, DeadInv, Abandoned, At, provider, Works, Sinks, Flights
<1>23. ASSUME NEW a \in Actors, Resolve(a) PROVE DeadInv'
  BY ActorFacts, <1>0, <1>00, <1>23
  DEF Resolve, DeadInv, Abandoned, At, Goto, Return, Returned, Idle, provider, Works, Sinks,
      Flights, Error
<1>24. ASSUME NEW a \in Actors, Purge(a) PROVE DeadInv'
  BY ActorFacts, <1>0, <1>00, <1>24
  DEF Purge, DeadInv, Abandoned, At, Goto, Return, Returned, Idle, Works, Sinks, Flights, Send,
      Flight, Fenced
<1>25. ASSUME NEW a \in Actors, Purged(a) PROVE DeadInv'
  BY ActorFacts, <1>0, <1>00, <1>25
  DEF Purged, DeadInv, Abandoned, At, provider, Works, Sinks, Flights
<1>26. ASSUME NEW a \in Actors, Commit(a) PROVE DeadInv'
  <2>1. \A b \in Actors : work'[b].pc \in {"cleanup", "finishAbort"} => work[b].pc = work'[b].pc
    BY <1>26, CommitFacts
  <2>2. sink'.state = "Aborting" => sink.state = "Aborting" \/ row.state = "Aborting"
    BY <1>26, <1>0, <1>26, CommitFacts DEF Sinks
  <2> QED BY <1>26, <1>00, <2>1, <2>2, <1>26, CommitFacts DEF DeadInv, Abandoned
<1>27. ASSUME NEW a \in Actors, Probe(a) PROVE DeadInv'
  BY ActorFacts, <1>0, <1>00, <1>27
  DEF Probe, DeadInv, Abandoned, At, Goto, Return, Returned, Idle, provider, Works, Sinks,
      Flights, ProbeFinds, ProbeMissing, Fenced
<1>28. ASSUME NEW a \in Actors, ProbeUploads(a) PROVE DeadInv'
  BY ActorFacts, <1>0, <1>00, <1>28
  DEF ProbeUploads, DeadInv, Abandoned, At, Goto, Return, Returned, Idle, provider, Works,
      Sinks, Flights, Fenced
<1>29. ASSUME NEW a \in Actors, ConfirmRead(a) PROVE DeadInv'
  <2>1. CASE work'[a].pc \in {"cleanup", "finishAbort"}
    <3>1. AbsenceConfirmed(row) /\ At(a, "confirm")
      BY <1>0, <1>29, <2>1 DEF ConfirmRead, Goto, Return, Returned, Idle, Works
    <3>2. Observed
      BY <3>1, JournalAssumption DEF AbsenceConfirmed, Observed, NoAbsence
    <3>3. Quiet /\ versions = {}
      BY <3>1, <3>2 DEF AbsenceInv, ConfirmInv, At
    <3> QED BY <1>00, <3>3 DEF DeadInv, Dead
  <2>2. CASE work'[a].pc \notin {"cleanup", "finishAbort"}
    BY <1>0, <1>00, <1>29, <2>2
    DEF ConfirmRead, DeadInv, Abandoned, At, Goto, Return, Returned, Idle, Works
  <2> QED BY <2>1, <2>2
<1>30. ASSUME NEW a \in Actors, ConfirmWrite(a) PROVE DeadInv'
  BY ActorFacts, <1>0, RowFields, <1>00, <1>30
  DEF ConfirmWrite, DeadInv, Abandoned, At, Return, Returned, Idle, provider, Works, Sinks,
      Flights
<1>31. ASSUME NEW a \in Actors, Cleanup(a) PROVE DeadInv'
  BY <1>00, <1>31 DEF Cleanup, DeadInv, Abandoned, At
<1>32. ASSUME NEW a \in Actors, FinishAbort(a) PROVE DeadInv'
  BY <1>00, <1>32 DEF FinishAbort, DeadInv, Abandoned, At
<1>33. ASSUME NEW a \in Actors, Fail(a) PROVE DeadInv'
  BY ActorFacts, <1>0, <1>00, <1>33
  DEF Fail, DeadInv, Abandoned, At, Return, Returned, Idle, Works, Sinks, Flights, Unawaited,
      Running
<1>34. ASSUME NEW a \in Actors, Renew(a) PROVE DeadInv'
  BY ActorFacts, <1>0, <1>00, <1>34
  DEF Renew, DeadInv, Abandoned, At, provider, Works, Sinks, Flights
<1>35. ASSUME NEW r \in Reconcilers, ClaimRead(r) PROVE DeadInv'
  BY ActorFacts, <1>0, <1>00, <1>35
  DEF ClaimRead, DeadInv, Abandoned, At, provider, Works, Sinks, Flights, Claimable
<1>36. ASSUME NEW r \in Reconcilers, ClaimWrite(r) PROVE DeadInv'
  BY ActorFacts, <1>0, RowFields, <1>00, <1>36
  DEF ClaimWrite, DeadInv, Abandoned, At, Goto, Return, Returned, Idle, provider, Works, Sinks,
      Flights
<1>37. ASSUME NEW r \in Reconcilers, Recover(r) PROVE DeadInv'
  BY ActorFacts, <1>0, <1>00, <1>37
  DEF Recover, DeadInv, Abandoned, At, Goto, Return, Returned, Idle, provider, Works, Sinks,
      Flights
<1>38. ASSUME NEW r \in Reconcilers, Begin(r) PROVE DeadInv'
  <2>1. CASE Abandoned
    BY <1>00, <2>1 DEF DeadInv
  <2>2. CASE ~Abandoned /\ work[r].snap \in {"Intent", "Open"} /\ row' = Moved(row, "Aborting")
    <3>1. row.state \in {"Intent", "Open"} /\ row'.state = "Aborting"
      BY <1>0, <1>38, <2>2, RowFields DEF Begin, Cas, Abandoned
    <3>2. UNCHANGED <<sink, flights, versions, upload>> /\ work'[Sink] = work[Sink]
      BY ActorFacts, <1>0, <1>38 DEF Begin, provider, Return
    <3>3. versions = {} /\ \A f \in flights : f.kind = "create"
      BY <3>1 DEF EarlyInv, NoCommitBeforeCompleting
    <3>4. ~Sending
      BY ActorFacts, <3>1 DEF EarlyInv, LatePc, Early, Sending, At
    <3> QED BY <3>1, <3>2, <3>3, <3>4 DEF DeadInv, Dead, Quiet, Sending, At
  <2>3. CASE ~Abandoned /\ ~(work[r].snap \in {"Intent", "Open"} /\ row' = Moved(row, "Aborting"))
    <3>1. ~Abandoned'
      <4>1. work[r].snap # "Aborting"
        BY <1>38, <2>3 DEF Begin, EarlyInv, Abandoned, At
      <4>2. \A b \in Actors : work'[b].pc \in {"cleanup", "finishAbort"} => work[b].pc = work'[b].pc
        BY <1>0, <1>38, <2>3, <4>1, ActorFacts
        DEF Begin, Return, Returned, Idle, Works, OperationStates, Cas, CanTransitionTo
      <4>3. row'.state = row.state \/ row'.state = "CommitUnknown"
        BY <1>0, <1>38, <2>3, <4>1, ActorFacts, RowFields
        DEF Begin, Works, OperationStates, Cas, CanTransitionTo
      <4> QED BY <1>38, <2>3, <4>2, <4>3 DEF Begin, Abandoned
    <3> QED BY <3>1 DEF DeadInv
  <2> QED BY <2>1, <2>2, <2>3
<1>39. ASSUME NEW r \in Reconcilers, SettleTerminal(r) PROVE DeadInv'
  BY ActorFacts, <1>0, <1>00, <1>39
  DEF SettleTerminal, DeadInv, Abandoned, At, provider, Works, Sinks, Flights
<1>40. ASSUME NEW f \in flights, Land(f) PROVE DeadInv'
  <2>1. \A b \in Actors : work'[b].pc = work[b].pc
    BY <1>0, <1>40 DEF Land, Works
  <2> QED BY <1>40, <1>00, <2>1 DEF Land, DeadInv, Abandoned
<1>41. CASE ExpireUpload
  BY ActorFacts, <1>0, <1>00, <1>41
  DEF ExpireUpload, DeadInv, Abandoned, At, Works, Sinks, Flights
<1>42. CASE Tick
  <2>1. \A b \in Actors : work'[b].pc = work[b].pc
    BY <1>0, <1>42 DEF Tick, Works
  <2>2. row'.state = row.state /\ sink'.state = sink.state
    BY <1>0, <1>42, RowFields DEF Tick, Sinks
  <2> QED BY <1>00, <2>1, <2>2 DEF DeadInv, Abandoned
<1>43. CASE UNCHANGED vars
  BY <1>0, <1>00, <1>43 DEF vars, DeadInv, Abandoned, At, Works, Sinks, Flights
<1> QED
  BY <1>1, <1>2, <1>3, <1>4, <1>5, <1>6, <1>7, <1>8, <1>9, <1>10, <1>11, <1>12, <1>13, <1>14,
     <1>15, <1>16, <1>17, <1>18, <1>19, <1>20, <1>21, <1>22, <1>23, <1>24, <1>25, <1>26, <1>27,
     <1>28, <1>29, <1>30, <1>31, <1>32, <1>33, <1>34, <1>35, <1>36, <1>37, <1>38, <1>39, <1>40,
     <1>41, <1>42, <1>43
  DEF Next, SinkNext, CallNext, ReconcilerNext

-----------------------------------------------------------------------------
(* The theorems.                                                            *)

LEMMA InvInit == Init => IInv
<1> SUFFICES ASSUME Init PROVE IInv
  OBVIOUS
<1>1. TypeOK
  BY TypeInit
<1>2. \A a \in Actors : work[a].pc = IF a = Sink THEN "write" ELSE "idle"
  BY DEF Init, Idle
<1>3. /\ route.holders = {Sink, Request} /\ ~sink.signalled /\ ~sink.upload
      /\ sink.next = "create" /\ sink.state = "Intent" /\ ~sink.ambiguous
      /\ row.state = "Intent" /\ row.absence = NoAbsence
  BY DEF Init, IntentRow
<1>4. flights = {} /\ versions = {}
  BY DEF Init
<1>5. HoldersInv /\ AwaitsInv /\ UploadInv
  BY <1>2, <1>3, <1>4, ActorFacts DEF HoldersInv, AwaitsInv, UploadInv, At
<1>6. EarlyInv
  BY <1>2, <1>3, <1>4, ActorFacts DEF EarlyInv, NoCommitBeforeCompleting, LatePc, At
<1>7. WindowInv /\ FirstAttemptInv
  BY <1>2, <1>3, <1>4, ActorFacts DEF WindowInv, FirstAttemptInv, At
<1>8. ConfirmInv /\ AbsenceInv /\ DeadInv
  BY <1>2, <1>3, <1>4, ActorFacts
  DEF ConfirmInv, AbsenceInv, Observed, DeadInv, Abandoned, At, TypeOK, Routes
<1> QED BY <1>1, <1>5, <1>6, <1>7, <1>8 DEF IInv

LEMMA InvStep == IInv /\ [Next]_vars => IInv'
<1> SUFFICES ASSUME IInv, [Next]_vars PROVE IInv'
  OBVIOUS
<1> USE DEF IInv
<1>1. TypeOK'
  BY TypeStep
<1>2. HoldersInv' /\ AwaitsInv' /\ UploadInv'
  BY HoldersStep, AwaitsStep, UploadStep
<1>3. EarlyInv' /\ WindowInv'
  BY EarlyStep, WindowStep
<1>4. FirstAttemptInv' /\ ConfirmInv'
  BY FirstAttemptStep, ConfirmStep
<1>5. AbsenceInv' /\ DeadInv'
  BY AbsenceStep, DeadInvStep
<1> QED BY <1>1, <1>2, <1>3, <1>4, <1>5

\* The invariant that carries the safety proof holds in every reachable state.
THEOREM Invariance == Spec => []IInv
BY InvInit, InvStep, PTL DEF Spec

\* A row recorded as PROVEN_ABORTED (s3.rs finish_abort, the reconciler's
\* cleanup) is a proof of absence, for any number of reconcilers, any number of
\* attempts and any timing with Stall + FlightTime < Window.
THEOREM AbortIsProof == Spec => []AbortedMeansAbsent
<1>1. IInv => AbortedMeansAbsent
  BY DEF IInv, DeadInv, Abandoned, Dead, AbortedMeansAbsent
<1> QED BY <1>1, Invariance, PTL

\* While the row can still take the ABORTING path, nothing that creates a
\* version has been sent.
THEOREM EarlyRowsHaveNoVersion == Spec => []NoCommitBeforeCompleting
<1>1. IInv => NoCommitBeforeCompleting
  BY DEF IInv, EarlyInv
<1> QED BY <1>1, Invariance, PTL

\* A transition starts from a nonterminal row ...
LEMMA CasNonterminal ==
    ASSUME NEW r, NEW s, NEW t, Cas(r, s, t)
    PROVE  r.state = s /\ s \notin Terminal
BY DEF Cas, CanTransitionTo, Terminal

\* ... and the other updates keep the state.
LEMMA RowStates ==
    ASSUME row \in Rows(Reconcilers, Nat)
    PROVE  /\ \A s : Moved(row, s).state = s
           /\ \A v, h : MovedToCommitted(row, v, h).state = "Committed"
           /\ \A u : Opened(row, u).state = "Open"
           /\ \A n : Launched(row, n).state = row.state
           /\ \A n : AbsenceStored(row, n).state = row.state
           /\ \A o : Claimed(row, o).state = row.state
           /\ RowTick(row).state = row.state
BY RowFields

\* A terminal row stays as it is, and an outcome is reported or settled only
\* from the row that records it.
LEMMA AnswersStep == ASSUME TypeOK, AnswersAgree, [Next]_vars PROVE AnswersAgree'
<1>0. /\ work \in [Actors -> Works] /\ route \in Routes /\ sink \in Sinks
      /\ row \in Rows(Reconcilers, Nat)
  BY DEF TypeOK
<1>1. CASE SinkLaunch
  BY <1>0, <1>1 DEF SinkLaunch, AnswersAgree, Terminal, Sinks
<1>2. CASE SinkRecordLaunch
  BY <1>0, <1>2, RowStates DEF SinkRecordLaunch, AnswersAgree, Terminal
<1>3. CASE SinkCallCreate
  BY <1>0, <1>3 DEF SinkCallCreate, AnswersAgree, Terminal
<1>4. CASE SinkCreated
  BY <1>0, <1>4 DEF SinkCreated, AnswersAgree, Terminal
<1>5. CASE SinkSetOpen
  <2>1. row.state \in Terminal => row'.state = row.state
    BY <1>0, <1>5, RowStates, CasNonterminal DEF SinkSetOpen
  <2>2. sink'.state \in Terminal => sink'.state \in {sink.state, row'.state}
    BY <1>0, <1>5, RowStates DEF SinkSetOpen, Terminal, Sinks
  <2>3. route' = route
    BY <1>5 DEF SinkSetOpen
  <2> QED BY <1>0, <2>1, <2>2, <2>3 DEF AnswersAgree, Terminal, Routes
<1>6. CASE SinkUploadPart
  BY <1>0, <1>6, RowStates DEF SinkUploadPart, AnswersAgree, Terminal
<1>7. CASE SinkVerify
  BY <1>0, <1>7 DEF SinkVerify, AnswersAgree, Terminal
<1>8. CASE SinkOpenSingle
  <2>1. row.state \in Terminal => row'.state = row.state
    BY <1>0, <1>8, RowStates, CasNonterminal DEF SinkOpenSingle
  <2>2. sink'.state \in Terminal => sink'.state \in {sink.state, row'.state}
    BY <1>0, <1>8, RowStates DEF SinkOpenSingle, Terminal, Sinks
  <2>3. route' = route
    BY <1>8 DEF SinkOpenSingle
  <2> QED BY <1>0, <2>1, <2>2, <2>3 DEF AnswersAgree, Terminal, Routes
<1>9. CASE SinkStartCompletion
  <2>1. row.state \in Terminal => row'.state = row.state
    BY <1>0, <1>9, RowStates, CasNonterminal DEF SinkStartCompletion
  <2>2. sink'.state \in Terminal => sink'.state \in {sink.state, row'.state}
    BY <1>0, <1>9, RowStates DEF SinkStartCompletion, Terminal, Sinks
  <2>3. route' = route
    BY <1>9 DEF SinkStartCompletion
  <2> QED BY <1>0, <2>1, <2>2, <2>3 DEF AnswersAgree, Terminal, Routes
<1>10. CASE SinkCallPut
  BY <1>0, <1>10 DEF SinkCallPut, AnswersAgree, Terminal, Error, Sinks
<1>11. CASE SinkCallComplete
  BY <1>0, <1>11 DEF SinkCallComplete, AnswersAgree, Terminal, Error, Sinks
<1>12. CASE SinkCommitted
  BY <1>0, <1>12 DEF SinkCommitted, AnswersAgree, Terminal
<1>13. CASE SinkRejected
  BY <1>0, <1>13 DEF SinkRejected, AnswersAgree, Terminal
<1>14. CASE SinkMarkUnknown
  <2>1. row.state \in Terminal => row'.state = row.state
    BY <1>0, <1>14, RowStates, CasNonterminal DEF SinkMarkUnknown
  <2>2. sink'.state \in Terminal => sink'.state \in {sink.state, row'.state}
    BY <1>0, <1>14, RowStates DEF SinkMarkUnknown, Terminal, Sinks
  <2>3. route' = route
    BY <1>14 DEF SinkMarkUnknown
  <2> QED BY <1>0, <2>1, <2>2, <2>3 DEF AnswersAgree, Terminal, Routes
<1>15. CASE SinkReprobe
  <2>1. row.state \in Terminal => row'.state = row.state
    BY <1>15, ReprobeFacts DEF Terminal
  <2>2. sink'.state = sink.state \/ sink'.state = row'.state
    BY <1>0, <1>15, ReprobeFacts DEF Sinks
  <2>3. route' = route
    BY <1>15, ReprobeFacts
  <2> QED BY <1>0, <2>1, <2>2, <2>3 DEF AnswersAgree, Terminal, Routes
<1>16. CASE SinkAbort
  <2>1. row.state \in Terminal => row'.state = row.state
    BY <1>0, <1>16, RowStates, CasNonterminal DEF SinkAbort
  <2>2. sink'.state \in Terminal => sink'.state \in {sink.state, row'.state}
    BY <1>0, <1>16, RowStates DEF SinkAbort, Terminal, Sinks
  <2>3. route' = route
    BY <1>16 DEF SinkAbort
  <2> QED BY <1>0, <2>1, <2>2, <2>3 DEF AnswersAgree, Terminal, Routes
<1>17. CASE SinkAbortFinished
  BY <1>0, <1>17 DEF SinkAbortFinished, AnswersAgree, Terminal
<1>18. CASE SinkRelease
  BY <1>0, <1>18 DEF SinkRelease, AnswersAgree, Terminal, Routes
<1>19. CASE SinkDrop
  BY <1>0, <1>19 DEF SinkDrop, AnswersAgree, Terminal, Sinks
<1>20. ASSUME NEW a \in Actors, AmbiguousReply(a) PROVE AnswersAgree'
  BY <1>0, <1>20 DEF AmbiguousReply, AnswersAgree, Terminal, Error, Sinks
<1>21. ASSUME NEW a \in Actors, Rewrite(a) PROVE AnswersAgree'
  BY <1>0, <1>21 DEF Rewrite, AnswersAgree, Terminal, Error, Sinks
<1>22. ASSUME NEW a \in Actors, Rewritten(a) PROVE AnswersAgree'
  BY <1>0, <1>22 DEF Rewritten, AnswersAgree, Terminal
<1>23. ASSUME NEW a \in Actors, Resolve(a) PROVE AnswersAgree'
  BY <1>0, <1>23 DEF Resolve, AnswersAgree, Terminal, Error, Sinks
<1>24. ASSUME NEW a \in Actors, Purge(a) PROVE AnswersAgree'
  BY <1>0, <1>24 DEF Purge, AnswersAgree, Terminal
<1>25. ASSUME NEW a \in Actors, Purged(a) PROVE AnswersAgree'
  BY <1>0, <1>25 DEF Purged, AnswersAgree, Terminal
<1>26. ASSUME NEW a \in Actors, Commit(a) PROVE AnswersAgree'
  <2>1. row.state \in Terminal => row'.state = row.state
    BY <1>0, <1>26, RowStates, CasNonterminal DEF Commit
  <2>2. sink'.state \in Terminal => sink'.state \in {sink.state, row'.state}
    BY <1>0, <1>26, RowStates DEF Commit, Terminal, Sinks
  <2>3. route' = route
    BY <1>26 DEF Commit
  <2> QED BY <1>0, <2>1, <2>2, <2>3 DEF AnswersAgree, Terminal, Routes
<1>27. ASSUME NEW a \in Actors, Probe(a) PROVE AnswersAgree'
  BY <1>0, <1>27 DEF Probe, AnswersAgree, Terminal
<1>28. ASSUME NEW a \in Actors, ProbeUploads(a) PROVE AnswersAgree'
  BY <1>0, <1>28 DEF ProbeUploads, AnswersAgree, Terminal
<1>29. ASSUME NEW a \in Actors, ConfirmRead(a) PROVE AnswersAgree'
  BY <1>0, <1>29 DEF ConfirmRead, AnswersAgree, Terminal
<1>30. ASSUME NEW a \in Actors, ConfirmWrite(a) PROVE AnswersAgree'
  BY <1>0, <1>30, RowStates DEF ConfirmWrite, AnswersAgree, Terminal
<1>31. ASSUME NEW a \in Actors, Cleanup(a) PROVE AnswersAgree'
  BY <1>0, <1>31 DEF Cleanup, AnswersAgree, Terminal
<1>32. ASSUME NEW a \in Actors, FinishAbort(a) PROVE AnswersAgree'
  <2>1. row.state \in Terminal => row'.state = row.state
    BY <1>0, <1>32, RowStates, CasNonterminal DEF FinishAbort
  <2>2. sink'.state \in Terminal => sink'.state \in {sink.state, row'.state}
    BY <1>0, <1>32, RowStates DEF FinishAbort, Terminal, Sinks
  <2>3. route' = route
    BY <1>32 DEF FinishAbort
  <2> QED BY <1>0, <2>1, <2>2, <2>3 DEF AnswersAgree, Terminal, Routes
<1>33. ASSUME NEW a \in Actors, Fail(a) PROVE AnswersAgree'
  BY <1>0, <1>33 DEF Fail, AnswersAgree, Terminal
<1>34. ASSUME NEW a \in Actors, Renew(a) PROVE AnswersAgree'
  BY <1>0, <1>34 DEF Renew, AnswersAgree, Terminal, Routes
<1>35. ASSUME NEW r \in Reconcilers, ClaimRead(r) PROVE AnswersAgree'
  BY <1>0, <1>35 DEF ClaimRead, AnswersAgree, Terminal
<1>36. ASSUME NEW r \in Reconcilers, ClaimWrite(r) PROVE AnswersAgree'
  BY <1>0, <1>36, RowStates DEF ClaimWrite, AnswersAgree, Terminal
<1>37. ASSUME NEW r \in Reconcilers, Recover(r) PROVE AnswersAgree'
  BY <1>0, <1>37 DEF Recover, AnswersAgree, Terminal, Routes
<1>38. ASSUME NEW r \in Reconcilers, Begin(r) PROVE AnswersAgree'
  <2>1. row.state \in Terminal => row'.state = row.state
    BY <1>0, <1>38, RowStates, CasNonterminal DEF Begin
  <2>2. sink'.state \in Terminal => sink'.state \in {sink.state, row'.state}
    BY <1>0, <1>38, RowStates DEF Begin, Terminal, Sinks
  <2>3. route' = route
    BY <1>38 DEF Begin
  <2> QED BY <1>0, <2>1, <2>2, <2>3 DEF AnswersAgree, Terminal, Routes
<1>39. ASSUME NEW r \in Reconcilers, SettleTerminal(r) PROVE AnswersAgree'
  BY <1>0, <1>39 DEF SettleTerminal, AnswersAgree, Terminal, Routes
<1>40. ASSUME NEW f \in flights, Land(f) PROVE AnswersAgree'
  BY <1>0, <1>40 DEF Land, AnswersAgree, Terminal
<1>41. CASE ExpireUpload
  BY <1>0, <1>41 DEF ExpireUpload, AnswersAgree, Terminal
<1>42. CASE Tick
  BY <1>0, <1>42, RowStates DEF Tick, AnswersAgree, Terminal, Sinks, Routes
<1>43. CASE UNCHANGED vars
  BY <1>43 DEF vars, AnswersAgree
<1> QED
  BY <1>1, <1>2, <1>3, <1>4, <1>5, <1>6, <1>7, <1>8, <1>9, <1>10, <1>11, <1>12, <1>13, <1>14,
     <1>15, <1>16, <1>17, <1>18, <1>19, <1>20, <1>21, <1>22, <1>23, <1>24, <1>25, <1>26, <1>27,
     <1>28, <1>29, <1>30, <1>31, <1>32, <1>33, <1>34, <1>35, <1>36, <1>37, <1>38, <1>39, <1>40,
     <1>41, <1>42, <1>43
  DEF Next, SinkNext, CallNext, ReconcilerNext

\* What complete() and abort() answer, how the route is settled and what the
\* journal records never disagree.
THEOREM AnswersAgreement == Spec => []AnswersAgree
<1>1. Init => AnswersAgree
  BY DEF Init, AnswersAgree, Terminal
<1>2. TypeOK /\ AnswersAgree /\ [Next]_vars => AnswersAgree'
  BY AnswersStep
<1> QED BY <1>1, <1>2, Typing, PTL DEF Spec

-----------------------------------------------------------------------------
(* Plain backends.  A backend without exact_version_recovery never lists the  *)
(* versions of an operation, so a cleanup deletes at most the version that    *)
(* its own completion made and its own copy replaced.  Such a version lacks   *)
(* the metadata, and what is recorded as committed has it.                    *)

\* Versions that were made, and are not or no longer there with the metadata.
Superseded == (1..minted) \ FullIds

\* The version an actor is about to commit is there in full, and what it is
\* about to delete is not.
LocalsOK(w) ==
    /\ w.redundant \subseteq Superseded
    /\ w.first \in Superseded \cup {0}
    /\ w.pc \in {"resolve", "purge", "purgeWait"} => w.version \in FullIds
    /\ w.pc = "rewriteWait" /\ w.got # 0 => w.got \in FullIds

\* The inductive invariant behind CommittedVersionSurvives on a plain backend.
PlainInv ==
    /\ \A f \in flights : f.kind = "delete" => f.version \in Superseded /\ FullIds # {}
    /\ \A a \in Actors : LocalsOK(work[a])
    /\ At(Sink, "wait") /\ work[Sink].got # 0 =>
          /\ sink.next = "put" => work[Sink].got \in FullIds
          /\ sink.next = "complete" => work[Sink].got \in Superseded
    /\ row.state = "Committed" => row.version \in FullIds

\* An actor's locals are as before, or fit and hold no answer of the provider.
LocalsKept ==
    \A b \in Actors : \/ work'[b] = work[b]
                      \/ LocalsOK(work'[b]) /\ ~(work'[b].pc = "wait" /\ work'[b].got # 0)

\* The deletions under way are those of before.
DeletesKept ==
    \A f \in flights' : f.kind = "delete" => \E g \in flights : g.kind = "delete" /\ g.version = f.version

\* The row is not committed, or names a version that is there.
RowKept == row'.state = "Committed" => row'.version \in FullIds

\* Steps that leave the provider's versions alone.
LEMMA PlainKept ==
    ASSUME TypeOK, PlainInv, UNCHANGED <<versions, minted>>, LocalsKept, RowKept,
           \A f \in flights' : f.kind = "delete" => f.version \in Superseded /\ FullIds # {},
           sink'.next = sink.next \/ work'[Sink].pc # "wait"
    PROVE  PlainInv'
<1>1. FullIds' = FullIds /\ Superseded' = Superseded
  BY DEF FullIds, Superseded
<1>2. \A a \in Actors : LocalsOK(work[a])'
  <2> TAKE a \in Actors
  <2>1. LocalsOK(work'[a])
    BY DEF LocalsKept, PlainInv
  <2> QED BY <1>1, <2>1 DEF LocalsOK
<1>3. ASSUME At(Sink, "wait")', work'[Sink].got # 0
      PROVE  /\ sink'.next = "put" => work'[Sink].got \in FullIds'
             /\ sink'.next = "complete" => work'[Sink].got \in Superseded'
  <2>1. work'[Sink] = work[Sink] /\ sink'.next = sink.next
    BY <1>3, ActorFacts DEF LocalsKept, At
  <2> QED BY <1>1, <1>3, <2>1 DEF PlainInv, At
<1> QED BY <1>1, <1>2, <1>3 DEF PlainInv, RowKept

\* The same when no deletion is sent.
LEMMA PlainKeptDeletes ==
    ASSUME TypeOK, PlainInv, UNCHANGED <<versions, minted>>, LocalsKept, RowKept, DeletesKept,
           sink'.next = sink.next \/ work'[Sink].pc # "wait"
    PROVE  PlainInv'
<1>1. \A f \in flights' : f.kind = "delete" => f.version \in Superseded /\ FullIds # {}
  BY DEF DeletesKept, PlainInv
<1> QED BY <1>1, PlainKept

\* Going on keeps what an actor holds and forgets the answer.
LEMMA LocalsGoto ==
    ASSUME TypeOK, PlainInv, NEW a \in Actors, NEW pc, Goto(a, pc),
           pc \in {"resolve", "purge", "purgeWait"} => work[a].pc \in {"resolve", "purge", "purgeWait"}
    PROVE  LocalsKept /\ work'[a].pc = pc /\ \A b \in Actors \ {a} : work'[b] = work[b]
<1>1. work \in [Actors -> Works]
  BY DEF TypeOK
<1>2. PICK w : w = [work[a] EXCEPT !.pc = pc, !.got = 0]
  OBVIOUS
<1>3. /\ w.redundant = work[a].redundant /\ w.first = work[a].first /\ w.version = work[a].version
      /\ w.pc = pc /\ w.got = 0
  BY <1>1, <1>2 DEF Works
<1>4. work' = [work EXCEPT ![a] = w]
  BY <1>1, <1>2 DEF Goto
<1>5. LocalsOK(w)
  BY <1>3 DEF PlainInv, LocalsOK
<1>6. work'[a] = w /\ \A b \in Actors \ {a} : work'[b] = work[b]
  BY <1>1, <1>4
<1> QED BY <1>3, <1>5, <1>6 DEF LocalsKept

\* An actor that starts anew holds nothing.
LEMMA LocalsIdle ==
    ASSUME NEW pc, pc \notin {"resolve", "purge", "purgeWait"}
    PROVE  LocalsOK([Idle EXCEPT !.pc = pc]) /\ [Idle EXCEPT !.pc = pc].got = 0
BY DEF LocalsOK, Idle

\* Returning to the caller forgets everything.
LEMMA LocalsReturn ==
    ASSUME TypeOK, PlainInv, NEW a \in Actors, Return(a)
    PROVE  /\ LocalsKept /\ work'[a].pc \in {"failed", "over", "idle"}
           /\ \A b \in Actors \ {a} : work'[b] = work[b]
<1>1. work \in [Actors -> Works]
  BY DEF TypeOK
<1>2. PICK pc \in {"failed", "over", "idle"} : work' = [work EXCEPT ![a] = [Idle EXCEPT !.pc = pc]]
  BY DEF Return, Returned
<1>3. LocalsOK([Idle EXCEPT !.pc = pc]) /\ [Idle EXCEPT !.pc = pc].got = 0 /\ [Idle EXCEPT !.pc = pc].pc = pc
  BY LocalsIdle DEF Idle
<1>4. work'[a] = [Idle EXCEPT !.pc = pc] /\ \A b \in Actors \ {a} : work'[b] = work[b]
  BY <1>1, <1>2
<1> QED BY <1>3, <1>4 DEF LocalsKept

\* Whether it is retried or returned, an error leaves the locals fitting.
LEMMA LocalsError ==
    ASSUME TypeOK, PlainInv, NEW a \in Actors, Error(a)
    PROVE  /\ LocalsKept /\ sink'.next = sink.next /\ work'[a].pc # "wait"
<1>1. sink \in Sinks
  BY DEF TypeOK
<1>2. CASE a = Sink /\ work[a].from = "Completing"
  <2>1. Goto(a, "attempt") /\ sink' = [sink EXCEPT !.ambiguous = TRUE]
    BY <1>2 DEF Error
  <2> QED BY <1>1, <2>1, LocalsGoto DEF Sinks
<1>3. CASE ~(a = Sink /\ work[a].from = "Completing")
  <2>1. Return(a) /\ UNCHANGED sink
    BY <1>3 DEF Error
  <2> QED BY <2>1, LocalsReturn
<1> QED BY <1>2, <1>3

\* A single actor's locals, replaced by locals that fit.
LEMMA LocalsSet ==
    ASSUME TypeOK, NEW a \in Actors, NEW w, work' = [work EXCEPT ![a] = w],
           LocalsOK(w), w.pc # "wait"
    PROVE  LocalsKept /\ work'[a] = w
BY DEF TypeOK, LocalsKept

\* What the journal's updates do to the version that the row names.
LEMMA RowVersions ==
    ASSUME TypeOK, PlainInv
    PROVE  /\ \A s : s # "Committed" /\ row' = Moved(row, s) => RowKept
           /\ \A u : row' = Opened(row, u) => RowKept
           /\ \A n : row' = Launched(row, n) => RowKept
           /\ \A n : row' = AbsenceStored(row, n) => RowKept
           /\ \A o : row' = Claimed(row, o) => RowKept
           /\ row' = RowTick(row) => RowKept
           /\ row' = row => RowKept
           /\ \A v, h : row' = MovedToCommitted(row, v, h) /\ v \in FullIds => RowKept
<1>0. row \in Rows(Reconcilers, Nat)
  BY DEF TypeOK
<1>1. \A s : s # "Committed" /\ row' = Moved(row, s) => RowKept
  BY <1>0 DEF Rows, Moved, RowKept
<1>2. \A u : row' = Opened(row, u) => RowKept
  BY <1>0 DEF Rows, Opened, RowKept
<1>3. \A n : row' = Launched(row, n) => RowKept
  BY <1>0 DEF Rows, Launched, RowKept, PlainInv
<1>4. \A n : row' = AbsenceStored(row, n) => RowKept
  BY <1>0 DEF Rows, AbsenceStored, RowKept, PlainInv
<1>5. \A o : row' = Claimed(row, o) => RowKept
  BY <1>0 DEF Rows, Claimed, RowKept, PlainInv
<1>6. row' = RowTick(row) => RowKept
  BY <1>0 DEF Rows, RowTick, RowKept, PlainInv
<1>7. row' = row => RowKept
  BY DEF RowKept, PlainInv
<1>8. \A v, h : row' = MovedToCommitted(row, v, h) /\ v \in FullIds => RowKept
  BY <1>0 DEF Rows, MovedToCommitted, Moved, RowKept
<1> QED BY <1>1, <1>2, <1>3, <1>4, <1>5, <1>6, <1>7, <1>8

\* Giving up a call starts no deletion.
LEMMA GiveUpDeletes ==
    ASSUME TypeOK, NEW a \in Actors, flights' = Unawaited(a)
    PROVE  DeletesKept
<1> SUFFICES ASSUME NEW g \in flights', g.kind = "delete"
             PROVE  \E f \in flights : f.kind = "delete" /\ f.version = g.version
  BY DEF DeletesKept
<1>1. PICK f \in flights : g = [f EXCEPT !.awaited = f.awaited /\ f.by # a]
  BY DEF Unawaited
<1>2. f \in Flights
  BY DEF TypeOK
<1> QED BY <1>1, <1>2 DEF Flights

\* Neither does sending another call.
LEMMA SendDeletes ==
    ASSUME NEW kind, kind # "delete", NEW a, NEW v, Send(kind, a, v)
    PROVE  DeletesKept
BY DEF Send, Flight, DeletesKept

\* A call is sent, or refused for want of the fence.
LEMMA SendOrError ==
    ASSUME TypeOK, PlainInv, NEW a \in Actors, NEW kind, kind # "delete", NEW pc, pc \in {"wait", "rewriteWait"}, NEW v,
           \/ Goto(a, pc) /\ Send(kind, a, v) /\ UNCHANGED sink
           \/ Error(a) /\ UNCHANGED flights
    PROVE  LocalsKept /\ DeletesKept /\ sink'.next = sink.next
<1>1. CASE Goto(a, pc) /\ Send(kind, a, v) /\ UNCHANGED sink
  BY <1>1, LocalsGoto, SendDeletes
<1>2. CASE Error(a) /\ UNCHANGED flights
  BY <1>2, LocalsError DEF DeletesKept
<1> QED BY <1>1, <1>2

\* A probe of a plain backend sees the latest version only.
LEMMA ProbeLocals ==
    ASSUME TypeOK, PlainInv, ~Exact, NEW a \in Actors, ProbeFinds(a)
    PROVE  LocalsKept
<1>1. work \in [Actors -> Works] /\ LocalsOK(work[a])
  BY DEF TypeOK, PlainInv
<1>2. CASE /\ ProbeCommitted
           /\ work' = [work EXCEPT ![a].pc = "purge", ![a].version = ProbeVersion,
                                   ![a].first = 0, ![a].redundant = ProbeRedundant]
  <2>1. ProbeVersion \in FullIds /\ ProbeRedundant = {}
    BY <1>2 DEF ProbeCommitted, ProbeVersion, ProbeRedundant
  <2>2. PICK w : w = [work[a] EXCEPT !.pc = "purge", !.version = ProbeVersion, !.first = 0, !.redundant = ProbeRedundant]
    OBVIOUS
  <2>3. w.pc = "purge" /\ w.version = ProbeVersion /\ w.first = 0 /\ w.redundant = ProbeRedundant
    BY <1>1, <2>2 DEF Works
  <2>4. work' = [work EXCEPT ![a] = w]
    BY <1>1, <1>2, <2>2
  <2>5. LocalsOK(w)
    BY <2>1, <2>3 DEF LocalsOK
  <2> QED BY <2>3, <2>4, <2>5, LocalsSet
<1>3. CASE work' = [work EXCEPT ![a].pc = "rewrite", ![a].version = Latest(Ids), ![a].first = 0]
  <2>1. PICK w : w = [work[a] EXCEPT !.pc = "rewrite", !.version = Latest(Ids), !.first = 0]
    OBVIOUS
  <2>2. w.pc = "rewrite" /\ w.first = 0 /\ w.redundant = work[a].redundant
    BY <1>1, <2>1 DEF Works
  <2>3. work' = [work EXCEPT ![a] = w]
    BY <1>1, <1>3, <2>1
  <2>4. LocalsOK(w)
    BY <1>1, <2>2 DEF LocalsOK
  <2> QED BY <2>2, <2>3, <2>4, LocalsSet
<1> QED BY <1>2, <1>3 DEF ProbeFinds

\* A version appears, or a superseded one goes: what is there in full stays.
LEMMA PlainLand ==
    ASSUME TypeOK, AwaitsInv, PlainInv, NEW f \in flights, Land(f)
    PROVE  PlainInv'
<1>0. /\ work \in [Actors -> Works] /\ f \in Flights /\ flights \subseteq Flights /\ minted \in Nat
      /\ versions \subseteq [id : 1..minted, full : BOOLEAN]
  BY DEF TypeOK
<1>1. /\ FullIds \subseteq FullIds' /\ Superseded \subseteq Superseded'
      /\ f.kind \in {"put", "rewrite"} => minted + 1 \in FullIds'
      /\ f.kind = "complete" => minted + 1 \in Superseded'
  <2>1. FullIds \subseteq 1..minted
    BY <1>0 DEF FullIds
  <2>2. CASE f.kind \in {"put", "rewrite"} /\ NewVersion(TRUE)
    <3>1. minted' = minted + 1 /\ versions' = versions \cup {[id |-> minted + 1, full |-> TRUE]}
      BY <2>2 DEF NewVersion
    <3>2. FullIds' = FullIds \cup {minted + 1}
      <4>1. PICK u : u = [id |-> minted + 1, full |-> TRUE]
        OBVIOUS
      <4>2. u.id = minted + 1 /\ u.full /\ versions' = versions \cup {u}
        BY <3>1, <4>1
      <4>3. \A i : i \in FullIds' <=> \E v \in versions' : v.full /\ v.id = i
        BY DEF FullIds
      <4>4. \A i : i \in FullIds <=> \E v \in versions : v.full /\ v.id = i
        BY DEF FullIds
      <4> HIDE <4>1, <3>1
      <4> QED BY <4>2, <4>3, <4>4
    <3>3. \A i \in 1..minted : i \in 1..(minted + 1) /\ i # minted + 1
      BY <1>0
    <3>4. Superseded \subseteq Superseded'
      BY <3>1, <3>2, <3>3 DEF Superseded
    <3> QED BY <2>2, <3>2, <3>4
  <2>3. CASE f.kind = "complete" /\ NewVersion(FALSE)
    <3>1. minted' = minted + 1 /\ versions' = versions \cup {[id |-> minted + 1, full |-> FALSE]}
      BY <2>3 DEF NewVersion
    <3>2. FullIds' = FullIds
      BY <3>1 DEF FullIds
    <3> QED BY <1>0, <2>1, <2>3, <3>1, <3>2 DEF Superseded
  <2>4. CASE f.kind = "delete" /\ versions' = {v \in versions : v.id # f.version} /\ UNCHANGED minted
    <3>1. f.version \notin FullIds
      BY <2>4 DEF PlainInv, Superseded
    <3>2. FullIds' = FullIds
      BY <2>4, <3>1 DEF FullIds
    <3> QED BY <2>4, <3>2 DEF Superseded
  <2>5. CASE f.kind = "create" /\ UNCHANGED <<versions, minted>>
    BY <2>5 DEF FullIds, Superseded
  <2> QED BY <2>2, <2>3, <2>4, <2>5 DEF Land
<1>2. \A g \in flights' : g.kind = "delete" => g.version \in Superseded' /\ FullIds' # {}
  BY <1>1 DEF Land, PlainInv
<1>3. ASSUME NEW w, LocalsOK(w) PROVE LocalsOK(w)'
  BY <1>1, <1>3 DEF LocalsOK
<1>4. row' = row /\ sink' = sink
  BY DEF Land
<1>5. CASE ~f.awaited
  <2>1. work' = work
    BY <1>5 DEF Land
  <2>2. \A a \in Actors : LocalsOK(work[a])'
    BY <1>3, <2>1 DEF PlainInv, LocalsOK
  <2> QED BY <1>1, <1>2, <1>4, <2>1, <2>2 DEF PlainInv, At
<1>6. CASE f.awaited
  <2>1. /\ f.by \in Actors /\ At(f.by, AwaitPc(f))
        /\ f.kind \in {"create", "put", "complete"} => f.kind = sink.next /\ f.by = Sink
    BY <1>0, <1>6 DEF AwaitsInv, Flights
  <2>2. PICK n : /\ work' = [work EXCEPT ![f.by].got = n]
                 /\ f.kind \in {"put", "complete", "rewrite"} => n = minted + 1
    BY <1>6 DEF Land
  <2>3. /\ work'[f.by].got = n /\ \A a \in Actors \ {f.by} : work'[a] = work[a]
        /\ work'[f.by].pc = work[f.by].pc /\ work'[f.by].redundant = work[f.by].redundant
        /\ work'[f.by].first = work[f.by].first /\ work'[f.by].version = work[f.by].version
    BY <1>0, <2>1, <2>2 DEF Works
  <2>4. ASSUME NEW a \in Actors PROVE LocalsOK(work[a])'
    <3>1. CASE a # f.by
      BY <1>1, <2>3, <3>1 DEF PlainInv, LocalsOK
    <3>2. CASE a = f.by
      <4>1. work'[a].pc = "rewriteWait" => work'[a].got \in FullIds'
        BY <1>0, <1>1, <2>1, <2>2, <2>3, <3>2 DEF At, AwaitPc, Flights
      <4> QED BY <1>1, <2>3, <3>2, <4>1 DEF PlainInv, LocalsOK
    <3> QED BY <3>1, <3>2
  <2>5. ASSUME At(Sink, "wait")', work'[Sink].got # 0
        PROVE  /\ sink.next = "put" => work'[Sink].got \in FullIds'
               /\ sink.next = "complete" => work'[Sink].got \in Superseded'
    <3>1. CASE f.by # Sink
      BY <1>1, <2>3, <2>5, <3>1, ActorFacts DEF PlainInv, At
    <3>2. CASE f.by = Sink
      <4>1. f.kind \in {"create", "put", "complete"}
        BY <1>0, <2>1, <2>3, <2>5, <3>2 DEF At, AwaitPc, Flights
      <4> QED BY <1>1, <2>1, <2>2, <2>3, <3>2, <4>1
    <3> QED BY <3>1, <3>2
  <2> QED BY <1>1, <1>2, <1>4, <2>4, <2>5 DEF PlainInv
<1> QED BY <1>5, <1>6

\* Every step keeps what is committed and what is about to be.
LEMMA PlainStep == ASSUME ~Exact, TypeOK, AwaitsInv, PlainInv, [Next]_vars PROVE PlainInv'
<1>0. /\ work \in [Actors -> Works] /\ sink \in Sinks /\ row \in Rows(Reconcilers, Nat)
      /\ flights \subseteq Flights
      /\ Reconcilers \subseteq Actors /\ Sink \in Actors /\ Request \in Actors
  BY ActorFacts DEF TypeOK
<1>1. CASE SinkLaunch
  <2>1. LocalsKept /\ (sink'.next = sink.next \/ work'[Sink].pc # "wait")
    BY <1>0, <1>1, ActorFacts, LocalsGoto, LocalsReturn DEF SinkLaunch, At, Sinks
  <2>2. RowKept /\ DeletesKept /\ UNCHANGED <<versions, minted>>
    BY <1>0, <1>1, RowVersions DEF SinkLaunch, DeletesKept, provider, LaunchAllowed
  <2> QED BY <2>1, <2>2, PlainKeptDeletes
<1>2. CASE SinkRecordLaunch
  <2>1. LocalsKept /\ (sink'.next = sink.next \/ work'[Sink].pc # "wait")
    BY <1>0, <1>2, ActorFacts, LocalsGoto DEF SinkRecordLaunch, At, Sinks
  <2>2. RowKept /\ DeletesKept /\ UNCHANGED <<versions, minted>>
    BY <1>0, <1>2, RowVersions DEF SinkRecordLaunch, DeletesKept, provider, LaunchAllowed
  <2> QED BY <2>1, <2>2, PlainKeptDeletes
<1>3. CASE SinkCallCreate
  <2>1. LocalsKept /\ (sink'.next = sink.next \/ work'[Sink].pc # "wait")
    BY <1>0, <1>3, ActorFacts, LocalsGoto, LocalsReturn DEF SinkCallCreate, At, Sinks
  <2>2. RowKept /\ DeletesKept /\ UNCHANGED <<versions, minted>>
    BY <1>0, <1>3, RowVersions, SendDeletes DEF SinkCallCreate, DeletesKept, provider, LaunchAllowed
  <2> QED BY <2>1, <2>2, PlainKeptDeletes
<1>4. CASE SinkCreated
  <2>1. LocalsKept /\ (sink'.next = sink.next \/ work'[Sink].pc # "wait")
    BY <1>0, <1>4, ActorFacts, LocalsGoto DEF SinkCreated, At, Sinks
  <2>2. RowKept /\ DeletesKept /\ UNCHANGED <<versions, minted>>
    BY <1>0, <1>4, RowVersions DEF SinkCreated, DeletesKept, provider, LaunchAllowed
  <2> QED BY <2>1, <2>2, PlainKeptDeletes
<1>5. CASE SinkSetOpen
  <2>1. LocalsKept /\ (sink'.next = sink.next \/ work'[Sink].pc # "wait")
    BY <1>0, <1>5, ActorFacts, LocalsGoto, LocalsReturn DEF SinkSetOpen, At, Sinks
  <2>2. RowKept /\ DeletesKept /\ UNCHANGED <<versions, minted>>
    BY <1>0, <1>5, RowVersions DEF SinkSetOpen, DeletesKept, provider, LaunchAllowed
  <2> QED BY <2>1, <2>2, PlainKeptDeletes
<1>6. CASE SinkUploadPart
  <2>1. LocalsKept /\ sink' = sink
    BY <1>0, <1>6, LocalsReturn DEF SinkUploadPart, LocalsKept
  <2>2. RowKept /\ DeletesKept /\ UNCHANGED <<versions, minted>>
    BY <1>0, <1>6, RowVersions DEF SinkUploadPart, DeletesKept, provider
  <2> QED BY <2>1, <2>2, PlainKeptDeletes
<1>7. CASE SinkVerify
  <2>1. LocalsKept /\ (sink'.next = sink.next \/ work'[Sink].pc # "wait")
    BY <1>0, <1>7, ActorFacts, LocalsGoto, LocalsReturn DEF SinkVerify, At, Sinks
  <2>2. RowKept /\ DeletesKept /\ UNCHANGED <<versions, minted>>
    BY <1>0, <1>7, RowVersions DEF SinkVerify, DeletesKept, provider, LaunchAllowed
  <2> QED BY <2>1, <2>2, PlainKeptDeletes
<1>8. CASE SinkOpenSingle
  <2>1. LocalsKept /\ (sink'.next = sink.next \/ work'[Sink].pc # "wait")
    BY <1>0, <1>8, ActorFacts, LocalsGoto, LocalsReturn DEF SinkOpenSingle, At, Sinks
  <2>2. RowKept /\ DeletesKept /\ UNCHANGED <<versions, minted>>
    BY <1>0, <1>8, RowVersions DEF SinkOpenSingle, DeletesKept, provider, LaunchAllowed
  <2> QED BY <2>1, <2>2, PlainKeptDeletes
<1>9. CASE SinkStartCompletion
  <2>1. LocalsKept /\ (sink'.next = sink.next \/ work'[Sink].pc # "wait")
    BY <1>0, <1>9, ActorFacts, LocalsGoto, LocalsReturn DEF SinkStartCompletion, At, Sinks
  <2>2. RowKept /\ DeletesKept /\ UNCHANGED <<versions, minted>>
    BY <1>0, <1>9, RowVersions DEF SinkStartCompletion, DeletesKept, provider, LaunchAllowed
  <2> QED BY <2>1, <2>2, PlainKeptDeletes
<1>10. CASE SinkCallPut
  <2>1. \/ Goto(Sink, "wait") /\ Send("put", Sink, 0) /\ UNCHANGED sink
        \/ Error(Sink) /\ UNCHANGED flights
    BY <1>10 DEF SinkCallPut
  <2>2. LocalsKept /\ DeletesKept /\ sink'.next = sink.next
    BY <1>0, <2>1, SendOrError
  <2>3. RowKept /\ UNCHANGED <<versions, minted>>
    BY <1>10, RowVersions DEF SinkCallPut
  <2> QED BY <2>2, <2>3, PlainKeptDeletes
<1>11. CASE SinkCallComplete
  <2>1. LocalsKept /\ DeletesKept /\ sink'.next = sink.next
    <3>1. CASE Error(Sink) /\ UNCHANGED flights
      BY <1>0, <3>1, LocalsError DEF DeletesKept
    <3>2. CASE ProbeFinds(Sink) /\ UNCHANGED <<sink, flights>>
      BY <1>0, <3>2, ProbeLocals DEF DeletesKept
    <3>3. CASE Goto(Sink, "wait") /\ Send("complete", Sink, 0) /\ UNCHANGED sink
      BY <1>0, <3>3, SendOrError
    <3> QED BY <1>11, <3>1, <3>2, <3>3 DEF SinkCallComplete
  <2>2. RowKept /\ UNCHANGED <<versions, minted>>
    BY <1>11, RowVersions DEF SinkCallComplete
  <2> QED BY <2>1, <2>2, PlainKeptDeletes
<1>12. CASE SinkCommitted
  <2>1. At(Sink, "wait") /\ work[Sink].got # 0 /\ sink.next \in {"put", "complete"}
    BY <1>0, <1>12 DEF SinkCommitted, Sinks
  <2>2. PICK w : w = [work[Sink] EXCEPT !.pc = IF sink.next = "put" THEN "resolve" ELSE "rewrite",
                                        !.version = work[Sink].got, !.got = 0,
                                        !.first = IF sink.next = "put" THEN 0 ELSE work[Sink].got]
    OBVIOUS
  <2>3. /\ w.pc = IF sink.next = "put" THEN "resolve" ELSE "rewrite"
        /\ w.version = work[Sink].got /\ w.redundant = work[Sink].redundant
        /\ w.first = IF sink.next = "put" THEN 0 ELSE work[Sink].got
    BY <1>0, <2>2 DEF Works
  <2>4. work' = [work EXCEPT ![Sink] = w]
    BY <1>0, <1>12, <2>2 DEF SinkCommitted
  <2>5. LocalsOK(w)
    <3>1. /\ sink.next = "put" => work[Sink].got \in FullIds
          /\ sink.next = "complete" => work[Sink].got \in Superseded
          /\ work[Sink].redundant \subseteq Superseded
      BY <1>0, <2>1 DEF PlainInv, LocalsOK
    <3> QED BY <2>1, <2>3, <3>1 DEF LocalsOK
  <2>6. LocalsKept
    BY <1>0, <2>3, <2>4, <2>5, LocalsSet
  <2>7. RowKept /\ DeletesKept /\ sink' = sink /\ UNCHANGED <<versions, minted>>
    BY <1>12, RowVersions DEF SinkCommitted, DeletesKept, provider
  <2> QED BY <2>6, <2>7, PlainKeptDeletes
<1>13. CASE SinkRejected
  <2>1. LocalsKept /\ (sink'.next = sink.next \/ work'[Sink].pc # "wait")
    BY <1>0, <1>13, ActorFacts, LocalsGoto, LocalsReturn DEF SinkRejected, At, Sinks
  <2>2. RowKept /\ DeletesKept /\ UNCHANGED <<versions, minted>>
    BY <1>0, <1>13, RowVersions DEF SinkRejected, DeletesKept, provider, LaunchAllowed
  <2> QED BY <2>1, <2>2, PlainKeptDeletes
<1>14. CASE SinkMarkUnknown
  <2>1. LocalsKept /\ (sink'.next = sink.next \/ work'[Sink].pc # "wait")
    BY <1>0, <1>14, ActorFacts, LocalsGoto, LocalsReturn DEF SinkMarkUnknown, At, Sinks
  <2>2. RowKept /\ DeletesKept /\ UNCHANGED <<versions, minted>>
    BY <1>0, <1>14, RowVersions DEF SinkMarkUnknown, DeletesKept, provider, LaunchAllowed
  <2> QED BY <2>1, <2>2, PlainKeptDeletes
<1>15. CASE SinkReprobe
  <2>1. LocalsKept
    <3>1. CASE work' = [work EXCEPT ![Sink] = [Idle EXCEPT !.pc = "probe", !.from = "CommitUnknown"]]
      <4>1. LocalsOK([Idle EXCEPT !.pc = "probe", !.from = "CommitUnknown"])
            /\ [Idle EXCEPT !.pc = "probe", !.from = "CommitUnknown"].pc # "wait"
        BY DEF LocalsOK, Idle
      <4> QED BY <1>0, <3>1, <4>1, LocalsSet
    <3>2. CASE Goto(Sink, "release")
      BY <1>0, <3>2, LocalsGoto
    <3>3. CASE Return(Sink)
      BY <1>0, <3>3, LocalsReturn
    <3> QED BY <1>15, <3>1, <3>2, <3>3 DEF SinkReprobe
  <2>2. RowKept
    BY <1>0, <1>15, RowVersions DEF SinkReprobe
  <2>3. DeletesKept /\ UNCHANGED <<versions, minted>> /\ sink'.next = sink.next
    BY <1>0, <1>15 DEF SinkReprobe, provider, DeletesKept, Sinks
  <2> QED BY <2>1, <2>2, <2>3, PlainKeptDeletes
<1>16. CASE SinkAbort
  <2>1. PICK w : w = [work[Sink] EXCEPT !.pc = "cleanup", !.from = "Aborting"]
    OBVIOUS
  <2>2. w.pc = "cleanup" /\ w.redundant = work[Sink].redundant /\ w.first = work[Sink].first
    BY <1>0, <2>1 DEF Works
  <2>3. work' = [work EXCEPT ![Sink] = w]
    BY <1>0, <1>16, <2>1 DEF SinkAbort
  <2>4. LocalsOK(w)
    BY <1>0, <2>2 DEF PlainInv, LocalsOK
  <2>5. LocalsKept
    BY <1>0, <2>2, <2>3, <2>4, LocalsSet
  <2>6. RowKept /\ DeletesKept /\ sink'.next = sink.next /\ UNCHANGED <<versions, minted>>
    BY <1>0, <1>16, RowVersions DEF SinkAbort, DeletesKept, provider, Sinks
  <2> QED BY <2>5, <2>6, PlainKeptDeletes
<1>17. CASE SinkAbortFinished
  <2>1. LocalsKept /\ (sink'.next = sink.next \/ work'[Sink].pc # "wait")
    BY <1>0, <1>17, ActorFacts, LocalsGoto DEF SinkAbortFinished, At, Sinks
  <2>2. RowKept /\ DeletesKept /\ UNCHANGED <<versions, minted>>
    BY <1>0, <1>17, RowVersions DEF SinkAbortFinished, DeletesKept, provider, LaunchAllowed
  <2> QED BY <2>1, <2>2, PlainKeptDeletes
<1>18. CASE SinkRelease
  <2>1. LocalsKept /\ (sink'.next = sink.next \/ work'[Sink].pc # "wait")
    BY <1>0, <1>18, ActorFacts, LocalsGoto, LocalsReturn DEF SinkRelease, At, Sinks
  <2>2. RowKept /\ DeletesKept /\ UNCHANGED <<versions, minted>>
    BY <1>0, <1>18, RowVersions DEF SinkRelease, DeletesKept, provider, LaunchAllowed
  <2> QED BY <2>1, <2>2, PlainKeptDeletes
<1>19. CASE SinkDrop
  <2>1. /\ LocalsOK([Idle EXCEPT !.pc = "gone"]) /\ [Idle EXCEPT !.pc = "gone"].got = 0
        /\ LocalsOK([Idle EXCEPT !.pc = "over"]) /\ [Idle EXCEPT !.pc = "over"].got = 0
    BY LocalsIdle
  <2>2. LocalsKept
    BY <1>0, <1>19, <2>1 DEF SinkDrop, LocalsKept
  <2>3. DeletesKept
    BY <1>0, <1>19, GiveUpDeletes DEF SinkDrop
  <2>4. RowKept /\ sink'.next = sink.next /\ UNCHANGED <<versions, minted>>
    BY <1>0, <1>19, RowVersions DEF SinkDrop, Sinks
  <2> QED BY <2>2, <2>3, <2>4, PlainKeptDeletes
<1>20. ASSUME NEW a \in Actors, AmbiguousReply(a) PROVE PlainInv'
  <2>1. LocalsKept /\ sink'.next = sink.next
    BY <1>20, LocalsError, LocalsReturn DEF AmbiguousReply
  <2>2. DeletesKept
    BY <1>20, GiveUpDeletes DEF AmbiguousReply
  <2>3. RowKept /\ UNCHANGED <<versions, minted>>
    BY <1>20, RowVersions DEF AmbiguousReply
  <2> QED BY <2>1, <2>2, <2>3, PlainKeptDeletes
<1>21. ASSUME NEW a \in Actors, Rewrite(a) PROVE PlainInv'
  <2>1. \/ Goto(a, "rewriteWait") /\ Send("rewrite", a, work[a].version) /\ UNCHANGED sink
        \/ Error(a) /\ UNCHANGED flights
    BY <1>21 DEF Rewrite
  <2>2. LocalsKept /\ DeletesKept /\ sink'.next = sink.next
    BY <2>1, SendOrError
  <2>3. RowKept /\ UNCHANGED <<versions, minted>>
    BY <1>21, RowVersions DEF Rewrite
  <2> QED BY <2>2, <2>3, PlainKeptDeletes
<1>22. ASSUME NEW a \in Actors, Rewritten(a) PROVE PlainInv'
  <2>1. PICK w : w = [work[a] EXCEPT !.pc = "resolve", !.version = work[a].got, !.got = 0]
    OBVIOUS
  <2>2. w.pc = "resolve" /\ w.version = work[a].got /\ w.redundant = work[a].redundant /\ w.first = work[a].first
    BY <1>0, <2>1 DEF Works
  <2>3. work' = [work EXCEPT ![a] = w]
    BY <1>0, <1>22, <2>1 DEF Rewritten
  <2>4. LocalsOK(w)
    BY <1>0, <1>22, <2>2 DEF PlainInv, LocalsOK, Rewritten, At
  <2>5. LocalsKept
    BY <2>2, <2>3, <2>4, LocalsSet
  <2>6. RowKept /\ DeletesKept /\ sink' = sink /\ UNCHANGED <<versions, minted>>
    BY <1>22, RowVersions DEF Rewritten, DeletesKept, provider
  <2> QED BY <2>5, <2>6, PlainKeptDeletes
<1>23. ASSUME NEW a \in Actors, Resolve(a) PROVE PlainInv'
  <2>1. CASE work' = [work EXCEPT ![a].pc = "purge", ![a].redundant = {work[a].first} \ {0, work[a].version}]
             /\ UNCHANGED sink
    <3>1. PICK w : w = [work[a] EXCEPT !.pc = "purge", !.redundant = {work[a].first} \ {0, work[a].version}]
      OBVIOUS
    <3>2. /\ w.pc = "purge" /\ w.redundant = {work[a].first} \ {0, work[a].version}
          /\ w.first = work[a].first /\ w.version = work[a].version
      BY <1>0, <3>1 DEF Works
    <3>3. work' = [work EXCEPT ![a] = w]
      BY <1>0, <2>1, <3>1
    <3>4. LocalsOK(w)
      BY <1>0, <1>23, <3>2 DEF PlainInv, LocalsOK, Resolve, At
    <3>5. LocalsKept
      BY <3>2, <3>3, <3>4, LocalsSet
    <3>6. RowKept /\ DeletesKept /\ UNCHANGED <<versions, minted>>
      BY <1>23, RowVersions DEF Resolve, DeletesKept, provider
    <3> QED BY <2>1, <3>5, <3>6, PlainKeptDeletes
  <2>2. {} \cup {work[a].first} = {work[a].first}
    OBVIOUS
  <2> QED BY <1>23, <2>1, <2>2 DEF Resolve
<1>24. ASSUME NEW a \in Actors, Purge(a) PROVE PlainInv'
  <2>1. At(a, "purge") /\ LocalsOK(work[a]) /\ sink' = sink /\ RowKept /\ UNCHANGED <<versions, minted>>
    BY <1>24, RowVersions DEF Purge, PlainInv
  <2>2. CASE Return(a) /\ UNCHANGED flights
    BY <2>1, <2>2, LocalsReturn, PlainKeptDeletes DEF DeletesKept
  <2>3. ASSUME NEW v \in work[a].redundant, Goto(a, "purgeWait"), Send("delete", a, v) PROVE PlainInv'
    <3>1. LocalsKept
      BY <2>1, <2>3, LocalsGoto DEF At
    <3>2. v \in Superseded /\ work[a].version \in FullIds
      BY <2>1 DEF LocalsOK, At
    <3>3. flights' = flights \cup {Flight("delete", a, v)} /\ Flight("delete", a, v).version = v
      BY <2>3 DEF Send, Flight
    <3>4. \A f \in flights' : f.kind = "delete" => f.version \in Superseded /\ FullIds # {}
      BY <3>2, <3>3 DEF PlainInv
    <3> QED BY <2>1, <3>1, <3>4, PlainKept
  <2> QED BY <1>24, <2>2, <2>3 DEF Purge
<1>25. ASSUME NEW a \in Actors, Purged(a) PROVE PlainInv'
  <2>1. PICK w : w = [work[a] EXCEPT !.pc = "purge", !.redundant = @ \ {work[a].got}, !.got = 0]
    OBVIOUS
  <2>2. /\ w.pc = "purge" /\ w.version = work[a].version /\ w.first = work[a].first
        /\ w.redundant = work[a].redundant \ {work[a].got}
    BY <1>0, <2>1 DEF Works
  <2>3. work' = [work EXCEPT ![a] = w]
    BY <1>0, <1>25, <2>1 DEF Purged
  <2>4. LocalsOK(w)
    BY <1>0, <1>25, <2>2 DEF PlainInv, LocalsOK, Purged, At
  <2>5. LocalsKept
    BY <2>2, <2>3, <2>4, LocalsSet
  <2>6. RowKept /\ DeletesKept /\ sink' = sink /\ UNCHANGED <<versions, minted>>
    BY <1>25, RowVersions DEF Purged, DeletesKept, provider
  <2> QED BY <2>5, <2>6, PlainKeptDeletes
<1>26. ASSUME NEW a \in Actors, Commit(a) PROVE PlainInv'
  <2>1. LocalsKept /\ sink'.next = sink.next
    BY <1>0, <1>26, LocalsGoto, LocalsReturn DEF Commit, Sinks
  <2>2. work[a].version \in FullIds
    BY <1>26 DEF Commit, At, PlainInv, LocalsOK
  <2>3. RowKept
    BY <1>26, <2>2, RowVersions DEF Commit
  <2>4. DeletesKept /\ UNCHANGED <<versions, minted>>
    BY <1>26 DEF Commit, DeletesKept, provider
  <2> QED BY <2>1, <2>3, <2>4, PlainKeptDeletes
<1>27. ASSUME NEW a \in Actors, Probe(a) PROVE PlainInv'
  <2>1. LocalsKept
    <3>1. CASE ProbeFinds(a)
      BY <3>1, ProbeLocals
    <3>2. CASE Goto(a, "uploads") \/ Return(a)
      BY <3>2, LocalsGoto, LocalsReturn
    <3> QED BY <1>27, <3>1, <3>2 DEF Probe
  <2>2. RowKept /\ DeletesKept /\ sink' = sink /\ UNCHANGED <<versions, minted>>
    BY <1>27, RowVersions DEF Probe, DeletesKept, provider
  <2> QED BY <2>1, <2>2, PlainKeptDeletes
<1>28. ASSUME NEW a \in Actors, ProbeUploads(a) PROVE PlainInv'
  <2>1. LocalsKept /\ (sink'.next = sink.next \/ work'[Sink].pc # "wait")
    BY <1>0, <1>28, ActorFacts, LocalsGoto, LocalsReturn DEF ProbeUploads, At, Sinks
  <2>2. RowKept /\ DeletesKept /\ UNCHANGED <<versions, minted>>
    BY <1>0, <1>28, RowVersions DEF ProbeUploads, DeletesKept, provider, LaunchAllowed
  <2> QED BY <2>1, <2>2, PlainKeptDeletes
<1>29. ASSUME NEW a \in Actors, ConfirmRead(a) PROVE PlainInv'
  <2>1. LocalsKept /\ (sink'.next = sink.next \/ work'[Sink].pc # "wait")
    BY <1>0, <1>29, ActorFacts, LocalsGoto, LocalsReturn DEF ConfirmRead, At, Sinks
  <2>2. RowKept /\ DeletesKept /\ UNCHANGED <<versions, minted>>
    BY <1>0, <1>29, RowVersions DEF ConfirmRead, DeletesKept, provider, LaunchAllowed
  <2> QED BY <2>1, <2>2, PlainKeptDeletes
<1>30. ASSUME NEW a \in Actors, ConfirmWrite(a) PROVE PlainInv'
  <2>1. LocalsKept /\ (sink'.next = sink.next \/ work'[Sink].pc # "wait")
    BY <1>0, <1>30, ActorFacts, LocalsReturn DEF ConfirmWrite, At, Sinks
  <2>2. RowKept /\ DeletesKept /\ UNCHANGED <<versions, minted>>
    BY <1>0, <1>30, RowVersions DEF ConfirmWrite, DeletesKept, provider, LaunchAllowed
  <2> QED BY <2>1, <2>2, PlainKeptDeletes
<1>31. ASSUME NEW a \in Actors, Cleanup(a) PROVE PlainInv'
  <2>1. LocalsKept /\ (sink'.next = sink.next \/ work'[Sink].pc # "wait")
    BY <1>0, <1>31, ActorFacts, LocalsGoto, LocalsReturn DEF Cleanup, At, Sinks
  <2>2. RowKept /\ DeletesKept /\ UNCHANGED <<versions, minted>>
    BY <1>0, <1>31, RowVersions DEF Cleanup, DeletesKept, provider, LaunchAllowed
  <2> QED BY <2>1, <2>2, PlainKeptDeletes
<1>32. ASSUME NEW a \in Actors, FinishAbort(a) PROVE PlainInv'
  <2>1. LocalsKept /\ (sink'.next = sink.next \/ work'[Sink].pc # "wait")
    BY <1>0, <1>32, ActorFacts, LocalsGoto, LocalsReturn DEF FinishAbort, At, Sinks
  <2>2. RowKept /\ DeletesKept /\ UNCHANGED <<versions, minted>>
    BY <1>0, <1>32, RowVersions DEF FinishAbort, DeletesKept, provider, LaunchAllowed
  <2> QED BY <2>1, <2>2, PlainKeptDeletes
<1>33. ASSUME NEW a \in Actors, Fail(a) PROVE PlainInv'
  <2>1. LocalsKept /\ sink'.next = sink.next
    BY <1>33, LocalsReturn DEF Fail
  <2>2. DeletesKept
    BY <1>33, GiveUpDeletes DEF Fail
  <2>3. RowKept /\ UNCHANGED <<versions, minted>>
    BY <1>33, RowVersions DEF Fail
  <2> QED BY <2>1, <2>2, <2>3, PlainKeptDeletes
<1>34. ASSUME NEW a \in Actors, Renew(a) PROVE PlainInv'
  <2>1. LocalsKept /\ RowKept /\ DeletesKept /\ sink' = sink /\ UNCHANGED <<versions, minted>>
    BY <1>34, RowVersions DEF Renew, LocalsKept, DeletesKept, provider
  <2> QED BY <2>1, PlainKeptDeletes
<1>35. ASSUME NEW r \in Reconcilers, ClaimRead(r) PROVE PlainInv'
  <2>1. PICK w : w = [work[r] EXCEPT !.pc = "claim", !.snap = row.state, !.known = row.upload]
    OBVIOUS
  <2>2. w.pc = "claim" /\ w.redundant = work[r].redundant /\ w.first = work[r].first
    BY <1>0, <2>1 DEF Works
  <2>3. work' = [work EXCEPT ![r] = w]
    BY <1>0, <1>35, <2>1 DEF ClaimRead
  <2>4. LocalsOK(w)
    BY <1>0, <2>2 DEF PlainInv, LocalsOK
  <2>5. LocalsKept
    BY <1>0, <2>2, <2>3, <2>4, LocalsSet
  <2>6. RowKept /\ DeletesKept /\ sink' = sink /\ UNCHANGED <<versions, minted>>
    BY <1>35, RowVersions DEF ClaimRead, DeletesKept, provider
  <2> QED BY <2>5, <2>6, PlainKeptDeletes
<1>36. ASSUME NEW r \in Reconcilers, ClaimWrite(r) PROVE PlainInv'
  <2>1. LocalsKept /\ (sink'.next = sink.next \/ work'[Sink].pc # "wait")
    BY <1>0, <1>36, ActorFacts, LocalsGoto, LocalsReturn DEF ClaimWrite, At, Sinks
  <2>2. RowKept /\ DeletesKept /\ UNCHANGED <<versions, minted>>
    BY <1>0, <1>36, RowVersions DEF ClaimWrite, DeletesKept, provider, LaunchAllowed
  <2> QED BY <2>1, <2>2, PlainKeptDeletes
<1>37. ASSUME NEW r \in Reconcilers, Recover(r) PROVE PlainInv'
  <2>1. LocalsKept /\ (sink'.next = sink.next \/ work'[Sink].pc # "wait")
    BY <1>0, <1>37, ActorFacts, LocalsGoto, LocalsReturn DEF Recover, At, Sinks
  <2>2. RowKept /\ DeletesKept /\ UNCHANGED <<versions, minted>>
    BY <1>0, <1>37, RowVersions DEF Recover, DeletesKept, provider, LaunchAllowed
  <2> QED BY <2>1, <2>2, PlainKeptDeletes
<1>38. ASSUME NEW r \in Reconcilers, Begin(r) PROVE PlainInv'
  <2>1. LocalsKept
    <3>1. CASE Return(r)
      BY <1>0, <3>1, LocalsReturn
    <3>2. ASSUME NEW from, NEW pc \in {"cleanup", "probe"},
                 work' = [work EXCEPT ![r].from = from, ![r].pc = pc]
          PROVE  LocalsKept
      <4>1. PICK w : w = [work[r] EXCEPT !.from = from, !.pc = pc]
        OBVIOUS
      <4>2. w.pc = pc /\ w.redundant = work[r].redundant /\ w.first = work[r].first
        BY <1>0, <4>1 DEF Works
      <4>3. work' = [work EXCEPT ![r] = w]
        BY <1>0, <3>2, <4>1
      <4>4. LocalsOK(w)
        BY <1>0, <4>2 DEF PlainInv, LocalsOK
      <4> QED BY <1>0, <4>2, <4>3, <4>4, LocalsSet
    <3> QED BY <1>38, <3>1, <3>2 DEF Begin
  <2>2. RowKept
    BY <1>38, RowVersions DEF Begin
  <2>3. DeletesKept /\ sink' = sink /\ UNCHANGED <<versions, minted>>
    BY <1>38 DEF Begin, DeletesKept, provider
  <2> QED BY <2>1, <2>2, <2>3, PlainKeptDeletes
<1>39. ASSUME NEW r \in Reconcilers, SettleTerminal(r) PROVE PlainInv'
  <2>1. LocalsKept /\ RowKept /\ DeletesKept /\ sink' = sink /\ UNCHANGED <<versions, minted>>
    BY <1>39, RowVersions DEF SettleTerminal, LocalsKept, DeletesKept, provider
  <2> QED BY <2>1, PlainKeptDeletes
<1>40. ASSUME NEW f \in flights, Land(f) PROVE PlainInv'
  BY <1>40, PlainLand
<1>41. CASE ExpireUpload
  <2>1. LocalsKept /\ RowKept /\ DeletesKept /\ sink' = sink /\ UNCHANGED <<versions, minted>>
    BY <1>41, RowVersions DEF ExpireUpload, LocalsKept, DeletesKept
  <2> QED BY <2>1, PlainKeptDeletes
<1>42. CASE Tick
  <2>1. LocalsKept
    <3> SUFFICES ASSUME NEW a \in Actors, work'[a] # work[a]
                 PROVE  LocalsOK(work'[a]) /\ work'[a].pc # "wait"
      BY DEF LocalsKept
    <3>1. work'[a] = [work[a] EXCEPT !.got = @ + 1] /\ At(a, "confirmWrite")
      BY <1>42 DEF Tick
    <3>2. /\ work'[a].pc = "confirmWrite" /\ work'[a].redundant = work[a].redundant
          /\ work'[a].first = work[a].first
      BY <1>0, <3>1 DEF Works, At
    <3> QED BY <3>2 DEF PlainInv, LocalsOK
  <2>2. RowKept /\ sink'.next = sink.next /\ UNCHANGED <<versions, minted>>
    BY <1>0, <1>42, RowVersions DEF Tick, Sinks
  <2>3. DeletesKept
    <3> SUFFICES ASSUME NEW g \in flights', g.kind = "delete"
                 PROVE  \E f \in flights : f.kind = "delete" /\ f.version = g.version
      BY DEF DeletesKept
    <3>1. PICK f \in flights : g = [f EXCEPT !.left = @ - 1]
      BY <1>42 DEF Tick
    <3> QED BY <1>0, <3>1 DEF Flights
  <2> QED BY <2>1, <2>2, <2>3, PlainKeptDeletes
<1>43. CASE UNCHANGED vars
  BY <1>43 DEF vars, PlainInv, LocalsOK, At, Superseded, FullIds
<1> QED
  BY <1>1, <1>2, <1>3, <1>4, <1>5, <1>6, <1>7, <1>8, <1>9, <1>10, <1>11, <1>12, <1>13, <1>14,
     <1>15, <1>16, <1>17, <1>18, <1>19, <1>20, <1>21, <1>22, <1>23, <1>24, <1>25, <1>26, <1>27,
     <1>28, <1>29, <1>30, <1>31, <1>32, <1>33, <1>34, <1>35, <1>36, <1>37, <1>38, <1>39, <1>40,
     <1>41, <1>42, <1>43
  DEF Next, SinkNext, CallNext, ReconcilerNext

\* On a plain backend PlainInv holds throughout.
LEMMA PlainInvariance == ASSUME ~Exact PROVE Spec => []PlainInv
<1>1. Init => PlainInv
  <2> SUFFICES ASSUME Init PROVE PlainInv
    OBVIOUS
  <2>1. /\ flights = {} /\ row = IntentRow
        /\ work = [a \in Actors |-> IF a = Sink THEN [Idle EXCEPT !.pc = "write"] ELSE Idle]
    BY DEF Init
  <2>2. LocalsOK([Idle EXCEPT !.pc = "write"]) /\ LocalsOK(Idle) /\ [Idle EXCEPT !.pc = "write"].pc = "write"
    BY DEF LocalsOK, Idle
  <2>3. row.state = "Intent"
    BY <2>1 DEF IntentRow
  <2> QED BY <2>1, <2>2, <2>3, ActorFacts DEF PlainInv, At
<1>2. IInv /\ PlainInv /\ [Next]_vars => PlainInv'
  BY PlainStep DEF IInv
<1> QED BY <1>1, <1>2, Invariance, PTL DEF Spec

\* On a plain backend an object that is there stays there.
LEMMA ObjectStays ==
    ASSUME TypeOK, PlainInv, NEW f \in flights, Land(f), versions # {}
    PROVE  versions' # {}
<1>1. CASE f.kind = "delete" /\ versions' = {v \in versions : v.id # f.version}
  <2>1. f.version \notin FullIds /\ FullIds # {}
    BY <1>1 DEF PlainInv, Superseded
  <2>2. PICK i : i \in FullIds
    BY <2>1
  <2>3. PICK v \in versions : v.full /\ v.id = i
    BY <2>2 DEF FullIds
  <2>4. v \in versions'
    BY <1>1, <2>1, <2>2, <2>3
  <2> QED BY <2>4
<1>2. CASE \E full : NewVersion(full)
  BY <1>2 DEF NewVersion
<1>3. CASE UNCHANGED versions
  BY <1>3
<1> QED BY <1>1, <1>2, <1>3 DEF Land

-----------------------------------------------------------------------------
(* Backends with exact version recovery.  Their cleanups delete every version *)
(* but the one to be committed, so only the routing lease keeps one cleanup   *)
(* from deleting what another one commits.  It does as long as no delete      *)
(* takes effect after its caller gave up and no actor outlasts its lease.     *)

\* Where an actor is left once the row is COMMITTED.
Finished(a) ==
    IF a = Sink
    THEN {"release", "reprobe", "failed", "cleanup", "finishAbort", "done", "aborted", "gone"}
    ELSE {"idle", "over"}

\* The inductive invariant: who cleans up holds the route and keeps the version
\* it commits; what is being deleted is on a list of such an actor; and once the
\* row is COMMITTED no holder of the route goes on to clean up.
ExactInv ==
    /\ \A a \in Actors : work[a].pc \in {"purge", "purgeWait"} =>
          /\ a \in route.holders /\ route.left > 0
          /\ work[a].version \in Ids /\ work[a].version \notin work[a].redundant
    /\ \A f \in flights : f.kind = "delete" => f.awaited /\ f.version \in work[f.by].redundant
    /\ row.state = "Committed" =>
          row.version \in Ids /\ \A a \in route.holders : work[a].pc \in Finished(a)

\* Where the common ends of a step leave the actor.
LEMMA GotoPc ==
    ASSUME TypeOK, NEW a \in Actors, NEW pc, Goto(a, pc)
    PROVE  work'[a].pc = pc /\ \A b \in Actors \ {a} : work'[b] = work[b]
BY DEF TypeOK, Goto, Works

\* Returning leaves the actor finished.
LEMMA ReturnPc ==
    ASSUME TypeOK, NEW a \in Actors, Return(a)
    PROVE  /\ work'[a].pc \in Finished(a) /\ work'[a].pc \in {"failed", "over", "idle"}
           /\ \A b \in Actors \ {a} : work'[b] = work[b]
<1>1. work \in [Actors -> Works]
  BY DEF TypeOK
<1>2. work'[a] = Returned(a) /\ \A b \in Actors \ {a} : work'[b] = work[b]
  BY <1>1 DEF Return
<1>3. Returned(a).pc = IF a = Sink THEN "failed" ELSE IF a = Request THEN "over" ELSE "idle"
  BY DEF Returned, Idle
<1> QED BY <1>2, <1>3 DEF Finished

\* An error leads to the next attempt or back to the caller.
LEMMA ErrorPc ==
    ASSUME TypeOK, NEW a \in Actors, Error(a)
    PROVE  /\ work'[a].pc \in {"attempt", "failed", "over", "idle"}
           /\ \A b \in Actors \ {a} : work'[b] = work[b]
BY GotoPc, ReturnPc DEF Error

\* The row is committed only where it was, and names the same version.
RowSame == row'.state = "Committed" => row.state = "Committed" /\ row'.version = row.version

\* Every update of the journal but the commit is of that kind.
LEMMA RowsSame ==
    ASSUME TypeOK
    PROVE  /\ \A s : s # "Committed" /\ row' = Moved(row, s) => RowSame
           /\ \A u : row' = Opened(row, u) => RowSame
           /\ \A n : row' = Launched(row, n) => RowSame
           /\ \A n : row' = AbsenceStored(row, n) => RowSame
           /\ \A o : row' = Claimed(row, o) => RowSame
           /\ row' = RowTick(row) => RowSame
           /\ row' = row => RowSame
<1>0. row \in Rows(Reconcilers, Nat)
  BY DEF TypeOK
<1>1. \A s : s # "Committed" /\ row' = Moved(row, s) => RowSame
  BY <1>0 DEF Rows, Moved, RowSame
<1>2. \A u : row' = Opened(row, u) => RowSame
  BY <1>0 DEF Rows, Opened, RowSame
<1>3. \A n : row' = Launched(row, n) => RowSame
  BY <1>0 DEF Rows, Launched, RowSame
<1>4. \A n : row' = AbsenceStored(row, n) => RowSame
  BY <1>0 DEF Rows, AbsenceStored, RowSame
<1>5. \A o : row' = Claimed(row, o) => RowSame
  BY <1>0 DEF Rows, Claimed, RowSame
<1>6. row' = RowTick(row) => RowSame
  BY <1>0 DEF Rows, RowTick, RowSame
<1>7. row' = row => RowSame
  BY DEF RowSame
<1> QED BY <1>1, <1>2, <1>3, <1>4, <1>5, <1>6, <1>7

\* No new deletion is under way.
DeletesSame == \A f \in flights' : f.kind = "delete" => f \in flights

\* Two holders of the route are not at work together.
LEMMA OneHolder ==
    ASSUME TypeOK, HoldersInv, NEW a \in route.holders, NEW b \in route.holders, a # b,
           work[a].pc \in {"purge", "purgeWait"}
    PROVE  work[b].pc \in Finished(b)
<1>1. {a, b} = {Sink, Request}
  BY DEF HoldersInv
<1>2. CASE a = Sink
  BY <1>1, <1>2, ActorFacts DEF HoldersInv, At, Finished
<1>3. CASE a = Request
  BY <1>1, <1>3, ActorFacts DEF HoldersInv, At, Finished
<1> QED BY <1>1, <1>2, <1>3

\* Steps of an actor that neither ends nor enters a cleanup.
LEMMA ExactMove ==
    ASSUME TypeOK, AwaitsInv, ExactInv, NEW a \in Actors, UNCHANGED <<versions, route>>, RowSame, DeletesSame,
           \A b \in Actors \ {a} : work'[b] = work[b],
           work[a].pc # "purgeWait", work'[a].pc \notin {"purge", "purgeWait"},
           row.state = "Committed" /\ work[a].pc \in Finished(a) => work'[a].pc \in Finished(a)
    PROVE  ExactInv'
<1>0. Ids' = Ids /\ route \in Routes /\ flights \subseteq Flights
  BY DEF Ids, TypeOK
<1>1. \A b \in Actors : work'[b].pc \in {"purge", "purgeWait"} =>
         /\ b \in route'.holders /\ route'.left > 0
         /\ work'[b].version \in Ids' /\ work'[b].version \notin work'[b].redundant
  BY <1>0 DEF ExactInv
<1>2. \A f \in flights' : f.kind = "delete" => f.awaited /\ f.version \in work'[f.by].redundant
  <2> SUFFICES ASSUME NEW f \in flights', f.kind = "delete"
               PROVE  f.awaited /\ f.version \in work'[f.by].redundant
    OBVIOUS
  <2>1. f \in flights /\ f.awaited /\ f.version \in work[f.by].redundant /\ f.by \in Actors
    BY <1>0 DEF DeletesSame, ExactInv, Flights
  <2>2. work[f.by].pc = "purgeWait"
    BY <2>1 DEF AwaitsInv, At, AwaitPc
  <2>3. f.by # a
    BY <2>2
  <2> QED BY <2>1, <2>3
<1>3. ASSUME row'.state = "Committed"
      PROVE  row'.version \in Ids' /\ \A b \in route'.holders : work'[b].pc \in Finished(b)
  <2>1. row.state = "Committed" /\ row'.version = row.version
    BY <1>3 DEF RowSame
  <2>2. \A b \in route.holders : b \in Actors /\ work[b].pc \in Finished(b)
    BY <1>0, <2>1 DEF ExactInv, Routes
  <2> QED BY <1>0, <2>1, <2>2 DEF ExactInv
<1> QED BY <1>1, <1>2, <1>3 DEF ExactInv, Finished

\* An actor enters its cleanup with the route in hand and a version to keep.
LEMMA ExactEnter ==
    ASSUME TypeOK, AwaitsInv, ExactInv, NEW a \in Actors, Fenced(a), UNCHANGED <<row, route, flights, versions>>,
           \A b \in Actors \ {a} : work'[b] = work[b],
           work[a].pc \notin {"purge", "purgeWait"} \cup Finished(a),
           work'[a].version \in Ids, work'[a].version \notin work'[a].redundant
    PROVE  ExactInv'
<1>0. Ids' = Ids /\ route \in Routes /\ flights \subseteq Flights
  BY DEF Ids, TypeOK
<1>1. a \in route.holders /\ route.left > 0
  BY DEF Fenced
<1>2. row.state # "Committed"
  BY <1>1 DEF ExactInv
<1>3. \A f \in flights : f.kind = "delete" => f.by # a /\ f.by \in Actors
  BY <1>0 DEF ExactInv, AwaitsInv, AwaitPc, At, Flights
<1> QED BY <1>0, <1>1, <1>2, <1>3 DEF ExactInv

\* A probe keeps the latest full version, or goes on to make one.
LEMMA ProbeExact ==
    ASSUME Exact, TypeOK, AwaitsInv, ExactInv, NEW a \in Actors, ProbeFinds(a), Fenced(a),
           UNCHANGED <<row, route, sink, flights, versions, minted, upload, faults>>,
           work[a].pc \notin {"purge", "purgeWait"} \cup Finished(a)
    PROVE  ExactInv'
<1>0. work \in [Actors -> Works] /\ minted \in Nat /\ versions \subseteq [id : 1..minted, full : BOOLEAN]
  BY DEF TypeOK
<1>1. CASE /\ ProbeCommitted
           /\ work' = [work EXCEPT ![a].pc = "purge", ![a].version = ProbeVersion,
                                   ![a].first = 0, ![a].redundant = ProbeRedundant]
  <2>1. FullIds # {} /\ FullIds \subseteq 1..minted /\ FullIds \subseteq Ids
    BY <1>0, <1>1 DEF ProbeCommitted, FullIds, Ids
  <2>2. ProbeVersion \in FullIds
    BY <1>0, <2>1, LatestMember, Zenon DEF ProbeVersion
  <2>3. /\ \A b \in Actors \ {a} : work'[b] = work[b]
        /\ work'[a].version = ProbeVersion /\ work'[a].redundant = Ids \ {ProbeVersion}
    BY <1>0, <1>1 DEF Works, ProbeRedundant
  <2> QED BY <2>1, <2>2, <2>3, ExactEnter
<1>2. CASE work' = [work EXCEPT ![a].pc = "rewrite", ![a].version = Latest(Ids), ![a].first = 0]
  <2>1. work'[a].pc = "rewrite" /\ \A b \in Actors \ {a} : work'[b] = work[b]
    BY <1>0, <1>2 DEF Works
  <2> QED BY <2>1, RowsSame, ExactMove DEF DeletesSame
<1> QED BY <1>1, <1>2 DEF ProbeFinds

\* Without late deletes a caller that gives up takes its deletion with it.
LEMMA KeptDeletes ==
    ASSUME ~LateDeletes, TypeOK, NEW a \in Actors, NEW g \in Unawaited(a), g.kind = "delete"
    PROVE  g \in flights /\ g.by # a
<1>1. PICK f \in flights : /\ g = [f EXCEPT !.awaited = f.awaited /\ f.by # a]
                           /\ f.kind # "delete" \/ f.by # a
  BY DEF Unawaited
<1>2. f \in Flights
  BY DEF TypeOK
<1>3. f.kind = "delete" /\ f.by # a
  BY <1>1, <1>2 DEF Flights
<1>4. CASE f.awaited
  <2>1. g = [f EXCEPT !.awaited = TRUE]
    BY <1>1, <1>3, <1>4
  <2>2. g = f
    BY <1>2, <1>4, <2>1 DEF Flights
  <2> QED BY <1>3, <2>2
<1>5. CASE ~f.awaited
  <2>1. g = [f EXCEPT !.awaited = FALSE]
    BY <1>1, <1>3, <1>5
  <2>2. g = f
    BY <1>2, <1>5, <2>1 DEF Flights
  <2> QED BY <1>3, <2>2
<1> QED BY <1>4, <1>5

\* Giving up a cleanup, with its deletion.
LEMMA ExactGiveUp ==
    ASSUME ~LateDeletes, TypeOK, AwaitsInv, ExactInv, NEW a \in Actors,
           UNCHANGED <<row, route, versions>>, flights' = Unawaited(a),
           \A b \in Actors \ {a} : work'[b] = work[b], work'[a].pc \notin {"purge", "purgeWait"},
           work[a].pc \in Finished(a) => work'[a].pc \in Finished(a)
    PROVE  ExactInv'
<1>0. Ids' = Ids /\ route.holders \subseteq Actors /\ flights \subseteq Flights
  BY DEF Ids, TypeOK, Routes
<1>1. \A g \in flights' : g.kind = "delete" => g \in flights /\ g.by \in Actors \ {a}
  BY <1>0, KeptDeletes DEF Flights
<1> QED BY <1>0, <1>1 DEF ExactInv, Finished

\* Only the one actor that holds the route deletes, and not what it commits.
LEMMA ExactLand ==
    ASSUME TypeOK, HoldersInv, AwaitsInv, ExactInv, NEW f \in flights, Land(f)
    PROVE  ExactInv' /\ (versions # {} => versions' # {})
<1>0. /\ work \in [Actors -> Works] /\ f \in Flights /\ flights \subseteq Flights /\ route.holders \subseteq Actors
  BY DEF TypeOK, Routes
<1>1. /\ UNCHANGED <<row, route>> /\ flights' \subseteq flights
      /\ \A a \in Actors : /\ work'[a].pc = work[a].pc /\ work'[a].version = work[a].version
                           /\ work'[a].redundant = work[a].redundant
  <2>1. \/ work' = work
        \/ \E n : work' = [work EXCEPT ![f.by].got = n]
    BY DEF Land
  <2> QED BY <1>0, <2>1 DEF Land, Works
<1>2. CASE versions \subseteq versions'
  <2>1. Ids \subseteq Ids'
    BY <1>2 DEF Ids
  <2> QED BY <1>0, <1>1, <1>2, <2>1 DEF ExactInv, Finished, Flights
<1>3. CASE f.kind = "delete" /\ versions' = {v \in versions : v.id # f.version}
  <2>1. /\ f.awaited /\ f.version \in work[f.by].redundant /\ f.by \in Actors
        /\ work[f.by].pc = "purgeWait"
    BY <1>0, <1>3 DEF ExactInv, AwaitsInv, AwaitPc, At, Flights
  <2>2. f.by \in route.holders /\ work[f.by].version \in Ids /\ work[f.by].version # f.version
    BY <2>1 DEF ExactInv
  <2>3. Ids' = Ids \ {f.version}
    BY <1>3 DEF Ids
  <2>4. row.state # "Committed"
    BY <2>1, <2>2 DEF ExactInv, Finished
  <2>5. ASSUME NEW a \in Actors, work[a].pc \in {"purge", "purgeWait"} PROVE a = f.by
    <3>1. a \in route.holders
      BY <2>5 DEF ExactInv
    <3>2. work[f.by].pc \notin Finished(f.by)
      BY <2>1 DEF Finished
    <3> QED BY <2>2, <2>5, <3>1, <3>2, OneHolder
  <2>6. versions' # {}
    BY <2>2, <2>3 DEF Ids
  <2>7. \A a \in Actors : work'[a].pc \in {"purge", "purgeWait"} =>
           /\ a \in route'.holders /\ route'.left > 0
           /\ work'[a].version \in Ids' /\ work'[a].version \notin work'[a].redundant
    BY <1>1, <2>2, <2>3, <2>5 DEF ExactInv
  <2>8. \A g \in flights' : g.kind = "delete" => g.awaited /\ g.version \in work'[g.by].redundant
    BY <1>0, <1>1 DEF ExactInv, Flights
  <2> QED BY <1>1, <2>4, <2>6, <2>7, <2>8 DEF ExactInv
<1> QED BY <1>2, <1>3 DEF Land, NewVersion

\* Every step of a backend with exact recovery keeps its invariant.
LEMMA ExactStep ==
    ASSUME Exact, ~LateDeletes, ~Pauses, TypeOK, HoldersInv, AwaitsInv, ExactInv, [Next]_vars
    PROVE  ExactInv'
<1>0. /\ work \in [Actors -> Works] /\ sink \in Sinks /\ row \in Rows(Reconcilers, Nat)
      /\ flights \subseteq Flights /\ route \in Routes
      /\ Reconcilers \subseteq Actors /\ Sink \in Actors /\ Request \in Actors
      /\ TypeOK /\ HoldersInv /\ AwaitsInv /\ ExactInv /\ Exact /\ ~LateDeletes /\ ~Pauses
  BY ActorFacts DEF TypeOK
<1>1. CASE SinkLaunch
  <2>1. /\ \A b \in Actors \ {Sink} : work'[b] = work[b]
        /\ work[Sink].pc # "purgeWait" /\ work'[Sink].pc \notin {"purge", "purgeWait"}
        /\ row.state = "Committed" /\ work[Sink].pc \in Finished(Sink) => work'[Sink].pc \in Finished(Sink)
    BY <1>0, <1>1, GotoPc, ReturnPc, ActorFacts DEF SinkLaunch, At, Finished
  <2>2. RowSame /\ DeletesSame /\ UNCHANGED <<versions, route>>
    BY <1>0, <1>1, RowsSame DEF SinkLaunch, DeletesSame, provider
  <2> QED BY <1>0, <2>1, <2>2, ExactMove
<1>2. CASE SinkRecordLaunch
  <2>1. /\ \A b \in Actors \ {Sink} : work'[b] = work[b]
        /\ work[Sink].pc # "purgeWait" /\ work'[Sink].pc \notin {"purge", "purgeWait"}
        /\ row.state = "Committed" /\ work[Sink].pc \in Finished(Sink) => work'[Sink].pc \in Finished(Sink)
    BY <1>0, <1>2, GotoPc, ActorFacts DEF SinkRecordLaunch, At, Finished
  <2>2. RowSame /\ DeletesSame /\ UNCHANGED <<versions, route>>
    BY <1>0, <1>2, RowsSame DEF SinkRecordLaunch, DeletesSame, provider
  <2> QED BY <1>0, <2>1, <2>2, ExactMove
<1>3. CASE SinkCallCreate
  <2>1. /\ \A b \in Actors \ {Sink} : work'[b] = work[b]
        /\ work[Sink].pc # "purgeWait" /\ work'[Sink].pc \notin {"purge", "purgeWait"}
        /\ row.state = "Committed" /\ work[Sink].pc \in Finished(Sink) => work'[Sink].pc \in Finished(Sink)
    BY <1>0, <1>3, GotoPc, ReturnPc, ActorFacts DEF SinkCallCreate, At, Finished
  <2>2. RowSame /\ DeletesSame /\ UNCHANGED <<versions, route>>
    BY <1>0, <1>3, RowsSame DEF SinkCallCreate, DeletesSame, provider, Send, Flight
  <2> QED BY <1>0, <2>1, <2>2, ExactMove
<1>4. CASE SinkCreated
  <2>1. /\ \A b \in Actors \ {Sink} : work'[b] = work[b]
        /\ work[Sink].pc # "purgeWait" /\ work'[Sink].pc \notin {"purge", "purgeWait"}
        /\ row.state = "Committed" /\ work[Sink].pc \in Finished(Sink) => work'[Sink].pc \in Finished(Sink)
    BY <1>0, <1>4, GotoPc, ActorFacts DEF SinkCreated, At, Finished
  <2>2. RowSame /\ DeletesSame /\ UNCHANGED <<versions, route>>
    BY <1>0, <1>4, RowsSame DEF SinkCreated, DeletesSame, provider
  <2> QED BY <1>0, <2>1, <2>2, ExactMove
<1>5. CASE SinkSetOpen
  <2>1. Goto(Sink, "write") \/ Return(Sink)
    BY <1>5 DEF SinkSetOpen
  <2>2. /\ \A b \in Actors \ {Sink} : work'[b] = work[b]
        /\ work[Sink].pc \notin Finished(Sink) \cup {"purgeWait"} /\ work'[Sink].pc \notin {"purge", "purgeWait"}
    BY <1>0, <1>5, <2>1, GotoPc, ReturnPc, ActorFacts DEF SinkSetOpen, At, Finished
  <2>3. RowSame /\ DeletesSame /\ UNCHANGED <<versions, route>>
    BY <1>0, <1>5, RowsSame DEF SinkSetOpen, DeletesSame, provider
  <2> QED BY <1>0, <2>2, <2>3, ExactMove
<1>6. CASE SinkUploadPart
  <2>1. /\ \A b \in Actors \ {Sink} : work'[b] = work[b]
        /\ work[Sink].pc # "purgeWait" /\ work'[Sink].pc \notin {"purge", "purgeWait"}
        /\ row.state = "Committed" /\ work[Sink].pc \in Finished(Sink) => work'[Sink].pc \in Finished(Sink)
    BY <1>0, <1>6, ReturnPc, ActorFacts DEF SinkUploadPart, At, Finished
  <2>2. RowSame /\ DeletesSame /\ UNCHANGED <<versions, route>>
    BY <1>0, <1>6, RowsSame DEF SinkUploadPart, DeletesSame, provider
  <2> QED BY <1>0, <2>1, <2>2, ExactMove
<1>7. CASE SinkVerify
  <2>1. /\ \A b \in Actors \ {Sink} : work'[b] = work[b]
        /\ work[Sink].pc # "purgeWait" /\ work'[Sink].pc \notin {"purge", "purgeWait"}
        /\ row.state = "Committed" /\ work[Sink].pc \in Finished(Sink) => work'[Sink].pc \in Finished(Sink)
    BY <1>0, <1>7, GotoPc, ReturnPc, ActorFacts DEF SinkVerify, At, Finished
  <2>2. RowSame /\ DeletesSame /\ UNCHANGED <<versions, route>>
    BY <1>0, <1>7, RowsSame DEF SinkVerify, DeletesSame, provider
  <2> QED BY <1>0, <2>1, <2>2, ExactMove
<1>8. CASE SinkOpenSingle
  <2>1. Goto(Sink, "opened") \/ Return(Sink)
    BY <1>8 DEF SinkOpenSingle
  <2>2. /\ \A b \in Actors \ {Sink} : work'[b] = work[b]
        /\ work[Sink].pc \notin Finished(Sink) \cup {"purgeWait"} /\ work'[Sink].pc \notin {"purge", "purgeWait"}
    BY <1>0, <1>8, <2>1, GotoPc, ReturnPc, ActorFacts DEF SinkOpenSingle, At, Finished
  <2>3. RowSame /\ DeletesSame /\ UNCHANGED <<versions, route>>
    BY <1>0, <1>8, RowsSame DEF SinkOpenSingle, DeletesSame, provider
  <2> QED BY <1>0, <2>2, <2>3, ExactMove
<1>9. CASE SinkStartCompletion
  <2>1. /\ \A b \in Actors \ {Sink} : work'[b] = work[b]
        /\ work[Sink].pc # "purgeWait" /\ work'[Sink].pc \notin {"purge", "purgeWait"}
        /\ row.state = "Committed" /\ work[Sink].pc \in Finished(Sink) => work'[Sink].pc \in Finished(Sink)
    BY <1>0, <1>9, GotoPc, ReturnPc, ActorFacts DEF SinkStartCompletion, At, Finished
  <2>2. RowSame /\ DeletesSame /\ UNCHANGED <<versions, route>>
    BY <1>0, <1>9, RowsSame DEF SinkStartCompletion, DeletesSame, provider
  <2> QED BY <1>0, <2>1, <2>2, ExactMove
<1>10. CASE SinkCallPut
  <2>1. /\ \A b \in Actors \ {Sink} : work'[b] = work[b]
        /\ work[Sink].pc # "purgeWait" /\ work'[Sink].pc \notin {"purge", "purgeWait"}
        /\ row.state = "Committed" /\ work[Sink].pc \in Finished(Sink) => work'[Sink].pc \in Finished(Sink)
    BY <1>0, <1>10, GotoPc, ErrorPc, ActorFacts DEF SinkCallPut, At, Finished
  <2>2. RowSame /\ DeletesSame /\ UNCHANGED <<versions, route>>
    BY <1>0, <1>10, RowsSame DEF SinkCallPut, DeletesSame, provider, Send, Flight
  <2> QED BY <1>0, <2>1, <2>2, ExactMove
<1>11. CASE SinkCallComplete
  <2>1. CASE ProbeFinds(Sink) /\ Fenced(Sink) /\ UNCHANGED <<row, route, sink, flights, versions, minted, upload, faults>>
    <3>1. At(Sink, "call")
      BY <1>11 DEF SinkCallComplete
    <3> QED BY <1>0, <2>1, <3>1, ActorFacts, ProbeExact DEF At, Finished
  <2>2. CASE \/ Error(Sink) /\ UNCHANGED flights
             \/ Goto(Sink, "wait") /\ Send("complete", Sink, 0)
    <3>1. /\ \A b \in Actors \ {Sink} : work'[b] = work[b]
          /\ work[Sink].pc = "call" /\ work'[Sink].pc \notin {"purge", "purgeWait"}
      BY <1>0, <1>11, <2>2, GotoPc, ErrorPc, ActorFacts DEF SinkCallComplete, At
    <3>2. RowSame /\ DeletesSame /\ UNCHANGED <<versions, route>>
      BY <1>0, <1>11, <2>2, RowsSame DEF SinkCallComplete, DeletesSame, Send, Flight
    <3> QED BY <1>0, <3>1, <3>2, ActorFacts, ExactMove DEF Finished
  <2> QED BY <1>11, <2>1, <2>2 DEF SinkCallComplete
<1>12. CASE SinkCommitted
  <2>1. /\ \A b \in Actors \ {Sink} : work'[b] = work[b]
        /\ work[Sink].pc # "purgeWait" /\ work'[Sink].pc \notin {"purge", "purgeWait"}
        /\ row.state = "Committed" /\ work[Sink].pc \in Finished(Sink) => work'[Sink].pc \in Finished(Sink)
    BY <1>0, <1>12, ActorFacts DEF SinkCommitted, At, Finished, Works
  <2>2. RowSame /\ DeletesSame /\ UNCHANGED <<versions, route>>
    BY <1>0, <1>12, RowsSame DEF SinkCommitted, DeletesSame, provider
  <2> QED BY <1>0, <2>1, <2>2, ExactMove
<1>13. CASE SinkRejected
  <2>1. /\ \A b \in Actors \ {Sink} : work'[b] = work[b]
        /\ work[Sink].pc # "purgeWait" /\ work'[Sink].pc \notin {"purge", "purgeWait"}
        /\ row.state = "Committed" /\ work[Sink].pc \in Finished(Sink) => work'[Sink].pc \in Finished(Sink)
    BY <1>0, <1>13, GotoPc, ReturnPc, ActorFacts DEF SinkRejected, At, Finished
  <2>2. RowSame /\ DeletesSame /\ UNCHANGED <<versions, route>>
    BY <1>0, <1>13, RowsSame DEF SinkRejected, DeletesSame, provider
  <2> QED BY <1>0, <2>1, <2>2, ExactMove
<1>14. CASE SinkMarkUnknown
  <2>1. /\ \A b \in Actors \ {Sink} : work'[b] = work[b]
        /\ work[Sink].pc # "purgeWait" /\ work'[Sink].pc \notin {"purge", "purgeWait"}
        /\ row.state = "Committed" /\ work[Sink].pc \in Finished(Sink) => work'[Sink].pc \in Finished(Sink)
    BY <1>0, <1>14, GotoPc, ReturnPc, ActorFacts DEF SinkMarkUnknown, At, Finished
  <2>2. RowSame /\ DeletesSame /\ UNCHANGED <<versions, route>>
    BY <1>0, <1>14, RowsSame DEF SinkMarkUnknown, DeletesSame, provider
  <2> QED BY <1>0, <2>1, <2>2, ExactMove
<1>15. CASE SinkReprobe
  <2>1. /\ \A b \in Actors \ {Sink} : work'[b] = work[b]
        /\ work[Sink].pc # "purgeWait" /\ work'[Sink].pc \notin {"purge", "purgeWait"}
        /\ row.state = "Committed" /\ work[Sink].pc \in Finished(Sink) => work'[Sink].pc \in Finished(Sink)
    BY <1>15, ReprobeFacts DEF At, Finished
  <2>2. RowSame
    BY <1>0, <1>15, RowsSame DEF SinkReprobe
  <2>3. DeletesSame /\ UNCHANGED <<versions, route>>
    BY <1>15 DEF SinkReprobe, DeletesSame, provider
  <2> QED BY <1>0, <2>1, <2>2, <2>3, ExactMove
<1>16. CASE SinkAbort
  <2>1. /\ \A b \in Actors \ {Sink} : work'[b] = work[b]
        /\ work[Sink].pc # "purgeWait" /\ work'[Sink].pc \notin {"purge", "purgeWait"}
        /\ row.state = "Committed" /\ work[Sink].pc \in Finished(Sink) => work'[Sink].pc \in Finished(Sink)
    BY <1>0, <1>16, ActorFacts DEF SinkAbort, At, Finished, Works
  <2>2. RowSame /\ DeletesSame /\ UNCHANGED <<versions, route>>
    BY <1>0, <1>16, RowsSame DEF SinkAbort, DeletesSame, provider
  <2> QED BY <1>0, <2>1, <2>2, ExactMove
<1>17. CASE SinkAbortFinished
  <2>1. /\ \A b \in Actors \ {Sink} : work'[b] = work[b]
        /\ work[Sink].pc # "purgeWait" /\ work'[Sink].pc \notin {"purge", "purgeWait"}
        /\ row.state = "Committed" /\ work[Sink].pc \in Finished(Sink) => work'[Sink].pc \in Finished(Sink)
    BY <1>0, <1>17, GotoPc, ActorFacts DEF SinkAbortFinished, At, Finished
  <2>2. RowSame /\ DeletesSame /\ UNCHANGED <<versions, route>>
    BY <1>0, <1>17, RowsSame DEF SinkAbortFinished, DeletesSame, provider
  <2> QED BY <1>0, <2>1, <2>2, ExactMove
<1>18. CASE SinkRelease
  <2>1. /\ \A b \in Actors \ {Sink} : work'[b] = work[b]
        /\ work[Sink].pc = "release" /\ work'[Sink].pc \in Finished(Sink) \ {"purge", "purgeWait"}
    BY <1>0, <1>18, GotoPc, ReturnPc, ActorFacts DEF SinkRelease, At, Finished
  <2>2. UNCHANGED <<row, flights, versions>> /\ route'.holders = route.holders /\ route'.left = route.left
    BY <1>0, <1>18 DEF SinkRelease, provider, Routes
  <2>3. \A f \in flights : f.kind = "delete" => work[f.by].pc = "purgeWait" /\ f.by \in Actors
    BY <1>0 DEF ExactInv, AwaitsInv, AwaitPc, At, Flights
  <2>4. Ids' = Ids /\ route.holders \subseteq Actors
    BY <1>0, <2>2 DEF Ids, Routes
  <2> QED BY <2>1, <2>2, <2>3, <2>4 DEF ExactInv, Finished
<1>19. CASE SinkDrop
  <2>1. /\ work'[Sink].pc = "gone" /\ (work'[Request] = work[Request] \/ work'[Request].pc = "over")
        /\ \A b \in Actors \ {Sink, Request} : work'[b] = work[b]
    BY <1>0, <1>19, ActorFacts DEF SinkDrop, Idle
  <2>2. work[Request].pc \in {"idle", "over"}
    BY <1>0, <1>19 DEF SinkDrop, Running, HoldersInv, At
  <2>3. UNCHANGED <<row, route, versions>> /\ flights' = Unawaited(Sink)
    BY <1>19 DEF SinkDrop
  <2>4. ASSUME NEW g \in flights', g.kind = "delete"
        PROVE  g.awaited /\ g.version \in work'[g.by].redundant
    <3>1. g \in flights /\ g.by # Sink
      BY <1>0, <2>3, <2>4, KeptDeletes, ActorFacts
    <3>2. work[g.by].pc = "purgeWait" /\ g.by \in Actors /\ g.awaited /\ g.version \in work[g.by].redundant
      BY <1>0, <2>4, <3>1 DEF ExactInv, AwaitsInv, AwaitPc, At, Flights
    <3> QED BY <2>1, <2>2, <3>1, <3>2
  <2>5. Ids' = Ids /\ route.holders \subseteq Actors
    BY <1>0, <2>3 DEF Ids, Routes
  <2> QED BY <2>1, <2>3, <2>4, <2>5, ActorFacts DEF ExactInv, Finished
<1>20. ASSUME NEW a \in Actors, AmbiguousReply(a) PROVE ExactInv'
  <2>1. /\ \A b \in Actors \ {a} : work'[b] = work[b]
        /\ work'[a].pc \notin {"purge", "purgeWait"}
        /\ work[a].pc \in Finished(a) => work'[a].pc \in Finished(a)
    BY <1>0, <1>20, ErrorPc, ReturnPc DEF AmbiguousReply, Finished, At
  <2>2. UNCHANGED <<row, route, versions>> /\ flights' = Unawaited(a)
    BY <1>20 DEF AmbiguousReply
  <2> QED BY <1>0, <2>1, <2>2, ExactGiveUp
<1>21. ASSUME NEW a \in Actors, Rewrite(a) PROVE ExactInv'
  <2>1. /\ \A b \in Actors \ {a} : work'[b] = work[b]
        /\ work[a].pc # "purgeWait" /\ work'[a].pc \notin {"purge", "purgeWait"}
        /\ row.state = "Committed" /\ work[a].pc \in Finished(a) => work'[a].pc \in Finished(a)
    BY <1>0, <1>21, GotoPc, ErrorPc, ActorFacts DEF Rewrite, At, Finished
  <2>2. RowSame /\ DeletesSame /\ UNCHANGED <<versions, route>>
    BY <1>0, <1>21, RowsSame DEF Rewrite, DeletesSame, provider, Send, Flight
  <2> QED BY <1>0, <2>1, <2>2, ExactMove
<1>22. ASSUME NEW a \in Actors, Rewritten(a) PROVE ExactInv'
  <2>1. /\ \A b \in Actors \ {a} : work'[b] = work[b]
        /\ work[a].pc # "purgeWait" /\ work'[a].pc \notin {"purge", "purgeWait"}
        /\ row.state = "Committed" /\ work[a].pc \in Finished(a) => work'[a].pc \in Finished(a)
    BY <1>0, <1>22, ActorFacts DEF Rewritten, At, Finished, Works
  <2>2. RowSame /\ DeletesSame /\ UNCHANGED <<versions, route>>
    BY <1>0, <1>22, RowsSame DEF Rewritten, DeletesSame, provider
  <2> QED BY <1>0, <2>1, <2>2, ExactMove
<1>23. ASSUME NEW a \in Actors, Resolve(a) PROVE ExactInv'
  <2>1. At(a, "resolve") /\ UNCHANGED <<row, route, flights, versions>>
    BY <1>23 DEF Resolve, provider
  <2>2. CASE Error(a)
    <3>1. /\ \A b \in Actors \ {a} : work'[b] = work[b]
          /\ work'[a].pc \notin {"purge", "purgeWait"}
      BY <1>0, <2>2, ErrorPc
    <3> QED BY <1>0, <2>1, <3>1, RowsSame, ExactMove DEF At, DeletesSame, Finished
  <2>3. CASE /\ Fenced(a) /\ work[a].version \in Ids
             /\ work' = [work EXCEPT ![a].pc = "purge",
                           ![a].redundant = (Ids \cup {work[a].first}) \ {0, work[a].version}]
    <3>1. /\ \A b \in Actors \ {a} : work'[b] = work[b]
          /\ work'[a].version = work[a].version
          /\ work'[a].redundant = (Ids \cup {work[a].first}) \ {0, work[a].version}
      BY <1>0, <2>3 DEF Works
    <3>2. work'[a].version \in Ids /\ work'[a].version \notin work'[a].redundant
      BY <2>3, <3>1
    <3> QED BY <1>0, <2>1, <2>3, <3>1, <3>2, ExactEnter DEF At, Finished
  <2> QED BY <1>0, <1>23, <2>2, <2>3 DEF Resolve
<1>24. ASSUME NEW a \in Actors, Purge(a) PROVE ExactInv'
  <2>1. At(a, "purge") /\ UNCHANGED <<row, route, versions>>
    BY <1>24 DEF Purge
  <2>2. CASE Return(a) /\ UNCHANGED flights
    <3>1. /\ \A b \in Actors \ {a} : work'[b] = work[b]
          /\ work'[a].pc \notin {"purge", "purgeWait"}
      BY <1>0, <2>2, ReturnPc
    <3> QED BY <1>0, <2>1, <2>2, <3>1, RowsSame, ExactMove DEF At, DeletesSame, Finished
  <2>3. ASSUME NEW v \in work[a].redundant, Goto(a, "purgeWait"), Send("delete", a, v) PROVE ExactInv'
    <3>1. /\ \A b \in Actors \ {a} : work'[b] = work[b]
          /\ work'[a].version = work[a].version /\ work'[a].redundant = work[a].redundant
      BY <1>0, <2>3 DEF Goto, Works
    <3>2. PICK g : g = Flight("delete", a, v)
      OBVIOUS
    <3>3. flights' = flights \cup {g} /\ g.awaited /\ g.version = v /\ g.by = a
      BY <2>3, <3>2 DEF Send, Flight
    <3>4. \A f \in flights' : f.kind = "delete" => f.awaited /\ f.version \in work'[f.by].redundant
      BY <1>0, <3>1, <3>3 DEF ExactInv, Flights
    <3>5. row.state # "Committed"
      BY <1>0, <2>1 DEF ExactInv, At, Finished
    <3>6. Ids' = Ids
      BY <2>1 DEF Ids
    <3> QED BY <1>0, <2>1, <3>1, <3>4, <3>5, <3>6 DEF ExactInv, At
  <2> QED BY <1>24, <2>2, <2>3 DEF Purge
<1>25. ASSUME NEW a \in Actors, Purged(a) PROVE ExactInv'
  <2>1. /\ At(a, "purgeWait") /\ work[a].got # 0 /\ UNCHANGED <<row, route, flights, versions>>
        /\ work' = [work EXCEPT ![a].pc = "purge", ![a].redundant = @ \ {work[a].got}, ![a].got = 0]
    BY <1>25 DEF Purged, provider
  <2>2. /\ \A b \in Actors \ {a} : work'[b] = work[b]
        /\ work'[a].version = work[a].version /\ work'[a].redundant \subseteq work[a].redundant
    BY <1>0, <2>1 DEF Works
  <2>3. \A f \in flights : f.kind = "delete" => f.by # a /\ f.by \in Actors
    BY <1>0, <2>1 DEF ExactInv, AwaitsInv, Flights
  <2>4. row.state # "Committed"
    BY <1>0, <2>1 DEF ExactInv, At, Finished
  <2>5. Ids' = Ids
    BY <2>1 DEF Ids
  <2> HIDE <2>1
  <2>6. UNCHANGED <<row, route, flights, versions>> /\ At(a, "purgeWait")
    BY <2>1
  <2> QED BY <1>0, <2>2, <2>3, <2>4, <2>5, <2>6 DEF ExactInv, At
<1>26. ASSUME NEW a \in Actors, Commit(a) PROVE ExactInv'
  <2>1. /\ At(a, "purge") /\ UNCHANGED <<route, flights, versions>>
        /\ work'[a].pc \in Finished(a) /\ work'[a].pc \notin {"purge", "purgeWait"}
        /\ \A b \in Actors \ {a} : work'[b] = work[b]
    BY <1>0, <1>26, GotoPc, ReturnPc DEF Commit, provider, Finished
  <2>2. CASE row' = row
    BY <1>0, <2>1, <2>2, RowsSame, ExactMove DEF DeletesSame, At
  <2>3. CASE row' = MovedToCommitted(row, work[a].version, History(a))
    <3>1. row'.version = work[a].version
      BY <1>0, <2>3 DEF MovedToCommitted, Moved, Rows
    <3>2. /\ a \in route.holders /\ work[a].version \in Ids /\ Ids' = Ids
          /\ route.holders \subseteq Actors
      BY <1>0, <2>1 DEF ExactInv, At, Ids, Routes
    <3>3. \A b \in route.holders : work'[b].pc \in Finished(b)
      BY <1>0, <2>1, <3>2, OneHolder DEF At
    <3>4. \A f \in flights : f.kind = "delete" => f.by # a /\ f.by \in Actors
      BY <1>0, <2>1 DEF ExactInv, AwaitsInv, AwaitPc, At, Flights
    <3> QED BY <2>1, <3>1, <3>2, <3>3, <3>4 DEF ExactInv, Finished
  <2> QED BY <1>26, <2>2, <2>3 DEF Commit
<1>27. ASSUME NEW a \in Actors, Probe(a) PROVE ExactInv'
  <2>1. At(a, "probe") /\ UNCHANGED <<row, route, sink, flights, versions, minted, upload, faults>>
    BY <1>27 DEF Probe, provider
  <2>2. CASE ProbeFinds(a) /\ Fenced(a)
    BY <1>0, <2>1, <2>2, ProbeExact DEF At, Finished
  <2>3. CASE Goto(a, "uploads") \/ Return(a)
    <3>1. /\ \A b \in Actors \ {a} : work'[b] = work[b]
          /\ work'[a].pc \notin {"purge", "purgeWait"}
      BY <1>0, <2>3, GotoPc, ReturnPc
    <3> QED BY <1>0, <2>1, <3>1, RowsSame, ExactMove DEF At, DeletesSame, Finished
  <2> QED BY <1>27, <2>2, <2>3 DEF Probe
<1>28. ASSUME NEW a \in Actors, ProbeUploads(a) PROVE ExactInv'
  <2>1. /\ \A b \in Actors \ {a} : work'[b] = work[b]
        /\ work[a].pc # "purgeWait" /\ work'[a].pc \notin {"purge", "purgeWait"}
        /\ row.state = "Committed" /\ work[a].pc \in Finished(a) => work'[a].pc \in Finished(a)
    BY <1>0, <1>28, GotoPc, ReturnPc, ActorFacts DEF ProbeUploads, At, Finished
  <2>2. RowSame /\ DeletesSame /\ UNCHANGED <<versions, route>>
    BY <1>0, <1>28, RowsSame DEF ProbeUploads, DeletesSame, provider
  <2> QED BY <1>0, <2>1, <2>2, ExactMove
<1>29. ASSUME NEW a \in Actors, ConfirmRead(a) PROVE ExactInv'
  <2>1. /\ \A b \in Actors \ {a} : work'[b] = work[b]
        /\ work[a].pc # "purgeWait" /\ work'[a].pc \notin {"purge", "purgeWait"}
        /\ row.state = "Committed" /\ work[a].pc \in Finished(a) => work'[a].pc \in Finished(a)
    BY <1>0, <1>29, GotoPc, ReturnPc, ActorFacts DEF ConfirmRead, At, Finished
  <2>2. RowSame /\ DeletesSame /\ UNCHANGED <<versions, route>>
    BY <1>0, <1>29, RowsSame DEF ConfirmRead, DeletesSame, provider
  <2> QED BY <1>0, <2>1, <2>2, ExactMove
<1>30. ASSUME NEW a \in Actors, ConfirmWrite(a) PROVE ExactInv'
  <2>1. /\ \A b \in Actors \ {a} : work'[b] = work[b]
        /\ work[a].pc # "purgeWait" /\ work'[a].pc \notin {"purge", "purgeWait"}
        /\ row.state = "Committed" /\ work[a].pc \in Finished(a) => work'[a].pc \in Finished(a)
    BY <1>0, <1>30, ReturnPc, ActorFacts DEF ConfirmWrite, At, Finished
  <2>2. RowSame /\ DeletesSame /\ UNCHANGED <<versions, route>>
    BY <1>0, <1>30, RowsSame DEF ConfirmWrite, DeletesSame, provider
  <2> QED BY <1>0, <2>1, <2>2, ExactMove
<1>31. ASSUME NEW a \in Actors, Cleanup(a) PROVE ExactInv'
  <2>1. /\ \A b \in Actors \ {a} : work'[b] = work[b]
        /\ work[a].pc # "purgeWait" /\ work'[a].pc \notin {"purge", "purgeWait"}
        /\ row.state = "Committed" /\ work[a].pc \in Finished(a) => work'[a].pc \in Finished(a)
    BY <1>0, <1>31, GotoPc, ReturnPc, ActorFacts DEF Cleanup, At, Finished
  <2>2. RowSame /\ DeletesSame /\ UNCHANGED <<versions, route>>
    BY <1>0, <1>31, RowsSame DEF Cleanup, DeletesSame, provider
  <2> QED BY <1>0, <2>1, <2>2, ExactMove
<1>32. ASSUME NEW a \in Actors, FinishAbort(a) PROVE ExactInv'
  <2>1. /\ \A b \in Actors \ {a} : work'[b] = work[b]
        /\ work[a].pc # "purgeWait" /\ work'[a].pc \notin {"purge", "purgeWait"}
        /\ row.state = "Committed" /\ work[a].pc \in Finished(a) => work'[a].pc \in Finished(a)
    BY <1>0, <1>32, GotoPc, ReturnPc, ActorFacts DEF FinishAbort, At, Finished
  <2>2. RowSame /\ DeletesSame /\ UNCHANGED <<versions, route>>
    BY <1>0, <1>32, RowsSame DEF FinishAbort, DeletesSame, provider
  <2> QED BY <1>0, <2>1, <2>2, ExactMove
<1>33. ASSUME NEW a \in Actors, Fail(a) PROVE ExactInv'
  <2>1. /\ \A b \in Actors \ {a} : work'[b] = work[b]
        /\ work'[a].pc \notin {"purge", "purgeWait"}
        /\ work[a].pc \in Finished(a) => work'[a].pc \in Finished(a)
    BY <1>0, <1>33, ReturnPc DEF Fail, Finished, At
  <2>2. UNCHANGED <<row, route, versions>> /\ flights' = Unawaited(a)
    BY <1>33 DEF Fail
  <2> QED BY <1>0, <2>1, <2>2, ExactGiveUp
<1>34. ASSUME NEW a \in Actors, Renew(a) PROVE ExactInv'
  <2>1. /\ UNCHANGED <<row, work, flights, versions>> /\ route'.holders = route.holders
        /\ route.left > 0 => route'.left > 0
    BY <1>0, <1>34, DirectWriteAssumption DEF Renew, provider, Routes
  <2> QED BY <2>1 DEF ExactInv, Ids, Finished
<1>35. ASSUME NEW r \in Reconcilers, ClaimRead(r) PROVE ExactInv'
  <2>1. /\ \A b \in Actors \ {r} : work'[b] = work[b]
        /\ work[r].pc # "purgeWait" /\ work'[r].pc \notin {"purge", "purgeWait"}
        /\ row.state = "Committed" /\ work[r].pc \in Finished(r) => work'[r].pc \in Finished(r)
    BY <1>0, <1>35, ActorFacts DEF ClaimRead, At, Finished, Works, Claimable, Terminal
  <2>2. RowSame /\ DeletesSame /\ UNCHANGED <<versions, route>>
    BY <1>0, <1>35, RowsSame DEF ClaimRead, DeletesSame, provider
  <2> QED BY <1>0, <2>1, <2>2, ExactMove
<1>36. ASSUME NEW r \in Reconcilers, ClaimWrite(r) PROVE ExactInv'
  <2>1. /\ \A b \in Actors \ {r} : work'[b] = work[b]
        /\ work[r].pc # "purgeWait" /\ work'[r].pc \notin {"purge", "purgeWait"}
        /\ row.state = "Committed" /\ work[r].pc \in Finished(r) => work'[r].pc \in Finished(r)
    BY <1>0, <1>36, GotoPc, ReturnPc, ActorFacts DEF ClaimWrite, At, Finished
  <2>2. RowSame /\ DeletesSame /\ UNCHANGED <<versions, route>>
    BY <1>0, <1>36, RowsSame DEF ClaimWrite, DeletesSame, provider
  <2> QED BY <1>0, <2>1, <2>2, ExactMove
<1>37. ASSUME NEW r \in Reconcilers, Recover(r) PROVE ExactInv'
  <2>1. CASE Return(r) /\ UNCHANGED <<route, row, flights, versions>>
    <3>1. /\ \A b \in Actors \ {r} : work'[b] = work[b]
          /\ work'[r].pc \notin {"purge", "purgeWait"} /\ work'[r].pc \in Finished(r)
      BY <1>0, <2>1, ReturnPc
    <3>2. work[r].pc = "recover"
      BY <1>37 DEF Recover, At
    <3> QED BY <1>0, <2>1, <3>1, <3>2, RowsSame, ExactMove DEF DeletesSame
  <2>2. CASE /\ route.left = 0 /\ row.state \notin Terminal /\ Goto(r, "begin")
             /\ UNCHANGED <<row, flights, versions>>
    <3>1. \A a \in Actors : work[a].pc \notin {"purge", "purgeWait"}
      BY <2>2 DEF ExactInv
    <3>2. \A a \in Actors : work'[a].pc \notin {"purge", "purgeWait"}
      BY <1>0, <2>2, <3>1, GotoPc
    <3>3. \A f \in flights : f.kind # "delete"
      BY <1>0, <3>1 DEF ExactInv, AwaitsInv, AwaitPc, At, Flights
    <3> QED BY <2>2, <3>2, <3>3 DEF ExactInv, Terminal
  <2> QED BY <1>37, <2>1, <2>2 DEF Recover, provider
<1>38. ASSUME NEW r \in Reconcilers, Begin(r) PROVE ExactInv'
  <2>1. /\ \A b \in Actors \ {r} : work'[b] = work[b]
        /\ work[r].pc = "begin" /\ work'[r].pc \notin {"purge", "purgeWait"}
    BY <1>0, <1>38, ReturnPc DEF Begin, At, Works
  <2>2. RowSame
    BY <1>0, <1>38, RowsSame DEF Begin
  <2>3. DeletesSame /\ UNCHANGED <<versions, route>>
    BY <1>38 DEF Begin, DeletesSame, provider
  <2> QED BY <1>0, <2>1, <2>2, <2>3, ActorFacts, ExactMove DEF Finished
<1>39. ASSUME NEW r \in Reconcilers, SettleTerminal(r) PROVE ExactInv'
  <2>1. /\ UNCHANGED <<row, work, flights, versions>> /\ route'.holders = route.holders
        /\ route.left > 0 => route'.left > 0
    BY <1>0, <1>39, DirectWriteAssumption DEF SettleTerminal, provider, Routes
  <2> QED BY <2>1 DEF ExactInv, Ids, Finished
<1>40. ASSUME NEW f \in flights, Land(f) PROVE ExactInv'
  BY <1>0, <1>40, ExactLand
<1>41. CASE ExpireUpload
  <2>1. /\ UNCHANGED <<row, work, flights, versions>> /\ route'.holders = route.holders
        /\ route.left > 0 => route'.left > 0
    BY <1>0, <1>41, DirectWriteAssumption DEF ExpireUpload, provider, Routes
  <2> QED BY <2>1 DEF ExactInv, Ids, Finished
<1>42. CASE Tick
  <2>1. /\ row'.state = row.state /\ row'.version = row.version
    BY <1>0, <1>42 DEF Tick, RowTick, Rows
  <2>2. /\ \A a \in Actors : /\ work'[a].pc = work[a].pc /\ work'[a].version = work[a].version
                             /\ work'[a].redundant = work[a].redundant
        /\ versions' = versions /\ route'.holders = route.holders /\ route.holders \subseteq Actors
    BY <1>0, <1>42 DEF Tick, Works, Routes
  <2>3. \A g \in flights' : \E f \in flights : /\ g.kind = f.kind /\ g.by = f.by
                                               /\ g.awaited = f.awaited /\ g.version = f.version
    BY <1>0, <1>42 DEF Tick, Flights
  <2>4. ASSUME NEW a \in Actors, work[a].pc \in {"purge", "purgeWait"} PROVE route'.left > 0
    <3>1. a \in route.holders /\ route.left > 0 /\ Leasing(a)
      BY <2>4 DEF ExactInv, Leasing, Running
    <3>2. route.left # 1
      BY <1>0, <1>42, <3>1 DEF Tick, Urgent
    <3> QED BY <1>0, <1>42, <3>1, <3>2 DEF Tick, Routes, Decrement
  <2>5. Ids' = Ids
    BY <2>2 DEF Ids
  <2>6. \A f \in flights' : f.kind = "delete" => f.awaited /\ f.version \in work'[f.by].redundant
    BY <1>0, <2>2, <2>3 DEF ExactInv, Flights
  <2> QED BY <2>1, <2>2, <2>4, <2>5, <2>6 DEF ExactInv, Finished
<1>43. CASE UNCHANGED vars
  BY <1>43 DEF vars, ExactInv, Ids, Finished
<1> QED
  BY <1>1, <1>2, <1>3, <1>4, <1>5, <1>6, <1>7, <1>8, <1>9, <1>10, <1>11, <1>12, <1>13, <1>14,
     <1>15, <1>16, <1>17, <1>18, <1>19, <1>20, <1>21, <1>22, <1>23, <1>24, <1>25, <1>26,
     <1>27, <1>28, <1>29, <1>30, <1>31, <1>32, <1>33, <1>34, <1>35, <1>36, <1>37, <1>38,
     <1>39, <1>40, <1>41, <1>42, <1>43
  DEF Next, SinkNext, CallNext, ReconcilerNext

\* With exact recovery, without late deletes and pauses, ExactInv holds throughout.
LEMMA ExactInvariance == ASSUME Exact, ~LateDeletes, ~Pauses PROVE Spec => []ExactInv
<1>1. Init => ExactInv
  <2> SUFFICES ASSUME Init PROVE ExactInv
    OBVIOUS
  <2>1. /\ flights = {} /\ row = IntentRow
        /\ work = [a \in Actors |-> IF a = Sink THEN [Idle EXCEPT !.pc = "write"] ELSE Idle]
    BY DEF Init
  <2>2. \A a \in Actors : work[a].pc \notin {"purge", "purgeWait"}
    BY <2>1 DEF Idle
  <2>3. row.state = "Intent"
    BY <2>1 DEF IntentRow
  <2> QED BY <2>1, <2>2, <2>3 DEF ExactInv
<1>2. IInv /\ ExactInv /\ [Next]_vars => ExactInv'
  BY ExactStep DEF IInv
<1> QED BY <1>1, <1>2, Invariance, PTL DEF Spec

-----------------------------------------------------------------------------
(* Committed versions survive, and the write implements AtomicWrite *)

\* The version that the journal names as committed stays at the provider, whatever
\* retries, takeovers and cleanups interleave; with exact version recovery, as long
\* as no delete takes effect late and no actor outlasts its routing lease.
THEOREM CommitsSurvive ==
    ASSUME Exact => ~LateDeletes /\ ~Pauses PROVE Spec => []CommittedVersionSurvives
<1>1. PlainInv => CommittedVersionSurvives
  BY DEF PlainInv, CommittedVersionSurvives, FullIds, Ids
<1>2. ExactInv => CommittedVersionSurvives
  BY DEF ExactInv, CommittedVersionSurvives
<1>3. CASE ~Exact
  BY <1>1, <1>3, PlainInvariance, PTL
<1>4. CASE Exact
  <2>1. Spec => []ExactInv
    BY <1>4, ExactInvariance
  <2> QED BY <1>2, <2>1, PTL
<1> QED BY <1>3, <1>4

\* A step moves the provider's versions or the row, and a terminal row stays.
LEMMA StepKinds ==
    ASSUME TypeOK, [Next]_vars
    PROVE  \/ \E f \in flights : Land(f)
           \/ UNCHANGED versions /\ (row.state \in Terminal => row'.state = row.state)
<1> DEFINE Still == UNCHANGED versions /\ (row.state \in Terminal => row'.state = row.state)
<1>0. row \in Rows(Reconcilers, Nat)
  BY DEF TypeOK
<1>1. CASE SinkLaunch
  BY <1>0, <1>1, RowStates, CasNonterminal DEF SinkLaunch, provider
<1>2. CASE SinkRecordLaunch
  BY <1>0, <1>2, RowStates, CasNonterminal DEF SinkRecordLaunch, provider
<1>3. CASE SinkCallCreate
  BY <1>0, <1>3, RowStates, CasNonterminal DEF SinkCallCreate, provider
<1>4. CASE SinkCreated
  BY <1>0, <1>4, RowStates, CasNonterminal DEF SinkCreated, provider
<1>5. CASE SinkSetOpen
  BY <1>0, <1>5, RowStates, CasNonterminal DEF SinkSetOpen, provider
<1>6. CASE SinkUploadPart
  BY <1>0, <1>6, RowStates, CasNonterminal DEF SinkUploadPart, provider
<1>7. CASE SinkVerify
  BY <1>0, <1>7, RowStates, CasNonterminal DEF SinkVerify, provider
<1>8. CASE SinkOpenSingle
  BY <1>0, <1>8, RowStates, CasNonterminal DEF SinkOpenSingle, provider
<1>9. CASE SinkStartCompletion
  BY <1>0, <1>9, RowStates, CasNonterminal DEF SinkStartCompletion, provider
<1>10. CASE SinkCallPut
  BY <1>0, <1>10, RowStates, CasNonterminal DEF SinkCallPut, provider
<1>11. CASE SinkCallComplete
  BY <1>0, <1>11, RowStates, CasNonterminal DEF SinkCallComplete, provider
<1>12. CASE SinkCommitted
  BY <1>0, <1>12, RowStates, CasNonterminal DEF SinkCommitted, provider
<1>13. CASE SinkRejected
  BY <1>0, <1>13, RowStates, CasNonterminal DEF SinkRejected, provider
<1>14. CASE SinkMarkUnknown
  BY <1>0, <1>14, RowStates, CasNonterminal DEF SinkMarkUnknown, provider
<1>15. CASE SinkReprobe
  BY <1>15, ReprobeFacts DEF Terminal
<1>16. CASE SinkAbort
  BY <1>0, <1>16, RowStates, CasNonterminal DEF SinkAbort, provider
<1>17. CASE SinkAbortFinished
  BY <1>0, <1>17, RowStates, CasNonterminal DEF SinkAbortFinished, provider
<1>18. CASE SinkRelease
  BY <1>0, <1>18, RowStates, CasNonterminal DEF SinkRelease, provider
<1>19. CASE SinkDrop
  BY <1>0, <1>19, RowStates, CasNonterminal DEF SinkDrop, provider
<1>20. ASSUME NEW a \in Actors, AmbiguousReply(a) PROVE Still
  BY <1>0, <1>20, RowStates, CasNonterminal DEF AmbiguousReply, provider
<1>21. ASSUME NEW a \in Actors, Rewrite(a) PROVE Still
  BY <1>0, <1>21, RowStates, CasNonterminal DEF Rewrite, provider
<1>22. ASSUME NEW a \in Actors, Rewritten(a) PROVE Still
  BY <1>0, <1>22, RowStates, CasNonterminal DEF Rewritten, provider
<1>23. ASSUME NEW a \in Actors, Resolve(a) PROVE Still
  BY <1>0, <1>23, RowStates, CasNonterminal DEF Resolve, provider
<1>24. ASSUME NEW a \in Actors, Purge(a) PROVE Still
  BY <1>0, <1>24, RowStates, CasNonterminal DEF Purge, provider
<1>25. ASSUME NEW a \in Actors, Purged(a) PROVE Still
  BY <1>0, <1>25, RowStates, CasNonterminal DEF Purged, provider
<1>26. ASSUME NEW a \in Actors, Commit(a) PROVE Still
  BY <1>0, <1>26, RowStates, CasNonterminal DEF Commit, provider
<1>27. ASSUME NEW a \in Actors, Probe(a) PROVE Still
  BY <1>0, <1>27, RowStates, CasNonterminal DEF Probe, provider
<1>28. ASSUME NEW a \in Actors, ProbeUploads(a) PROVE Still
  BY <1>0, <1>28, RowStates, CasNonterminal DEF ProbeUploads, provider
<1>29. ASSUME NEW a \in Actors, ConfirmRead(a) PROVE Still
  BY <1>0, <1>29, RowStates, CasNonterminal DEF ConfirmRead, provider
<1>30. ASSUME NEW a \in Actors, ConfirmWrite(a) PROVE Still
  BY <1>0, <1>30, RowStates, CasNonterminal DEF ConfirmWrite, provider
<1>31. ASSUME NEW a \in Actors, Cleanup(a) PROVE Still
  BY <1>0, <1>31, RowStates, CasNonterminal DEF Cleanup, provider
<1>32. ASSUME NEW a \in Actors, FinishAbort(a) PROVE Still
  BY <1>0, <1>32, RowStates, CasNonterminal DEF FinishAbort, provider
<1>33. ASSUME NEW a \in Actors, Fail(a) PROVE Still
  BY <1>0, <1>33, RowStates, CasNonterminal DEF Fail, provider
<1>34. ASSUME NEW a \in Actors, Renew(a) PROVE Still
  BY <1>0, <1>34, RowStates, CasNonterminal DEF Renew, provider
<1>35. ASSUME NEW r \in Reconcilers, ClaimRead(r) PROVE Still
  BY <1>0, <1>35, RowStates, CasNonterminal DEF ClaimRead, provider
<1>36. ASSUME NEW r \in Reconcilers, ClaimWrite(r) PROVE Still
  BY <1>0, <1>36, RowStates, CasNonterminal DEF ClaimWrite, provider
<1>37. ASSUME NEW r \in Reconcilers, Recover(r) PROVE Still
  BY <1>0, <1>37, RowStates, CasNonterminal DEF Recover, provider
<1>38. ASSUME NEW r \in Reconcilers, Begin(r) PROVE Still
  BY <1>0, <1>38, RowStates, CasNonterminal DEF Begin, provider
<1>39. ASSUME NEW r \in Reconcilers, SettleTerminal(r) PROVE Still
  BY <1>0, <1>39, RowStates, CasNonterminal DEF SettleTerminal, provider
<1>40. CASE ExpireUpload
  BY <1>0, <1>40, RowStates DEF ExpireUpload
<1>41. CASE Tick
  BY <1>0, <1>41, RowStates DEF Tick
<1>42. CASE UNCHANGED vars
  BY <1>0, <1>42, RowStates DEF vars
<1> QED
  BY <1>1, <1>2, <1>3, <1>4, <1>5, <1>6, <1>7, <1>8, <1>9, <1>10, <1>11, <1>12, <1>13, <1>14,
     <1>15, <1>16, <1>17, <1>18, <1>19, <1>20, <1>21, <1>22, <1>23, <1>24, <1>25, <1>26,
     <1>27, <1>28, <1>29, <1>30, <1>31, <1>32, <1>33, <1>34, <1>35, <1>36, <1>37, <1>38,
     <1>39, <1>40, <1>41, <1>42
  DEF Next, SinkNext, CallNext, ReconcilerNext

\* Every step of the detailed write is a step of the abstract one, or none.
LEMMA AtomicStep ==
    ASSUME IInv, IInv', CommittedVersionSurvives, CommittedVersionSurvives', [Next]_vars,
           \A f \in flights : Land(f) /\ versions # {} => versions' # {}
    PROVE  [Abstract!Next]_<<Outcome, versions # {}>>
<1>0. /\ TypeOK
      /\ row.state = "ProvenAborted" => versions = {}
      /\ row'.state = "ProvenAborted" => versions' = {}
  BY DEF IInv, DeadInv, Abandoned, Dead
<1>1. /\ row.state = "Committed" => versions # {}
      /\ row'.state = "Committed" => versions' # {}
  BY DEF CommittedVersionSurvives, Ids
<1>2. ASSUME NEW f \in flights, Land(f) PROVE [Abstract!Next]_<<Outcome, versions # {}>>
  <2>1. row' = row /\ (versions # {} => versions' # {})
    BY <1>2 DEF Land
  <2>2. Outcome' = Outcome
    BY <2>1 DEF Outcome
  <2>3. CASE (versions' # {}) = (versions # {})
    BY <2>2, <2>3
  <2>4. CASE versions = {} /\ versions' # {}
    <3>1. Outcome # "aborted"
      BY <1>0, <2>1, <2>4 DEF Outcome
    <3> QED BY <2>2, <2>4, <3>1 DEF Abstract!Next, Abstract!Appear
  <2> QED BY <2>1, <2>3, <2>4
<1>3. CASE UNCHANGED versions /\ (row.state \in Terminal => row'.state = row.state)
  <2>1. (versions' # {}) = (versions # {})
    BY <1>3
  <2>2. CASE Outcome' = Outcome
    BY <2>1, <2>2
  <2>3. CASE Outcome' # Outcome
    <3>1. Outcome = "pending"
      BY <1>3, <2>3 DEF Outcome, Terminal
    <3>2. CASE row'.state = "Committed"
      <4>1. Outcome' = "committed" /\ versions # {}
        BY <1>1, <1>3, <3>2 DEF Outcome
      <4> QED BY <2>1, <3>1, <4>1 DEF Abstract!Next, Abstract!Commit
    <3>3. CASE row'.state = "ProvenAborted"
      <4>1. Outcome' = "aborted" /\ versions = {}
        BY <1>0, <1>3, <3>3 DEF Outcome
      <4> QED BY <2>1, <3>1, <4>1 DEF Abstract!Next, Abstract!Abort
    <3> QED BY <2>3, <3>1, <3>2, <3>3 DEF Outcome
  <2> QED BY <2>2, <2>3
<1> QED BY <1>0, <1>2, <1>3, StepKinds

\* The detailed write, with its retries, lost replies, late effects, crashes and
\* takeovers, implements the atomic write under the same conditions.
THEOREM WritesAreAtomic ==
    ASSUME Exact => ~LateDeletes /\ ~Pauses PROVE Spec => ImplementsAtomicWrite
<1>1. Init => Abstract!Init
  BY DEF Init, IntentRow, Outcome, Abstract!Init
<1>2. Spec => []CommittedVersionSurvives
  BY CommitsSurvive
<1>3. CASE ~Exact
  <2>1. IInv /\ IInv' /\ PlainInv /\ CommittedVersionSurvives /\ CommittedVersionSurvives' /\ [Next]_vars
           => [Abstract!Next]_<<Outcome, versions # {}>>
    <3> SUFFICES ASSUME IInv, IInv', PlainInv, CommittedVersionSurvives, CommittedVersionSurvives', [Next]_vars
                 PROVE  [Abstract!Next]_<<Outcome, versions # {}>>
      OBVIOUS
    <3>1. \A f \in flights : Land(f) /\ versions # {} => versions' # {}
      BY ObjectStays DEF IInv
    <3> QED BY <3>1, AtomicStep
  <2>2. Spec => []PlainInv
    BY <1>3, PlainInvariance
  <2> QED BY <1>1, <1>2, <2>1, <2>2, Invariance, PTL DEF Spec, ImplementsAtomicWrite, Abstract!Spec
<1>4. CASE Exact
  <2>1. IInv /\ IInv' /\ ExactInv /\ CommittedVersionSurvives /\ CommittedVersionSurvives' /\ [Next]_vars
           => [Abstract!Next]_<<Outcome, versions # {}>>
    <3> SUFFICES ASSUME IInv, IInv', ExactInv, CommittedVersionSurvives, CommittedVersionSurvives', [Next]_vars
                 PROVE  [Abstract!Next]_<<Outcome, versions # {}>>
      OBVIOUS
    <3>1. \A f \in flights : Land(f) /\ versions # {} => versions' # {}
      BY ExactLand DEF IInv
    <3> QED BY <3>1, AtomicStep
  <2>2. Spec => []ExactInv
    BY <1>4, ExactInvariance
  <2> QED BY <1>1, <1>2, <2>1, <2>2, Invariance, PTL DEF Spec, ImplementsAtomicWrite, Abstract!Spec
<1> QED BY <1>3, <1>4
=============================================================================
