----------------------------- MODULE ListCursors -----------------------------
(* The managed authority's list cursors: a page that has been listed is kept
   under a cursor with its query, its position and the epoch it was read in, and
   the page after it under the cursor's only successor, so that a client that
   repeats a request is given the same page again.

   Clients repeat their requests concurrently.  The memory repository finds or
   creates the successor under its lock; the database repository looks for it,
   creates a cursor in a transaction of its own and links it to its predecessor
   with an update, which the unique column decides and a trigger refuses. *)
EXTENDS Naturals, FiniteSets

CONSTANTS
  CursorIds,     \* cursors that may be created
  CursorClients,
  CursorLimit    \* MANAGED_LIST_CURSOR_WORKSPACE_LIMIT

\* 0 is the predecessor of a cursor that has none.
CursorAssumption == IsFiniteSet(CursorIds) /\ 0 \notin CursorIds /\ CursorLimit \in Nat

VARIABLES
  cursorStore,  \* "memory" or "database"
  cursor,       \* the cursors
  routing,      \* the namespace: its routing epoch and whether it is active
  replay        \* the clients that continue from a cursor

cursorVars == <<cursorStore, cursor, routing, replay>>

NoCursor == [state |-> "none", page |-> 0, epoch |-> 0, expired |-> FALSE, pred |-> 0]
Gone == [NoCursor EXCEPT !.state = "gone"]   \* ids are random and not used twice
NoReplay == [phase |-> "idle", from |-> 0, page |-> 0, made |-> 0, result |-> 0]

CursorInit ==
  /\ cursorStore \in {"memory", "database"}
  /\ cursor = [c \in CursorIds |-> NoCursor]
  /\ routing = [epoch |-> 1, active |-> TRUE]
  /\ replay = [p \in CursorClients |-> NoReplay]

Stored(c) == cursor[c].state \in {"ACTIVE", "USED"}
Live == {c \in CursorIds : Stored(c) /\ ~ cursor[c].expired}
Unused == {c \in CursorIds : cursor[c] = NoCursor}
NextId == CHOOSE c \in Unused : TRUE
SuccessorsOf(c) == {d \in CursorIds : Stored(d) /\ cursor[d].pred = c}

\* create_list_cursor: in one serializable transaction, or under the lock.
CursorRefused == ~ routing.active \/ Cardinality(Live) >= CursorLimit

NewCursor(page, pred) ==
  [state |-> "ACTIVE", page |-> page, epoch |-> routing.epoch, expired |-> FALSE, pred |-> pred]

\* A row, and by its foreign key everything that succeeds it.
Chain(c) ==
  {d \in CursorIds :
     \A S \in SUBSET CursorIds : c \in S /\ (\A e \in S : SuccessorsOf(e) \subseteq S) => d \in S}

WithoutChain(c) == [d \in CursorIds |-> IF d \in Chain(c) THEN Gone ELSE cursor[d]]

\* The first page of a listing.
CreateListCursor ==
  /\ ~ CursorRefused /\ Unused # {}
  /\ cursor' = [cursor EXCEPT ![NextId] = NewCursor(1, 0)]
  /\ UNCHANGED <<cursorStore, routing, replay>>

\* use_list_cursor: an expired cursor, or one of another epoch, is removed; the
\* others are marked used and their page is returned.
Current(c) == ~ cursor[c].expired /\ cursor[c].epoch = routing.epoch

UseListCursor(p, c) ==
  /\ replay[p].phase = "idle" /\ Stored(c) /\ routing.active
  /\ IF Current(c)
     THEN /\ cursor' = [cursor EXCEPT ![c].state = "USED"]
          /\ replay' = [replay EXCEPT ![p] = [NoReplay EXCEPT !.phase = "find", !.from = c,
                                                            !.page = cursor[c].page + 1]]
     ELSE /\ cursor' = WithoutChain(c)
          /\ UNCHANGED replay
  /\ UNCHANGED <<cursorStore, routing>>

Answered(p, result) ==
  replay' = [replay EXCEPT ![p].phase = "answered", ![p].result = result]
Failed(p, why) == replay' = [replay EXCEPT ![p].phase = why]

\* The successor that is there already: the same page, if it is still current.
AcceptSuccessor(p) ==
  LET d == CHOOSE d \in SuccessorsOf(replay[p].from) : TRUE
  IN IF Current(d) THEN Answered(p, d) ELSE Failed(p, "expired")

\* The memory repository's create_list_cursor_successor.
MemorySuccessor(p) ==
  LET from == replay[p].from
  IN /\ cursorStore = "memory" /\ replay[p].phase = "find"
     /\ IF SuccessorsOf(from) # {} THEN AcceptSuccessor(p) /\ UNCHANGED cursor
        ELSE IF CursorRefused THEN Failed(p, "refused") /\ UNCHANGED cursor
        ELSE /\ Unused # {}
             /\ cursor' = [cursor EXCEPT ![NextId] = NewCursor(replay[p].page, from)]
             /\ Answered(p, NextId)
     /\ UNCHANGED <<cursorStore, routing>>

\* The database repository's: look for one,
FindSuccessor(p) ==
  /\ cursorStore = "database" /\ replay[p].phase = "find"
  /\ IF SuccessorsOf(replay[p].from) # {} THEN AcceptSuccessor(p)
     ELSE replay' = [replay EXCEPT ![p].phase = "create"]
  /\ UNCHANGED <<cursorStore, cursor, routing>>

\* create a cursor without predecessor,
CreateUnlinked(p) ==
  /\ replay[p].phase = "create"
  /\ IF CursorRefused THEN Failed(p, "refused") /\ UNCHANGED cursor
     ELSE /\ Unused # {}
          /\ cursor' = [cursor EXCEPT ![NextId] = NewCursor(replay[p].page, 0)]
          /\ replay' = [replay EXCEPT ![p].phase = "link", ![p].made = NextId]
  /\ UNCHANGED <<cursorStore, routing>>

\* and link it.  s4_managed_cursor_payload_immutable refuses every update that
\* changes predecessor_cursor_id.
LinkAccepted(c) == FALSE

LinkSuccessor(p) ==
  /\ replay[p].phase = "link"
  /\ IF LinkAccepted(replay[p].made)
     THEN /\ cursor' = [cursor EXCEPT ![replay[p].made].pred = replay[p].from]
          /\ Answered(p, replay[p].made)
     ELSE /\ replay' = [replay EXCEPT ![p].phase = "unlinked"]
          /\ UNCHANGED cursor
  /\ UNCHANGED <<cursorStore, routing>>

\* The cursor that could not be linked is deleted (the deletion may fail) and
\* the winner's is looked for.
DropUnlinked(p) ==
  /\ replay[p].phase = "unlinked"
  /\ cursor' \in {cursor, WithoutChain(replay[p].made)}
  /\ replay' = [replay EXCEPT ![p].phase = "again"]
  /\ UNCHANGED <<cursorStore, routing>>

FindAgain(p) ==
  /\ replay[p].phase = "again"
  /\ IF SuccessorsOf(replay[p].from) # {} THEN AcceptSuccessor(p) ELSE Failed(p, "unavailable")
  /\ UNCHANGED <<cursorStore, cursor, routing>>

\* The client's next request.
NextReplay(p) ==
  /\ replay[p].phase \notin {"idle", "find", "create", "link", "unlinked", "again"}
  /\ replay' = [replay EXCEPT ![p] = NoReplay]
  /\ UNCHANGED <<cursorStore, cursor, routing>>

DeleteListCursor(c) ==
  /\ Stored(c) /\ cursor' = WithoutChain(c)
  /\ UNCHANGED <<cursorStore, routing, replay>>

\* The cursor's time to live passes.
ExpireCursor(c) ==
  /\ Stored(c) /\ ~ cursor[c].expired
  /\ cursor' = [cursor EXCEPT ![c].expired = TRUE]
  /\ UNCHANGED <<cursorStore, routing, replay>>

CleanupExpired(c) ==
  /\ Stored(c) /\ cursor[c].expired /\ cursor' = WithoutChain(c)
  /\ UNCHANGED <<cursorStore, routing, replay>>

\* advance_routing_epoch, or a purge; cursors of the purged namespace go with it.
AdvanceRouting ==
  /\ routing.epoch = 1 /\ routing.active
  /\ routing' \in {[routing EXCEPT !.epoch = 2], [routing EXCEPT !.active = FALSE]}
  /\ cursor' = IF routing'.active THEN cursor ELSE [c \in CursorIds |-> IF Stored(c) THEN Gone ELSE cursor[c]]
  /\ UNCHANGED <<cursorStore, replay>>

CursorStep(p) ==
  \/ MemorySuccessor(p) \/ FindSuccessor(p) \/ CreateUnlinked(p) \/ LinkSuccessor(p)
  \/ DropUnlinked(p) \/ FindAgain(p) \/ NextReplay(p)

CursorNext ==
  \/ CreateListCursor \/ AdvanceRouting
  \/ \E p \in CursorClients, c \in CursorIds : UseListCursor(p, c)
  \/ \E p \in CursorClients : CursorStep(p)
  \/ \E c \in CursorIds : DeleteListCursor(c) \/ ExpireCursor(c) \/ CleanupExpired(c)

CursorSpec == CursorInit /\ [][CursorNext]_cursorVars

-----------------------------------------------------------------------------
(* managed.rs, create_list_cursor_successor: "Create the next cached page exactly
   once for a cursor replay.  Concurrent uses converge on the same successor row and
   therefore the same token."  A client that continues from a cursor, which still
   stands and is current, is not turned away without a successor. *)
SuccessorGiven ==
  \A p \in CursorClients :
    replay[p].phase = "unavailable" =>
      ~ (routing.active /\ Stored(replay[p].from) /\ Current(replay[p].from))
=============================================================================
