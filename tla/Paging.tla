-------------------------------- MODULE Paging --------------------------------
(***************************************************************************)
(* How a client reads everything newer than a cursor                       *)
(* (fetch_messages_since() of dispatcher/commit_review.py) from a service  *)
(* that answers with pages of the newest rows first (GET /v1/messages),    *)
(* while others keep posting; and how the dispatcher moves its cursor over *)
(* what it read.  Dispatcher takes a whole fetch as one step: this module  *)
(* is why it may.                                                          *)
(***************************************************************************)
EXTENDS Integers, FiniteSets

CONSTANTS
    PageSize,    \* the limit of a request
    MaxMessages  \* bound: messages posted, in any thread

ASSUME PageSizeAssumption == PageSize \in Nat \ {0}
ASSUME MaxMessagesAssumption == MaxMessages \in Nat

VARIABLES
    newest,     \* the newest message id
    rows,       \* the ids that match the client's thread and participant
    cursor,     \* since_id of the fetch
    start,      \* the newest message id when the fetch began
    before,     \* before_id of the next request, NoBound for none
    collected,  \* the rows read so far
    pc,         \* "idle", "paging", or "done" with a fetch
    seen        \* everything the client has ever been given

vars == <<newest, rows, cursor, start, before, collected, pc, seen>>

NoBound == 0

\* SQLite commits messages in the order of their ids.
PostMessage ==
    /\ newest < MaxMessages
    /\ newest' = newest + 1
    /\ rows' = rows \/ rows' = rows \cup {newest + 1}
    /\ UNCHANGED <<cursor, start, before, collected, pc, seen>>

BeginFetch ==
    /\ pc = "idle" /\ pc' = "paging"
    /\ start' = newest /\ before' = NoBound /\ collected' = {}
    /\ UNCHANGED <<newest, rows, cursor, seen>>

\* The WHERE clause of a request.
Matching == {i \in rows : i > cursor /\ (before # NoBound => i < before)}

\* ORDER BY id DESC LIMIT PageSize
IsPage(page, S) ==
    /\ page \subseteq S
    /\ \A i \in page, j \in S \ page : i > j
    /\ Cardinality(page) = PageSize \/ (Cardinality(page) < PageSize /\ page = S)

\* Mutant: before_id is taken to include its row.
NextBefore_Inclusive(lowest) == lowest - 1

\* before_id excludes the rows it names, so it is the lowest one read.
NextBefore(lowest) == lowest

\* No row is left below the page.
NothingBelow(lowest) == lowest <= cursor + 1 \/ lowest = before

\* One request: a short page is the last.
FetchPage ==
    /\ pc = "paging"
    /\ \E page \in SUBSET Matching :
          /\ IsPage(page, Matching)
          /\ collected' = collected \cup page
          /\ \/ /\ Cardinality(page) < PageSize
                /\ pc' = "done" /\ before' = before
             \/ /\ Cardinality(page) = PageSize
                /\ \E lowest \in page :
                      /\ \A i \in page : lowest <= i
                      /\ IF NothingBelow(lowest)
                         THEN pc' = "done" /\ before' = before
                         ELSE pc' = pc /\ before' = NextBefore(lowest)
    /\ UNCHANGED <<newest, rows, cursor, start, seen>>

\* A request fails: what was read is thrown away.
FetchFails ==
    /\ pc = "paging" /\ pc' = "idle"
    /\ collected' = {}
    /\ UNCHANGED <<newest, rows, cursor, start, before, seen>>

\* Mutant: the cursor moves to the newest message of the service.
CursorAfter_Newest(highest) == newest

\* since_id excludes the row it names.
CursorAfter(highest) == highest

\* poll_into_state(): everything that was read is enqueued.
MoveCursor ==
    /\ pc = "done" /\ pc' = "idle"
    /\ seen' = seen \cup collected
    /\ \/ collected = {} /\ cursor' = cursor
       \/ \E highest \in collected :
             /\ \A i \in collected : i <= highest
             /\ cursor' = CursorAfter(highest)
    /\ UNCHANGED <<newest, rows, start, before, collected>>

Init ==
    /\ newest = 0 /\ rows = {}
    /\ cursor = 0 /\ start = 0 /\ before = NoBound
    /\ collected = {} /\ pc = "idle" /\ seen = {}

Next == PostMessage \/ BeginFetch \/ FetchPage \/ FetchFails \/ MoveCursor

Spec == Init /\ [][Next]_vars

-----------------------------------------------------------------------------
(* Properties.                                                             *)

\* Cursors and bounds name messages that exist, and only rows that match are read.
TypeOK ==
    /\ newest \in Nat
    /\ rows \subseteq 1..newest
    /\ cursor \in 0..newest /\ start \in 0..newest /\ before \in 0..newest
    /\ collected \subseteq rows /\ seen \subseteq rows
    /\ pc \in {"idle", "paging", "done"}

\* A fetch returns every row that was there when it began, so that a reply that
\* has been posted is found by whoever looks for it.
FetchFindsWhatWasThere ==
    pc = "done" => \A i \in rows : cursor < i /\ i <= start => i \in collected

\* The cursor passes no row the client was not given, though rows arrive between
\* the pages of a fetch and are not in it.
CursorPassesNothing == \A i \in rows : i <= cursor => i \in seen
=============================================================================
