----------------------------- MODULE Paging_proofs -----------------------------
(***************************************************************************)
(* Proofs about Paging, for every page size and any number of messages.    *)
(*                                                                         *)
(* The invariant says what a fetch has between two of its pages: every     *)
(* matching row from its bound up to the highest row it read, and up to    *)
(* the newest row there was when it began.  Rows that arrive later are     *)
(* above both, because ids commit in order.                                *)
(***************************************************************************)
EXTENDS Paging, TLAPS

\* Every matching row above the lower bound is read, up to j.
ReadUpTo(j, bound) == \A i \in rows : cursor < i /\ bound <= i /\ i <= j => i \in collected

\* What the fetch has if it read down to the given bound.
ReadDownTo(bound) ==
    /\ ReadUpTo(start, bound)
    /\ \A j \in collected : ReadUpTo(j, bound)

Fetch ==
    /\ pc = "paging" /\ before = NoBound => collected = {}
    /\ pc = "paging" /\ before # NoBound => ReadDownTo(before)
    /\ pc = "done" => ReadDownTo(0)

PagingInv == TypeOK /\ Fetch /\ CursorPassesNothing

USE PageSizeAssumption, MaxMessagesAssumption

\* Nothing has been posted or read at first.
LEMMA PagingInitially == Init => PagingInv
  BY DEF Init, PagingInv, TypeOK, Fetch, CursorPassesNothing, NoBound

\* A page leaves nothing out between its lowest row and the rows read before it,
\* and nothing at all if it is short.
LEMMA PageReads ==
  ASSUME PagingInv, pc = "paging",
         NEW page \in SUBSET Matching, IsPage(page, Matching),
         collected' = collected \cup page,
         UNCHANGED <<rows, cursor, start>>
  PROVE  /\ page = Matching => ReadDownTo(0)'
         /\ \A lowest \in page :
               (\A i \in page : lowest <= i) =>
                  /\ ReadDownTo(lowest)'
                  /\ NothingBelow(lowest) => ReadDownTo(0)'
  <1>1. /\ rows \subseteq Nat /\ collected \subseteq rows /\ cursor \in Nat /\ start \in Nat
        /\ before \in Nat
    BY DEF PagingInv, TypeOK
  <1>2. \A i \in rows : cursor < i => i \in Matching \/ (before # NoBound /\ before <= i)
    BY <1>1 DEF Matching
  <1>3. \A i \in rows, j \in rows :
           cursor < i /\ i <= j /\ (j \in collected \/ j <= start)
           /\ before # NoBound /\ before <= i => i \in collected
    BY <1>1 DEF PagingInv, Fetch, ReadDownTo, ReadUpTo
  <1>4. before = NoBound => collected = {}
    BY DEF PagingInv, Fetch
  <1>5. page = Matching => ReadDownTo(0)'
    <2>1. SUFFICES ASSUME page = Matching, NEW i \in rows, cursor < i,
                          i <= start \/ \E j \in collected' : i <= j
                   PROVE  i \in collected'
      BY DEF ReadDownTo, ReadUpTo
    <2>2. CASE i \in Matching
      BY <2>1, <2>2
    <2>3. CASE before # NoBound /\ before <= i
      <3>1. CASE i <= start
        BY <1>1, <2>1, <2>3, <3>1 DEF PagingInv, Fetch, ReadDownTo, ReadUpTo
      <3>2. ASSUME NEW j \in collected, i <= j PROVE i \in collected
        BY <1>1, <1>3, <2>1, <2>3, <3>2
      <3>3. ASSUME NEW j \in page, i <= j PROVE FALSE
        BY <1>1, <2>1, <2>3, <3>3 DEF Matching
      <3> QED
        BY <2>1, <3>1, <3>2, <3>3
    <2> QED
      BY <1>2, <2>1, <2>2, <2>3
  <1>6. ASSUME NEW lowest \in page, \A i \in page : lowest <= i
        PROVE  ReadDownTo(lowest)'
    <2>1. SUFFICES ASSUME NEW i \in rows, cursor < i, lowest <= i,
                          i <= start \/ \E j \in collected' : i <= j
                   PROVE  i \in collected'
      BY DEF ReadDownTo, ReadUpTo
    <2>2. CASE i \in Matching
      <3>1. lowest \in Nat /\ i \in Nat
        BY <1>1, <1>6 DEF Matching
      <3>2. i \in page
        BY <2>1, <2>2, <3>1 DEF IsPage
      <3> QED
        BY <3>2
    <2>3. CASE before # NoBound /\ before <= i
      <3>1. CASE i <= start
        BY <1>1, <2>1, <2>3, <3>1 DEF PagingInv, Fetch, ReadDownTo, ReadUpTo
      <3>2. ASSUME NEW j \in collected, i <= j PROVE i \in collected
        BY <1>1, <1>3, <2>1, <2>3, <3>2
      <3>3. ASSUME NEW j \in page, i <= j PROVE FALSE
        BY <1>1, <2>1, <2>3, <3>3 DEF Matching
      <3> QED
        BY <2>1, <3>1, <3>2, <3>3
    <2> QED
      BY <1>2, <2>1, <2>2, <2>3
  <1>7. ASSUME NEW lowest \in page, \A i \in page : lowest <= i, NothingBelow(lowest)
        PROVE  ReadDownTo(0)'
    <2>1. lowest \in Nat /\ lowest > cursor /\ (before # NoBound => lowest < before)
      BY <1>1, <1>7 DEF Matching
    <2>2. lowest = cursor + 1
      BY <1>1, <1>7, <2>1 DEF NothingBelow, NoBound
    <2>3. \A i \in rows : cursor < i => lowest <= i
      BY <1>1, <2>2
    <2>4. ReadDownTo(lowest)'
      BY <1>6, <1>7
    <2> QED
      BY <2>3, <2>4 DEF ReadDownTo, ReadUpTo
  <1> QED
    BY <1>5, <1>6, <1>7

\* A request keeps the invariant.
LEMMA FetchPageKeeps == PagingInv /\ FetchPage => PagingInv'
  <1> SUFFICES ASSUME PagingInv, FetchPage PROVE PagingInv'
    OBVIOUS
  <1>1. PICK page \in SUBSET Matching :
          /\ IsPage(page, Matching)
          /\ collected' = collected \cup page
          /\ \/ /\ Cardinality(page) < PageSize
                /\ pc' = "done" /\ before' = before
             \/ /\ Cardinality(page) = PageSize
                /\ \E lowest \in page :
                      /\ \A i \in page : lowest <= i
                      /\ IF NothingBelow(lowest)
                         THEN pc' = "done" /\ before' = before
                         ELSE pc' = pc /\ before' = NextBefore(lowest)
    BY DEF FetchPage
  <1>2. pc = "paging" /\ UNCHANGED <<newest, rows, cursor, start, seen>>
    BY DEF FetchPage
  <1>3. page \subseteq rows
    BY DEF Matching
  <1>4. CursorPassesNothing'
    BY <1>2 DEF PagingInv, CursorPassesNothing
  <1>5. CASE Cardinality(page) < PageSize /\ pc' = "done" /\ before' = before
    <2>1. page = Matching
      BY <1>1, <1>5 DEF IsPage
    <2>2. ReadDownTo(0)'
      BY <1>1, <1>2, <2>1, PageReads
    <2> QED
      BY <1>1, <1>2, <1>3, <1>4, <1>5, <2>2 DEF PagingInv, TypeOK, Fetch
  <1>6. ASSUME NEW lowest \in page, \A i \in page : lowest <= i,
               IF NothingBelow(lowest)
               THEN pc' = "done" /\ before' = before
               ELSE pc' = pc /\ before' = NextBefore(lowest)
        PROVE  PagingInv'
    <2>1. lowest \in 1..newest
      BY <1>3 DEF PagingInv, TypeOK
    <2>2. ReadDownTo(lowest)' /\ (NothingBelow(lowest) => ReadDownTo(0)')
      BY <1>1, <1>2, <1>6, PageReads
    <2>3. TypeOK'
      BY <1>1, <1>2, <1>3, <1>6, <2>1 DEF PagingInv, TypeOK, NextBefore
    <2>4. CASE NothingBelow(lowest)
      BY <1>4, <1>6, <2>2, <2>3, <2>4 DEF PagingInv, Fetch
    <2>5. CASE ~NothingBelow(lowest)
      <3>1. pc' = "paging" /\ before' = lowest /\ before' # NoBound
        BY <1>2, <1>6, <2>1, <2>5 DEF NextBefore, NoBound
      <3>2. ReadDownTo(before)'
        BY <1>2, <2>2, <3>1 DEF ReadDownTo, ReadUpTo
      <3> QED
        BY <1>4, <2>3, <3>1, <3>2 DEF PagingInv, Fetch
    <2> QED
      BY <2>4, <2>5
  <1> QED
    BY <1>1, <1>5, <1>6

\* Moving the cursor keeps the invariant: the rows it passes were all read.
LEMMA MoveCursorKeeps == PagingInv /\ MoveCursor => PagingInv'
  <1> SUFFICES ASSUME PagingInv, MoveCursor PROVE PagingInv'
    OBVIOUS
  <1> USE DEF PagingInv
  <1>1. CASE collected = {} /\ cursor' = cursor
    BY <1>1 DEF MoveCursor, TypeOK, Fetch, CursorPassesNothing
  <1>2. ASSUME NEW highest \in collected, cursor' = CursorAfter(highest)
        PROVE  PagingInv'
    <2>1. cursor' = highest /\ highest \in rows /\ highest \in 1..newest
      BY <1>2 DEF CursorAfter, TypeOK
    <2>2. \A i \in rows : cursor < i /\ i <= highest => i \in collected
      BY <1>2, <2>1 DEF MoveCursor, Fetch, ReadDownTo, ReadUpTo, TypeOK
    <2>3. CursorPassesNothing'
      BY <2>1, <2>2 DEF MoveCursor, CursorPassesNothing, TypeOK
    <2> QED
      BY <2>1, <2>3 DEF MoveCursor, TypeOK, Fetch
  <1> QED
    BY <1>1, <1>2 DEF MoveCursor

\* A message that arrives is above every bound of the invariant.
LEMMA PostKeeps == PagingInv /\ PostMessage => PagingInv'
  <1> SUFFICES ASSUME PagingInv, PostMessage PROVE PagingInv'
    OBVIOUS
  <1>1. /\ rows \subseteq 1..newest /\ collected \subseteq 1..newest
        /\ start \in 0..newest /\ cursor \in 0..newest /\ newest \in Nat
    BY DEF PagingInv, TypeOK
  <1>2. /\ rows' \subseteq rows \cup {newest + 1} /\ rows \subseteq rows'
        /\ newest' = newest + 1
        /\ UNCHANGED <<cursor, start, before, collected, pc, seen>>
    BY DEF PostMessage
  <1>3. TypeOK'
    BY <1>1, <1>2 DEF PagingInv, TypeOK
  <1>4. ASSUME NEW bound, ReadDownTo(bound) PROVE ReadDownTo(bound)'
    BY <1>1, <1>2, <1>4 DEF ReadDownTo, ReadUpTo
  <1>5. Fetch'
    BY <1>2, <1>4 DEF PagingInv, Fetch, ReadDownTo, ReadUpTo
  <1>6. CursorPassesNothing'
    BY <1>1, <1>2 DEF PagingInv, CursorPassesNothing
  <1> QED
    BY <1>3, <1>5, <1>6 DEF PagingInv

\* Every step of the client and of those who post keeps the invariant.
LEMMA PagingInductive == PagingInv /\ [Next]_vars => PagingInv'
  <1> SUFFICES ASSUME PagingInv, [Next]_vars PROVE PagingInv'
    OBVIOUS
  <1>1. CASE BeginFetch
    BY <1>1 DEF BeginFetch, PagingInv, TypeOK, Fetch, CursorPassesNothing, NoBound
  <1>2. CASE FetchFails
    BY <1>2 DEF FetchFails, PagingInv, TypeOK, Fetch, CursorPassesNothing
  <1>3. CASE UNCHANGED vars
    BY <1>3 DEF vars, PagingInv, TypeOK, Fetch, CursorPassesNothing, ReadDownTo, ReadUpTo
  <1> QED
    BY <1>1, <1>2, <1>3, PostKeeps, FetchPageKeeps, MoveCursorKeeps DEF Next

\* What a fetch has between two of its pages, in every reachable state: the
\* inductive invariant behind the next two theorems.
THEOREM PagingInvariant == Spec => []PagingInv
  BY PagingInitially, PagingInductive, PTL DEF Spec

\* A fetch returns every row that was there when it began, whatever is posted
\* between its pages: the lookup before a reply finds a reply that is there.
THEOREM FetchIsComplete == Spec => []FetchFindsWhatWasThere
  <1>1. PagingInv => FetchFindsWhatWasThere
    BY DEF PagingInv, TypeOK, Fetch, ReadDownTo, ReadUpTo, FetchFindsWhatWasThere
  <1> QED
    BY <1>1, PagingInvariant, PTL

\* The cursor passes no row the client was not given: no request of the thread
\* is skipped, however the posts fall between the pages.
THEOREM NoRowIsPassed == Spec => []CursorPassesNothing
  <1>1. PagingInv => CursorPassesNothing
    BY DEF PagingInv
  <1> QED
    BY <1>1, PagingInvariant, PTL
=============================================================================
