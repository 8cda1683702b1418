---------------------------- MODULE Summary_proofs ----------------------------
(***************************************************************************)
(* Proofs about Summary, for any number of threads, stewards, messages,    *)
(* revisions and task events, any batch limit, and any contract of drafts. *)
(*                                                                         *)
(* Everything a publication reads is either append-only or compared with   *)
(* the head of its thread, so the invariants are about revisions by id: a  *)
(* thread's head is its newest revision, and what a revision was written   *)
(* from is still there.                                                    *)
(***************************************************************************)
EXTENDS Summary, FiniteSetTheorems, SequenceTheorems, WellFoundedInduction, TLAPS

-----------------------------------------------------------------------------
(* Sequences and finite sets.                                              *)

\* A sequence with an element added at its end.
LEMMA Appended ==
    ASSUME NEW S, NEW s \in Seq(S), NEW x \in S, NEW t, t = Append(s, x)
    PROVE  /\ t \in Seq(S) /\ Len(t) = Len(s) + 1 /\ Len(s) \in Nat
           /\ \A i \in 1..Len(s) : t[i] = s[i] /\ t[i] \in S /\ s[i] \in S
           /\ t[Len(s) + 1] = x
BY AppendProperties, LenProperties, ElementOfSeq

\* Of finitely many sets, one has none of the others inside it.
LEMMA SmallestSet ==
    ASSUME NEW S, IsFiniteSet(S), NEW T, T \subseteq SUBSET S, T # {}
    PROVE  \E x \in T : \A y \in T : ~(y \subseteq x /\ y # x)
<1>1. T \subseteq FiniteSubsetsOf(S)
  BY FS_Subset DEF FiniteSubsetsOf
<1>2. \E x \in T : \A y \in T : ~(<<y, x>> \in StrictSubsetOrdering(S))
  BY <1>1, FS_StrictSubsetOrderingWellFounded, WFMin
<1>3. \A x, y \in SUBSET S : <<y, x>> \in StrictSubsetOrdering(S) <=> y \subseteq x /\ x # y
  BY DEF StrictSubsetOrdering
<1> QED BY <1>2, <1>3

\* A set of natural numbers has a least element.
LEMMA Least ==
    ASSUME NEW T, T \subseteq Nat, T # {}
    PROVE  \E n \in T : \A m \in T : n <= m
<1>1. PICK b \in T : TRUE
  OBVIOUS
<1> DEFINE Below == {0..n : n \in {m \in T : m <= b}}
<1>2. /\ Below \subseteq SUBSET (0..b)
      /\ Below # {}
      /\ IsFiniteSet(0..b)
  <2>1. Below \subseteq SUBSET (0..b)
    BY <1>1
  <2>2. 0..b \in Below
    BY <1>1
  <2>3. IsFiniteSet(0..b)
    BY <1>1, FS_Interval
  <2> QED BY <2>1, <2>2, <2>3
<1>3. \E x \in Below : \A y \in Below : ~(y \subseteq x /\ y # x)
  <2>1. PICK S : S = 0..b
    OBVIOUS
  <2>2. Below \subseteq SUBSET S /\ Below # {} /\ IsFiniteSet(S)
    <3> HIDE DEF Below
    <3> QED BY <1>2, <2>1
  <2> HIDE DEF Below
  <2> QED BY <2>2, SmallestSet
<1>4. PICK x \in Below : \A y \in Below : ~(y \subseteq x /\ y # x)
  BY <1>3
<1>5. PICK n \in T : n <= b /\ x = 0..n
  BY <1>4
<1>6. ASSUME NEW m \in T, m < n
      PROVE  FALSE
  <2>1. 0..m \in Below
    BY <1>1, <1>5, <1>6
  <2>2. 0..m \subseteq x /\ 0..m # x
    BY <1>5, <1>6
  <2> QED BY <1>4, <2>1, <2>2
<1> QED BY <1>5, <1>6

\* A bounded set of natural numbers has a greatest element.
LEMMA Greatest ==
    ASSUME NEW T, T \subseteq Nat, T # {}, NEW b \in Nat, \A n \in T : n <= b
    PROVE  \E n \in T : \A m \in T : m <= n
<1> DEFINE Bounds == {c \in Nat : \A n \in T : n <= c}
<1>1. PICK c \in Bounds : \A d \in Bounds : c <= d
  <2>1. Bounds \subseteq Nat /\ b \in Bounds
    OBVIOUS
  <2> HIDE DEF Bounds
  <2> QED BY <2>1, Least
<1>2. c \in T
  <2> SUFFICES ASSUME c \notin T PROVE FALSE
    OBVIOUS
  <2>1. \A n \in T : n <= c - 1
    BY <1>1
  <2>2. PICK n \in T : TRUE
    OBVIOUS
  <2>3. c - 1 \in Nat
    BY <2>1, <2>2
  <2> QED BY <1>1, <2>1, <2>3
<1> QED BY <1>1, <1>2

\* A set of ids up to a bound is finite, and so is each of its parts.
LEMMA IdsAreFinite ==
    ASSUME NEW b \in Nat, NEW S, S \subseteq 1..b
    PROVE  IsFiniteSet(S) /\ Cardinality(S) \in Nat
<1>1. PICK T : T = 1..b
  OBVIOUS
<1>2. IsFiniteSet(T) /\ S \in SUBSET T
  BY <1>1, FS_Interval
<1> QED BY <1>2, FS_Subset, FS_CardinalityType

\* LastOr() of a set of ids.
LEMMA LastOrIsLast ==
    ASSUME NEW b \in Nat, NEW S, S \subseteq 1..b, S # {}, NEW default
    PROVE  LastOr(S, default) \in S /\ \A j \in S : j <= LastOr(S, default)
<1>1. S \subseteq Nat /\ \A n \in S : n <= b
  OBVIOUS
<1>2. \E n \in S : \A m \in S : m <= n
  BY <1>1, Greatest
<1> QED BY <1>2 DEF LastOr

\* FirstN() takes at most n ids, and with an id all smaller ones.
LEMMA FirstNIsInitial ==
    ASSUME NEW b \in Nat, NEW S, S \subseteq 1..b, NEW n \in Nat
    PROVE  /\ FirstN(S, n) \subseteq S
           /\ Cardinality(FirstN(S, n)) <= n
           /\ \A i \in S, j \in FirstN(S, n) : i <= j => i \in FirstN(S, n)
<1> DEFINE UpTo(i) == {j \in S : j <= i}
<1>1. \A i \in S : IsFiniteSet(UpTo(i)) /\ Cardinality(UpTo(i)) \in Nat
  <2> TAKE i \in S
  <2>1. UpTo(i) \subseteq 1..b
    OBVIOUS
  <2> HIDE DEF UpTo
  <2> QED BY <2>1, IdsAreFinite
<1>2. FirstN(S, n) = {i \in S : Cardinality(UpTo(i)) <= n}
  BY DEF FirstN
<1>3. ASSUME NEW i \in S, NEW j \in FirstN(S, n), i <= j
      PROVE  i \in FirstN(S, n)
  <2>1. UpTo(i) \in SUBSET UpTo(j)
    <3>1. j \in S
      BY <1>2
    <3>2. ASSUME NEW k \in UpTo(i)
          PROVE  k \in UpTo(j)
      <4>1. k \in S /\ k <= i
        OBVIOUS
      <4>2. k \in Int /\ i \in Int /\ j \in Int
        BY <3>1, <4>1
      <4>3. k <= j
        BY <1>3, <4>1, <4>2
      <4> QED BY <4>1, <4>3
    <3> HIDE DEF UpTo
    <3> QED BY <3>2
  <2>2. IsFiniteSet(UpTo(j)) /\ Cardinality(UpTo(i)) \in Nat /\ Cardinality(UpTo(j)) \in Nat
    BY <1>1, <1>2
  <2> HIDE DEF UpTo
  <2>3. Cardinality(UpTo(i)) <= Cardinality(UpTo(j))
    BY <2>1, <2>2, FS_Subset
  <2> QED BY <1>2, <2>2, <2>3
<1>4. FirstN(S, n) \subseteq S
  BY <1>2
<1>5. Cardinality(FirstN(S, n)) <= n
  <2>1. CASE FirstN(S, n) = {}
    BY <2>1, FS_EmptySet
  <2>2. CASE FirstN(S, n) # {}
    <3>1. PICK m \in FirstN(S, n) : \A i \in FirstN(S, n) : i <= m
      <4>1. /\ FirstN(S, n) \subseteq Nat
            /\ \A i \in FirstN(S, n) : i <= b
        <5>1. \A i \in S : i \in Nat /\ i <= b
          OBVIOUS
        <5> QED BY <1>4, <5>1
      <4> QED BY <2>2, <4>1, Greatest
    <3>2. FirstN(S, n) \in SUBSET UpTo(m)
      BY <1>4, <3>1
    <3>3. /\ IsFiniteSet(UpTo(m)) /\ Cardinality(UpTo(m)) <= n
          /\ Cardinality(UpTo(m)) \in Nat
      BY <1>1, <1>2
    <3>4. IsFiniteSet(FirstN(S, n)) /\ Cardinality(FirstN(S, n)) \in Nat
      <4>1. FirstN(S, n) \subseteq 1..b
        BY <1>4
      <4> QED BY <4>1, IdsAreFinite
    <3> HIDE DEF UpTo
    <3>5. Cardinality(FirstN(S, n)) <= Cardinality(UpTo(m))
      BY <3>2, <3>3, FS_Subset
    <3> QED BY <3>3, <3>4, <3>5
  <2> QED BY <2>1, <2>2
<1> QED BY <1>3, <1>4, <1>5

-----------------------------------------------------------------------------
(* Drafts.                                                                 *)

\* What is cited anywhere in a valid draft is allowed, and no row of it twice.
LEMMA ValidDraftsCiteWhatTheyMay ==
    ASSUME NEW draft, NEW allowed, ValidDraft(draft, allowed)
    PROVE  Cited(draft) \subseteq allowed /\ RowsAreDistinct(draft)
<1>1. ASSUME NEW sources \in Range(SourcesAt(draft))
      PROVE  ValidSources(sources, allowed)
  <2> DEFINE items == UNION {{<<"sections", n, i>> : i \in DOMAIN draft.sections[n].items} :
                               n \in DOMAIN draft.sections}
             proposals == {<<"task_proposals", p>> : p \in DOMAIN draft.proposals}
             At(path) == IF path[1] = "sections"
                         THEN draft.sections[path[2]].items[path[3]]
                         ELSE draft.proposals[path[2]].sources
  <2>1. SourcesAt(draft) = [path \in items \cup proposals |-> At(path)]
    BY DEF SourcesAt
  <2>2. PICK path \in items \cup proposals : sources = At(path)
    BY <2>1 DEF Range
  <2>3. CASE path \in items
    <3>1. PICK n \in DOMAIN draft.sections :
              \E i \in DOMAIN draft.sections[n].items : path = <<"sections", n, i>>
      BY <2>3
    <3> PICK i \in DOMAIN draft.sections[n].items : path = <<"sections", n, i>>
      BY <3>1
    <3>2. sources = draft.sections[n].items[i]
      BY <2>2
    <3>3. draft.sections[n] \in Range(draft.sections)
      BY DEF Range
    <3>4. sources \in Range(draft.sections[n].items)
      BY <3>2 DEF Range
    <3> QED BY <3>3, <3>4 DEF ValidDraft
  <2>4. CASE path \in proposals
    <3>1. PICK p \in DOMAIN draft.proposals : path = <<"task_proposals", p>>
      BY <2>4
    <3>2. sources = draft.proposals[p].sources
      BY <2>2, <3>1
    <3>3. draft.proposals[p] \in Range(draft.proposals)
      BY DEF Range
    <3> QED BY <3>2, <3>3 DEF ValidDraft
  <2> QED BY <2>2, <2>3, <2>4
<1>2. Cited(draft) \subseteq allowed
  BY <1>1 DEF Cited, ValidSources
<1>3. RowsAreDistinct(draft)
  BY <1>1 DEF RowsAreDistinct, ValidSources
<1> QED BY <1>2, <1>3

-----------------------------------------------------------------------------
(* The tables.                                                             *)

\* Counting the expiries that are due, no thread has more events than the bound.
EventsFit == \A th \in Threads : EventsAfterExpiry[th] <= MaxEvents

\* A head is the newest revision of its thread, and a parent is older.
Chained ==
    /\ \A th \in Threads : head[th] # 0 => revisions[head[th]].thread = th
    /\ \A r \in RevisionIds : r <= head[revisions[r].thread] /\ revisions[r].parent < r

\* Coverage and batches are of messages there are, and a summary written by hand
\* has neither.
Backed ==
    \A r \in RevisionIds :
        /\ revisions[r].coverage <= Len(messages)
        /\ revisions[r].batch \subseteq 1..Len(messages)
        /\ revisions[r].known <=> revisions[r].kind = "steward"
        /\ revisions[r].kind = "manual" => revisions[r].coverage = 0 /\ revisions[r].cites = {}

Tables == TypeOK /\ EventsFit /\ Chained /\ Backed

\* What a publication and what a summary written by hand add to a thread.
Published(th, rev) ==
    /\ \E s \in Stewards : held[s] # NoWorkset /\ held[s].thread = th /\ held[s].base = head[th]
    /\ rev.kind = "steward" /\ rev.known
    /\ Coverage(head[th]) <= rev.coverage /\ rev.coverage <= Len(messages)
    /\ rev.batch = Reread(th, rev.coverage)
    /\ rev.cites \subseteq Sources(head[th]) \cup rev.batch
    /\ rev.events = events'[th]

Adds(th, rev) ==
    /\ rev \in RevisionRecord /\ rev.thread = th /\ rev.parent = head[th]
    /\ AddRevision(th, rev)
    /\ rev = ManualRevision(th) \/ Published(th, rev)

\* While there is room, every thread is below the bound.
LEMMA RoomInEveryThread ==
    ASSUME TypeOK, EventsFit, Room, NEW th \in Threads
    PROVE  EventsAfterExpiry[th] < MaxEvents
<1> PICK e : e = EventsAfterExpiry[th]
  OBVIOUS
<1>1. e \in Nat /\ e <= MaxEvents /\ MaxEvents \in Nat
  BY BoundsAssumption DEF TypeOK, EventsAfterExpiry, EventsFit
<1> PICK of : of = {th} \X (1..e)
  OBVIOUS
<1>2. of \in SUBSET TaskEvents
  BY <1>1 DEF TaskEvents
<1>3. IsFiniteSet(TaskEvents)
  <2>1. IsFiniteSet(1..MaxEvents)
    BY <1>1, FS_Interval
  <2>2. IsFiniteSet(Threads \X (1..MaxEvents))
    BY <2>1, ThreadsAssumption, FS_Product
  <2>3. TaskEvents \subseteq Threads \X (1..MaxEvents)
    BY DEF TaskEvents
  <2> PICK all : all = Threads \X (1..MaxEvents)
    OBVIOUS
  <2>4. IsFiniteSet(all) /\ TaskEvents \in SUBSET all
    BY <2>2, <2>3
  <2> QED BY <2>4, FS_Subset
<1>4. Cardinality(of) = e
  <2>1. IsFiniteSet({th}) /\ Cardinality({th}) = 1
    BY FS_Singleton
  <2>2. IsFiniteSet(1..e) /\ Cardinality(1..e) = e
    <3>1. 1 \in Int /\ e \in Int
      BY <1>1
    <3>2. IsFiniteSet(1..e) /\ Cardinality(1..e) = IF 1 > e THEN 0 ELSE e - 1 + 1
      BY <3>1, FS_Interval
    <3>3. (IF 1 > e THEN 0 ELSE e - 1 + 1) = e
      BY <1>1
    <3> QED BY <3>2, <3>3
  <2>3. Cardinality({th} \X (1..e)) = Cardinality({th}) * Cardinality(1..e)
    BY <2>1, <2>2, FS_Product
  <2> QED BY <1>1, <2>1, <2>2, <2>3
<1>5. Cardinality(of) <= Cardinality(TaskEvents)
  BY <1>2, <1>3, FS_Subset
<1>6. Cardinality(TaskEvents) \in Nat
  BY <1>3, FS_CardinalityType
<1> QED BY <1>1, <1>4, <1>5, <1>6 DEF Room

\* What a step does to the board.
LEMMA BoardSteps ==
    ASSUME [Next]_vars
    PROVE  \/ UNCHANGED board
           \/ Expire
           \/ \E th \in Threads : ChangeBoard(th) \/ LeaseLapses(th)
           \/ \E th \in Threads, title \in TaskTitles : CreateTask(th, title)
BY DEF Next, vars, board, PostMessage, UpdateSummary, GetOnboarding, FetchWorkset,
       PublishRequest, PublishSummary, RefuseSummary

\* Events are only added, and with every task that is created.
LEMMA EventsMove ==
    ASSUME TypeOK, EventsFit, [Next]_vars
    PROVE  /\ events' \in [Threads -> 0..MaxEvents]
           /\ titles' \in [Threads -> SUBSET TaskTitles]
           /\ lapsed' \subseteq Threads
           /\ EventsFit'
           /\ \A th \in Threads :
                 /\ EventsAfterExpiry[th] <= EventsAfterExpiry'[th]
                 /\ EventsAfterExpiry[th] = EventsAfterExpiry'[th] => titles'[th] = titles[th]
<1>1. /\ events \in [Threads -> 0..MaxEvents] /\ titles \in [Threads -> SUBSET TaskTitles]
      /\ lapsed \subseteq Threads /\ MaxEvents \in Nat
      /\ \A th \in Threads : events[th] \in Nat /\ events[th] <= MaxEvents
  BY BoundsAssumption DEF TypeOK
<1>2. /\ \A th \in Threads : EventsAfterExpiry[th] = events[th] + (IF th \in lapsed THEN 1 ELSE 0)
      /\ \A th \in Threads : EventsAfterExpiry'[th] = events'[th] + (IF th \in lapsed' THEN 1 ELSE 0)
      /\ \A th \in Threads : EventsAfterExpiry[th] <= MaxEvents
  BY DEF EventsAfterExpiry, EventsFit
<1>3. CASE UNCHANGED board
  BY <1>1, <1>2, <1>3 DEF board, EventsFit
<1>4. CASE Expire
  <2>1. \A th \in Threads : events'[th] = EventsAfterExpiry[th] /\ EventsAfterExpiry[th] \in 0..MaxEvents
    BY <1>1, <1>2, <1>4 DEF Expire
  <2>2. events' \in [Threads -> 0..MaxEvents]
    BY <1>4, <2>1 DEF Expire, EventsAfterExpiry
  <2> QED BY <1>1, <1>2, <1>4, <2>1, <2>2 DEF Expire, EventsFit
<1>5. ASSUME NEW t \in Threads, ChangeBoard(t)
      PROVE  /\ events' \in [Threads -> 0..MaxEvents] /\ titles' = titles /\ lapsed' = {}
             /\ \A th \in Threads : /\ EventsAfterExpiry[th] <= EventsAfterExpiry'[th]
                                    /\ EventsAfterExpiry'[th] <= MaxEvents
  <2>1. /\ EventsAfterExpiry \in [Threads -> 0..MaxEvents]
        /\ EventsAfterExpiry[t] < MaxEvents
    BY <1>1, <1>2, <1>5, RoomInEveryThread DEF ChangeBoard, EventsAfterExpiry
  <2> PICK now : now = EventsAfterExpiry
    OBVIOUS
  <2>2. events' = [now EXCEPT ![t] = @ + 1]
    BY <1>5 DEF ChangeBoard
  <2>3. /\ events' \in [Threads -> 0..MaxEvents]
        /\ \A th \in Threads : now[th] <= events'[th]
    BY <1>1, <2>1, <2>2
  <2>4. titles' = titles /\ lapsed' = {}
    BY <1>5 DEF ChangeBoard
  <2> QED BY <1>1, <1>2, <2>1, <2>3, <2>4
<1>6. ASSUME NEW t \in Threads, LeaseLapses(t)
      PROVE  /\ events' \in [Threads -> 0..MaxEvents] /\ titles' = titles
             /\ lapsed' \subseteq Threads
             /\ \A th \in Threads : /\ EventsAfterExpiry[th] <= EventsAfterExpiry'[th]
                                    /\ EventsAfterExpiry'[th] <= MaxEvents
  <2>1. EventsAfterExpiry[t] < MaxEvents
    BY <1>6, RoomInEveryThread DEF LeaseLapses
  <2>2. events' = events /\ titles' = titles /\ lapsed' = lapsed \cup {t} /\ t \notin lapsed
    BY <1>6 DEF LeaseLapses
  <2> QED BY <1>1, <1>2, <2>1, <2>2
<1>7. ASSUME NEW t \in Threads, NEW title \in TaskTitles, CreateTask(t, title)
      PROVE  /\ events' \in [Threads -> 0..MaxEvents]
             /\ titles' \in [Threads -> SUBSET TaskTitles]
             /\ lapsed' = lapsed
             /\ \A th \in Threads :
                   /\ EventsAfterExpiry[th] <= EventsAfterExpiry'[th]
                   /\ EventsAfterExpiry[th] = EventsAfterExpiry'[th] => titles'[th] = titles[th]
                   /\ EventsAfterExpiry'[th] <= MaxEvents
  <2>1. EventsAfterExpiry[t] < MaxEvents
    BY <1>7, RoomInEveryThread DEF CreateTask
  <2>2. /\ events' = [events EXCEPT ![t] = @ + 1]
        /\ titles' = [titles EXCEPT ![t] = @ \cup {title}]
        /\ lapsed' = lapsed
    BY <1>7 DEF CreateTask
  <2>3. \A th \in Threads : /\ events'[th] = IF th = t THEN events[th] + 1 ELSE events[th]
                            /\ th # t => titles'[th] = titles[th]
    BY <1>1, <2>2
  <2>4. \A th \in Threads :
           EventsAfterExpiry'[th] = EventsAfterExpiry[th] + (IF th = t THEN 1 ELSE 0)
    BY <1>1, <1>2, <2>2, <2>3
  <2>5. \A th \in Threads : events'[th] \in 0..MaxEvents
    BY <1>1, <1>2, <2>1, <2>3
  <2>6. events' \in [Threads -> 0..MaxEvents]
    BY <1>1, <2>2, <2>5
  <2>7. titles' \in [Threads -> SUBSET TaskTitles]
    BY <1>1, <2>2
  <2>8. \A th \in Threads : EventsAfterExpiry[th] \in Nat
    BY <1>1, <1>2
  <2> QED BY <1>1, <1>2, <2>1, <2>2, <2>3, <2>4, <2>6, <2>7, <2>8
<1> QED
  BY <1>1, <1>3, <1>4, <1>5, <1>6, <1>7, BoardSteps DEF EventsFit

\* What a step does to the messages.
LEMMA MessageSteps ==
    ASSUME [Next]_vars
    PROVE  \/ messages' = messages
           \/ \E th \in Threads : PostMessage(th)
BY DEF Next, vars, board, ChangeBoard, LeaseLapses, CreateTask, UpdateSummary, GetOnboarding,
       FetchWorkset, PublishRequest, PublishSummary, RefuseSummary

\* What a step does to the worksets in hand.
LEMMA HeldSteps ==
    ASSUME [Next]_vars
    PROVE  \/ held' = held
           \/ \E s \in Stewards, th \in Threads : FetchWorkset(s, th)
BY DEF Next, vars, board, PostMessage, ChangeBoard, LeaseLapses, CreateTask, UpdateSummary,
       GetOnboarding, PublishRequest, PublishSummary, RefuseSummary

\* A workset cut short is a workset of the same thread on the same head.
LEMMA ShortenedIsWorkset ==
    ASSUME NEW w \in WorksetRecord, NEW short \in Shortened(w)
    PROVE  /\ short \in WorksetRecord
           /\ short.thread = w.thread /\ short.base = w.base
<1>1. CASE short = w
  BY <1>1
<1>2. ASSUME NEW k \in w.from..w.through,
             short = [w EXCEPT !.batch = {i \in w.batch : i <= k}, !.through = k]
      PROVE  /\ short \in WorksetRecord
             /\ short.thread = w.thread /\ short.base = w.base
  <2>1. /\ w.from \in 0..MaxMessages /\ w.through \in 0..MaxMessages
        /\ w.batch \in SUBSET (1..MaxMessages) /\ MaxMessages \in Nat
    BY BoundsAssumption DEF WorksetRecord
  <2>2. k \in 0..MaxMessages
    BY <2>1
  <2>3. {i \in w.batch : i <= k} \in SUBSET (1..MaxMessages)
    BY <2>1
  <2> QED BY <1>2, <2>2, <2>3 DEF WorksetRecord
<1> QED BY <1>1, <1>2 DEF Shortened

\* What a step does to the summaries: nothing, or a revision is added to a thread.
LEMMA RevisionSteps ==
    ASSUME TypeOK, Backed, [Next]_vars
    PROVE  \/ UNCHANGED <<revisions, head>>
           \/ /\ UNCHANGED <<messages, held>> /\ Len(revisions) < MaxRevisions
              /\ \E th \in Threads : \E rev \in RevisionRecord : Adds(th, rev)
<1>1. CASE \E th \in Threads : UpdateSummary(th)
  <2>1. PICK th \in Threads : UpdateSummary(th)
    BY <1>1
  <2>2. ManualRevision(th) \in RevisionRecord
    <3>1. head[th] \in 0..MaxRevisions /\ events[th] \in 0..MaxEvents
      <4>1. Len(revisions) \in Nat /\ Len(revisions) <= MaxRevisions /\ MaxRevisions \in Nat
        BY BoundsAssumption, LenProperties DEF TypeOK
      <4>2. head[th] \in 0..Len(revisions)
        BY DEF TypeOK
      <4> QED BY <4>1, <4>2 DEF TypeOK
    <3>2. 0 \in 0..MaxMessages
      BY BoundsAssumption
    <3> QED BY <3>1, <3>2 DEF ManualRevision, RevisionRecord
  <2>3. Adds(th, ManualRevision(th))
    BY <2>1, <2>2 DEF Adds, UpdateSummary, ManualRevision
  <2> QED BY <2>1, <2>2, <2>3 DEF UpdateSummary
<1>2. CASE \E s \in Stewards :
               /\ held[s] # NoWorkset
               /\ \E w \in Shortened(held[s]) : PublishRequest(w)
  <2>1. PICK s \in Stewards : /\ held[s] # NoWorkset
                              /\ \E w \in Shortened(held[s]) : PublishRequest(w)
    BY <1>2
  <2>2. PICK w \in Shortened(held[s]) : PublishRequest(w)
    BY <2>1
  <2>3. held[s] \in WorksetRecord
    BY <2>1 DEF TypeOK
  <2>4. w \in WorksetRecord
    BY <2>3, ShortenedIsWorkset
  <2>5. CASE RefuseSummary
    BY <2>5 DEF RefuseSummary
  <2>6. CASE Len(revisions) < MaxRevisions /\ Accepts(w) /\ \E draft \in Drafts : PublishSummary(w, draft)
    <3>1. PICK draft \in Drafts : PublishSummary(w, draft)
      BY <2>6
    <3> PICK rev : rev = [thread |-> w.thread, kind |-> "steward", parent |-> w.base,
                          coverage |-> w.through, known |-> TRUE, events |-> w.events,
                          batch |-> w.batch, cites |-> Cited(draft)]
      OBVIOUS
    <3>2. /\ w.thread \in Threads /\ w.base \in 0..MaxRevisions /\ w.through \in 0..MaxMessages
          /\ w.events \in 0..MaxEvents /\ w.batch \in SUBSET (1..MaxMessages)
          /\ w.sources \in SUBSET (1..MaxMessages)
      BY <2>4 DEF WorksetRecord
    <3>3. /\ head[w.thread] = w.base
          /\ BatchEndsAt(w)
          /\ EventsAfterExpiry[w.thread] = w.events
          /\ Workset(w.thread, EventsAfterExpiry, Reread(w.thread, w.through)).sources = w.sources
          /\ Reread(w.thread, w.through) = w.batch
      BY <2>6 DEF Accepts
    <3>4. w.sources = Sources(head[w.thread])
      BY <3>3 DEF Workset
    <3>5. Cited(draft) \subseteq w.sources \cup w.batch
      BY <3>1, ValidDraftsCiteWhatTheyMay DEF PublishSummary, AcceptsDraft, MayCite
    <3>6. rev \in RevisionRecord
      <4>1. Cited(draft) \in SUBSET (1..MaxMessages)
        BY <3>2, <3>5
      <4> QED BY <3>2, <4>1 DEF RevisionRecord
    <3>7. AddRevision(w.thread, rev) /\ Expire /\ UNCHANGED <<messages, held>>
      BY <3>1 DEF PublishSummary
    <3>8. events'[w.thread] = w.events
      BY <3>3, <3>7 DEF Expire
    <3>9. Coverage(head[w.thread]) <= w.through /\ w.through <= Len(messages)
      <4>1. Coverage(head[w.thread]) <= w.through
        BY <3>3 DEF BatchEndsAt
      <4>2. LastOr(w.batch, Coverage(head[w.thread])) = w.through
        BY <3>3 DEF BatchEndsAt
      <4>3. w.batch \subseteq 1..Len(messages)
        BY <3>3 DEF Reread, Uncovered, MessageIds
      <4>4. Len(messages) \in Nat
        BY LenProperties DEF TypeOK
      <4>5. CASE w.batch = {}
        <5>1. w.through = Coverage(head[w.thread])
          BY <4>2, <4>5 DEF LastOr
        <5>2. head[w.thread] # 0 => head[w.thread] \in RevisionIds
          <6>1. head[w.thread] \in 0..Len(revisions)
            BY <3>2 DEF TypeOK
          <6> QED BY <6>1 DEF RevisionIds
        <5> QED BY <4>1, <4>4, <5>1, <5>2 DEF Coverage, Backed
      <4>6. CASE w.batch # {}
        BY <4>1, <4>2, <4>3, <4>4, <4>6, LastOrIsLast
      <4> QED BY <4>5, <4>6
    <3>10. Published(w.thread, rev)
      <4>1. held[s].thread = w.thread /\ held[s].base = head[w.thread]
        BY <2>3, <3>3, ShortenedIsWorkset
      <4> QED BY <2>1, <3>3, <3>4, <3>5, <3>8, <3>9, <4>1 DEF Published
    <3>11. Adds(w.thread, rev)
      BY <3>3, <3>6, <3>7, <3>10 DEF Adds
    <3> QED BY <2>6, <3>2, <3>6, <3>7, <3>11
  <2> QED BY <2>2, <2>5, <2>6 DEF PublishRequest
<1>3. CASE UNCHANGED vars
  BY <1>3 DEF vars
<1>4. CASE \/ \E th \in Threads : PostMessage(th) \/ ChangeBoard(th) \/ LeaseLapses(th)
           \/ \E th \in Threads, title \in TaskTitles : CreateTask(th, title)
           \/ GetOnboarding
           \/ \E s \in Stewards, th \in Threads : FetchWorkset(s, th)
  BY <1>4 DEF PostMessage, ChangeBoard, LeaseLapses, CreateTask, GetOnboarding, FetchWorkset
<1> QED BY <1>1, <1>2, <1>3, <1>4 DEF Next

\* Heads are revisions, or 0 where there is none yet.
LEMMA HeadsAreRevisions ==
    ASSUME TypeOK
    PROVE  /\ Len(revisions) \in Nat /\ Len(messages) \in Nat
           /\ MaxRevisions \in Nat /\ MaxMessages \in Nat /\ MaxEvents \in Nat
           /\ \A r \in RevisionIds : revisions[r] \in RevisionRecord
           /\ \A i \in 1..Len(messages) : messages[i] \in Threads
           /\ \A th \in Threads : head[th] = 0 \/ head[th] \in RevisionIds
<1>1. /\ revisions \in Seq(RevisionRecord) /\ messages \in Seq(Threads)
      /\ head \in [Threads -> 0..Len(revisions)]
  BY DEF TypeOK
<1>2. Len(revisions) \in Nat /\ Len(messages) \in Nat
  BY <1>1, LenProperties
<1>3. /\ \A r \in 1..Len(revisions) : revisions[r] \in RevisionRecord
      /\ \A i \in 1..Len(messages) : messages[i] \in Threads
  BY <1>1, ElementOfSeq
<1> QED BY <1>1, <1>2, <1>3, BoundsAssumption DEF RevisionIds

\* What an added revision leaves and what it changes.
LEMMA AddsOne ==
    ASSUME TypeOK, NEW th \in Threads, NEW rev \in RevisionRecord, Adds(th, rev)
    PROVE  /\ revisions' \in Seq(RevisionRecord)
           /\ Len(revisions') = Len(revisions) + 1
           /\ \A r \in RevisionIds : revisions'[r] = revisions[r]
           /\ revisions'[Len(revisions) + 1] = rev
           /\ head' \in [Threads -> 0..Len(revisions')]
           /\ head'[th] = Len(revisions) + 1
           /\ \A t \in Threads : t # th => head'[t] = head[t]
           /\ RevisionIds' = RevisionIds \cup {Len(revisions) + 1}
<1>1. /\ revisions \in Seq(RevisionRecord) /\ head \in [Threads -> 0..Len(revisions)]
      /\ revisions' = Append(revisions, rev)
      /\ head' = [head EXCEPT ![th] = Len(revisions) + 1]
  BY DEF TypeOK, Adds, AddRevision
<1>2. /\ revisions' \in Seq(RevisionRecord)
      /\ Len(revisions') = Len(revisions) + 1 /\ Len(revisions) \in Nat
      /\ \A r \in 1..Len(revisions) : revisions'[r] = revisions[r]
      /\ revisions'[Len(revisions) + 1] = rev
  BY <1>1, Appended
<1>3. /\ head' \in [Threads -> 0..Len(revisions')]
      /\ head'[th] = Len(revisions) + 1
      /\ \A t \in Threads : t # th => head'[t] = head[t]
  BY <1>1, <1>2
<1>4. RevisionIds' = RevisionIds \cup {Len(revisions) + 1}
  BY <1>2 DEF RevisionIds
<1> QED BY <1>2, <1>3, <1>4 DEF RevisionIds

\* Messages and revisions are never changed or removed.
LEMMA TablesGrow ==
    ASSUME TypeOK, Backed, [Next]_vars
    PROVE  /\ messages' \in Seq(Threads) /\ Len(messages') <= MaxMessages
           /\ Len(messages) <= Len(messages') /\ Len(messages') \in Nat
           /\ \A i \in 1..Len(messages) : messages'[i] = messages[i]
           /\ revisions' \in Seq(RevisionRecord) /\ Len(revisions') <= MaxRevisions
           /\ Len(revisions) <= Len(revisions') /\ Len(revisions') \in Nat
           /\ \A r \in RevisionIds : r \in RevisionIds' /\ revisions'[r] = revisions[r]
           /\ head' \in [Threads -> 0..Len(revisions')]
<1>1. /\ messages' \in Seq(Threads) /\ Len(messages') <= MaxMessages
      /\ Len(messages) <= Len(messages') /\ Len(messages') \in Nat
      /\ \A i \in 1..Len(messages) : messages'[i] = messages[i]
  <2>1. CASE messages' = messages
    BY <2>1, HeadsAreRevisions DEF TypeOK
  <2>2. CASE \E th \in Threads : PostMessage(th)
    <3>1. PICK th \in Threads : Len(messages) < MaxMessages /\ messages' = Append(messages, th)
      BY <2>2 DEF PostMessage
    <3>2. messages \in Seq(Threads) /\ MaxMessages \in Nat
      BY BoundsAssumption DEF TypeOK
    <3> QED BY <3>1, <3>2, Appended
  <2> QED BY <2>1, <2>2, MessageSteps
<1>2. CASE UNCHANGED <<revisions, head>>
  <2>1. revisions' = revisions /\ head' = head /\ RevisionIds' = RevisionIds
    BY <1>2 DEF RevisionIds
  <2>2. /\ revisions \in Seq(RevisionRecord) /\ Len(revisions) <= MaxRevisions
        /\ head \in [Threads -> 0..Len(revisions)] /\ Len(revisions) \in Nat
        /\ Len(revisions) <= Len(revisions)
    BY HeadsAreRevisions DEF TypeOK
  <2> QED BY <1>1, <2>1, <2>2
<1>3. CASE /\ UNCHANGED <<messages, held>> /\ Len(revisions) < MaxRevisions
           /\ \E th \in Threads : \E rev \in RevisionRecord : Adds(th, rev)
  <2>1. PICK th \in Threads, rev \in RevisionRecord : Adds(th, rev)
    BY <1>3
  <2>2. Len(revisions) \in Nat /\ MaxRevisions \in Nat /\ Len(revisions) < MaxRevisions
    BY <1>3, HeadsAreRevisions
  <2>3. /\ revisions' \in Seq(RevisionRecord)
        /\ Len(revisions') = Len(revisions) + 1
        /\ \A r \in RevisionIds : r \in RevisionIds' /\ revisions'[r] = revisions[r]
        /\ head' \in [Threads -> 0..Len(revisions')]
    BY <2>1, AddsOne
  <2>4. Len(revisions') <= MaxRevisions /\ Len(revisions) <= Len(revisions') /\ Len(revisions') \in Nat
    BY <2>2, <2>3
  <2> QED BY <1>1, <2>3, <2>4
<1> QED BY <1>2, <1>3, RevisionSteps

\* A workset in hand: made from its base and from the messages after it, on a board
\* that has moved since if its events or titles differ.
InHand(w) ==
    /\ w.base <= Len(revisions)
    /\ w.from = Coverage(w.base)
    /\ w.sources = Sources(w.base)
    /\ w.from <= w.through /\ w.through <= Len(messages)
    /\ w.batch = {i \in MessageIds(w.thread) : w.from < i /\ i <= w.through}
    /\ w.through = w.from \/ w.through \in w.batch
    /\ Cardinality(w.batch) <= BatchLimit
    /\ w.events <= EventsAfterExpiry[w.thread]
    /\ w.events = EventsAfterExpiry[w.thread] => w.titles = titles[w.thread]

HeldIsTrue == \A s \in Stewards : held[s] # NoWorkset => InHand(held[s])

\* A workset as it is handed out.
LEMMA WorksetsAreTrue ==
    ASSUME Tables, NEW th \in Threads, NEW w,
           w = Workset(th, EventsAfterExpiry, FirstN(Uncovered(th), BatchLimit))
    PROVE  w \in WorksetRecord /\ InHand(w)
<1> PICK base : base = head[th]
  OBVIOUS
<1> PICK from : from = Coverage(base)
  OBVIOUS
<1> PICK open : open = Uncovered(th)
  OBVIOUS
<1> PICK batch : batch = FirstN(open, BatchLimit)
  OBVIOUS
<1> PICK through : through = LastOr(batch, from)
  OBVIOUS
<1>1. TypeOK /\ EventsFit /\ Backed
  BY DEF Tables
<1>2. /\ w = [thread |-> th, base |-> base, from |-> from, through |-> through, batch |-> batch,
              events |-> EventsAfterExpiry[th], titles |-> titles[th], sources |-> Sources(base)]
  BY DEF Workset
<1>3. base \in 0..MaxRevisions /\ base <= Len(revisions)
  <2>1. Len(revisions) <= MaxRevisions /\ head[th] \in 0..Len(revisions)
    BY <1>1 DEF TypeOK
  <2> QED BY <1>1, <2>1, HeadsAreRevisions
<1>4. from \in Nat /\ from <= Len(messages) /\ Sources(base) \in SUBSET (1..MaxMessages)
  <2>1. CASE base = 0
    BY <1>1, <2>1, HeadsAreRevisions DEF Coverage, Sources
  <2>2. CASE base \in RevisionIds
    <3>1. revisions[base] \in RevisionRecord /\ base # 0
      BY <1>1, <2>2, HeadsAreRevisions DEF RevisionIds
    <3> QED BY <1>1, <2>2, <3>1 DEF Coverage, Sources, RevisionRecord, Backed
  <2> QED BY <1>1, <2>1, <2>2, HeadsAreRevisions
<1>5. /\ open = {i \in MessageIds(th) : from < i}
      /\ open \subseteq 1..Len(messages)
      /\ Len(messages) \in Nat /\ Len(messages) <= MaxMessages /\ MaxMessages \in Nat
  <2>1. open = {i \in MessageIds(th) : from < i}
    BY DEF Uncovered
  <2>2. open \subseteq 1..Len(messages)
    BY <2>1 DEF MessageIds
  <2> QED BY <1>1, <2>1, <2>2, HeadsAreRevisions DEF TypeOK
<1>6. /\ batch \subseteq open /\ Cardinality(batch) <= BatchLimit
      /\ \A i \in open, j \in batch : i <= j => i \in batch
  BY <1>5, BatchLimitAssumption, FirstNIsInitial
<1>7. /\ from <= through /\ through <= Len(messages)
      /\ through = from \/ through \in batch
      /\ batch = {i \in MessageIds(th) : from < i /\ i <= through}
  <2>1. CASE batch = {}
    <3>1. through = from
      BY <2>1 DEF LastOr
    <3>2. \A i \in MessageIds(th) : ~(from < i /\ i <= through)
      BY <1>4, <3>1 DEF MessageIds
    <3> QED BY <1>4, <2>1, <3>1, <3>2
  <2>2. CASE batch # {}
    <3>1. through \in batch /\ \A j \in batch : j <= through
      <4>1. batch \subseteq 1..Len(messages)
        BY <1>5, <1>6
      <4> QED BY <1>5, <2>2, <4>1, LastOrIsLast
    <3>2. through \in open /\ from < through /\ through <= Len(messages) /\ through \in Nat
      BY <1>5, <1>6, <3>1
    <3>3. \A i \in MessageIds(th) : from < i /\ i <= through => i \in batch
      BY <1>5, <1>6, <3>1
    <3>4. \A i \in batch : i \in MessageIds(th) /\ from < i /\ i <= through
      BY <1>5, <1>6, <3>1
    <3>5. batch = {i \in MessageIds(th) : from < i /\ i <= through}
      BY <3>3, <3>4
    <3>6. from <= through
      BY <1>4, <3>2
    <3> QED BY <3>1, <3>2, <3>5, <3>6
  <2> QED BY <2>1, <2>2
<1>8. /\ EventsAfterExpiry[th] \in 0..MaxEvents /\ titles[th] \in SUBSET TaskTitles
      /\ EventsAfterExpiry[th] <= EventsAfterExpiry[th]
  BY <1>1, BoundsAssumption DEF TypeOK, EventsFit, EventsAfterExpiry
<1>9. w \in WorksetRecord
  <2>1. from \in 0..MaxMessages /\ through \in 0..MaxMessages
    BY <1>4, <1>5, <1>7
  <2>2. batch \in SUBSET (1..MaxMessages)
    BY <1>5, <1>6
  <2> QED BY <1>2, <1>3, <1>4, <1>8, <2>1, <2>2 DEF WorksetRecord
<1>10. /\ w.thread = th /\ w.base = base /\ w.from = from /\ w.through = through
       /\ w.batch = batch /\ w.events = EventsAfterExpiry[th] /\ w.titles = titles[th]
       /\ w.sources = Sources(base)
  BY <1>2
<1>11. InHand(w)
  BY <1>3, <1>6, <1>7, <1>8, <1>10 DEF InHand
<1> QED BY <1>9, <1>11

\* A head stays the newest revision of its thread.
LEMMA ChainedIsPreserved ==
    ASSUME TypeOK, Backed, Chained, [Next]_vars
    PROVE  Chained'
<1>1. /\ Len(revisions) \in Nat
      /\ \A r \in RevisionIds : revisions[r] \in RevisionRecord /\ revisions[r].thread \in Threads
      /\ \A th \in Threads : head[th] = 0 \/ head[th] \in RevisionIds
      /\ RevisionIds = 1..Len(revisions)
  BY HeadsAreRevisions DEF RevisionRecord, RevisionIds
<1>2. CASE UNCHANGED <<revisions, head>>
  BY <1>2 DEF Chained, RevisionIds
<1>3. CASE \E th \in Threads : \E rev \in RevisionRecord : Adds(th, rev)
  <2>1. PICK th \in Threads, rev \in RevisionRecord : Adds(th, rev)
    BY <1>3
  <2> PICK n : n = Len(revisions) + 1
    OBVIOUS
  <2>2. /\ \A r \in RevisionIds : revisions'[r] = revisions[r]
        /\ revisions'[n] = rev
        /\ head'[th] = n
        /\ \A t \in Threads : t # th => head'[t] = head[t]
        /\ RevisionIds' = RevisionIds \cup {n}
    BY <2>1, AddsOne
  <2>3. rev.thread = th /\ rev.parent = head[th]
    BY <2>1 DEF Adds
  <2>4. ASSUME NEW t \in Threads, head'[t] # 0
        PROVE  revisions'[head'[t]].thread = t
    BY <1>1, <2>2, <2>3, <2>4 DEF Chained
  <2>5. rev.parent < n /\ n <= head'[rev.thread]
    BY <1>1, <2>2, <2>3
  <2>6. ASSUME NEW r \in RevisionIds
        PROVE  r <= head'[revisions[r].thread] /\ revisions[r].parent < r
    <3>1. r \in Nat /\ r <= n
      BY <1>1
    <3> QED BY <1>1, <2>2, <3>1 DEF Chained
  <2> QED BY <2>2, <2>4, <2>5, <2>6 DEF Chained
<1> QED BY <1>2, <1>3, RevisionSteps

\* Coverage and batches stay those of messages there are.
LEMMA BackedIsPreserved ==
    ASSUME TypeOK, Backed, [Next]_vars
    PROVE  Backed'
<1>1. /\ Len(messages) <= Len(messages') /\ Len(messages) \in Nat /\ Len(messages') \in Nat
      /\ \A r \in RevisionIds : revisions[r].coverage \in Nat
  BY TablesGrow, HeadsAreRevisions DEF RevisionRecord
<1>2. ASSUME NEW r \in RevisionIds
      PROVE  /\ revisions[r].coverage <= Len(messages')
             /\ revisions[r].batch \subseteq 1..Len(messages')
             /\ revisions[r].known <=> revisions[r].kind = "steward"
             /\ revisions[r].kind = "manual" => revisions[r].coverage = 0 /\ revisions[r].cites = {}
  BY <1>1, <1>2 DEF Backed
<1>3. CASE UNCHANGED <<revisions, head>>
  BY <1>2, <1>3 DEF Backed, RevisionIds
<1>4. CASE /\ UNCHANGED <<messages, held>>
           /\ \E th \in Threads : \E rev \in RevisionRecord : Adds(th, rev)
  <2>1. PICK th \in Threads, rev \in RevisionRecord : Adds(th, rev)
    BY <1>4
  <2>2. /\ \A r \in RevisionIds : revisions'[r] = revisions[r]
        /\ revisions'[Len(revisions) + 1] = rev
        /\ RevisionIds' = RevisionIds \cup {Len(revisions) + 1}
    BY <2>1, AddsOne
  <2>3. /\ rev.coverage <= Len(messages)
        /\ rev.batch \subseteq 1..Len(messages)
        /\ rev.known <=> rev.kind = "steward"
        /\ rev.kind = "manual" => rev.coverage = 0 /\ rev.cites = {}
    <3>1. CASE rev = ManualRevision(th)
      BY <1>1, <3>1 DEF ManualRevision
    <3>2. CASE Published(th, rev)
      BY <3>2 DEF Published, Reread, Uncovered, MessageIds
    <3> QED BY <2>1, <3>1, <3>2 DEF Adds
  <2> QED BY <1>2, <1>4, <2>2, <2>3 DEF Backed
<1> QED BY <1>3, <1>4, RevisionSteps

\* Types are preserved.
LEMMA TypesArePreserved ==
    ASSUME Tables, [Next]_vars
    PROVE  TypeOK'
<1>1. TypeOK /\ EventsFit /\ Backed
  BY DEF Tables
<1>2. held' \in [Stewards -> WorksetRecord \cup {NoWorkset}]
  <2>1. held \in [Stewards -> WorksetRecord \cup {NoWorkset}]
    BY <1>1 DEF TypeOK
  <2>2. ASSUME NEW s \in Stewards, NEW th \in Threads, FetchWorkset(s, th)
        PROVE  held' \in [Stewards -> WorksetRecord \cup {NoWorkset}]
    <3> PICK w : w = Workset(th, EventsAfterExpiry, FirstN(Uncovered(th), BatchLimit))
      OBVIOUS
    <3>1. held' = [held EXCEPT ![s] = w]
      BY <2>2 DEF FetchWorkset
    <3>2. w \in WorksetRecord
      BY WorksetsAreTrue
    <3> QED BY <2>1, <3>1, <3>2
  <2> QED BY <2>1, <2>2, HeldSteps
<1> QED BY <1>1, <1>2, TablesGrow, EventsMove DEF TypeOK

\* At the start there is nothing.
LEMMA TablesInit == Init => Tables
<1> SUFFICES ASSUME Init PROVE Tables
  OBVIOUS
<1>1. /\ messages = <<>> /\ revisions = <<>> /\ Len(messages) = 0 /\ Len(revisions) = 0
      /\ <<>> \in Seq(Threads) /\ <<>> \in Seq(RevisionRecord)
  BY EmptySeq DEF Init
<1>2. /\ events = [th \in Threads |-> 0] /\ titles = [th \in Threads |-> {}] /\ lapsed = {}
      /\ head = [th \in Threads |-> 0] /\ held = [s \in Stewards |-> NoWorkset]
  BY DEF Init
<1>3. RevisionIds = {}
  BY <1>1 DEF RevisionIds
<1>4. TypeOK
  BY <1>1, <1>2, BoundsAssumption DEF TypeOK
<1>5. EventsFit
  BY <1>2, BoundsAssumption DEF EventsFit, EventsAfterExpiry
<1>6. Chained /\ Backed
  BY <1>2, <1>3 DEF Chained, Backed
<1> QED BY <1>4, <1>5, <1>6 DEF Tables

\* The tables are typed and chained, in every state.
THEOREM TablesHold == Spec => []Tables
<1>1. Tables /\ [Next]_vars => Tables'
  BY TypesArePreserved, ChainedIsPreserved, BackedIsPreserved, EventsMove DEF Tables
<1> QED BY TablesInit, <1>1, PTL DEF Spec

\* Heads, summaries and worksets name revisions and messages there are, and no count
\* leaves its bound.
THEOREM SummaryTypes == Spec => []TypeOK
<1>1. Tables => TypeOK
  BY DEF Tables
<1> QED BY TablesHold, <1>1, PTL

-----------------------------------------------------------------------------
(* Worksets in hand.                                                       *)

\* A base that exists keeps its coverage and its sources.
LEMMA BasesStay ==
    ASSUME TypeOK, Backed, [Next]_vars, NEW base \in 0..Len(revisions)
    PROVE  Coverage(base)' = Coverage(base) /\ Sources(base)' = Sources(base)
<1>1. base # 0 => revisions'[base] = revisions[base]
  BY TablesGrow, HeadsAreRevisions DEF RevisionIds
<1> QED BY <1>1 DEF Coverage, Sources

\* What is true of a workset stays true of it, whatever others do.
LEMMA WorksetsStayTrue ==
    ASSUME Tables, [Next]_vars, NEW w \in WorksetRecord, InHand(w)
    PROVE  InHand(w)'
<1> PICK th \in Threads : th = w.thread
  BY DEF WorksetRecord
<1>1. /\ w.base \in Nat /\ w.from \in Nat /\ w.through \in Nat /\ w.events \in Nat
      /\ TypeOK /\ Backed /\ EventsFit
  BY DEF WorksetRecord, Tables
<1>2. /\ Len(messages) <= Len(messages') /\ Len(messages) \in Nat /\ Len(messages') \in Nat
      /\ \A i \in 1..Len(messages) : messages'[i] = messages[i]
      /\ Len(revisions) <= Len(revisions') /\ Len(revisions) \in Nat /\ Len(revisions') \in Nat
  BY <1>1, TablesGrow, HeadsAreRevisions
<1>3. w.base <= Len(revisions') /\ w.from = Coverage(w.base)' /\ w.sources = Sources(w.base)'
  <2>1. w.base \in 0..Len(revisions) /\ w.from = Coverage(w.base) /\ w.sources = Sources(w.base)
    BY <1>1, <1>2 DEF InHand
  <2> QED BY <1>1, <1>2, <2>1, BasesStay
<1>4. w.from <= w.through /\ w.through <= Len(messages) /\ w.through <= Len(messages')
  BY <1>1, <1>2 DEF InHand
<1>5. {i \in MessageIds(th)' : w.from < i /\ i <= w.through}
         = {i \in MessageIds(th) : w.from < i /\ i <= w.through}
  <2>1. \A i \in 1..Len(messages') : i <= w.through => i \in 1..Len(messages)
    BY <1>1, <1>2, <1>4
  <2>2. \A i : i \in MessageIds(th)' /\ i <= w.through <=> i \in MessageIds(th) /\ i <= w.through
    BY <1>1, <1>2, <1>4, <2>1 DEF MessageIds
  <2> QED BY <2>2
<1>6. /\ w.events <= EventsAfterExpiry'[th]
      /\ w.events = EventsAfterExpiry'[th] => w.titles = titles'[th]
  <2>1. /\ EventsAfterExpiry[th] <= EventsAfterExpiry'[th]
        /\ EventsAfterExpiry[th] = EventsAfterExpiry'[th] => titles'[th] = titles[th]
    BY <1>1, EventsMove
  <2>2. EventsAfterExpiry[th] \in Int /\ EventsAfterExpiry'[th] \in Int
    BY <1>1, EventsMove DEF EventsAfterExpiry, TypeOK
  <2>3. /\ w.events <= EventsAfterExpiry[th]
        /\ w.events = EventsAfterExpiry[th] => w.titles = titles[th]
    BY DEF InHand
  <2> QED BY <1>1, <2>1, <2>2, <2>3
<1>7. /\ w.batch = {i \in MessageIds(th) : w.from < i /\ i <= w.through}
      /\ w.through = w.from \/ w.through \in w.batch
      /\ Cardinality(w.batch) <= BatchLimit
  BY DEF InHand
<1> QED BY <1>3, <1>4, <1>5, <1>6, <1>7 DEF InHand

\* Every workset in a steward's hands is true of the tables as they are now.
THEOREM HeldWorksetsAreTrue == Spec => []HeldIsTrue
<1>1. Init => HeldIsTrue
  BY DEF Init, HeldIsTrue
<1>2. Tables /\ HeldIsTrue /\ [Next]_vars => HeldIsTrue'
  <2> SUFFICES ASSUME Tables, HeldIsTrue, [Next]_vars, NEW s \in Stewards, held'[s] # NoWorkset
               PROVE  \E w \in WorksetRecord : w = held'[s] /\ InHand(w)'
    BY DEF HeldIsTrue, InHand
  <2>1. held \in [Stewards -> WorksetRecord \cup {NoWorkset}]
    BY DEF Tables, TypeOK
  <2>2. CASE held'[s] = held[s]
    <3>1. held[s] \in WorksetRecord /\ InHand(held[s])
      BY <2>1, <2>2 DEF HeldIsTrue
    <3> PICK w \in WorksetRecord : w = held[s]
      BY <3>1
    <3>2. InHand(w)'
      BY <3>1, WorksetsStayTrue
    <3> QED BY <2>2, <3>2
  <2>3. ASSUME NEW th \in Threads, FetchWorkset(s, th)
        PROVE  \E w \in WorksetRecord : w = held'[s] /\ InHand(w)'
    <3> PICK w : w = Workset(th, EventsAfterExpiry, FirstN(Uncovered(th), BatchLimit))
      OBVIOUS
    <3>1. held'[s] = w
      BY <2>1, <2>3 DEF FetchWorkset
    <3>2. w \in WorksetRecord /\ InHand(w)
      BY WorksetsAreTrue
    <3>3. InHand(w)'
      BY <3>2, WorksetsStayTrue
    <3> QED BY <3>1, <3>2, <3>3
  <2>4. ASSUME NEW t \in Stewards, NEW th \in Threads, FetchWorkset(t, th), t # s
        PROVE  held'[s] = held[s]
    BY <2>1, <2>4 DEF FetchWorkset
  <2> QED BY <2>2, <2>3, <2>4, HeldSteps
<1> QED BY <1>1, <1>2, TablesHold, PTL DEF Spec

\* A workset that is true, on the head and the board it was made from, is accepted.
LEMMA TrueWorksetsAreAccepted ==
    ASSUME Tables, NEW w \in WorksetRecord, InHand(w),
           head[w.thread] = w.base, EventsAfterExpiry[w.thread] = w.events
    PROVE  Accepts(w)
<1> PICK th \in Threads : th = w.thread
  BY DEF WorksetRecord
<1>1. w.from \in Nat /\ w.through \in Nat /\ w.batch \subseteq Nat
  BY BoundsAssumption DEF WorksetRecord
<1>2. w.from = Coverage(head[th]) /\ w.sources = Sources(head[th]) /\ w.titles = titles[th]
  BY DEF InHand
<1>3. Reread(th, w.through) = w.batch
  BY <1>2 DEF InHand, Reread, Uncovered
<1>4. LastOr(w.batch, w.from) = w.through
  <2>1. /\ w.batch \subseteq 1..Len(messages) /\ Len(messages) \in Nat
        /\ \A i \in w.batch : w.from < i /\ i <= w.through
        /\ w.through = w.from \/ w.through \in w.batch
    BY HeadsAreRevisions DEF Tables, InHand, MessageIds
  <2>2. CASE w.batch = {}
    BY <2>1, <2>2 DEF LastOr
  <2>3. CASE w.batch # {}
    <3>1. LastOr(w.batch, w.from) \in w.batch /\ \A i \in w.batch : i <= LastOr(w.batch, w.from)
      BY <2>1, <2>3, LastOrIsLast
    <3>2. w.through \in w.batch
      BY <1>1, <2>1, <2>3
    <3> QED BY <1>1, <2>1, <3>1, <3>2
  <2> QED BY <2>2, <2>3
<1>5. BatchEndsAt(w)
  BY <1>2, <1>3, <1>4 DEF BatchEndsAt, InHand
<1>6. Workset(th, EventsAfterExpiry, w.batch) = w
  <2>1. Workset(th, EventsAfterExpiry, w.batch)
           = [thread |-> w.thread, base |-> w.base, from |-> w.from, through |-> w.through,
              batch |-> w.batch, events |-> w.events, titles |-> w.titles,
              sources |-> w.sources]
    BY <1>2, <1>4 DEF Workset
  <2> QED BY <2>1 DEF WorksetRecord
<1> QED BY <1>3, <1>5, <1>6 DEF Accepts

\* As long as nobody published and no task of the thread changed, what a steward made
\* of its workset and found valid is published, however many messages arrived.
THEOREM ValidWorkIsPublished == Spec => []ValidDraftIsPublished
<1>1. Tables /\ HeldIsTrue => ValidDraftIsPublished
  <2> SUFFICES ASSUME Tables, HeldIsTrue, NEW s \in Stewards, NEW w, w = held[s], w # NoWorkset,
                      head[w.thread] = w.base, EventsAfterExpiry[w.thread] = w.events
               PROVE  /\ Accepts(w)
                      /\ \A draft \in Drafts : StewardAccepts(w, draft) =>
                            AcceptsDraft(w, draft) /\ RowsAreDistinct(draft)
    BY DEF ValidDraftIsPublished
  <2>1. w \in WorksetRecord /\ InHand(w)
    BY DEF Tables, TypeOK, HeldIsTrue
  <2>2. Accepts(w)
    BY <2>1, TrueWorksetsAreAccepted
  <2>3. w.titles = titles[w.thread]
    BY <2>1 DEF InHand
  <2>4. ASSUME NEW draft \in Drafts, StewardAccepts(w, draft)
        PROVE  AcceptsDraft(w, draft) /\ RowsAreDistinct(draft)
    <3>1. ValidDraft(draft, w.sources \cup w.batch) /\ ProposalsAreNew(draft, w.titles)
      BY <2>4 DEF StewardAccepts
    <3> QED BY <2>3, <3>1, ValidDraftsCiteWhatTheyMay DEF AcceptsDraft, MayCite
  <2> QED BY <2>2, <2>4
<1> QED BY <1>1, TablesHold, HeldWorksetsAreTrue, PTL

\* A steward's revision is committed only on the board its workset showed.
THEOREM PublishedOnTheBoardShown == Spec => PublishedOnCurrentBoard
<1> DEFINE OnBoard ==
      Len(revisions') > Len(revisions) =>
          LET r == revisions'[Len(revisions')]
          IN r.kind = "steward" => r.events = events'[r.thread]
<1>1. Tables /\ [Next]_vars => [OnBoard]_vars
  <2> SUFFICES ASSUME Tables, [Next]_vars, Len(revisions') > Len(revisions)
               PROVE  LET r == revisions'[Len(revisions')]
                      IN r.kind = "steward" => r.events = events'[r.thread]
    OBVIOUS
  <2>1. TypeOK /\ Backed /\ Len(revisions) \in Nat
    BY HeadsAreRevisions DEF Tables
  <2>2. revisions' # revisions
    BY <2>1
  <2>3. PICK th \in Threads, rev \in RevisionRecord : Adds(th, rev)
    BY <2>1, <2>2, RevisionSteps
  <2>4. revisions'[Len(revisions')] = rev
    BY <2>1, <2>3, AddsOne
  <2>5. rev.kind = "steward" => rev.events = events'[rev.thread]
    BY <2>3 DEF Adds, Published, ManualRevision
  <2> QED BY <2>4, <2>5
<1>2. Spec => [][OnBoard]_vars
  BY <1>1, TablesHold, PTL DEF Spec
<1> QED BY <1>2 DEF PublishedOnCurrentBoard

-----------------------------------------------------------------------------
(* Lineages.                                                               *)

\* The lineage of a revision is what it was when the revision was written.
LEMMA LineagesStay ==
    ASSUME TypeOK, Backed, [Next]_vars, NEW r \in RevisionIds
    PROVE  /\ Lineage(r)' = Lineage(r) /\ Lineage(r) \subseteq RevisionIds
           /\ \A p \in Lineage(r) : revisions'[p] = revisions[p]
<1>1. \A q \in 1..r : q \in RevisionIds /\ revisions'[q] = revisions[q]
  BY TablesGrow, HeadsAreRevisions DEF RevisionIds
<1>2. r \in Nat /\ \A p \in 1..r : p..r \subseteq 1..r /\ r \in 1..r
  BY HeadsAreRevisions DEF RevisionIds
<1> QED BY <1>1, <1>2 DEF Lineage

\* A revision written by hand begins a lineage, any other continues that of the head.
LEMMA LineagesGrow ==
    ASSUME Tables, [Next]_vars, NEW th \in Threads, NEW rev \in RevisionRecord, Adds(th, rev),
           NEW n, n = Len(revisions) + 1
    PROVE  /\ rev.kind = "manual" => Lineage(n)' = {}
           /\ rev.kind = "steward" =>
                 Lineage(n)' = {n} \cup (IF head[th] = 0 THEN {} ELSE Lineage(head[th]))
<1>1. /\ TypeOK /\ Backed /\ Chained /\ Len(revisions) \in Nat
      /\ RevisionIds = 1..Len(revisions)
      /\ head[th] = 0 \/ head[th] \in RevisionIds
  BY HeadsAreRevisions DEF Tables, RevisionIds
<1>2. /\ \A r \in RevisionIds : revisions'[r] = revisions[r]
      /\ revisions'[n] = rev /\ rev.thread = th
  BY <1>1, AddsOne DEF Adds
<1>3. Lineage(n)' = {p \in 1..n : /\ revisions'[p].thread = th
                                  /\ \A q \in p..n : revisions'[q].thread = th
                                                       => revisions'[q].kind = "steward"}
  BY <1>2 DEF Lineage
<1>4. ASSUME rev.kind = "manual"
      PROVE  Lineage(n)' = {}
  <2>1. \A p \in 1..n : n \in p..n
    BY <1>1
  <2> QED BY <1>2, <1>3, <1>4, <2>1
<1>5. ASSUME rev.kind = "steward"
      PROVE  Lineage(n)' = {n} \cup (IF head[th] = 0 THEN {} ELSE Lineage(head[th]))
  <2> PICK h : h = head[th]
    OBVIOUS
  <2>1. n \in Lineage(n)'
    <3>1. n \in 1..n /\ \A q \in n..n : q = n
      BY <1>1
    <3> QED BY <1>2, <1>3, <1>5, <3>1
  <2>2. ASSUME NEW p \in Lineage(n)', p # n
        PROVE  h # 0 /\ p \in Lineage(h)
    <3>1. /\ p \in RevisionIds /\ revisions[p].thread = th
          /\ \A q \in p..n : revisions'[q].thread = th => revisions'[q].kind = "steward"
      BY <1>1, <1>2, <1>3, <2>2
    <3>2. p <= h /\ h \in RevisionIds /\ h # 0 /\ revisions[h].thread = th
      BY <1>1, <3>1 DEF Chained
    <3>3. \A q \in p..h : q \in p..n /\ revisions'[q] = revisions[q]
      BY <1>1, <1>2, <3>1, <3>2
    <3>4. p \in 1..h
      BY <1>1, <3>1, <3>2
    <3> QED BY <3>1, <3>2, <3>3, <3>4 DEF Lineage
  <2>3. ASSUME h # 0, NEW p \in Lineage(h)
        PROVE  p \in Lineage(n)'
    <3>1. h \in RevisionIds /\ revisions[h].thread = th /\ p \in 1..h
      BY <1>1, <2>3 DEF Chained, Lineage
    <3>2. /\ revisions[p].thread = th
          /\ \A q \in p..h : revisions[q].thread = th => revisions[q].kind = "steward"
      BY <2>3, <3>1 DEF Lineage
    <3>3. p \in RevisionIds /\ p \in 1..n
      BY <1>1, <3>1
    <3>4. ASSUME NEW q \in p..n, revisions'[q].thread = th
          PROVE  revisions'[q].kind = "steward"
      <4>1. CASE q = n
        BY <1>2, <1>5, <4>1
      <4>2. CASE q # n
        <5>1. q \in RevisionIds
          BY <1>1, <3>1, <4>2
        <5>2. revisions'[q] = revisions[q] /\ revisions[q].thread = th
          BY <1>2, <3>4, <5>1
        <5>3. q <= h
          BY <1>1, <5>1, <5>2 DEF Chained
        <5> QED BY <3>1, <3>2, <3>4, <5>1, <5>2, <5>3
      <4> QED BY <4>1, <4>2
    <3> QED BY <1>2, <1>3, <3>2, <3>3, <3>4
  <2> QED BY <2>1, <2>2, <2>3
<1> QED BY <1>4, <1>5

\* No summary cites a message that it, or what it was written from, was not given.
THEOREM NothingIsInvented == Spec => []CitationsAreGrounded
<1>1. Init => CitationsAreGrounded
  BY EmptySeq DEF Init, CitationsAreGrounded, RevisionIds
<1>2. Tables /\ CitationsAreGrounded /\ [Next]_vars => CitationsAreGrounded'
  <2> SUFFICES ASSUME Tables, CitationsAreGrounded, [Next]_vars
               PROVE  CitationsAreGrounded'
    OBVIOUS
  <2>1. TypeOK /\ Backed /\ Len(revisions) \in Nat
    BY HeadsAreRevisions DEF Tables
  <2>2. ASSUME NEW r \in RevisionIds
        PROVE  revisions'[r].cites \subseteq UNION {revisions'[p].batch : p \in Lineage(r)'}
    <3>1. revisions'[r] = revisions[r] /\ Lineage(r)' = Lineage(r)
      BY <2>1, TablesGrow, LineagesStay
    <3>2. \A p \in Lineage(r) : revisions'[p] = revisions[p]
      BY <2>1, LineagesStay
    <3>3. revisions[r].cites \subseteq UNION {revisions[p].batch : p \in Lineage(r)}
      BY DEF CitationsAreGrounded
    <3> QED BY <3>1, <3>2, <3>3
  <2>3. CASE UNCHANGED <<revisions, head>>
    <3>1. RevisionIds' = RevisionIds
      BY <2>3 DEF RevisionIds
    <3> QED BY <2>2, <3>1 DEF CitationsAreGrounded
  <2>4. ASSUME NEW th \in Threads, NEW rev \in RevisionRecord, Adds(th, rev)
        PROVE  CitationsAreGrounded'
    <3> PICK n : n = Len(revisions) + 1
      OBVIOUS
    <3>1. revisions'[n] = rev /\ RevisionIds' = RevisionIds \cup {n}
      BY <2>1, <2>4, AddsOne
    <3>2. rev.cites \subseteq UNION {revisions'[p].batch : p \in Lineage(n)'}
      <4>1. CASE rev = ManualRevision(th)
        BY <4>1 DEF ManualRevision
      <4>2. CASE Published(th, rev)
        <5>1. /\ rev.cites \subseteq Sources(head[th]) \cup rev.batch
              /\ rev.kind = "steward"
          BY <4>2 DEF Published
        <5>2. Lineage(n)' = {n} \cup (IF head[th] = 0 THEN {} ELSE Lineage(head[th]))
          BY <2>4, <5>1, LineagesGrow
        <5>3. CASE head[th] = 0
          BY <3>1, <5>1, <5>2, <5>3 DEF Sources
        <5>4. CASE head[th] \in RevisionIds
          <6>1. head[th] # 0
            BY <5>4 DEF RevisionIds
          <6>2. Sources(head[th]) \subseteq UNION {revisions[p].batch : p \in Lineage(head[th])}
            BY <5>4, <6>1 DEF CitationsAreGrounded, Sources
          <6>3. \A p \in Lineage(head[th]) : revisions'[p] = revisions[p]
            BY <2>1, <5>4, LineagesStay
          <6> QED BY <3>1, <5>1, <5>2, <6>1, <6>2, <6>3
        <5> QED BY <2>1, <5>3, <5>4, HeadsAreRevisions
      <4> QED BY <2>4, <4>1, <4>2 DEF Adds
    <3> QED BY <2>2, <3>1, <3>2 DEF CitationsAreGrounded
  <2> QED BY <2>1, <2>3, <2>4, RevisionSteps
<1> QED BY <1>1, <1>2, TablesHold, PTL DEF Spec

\* The revisions of the lineage that were given message i.
Seen(r, i) == {p \in Lineage(r) : i \in revisions[p].batch}

\* What the summaries before revision r account for, at the head h of a thread.
LEMMA HeadsEarnTheirCoverage ==
    ASSUME Tables, CoverageIsEarned, NEW th \in Threads, NEW h, h = head[th],
           NEW i \in 1..Len(messages), NEW old, old = IF h = 0 THEN {} ELSE Seen(h, i)
    PROVE  IF messages[i] = th /\ i <= Coverage(h) THEN Cardinality(old) = 1 ELSE old = {}
<1>1. h = 0 \/ h \in RevisionIds
  BY HeadsAreRevisions DEF Tables
<1>2. CASE h = 0
  BY <1>2 DEF Coverage
<1>3. CASE h # 0 /\ revisions[h].known
  <2>1. revisions[h].thread = th /\ Coverage(h) = revisions[h].coverage
    BY <1>3 DEF Tables, Chained, Coverage
  <2>2. LET seen == {p \in Lineage(h) : i \in revisions[p].batch} IN
            IF messages[i] = revisions[h].thread /\ i <= revisions[h].coverage
            THEN Cardinality(seen) = 1
            ELSE seen = {}
    BY <1>1, <1>3 DEF CoverageIsEarned
  <2>3. old = {p \in Lineage(h) : i \in revisions[p].batch}
    BY <1>3 DEF Seen
  <2> QED BY <2>1, <2>2, <2>3
<1>4. CASE h # 0 /\ ~revisions[h].known
  <2>1. h \in RevisionIds /\ revisions[h] \in RevisionRecord
    BY <1>1, <1>4, HeadsAreRevisions DEF Tables
  <2>2. revisions[h].kind = "manual"
    BY <1>4, <2>1 DEF Tables, Backed, RevisionRecord
  <2>3. Coverage(h) = 0
    BY <1>4, <2>1, <2>2 DEF Coverage, Tables, Backed
  <2>4. Lineage(h) = {}
    <3>1. \A p \in 1..h : h \in p..h
      BY <2>1, HeadsAreRevisions DEF RevisionIds, Tables
    <3> QED BY <2>2, <3>1 DEF Lineage
  <2>5. old = {}
    BY <1>4, <2>4 DEF Seen
  <2> QED BY <2>3, <2>5
<1> QED BY <1>2, <1>3, <1>4

\* A summary whose coverage is known accounts for each message up to there, once.
THEOREM CoverageIsAlwaysEarned == Spec => []CoverageIsEarned
<1>1. Init => CoverageIsEarned
  BY EmptySeq DEF Init, CoverageIsEarned, RevisionIds
<1>2. Tables /\ CoverageIsEarned /\ [Next]_vars => CoverageIsEarned'
  <2> SUFFICES ASSUME Tables, CoverageIsEarned, [Next]_vars
               PROVE  CoverageIsEarned'
    OBVIOUS
  <2>1. /\ TypeOK /\ Backed /\ Len(revisions) \in Nat /\ Len(messages) \in Nat
        /\ RevisionIds = 1..Len(revisions)
    BY HeadsAreRevisions DEF Tables, RevisionIds
  <2>2. /\ \A i \in 1..Len(messages) : messages'[i] = messages[i]
        /\ Len(messages) <= Len(messages') /\ Len(messages') \in Nat
        /\ \A r \in RevisionIds : revisions'[r] = revisions[r]
    BY <2>1, TablesGrow
  <2> DEFINE EarnedNow(r, i) ==
        IF messages'[i] = revisions'[r].thread /\ i <= revisions'[r].coverage
        THEN Cardinality(Seen(r, i)') = 1
        ELSE Seen(r, i)' = {}
  <2>3. ASSUME NEW r \in RevisionIds, revisions'[r].known, NEW i \in 1..Len(messages')
        PROVE  EarnedNow(r, i)
    <3>1. /\ Lineage(r)' = Lineage(r) /\ Lineage(r) \subseteq RevisionIds
          /\ \A p \in Lineage(r) : revisions'[p] = revisions[p]
      BY <2>1, LineagesStay
    <3>2. Seen(r, i)' = Seen(r, i)
      BY <3>1 DEF Seen
    <3>3. revisions'[r] = revisions[r]
      BY <2>2
    <3>4. CASE i \in 1..Len(messages)
      <4>1. IF messages[i] = revisions[r].thread /\ i <= revisions[r].coverage
            THEN Cardinality(Seen(r, i)) = 1
            ELSE Seen(r, i) = {}
        BY <2>3, <3>3, <3>4 DEF CoverageIsEarned, Seen
      <4>2. messages'[i] = messages[i]
        BY <2>2, <3>4
      <4> QED BY <3>2, <3>3, <4>1, <4>2
    <3>5. CASE i \notin 1..Len(messages)
      <4>1. i > Len(messages) /\ i \in Nat
        BY <2>1, <2>2, <3>5
      <4>2. Seen(r, i) = {}
        BY <2>1, <3>1, <3>5 DEF Seen, Backed
      <4>3. revisions[r].coverage \in Nat /\ revisions[r].coverage <= Len(messages)
        BY <2>1, HeadsAreRevisions DEF Backed, RevisionRecord
      <4>4. ~(i <= revisions[r].coverage)
        BY <2>1, <4>1, <4>3
      <4> QED BY <3>2, <3>3, <4>2, <4>4
    <3> QED BY <3>4, <3>5
  <2>4. CASE UNCHANGED <<revisions, head>>
    <3>1. RevisionIds' = RevisionIds
      BY <2>4 DEF RevisionIds
    <3>2. \A r \in RevisionIds' : revisions'[r].known => \A i \in 1..Len(messages') : EarnedNow(r, i)
      BY <2>3, <3>1
    <3> QED BY <3>2 DEF CoverageIsEarned, Seen
  <2>5. ASSUME NEW th \in Threads, NEW rev \in RevisionRecord, Adds(th, rev),
               UNCHANGED <<messages, held>>
        PROVE  CoverageIsEarned'
    <3> PICK n : n = Len(revisions) + 1
      OBVIOUS
    <3> PICK h : h = head[th]
      OBVIOUS
    <3>1. /\ revisions'[n] = rev /\ RevisionIds' = RevisionIds \cup {n}
          /\ messages' = messages /\ rev.thread = th
      BY <2>1, <2>5, AddsOne DEF Adds
    <3>2. ASSUME rev.known, NEW i \in 1..Len(messages)
          PROVE  EarnedNow(n, i)
      <4>1. Published(th, rev)
        BY <2>5, <3>2 DEF Adds, ManualRevision
      <4>2. /\ rev.kind = "steward" /\ Coverage(h) <= rev.coverage
            /\ rev.batch = {j \in MessageIds(th) : j > Coverage(h) /\ j <= rev.coverage}
        BY <4>1 DEF Published, Reread, Uncovered
      <4>3. Lineage(n)' = {n} \cup (IF h = 0 THEN {} ELSE Lineage(h))
        BY <2>5, <4>2, LineagesGrow
      <4> PICK old : old = IF h = 0 THEN {} ELSE Seen(h, i)
        OBVIOUS
      <4>4. IF messages[i] = th /\ i <= Coverage(h) THEN Cardinality(old) = 1 ELSE old = {}
        BY HeadsEarnTheirCoverage
      <4>5. h # 0 => /\ Lineage(h)' = Lineage(h)
                     /\ \A p \in Lineage(h) : revisions'[p] = revisions[p]
        BY <2>1, HeadsAreRevisions, LineagesStay
      <4>6. Seen(n, i)' = (IF i \in rev.batch THEN {n} ELSE {}) \cup old
        <5>1. Seen(n, i)' = {p \in Lineage(n)' : i \in revisions'[p].batch}
          BY DEF Seen
        <5> QED BY <3>1, <4>3, <4>5, <5>1 DEF Seen
      <4>7. i \in rev.batch <=> messages[i] = th /\ i > Coverage(h) /\ i <= rev.coverage
        BY <4>2 DEF MessageIds
      <4>8. Coverage(h) \in Int /\ rev.coverage \in Int /\ i \in Int
        <5>1. h # 0 => revisions[h] \in RevisionRecord
          BY <2>1, HeadsAreRevisions
        <5> QED BY <5>1 DEF Coverage, RevisionRecord
      <4>9. Cardinality({n}) = 1
        BY FS_Singleton
      <4>10. CASE messages[i] = th /\ i <= Coverage(h)
        <5>1. i <= rev.coverage
          BY <4>2, <4>8, <4>10
        <5>2. i \notin rev.batch
          BY <4>7, <4>8, <4>10
        <5>3. Seen(n, i)' = old
          BY <4>6, <5>2
        <5> QED BY <3>1, <4>4, <4>10, <5>1, <5>3
      <4>11. CASE messages[i] = th /\ ~(i <= Coverage(h)) /\ i <= rev.coverage
        <5>1. Seen(n, i)' = {n}
          BY <4>4, <4>6, <4>7, <4>8, <4>11
        <5> QED BY <3>1, <4>9, <4>11, <5>1
      <4>12. CASE ~(messages[i] = th /\ i <= rev.coverage)
        <5>1. ~(messages[i] = th /\ i <= Coverage(h)) /\ i \notin rev.batch
          BY <4>2, <4>7, <4>8, <4>12
        <5>2. Seen(n, i)' = {}
          BY <4>4, <4>6, <5>1
        <5> QED BY <3>1, <4>12, <5>2
      <4> QED BY <4>10, <4>11, <4>12
    <3>3. \A r \in RevisionIds' : revisions'[r].known => \A i \in 1..Len(messages') : EarnedNow(r, i)
      <4> HIDE DEF EarnedNow
      <4> QED BY <2>3, <3>1, <3>2
    <3> QED BY <3>3 DEF CoverageIsEarned, Seen
  <2> QED BY <2>1, <2>4, <2>5, RevisionSteps
<1> QED BY <1>1, <1>2, TablesHold, PTL DEF Spec

\* A delta that is called complete leaves no message out.
THEOREM CompleteMeansComplete == Spec => []CompleteDeltaMissesNothing
<1>1. Tables /\ CoverageIsEarned => CompleteDeltaMissesNothing
  <2> SUFFICES ASSUME Tables, CoverageIsEarned, NEW th \in Threads, NEW limit \in RecentLimits,
                      DeltaComplete(th, limit), NEW i \in MessageIds(th)
               PROVE  \/ i \in Recent(th, limit)
                      \/ \E p \in Lineage(head[th]) : i \in revisions[p].batch
    BY DEF CompleteDeltaMissesNothing
  <2> PICK h : h = head[th]
    OBVIOUS
  <2>1. h # 0 /\ i \in 1..Len(messages) /\ messages[i] = th /\ Len(messages) \in Nat
    BY HeadsAreRevisions DEF DeltaComplete, CoverageKnown, MessageIds, Tables
  <2>2. CASE i <= Coverage(h)
    <3> PICK old : old = IF h = 0 THEN {} ELSE Seen(h, i)
      OBVIOUS
    <3>1. Cardinality(old) = 1
      <4>1. IF messages[i] = th /\ i <= Coverage(h) THEN Cardinality(old) = 1 ELSE old = {}
        BY <2>1, HeadsEarnTheirCoverage
      <4> QED BY <2>1, <2>2, <4>1
    <3>2. old # {}
      BY <3>1, FS_EmptySet
    <3> QED BY <2>1, <3>2 DEF Seen
  <2>3. CASE ~(i <= Coverage(h))
    <3>1. i \in Uncovered(th)
      <4>1. Coverage(h) \in Int /\ i \in Int
        <5>1. revisions[h] \in RevisionRecord
          BY <2>1, HeadsAreRevisions DEF Tables
        <5> QED BY <2>1, <5>1 DEF Coverage, RevisionRecord
      <4> QED BY <2>3, <4>1 DEF Uncovered
    <3> PICK open : open = Uncovered(th)
      OBVIOUS
    <3> PICK kept : kept = Recent(th, limit) \cap open
      OBVIOUS
    <3>2. open \subseteq 1..Len(messages)
      BY DEF Uncovered, MessageIds
    <3>3. IsFiniteSet(open) /\ kept \in SUBSET open /\ Cardinality(open) = Cardinality(kept)
      BY <2>1, <3>2, IdsAreFinite DEF DeltaComplete
    <3>4. open = kept
      BY <3>3, FS_Subset
    <3> QED BY <3>1, <3>4
  <2> QED BY <2>2, <2>3
<1> QED BY <1>1, TablesHold, CoverageIsAlwaysEarned, PTL

-----------------------------------------------------------------------------
(* Every thread's summaries are one history.                               *)

\* Ancestors as an equation: f gives the summaries up to each of the first m
\* revisions of rv.
EntryRecord == [id : Nat, kind : {"steward", "manual"}, through : Nat]
Entry(r, rev) == [id |-> r, kind |-> rev.kind, through |-> rev.coverage]
FollowsParents(f, rv, m) ==
    f = [r \in 0..m |-> IF r = 0 THEN <<>> ELSE Append(f[rv[r].parent], Entry(r, rv[r]))]
ParentsAreOlder(rv, m) == \A r \in 1..m : rv[r].parent \in 0..(r - 1)

\* Where parents are older there is such a function.
LEMMA ParentsCanBeFollowed ==
    ASSUME NEW n \in Nat, NEW rv, ParentsAreOlder(rv, n)
    PROVE  \E f : FollowsParents(f, rv, n)
<1> DEFINE Bad == {m \in 0..n : ~\E f : FollowsParents(f, rv, m)}
<1> SUFFICES ASSUME n \in Bad PROVE FALSE
  OBVIOUS
<1>1. PICK m \in Bad : \A k \in Bad : m <= k
  <2>1. Bad \subseteq Nat /\ Bad # {}
    OBVIOUS
  <2> HIDE DEF Bad
  <2> QED BY <2>1, Least
<1>2. m \in 0..n /\ m \in Nat /\ ~\E f : FollowsParents(f, rv, m)
  OBVIOUS
<1>3. CASE m = 0
  <2> DEFINE f == [r \in 0..m |-> <<>>]
  <2>1. f = [r \in 0..m |-> IF r = 0 THEN <<>> ELSE Append(f[rv[r].parent], Entry(r, rv[r]))]
    BY <1>3
  <2>2. FollowsParents(f, rv, m)
    BY <2>1 DEF FollowsParents
  <2> QED BY <1>2, <2>2
<1>4. CASE m # 0
  <2>1. m - 1 \in 0..n /\ m - 1 \notin Bad
    BY <1>1, <1>2, <1>4
  <2>2. PICK f : FollowsParents(f, rv, m - 1)
    BY <2>1
  <2> DEFINE new == Append(f[rv[m].parent], Entry(m, rv[m]))
             g == [r \in 0..m |-> IF r = m THEN new ELSE f[r]]
  <2>3. ASSUME NEW r \in 0..m, r # 0
        PROVE  g[r] = Append(g[rv[r].parent], Entry(r, rv[r]))
    <3>1. rv[r].parent \in 0..(r - 1)
      BY <1>2, <2>3 DEF ParentsAreOlder
    <3>2. rv[r].parent \in 0..m /\ rv[r].parent # m
      BY <1>2, <3>1
    <3>3. g[rv[r].parent] = f[rv[r].parent]
      BY <3>2
    <3>4. CASE r = m
      BY <3>3, <3>4
    <3>5. CASE r # m
      <4>1. r \in 0..(m - 1)
        BY <1>2, <3>5
      <4>2. f[r] = Append(f[rv[r].parent], Entry(r, rv[r]))
        BY <2>2, <2>3, <4>1 DEF FollowsParents
      <4> QED BY <3>3, <3>5, <4>2
    <3> QED BY <3>4, <3>5
  <2>4. g[0] = <<>>
    <3>1. 0 \in 0..(m - 1) /\ 0 \in 0..m
      BY <1>2, <1>4
    <3>2. f[0] = <<>>
      BY <2>2, <3>1 DEF FollowsParents
    <3> QED BY <1>4, <3>1, <3>2
  <2>5. \A r \in 0..m :
           g[r] = IF r = 0 THEN <<>> ELSE Append(g[rv[r].parent], Entry(r, rv[r]))
    <3> HIDE DEF g
    <3> QED BY <2>3, <2>4
  <2>6. g = [r \in 0..m |-> g[r]]
    OBVIOUS
  <2>7. FollowsParents(g, rv, m)
    <3> HIDE DEF g
    <3> QED BY <2>5, <2>6 DEF FollowsParents
  <2> QED BY <1>2, <2>7
<1> QED BY <1>3, <1>4

\* Two such functions agree where their revisions do.
LEMMA ParentsLeadToOneHistory ==
    ASSUME NEW m \in Nat, NEW n \in Nat, m <= n, NEW rv, NEW rw, NEW f, NEW g,
           ParentsAreOlder(rv, m), \A r \in 1..m : rw[r] = rv[r],
           FollowsParents(f, rv, m), FollowsParents(g, rw, n)
    PROVE  \A r \in 0..m : g[r] = f[r]
<1> DEFINE Bad == {r \in 0..m : g[r] # f[r]}
<1> SUFFICES ASSUME Bad # {} PROVE FALSE
  OBVIOUS
<1>1. PICK r \in Bad : \A k \in Bad : r <= k
  <2>1. Bad \subseteq Nat
    OBVIOUS
  <2> HIDE DEF Bad
  <2> QED BY <2>1, Least
<1>2. r \in 0..m /\ r \in 0..n /\ g[r] # f[r]
  OBVIOUS
<1>3. r # 0
  BY <1>2 DEF FollowsParents
<1>4. /\ f[r] = Append(f[rv[r].parent], Entry(r, rv[r]))
      /\ g[r] = Append(g[rw[r].parent], Entry(r, rw[r]))
  BY <1>2, <1>3 DEF FollowsParents
<1>5. r \in 1..m /\ rw[r] = rv[r] /\ rv[r].parent \in 0..(r - 1)
  BY <1>2, <1>3 DEF ParentsAreOlder
<1>6. rv[r].parent \notin Bad /\ rv[r].parent \in 0..m
  BY <1>1, <1>5
<1>7. g[rv[r].parent] = f[rv[r].parent]
  BY <1>6
<1> QED BY <1>2, <1>4, <1>5, <1>7

\* The history up to a revision ends with it, and names no later one.
LEMMA HistoriesEndThere ==
    ASSUME NEW m \in Nat, NEW rv, NEW f, ParentsAreOlder(rv, m), FollowsParents(f, rv, m),
           \A r \in 1..m : Entry(r, rv[r]) \in EntryRecord
    PROVE  \A r \in 0..m :
              /\ f[r] \in Seq(EntryRecord)
              /\ \A k \in 1..Len(f[r]) : f[r][k].id <= r
              /\ r # 0 => f[r] # <<>> /\ f[r][Len(f[r])] = Entry(r, rv[r])
              /\ r = 0 => f[r] = <<>>
<1> DEFINE Fine(r) == /\ f[r] \in Seq(EntryRecord)
                      /\ \A k \in 1..Len(f[r]) : f[r][k].id <= r
                      /\ r # 0 => f[r] # <<>> /\ f[r][Len(f[r])] = Entry(r, rv[r])
                      /\ r = 0 => f[r] = <<>>
           Bad == {r \in 0..m : ~Fine(r)}
<1> SUFFICES ASSUME Bad # {} PROVE FALSE
  OBVIOUS
<1>1. PICK r \in Bad : \A k \in Bad : r <= k
  <2>1. Bad \subseteq Nat
    OBVIOUS
  <2> HIDE DEF Bad
  <2> QED BY <2>1, Least
<1>2. r \in 0..m /\ r \in Nat /\ ~Fine(r)
  OBVIOUS
<1>3. CASE r = 0
  <2>1. f[r] = <<>>
    BY <1>2, <1>3 DEF FollowsParents
  <2>2. Len(f[r]) = 0 /\ f[r] \in Seq(EntryRecord)
    BY <2>1, EmptySeq
  <2> QED BY <1>2, <1>3, <2>1, <2>2
<1>4. CASE r # 0
  <2> PICK p : p = rv[r].parent
    OBVIOUS
  <2>1. r \in 1..m /\ p \in 0..(r - 1)
    BY <1>2, <1>4 DEF ParentsAreOlder
  <2>2. p \notin Bad /\ p \in 0..m /\ p \in Nat /\ p <= r
    <3>1. p \in 0..m /\ p \in Nat /\ p <= r /\ ~(r <= p)
      BY <1>2, <2>1
    <3> HIDE DEF Bad
    <3> QED BY <1>1, <3>1
  <2>3. f[p] \in Seq(EntryRecord) /\ \A k \in 1..Len(f[p]) : f[p][k].id <= p
    BY <2>2
  <2> PICK s : s = f[p]
    OBVIOUS
  <2> PICK e : e = Entry(r, rv[r])
    OBVIOUS
  <2> PICK t : t = f[r]
    OBVIOUS
  <2>4. t = Append(s, e)
    BY <1>2, <1>4 DEF FollowsParents
  <2>5. e \in EntryRecord /\ e.id = r
    BY <2>1 DEF Entry
  <2>6. /\ t \in Seq(EntryRecord) /\ Len(t) = Len(s) + 1 /\ Len(s) \in Nat
        /\ \A i \in 1..Len(s) : t[i] = s[i] /\ s[i] \in EntryRecord
        /\ t[Len(s) + 1] = e
    BY <2>3, <2>4, <2>5, Appended
  <2>7. \A k \in 1..Len(t) : t[k].id <= r
    <3> TAKE k \in 1..Len(t)
    <3>1. CASE k = Len(s) + 1
      BY <1>2, <2>5, <2>6, <3>1
    <3>2. CASE k # Len(s) + 1
      <4>1. k \in 1..Len(s)
        BY <2>6, <3>2
      <4>2. t[k] = s[k] /\ s[k].id \in Nat /\ s[k].id <= p
        BY <2>3, <2>6, <4>1 DEF EntryRecord
      <4> QED BY <1>2, <2>2, <4>2
    <3> QED BY <3>1, <3>2
  <2>8. t # <<>> /\ t[Len(t)] = e
    BY <2>6, EmptySeq
  <2> QED BY <1>2, <1>4, <2>6, <2>7, <2>8
<1> QED BY <1>3, <1>4

\* Ancestors gives the history along the parents.
AncestorsAreHistory ==
    /\ FollowsParents(Ancestors, revisions, Len(revisions))
    /\ ParentsAreOlder(revisions, Len(revisions))
    /\ \A r \in 1..Len(revisions) : Entry(r, revisions[r]) \in EntryRecord

\* Parents are older, so that Ancestors is what its definition says.
LEMMA AncestorsFollowParents == Tables => AncestorsAreHistory
<1> SUFFICES ASSUME Tables PROVE AncestorsAreHistory
  OBVIOUS
<1> PICK n \in Nat : n = Len(revisions)
  BY HeadsAreRevisions DEF Tables
<1> PICK rv : rv = revisions
  OBVIOUS
<1>1. \A r \in 1..n : rv[r] \in RevisionRecord /\ rv[r].parent < r
  BY HeadsAreRevisions DEF Tables, Chained, RevisionIds
<1>2. ParentsAreOlder(rv, n)
  BY <1>1, BoundsAssumption DEF ParentsAreOlder, RevisionRecord
<1>3. \A r \in 1..n : Entry(r, rv[r]) \in EntryRecord
  BY <1>1, BoundsAssumption DEF Entry, EntryRecord, RevisionRecord
<1>4. Ancestors = CHOOSE f : FollowsParents(f, rv, n)
  BY DEF Ancestors, FollowsParents, Entry
<1>5. \E f : FollowsParents(f, rv, n)
  BY <1>2, ParentsCanBeFollowed
<1>6. FollowsParents(Ancestors, rv, n)
  BY <1>4, <1>5
<1> QED BY <1>2, <1>3, <1>6 DEF AncestorsAreHistory

\* What the abstract history of a thread is, and what it ends with.
LEMMA HistoryOfThread ==
    ASSUME Tables, NEW r \in 0..Len(revisions)
    PROVE  /\ Ancestors[r] \in Seq(EntryRecord)
           /\ Len(Ancestors[r]) \in Nat
           /\ \A k \in 1..Len(Ancestors[r]) : Ancestors[r][k].id <= r
           /\ History!Covered(Ancestors[r]) = Coverage(r)
<1> PICK n \in Nat : n = Len(revisions)
  BY HeadsAreRevisions DEF Tables
<1> PICK rv : rv = revisions
  OBVIOUS
<1> PICK f : f = Ancestors
  OBVIOUS
<1>1. /\ FollowsParents(f, rv, n) /\ ParentsAreOlder(rv, n)
      /\ \A i \in 1..n : Entry(i, rv[i]) \in EntryRecord
  BY AncestorsFollowParents DEF AncestorsAreHistory
<1>2. /\ f[r] \in Seq(EntryRecord)
      /\ \A k \in 1..Len(f[r]) : f[r][k].id <= r
      /\ r # 0 => f[r] # <<>> /\ f[r][Len(f[r])] = Entry(r, rv[r])
      /\ r = 0 => f[r] = <<>>
  BY <1>1, HistoriesEndThere
<1>3. Len(f[r]) \in Nat
  BY <1>2, LenProperties
<1>4. History!Covered(f[r]) = Coverage(r)
  BY <1>2 DEF History!Covered, Coverage, Entry
<1> QED BY <1>2, <1>3, <1>4

\* The histories of revisions there are stay, and a new revision's adds an entry.
LEMMA HistoriesGrow ==
    ASSUME Tables, Tables', [Next]_vars
    PROVE  /\ \A r \in 0..Len(revisions) : Ancestors'[r] = Ancestors[r]
           /\ \A r \in 1..Len(revisions') :
                 Ancestors'[r] = Append(Ancestors'[revisions'[r].parent], Entry(r, revisions'[r]))
<1> PICK m \in Nat : m = Len(revisions)
  BY HeadsAreRevisions DEF Tables
<1> PICK n \in Nat : n = Len(revisions') /\ m <= n
  BY TablesGrow DEF Tables
<1> PICK rv : rv = revisions
  OBVIOUS
<1> PICK rw : rw = revisions'
  OBVIOUS
<1> PICK f : f = Ancestors
  OBVIOUS
<1> PICK g : g = Ancestors'
  OBVIOUS
<1>1. AncestorsAreHistory'
  BY AncestorsFollowParents, PTL
<1>2. FollowsParents(f, rv, m) /\ ParentsAreOlder(rv, m)
  BY AncestorsFollowParents DEF AncestorsAreHistory
<1>3. FollowsParents(g, rw, n) /\ ParentsAreOlder(rw, n)
  BY <1>1 DEF AncestorsAreHistory, FollowsParents, ParentsAreOlder
<1>4. \A r \in 1..m : rw[r] = rv[r]
  BY TablesGrow DEF Tables, RevisionIds
<1>5. \A r \in 0..m : g[r] = f[r]
  BY <1>2, <1>3, <1>4, ParentsLeadToOneHistory
<1>6. \A r \in 1..n : g[r] = Append(g[rw[r].parent], Entry(r, rw[r]))
  <2> TAKE r \in 1..n
  <2>1. r \in 0..n /\ r # 0
    OBVIOUS
  <2> QED BY <1>3, <2>1 DEF FollowsParents
<1> QED BY <1>5, <1>6

-----------------------------------------------------------------------------
(* The refinement.                                                         *)

\* What the histories and what is shown stand for.
HistoryOf == [th \in Threads |-> Ancestors[head[th]]]
ShownTo == [s \in Stewards |->
               IF held[s] = NoWorkset THEN NoWorkset
               ELSE [thread |-> held[s].thread, history |-> Ancestors[held[s].base]]]

\* A workset is not the absence of one.
LEMMA WorksetsAreNotNone ==
    ASSUME NEW w \in WorksetRecord
    PROVE  w # NoWorkset
<1>1. DOMAIN w # DOMAIN NoWorkset
  BY DEF WorksetRecord, NoWorkset
<1> QED BY <1>1

\* Reading a workset shows a steward the history of a thread.
LEMMA FetchShows ==
    ASSUME Tables, Tables', [Next]_vars,
           NEW s \in Stewards, NEW th \in Threads, FetchWorkset(s, th)
    PROVE  History!Show(s)
<1> PICK w : w = Workset(th, EventsAfterExpiry, FirstN(Uncovered(th), BatchLimit))
  OBVIOUS
<1>1. /\ held' = [held EXCEPT ![s] = w] /\ UNCHANGED <<revisions, head>>
      /\ held \in [Stewards -> WorksetRecord \cup {NoWorkset}]
  BY DEF FetchWorkset, Tables, TypeOK
<1>2. w # NoWorkset /\ w.thread = th /\ w.base = head[th]
  BY WorksetsAreTrue, WorksetsAreNotNone DEF Workset
<1>3. Ancestors' = Ancestors
  BY <1>1 DEF Ancestors
<1>4. HistoryOf' = HistoryOf
  BY <1>1, <1>3 DEF HistoryOf
<1>5. ShownTo' = [ShownTo EXCEPT ![s] = [thread |-> th, history |-> HistoryOf[th]]]
  BY <1>1, <1>2, <1>3 DEF ShownTo, HistoryOf
<1> QED BY <1>4, <1>5 DEF History!Show, HistoryOf, ShownTo

\* A revision is an entry added to the history of its thread, by hand or by a steward
\* that was shown all of it.
LEMMA AddingExtends ==
    ASSUME Tables, Tables', HeldIsTrue, [Next]_vars, UNCHANGED <<messages, held>>,
           NEW th \in Threads, NEW rev \in RevisionRecord, Adds(th, rev)
    PROVE  History!Overwrite(th) \/ \E s \in Stewards : History!Extend(s)
<1> PICK n : n = Len(revisions) + 1
  OBVIOUS
<1> PICK e : e = Entry(n, rev)
  OBVIOUS
<1> PICK h : h = head[th]
  OBVIOUS
<1>1. /\ Len(revisions') = n /\ revisions'[n] = rev /\ Len(revisions) \in Nat
      /\ head'[th] = n /\ \A t \in Threads : t # th => head'[t] = head[t]
      /\ rev.parent = h /\ h \in 0..Len(revisions)
      /\ \A t \in Threads : head[t] \in 0..Len(revisions)
  BY AddsOne, HeadsAreRevisions DEF Tables, Adds, TypeOK
<1>2. /\ \A r \in 0..Len(revisions) : Ancestors'[r] = Ancestors[r]
      /\ Ancestors'[n] = Append(Ancestors'[h], e)
  BY <1>1, HistoriesGrow
<1> PICK new : new = HistoryOf'
  OBVIOUS
<1> PICK old : old = HistoryOf
  OBVIOUS
<1>3. /\ old = [t \in Threads |-> Ancestors[head[t]]]
      /\ new = [t \in Threads |-> Ancestors'[head'[t]]]
  BY DEF HistoryOf
<1>4. new = [old EXCEPT ![th] = Append(@, e)] /\ new[th] = Append(old[th], e)
  <2>1. \A t \in Threads : new[t] = IF t = th THEN Append(old[th], e) ELSE old[t]
    <3>1. new[th] = Append(old[th], e)
      <4>1. Ancestors'[h] = Ancestors[h]
        BY <1>1, <1>2
      <4> QED BY <1>1, <1>2, <1>3, <4>1
    <3>2. \A t \in Threads : t # th => new[t] = old[t]
      BY <1>1, <1>2, <1>3
    <3> QED BY <3>1, <3>2
  <2> QED BY <1>3, <2>1
<1>5. \A t \in Threads : /\ old[t] \in Seq(EntryRecord) /\ DOMAIN old[t] = 1..Len(old[t])
                         /\ \A k \in DOMAIN old[t] : old[t][k].id < e.id
  <2> TAKE t \in Threads
  <2>1. /\ old[t] \in Seq(EntryRecord)
        /\ \A k \in 1..Len(old[t]) : old[t][k].id <= head[t]
    BY <1>1, <1>3, HistoryOfThread
  <2>2. DOMAIN old[t] = 1..Len(old[t]) /\ \A k \in 1..Len(old[t]) : old[t][k] \in EntryRecord
    BY <2>1, LenProperties, ElementOfSeq
  <2>3. e.id = n
    BY DEF Entry
  <2>4. head[t] \in Nat /\ head[t] < n
    BY <1>1
  <2>5. \A k \in 1..Len(old[t]) : old[t][k].id \in Nat
    BY <2>2 DEF EntryRecord
  <2> QED BY <1>1, <2>1, <2>2, <2>3, <2>4, <2>5
<1>6. /\ new[th] # <<>> /\ new[th][Len(new[th])] = e
  <2>1. old[th] \in Seq(EntryRecord) /\ e \in EntryRecord
    BY <1>1, <1>5, BoundsAssumption DEF Entry, EntryRecord, RevisionRecord
  <2>2. /\ Len(new[th]) = Len(old[th]) + 1 /\ Len(old[th]) \in Nat
        /\ new[th][Len(old[th]) + 1] = e
    BY <1>4, <2>1, Appended
  <2> QED BY <2>2, EmptySeq
<1>7. History!Covered(old[th]) = Coverage(h)
  BY <1>1, <1>3, HistoryOfThread
<1>8. ShownTo' = ShownTo
  <2>1. \A s \in Stewards : held[s] # NoWorkset => held[s].base \in 0..Len(revisions)
    BY <1>1 DEF HeldIsTrue, InHand, Tables, TypeOK, WorksetRecord
  <2> QED BY <1>2, <2>1 DEF ShownTo
<1>9. History!IsNew(e)
  BY <1>5 DEF History!IsNew, HistoryOf
<1>10. e.kind = rev.kind /\ e.through = rev.coverage
  BY DEF Entry
<1>11. ASSUME NEW kind, kind = rev.kind,
              kind = "steward" => rev.coverage >= Coverage(h),
              kind = "manual" => rev.coverage = 0
       PROVE  History!Added(th, kind)
  BY <1>4, <1>6, <1>7, <1>8, <1>9, <1>10, <1>11 DEF History!Added, HistoryOf, ShownTo
<1>12. CASE rev = ManualRevision(th)
  <2>1. rev.kind = "manual" /\ rev.coverage = 0
    BY <1>12 DEF ManualRevision
  <2> QED BY <1>11, <2>1 DEF History!Overwrite
<1>13. CASE Published(th, rev)
  <2>1. rev.kind = "steward" /\ Coverage(h) <= rev.coverage
    BY <1>13 DEF Published
  <2>2. PICK s \in Stewards : held[s] # NoWorkset /\ held[s].thread = th /\ held[s].base = h
    BY <1>13 DEF Published
  <2>3. ShownTo[s] = [thread |-> th, history |-> HistoryOf[th]]
    BY <2>2 DEF ShownTo, HistoryOf
  <2>4. ShownTo[s] # NoWorkset
    <3>1. DOMAIN ShownTo[s] # DOMAIN NoWorkset
      BY <2>3 DEF NoWorkset
    <3> QED BY <3>1
  <2>5. History!Added(th, "steward")
    BY <1>11, <2>1
  <2>6. History!Extend(s)
    BY <2>3, <2>4, <2>5 DEF History!Extend, HistoryOf, ShownTo
  <2> QED BY <2>6
<1> QED BY <1>12, <1>13 DEF Adds

\* No summary is lost, and none replaced by a steward that did not see it.
THEOREM HistoryIsKept == Spec => KeepsHistory
<1>1. Init => History!Init
  <2> SUFFICES ASSUME Init PROVE History!Init
    OBVIOUS
  <2>1. Tables /\ head = [th \in Threads |-> 0] /\ held = [s \in Stewards |-> NoWorkset]
    BY TablesInit DEF Init
  <2>2. Len(revisions) = 0 /\ Ancestors[0] = <<>>
    BY <2>1, AncestorsFollowParents, EmptySeq DEF AncestorsAreHistory, FollowsParents, Init
  <2> QED BY <2>1, <2>2 DEF History!Init
<1>2. Tables /\ Tables' /\ HeldIsTrue /\ [Next]_vars => [History!Next]_(History!vars)
  <2> SUFFICES ASSUME Tables, Tables', HeldIsTrue, [Next]_vars
               PROVE  History!Next \/ UNCHANGED History!vars
    OBVIOUS
  <2>1. CASE UNCHANGED <<revisions, head>>
    <3>1. CASE held' = held
      BY <2>1, <3>1 DEF History!vars, Ancestors
    <3>2. ASSUME NEW s \in Stewards, NEW th \in Threads, FetchWorkset(s, th)
          PROVE  History!Next
      BY <3>2, FetchShows DEF History!Next
    <3> QED BY <3>1, <3>2, HeldSteps
  <2>2. ASSUME UNCHANGED <<messages, held>>, NEW th \in Threads, NEW rev \in RevisionRecord,
               Adds(th, rev)
        PROVE  History!Next
    BY <2>2, AddingExtends DEF History!Next
  <2> QED BY <2>1, <2>2, RevisionSteps DEF Tables
<1> QED BY <1>1, <1>2, TablesHold, HeldWorksetsAreTrue, PTL DEF Spec, KeepsHistory, History!Spec
===============================================================================
