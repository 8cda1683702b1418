------------------------------- MODULE Summary -------------------------------
(***************************************************************************)
(* The message bus and the Summaries of the Watercooler service            *)
(* (service.py), and the steward (steward.py): posting messages, handing   *)
(* out worksets, checking and publishing a draft, replacing a summary by   *)
(* hand, and the onboarding packet.                                        *)
(*                                                                         *)
(* A steward fetches a workset, spends minutes in a model, and publishes   *)
(* what it wrote from it; meanwhile messages arrive, tasks change, leases  *)
(* run out, and others publish.  All of these handlers write under         *)
(* SQLite's write lock, so each is one action; a workset in a steward's    *)
(* hands is as old as it likes.                                            *)
(*                                                                         *)
(* The Taskboard is here only as far as summaries see it: per thread, the  *)
(* id of its newest task event.  Every change of a task appends an event   *)
(* in the same transaction (TrailExplainsBoard in Taskboard), so the       *)
(* digest of the board is a function of that id.  The titles of the tasks  *)
(* are kept, because no draft may propose a task there is.  The summaries  *)
(* table, which older clients read, is written with every head and is left *)
(* out.                                                                    *)
(***************************************************************************)
EXTENDS Integers, Sequences, FiniteSets, SummaryDraft

CONSTANTS
    Threads,
    Stewards,      \* clients holding a workset
    BatchLimit,    \* SUMMARY_BATCH_LIMIT
    RecentLimits,  \* values of recent_limit an onboarding request asks for
    TaskTitles,    \* bound: the titles tasks are created with
    MaxMessages,   \* bound: messages posted
    MaxRevisions,  \* bound: summary revisions written
    MaxEvents      \* bound: task events

ASSUME BatchLimitAssumption == BatchLimit \in Nat \ {0}
ASSUME ThreadsAssumption == IsFiniteSet(Threads)
ASSUME TaskTitlesAssumption == TaskTitles \subseteq Titles
ASSUME RecentLimitsAssumption == RecentLimits \subseteq Nat \ {0}
ASSUME BoundsAssumption ==
    MaxMessages \in Nat /\ MaxRevisions \in Nat /\ MaxEvents \in Nat

VARIABLES
    messages,   \* the messages table: the thread of message 1, 2, ...
    events,     \* per thread: the newest task event
    titles,     \* per thread: the titles of its tasks
    lapsed,     \* the threads with a claim whose lease is over and not yet expired
    revisions,  \* summary_revisions with summary_message_sources, by id
    head,       \* summary_heads: per thread its revision, 0 for none
    held        \* per steward: the workset it last fetched

board == <<events, titles, lapsed>>
vars == <<messages, board, revisions, head, held>>

MessageIds(th) == {i \in 1..Len(messages) : messages[i] = th}

\* The last element of a set of ids, and its first n elements.
LastOr(S, default) == IF S = {} THEN default ELSE CHOOSE i \in S : \A j \in S : j <= i
FirstN(S, n) == {i \in S : Cardinality({j \in S : j <= i}) <= n}

Coverage(r) == IF r = 0 THEN 0 ELSE revisions[r].coverage
Sources(r)  == IF r = 0 THEN {} ELSE revisions[r].cites

-----------------------------------------------------------------------------
(* Worksets.                                                               *)

\* expire_stale_claims() at the start of a transaction: each thread with a
\* lapsed claim gets an event.
EventsAfterExpiry == [th \in Threads |-> events[th] + (IF th \in lapsed THEN 1 ELSE 0)]
Expire ==
    /\ events' = EventsAfterExpiry
    /\ lapsed' = {}
    /\ UNCHANGED titles

\* Mutant: the hash covers whether more messages are waiting.
Workset_HashesMore(th, head_event, batch) ==
    [thread |-> th, base |-> head[th], from |-> Coverage(head[th]),
     through |-> LastOr(batch, Coverage(head[th])), batch |-> batch, events |-> head_event[th],
     titles |-> titles[th],
     sources |-> Sources(head[th]) \cup
        (IF \E i \in MessageIds(th) : i > LastOr(batch, Coverage(head[th])) THEN {-1} ELSE {})]

\* What the canonical JSON of a workset says, which is what its hash stands for.
Workset(th, head_event, batch) ==
    [thread |-> th, base |-> head[th], from |-> Coverage(head[th]),
     through |-> LastOr(batch, Coverage(head[th])), batch |-> batch, events |-> head_event[th],
     titles |-> titles[th], sources |-> Sources(head[th])]

NoWorkset == [thread |-> "none"]

\* Mutant: the message the summary ends with counts as uncovered.
Uncovered_Inclusive(th) == {i \in MessageIds(th) : i >= Coverage(head[th])}

\* The messages of the thread after the coverage of its head.
Uncovered(th) == {i \in MessageIds(th) : i > Coverage(head[th])}

\* GET /v1/summary/workset
FetchWorkset(s, th) ==
    /\ Expire
    /\ held' = [held EXCEPT ![s] =
           Workset(th, EventsAfterExpiry, FirstN(Uncovered(th), BatchLimit))]
    /\ UNCHANGED <<messages, revisions, head>>

-----------------------------------------------------------------------------
(* The steward.                                                            *)

\* Bounds on what a model answers: a fact with up to two sources, in one section
\* or in all, and no proposals; or a plain fact and up to two proposals.
Facts(k, items) == [kind \in Range(Kinds) |-> IF kind \in k THEN items ELSE <<>>]
SourceLists == UNION {[1..n -> 1..MaxMessages] : n \in 0..2}
ProposalLists == UNION {[1..n -> [title : Titles, sources : {<<1>>}]] : n \in 0..2}
Answers ==
    [sections  : {Facts({}, <<>>), Facts(Range(Kinds), <<<<1>>>>)}
                    \cup {Facts({Kinds[1]}, <<sources>>) : sources \in SourceLists},
     proposals : {<<>>}]
    \cup [sections : {Facts({Kinds[1]}, <<<<1>>>>)}, proposals : ProposalLists]
Drafts == {Canonical(answer) : answer \in Answers}

\* validate_model_draft(), of the draft the model's answer stands for.
StewardAccepts(w, draft) ==
    /\ w.sources \cup w.batch # {}
    /\ ValidDraft(draft, w.sources \cup w.batch)
    /\ ProposalsAreNew(draft, w.titles)

-----------------------------------------------------------------------------
(* Publication.                                                            *)

\* The batch of a publication: the thread's messages up to its coverage.
Reread(th, through) == {i \in Uncovered(th) : i <= through}

\* build_summary_workset() with an explicit coverage.
BatchEndsAt(w) ==
    LET batch == Reread(w.thread, w.through) IN
    /\ w.through >= Coverage(head[w.thread])
    /\ Cardinality(batch) <= BatchLimit
    /\ LastOr(batch, Coverage(head[w.thread])) = w.through

\* Mutant: the draft is checked against its batch and the board only.
Accepts_AnyParent(w) == BatchEndsAt(w) /\ EventsAfterExpiry[w.thread] = w.events

\* Mutant: the checks run before stale claims are expired.
Accepts_BeforeExpiry(w) ==
    /\ head[w.thread] = w.base
    /\ BatchEndsAt(w)
    /\ Workset(w.thread, events, Reread(w.thread, w.through)) = w

\* The checks of a publication of workset w, before its draft is looked at:
\* parent, batch, task event head, and everything else through the hash.
Accepts(w) ==
    /\ head[w.thread] = w.base
    /\ BatchEndsAt(w)
    /\ EventsAfterExpiry[w.thread] = w.events
    /\ Workset(w.thread, EventsAfterExpiry, Reread(w.thread, w.through)) = w
    /\ Reread(w.thread, w.through) = w.batch

\* Mutant: any message of the service may be cited.
MayCite_AnyMessage(w) == 1..Len(messages)

\* allowed_source_ids
MayCite(w) == w.sources \cup w.batch

\* The checks of the draft, which follow, against the tables.
AcceptsDraft(w, draft) ==
    /\ ValidDraft(draft, MayCite(w))
    /\ ProposalsAreNew(draft, titles[w.thread])

\* Mutant: the head is one past the row inserted.
AddRevision_NextHead(th, rev) ==
    /\ revisions' = Append(revisions, rev)
    /\ head' = [head EXCEPT ![th] = Len(revisions) + 2]

\* The new revision, and the head of its thread.
AddRevision(th, rev) ==
    /\ revisions' = Append(revisions, rev)
    /\ head' = [head EXCEPT ![th] = Len(revisions) + 1]

\* POST /v1/summary/publish of workset w with a draft.  The steward may send it
\* again.
PublishSummary(w, draft) ==
    /\ AcceptsDraft(w, draft)
    /\ RowsAreDistinct(draft)
    /\ Expire
    /\ AddRevision(w.thread,
           [thread |-> w.thread, kind |-> "steward", parent |-> w.base,
            coverage |-> w.through, known |-> TRUE, events |-> w.events,
            batch |-> w.batch, cites |-> Cited(draft)])
    /\ UNCHANGED <<messages, held>>

\* A publication that is refused commits the expiries of its transaction.
RefuseSummary ==
    /\ lapsed # {}
    /\ Expire
    /\ UNCHANGED <<messages, revisions, head, held>>

PublishRequest(w) ==
    \/ /\ Len(revisions) < MaxRevisions
       /\ Accepts(w)
       /\ \E draft \in Drafts : PublishSummary(w, draft)
    \/ /\ ~Accepts(w) \/ \E draft \in Drafts : ~AcceptsDraft(w, draft)
       /\ RefuseSummary

\* What a client may send of the workset it holds: all of it, or with its batch
\* cut short and its hash computed again.
Shortened(w) ==
    {w} \cup {[w EXCEPT !.batch = {i \in w.batch : i <= k}, !.through = k] :
                 k \in w.from..w.through}

\* Mutant: a summary written by hand inherits the coverage it replaces.
ManualRevision_InheritsCoverage(th) ==
    [thread |-> th, kind |-> "manual", parent |-> head[th],
     coverage |-> Coverage(head[th]), known |-> TRUE, events |-> events[th],
     batch |-> {}, cites |-> {}]

\* No draft, no workset, and the coverage is unknown again.
ManualRevision(th) ==
    [thread |-> th, kind |-> "manual", parent |-> head[th],
     coverage |-> 0, known |-> FALSE, events |-> events[th],
     batch |-> {}, cites |-> {}]

\* POST /v1/summary
UpdateSummary(th) ==
    /\ Len(revisions) < MaxRevisions
    /\ AddRevision(th, ManualRevision(th))
    /\ UNCHANGED <<messages, board, held>>

-----------------------------------------------------------------------------
(* Onboarding.                                                             *)

\* GET /v1/onboarding: how much of the delta the packet carries.
Recent(th, limit) ==
    {i \in MessageIds(th) : Cardinality({j \in MessageIds(th) : j >= i}) <= limit}
CoverageKnown(th) == head[th] # 0 /\ revisions[head[th]].known

DeltaComplete(th, limit) ==
    /\ CoverageKnown(th)
    /\ Cardinality(Uncovered(th)) = Cardinality(Recent(th, limit) \cap Uncovered(th))

\* Besides answering, the handler expires stale claims.
GetOnboarding ==
    /\ lapsed # {}
    /\ Expire
    /\ UNCHANGED <<messages, revisions, head, held>>

-----------------------------------------------------------------------------
(* The rest of the service, as summaries see it.                           *)

\* POST /v1/post: SQLite has one writer, so ids commit in order.
PostMessage(th) ==
    /\ Len(messages) < MaxMessages
    /\ messages' = Append(messages, th)
    /\ UNCHANGED <<board, revisions, head, held>>

\* Bound: the task events there are, those the next expiry will add included.
TaskEvents == {event \in Threads \X (1..MaxEvents) : event[2] <= EventsAfterExpiry[event[1]]}
Room == Cardinality(TaskEvents) < MaxEvents

\* A request of the Taskboard that changes a task of the thread.
ChangeBoard(th) ==
    /\ Room /\ events[th] > 0
    /\ events' = [EventsAfterExpiry EXCEPT ![th] = @ + 1]
    /\ lapsed' = {}
    /\ UNCHANGED <<titles, messages, revisions, head, held>>

\* POST /v1/tasks expires nothing.
CreateTask(th, title) ==
    /\ Room
    /\ events' = [events EXCEPT ![th] = @ + 1]
    /\ titles' = [titles EXCEPT ![th] = @ \cup {title}]
    /\ UNCHANGED <<lapsed, messages, revisions, head, held>>

\* The lease of a claimed task of the thread runs out.
LeaseLapses(th) ==
    /\ Room /\ th \notin lapsed
    /\ events[th] > 0
    /\ lapsed' = lapsed \cup {th}
    /\ UNCHANGED <<titles, messages, events, revisions, head, held>>

Init ==
    /\ messages = <<>>
    /\ events = [th \in Threads |-> 0]
    /\ titles = [th \in Threads |-> {}]
    /\ lapsed = {}
    /\ revisions = <<>>
    /\ head = [th \in Threads |-> 0]
    /\ held = [s \in Stewards |-> NoWorkset]

Next ==
    \/ \E th \in Threads : PostMessage(th) \/ ChangeBoard(th) \/ LeaseLapses(th)
    \/ \E th \in Threads, title \in TaskTitles : CreateTask(th, title)
    \/ \E th \in Threads : UpdateSummary(th)
    \/ GetOnboarding
    \/ \E s \in Stewards, th \in Threads : FetchWorkset(s, th)
    \/ \E s \in Stewards :
          /\ held[s] # NoWorkset
          /\ \E w \in Shortened(held[s]) : PublishRequest(w)

Spec == Init /\ [][Next]_vars

-----------------------------------------------------------------------------
(* Properties.                                                             *)

RevisionIds == 1..Len(revisions)

RevisionRecord ==
    [thread : Threads, kind : {"steward", "manual"}, parent : 0..MaxRevisions,
     coverage : 0..MaxMessages, known : BOOLEAN, events : 0..MaxEvents,
     batch : SUBSET (1..MaxMessages), cites : SUBSET (1..MaxMessages)]

WorksetRecord ==
    [thread : Threads, base : 0..MaxRevisions, from : 0..MaxMessages,
     through : 0..MaxMessages, batch : SUBSET (1..MaxMessages), events : 0..MaxEvents,
     titles : SUBSET TaskTitles, sources : SUBSET (1..MaxMessages)]

\* Heads, summaries and worksets name revisions and messages that exist, and no
\* count leaves its bound.
TypeOK ==
    /\ messages \in Seq(Threads) /\ Len(messages) <= MaxMessages
    /\ events \in [Threads -> 0..MaxEvents]
    /\ titles \in [Threads -> SUBSET TaskTitles]
    /\ lapsed \subseteq Threads
    /\ revisions \in Seq(RevisionRecord) /\ Len(revisions) <= MaxRevisions
    /\ head \in [Threads -> 0..Len(revisions)]
    /\ held \in [Stewards -> WorksetRecord \cup {NoWorkset}]

\* The summaries from the first to revision r, along the parents.
Ancestors[r \in 0..Len(revisions)] ==
    IF r = 0 THEN <<>>
    ELSE Append(Ancestors[revisions[r].parent],
                [id |-> r, kind |-> revisions[r].kind, through |-> revisions[r].coverage])

\* No summary is lost, and none replaced by a steward who did not see it: followed
\* from the head along the parents, the revisions of a thread are a history to
\* which entries are only added, each by a client that was shown all the others.
History == INSTANCE SummaryHistory WITH
    Clients <- Stewards,
    NoView  <- NoWorkset,
    history <- [th \in Threads |-> Ancestors[head[th]]],
    shown   <- [s \in Stewards |->
                   IF held[s] = NoWorkset THEN NoWorkset
                   ELSE [thread |-> held[s].thread, history |-> Ancestors[held[s].base]]]

KeepsHistory == History!Spec

\* The revisions of a thread since its last manual one, up to r.
Lineage(r) ==
    LET th == revisions[r].thread
    IN {p \in 1..r : /\ revisions[p].thread = th
                     /\ \A q \in p..r : revisions[q].thread = th
                                           => revisions[q].kind = "steward"}

\* Coverage is earned: a revision whose coverage is known says it covers the
\* thread up to a message, and each message up to there, and no other, was in
\* the batch of exactly one revision of its lineage.
CoverageIsEarned ==
    \A r \in RevisionIds : revisions[r].known =>
        \A i \in 1..Len(messages) :
            LET seen == {p \in Lineage(r) : i \in revisions[p].batch} IN
            IF messages[i] = revisions[r].thread /\ i <= revisions[r].coverage
            THEN Cardinality(seen) = 1
            ELSE seen = {}

\* A summary cites only messages that it, or the revisions it was written from,
\* were given: never another thread's, never one that was not yet summarised.
CitationsAreGrounded ==
    \A r \in RevisionIds :
        revisions[r].cites \subseteq UNION {revisions[p].batch : p \in Lineage(r)}

\* A steward's work is not refused without a reason: as long as nobody published
\* and no task of the thread changed, a draft that passed the steward's own checks
\* passes the service's, however many messages arrived, and all its rows go in.
ValidDraftIsPublished ==
    \A s \in Stewards :
        LET w == held[s] IN
        /\ w # NoWorkset
        /\ head[w.thread] = w.base /\ EventsAfterExpiry[w.thread] = w.events
        => /\ Accepts(w)
           /\ \A draft \in Drafts : StewardAccepts(w, draft) =>
                 AcceptsDraft(w, draft) /\ RowsAreDistinct(draft)

\* A steward's revision is committed only while the board is the one its workset
\* showed, expiries of its own transaction included.
PublishedOnCurrentBoard ==
    [][Len(revisions') > Len(revisions) =>
          LET r == revisions'[Len(revisions')]
          IN r.kind = "steward" => r.events = events'[r.thread]]_vars

\* An onboarding packet that calls its delta complete leaves no message out: each
\* is covered by the summary in it, through a batch, or is in the packet.
CompleteDeltaMissesNothing ==
    \A th \in Threads, limit \in RecentLimits :
        DeltaComplete(th, limit) =>
            \A i \in MessageIds(th) :
                \/ i \in Recent(th, limit)
                \/ \E p \in Lineage(head[th]) : i \in revisions[p].batch
=============================================================================
