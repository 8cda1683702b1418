--------------------------- MODULE Taskboard_proofs ---------------------------
(***************************************************************************)
(* Proofs about Taskboard, for any number of tasks, agents and concurrent  *)
(* readers and any longest lease.                                          *)
(*                                                                         *)
(* The safety invariants are proved row by row.  Row(q, e) says that task  *)
(* record q and trail entry e are well-typed and agree with one another.   *)
(* Expiring a lease keeps Row, and so does what each handler writes; since *)
(* no transaction relates two tasks, Row for every task is inductive.      *)
(***************************************************************************)
EXTENDS Taskboard, TLAPS

Row(q, e) ==
    /\ q \in TaskRecord
    /\ e \in TrailRecord
    /\ q.status = "claimed" <=> q.claim_agent # NoAgent
    /\ q.status = "claimed" <=> q.lease # NoLease
    /\ q.status = StatusAfter[e.event]
    /\ q.status = "claimed" => q.claim_agent = e.actor
    /\ e.last = "heartbeat" => q.status = "claimed"

RowsOK ==
    /\ task = [t \in Tasks |-> task[t]]
    /\ trail = [t \in Tasks |-> trail[t]]
    /\ stale_rows \in [Readers -> [Tasks -> MaybeAgent]]
    /\ \A t \in Tasks : Row(task[t], trail[t])

\* How a transaction may change a row whose lease is not over: the moves of
\* TaskLease, one row at a time.
Moved(q, e, r, f) ==
    \/ /\ r.status = q.status /\ r.claim_agent = q.claim_agent /\ r.lease = q.lease
       /\ f.event = e.event
    \/ /\ q.status = "queued" \/ (q.status = "claimed" /\ q.claim_agent = r.claim_agent)
       /\ r.status = "claimed" /\ r.claim_agent \in Agents /\ r.lease \in 1..MaxLease
       /\ f.event = "claimed" /\ (q.status = "queued" => f.last = "claimed")
    \/ /\ q.status = "claimed"
       /\ r.status = "queued" /\ r.claim_agent = NoAgent
       /\ f.event \in {"released", "claim_cleared"}
    \/ /\ q.status \in {"queued", "claimed", "blocked"}
       /\ r.status = "blocked" /\ r.claim_agent = NoAgent
       /\ f.event = "blocked"
    \/ /\ q.status = "blocked"
       /\ r.status = "queued" /\ r.claim_agent = NoAgent
       /\ f.event = "unblocked"
    \/ /\ q.status \in {"queued", "claimed"}
       /\ r.status = "done" /\ r.claim_agent = NoAgent
       /\ f.event = "completed"

\* RecordMatchesStatus for one row.
Matches(q) ==
    /\ q.status = "blocked" <=> q.blocked_reason
    /\ q.status = "done" <=> q.completed_ts

USE MaxTasksAssumption, NoAgentAssumption, MaxLeaseAssumption

\* The inductive invariant is the conjunction of the invariants the runs check.
LEMMA RowsMeaning == RowsOK <=> TypeOK /\ ClaimColumnsAgree /\ TrailExplainsBoard
  BY DEF RowsOK, Row, TypeOK, ClaimColumnsAgree, TrailExplainsBoard

\* What each lifecycle event says of the status.
LEMMA EventStatus ==
    /\ StatusAfter["none"] = "absent"
    /\ StatusAfter["created"] = "queued"
    /\ StatusAfter["claimed"] = "claimed"
    /\ StatusAfter["lease_expired"] = "queued"
    /\ StatusAfter["released"] = "queued"
    /\ StatusAfter["claim_cleared"] = "queued"
    /\ StatusAfter["unblocked"] = "queued"
    /\ StatusAfter["blocked"] = "blocked"
    /\ StatusAfter["completed"] = "done"
  BY DEF StatusAfter

\* The values a lease can have, and that a tick keeps a running one among them.
LEMMA LeaseRange ==
    /\ NoLease \in Leases /\ NoLease = -2
    /\ 1..MaxLease \subseteq Leases
    /\ \A n \in Leases : n >= 0 => n - 1 \in Leases /\ n - 1 # NoLease
    /\ NoLease \notin 1..MaxLease
  BY DEF Leases, NoLease

\* An expired row is a good row, and a queued one if its lease was over.
LEMMA ExpiredRow ==
  ASSUME RowsOK, NEW t \in Tasks
  PROVE  /\ Row(Expired(t), ExpiredTrail(t))
         /\ ~Stale(Expired(t))
  <1> DEFINE q == task[t]
             e == trail[t]
  <1>1. Row(q, e)
    BY DEF RowsOK
  <1>2. CASE Stale(q)
    <2>1. Row(Requeued(q), Lifecycle("lease_expired", q.claim_agent))
      BY <1>1, EventStatus, LeaseRange
         DEF Row, Requeued, Lifecycle, TaskRecord, TrailRecord, LifecycleEvents, MaybeAgent
    <2>2. ~Stale(Requeued(q))
      BY <1>1 DEF Row, Requeued, Stale, TaskRecord
    <2> QED
      BY <1>2, <2>1, <2>2 DEF Expired, ExpiredTrail
  <1>3. CASE ~Stale(q)
    BY <1>1, <1>3 DEF Expired, ExpiredTrail
  <1> QED
    BY <1>2, <1>3

\* A transaction that leaves a good row for its task leaves good rows.
LEMMA CommitKeepsRows ==
  ASSUME RowsOK, NEW t \in Tasks, NEW q, NEW e, Row(q, e), Commit(t, q, e)
  PROVE  RowsOK'
  <1>1. \A u \in Tasks : Row(Expired(u), ExpiredTrail(u))
    BY ExpiredRow
  <1>2. \A u \in Tasks : Row(task'[u], trail'[u])
    BY <1>1 DEF Commit
  <1> QED
    BY <1>2 DEF Commit, RowsOK

\* Each handler that holds the write lock throughout, other than create,
\* expires what is stale, moves its task as TaskLease allows and leaves a good
\* row.
LockedHandler(a, t) ==
    \/ \E len \in 1..MaxLease : Claim(a, t, len)
    \/ \E len \in 1..MaxLease : Heartbeat(a, t, len)
    \/ Complete(a, t)
    \/ Block(a, t)
    \/ \E b \in MaybeAgent : ReassignKeepingClaim(t, b)
    \/ \E b \in MaybeAgent : Reassign(a, t, b)
    \/ Release(a, t)
    \/ Unblock(a, t)

GoodWrite(t, r, f) ==
    /\ Commit(t, r, f)
    /\ Row(r, f)
    /\ Moved(Expired(t), ExpiredTrail(t), r, f)
    /\ Matches(Expired(t)) => Matches(r)

\* What each handler under the write lock does: a commit that moves the row of its
\* task as Moved allows.
LEMMA HandlersMove ==
  ASSUME RowsOK, NEW a \in Agents, NEW t \in Tasks, LockedHandler(a, t)
  PROVE  \E r, f : GoodWrite(t, r, f)
  <1> DEFINE q == Expired(t)
             e == ExpiredTrail(t)
  <1>1. Row(q, e)
    BY ExpiredRow
  <1>2. a \in MaybeAgent /\ a # NoAgent /\ NoAgent \in MaybeAgent
    BY DEF MaybeAgent
  <1> USE EventStatus, LeaseRange
  <1>3. ASSUME NEW len \in 1..MaxLease, Claim(a, t, len)
        PROVE  \E r, f : GoodWrite(t, r, f)
    <2> DEFINE r == [q EXCEPT !.status = "claimed", !.assignee = AssigneeOr(q, a),
                              !.claim_agent = a, !.lease = len, !.blocked_reason = FALSE]
               f == Lifecycle("claimed", a)
    <2>1. Row(r, f)
      BY <1>1, <1>2, <1>3
         DEF Claim, MayClaim, AssigneeOr, Lifecycle, Row,
             TaskRecord, TrailRecord, LifecycleEvents
    <2>2. Moved(q, e, r, f) /\ (Matches(q) => Matches(r))
      BY <1>1, <1>2, <1>3
         DEF Claim, MayClaim, AssigneeOr, Lifecycle, Row, Moved, Matches,
             TaskRecord, TrailRecord, LifecycleEvents
    <2>3. Commit(t, r, f)
      BY <1>3 DEF Claim
    <2>4. GoodWrite(t, r, f)
      BY <2>1, <2>2, <2>3 DEF GoodWrite
    <2> QED
      BY <2>4
  <1>4. ASSUME NEW len \in 1..MaxLease, Heartbeat(a, t, len)
        PROVE  \E r, f : GoodWrite(t, r, f)
    <2> DEFINE r == [q EXCEPT !.lease = len]
               f == Note(e, "heartbeat")
    <2>1. Row(r, f)
      BY <1>1, <1>2, <1>4
         DEF Heartbeat, MayHeartbeat, Note, OtherEvents, Row,
             TaskRecord, TrailRecord, LifecycleEvents
    <2>2. Moved(q, e, r, f) /\ (Matches(q) => Matches(r))
      BY <1>1, <1>2, <1>4
         DEF Heartbeat, MayHeartbeat, Note, OtherEvents, Row, Moved, Matches,
             TaskRecord, TrailRecord, LifecycleEvents
    <2>3. Commit(t, r, f)
      BY <1>4 DEF Heartbeat
    <2>4. GoodWrite(t, r, f)
      BY <2>1, <2>2, <2>3 DEF GoodWrite
    <2> QED
      BY <2>4
  <1>5. ASSUME Complete(a, t)
        PROVE  \E r, f : GoodWrite(t, r, f)
    <2> DEFINE r == [q EXCEPT !.status = "done", !.assignee = AssigneeOr(q, a),
                              !.claim_agent = NoAgent, !.lease = NoLease,
                              !.blocked_reason = FALSE, !.completed_ts = TRUE]
               f == Lifecycle("completed", a)
    <2>1. Row(r, f)
      BY <1>1, <1>2, <1>5
         DEF Complete, MayComplete, AssigneeOr, Lifecycle, Row,
             TaskRecord, TrailRecord, LifecycleEvents
    <2>2. Moved(q, e, r, f) /\ (Matches(q) => Matches(r))
      BY <1>1, <1>2, <1>5
         DEF Complete, MayComplete, AssigneeOr, Lifecycle, Row, Moved, Matches,
             TaskRecord, TrailRecord, LifecycleEvents
    <2>3. Commit(t, r, f)
      BY <1>5 DEF Complete
    <2>4. GoodWrite(t, r, f)
      BY <2>1, <2>2, <2>3 DEF GoodWrite
    <2> QED
      BY <2>4
  <1>6. ASSUME Block(a, t)
        PROVE  \E r, f : GoodWrite(t, r, f)
    <2> DEFINE r == [q EXCEPT !.status = "blocked", !.assignee = AssigneeOr(q, a),
                              !.claim_agent = NoAgent, !.lease = NoLease,
                              !.blocked_reason = TRUE]
               f == Lifecycle("blocked", a)
    <2>1. Row(r, f)
      BY <1>1, <1>2, <1>6
         DEF Block, MayBlock, AssigneeOr, Lifecycle, Row,
             TaskRecord, TrailRecord, LifecycleEvents
    <2>2. Moved(q, e, r, f) /\ (Matches(q) => Matches(r))
      BY <1>1, <1>2, <1>6
         DEF Block, MayBlock, AssigneeOr, Lifecycle, Row, Moved, Matches,
             TaskRecord, TrailRecord, LifecycleEvents
    <2>3. Commit(t, r, f)
      BY <1>6 DEF Block
    <2>4. GoodWrite(t, r, f)
      BY <2>1, <2>2, <2>3 DEF GoodWrite
    <2> QED
      BY <2>4
  <1>7. ASSUME NEW b \in MaybeAgent, ReassignKeepingClaim(t, b)
        PROVE  \E r, f : GoodWrite(t, r, f)
    <2> DEFINE r == [q EXCEPT !.assignee = b]
               f == Note(e, "reassigned")
    <2>1. Row(r, f)
      BY <1>1, <1>2, <1>7
         DEF ReassignKeepingClaim, Note, OtherEvents, Row,
             TaskRecord, TrailRecord, LifecycleEvents
    <2>2. Moved(q, e, r, f) /\ (Matches(q) => Matches(r))
      BY <1>1, <1>2, <1>7
         DEF ReassignKeepingClaim, Note, OtherEvents, Row, Moved, Matches,
             TaskRecord, TrailRecord, LifecycleEvents
    <2>3. Commit(t, r, f)
      BY <1>7 DEF ReassignKeepingClaim
    <2>4. GoodWrite(t, r, f)
      BY <2>1, <2>2, <2>3 DEF GoodWrite
    <2> QED
      BY <2>4
  <1>8. ASSUME NEW b \in MaybeAgent, Reassign(a, t, b)
        PROVE  \E r, f : GoodWrite(t, r, f)
    <2> DEFINE r == Reassigned(q, b)
               f == IF q.claim_agent # NoAgent THEN Lifecycle("claim_cleared", a)
                                               ELSE Note(e, "reassigned")
    <2>1. Row(r, f)
      BY <1>1, <1>2, <1>8
         DEF Reassign, Reassigned, Note, OtherEvents, Lifecycle, Row,
             TaskRecord, TrailRecord, LifecycleEvents
    <2>2. Moved(q, e, r, f) /\ (Matches(q) => Matches(r))
      BY <1>1, <1>2, <1>8
         DEF Reassign, Reassigned, Note, OtherEvents, Lifecycle, Row, Moved, Matches,
             TaskRecord, TrailRecord, LifecycleEvents
    <2>3. Commit(t, r, f)
      BY <1>8 DEF Reassign
    <2>4. GoodWrite(t, r, f)
      BY <2>1, <2>2, <2>3 DEF GoodWrite
    <2> QED
      BY <2>4
  <1>9. ASSUME Release(a, t)
        PROVE  \E r, f : GoodWrite(t, r, f)
    <2> DEFINE r == Requeued(q)
               f == Lifecycle("released", a)
    <2>1. Row(r, f)
      BY <1>1, <1>2, <1>9
         DEF Release, Requeued, Lifecycle, Row,
             TaskRecord, TrailRecord, LifecycleEvents
    <2>2. Moved(q, e, r, f) /\ (Matches(q) => Matches(r))
      BY <1>1, <1>2, <1>9
         DEF Release, Requeued, Lifecycle, Row, Moved, Matches,
             TaskRecord, TrailRecord, LifecycleEvents
    <2>3. Commit(t, r, f)
      BY <1>9 DEF Release
    <2>4. GoodWrite(t, r, f)
      BY <2>1, <2>2, <2>3 DEF GoodWrite
    <2> QED
      BY <2>4
  <1>10. ASSUME Unblock(a, t)
        PROVE  \E r, f : GoodWrite(t, r, f)
    <2> DEFINE r == Unblocked(q)
               f == Lifecycle("unblocked", a)
    <2>1. Row(r, f)
      BY <1>1, <1>2, <1>10
         DEF Unblock, Unblocked, Lifecycle, Row,
             TaskRecord, TrailRecord, LifecycleEvents
    <2>2. Moved(q, e, r, f) /\ (Matches(q) => Matches(r))
      BY <1>1, <1>2, <1>10
         DEF Unblock, Unblocked, Lifecycle, Row, Moved, Matches,
             TaskRecord, TrailRecord, LifecycleEvents
    <2>3. Commit(t, r, f)
      BY <1>10 DEF Unblock
    <2>4. GoodWrite(t, r, f)
      BY <2>1, <2>2, <2>3 DEF GoodWrite
    <2> QED
      BY <2>4
  <1> QED
    BY <1>3, <1>4, <1>5, <1>6, <1>7, <1>8, <1>9, <1>10 DEF LockedHandler

-----------------------------------------------------------------------------
(* The inductive invariant of Spec.                                        *)

\* Creating a task writes a good row for it.
LEMMA CreateKeepsRows ==
  ASSUME RowsOK, NEW a \in Agents, NEW t \in Tasks, NEW b \in MaybeAgent,
         CreateTask(a, t, b)
  PROVE  RowsOK'
  <1>1. Row([NoTask EXCEPT !.status = "queued", !.assignee = b], Lifecycle("created", a))
    BY EventStatus, LeaseRange
       DEF Row, NoTask, Lifecycle, TaskRecord, TrailRecord, LifecycleEvents, MaybeAgent
  <1> QED
    BY <1>1 DEF CreateTask, RowsOK

\* Requeueing a good row, whatever it has become, leaves a good row.
LEMMA LateExpiryKeepsRows ==
  ASSUME RowsOK, NEW r \in Readers, NEW t \in Tasks
  PROVE  Row(Overwritten(r, t), OverwrittenTrail(r, t))
  <1>1. Row(task[t], trail[t]) /\ stale_rows[r][t] \in MaybeAgent
    BY DEF RowsOK
  <1>2. Row(Requeued(task[t]), Lifecycle("lease_expired", stale_rows[r][t]))
    BY <1>1, EventStatus, LeaseRange
       DEF Row, Requeued, Lifecycle, TaskRecord, TrailRecord, LifecycleEvents, MaybeAgent
  <1> QED
    BY <1>1, <1>2 DEF Overwritten, OverwrittenTrail

\* The steps of the handlers without the lock keep rows good, whatever committed
\* between their SELECT and their UPDATEs.
LEMMA ReadersKeepRows ==
  ASSUME RowsOK, NEW r \in Readers, ReadRequest(r)
  PROVE  RowsOK'
  <1>1. NoRows \in [Tasks -> MaybeAgent]
    BY DEF NoRows, MaybeAgent
  <1>2. \A t \in Tasks : Row(Overwritten(r, t), OverwrittenTrail(r, t))
    BY LateExpiryKeepsRows
  <1>3. CASE SelectStale(r)
    <2>1. [t \in Tasks |-> IF Stale(task[t]) THEN task[t].claim_agent ELSE NoAgent]
            \in [Tasks -> MaybeAgent]
      BY DEF RowsOK, Row, TaskRecord, MaybeAgent
    <2> QED
      BY <1>3, <2>1 DEF SelectStale, RowsOK
  <1>4. CASE FinishRead(r)
    BY <1>1, <1>2, <1>4 DEF FinishRead, RowsOK
  <1>5. ASSUME NEW c \in Tasks, FinishComment(r, c)
        PROVE  RowsOK'
    <2>1. Row(Overwritten(r, c), Note(OverwrittenTrail(r, c), "comment"))
      BY <1>2 DEF Row, Note, TrailRecord, OtherEvents
    <2> QED
      BY <1>1, <1>2, <1>5, <2>1 DEF FinishComment, RowsOK
  <1>6. CASE RollbackRead(r)
    BY <1>1, <1>6 DEF RollbackRead, RowsOK
  <1> QED
    BY <1>3, <1>4, <1>5, <1>6 DEF ReadRequest

\* The passing of a second shortens leases and nothing else.
LEMMA TickKeepsRows ==
  ASSUME RowsOK, Tick
  PROVE  RowsOK'
  <1>1. ASSUME NEW t \in Tasks, task[t].lease >= 0
        PROVE  Row([task[t] EXCEPT !.lease = @ - 1], trail[t])
    <2>1. Row(task[t], trail[t]) /\ task[t].lease \in Leases /\ task[t].lease # NoLease
      BY <1>1, LeaseRange DEF RowsOK, Row, TaskRecord
    <2> QED
      BY <1>1, <2>1, LeaseRange DEF Row, TaskRecord
  <1> QED
    BY <1>1 DEF Tick, RowsOK

\* The empty tables are good.
LEMMA RowsInitially == Init => RowsOK
  BY EventStatus, LeaseRange
     DEF Init, RowsOK, Row, NoTask, NoTrail, NoRows, TaskRecord, TrailRecord,
         LifecycleEvents, MaybeAgent

\* Every step of the service keeps all rows good.
LEMMA RowsInductive == RowsOK /\ [Next]_vars => RowsOK'
  <1> SUFFICES ASSUME RowsOK, [Next]_vars
               PROVE  RowsOK'
    OBVIOUS
  <1>1. CASE Tick
    BY <1>1, TickKeepsRows
  <1>2. CASE ExpiryPass
    <2>1. \A t \in Tasks : Row(Expired(t), ExpiredTrail(t))
      BY ExpiredRow
    <2> QED
      BY <1>2, <2>1 DEF ExpiryPass, RowsOK
  <1>3. ASSUME NEW a \in Agents, NEW t \in Tasks, AgentRequest(a, t)
        PROVE  RowsOK'
    <2>1. ASSUME NEW b \in MaybeAgent, CreateTask(a, t, b)
          PROVE  RowsOK'
      BY <2>1, CreateKeepsRows
    <2>2. CASE LockedHandler(a, t)
      <3>1. PICK q, e : GoodWrite(t, q, e)
        BY <2>2, HandlersMove
      <3> QED
        BY <3>1, CommitKeepsRows DEF GoodWrite
    <2> QED
      BY <1>3, <2>1, <2>2 DEF AgentRequest, LockedHandler
  <1>4. ASSUME NEW r \in Readers, ReadRequest(r)
        PROVE  RowsOK'
    BY <1>4, ReadersKeepRows
  <1>5. CASE UNCHANGED vars
    BY <1>5 DEF vars, RowsOK
  <1> QED
    BY <1>1, <1>2, <1>3, <1>4, <1>5 DEF Next, LockedRequest

\* Every row of the tables is good in every reachable state: the inductive
\* invariant the next three theorems read their conjuncts from.
THEOREM RowsInvariant == Spec => []RowsOK
  BY RowsInitially, RowsInductive, PTL DEF Spec

\* Every reachable state of the tables is well-typed.
THEOREM TypeCorrect == Spec => []TypeOK
  BY RowsInvariant, RowsMeaning, PTL

\* status, claim_agent and the lease agree in every reachable state, late
\* expiries included: no claim is without a lease that will end.
THEOREM ClaimColumns == Spec => []ClaimColumnsAgree
  BY RowsInvariant, RowsMeaning, PTL

\* The newest lifecycle event of a task gives its status and its holder in every
\* reachable state: the audit trail cannot drift from the board.
THEOREM TrailIsEvidence == Spec => []TrailExplainsBoard
  BY RowsInvariant, RowsMeaning, PTL

-----------------------------------------------------------------------------
(* What the board keeps to outside the windows of its readers.             *)

Kept(t) == LeaseKept(t) /\ DoneKept(t) /\ ElapsedKept(t) /\ BlockedKept(t)

\* A row that no step touches keeps the board's word about its task.
LEMMA UnchangedKeeps ==
  ASSUME RowsOK, NEW t \in Tasks, task'[t] = task[t]
  PROVE  Kept(t)
  BY DEF Kept, LeaseKept, DoneKept, ElapsedKept, BlockedKept, LiveClaim, Elapsed

\* Expiring a stale claim ends no lease that still runs.
LEMMA ExpiryKeeps ==
  ASSUME RowsOK, NEW t \in Tasks,
         task'[t] = Expired(t), trail'[t] = ExpiredTrail(t)
  PROVE  Kept(t)
  <1>1. CASE Stale(task[t])
    <2>1. task[t] \in TaskRecord /\ task[t].status = "claimed" /\ task[t].lease < 0
      BY <1>1 DEF RowsOK, Row, Stale
    <2>2. task'[t] = Requeued(task[t])
      BY <1>1 DEF Expired
    <2>3. task'[t].lease = NoLease /\ ~(NoLease >= 0)
      BY <2>1, <2>2, LeaseRange DEF Requeued, TaskRecord
    <2>4. ~LiveClaim(t)
      BY <2>1 DEF LiveClaim, TaskRecord, Leases, NoLease
    <2> QED
      BY <2>1, <2>3, <2>4 DEF Kept, LeaseKept, DoneKept, ElapsedKept, BlockedKept
  <1>2. CASE ~Stale(task[t])
    BY <1>2, UnchangedKeeps DEF Expired
  <1> QED
    BY <1>1, <1>2

\* A good write keeps the board's word about its task, and about the others.
LEMMA GoodWriteKeeps ==
  ASSUME RowsOK, NEW t \in Tasks, NEW r, NEW f, GoodWrite(t, r, f), NEW u \in Tasks
  PROVE  Kept(u)
  <1>1. CASE u # t
    BY <1>1, ExpiryKeeps DEF GoodWrite, Commit
  <1>2. CASE u = t
    <2>1. task'[t] = r /\ trail'[t] = f /\ Moved(Expired(t), ExpiredTrail(t), r, f)
          /\ Row(r, f) /\ Row(task[t], trail[t])
      BY DEF GoodWrite, Commit, RowsOK
    <2>2. CASE Stale(task[t])
      <3>1. Expired(t).status = "queued" /\ Expired(t).lease = NoLease
        BY <2>1, <2>2 DEF Expired, Requeued, Row, TaskRecord
      <3>2. r.lease >= 0 => f.last = "claimed"
        BY <2>1, <3>1, LeaseRange DEF Moved, Row, TaskRecord
      <3> QED
        <4>1. task[t].status = "claimed" /\ ~LiveClaim(t)
          BY <2>1, <2>2 DEF LiveClaim, Stale, Row, TaskRecord, Leases, NoLease
        <4> QED
          BY <1>2, <2>1, <3>2, <4>1 DEF Kept, LeaseKept, DoneKept, ElapsedKept, BlockedKept
    <2>3. CASE ~Stale(task[t])
      <3>1. Expired(t) = task[t] /\ ExpiredTrail(t) = trail[t]
        BY <2>3 DEF Expired, ExpiredTrail
      <3>2. task[t].lease # Elapsed
        BY <2>1, <2>3, LeaseRange DEF Stale, Elapsed, Row, TaskRecord
      <3>3. LeaseKept(t) /\ DoneKept(t) /\ BlockedKept(t)
        BY <2>1, <3>1 DEF Moved, LeaseKept, DoneKept, BlockedKept, LiveClaim, ClaimEnders
      <3> QED
        BY <1>2, <3>2, <3>3 DEF Kept, ElapsedKept
    <2> QED
      BY <2>2, <2>3
  <1> QED
    BY <1>1, <1>2

\* Every step of the service keeps the board's word about the tasks no reader has
\* selected.
LEMMA StepsKeep == RowsOK /\ [Next]_vars => \A u \in Tasks : ~InWindow(u) => Kept(u)
  <1> SUFFICES ASSUME RowsOK, [Next]_vars, NEW u \in Tasks, ~InWindow(u)
               PROVE  Kept(u)
    OBVIOUS
  <1>1. CASE Tick
    BY <1>1 DEF Tick, RowsOK, Row, TaskRecord, Kept, LeaseKept, DoneKept, ElapsedKept,
                BlockedKept, LiveClaim, Elapsed
  <1>2. CASE ExpiryPass
    BY <1>2, ExpiryKeeps DEF ExpiryPass
  <1>3. ASSUME NEW a \in Agents, NEW t \in Tasks, AgentRequest(a, t)
        PROVE  Kept(u)
    <2>1. ASSUME NEW b \in MaybeAgent, CreateTask(a, t, b)
          PROVE  Kept(u)
      <3>1. CASE u # t
        BY <2>1, <3>1, UnchangedKeeps DEF CreateTask, RowsOK
      <3>2. CASE u = t
        <4>1. task[t].status = "absent" /\ task[t].lease = NoLease /\ NoLease # Elapsed
          BY <2>1 DEF CreateTask, RowsOK, Row, NoLease, Elapsed
        <4> QED
          BY <3>2, <4>1 DEF Kept, LeaseKept, DoneKept, ElapsedKept, BlockedKept, LiveClaim
      <3> QED
        BY <3>1, <3>2
    <2>2. CASE LockedHandler(a, t)
      <3>1. PICK q, e : GoodWrite(t, q, e)
        BY <2>2, HandlersMove
      <3> QED
        BY <3>1, GoodWriteKeeps
    <2> QED
      BY <1>3, <2>1, <2>2 DEF AgentRequest, LockedHandler
  <1>4. ASSUME NEW r \in Readers, ReadRequest(r)
        PROVE  Kept(u)
    <2>1. task'[u] = task[u]
      BY <1>4 DEF InWindow, ReadRequest, SelectStale, FinishRead, FinishComment,
                  RollbackRead, Overwritten
    <2> QED
      BY <2>1, UnchangedKeeps
  <1>5. CASE UNCHANGED vars
    BY <1>5, UnchangedKeeps DEF vars
  <1> QED
    BY <1>1, <1>2, <1>3, <1>4, <1>5 DEF Next, LockedRequest

\* Whatever requests do, and in whatever order, the board honours live leases,
\* never revives a lapsed one, and keeps done and blocked tasks as they are, for
\* every task that no reader has selected and not yet written back.
THEOREM KeptOutside == Spec => KeptOutsideWindows
  <1>1. RowsOK /\ [Next]_vars
          => [\A t \in Tasks : ~InWindow(t) => LeaseKept(t) /\ DoneKept(t)
                                      /\ ElapsedKept(t) /\ BlockedKept(t)]_vars
    BY StepsKeep DEF Kept
  <1> QED
    BY <1>1, RowsInvariant, PTL DEF Spec, KeptOutsideWindows

-----------------------------------------------------------------------------
(* The refinement of TaskLease.                                            *)
(*                                                                         *)
(* Without requests inside windows the rows a reader holds are stale until *)
(* it writes them, so that writing them is expiring them.                  *)

SerialInv ==
    /\ RowsOK
    /\ \A t \in Tasks : Matches(task[t])
    /\ \A r \in Readers, t \in Tasks :
          stale_rows[r][t] # NoAgent
              => Stale(task[t]) /\ task[t].claim_agent = stale_rows[r][t]
    /\ \A r, s \in Readers : r # s => stale_rows[r] = NoRows \/ stale_rows[s] = NoRows

USE DEF Promise!Move

\* The row of a task moves as TaskLease allows if it is unchanged but for a tick
\* of its lease, ...
LEMMA RestIsMove ==
  ASSUME NEW t \in Tasks,
         task'[t].status = task[t].status, task'[t].claim_agent = task[t].claim_agent,
         trail'[t].event = trail[t].event,
         task'[t].lease = task[t].lease \/ task'[t].lease = task[t].lease - 1
  PROVE  Promise!Move(t)
  BY DEF Promise!Rest, Promise!Become

\* ... if its stale claim is expired, ...
LEMMA ExpiryIsMove ==
  ASSUME RowsOK, NEW t \in Tasks, task'[t] = Expired(t), trail'[t] = ExpiredTrail(t)
  PROVE  Promise!Move(t)
  <1>1. task[t] \in TaskRecord
    BY DEF RowsOK, Row
  <1>2. CASE Stale(task[t])
    <2>1. /\ task'[t].status = "queued" /\ task'[t].claim_agent = NoAgent
          /\ trail'[t].event = "lease_expired"
          /\ task[t].status = "claimed" /\ task[t].lease < 0
      BY <1>1, <1>2 DEF Expired, ExpiredTrail, Requeued, Lifecycle, TaskRecord, Stale
    <2>2. Promise!Lapse(t)
      BY <2>1 DEF Promise!Lapse, Promise!Over, Promise!Become
    <2> QED
      BY <2>2
  <1>3. CASE ~Stale(task[t])
    BY <1>3, RestIsMove DEF Expired, ExpiredTrail
  <1> QED
    BY <1>2, <1>3

\* ... and if a handler wrote it.
LEMMA WriteIsMove ==
  ASSUME RowsOK, NEW t \in Tasks, NEW r, NEW f, GoodWrite(t, r, f)
  PROVE  Promise!Move(t)
  <1>1. /\ task'[t] = r /\ trail'[t] = f
        /\ Moved(Expired(t), ExpiredTrail(t), r, f)
        /\ Row(r, f) /\ Row(task[t], trail[t])
    BY DEF GoodWrite, Commit, RowsOK
  <1> USE DEF Promise!Become, Promise!Free, Promise!Over, Promise!Live
  <1>2. CASE Stale(task[t])
    <2>1. /\ Expired(t).status = "queued" /\ Expired(t).claim_agent = NoAgent
          /\ ExpiredTrail(t).event = "lease_expired"
          /\ task[t].status = "claimed" /\ task[t].lease < 0
      BY <1>1, <1>2 DEF Expired, ExpiredTrail, Requeued, Lifecycle, Row, TaskRecord, Stale
    <2> QED
      BY <1>1, <2>1
         DEF Moved, Promise!Lapse, Promise!Grant, Promise!Park, Promise!Finish
  <1>3. CASE ~Stale(task[t])
    <2>1. Expired(t) = task[t] /\ ExpiredTrail(t) = trail[t]
      BY <1>3 DEF Expired, ExpiredTrail
    <2>2. task[t].status = "claimed" => task[t].lease >= 0
      BY <1>1, <1>3 DEF Row, Stale, TaskRecord, Leases, NoLease
    <2> QED
      BY <1>1, <2>1, <2>2
         DEF Moved, Promise!Rest, Promise!Grant, Promise!Renew, Promise!Yield,
             Promise!Park, Promise!Repark, Promise!Unpark, Promise!Finish
  <1> QED
    BY <1>2, <1>3

\* A stale row is queued and without a claim once it is expired.
LEMMA ExpiryMatches ==
  ASSUME NEW t \in Tasks, task[t] \in TaskRecord, Matches(task[t])
  PROVE  Matches(Expired(t))
  BY DEF Matches, Expired, Requeued, Stale, TaskRecord

\* A reader writes back what is still stale: it expires those rows and no others.
LEMMA WriteBackIsExpiry ==
  ASSUME SerialInv, NEW r \in Readers, NEW t \in Tasks
  PROVE  \/ /\ Overwritten(r, t) = Expired(t)
            /\ OverwrittenTrail(r, t) = ExpiredTrail(t)
         \/ /\ Overwritten(r, t) = task[t]
            /\ OverwrittenTrail(r, t) = trail[t]
  BY DEF SerialInv, Overwritten, OverwrittenTrail, Expired, ExpiredTrail

SerialStep == SerialInv' /\ \A u \in Tasks : Promise!Move(u)

\* A request under the write lock, no window being open.
LEMMA LockedSerialStep ==
  ASSUME SerialInv, NoWindow, LockedRequest
  PROVE  SerialStep
  <1>1. RowsOK'
    BY RowsInductive DEF SerialInv, Next
  <1>2. /\ \A t \in Tasks : Matches(task'[t])
        /\ \A t \in Tasks : Promise!Move(t)
        /\ UNCHANGED stale_rows
    <2>1. CASE ExpiryPass
      BY <2>1, ExpiryMatches, ExpiryIsMove DEF ExpiryPass, SerialInv, RowsOK, Row
    <2>2. ASSUME NEW a \in Agents, NEW t \in Tasks, AgentRequest(a, t)
          PROVE  <1>2!1 /\ <1>2!2 /\ <1>2!3
      <3>1. ASSUME NEW b \in MaybeAgent, CreateTask(a, t, b)
            PROVE  <1>2!1 /\ <1>2!2 /\ <1>2!3
        <4>1. task[t].status = "absent" /\ task[t].claim_agent = NoAgent
              /\ task[t].lease = NoLease
          BY <3>1 DEF CreateTask, SerialInv, RowsOK, Row
        <4>2. /\ task'[t] = [NoTask EXCEPT !.status = "queued", !.assignee = b]
              /\ trail'[t] = Lifecycle("created", a)
              /\ \A u \in Tasks : u # t => task'[u] = task[u] /\ trail'[u] = trail[u]
          BY <3>1 DEF CreateTask, SerialInv, RowsOK
        <4>3. /\ task'[t].status = "queued" /\ task'[t].claim_agent = NoAgent
              /\ task'[t].blocked_reason = FALSE /\ task'[t].completed_ts = FALSE
              /\ trail'[t].event = "created"
          BY <4>2 DEF NoTask, Lifecycle
        <4>4. Promise!Open(t)
          BY <4>1, <4>3 DEF Promise!Open, Promise!Become
        <4>5. Matches(task'[t])
          BY <4>3 DEF Matches
        <4> QED
          BY <3>1, <4>2, <4>4, <4>5, RestIsMove DEF CreateTask, SerialInv
      <3>2. CASE LockedHandler(a, t)
        <4>1. PICK q, e : GoodWrite(t, q, e)
          BY <3>2, HandlersMove DEF SerialInv
        <4>2. Matches(task'[t]) /\ Promise!Move(t)
          BY <4>1, ExpiryMatches, WriteIsMove DEF GoodWrite, Commit, SerialInv, RowsOK, Row
        <4>3. \A u \in Tasks : u # t => Matches(task'[u]) /\ Promise!Move(u)
          BY <4>1, ExpiryMatches, ExpiryIsMove
             DEF GoodWrite, Commit, SerialInv, RowsOK, Row
        <4> QED
          BY <4>1, <4>2, <4>3 DEF GoodWrite, Commit
      <3> QED
        BY <2>2, <3>1, <3>2 DEF AgentRequest, LockedHandler
    <2> QED
      BY <2>1, <2>2 DEF LockedRequest
  <1> QED
    BY <1>1, <1>2 DEF SerialStep, SerialInv, NoWindow, NoRows

\* The steps of readers.
LEMMA ReadSerialStep ==
  ASSUME SerialInv, NEW r \in Readers,
         \/ NoWindow /\ SelectStale(r)
         \/ FinishRead(r) \/ RollbackRead(r)
         \/ \E c \in Tasks : FinishComment(r, c)
  PROVE  SerialStep
  <1>1. RowsOK'
    BY RowsInductive DEF SerialInv, Next, ReadRequest
  <1>2. /\ stale_rows \in [Readers -> [Tasks -> MaybeAgent]]
        /\ \A t \in Tasks : task[t] \in TaskRecord
    BY DEF SerialInv, RowsOK, Row
  <1>3. CASE NoWindow /\ SelectStale(r)
    <2>1. \A t \in Tasks : task'[t] = task[t] /\ trail'[t] = trail[t]
      BY <1>3 DEF SelectStale
    <2>2. \A s \in Readers : s # r => stale_rows'[s] = NoRows
      BY <1>2, <1>3 DEF SelectStale, NoWindow
    <2>3. \A t \in Tasks : stale_rows'[r][t] # NoAgent
             => Stale(task'[t]) /\ task'[t].claim_agent = stale_rows'[r][t]
      BY <1>2, <1>3 DEF SelectStale
    <2> QED
      BY <1>1, <2>1, <2>2, <2>3, RestIsMove DEF SerialStep, SerialInv, NoRows
  <1>4. CASE RollbackRead(r)
    <2>1. \A t \in Tasks : task'[t] = task[t] /\ trail'[t] = trail[t]
      BY <1>4 DEF RollbackRead
    <2>2. \A s \in Readers : stale_rows'[s] = IF s = r THEN NoRows ELSE stale_rows[s]
      BY <1>2, <1>4 DEF RollbackRead
    <2> QED
      BY <1>1, <2>1, <2>2, RestIsMove DEF SerialStep, SerialInv, NoRows
  <1>5. ASSUME FinishRead(r) \/ \E c \in Tasks : FinishComment(r, c)
        PROVE  SerialStep
    <2>1. \A t \in Tasks : /\ task'[t] = Overwritten(r, t)
                           /\ trail'[t].event = OverwrittenTrail(r, t).event
                           /\ trail'[t].last = "comment" \/ trail'[t] = OverwrittenTrail(r, t)
      <3>1. CASE FinishRead(r)
        BY <3>1 DEF FinishRead
      <3>2. ASSUME NEW c \in Tasks, FinishComment(r, c)
            PROVE  <2>1
        <4>1. OverwrittenTrail(r, c) \in TrailRecord
          BY LateExpiryKeepsRows DEF SerialInv, Row
        <4> QED
          BY <3>2, <4>1 DEF FinishComment, Note, TrailRecord
      <3> QED
        BY <1>5, <3>1, <3>2
    <2>2. \A s \in Readers : stale_rows'[s] = IF s = r THEN NoRows ELSE stale_rows[s]
      BY <1>2, <1>5 DEF FinishRead, FinishComment
    <2>3. ASSUME NEW t \in Tasks
          PROVE  Matches(task'[t]) /\ Promise!Move(t)
      <3>1. CASE stale_rows[r][t] = NoAgent
        BY <2>1, <3>1, RestIsMove DEF Overwritten, OverwrittenTrail, SerialInv
      <3>2. CASE stale_rows[r][t] # NoAgent
        <4>1. /\ Stale(task[t]) /\ task[t] \in TaskRecord /\ Matches(task[t])
              /\ task'[t] = Requeued(task[t]) /\ trail'[t].event = "lease_expired"
          BY <1>2, <2>1, <3>2 DEF Overwritten, OverwrittenTrail, SerialInv, Lifecycle
        <4>2. Promise!Lapse(t)
          BY <4>1 DEF Promise!Lapse, Promise!Over, Promise!Become, Requeued, Stale, TaskRecord
        <4>3. Matches(task'[t])
          BY <4>1, ExpiryMatches DEF Expired
        <4> QED
          BY <4>2, <4>3
      <3> QED
        BY <3>1, <3>2
    <2>4. \A s \in Readers, t \in Tasks : stale_rows'[s][t] # NoAgent
             => Stale(task'[t]) /\ task'[t].claim_agent = stale_rows'[s][t]
      <3> SUFFICES ASSUME NEW s \in Readers, NEW t \in Tasks, stale_rows'[s][t] # NoAgent
                   PROVE  Stale(task'[t]) /\ task'[t].claim_agent = stale_rows'[s][t]
        OBVIOUS
      <3>1. s # r /\ stale_rows[s][t] # NoAgent
        BY <2>2 DEF NoRows
      <3>2. stale_rows[r] = NoRows
        BY <3>1 DEF SerialInv, NoRows
      <3>3. task'[t] = task[t]
        BY <2>1, <3>2 DEF Overwritten, NoRows
      <3> QED
        BY <2>2, <3>1, <3>3 DEF SerialInv
    <2> QED
      BY <1>1, <2>2, <2>3, <2>4 DEF SerialStep, SerialInv
  <1> QED
    BY <1>3, <1>4, <1>5

\* Every step of the serial service keeps the invariant and moves every row as
\* TaskLease allows.
LEMMA SerialInductive == SerialInv /\ [SerialNext]_vars => SerialStep
  <1> SUFFICES ASSUME SerialInv, [SerialNext]_vars
               PROVE  SerialStep
    OBVIOUS
  <1>1. CASE Tick
    <2>1. RowsOK'
      BY <1>1, RowsInductive DEF SerialInv, Next
    <2>2. ASSUME NEW t \in Tasks
          PROVE  /\ Matches(task'[t]) /\ Promise!Move(t)
                 /\ Stale(task[t]) => task'[t] = task[t]
      <3>1. task[t] \in TaskRecord /\ Matches(task[t]) /\ trail'[t] = trail[t]
        BY <1>1 DEF SerialInv, RowsOK, Row, Tick
      <3>2. CASE task[t].lease >= 0
        <4>1. task'[t] = [task[t] EXCEPT !.lease = @ - 1]
          BY <1>1, <3>2 DEF Tick
        <4> QED
          BY <3>1, <3>2, <4>1, RestIsMove DEF TaskRecord, Matches, Stale, Leases
      <3>3. CASE ~(task[t].lease >= 0)
        BY <1>1, <3>1, <3>3, RestIsMove DEF Tick
      <3> QED
        BY <3>2, <3>3
    <2>3. UNCHANGED stale_rows
      BY <1>1 DEF Tick
    <2> QED
      BY <2>1, <2>2, <2>3 DEF SerialStep, SerialInv
  <1>2. CASE NoWindow /\ LockedRequest
    BY <1>2, LockedSerialStep
  <1>3. ASSUME NEW r \in Readers,
               \/ NoWindow /\ SelectStale(r)
               \/ FinishRead(r) \/ RollbackRead(r)
               \/ \E c \in Tasks : FinishComment(r, c)
        PROVE  SerialStep
    BY <1>3, ReadSerialStep
  <1>4. CASE UNCHANGED vars
    <2>1. RowsOK'
      BY <1>4, RowsInductive DEF SerialInv
    <2> QED
      BY <1>4, <2>1, RestIsMove DEF vars, SerialStep, SerialInv
  <1> QED
    BY <1>1, <1>2, <1>3, <1>4 DEF SerialNext

\* The empty tables satisfy the invariant of the serial service.
LEMMA SerialInitially == Init => SerialInv
  BY RowsInitially DEF Init, SerialInv, NoTask, NoRows, Matches, Stale

\* While no request commits inside a reader's window, what a reader selected is
\* still stale when it writes it back, and every record matches its status.
THEOREM SerialInvariant == SerialSpec => []SerialInv
  BY SerialInitially, SerialInductive, PTL DEF SerialSpec, SerialStep

\* Without requests inside windows a reason is on record exactly for the blocked
\* tasks and a completion time exactly for the done ones.
THEOREM RecordsMatch == SerialSpec => []RecordMatchesStatus
  <1>1. SerialInv => RecordMatchesStatus
    BY DEF SerialInv, Matches, RecordMatchesStatus
  <1> QED
    BY <1>1, SerialInvariant, PTL

\* Without requests inside windows the Taskboard implements TaskLease: a claim
\* passes from one agent to another only through the queue, a live lease ends
\* only by a recorded request, a lapsed one is not revived, done is final.
THEOREM ImplementsTaskLease == SerialSpec => KeepsPromise
  <1>1. Init => Promise!Init
    BY DEF Init, Promise!Init, NoTask, NoTrail
  <1>2. SerialInv /\ [SerialNext]_vars => [Promise!Next]_Promise!vars
    BY SerialInductive DEF SerialStep, Promise!Next
  <1> QED
    BY <1>1, <1>2, SerialInvariant, PTL DEF SerialSpec, KeepsPromise, Promise!Spec

-----------------------------------------------------------------------------
(* next and claim.                                                         *)

\* On any board with consistent rows, next chooses from what claim accepts.
LEMMA NextAndClaim ==
  ASSUME RowsOK
  PROVE  NextAgreesWithClaim
  <1> SUFFICES ASSUME NEW a \in Agents
               PROVE  /\ \A t \in NextChoices(a) : MayClaim(task[t], a) \/ MayHeartbeat(task[t], a)
                      /\ NextChoices(a) = {} => \A t \in Tasks : ~MayClaim(task[t], a)
    BY DEF NextAgreesWithClaim
  <1> DEFINE own      == {t \in Tasks : task[t].status = "claimed" /\ task[t].claim_agent = a}
             eligible == {t \in Tasks : task[t].status = "queued"
                                           /\ task[t].assignee \in {NoAgent, a}}
             assigned == {t \in eligible : task[t].assignee = a}
  <1>1. NextChoices(a) = CASE own # {} -> own
                           [] own = {} /\ assigned # {} -> assigned
                           [] OTHER -> eligible
    BY DEF NextChoices
  <1>2. NextChoices(a) \in {own, eligible, assigned}
    BY <1>1
  <1>3. ASSUME NEW t \in NextChoices(a)
        PROVE  MayClaim(task[t], a) \/ MayHeartbeat(task[t], a)
    <2>1. CASE t \in own
      BY <2>1 DEF MayHeartbeat
    <2>2. CASE t \in eligible
      BY <2>2 DEF MayClaim
    <2> QED
      BY <1>2, <2>1, <2>2
  <1>4. ASSUME NextChoices(a) = {}, NEW t \in Tasks, MayClaim(task[t], a)
        PROVE  FALSE
    <2>1. own = {} /\ eligible = {}
      BY <1>1, <1>4
    \* A claimed row has a holder, so that claim would have to find it the agent's own.
    <2>2. task[t].status = "claimed" => task[t].claim_agent # NoAgent
      BY DEF RowsOK, Row
    <2>3. CASE task[t].status = "queued"
      <3>1. t \in eligible
        BY <1>4, <2>3 DEF MayClaim
      <3> QED
        BY <2>1, <3>1
    <2>4. CASE task[t].status = "claimed"
      <3>1. t \in own
        BY <1>4, <2>2, <2>4 DEF MayClaim
      <3> QED
        BY <2>1, <3>1
    <2> QED
      BY <1>4, <2>3, <2>4 DEF MayClaim
  <1> QED
    BY <1>3, <1>4

\* NextAgreesWithClaim: what next offers an agent is accepted by claim or heartbeat,
\* and next offers nothing only if claim would accept nothing, whether or not requests
\* commit inside the windows of readers.
THEOREM NextOffersWhatClaimTakes ==
    /\ Spec => []NextAgreesWithClaim
    /\ SerialSpec => []NextAgreesWithClaim
  <1>1. RowsOK => NextAgreesWithClaim
    BY NextAndClaim
  <1>2. Spec => []NextAgreesWithClaim
    BY <1>1, RowsInvariant, PTL
  <1>3. SerialNext => Next
    BY DEF SerialNext, Next, ReadRequest
  <1>4. SerialSpec => []NextAgreesWithClaim
    BY <1>2, <1>3, PTL DEF Spec, SerialSpec
  <1> QED
    BY <1>2, <1>4
===============================================================================
