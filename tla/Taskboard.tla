------------------------------ MODULE Taskboard ------------------------------
(***************************************************************************)
(* The Taskboard of the Watercooler service (service.py): the tasks table, *)
(* a digest of the append-only task_events table, and the request          *)
(* handlers that change them.                                              *)
(*                                                                         *)
(* Every request runs in a thread of its own with a connection of its own. *)
(* A handler that starts with begin_immediate() holds SQLite's write lock  *)
(* from before its first read to its commit, so it is one action here.     *)
(* The handlers that do not (the reads, and comment) run the SELECT of     *)
(* expire_stale_claims() outside any transaction and write what it         *)
(* returned later: they take two actions, SelectStale and FinishRead or    *)
(* FinishComment, and every other request may commit between the two.      *)
(*                                                                         *)
(* Time is kept as the number of ticks a lease still has to run, so the    *)
(* model needs no bound on the clock.                                      *)
(***************************************************************************)
EXTENDS Integers

CONSTANTS
    MaxTasks,   \* bound: tasks created, with ids 1..MaxTasks
    Agents,     \* authenticated principals with scope tasks:write
    NoAgent,    \* the empty string of assignee and claim_agent
    MaxLease,   \* bound: longest lease a client asks for, in ticks
    Readers     \* requests in flight that do not take the write lock first

ASSUME MaxTasksAssumption == MaxTasks \in Nat
ASSUME NoAgentAssumption  == NoAgent \notin Agents
ASSUME MaxLeaseAssumption == MaxLease \in Nat \ {0}

VARIABLES
    task,       \* the tasks table
    trail,      \* per task: its newest event, and its newest lifecycle event
    stale_rows  \* per reader: the claim_agent of each row its SELECT returned
                \* and it has not written back yet, NoAgent for the others

vars == <<task, trail, stale_rows>>

Tasks == 1..MaxTasks
MaybeAgent == Agents \cup {NoAgent}

-----------------------------------------------------------------------------
(* The two tables.                                                         *)

\* lease_expires_ts, relative to now: ticks left, Elapsed once it is strictly
\* in the past, NoLease for the empty string.  claim_ts and last_heartbeat_ts
\* are set and cleared together with it.
NoLease == -2
Elapsed == -1
Leases == NoLease..MaxLease

TaskRecord ==
    [status         : {"absent", "queued", "claimed", "blocked", "done"},
     assignee       : MaybeAgent,
     claim_agent    : MaybeAgent,
     lease          : Leases,
     blocked_reason : BOOLEAN,    \* is it non-empty
     completed_ts   : BOOLEAN]    \* is it non-empty

NoTask == [status |-> "absent", assignee |-> NoAgent, claim_agent |-> NoAgent,
           lease |-> NoLease, blocked_reason |-> FALSE, completed_ts |-> FALSE]

\* The status a task has once an event of the given type is recorded for it.
\* The other events (heartbeat, comment, and reassigned when its details say
\* that no claim was cleared) leave the status alone.
StatusAfter ==
    [none |-> "absent", created |-> "queued", claimed |-> "claimed",
     lease_expired |-> "queued", released |-> "queued", claim_cleared |-> "queued",
     unblocked |-> "queued", blocked |-> "blocked", completed |-> "done"]

LifecycleEvents == {"none", "created", "claimed", "lease_expired", "released",
                    "claim_cleared", "unblocked", "blocked", "completed"}
OtherEvents == {"heartbeat", "comment", "reassigned"}

TrailRecord ==
    [last  : LifecycleEvents \cup OtherEvents,
     event : LifecycleEvents,
     actor : MaybeAgent]

NoTrail == [last |-> "none", event |-> "none", actor |-> NoAgent]

\* insert_task_event() for an event that changes the status.
Lifecycle(type, a) == [last |-> type, event |-> type, actor |-> a]

\* insert_task_event() for an event that does not.
Note(entry, type) == [entry EXCEPT !.last = type]

-----------------------------------------------------------------------------
(* Lease expiry.                                                           *)

\* Mutant: a lease is taken back while its last second runs.
Stale_Inclusive(q) == q.status = "claimed" /\ q.lease # NoLease /\ q.lease <= 0

\* Mutant: the comparison is the wrong way round.
Stale_Reversed(q) == q.status = "claimed" /\ q.lease # NoLease /\ q.lease > 0

\* The WHERE clause of the SELECT.  The empty string sorts before every time,
\* which is why the clause excludes it.
Stale(q) == q.status = "claimed" /\ q.lease # NoLease /\ q.lease < 0

\* The UPDATE every hand-back of a claim performs.
Requeued(q) ==
    [q EXCEPT !.status = "queued", !.claim_agent = NoAgent, !.lease = NoLease]

\* Mutant: the row is requeued and its event is lost.
ExpiredTrail_NoEvent(t) == trail[t]

\* Task t and its trail after expire_stale_claims() ran under the write lock.
ExpiredTrail(t) ==
    IF Stale(task[t]) THEN Lifecycle("lease_expired", task[t].claim_agent)
                      ELSE trail[t]
Expired(t) == IF Stale(task[t]) THEN Requeued(task[t]) ELSE task[t]

\* The tables after a transaction that expires stale claims and then writes
\* record q and trail entry e for task t.
Commit(t, q, e) ==
    /\ task'  = [u \in Tasks |-> IF u = t THEN q ELSE Expired(u)]
    /\ trail' = [u \in Tasks |-> IF u = t THEN e ELSE ExpiredTrail(u)]
    /\ UNCHANGED stale_rows
-----------------------------------------------------------------------------
(* The handlers that hold the write lock throughout.                       *)

\* POST /v1/tasks: one insert with the next id.
CreateTask(a, t, assignee) ==
    /\ task[t].status = "absent"
    /\ \A u \in 1..(t - 1) : task[u].status # "absent"
    /\ task'  = [task EXCEPT ![t] = [NoTask EXCEPT !.status = "queued",
                                                   !.assignee = assignee]]
    /\ trail' = [trail EXCEPT ![t] = Lifecycle("created", a)]
    /\ UNCHANGED stale_rows

\* A locking request that writes nothing but expiries: every conflict answer,
\* and the Summary's workset, onboarding and publish handlers.
ExpiryPass ==
    /\ \E t \in Tasks : Stale(task[t])
    /\ task'  = [t \in Tasks |-> Expired(t)]
    /\ trail' = [t \in Tasks |-> ExpiredTrail(t)]
    /\ UNCHANGED stale_rows

\* CASE WHEN assignee = '' THEN agent ELSE assignee END
AssigneeOr(q, a) == IF q.assignee = NoAgent THEN a ELSE q.assignee

\* Mutant: the claim of another agent is not looked at.
MayClaim_IgnoreHolder(q, a) ==
    /\ q.status \in {"queued", "claimed"}
    /\ q.assignee \in {NoAgent, a}

MayClaim(q, a) ==
    /\ q.status \in {"queued", "claimed"}
    /\ q.assignee \in {NoAgent, a}
    /\ q.status = "claimed" => q.claim_agent \in {NoAgent, a}

\* POST /v1/tasks/claim
Claim(a, t, len) ==
    LET q == Expired(t) IN
    /\ MayClaim(q, a)
    /\ Commit(t,
              [q EXCEPT !.status = "claimed", !.assignee = AssigneeOr(q, a),
                        !.claim_agent = a, !.lease = len, !.blocked_reason = FALSE],
              Lifecycle("claimed", a))

MayHeartbeat(q, a) == q.status = "claimed" /\ q.claim_agent = a

\* POST /v1/tasks/heartbeat
Heartbeat(a, t, len) ==
    LET q == Expired(t) IN
    /\ MayHeartbeat(q, a)
    /\ Commit(t, [q EXCEPT !.lease = len], Note(ExpiredTrail(t), "heartbeat"))

MayComplete(q, a) ==
    /\ q.status \in {"queued", "claimed"}
    /\ q.claim_agent \in {NoAgent, a}
    /\ q.assignee \in {NoAgent, a} \/ q.claim_agent = a

\* POST /v1/tasks/complete
Complete(a, t) ==
    LET q == Expired(t) IN
    /\ MayComplete(q, a)
    /\ Commit(t,
              [q EXCEPT !.status = "done", !.assignee = AssigneeOr(q, a),
                        !.claim_agent = NoAgent, !.lease = NoLease,
                        !.blocked_reason = FALSE, !.completed_ts = TRUE],
              Lifecycle("completed", a))

MayBlock(q, a) ==
    /\ q.status \notin {"absent", "done"}
    /\ q.claim_agent \in {NoAgent, a}

\* POST /v1/tasks/block
Block(a, t) ==
    LET q == Expired(t) IN
    /\ MayBlock(q, a)
    /\ Commit(t,
              [q EXCEPT !.status = "blocked", !.assignee = AssigneeOr(q, a),
                        !.claim_agent = NoAgent, !.lease = NoLease,
                        !.blocked_reason = TRUE],
              Lifecycle("blocked", a))

\* POST /v1/tasks/reassign, with keep_claim and without.  The event says
\* whether a claim was cleared.
ReassignKeepingClaim(t, assignee) ==
    LET q == Expired(t) IN
    /\ q.status \notin {"absent", "done"}
    /\ Commit(t, [q EXCEPT !.assignee = assignee], Note(ExpiredTrail(t), "reassigned"))

\* Mutant: the claim is cleared and the status is not.
Reassigned_KeepStatus(q, assignee) ==
    [q EXCEPT !.assignee = assignee, !.claim_agent = NoAgent, !.lease = NoLease]

Reassigned(q, assignee) ==
    [q EXCEPT !.status = IF q.status = "claimed" THEN "queued" ELSE q.status,
              !.assignee = assignee, !.claim_agent = NoAgent, !.lease = NoLease]

Reassign(a, t, assignee) ==
    LET q == Expired(t) IN
    /\ q.status \notin {"absent", "done"}
    /\ Commit(t, Reassigned(q, assignee),
              IF q.claim_agent # NoAgent THEN Lifecycle("claim_cleared", a)
                                         ELSE Note(ExpiredTrail(t), "reassigned"))

\* POST /v1/tasks/release: any agent may hand any claim back.
Release(a, t) ==
    LET q == Expired(t) IN
    /\ q.status = "claimed" /\ q.claim_agent # NoAgent
    /\ Commit(t, Requeued(q), Lifecycle("released", a))

\* Mutant: the reason stays on a task that is no longer blocked.
Unblocked_KeepReason(q) == [q EXCEPT !.status = "queued"]

Unblocked(q) == [q EXCEPT !.status = "queued", !.blocked_reason = FALSE]

\* POST /v1/tasks/unblock
Unblock(a, t) ==
    LET q == Expired(t) IN
    /\ q.status = "blocked"
    /\ Commit(t, Unblocked(q), Lifecycle("unblocked", a))
-----------------------------------------------------------------------------
(* The handlers that do not take the write lock first: GET tasks, next,    *)
(* liveness, board and context, and POST comment.                          *)

NoRows == [t \in Tasks |-> NoAgent]

\* The SELECT of expire_stale_claims(), in a snapshot of its own.  A reader
\* whose SELECT is empty writes no expiry.
SelectStale(r) ==
    /\ stale_rows[r] = NoRows
    /\ \E t \in Tasks : Stale(task[t])
    /\ stale_rows' = [stale_rows EXCEPT ![r] =
           [t \in Tasks |-> IF Stale(task[t]) THEN task[t].claim_agent ELSE NoAgent]]
    /\ UNCHANGED <<task, trail>>

\* Task t and its trail after the UPDATEs, by id alone, of the rows r selected.
Overwritten(r, t) ==
    IF stale_rows[r][t] # NoAgent THEN Requeued(task[t]) ELSE task[t]
OverwrittenTrail(r, t) ==
    IF stale_rows[r][t] # NoAgent THEN Lifecycle("lease_expired", stale_rows[r][t])
                                  ELSE trail[t]

\* The transaction of a read: the UPDATEs and their events.
FinishRead(r) ==
    /\ stale_rows[r] # NoRows
    /\ task'  = [t \in Tasks |-> Overwritten(r, t)]
    /\ trail' = [t \in Tasks |-> OverwrittenTrail(r, t)]
    /\ stale_rows' = [stale_rows EXCEPT ![r] = NoRows]

\* The transaction of POST /v1/tasks/comment on task c: the same, and its event.
FinishComment(r, c) ==
    /\ task[c].status # "absent"
    /\ task'  = [t \in Tasks |-> Overwritten(r, t)]
    /\ trail' = [t \in Tasks |-> IF t = c THEN Note(OverwrittenTrail(r, c), "comment")
                                          ELSE OverwrittenTrail(r, t)]
    /\ stale_rows' = [stale_rows EXCEPT ![r] = NoRows]

\* A bad filter value, or a task that does not exist, raises inside the
\* connection's with-block: the UPDATEs are rolled back.
RollbackRead(r) ==
    /\ stale_rows[r] # NoRows
    /\ stale_rows' = [stale_rows EXCEPT ![r] = NoRows]
    /\ UNCHANGED <<task, trail>>

ReadRequest(r) ==
    \/ SelectStale(r)
    \/ FinishRead(r)
    \/ \E c \in Tasks : FinishComment(r, c)
    \/ RollbackRead(r)

\* Mutant: a claim of the agent's own is not offered back to it.
NextChoices_NoResume(a) ==
    {t \in Tasks : task[t].status = "queued" /\ task[t].assignee \in {NoAgent, a}}

\* GET /v1/tasks/next: the rows of which the answer is the first by priority
\* and id, on a board whose stale claims are expired.
NextChoices(a) ==
    LET own      == {t \in Tasks : task[t].status = "claimed" /\ task[t].claim_agent = a}
        eligible == {t \in Tasks : task[t].status = "queued"
                                      /\ task[t].assignee \in {NoAgent, a}}
        assigned == {t \in eligible : task[t].assignee = a}
    IN CASE own # {}      -> own
         [] own = {} /\ assigned # {} -> assigned
         [] OTHER         -> eligible

-----------------------------------------------------------------------------
(* The specification.                                                      *)

\* One second passes.
Tick ==
    /\ \E t \in Tasks : task[t].lease >= 0
    /\ task' = [t \in Tasks |-> IF task[t].lease >= 0
                                THEN [task[t] EXCEPT !.lease = @ - 1] ELSE task[t]]
    /\ UNCHANGED <<trail, stale_rows>>

Init ==
    /\ task = [t \in Tasks |-> NoTask]
    /\ trail = [t \in Tasks |-> NoTrail]
    /\ stale_rows = [r \in Readers |-> NoRows]

AgentRequest(a, t) ==
    \/ \E b \in MaybeAgent : CreateTask(a, t, b)
    \/ \E len \in 1..MaxLease : Claim(a, t, len)
    \/ \E len \in 1..MaxLease : Heartbeat(a, t, len)
    \/ Complete(a, t)
    \/ Block(a, t)
    \/ \E b \in MaybeAgent : ReassignKeepingClaim(t, b)
    \/ \E b \in MaybeAgent : Reassign(a, t, b)
    \/ Release(a, t)
    \/ Unblock(a, t)

LockedRequest == ExpiryPass \/ \E a \in Agents, t \in Tasks : AgentRequest(a, t)

Next ==
    \/ Tick
    \/ LockedRequest
    \/ \E r \in Readers : ReadRequest(r)

Spec == Init /\ [][Next]_vars

\* The behaviours in which no request commits inside a reader's window.
NoWindow == \A r \in Readers : stale_rows[r] = NoRows

SerialNext ==
    \/ Tick
    \/ NoWindow /\ LockedRequest
    \/ NoWindow /\ \E r \in Readers : SelectStale(r)
    \/ \E r \in Readers : FinishRead(r) \/ RollbackRead(r)
    \/ \E r \in Readers, c \in Tasks : FinishComment(r, c)

SerialSpec == Init /\ [][SerialNext]_vars

-----------------------------------------------------------------------------
(* Properties.                                                             *)

\* The tables hold what their columns may hold: no handler writes a status, a
\* holder or a lease from outside, nor an event that is not one of its kind.
TypeOK ==
    /\ task \in [Tasks -> TaskRecord]
    /\ trail \in [Tasks -> TrailRecord]
    /\ stale_rows \in [Readers -> [Tasks -> MaybeAgent]]

\* The three columns that say a task is claimed never disagree, whatever the
\* order in which requests, expiries and late expiries write them: a claimed
\* task has a holder and a lease that will end, and no other task has either.
\* A claim without a lease would be the permanent lock leases exist to avoid.
ClaimColumnsAgree ==
    \A t \in Tasks :
        /\ task[t].status = "claimed" <=> task[t].claim_agent # NoAgent
        /\ task[t].status = "claimed" <=> task[t].lease # NoLease

\* The event trail is evidence for the board: the newest lifecycle event of a
\* task gives its status and, if it is claimed, its holder; and a heartbeat is
\* the newest event of a claimed task only.  No handler changes a status or a
\* holder without an event, and none records a change it did not make.
TrailExplainsBoard ==
    \A t \in Tasks :
        /\ task[t].status = StatusAfter[trail[t].event]
        /\ task[t].status = "claimed" => task[t].claim_agent = trail[t].actor
        /\ trail[t].last = "heartbeat" => task[t].status = "claimed"

\* next and claim agree: what next offers an agent it can claim or, if it holds
\* it already, keep alive; and next offers nothing only if no claim by the agent
\* would be accepted.
NextAgreesWithClaim ==
    (\A t \in Tasks : ~Stale(task[t])) =>
        \A a \in Agents :
            /\ \A t \in NextChoices(a) : MayClaim(task[t], a) \/ MayHeartbeat(task[t], a)
            /\ NextChoices(a) = {} => \A t \in Tasks : ~MayClaim(task[t], a)

LiveClaim(t) == task[t].status = "claimed" /\ task[t].lease >= 0

\* The events that may end a claim whose lease still runs.
ClaimEnders == {"completed", "blocked", "released", "claim_cleared"}

\* A lease lasts: while it runs its holder loses the task only through a
\* complete, block, release or reassign request that is on record.
LeaseKept(t) ==
    LiveClaim(t) /\ task'[t].claim_agent # task[t].claim_agent
        => trail'[t].event \in ClaimEnders

DoneKept(t) == task[t].status = "done" => task'[t].status = "done"

\* A task that was completed is never work again.
DoneIsFinal == [][\A t \in Tasks : DoneKept(t)]_vars

\* A lease that ran out starts to run again only through a new claim, even if
\* no request has expired it yet.
ElapsedKept(t) ==
    task[t].lease = Elapsed /\ task'[t].lease >= 0 => trail'[t].last = "claimed"

\* A blocked task is unblocked before anybody works on it.
BlockedKept(t) == task[t].status = "blocked" => task'[t].status \in {"blocked", "queued"}

InWindow(t) == \E r \in Readers : stale_rows[r][t] # NoAgent

\* The board keeps its word about every task no reader has selected and not
\* yet written back: live leases are honoured, lapsed ones are not revived by
\* a heartbeat, done is final, and blocked tasks are not worked on.
KeptOutsideWindows ==
    [][\A t \in Tasks :
          ~InWindow(t) => LeaseKept(t) /\ DoneKept(t) /\ ElapsedKept(t) /\ BlockedKept(t)]_vars

\* Where no request commits inside a window, the reason and the completion time
\* of a record are there exactly while the task is blocked or done.
RecordMatchesStatus ==
    \A t \in Tasks :
        /\ task[t].status = "blocked" <=> task[t].blocked_reason
        /\ task[t].status = "done" <=> task[t].completed_ts

\* Where no request commits inside a window, the board implements TaskLease.
Promise == INSTANCE TaskLease WITH
    Nobody <- NoAgent,
    state  <- [t \in Tasks |-> task[t].status],
    holder <- [t \in Tasks |-> task[t].claim_agent],
    left   <- [t \in Tasks |-> task[t].lease],
    reason <- [t \in Tasks |-> trail[t].event]

KeepsPromise == Promise!Spec
=============================================================================
