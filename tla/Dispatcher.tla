------------------------------ MODULE Dispatcher ------------------------------
(***************************************************************************)
(* The commit-review dispatcher (dispatcher/commit_review.py): it polls a  *)
(* Watercooler thread for review requests, runs one reviewer container at  *)
(* a time, and posts one reply per request.                                *)
(*                                                                         *)
(* A scheduler starts a process every few minutes; each runs one           *)
(* dispatch_cycle under an OS lock and exits.  What survives is the state  *)
(* file, replaced atomically, and what is outside the process: the         *)
(* launchers (docker clients) it started, their containers, their result   *)
(* files, and its POSTs.  The process may die between any two of its       *)
(* steps.  Variable pc is where the running process stands in the cycle.   *)
(*                                                                         *)
(* Clocks are kept as facts: which retries are not due yet, which reviews  *)
(* are past their deadline, how many began today.                          *)
(***************************************************************************)
EXTENDS Integers, Sequences, FiniteSets

CONSTANTS
    MaxMessages,   \* bound: messages in the thread, with ids 1..MaxMessages
    MaxAttempts,   \* --max-attempts
    DailyLimit,    \* daily_review_limit of the policy
    MaxHistory,    \* MAX_HISTORY
    ResultLength,  \* characters of the longest result validate_review_result() accepts
    ReplyLength,   \* MAX_REPLY_BODY_LENGTH
    MaxLate        \* bound: POSTs per request that outlive their client

ASSUME DispatcherAssumption ==
    /\ MaxMessages \in Nat /\ MaxAttempts \in Nat \ {0} /\ DailyLimit \in Nat \ {0}
    /\ MaxHistory \in Nat \ {0} /\ MaxLate \in Nat
    /\ ResultLength \in Nat /\ ReplyLength \in Nat

VARIABLES
    inbox,        \* the thread: what message 1, 2, ... is to the dispatcher
    replies,      \* per request: the replies on the service, in order
    late,         \* per request: replies the service has yet to commit though
                  \* the client gave up on them
    unpostable,   \* the requests a reply to which the service called invalid
    disk,         \* the state file
    memory,       \* the state of the running process; of none: what it would load
    pc,           \* where the running process is
    skipped,      \* messages priming skipped, NoStateFile if there is no file yet
    launcher,     \* per request and attempt: the docker client
    container,    \* per request and attempt: the container
    result_file,  \* per request and attempt: is there a valid result
    oversized,    \* those of them that are too long once rendered
    orphans,      \* launches a process did not live to write down, or could not kill
    waiting,      \* requests whose retry_after_ts is in the future
    overdue,      \* requests whose review is past its deadline
    launches      \* reviewers launched today whose start counts for today

service   == <<inbox, replies, late, unpostable>>
reviewers == <<launcher, container, result_file, oversized, orphans>>
clocks    == <<waiting, overdue, launches>>
vars == <<service, disk, memory, pc, skipped, reviewers, clocks>>

Ids      == 1..MaxMessages
Attempts == 1..MaxAttempts

NoStateFile == -1

\* What a reply says: the result of an attempt, that there is none, or a refusal.
Blocked == 0
Refusal == -1

-----------------------------------------------------------------------------
(* The state file.                                                         *)

\* An open item; status "none" for an id that has none.  Its container_name is
\* set exactly while it is running.
NoItem == [status |-> "none", attempts |-> 0, worker_pid |-> FALSE, result |-> 0,
           terminal_kind |-> "completed"]

EmptyState == [cursor |-> 0, items |-> [i \in Ids |-> NoItem], completed |-> <<>>,
               dead_letters |-> <<>>, starts_today |-> 0]

WithStatus(st, statuses) == {i \in Ids : st.items[i].status \in statuses}
Open(st)        == WithStatus(st, {"queued", "running", "result_ready", "reply_pending"})
Running(st)     == WithStatus(st, {"running"})
Ready(st)       == WithStatus(st, {"queued"}) \ waiting


Publishable(st) == WithStatus(st, {"result_ready", "reply_pending"})

Elements(s) == {s[n] : n \in 1..Len(s)}
Known(st)   == Open(st) \cup Elements(st.completed) \cup Elements(st.dead_letters)

\* _next_item()
Lowest(S) == CHOOSE i \in S : \A j \in S : i <= j

\* Mutant: a message with a malformed body is passed over.
Enqueued_RequestsOnly(st, i) ==
    /\ st.cursor < i /\ i <= Len(inbox)
    /\ inbox[i] = "request"
    /\ i \notin Known(st)

\* enqueue_new_messages(): does message i become an item.
Enqueued(st, i) ==
    /\ st.cursor < i /\ i <= Len(inbox)
    /\ inbox[i] \in {"request", "malformed"}
    /\ i \notin Known(st)

CursorAfter(st) == IF st.cursor < Len(inbox) THEN Len(inbox) ELSE st.cursor

\* poll_into_state(): a malformed request is refused without a review.
Polled(st) ==
    [st EXCEPT !.cursor = CursorAfter(st),
               !.items = [i \in Ids |->
                   IF ~Enqueued(st, i) THEN st.items[i]
                   ELSE IF inbox[i] = "request" THEN [NoItem EXCEPT !.status = "queued"]
                   ELSE [NoItem EXCEPT !.status = "reply_pending",
                                       !.terminal_kind = "rejected"]]]

\* Mutant: one failure more than allowed is retried.
Exhausted_OffByOne(item) == item.attempts > MaxAttempts

Exhausted(item) == item.attempts >= MaxAttempts

\* _record_worker_failure(), with the custody fields cleared before it.
Failed(st, i) ==
    LET item == [st.items[i] EXCEPT !.worker_pid = FALSE] IN
    [st EXCEPT !.items[i] =
        IF Exhausted(item)
        THEN [item EXCEPT !.status = "reply_pending", !.terminal_kind = "dead"]
        ELSE [item EXCEPT !.status = "queued"]]
WaitingAfter(st, i) == IF Exhausted(st.items[i]) THEN waiting ELSE waiting \cup {i}

Reviewed(st, i) ==
    [st EXCEPT !.items[i].status = "result_ready", !.items[i].worker_pid = FALSE,
               !.items[i].result = st.items[i].attempts]

\* del destination[:-MAX_HISTORY]
Trimmed(s) == IF Len(s) > MaxHistory THEN SubSeq(s, Len(s) - MaxHistory + 1, Len(s)) ELSE s

\* Mutant: the item is filed without leaving the open ones.
Finished_StaysOpen(st, i) ==
    IF st.items[i].terminal_kind = "completed"
    THEN [st EXCEPT !.completed = Trimmed(Append(@, i))]
    ELSE [st EXCEPT !.dead_letters = Trimmed(Append(@, i))]

\* _move_terminal()
Finished(st, i) ==
    IF st.items[i].terminal_kind = "completed"
    THEN [st EXCEPT !.items[i] = NoItem, !.completed = Trimmed(Append(@, i))]
    ELSE [st EXCEPT !.items[i] = NoItem, !.dead_letters = Trimmed(Append(@, i))]

\* _move_unpublished_dead()
Unpublished(st, i) ==
    [st EXCEPT !.items[i] = NoItem, !.dead_letters = Trimmed(Append(@, i))]

\* build_reply_body()
Reply(item) == IF item.terminal_kind = "rejected" THEN Refusal ELSE item.result

\* _bounded_reply() lets the body of a reply to i through; refusals and BLOCKED answers
\* are short.
Renders(i, item) ==
    item.terminal_kind = "rejected" \/ <<i, item.result>> \notin oversized

-----------------------------------------------------------------------------
(* One dispatch_cycle.                                                     *)

\* save_state(), and the end of the process.
Save(st) == disk' = st /\ memory' = st
Exit     == pc' = "idle"

\* load_state() and poll_into_state().  A poll that fails ends the process with
\* nothing saved, and is not a step.
Poll ==
    /\ pc = "idle" /\ pc' = "recover"
    /\ memory' = Polled(disk)
    /\ UNCHANGED <<service, disk, skipped, reviewers, clocks>>

\* --prime does nothing if there is a state file.
Prime ==
    /\ pc = "idle" /\ skipped = NoStateFile
    /\ skipped' = Len(inbox)
    /\ Save([EmptyState EXCEPT !.cursor = Len(inbox)])
    /\ UNCHANGED <<service, pc, reviewers, clocks>>

\* The container has been created and not ended, or is there to be removed, or is
\* not there.
Live(i, k)    == container[i][k] = "live"
Present(i, k) == container[i][k] \in {"live", "exited"}
Attempt(i)    == memory.items[i].attempts

RemoveContainer(i, k) ==
    container' = [container EXCEPT ![i][k] = IF Present(i, k) THEN "gone" ELSE @]
\* A removal that fails, or that succeeded and could not be confirmed.
RemovalUnconfirmed(i, k) == container' = container \/ RemoveContainer(i, k)

\* recover_interrupted_items(): there is at most one running item.  It stays as it
\* is if its container cannot be inspected or removed, is not to be touched yet, or
\* if its launcher is alive (a process that was given the same pid passes for it).
RecoverNothing ==
    /\ pc = "recover" /\ pc' = "save"
    /\ \/ container' = container
       \/ \E i \in Running(memory) :
             /\ container[i][Attempt(i)] = "exited" \/ i \in overdue
             /\ RemovalUnconfirmed(i, Attempt(i))
    /\ UNCHANGED <<service, disk, memory, skipped, launcher, result_file, oversized, orphans,
                   clocks>>

\* An overdue container is stopped by force and what it wrote is not trusted.
RecoverByForce(i) ==
    /\ pc = "recover" /\ pc' = "save"
    /\ i \in Running(memory) /\ i \in overdue
    /\ Live(i, Attempt(i))
    /\ RemoveContainer(i, Attempt(i))
    /\ memory' = Failed(memory, i)
    /\ waiting' = WaitingAfter(memory, i)
    /\ UNCHANGED <<service, disk, skipped, launcher, result_file, oversized, orphans,
                   overdue, launches>>

\* Mutant: the launcher is not asked after.
LauncherSeen_Never(i) == FALSE

\* _process_alive(worker_pid)
LauncherSeen(i) == memory.items[i].worker_pid /\ launcher[i][Attempt(i)] = "alive"

\* The review ended without the dispatcher: its result counts if there is one.
RecoverEnded(i) ==
    /\ pc = "recover" /\ pc' = "save"
    /\ i \in Running(memory)
    /\ ~Live(i, Attempt(i)) /\ ~LauncherSeen(i)
    /\ RemoveContainer(i, Attempt(i))
    /\ IF result_file[i][Attempt(i)]
       THEN memory' = Reviewed(memory, i) /\ waiting' = waiting
       ELSE memory' = Failed(memory, i) /\ waiting' = WaitingAfter(memory, i)
    /\ UNCHANGED <<service, disk, skipped, launcher, result_file, oversized, orphans,
                   overdue, launches>>

SaveRecovered ==
    /\ pc = "save" /\ pc' = "choose"
    /\ Save(memory)
    /\ skipped' = IF skipped = NoStateFile THEN 0 ELSE skipped
    /\ UNCHANGED <<service, reviewers, clocks>>

\* Nothing to publish, and the reviewer is running, nothing is ready, or the daily
\* limit is reached.
Quiet ==
    /\ pc = "choose" /\ Exit
    /\ Publishable(memory) = {}
    /\ \/ Running(memory) # {}
       \/ Ready(memory) = {}
       \/ memory.starts_today >= DailyLimit
    /\ UNCHANGED <<service, disk, memory, skipped, reviewers, clocks>>

BeginPublication ==
    /\ pc = "choose" /\ pc' = "find"
    /\ Publishable(memory) # {}
    /\ UNCHANGED <<service, disk, memory, skipped, reviewers, clocks>>

\* Mutant: the limit is checked as if it were the number to exceed.
MayReview_AtLimit(st) ==
    /\ Publishable(st) = {} /\ Running(st) = {}
    /\ Ready(st) # {}
    /\ st.starts_today <= DailyLimit

MayReview(st) ==
    /\ Publishable(st) = {} /\ Running(st) = {}
    /\ Ready(st) # {}
    /\ st.starts_today < DailyLimit

\* The commit is not there, or its packet cannot be built: no model is asked.
RefuseCommit ==
    /\ pc = "choose" /\ Exit
    /\ MayReview(memory)
    /\ LET i == Lowest(Ready(memory))
       IN Save([memory EXCEPT !.items[i].status = "reply_pending",
                              !.items[i].terminal_kind = "rejected"])
    /\ UNCHANGED <<service, skipped, reviewers, clocks>>

\* Mutant: the attempt is saved only once it is launched.
StartReview_SavedLater ==
    /\ pc = "choose" /\ pc' = "launch"
    /\ MayReview(memory)
    /\ LET i == Lowest(Ready(memory)) IN
       /\ memory' = [memory EXCEPT !.items[i].status = "running",
                                   !.items[i].attempts = @ + 1,
                                   !.starts_today = @ + 1]
       /\ overdue' = overdue \ {i}
    /\ UNCHANGED <<service, disk, skipped, reviewers, waiting, launches>>

\* The attempt, and the start that counts against the limit, are saved before
\* anything is launched.
StartReview ==
    /\ pc = "choose" /\ pc' = "launch"
    /\ MayReview(memory)
    /\ LET i == Lowest(Ready(memory)) IN
       /\ Save([memory EXCEPT !.items[i].status = "running",
                              !.items[i].attempts = @ + 1,
                              !.starts_today = @ + 1])
       /\ overdue' = overdue \ {i}
    /\ UNCHANGED <<service, skipped, reviewers, waiting, launches>>

\* run_codex_worker() up to Popen.  The result and prompt of the attempt that it
\* unlinks first are never there: see LaunchesAreFresh.
Launch(i) ==
    /\ pc = "launch" /\ pc' = "started"
    /\ i \in Running(memory)
    /\ launcher' = [launcher EXCEPT ![i][Attempt(i)] = "alive"]
    /\ launches' = launches + 1
    /\ UNCHANGED <<service, disk, memory, skipped, container, result_file, oversized,
                   orphans, waiting, overdue>>

\* A launch that DayBegins left out of account will not take place.
Launched == IF launches < 0 THEN 0 ELSE launches

\* It raises before Popen: the item is left running.  Or Popen itself fails.
NotLaunched ==
    /\ pc = "launch" /\ pc' \in {"idle", "cleanup_failed"}
    /\ launches' = Launched
    /\ UNCHANGED <<service, disk, memory, skipped, reviewers, waiting, overdue>>

\* on_started() saves the pid.
OnStarted(i) ==
    /\ pc = "started" /\ pc' = "wait"
    /\ i \in Running(memory)
    /\ Save([memory EXCEPT !.items[i].worker_pid = TRUE])
    /\ UNCHANGED <<service, skipped, reviewers, clocks>>

\* _terminate_process_tree(): taskkill and kill() may fail, and then nobody waits for
\* the launcher any more.
KillLauncher(i) ==
    \/ /\ launcher' = [launcher EXCEPT ![i][Attempt(i)] = "dead"]
       /\ orphans' = orphans
    \/ /\ launcher[i][Attempt(i)] = "alive" /\ launcher' = launcher
       /\ orphans' = orphans \cup {<<i, Attempt(i)>>}

\* An exit of the launcher, whose code is 0 only if its container ended.
ExitedWell(i) ==
    launcher[i][Attempt(i)] = "dead" /\ container[i][Attempt(i)] \in {"exited", "gone"}

\* The pid cannot be saved.  The launcher is killed, if it has not exited by now.
OnStartedFails(i) ==
    /\ pc = "started" /\ pc' \in {"cleanup", "cleanup_failed"}
    /\ i \in Running(memory)
    /\ pc' = "cleanup" => ExitedWell(i)
    /\ KillLauncher(i)
    /\ memory' = [memory EXCEPT !.items[i].worker_pid = TRUE]
    /\ UNCHANGED <<service, disk, skipped, container, result_file, oversized, clocks>>

LauncherExited(i) ==
    /\ pc = "wait" /\ pc' \in {"cleanup", "cleanup_failed"}
    /\ i \in Running(memory)
    /\ pc' = "cleanup" => ExitedWell(i)
    /\ launcher[i][Attempt(i)] = "dead"
    /\ UNCHANGED <<service, disk, memory, skipped, reviewers, clocks>>

\* timeout_seconds, or any other failure to wait: the launcher is killed, which
\* does not stop the container.
WaitTimesOut(i) ==
    /\ pc = "wait" /\ pc' = "cleanup_failed"
    /\ i \in Running(memory)
    /\ KillLauncher(i)
    /\ UNCHANGED <<service, disk, memory, skipped, container, result_file, oversized, clocks>>

\* The container is removed and the launcher returned a readable result.
ReviewSucceeds(i) ==
    /\ pc = "cleanup" /\ pc' = "find"
    /\ i \in Running(memory) /\ result_file[i][Attempt(i)]
    /\ RemoveContainer(i, Attempt(i))
    /\ Save(Reviewed(memory, i))
    /\ UNCHANGED <<service, skipped, launcher, result_file, oversized, orphans, clocks>>

ReviewFails(i) ==
    /\ i \in Running(memory)
    /\ \/ pc = "cleanup_failed"
       \/ pc = "cleanup" /\ ~result_file[i][Attempt(i)]
    /\ Exit
    /\ RemoveContainer(i, Attempt(i))
    /\ Save(Failed(memory, i))
    /\ waiting' = WaitingAfter(memory, i)
    /\ UNCHANGED <<service, skipped, launcher, result_file, oversized, orphans, overdue,
                   launches>>

\* Mutant: a result is taken though the container may still run.
CleanupFails_TakesResult(i) ==
    /\ pc \in {"cleanup", "cleanup_failed"} /\ Exit
    /\ i \in Running(memory)
    /\ RemovalUnconfirmed(i, Attempt(i))
    /\ Save(IF result_file[i][Attempt(i)] THEN Reviewed(memory, i) ELSE memory)
    /\ UNCHANGED <<service, skipped, launcher, result_file, oversized, orphans, clocks>>

\* The removal is not confirmed: the item stays running, whatever the result.
CleanupFails(i) ==
    /\ pc \in {"cleanup", "cleanup_failed"} /\ Exit
    /\ i \in Running(memory)
    /\ RemovalUnconfirmed(i, Attempt(i))
    /\ Save(memory)
    /\ UNCHANGED <<service, skipped, launcher, result_file, oversized, orphans, clocks>>

-----------------------------------------------------------------------------
(* _publish_item_with_custody(), of the lowest publishable item.           *)

Current == Lowest(Publishable(memory))

\* Mutant: nobody looks for a reply that is there already.
ReplyExists_Never(i) == FALSE

\* find_existing_reply(): the marker tag of the request.
ReplyExists(i) == replies[i] # <<>>

FindReply ==
    /\ pc = "find"
    /\ IF ReplyExists(Current)
       THEN pc' = "finish" /\ memory' = Finished(memory, Current)
       ELSE pc' = "post" /\ memory' = memory
    /\ UNCHANGED <<service, disk, skipped, reviewers, clocks>>

Committed(i, r) == replies' = [replies EXCEPT ![i] = Append(@, r)]

\* POST /v1/post, answered with the id of the reply.
PostAnswered ==
    /\ pc = "post" /\ pc' = "finish"
    /\ Renders(Current, memory.items[Current])
    /\ Committed(Current, [says |-> Reply(memory.items[Current]), late |-> FALSE])
    /\ memory' = Finished(memory, Current)
    /\ UNCHANGED <<inbox, late, unpostable, disk, skipped, reviewers, clocks>>

\* The answer is lost, or has no id.
PostUnanswered ==
    /\ pc = "post" /\ Exit /\ memory' = disk
    /\ Renders(Current, memory.items[Current])
    /\ Committed(Current, [says |-> Reply(memory.items[Current]), late |-> FALSE])
    /\ UNCHANGED <<inbox, late, unpostable, disk, skipped, reviewers, clocks>>

\* The client gives up after 15 seconds; the service waits 30 for its write lock.
PostOutlivesClient ==
    /\ pc = "post" /\ Exit /\ memory' = disk
    /\ Renders(Current, memory.items[Current])
    /\ Len(late[Current]) + Cardinality({n \in 1..Len(replies[Current]) :
                                            replies[Current][n].late}) < MaxLate
    /\ late' = [late EXCEPT ![Current] = Append(@, Reply(memory.items[Current]))]
    /\ UNCHANGED <<inbox, replies, unpostable, disk, skipped, reviewers, clocks>>

\* HTTP 400, 413 or 422: no reply to this request will ever be accepted.
PostRejected ==
    /\ pc = "post" /\ pc' = "finish"
    /\ Renders(Current, memory.items[Current])
    /\ unpostable' = unpostable \cup {Current}
    /\ memory' = Unpublished(memory, Current)
    /\ UNCHANGED <<inbox, replies, late, disk, skipped, reviewers, clocks>>

\* build_reply_body() raises, and nobody catches it: the item stays publishable.
ReplyCannotBeBuilt ==
    /\ pc = "post" /\ Exit /\ memory' = disk
    /\ ~Renders(Current, memory.items[Current])
    /\ UNCHANGED <<service, disk, skipped, reviewers, clocks>>

\* A lookup or a POST that fails in any other way, and nothing came of it.
PublicationFails ==
    /\ pc \in {"find", "post"} /\ Exit /\ memory' = disk
    /\ UNCHANGED <<service, disk, skipped, reviewers, clocks>>

FinishPublication ==
    /\ pc = "finish" /\ Exit
    /\ Save(memory)
    /\ UNCHANGED <<service, skipped, reviewers, clocks>>

-----------------------------------------------------------------------------
(* What happens around the process.                                        *)

\* The process dies.  A launch that was not written down is an orphan.
Crash ==
    /\ pc # "idle" /\ Exit /\ memory' = disk
    /\ orphans' = IF pc = "started"
                  THEN orphans \cup {<<i, Attempt(i)>> : i \in Running(memory)}
                  ELSE orphans
    /\ launches' = Launched
    /\ UNCHANGED <<service, disk, skipped, launcher, container, result_file, oversized,
                   waiting, overdue>>

Arrive ==
    /\ Len(inbox) < MaxMessages
    /\ \E kind \in {"request", "malformed", "other"} : inbox' = Append(inbox, kind)
    /\ UNCHANGED <<replies, late, unpostable, disk, memory, pc, skipped, reviewers, clocks>>

LatePostCommits(i) ==
    /\ late[i] # <<>>
    /\ Committed(i, [says |-> Head(late[i]), late |-> TRUE])
    /\ late' = [late EXCEPT ![i] = Tail(@)]
    /\ UNCHANGED <<inbox, unpostable, disk, memory, pc, skipped, reviewers, clocks>>

\* docker run, in its own time.
ContainerStarts(i, k) ==
    /\ launcher[i][k] = "alive" /\ container[i][k] = "none"
    /\ container' = [container EXCEPT ![i][k] = "live"]
    /\ UNCHANGED <<service, disk, memory, pc, skipped, launcher, result_file, oversized,
                   orphans, clocks>>

\* A result that validate_review_result() accepts.  Each "@" in it becomes "at" in the
\* reply, which _safe_output_text() does after the lengths were checked.
ReviewerWritesResult(i, k) ==
    /\ Live(i, k) /\ ~result_file[i][k]
    /\ result_file' = [result_file EXCEPT ![i][k] = TRUE]
    /\ \E at_signs \in {0, ResultLength} :
          oversized' = IF ResultLength + at_signs > ReplyLength
                       THEN oversized \cup {<<i, k>>} ELSE oversized
    /\ UNCHANGED <<service, disk, memory, pc, skipped, launcher, container, orphans, clocks>>

\* --rm removes it, soon.
ContainerEnds(i, k) ==
    /\ Live(i, k)
    /\ \E end \in {"exited", "gone"} : container' = [container EXCEPT ![i][k] = end]
    /\ UNCHANGED <<service, disk, memory, pc, skipped, launcher, result_file, oversized,
                   orphans, clocks>>

\* The launcher ends with its container, or without one, or is killed.
LauncherEnds(i, k) ==
    /\ launcher[i][k] = "alive"
    /\ launcher' = [launcher EXCEPT ![i][k] = "dead"]
    /\ UNCHANGED <<service, disk, memory, pc, skipped, container, result_file, oversized,
                   orphans, clocks>>

RetryDue(i) ==
    /\ i \in waiting
    /\ waiting' = waiting \ {i}
    /\ UNCHANGED <<service, disk, memory, pc, skipped, reviewers, overdue, launches>>

DeadlinePasses(i) ==
    /\ i \in Running(disk) \ overdue
    /\ overdue' = overdue \cup {i}
    /\ UNCHANGED <<service, disk, memory, pc, skipped, reviewers, waiting, launches>>

\* Starts of yesterday no longer count, wherever they are recorded; the reviewer of
\* one that is about to be launched is not one of today's.
DayBegins ==
    /\ disk.starts_today > 0 \/ launches > 0
    /\ disk' = [disk EXCEPT !.starts_today = 0]
    /\ memory' = [memory EXCEPT !.starts_today = 0]
    /\ launches' = IF pc = "launch" THEN -1 ELSE 0
    /\ UNCHANGED <<service, pc, skipped, reviewers, waiting, overdue>>

PerAttempt(x) == [i \in Ids |-> [k \in Attempts |-> x]]

Init ==
    /\ inbox = <<>>
    /\ replies = [i \in Ids |-> <<>>]
    /\ late = [i \in Ids |-> <<>>]
    /\ unpostable = {}
    /\ disk = EmptyState /\ memory = EmptyState
    /\ pc = "idle" /\ skipped = NoStateFile
    /\ launcher = PerAttempt("none")
    /\ container = PerAttempt("none")
    /\ result_file = PerAttempt(FALSE)
    /\ oversized = {} /\ orphans = {}
    /\ waiting = {} /\ overdue = {} /\ launches = 0

ReviewStep ==
    \E i \in Ids :
        \/ RecoverByForce(i) \/ RecoverEnded(i)
        \/ Launch(i) \/ OnStarted(i) \/ OnStartedFails(i)
        \/ LauncherExited(i) \/ WaitTimesOut(i)
        \/ ReviewSucceeds(i) \/ ReviewFails(i) \/ CleanupFails(i)

PublicationStep ==
    \/ BeginPublication \/ FindReply
    \/ PostAnswered \/ PostUnanswered \/ PostOutlivesClient \/ PostRejected
    \/ ReplyCannotBeBuilt \/ PublicationFails \/ FinishPublication

CycleStep ==
    \/ Prime \/ Poll \/ RecoverNothing \/ SaveRecovered
    \/ Quiet \/ RefuseCommit \/ StartReview \/ NotLaunched
    \/ ReviewStep \/ PublicationStep

Outside ==
    \/ Crash \/ Arrive \/ DayBegins
    \/ \E i \in Ids : LatePostCommits(i) \/ RetryDue(i) \/ DeadlinePasses(i)
    \/ \E i \in Ids, k \in Attempts :
          \/ ContainerStarts(i, k) \/ ReviewerWritesResult(i, k) \/ ContainerEnds(i, k)
          \/ LauncherEnds(i, k)

Next == CycleStep \/ Outside

Spec == Init /\ [][Next]_vars

\* From some time on nothing goes wrong that is not the reviewer's doing: processes
\* run to their end, and the service, docker and the disk answer.  The scheduler
\* keeps starting processes, days begin, and a launcher does not hang for ever.
NothingToRecover ==
    \A i \in Running(memory) :
        IF Live(i, Attempt(i)) THEN i \notin overdue ELSE LauncherSeen(i)

GoodCycleStep ==
    \/ Prime \/ Poll \/ SaveRecovered \/ Quiet \/ RefuseCommit \/ StartReview
    \/ RecoverNothing /\ NothingToRecover
    \/ \E i \in Ids :
          \/ RecoverByForce(i) \/ RecoverEnded(i) \/ Launch(i) \/ OnStarted(i)
          \/ LauncherExited(i) \/ WaitTimesOut(i) \/ ReviewSucceeds(i) \/ ReviewFails(i)
    \/ BeginPublication \/ FindReply \/ PostAnswered \/ PostRejected
    \/ ReplyCannotBeBuilt \/ FinishPublication

GoodNext == GoodCycleStep \/ (Outside /\ pc' = pc)

FairSpec ==
    /\ Spec
    /\ <>[][GoodNext]_vars
    /\ WF_vars(GoodCycleStep) /\ WF_vars(DayBegins)
    /\ \A i \in Ids : WF_vars(RetryDue(i)) /\ WF_vars(DeadlinePasses(i))
    /\ \A i \in Ids, k \in Attempts : WF_vars(LauncherEnds(i, k))

-----------------------------------------------------------------------------
(* Properties.                                                             *)

ItemRecord ==
    [status : {"none", "queued", "running", "result_ready", "reply_pending"},
     attempts : 0..MaxAttempts, worker_pid : BOOLEAN, result : 0..MaxAttempts,
     terminal_kind : {"completed", "rejected", "dead"}]

StateRecord ==
    [cursor : 0..MaxMessages, items : [Ids -> ItemRecord], completed : Seq(Ids),
     dead_letters : Seq(Ids), starts_today : Nat]

\* The state file keeps its format: in particular no item is tried more often
\* than --max-attempts, however often its reviews are interrupted.
TypeOK ==
    /\ inbox \in Seq({"request", "malformed", "other"}) /\ Len(inbox) <= MaxMessages
    /\ replies \in [Ids -> Seq([says : Refusal..MaxAttempts, late : BOOLEAN])]
    /\ late \in [Ids -> Seq(Refusal..MaxAttempts)]
    /\ unpostable \subseteq Ids
    /\ disk \in StateRecord /\ memory \in StateRecord
    /\ pc \in {"idle", "recover", "save", "choose", "launch", "started", "wait", "cleanup",
               "cleanup_failed", "find", "post", "finish"}
    /\ skipped \in NoStateFile..MaxMessages
    /\ launcher \in [Ids -> [Attempts -> {"none", "alive", "dead"}]]
    /\ container \in [Ids -> [Attempts -> {"none", "live", "exited", "gone"}]]
    /\ result_file \in [Ids -> [Attempts -> BOOLEAN]]
    /\ oversized \subseteq Ids \X Attempts /\ orphans \subseteq Ids \X Attempts
    /\ waiting \subseteq Ids /\ overdue \subseteq Ids
    /\ launches \in Nat \cup {-1}

\* What became of message i, as the state file and the service have it.
StateOf(i) ==
    IF i > Len(inbox) \/ inbox[i] = "other" THEN "absent"
    ELSE IF replies[i] # <<>>   THEN "answered"
    ELSE IF i \in Open(disk)    THEN "open"
    ELSE IF i \in unpostable    THEN "refused"
    ELSE IF i <= skipped        THEN "skipped"
    ELSE "new"

\* No request is lost, passed over or opened again, and none answered twice except by
\* a POST that outlives its client, whatever crashes and however short the memory of
\* the state file is: together with the replies on the service it implements
\* ReviewQueue.
Queue == INSTANCE ReviewQueue WITH
    Answers <- Refusal..MaxAttempts,
    state   <- [i \in Ids |-> StateOf(i)],
    kind    <- [i \in Ids |-> IF i <= Len(inbox) THEN inbox[i] ELSE "none"],
    answers <- [i \in Ids |-> [n \in DOMAIN replies[i] |-> replies[i][n].says]]

IsReviewQueue == Queue!Spec

\* One reply per request, whatever crashes and answers get lost, except that a
\* POST may outlive its client; and all replies to a request say the same.
OneAnswer ==
    \A i \in Ids :
        /\ Cardinality({n \in 1..Len(replies[i]) : ~replies[i][n].late}) <= 1
        /\ \A m, n \in 1..Len(replies[i]) : replies[i][m].says = replies[i][n].says

\* The next process can load the state file: no id is open and also in a history,
\* in both histories, or twice in one.
StateLoads ==
    LET history == disk.completed \o disk.dead_letters IN
    /\ Cardinality(Elements(history)) = Len(history)
    /\ Open(disk) \cap Elements(history) = {}

\* Every container that runs, and every launcher that may still start one, belongs
\* to the attempt the state file says is running, unless the dispatcher died
\* between launching it and writing its pid down, or could not kill the launcher.
ReviewersAreInCustody ==
    \A i \in Ids, k \in Attempts :
        \/ Live(i, k)
        \/ launcher[i][k] = "alive" /\ container[i][k] = "none"
        => \/ i \in Running(disk) /\ disk.items[i].attempts = k
           \/ <<i, k>> \in orphans

\* No two reviewers run at the same time.
OneReviewer == Cardinality({a \in Ids \X Attempts : Live(a[1], a[2])}) <= 1

\* A result that counts comes from a reviewer that has ended and is gone.
ResultsAreFinal ==
    \A i \in Ids :
        LET k == disk.items[i].result
        IN k > 0 => result_file[i][k] /\ container[i][k] = "gone"

\* No more reviewers are launched than the limit allows among those whose start was
\* counted on the day, whatever crashes and however often a review is retried.
DailyLimitHolds == launches <= DailyLimit

\* An attempt is launched once, so that its container name and result file are its
\* own; and never once there is a reply, or a result to make one of.
LaunchesAreFresh ==
    [][\A i \in Ids, k \in Attempts :
          launcher[i][k] # "alive" /\ launcher'[i][k] = "alive"
          => /\ launcher[i][k] = "none" /\ container[i][k] = "none" /\ ~result_file[i][k]
             /\ replies[i] = <<>> /\ late[i] = <<>> /\ disk.items[i].result = 0]_vars

\* A result whose reply no process will ever build; nothing is reviewed, and no later
\* item published, while there is one.
Stuck(j) == j \in Publishable(disk) /\ ~Renders(j, disk.items[j])

=============================================================================
