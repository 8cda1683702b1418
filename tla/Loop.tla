--------------------------------- MODULE Loop ---------------------------------
(***************************************************************************)
(* The runner of one named loop (loop.py): run_loop() with its subprocess  *)
(* hook, and the operators who cancel it from processes of their own.      *)
(*                                                                         *)
(* An OS lock lets one runner at a time past its first statement, so there *)
(* is one program counter, and run r is the r-th runner to hold the lock.  *)
(* The OS drops the lock when a runner dies; its files, and the command it *)
(* was waiting for, stay.  Operators share nothing with the runner but two *)
(* files: the active marker it writes and the cancellation marker they do. *)
(*                                                                         *)
(* The journal is a sequence here.  How it is kept in files that rotate,   *)
(* and survives a torn write, is the subject of module Journal.            *)
(***************************************************************************)
EXTENDS Integers, Sequences

CONSTANTS
    Operators,   \* processes that cancel the loop
    Count,       \* the count of the spec; bound: of one that has a deadline and no
                 \* count, the iterations that fit before the deadline
    HasUntil,    \* does the spec have a deadline
    MaxRuns      \* bound: runs started

ASSUME CountAssumption == Count \in Nat \ {0}
ASSUME HasUntilAssumption == HasUntil \in BOOLEAN
ASSUME MaxRunsAssumption == MaxRuns \in Nat

VARIABLES
    pc,           \* where the runner is; "none" if there is no runner
    run,          \* the newest run
    iteration,    \* iterations it has begun
    outcome,      \* of its newest iteration; then why it ends
    past_until,   \* is the deadline over
    active,       \* the run the active marker names, NoRun if there is none
    cancellation, \* the run the cancellation marker names
    unreadable,   \* there is a cancellation marker, but it cannot be read or is malformed
    operator,     \* per operator: the run it read from the active marker
    asked_at,     \* per run: iterations begun when its cancellation was confirmed
    commands,     \* the commands running: <<run, iteration>>
    survivors,    \* those whose runner died, or let go of them
    journal       \* the rows of the journal, in order

progress == <<run, iteration, outcome>>
markers  == <<active, cancellation, unreadable>>
requests == <<operator, asked_at>>
evidence == <<commands, survivors>>
vars == <<pc, progress, past_until, markers, requests, evidence, journal>>

NoRun   == 0
Runs    == 1..MaxRuns
NotAsked == -1
Current == <<run, iteration>>

FailedStatuses == {"failed", "timed_out", "cancelled", "output_limit", "launch_failed"}

\* A row.  Of a status or terminal reason it keeps whether that is "succeeded".
Row(event) == [event |-> event, run |-> run, iteration |-> iteration,
               succeeded |-> outcome = "succeeded"]

\* append_journal(): the row is durable, or the call raises; a call that raises in
\* fsync may have written it.
Appended(row)     == journal' = Append(journal, row)
AppendRaises(row) == journal' = journal \/ Appended(row)

\* Mutant: any marker will do.
CancellationRequested_AnyRun == cancellation # NoRun

\* Mutant: a cancellation is looked for before the first iteration only.
CancellationRequested_AtStart == cancellation = run /\ iteration = 0

\* CancellationToken.requested().  A marker that is there and cannot be read counts as
\* a request, whichever run it names.
CancellationRequested == unreadable \/ cancellation = run

-----------------------------------------------------------------------------
(* Starting a run.                                                         *)

\* The lock is taken and the marker of an earlier run removed.
AcquireLock ==
    /\ pc = "none" /\ run < MaxRuns
    /\ pc' = "locked"
    /\ run' = run + 1 /\ iteration' = 0 /\ outcome' = "succeeded"
    /\ cancellation' = NoRun /\ unreadable' = FALSE
    /\ UNCHANGED <<past_until, active, requests, evidence, journal>>

WriteActive ==
    /\ pc = "locked" /\ pc' = "active"
    /\ active' = run
    /\ UNCHANGED <<progress, past_until, cancellation, unreadable, requests, evidence, journal>>

JournalRunStarted ==
    /\ pc = "active"
    /\ \/ Appended(Row("run_started")) /\ pc' = "top"
       \/ AppendRaises(Row("run_started")) /\ pc' = "remove_active"
    /\ UNCHANGED <<progress, past_until, markers, requests, evidence>>

-----------------------------------------------------------------------------
(* The loop.                                                               *)

End(why) == pc' = "finishing" /\ outcome' = why

CountReached == iteration >= Count
AtCount == {"count_reached"} \cup (IF HasUntil THEN {"until_reached"} ELSE {})

\* The checks before an iteration, in their order; next_start is too late if it is
\* not before the deadline.
CheckBounds ==
    /\ pc = "top"
    /\ \/ CancellationRequested /\ End("cancelled")
       \/ ~CancellationRequested /\ CountReached /\ \E why \in AtCount : End(why)
       \/ /\ ~CancellationRequested /\ ~CountReached
          /\ \/ past_until /\ End("until_reached")
             \/ HasUntil /\ iteration > 0 /\ End("until_reached")
             \/ ~past_until /\ iteration = 0 /\ pc' = "begin" /\ outcome' = outcome
             \/ ~past_until /\ iteration > 0 /\ pc' = "wait" /\ outcome' = outcome
    /\ UNCHANGED <<run, iteration, past_until, markers, requests, evidence, journal>>

\* _wait_until() looks for a cancellation every time it wakes, the deadline is
\* looked at once, after it.
WaitUntil ==
    /\ pc = "wait"
    /\ \/ CancellationRequested /\ End("cancelled")
       \/ ~CancellationRequested /\ past_until /\ End("until_reached")
       \/ ~CancellationRequested /\ ~past_until /\ pc' = "begin" /\ outcome' = outcome
    /\ UNCHANGED <<run, iteration, past_until, markers, requests, evidence, journal>>

\* Mutant: the row is written, or not, and the iteration runs in any case.
JournalIterationStarted_Lenient ==
    /\ pc = "begin" /\ pc' = "launch"
    /\ iteration' = iteration + 1
    /\ AppendRaises([Row("iteration_started") EXCEPT !.iteration = iteration + 1])
    /\ UNCHANGED <<run, outcome, past_until, markers, requests, evidence>>

JournalIterationStarted ==
    /\ pc = "begin"
    /\ iteration' = iteration + 1
    /\ LET row == [Row("iteration_started") EXCEPT !.iteration = iteration + 1] IN
       \/ Appended(row) /\ pc' = "launch" /\ outcome' = outcome
       \/ AppendRaises(row) /\ End("internal_error")
    /\ UNCHANGED <<run, past_until, markers, requests, evidence>>

\* Popen.  A command that could not be launched is an outcome like any other.
Launch ==
    /\ pc = "launch"
    /\ \/ /\ commands' = commands \cup {Current}
          /\ pc' = "launched" /\ outcome' = outcome
       \/ /\ commands' = commands
          /\ pc' = "returned" /\ outcome' = "launch_failed"
    /\ UNCHANGED <<run, iteration, past_until, markers, requests, survivors, journal>>

\* The threads that read its output are started.  If they cannot be, the hook
\* raises and nobody stops the command.
StartReaders ==
    /\ pc = "launched"
    /\ \/ pc' = "hook" /\ outcome' = outcome /\ survivors' = survivors
       \/ /\ pc' = "returned" /\ outcome' = "launch_failed"
          /\ survivors' = survivors \cup ({Current} \cap commands)
    /\ UNCHANGED <<run, iteration, past_until, markers, requests, commands, journal>>

Exited == Current \notin commands

\* The command has exited, and that is noticed before anything else.  A reader that
\* does not come to the end of its output is a failure of the hook.
CommandExited ==
    /\ pc = "hook" /\ Exited
    /\ pc' = "returned"
    /\ outcome' \in {"succeeded", "failed", "output_limit", "launch_failed"}
    /\ UNCHANGED <<run, iteration, past_until, markers, requests, evidence, journal>>

\* Mutant: the deadline is looked at only once the command is not running.
TimesOut_AfterExit == Exited

\* timeout_seconds may be over at any time; that wins over an exit.
TimesOut == TRUE

\* Why the hook stops a command, as it finds when it wakes.
StopReasons ==
    (IF TimesOut THEN {"timed_out"} ELSE {})
        \cup (IF CancellationRequested /\ ~Exited THEN {"cancelled"} ELSE {})

\* Mutant: the hook gives up and the command goes on.
Stop_HookOnly(status) ==
    /\ pc = "hook" /\ pc' = "returned"
    /\ outcome' \in {status, "launch_failed"}
    /\ UNCHANGED <<run, iteration, past_until, markers, requests, evidence, journal>>

\* terminate_process_tree(), and the wait for the readers.
Stop(status) ==
    /\ pc = "hook" /\ pc' = "returned"
    /\ outcome' \in {status, "launch_failed"}
    /\ commands' = commands \ {Current}
    /\ UNCHANGED <<run, iteration, past_until, markers, requests, survivors, journal>>

StopCommand == \E reason \in StopReasons : Stop(reason)

\* It wrote more than max_stream_bytes.
StopNoisyCommand == ~Exited /\ Stop("output_limit")

\* The command survives both signals: the hook raises.
StopFails ==
    /\ pc = "hook" /\ pc' = "returned" /\ ~Exited
    /\ outcome' = "launch_failed"
    /\ survivors' = survivors \cup {Current}
    /\ UNCHANGED <<run, iteration, past_until, markers, requests, commands, journal>>

\* Mutant: a failure is on record and the loop goes on.
StopsAfter_Cancelled(status) == status = "cancelled"

StopsAfter(status) == status # "succeeded"

JournalIterationFinished ==
    /\ pc = "returned"
    /\ LET row == Row("iteration_finished") IN
       \/ /\ Appended(row)
          /\ pc' = (IF StopsAfter(outcome) THEN "finishing" ELSE "top") /\ outcome' = outcome
       \/ AppendRaises(row) /\ End("internal_error")
    /\ UNCHANGED <<run, iteration, past_until, markers, requests, evidence>>

\* KeyboardInterrupt: the finally clause runs, and a command is stopped if its
\* readers had been started.
Interrupt ==
    /\ pc \in {"top", "wait", "begin", "launch", "launched", "hook", "returned"}
    /\ End("internal_error")
    /\ commands' = IF pc = "hook" THEN commands \ {Current} ELSE commands
    /\ survivors' = IF pc = "launched" THEN survivors \cup ({Current} \cap commands) ELSE survivors
    /\ UNCHANGED <<run, iteration, past_until, markers, requests, journal>>

-----------------------------------------------------------------------------
(* Ending a run.                                                           *)

\* The markers are removed whether the row is written or not.
JournalRunFinished ==
    /\ pc = "finishing" /\ pc' = "remove_active"
    /\ AppendRaises(Row("run_finished"))
    /\ UNCHANGED <<progress, past_until, markers, requests, evidence>>

\* _remove_marker_for_run(): of this run only, and silent if the file cannot be read.
Removed(marker) == {marker, IF marker = run THEN NoRun ELSE marker}

\* If the unlink raises, the second marker is not removed.
RemoveActive ==
    /\ pc = "remove_active" /\ pc' \in {"remove_cancellation", "none"}
    /\ active' \in Removed(active)
    /\ pc' = "none" => active' = active
    /\ UNCHANGED <<progress, past_until, cancellation, unreadable, requests, evidence, journal>>

RemoveCancellation ==
    /\ pc = "remove_cancellation" /\ pc' = "none"
    /\ cancellation' \in Removed(cancellation)
    /\ unreadable => cancellation' = cancellation
    /\ UNCHANGED <<progress, past_until, active, unreadable, requests, evidence, journal>>

\* The runner is killed, or the active marker cannot be written.
Crash ==
    /\ pc # "none" /\ pc' = "none"
    /\ survivors' = survivors \cup ({Current} \cap commands)
    /\ UNCHANGED <<progress, past_until, markers, requests, commands, journal>>

-----------------------------------------------------------------------------
(* Operators, commands and the clock.                                      *)

\* request_cancellation() up to the read of the active marker.  Without one it
\* answers that there is nothing to cancel.
ReadActive(o) ==
    /\ operator[o] = NoRun /\ active # NoRun
    /\ operator' = [operator EXCEPT ![o] = active]
    /\ UNCHANGED <<pc, progress, past_until, markers, asked_at, evidence, journal>>

IterationsOf(r) == IF r = run THEN iteration ELSE Count

\* Its write, which confirms the cancellation to the operator.
WriteCancellation(o) ==
    LET r == operator[o] IN
    /\ r # NoRun
    /\ cancellation' = r /\ unreadable' = FALSE
    /\ operator' = [operator EXCEPT ![o] = NoRun]
    /\ asked_at' = IF asked_at[r] = NotAsked
                   THEN [asked_at EXCEPT ![r] = IterationsOf(r)] ELSE asked_at
    /\ UNCHANGED <<pc, progress, past_until, active, evidence, journal>>

WriteCancellationFails(o) ==
    /\ operator[o] # NoRun
    /\ operator' = [operator EXCEPT ![o] = NoRun]
    /\ UNCHANGED <<pc, progress, past_until, markers, asked_at, evidence, journal>>

\* The disk fails, or a hand edits the file, and that passes.
ReadabilityChanges ==
    /\ cancellation # NoRun
    /\ unreadable' = ~unreadable
    /\ UNCHANGED <<pc, progress, past_until, active, cancellation, requests, evidence, journal>>

CommandEnds ==
    \E command \in commands :
        /\ commands' = commands \ {command}
        /\ survivors' = survivors \ {command}
        /\ UNCHANGED <<pc, progress, past_until, markers, requests, journal>>

DeadlinePasses ==
    /\ HasUntil /\ ~past_until
    /\ past_until' = TRUE
    /\ UNCHANGED <<pc, progress, markers, requests, evidence, journal>>

Init ==
    /\ pc = "none"
    /\ run = NoRun /\ iteration = 0 /\ outcome = "succeeded"
    /\ past_until = FALSE
    /\ active = NoRun /\ cancellation = NoRun /\ unreadable = FALSE
    /\ operator = [o \in Operators |-> NoRun]
    /\ asked_at = [r \in Runs |-> NotAsked]
    /\ commands = {} /\ survivors = {}
    /\ journal = <<>>

RunnerStep ==
    \/ WriteActive \/ JournalRunStarted
    \/ CheckBounds \/ WaitUntil \/ JournalIterationStarted
    \/ Launch \/ StartReaders \/ CommandExited \/ StopCommand
    \/ JournalIterationFinished
    \/ JournalRunFinished \/ RemoveActive \/ RemoveCancellation

Next ==
    \/ AcquireLock \/ RunnerStep \/ StopNoisyCommand \/ StopFails \/ Interrupt \/ Crash
    \/ \E o \in Operators :
          ReadActive(o) \/ WriteCancellation(o) \/ WriteCancellationFails(o)
    \/ CommandEnds \/ DeadlinePasses \/ ReadabilityChanges

Spec == Init /\ [][Next]_vars

\* A runner that is not killed keeps running and its timeouts pass; no command is
\* assumed to exit, to be cancelled, or to write.
FairSpec == Spec /\ WF_vars(RunnerStep)

-----------------------------------------------------------------------------
(* Properties.                                                             *)

RowRecord ==
    [event : {"run_started", "iteration_started", "iteration_finished", "run_finished"},
     run : Runs, iteration : 0..Count, succeeded : BOOLEAN]

\* The runner's state: in particular no run begins more iterations than its count,
\* and only commands that run can have outlived their runner.
TypeOK ==
    /\ pc \in {"none", "locked", "active", "top", "wait", "begin", "launch", "launched",
               "hook", "returned", "finishing", "remove_active", "remove_cancellation"}
    /\ run \in 0..MaxRuns /\ iteration \in 0..Count
    /\ outcome \in {"succeeded", "count_reached", "until_reached", "internal_error"}
                       \cup FailedStatuses
    /\ past_until \in BOOLEAN
    /\ active \in 0..MaxRuns /\ cancellation \in 0..MaxRuns /\ unreadable \in BOOLEAN
    /\ operator \in [Operators -> 0..MaxRuns]
    /\ asked_at \in [Runs -> {NotAsked} \cup 0..Count]
    /\ commands \subseteq Runs \X (1..Count)
    /\ survivors \subseteq commands
    /\ journal \in Seq(RowRecord)

HasRow(event, r, k) ==
    \E n \in 1..Len(journal) :
        journal[n].event = event /\ journal[n].run = r /\ journal[n].iteration = k

\* Every command is on record before it is launched, whatever the disk does: its
\* run has a first row in the journal and its iteration has one of its own.
CommandsAreOnRecord ==
    \A c \in commands :
        HasRow("run_started", c[1], 0) /\ HasRow("iteration_started", c[1], c[2])

\* A loop stops at its first failure, and the journal shows it: an iteration after
\* the first began only once the one before it was recorded as a success.  The
\* rows of two runs never interleave.
StartsFollowSuccess ==
    /\ \A m, n \in 1..Len(journal) : m < n => journal[m].run <= journal[n].run
    /\ \A n \in 1..Len(journal) :
          journal[n].event = "iteration_started" /\ journal[n].iteration > 1 =>
              \E m \in 1..(n - 1) :
                  journal[m] = [event |-> "iteration_finished", run |-> journal[n].run,
                                iteration |-> journal[n].iteration - 1,
                                succeeded |-> TRUE]

\* A command runs only while its runner waits for it, unless the runner was killed,
\* the command cannot be, or the hook failed right after launching it.
CommandsAreAwaited ==
    \A c \in commands : c \in survivors \/ (pc \in {"launched", "hook"} /\ c = Current)

\* A run ends as cancelled only if its own cancellation was confirmed to somebody, or
\* the marker that it finds cannot be read.
CancelledWasAsked ==
    [][outcome # "cancelled" /\ outcome' = "cancelled"
       => asked_at[run] # NotAsked \/ unreadable]_vars

\* Once a cancellation of a run is confirmed, the run begins at most one iteration
\* more, the one its last check was for.
CancellationStops ==
    run # NoRun /\ asked_at[run] # NotAsked => iteration <= asked_at[run] + 1

\* Every run ends, even if its command never exits.
RunsEnd == pc # "none" ~> pc = "none"
=============================================================================
