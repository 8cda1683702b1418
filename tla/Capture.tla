-------------------------------- MODULE Capture --------------------------------
(***************************************************************************)
(* How the output of a command is captured within bounds: the subprocess   *)
(* hook of the loop (SubprocessHook and _StreamReader in loop.py), and the *)
(* Git reads of the dispatcher (_git_bytes in commit_review.py).           *)
(*                                                                         *)
(* Each starts a command with two pipes and a thread per pipe, which reads *)
(* until the end of the stream or the limit, and waits for the command in  *)
(* the calling thread.  A stream ends when nobody holds its pipe any more; *)
(* that may be a descendant that outlives the command.  The hook is used   *)
(* by module Loop, and Git reads by module Dispatcher, as if they were one *)
(* step.                                                                   *)
(*                                                                         *)
(* Output is counted in reads: what a reader takes at a time is a unit.    *)
(***************************************************************************)
EXTENDS Naturals

CONSTANTS
    Callers,     \* which of "hook" and "git" to look at
    Limit,       \* max_stream_bytes, limit
    PipeSize,    \* what the operating system keeps of a stream nobody reads
    MaxOutput    \* bound: what is written to a stream

ASSUME CallersAssumption == Callers \subseteq {"hook", "git"}
ASSUME SizesAssumption ==
    Limit \in Nat \ {0} /\ PipeSize \in Nat \ {0} /\ MaxOutput \in Nat

Streams == {"stdout", "stderr"}
NoStream == "none"

VARIABLES
    caller,    \* which of the two this is
    command,   \* "running", or how it ended
    blocked,   \* the stream it waits to write to, NoStream if it waits for none
    child,     \* a descendant that holds both pipes: none, in the command's process
               \* group, or apart from it
    written,   \* per stream: what was written to its pipe
    taken,     \* per stream: what its reader took, byte_count
    reader,    \* per stream: is its reader "reading", or "done"
    broken,    \* per stream: did a read of it fail
    closed,    \* per stream: has the caller closed its end of the pipe
    exceeded,  \* the event
    late,      \* is the deadline over
    asked,     \* is a cancellation requested
    pc,        \* where the calling thread is
    status,    \* why it stopped the command, "none" if it did not
    outcome    \* what it returns, "none" until then

pipes  == <<written, taken, reader, broken, closed, exceeded>>
wishes == <<late, asked>>
vars == <<caller, command, blocked, child, pipes, wishes, pc, status, outcome>>

Running == command = "running"
InPipe(f) == written[f] - taken[f]
Held == Running \/ child # "none"

-----------------------------------------------------------------------------
(* The command and its descendant.                                         *)

\* It writes to a stream: at once, or when there is room.
Write(f) ==
    /\ Running /\ ~closed[f]
    /\ blocked = f \/ (blocked = NoStream /\ written[f] < MaxOutput)
    /\ IF InPipe(f) < PipeSize
       THEN /\ written' = [written EXCEPT ![f] = @ + 1]
            /\ blocked' = NoStream
       ELSE /\ blocked = NoStream
            /\ blocked' = f
            /\ written' = written
    /\ UNCHANGED <<caller, command, child, taken, reader, broken, closed, exceeded, wishes,
                   pc, status, outcome>>

\* The pipe it writes to has been closed: it ends, unless it ignores the error.
WriteFails(f) ==
    /\ Running /\ blocked \in {NoStream, f} /\ closed[f]
    /\ command' \in {"running", "failed"} /\ blocked' = NoStream
    /\ UNCHANGED <<caller, child, pipes, wishes, pc, status, outcome>>

Exit ==
    /\ Running /\ blocked = NoStream
    /\ command' \in {"succeeded", "failed"}
    /\ UNCHANGED <<caller, blocked, child, pipes, wishes, pc, status, outcome>>

\* A command of the loop may be anything; Git's plumbing leaves nothing behind.
Fork ==
    /\ caller = "hook" /\ Running /\ blocked = NoStream /\ child = "none"
    /\ child' \in {"group", "apart"}
    /\ UNCHANGED <<caller, command, blocked, pipes, wishes, pc, status, outcome>>

ChildWrites(f) ==
    /\ child # "none" /\ ~closed[f]
    /\ written[f] < MaxOutput /\ InPipe(f) < PipeSize
    /\ written' = [written EXCEPT ![f] = @ + 1]
    /\ UNCHANGED <<caller, command, blocked, child, taken, reader, broken, closed, exceeded,
                   wishes, pc, status, outcome>>

ChildExits ==
    /\ child # "none" /\ child' = "none"
    /\ UNCHANGED <<caller, command, blocked, pipes, wishes, pc, status, outcome>>

-----------------------------------------------------------------------------
(* The readers.                                                            *)

\* Mutant: one thread reads stdout to its end, and then stderr.
MayRead_InTurn(f) == reader[f] = "reading" /\ (f = "stderr" => reader["stdout"] = "done")

MayRead(f) == reader[f] = "reading"

\* process.kill() kills the command alone.
Killed == IF Running THEN "killed" ELSE command

\* Mutant: output that reaches the limit is taken for too much.
TooMuch_AtLimit(n) == n >= Limit

TooMuch(n) == n > Limit

\* _StreamReader.run() closes the stream when it stops, however it stops; drain()
\* leaves it open.
Stopped(f) ==
    /\ reader' = [reader EXCEPT ![f] = "done"]
    /\ closed' = [closed EXCEPT ![f] = caller = "hook"]

\* drain() kills the command before it gives up.
GivesUp(f) ==
    /\ Stopped(f)
    /\ command' = IF caller = "git" THEN Killed ELSE command
    /\ blocked' = IF command' = command THEN blocked ELSE NoStream

Read(f) ==
    /\ MayRead(f) /\ InPipe(f) > 0
    /\ taken' = [taken EXCEPT ![f] = @ + 1]
    /\ IF TooMuch(taken[f] + 1)
       THEN exceeded' = TRUE /\ GivesUp(f)
       ELSE UNCHANGED <<exceeded, reader, closed, command, blocked>>
    /\ UNCHANGED <<caller, child, written, broken, wishes, pc, status, outcome>>

ReadEnd(f) ==
    /\ MayRead(f) /\ InPipe(f) = 0 /\ ~Held
    /\ Stopped(f)
    /\ UNCHANGED <<caller, command, blocked, child, written, taken, broken, exceeded, wishes,
                   pc, status, outcome>>

\* The read raises: drain() records it, in _StreamReader only the thread is told.
ReadFails(f) ==
    /\ MayRead(f)
    /\ broken' = [broken EXCEPT ![f] = TRUE]
    /\ GivesUp(f)
    /\ UNCHANGED <<caller, child, written, taken, exceeded, wishes, pc, status, outcome>>

-----------------------------------------------------------------------------
(* SubprocessHook: the calling thread.                                     *)

HookAt(here, there) == caller = "hook" /\ pc = here /\ pc' = there

\* observed = self.monotonic()
Observe ==
    /\ HookAt("observe", IF late THEN "poll_late" ELSE "poll")
    /\ UNCHANGED <<caller, command, blocked, child, pipes, wishes, status, outcome>>

\* process.poll(), after the deadline and before it.
PollLate ==
    /\ HookAt("poll_late", IF Running THEN "terminate" ELSE "join_stdout")
    /\ status' = "timed_out"
    /\ UNCHANGED <<caller, command, blocked, child, pipes, wishes, outcome>>

Poll ==
    /\ HookAt("poll", IF Running THEN "check_cancellation" ELSE "join_stdout")
    /\ UNCHANGED <<caller, command, blocked, child, pipes, wishes, status, outcome>>

CheckCancellation ==
    /\ HookAt("check_cancellation", IF asked THEN "terminate" ELSE "check_limit")
    /\ status' = IF asked THEN "cancelled" ELSE status
    /\ UNCHANGED <<caller, command, blocked, child, pipes, wishes, outcome>>

CheckLimit ==
    /\ HookAt("check_limit", IF exceeded THEN "terminate" ELSE "observe")
    /\ status' = IF exceeded THEN "output_limit" ELSE status
    /\ UNCHANGED <<caller, command, blocked, child, pipes, wishes, outcome>>

\* What a signal or taskkill leaves: it reaches the command, its group, both or neither.
\* SIGTERM may be ignored, taskkill and killpg may fail, and the code then kills the
\* command alone.  Nothing is done to a command that has exited.
Signalled ==
    /\ command' \in {command, Killed}
    /\ child' \in IF Running /\ child = "group" THEN {"group", "none"} ELSE {child}
    /\ blocked' = IF command' = command THEN blocked ELSE NoStream

\* terminate_process_tree(): a first attempt, and a second one if the command is
\* still there 5 seconds later.
Terminate ==
    /\ HookAt("terminate", IF Running THEN "await_end" ELSE "join_stdout")
    /\ Signalled
    /\ UNCHANGED <<caller, pipes, wishes, status, outcome>>

TerminateReturns ==
    /\ ~Running
    /\ caller = "hook" /\ pc \in {"await_end", "await_killed"} /\ pc' = "join_stdout"
    /\ UNCHANGED <<caller, command, blocked, child, pipes, wishes, status, outcome>>

TerminateAgain ==
    /\ Running
    /\ HookAt("await_end", "await_killed")
    /\ Signalled
    /\ UNCHANGED <<caller, pipes, wishes, status, outcome>>

\* The hook terminates the command (again), joins its readers and raises.
Raises ==
    /\ pc' = "join_stdout" /\ status' = "raising"
    /\ Signalled
    /\ UNCHANGED <<caller, pipes, wishes, outcome>>

\* The command survives both attempts.
TerminateFails ==
    /\ pc = "await_killed" /\ Running
    /\ Raises

Polling == {"observe", "poll", "poll_late", "check_cancellation", "check_limit"}
Stopping == {"terminate", "await_end", "await_killed"}

\* Ctrl-C, or an exception out of the second attempt.
Interrupt ==
    /\ caller = "hook" /\ pc \in Polling \cup Stopping
    /\ Raises

-----------------------------------------------------------------------------
(* _git_bytes: the calling thread.                                         *)

GitAt(here, there) == caller = "git" /\ pc = here /\ pc' = there

\* process.wait(timeout=timeout)
WaitReturns ==
    /\ ~Running
    /\ GitAt("wait", "close_stdout")
    /\ UNCHANGED <<caller, command, blocked, child, pipes, wishes, status, outcome>>

\* It is killed; if it is still there 30 seconds later, the second wait raises.
WaitTimesOut ==
    /\ Running /\ late
    /\ GitAt("wait", "close_stdout")
    /\ \/ command' = Killed /\ blocked' = NoStream /\ status' = "timed_out"
       \/ command' = command /\ blocked' = blocked /\ status' = "raising"
    /\ UNCHANGED <<caller, child, pipes, wishes, outcome>>

\* Closing a stream that another thread reads waits for that thread.
Close(f, here, there) ==
    /\ IF exceeded THEN reader[f] = "done" /\ closed' = [closed EXCEPT ![f] = TRUE]
                   ELSE closed' = closed
    /\ GitAt(here, there)
    /\ UNCHANGED <<caller, command, blocked, child, written, taken, reader, broken, exceeded,
                   wishes, status, outcome>>

CloseStreams ==
    \/ Close("stdout", "close_stdout", "close_stderr")
    \/ Close("stderr", "close_stderr", "join_stdout")

-----------------------------------------------------------------------------
(* Both: the end.                                                          *)

\* Mutant: the readers are joined without a timeout.
Starved_Never(f) == FALSE

\* reader.join() returns when the thread is done.  It times out, after 2, 5 or 30
\* seconds, only on a thread that has nothing to read and somebody to wait for.
Starved(f) == reader[f] = "reading" /\ InPipe(f) = 0 /\ Held

Join(f, here, there) ==
    /\ pc = here /\ pc' = there
    /\ reader[f] = "done" \/ Starved(f)
    /\ UNCHANGED <<caller, command, blocked, child, pipes, wishes, status, outcome>>

JoinReaders ==
    \/ Join("stdout", "join_stdout", "join_stderr")
    \/ Join("stderr", "join_stderr", "finish")

\* Mutant: the event is not looked at again once the readers are joined.
HookResult_NoSecondLook(stuck) ==
    IF status = "raising" \/ stuck THEN "error"
    ELSE IF status # "none" THEN status ELSE command

\* Mutant: readers that hang are looked at only if the command ended by itself.
HookResult_StopFirst(stuck) ==
    IF status = "raising" THEN "error"
    ELSE IF status # "none" THEN status
    ELSE IF stuck THEN "error"
    ELSE IF exceeded THEN "output_limit" ELSE command

\* An "error" is an exception.
HookResult(stuck) ==
    IF status = "raising" \/ stuck THEN "error"
    ELSE IF status # "none" THEN status
    ELSE IF exceeded THEN "output_limit" ELSE command

GitResult(stuck) ==
    IF status = "raising" THEN "error"
    ELSE IF status = "timed_out" THEN "timed_out"
    ELSE IF exceeded THEN "output_limit"
    ELSE IF stuck \/ \E f \in Streams : broken[f] THEN "error" ELSE command

Finish ==
    /\ pc = "finish" /\ pc' = "returned"
    /\ LET stuck == \E f \in Streams : reader[f] = "reading"
       IN outcome' = IF caller = "hook" THEN HookResult(stuck) ELSE GitResult(stuck)
    /\ UNCHANGED <<caller, command, blocked, child, pipes, wishes, status>>

-----------------------------------------------------------------------------
(* The specification.                                                      *)

DeadlinePasses ==
    /\ ~late /\ late' = TRUE
    /\ UNCHANGED <<caller, command, blocked, child, pipes, asked, pc, status, outcome>>

CancellationIsRequested ==
    /\ caller = "hook" /\ ~asked /\ asked' = TRUE
    /\ UNCHANGED <<caller, command, blocked, child, pipes, late, pc, status, outcome>>

Init ==
    /\ caller \in Callers
    /\ command = "running" /\ blocked = NoStream /\ child = "none"
    /\ written = [f \in Streams |-> 0] /\ taken = [f \in Streams |-> 0]
    /\ reader = [f \in Streams |-> "reading"]
    /\ broken = [f \in Streams |-> FALSE]
    /\ closed = [f \in Streams |-> FALSE] /\ exceeded = FALSE
    /\ late = FALSE /\ asked = FALSE
    /\ pc = IF caller = "hook" THEN "observe" ELSE "wait"
    /\ status = "none" /\ outcome = "none"

Unblock(f) == blocked = f /\ (Write(f) \/ WriteFails(f))
ReaderStep(f) == Read(f) \/ ReadEnd(f)
CallerStep ==
    \/ Observe \/ PollLate \/ Poll \/ CheckCancellation \/ CheckLimit
    \/ Terminate \/ TerminateReturns \/ TerminateAgain \/ TerminateFails
    \/ WaitReturns \/ WaitTimesOut \/ CloseStreams
    \/ JoinReaders \/ Finish

Next ==
    \/ \E f \in Streams : Write(f) \/ WriteFails(f) \/ ChildWrites(f) \/ ReaderStep(f)
                          \/ ReadFails(f)
    \/ Exit \/ Fork \/ ChildExits
    \/ CallerStep \/ Interrupt
    \/ DeadlinePasses \/ CancellationIsRequested

Spec == Init /\ [][Next]_vars

\* The threads of the process run, and so does a command that can write what it
\* waits to write.  It need never end, nor be cancelled, nor its descendant end.
FairSpec ==
    /\ Spec
    /\ WF_vars(CallerStep)
    /\ \A f \in Streams : WF_vars(ReaderStep(f)) /\ WF_vars(Unblock(f))

-----------------------------------------------------------------------------
(* Properties.                                                             *)

\* Every variable has its type, and no reader takes more than was written.
TypeOK ==
    /\ caller \in Callers
    /\ command \in {"running", "succeeded", "failed", "killed"}
    /\ blocked \in Streams \cup {NoStream}
    /\ child \in {"none", "group", "apart"}
    /\ written \in [Streams -> Nat] /\ taken \in [Streams -> Nat]
    /\ \A f \in Streams : taken[f] <= written[f] /\ taken[f] <= Limit + 1
    /\ reader \in [Streams -> {"reading", "done"}]
    /\ broken \in [Streams -> BOOLEAN] /\ closed \in [Streams -> BOOLEAN]
    /\ exceeded \in BOOLEAN /\ late \in BOOLEAN /\ asked \in BOOLEAN
    /\ status \in {"none", "timed_out", "cancelled", "output_limit", "raising"}
    /\ outcome \in {"none", "succeeded", "failed", "timed_out", "cancelled",
                    "output_limit", "error"}

Overflow == \E f \in Streams : taken[f] > Limit

\* A result is a result of all the output: a caller that reports how the command
\* ended has read each stream to its end, within the limit, and nobody is left that
\* could write more to it.  Except that the hook does not notice a read that failed;
\* for Git that is an error.
ResultsAreWhole ==
    outcome \in {"succeeded", "failed"} =>
        /\ outcome = command
        /\ \A f \in Streams :
              \/ taken[f] = written[f] /\ taken[f] <= Limit /\ ~Held
              \/ broken[f] /\ caller = "hook"

\* A command is stopped on grounds: its time was over, its cancellation was asked
\* for, its output was too long or could not be read, or the hook itself failed; and
\* the caller says which.
StopsHaveGrounds ==
    /\ outcome = "timed_out" => late
    /\ outcome = "cancelled" => asked
    /\ outcome = "output_limit" => Overflow
    /\ command = "killed" =>
          \/ late \/ asked \/ Overflow \/ status = "raising"
          \/ caller = "git" /\ \E f \in Streams : broken[f]

\* Who outlives a stop does not pass unnoticed: a caller that returns without an error
\* leaves no command, and a descendant that holds the pipes only if it had stopped to
\* read them.  (Stopping a command ends its group only as far as the signals go.)
SurvivorsAreReported ==
    pc = "returned" /\ outcome # "error" =>
        /\ ~Running
        /\ child # "none" => \A f \in Streams : taken[f] > Limit \/ broken[f]

\* The call returns once the command has exited or its time is over, whatever is
\* still writing to the pipes or holding them.
CallReturns == (late \/ ~Running) ~> (pc = "returned")

\* A command that waits to write is not left waiting, whichever stream it writes
\* to first and however much.
OutputIsDrained == \A f \in Streams : (blocked = f) ~> (blocked # f)
=============================================================================
