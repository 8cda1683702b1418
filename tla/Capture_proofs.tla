---------------------------- MODULE Capture_proofs ----------------------------
(***************************************************************************)
(* Proofs about Capture, for any limit and any size of pipe.               *)
(*                                                                         *)
(* A result is looked up at the end, from an event, two threads and a      *)
(* status.  Accounts says what each of them is worth at any moment.        *)
(***************************************************************************)
EXTENDS Capture, TLAPS

\* Where the caller has decided what to report, and where it no longer waits.
Ended == {"join_stdout", "join_stderr", "finish", "returned"}
PastWait == Ended \cup {"close_stdout", "close_stderr"}

\* The readers' counts.
Counted ==
    /\ written \in [Streams -> Nat] /\ taken \in [Streams -> Nat]
    /\ reader \in [Streams -> {"reading", "done"}] /\ broken \in [Streams -> BOOLEAN]
    /\ \A f \in Streams : taken[f] <= written[f]

\* A reader that is done was cut off, or has read everything.
Whole(f) == ~Held /\ taken[f] = written[f]
ReadersStopForAReason ==
    \A f \in Streams : reader[f] = "done" => taken[f] > Limit \/ broken[f] \/ Whole(f)

Accounts ==
    /\ Counted
    /\ caller \in {"hook", "git"}
    /\ command \in {"running", "succeeded", "failed", "killed"}
    /\ status \in {"none", "timed_out", "cancelled", "output_limit", "raising"}
    /\ exceeded <=> \E f \in Streams : taken[f] > Limit
    /\ ReadersStopForAReason
    /\ pc = "poll_late" => late
    /\ pc \in Stopping => status \in {"timed_out", "cancelled", "output_limit"}
    /\ status = "timed_out" => late
    /\ status = "cancelled" => asked
    /\ status = "output_limit" => exceeded
    /\ status = "raising" => pc \in PastWait
    /\ caller = "git" => status \in {"none", "timed_out", "raising"}
    /\ command = "killed" => \/ status # "none" \/ exceeded
                             \/ caller = "git" /\ \E f \in Streams : broken[f]
    /\ pc \in PastWait /\ status # "raising" => ~Running
    /\ caller = "git" => child = "none"
    /\ outcome = "none" <=> pc # "returned"

Inv == Accounts /\ ResultsAreWhole /\ StopsHaveGrounds /\ SurvivorsAreReported

\* The accounts hold when the command has just been started.
LEMMA CaptureInitially == Init => Inv
BY CallersAssumption, SizesAssumption
   DEF Init, Inv, Accounts, Counted, ResultsAreWhole, StopsHaveGrounds, SurvivorsAreReported,
       ReadersStopForAReason, Held, Running, Ended, PastWait, Stopping, Streams, Overflow

\* Every step of a thread, the command or its descendant keeps the accounts.
LEMMA CaptureInductive == Inv /\ [Next]_vars => Inv'
<1> SUFFICES ASSUME Inv, [Next]_vars
             PROVE  Inv'
  OBVIOUS
<1> USE SizesAssumption
    DEF Inv, Accounts, Counted, ResultsAreWhole, StopsHaveGrounds, SurvivorsAreReported, Held,
        ReadersStopForAReason, Whole, Running, InPipe, Overflow, Ended, PastWait, Stopping,
        Streams, pipes, wishes
<1>1. ASSUME NEW f \in Streams, Write(f)
      PROVE  Inv'
  BY <1>1 DEF Write
<1>2. ASSUME NEW f \in Streams, WriteFails(f)
      PROVE  Inv'
  BY <1>2 DEF WriteFails
<1>3. ASSUME NEW f \in Streams, ChildWrites(f)
      PROVE  Inv'
  BY <1>3 DEF ChildWrites
<1>4. ASSUME NEW f \in Streams, Read(f)
      PROVE  Inv'
  BY <1>4 DEF Read, MayRead, TooMuch, GivesUp, Stopped, Killed
<1>5. ASSUME NEW f \in Streams, ReadEnd(f)
      PROVE  Inv'
  BY <1>5 DEF ReadEnd, MayRead, Stopped
<1>6. CASE Exit
  BY <1>6 DEF Exit
<1>7. CASE Fork
  BY <1>7 DEF Fork
<1>8. CASE ChildExits
  BY <1>8 DEF ChildExits
<1>9. CASE Observe
  BY <1>9 DEF Observe, HookAt
<1>10. CASE PollLate
  BY <1>10 DEF PollLate, HookAt
<1>11. CASE Poll
  BY <1>11 DEF Poll, HookAt
<1>12. CASE CheckCancellation
  BY <1>12 DEF CheckCancellation, HookAt
<1>13. CASE CheckLimit
  BY <1>13 DEF CheckLimit, HookAt
<1>14. CASE Terminate
  BY <1>14 DEF Terminate, HookAt, Signalled, Killed
<1>15. CASE Interrupt \/ TerminateFails
  BY <1>15 DEF Interrupt, TerminateFails, Raises, Signalled, Killed, Polling
<1>16. CASE WaitReturns
  BY <1>16 DEF WaitReturns, GitAt
<1>17. CASE WaitTimesOut
  BY <1>17 DEF WaitTimesOut, GitAt, Killed
<1>18. CASE CloseStreams
  BY <1>18 DEF CloseStreams, Close, GitAt
<1>19. CASE JoinReaders
  BY <1>19 DEF JoinReaders, Join, Starved
<1>20. CASE Finish
  <2> DEFINE stuck == \E f \in Streams : reader[f] = "reading"
             failed == \E f \in Streams : broken[f]
  <2>1. outcome' = IF caller = "hook" THEN HookResult(stuck) ELSE GitResult(stuck)
    BY <1>20 DEF Finish
  <2>2. /\ pc = "finish" /\ pc' = "returned"
        /\ UNCHANGED <<caller, command, blocked, child, pipes, wishes, status>>
    BY <1>20 DEF Finish
  <2>3. outcome' # "error" => ~Running
    BY <2>1, <2>2 DEF HookResult, GitResult
  <2>4. outcome' \in {"succeeded", "failed"} =>
            outcome' = command /\ ~stuck /\ ~exceeded /\ (caller = "git" => ~failed)
    BY <2>1, <2>2 DEF HookResult, GitResult
  <2>5. ~stuck => \A f \in Streams : taken[f] > Limit \/ broken[f] \/ Whole(f)
    OBVIOUS
  <2>6. /\ outcome' # "none"
        /\ outcome' = "timed_out" => late
        /\ outcome' = "cancelled" => asked
        /\ outcome' = "output_limit" => exceeded
    BY <2>1, <2>2 DEF HookResult, GitResult
  <2>7. outcome' # "error" /\ caller = "hook" => ~stuck
    BY <2>1 DEF HookResult
  <2>8. exceeded => Overflow
    OBVIOUS
  <2>9. ResultsAreWhole'
    BY <2>2, <2>4, <2>5
  <2>10. StopsHaveGrounds'
    BY <2>2, <2>6, <2>8
  <2>11. SurvivorsAreReported'
    BY <2>2, <2>3, <2>5, <2>7
  <2>12. Accounts'
    BY <2>2, <2>6
  <2> QED
    BY <2>9, <2>10, <2>11, <2>12
<1>21. CASE DeadlinePasses
  BY <1>21 DEF DeadlinePasses
<1>22. CASE CancellationIsRequested
  BY <1>22 DEF CancellationIsRequested
<1>23. ASSUME NEW f \in Streams, ReadFails(f)
       PROVE  Inv'
  BY <1>23 DEF ReadFails, MayRead, GivesUp, Stopped, Killed
<1>24. CASE TerminateReturns
  BY <1>24 DEF TerminateReturns
<1>25. CASE TerminateAgain
  BY <1>25 DEF TerminateAgain, HookAt, Signalled, Killed
<1>26. CASE UNCHANGED vars
  BY <1>26 DEF vars
<1> QED
  BY <1>1, <1>2, <1>3, <1>4, <1>5, <1>6, <1>7, <1>8, <1>9, <1>10, <1>11, <1>12,
     <1>13, <1>14, <1>15, <1>16, <1>17, <1>18, <1>19, <1>20, <1>21, <1>22, <1>23,
     <1>24, <1>25, <1>26 DEF Next, CallerStep, ReaderStep

\* A reader stops with the read that takes it over the limit.
Typed == TypeOK /\ \A f \in Streams : reader[f] = "reading" => taken[f] <= Limit

\* Every step keeps the types, given the accounts.
LEMMA TypeInductive == Typed /\ Inv /\ [Next]_vars => Typed'
<1> SUFFICES ASSUME Typed, Inv, [Next]_vars
             PROVE  Typed'
  OBVIOUS
<1> USE SizesAssumption
    DEF Typed, TypeOK, Running, InPipe, Streams, NoStream, pipes, wishes
<1>1. ASSUME NEW f \in Streams, Write(f)
      PROVE  Typed'
  BY <1>1 DEF Write
<1>2. ASSUME NEW f \in Streams, WriteFails(f)
      PROVE  Typed'
  BY <1>2 DEF WriteFails
<1>3. ASSUME NEW f \in Streams, ChildWrites(f)
      PROVE  Typed'
  BY <1>3 DEF ChildWrites
<1>4. ASSUME NEW f \in Streams, Read(f)
      PROVE  Typed'
  <2>1. /\ taken' = [taken EXCEPT ![f] = @ + 1] /\ taken[f] < written[f] /\ taken[f] <= Limit
        /\ UNCHANGED <<caller, child, written, broken, wishes, pc, status, outcome>>
    BY <1>4 DEF Read, MayRead
  <2>2. \/ taken'[f] <= Limit /\ UNCHANGED <<exceeded, reader, closed, command, blocked>>
        \/ /\ exceeded' \in BOOLEAN /\ reader' = [reader EXCEPT ![f] = "done"]
           /\ closed' \in [Streams -> BOOLEAN]
           /\ command' \in {command, "killed"} /\ blocked' \in {blocked, NoStream}
    <3>1. CASE TooMuch(taken[f] + 1)
      <4>1. /\ exceeded' = TRUE /\ reader' = [reader EXCEPT ![f] = "done"]
            /\ closed' = [closed EXCEPT ![f] = caller = "hook"]
            /\ command' = IF caller = "git" THEN Killed ELSE command
            /\ blocked' = IF command' = command THEN blocked ELSE NoStream
        BY <1>4, <3>1 DEF Read, GivesUp, Stopped
      <4>2. closed' \in [Streams -> BOOLEAN]
        BY <4>1
      <4> QED
        BY <4>1, <4>2 DEF Killed
    <3>2. CASE ~TooMuch(taken[f] + 1)
      <4>1. UNCHANGED <<exceeded, reader, closed, command, blocked>>
        BY <1>4, <3>2 DEF Read
      <4>2. taken'[f] <= Limit
        BY <2>1, <3>2 DEF TooMuch
      <4> QED
        BY <4>1, <4>2
    <3> QED
      BY <3>1, <3>2
  <2>3. taken' \in [Streams -> Nat] /\ taken'[f] = taken[f] + 1
        /\ \A g \in Streams \ {f} : taken'[g] = taken[g]
    BY <2>1
  <2>4. reader' \in [Streams -> {"reading", "done"}] /\ closed' \in [Streams -> BOOLEAN]
        /\ exceeded' \in BOOLEAN /\ blocked' \in Streams \cup {NoStream}
        /\ command' \in {"running", "succeeded", "failed", "killed"}
    BY <2>2
  <2>5. \A g \in Streams : /\ taken'[g] <= written'[g] /\ taken'[g] <= Limit + 1
                           /\ reader'[g] = "reading" => taken'[g] <= Limit
    BY <2>1, <2>2, <2>3
  <2> QED
    BY <2>1, <2>3, <2>4, <2>5
<1>5. ASSUME NEW f \in Streams, ReadEnd(f)
      PROVE  Typed'
  BY <1>5 DEF ReadEnd, MayRead, Stopped
<1>6. CASE Exit
  BY <1>6 DEF Exit
<1>7. CASE Fork
  BY <1>7 DEF Fork
<1>8. CASE ChildExits
  BY <1>8 DEF ChildExits
<1>9. CASE Observe
  BY <1>9 DEF Observe, HookAt
<1>10. CASE PollLate
  BY <1>10 DEF PollLate, HookAt
<1>11. CASE Poll
  BY <1>11 DEF Poll, HookAt
<1>12. CASE CheckCancellation
  BY <1>12 DEF CheckCancellation, HookAt
<1>13. CASE CheckLimit
  BY <1>13 DEF CheckLimit, HookAt
<1>14. CASE Terminate
  BY <1>14 DEF Terminate, HookAt, Signalled, Killed
<1>15. CASE Interrupt \/ TerminateFails
  BY <1>15 DEF Interrupt, TerminateFails, Raises, Signalled, Killed, Polling
<1>16. CASE WaitReturns
  BY <1>16 DEF WaitReturns, GitAt
<1>17. CASE WaitTimesOut
  BY <1>17 DEF WaitTimesOut, GitAt, Killed
<1>18. CASE CloseStreams
  <2>1. closed' \in [Streams -> BOOLEAN]
    BY <1>18 DEF CloseStreams, Close
  <2>2. UNCHANGED <<caller, command, blocked, child, written, taken, reader, broken, exceeded,
                    wishes, status, outcome>>
    BY <1>18 DEF CloseStreams, Close
  <2> QED
    BY <2>1, <2>2
<1>19. CASE JoinReaders
  BY <1>19 DEF JoinReaders, Join, Starved
<1>20. CASE Finish
  <2>1. UNCHANGED <<caller, command, blocked, child, pipes, wishes, status>>
    BY <1>20 DEF Finish
  <2>2. status = "raising" \/ ~Running
    BY <1>20 DEF Finish, Inv, Accounts, PastWait, Ended
  <2>3. command = "killed" => \/ status # "none" \/ exceeded
                              \/ caller = "git" /\ \E f \in Streams : broken[f]
    BY DEF Inv, Accounts
  <2>4. caller # "hook" => status \in {"none", "timed_out", "raising"}
    BY DEF Inv, Accounts
  <2>5. outcome' \in {"succeeded", "failed", "timed_out", "cancelled", "output_limit", "error"}
    <3>1. CASE caller = "hook"
      BY <1>20, <2>2, <2>3, <3>1 DEF Finish, HookResult
    <3>2. CASE caller # "hook"
      BY <1>20, <2>2, <2>3, <2>4, <3>2 DEF Finish, GitResult
    <3> QED
      BY <3>1, <3>2
  <2> QED
    BY <2>1, <2>5
<1>21. CASE DeadlinePasses
  BY <1>21 DEF DeadlinePasses
<1>22. CASE CancellationIsRequested
  BY <1>22 DEF CancellationIsRequested
<1>23. ASSUME NEW f \in Streams, ReadFails(f)
       PROVE  Typed'
  BY <1>23 DEF ReadFails, MayRead, GivesUp, Stopped, Killed
<1>24. CASE TerminateReturns
  BY <1>24 DEF TerminateReturns
<1>25. CASE TerminateAgain
  BY <1>25 DEF TerminateAgain, HookAt, Signalled, Killed
<1>26. CASE UNCHANGED vars
  BY <1>26 DEF vars
<1> QED
  BY <1>1, <1>2, <1>3, <1>4, <1>5, <1>6, <1>7, <1>8, <1>9, <1>10, <1>11, <1>12,
     <1>13, <1>14, <1>15, <1>16, <1>17, <1>18, <1>19, <1>20, <1>21, <1>22, <1>23,
     <1>24, <1>25, <1>26 DEF Next, CallerStep, ReaderStep

\* The event, the threads, the status and the command tell one story at every moment.
THEOREM CaptureInvariant == Spec => []Inv
BY CaptureInitially, CaptureInductive, PTL DEF Spec

\* No reader takes more than one read past the limit, and every variable has its type.
THEOREM CaptureTypeCorrect == Spec => []TypeOK
<1>1. Init => Typed
  <2> SUFFICES ASSUME Init PROVE Typed
    OBVIOUS
  <2>1. /\ written \in [Streams -> Nat] /\ taken \in [Streams -> Nat]
        /\ reader \in [Streams -> {"reading", "done"}] /\ closed \in [Streams -> BOOLEAN]
        /\ broken \in [Streams -> BOOLEAN]
    BY DEF Init
  <2>2. \A f \in Streams : taken[f] <= written[f] /\ taken[f] <= Limit
    BY SizesAssumption DEF Init
  <2>3. \A f \in Streams : taken[f] <= Limit + 1
    BY <2>1, <2>2, SizesAssumption
  <2> QED
    BY <2>1, <2>2, <2>3 DEF Init, Typed, TypeOK, NoStream
<1> QED
  BY <1>1, TypeInductive, CaptureInvariant, PTL DEF Spec, Typed

\* A reported result is the result of all the output, whatever the limit is.
THEOREM WholeResults == Spec => []ResultsAreWhole
BY CaptureInvariant, PTL DEF Inv

\* A command is stopped on the grounds that the caller gives.
THEOREM StopsAreExplained == Spec => []StopsHaveGrounds
BY CaptureInvariant, PTL DEF Inv

\* A caller that returns without an error leaves no command, and nobody behind who holds
\* a pipe that was still being read.
THEOREM SurvivorsAreSeen == Spec => []SurvivorsAreReported
BY CaptureInvariant, PTL DEF Inv
=============================================================================
