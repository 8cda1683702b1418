------------------------------ MODULE Loop_proofs ------------------------------
(***************************************************************************)
(* Proofs about Loop, for any number of runs, any count and any number of  *)
(* operators; of CancellationStops, for one operator.                      *)
(*                                                                         *)
(* The argument goes in three layers.  Stages says what the runner's       *)
(* position means for its counters and for the commands; OnRecord, what it *)
(* means for the rows of the journal; Asked and Obeyed, for the markers.   *)
(***************************************************************************)
EXTENDS Loop, SequenceTheorems, TLAPS

\* Where an iteration has begun, and where one may begin.
Iterating == {"launch", "launched", "hook", "returned"}
Between   == {"top", "wait", "begin"}

RunnerFacts ==
    /\ pc # "none" => run # NoRun
    /\ run = NoRun => outcome = "succeeded"
    /\ pc \in {"locked", "active"} => iteration = 0 /\ outcome = "succeeded"
    /\ pc \in {"wait", "begin"} => iteration < Count
    /\ pc \in Iterating => iteration > 0
    /\ pc \in Between => outcome = "succeeded"

\* A command that nobody awaits is of an earlier iteration, until the runner lets go
\* of the newest.
SurvivorFacts ==
    /\ \A c \in survivors : c[1] <= run /\ (c[1] = run => c[2] <= iteration)
    /\ pc \in {"launch", "launched", "hook"} => Current \notin survivors

Stages == TypeOK /\ RunnerFacts /\ SurvivorFacts /\ CommandsAreAwaited

\* The first runner finds nothing.
LEMMA StagesInitially == Init => Stages
<1> SUFFICES ASSUME Init PROVE Stages
  OBVIOUS
<1>1. journal \in Seq(RowRecord)
  BY DEF Init
<1> QED
  <2>1. TypeOK
    <3>1. /\ operator \in [Operators -> 0..MaxRuns]
          /\ asked_at \in [Runs -> {NotAsked} \cup 0..Count]
          /\ commands \subseteq Runs \X (1..Count) /\ survivors \subseteq commands
      BY MaxRunsAssumption, CountAssumption DEF Init, NoRun, NotAsked
    <3>2. /\ run \in 0..MaxRuns /\ iteration \in 0..Count
          /\ active \in 0..MaxRuns /\ cancellation \in 0..MaxRuns
      BY MaxRunsAssumption, CountAssumption DEF Init, NoRun
    <3>3. pc = "none" /\ outcome = "succeeded"
      BY DEF Init
    <3>4. past_until \in BOOLEAN /\ unreadable \in BOOLEAN
      BY DEF Init
    <3> QED
      BY <1>1, <3>1, <3>2, <3>3, <3>4 DEF TypeOK
  <2> QED
    BY <2>1 DEF Init, Stages, RunnerFacts, SurvivorFacts, CommandsAreAwaited, NoRun, Iterating,
                Between

\* A row of the present run is a row of the journal's type.
LEMMA RowTyped ==
    ASSUME Stages, run # NoRun,
           NEW event \in {"run_started", "iteration_started", "iteration_finished",
                          "run_finished"},
           NEW k \in 0..Count
    PROVE  /\ Row(event) \in RowRecord
           /\ [Row(event) EXCEPT !.iteration = k] \in RowRecord
<1>1. run \in Runs /\ iteration \in 0..Count /\ (outcome = "succeeded") \in BOOLEAN
  BY MaxRunsAssumption DEF Stages, TypeOK, Runs, NoRun
<1>2. Row(event) = [event |-> event, run |-> run, iteration |-> iteration,
                    succeeded |-> outcome = "succeeded"]
  BY DEF Row
<1>3. Row(event) \in RowRecord
  BY <1>1, <1>2 DEF RowRecord
<1> QED
  BY <1>3 DEF RowRecord

\* Whatever append_journal() did, the journal has its type.
LEMMA JournalTyped ==
    ASSUME journal \in Seq(RowRecord), NEW row \in RowRecord, AppendRaises(row)
    PROVE  journal' \in Seq(RowRecord)
BY AppendProperties DEF AppendRaises, Appended

\* Every step of the runner, of its commands and of the operators keeps the stages.
LEMMA StagesInductive == Stages /\ [Next]_vars => Stages'
<1> SUFFICES ASSUME Stages, [Next]_vars PROVE Stages'
  OBVIOUS
<1> USE MaxRunsAssumption, CountAssumption
    DEF Stages, TypeOK, RunnerFacts, SurvivorFacts, CommandsAreAwaited, NoRun, Runs,
        NotAsked, Iterating, Between, Current, progress, markers, requests, evidence,
        FailedStatuses
<1>1. CASE AcquireLock
  <2>1. cancellation' \in 0..MaxRuns /\ run' \in 0..MaxRuns
    BY <1>1 DEF AcquireLock
  <2>2. unreadable' \in BOOLEAN
    BY ONLY <1>1, Zenon DEF AcquireLock
  <2>3. RunnerFacts'
    BY <1>1 DEF AcquireLock
  <2>4. SurvivorFacts' /\ CommandsAreAwaited'
    BY <1>1 DEF AcquireLock
  <2> QED
    BY <1>1, <2>1, <2>2, <2>3, <2>4 DEF AcquireLock
<1>2. CASE WriteActive
  BY <1>2 DEF WriteActive
<1>3. CASE JournalRunStarted
  <2>1. journal' \in Seq(RowRecord)
    BY <1>3, RowTyped, JournalTyped DEF JournalRunStarted, AppendRaises
  <2> QED
    BY <1>3, <2>1 DEF JournalRunStarted
<1>4. CASE CheckBounds
  BY <1>4 DEF CheckBounds, CountReached, AtCount, End
<1>5. CASE WaitUntil
  BY <1>5 DEF WaitUntil, End
<1>6. CASE JournalIterationStarted
  <2>1. iteration + 1 \in 0..Count
    BY <1>6 DEF JournalIterationStarted
  <2>2. journal' \in Seq(RowRecord)
    BY <1>6, <2>1, RowTyped, JournalTyped DEF JournalIterationStarted, AppendRaises
  <2> QED
    BY <1>6, <2>2 DEF JournalIterationStarted, End
<1>7. CASE Launch
  BY <1>7 DEF Launch
<1>8. CASE StartReaders
  BY <1>8 DEF StartReaders
<1>9. CASE CommandExited
  BY <1>9 DEF CommandExited, Exited
<1>10. CASE StopCommand
  <2>1. PICK status \in {"timed_out", "cancelled"} : Stop(status)
    BY <1>10 DEF StopCommand, StopReasons
  <2> QED
    BY <2>1 DEF Stop
<1>11. CASE StopNoisyCommand
  BY <1>11 DEF StopNoisyCommand, Stop
<1>12. CASE StopFails
  <2>1. Current \in commands /\ survivors' \subseteq commands'
    BY <1>12 DEF StopFails, Exited
  <2> QED
    BY <1>12, <2>1 DEF StopFails
<1>13. CASE JournalIterationFinished
  <2>1. journal' \in Seq(RowRecord)
    BY <1>13, RowTyped, JournalTyped DEF JournalIterationFinished, AppendRaises
  <2> QED
    BY <1>13, <2>1 DEF JournalIterationFinished, StopsAfter, End
<1>14. CASE Interrupt
  <2>1. commands' \subseteq commands /\ survivors' \subseteq commands'
    BY <1>14 DEF Interrupt
  <2>2. pc' = "finishing" /\ outcome' = "internal_error"
        /\ UNCHANGED <<run, iteration, past_until, markers, requests, journal>>
    BY <1>14 DEF Interrupt, End
  <2>3. run # NoRun /\ \A c \in survivors' : c[1] <= run /\ (c[1] = run => c[2] <= iteration)
    BY <1>14 DEF Interrupt
  <2>4. commands' \subseteq survivors'
    BY <1>14 DEF Interrupt
  <2> QED
    BY <2>1, <2>2, <2>3, <2>4
<1>15. CASE JournalRunFinished
  <2>1. journal' \in Seq(RowRecord)
    BY <1>15, RowTyped, JournalTyped DEF JournalRunFinished
  <2> QED
    BY <1>15, <2>1 DEF JournalRunFinished
<1>16. CASE RemoveActive
  BY <1>16 DEF RemoveActive, Removed
<1>17. CASE RemoveCancellation
  BY <1>17 DEF RemoveCancellation, Removed
<1>18. CASE Crash
  BY <1>18 DEF Crash
<1>19. ASSUME NEW o \in Operators, ReadActive(o)
       PROVE  Stages'
  BY <1>19 DEF ReadActive
<1>20. ASSUME NEW o \in Operators, WriteCancellation(o)
       PROVE  Stages'
  <2>1. unreadable' \in BOOLEAN
    BY ONLY <1>20, Zenon DEF WriteCancellation
  <2> QED
    BY <1>20, <2>1 DEF WriteCancellation, IterationsOf
<1>21. ASSUME NEW o \in Operators, WriteCancellationFails(o)
       PROVE  Stages'
  BY <1>21 DEF WriteCancellationFails
<1>22. CASE CommandEnds
  BY <1>22 DEF CommandEnds
<1>23. CASE DeadlinePasses
  BY <1>23 DEF DeadlinePasses
<1>24. CASE ReadabilityChanges
  BY <1>24 DEF ReadabilityChanges
<1>25. CASE UNCHANGED vars
  BY <1>25 DEF vars
<1> QED
  BY <1>1, <1>2, <1>3, <1>4, <1>5, <1>6, <1>7, <1>8, <1>9, <1>10, <1>11, <1>12, <1>13, <1>14,
     <1>15, <1>16, <1>17, <1>18, <1>19, <1>20, <1>21, <1>22, <1>23, <1>24, <1>25
     DEF Next, RunnerStep

-----------------------------------------------------------------------------
(* The journal.                                                            *)

HasSuccess(r, k) ==
    \E n \in 1..Len(journal) :
        journal[n] = [event |-> "iteration_finished", run |-> r, iteration |-> k,
                      succeeded |-> TRUE]

\* No row is of a later run, a run that iterates has its first row, and an iteration
\* that is to come has a success before it.
OnRecord ==
    /\ \A n \in 1..Len(journal) : journal[n].run <= run
    /\ StartsFollowSuccess
    /\ pc \in Between \cup Iterating => HasRow("run_started", run, 0)
    /\ pc = "launch" => HasRow("iteration_started", run, iteration)
    /\ pc \in Between /\ iteration > 0 => HasSuccess(run, iteration)
    /\ CommandsAreOnRecord

\* Whatever append_journal() did, the rows that were there still are.
LEMMA RowsStay ==
    ASSUME journal \in Seq(RowRecord), NEW row \in RowRecord, AppendRaises(row)
    PROVE  /\ Len(journal') \in Nat /\ Len(journal) <= Len(journal')
           /\ \A n \in 1..Len(journal) : journal'[n] = journal[n]
           /\ \A n \in 1..Len(journal') : n \in 1..Len(journal)
                                             \/ (n = Len(journal) + 1 /\ journal'[n] = row)
BY AppendProperties DEF AppendRaises, Appended

\* When it returned, the new row is there.
LEMMA RowIsThere ==
    ASSUME journal \in Seq(RowRecord), NEW row \in RowRecord, Appended(row)
    PROVE  \E n \in 1..Len(journal') : journal'[n] = row
<1>1. Len(journal) + 1 \in 1..Len(journal') /\ journal'[Len(journal) + 1] = row
  BY AppendProperties DEF Appended
<1> QED
  BY <1>1

\* What is on record stays on record.
LEMMA RecordStays ==
    ASSUME journal \in Seq(RowRecord), NEW row \in RowRecord, AppendRaises(row),
           NEW event, NEW r, NEW k
    PROVE  /\ HasRow(event, r, k) => HasRow(event, r, k)'
           /\ HasSuccess(r, k) => HasSuccess(r, k)'
<1>1. \A n \in 1..Len(journal) : n \in 1..Len(journal') /\ journal'[n] = journal[n]
  BY RowsStay, LenProperties
<1> QED
  BY <1>1 DEF HasRow, HasSuccess

\* A row of the newest run keeps the order of the journal, if the start of a later
\* iteration comes after the success of the one before it.
LEMMA OrderKept ==
    ASSUME journal \in Seq(RowRecord), run \in Int, StartsFollowSuccess,
           \A n \in 1..Len(journal) : journal[n].run <= run,
           NEW row \in RowRecord, AppendRaises(row), row.run = run,
           row.event = "iteration_started" /\ row.iteration > 1
               => HasSuccess(run, row.iteration - 1)
    PROVE  /\ StartsFollowSuccess'
           /\ \A n \in 1..Len(journal') : journal'[n].run <= run
<1>1. \A n \in 1..Len(journal') : journal'[n].run <= run
  BY RowsStay
<1>2. \A n \in 1..Len(journal) : journal[n] \in RowRecord
  BY ElementOfSeq
<1>3. ASSUME NEW m \in 1..Len(journal'), NEW n \in 1..Len(journal'), m < n
      PROVE  journal'[m].run <= journal'[n].run
  <2>1. m \in 1..Len(journal) /\ journal'[m] = journal[m]
    BY <1>3, RowsStay
  <2>2. CASE n \in 1..Len(journal)
    BY <1>3, <2>1, <2>2, RowsStay DEF StartsFollowSuccess
  <2>3. CASE n \notin 1..Len(journal)
    BY <2>1, <2>3, RowsStay
  <2> QED
    BY <2>2, <2>3
<1>4. ASSUME NEW n \in 1..Len(journal'), journal'[n].event = "iteration_started",
             journal'[n].iteration > 1
      PROVE  \E m \in 1..(n - 1) :
                journal'[m] = [event |-> "iteration_finished", run |-> journal'[n].run,
                               iteration |-> journal'[n].iteration - 1, succeeded |-> TRUE]
  <2>1. CASE n \in 1..Len(journal)
    <3>1. journal'[n] = journal[n]
      BY <2>1, RowsStay
    <3>2. PICK m \in 1..(n - 1) :
                journal[m] = [event |-> "iteration_finished", run |-> journal[n].run,
                              iteration |-> journal[n].iteration - 1, succeeded |-> TRUE]
      BY <1>4, <2>1, <3>1 DEF StartsFollowSuccess
    <3>3. m \in 1..Len(journal) /\ journal'[m] = journal[m]
      BY <2>1, <3>2, RowsStay
    <3> QED
      BY <3>1, <3>2, <3>3
  <2>2. CASE n \notin 1..Len(journal)
    <3>1. n = Len(journal) + 1 /\ journal'[n] = row
      BY <2>2, RowsStay
    <3>2. PICK m \in 1..Len(journal) :
                journal[m] = [event |-> "iteration_finished", run |-> run,
                              iteration |-> row.iteration - 1, succeeded |-> TRUE]
      BY <1>4, <3>1 DEF HasSuccess
    <3>3. m \in 1..(n - 1) /\ journal'[m] = journal[m]
      BY <3>1, <3>2, RowsStay
    <3> QED
      BY <3>1, <3>2, <3>3
  <2> QED
    BY <2>1, <2>2
<1> QED
  BY <1>1, <1>3, <1>4 DEF StartsFollowSuccess

\* An empty journal is in order, and nothing runs yet.
LEMMA RecordInitially == Init => OnRecord
<1> SUFFICES ASSUME Init PROVE OnRecord
  OBVIOUS
<1>1. 1..Len(journal) = {} /\ commands = {} /\ pc = "none"
  BY DEF Init
<1> QED
  BY <1>1 DEF OnRecord, StartsFollowSuccess, CommandsAreOnRecord, Between, Iterating

\* A step that writes no row and launches nothing keeps the record, unless it brings
\* the runner where more must be on record.
LEMMA RecordKeptWithoutRow ==
    ASSUME Stages, Stages', OnRecord, journal' = journal, run' >= run,
           commands' \subseteq commands \cup {Current},
           commands' \subseteq commands \/ pc = "launch",
           \/ pc' \notin Between \cup Iterating
           \/ /\ pc \in Between \cup Iterating
              /\ pc' # "launch" \/ pc = "launch"
              /\ pc' \notin Between \/ pc \in Between
              /\ run' = run /\ iteration' = iteration
    PROVE  OnRecord'
<1>1. /\ \A e, r, k : HasRow(e, r, k) => HasRow(e, r, k)'
      /\ \A r, k : HasSuccess(r, k) => HasSuccess(r, k)'
      /\ StartsFollowSuccess'
  BY DEF OnRecord, HasRow, HasSuccess, StartsFollowSuccess
<1>2. \A n \in 1..Len(journal') : journal'[n].run <= run'
  <2>1. \A n \in 1..Len(journal) : journal[n].run \in Int
    <3>1. \A n \in 1..Len(journal) : journal[n] \in RowRecord
      BY ElementOfSeq DEF Stages, TypeOK
    <3> QED
      BY <3>1, MaxRunsAssumption DEF RowRecord, Runs
  <2>2. run \in Int /\ run' \in Int
    BY DEF Stages, TypeOK
  <2> QED
    BY <2>1, <2>2 DEF OnRecord
<1>3. CommandsAreOnRecord'
  <2>1. CASE commands' \subseteq commands
    BY <1>1, <2>1 DEF OnRecord, CommandsAreOnRecord
  <2>2. CASE pc = "launch"
    BY <1>1, <2>2 DEF OnRecord, CommandsAreOnRecord, Current, Iterating
  <2> QED
    BY <2>1, <2>2
<1>4. /\ pc' \in Between \cup Iterating => HasRow("run_started", run, 0)'
      /\ pc' = "launch" => HasRow("iteration_started", run, iteration)'
      /\ pc' \in Between /\ iteration' > 0 => HasSuccess(run, iteration)'
  BY <1>1 DEF OnRecord, Iterating
<1> QED
  BY <1>1, <1>2, <1>3, <1>4 DEF OnRecord

\* Neither does a step that may write a row of the present run, if that row is in
\* order.
LEMMA RecordKeptWithRow ==
    ASSUME Stages, Stages', OnRecord, run # NoRun,
           NEW row \in RowRecord, AppendRaises(row), row.run = run,
           row.event = "iteration_started" /\ row.iteration > 1
               => HasSuccess(run, row.iteration - 1),
           run' = run, commands' = commands,
           pc' \in Between \cup Iterating => HasRow("run_started", run, 0)',
           pc' = "launch" => HasRow("iteration_started", run, iteration)',
           pc' \in Between /\ iteration' > 0 => HasSuccess(run, iteration)'
    PROVE  OnRecord'
<1>1. journal \in Seq(RowRecord) /\ run \in Int
  BY DEF Stages, TypeOK
<1>2. StartsFollowSuccess' /\ \A n \in 1..Len(journal') : journal'[n].run <= run'
  BY <1>1, OrderKept DEF OnRecord
<1>3. CommandsAreOnRecord'
  BY <1>1, RecordStays DEF OnRecord, CommandsAreOnRecord
<1> QED
  BY <1>2, <1>3 DEF OnRecord

\* Every step keeps the record: four of them write rows, and the others bring the
\* runner nowhere that asks for more.
LEMMA RecordInductive == Stages /\ Stages' /\ OnRecord /\ [Next]_vars => OnRecord'
<1> SUFFICES ASSUME Stages, Stages', OnRecord, [Next]_vars PROVE OnRecord'
  OBVIOUS
<1> USE DEF Between, Iterating, progress, markers, requests, evidence
<1>1. run \in Int /\ run <= run + 1 /\ run >= run /\ journal \in Seq(RowRecord)
  BY DEF Stages, TypeOK
<1>2. CASE JournalRunStarted
  <2>1. iteration = 0 /\ run # NoRun /\ 0 \in 0..Count
    BY <1>2, CountAssumption DEF JournalRunStarted, Stages, RunnerFacts
  <2> DEFINE row == Row("run_started")
  <2>2. row \in RowRecord /\ row.run = run /\ row.event = "run_started" /\ row.iteration = 0
    BY <2>1, RowTyped DEF Row
  <2>3. AppendRaises(row)
    BY <1>2 DEF JournalRunStarted, AppendRaises
  <2>4. run' = run /\ iteration' = 0 /\ commands' = commands
    BY <1>2, <2>1 DEF JournalRunStarted
  <2>5. pc' \in Between \cup Iterating => HasRow("run_started", run, 0)'
    <3> SUFFICES ASSUME pc' \in Between \cup Iterating PROVE HasRow("run_started", run, 0)'
      OBVIOUS
    <3>1. Appended(row)
      BY <1>2 DEF JournalRunStarted
    <3>2. \E n \in 1..Len(journal') : journal'[n] = row
      BY <1>1, <2>2, <3>1, RowIsThere
    <3> QED
      BY <2>2, <2>4, <3>2 DEF HasRow
  <2>6. pc' # "launch"
    BY <1>2 DEF JournalRunStarted
  <2> HIDE DEF row
  <2> QED
    BY <2>1, <2>2, <2>3, <2>4, <2>5, <2>6, RecordKeptWithRow
<1>3. CASE JournalIterationStarted
  <2> DEFINE row == [Row("iteration_started") EXCEPT !.iteration = iteration + 1]
  <2>1. run # NoRun /\ iteration \in Nat /\ iteration + 1 \in 0..Count
    BY <1>3 DEF JournalIterationStarted, Stages, RunnerFacts, TypeOK
  <2>2. /\ row \in RowRecord /\ row.run = run
        /\ row.event = "iteration_started" /\ row.iteration = iteration + 1
    BY <2>1, RowTyped DEF Row
  <2>3. AppendRaises(row)
    BY <1>3 DEF JournalIterationStarted, AppendRaises
  <2>4. run' = run /\ iteration' = iteration + 1 /\ commands' = commands
        /\ pc' \notin Between
    BY <1>3 DEF JournalIterationStarted, End
  <2>5. iteration > 0 => HasSuccess(run, iteration)
    BY <1>3 DEF JournalIterationStarted, OnRecord
  <2>6. row.iteration > 1 => HasSuccess(run, row.iteration - 1)
    BY <2>1, <2>2, <2>5
  <2>7. HasRow("run_started", run, 0)'
    <3>1. PICK n \in 1..Len(journal) :
                journal[n].event = "run_started" /\ journal[n].run = run
                    /\ journal[n].iteration = 0
      BY <1>3 DEF JournalIterationStarted, OnRecord, HasRow
    <3>2. n \in 1..Len(journal') /\ journal'[n] = journal[n]
      BY <1>1, <2>2, <2>3, RowsStay, LenProperties
    <3> QED
      BY <2>4, <3>1, <3>2 DEF HasRow
  <2>8. pc' = "launch" => HasRow("iteration_started", run, iteration)'
    <3> SUFFICES ASSUME pc' = "launch" PROVE HasRow("iteration_started", run, iteration)'
      OBVIOUS
    <3>1. Appended(row)
      BY <1>3 DEF JournalIterationStarted, End
    <3>2. \E n \in 1..Len(journal') : journal'[n] = row
      BY <1>1, <2>2, <3>1, RowIsThere
    <3> QED
      BY <2>2, <2>4, <3>2 DEF HasRow
  <2> HIDE DEF row
  <2> QED
    BY <2>1, <2>2, <2>3, <2>4, <2>6, <2>7, <2>8, RecordKeptWithRow
<1>4. CASE JournalIterationFinished
  <2> DEFINE row == Row("iteration_finished")
  <2>1. run # NoRun /\ 0 \in 0..Count
    BY <1>4, CountAssumption DEF JournalIterationFinished, Stages, RunnerFacts
  <2>2. row \in RowRecord /\ row.run = run /\ row.event = "iteration_finished"
    BY <2>1, RowTyped DEF Row
  <2>3. AppendRaises(row)
    BY <1>4 DEF JournalIterationFinished, AppendRaises
  <2>4. run' = run /\ iteration' = iteration /\ commands' = commands /\ pc' # "launch"
    BY <1>4 DEF JournalIterationFinished, End
  <2>5. HasRow("run_started", run, 0)'
    <3>1. PICK n \in 1..Len(journal) :
                journal[n].event = "run_started" /\ journal[n].run = run
                    /\ journal[n].iteration = 0
      BY <1>4 DEF JournalIterationFinished, OnRecord, HasRow
    <3>2. n \in 1..Len(journal') /\ journal'[n] = journal[n]
      BY <1>1, <2>2, <2>3, RowsStay, LenProperties
    <3> QED
      BY <2>4, <3>1, <3>2 DEF HasRow
  <2>6. pc' \in Between => HasSuccess(run, iteration)'
    <3> SUFFICES ASSUME pc' \in Between PROVE HasSuccess(run, iteration)'
      OBVIOUS
    <3>1. Appended(row) /\ outcome = "succeeded"
      BY <1>4 DEF JournalIterationFinished, End, StopsAfter
    <3>2. \E n \in 1..Len(journal') : journal'[n] = row
      BY <1>1, <2>2, <3>1, RowIsThere
    <3>3. row = [event |-> "iteration_finished", run |-> run, iteration |-> iteration,
                 succeeded |-> TRUE]
      BY <3>1 DEF Row
    <3> QED
      BY <2>4, <3>2, <3>3 DEF HasSuccess
  <2> HIDE DEF row
  <2> QED
    BY <2>1, <2>2, <2>3, <2>4, <2>5, <2>6, RecordKeptWithRow
<1>5. CASE JournalRunFinished
  <2> DEFINE row == Row("run_finished")
  <2>1. run # NoRun /\ 0 \in 0..Count
    BY <1>5, CountAssumption DEF JournalRunFinished, Stages, RunnerFacts
  <2>2. row \in RowRecord /\ row.run = run /\ row.event = "run_finished"
    BY <2>1, RowTyped DEF Row
  <2>3. /\ AppendRaises(row) /\ run' = run /\ commands' = commands
        /\ pc' \notin Between \cup Iterating
    BY <1>5 DEF JournalRunFinished
  <2> HIDE DEF row
  <2> QED
    BY <2>1, <2>2, <2>3, RecordKeptWithRow
<1>6. CASE Launch
  BY <1>1, <1>6, RecordKeptWithoutRow DEF Launch
<1>7. CASE AcquireLock
  BY <1>1, <1>7, RecordKeptWithoutRow DEF AcquireLock
<1>8. CASE WriteActive \/ CheckBounds \/ WaitUntil
  BY <1>1, <1>8, RecordKeptWithoutRow DEF WriteActive, CheckBounds, WaitUntil, End
<1>9. CASE StartReaders \/ CommandExited \/ StopCommand \/ StopNoisyCommand \/ StopFails
  BY <1>1, <1>9, RecordKeptWithoutRow
     DEF StartReaders, CommandExited, StopCommand, StopNoisyCommand, Stop, StopFails
<1>10. CASE Interrupt \/ RemoveActive \/ RemoveCancellation \/ Crash
  BY <1>1, <1>10, RecordKeptWithoutRow
     DEF Interrupt, RemoveActive, RemoveCancellation, Crash, End
<1>11. CASE \E o \in Operators :
               ReadActive(o) \/ WriteCancellation(o) \/ WriteCancellationFails(o)
  BY <1>1, <1>11, RecordKeptWithoutRow
     DEF ReadActive, WriteCancellation, WriteCancellationFails
<1>12. CASE CommandEnds \/ DeadlinePasses \/ ReadabilityChanges \/ UNCHANGED vars
  BY <1>1, <1>12, RecordKeptWithoutRow DEF CommandEnds, DeadlinePasses, ReadabilityChanges, vars
<1> QED
  BY <1>2, <1>3, <1>4, <1>5, <1>6, <1>7, <1>8, <1>9, <1>10, <1>11, <1>12 DEF Next, RunnerStep

-----------------------------------------------------------------------------
(* The markers.                                                            *)

\* Whatever the marker names was confirmed.
Asked == cancellation # NoRun => asked_at[cancellation] # NotAsked

\* Every step keeps that: nothing is asked that an operator did not write down.
LEMMA AskedInductive == Stages /\ Asked /\ [Next]_vars => Asked'
<1> SUFFICES ASSUME Stages, Asked, [Next]_vars PROVE Asked'
  OBVIOUS
<1> USE DEF Asked, NoRun, NotAsked, progress, markers, requests, evidence
<1>1. /\ operator \in [Operators -> 0..MaxRuns] /\ asked_at \in [Runs -> {NotAsked} \cup 0..Count]
      /\ iteration \in 0..Count
  BY DEF Stages, TypeOK
<1>2. CASE AcquireLock \/ RunnerStep \/ StopNoisyCommand \/ StopFails \/ Interrupt \/ Crash
  <2>1. asked_at' = asked_at /\ cancellation' \in {NoRun, cancellation}
    BY <1>2 DEF AcquireLock, RunnerStep, WriteActive, JournalRunStarted, CheckBounds, WaitUntil,
                JournalIterationStarted, Launch, StartReaders, CommandExited, StopCommand, Stop,
                JournalIterationFinished, JournalRunFinished, RemoveActive, RemoveCancellation,
                Removed, StopNoisyCommand, StopFails, Interrupt, Crash
  <2> QED
    BY <2>1
<1>3. ASSUME NEW o \in Operators, WriteCancellation(o)
      PROVE  Asked'
  <2> DEFINE r == operator[o]
  <2>1. r \in Runs /\ IterationsOf(r) \in Nat
    BY <1>1, <1>3, MaxRunsAssumption, CountAssumption DEF WriteCancellation, IterationsOf, Runs
  <2>2. \/ asked_at[r] = NotAsked /\ asked_at' = [asked_at EXCEPT ![r] = IterationsOf(r)]
        \/ asked_at[r] # NotAsked /\ asked_at' = asked_at
    BY <1>3 DEF WriteCancellation
  <2>3. asked_at'[r] # NotAsked
    BY <1>1, <2>1, <2>2
  <2> QED
    BY <1>3, <2>3 DEF WriteCancellation
<1>4. CASE \E o \in Operators : ReadActive(o) \/ WriteCancellationFails(o)
  BY <1>4 DEF ReadActive, WriteCancellationFails
<1>5. CASE CommandEnds \/ DeadlinePasses \/ ReadabilityChanges \/ UNCHANGED vars
  BY <1>5 DEF CommandEnds, DeadlinePasses, ReadabilityChanges, vars
<1> QED
  BY <1>2, <1>3, <1>4, <1>5 DEF Next

\* The steps that make the reason "cancelled" are those that find a cancellation.
LEMMA OnlyRequestsCancel ==
    ASSUME Stages, [Next]_vars, outcome # "cancelled", outcome' = "cancelled"
    PROVE  CancellationRequested /\ run # NoRun
<1> USE DEF progress
<1>1. pc # "none" => run # NoRun
  BY DEF Stages, RunnerFacts
<1>2. CASE CheckBounds \/ WaitUntil
  BY <1>1, <1>2 DEF CheckBounds, WaitUntil, AtCount, End
<1>3. CASE StopCommand
  BY <1>1, <1>3 DEF StopCommand, StopReasons, Stop
<1>4. CASE AcquireLock \/ WriteActive \/ JournalRunStarted \/ JournalIterationStarted
               \/ Launch \/ StartReaders \/ CommandExited \/ StopNoisyCommand \/ StopFails
  BY <1>4 DEF AcquireLock, WriteActive, JournalRunStarted, JournalIterationStarted, Launch,
              StartReaders, CommandExited, StopNoisyCommand, Stop, StopFails, End
<1>5. CASE JournalIterationFinished \/ JournalRunFinished \/ RemoveActive
               \/ RemoveCancellation \/ Interrupt \/ Crash
  BY <1>5 DEF JournalIterationFinished, JournalRunFinished, RemoveActive, RemoveCancellation,
              Interrupt, Crash, End
<1>6. CASE \E o \in Operators :
              ReadActive(o) \/ WriteCancellation(o) \/ WriteCancellationFails(o)
  BY <1>6 DEF ReadActive, WriteCancellation, WriteCancellationFails
<1>7. CASE CommandEnds \/ DeadlinePasses \/ ReadabilityChanges \/ UNCHANGED vars
  BY <1>7 DEF CommandEnds, DeadlinePasses, ReadabilityChanges, vars
<1> QED
  BY <1>2, <1>3, <1>4, <1>5, <1>6, <1>7 DEF Next, RunnerStep

\* Nobody speaks of a run to come; the active marker names the run that can be
\* cancelled; once its cancellation is confirmed the other marker names it too, no
\* operator is about to replace that one, and the run does not get past its next
\* check.
Cancellable == {"active"} \cup Between \cup Iterating

Obeyed ==
    /\ active <= run /\ \A o \in Operators : operator[o] <= run
    /\ \A r \in Runs : r > run => asked_at[r] = NotAsked
    /\ pc = "locked" =>
           /\ active < run /\ \A o \in Operators : operator[o] < run
           /\ asked_at[run] = NotAsked
    /\ pc \in Cancellable => active = run
    /\ run # NoRun /\ asked_at[run] # NotAsked =>
           /\ iteration <= asked_at[run] + 1
           /\ pc \in {"wait", "begin"} => iteration <= asked_at[run]
           /\ pc \in Cancellable =>
                  cancellation = run /\ \A o \in Operators : operator[o] \in {NoRun, run}

\* With one operator, every step keeps that.
LEMMA ObeyedInductive ==
    ASSUME \A o, p \in Operators : o = p
    PROVE  Stages /\ Obeyed /\ [Next]_vars => Obeyed'
<1> SUFFICES ASSUME Stages, Obeyed, [Next]_vars PROVE Obeyed'
  OBVIOUS
<1> USE MaxRunsAssumption, CountAssumption
    DEF Obeyed, Cancellable, Between, Iterating, NoRun, NotAsked, Runs, progress, markers,
        requests, evidence
<1>1. /\ operator \in [Operators -> 0..MaxRuns] /\ asked_at \in [Runs -> {NotAsked} \cup 0..Count]
      /\ iteration \in 0..Count /\ run \in 0..MaxRuns /\ active \in 0..MaxRuns
      /\ pc # "none" => run # NoRun
      /\ pc \in {"locked", "active"} => iteration = 0
  BY DEF Stages, TypeOK, RunnerFacts
<1>2. CASE AcquireLock
  BY <1>1, <1>2 DEF AcquireLock
<1>3. CASE WriteActive
  BY <1>1, <1>3 DEF WriteActive
<1>4. CASE JournalRunStarted \/ StartReaders \/ Launch
  BY <1>1, <1>4 DEF JournalRunStarted, StartReaders, Launch
<1>5. CASE CheckBounds \/ WaitUntil
  BY <1>1, <1>5 DEF CheckBounds, WaitUntil, CancellationRequested, End
<1>6. CASE JournalIterationStarted
  BY <1>1, <1>6 DEF JournalIterationStarted, End
<1>7. CASE CommandExited \/ StopCommand \/ StopNoisyCommand \/ StopFails
  BY <1>1, <1>7 DEF CommandExited, StopCommand, StopNoisyCommand, Stop, StopFails
<1>8. CASE JournalIterationFinished \/ Interrupt \/ JournalRunFinished
  BY <1>1, <1>8 DEF JournalIterationFinished, Interrupt, JournalRunFinished, End
<1>9. CASE RemoveActive \/ RemoveCancellation \/ Crash
  BY <1>1, <1>9 DEF RemoveActive, RemoveCancellation, Removed, Crash
<1>10. ASSUME NEW o \in Operators, ReadActive(o)
       PROVE  Obeyed'
  <2>1. operator' = [operator EXCEPT ![o] = active]
        /\ UNCHANGED <<pc, run, iteration, active, cancellation, asked_at>>
    BY <1>10 DEF ReadActive
  <2>2. \A p \in Operators : operator'[p] = active
    BY <1>1, <2>1
  <2> QED
    BY <1>1, <2>1, <2>2
<1>11. ASSUME NEW o \in Operators, WriteCancellation(o)
       PROVE  Obeyed'
  <2> DEFINE r == operator[o]
  <2>1. /\ r \in Runs /\ r <= run /\ cancellation' = r
        /\ UNCHANGED <<pc, run, iteration, active>>
    BY <1>1, <1>11 DEF WriteCancellation
  <2>2. \A p \in Operators : operator'[p] = NoRun
    BY <1>1, <1>11 DEF WriteCancellation
  <2>3. \A q \in Runs : q # r => asked_at'[q] = asked_at[q]
    BY <1>1, <1>11 DEF WriteCancellation
  <2>4. r = run => \/ asked_at[run] = NotAsked /\ asked_at'[run] = iteration
                   \/ asked_at[run] # NotAsked /\ asked_at'[run] = asked_at[run]
    BY <1>1, <1>11, <2>1 DEF WriteCancellation, IterationsOf
  <2>5. pc = "locked" => r # run
    BY <2>1
  <2>6. CASE r = run
    BY <1>1, <2>1, <2>2, <2>3, <2>4, <2>5, <2>6
  <2>7. CASE r # run
    BY <1>1, <2>1, <2>2, <2>3, <2>7
  <2> QED
    BY <2>6, <2>7
<1>12. ASSUME NEW o \in Operators, WriteCancellationFails(o)
       PROVE  Obeyed'
  BY <1>1, <1>12 DEF WriteCancellationFails
<1>13. CASE CommandEnds \/ DeadlinePasses \/ ReadabilityChanges \/ UNCHANGED vars
  BY <1>1, <1>13 DEF CommandEnds, DeadlinePasses, ReadabilityChanges, vars
<1> QED
  BY <1>2, <1>3, <1>4, <1>5, <1>6, <1>7, <1>8, <1>9, <1>10, <1>11, <1>12, <1>13
     DEF Next, RunnerStep

-----------------------------------------------------------------------------
(* The theorems.                                                           *)

\* The runner's position, its counters, its commands and its journal agree, after
\* every step of every interleaving with crashes, operators and exits.
THEOREM LoopInvariant == Spec => [](Stages /\ OnRecord)
BY StagesInitially, StagesInductive, RecordInitially, RecordInductive, PTL DEF Spec

\* Every variable has its type: in particular no run begins more than Count
\* iterations.
THEOREM LoopTypeCorrect == Spec => []TypeOK
BY LoopInvariant, PTL DEF Stages

\* A command runs only while its runner waits for it, but for those whose runner died
\* or let go of them.
THEOREM CommandsHaveRunners == Spec => []CommandsAreAwaited
BY LoopInvariant, PTL DEF Stages

\* Whatever the disk does, no command runs that is not on record.
THEOREM CommandsHaveRows == Spec => []CommandsAreOnRecord
BY LoopInvariant, PTL DEF OnRecord

\* The journal shows that no iteration began after a failure.
THEOREM FailuresAreLast == Spec => []StartsFollowSuccess
BY LoopInvariant, PTL DEF OnRecord

\* A run ends as cancelled only if somebody was told that it would, or its marker
\* cannot be read.
THEOREM CancellationsAreWanted == Spec => CancelledWasAsked
<1>1. Init => Asked
  BY DEF Init, Asked
<1>2. ASSUME Stages, Asked, [Next]_vars
      PROVE  [outcome # "cancelled" /\ outcome' = "cancelled"
              => asked_at[run] # NotAsked \/ unreadable]_vars
  <2> SUFFICES ASSUME outcome # "cancelled", outcome' = "cancelled"
               PROVE  asked_at[run] # NotAsked \/ unreadable
    OBVIOUS
  <2> QED
    BY <1>2, OnlyRequestsCancel DEF Asked, CancellationRequested
<1> QED
  BY <1>1, <1>2, AskedInductive, LoopInvariant, PTL DEF Spec, CancelledWasAsked

\* One operator is obeyed: after a confirmed cancellation at most one more iteration
\* begins, of any number.
THEOREM OneOperatorIsObeyed ==
    ASSUME \A o, p \in Operators : o = p
    PROVE  Spec => []CancellationStops
<1>1. Init => Obeyed
  BY MaxRunsAssumption DEF Init, Obeyed, Cancellable, Between, Iterating, NoRun, Runs
<1>2. Stages /\ Obeyed /\ [Next]_vars => Obeyed'
  BY ObeyedInductive
<1>3. Obeyed => CancellationStops
  BY DEF Obeyed, CancellationStops
<1> QED
  BY <1>1, <1>2, <1>3, LoopInvariant, PTL DEF Spec
=============================================================================
