-------------------------------- MODULE Journal --------------------------------
(***************************************************************************)
(* The files of a loop's journal (loop.py): append_journal() with its      *)
(* repair and rotation, and read_journal().                                *)
(*                                                                         *)
(* Both work under an OS lock, but a process that dies, or an OS error,    *)
(* gives the lock up between any two of their file operations; the next    *)
(* process finds what that left.  File 0 is the journal, file k its k-th   *)
(* backup, a higher number an older file.  Rows have numbers, in the order *)
(* of the calls that append them, and a row that was glued to a fragment   *)
(* is Garbage.  Rows are of one size, so a file holds RowsPerFile.         *)
(***************************************************************************)
EXTENDS Integers, Sequences, SequencesExt

CONSTANTS
    MaxBackups,    \* MAX_JOURNAL_BACKUPS
    RowsPerFile,   \* MAX_JOURNAL_BYTES in rows
    Tails,         \* values of tail readers ask for
    MaxRows        \* bound: calls of append_journal()

ASSUME MaxBackupsAssumption == MaxBackups \in Nat /\ MaxBackups >= 2
ASSUME RowsPerFileAssumption == RowsPerFile \in Nat \ {0}
ASSUME TailsAssumption == Tails \subseteq Nat \ {0}
ASSUME MaxRowsAssumption == MaxRows \in Nat

VARIABLES
    files,     \* per file its rows, <<>> if it is empty or not there
    torn,      \* does file 0 end in a fragment
    pc,        \* where the process that appends is; "none" if there is none
    index,     \* of its rotation
    row,       \* the newest row, the one it appends
    durable    \* the rows of which append_journal() returned

vars == <<files, torn, pc, index, row, durable>>

Files == 0..MaxBackups
Garbage == 0

\* NamedLoopLock(blocking=True)
BeginAppend ==
    /\ pc = "none" /\ row < MaxRows
    /\ pc' = "repair" /\ row' = row + 1
    /\ UNCHANGED <<files, torn, index, durable>>

\* A row more would exceed MAX_JOURNAL_BYTES.
Full == Len(files[0]) >= RowsPerFile

\* Mutant: fragments are left where they are.
RepairFragment_Never ==
    /\ pc = "repair"
    /\ IF Full THEN pc' = "rotate" /\ index' = MaxBackups
                   ELSE pc' = "write" /\ index' = index
    /\ UNCHANGED <<files, torn, row, durable>>

\* The fragment is cut off, and the size compared with the limit.
RepairFragment ==
    /\ pc = "repair"
    /\ torn' = FALSE
    /\ IF Full THEN pc' = "rotate" /\ index' = MaxBackups
                   ELSE pc' = "write" /\ index' = index
    /\ UNCHANGED <<files, row, durable>>

\* Mutant: the newest file is moved first.
RotationOrder_NewestFirst(i) == MaxBackups - i

\* The file moved in the step at which the loop index of _rotate_journal() is i.
RotationOrder(i) == i - 1

\* One os.replace(), if the file is there.
Rotate ==
    /\ pc = "rotate"
    /\ LET from == RotationOrder(index) IN
       files' = IF files[from] # <<>>
                THEN [files EXCEPT ![from + 1] = files[from], ![from] = <<>>]
                ELSE files
    /\ IF index = 1 THEN pc' = "write" /\ index' = index
                    ELSE pc' = pc /\ index' = index - 1
    /\ UNCHANGED <<torn, row, durable>>

\* The row reaches the file, all of it or the first part.
WriteRow ==
    /\ pc = "write"
    /\ \/ /\ pc' = "fsync" /\ torn' = FALSE
          /\ files' = [files EXCEPT ![0] = Append(@, IF torn THEN Garbage ELSE row)]
       \/ pc' = "none" /\ torn' = TRUE /\ files' = files
    /\ UNCHANGED <<index, row, durable>>

Fsync ==
    /\ pc = "fsync" /\ pc' = "none"
    /\ durable' = durable \cup {row}
    /\ UNCHANGED <<files, torn, index, row>>

\* The process dies, or the call raises.
GiveUp ==
    /\ pc # "none" /\ pc' = "none"
    /\ UNCHANGED <<files, torn, index, row, durable>>

Init ==
    /\ files = [f \in Files |-> <<>>]
    /\ torn = FALSE
    /\ pc = "none" /\ index = 1
    /\ row = 0 /\ durable = {}

Next == BeginAppend \/ RepairFragment \/ Rotate \/ WriteRow \/ Fsync \/ GiveUp

Spec == Init /\ [][Next]_vars

-----------------------------------------------------------------------------
(* read_journal(), which finds the files as they are whenever the lock is  *)
(* free.                                                                   *)

LastRows(s, n) == IF Len(s) > n THEN SubSeq(s, Len(s) - n + 1, Len(s)) ELSE s

\* Mutant: the search ends at the first backup that is not there.
ReadBackups_UpToGap(lines, f, tail) ==
    IF \E g \in 1..f : files[g] = <<>> THEN lines
    ELSE LastRows(files[f], tail - Len(lines)) \o lines

\* One candidate file: what is still missing of the tail, before what is there.
ReadBackups(lines, f, tail) == LastRows(files[f], tail - Len(lines)) \o lines

\* The candidates in their order; a fragment is not a row.
ReadJournal(tail) ==
    LET read[f \in Files] ==
            IF f = 0 THEN LastRows(files[0], tail) ELSE ReadBackups(read[f - 1], f, tail)
    IN read[MaxBackups]

-----------------------------------------------------------------------------
(* Properties.                                                             *)

\* The files: in particular none grows past its limit, and no row is durable
\* before it was appended.
TypeOK ==
    /\ files \in [Files -> Seq(Garbage..MaxRows)]
    /\ \A f \in Files : Len(files[f]) <= RowsPerFile
    /\ torn \in BOOLEAN
    /\ pc \in {"none", "repair", "rotate", "write", "fsync"}
    /\ index \in 1..MaxBackups
    /\ row \in 0..MaxRows /\ durable \subseteq 1..row

\* The rows that are there, oldest first.
Rows == FlattenSeq([n \in 1..(MaxBackups + 1) |-> files[MaxBackups + 1 - n]])

\* A rotation that is cut short leaves a gap, and costs the oldest file when it is
\* done again; the newest two files are safe however often that happens.
Kept == 2 * RowsPerFile

\* A row whose append returned stays until enough newer rows are there, however
\* many rotations were cut short: none is overwritten, torn, or lost in between.
DurableRowsStay ==
    \A r \in durable :
        \/ \E n \in 1..Len(Rows) : Rows[n] = r
        \/ Len(Rows) >= Kept /\ \A n \in 1..Len(Rows) : Rows[n] > r

\* A reader is given the newest rows, in order and without a gap, also of a journal
\* that a dead process left in the middle of a rotation or of a row.
ReadersSeeTheNewest ==
    pc = "none" => \A tail \in Tails : ReadJournal(tail) = LastRows(Rows, tail)

\* The files together are a log that forgets nothing but its oldest rows.
Log == INSTANCE RowLog WITH Kept <- Kept, log <- Rows

IsRowLog == Log!Spec
=============================================================================
