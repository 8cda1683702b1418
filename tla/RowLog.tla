-------------------------------- MODULE RowLog --------------------------------
(***************************************************************************)
(* What a bounded log promises: rows are added at its end, each newer than *)
(* the ones before it, and only the oldest rows are ever forgotten, while  *)
(* at least Kept newer ones remain.                                        *)
(***************************************************************************)
EXTENDS Integers, Sequences

CONSTANT Kept    \* rows the log never falls short of by forgetting

VARIABLE log

Init == log = <<>>

Newest == log[Len(log)]

Add ==
    /\ log' # <<>>
    /\ log' = Append(log, Newest')
    /\ \A n \in 1..Len(log) : log[n] < Newest'

Forget ==
    \E n \in 1..Len(log) :
        /\ Len(log) - n >= Kept
        /\ log' = SubSeq(log, n + 1, Len(log))

Spec == Init /\ [][Add \/ Forget]_log
=============================================================================
