---------------------------- MODULE SummaryHistory ----------------------------
(***************************************************************************)
(* What the Summaries promise those who write them: each thread has one    *)
(* history of summaries, to which entries are added at its end and from    *)
(* which nothing is ever taken.  A steward adds an entry only to the       *)
(* history it was shown, all of it, and its entry covers at least what the *)
(* last one covered.  A summary written by hand goes on top of whatever is *)
(* there, and covers nothing.                                              *)
(***************************************************************************)
EXTENDS Naturals, Sequences

CONSTANTS
    Threads,
    Clients,
    NoView    \* what a client was shown that was shown nothing

VARIABLES
    history,  \* per thread: its entries, oldest first
    shown     \* per client: a thread and the history it was shown of it

vars == <<history, shown>>

Covered(h) == IF h = <<>> THEN 0 ELSE h[Len(h)].through

\* An entry is named by a number no entry of any thread has had before.
IsNew(entry) ==
    \A th \in Threads : \A n \in DOMAIN history[th] : history[th][n].id < entry.id

Init ==
    /\ history = [th \in Threads |-> <<>>]
    /\ shown = [c \in Clients |-> NoView]

Show(c) ==
    /\ \E th \in Threads : shown' = [shown EXCEPT ![c] = [thread |-> th, history |-> history[th]]]
    /\ UNCHANGED history

Added(th, kind) ==
    LET entry == history'[th][Len(history'[th])] IN
    /\ history'[th] # <<>>
    /\ history' = [history EXCEPT ![th] = Append(@, entry)]
    /\ IsNew(entry)
    /\ entry.kind = kind
    /\ kind = "steward" => entry.through >= Covered(history[th])
    /\ kind = "manual" => entry.through = 0
    /\ UNCHANGED shown

Extend(c) ==
    /\ shown[c] # NoView
    /\ shown[c].history = history[shown[c].thread]
    /\ Added(shown[c].thread, "steward")

Overwrite(th) == Added(th, "manual")

Next ==
    \/ \E c \in Clients : Show(c) \/ Extend(c)
    \/ \E th \in Threads : Overwrite(th)

Spec == Init /\ [][Next]_vars
=============================================================================
