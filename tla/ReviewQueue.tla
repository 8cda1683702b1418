----------------------------- MODULE ReviewQueue -----------------------------
(***************************************************************************)
(* What the dispatcher promises those who ask for reviews: requests are    *)
(* taken in the order in which they were asked and none is passed over;    *)
(* what was taken stays open until it is answered, or until the service    *)
(* refuses every answer to it; and what is closed stays closed.  Requests  *)
(* that were there before the dispatcher was set up may be skipped, all of *)
(* them at once.                                                           *)
(*                                                                         *)
(* A request has one answer, unless a POST outlives its client: such a     *)
(* POST may repeat an answer, or answer after all what was given up.       *)
(***************************************************************************)
EXTENDS Naturals, Sequences

CONSTANTS
    Ids,       \* a set of numbers
    Answers,   \* what an answer may say
    MaxLate,   \* bound: POSTs per request that outlive their client
    Refusal    \* the answer to a malformed request

VARIABLES
    state,     \* per id: what became of the request
    kind,      \* per id: what kind of message it is, "none" as long as there is none
    answers    \* per id: the answers given

vars == <<state, kind, answers>>

Init ==
    /\ state = [i \in Ids |-> "absent"]
    /\ kind = [i \in Ids |-> "none"]
    /\ answers = [i \in Ids |-> <<>>]

In(status) == {i \in Ids : state[i] = status}
Become(S, status) == state' = [i \in Ids |-> IF i \in S THEN status ELSE state[i]]

\* A message arrives, which may or may not ask for a review.
Ask(i) ==
    /\ kind[i] = "none" /\ \A j \in Ids : j < i => kind[j] # "none"
    /\ \/ kind' = [kind EXCEPT ![i] = "other"] /\ state' = state
       \/ /\ \E k \in {"request", "malformed"} : kind' = [kind EXCEPT ![i] = k]
          /\ Become({i}, "new")
    /\ UNCHANGED answers

Skip ==
    /\ In("new") # {} /\ \A i \in Ids : state[i] \in {"absent", "new"}
    /\ Become(In("new"), "skipped")
    /\ UNCHANGED <<kind, answers>>

Take(S) ==
    /\ S # {} /\ S \subseteq In("new")
    /\ \A i \in S, j \in In("new") : j < i => j \in S
    /\ Become(S, "open")
    /\ UNCHANGED <<kind, answers>>

Answer(i, says) ==
    /\ state[i] = "open"
    /\ kind[i] = "malformed" => says = Refusal
    /\ Become({i}, "answered")
    /\ answers' = [answers EXCEPT ![i] = <<says>>]
    /\ UNCHANGED kind

\* A POST that was taken for lost is there, or the request is answered once more
\* because such a POST came in between.
AnswerLate(i, says) ==
    /\ state[i] \in {"answered", "refused"}
    /\ MaxLate > 0 /\ Len(answers[i]) <= MaxLate
    /\ kind[i] = "malformed" => says = Refusal
    /\ \A n \in 1..Len(answers[i]) : answers[i][n] = says
    /\ Become({i}, "answered")
    /\ answers' = [answers EXCEPT ![i] = Append(@, says)]
    /\ UNCHANGED kind

GiveUp(i) ==
    /\ state[i] = "open"
    /\ Become({i}, "refused")
    /\ UNCHANGED <<kind, answers>>

Next ==
    \/ \E i \in Ids : Ask(i) \/ GiveUp(i)
    \/ Skip
    \/ \E S \in SUBSET Ids : Take(S)
    \/ \E i \in Ids, says \in Answers : Answer(i, says) \/ AnswerLate(i, says)

Spec == Init /\ [][Next]_vars
=============================================================================
