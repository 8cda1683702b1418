------------------------------ MODULE TaskLease ------------------------------
(***************************************************************************)
(* What the Taskboard promises its users, with no tables, transactions or  *)
(* requests: each task is free, held, parked or finished; a holder keeps a *)
(* task until its lease is over or somebody says on the record that it     *)
(* ends; what is finished stays finished.                                  *)
(*                                                                         *)
(* Tasks move independently of one another, so that a step may expire the  *)
(* leases of some and serve a request about another, as one transaction    *)
(* of the service does.                                                    *)
(***************************************************************************)
EXTENDS Integers

CONSTANTS Tasks, Agents, Nobody, MaxLease

VARIABLES
    state,    \* where each task stands
    holder,   \* who holds it
    left,     \* what is left of the holder's lease; negative: it is over
    reason    \* the lifecycle event on record that brought the task here

vars == <<state, holder, left, reason>>

Init ==
    /\ state = [t \in Tasks |-> "absent"]
    /\ holder = [t \in Tasks |-> Nobody]
    /\ reason = [t \in Tasks |-> "none"]

Live(t) == state[t] = "claimed" /\ left[t] >= 0
Over(t) == state[t] = "claimed" /\ left[t] < 0
Free(t) == state[t] = "queued" \/ Over(t)

Become(t, s, a) == state'[t] = s /\ holder'[t] = a

Rest(t) ==
    /\ Become(t, state[t], holder[t])
    /\ reason'[t] = reason[t]
    /\ left'[t] = left[t] \/ left'[t] = left[t] - 1

Open(t)   == /\ state[t] = "absent"
             /\ Become(t, "queued", Nobody)
             /\ reason'[t] = "created"
Grant(t)  == /\ Free(t)
             /\ \E a \in Agents : Become(t, "claimed", a)
             /\ reason'[t] = "claimed" /\ left'[t] \in 1..MaxLease
Renew(t)  == /\ Live(t)
             /\ Become(t, "claimed", holder[t])
             /\ reason'[t] = "claimed" /\ left'[t] \in 1..MaxLease
Lapse(t)  == /\ Over(t)
             /\ Become(t, "queued", Nobody)
             /\ reason'[t] = "lease_expired"
Yield(t)  == /\ Live(t)
             /\ Become(t, "queued", Nobody)
             /\ reason'[t] \in {"released", "claim_cleared"}
Park(t)   == /\ Free(t) \/ Live(t)
             /\ Become(t, "blocked", Nobody)
             /\ reason'[t] = "blocked"
Unpark(t) == /\ state[t] = "blocked"
             /\ Become(t, "queued", Nobody)
             /\ reason'[t] = "unblocked"
Finish(t) == /\ Free(t) \/ Live(t)
             /\ Become(t, "done", Nobody)
             /\ reason'[t] = "completed"

\* A parked task may be parked again, by somebody else.
Repark(t) == /\ state[t] = "blocked"
             /\ Become(t, "blocked", Nobody)
             /\ reason'[t] = "blocked"

Move(t) == \/ Rest(t) \/ Open(t) \/ Grant(t) \/ Renew(t) \/ Lapse(t) \/ Yield(t)
           \/ Park(t) \/ Unpark(t) \/ Finish(t) \/ Repark(t)

Next == \A t \in Tasks : Move(t)

Spec == Init /\ [][Next]_vars
=============================================================================
