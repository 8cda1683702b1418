-------------------------- MODULE Dispatcher_proofs --------------------------
(***************************************************************************)
(* Proofs about Dispatcher, for any number of messages and attempts, any   *)
(* limits, and any number of POSTs that outlive their clients.             *)
(*                                                                         *)
(* The state file and the copy in memory are both, at any moment, a state  *)
(* that fits what is outside the process (Good); the position in the cycle *)
(* says how they differ (Stage).                                           *)
(***************************************************************************)
EXTENDS Dispatcher, FiniteSetTheorems, FunctionTheorems, SequenceTheorems,
        WellFoundedInduction, TLAPS

-----------------------------------------------------------------------------
(* The inductive invariant.                                                *)

\* An item by itself: what its status says of its attempts and its result.
ItemShape(item) ==
    /\ item.status = "none" => item = NoItem
    /\ item.status \in {"queued", "running", "reply_pending"} => item.result = 0
    /\ item.status = "queued" => item.attempts < MaxAttempts
    /\ item.status = "running" => item.attempts > 0
    /\ item.status = "result_ready" => item.result = item.attempts /\ item.result > 0
    /\ item.status \in {"queued", "running", "result_ready"} => item.terminal_kind = "completed"

GoodState(st) ==
    /\ st \in StateRecord
    /\ \A i \in Ids : ItemShape(st.items[i]) /\ (i > st.cursor => st.items[i] = NoItem)
    /\ \A i, j \in Running(st) : i = j

\* Attempt k of request i has left no trace, and the request no reply.
Untouched(i, k) ==
    launcher[i][k] = "none" /\ container[i][k] = "none" /\ ~result_file[i][k]
Unanswered(i) == replies[i] = <<>> /\ late[i] = <<>>

\* Every reply to request i, there or still to be committed, says r.
Says(i, r) ==
    /\ \A n \in 1..Len(replies[i]) : replies[i][n].says = r
    /\ \A n \in 1..Len(late[i]) : late[i][n] = r

Active(i, k) == Live(i, k) \/ (launcher[i][k] = "alive" /\ container[i][k] = "none")

\* An item and what is outside: attempts to come are untouched, a result is final,
\* and whatever is active is the running attempt or an orphan.
Fits(i, item) ==
    /\ \A k \in Attempts : item.status # "none" /\ k > item.attempts => Untouched(i, k)
    /\ item.status \in {"queued", "running"} => Unanswered(i)
    /\ item.status \in {"result_ready", "reply_pending"} => Says(i, Reply(item))
    /\ item.result > 0 => result_file[i][item.result] /\ container[i][item.result] = "gone"
    /\ \A k \in Attempts : Active(i, k) =>
          <<i, k>> \in orphans \/ (item.status = "running" /\ item.attempts = k)
    /\ item.status = "running" /\ ~item.worker_pid /\ launcher[i][item.attempts] = "alive"
          => <<i, item.attempts>> \in orphans \/ pc = "started"

Linked(st) ==
    \A i \in Ids : /\ Fits(i, st.items[i])
                   /\ i > st.cursor => Unanswered(i) /\ \A k \in Attempts : Untouched(i, k)

Good(st) == GoodState(st) /\ Linked(st)

\* Where everything in memory has been saved.
Synced == {"idle", "choose", "launch", "started", "wait", "find", "post"}

Stage ==
    /\ pc \in Synced => memory = disk
    /\ disk.cursor <= memory.cursor /\ memory.cursor <= Len(inbox)
    /\ pc = "launch" => \A i \in Running(memory) : launcher[i][Attempt(i)] = "none"
    /\ pc \in {"cleanup", "cleanup_failed"} =>
          \A i \in Running(memory) :
              launcher[i][Attempt(i)] # "alive" \/ <<i, Attempt(i)>> \in orphans
    /\ pc \in {"find", "post"} => Publishable(memory) # {}
    /\ skipped = NoStateFile => pc \in {"idle", "recover", "save"} /\ disk = EmptyState

World ==
    \A i \in Ids, k \in Attempts :
        /\ container[i][k] # "none" => launcher[i][k] # "none"
        /\ result_file[i][k] => container[i][k] # "none"

\* Replies agree, and at most one of a request is not late.
Replied ==
    /\ \A i \in Ids : \E r \in Refusal..MaxAttempts : Says(i, r)
    /\ \A i \in Ids : \A m, n \in 1..Len(replies[i]) :
          ~replies[i][m].late /\ ~replies[i][n].late => m = n
    /\ pc = "post" => \A n \in 1..Len(replies[Current]) : replies[Current][n].late

Daily ==
    /\ memory.starts_today = disk.starts_today
    /\ disk.starts_today <= DailyLimit /\ launches <= disk.starts_today
    /\ pc = "launch" => launches < disk.starts_today
    /\ launches = -1 => pc = "launch"

IInv == /\ TypeOK /\ Good(disk) /\ Good(memory)
        /\ Stage /\ World /\ Replied /\ Daily

-----------------------------------------------------------------------------
(* About the operators.                                                    *)

\* Every set of ids that is not empty has a lowest member.
LEMMA LowestIsThere ==
  ASSUME NEW S, S \subseteq Ids, S # {}
  PROVE  Lowest(S) \in S
<1> DEFINE Below == {p \in Nat \X Nat : p[1] < p[2]}
<1>1. IsWellFoundedOn(Below, Nat)
  <2>1. Below = OpToRel(<, Nat)
    BY Zenon DEF OpToRel
  <2> QED
    BY <2>1, NatLessThanWellFounded, Zenon
<1>2. \A i, j \in Nat : <<i, j>> \in Below <=> i < j
  OBVIOUS
<1>3. S \subseteq Nat
  BY DEF Ids
<1> HIDE DEF Below
<1>4. IsWellFoundedOn(Below, S)
  BY <1>1, <1>3, IsWellFoundedOnSubset, Zenon
<1>5. PICK i \in S : \A j \in S : ~(<<j, i>> \in Below)
  BY <1>4, WFMin, Zenon
<1>6. ASSUME NEW j \in S
      PROVE  i <= j
  <2>1. i \in Nat /\ j \in Nat
    BY <1>3
  <2>2. ~(j < i)
    BY <1>2, <1>5, <2>1, Zenon
  <2> QED
    BY <2>1, <2>2
<1> QED
  BY <1>6 DEF Lowest

\* A history that is trimmed is still a history of ids.
LEMMA TrimmedIsHistory ==
  ASSUME NEW s \in Seq(Ids), NEW i \in Ids
  PROVE  Trimmed(Append(s, i)) \in Seq(Ids)
<1> DEFINE t == Append(s, i)
<1>1. t \in Seq(Ids) /\ Len(t) \in Nat
  OBVIOUS
<1> HIDE DEF t
<1>2. SubSeq(t, Len(t) - MaxHistory + 1, Len(t)) \in Seq(Ids)
      \/ ~(Len(t) > MaxHistory)
  BY <1>1, SubSeqProperties, DispatcherAssumption
<1> QED
  BY <1>1, <1>2 DEF Trimmed, t

\* One item of a good state is replaced by another.
LEMMA ItemReplaced ==
  ASSUME NEW st, GoodState(st), NEW i \in Ids, NEW item \in ItemRecord,
         ItemShape(item), i > st.cursor => item = NoItem,
         item.status = "running" => \A j \in Running(st) : j = i,
         NEW new \in StateRecord,
         new.cursor = st.cursor, new.items = [st.items EXCEPT ![i] = item]
  PROVE  GoodState(new)
<1>1. \A j \in Ids : new.items[j] = IF j = i THEN item ELSE st.items[j]
  BY DEF GoodState, StateRecord
<1>2. \A j \in Running(new) : j \in Running(st) \/ (j = i /\ item.status = "running")
  BY <1>1 DEF Running, WithStatus
<1> QED
  BY <1>1, <1>2 DEF GoodState

\* What a failure makes of an item by itself.
LEMMA FailedItem ==
  ASSUME NEW old \in ItemRecord, NEW item,
         item = IF old.attempts >= MaxAttempts
                THEN [old EXCEPT !.worker_pid = FALSE, !.status = "reply_pending",
                                 !.terminal_kind = "dead"]
                ELSE [old EXCEPT !.worker_pid = FALSE, !.status = "queued"]
  PROVE  /\ item \in ItemRecord
         /\ item.attempts = old.attempts /\ item.result = old.result
         /\ \/ item.status = "queued" /\ item.attempts < MaxAttempts
               /\ item.terminal_kind = old.terminal_kind
            \/ item.status = "reply_pending" /\ item.terminal_kind = "dead"
<1>1. item \in ItemRecord /\ item.attempts = old.attempts /\ item.result = old.result
  BY DEF ItemRecord
<1>2. CASE old.attempts >= MaxAttempts
  BY <1>1, <1>2 DEF ItemRecord
<1>3. CASE ~(old.attempts >= MaxAttempts)
  <2>1. item.attempts < MaxAttempts
    BY <1>1, <1>3, DispatcherAssumption DEF ItemRecord
  <2> QED
    BY <1>1, <1>3, <2>1 DEF ItemRecord
<1> QED
  BY <1>2, <1>3

\* What is known of the item that is running.
LEMMA RunningItem ==
  ASSUME NEW st, GoodState(st), NEW i \in Running(st)
  PROVE  /\ i \in Ids /\ st \in StateRecord /\ st.items \in [Ids -> ItemRecord]
         /\ st.items[i].status = "running" /\ ItemShape(st.items[i])
         /\ st.items[i].attempts \in Attempts /\ ~(i > st.cursor)
<1>1. i \in Ids /\ st \in StateRecord /\ st.items[i].status = "running"
  BY DEF GoodState, Running, WithStatus
<1>2. st.items \in [Ids -> ItemRecord]
  BY <1>1 DEF StateRecord
<1>3. ItemShape(st.items[i]) /\ (i > st.cursor => st.items[i] = NoItem)
  BY <1>1 DEF GoodState
<1>4. st.items[i] # NoItem
  BY <1>1 DEF NoItem
<1>5. st.items[i].attempts \in Attempts
  BY <1>1, <1>2, <1>3, DispatcherAssumption DEF ItemRecord, ItemShape, Attempts
<1> QED
  BY <1>1, <1>2, <1>3, <1>4, <1>5

\* A failed review: the item is queued again or to be answered with BLOCKED.
LEMMA FailedIsGood ==
  ASSUME NEW st, GoodState(st), NEW i \in Running(st)
  PROVE  LET new == Failed(st, i) IN
         /\ GoodState(new)
         /\ new.cursor = st.cursor /\ new.starts_today = st.starts_today
         /\ \A j \in Ids \ {i} : new.items[j] = st.items[j]
         /\ new.items[i].attempts = st.items[i].attempts
         /\ new.items[i].result = 0
         /\ \/ new.items[i].status = "queued"
            \/ new.items[i].status = "reply_pending" /\ new.items[i].terminal_kind = "dead"
<1> DEFINE old == st.items[i]
           new == Failed(st, i)
           item == new.items[i]
<1>1. /\ i \in Ids /\ st \in StateRecord /\ st.items \in [Ids -> ItemRecord]
      /\ old \in ItemRecord /\ old.status = "running" /\ old.result = 0
      /\ ItemShape(old) /\ ~(i > st.cursor)
  BY RunningItem DEF ItemShape
<1>2. item = IF old.attempts >= MaxAttempts
             THEN [old EXCEPT !.worker_pid = FALSE, !.status = "reply_pending",
                              !.terminal_kind = "dead"]
             ELSE [old EXCEPT !.worker_pid = FALSE, !.status = "queued"]
  BY <1>1 DEF Failed, Exhausted, StateRecord, ItemRecord
<1>3. /\ new.cursor = st.cursor /\ new.starts_today = st.starts_today
      /\ new.items = [st.items EXCEPT ![i] = item]
      /\ new = [st EXCEPT !.items = new.items]
  BY <1>1 DEF Failed, StateRecord
<1> HIDE DEF new
<1>4. /\ item \in ItemRecord
      /\ item.attempts = old.attempts /\ item.result = 0
      /\ \/ item.status = "queued" /\ item.attempts < MaxAttempts
            /\ item.terminal_kind = old.terminal_kind
         \/ item.status = "reply_pending" /\ item.terminal_kind = "dead"
  BY <1>1, <1>2, FailedItem
<1>5. ItemShape(item) /\ item.status # "running"
  BY <1>1, <1>4 DEF GoodState, ItemShape
<1>6. new \in StateRecord
  <2>1. new.items \in [Ids -> ItemRecord]
    BY <1>1, <1>3, <1>4
  <2> QED
    BY <1>1, <1>3, <2>1 DEF StateRecord
<1>7. GoodState(new)
  <2> HIDE DEF item
  <2> QED
    BY <1>1, <1>3, <1>4, <1>5, <1>6, ItemReplaced
<1>8. \A j \in Ids \ {i} : new.items[j] = st.items[j]
  BY <1>1, <1>3
<1> QED
  BY <1>3, <1>4, <1>7, <1>8 DEF new

\* A review that ended with a result: the item is ready to be answered.
LEMMA ReviewedIsGood ==
  ASSUME NEW st, GoodState(st), NEW i \in Running(st)
  PROVE  LET new == Reviewed(st, i) IN
         /\ GoodState(new)
         /\ new.cursor = st.cursor /\ new.starts_today = st.starts_today
         /\ \A j \in Ids \ {i} : new.items[j] = st.items[j]
         /\ new.items[i].status = "result_ready"
         /\ new.items[i].attempts = st.items[i].attempts
         /\ new.items[i].result = st.items[i].attempts
<1> DEFINE old == st.items[i]
           item == [old EXCEPT !.status = "result_ready", !.worker_pid = FALSE,
                               !.result = old.attempts]
           new == Reviewed(st, i)
<1>1. /\ i \in Ids /\ st \in StateRecord /\ st.items \in [Ids -> ItemRecord]
      /\ old.status = "running" /\ ItemShape(old) /\ ~(i > st.cursor)
  BY RunningItem
<1>2. /\ new.cursor = st.cursor /\ new.starts_today = st.starts_today
      /\ new.items = [st.items EXCEPT ![i] = item]
      /\ new = [st EXCEPT !.items = new.items]
  BY <1>1 DEF Reviewed, StateRecord
<1>3. /\ item \in ItemRecord /\ ItemShape(item) /\ item.status = "result_ready"
      /\ item.attempts = old.attempts /\ item.result = old.attempts
  <2>1. old \in ItemRecord
    BY <1>1
  <2> HIDE DEF old
  <2> QED
    BY <1>1, <2>1 DEF ItemRecord, ItemShape
<1> HIDE DEF new, item
<1>4. new.items \in [Ids -> ItemRecord]
  BY <1>1, <1>2, <1>3
<1>5. new \in StateRecord
  BY <1>1, <1>2, <1>4 DEF StateRecord
<1>6. GoodState(new)
  BY <1>1, <1>2, <1>3, <1>5, ItemReplaced
<1>7. \A j \in Ids \ {i} : new.items[j] = st.items[j]
  BY <1>1, <1>2
<1>8. new.items[i] = item
  BY <1>1, <1>2
<1> QED
  BY <1>2, <1>3, <1>6, <1>7, <1>8 DEF new

\* An item is filed in a history, and no longer open.
LEMMA FiledIsGood ==
  ASSUME NEW st, GoodState(st), NEW i \in Ids, NEW new \in {Finished(st, i), Unpublished(st, i)}
  PROVE  /\ GoodState(new)
         /\ new.cursor = st.cursor /\ new.starts_today = st.starts_today
         /\ \A j \in Ids \ {i} : new.items[j] = st.items[j]
         /\ new.items[i] = NoItem
<1>1. st \in StateRecord /\ st.items \in [Ids -> ItemRecord]
      /\ st.completed \in Seq(Ids) /\ st.dead_letters \in Seq(Ids)
  BY DEF GoodState, StateRecord
<1>2. /\ new.cursor = st.cursor /\ new.starts_today = st.starts_today
      /\ new.items = [st.items EXCEPT ![i] = NoItem]
      /\ \/ new = [st EXCEPT !.items = new.items, !.completed = Trimmed(Append(st.completed, i))]
         \/ new = [st EXCEPT !.items = new.items,
                             !.dead_letters = Trimmed(Append(st.dead_letters, i))]
  BY <1>1 DEF Finished, Unpublished, StateRecord
<1>3. NoItem \in ItemRecord /\ ItemShape(NoItem) /\ NoItem.status # "running"
  BY DispatcherAssumption DEF NoItem, ItemRecord, ItemShape
<1>4. new.items \in [Ids -> ItemRecord]
  BY <1>1, <1>2, <1>3
<1>5. new \in StateRecord
  <2>1. Trimmed(Append(st.completed, i)) \in Seq(Ids)
        /\ Trimmed(Append(st.dead_letters, i)) \in Seq(Ids)
    BY <1>1, TrimmedIsHistory
  <2> QED
    BY <1>1, <1>2, <1>4, <2>1 DEF StateRecord
<1>6. GoodState(new)
  BY <1>1, <1>2, <1>3, <1>5, ItemReplaced
<1>7. /\ \A j \in Ids \ {i} : new.items[j] = st.items[j]
      /\ new.items[i] = NoItem
  BY <1>1, <1>2
<1> QED
  BY <1>2, <1>6, <1>7

\* The items a poll makes.
LEMMA FreshItem ==
  ASSUME NEW item \in {[NoItem EXCEPT !.status = "queued"],
                       [NoItem EXCEPT !.status = "reply_pending", !.terminal_kind = "rejected"]}
  PROVE  item \in ItemRecord /\ ItemShape(item) /\ item.status # "running"
<1>1. PICK status \in {"queued", "reply_pending"}, kind \in {"completed", "rejected"} :
         /\ item = [status |-> status, attempts |-> 0, worker_pid |-> FALSE, result |-> 0,
                    terminal_kind |-> kind]
         /\ status = "queued" => kind = "completed"
  <2>1. CASE item = [NoItem EXCEPT !.status = "queued"]
    BY <2>1 DEF NoItem
  <2>2. CASE item = [NoItem EXCEPT !.status = "reply_pending", !.terminal_kind = "rejected"]
    BY <2>2 DEF NoItem
  <2> QED
    BY <2>1, <2>2
<1>2. item \in ItemRecord
  BY <1>1, DispatcherAssumption DEF ItemRecord
<1> QED
  BY <1>1, <1>2, DispatcherAssumption DEF ItemShape

\* What a poll finds becomes an item, and no other changes.
LEMMA PolledIsGood ==
  ASSUME NEW st, GoodState(st), inbox \in Seq({"request", "malformed", "other"}),
         Len(inbox) <= MaxMessages, st.cursor <= Len(inbox)
  PROVE  LET new == Polled(st) IN
         /\ GoodState(new)
         /\ st.cursor <= new.cursor /\ new.cursor <= Len(inbox)
         /\ new.starts_today = st.starts_today
         /\ \A j \in Ids :
               \/ new.items[j] = st.items[j]
               \/ /\ j > st.cursor
                  /\ \/ new.items[j] = [NoItem EXCEPT !.status = "queued"]
                     \/ new.items[j] = [NoItem EXCEPT !.status = "reply_pending",
                                                      !.terminal_kind = "rejected"]
<1> DEFINE new == Polled(st)
<1>1. st \in StateRecord /\ st.items \in [Ids -> ItemRecord] /\ st.cursor \in 0..MaxMessages
  BY DEF GoodState, StateRecord
<1>2. new.cursor = Len(inbox) /\ new.starts_today = st.starts_today
      /\ new = [st EXCEPT !.cursor = new.cursor, !.items = new.items]
  BY <1>1 DEF Polled, CursorAfter, StateRecord
<1>3. ASSUME NEW j \in Ids
      PROVE  \/ new.items[j] = st.items[j]
             \/ /\ j > st.cursor /\ j <= Len(inbox)
                /\ \/ new.items[j] = [NoItem EXCEPT !.status = "queued"]
                   \/ new.items[j] = [NoItem EXCEPT !.status = "reply_pending",
                                                    !.terminal_kind = "rejected"]
  BY <1>1, <1>3 DEF Polled, Enqueued, StateRecord, Ids
<1>4. new.items = [j \in Ids |-> new.items[j]]
  BY <1>1 DEF Polled, StateRecord
<1> HIDE DEF new
<1>5. ASSUME NEW j \in Ids
      PROVE  /\ new.items[j] \in ItemRecord /\ ItemShape(new.items[j])
             /\ j > new.cursor => new.items[j] = NoItem
             /\ new.items[j].status = "running" => new.items[j] = st.items[j]
  <2>1. CASE new.items[j] = st.items[j]
    <3>1. /\ st.items[j] \in ItemRecord /\ ItemShape(st.items[j])
          /\ j > st.cursor => st.items[j] = NoItem
      BY <1>1 DEF GoodState
    <3>2. j > new.cursor => j > st.cursor
      BY <1>1, <1>2 DEF Ids
    <3> QED
      BY <2>1, <3>1, <3>2
  <2>2. CASE /\ j <= Len(inbox)
             /\ \/ new.items[j] = [NoItem EXCEPT !.status = "queued"]
                \/ new.items[j] = [NoItem EXCEPT !.status = "reply_pending",
                                                 !.terminal_kind = "rejected"]
    <3>1. new.items[j] \in ItemRecord /\ ItemShape(new.items[j])
          /\ new.items[j].status # "running"
      BY <2>2, FreshItem
    <3>2. ~(j > new.cursor)
      BY <1>2, <2>2 DEF Ids
    <3> QED
      BY <3>1, <3>2
  <2> QED
    BY <1>3, <2>1, <2>2
<1>6. new \in StateRecord
  <2>1. new.items \in [Ids -> ItemRecord]
    BY <1>4, <1>5
  <2>2. new.cursor \in 0..MaxMessages
    BY <1>2
  <2> QED
    BY <1>1, <1>2, <2>1, <2>2 DEF StateRecord
<1>7. GoodState(new)
  <2>1. \A j \in Running(new) : j \in Running(st)
    BY <1>5 DEF Running, WithStatus
  <2> QED
    BY <1>5, <1>6, <2>1 DEF GoodState
<1> QED
  BY <1>1, <1>2, <1>3, <1>7 DEF new

\* The review of a queued item begins.
StartedState(st, i) ==
    [st EXCEPT !.items[i].status = "running", !.items[i].attempts = @ + 1,
               !.starts_today = @ + 1]

\* The item becomes the one that is running, with one attempt more.
LEMMA StartedIsGood ==
  ASSUME NEW st, GoodState(st), NEW i \in Ids, st.items[i].status = "queued",
         Running(st) = {}
  PROVE  LET new == StartedState(st, i) IN
         /\ GoodState(new)
         /\ new.cursor = st.cursor /\ new.starts_today = st.starts_today + 1
         /\ \A j \in Ids \ {i} : new.items[j] = st.items[j]
         /\ new.items[i].status = "running" /\ new.items[i].result = 0
         /\ new.items[i].attempts = st.items[i].attempts + 1
<1> DEFINE old == st.items[i]
           item == [old EXCEPT !.status = "running", !.attempts = @ + 1]
           new == StartedState(st, i)
<1>1. /\ st \in StateRecord /\ st.items \in [Ids -> ItemRecord] /\ st.starts_today \in Nat
      /\ old \in ItemRecord /\ ItemShape(old) /\ (i > st.cursor => old = NoItem)
  BY DEF GoodState, StateRecord
<1>2. /\ new.cursor = st.cursor /\ new.starts_today = st.starts_today + 1
      /\ new.items = [st.items EXCEPT ![i] = item]
      /\ new = [st EXCEPT !.items = new.items, !.starts_today = st.starts_today + 1]
  BY <1>1 DEF StartedState, StateRecord
<1>3. /\ item \in ItemRecord /\ ItemShape(item) /\ old # NoItem
      /\ item.status = "running" /\ item.result = 0 /\ item.attempts = old.attempts + 1
  <2> HIDE DEF old
  <2>1. old.attempts \in Nat /\ old.attempts < MaxAttempts /\ old.result = 0
        /\ old.terminal_kind = "completed"
    BY <1>1 DEF ItemRecord, ItemShape, old
  <2>2. item \in ItemRecord
    <3>1. old.attempts + 1 \in 0..MaxAttempts
      BY <2>1, DispatcherAssumption
    <3> QED
      BY <1>1, <3>1 DEF ItemRecord
  <2>3. ItemShape(item)
    BY <1>1, <2>1, DispatcherAssumption DEF ItemRecord, ItemShape
  <2> QED
    BY <1>1, <2>1, <2>2, <2>3 DEF old, NoItem, ItemRecord
<1> HIDE DEF new, item
<1>4. new.items \in [Ids -> ItemRecord]
  BY <1>1, <1>2, <1>3
<1>5. new \in StateRecord
  <2>1. st.starts_today + 1 \in Nat
    BY <1>1
  <2> QED
    BY <1>1, <1>2, <1>4, <2>1 DEF StateRecord
<1>6. GoodState(new)
  <2>1. new.cursor = st.cursor /\ new.items = [st.items EXCEPT ![i] = item]
    BY <1>2
  <2>2. \A j \in Running(st) : j = i
    OBVIOUS
  <2> HIDE DEF old
  <2> QED
    BY <1>1, <1>3, <1>5, <2>1, <2>2, ItemReplaced
<1>7. (\A j \in Ids \ {i} : new.items[j] = st.items[j]) /\ new.items[i] = item
  BY <1>1, <1>2
<1> QED
  BY <1>2, <1>3, <1>6, <1>7 DEF new

\* The commit of a queued item is refused.
RefusedState(st, i) ==
    [st EXCEPT !.items[i].status = "reply_pending", !.items[i].terminal_kind = "rejected"]

\* The item becomes one to be answered, with no attempt more.
LEMMA RefusedIsGood ==
  ASSUME NEW st, GoodState(st), NEW i \in Ids, st.items[i].status = "queued"
  PROVE  LET new == RefusedState(st, i) IN
         /\ GoodState(new)
         /\ new.cursor = st.cursor /\ new.starts_today = st.starts_today
         /\ \A j \in Ids \ {i} : new.items[j] = st.items[j]
         /\ new.items[i].status = "reply_pending" /\ new.items[i].result = 0
         /\ new.items[i].attempts = st.items[i].attempts
<1> DEFINE old == st.items[i]
           item == [old EXCEPT !.status = "reply_pending", !.terminal_kind = "rejected"]
           new == RefusedState(st, i)
<1>1. /\ st \in StateRecord /\ st.items \in [Ids -> ItemRecord]
      /\ old \in ItemRecord /\ ItemShape(old) /\ (i > st.cursor => old = NoItem)
  BY DEF GoodState, StateRecord
<1>2. /\ new.cursor = st.cursor /\ new.starts_today = st.starts_today
      /\ new.items = [st.items EXCEPT ![i] = item]
      /\ new = [st EXCEPT !.items = new.items]
  BY <1>1 DEF RefusedState, StateRecord
<1>3. /\ item \in ItemRecord /\ ItemShape(item) /\ old # NoItem
      /\ item.status = "reply_pending" /\ item.result = 0 /\ item.attempts = old.attempts
  <2> HIDE DEF old
  <2>1. old.result = 0
    BY <1>1 DEF ItemShape, old
  <2>2. item \in ItemRecord
    BY <1>1, <2>1 DEF ItemRecord
  <2>3. ItemShape(item)
    BY <1>1, <2>1 DEF ItemRecord, ItemShape
  <2> QED
    BY <1>1, <2>1, <2>2, <2>3 DEF old, NoItem, ItemRecord
<1> HIDE DEF new, item
<1>4. new.items \in [Ids -> ItemRecord]
  BY <1>1, <1>2, <1>3
<1>5. new \in StateRecord
  BY <1>1, <1>2, <1>4 DEF StateRecord
<1>6. GoodState(new)
  BY <1>1, <1>2, <1>3, <1>5, ItemReplaced
<1>7. (\A j \in Ids \ {i} : new.items[j] = st.items[j]) /\ new.items[i] = item
  BY <1>1, <1>2
<1> QED
  BY <1>2, <1>3, <1>6, <1>7 DEF new

\* The pid of a launcher is written down.
LEMMA PidIsGood ==
  ASSUME NEW st, GoodState(st), NEW i \in Running(st)
  PROVE  LET new == [st EXCEPT !.items[i].worker_pid = TRUE] IN
         /\ GoodState(new)
         /\ new.cursor = st.cursor /\ new.starts_today = st.starts_today
         /\ \A j \in Ids \ {i} : new.items[j] = st.items[j]
         /\ new.items[i].status = "running" /\ new.items[i].result = 0
         /\ new.items[i].attempts = st.items[i].attempts
         /\ new.items[i].worker_pid = TRUE
<1> DEFINE old == st.items[i]
           item == [old EXCEPT !.worker_pid = TRUE]
           new == [st EXCEPT !.items[i].worker_pid = TRUE]
<1>1. /\ i \in Ids /\ st \in StateRecord /\ st.items \in [Ids -> ItemRecord]
      /\ old \in ItemRecord /\ ItemShape(old) /\ ~(i > st.cursor)
      /\ old.status = "running"
  BY RunningItem
<1>2. /\ new.cursor = st.cursor /\ new.starts_today = st.starts_today
      /\ new.items = [st.items EXCEPT ![i] = item]
      /\ new = [st EXCEPT !.items = new.items]
  BY <1>1 DEF StateRecord
<1>3. /\ item \in ItemRecord /\ ItemShape(item)
      /\ item.status = "running" /\ item.result = 0 /\ item.attempts = old.attempts
      /\ item.worker_pid = TRUE
  <2> HIDE DEF old
  <2> QED
    BY <1>1 DEF ItemRecord, ItemShape
<1> HIDE DEF new, item
<1>4. new.items \in [Ids -> ItemRecord]
  BY <1>1, <1>2, <1>3
<1>5. new \in StateRecord
  BY <1>1, <1>2, <1>4 DEF StateRecord
<1>6. \A j \in Running(st) : j = i
  BY DEF GoodState
<1>7. GoodState(new)
  BY <1>1, <1>2, <1>3, <1>5, <1>6, ItemReplaced
<1>8. (\A j \in Ids \ {i} : new.items[j] = st.items[j]) /\ new.items[i] = item
  BY <1>1, <1>2
<1> QED
  BY <1>2, <1>3, <1>7, <1>8 DEF new

\* The count of today's starts is no part of a state's goodness.
LEMMA CountIsFree ==
  ASSUME NEW st, GoodState(st)
  PROVE  LET new == [st EXCEPT !.starts_today = 0] IN
         /\ GoodState(new)
         /\ new.cursor = st.cursor /\ new.starts_today = 0 /\ new.items = st.items
BY DEF GoodState, StateRecord, Running, WithStatus

\* The state of no file is good.
LEMMA EmptyIsGood == GoodState(EmptyState)
BY DispatcherAssumption
   DEF EmptyState, GoodState, StateRecord, ItemRecord, ItemShape, NoItem, Running, WithStatus

-----------------------------------------------------------------------------
(* A state remains linked to what is outside it.                           *)

\* Where the process stands matters only between a launch and its pid.
Steady == pc # "started" \/ pc' = pc

\* A step that changes nothing outside leaves a state linked.
LEMMA LinkStays ==
  ASSUME NEW st, Linked(st), UNCHANGED <<replies, late, reviewers>>, Steady
  PROVE  Linked(st)'
BY DEF Linked, Fits, Untouched, Unanswered, Says, Active, Live, reviewers, Steady

\* One item is replaced by another that fits.
LEMMA LinkReplaced ==
  ASSUME NEW st, Linked(st)', NEW i \in Ids, NEW new, new.cursor = st.cursor,
         \A j \in Ids \ {i} : new.items[j] = st.items[j],
         Fits(i, new.items[i])', i > st.cursor => new.items[i] = st.items[i]
  PROVE  Linked(new)'
BY DEF Linked

\* A container is removed, or is perhaps removed.
LEMMA LinkAfterRemoval ==
  ASSUME NEW st, GoodState(st), Linked(st), TypeOK, Steady,
         NEW i \in Ids, NEW k \in Attempts, RemovalUnconfirmed(i, k),
         UNCHANGED <<replies, late, launcher, result_file, orphans>>
  PROVE  Linked(st)'
<1>1. ASSUME NEW j \in Ids, NEW m \in Attempts
      PROVE  /\ container'[j][m] \in {container[j][m], "gone"}
             /\ container[j][m] \in {"none", "gone"} => container'[j][m] = container[j][m]
  <2>1. container \in [Ids -> [Attempts -> {"none", "live", "exited", "gone"}]]
    BY DEF TypeOK
  <2>2. CASE RemoveContainer(i, k)
    BY <2>1, <2>2 DEF RemoveContainer, Present
  <2> QED
    BY <2>2 DEF RemovalUnconfirmed
<1>2. ASSUME NEW j \in Ids, NEW m \in Attempts
      PROVE  /\ Untouched(j, m)' <=> Untouched(j, m)
             /\ Active(j, m)' => Active(j, m)
  BY <1>1 DEF Untouched, Active, Live
<1>3. ASSUME NEW j \in Ids
      PROVE  /\ Unanswered(j)' <=> Unanswered(j)
             /\ \A r : Says(j, r)' <=> Says(j, r)
  BY DEF Unanswered, Says
<1>4. ASSUME NEW j \in Ids
      PROVE  /\ Fits(j, st.items[j])'
             /\ j > st.cursor => Unanswered(j)' /\ \A m \in Attempts : Untouched(j, m)'
  <2>1. st.items[j] \in ItemRecord
    BY DEF GoodState, StateRecord
  <2>2. st.items[j].result > 0 => st.items[j].result \in Attempts
    BY <2>1, DispatcherAssumption DEF ItemRecord, Attempts
  <2> QED
    BY <1>1, <1>2, <1>3, <2>2 DEF Linked, Fits, Steady
<1> QED
  BY <1>4 DEF Linked

\* A result, and the number of a running review, name an attempt.
LEMMA ResultIsAttempt ==
  ASSUME NEW st, GoodState(st), NEW i \in Ids
  PROVE  /\ st.items[i].result > 0 => st.items[i].result \in Attempts
         /\ st.items[i].status = "running" => st.items[i].attempts \in Attempts
         /\ st.items[i].attempts \in Int
<1>1. st.items[i] \in ItemRecord /\ ItemShape(st.items[i])
  BY DEF GoodState, StateRecord
<1> QED
  BY <1>1, DispatcherAssumption DEF ItemRecord, ItemShape, Attempts

\* The running attempt gets its launcher.
LEMMA LinkAfterLaunch ==
  ASSUME NEW st, GoodState(st), Linked(st), TypeOK, pc # "started", pc' = "started",
         NEW i \in Running(st), launcher[i][st.items[i].attempts] = "none",
         launcher' = [launcher EXCEPT ![i][st.items[i].attempts] = "alive"],
         UNCHANGED <<replies, late, container, result_file, orphans>>
  PROVE  Linked(st)'
<1> DEFINE k == st.items[i].attempts
<1>1. i \in Ids /\ k \in Attempts /\ ~(i > st.cursor) /\ st.items[i].status = "running"
  BY RunningItem
<1>2. ASSUME NEW j \in Ids, NEW m \in Attempts, j # i \/ m # k
      PROVE  launcher'[j][m] = launcher[j][m]
  BY <1>1, <1>2 DEF TypeOK
<1>3. ASSUME NEW j \in Ids, NEW m \in Attempts, j # i \/ m # k
      PROVE  /\ Untouched(j, m)' <=> Untouched(j, m)
             /\ Active(j, m)' <=> Active(j, m)
  BY <1>2, <1>3 DEF Untouched, Active, Live
<1>4. ASSUME NEW j \in Ids
      PROVE  /\ Unanswered(j)' <=> Unanswered(j)
             /\ \A r : Says(j, r)' <=> Says(j, r)
  BY DEF Unanswered, Says
<1> HIDE DEF k
<1>5. ASSUME NEW j \in Ids
      PROVE  Fits(j, st.items[j])'
  <2>1. Fits(j, st.items[j]) /\ st.items[j].attempts \in Int
        /\ (st.items[j].status = "running" => st.items[j].attempts \in Attempts)
    BY ResultIsAttempt DEF Linked
  <2>2. CASE j = i
    <3>1. k = st.items[i].attempts /\ ~(k > k)
      BY <2>1, <2>2 DEF k
    <3> QED
      BY <1>1, <1>3, <1>4, <2>1, <2>2, <3>1 DEF Fits
  <2>3. CASE j # i
    BY <1>2, <1>3, <1>4, <2>1, <2>3 DEF Fits
  <2> QED
    BY <2>2, <2>3
<1> QED
  BY <1>1, <1>3, <1>4, <1>5 DEF Linked

\* A launcher is killed, or ends.
LEMMA LinkAfterKill ==
  ASSUME NEW st, GoodState(st), Linked(st), TypeOK, NEW i \in Ids, NEW k \in Attempts,
         \/ i \in Running(st) /\ k = st.items[i].attempts
         \/ launcher[i][k] = "alive" /\ Steady,
         launcher' = [launcher EXCEPT ![i][k] = "dead"],
         UNCHANGED <<replies, late, container, result_file, orphans>>
  PROVE  Linked(st)'
<1>1. ASSUME NEW j \in Ids, NEW m \in Attempts
      PROVE  launcher'[j][m] = IF j = i /\ m = k THEN "dead" ELSE launcher[j][m]
  BY DEF TypeOK
<1>2. ASSUME NEW j \in Ids, NEW m \in Attempts
      PROVE  /\ (j # i \/ m # k) => (Untouched(j, m)' <=> Untouched(j, m))
             /\ Active(j, m)' => Active(j, m)
  BY <1>1 DEF Untouched, Active, Live
<1>3. ASSUME NEW j \in Ids
      PROVE  /\ Unanswered(j)' <=> Unanswered(j)
             /\ \A r : Says(j, r)' <=> Says(j, r)
  BY DEF Unanswered, Says
<1>4. /\ st.items[i].status # "none" => ~(k > st.items[i].attempts)
      /\ ~(i > st.cursor)
  <2>1. CASE i \in Running(st) /\ k = st.items[i].attempts
    BY <2>1, RunningItem, ResultIsAttempt
  <2>2. CASE launcher[i][k] = "alive"
    BY <2>2 DEF Linked, Fits, Untouched
  <2> QED
    BY <2>1, <2>2
<1>5. ASSUME NEW j \in Ids
      PROVE  /\ st.items[j].status = "running" /\ ~st.items[j].worker_pid
                /\ launcher'[j][st.items[j].attempts] = "alive"
                => <<j, st.items[j].attempts>> \in orphans \/ pc' = "started"
  <2>1. CASE i \in Running(st) /\ k = st.items[i].attempts
    <3>1. st.items[j].status = "running" => j = i
      BY <2>1 DEF GoodState, Running, WithStatus
    <3> QED
      BY <1>1, <2>1, <3>1
  <2>2. CASE Steady
    BY <1>1, <2>2, ResultIsAttempt DEF Linked, Fits, Steady
  <2> QED
    BY <2>1, <2>2
<1>6. ASSUME NEW j \in Ids
      PROVE  Fits(j, st.items[j])'
  BY <1>2, <1>3, <1>4, <1>5, ResultIsAttempt DEF Linked, Fits
<1> QED
  BY <1>2, <1>3, <1>4, <1>6 DEF Linked

\* A container starts or ends, or its reviewer writes the result.
LEMMA LinkAfterReviewer ==
  ASSUME NEW st, GoodState(st), Linked(st), TypeOK, pc' = pc, NEW i \in Ids, NEW k \in Attempts,
         ContainerStarts(i, k) \/ ContainerEnds(i, k) \/ ReviewerWritesResult(i, k)
  PROVE  Linked(st)'
<1>1. UNCHANGED <<replies, late, launcher, orphans>>
  BY DEF ContainerStarts, ContainerEnds, ReviewerWritesResult, service
<1>2. ASSUME NEW j \in Ids, NEW m \in Attempts, j # i \/ m # k
      PROVE  container'[j][m] = container[j][m] /\ result_file'[j][m] = result_file[j][m]
  BY <1>2 DEF TypeOK, ContainerStarts, ContainerEnds, ReviewerWritesResult
<1>3. ASSUME NEW j \in Ids, NEW m \in Attempts
      PROVE  /\ Untouched(j, m) => Untouched(j, m)'
             /\ Active(j, m)' => Active(j, m)
             /\ result_file[j][m] => result_file'[j][m]
             /\ container[j][m] = "gone" => container'[j][m] = "gone"
  <2>1. CASE j = i /\ m = k
    BY <1>1, <2>1
       DEF Untouched, Active, Live, TypeOK, ContainerStarts, ContainerEnds, ReviewerWritesResult
  <2> QED
    BY <1>1, <1>2, <2>1 DEF Untouched, Active, Live
<1>4. ASSUME NEW j \in Ids
      PROVE  /\ Unanswered(j)' <=> Unanswered(j)
             /\ \A r : Says(j, r)' <=> Says(j, r)
  BY <1>1 DEF Unanswered, Says
<1>5. ASSUME NEW j \in Ids
      PROVE  Fits(j, st.items[j])'
  BY <1>1, <1>3, <1>4, ResultIsAttempt DEF Linked, Fits
<1> QED
  BY <1>3, <1>4, <1>5 DEF Linked

\* A process that dies leaves its launch to the orphans.
LEMMA LinkAfterCrash ==
  ASSUME NEW st, GoodState(st), Linked(st), pc' # "started", orphans \subseteq orphans',
         pc = "started" => \A i \in Running(st) : <<i, st.items[i].attempts>> \in orphans',
         UNCHANGED <<replies, late, launcher, container, result_file>>
  PROVE  Linked(st)'
<1>1. ASSUME NEW j \in Ids
      PROVE  Fits(j, st.items[j])'
  BY DEF Linked, Fits, Untouched, Unanswered, Says, Active, Live, Running, WithStatus
<1> QED
  BY <1>1 DEF Linked, Unanswered, Untouched

\* The launcher of the running attempt is killed, or could not be.
LEMMA LinkAfterKillAttempt ==
  ASSUME NEW st, GoodState(st), Linked(st), TypeOK, NEW i \in Ids,
         st = memory, i \in Running(st), KillLauncher(i), pc' # "started",
         UNCHANGED <<replies, late, container, result_file>>
  PROVE  Linked(st)'
<1>1. CASE launcher' = [launcher EXCEPT ![i][Attempt(i)] = "dead"] /\ orphans' = orphans
  <2>1. Attempt(i) \in Attempts /\ Attempt(i) = st.items[i].attempts
    BY RunningItem, ResultIsAttempt DEF Attempt
  <2> QED
    BY <1>1, <2>1, LinkAfterKill
<1>2. CASE launcher' = launcher /\ orphans' = orphans \cup {<<i, Attempt(i)>>}
  <2>1. \A j \in Running(st) : <<j, st.items[j].attempts>> \in orphans'
    BY <1>2 DEF GoodState, Attempt
  <2>2. orphans \subseteq orphans'
    BY <1>2
  <2> QED
    BY <1>2, <2>1, <2>2, LinkAfterCrash
<1> QED
  BY <1>1, <1>2 DEF KillLauncher

\* A reply to i is committed, or on its way.
LEMMA LinkAfterReply ==
  ASSUME NEW st, GoodState(st), Linked(st), TypeOK, Steady, NEW i \in Ids,
         ~Unanswered(i) \/ st.items[i].status \in {"result_ready", "reply_pending"},
         \A r : Says(i, r) /\ (Unanswered(i) => r = Reply(st.items[i])) => Says(i, r)',
         \A j \in Ids \ {i} : replies'[j] = replies[j] /\ late'[j] = late[j],
         UNCHANGED reviewers
  PROVE  Linked(st)'
<1>1. ASSUME NEW j \in Ids \ {i}
      PROVE  /\ Unanswered(j)' <=> Unanswered(j)
             /\ \A r : Says(j, r)' <=> Says(j, r)
  BY DEF Unanswered, Says
<1>2. ASSUME NEW j \in Ids, NEW m \in Attempts
      PROVE  /\ Untouched(j, m)' <=> Untouched(j, m)
             /\ Active(j, m)' <=> Active(j, m)
  BY DEF Untouched, Active, Live, reviewers
<1>3. ~(i > st.cursor) /\ st.items[i].status \notin {"queued", "running"}
  <2>1. CASE ~Unanswered(i)
    BY <2>1 DEF Linked, Fits
  <2>2. CASE st.items[i].status \in {"result_ready", "reply_pending"}
    BY <2>2 DEF GoodState, NoItem
  <2> QED
    BY <2>1, <2>2
<1>4. Fits(i, st.items[i])'
  BY <1>2, <1>3 DEF Linked, Fits, Steady, reviewers
<1>5. ASSUME NEW j \in Ids \ {i}
      PROVE  Fits(j, st.items[j])'
  BY <1>1, <1>2 DEF Linked, Fits, Steady, reviewers
<1> QED
  BY <1>1, <1>2, <1>3, <1>4, <1>5 DEF Linked

-----------------------------------------------------------------------------
(* Both states stay good.                                                  *)

\* What a step may rely on.
LEMMA Standing ==
  ASSUME IInv
  PROVE  /\ \A i \in Running(memory) :
               /\ i \in Ids /\ Attempt(i) \in Attempts
               /\ memory.items[i].status = "running" /\ memory.items[i].result = 0
               /\ \A j \in Running(memory) : j = i
               /\ Running(memory) = {i}
         /\ pc \in {"find", "post"} =>
               /\ Current \in Ids
               /\ memory.items[Current].status \in {"result_ready", "reply_pending"}
         /\ Ready(memory) # {} =>
               LET i == Lowest(Ready(memory))
               IN i \in Ids /\ memory.items[i].status = "queued"
<1>1. ASSUME NEW i \in Running(memory)
      PROVE  /\ i \in Ids /\ Attempt(i) \in Attempts
             /\ memory.items[i].status = "running" /\ memory.items[i].result = 0
  BY RunningItem DEF IInv, Good, Attempt, ItemShape
<1>2. ASSUME NEW i \in Running(memory)
      PROVE  (\A j \in Running(memory) : j = i) /\ Running(memory) = {i}
  BY DEF IInv, Good, GoodState
<1>3. ASSUME pc \in {"find", "post"}
      PROVE  Current \in Publishable(memory)
  <2>1. Publishable(memory) # {} /\ Publishable(memory) \subseteq Ids
    BY <1>3 DEF IInv, Stage, Publishable, WithStatus
  <2> QED
    BY <2>1, LowestIsThere DEF Current
<1>4. ASSUME Ready(memory) # {}
      PROVE  Lowest(Ready(memory)) \in Ready(memory)
  <2>1. Ready(memory) \subseteq Ids
    BY DEF Ready, WithStatus
  <2> QED
    BY <1>4, <2>1, LowestIsThere
<1> QED
  BY <1>1, <1>2, <1>3, <1>4 DEF Publishable, Ready, WithStatus

\* Steps that leave alone what is outside the process.
LEMMA GoodStays ==
  ASSUME IInv, UNCHANGED <<replies, late, reviewers>>, Steady
  PROVE  \A st : st \in {disk, memory} => GoodState(st) /\ Linked(st)'
BY LinkStays DEF IInv, Good

\* An item of a good state is replaced by one that fits.
LEMMA GoodReplaced ==
  ASSUME NEW st, GoodState(st), Linked(st)', NEW i \in Ids, NEW new, GoodState(new),
         new.cursor = st.cursor, \A j \in Ids \ {i} : new.items[j] = st.items[j],
         Fits(i, new.items[i])', i > st.cursor => new.items[i] = st.items[i]
  PROVE  Good(new)'
<1>1. Linked(new)'
  BY LinkReplaced
<1>2. GoodState(new)'
  OBVIOUS
<1> QED
  BY <1>1, <1>2 DEF Good

\* A poll: no message it takes in has been answered, or reviewed.
LEMMA PollIsGood ==
  ASSUME IInv, Poll
  PROVE  Good(disk)' /\ Good(memory)'
<1>1. disk' = disk /\ memory' = Polled(disk) /\ pc = "idle" /\ pc' = "recover"
      /\ UNCHANGED <<replies, late, reviewers>>
  BY DEF Poll, service
<1>2. PICK st : st = disk
  OBVIOUS
<1>3. PICK new : new = Polled(st)
  OBVIOUS
<1>4. GoodState(st) /\ Linked(st)'
  BY <1>1, <1>2, GoodStays DEF Steady
<1>5. st.cursor <= Len(inbox) /\ inbox \in Seq({"request", "malformed", "other"})
      /\ Len(inbox) <= MaxMessages
  BY <1>1, <1>2 DEF IInv, Stage, TypeOK, Synced
<1>6. GoodState(new) /\ st.cursor <= new.cursor
  BY <1>3, <1>4, <1>5, PolledIsGood
<1>7. ASSUME NEW j \in Ids
      PROVE  Fits(j, new.items[j])'
  <2>1. CASE new.items[j] = st.items[j]
    BY <1>4, <2>1 DEF Linked
  <2>2. CASE /\ j > st.cursor
             /\ \/ new.items[j] = [NoItem EXCEPT !.status = "queued"]
                \/ new.items[j] = [NoItem EXCEPT !.status = "reply_pending",
                                                 !.terminal_kind = "rejected"]
    <3>1. Unanswered(j)' /\ \A k \in Attempts : Untouched(j, k)'
      BY <1>4, <2>2 DEF Linked
    <3>2. new.items[j].result = 0 /\ new.items[j].status # "running"
      BY <2>2 DEF NoItem
    <3>3. \A r : Says(j, r)'
      BY <3>1 DEF Unanswered, Says
    <3> QED
      BY <3>1, <3>2, <3>3 DEF Fits, Untouched, Active, Live
  <2> QED
    BY <1>3, <1>4, <1>5, <2>1, <2>2, PolledIsGood
<1>8. Linked(new)'
  <2>1. st.cursor \in Int /\ new.cursor \in Int
    BY <1>4, <1>6 DEF GoodState, StateRecord
  <2> QED
    BY <1>4, <1>6, <1>7, <2>1 DEF Linked, Ids
<1>9. GoodState(disk)' /\ GoodState(memory)'
  BY <1>1, <1>2, <1>3, <1>4, <1>6
<1> QED
  BY <1>1, <1>2, <1>3, <1>4, <1>8, <1>9 DEF Good

\* The states stay, change places or are dropped, and remain linked.
LEMMA SameStates ==
  ASSUME IInv, disk' \in {disk, memory}, memory' \in {disk, memory},
         \A st : st \in {disk, memory} => Linked(st)'
  PROVE  Good(disk)' /\ Good(memory)'
BY DEF IInv, Good

\* The running attempt is over and its container is gone, so no trace of it is active
\* but what a dead process launched.
LEMMA AfterTheReview ==
  ASSUME IInv, NEW i \in Running(memory), pc # "started",
         RemoveContainer(i, Attempt(i)),
         UNCHANGED <<replies, late, launcher, result_file, orphans>>,
         \/ launcher[i][Attempt(i)] # "alive" \/ container[i][Attempt(i)] # "none"
         \/ <<i, Attempt(i)>> \in orphans
  PROVE  /\ \A st : st \in {disk, memory} => Linked(st)'
         /\ Unanswered(i)'
         /\ \A k \in Attempts : k > Attempt(i) => Untouched(i, k)'
         /\ \A k \in Attempts : Active(i, k)' => <<i, k>> \in orphans'
<1>1. i \in Ids /\ Attempt(i) \in Attempts /\ memory.items[i].status = "running"
  BY Standing
<1>2. \A st : st \in {disk, memory} => Linked(st)'
  <2>1. RemovalUnconfirmed(i, Attempt(i))
    BY DEF RemovalUnconfirmed
  <2> QED
    BY <1>1, <2>1, LinkAfterRemoval DEF IInv, Good, Steady
<1>3. PICK st : st = memory
  OBVIOUS
<1>4. Fits(i, st.items[i])' /\ st.items[i].status = "running"
  BY <1>1, <1>2, <1>3 DEF Linked
<1>5. PICK k \in Attempts : k = st.items[i].attempts
  BY <1>1, <1>3 DEF Attempt
<1>6. Active(i, k)' => <<i, k>> \in orphans
  <2>1. container'[i][k] = IF Present(i, k) THEN "gone" ELSE container[i][k]
    BY <1>1, <1>3, <1>5 DEF RemoveContainer, Attempt, IInv, TypeOK
  <2> QED
    BY <1>3, <1>5, <2>1 DEF Attempt, Active, Live, Present
<1>7. \A m \in Attempts : Active(i, m)' => <<i, m>> \in orphans'
  BY <1>4, <1>5, <1>6 DEF Fits
<1> QED
  BY <1>2, <1>3, <1>4, <1>7 DEF Fits, Attempt

\* The review is over and failed.
LEMMA FailureIsGood ==
  ASSUME IInv, NEW i \in Running(memory), pc # "started",
         RemoveContainer(i, Attempt(i)),
         UNCHANGED <<replies, late, launcher, result_file, orphans>>,
         \/ launcher[i][Attempt(i)] # "alive" \/ container[i][Attempt(i)] # "none"
         \/ <<i, Attempt(i)>> \in orphans
  PROVE  \A new : new = Failed(memory, i) => Good(new)'
<1>1. i \in Ids /\ Attempt(i) \in Attempts
  BY Standing
<1>2. PICK st : st = memory
  OBVIOUS
<1>3. GoodState(st) /\ Linked(st)' /\ i \in Running(st)
  BY <1>2, AfterTheReview DEF IInv, Good
<1>4. SUFFICES ASSUME NEW new, new = Failed(st, i)
               PROVE  Good(new)'
  BY <1>2
<1>5. /\ GoodState(new) /\ new.cursor = st.cursor
      /\ \A j \in Ids \ {i} : new.items[j] = st.items[j]
      /\ new.items[i].attempts = st.items[i].attempts /\ new.items[i].result = 0
      /\ \/ new.items[i].status = "queued"
         \/ new.items[i].status = "reply_pending" /\ new.items[i].terminal_kind = "dead"
  BY <1>3, <1>4, FailedIsGood
<1>6. Fits(i, new.items[i])'
  <2>1. /\ Unanswered(i)'
        /\ \A k \in Attempts : k > st.items[i].attempts => Untouched(i, k)'
        /\ \A k \in Attempts : Active(i, k)' => <<i, k>> \in orphans'
    BY <1>2, AfterTheReview DEF Attempt
  <2>2. \A r : Says(i, r)'
    BY <2>1 DEF Unanswered, Says
  <2> QED
    BY <1>5, <2>1, <2>2 DEF Fits
<1> QED
  BY <1>1, <1>3, <1>5, <1>6, RunningItem, GoodReplaced

\* The review is over and there is a result.
LEMMA SuccessIsGood ==
  ASSUME IInv, NEW i \in Running(memory), pc # "started",
         RemoveContainer(i, Attempt(i)), result_file[i][Attempt(i)],
         UNCHANGED <<replies, late, launcher, result_file, orphans>>
  PROVE  \A new : new = Reviewed(memory, i) => Good(new)'
<1>1. i \in Ids /\ Attempt(i) \in Attempts
  BY Standing
<1>2. container[i][Attempt(i)] # "none" /\ container'[i][Attempt(i)] = "gone"
  BY <1>1 DEF IInv, World, TypeOK, RemoveContainer, Present
<1>3. PICK st : st = memory
  OBVIOUS
<1>4. PICK k \in Attempts : k = st.items[i].attempts /\ k = Attempt(i)
  BY <1>1, <1>3 DEF Attempt
<1>5. GoodState(st) /\ Linked(st)' /\ i \in Running(st)
  BY <1>2, <1>3, AfterTheReview DEF IInv, Good
<1>6. SUFFICES ASSUME NEW new, new = Reviewed(st, i)
               PROVE  Good(new)'
  BY <1>3
<1>7. /\ GoodState(new) /\ new.cursor = st.cursor
      /\ \A j \in Ids \ {i} : new.items[j] = st.items[j]
      /\ new.items[i].status = "result_ready" /\ new.items[i].result = k
      /\ new.items[i].attempts = k
  BY <1>4, <1>5, <1>6, ReviewedIsGood
<1>8. Fits(i, new.items[i])'
  <2>1. /\ Unanswered(i)'
        /\ \A m \in Attempts : m > k => Untouched(i, m)'
        /\ \A m \in Attempts : Active(i, m)' => <<i, m>> \in orphans'
    BY <1>2, <1>4, AfterTheReview
  <2>2. \A r : Says(i, r)'
    BY <2>1 DEF Unanswered, Says
  <2> QED
    BY <1>2, <1>4, <1>7, <2>1, <2>2 DEF Fits
<1> QED
  BY <1>1, <1>5, <1>7, <1>8, RunningItem, GoodReplaced

\* StartReview: the next attempt is one that has left no trace.
LEMMA StartIsGood ==
  ASSUME IInv, StartReview
  PROVE  Good(disk)' /\ Good(memory)'
<1> DEFINE i == Lowest(Ready(memory))
<1>1. /\ pc = "choose" /\ pc' = "launch" /\ Running(memory) = {} /\ Ready(memory) # {}
      /\ disk' = StartedState(memory, i) /\ memory' = StartedState(memory, i)
      /\ UNCHANGED <<replies, late, reviewers>>
  BY DEF StartReview, MayReview, Save, StartedState, service
<1>2. i \in Ids /\ memory.items[i].status = "queued"
  BY <1>1, Standing
<1>3. PICK st : st = memory
  OBVIOUS
<1>4. GoodState(st) /\ Linked(st)'
  BY <1>1, <1>3, GoodStays DEF Steady
<1>5. PICK new : new = StartedState(st, i)
  OBVIOUS
<1>6. PICK k \in Ids : k = i /\ st.items[k].status = "queued"
  BY <1>2, <1>3
<1>7. /\ GoodState(new) /\ new.cursor = st.cursor
      /\ \A j \in Ids \ {k} : new.items[j] = st.items[j]
      /\ new.items[k].status = "running" /\ new.items[k].result = 0
      /\ new.items[k].attempts = st.items[k].attempts + 1
  BY <1>1, <1>3, <1>4, <1>5, <1>6, StartedIsGood
<1>8. Fits(k, new.items[k])'
  <2>1. Fits(k, st.items[k])' /\ st.items[k].attempts \in Int
    BY <1>4, ResultIsAttempt DEF Linked
  <2>2. \A m \in Attempts : m > st.items[k].attempts => Untouched(k, m)'
    BY <1>6, <2>1 DEF Fits
  <2>3. new.items[k].attempts \in Attempts
    BY <1>7, ResultIsAttempt
  <2> QED
    BY <1>6, <1>7, <2>1, <2>2, <2>3 DEF Fits, Untouched, Attempts
<1>9. ~(k > st.cursor)
  BY <1>4, <1>6 DEF GoodState, NoItem
<1>10. Good(new)'
  BY <1>4, <1>7, <1>8, <1>9, GoodReplaced
<1> QED
  BY <1>1, <1>3, <1>5, <1>10

\* RefuseCommit: nothing has been said yet, so the refusal is all that will be.
LEMMA RefusalIsGood ==
  ASSUME IInv, RefuseCommit
  PROVE  Good(disk)' /\ Good(memory)'
<1> DEFINE i == Lowest(Ready(memory))
<1>1. /\ pc = "choose" /\ pc' = "idle" /\ Ready(memory) # {}
      /\ disk' = RefusedState(memory, i) /\ memory' = RefusedState(memory, i)
      /\ UNCHANGED <<replies, late, reviewers>>
  BY DEF RefuseCommit, MayReview, Save, Exit, RefusedState, service
<1>2. i \in Ids /\ memory.items[i].status = "queued"
  BY <1>1, Standing
<1>3. PICK st : st = memory
  OBVIOUS
<1>4. GoodState(st) /\ Linked(st)'
  BY <1>1, <1>3, GoodStays DEF Steady
<1>5. PICK new : new = RefusedState(st, i)
  OBVIOUS
<1>6. PICK k \in Ids : k = i /\ st.items[k].status = "queued"
  BY <1>2, <1>3
<1>7. /\ GoodState(new) /\ new.cursor = st.cursor
      /\ \A j \in Ids \ {k} : new.items[j] = st.items[j]
      /\ new.items[k].status = "reply_pending" /\ new.items[k].result = 0
      /\ new.items[k].attempts = st.items[k].attempts
  BY <1>4, <1>5, <1>6, RefusedIsGood
<1>8. Fits(k, new.items[k])'
  <2>1. Fits(k, st.items[k])'
    BY <1>4 DEF Linked
  <2>2. \A r : Says(k, r)'
    BY <1>6, <2>1 DEF Fits, Unanswered, Says
  <2> QED
    BY <1>6, <1>7, <2>1, <2>2 DEF Fits
<1>9. ~(k > st.cursor)
  BY <1>4, <1>6 DEF GoodState, NoItem
<1>10. Good(new)'
  BY <1>4, <1>7, <1>8, <1>9, GoodReplaced
<1> QED
  BY <1>1, <1>3, <1>5, <1>10

\* The state file is not written.
LEMMA DiskStays ==
  ASSUME IInv, disk' = disk, \A st : st \in {disk, memory} => Linked(st)'
  PROVE  Good(disk)'
BY DEF IInv, Good

\* Prime: nothing in the thread has been answered or reviewed.
LEMMA PrimingIsGood ==
  ASSUME IInv, Prime
  PROVE  Good(disk)' /\ Good(memory)'
<1>1. /\ disk' = [EmptyState EXCEPT !.cursor = Len(inbox)] /\ memory' = disk'
      /\ disk = EmptyState /\ pc' = pc /\ pc = "idle"
      /\ UNCHANGED <<replies, late, reviewers>>
  BY DEF Prime, Save, IInv, Stage, service
<1>2. PICK st : st = EmptyState
  OBVIOUS
<1>3. GoodState(st) /\ Linked(st)'
  BY <1>1, <1>2, GoodStays DEF Steady
<1>4. PICK new : new = [st EXCEPT !.cursor = Len(inbox)]
  OBVIOUS
<1>5. /\ st \in StateRecord /\ st.cursor = 0 /\ new.items = st.items
      /\ new.cursor = Len(inbox) /\ Len(inbox) \in 0..MaxMessages
      /\ \A j \in Ids : st.items[j] = NoItem
  BY <1>2, <1>3, <1>4 DEF EmptyState, GoodState, IInv, TypeOK, StateRecord
<1>6. GoodState(new)
  <2>1. new \in StateRecord
    BY <1>4, <1>5 DEF StateRecord
  <2> QED
    BY <1>3, <1>5, <2>1 DEF GoodState, Running, WithStatus
<1>7. Linked(new)'
  BY <1>3, <1>5 DEF Linked, Ids
<1> QED
  BY <1>1, <1>2, <1>4, <1>6, <1>7 DEF Good

\* OnStarted: from here on the launcher is found by its pid.
LEMMA PidWrittenIsGood ==
  ASSUME IInv, NEW i \in Ids, OnStarted(i)
  PROVE  Good(disk)' /\ Good(memory)'
<1>1. /\ pc = "started" /\ pc' = "wait" /\ i \in Running(memory)
      /\ memory' = [memory EXCEPT !.items[i].worker_pid = TRUE] /\ disk' = memory'
      /\ UNCHANGED <<replies, late, reviewers>>
  BY DEF OnStarted, Save, service
<1>2. PICK st : st = memory
  OBVIOUS
<1>3. PICK new : new = [st EXCEPT !.items[i].worker_pid = TRUE]
  OBVIOUS
<1>4. GoodState(st) /\ Linked(st) /\ i \in Running(st)
  BY <1>1, <1>2 DEF IInv, Good
<1>5. /\ GoodState(new) /\ new.cursor = st.cursor
      /\ \A j \in Ids \ {i} : new.items[j] = st.items[j]
      /\ new.items[i].status = "running" /\ new.items[i].result = 0
      /\ new.items[i].attempts = st.items[i].attempts
      /\ new.items[i].worker_pid = TRUE
  BY <1>3, <1>4, PidIsGood
<1>6. ASSUME NEW j \in Ids
      PROVE  Fits(j, new.items[j])'
  <2>1. Fits(j, st.items[j])
    BY <1>4 DEF Linked
  <2>2. CASE j = i
    BY <1>1, <1>4, <1>5, <2>1, <2>2, RunningItem
       DEF Fits, Untouched, Unanswered, Says, Active, Live, reviewers
  <2>3. CASE j # i
    <3>1. st.items[j].status # "running"
      BY <1>4, <2>3 DEF GoodState, Running, WithStatus
    <3> QED
      BY <1>1, <1>5, <2>1, <2>3, <3>1
         DEF Fits, Untouched, Unanswered, Says, Active, Live, reviewers
  <2> QED
    BY <2>2, <2>3
<1>7. Linked(new)'
  BY <1>1, <1>4, <1>5, <1>6 DEF Linked, Unanswered, Untouched, reviewers
<1> QED
  BY <1>1, <1>2, <1>3, <1>5, <1>7 DEF Good

\* OnStartedFails: the launcher is dead, or an orphan, so its pid need not be known.
LEMMA PidLostIsGood ==
  ASSUME IInv, NEW i \in Ids, OnStartedFails(i)
  PROVE  Good(disk)' /\ Good(memory)'
<1>1. /\ pc = "started" /\ i \in Running(memory) /\ disk = memory
      /\ memory' = [memory EXCEPT !.items[i].worker_pid = TRUE] /\ disk' = disk
      /\ KillLauncher(i) /\ pc' # "started"
      /\ UNCHANGED <<replies, late, container, result_file>>
  BY DEF OnStartedFails, IInv, Stage, Synced, service
<1>2. \A st : st \in {disk, memory} => Linked(st)'
  BY <1>1, Standing, LinkAfterKillAttempt DEF IInv, Good
<1>3. PICK st : st = memory
  OBVIOUS
<1>4. PICK new : new = [st EXCEPT !.items[i].worker_pid = TRUE]
  OBVIOUS
<1>5. GoodState(st) /\ Linked(st)' /\ i \in Running(st)
  BY <1>1, <1>2, <1>3 DEF IInv, Good
<1>6. /\ GoodState(new) /\ new.cursor = st.cursor
      /\ \A j \in Ids \ {i} : new.items[j] = st.items[j]
      /\ new.items[i].status = "running" /\ new.items[i].result = 0
      /\ new.items[i].attempts = st.items[i].attempts
      /\ new.items[i].worker_pid = TRUE
  BY <1>4, <1>5, PidIsGood
<1>7. Fits(i, new.items[i])'
  <2>1. Fits(i, st.items[i])' /\ st.items[i].status = "running"
    BY <1>5, RunningItem DEF Linked
  <2> QED
    BY <1>6, <2>1 DEF Fits
<1>8. Good(new)'
  BY <1>5, <1>6, <1>7, RunningItem, GoodReplaced
<1> QED
  BY <1>1, <1>2, <1>3, <1>4, <1>8, DiskStays

\* The current item is filed.
LEMMA FilingIsGood ==
  ASSUME IInv, pc \in {"find", "post"}, \A st : st \in {disk, memory} => Linked(st)'
  PROVE  \A new : new \in {Finished(memory, Current), Unpublished(memory, Current)}
                  => Good(new)'
<1>1. PICK st : st = memory
  OBVIOUS
<1>2. PICK i \in Ids : i = Current
  BY Standing
<1>3. GoodState(st) /\ Linked(st)' /\ st.items[i].status \in {"result_ready", "reply_pending"}
  BY <1>1, <1>2, Standing DEF IInv, Good
<1>4. SUFFICES ASSUME NEW new \in {Finished(st, i), Unpublished(st, i)}
               PROVE  Good(new)'
  BY <1>1, <1>2
<1>5. /\ GoodState(new) /\ new.cursor = st.cursor
      /\ \A j \in Ids \ {i} : new.items[j] = st.items[j]
      /\ new.items[i] = NoItem
  BY <1>3, FiledIsGood
<1>6. Fits(i, new.items[i])'
  <2>1. Fits(i, st.items[i])'
    BY <1>3 DEF Linked
  <2> QED
    BY <1>3, <1>5, <2>1 DEF Fits, NoItem
<1>7. i > st.cursor => new.items[i] = st.items[i]
  BY <1>3, <1>5 DEF GoodState
<1> QED
  BY <1>3, <1>5, <1>6, <1>7, GoodReplaced

\* One more reply to a request is there, or on its way, and says what the others say.
LEMMA OneMoreReply ==
  ASSUME TypeOK, NEW i \in Ids, NEW says \in Refusal..MaxAttempts, NEW isLate \in BOOLEAN,
         \/ Committed(i, [says |-> says, late |-> isLate]) /\ late' = late
         \/ late' = [late EXCEPT ![i] = Append(late[i], says)] /\ replies' = replies
         \/ /\ Committed(i, [says |-> says, late |-> isLate])
            /\ late' = [late EXCEPT ![i] = Tail(late[i])] /\ late[i] # <<>>
  PROVE  /\ Says(i, says) => Says(i, says)'
         /\ \A j \in Ids \ {i} : replies'[j] = replies[j] /\ late'[j] = late[j]
<1>1. /\ replies \in [Ids -> Seq([says : Refusal..MaxAttempts, late : BOOLEAN])]
      /\ late \in [Ids -> Seq(Refusal..MaxAttempts)]
  BY DEF TypeOK
<1>2. \A j \in Ids \ {i} : replies'[j] = replies[j] /\ late'[j] = late[j]
  BY <1>1 DEF Committed
<1>3. ASSUME Says(i, says)
      PROVE  Says(i, says)'
  <2> DEFINE rep == replies[i]
             lt == late[i]
             msg == [says |-> says, late |-> isLate]
  <2>1. rep \in Seq([says : Refusal..MaxAttempts, late : BOOLEAN]) /\ lt \in Seq(Refusal..MaxAttempts)
        /\ msg \in [says : Refusal..MaxAttempts, late : BOOLEAN] /\ msg.says = says
    BY <1>1
  <2>2. /\ \A n \in 1..Len(rep) : rep[n].says = says
        /\ \A n \in 1..Len(lt) : lt[n] = says
    BY <1>3 DEF Says
  <2>3. /\ replies'[i] \in {rep, Append(rep, msg)}
        /\ \/ late'[i] \in {lt, Append(lt, says)}
           \/ lt # <<>> /\ late'[i] = Tail(lt)
    BY <1>1 DEF Committed
  <2> HIDE DEF rep, lt, msg
  <2>4. \A n \in 1..Len(Append(rep, msg)) : Append(rep, msg)[n].says = says
    BY <2>1, <2>2
  <2>5. \A n \in 1..Len(Append(lt, says)) : Append(lt, says)[n] = says
    BY <2>1, <2>2
  <2>6. lt # <<>> => \A n \in 1..Len(Tail(lt)) : Tail(lt)[n] = says
    BY <2>1, <2>2
  <2> QED
    BY <2>2, <2>3, <2>4, <2>5, <2>6 DEF Says
<1> QED
  BY <1>2, <1>3

\* An answered request is answered in one way.
LEMMA SaidOnce ==
  ASSUME TypeOK, NEW i \in Ids, ~Unanswered(i), NEW q, NEW r, Says(i, q), Says(i, r)
  PROVE  q = r
<1>1. /\ replies[i] \in Seq([says : Refusal..MaxAttempts, late : BOOLEAN])
      /\ late[i] \in Seq(Refusal..MaxAttempts)
  BY DEF TypeOK
<1>2. 1 \in 1..Len(replies[i]) \/ 1 \in 1..Len(late[i])
  BY <1>1 DEF Unanswered
<1> QED
  BY <1>2 DEF Says

\* What a reply to the current item says.
LEMMA CurrentReply ==
  ASSUME IInv, pc = "post"
  PROVE  /\ Current \in Ids /\ Reply(memory.items[Current]) \in Refusal..MaxAttempts
         /\ Says(Current, Reply(memory.items[Current]))
<1>1. Current \in Ids /\ memory.items[Current].status \in {"result_ready", "reply_pending"}
  BY Standing
<1>2. Fits(Current, memory.items[Current])
  BY <1>1 DEF IInv, Good, Linked
<1>3. memory.items[Current] \in ItemRecord
  BY <1>1 DEF IInv, TypeOK, StateRecord
<1>4. Reply(memory.items[Current]) \in Refusal..MaxAttempts
  BY <1>3, DispatcherAssumption DEF ItemRecord, Reply, Refusal
<1> QED
  BY <1>1, <1>2, <1>4 DEF Fits

\* A POST says what the replies that are there say.
LEMMA PostIsGood ==
  ASSUME IInv, pc = "post", pc' # "started", UNCHANGED reviewers,
         LET says == Reply(memory.items[Current]) IN
         \/ Committed(Current, [says |-> says, late |-> FALSE]) /\ late' = late
         \/ late' = [late EXCEPT ![Current] = Append(@, says)] /\ replies' = replies
  PROVE  \A st : st \in {disk, memory} => Linked(st)'
<1>1. PICK i \in Ids, says \in Refusal..MaxAttempts :
         i = Current /\ says = Reply(memory.items[Current]) /\ Says(i, says)
  BY CurrentReply
<1>2. memory = disk /\ TypeOK /\ GoodState(memory) /\ Linked(memory)
  BY DEF IInv, Stage, Synced, Good
<1>3. PICK st : st = memory
  OBVIOUS
<1>4. /\ GoodState(st) /\ Linked(st) /\ says = Reply(st.items[i])
      /\ st.items[i].status \in {"result_ready", "reply_pending"}
  BY <1>1, <1>2, <1>3, Standing
<1>5. /\ Says(i, says)'
      /\ \A j \in Ids \ {i} : replies'[j] = replies[j] /\ late'[j] = late[j]
  <2>1. \/ Committed(i, [says |-> says, late |-> FALSE]) /\ late' = late
        \/ late' = [late EXCEPT ![i] = Append(late[i], says)] /\ replies' = replies
    BY <1>1
  <2> QED
    BY <1>1, <1>2, <2>1, OneMoreReply
<1>6. \A r : Says(i, r) /\ (Unanswered(i) => r = Reply(st.items[i])) => Says(i, r)'
  BY <1>1, <1>2, <1>4, <1>5, SaidOnce
<1>7. Linked(st)'
  BY <1>2, <1>4, <1>5, <1>6, LinkAfterReply DEF Steady
<1> QED
  BY <1>2, <1>3, <1>7

\* A POST that outlived its client says what the others say.
LEMMA LateCommitIsGood ==
  ASSUME IInv, NEW i \in Ids, LatePostCommits(i)
  PROVE  \A st : st \in {disk, memory} => Linked(st)'
<1>1. /\ late[i] # <<>> /\ pc' = pc /\ UNCHANGED reviewers
      /\ Committed(i, [says |-> Head(late[i]), late |-> TRUE])
      /\ late' = [late EXCEPT ![i] = Tail(late[i])]
  BY DEF LatePostCommits
<1>2. PICK says \in Refusal..MaxAttempts : says = Head(late[i])
  <2>1. late[i] \in Seq(Refusal..MaxAttempts)
    BY DEF IInv, TypeOK
  <2>2. Head(late[i]) \in Refusal..MaxAttempts
    BY <1>1, <2>1, HeadTailProperties
  <2> QED
    BY <2>2
<1>3. TypeOK /\ ~Unanswered(i)
  BY <1>1 DEF IInv, Unanswered
<1>4. ASSUME NEW r, Says(i, r)
      PROVE  r = says
  <2>1. Head(late[i]) = late[i][1] /\ 1 \in 1..Len(late[i])
    BY <1>1 DEF IInv, TypeOK
  <2> QED
    BY <1>2, <1>4, <2>1 DEF Says
<1>5. /\ Says(i, says) => Says(i, says)'
      /\ \A j \in Ids \ {i} : replies'[j] = replies[j] /\ late'[j] = late[j]
  BY <1>1, <1>2, <1>3, OneMoreReply
<1>6. \A r : Says(i, r) => Says(i, r)'
  BY <1>4, <1>5
<1>7. SUFFICES ASSUME NEW st, st \in {disk, memory}
               PROVE  Linked(st)'
  OBVIOUS
<1>8. GoodState(st) /\ Linked(st)
  BY <1>7 DEF IInv, Good
<1> QED
  BY <1>1, <1>3, <1>5, <1>6, <1>8, LinkAfterReply DEF Steady

\* A step that keeps the states, swaps or drops them, and touches nothing outside.
LEMMA StatesAreKept ==
  ASSUME IInv, disk' \in {disk, memory}, memory' \in {disk, memory},
         UNCHANGED <<replies, late, reviewers>>, Steady
  PROVE  Good(disk)' /\ Good(memory)'
BY GoodStays, SameStates

\* A new day changes the counts only.
LEMMA DayIsGood ==
  ASSUME IInv, DayBegins
  PROVE  Good(disk)' /\ Good(memory)'
<1>1. /\ disk' = [disk EXCEPT !.starts_today = 0]
      /\ memory' = [memory EXCEPT !.starts_today = 0]
      /\ pc' = pc /\ UNCHANGED <<replies, late, reviewers>>
  BY DEF DayBegins, service
<1>2. ASSUME NEW st, st \in {disk, memory}
      PROVE  \A new : new = [st EXCEPT !.starts_today = 0] => Good(new)'
  <2>1. GoodState(st) /\ Linked(st)'
    BY <1>1, <1>2, GoodStays DEF Steady
  <2>2. SUFFICES ASSUME NEW new, new = [st EXCEPT !.starts_today = 0]
                 PROVE  Good(new)'
    OBVIOUS
  <2>3. GoodState(new) /\ new.cursor = st.cursor /\ new.items = st.items
    BY <2>1, <2>2, CountIsFree
  <2>4. Linked(new)'
    BY <2>1, <2>3 DEF Linked
  <2> QED
    BY <2>3, <2>4 DEF Good
<1>3. PICK new : new = [disk EXCEPT !.starts_today = 0]
  OBVIOUS
<1>4. PICK other : other = [memory EXCEPT !.starts_today = 0]
  OBVIOUS
<1>5. Good(new)' /\ Good(other)'
  BY <1>2, <1>3, <1>4
<1> QED
  BY <1>1, <1>3, <1>4, <1>5

\* Crash: what is lost is in the state file, or an orphan.
LEMMA CrashIsGood ==
  ASSUME IInv, Crash
  PROVE  Good(disk)' /\ Good(memory)'
<1>1. /\ disk' = disk /\ memory' = disk /\ pc' = "idle" /\ orphans \subseteq orphans'
      /\ UNCHANGED <<replies, late, launcher, container, result_file>>
      /\ pc = "started" =>
            memory = disk /\ orphans' = orphans \cup {<<i, Attempt(i)>> : i \in Running(memory)}
  BY DEF Crash, Exit, IInv, Stage, Synced, service
<1>2. ASSUME NEW st, st \in {disk, memory}
      PROVE  Linked(st)'
  <2>1. pc = "started" => \A i \in Running(st) : <<i, st.items[i].attempts>> \in orphans'
    BY <1>1, <1>2 DEF Attempt
  <2>2. GoodState(st) /\ Linked(st)
    BY <1>2 DEF IInv, Good
  <2> QED
    BY <1>1, <2>1, <2>2, LinkAfterCrash
<1> QED
  BY <1>1, <1>2, SameStates

\* Launch: the attempt was saved before, and has no launcher yet.
LEMMA LaunchIsGood ==
  ASSUME IInv, NEW i \in Ids, Launch(i)
  PROVE  Good(disk)' /\ Good(memory)'
<1>1. /\ pc = "launch" /\ pc' = "started" /\ i \in Running(memory) /\ memory = disk
      /\ launcher[i][memory.items[i].attempts] = "none"
      /\ launcher' = [launcher EXCEPT ![i][memory.items[i].attempts] = "alive"]
      /\ disk' = disk /\ memory' = memory
      /\ UNCHANGED <<replies, late, container, result_file, orphans>>
  BY DEF Launch, IInv, Stage, Synced, Attempt, service
<1>2. \A st : st \in {disk, memory} => Linked(st)'
  BY <1>1, LinkAfterLaunch DEF IInv, Good
<1> QED
  BY <1>1, <1>2, SameStates

\* The end of a launcher does no harm, nor does one that could not be killed.
LEMMA KillIsGood ==
  ASSUME IInv, NEW i \in Ids, NEW k \in Attempts, WaitTimesOut(i) \/ LauncherEnds(i, k)
  PROVE  Good(disk)' /\ Good(memory)'
<1>1. CASE WaitTimesOut(i)
  <2>1. /\ disk' = disk /\ memory' = memory /\ disk = memory /\ i \in Running(memory)
        /\ KillLauncher(i) /\ pc' # "started"
        /\ UNCHANGED <<replies, late, container, result_file>>
    BY <1>1 DEF WaitTimesOut, IInv, Stage, Synced, service
  <2>2. \A st : st \in {disk, memory} => Linked(st)'
    BY <2>1, LinkAfterKillAttempt DEF IInv, Good
  <2> QED
    BY <2>1, <2>2, SameStates
<1>2. CASE LauncherEnds(i, k)
  <2>1. /\ disk' = disk /\ memory' = memory
        /\ launcher[i][k] = "alive" /\ launcher' = [launcher EXCEPT ![i][k] = "dead"]
        /\ UNCHANGED <<replies, late, container, result_file, orphans>> /\ Steady
    BY <1>2 DEF LauncherEnds, service, Steady
  <2>2. \A st : st \in {disk, memory} => Linked(st)'
    BY <2>1, LinkAfterKill DEF IInv, Good
  <2> QED
    BY <2>1, <2>2, SameStates
<1> QED
  BY <1>1, <1>2

\* The container runs its course.
LEMMA ReviewerIsGood ==
  ASSUME IInv, NEW i \in Ids, NEW k \in Attempts,
         ContainerStarts(i, k) \/ ContainerEnds(i, k) \/ ReviewerWritesResult(i, k)
  PROVE  Good(disk)' /\ Good(memory)'
<1>1. disk' = disk /\ memory' = memory /\ pc' = pc
  BY DEF ContainerStarts, ContainerEnds, ReviewerWritesResult
<1>2. \A st : st \in {disk, memory} => Linked(st)'
  BY <1>1, LinkAfterReviewer DEF IInv, Good
<1> QED
  BY <1>1, <1>2, SameStates

\* A removal that fails, or cannot be confirmed, leaves the states as they are.
LEMMA RemovalIsGood ==
  ASSUME IInv, NEW i \in Running(memory), pc # "started", RemovalUnconfirmed(i, Attempt(i)),
         disk' \in {disk, memory}, memory' \in {disk, memory},
         UNCHANGED <<replies, late, launcher, result_file, orphans>>
  PROVE  Good(disk)' /\ Good(memory)'
<1>1. i \in Ids /\ Attempt(i) \in Attempts
  BY Standing
<1>2. \A st : st \in {disk, memory} => Linked(st)'
  BY <1>1, LinkAfterRemoval DEF IInv, Good, Steady
<1> QED
  BY <1>2, SameStates

\* The item of a review that is over is done with.
LEMMA RecoveryIsGood ==
  ASSUME IInv, NEW i \in Ids, RecoverByForce(i) \/ RecoverEnded(i)
  PROVE  Good(disk)' /\ Good(memory)'
<1>1. /\ pc = "recover" /\ i \in Running(memory) /\ RemoveContainer(i, Attempt(i))
      /\ disk' = disk /\ UNCHANGED <<replies, late, launcher, result_file, orphans>>
      /\ \/ memory' = Failed(memory, i)
         \/ memory' = Reviewed(memory, i) /\ result_file[i][Attempt(i)]
  BY DEF RecoverByForce, RecoverEnded, service
<1>2. \/ launcher[i][Attempt(i)] # "alive" \/ container[i][Attempt(i)] # "none"
      \/ <<i, Attempt(i)>> \in orphans
  <2>1. CASE RecoverByForce(i)
    BY <2>1 DEF RecoverByForce, Live
  <2>2. CASE RecoverEnded(i)
    <3>1. Fits(i, memory.items[i]) /\ memory.items[i].status = "running"
      BY <1>1, Standing DEF IInv, Good, Linked
    <3> QED
      BY <1>1, <2>2, <3>1 DEF RecoverEnded, LauncherSeen, Fits, Attempt
  <2> QED
    BY <2>1, <2>2
<1>3. (\A st : st \in {disk, memory} => Linked(st)')
  BY <1>1, <1>2, AfterTheReview
<1>4. Good(disk)'
  BY <1>1, <1>3, DiskStays
<1>5. Good(memory)'
  <2>1. CASE memory' = Failed(memory, i)
    <3>1. PICK new : new = Failed(memory, i)
      OBVIOUS
    <3>2. Good(new)'
      BY <1>1, <1>2, <3>1, FailureIsGood
    <3> QED
      BY <2>1, <3>1, <3>2
  <2>2. CASE memory' = Reviewed(memory, i) /\ result_file[i][Attempt(i)]
    <3>1. PICK new : new = Reviewed(memory, i)
      OBVIOUS
    <3>2. Good(new)'
      BY <1>1, <2>2, <3>1, SuccessIsGood
    <3> QED
      BY <2>2, <3>1, <3>2
  <2> QED
    BY <1>1, <2>1, <2>2
<1> QED
  BY <1>4, <1>5

\* The process sees its review to the end.
LEMMA ReviewEndIsGood ==
  ASSUME IInv, NEW i \in Ids, ReviewSucceeds(i) \/ ReviewFails(i)
  PROVE  Good(disk)' /\ Good(memory)'
<1>1. /\ pc \in {"cleanup", "cleanup_failed"} /\ i \in Running(memory)
      /\ RemoveContainer(i, Attempt(i)) /\ disk' = memory'
      /\ UNCHANGED <<replies, late, launcher, result_file, orphans>>
      /\ \/ memory' = Failed(memory, i)
         \/ memory' = Reviewed(memory, i) /\ result_file[i][Attempt(i)]
  BY DEF ReviewSucceeds, ReviewFails, Save, service
<1>2. launcher[i][Attempt(i)] # "alive" \/ <<i, Attempt(i)>> \in orphans
  BY <1>1 DEF IInv, Stage
<1>3. PICK new : new = memory'
  OBVIOUS
<1>4. Good(new)'
  BY <1>1, <1>2, <1>3, FailureIsGood, SuccessIsGood
<1> QED
  BY <1>1, <1>3, <1>4

\* An answer is looked for, posted or given up.
LEMMA PublicationIsGood ==
  ASSUME IInv,
         \/ FindReply \/ PostAnswered \/ PostUnanswered \/ PostOutlivesClient
         \/ PostRejected
  PROVE  Good(disk)' /\ Good(memory)'
<1>1. /\ pc \in {"find", "post"} /\ pc' # "started" /\ disk' = disk /\ memory = disk
      /\ UNCHANGED reviewers
      /\ memory' \in {memory, Finished(memory, Current), Unpublished(memory, Current)}
  BY DEF FindReply, PostAnswered, PostUnanswered, PostOutlivesClient, PostRejected, Exit,
         IInv, Stage, Synced
<1>2. \A st : st \in {disk, memory} => Linked(st)'
  <2>1. CASE UNCHANGED <<replies, late>>
    BY <1>1, <2>1, GoodStays DEF Steady
  <2>2. CASE PostAnswered \/ PostUnanswered \/ PostOutlivesClient
    <3>1. pc = "post"
      BY <2>2 DEF PostAnswered, PostUnanswered, PostOutlivesClient
    <3>2. LET says == Reply(memory.items[Current]) IN
          \/ Committed(Current, [says |-> says, late |-> FALSE]) /\ late' = late
          \/ late' = [late EXCEPT ![Current] = Append(@, says)] /\ replies' = replies
      BY <2>2 DEF PostAnswered, PostUnanswered, PostOutlivesClient
    <3> QED
      BY <1>1, <3>1, <3>2, PostIsGood
  <2> QED
    BY <2>1, <2>2 DEF FindReply, PostRejected, service
<1>3. Good(disk)'
  BY <1>1, <1>2, DiskStays
<1>4. Good(memory)'
  <2>1. CASE memory' = memory
    BY <1>1, <1>2, <2>1, SameStates
  <2>2. CASE memory' \in {Finished(memory, Current), Unpublished(memory, Current)}
    <3>1. PICK new : new = memory'
      OBVIOUS
    <3>2. Good(new)'
      BY <1>1, <1>2, <2>2, <3>1, FilingIsGood
    <3> QED
      BY <3>1, <3>2
  <2> QED
    BY <1>1, <2>1, <2>2
<1> QED
  BY <1>3, <1>4

\* Every step keeps both states good.
LEMMA GoodIsPreserved ==
  ASSUME IInv, Next
  PROVE  Good(disk)' /\ Good(memory)'
<1>1. CASE Prime \/ Poll \/ RefuseCommit \/ StartReview
  BY <1>1, PrimingIsGood, PollIsGood, RefusalIsGood, StartIsGood
<1>2. CASE RecoverNothing
  <2>1. CASE container' = container
    BY <1>2, <2>1, StatesAreKept DEF RecoverNothing, Steady, service, reviewers
  <2>2. CASE \E i \in Running(memory) : RemovalUnconfirmed(i, Attempt(i))
    BY <1>2, <2>2, RemovalIsGood DEF RecoverNothing, service
  <2> QED
    BY <1>2, <2>1, <2>2 DEF RecoverNothing
<1>3. CASE SaveRecovered \/ Quiet \/ NotLaunched
  BY <1>3, StatesAreKept DEF SaveRecovered, Quiet, NotLaunched, Save, Exit, Steady, service
<1>4. ASSUME NEW i \in Ids,
             \/ RecoverByForce(i) \/ RecoverEnded(i)
             \/ Launch(i) \/ OnStarted(i) \/ OnStartedFails(i)
             \/ LauncherExited(i) \/ WaitTimesOut(i)
             \/ ReviewSucceeds(i) \/ ReviewFails(i) \/ CleanupFails(i)
      PROVE  Good(disk)' /\ Good(memory)'
  <2>1. CASE LauncherExited(i)
    BY <2>1, StatesAreKept DEF LauncherExited, Steady, service
  <2>2. CASE WaitTimesOut(i)
    <3>1. Attempt(i) \in Attempts
      BY <2>2, Standing DEF WaitTimesOut
    <3> QED
      BY <2>2, <3>1, KillIsGood
  <2>3. CASE CleanupFails(i)
    BY <2>3, RemovalIsGood DEF CleanupFails, Save, service
  <2> QED
    BY <1>4, <2>1, <2>2, <2>3, RecoveryIsGood, LaunchIsGood, PidWrittenIsGood,
       PidLostIsGood, ReviewEndIsGood
<1>5. CASE PublicationStep
  <2>1. CASE BeginPublication \/ ReplyCannotBeBuilt \/ PublicationFails \/ FinishPublication
    BY <2>1, StatesAreKept
       DEF BeginPublication,
           ReplyCannotBeBuilt, PublicationFails, FinishPublication, Save, Exit, Steady, service
  <2> QED
    BY <1>5, <2>1, PublicationIsGood DEF PublicationStep
<1>6. CASE Outside
  <2>1. CASE Arrive
    BY <2>1, StatesAreKept DEF Arrive, Steady
  <2>2. ASSUME NEW i \in Ids, LatePostCommits(i) \/ RetryDue(i) \/ DeadlinePasses(i)
        PROVE  Good(disk)' /\ Good(memory)'
    <3>1. CASE LatePostCommits(i)
      BY <3>1, LateCommitIsGood, SameStates DEF LatePostCommits
    <3>2. CASE RetryDue(i) \/ DeadlinePasses(i)
      BY <3>2, StatesAreKept DEF RetryDue, DeadlinePasses, Steady, service
    <3> QED
      BY <2>2, <3>1, <3>2
  <2>3. ASSUME NEW i \in Ids, NEW k \in Attempts,
               \/ ContainerStarts(i, k) \/ ReviewerWritesResult(i, k) \/ ContainerEnds(i, k)
               \/ LauncherEnds(i, k)
        PROVE  Good(disk)' /\ Good(memory)'
    BY <2>3, ReviewerIsGood, KillIsGood
  <2> QED
    BY <1>6, <2>1, <2>2, <2>3, CrashIsGood, DayIsGood DEF Outside
<1> QED
  BY <1>1, <1>2, <1>3, <1>4, <1>5, <1>6 DEF Next, CycleStep, ReviewStep

-----------------------------------------------------------------------------
(* The rest of the invariant.                                              *)

\* The type invariant of everything but the two states.
Surroundings ==
    /\ inbox \in Seq({"request", "malformed", "other"}) /\ Len(inbox) <= MaxMessages
    /\ replies \in [Ids -> Seq([says : Refusal..MaxAttempts, late : BOOLEAN])]
    /\ late \in [Ids -> Seq(Refusal..MaxAttempts)]
    /\ unpostable \subseteq Ids
    /\ pc \in {"idle", "recover", "save", "choose", "launch", "started", "wait", "cleanup",
               "cleanup_failed", "find", "post", "finish"}
    /\ skipped \in NoStateFile..MaxMessages
    /\ launcher \in [Ids -> [Attempts -> {"none", "alive", "dead"}]]
    /\ container \in [Ids -> [Attempts -> {"none", "live", "exited", "gone"}]]
    /\ result_file \in [Ids -> [Attempts -> BOOLEAN]]
    /\ oversized \subseteq Ids \X Attempts /\ orphans \subseteq Ids \X Attempts
    /\ waiting \subseteq Ids /\ overdue \subseteq Ids
    /\ launches \in Nat \cup {-1}

\* A function keeps its range when one value is replaced within it.
LEMMA Updated ==
  ASSUME NEW S, NEW f \in [Ids -> S], NEW i \in Ids, NEW x \in S
  PROVE  [f EXCEPT ![i] = x] \in [Ids -> S]
OBVIOUS

\* A sequence over a set stays one.
LEMMA Appended ==
  ASSUME NEW S, NEW s \in Seq(S), NEW x \in S
  PROVE  Append(s, x) \in Seq(S)
OBVIOUS

\* The same of a function of two arguments.
LEMMA PairUpdated ==
  ASSUME NEW S, NEW f \in [Ids -> [Attempts -> S]], NEW i \in Ids, NEW k \in Attempts,
         NEW x \in S
  PROVE  [f EXCEPT ![i][k] = x] \in [Ids -> [Attempts -> S]]
<1>1. [f[i] EXCEPT ![k] = x] \in [Attempts -> S]
  OBVIOUS
<1> QED
  BY <1>1

\* One more reply, posted in time or late, is a reply.
LEMMA RepliesAreReplies ==
  ASSUME IInv, PostAnswered \/ PostUnanswered \/ PostOutlivesClient
               \/ \E i \in Ids : LatePostCommits(i)
  PROVE  /\ replies' \in [Ids -> Seq([says : Refusal..MaxAttempts, late : BOOLEAN])]
         /\ late' \in [Ids -> Seq(Refusal..MaxAttempts)]
<1>1. /\ replies \in [Ids -> Seq([says : Refusal..MaxAttempts, late : BOOLEAN])]
      /\ late \in [Ids -> Seq(Refusal..MaxAttempts)]
  BY DEF IInv, TypeOK
<1>2. CASE PostAnswered \/ PostUnanswered \/ PostOutlivesClient
  <2>1. PICK i \in Ids, says \in Refusal..MaxAttempts :
           i = Current /\ says = Reply(memory.items[Current])
    BY <1>2, CurrentReply DEF PostAnswered, PostUnanswered, PostOutlivesClient
  <2>2. \/ replies' = [replies EXCEPT ![i] = Append(@, [says |-> says, late |-> FALSE])]
           /\ late' = late
        \/ replies' = replies /\ late' = [late EXCEPT ![i] = Append(@, says)]
    BY <1>2, <2>1 DEF PostAnswered, PostUnanswered, PostOutlivesClient, Committed
  <2>3. /\ Append(replies[i], [says |-> says, late |-> FALSE])
              \in Seq([says : Refusal..MaxAttempts, late : BOOLEAN])
        /\ Append(late[i], says) \in Seq(Refusal..MaxAttempts)
    <3>1. [says |-> says, late |-> FALSE] \in [says : Refusal..MaxAttempts, late : BOOLEAN]
      OBVIOUS
    <3>2. /\ replies[i] \in Seq([says : Refusal..MaxAttempts, late : BOOLEAN])
          /\ late[i] \in Seq(Refusal..MaxAttempts)
      BY <1>1
    <3> QED
      BY <3>1, <3>2, Appended
  <2> QED
    BY <1>1, <2>2, <2>3, Updated
<1>3. ASSUME NEW i \in Ids, LatePostCommits(i)
      PROVE  /\ replies' \in [Ids -> Seq([says : Refusal..MaxAttempts, late : BOOLEAN])]
             /\ late' \in [Ids -> Seq(Refusal..MaxAttempts)]
  <2>1. /\ late[i] # <<>> /\ late[i] \in Seq(Refusal..MaxAttempts)
        /\ replies' = [replies EXCEPT ![i] = Append(@, [says |-> Head(late[i]), late |-> TRUE])]
        /\ late' = [late EXCEPT ![i] = Tail(@)]
    BY <1>1, <1>3 DEF LatePostCommits, Committed
  <2>2. Head(late[i]) \in Refusal..MaxAttempts /\ Tail(late[i]) \in Seq(Refusal..MaxAttempts)
    BY <2>1, HeadTailProperties
  <2>3. Append(replies[i], [says |-> Head(late[i]), late |-> TRUE])
           \in Seq([says : Refusal..MaxAttempts, late : BOOLEAN])
    <3>1. [says |-> Head(late[i]), late |-> TRUE]
             \in [says : Refusal..MaxAttempts, late : BOOLEAN]
      BY <2>2
    <3>2. replies[i] \in Seq([says : Refusal..MaxAttempts, late : BOOLEAN])
      BY <1>1
    <3> QED
      BY <3>1, <3>2, Appended
  <2> QED
    BY <1>1, <2>1, <2>2, <2>3, Updated
<1> QED
  BY <1>2, <1>3

\* Every step keeps the types.
LEMMA TypeIsPreserved ==
  ASSUME IInv, Next
  PROVE  TypeOK'
<1>1. disk' \in StateRecord /\ memory' \in StateRecord
  BY GoodIsPreserved DEF Good, GoodState
<1>2. Surroundings
  BY DEF IInv, TypeOK, Surroundings
<1>3. Len(inbox) \in 0..MaxMessages
  BY <1>2, DispatcherAssumption DEF Surroundings
<1>4. \A i \in Running(memory) : i \in Ids /\ Attempt(i) \in Attempts
  BY Standing
<1>5. ASSUME NEW i \in Ids, NEW k \in Attempts, RemovalUnconfirmed(i, k)
      PROVE  container' \in [Ids -> [Attempts -> {"none", "live", "exited", "gone"}]]
  <2>1. CASE RemoveContainer(i, k)
    <3>1. PICK x \in {"none", "live", "exited", "gone"} :
             x = IF Present(i, k) THEN "gone" ELSE container[i][k]
      BY <1>2 DEF Surroundings
    <3>2. container' = [container EXCEPT ![i][k] = x]
      BY <2>1, <3>1 DEF RemoveContainer
    <3> QED
      BY <1>2, <3>2, PairUpdated DEF Surroundings
  <2> QED
    BY <1>2, <1>5, <2>1 DEF Surroundings, RemovalUnconfirmed
<1>6. SUFFICES Surroundings'
  BY <1>1 DEF Surroundings, TypeOK
<1>7. CASE Prime \/ Poll \/ SaveRecovered \/ Quiet \/ RefuseCommit \/ StartReview \/ NotLaunched
  <2>1. CASE Prime \/ SaveRecovered
    <3>1. skipped' \in NoStateFile..MaxMessages
      BY <1>2, <1>3, <2>1, DispatcherAssumption
         DEF Surroundings, Prime, SaveRecovered, NoStateFile
    <3> QED
      BY <1>2, <2>1, <3>1
         DEF Surroundings, Prime, SaveRecovered, service, reviewers, clocks
  <2>2. CASE StartReview
    BY <1>2, <2>2 DEF Surroundings, StartReview, service, reviewers
  <2>3. CASE NotLaunched
    BY <1>2, <2>3 DEF Surroundings, NotLaunched, Launched, service, reviewers
  <2> QED
    BY <1>2, <1>7, <2>1, <2>2, <2>3
       DEF Surroundings, Poll, Quiet, RefuseCommit, Exit, service, reviewers, clocks
<1>8. CASE RecoverNothing
  <2>1. container' \in [Ids -> [Attempts -> {"none", "live", "exited", "gone"}]]
    BY <1>2, <1>4, <1>5, <1>8 DEF RecoverNothing, Surroundings
  <2> QED
    BY <1>2, <1>8, <2>1 DEF RecoverNothing, Surroundings, service, clocks
<1>9. ASSUME NEW i \in Ids,
             RecoverByForce(i) \/ RecoverEnded(i)
             \/ ReviewSucceeds(i) \/ ReviewFails(i) \/ CleanupFails(i)
      PROVE  Surroundings'
  <2>1. container' \in [Ids -> [Attempts -> {"none", "live", "exited", "gone"}]]
    BY <1>4, <1>5, <1>9
       DEF RecoverByForce, RecoverEnded, ReviewSucceeds, ReviewFails, CleanupFails,
           RemovalUnconfirmed
  <2>2. waiting' \subseteq Ids
    BY <1>2, <1>9
       DEF RecoverByForce, RecoverEnded, ReviewSucceeds, ReviewFails, CleanupFails,
           WaitingAfter, Surroundings, clocks
  <2> QED
    BY <1>2, <1>9, <2>1, <2>2
       DEF RecoverByForce, RecoverEnded, ReviewSucceeds, ReviewFails, CleanupFails, Exit,
           Surroundings, service, clocks
<1>10. ASSUME NEW i \in Ids,
              Launch(i) \/ OnStarted(i) \/ OnStartedFails(i) \/ LauncherExited(i)
              \/ WaitTimesOut(i)
       PROVE  Surroundings'
  <2>1. \/ launcher' = launcher
        \/ i \in Running(memory)
           /\ \E x \in {"alive", "dead"} : launcher' = [launcher EXCEPT ![i][Attempt(i)] = x]
    BY <1>10
       DEF Launch, OnStarted, OnStartedFails, LauncherExited, WaitTimesOut, KillLauncher,
           reviewers
  <2>2. launcher' \in [Ids -> [Attempts -> {"none", "alive", "dead"}]]
    <3>1. CASE launcher' = launcher
      BY <1>2, <3>1 DEF Surroundings
    <3>2. ASSUME NEW x \in {"none", "alive", "dead"}, i \in Running(memory),
                 launcher' = [launcher EXCEPT ![i][Attempt(i)] = x]
          PROVE  launcher' \in [Ids -> [Attempts -> {"none", "alive", "dead"}]]
      BY <1>2, <1>4, <3>2, PairUpdated DEF Surroundings
    <3> QED
      BY <2>1, <3>1, <3>2
  <2>3. CASE Launch(i)
    <3>1. launches' \in Nat \cup {-1}
      BY <1>2, <2>3 DEF Launch, Surroundings
    <3> QED
      BY <1>2, <2>2, <2>3, <3>1 DEF Launch, Surroundings, service
  <2>4. CASE OnStarted(i) \/ LauncherExited(i)
    BY <1>2, <2>4 DEF OnStarted, LauncherExited, Surroundings, service, reviewers, clocks
  <2>5. CASE OnStartedFails(i) \/ WaitTimesOut(i)
    <3>1. orphans' \subseteq Ids \X Attempts
      BY <1>2, <1>4, <2>5 DEF OnStartedFails, WaitTimesOut, KillLauncher, Surroundings
    <3> QED
      BY <1>2, <2>2, <2>5, <3>1 DEF OnStartedFails, WaitTimesOut, Surroundings, service, clocks
  <2> QED
    BY <1>10, <2>3, <2>4, <2>5
<1>11. CASE PostAnswered \/ PostUnanswered \/ PostOutlivesClient
  BY <1>2, <1>11, RepliesAreReplies
     DEF PostAnswered, PostUnanswered, PostOutlivesClient, Exit, Surroundings, reviewers, clocks
<1>12. CASE FindReply \/ PostRejected \/ BeginPublication \/ ReplyCannotBeBuilt
            \/ PublicationFails \/ FinishPublication
  <2>1. PostRejected => Current \in Ids
    BY Standing DEF PostRejected
  <2> QED
    BY <1>2, <1>12, <2>1
       DEF FindReply, PostRejected, BeginPublication,
           ReplyCannotBeBuilt, PublicationFails, FinishPublication,
           Exit, Surroundings, service, reviewers, clocks
<1>13. CASE Arrive
  <2>1. inbox' \in Seq({"request", "malformed", "other"}) /\ Len(inbox') <= MaxMessages
    <3>1. PICK kind \in {"request", "malformed", "other"} : inbox' = Append(inbox, kind)
      BY <1>13 DEF Arrive
    <3>2. inbox \in Seq({"request", "malformed", "other"}) /\ Len(inbox) < MaxMessages
      BY <1>2, <1>13 DEF Arrive, Surroundings
    <3>3. Len(inbox') = Len(inbox) + 1
      BY <3>1, <3>2
    <3> QED
      BY <3>1, <3>2, <3>3, DispatcherAssumption, Appended
  <2> QED
    BY <1>2, <1>13, <2>1 DEF Arrive, Surroundings, reviewers, clocks
<1>14. CASE Crash
  <2>1. orphans' \subseteq Ids \X Attempts
    BY <1>2, <1>4, <1>14 DEF Crash, Surroundings
  <2> QED
    BY <1>2, <1>14, <2>1 DEF Crash, Exit, Launched, Surroundings, service
<1>15. CASE DayBegins
  BY <1>2, <1>15 DEF DayBegins, Surroundings, service, reviewers
<1>16. ASSUME NEW i \in Ids, LatePostCommits(i) \/ RetryDue(i) \/ DeadlinePasses(i)
       PROVE  Surroundings'
  <2>1. CASE LatePostCommits(i)
    BY <1>2, <2>1, RepliesAreReplies DEF LatePostCommits, Surroundings, reviewers, clocks
  <2> QED
    BY <1>2, <1>16, <2>1 DEF RetryDue, DeadlinePasses, Surroundings, service, reviewers
<1>17. ASSUME NEW i \in Ids, NEW k \in Attempts,
              \/ ContainerStarts(i, k) \/ ReviewerWritesResult(i, k) \/ ContainerEnds(i, k)
              \/ LauncherEnds(i, k)
       PROVE  Surroundings'
  <2>1. CASE ContainerStarts(i, k) \/ ContainerEnds(i, k)
    <3>1. PICK x \in {"none", "live", "exited", "gone"} :
             container' = [container EXCEPT ![i][k] = x]
      BY <2>1 DEF ContainerStarts, ContainerEnds
    <3>2. container' \in [Ids -> [Attempts -> {"none", "live", "exited", "gone"}]]
      BY <1>2, <3>1, PairUpdated DEF Surroundings
    <3> QED
      BY <1>2, <2>1, <3>2 DEF ContainerStarts, ContainerEnds, Surroundings, service, clocks
  <2>2. CASE ReviewerWritesResult(i, k)
    <3>1. result_file' \in [Ids -> [Attempts -> BOOLEAN]]
      BY <1>2, <2>2, PairUpdated DEF ReviewerWritesResult, Surroundings
    <3>2. oversized' \subseteq Ids \X Attempts
      BY <1>2, <2>2 DEF ReviewerWritesResult, Surroundings
    <3> QED
      BY <1>2, <2>2, <3>1, <3>2 DEF ReviewerWritesResult, Surroundings, service, clocks
  <2>3. CASE LauncherEnds(i, k)
    <3>1. "dead" \in {"none", "alive", "dead"}
      OBVIOUS
    <3>2. launcher' \in [Ids -> [Attempts -> {"none", "alive", "dead"}]]
      BY <1>2, <2>3, <3>1, PairUpdated DEF LauncherEnds, Surroundings
    <3> QED
      BY <1>2, <2>3, <3>2 DEF LauncherEnds, Surroundings, service, clocks
  <2> QED
    BY <1>17, <2>1, <2>2, <2>3
<1> QED
  BY <1>7, <1>8, <1>9, <1>10, <1>11, <1>12, <1>13, <1>14, <1>15, <1>16, <1>17
     DEF Next, CycleStep, ReviewStep, PublicationStep, Outside

\* No container without a launcher, no result without a container.
LEMMA WorldIsPreserved ==
  ASSUME IInv, Next
  PROVE  World'
<1>1. /\ launcher \in [Ids -> [Attempts -> {"none", "alive", "dead"}]]
      /\ container \in [Ids -> [Attempts -> {"none", "live", "exited", "gone"}]]
      /\ result_file \in [Ids -> [Attempts -> BOOLEAN]]
  BY DEF IInv, TypeOK
<1>2. \A i \in Running(memory) : i \in Ids /\ Attempt(i) \in Attempts
  BY Standing
<1>3. SUFFICES ASSUME NEW j \in Ids, NEW m \in Attempts
               PROVE  /\ launcher[j][m] # "none" => launcher'[j][m] # "none"
                      /\ container[j][m] # "none" => container'[j][m] # "none"
                      /\ container'[j][m] # "none" =>
                            container[j][m] # "none" \/ launcher[j][m] # "none"
                      /\ result_file'[j][m] => result_file[j][m] \/ container[j][m] # "none"
  BY DEF IInv, World
<1>4. ASSUME NEW i \in Ids, NEW k \in Attempts, RemovalUnconfirmed(i, k)
      PROVE  container[j][m] # "none" <=> container'[j][m] # "none"
  BY <1>1, <1>4 DEF RemovalUnconfirmed, RemoveContainer, Present
<1>5. CASE UNCHANGED reviewers
  BY <1>5 DEF reviewers
<1>6. CASE RecoverNothing
  BY <1>2, <1>4, <1>6 DEF RecoverNothing
<1>7. ASSUME NEW i \in Ids,
             RecoverByForce(i) \/ RecoverEnded(i)
             \/ ReviewSucceeds(i) \/ ReviewFails(i) \/ CleanupFails(i)
      PROVE  /\ UNCHANGED <<launcher, result_file>>
             /\ container[j][m] # "none" <=> container'[j][m] # "none"
  BY <1>2, <1>4, <1>7
     DEF RecoverByForce, RecoverEnded, ReviewSucceeds, ReviewFails, CleanupFails,
         RemovalUnconfirmed
<1>8. ASSUME NEW i \in Ids, Launch(i) \/ OnStartedFails(i) \/ WaitTimesOut(i)
      PROVE  /\ UNCHANGED <<container, result_file>>
             /\ launcher[j][m] # "none" => launcher'[j][m] # "none"
  BY <1>1, <1>2, <1>8 DEF Launch, OnStartedFails, WaitTimesOut, KillLauncher
<1>9. ASSUME NEW i \in Ids, NEW k \in Attempts,
             \/ ContainerStarts(i, k) \/ ReviewerWritesResult(i, k) \/ ContainerEnds(i, k)
             \/ LauncherEnds(i, k)
      PROVE  /\ launcher[j][m] # "none" => launcher'[j][m] # "none"
             /\ container[j][m] # "none" => container'[j][m] # "none"
             /\ container'[j][m] # "none" =>
                   container[j][m] # "none" \/ launcher[j][m] # "none"
             /\ result_file'[j][m] => result_file[j][m] \/ container[j][m] # "none"
  BY <1>1, <1>9
     DEF ContainerStarts, ReviewerWritesResult, ContainerEnds, LauncherEnds, Live
<1>10. CASE Crash
  BY <1>10 DEF Crash
<1>11. CASE PublicationStep
  BY <1>5, <1>11
     DEF PublicationStep, BeginPublication, FindReply, PostAnswered, PostUnanswered,
         PostOutlivesClient, PostRejected, ReplyCannotBeBuilt, PublicationFails, FinishPublication
<1>12. ASSUME NEW i \in Ids,
              \/ OnStarted(i) \/ LauncherExited(i)
              \/ LatePostCommits(i) \/ RetryDue(i) \/ DeadlinePasses(i)
       PROVE  UNCHANGED reviewers
  BY <1>12 DEF OnStarted, LauncherExited, LatePostCommits, RetryDue, DeadlinePasses
<1>13. CASE Prime \/ Poll \/ SaveRecovered \/ Quiet \/ RefuseCommit \/ StartReview
            \/ NotLaunched \/ Arrive \/ DayBegins
  BY <1>5, <1>13
     DEF Prime, Poll, SaveRecovered, Quiet, RefuseCommit, StartReview, NotLaunched, Arrive,
         DayBegins
<1> QED
  BY <1>5, <1>6, <1>7, <1>8, <1>9, <1>10, <1>11, <1>12, <1>13
     DEF Next, CycleStep, ReviewStep, Outside

\* The cursor goes forward, and the count of starts up, in a few actions only.
LEMMA CountsAfter ==
  ASSUME IInv, Next, ~DayBegins, ~Prime, ~Poll, ~StartReview
  PROVE  /\ \/ memory'.cursor = memory.cursor /\ disk'.cursor \in {disk.cursor, memory.cursor}
            \/ memory'.cursor = disk.cursor /\ disk'.cursor = disk.cursor
         /\ memory'.starts_today = disk.starts_today
         /\ disk'.starts_today = disk.starts_today
<1>1. memory.starts_today = disk.starts_today /\ GoodState(memory)
  BY DEF IInv, Daily, Good
<1>2. CASE disk' \in {disk, memory} /\ memory' \in {disk, memory}
           /\ (memory' = disk => disk' = disk \/ disk = memory)
  BY <1>1, <1>2
<1>3. ASSUME NEW new, new.cursor = memory.cursor, new.starts_today = memory.starts_today,
             memory' = new, disk' \in {disk, new}
      PROVE  /\ memory'.cursor = memory.cursor /\ disk'.cursor \in {disk.cursor, memory.cursor}
             /\ memory'.starts_today = disk.starts_today
             /\ disk'.starts_today = disk.starts_today
  BY <1>1, <1>3
<1>4. CASE RefuseCommit
  <2> DEFINE i == Lowest(Ready(memory))
  <2>1. i \in Ids /\ memory.items[i].status = "queued"
    BY <1>4, Standing DEF RefuseCommit, MayReview
  <2>2. memory' = RefusedState(memory, i) /\ disk' = RefusedState(memory, i)
    BY <1>4 DEF RefuseCommit, Save, RefusedState
  <2> HIDE DEF i
  <2> QED
    BY <1>1, <1>3, <2>1, <2>2, RefusedIsGood
<1>5. ASSUME NEW i \in Ids,
             RecoverByForce(i) \/ RecoverEnded(i) \/ ReviewSucceeds(i) \/ ReviewFails(i)
      PROVE  /\ memory'.cursor = memory.cursor /\ disk'.cursor \in {disk.cursor, memory.cursor}
             /\ memory'.starts_today = disk.starts_today
             /\ disk'.starts_today = disk.starts_today
  <2>1. /\ i \in Running(memory) /\ memory' \in {Failed(memory, i), Reviewed(memory, i)}
        /\ disk' \in {disk, memory'}
    BY <1>5 DEF RecoverByForce, RecoverEnded, ReviewSucceeds, ReviewFails, Save
  <2> QED
    BY <1>1, <1>3, <2>1, FailedIsGood, ReviewedIsGood
<1>6. ASSUME NEW i \in Ids, OnStarted(i) \/ OnStartedFails(i)
      PROVE  /\ memory'.cursor = memory.cursor /\ disk'.cursor \in {disk.cursor, memory.cursor}
             /\ memory'.starts_today = disk.starts_today
             /\ disk'.starts_today = disk.starts_today
  <2>1. /\ i \in Running(memory) /\ memory' = [memory EXCEPT !.items[i].worker_pid = TRUE]
        /\ disk' \in {disk, memory'}
    BY <1>6 DEF OnStarted, OnStartedFails, Save
  <2> QED
    BY <1>1, <1>3, <2>1, PidIsGood
<1>7. CASE FindReply \/ PostAnswered \/ PostRejected
  <2>1. /\ Current \in Ids /\ disk' = disk
        /\ memory' \in {memory, Finished(memory, Current), Unpublished(memory, Current)}
    BY <1>7, Standing DEF FindReply, PostAnswered, PostRejected
  <2> QED
    BY <1>1, <1>3, <2>1, FiledIsGood
<1>8. CASE RecoverNothing \/ SaveRecovered \/ Quiet \/ NotLaunched
  BY <1>2, <1>8 DEF RecoverNothing, SaveRecovered, Quiet, NotLaunched, Save
<1>9. ASSUME NEW i \in Ids,
             Launch(i) \/ LauncherExited(i) \/ WaitTimesOut(i) \/ CleanupFails(i)
             \/ LatePostCommits(i) \/ RetryDue(i) \/ DeadlinePasses(i)
      PROVE  disk' \in {disk, memory} /\ memory' \in {disk, memory}
             /\ (memory' = disk => disk' = disk \/ disk = memory)
  BY <1>9
     DEF Launch, LauncherExited, WaitTimesOut, CleanupFails, Save, LatePostCommits, RetryDue,
         DeadlinePasses
<1>10. CASE BeginPublication \/ PostUnanswered \/ PostOutlivesClient \/ PublicationFails
            \/ ReplyCannotBeBuilt \/ FinishPublication \/ Arrive \/ Crash
  BY <1>2, <1>10
     DEF BeginPublication, PostUnanswered, PostOutlivesClient, ReplyCannotBeBuilt, PublicationFails,
         FinishPublication, Save, Arrive, Crash
<1>11. ASSUME NEW i \in Ids, NEW k \in Attempts,
              \/ ContainerStarts(i, k) \/ ReviewerWritesResult(i, k) \/ ContainerEnds(i, k)
              \/ LauncherEnds(i, k)
       PROVE  disk' = disk /\ memory' = memory
  BY <1>11 DEF ContainerStarts, ReviewerWritesResult, ContainerEnds, LauncherEnds
<1> QED
  BY <1>2, <1>4, <1>5, <1>6, <1>7, <1>8, <1>9, <1>10, <1>11
     DEF Next, CycleStep, ReviewStep, PublicationStep, Outside

\* A step of others: the process stays where it is, with the items it has.
Aside == Outside /\ pc' = pc

\* The ways into the places Stage speaks of.
LEMMA WaysInto ==
  ASSUME Next
  PROVE  \/ Aside
         \/ pc' = "launch" /\ StartReview
         \/ pc' \in {"cleanup", "cleanup_failed"} /\ NotLaunched
         \/ pc' \in {"cleanup", "cleanup_failed"} /\
               \E i \in Ids : OnStartedFails(i) \/ LauncherExited(i) \/ WaitTimesOut(i)
         \/ pc' = "find" /\ (BeginPublication \/ \E i \in Ids : ReviewSucceeds(i))
         \/ pc' = "post" /\ FindReply
         \/ pc' \notin {"launch", "cleanup", "cleanup_failed", "find", "post"}
<1>1. CASE CycleStep
  <2>1. CASE PublicationStep
    BY <2>1
       DEF PublicationStep, BeginPublication, FindReply, PostAnswered, PostUnanswered,
           PostOutlivesClient, PostRejected,
           ReplyCannotBeBuilt, PublicationFails, FinishPublication, Exit
  <2>2. ASSUME NEW i \in Ids,
               \/ RecoverByForce(i) \/ RecoverEnded(i)
               \/ Launch(i) \/ OnStarted(i)
               \/ ReviewFails(i) \/ CleanupFails(i)
        PROVE  pc' \notin {"launch", "cleanup", "cleanup_failed", "find", "post"}
    BY <2>2
       DEF RecoverByForce, RecoverEnded, Launch, OnStarted, ReviewFails, CleanupFails, Exit
  <2>3. ASSUME NEW i \in Ids,
               \/ OnStartedFails(i) \/ LauncherExited(i) \/ WaitTimesOut(i)
        PROVE  pc' \in {"cleanup", "cleanup_failed"}
    BY <2>3 DEF OnStartedFails, LauncherExited, WaitTimesOut
  <2>4. ASSUME NEW i \in Ids, ReviewSucceeds(i)
        PROVE  pc' = "find"
    BY <2>4 DEF ReviewSucceeds
  <2>5. CASE Prime \/ Poll \/ RecoverNothing \/ SaveRecovered \/ Quiet \/ RefuseCommit
    BY <2>5 DEF Prime, Poll, RecoverNothing, SaveRecovered, Quiet, RefuseCommit, Exit
  <2>6. CASE StartReview \/ NotLaunched
    BY <2>6 DEF StartReview, NotLaunched
  <2> QED
    BY <1>1, <2>1, <2>2, <2>3, <2>4, <2>5, <2>6 DEF CycleStep, ReviewStep
<1>2. CASE Outside
  <2>1. CASE Crash
    BY <2>1 DEF Crash, Exit
  <2> QED
    BY <1>2, <2>1
       DEF Outside, Aside, Arrive, DayBegins, LatePostCommits, RetryDue, DeadlinePasses,
           ContainerStarts, ReviewerWritesResult, ContainerEnds, LauncherEnds
<1> QED
  BY <1>1, <1>2 DEF Next

\* What others do changes no item.
LEMMA AsideKeepsItems ==
  ASSUME IInv, Aside
  PROVE  memory'.items = memory.items /\ disk'.items = disk.items
<1>1. disk \in StateRecord /\ memory \in StateRecord
  BY DEF IInv, TypeOK
<1>2. CASE DayBegins
  BY <1>1, <1>2 DEF DayBegins, StateRecord
<1>3. CASE Crash
  BY <1>3 DEF Crash, Exit, Aside
<1> QED
  BY <1>2, <1>3
     DEF Aside, Outside, Arrive, LatePostCommits, RetryDue, DeadlinePasses,
         ContainerStarts, ReviewerWritesResult, ContainerEnds, LauncherEnds

\* Memory and file differ only between a change and its save.
LEMMA SyncedIsPreserved ==
  ASSUME IInv, Next
  PROVE  pc' \in Synced => memory' = disk'
<1>1. pc \in Synced => memory = disk
  BY DEF IInv, Stage
<1>2. CASE Prime \/ Poll \/ RecoverNothing \/ SaveRecovered \/ Quiet \/ RefuseCommit
           \/ StartReview \/ NotLaunched
  BY <1>1, <1>2
     DEF Prime, Poll, RecoverNothing, SaveRecovered, Quiet, RefuseCommit, StartReview,
         NotLaunched, Save, Synced
<1>3. ASSUME NEW i \in Ids,
             \/ RecoverByForce(i) \/ RecoverEnded(i)
             \/ Launch(i) \/ OnStarted(i) \/ OnStartedFails(i)
             \/ LauncherExited(i) \/ WaitTimesOut(i)
             \/ ReviewSucceeds(i) \/ ReviewFails(i) \/ CleanupFails(i)
      PROVE  pc' \in Synced => memory' = disk'
  <2>1. CASE RecoverByForce(i) \/ RecoverEnded(i) \/ OnStartedFails(i)
    BY <2>1 DEF RecoverByForce, RecoverEnded, OnStartedFails, Synced
  <2>2. CASE Launch(i) \/ LauncherExited(i) \/ WaitTimesOut(i)
    BY <1>1, <2>2 DEF Launch, LauncherExited, WaitTimesOut, Synced
  <2>3. CASE OnStarted(i) \/ ReviewSucceeds(i) \/ ReviewFails(i) \/ CleanupFails(i)
    <3>1. \E st : Save(st)
      BY <2>3 DEF OnStarted, ReviewSucceeds, ReviewFails, CleanupFails
    <3> QED
      BY <3>1 DEF Save
  <2> QED
    BY <1>3, <2>1, <2>2, <2>3
<1>4. CASE PublicationStep
  BY <1>1, <1>4
     DEF PublicationStep, BeginPublication, FindReply, PostAnswered, PostUnanswered,
         PostOutlivesClient, PostRejected,
         ReplyCannotBeBuilt, PublicationFails, FinishPublication, Save, Synced
<1>5. CASE Outside
  <2>1. CASE DayBegins
    BY <1>1, <2>1 DEF DayBegins
  <2>2. CASE Crash
    BY <2>2 DEF Crash
  <2> QED
    BY <1>1, <1>5, <2>1, <2>2
       DEF Outside, Arrive, LatePostCommits, RetryDue, DeadlinePasses,
           ContainerStarts, ReviewerWritesResult, ContainerEnds, LauncherEnds
<1> QED
  BY <1>2, <1>3, <1>4, <1>5 DEF Next, CycleStep, ReviewStep

\* The thread only grows.
LEMMA InboxGrows ==
  ASSUME TypeOK, Next
  PROVE  Len(inbox) <= Len(inbox')
<1>1. Len(inbox) \in Nat
  BY DEF TypeOK
<1>2. CASE Arrive
  <2>1. PICK kind \in {"request", "malformed", "other"} : inbox' = Append(inbox, kind)
    BY <1>2 DEF Arrive
  <2> QED
    BY <1>1, <2>1 DEF TypeOK
<1>3. CASE inbox' = inbox
  BY <1>1, <1>3
<1>4. CASE CycleStep
  <2>1. ASSUME NEW i \in Ids,
               \/ RecoverByForce(i) \/ RecoverEnded(i)
               \/ Launch(i) \/ OnStarted(i) \/ OnStartedFails(i)
               \/ LauncherExited(i) \/ WaitTimesOut(i)
               \/ ReviewSucceeds(i) \/ ReviewFails(i) \/ CleanupFails(i)
        PROVE  inbox' = inbox
    BY <2>1
       DEF RecoverByForce, RecoverEnded, Launch, OnStarted, OnStartedFails, LauncherExited,
           WaitTimesOut, ReviewSucceeds, ReviewFails, CleanupFails, service
  <2>2. CASE PublicationStep
    BY <1>3, <2>2
       DEF PublicationStep, BeginPublication, FindReply, PostAnswered, PostUnanswered,
           PostOutlivesClient, PostRejected,
           ReplyCannotBeBuilt, PublicationFails, FinishPublication, service
  <2> QED
    BY <1>3, <1>4, <2>1, <2>2
       DEF CycleStep, ReviewStep, Prime, Poll, RecoverNothing, SaveRecovered, Quiet,
           RefuseCommit, StartReview, NotLaunched, service
<1>5. CASE Outside
  BY <1>2, <1>3, <1>5
     DEF Outside, Crash, DayBegins, LatePostCommits, RetryDue, DeadlinePasses,
         ContainerStarts, ReviewerWritesResult, ContainerEnds, LauncherEnds, service
<1> QED
  BY <1>4, <1>5 DEF Next

\* The file is never ahead of memory, nor memory of the thread.
LEMMA CursorIsPreserved ==
  ASSUME IInv, Next
  PROVE  disk'.cursor <= memory'.cursor /\ memory'.cursor <= Len(inbox')
<1>1. /\ disk.cursor <= memory.cursor /\ memory.cursor <= Len(inbox)
      /\ disk.cursor \in Int /\ memory.cursor \in Int /\ Len(inbox) \in Int
      /\ disk \in StateRecord /\ memory \in StateRecord
  BY DEF IInv, Stage, TypeOK, StateRecord
<1>2. Len(inbox) <= Len(inbox') /\ Len(inbox') \in Int
  <2>1. inbox' \in Seq({"request", "malformed", "other"})
    BY TypeIsPreserved DEF TypeOK
  <2> QED
    BY <2>1, InboxGrows DEF IInv
<1>3. CASE DayBegins
  BY <1>1, <1>2, <1>3 DEF DayBegins, StateRecord
<1>4. CASE Prime
  BY <1>1, <1>2, <1>4 DEF Prime, Save, EmptyState
<1>5. CASE Poll
  <2>1. /\ disk' = disk /\ memory' = Polled(disk) /\ memory = disk /\ GoodState(disk)
        /\ inbox \in Seq({"request", "malformed", "other"}) /\ Len(inbox) <= MaxMessages
    BY <1>5 DEF Poll, IInv, Stage, Synced, Good, TypeOK
  <2>2. disk.cursor <= Polled(disk).cursor /\ Polled(disk).cursor <= Len(inbox)
    BY <1>1, <2>1, PolledIsGood
  <2> QED
    BY <1>5, <2>1, <2>2 DEF Poll, service
<1>6. CASE StartReview
  <2>1. memory'.cursor = memory.cursor /\ disk' = memory'
    BY <1>1, <1>6 DEF StartReview, Save, StateRecord
  <2> QED
    BY <1>1, <1>2, <2>1
<1> QED
  BY <1>1, <1>2, <1>3, <1>4, <1>5, <1>6, CountsAfter

\* The attempt about to be launched has no launcher; the one that ended has none alive,
\* or none that could be killed.
LEMMA LaunchersArePreserved ==
  ASSUME IInv, Next
  PROVE  /\ pc' = "launch" =>
               \A i \in Running(memory)' : launcher'[i][Attempt(i)'] = "none"
         /\ pc' \in {"cleanup", "cleanup_failed"} =>
               \A i \in Running(memory)' : \/ launcher'[i][Attempt(i)'] # "alive"
                                            \/ <<i, Attempt(i)'>> \in orphans'
<1>1. launcher \in [Ids -> [Attempts -> {"none", "alive", "dead"}]]
  BY DEF IInv, TypeOK
<1>2. CASE StartReview
  <2>1. PICK i \in Ids : i = Lowest(Ready(memory)) /\ memory.items[i].status = "queued"
    BY <1>2, Standing DEF StartReview, MayReview
  <2>2. /\ memory' = StartedState(memory, i) /\ launcher' = launcher /\ pc' = "launch"
        /\ Running(memory) = {} /\ GoodState(memory) /\ Linked(memory)
    BY <1>2, <2>1 DEF StartReview, MayReview, Save, StartedState, reviewers, IInv, Good
  <2>3. /\ GoodState(memory') /\ memory'.items[i].attempts = memory.items[i].attempts + 1
        /\ memory'.items[i].status = "running"
    BY <2>1, <2>2, StartedIsGood
  <2>4. memory'.items[i].attempts \in Attempts /\ memory.items[i].attempts \in Int
    BY <2>2, <2>3, ResultIsAttempt
  <2>5. launcher[i][memory'.items[i].attempts] = "none"
    <3>1. Fits(i, memory.items[i])
      BY <2>2 DEF Linked
    <3>2. memory'.items[i].attempts > memory.items[i].attempts
      BY <2>3, <2>4
    <3> QED
      BY <2>1, <2>4, <3>1, <3>2 DEF Fits, Untouched
  <2>6. \A j \in Running(memory)' : j = i
    BY <2>1, <2>3 DEF GoodState, Running, WithStatus
  <2> QED
    BY <2>2, <2>5, <2>6 DEF Attempt
<1>3. CASE NotLaunched
  BY <1>3 DEF NotLaunched, IInv, Stage, Running, WithStatus, Attempt, reviewers
<1>4. ASSUME NEW i \in Ids, OnStartedFails(i) \/ LauncherExited(i) \/ WaitTimesOut(i)
      PROVE  \A j \in Running(memory)' : \/ launcher'[j][Attempt(j)'] # "alive"
                                          \/ <<j, Attempt(j)'>> \in orphans'
  <2>1. /\ i \in Running(memory) /\ Running(memory) = {i} /\ Attempt(i) \in Attempts
        /\ GoodState(memory) /\ memory.items \in [Ids -> ItemRecord]
    BY <1>4, Standing, RunningItem
       DEF OnStartedFails, LauncherExited, WaitTimesOut, IInv, Good
  <2>2. launcher'[i][Attempt(i)] = "dead" \/ <<i, Attempt(i)>> \in orphans'
    BY <1>1, <1>4, <2>1
       DEF OnStartedFails, LauncherExited, WaitTimesOut, KillLauncher, reviewers
  <2>3. /\ \A j \in Ids : memory'.items[j].status = memory.items[j].status
        /\ memory'.items[i].attempts = memory.items[i].attempts
    <3>1. CASE OnStartedFails(i)
      <4>1. memory' = [memory EXCEPT !.items[i].worker_pid = TRUE]
        BY <3>1 DEF OnStartedFails
      <4> QED
        BY <2>1, <4>1, PidIsGood, RunningItem
    <3> QED
      BY <1>4, <3>1 DEF LauncherExited, WaitTimesOut
  <2> QED
    BY <2>1, <2>2, <2>3 DEF Running, WithStatus, Attempt
<1>5. CASE Aside
  <2>1. Running(memory)' = Running(memory) /\ \A i : Attempt(i)' = Attempt(i)
    BY <1>5, AsideKeepsItems DEF Running, WithStatus, Attempt
  <2>2. ASSUME NEW j \in Ids, NEW m \in Attempts
        PROVE  \/ launcher'[j][m] = launcher[j][m]
               \/ launcher[j][m] = "alive" /\ launcher'[j][m] = "dead"
    <3>1. ASSUME NEW i \in Ids, NEW k \in Attempts, LauncherEnds(i, k)
          PROVE  \/ launcher'[j][m] = launcher[j][m]
                 \/ launcher[j][m] = "alive" /\ launcher'[j][m] = "dead"
      BY <1>1, <3>1 DEF LauncherEnds
    <3> QED
      BY <1>5, <3>1
         DEF Aside, Outside, Crash, Arrive, DayBegins, LatePostCommits, RetryDue,
             DeadlinePasses, ContainerStarts, ReviewerWritesResult, ContainerEnds, reviewers
  <2>3. orphans' = orphans
    BY <1>5
       DEF Aside, Outside, Crash, Exit, Arrive, DayBegins, LatePostCommits, RetryDue,
           DeadlinePasses, ContainerStarts, ReviewerWritesResult, ContainerEnds,
           LauncherEnds, reviewers
  <2> QED
    BY <1>5, <2>1, <2>2, <2>3, Standing DEF IInv, Stage, Aside
<1> QED
  BY <1>2, <1>3, <1>4, <1>5, WaysInto
     DEF StartReview, NotLaunched, OnStartedFails, LauncherExited, WaitTimesOut

\* There is something to publish where the process looks for it.
LEMMA PublishableIsPreserved ==
  ASSUME IInv, Next
  PROVE  pc' \in {"find", "post"} => Publishable(memory)' # {}
<1>1. CASE BeginPublication \/ (FindReply /\ pc' = "post")
  BY <1>1 DEF BeginPublication, FindReply, Publishable, WithStatus, IInv, Stage
<1>2. ASSUME NEW i \in Ids, ReviewSucceeds(i)
      PROVE  Publishable(memory)' # {}
  <2>1. i \in Running(memory) /\ memory' = Reviewed(memory, i) /\ GoodState(memory)
    BY <1>2 DEF ReviewSucceeds, Save, IInv, Good
  <2>2. memory'.items[i].status = "result_ready"
    BY <2>1, ReviewedIsGood
  <2> QED
    BY <2>2 DEF Publishable, WithStatus
<1>3. CASE Aside
  BY <1>3, AsideKeepsItems DEF Publishable, WithStatus, IInv, Stage, Aside
<1> QED
  BY <1>1, <1>2, <1>3, WaysInto

\* There is no state file until the first save.
LEMMA NoFileIsPreserved ==
  ASSUME IInv, Next, skipped' = NoStateFile
  PROVE  pc' \in {"idle", "recover", "save"} /\ disk' = EmptyState
<1>1. skipped = NoStateFile => pc \in {"idle", "recover", "save"} /\ disk = EmptyState
  BY DEF IInv, Stage
<1>2. ~Prime /\ ~SaveRecovered
  <2>1. Len(inbox) # NoStateFile
    BY DEF IInv, TypeOK, NoStateFile
  <2> QED
    BY <2>1 DEF Prime, SaveRecovered, NoStateFile
<1>3. CASE Poll \/ RecoverNothing \/ Quiet \/ RefuseCommit \/ StartReview \/ NotLaunched
  BY <1>1, <1>3 DEF Poll, RecoverNothing, Quiet, RefuseCommit, StartReview, NotLaunched
<1>4. ASSUME NEW i \in Ids,
             \/ RecoverByForce(i) \/ RecoverEnded(i)
             \/ Launch(i) \/ OnStarted(i) \/ OnStartedFails(i)
             \/ LauncherExited(i) \/ WaitTimesOut(i)
             \/ ReviewSucceeds(i) \/ ReviewFails(i) \/ CleanupFails(i)
      PROVE  pc' \in {"idle", "recover", "save"} /\ disk' = EmptyState
  BY <1>1, <1>4
     DEF RecoverByForce, RecoverEnded, Launch, OnStarted, OnStartedFails, LauncherExited,
         WaitTimesOut, ReviewSucceeds, ReviewFails, CleanupFails
<1>5. CASE PublicationStep
  BY <1>1, <1>5
     DEF PublicationStep, BeginPublication, FindReply, PostAnswered, PostUnanswered,
         PostOutlivesClient, PostRejected, ReplyCannotBeBuilt, PublicationFails, FinishPublication
<1>6. CASE Outside
  <2>1. CASE DayBegins
    <3>1. [EmptyState EXCEPT !.starts_today = 0] = EmptyState
      BY DEF EmptyState
    <3> QED
      BY <1>1, <2>1, <3>1 DEF DayBegins
  <2>2. CASE Crash
    BY <1>1, <2>2 DEF Crash, Exit
  <2> QED
    BY <1>1, <1>6, <2>1, <2>2
       DEF Outside, Arrive, LatePostCommits, RetryDue, DeadlinePasses,
           ContainerStarts, ReviewerWritesResult, ContainerEnds, LauncherEnds
<1> QED
  BY <1>2, <1>3, <1>4, <1>5, <1>6 DEF Next, CycleStep, ReviewStep

\* Every step keeps what the position in the cycle says.
LEMMA StageIsPreserved ==
  ASSUME IInv, Next
  PROVE  Stage'
BY SyncedIsPreserved, CursorIsPreserved, LaunchersArePreserved, PublishableIsPreserved,
   NoFileIsPreserved DEF Stage

\* The steps that add to the replies.
LEMMA WaysToReply ==
  ASSUME Next
  PROVE  \/ UNCHANGED <<replies, late>>
         \/ PostAnswered \/ PostUnanswered \/ PostOutlivesClient
         \/ \E i \in Ids : LatePostCommits(i)
<1>1. CASE CycleStep
  <2>1. ASSUME NEW i \in Ids,
               \/ RecoverByForce(i) \/ RecoverEnded(i)
               \/ Launch(i) \/ OnStarted(i) \/ OnStartedFails(i)
               \/ LauncherExited(i) \/ WaitTimesOut(i)
               \/ ReviewSucceeds(i) \/ ReviewFails(i) \/ CleanupFails(i)
        PROVE  UNCHANGED <<replies, late>>
    BY <2>1
       DEF RecoverByForce, RecoverEnded, Launch, OnStarted, OnStartedFails, LauncherExited,
           WaitTimesOut, ReviewSucceeds, ReviewFails, CleanupFails, service
  <2>2. CASE PublicationStep
    BY <2>2
       DEF PublicationStep, BeginPublication, FindReply, PostRejected,
           ReplyCannotBeBuilt, PublicationFails,
           FinishPublication, service
  <2> QED
    BY <1>1, <2>1, <2>2
       DEF CycleStep, ReviewStep, Prime, Poll, RecoverNothing, SaveRecovered, Quiet,
           RefuseCommit, StartReview, NotLaunched, service
<1>2. CASE Outside
  BY <1>2
     DEF Outside, Crash, Arrive, DayBegins, RetryDue, DeadlinePasses,
         ContainerStarts, ReviewerWritesResult, ContainerEnds, LauncherEnds, service
<1> QED
  BY <1>1, <1>2 DEF Next

\* The last of the replies is the new one.
LEMMA LastReply ==
  ASSUME NEW s \in Seq([says : Refusal..MaxAttempts, late : BOOLEAN]),
         NEW x \in [says : Refusal..MaxAttempts, late : BOOLEAN]
  PROVE  /\ Len(s) \in Nat /\ Len(Append(s, x)) = Len(s) + 1
         /\ \A n \in 1..Len(s) : Append(s, x)[n] = s[n]
         /\ Append(s, x)[Len(s) + 1] = x
OBVIOUS

\* All replies to a request, there or on their way, say the same.
LEMMA RepliesStayAgreed ==
  ASSUME IInv, Next
  PROVE  \A i \in Ids : \E r \in Refusal..MaxAttempts : Says(i, r)'
<1>1. SUFFICES ASSUME NEW i \in Ids
               PROVE  \E r \in Refusal..MaxAttempts : Says(i, r)'
  OBVIOUS
<1>2. PICK r \in Refusal..MaxAttempts : Says(i, r)
  BY DEF IInv, Replied
<1>3. ASSUME replies'[i] = replies[i] /\ late'[i] = late[i]
      PROVE  Says(i, r)'
  BY <1>2, <1>3 DEF Says
<1>4. CASE PostAnswered \/ PostUnanswered \/ PostOutlivesClient
  <2>1. PICK j \in Ids, says \in Refusal..MaxAttempts :
           j = Current /\ says = Reply(memory.items[Current]) /\ Says(j, says)
    BY <1>4, CurrentReply DEF PostAnswered, PostUnanswered, PostOutlivesClient
  <2>2. \/ Committed(j, [says |-> says, late |-> FALSE]) /\ late' = late
        \/ late' = [late EXCEPT ![j] = Append(late[j], says)] /\ replies' = replies
    BY <1>4, <2>1 DEF PostAnswered, PostUnanswered, PostOutlivesClient
  <2>3. /\ Says(j, says)'
        /\ \A k \in Ids \ {j} : replies'[k] = replies[k] /\ late'[k] = late[k]
    BY <2>1, <2>2, OneMoreReply DEF IInv
  <2> QED
    BY <1>2, <1>3, <2>3
<1>5. ASSUME NEW j \in Ids, LatePostCommits(j)
      PROVE  \E q \in Refusal..MaxAttempts : Says(i, q)'
  <2>1. /\ late[j] # <<>> /\ late[j] \in Seq(Refusal..MaxAttempts)
        /\ Committed(j, [says |-> Head(late[j]), late |-> TRUE])
        /\ late' = [late EXCEPT ![j] = Tail(late[j])]
    BY <1>5 DEF LatePostCommits, IInv, TypeOK
  <2>2. PICK says \in Refusal..MaxAttempts : says = Head(late[j])
    BY <2>1, HeadTailProperties
  <2>3. /\ Says(j, says) => Says(j, says)'
        /\ \A k \in Ids \ {j} : replies'[k] = replies[k] /\ late'[k] = late[k]
    BY <2>1, <2>2, OneMoreReply DEF IInv
  <2>4. i = j => says = r
    <3>1. Head(late[j]) = late[j][1] /\ 1 \in 1..Len(late[j])
      BY <2>1
    <3> QED
      BY <1>2, <2>2, <3>1 DEF Says
  <2> QED
    BY <1>2, <1>3, <2>3, <2>4
<1> QED
  BY <1>2, <1>3, <1>4, <1>5, WaysToReply

\* A request is answered in time at most once: while the answer is being posted, all
\* that are there are late.
LEMMA AnswersStayFew ==
  ASSUME IInv, Next
  PROVE  \A i \in Ids : \A m, n \in 1..Len(replies'[i]) :
            ~replies'[i][m].late /\ ~replies'[i][n].late => m = n
<1>1. SUFFICES ASSUME NEW i \in Ids
               PROVE  \A m, n \in 1..Len(replies'[i]) :
                         ~replies'[i][m].late /\ ~replies'[i][n].late => m = n
  OBVIOUS
<1>2. /\ replies \in [Ids -> Seq([says : Refusal..MaxAttempts, late : BOOLEAN])]
      /\ \A m, n \in 1..Len(replies[i]) :
            ~replies[i][m].late /\ ~replies[i][n].late => m = n
  BY DEF IInv, TypeOK, Replied
<1>3. CASE replies'[i] = replies[i]
  BY <1>2, <1>3
<1>4. ASSUME NEW x \in [says : Refusal..MaxAttempts, late : BOOLEAN],
             replies'[i] = Append(replies[i], x),
             x.late \/ \A n \in 1..Len(replies[i]) : replies[i][n].late
      PROVE  \A m, n \in 1..Len(replies'[i]) :
                ~replies'[i][m].late /\ ~replies'[i][n].late => m = n
  <2>1. /\ Len(replies[i]) \in Nat /\ Len(replies'[i]) = Len(replies[i]) + 1
        /\ \A n \in 1..Len(replies[i]) : replies'[i][n] = replies[i][n]
        /\ replies'[i][Len(replies[i]) + 1] = x
    BY <1>2, <1>4, LastReply
  <2> QED
    BY <1>2, <1>4, <2>1
<1>5. CASE PostAnswered \/ PostUnanswered
  <2>1. PICK j \in Ids, says \in Refusal..MaxAttempts :
           j = Current /\ says = Reply(memory.items[Current])
    BY <1>5, CurrentReply DEF PostAnswered, PostUnanswered
  <2>2. replies' = [replies EXCEPT ![j] = Append(replies[j], [says |-> says, late |-> FALSE])]
    BY <1>5, <2>1 DEF PostAnswered, PostUnanswered, Committed
  <2>3. \A n \in 1..Len(replies[j]) : replies[j][n].late
    BY <1>5, <2>1 DEF PostAnswered, PostUnanswered, IInv, Replied
  <2>4. [says |-> says, late |-> FALSE] \in [says : Refusal..MaxAttempts, late : BOOLEAN]
    OBVIOUS
  <2> QED
    BY <1>2, <1>3, <1>4, <2>2, <2>3, <2>4
<1>6. ASSUME NEW j \in Ids, LatePostCommits(j)
      PROVE  \A m, n \in 1..Len(replies'[i]) :
                ~replies'[i][m].late /\ ~replies'[i][n].late => m = n
  <2>1. PICK says \in Refusal..MaxAttempts : says = Head(late[j])
    BY <1>6, HeadTailProperties DEF LatePostCommits, IInv, TypeOK
  <2>2. replies' = [replies EXCEPT ![j] = Append(replies[j], [says |-> says, late |-> TRUE])]
    BY <1>6, <2>1 DEF LatePostCommits, Committed
  <2>3. [says |-> says, late |-> TRUE] \in [says : Refusal..MaxAttempts, late : BOOLEAN]
    OBVIOUS
  <2> QED
    BY <1>2, <1>3, <1>4, <2>2, <2>3
<1>7. PostOutlivesClient => replies' = replies
  BY DEF PostOutlivesClient
<1> QED
  BY <1>3, <1>5, <1>6, <1>7, WaysToReply

\* While an answer is being posted, the replies that are there are late.
LEMMA PostFindsLateOnes ==
  ASSUME IInv, Next, pc' = "post"
  PROVE  \A n \in 1..Len(replies'[Current']) : replies'[Current'][n].late
<1>1. replies \in [Ids -> Seq([says : Refusal..MaxAttempts, late : BOOLEAN])]
  BY DEF IInv, TypeOK
<1>2. CASE FindReply
  <2>1. Current' = Current /\ replies[Current] = <<>> /\ replies' = replies
    BY <1>2 DEF FindReply, ReplyExists, Current, Publishable, WithStatus, service
  <2> QED
    BY <2>1
<1>3. CASE Aside
  <2>1. Current' = Current /\ Current \in Ids
        /\ \A n \in 1..Len(replies[Current]) : replies[Current][n].late
    BY <1>3, AsideKeepsItems, Standing
       DEF Current, Publishable, WithStatus, Aside, IInv, Replied
  <2>2. PICK i \in Ids : i = Current
    BY <2>1
  <2>3. ASSUME NEW j \in Ids, LatePostCommits(j)
        PROVE  \A n \in 1..Len(replies'[i]) : replies'[i][n].late
    <3>1. PICK says \in Refusal..MaxAttempts : says = Head(late[j])
      BY <2>3, HeadTailProperties DEF LatePostCommits, IInv, TypeOK
    <3>2. PICK x \in [says : Refusal..MaxAttempts, late : BOOLEAN] :
             x = [says |-> says, late |-> TRUE]
      OBVIOUS
    <3>3. replies' = [replies EXCEPT ![j] = Append(replies[j], x)]
      BY <2>3, <3>1, <3>2 DEF LatePostCommits, Committed
    <3>4. CASE i = j
      <4>1. /\ Len(replies[i]) \in Nat /\ Len(replies'[i]) = Len(replies[i]) + 1
            /\ \A n \in 1..Len(replies[i]) : replies'[i][n] = replies[i][n]
            /\ replies'[i][Len(replies[i]) + 1] = x
        BY <1>1, <3>3, <3>4, LastReply
      <4> QED
        BY <2>1, <2>2, <3>2, <4>1
    <3> QED
      BY <1>1, <2>1, <2>2, <3>3, <3>4
  <2>4. (\E j \in Ids : LatePostCommits(j)) \/ replies' = replies
    BY <1>3
       DEF Aside, Outside, Crash, Arrive, DayBegins, RetryDue, DeadlinePasses,
           ContainerStarts, ReviewerWritesResult, ContainerEnds, LauncherEnds, service
  <2> QED
    BY <2>1, <2>2, <2>3, <2>4
<1> QED
  BY <1>2, <1>3, WaysInto

\* Every step keeps the replies one answer.
LEMMA RepliedIsPreserved ==
  ASSUME IInv, Next
  PROVE  Replied'
BY RepliesStayAgreed, AnswersStayFew, PostFindsLateOnes DEF Replied

\* Every start is counted before its launch, in the file and in memory.
LEMMA DailyIsPreserved ==
  ASSUME IInv, Next
  PROVE  Daily'
<1>1. /\ Daily /\ launches \in Nat \cup {-1} /\ disk.starts_today \in Nat
      /\ memory \in StateRecord /\ disk \in StateRecord
  BY DEF IInv, TypeOK, StateRecord
<1>2. CASE DayBegins
  <2>1. disk'.starts_today = 0 /\ memory'.starts_today = 0 /\ pc' = pc
        /\ launches' = IF pc = "launch" THEN -1 ELSE 0
    BY <1>1, <1>2 DEF DayBegins, StateRecord
  <2> QED
    BY <2>1, DispatcherAssumption DEF Daily
<1>3. CASE Prime
  <2>1. /\ disk = EmptyState /\ disk'.starts_today = 0 /\ memory'.starts_today = 0
        /\ pc' = pc /\ pc = "idle" /\ launches' = launches
    BY <1>3 DEF Prime, Save, EmptyState, IInv, Stage, clocks
  <2> QED
    BY <1>1, <2>1, DispatcherAssumption DEF Daily, EmptyState
<1>4. CASE Poll
  <2>1. disk' = disk /\ memory'.starts_today = disk.starts_today
        /\ launches' = launches /\ pc = "idle" /\ pc' = "recover"
    BY <1>1, <1>4 DEF Poll, Polled, StateRecord, clocks
  <2> QED
    BY <1>1, <2>1 DEF Daily
<1>5. CASE StartReview
  <2>1. /\ memory'.starts_today = memory.starts_today + 1 /\ disk' = memory'
        /\ memory.starts_today < DailyLimit /\ launches' = launches
        /\ pc = "choose" /\ pc' = "launch"
    BY <1>1, <1>5 DEF StartReview, MayReview, Save, StateRecord
  <2> QED
    BY <1>1, <2>1, DispatcherAssumption DEF Daily
<1>6. CASE ~DayBegins /\ ~Prime /\ ~Poll /\ ~StartReview
  <2>1. memory'.starts_today = disk.starts_today /\ disk'.starts_today = disk.starts_today
    BY <1>6, CountsAfter
  <2>2. \/ launches' = launches /\ (pc' = "launch" <=> pc = "launch")
        \/ launches' = launches + 1 /\ pc = "launch" /\ pc' = "started"
        \/ launches' = Launched /\ pc' # "launch"
    <3>1. CASE CycleStep
      <4>1. ASSUME NEW i \in Ids,
                   \/ RecoverByForce(i) \/ RecoverEnded(i)
                   \/ OnStarted(i) \/ OnStartedFails(i)
                   \/ LauncherExited(i) \/ WaitTimesOut(i)
                   \/ ReviewSucceeds(i) \/ ReviewFails(i) \/ CleanupFails(i)
            PROVE  launches' = launches /\ pc' # "launch" /\ pc # "launch"
        BY <4>1
           DEF RecoverByForce, RecoverEnded, OnStarted, OnStartedFails, LauncherExited,
               WaitTimesOut, ReviewSucceeds, ReviewFails, CleanupFails, Exit, clocks
      <4>2. CASE PublicationStep
        BY <4>2
           DEF PublicationStep, BeginPublication, FindReply, PostAnswered, PostUnanswered,
               PostOutlivesClient, PostRejected,
               ReplyCannotBeBuilt, PublicationFails, FinishPublication, Exit,
               clocks
      <4>3. ASSUME NEW i \in Ids, Launch(i)
            PROVE  launches' = launches + 1 /\ pc = "launch" /\ pc' = "started"
        BY <4>3 DEF Launch
      <4>4. CASE NotLaunched
        BY <4>4 DEF NotLaunched
      <4> QED
        BY <1>6, <3>1, <4>1, <4>2, <4>3, <4>4
           DEF CycleStep, ReviewStep, RecoverNothing, SaveRecovered, Quiet, RefuseCommit,
               Exit, clocks
    <3>2. CASE Outside
      <4>1. CASE Crash
        BY <4>1 DEF Crash, Exit
      <4> QED
        BY <1>6, <3>2, <4>1
           DEF Outside, Arrive, LatePostCommits, RetryDue, DeadlinePasses,
               ContainerStarts, ReviewerWritesResult, ContainerEnds, LauncherEnds, clocks
    <3> QED
      BY <3>1, <3>2 DEF Next
  <2> QED
    BY <1>1, <2>1, <2>2, DispatcherAssumption DEF Daily, Launched
<1> QED
  BY <1>2, <1>3, <1>4, <1>5, <1>6

-----------------------------------------------------------------------------
(* The theorems.                                                           *)

\* At first there is nothing.
LEMMA StartsInvariant == Init => IInv
<1> SUFFICES ASSUME Init
             PROVE  IInv
  OBVIOUS
<1> USE DEF Init
<1>1. GoodState(EmptyState)
  BY EmptyIsGood
<1>2. PICK st : st = EmptyState
  OBVIOUS
<1>3. /\ st.cursor = 0 /\ st.starts_today = 0 /\ st \in StateRecord
      /\ \A i \in Ids : st.items[i] = NoItem
  BY <1>1, <1>2 DEF EmptyState, GoodState
<1>4. /\ \A i \in Ids : replies[i] = <<>> /\ late[i] = <<>>
      /\ \A i \in Ids, k \in Attempts :
            launcher[i][k] = "none" /\ container[i][k] = "none" /\ ~result_file[i][k]
  BY DEF PerAttempt
<1>5. TypeOK
  <2>1. /\ launcher \in [Ids -> [Attempts -> {"none", "alive", "dead"}]]
        /\ container \in [Ids -> [Attempts -> {"none", "live", "exited", "gone"}]]
        /\ result_file \in [Ids -> [Attempts -> BOOLEAN]]
    BY DEF PerAttempt
  <2>2. skipped \in NoStateFile..MaxMessages /\ Len(inbox) <= MaxMessages
    BY DispatcherAssumption DEF NoStateFile
  <2>3. /\ replies \in [Ids -> Seq([says : Refusal..MaxAttempts, late : BOOLEAN])]
        /\ late \in [Ids -> Seq(Refusal..MaxAttempts)]
    OBVIOUS
  <2>4. inbox \in Seq({"request", "malformed", "other"})
    OBVIOUS
  <2> QED
    BY <1>1, <2>1, <2>2, <2>3, <2>4 DEF TypeOK, GoodState
<1>6. Linked(st)
  <2>1. NoItem.status = "none" /\ ~(NoItem.result > 0)
    BY DEF NoItem
  <2>2. \A i \in Ids : Unanswered(i) /\ \A k \in Attempts : Untouched(i, k) /\ ~Active(i, k)
    BY <1>4 DEF Untouched, Unanswered, Active, Live
  <2>3. \A i \in Ids : Fits(i, NoItem)
    BY <2>1, <2>2 DEF Fits
  <2> QED
    BY <1>3, <2>2, <2>3 DEF Linked
<1>7. Good(disk) /\ Good(memory)
  BY <1>1, <1>2, <1>6 DEF Good
<1>8. Stage
  BY <1>2, <1>3 DEF Stage
<1>9. World
  BY <1>4 DEF World
<1>10. Replied
  <2>1. Refusal \in Refusal..MaxAttempts
    BY DispatcherAssumption DEF Refusal
  <2>2. \A i \in Ids : Says(i, Refusal)
    BY <1>4 DEF Says
  <2> QED
    BY <1>4, <2>1, <2>2 DEF Replied
<1>11. Daily
  BY <1>2, <1>3, DispatcherAssumption DEF Daily
<1> QED
  BY <1>5, <1>7, <1>8, <1>9, <1>10, <1>11 DEF IInv

\* The invariant is inductive.
LEMMA InvariantIsPreserved == IInv /\ [Next]_vars => IInv'
<1>1. IInv /\ Next => IInv'
  BY GoodIsPreserved, TypeIsPreserved, WorldIsPreserved, StageIsPreserved,
     RepliedIsPreserved, DailyIsPreserved DEF IInv
<1>2. ASSUME IInv, UNCHANGED vars
      PROVE  IInv'
  <2>1. /\ UNCHANGED <<inbox, replies, late, unpostable, disk, memory, pc, skipped>>
        /\ UNCHANGED <<launcher, container, result_file, oversized, orphans>>
        /\ UNCHANGED <<waiting, overdue, launches>>
    BY <1>2 DEF vars, service, reviewers, clocks
  <2>2. Good(disk)' /\ Good(memory)'
    BY <1>2, <2>1, StatesAreKept DEF Steady, reviewers
  <2>3. TypeOK'
    BY <1>2, <2>1 DEF IInv, TypeOK
  <2>4. World' /\ Daily'
    BY <1>2, <2>1 DEF IInv, World, Daily
  <2>5. Replied'
    BY <1>2, <2>1 DEF IInv, Replied, Says, Current, Publishable, WithStatus
  <2>6. Stage'
    BY <1>2, <2>1 DEF IInv, Stage, Running, Attempt, Publishable, WithStatus
  <2> QED
    BY <2>2, <2>3, <2>4, <2>5, <2>6 DEF IInv
<1> QED
  BY <1>1, <1>2

\* In every reachable state both states fit what is outside, wherever the process is.
THEOREM InvariantHolds == Spec => []IInv
BY StartsInvariant, InvariantIsPreserved, PTL DEF Spec

\* The state file keeps its format whatever crashes: no item is tried more often than
\* --max-attempts.
THEOREM StateKeepsItsFormat == Spec => []TypeOK
<1>1. IInv => TypeOK
  BY DEF IInv
<1> QED
  BY <1>1, InvariantHolds, PTL

\* No reviewer is out of the dispatcher's custody, unless it died between launching it
\* and writing its pid down.
THEOREM CustodyIsKept == Spec => []ReviewersAreInCustody
<1>1. IInv => ReviewersAreInCustody
  BY DEF IInv, Good, Linked, Fits, Active, Running, WithStatus, ReviewersAreInCustody
<1> QED
  BY <1>1, InvariantHolds, PTL

\* What counts as a result was written by a reviewer that is gone.
THEOREM ResultsAreFinalAlways == Spec => []ResultsAreFinal
<1>1. IInv => ResultsAreFinal
  BY DEF IInv, Good, Linked, Fits, ResultsAreFinal
<1> QED
  BY <1>1, InvariantHolds, PTL

\* No day sees more reviewers launched than the policy allows.
THEOREM LimitIsKept == Spec => []DailyLimitHolds
<1>1. IInv => DailyLimitHolds
  BY DispatcherAssumption DEF IInv, TypeOK, StateRecord, Daily, DailyLimitHolds
<1> QED
  BY <1>1, InvariantHolds, PTL

\* A request gets one reply in time, and every other reply to it says the same.
THEOREM OneAnswerEach == Spec => []OneAnswer
<1>1. ASSUME IInv
      PROVE  OneAnswer
  <2>1. SUFFICES ASSUME NEW i \in Ids
                 PROVE  /\ Cardinality({n \in 1..Len(replies[i]) : ~replies[i][n].late}) <= 1
                        /\ \A m, n \in 1..Len(replies[i]) :
                              replies[i][m].says = replies[i][n].says
    BY DEF OneAnswer
  <2> DEFINE InTime == {n \in 1..Len(replies[i]) : ~replies[i][n].late}
  <2>2. \A m, n \in InTime : m = n
    BY <1>1 DEF IInv, Replied
  <2>3. Cardinality(InTime) <= 1
    <3> HIDE DEF InTime
    <3>1. CASE InTime = {}
      BY <3>1, FS_EmptySet
    <3>2. ASSUME NEW n \in InTime
          PROVE  Cardinality(InTime) <= 1
      <4>1. InTime = {n}
        BY <2>2
      <4> QED
        BY <4>1, FS_Singleton
    <3> QED
      BY <3>1, <3>2
  <2>4. \A m, n \in 1..Len(replies[i]) : replies[i][m].says = replies[i][n].says
    BY <1>1 DEF IInv, Replied, Says
  <2> QED
    BY <2>3, <2>4
<1> QED
  BY <1>1, InvariantHolds, PTL

\* An attempt is launched once, and not if there is a reply, or a result to make one of.
LEMMA LaunchIsFresh ==
  ASSUME IInv, Next, NEW i \in Ids, NEW k \in Attempts,
         launcher[i][k] # "alive", launcher'[i][k] = "alive"
  PROVE  /\ launcher[i][k] = "none" /\ container[i][k] = "none" /\ ~result_file[i][k]
         /\ replies[i] = <<>> /\ late[i] = <<>> /\ disk.items[i].result = 0
<1>1. launcher \in [Ids -> [Attempts -> {"none", "alive", "dead"}]]
  BY DEF IInv, TypeOK
<1>2. ASSUME NEW j \in Ids, Launch(j)
      PROVE  /\ j = i /\ k = Attempt(i) /\ i \in Running(memory) /\ pc = "launch"
  BY <1>1, <1>2 DEF Launch
<1>3. ASSUME NEW j \in Ids, OnStartedFails(j) \/ WaitTimesOut(j)
      PROVE  FALSE
  <2>1. launcher' \in {launcher, [launcher EXCEPT ![j][Attempt(j)] = "dead"]}
    BY <1>3 DEF OnStartedFails, WaitTimesOut, KillLauncher
  <2> QED
    BY <1>1, <2>1
<1>4. ASSUME NEW j \in Ids, NEW m \in Attempts, LauncherEnds(j, m)
      PROVE  FALSE
  BY <1>1, <1>4 DEF LauncherEnds
<1>5. launcher' # launcher
  OBVIOUS
<1>6. \E j \in Ids : Launch(j)
  <2>1. CASE CycleStep
    <3>1. ASSUME NEW j \in Ids,
                 \/ RecoverByForce(j) \/ RecoverEnded(j) \/ OnStarted(j) \/ LauncherExited(j)
                 \/ ReviewSucceeds(j) \/ ReviewFails(j) \/ CleanupFails(j)
          PROVE  FALSE
      BY <1>5, <3>1
         DEF RecoverByForce, RecoverEnded, OnStarted, LauncherExited, ReviewSucceeds,
             ReviewFails, CleanupFails, reviewers
    <3>2. ~PublicationStep
      BY <1>5
         DEF PublicationStep, BeginPublication, FindReply, PostAnswered, PostUnanswered,
             PostOutlivesClient, PostRejected,
             ReplyCannotBeBuilt, PublicationFails, FinishPublication, reviewers
    <3> QED
      BY <1>3, <1>5, <2>1, <3>1, <3>2
         DEF CycleStep, ReviewStep, Prime, Poll, RecoverNothing, SaveRecovered, Quiet,
             RefuseCommit, StartReview, NotLaunched, reviewers
  <2>2. CASE Outside
    BY <1>4, <1>5, <2>2
       DEF Outside, Crash, Arrive, DayBegins, LatePostCommits, RetryDue, DeadlinePasses,
           ContainerStarts, ReviewerWritesResult, ContainerEnds, reviewers
  <2> QED
    BY <2>1, <2>2 DEF Next
<1>7. k = Attempt(i) /\ i \in Running(memory) /\ pc = "launch"
  BY <1>2, <1>6
<1>8. launcher[i][k] = "none" /\ container[i][k] = "none" /\ ~result_file[i][k]
  BY <1>7 DEF IInv, Stage, World
<1>9. memory = disk /\ memory.items[i].status = "running" /\ memory.items[i].result = 0
  BY <1>7, Standing DEF IInv, Stage, Synced
<1>10. Unanswered(i)
  BY <1>9 DEF IInv, Good, Linked, Fits
<1> QED
  BY <1>8, <1>9, <1>10 DEF Unanswered

\* No attempt is launched twice, and none for a request that has an answer.
THEOREM EveryLaunchIsFresh == Spec => LaunchesAreFresh
<1> DEFINE Fresh == \A i \in Ids, k \in Attempts :
                       launcher[i][k] # "alive" /\ launcher'[i][k] = "alive"
                       => /\ launcher[i][k] = "none" /\ container[i][k] = "none" /\ ~result_file[i][k]
                          /\ replies[i] = <<>> /\ late[i] = <<>> /\ disk.items[i].result = 0
<1>1. IInv /\ [Next]_vars => [Fresh]_vars
  BY LaunchIsFresh
<1>2. Spec => [][Fresh]_vars
  BY <1>1, InvariantHolds, PTL DEF Spec
<1> QED
  BY <1>2 DEF LaunchesAreFresh


-----------------------------------------------------------------------------
(* What the steps do to the queue: which ids have items, which are filed.  *)

HasItem(st, i) == st.items[i].status # "none"

\* The same ids have items, and the same are filed.
SameIds(st, new) ==
    /\ new.cursor = st.cursor
    /\ new.completed = st.completed /\ new.dead_letters = st.dead_letters
    /\ \A i \in Ids : HasItem(new, i) <=> HasItem(st, i)

\* And answers to be given are not changed.
SameQueue(st, new) ==
    /\ SameIds(st, new)
    /\ \A i \in Ids : st.items[i].status \in {"result_ready", "reply_pending"}
                        => new.items[i] = st.items[i]

\* What is said of three states in a row.
LEMMA SameIdsTwice ==
  ASSUME NEW a, NEW b, NEW c, SameIds(a, b), SameIds(b, c)
  PROVE  SameIds(a, c)
BY DEF SameIds

\* One item is replaced by another that is not settled before.
LEMMA QueueStays ==
  ASSUME NEW st, NEW new, NEW i \in Ids,
         new.cursor = st.cursor, new.completed = st.completed,
         new.dead_letters = st.dead_letters,
         \A j \in Ids \ {i} : new.items[j] = st.items[j],
         st.items[i].status \in {"queued", "running"}, new.items[i].status # "none"
  PROVE  SameQueue(st, new)
BY DEF SameQueue, SameIds, HasItem

\* Steps of a review leave the queue as it is.
LEMMA ReviewKeepsQueue ==
  ASSUME NEW st, GoodState(st), NEW i \in Running(st),
         NEW new \in {Failed(st, i), Reviewed(st, i), [st EXCEPT !.items[i].worker_pid = TRUE]}
  PROVE  SameQueue(st, new)
<1>1. i \in Ids /\ st \in StateRecord /\ st.items[i].status = "running"
  BY RunningItem
<1>2. /\ new.completed = st.completed /\ new.dead_letters = st.dead_letters
  BY <1>1 DEF Failed, Reviewed, StateRecord
<1>3. /\ new.cursor = st.cursor
      /\ \A j \in Ids \ {i} : new.items[j] = st.items[j]
      /\ new.items[i].status # "none"
  <2>1. CASE new = Failed(st, i)
    BY <2>1, FailedIsGood
  <2>2. CASE new = Reviewed(st, i)
    BY <2>2, ReviewedIsGood
  <2>3. CASE new = [st EXCEPT !.items[i].worker_pid = TRUE]
    BY <2>3, PidIsGood
  <2> QED
    BY <2>1, <2>2, <2>3
<1> QED
  BY <1>1, <1>2, <1>3, QueueStays

\* So does the choice of what is to be reviewed.
LEMMA ChoiceKeepsQueue ==
  ASSUME NEW st, GoodState(st), NEW i \in Ids, st.items[i].status = "queued",
         NEW new,
         \/ new = StartedState(st, i) /\ Running(st) = {}
         \/ new = RefusedState(st, i)
  PROVE  SameQueue(st, new)
<1>1. st \in StateRecord
  BY DEF GoodState
<1>2. /\ new.completed = st.completed /\ new.dead_letters = st.dead_letters
  BY <1>1 DEF StartedState, RefusedState, StateRecord
<1>3. /\ new.cursor = st.cursor
      /\ \A j \in Ids \ {i} : new.items[j] = st.items[j]
      /\ new.items[i].status # "none"
  BY StartedIsGood, RefusedIsGood
<1> QED
  BY <1>1, <1>2, <1>3, QueueStays

\* And the beginning of a day.
LEMMA DayKeepsQueue ==
  ASSUME NEW st \in StateRecord
  PROVE  SameQueue(st, [st EXCEPT !.starts_today = 0])
BY DEF StateRecord, SameQueue, SameIds, HasItem

\* After a poll, and what recovery did since: the messages polled have items.
PolledQueue(st, new) ==
    /\ st.cursor <= new.cursor
    /\ new.completed = st.completed /\ new.dead_letters = st.dead_letters
    /\ \A i \in Ids :
          IF i <= st.cursor
          THEN HasItem(new, i) <=> HasItem(st, i)
          ELSE HasItem(new, i) <=> i <= new.cursor /\ inbox[i] # "other"

\* Item i, which was to be answered, is filed in one of the histories.
FiledQueue(st, new, i) ==
    /\ HasItem(st, i) /\ ~HasItem(new, i)
    /\ \A j \in Ids \ {i} : HasItem(new, j) <=> HasItem(st, j)
    /\ new.cursor = st.cursor
    /\ \/ /\ new.completed = Trimmed(Append(st.completed, i))
          /\ new.dead_letters = st.dead_letters
       \/ /\ new.completed = st.completed
          /\ new.dead_letters = Trimmed(Append(st.dead_letters, i))

\* What memory has that the state file has not.
Between ==
    CASE pc \in {"recover", "save"} -> PolledQueue(disk, memory)
      [] pc = "finish"              -> \E i \in Ids : FiledQueue(disk, memory, i)
      [] OTHER                      -> SameIds(disk, memory)

\* The ways a step may treat the queue.
QueueKept ==
    /\ SameIds(disk, disk') /\ SameQueue(memory, memory')
    /\ disk' = memory' \/ SameQueue(disk, disk')
    /\ \/ pc' = pc
       \/ pc = "recover" /\ pc' = "save"
       \/ pc \notin {"recover", "save", "finish"} /\ pc' \notin {"recover", "save", "finish"}
    /\ UNCHANGED <<unpostable, skipped>>
    /\ UNCHANGED <<inbox, replies, late>> \/ Arrive \/ \E i \in Ids : LatePostCommits(i)

Dropped ==
    /\ disk' = disk /\ memory' = disk /\ pc' = "idle"
    /\ UNCHANGED <<inbox, unpostable, skipped>>
    /\ PostUnanswered \/ PostOutlivesClient \/ UNCHANGED <<replies, late>>

Filing ==
    /\ pc \in {"find", "post"} /\ pc' = "finish" /\ disk' = disk
    /\ memory' \in {Finished(memory, Current), Unpublished(memory, Current)}
    /\ UNCHANGED <<inbox, late, skipped>>
    /\ \/ replies[Current] # <<>> /\ UNCHANGED <<replies, unpostable>>
       \/ PostAnswered
       \/ PostRejected

\* A state is to itself as it was.
LEMMA SameState == \A st : SameQueue(st, st)
BY DEF SameQueue, SameIds

\* Every step of a cycle is one of these.
LEMMA StatesKept ==
  ASSUME IInv, Between, disk' \in {disk, memory}, memory' = memory,
         pc \notin {"recover", "save", "finish"}, pc' \notin {"recover", "save", "finish"},
         UNCHANGED <<service, skipped>>
  PROVE  QueueKept
<1>1. SameIds(disk, memory)
  BY DEF Between
<1> QED
  BY <1>1, SameState DEF QueueKept, SameQueue, service

\* The steps of a review.
LEMMA ReviewOfQueue ==
  ASSUME IInv, Between, NEW i \in Ids,
         \/ RecoverByForce(i) \/ RecoverEnded(i)
         \/ Launch(i) \/ OnStarted(i) \/ OnStartedFails(i)
         \/ LauncherExited(i) \/ WaitTimesOut(i)
         \/ ReviewSucceeds(i) \/ ReviewFails(i) \/ CleanupFails(i)
  PROVE  QueueKept
<1>1. PICK st : st = memory
  OBVIOUS
<1>2. GoodState(st)
  BY <1>1 DEF IInv, Good
<1>3. CASE RecoverByForce(i) \/ RecoverEnded(i)
  <2>1. /\ pc = "recover" /\ pc' = "save" /\ i \in Running(st) /\ disk' = disk
        /\ memory' \in {Failed(st, i), Reviewed(st, i)}
        /\ UNCHANGED <<inbox, replies, late, unpostable, skipped>>
    BY <1>1, <1>3 DEF RecoverByForce, RecoverEnded, service
  <2>2. PICK new : new = memory'
    OBVIOUS
  <2>3. SameQueue(st, new)
    BY <1>2, <2>1, <2>2, ReviewKeepsQueue
  <2> QED
    BY <1>1, <2>1, <2>2, <2>3, SameState DEF QueueKept, SameQueue
<1>4. CASE OnStarted(i) \/ OnStartedFails(i) \/ ReviewSucceeds(i) \/ ReviewFails(i)
  <2>1. /\ pc \notin {"recover", "save", "finish"} /\ pc' \notin {"recover", "save", "finish"}
        /\ i \in Running(st) /\ disk' \in {disk, memory'}
        /\ memory' \in {Failed(st, i), Reviewed(st, i), [st EXCEPT !.items[i].worker_pid = TRUE]}
        /\ UNCHANGED <<inbox, replies, late, unpostable, skipped>>
    BY <1>1, <1>4
       DEF OnStarted, OnStartedFails, ReviewSucceeds, ReviewFails, Save, Exit, service
  <2>2. PICK new : new = memory'
    OBVIOUS
  <2>3. SameQueue(st, new)
    <3>1. new \in {Failed(st, i), Reviewed(st, i), [st EXCEPT !.items[i].worker_pid = TRUE]}
      BY <2>1, <2>2
    <3>2. i \in Running(st)
      BY <2>1
    <3> QED
      BY <1>2, <3>1, <3>2, ReviewKeepsQueue
  <2>4. SameIds(disk, new)
    BY <1>1, <2>1, <2>3, SameIdsTwice DEF Between, SameQueue
  <2> QED
    BY <1>1, <2>1, <2>2, <2>3, <2>4, SameState DEF QueueKept, SameQueue
<1>5. CASE Launch(i) \/ LauncherExited(i) \/ WaitTimesOut(i) \/ CleanupFails(i)
  <2>1. /\ pc \notin {"recover", "save", "finish"} /\ pc' \notin {"recover", "save", "finish"}
        /\ disk' \in {disk, memory} /\ memory' = memory /\ UNCHANGED <<service, skipped>>
    BY <1>5 DEF Launch, LauncherExited, WaitTimesOut, CleanupFails, Save, Exit
  <2> QED
    BY <2>1, StatesKept
<1> QED
  BY <1>3, <1>4, <1>5

\* Every step keeps the queue, drops what was not saved, or is one of five.
LEMMA WaysToTheQueue ==
  ASSUME IInv, Between, Next
  PROVE  QueueKept \/ Dropped \/ Filing \/ Poll \/ Prime \/ SaveRecovered \/ FinishPublication
<1>1. CASE ReviewStep
  BY <1>1, ReviewOfQueue DEF ReviewStep
<1>2. CASE RefuseCommit \/ StartReview
  <2> DEFINE i == Lowest(Ready(memory))
  <2>1. /\ pc = "choose" /\ pc' \in {"idle", "launch"} /\ Ready(memory) # {}
        /\ Running(memory) = {} /\ disk' = memory'
        /\ memory' \in {StartedState(memory, i), RefusedState(memory, i)}
        /\ UNCHANGED <<inbox, replies, late, unpostable, skipped>>
    BY <1>2
       DEF RefuseCommit, StartReview, MayReview, Save, Exit, service, StartedState, RefusedState
  <2>2. i \in Ids /\ memory.items[i].status = "queued"
    BY <2>1, Standing
  <2>3. PICK st : st = memory
    OBVIOUS
  <2>4. PICK k \in Ids : k = i /\ st.items[k].status = "queued"
    BY <2>2, <2>3
  <2>5. PICK new : new = memory'
    OBVIOUS
  <2>6. GoodState(st)
    BY <2>3 DEF IInv, Good
  <2>7. SameQueue(st, new)
    BY <2>1, <2>3, <2>4, <2>5, <2>6, ChoiceKeepsQueue
  <2>8. SameIds(disk, new)
    BY <2>1, <2>3, <2>7, SameIdsTwice DEF Between, SameQueue
  <2> QED
    BY <2>1, <2>3, <2>5, <2>7, <2>8 DEF QueueKept
<1>3. CASE Quiet \/ NotLaunched \/ BeginPublication
  <2>1. /\ pc \notin {"recover", "save", "finish"} /\ pc' \notin {"recover", "save", "finish"}
        /\ disk' = disk /\ memory' = memory /\ UNCHANGED <<service, skipped>>
    BY <1>3 DEF Quiet, NotLaunched, BeginPublication, Exit
  <2> QED
    BY <2>1, StatesKept
<1>4. CASE RecoverNothing
  BY <1>4, SameState DEF RecoverNothing, QueueKept, SameQueue, service
<1>5. CASE PublicationStep /\ ~BeginPublication /\ ~FinishPublication
  <2>1. CASE FindReply
    <3>1. CASE ReplyExists(Current)
      BY <2>1, <3>1 DEF FindReply, Filing, ReplyExists, service
    <3>2. CASE ~ReplyExists(Current)
      <4>1. /\ pc \notin {"recover", "save", "finish"} /\ pc' \notin {"recover", "save", "finish"}
            /\ disk' = disk /\ memory' = memory /\ UNCHANGED <<service, skipped>>
        BY <2>1, <3>2 DEF FindReply
      <4> QED
        BY <4>1, StatesKept
    <3> QED
      BY <3>1, <3>2
  <2>2. CASE PostAnswered \/ PostRejected
    BY <2>2 DEF PostAnswered, PostRejected, Filing
  <2>3. CASE PostUnanswered \/ PostOutlivesClient \/ ReplyCannotBeBuilt \/ PublicationFails
    BY <2>3 DEF PostUnanswered, PostOutlivesClient,
                ReplyCannotBeBuilt, PublicationFails, Dropped, Exit, service
  <2> QED
    BY <1>5, <2>1, <2>2, <2>3 DEF PublicationStep
<1>6. CASE Outside
  <2>1. CASE Crash
    BY <2>1 DEF Crash, Dropped, Exit, service
  <2>2. CASE DayBegins
    <3>1. PICK st : st = disk
      OBVIOUS
    <3>2. PICK other : other = memory
      OBVIOUS
    <3>3. /\ disk' = [st EXCEPT !.starts_today = 0]
          /\ memory' = [other EXCEPT !.starts_today = 0]
          /\ pc' = pc /\ UNCHANGED <<inbox, replies, late, unpostable, skipped>>
      BY <2>2, <3>1, <3>2 DEF DayBegins, service
    <3>4. st \in StateRecord /\ other \in StateRecord
      BY <3>1, <3>2 DEF IInv, TypeOK
    <3>5. SameQueue(st, disk') /\ SameQueue(other, memory')
      BY <3>3, <3>4, DayKeepsQueue
    <3> QED
      BY <3>1, <3>2, <3>3, <3>5 DEF QueueKept, SameQueue
  <2>3. CASE Arrive
    BY <2>3, SameState DEF Arrive, QueueKept, SameQueue
  <2>4. ASSUME NEW i \in Ids, LatePostCommits(i) \/ RetryDue(i) \/ DeadlinePasses(i)
        PROVE  QueueKept
    BY <2>4, SameState DEF LatePostCommits, RetryDue, DeadlinePasses, QueueKept, SameQueue, service
  <2>5. ASSUME NEW i \in Ids, NEW k \in Attempts,
               \/ ContainerStarts(i, k) \/ ReviewerWritesResult(i, k) \/ ContainerEnds(i, k)
               \/ LauncherEnds(i, k)
        PROVE  QueueKept
    BY <2>5, SameState
       DEF ContainerStarts, ReviewerWritesResult, ContainerEnds, LauncherEnds, QueueKept, SameQueue, service
  <2> QED
    BY <1>6, <2>1, <2>2, <2>3, <2>4, <2>5 DEF Outside
<1> QED
  BY <1>1, <1>2, <1>3, <1>4, <1>5, <1>6 DEF Next, CycleStep, PublicationStep

-----------------------------------------------------------------------------
(* The histories.                                                          *)

\* No id is twice in a history, in both, or in one and open, and none is yet to come.
NoRepeat(s)   == \A m, n \in 1..Len(s) : s[m] = s[n] => m = n
Closed(st, s) == \A n \in 1..Len(s) : s[n] <= st.cursor /\ ~HasItem(st, s[n])
Filed(st) ==
    /\ NoRepeat(st.completed) /\ NoRepeat(st.dead_letters)
    /\ Closed(st, st.completed) /\ Closed(st, st.dead_letters)
    /\ \A m \in 1..Len(st.completed), n \in 1..Len(st.dead_letters) :
          st.completed[m] # st.dead_letters[n]

-----------------------------------------------------------------------------
(* The thread.                                                             *)

\* Only requests have items, and only a refusal is made of a malformed one.
OfItsKind(st) ==
    \A i \in Ids : HasItem(st, i) =>
        /\ i <= Len(inbox) /\ inbox[i] # "other"
        /\ inbox[i] = "malformed" => /\ st.items[i].status = "reply_pending"
                                     /\ st.items[i].terminal_kind = "rejected"

\* Whatever the cursor has passed is answered, open, refused by the service or was skipped.
Accounted ==
    \A i \in Ids :
        i <= disk.cursor /\ inbox[i] # "other"
            => replies[i] # <<>> \/ HasItem(disk, i) \/ i \in unpostable \/ i <= skipped

Behind == skipped <= disk.cursor /\ \A i \in unpostable : i <= disk.cursor

\* What is filed in memory is over.
Over ==
    pc = "finish" =>
        \A i \in Ids : HasItem(disk, i) /\ ~HasItem(memory, i)
            => replies[i] # <<>> \/ i \in unpostable

QueueInv == /\ Between /\ Filed(disk) /\ Filed(memory)
            /\ OfItsKind(disk) /\ OfItsKind(memory) /\ Accounted /\ Behind /\ Over

\* The histories are those of a state with the same queue.
LEMMA FiledStays ==
  ASSUME NEW st \in StateRecord, Filed(st), NEW new, SameIds(st, new)
  PROVE  Filed(new)
<1>1. /\ \A n \in 1..Len(st.completed) : st.completed[n] \in Ids
      /\ \A n \in 1..Len(st.dead_letters) : st.dead_letters[n] \in Ids
  BY DEF StateRecord
<1> QED
  BY <1>1 DEF Filed, Closed, NoRepeat, SameIds

\* Polling makes no item of an id that is filed.
LEMMA FiledAfterPoll ==
  ASSUME NEW st \in StateRecord, Filed(st), NEW new \in StateRecord, PolledQueue(st, new)
  PROVE  Filed(new)
<1>1. /\ \A n \in 1..Len(st.completed) : st.completed[n] \in Ids
      /\ \A n \in 1..Len(st.dead_letters) : st.dead_letters[n] \in Ids
      /\ st.cursor \in Int /\ new.cursor \in Int /\ st.cursor <= new.cursor
  BY DEF StateRecord, PolledQueue
<1>2. ASSUME NEW i \in Ids, i <= st.cursor
      PROVE  i <= new.cursor /\ (HasItem(new, i) <=> HasItem(st, i))
  BY <1>1, <1>2 DEF PolledQueue, Ids
<1> QED
  BY <1>1, <1>2 DEF Filed, Closed, NoRepeat, PolledQueue

\* What is in a history after an id was added and the oldest were forgotten.
LEMMA AppendedHistory ==
  ASSUME NEW s \in Seq(Ids), NEW i \in Ids, NoRepeat(s), \A n \in 1..Len(s) : s[n] # i
  PROVE  LET t == Trimmed(Append(s, i)) IN
         /\ NoRepeat(t)
         /\ \A n \in 1..Len(t) : t[n] = i \/ \E m \in 1..Len(s) : t[n] = s[m]
<1> DEFINE a == Append(s, i)
<1>1. /\ a \in Seq(Ids) /\ Len(a) = Len(s) + 1 /\ Len(s) \in Nat
      /\ \A n \in 1..Len(s) : a[n] = s[n]
      /\ a[Len(a)] = i
  OBVIOUS
<1> HIDE DEF a
<1>2. \A n \in 1..Len(a) : (n \in 1..Len(s) /\ a[n] = s[n]) \/ (n = Len(s) + 1 /\ a[n] = i)
  BY <1>1
<1>3. NoRepeat(a)
  BY <1>2 DEF NoRepeat
<1>4. CASE ~(Len(a) > MaxHistory)
  BY <1>2, <1>3, <1>4 DEF Trimmed, a
<1>5. CASE Len(a) > MaxHistory
  <2> DEFINE low == Len(a) - MaxHistory + 1
             t == SubSeq(a, low, Len(a))
  <2>1. Trimmed(a) = t /\ low \in 1..Len(a)
    BY <1>1, <1>5, DispatcherAssumption DEF Trimmed
  <2>2. Len(t) = MaxHistory /\ \A n \in 1..Len(t) : low + n - 1 \in 1..Len(a)
                                                    /\ t[n] = a[low + n - 1]
    <3>1. /\ Len(t) = IF low <= Len(a) THEN Len(a) - low + 1 ELSE 0
          /\ \A n \in 1..(Len(a) - low + 1) : t[n] = a[low + n - 1]
      <4>1. a \in Seq(Ids) /\ low \in 1..(Len(a) + 1) /\ Len(a) \in 0..Len(a)
        BY <1>1, <2>1
      <4> HIDE DEF low
      <4> QED
        BY <4>1, SubSeqProperties
    <3>2. Len(a) - low + 1 = MaxHistory
      BY <1>1, DispatcherAssumption
    <3> HIDE DEF t
    <3> QED
      BY <1>1, <2>1, <3>1, <3>2, DispatcherAssumption
  <2>3. PICK lo \in 1..Len(a) : lo = low
    BY <2>1
  <2> HIDE DEF t, low
  <2>4. NoRepeat(t)
    <3> SUFFICES ASSUME NEW m \in 1..Len(t), NEW n \in 1..Len(t), t[m] = t[n]
                 PROVE  m = n
      BY DEF NoRepeat
    <3>1. a[lo + m - 1] = a[lo + n - 1] /\ lo + m - 1 \in 1..Len(a) /\ lo + n - 1 \in 1..Len(a)
      BY <2>2, <2>3
    <3>2. lo + m - 1 = lo + n - 1
      BY <1>3, <3>1 DEF NoRepeat
    <3> QED
      BY <1>1, <2>2, <2>3, <3>2, DispatcherAssumption
  <2> QED
    BY <1>2, <2>1, <2>2, <2>4 DEF a
<1> QED
  BY <1>4, <1>5

\* An item that is filed is not in a history yet, and leaves the open ones.
LEMMA FiledAfterFiling ==
  ASSUME NEW st, GoodState(st), Filed(st), NEW i \in Ids, NEW new, FiledQueue(st, new, i)
  PROVE  Filed(new)
<1>1. /\ st.completed \in Seq(Ids) /\ st.dead_letters \in Seq(Ids) /\ st.cursor \in Int
      /\ HasItem(st, i)
  BY DEF GoodState, StateRecord, FiledQueue, HasItem
<1>2. i <= st.cursor
  BY <1>1 DEF GoodState, HasItem, NoItem, Ids
<1>3. /\ \A n \in 1..Len(st.completed) : st.completed[n] # i
      /\ \A n \in 1..Len(st.dead_letters) : st.dead_letters[n] # i
  BY <1>1 DEF Filed, Closed
<1>4. \A j \in Ids : (j = i \/ ~HasItem(st, j)) => ~HasItem(new, j)
  BY DEF FiledQueue, HasItem
<1>5. PICK c : c = Trimmed(Append(st.completed, i))
  OBVIOUS
<1>6. PICK d : d = Trimmed(Append(st.dead_letters, i))
  OBVIOUS
<1>7. /\ c \in Seq(Ids) /\ NoRepeat(c)
      /\ \A n \in 1..Len(c) : c[n] = i \/ \E m \in 1..Len(st.completed) : c[n] = st.completed[m]
  BY <1>1, <1>3, <1>5, AppendedHistory, TrimmedIsHistory DEF Filed
<1>8. /\ d \in Seq(Ids) /\ NoRepeat(d)
      /\ \A n \in 1..Len(d) : d[n] = i \/ \E m \in 1..Len(st.dead_letters) : d[n] = st.dead_letters[m]
  BY <1>1, <1>3, <1>6, AppendedHistory, TrimmedIsHistory DEF Filed
<1>9. new.cursor = st.cursor
  BY DEF FiledQueue
<1>10. ASSUME NEW s \in Seq(Ids), NEW t \in Seq(Ids), Closed(st, s),
              \A n \in 1..Len(t) : t[n] = i \/ \E m \in 1..Len(s) : t[n] = s[m]
       PROVE  Closed(new, t)
  <2> SUFFICES ASSUME NEW n \in 1..Len(t)
               PROVE  t[n] <= new.cursor /\ ~HasItem(new, t[n])
    BY DEF Closed
  <2>1. t[n] \in Ids /\ t[n] <= st.cursor /\ (t[n] = i \/ ~HasItem(st, t[n]))
    BY <1>2, <1>10 DEF Closed
  <2> QED
    BY <1>4, <1>9, <2>1
<1>11. /\ Closed(new, st.completed) /\ Closed(new, st.dead_letters)
       /\ Closed(new, c) /\ Closed(new, d)
  BY <1>1, <1>7, <1>8, <1>10 DEF Filed
<1>12. CASE new.completed = c /\ new.dead_letters = st.dead_letters
  BY <1>3, <1>7, <1>11, <1>12 DEF Filed
<1>13. CASE new.completed = st.completed /\ new.dead_letters = d
  BY <1>3, <1>8, <1>11, <1>13 DEF Filed
<1> QED
  BY <1>5, <1>6, <1>12, <1>13 DEF FiledQueue

-----------------------------------------------------------------------------
(* How the steps treat them.                                               *)

\* Filing files the item.
LEMMA FilingFiles ==
  ASSUME NEW st, GoodState(st), NEW i \in Ids, HasItem(st, i),
         NEW new \in {Finished(st, i), Unpublished(st, i)}
  PROVE  /\ FiledQueue(st, new, i)
         /\ \A j \in Ids : HasItem(new, j) => new.items[j] = st.items[j]
<1>1. st \in StateRecord
  BY DEF GoodState
<1>2. /\ \A j \in Ids \ {i} : new.items[j] = st.items[j]
      /\ new.items[i] = NoItem /\ new.cursor = st.cursor
  BY FiledIsGood
<1>3. \/ /\ new.completed = Trimmed(Append(st.completed, i))
         /\ new.dead_letters = st.dead_letters
      \/ /\ new.completed = st.completed
         /\ new.dead_letters = Trimmed(Append(st.dead_letters, i))
  BY <1>1 DEF Finished, Unpublished, StateRecord
<1> QED
  BY <1>2, <1>3 DEF FiledQueue, HasItem, NoItem

\* Polling makes an item of every request it passes.
LEMMA PollingPolls ==
  ASSUME NEW st, GoodState(st), Filed(st), st.cursor <= Len(inbox),
         inbox \in Seq({"request", "malformed", "other"}), Len(inbox) <= MaxMessages
  PROVE  /\ PolledQueue(st, Polled(st))
         /\ Polled(st).cursor = Len(inbox)
         /\ \A i \in Ids : HasItem(Polled(st), i) =>
               \/ Polled(st).items[i] = st.items[i] /\ HasItem(st, i)
               \/ /\ i <= Len(inbox) /\ inbox[i] # "other"
                  /\ inbox[i] = "malformed" => /\ Polled(st).items[i].status = "reply_pending"
                                               /\ Polled(st).items[i].terminal_kind = "rejected"
<1>1. /\ st \in StateRecord /\ st.cursor \in Int /\ st.items \in [Ids -> ItemRecord]
      /\ st.completed \in Seq(Ids) /\ st.dead_letters \in Seq(Ids) /\ Len(inbox) \in Int
  BY DEF GoodState, StateRecord
<1>2. PICK new : new = Polled(st)
  OBVIOUS
<1>3. /\ new.cursor = Len(inbox) /\ new.completed = st.completed
      /\ new.dead_letters = st.dead_letters
      /\ \A i \in Ids : new.items[i] =
            IF ~Enqueued(st, i) THEN st.items[i]
            ELSE IF inbox[i] = "request" THEN [NoItem EXCEPT !.status = "queued"]
            ELSE [NoItem EXCEPT !.status = "reply_pending", !.terminal_kind = "rejected"]
  BY <1>1, <1>2 DEF Polled, CursorAfter, StateRecord
<1>4. ASSUME NEW i \in Ids, i > st.cursor
      PROVE  /\ ~HasItem(st, i)
             /\ Enqueued(st, i) <=> i <= Len(inbox) /\ inbox[i] # "other"
  <2>1. st.items[i] = NoItem
    BY <1>4 DEF GoodState
  <2>2. i \notin Open(st)
    BY <2>1 DEF Open, WithStatus, NoItem
  <2>3. i \notin Elements(st.completed) /\ i \notin Elements(st.dead_letters)
    BY <1>1, <1>4 DEF Elements, Filed, Closed, Ids
  <2>4. i <= Len(inbox) => inbox[i] \in {"request", "malformed", "other"}
    BY DEF Ids
  <2> QED
    BY <1>1, <1>4, <2>1, <2>2, <2>3, <2>4 DEF Enqueued, Known, HasItem, NoItem, Ids
<1>5. ASSUME NEW i \in Ids, ~(i > st.cursor)
      PROVE  new.items[i] = st.items[i]
  BY <1>1, <1>3, <1>5 DEF Enqueued, Ids
<1>6. PolledQueue(st, new)
  <2>1. ASSUME NEW i \in Ids, i > st.cursor
        PROVE  HasItem(new, i) <=> i <= new.cursor /\ inbox[i] # "other"
    BY <1>3, <1>4, <2>1 DEF HasItem, NoItem
  <2>2. ASSUME NEW i \in Ids, i <= st.cursor
        PROVE  HasItem(new, i) <=> HasItem(st, i)
    BY <1>1, <1>5, <2>2 DEF HasItem, Ids
  <2> QED
    BY <1>1, <1>3, <2>1, <2>2 DEF PolledQueue, Ids
<1>7. ASSUME NEW i \in Ids, i > st.cursor, HasItem(new, i)
      PROVE  /\ i <= Len(inbox) /\ inbox[i] # "other"
             /\ inbox[i] = "malformed" => /\ new.items[i].status = "reply_pending"
                                          /\ new.items[i].terminal_kind = "rejected"
  BY <1>3, <1>4, <1>7 DEF HasItem, NoItem
<1>8. ASSUME NEW i \in Ids, ~(i > st.cursor), HasItem(new, i)
      PROVE  new.items[i] = st.items[i] /\ HasItem(st, i)
  BY <1>5, <1>8 DEF HasItem
<1> QED
  BY <1>2, <1>3, <1>6, <1>7, <1>8

\* Messages are added to the thread and never changed.
LEMMA ThreadGrows ==
  ASSUME TypeOK, inbox' = inbox \/ Arrive
  PROVE  /\ Len(inbox) \in Nat /\ Len(inbox') \in Nat /\ Len(inbox) <= Len(inbox')
         /\ \A i \in 1..Len(inbox) : inbox'[i] = inbox[i]
<1>1. inbox \in Seq({"request", "malformed", "other"})
  BY DEF TypeOK
<1>2. CASE Arrive
  <2>1. PICK kind \in {"request", "malformed", "other"} : inbox' = Append(inbox, kind)
    BY <1>2 DEF Arrive
  <2> QED
    BY <1>1, <2>1
<1> QED
  BY <1>1, <1>2

\* So are replies.
LEMMA RepliesGrow ==
  ASSUME TypeOK, NEW i \in Ids, replies[i] # <<>>,
         \/ replies' = replies
         \/ \E j \in Ids, r \in [says : Refusal..MaxAttempts, late : BOOLEAN] : Committed(j, r)
  PROVE  replies'[i] # <<>>
<1>1. CASE replies' = replies
  BY <1>1
<1>2. ASSUME NEW j \in Ids, NEW r \in [says : Refusal..MaxAttempts, late : BOOLEAN],
             Committed(j, r)
      PROVE  replies'[i] # <<>>
  <2>1. PICK s \in Seq([says : Refusal..MaxAttempts, late : BOOLEAN]) : s = replies[i]
    BY DEF TypeOK
  <2>2. replies'[i] = s \/ replies'[i] = Append(s, r)
    BY <1>2, <2>1 DEF Committed, TypeOK
  <2>3. Append(s, r) # <<>>
    <3>1. Len(Append(s, r)) = Len(s) + 1 /\ Len(s) \in Nat
      OBVIOUS
    <3> QED
      BY <3>1
  <2> QED
    BY <2>1, <2>2, <2>3
<1> QED
  BY <1>1, <1>2

\* A state whose items are those of another is of its kind, as the thread grows.
LEMMA KindStays ==
  ASSUME TypeOK, inbox' = inbox \/ Arrive, NEW st, OfItsKind(st), NEW new,
         \A i \in Ids : HasItem(new, i) =>
            /\ HasItem(st, i)
            /\ st.items[i].status = "reply_pending" => new.items[i] = st.items[i]
  PROVE  OfItsKind(new)'
<1> SUFFICES ASSUME NEW i \in Ids, HasItem(new, i)
             PROVE  /\ i <= Len(inbox') /\ inbox'[i] # "other"
                    /\ inbox'[i] = "malformed" => /\ new.items[i].status = "reply_pending"
                                                  /\ new.items[i].terminal_kind = "rejected"
  BY DEF OfItsKind, HasItem
<1>1. i <= Len(inbox) /\ i \in Nat /\ i >= 1
  BY DEF OfItsKind, Ids
<1>2. i <= Len(inbox') /\ inbox'[i] = inbox[i]
  BY <1>1, ThreadGrows
<1> QED
  BY <1>2 DEF OfItsKind

\* The relations between the two states depend on the queue only.
LEMMA BetweenStays ==
  ASSUME NEW st, NEW st2, NEW new, NEW new2, SameIds(st, st2), SameIds(new, new2)
  PROVE  /\ SameIds(st, new) => SameIds(st2, new2)
         /\ \A i \in Ids : FiledQueue(st, new, i) => FiledQueue(st2, new2, i)
         /\ TypeOK /\ (inbox' = inbox \/ Arrive) /\ new.cursor <= Len(inbox)
            /\ st.cursor \in Int /\ new.cursor \in Int /\ PolledQueue(st, new)
               => PolledQueue(st2, new2)'
<1>1. SameIds(st, new) => SameIds(st2, new2)
  BY DEF SameIds
<1>2. \A i \in Ids : FiledQueue(st, new, i) => FiledQueue(st2, new2, i)
  BY DEF SameIds, FiledQueue
<1>3. ASSUME TypeOK, inbox' = inbox \/ Arrive, new.cursor <= Len(inbox),
             st.cursor \in Int, new.cursor \in Int, PolledQueue(st, new)
      PROVE  PolledQueue(st2, new2)'
  <2>1. ASSUME NEW i \in Ids, i <= new.cursor
        PROVE  inbox'[i] = inbox[i]
    <3>1. i \in 1..Len(inbox)
      BY <1>3, <2>1, ThreadGrows DEF Ids
    <3> QED
      BY <1>3, <3>1, ThreadGrows
  <2>2. /\ st2.cursor <= new2.cursor
        /\ new2.completed = st2.completed /\ new2.dead_letters = st2.dead_letters
    BY <1>3 DEF SameIds, PolledQueue
  <2>3. ASSUME NEW i \in Ids
        PROVE  IF i <= st2.cursor
               THEN HasItem(new2, i) <=> HasItem(st2, i)
               ELSE HasItem(new2, i) <=> i <= new2.cursor /\ inbox'[i] # "other"
    <3>1. IF i <= st.cursor
          THEN HasItem(new, i) <=> HasItem(st, i)
          ELSE HasItem(new, i) <=> i <= new.cursor /\ inbox[i] # "other"
      BY <1>3 DEF PolledQueue
    <3> QED
      BY <2>1, <3>1 DEF SameIds
  <2> QED
    BY <2>2, <2>3 DEF PolledQueue, HasItem
<1> QED
  BY <1>1, <1>2, <1>3

\* Steps that leave the queue alone.
LEMMA KeptQueue ==
  ASSUME IInv, QueueInv, QueueKept, TypeOK'
  PROVE  QueueInv'
<1>1. /\ disk \in StateRecord /\ memory \in StateRecord /\ TypeOK
      /\ disk.cursor \in Int /\ memory.cursor \in Int /\ Len(inbox) \in Int
      /\ disk.cursor <= memory.cursor /\ memory.cursor <= Len(inbox)
  <2>1. TypeOK
    BY DEF IInv
  <2>2. disk \in StateRecord /\ memory \in StateRecord /\ Len(inbox) \in Int
    BY <2>1 DEF TypeOK
  <2>3. disk.cursor \in Int /\ memory.cursor \in Int
    BY <2>2 DEF StateRecord
  <2> QED
    BY <2>1, <2>2, <2>3 DEF IInv, Stage
<1>2. SameIds(disk, disk') /\ SameIds(memory, memory') /\ (inbox' = inbox \/ Arrive)
      /\ UNCHANGED <<unpostable, skipped>>
  BY DEF QueueKept, SameQueue, LatePostCommits
<1>3. PICK d : d = disk'
  OBVIOUS
<1>4. PICK m : m = memory'
  OBVIOUS
<1>5. Between'
  <2>1. CASE pc \in {"recover", "save"}
    <3>1. pc' \in {"recover", "save"} /\ PolledQueue(disk, memory)
      BY <2>1 DEF QueueKept, QueueInv, Between
    <3>2. PolledQueue(d, m)'
      BY <1>1, <1>2, <1>3, <1>4, <3>1, BetweenStays
    <3> QED
      BY <1>3, <1>4, <3>1, <3>2 DEF Between
  <2>2. CASE pc = "finish"
    <3>1. pc' = "finish" /\ \E i \in Ids : FiledQueue(disk, memory, i)
      BY <2>2 DEF QueueKept, QueueInv, Between
    <3>2. \E i \in Ids : FiledQueue(d, m, i)
      BY <1>2, <1>3, <1>4, <3>1, BetweenStays
    <3> QED
      BY <1>3, <1>4, <3>1, <3>2 DEF Between
  <2>3. CASE pc \notin {"recover", "save", "finish"}
    <3>1. pc' \notin {"recover", "save", "finish"} /\ SameIds(disk, memory)
      BY <2>3 DEF QueueKept, QueueInv, Between
    <3>2. SameIds(d, m)
      BY <1>2, <1>3, <1>4, <3>1, BetweenStays
    <3> QED
      BY <1>3, <1>4, <3>1, <3>2 DEF Between
  <2> QED
    BY <2>1, <2>2, <2>3
<1>6. Filed(disk)' /\ Filed(memory)'
  <2>1. Filed(d) /\ Filed(m)
    BY <1>1, <1>2, <1>3, <1>4, FiledStays DEF QueueInv
  <2> QED
    BY <1>3, <1>4, <2>1
<1>7. OfItsKind(disk)' /\ OfItsKind(memory)'
  <2>1. ASSUME NEW st, OfItsKind(st), NEW new, SameQueue(st, new)
        PROVE  OfItsKind(new)'
    <3>1. \A i \in Ids : HasItem(new, i) =>
            /\ HasItem(st, i)
            /\ st.items[i].status = "reply_pending" => new.items[i] = st.items[i]
      BY <2>1 DEF SameQueue, SameIds
    <3> QED
      BY <1>1, <1>2, <2>1, <3>1, KindStays
  <2>2. OfItsKind(m)'
    <3>1. SameQueue(memory, m)
      BY <1>4 DEF QueueKept
    <3> QED
      BY <2>1, <3>1 DEF QueueInv
  <2>3. OfItsKind(d)'
    <3>1. CASE d = m
      BY <2>2, <3>1
    <3>2. CASE SameQueue(disk, d)
      BY <2>1, <3>2 DEF QueueInv
    <3> QED
      BY <1>3, <1>4, <3>1, <3>2 DEF QueueKept
  <2> QED
    BY <1>3, <1>4, <2>2, <2>3
<1>8. ASSUME NEW i \in Ids, replies[i] # <<>>
      PROVE  replies'[i] # <<>>
  <2>1. CASE UNCHANGED replies \/ Arrive
    BY <1>8, <2>1 DEF Arrive
  <2>2. ASSUME NEW j \in Ids, LatePostCommits(j)
        PROVE  replies'[i] # <<>>
    <3>1. Head(late[j]) \in Refusal..MaxAttempts
      <4>1. PICK s \in Seq(Refusal..MaxAttempts) : s = late[j]
        BY <1>1 DEF TypeOK
      <4>2. s # <<>>
        BY <2>2, <4>1 DEF LatePostCommits
      <4> QED
        BY <4>1, <4>2, HeadTailProperties
    <3>2. [says |-> Head(late[j]), late |-> TRUE]
             \in [says : Refusal..MaxAttempts, late : BOOLEAN]
      BY <3>1
    <3> QED
      BY <1>1, <1>8, <2>2, <3>2, RepliesGrow DEF LatePostCommits
  <2> QED
    BY <2>1, <2>2 DEF QueueKept
<1>9. Accounted'
  <2> SUFFICES ASSUME NEW i \in Ids, i <= disk'.cursor, inbox'[i] # "other"
               PROVE  \/ replies'[i] # <<>> \/ HasItem(disk', i)
                      \/ i \in unpostable' \/ i <= skipped'
    BY DEF Accounted, HasItem
  <2>1. i <= disk.cursor
    BY <1>2 DEF SameIds
  <2>2. i \in 1..Len(inbox)
    BY <1>1, <2>1 DEF Ids
  <2>3. inbox[i] # "other"
    BY <1>1, <1>2, <2>2, ThreadGrows
  <2> QED
    BY <1>2, <1>8, <2>1, <2>3 DEF QueueInv, Accounted, SameIds
<1>10. Behind'
  BY <1>2 DEF QueueInv, Behind, SameIds
<1>11. Over'
  <2> SUFFICES ASSUME pc' = "finish", NEW i \in Ids, HasItem(disk', i), ~HasItem(memory', i)
               PROVE  replies'[i] # <<>> \/ i \in unpostable'
    BY DEF Over, HasItem
  <2>1. pc = "finish" /\ HasItem(disk, i) /\ ~HasItem(memory, i)
    BY <1>2 DEF QueueKept, SameIds
  <2> QED
    BY <1>2, <1>8, <2>1 DEF QueueInv, Over
<1> QED
  BY <1>5, <1>6, <1>7, <1>9, <1>10, <1>11 DEF QueueInv

\* What was not saved is dropped.
LEMMA DroppedQueue ==
  ASSUME IInv, QueueInv, Dropped, TypeOK'
  PROVE  QueueInv'
<1>1. /\ disk' = disk /\ memory' = disk /\ pc' = "idle" /\ TypeOK
      /\ UNCHANGED <<inbox, unpostable, skipped>>
  BY DEF Dropped, IInv
<1>2. ASSUME NEW i \in Ids, replies[i] # <<>>
      PROVE  replies'[i] # <<>>
  <2>1. CASE PostUnanswered
    <3>1. Current \in Ids /\ Reply(memory.items[Current]) \in Refusal..MaxAttempts
      BY <2>1, CurrentReply DEF PostUnanswered
    <3>2. [says |-> Reply(memory.items[Current]), late |-> FALSE]
             \in [says : Refusal..MaxAttempts, late : BOOLEAN]
      BY <3>1
    <3> QED
      BY <1>1, <1>2, <2>1, <3>1, <3>2, RepliesGrow DEF PostUnanswered
  <2> QED
    BY <1>2, <2>1 DEF Dropped, PostOutlivesClient
<1>3. Between'
  BY <1>1, SameState DEF Between, SameQueue
<1>4. Filed(disk)' /\ Filed(memory)' /\ OfItsKind(disk)' /\ OfItsKind(memory)'
  BY <1>1 DEF QueueInv, OfItsKind, HasItem
<1>5. Accounted'
  BY <1>1, <1>2 DEF QueueInv, Accounted, HasItem
<1>6. Behind' /\ Over'
  BY <1>1 DEF QueueInv, Behind, Over
<1> QED
  BY <1>3, <1>4, <1>5, <1>6 DEF QueueInv

\* The current item is filed in memory: it is answered, or cannot be.
LEMMA FilingQueue ==
  ASSUME IInv, QueueInv, Filing, TypeOK'
  PROVE  QueueInv'
<1>1. /\ pc \in {"find", "post"} /\ pc' = "finish" /\ disk' = disk /\ memory = disk
      /\ memory' \in {Finished(memory, Current), Unpublished(memory, Current)}
      /\ UNCHANGED <<inbox, skipped>> /\ TypeOK
  BY DEF Filing, IInv, Stage, Synced
<1>2. PICK st : st = disk
  OBVIOUS
<1>3. PICK i \in Ids : i = Current /\ st.items[i].status \in {"result_ready", "reply_pending"}
  BY <1>1, <1>2, Standing
<1>4. PICK new : new = memory'
  OBVIOUS
<1>5. /\ GoodState(st) /\ Filed(st) /\ OfItsKind(st) /\ HasItem(st, i)
      /\ new \in {Finished(st, i), Unpublished(st, i)}
  BY <1>1, <1>2, <1>3, <1>4 DEF IInv, Good, QueueInv, HasItem
<1>6. /\ FiledQueue(st, new, i)
      /\ \A j \in Ids : HasItem(new, j) => new.items[j] = st.items[j]
  BY <1>5, FilingFiles
<1>7. ASSUME NEW j \in Ids, replies[j] # <<>>
      PROVE  replies'[j] # <<>>
  <2>1. CASE PostAnswered
    <3>1. Current \in Ids /\ Reply(memory.items[Current]) \in Refusal..MaxAttempts
      BY <2>1, CurrentReply DEF PostAnswered
    <3>2. [says |-> Reply(memory.items[Current]), late |-> FALSE]
             \in [says : Refusal..MaxAttempts, late : BOOLEAN]
      BY <3>1
    <3> QED
      BY <1>1, <1>7, <2>1, <3>1, <3>2, RepliesGrow DEF PostAnswered
  <2> QED
    BY <1>7, <2>1 DEF Filing, PostRejected
<1>8. Between'
  <2>1. FiledQueue(disk', memory', i)
    BY <1>1, <1>2, <1>4, <1>6
  <2> QED
    BY <1>1, <2>1 DEF Between
<1>9. Filed(disk)' /\ Filed(memory)'
  <2>1. Filed(new)
    BY <1>5, <1>6, FiledAfterFiling
  <2> QED
    BY <1>1, <1>2, <1>4, <1>5, <2>1
<1>10. OfItsKind(disk)' /\ OfItsKind(memory)'
  <2>1. \A j \in Ids : HasItem(new, j) =>
            /\ HasItem(st, j)
            /\ st.items[j].status = "reply_pending" => new.items[j] = st.items[j]
    BY <1>6 DEF HasItem
  <2>2. OfItsKind(new)' /\ OfItsKind(st)'
    BY <1>1, <1>5, <2>1, KindStays
  <2> QED
    BY <1>1, <1>2, <1>4, <2>2
<1>11. unpostable \subseteq unpostable' /\ unpostable' \subseteq unpostable \cup {i}
  BY <1>3 DEF Filing, PostAnswered, PostRejected
<1>12. Accounted'
  BY <1>1, <1>7, <1>11 DEF QueueInv, Accounted, HasItem
<1>13. Behind'
  <2>1. i <= st.cursor
    BY <1>5 DEF GoodState, StateRecord, HasItem, NoItem, Ids
  <2> QED
    BY <1>1, <1>2, <1>11, <2>1 DEF QueueInv, Behind
<1>14. Over'
  <2>1. replies'[i] # <<>> \/ i \in unpostable'
    <3>1. CASE PostAnswered
      <4>1. pc = "post" /\ Reply(memory.items[i]) \in Refusal..MaxAttempts
        BY <1>3, <3>1, CurrentReply DEF PostAnswered
      <4>2. PICK r \in [says : Refusal..MaxAttempts, late : BOOLEAN] :
               replies' = [replies EXCEPT ![i] = Append(@, r)]
        BY <1>3, <3>1, <4>1 DEF PostAnswered, Committed
      <4>3. PICK s \in Seq([says : Refusal..MaxAttempts, late : BOOLEAN]) :
               s = replies[i] /\ replies'[i] = Append(s, r)
        BY <1>1, <4>2 DEF TypeOK
      <4>4. Len(Append(s, r)) = Len(s) + 1 /\ Len(s) \in Nat
        OBVIOUS
      <4> QED
        BY <4>3, <4>4
    <3>2. CASE PostRejected
      BY <1>3, <3>2 DEF PostRejected
    <3> QED
      BY <1>3, <3>1, <3>2 DEF Filing
  <2> QED
    BY <1>1, <1>2, <1>4, <1>6, <2>1 DEF Over, FiledQueue, HasItem
<1> QED
  BY <1>8, <1>9, <1>10, <1>12, <1>13, <1>14 DEF QueueInv

\* A poll.
LEMMA PolledIsQueue ==
  ASSUME IInv, QueueInv, Poll
  PROVE  QueueInv'
<1>1. /\ pc = "idle" /\ pc' = "recover" /\ disk' = disk /\ memory' = Polled(disk)
      /\ UNCHANGED <<inbox, replies, unpostable, skipped>> /\ TypeOK
  BY DEF Poll, IInv, service
<1>2. PICK st : st = disk
  OBVIOUS
<1>3. PICK new : new = Polled(st)
  OBVIOUS
<1>4. /\ GoodState(st) /\ Filed(st) /\ OfItsKind(st)
      /\ st.cursor <= Len(inbox) /\ inbox \in Seq({"request", "malformed", "other"})
      /\ Len(inbox) <= MaxMessages
  BY <1>1, <1>2 DEF IInv, Good, QueueInv, Stage, Synced, TypeOK
<1>5. /\ PolledQueue(st, new)
      /\ \A i \in Ids : HasItem(new, i) =>
            \/ new.items[i] = st.items[i] /\ HasItem(st, i)
            \/ /\ i <= Len(inbox) /\ inbox[i] # "other"
               /\ inbox[i] = "malformed" => /\ new.items[i].status = "reply_pending"
                                            /\ new.items[i].terminal_kind = "rejected"
  BY <1>3, <1>4, PollingPolls
<1>6. GoodState(new)
  BY <1>3, <1>4, PolledIsGood
<1>7. Between'
  <2>1. PolledQueue(st, new)'
    BY <1>1, <1>5 DEF PolledQueue, HasItem
  <2> QED
    BY <1>1, <1>2, <1>3, <2>1 DEF Between
<1>8. Filed(disk)' /\ Filed(memory)'
  <2>1. Filed(new)
    BY <1>4, <1>5, <1>6, FiledAfterPoll DEF GoodState
  <2> QED
    BY <1>1, <1>2, <1>3, <1>4, <2>1
<1>9. OfItsKind(disk)' /\ OfItsKind(memory)'
  <2>1. OfItsKind(new)
    BY <1>4, <1>5 DEF OfItsKind
  <2>2. OfItsKind(new)' /\ OfItsKind(st)'
    BY <1>1, <1>4, <2>1 DEF OfItsKind, HasItem
  <2> QED
    BY <1>1, <1>2, <1>3, <2>2
<1>10. Accounted' /\ Behind' /\ Over'
  BY <1>1 DEF QueueInv, Accounted, Behind, Over, HasItem
<1> QED
  BY <1>7, <1>8, <1>9, <1>10 DEF QueueInv

\* Before there is a state file, nothing was refused by the service.
LEMMA NothingYet ==
  ASSUME IInv, QueueInv, skipped = NoStateFile
  PROVE  /\ disk = EmptyState /\ unpostable = {} /\ disk.cursor = 0
         /\ \A i \in Ids : ~HasItem(disk, i) /\ replies[i] = <<>>
<1>1. disk = EmptyState
  BY DEF IInv, Stage
<1>2. disk.cursor = 0 /\ \A i \in Ids : ~HasItem(disk, i)
  BY <1>1 DEF EmptyState, HasItem, NoItem
<1>3. \A i \in Ids : ~(i <= disk.cursor) /\ i > disk.cursor
  BY <1>2 DEF Ids
<1>4. unpostable \subseteq Ids
  BY DEF IInv, TypeOK
<1>5. unpostable = {}
  BY <1>3, <1>4 DEF QueueInv, Behind
<1>6. \A i \in Ids : replies[i] = <<>>
  BY <1>3 DEF IInv, Good, Linked, Unanswered
<1> QED
  BY <1>1, <1>2, <1>5, <1>6

\* The state file is set up so that what is in the thread is skipped.
LEMMA PrimedQueue ==
  ASSUME IInv, QueueInv, Prime
  PROVE  QueueInv'
<1>1. /\ pc = "idle" /\ pc' = "idle" /\ skipped = NoStateFile /\ skipped' = Len(inbox)
      /\ disk' = [EmptyState EXCEPT !.cursor = Len(inbox)] /\ memory' = disk'
      /\ UNCHANGED <<inbox, replies, unpostable>>
  BY DEF Prime, Save, service
<1>2. PICK new : new = [EmptyState EXCEPT !.cursor = Len(inbox)]
  OBVIOUS
<1>3. /\ new.cursor = Len(inbox) /\ new.completed = <<>> /\ new.dead_letters = <<>>
      /\ \A i \in Ids : ~HasItem(new, i)
  BY <1>2 DEF EmptyState, HasItem, NoItem
<1>4. Filed(new) /\ OfItsKind(new)'
  BY <1>3 DEF Filed, Closed, NoRepeat, OfItsKind, HasItem
<1>5. Between'
  BY <1>1, SameState DEF Between, SameQueue
<1>6. Behind'
  <2>1. Len(inbox) \in Int
    BY DEF IInv, TypeOK
  <2> QED
    BY <1>1, <1>2, <1>3, <2>1, NothingYet DEF Behind
<1>7. Accounted' /\ Over'
  BY <1>1, <1>2, <1>3 DEF Accounted, Over
<1> QED
  BY <1>1, <1>2, <1>4, <1>5, <1>6, <1>7 DEF QueueInv

\* The poll is saved.
LEMMA SavedQueue ==
  ASSUME IInv, QueueInv, SaveRecovered
  PROVE  QueueInv'
<1>1. /\ pc = "save" /\ pc' = "choose" /\ disk' = memory /\ memory' = memory
      /\ skipped' = IF skipped = NoStateFile THEN 0 ELSE skipped
      /\ UNCHANGED <<inbox, replies, unpostable>>
  BY DEF SaveRecovered, Save, service
<1>2. PolledQueue(disk, memory)
  BY <1>1 DEF QueueInv, Between
<1>3. disk.cursor \in Nat /\ memory.cursor \in Nat /\ skipped \in Int
  BY DEF IInv, TypeOK, StateRecord
<1>4. disk.cursor <= memory.cursor
  BY <1>2 DEF PolledQueue
<1>5. Between'
  BY <1>1, SameState DEF Between, SameQueue
<1>6. Filed(disk)' /\ Filed(memory)' /\ OfItsKind(disk)' /\ OfItsKind(memory)'
  BY <1>1 DEF QueueInv, OfItsKind, HasItem
<1>7. Behind'
  <2>1. \A i \in unpostable : i \in Ids /\ i <= disk.cursor
    BY DEF QueueInv, Behind, IInv, TypeOK
  <2>2. skipped' <= memory.cursor
    BY <1>1, <1>3, <1>4 DEF QueueInv, Behind
  <2>3. \A i \in unpostable : i <= memory.cursor
    BY <1>3, <1>4, <2>1 DEF Ids
  <2> QED
    BY <1>1, <2>2, <2>3 DEF Behind
<1>8. Accounted'
  <2> SUFFICES ASSUME NEW i \in Ids, i <= memory.cursor, inbox[i] # "other"
               PROVE  \/ replies[i] # <<>> \/ HasItem(memory, i)
                      \/ i \in unpostable \/ i <= skipped'
    BY <1>1 DEF Accounted, HasItem
  <2>1. CASE i <= disk.cursor
    <3>1. \/ replies[i] # <<>> \/ HasItem(disk, i) \/ i \in unpostable \/ i <= skipped
      BY <2>1 DEF QueueInv, Accounted
    <3>2. i <= skipped => i <= skipped'
      BY <1>1, <1>3 DEF NoStateFile, Ids
    <3> QED
      BY <1>2, <2>1, <3>1, <3>2 DEF PolledQueue
  <2>2. CASE ~(i <= disk.cursor)
    BY <1>2, <2>2 DEF PolledQueue
  <2> QED
    BY <2>1, <2>2
<1>9. Over'
  BY <1>1 DEF Over
<1> QED
  BY <1>5, <1>6, <1>7, <1>8, <1>9 DEF QueueInv

\* What was filed is saved.
LEMMA FinishedQueue ==
  ASSUME IInv, QueueInv, FinishPublication
  PROVE  QueueInv'
<1>1. /\ pc = "finish" /\ pc' = "idle" /\ disk' = memory /\ memory' = memory
      /\ UNCHANGED <<inbox, replies, unpostable, skipped>>
  BY DEF FinishPublication, Save, Exit, service
<1>2. memory.cursor = disk.cursor
  BY <1>1 DEF QueueInv, Between, FiledQueue
<1>3. Between'
  BY <1>1, SameState DEF Between, SameQueue
<1>4. Filed(disk)' /\ Filed(memory)' /\ OfItsKind(disk)' /\ OfItsKind(memory)'
  BY <1>1 DEF QueueInv, OfItsKind, HasItem
<1>5. Behind' /\ Over'
  BY <1>1, <1>2 DEF QueueInv, Behind, Over
<1>6. Accounted'
  BY <1>1, <1>2 DEF QueueInv, Accounted, Over, HasItem
<1> QED
  BY <1>3, <1>4, <1>5, <1>6 DEF QueueInv

\* Nothing is filed, and nothing asked, at the beginning.
LEMMA QueueStarts == Init => QueueInv
<1> SUFFICES ASSUME Init
             PROVE  QueueInv
  OBVIOUS
<1>1. /\ disk = EmptyState /\ memory = EmptyState /\ pc = "idle" /\ skipped = NoStateFile
      /\ unpostable = {}
  BY DEF Init
<1>2. /\ disk.cursor = 0 /\ disk.completed = <<>> /\ disk.dead_letters = <<>>
      /\ \A i \in Ids : ~HasItem(disk, i) /\ ~(i <= disk.cursor)
  BY <1>1 DEF EmptyState, HasItem, NoItem, Ids
<1>3. Filed(disk) /\ OfItsKind(disk)
  BY <1>2 DEF Filed, Closed, NoRepeat, OfItsKind
<1>4. Between
  BY <1>1, SameState DEF Between, SameQueue
<1>5. Accounted /\ Over
  BY <1>1, <1>2 DEF Accounted, Over
<1>6. Behind
  BY <1>1, <1>2 DEF Behind, NoStateFile
<1> QED
  BY <1>1, <1>3, <1>4, <1>5, <1>6 DEF QueueInv

\* Every step keeps the queue.
LEMMA QueueIsPreserved == IInv /\ QueueInv /\ [Next]_vars => QueueInv'
<1> SUFFICES ASSUME IInv, QueueInv, [Next]_vars
             PROVE  QueueInv'
  OBVIOUS
<1>1. CASE Next
  <2>1. TypeOK'
    BY <1>1, InvariantIsPreserved DEF IInv
  <2>2. Between
    BY DEF QueueInv
  <2> QED
    BY <1>1, <2>1, <2>2, WaysToTheQueue, KeptQueue, DroppedQueue, FilingQueue, PolledIsQueue,
       PrimedQueue, SavedQueue, FinishedQueue
<1>2. CASE UNCHANGED vars
  BY <1>2 DEF vars, service, reviewers, clocks, QueueInv, Between, PolledQueue, OfItsKind,
              Accounted, Behind, Over, HasItem
<1> QED
  BY <1>1, <1>2

\* The queue is kept, in every state.
THEOREM QueueHolds == Spec => []QueueInv
<1>1. Init => QueueInv
  BY QueueStarts
<1>2. IInv /\ QueueInv /\ [Next]_vars => QueueInv'
  BY QueueIsPreserved
<1> QED
  BY <1>1, <1>2, InvariantHolds, PTL DEF Spec

\* The next process can load the state file.
THEOREM StateAlwaysLoads == Spec => []StateLoads
<1>1. IInv /\ QueueInv => StateLoads
  <2> SUFFICES ASSUME IInv, QueueInv
               PROVE  StateLoads
    OBVIOUS
  <2>1. PICK c \in Seq(Ids) : c = disk.completed
    BY DEF IInv, TypeOK, StateRecord
  <2>2. PICK d \in Seq(Ids) : d = disk.dead_letters
    BY DEF IInv, TypeOK, StateRecord
  <2>3. PICK h : h \in Seq(Ids) /\ h = c \o d
    BY ConcatProperties
  <2>4. /\ Len(c) \in Nat /\ Len(d) \in Nat /\ Len(h) = Len(c) + Len(d)
        /\ \A n \in 1..Len(h) : \/ n \in 1..Len(c) /\ h[n] = c[n]
                                \/ n - Len(c) \in 1..Len(d) /\ h[n] = d[n - Len(c)]
    BY <2>3, ConcatProperties
  <2>5. Filed(disk)
    BY DEF QueueInv
  <2>6. NoRepeat(h)
    <3> SUFFICES ASSUME NEW m \in 1..Len(h), NEW n \in 1..Len(h), h[m] = h[n]
                 PROVE  m = n
      BY DEF NoRepeat
    <3>1. NoRepeat(c) /\ NoRepeat(d) /\ \A k \in 1..Len(c), l \in 1..Len(d) : c[k] # d[l]
      BY <2>1, <2>2, <2>5 DEF Filed
    <3>2. CASE m \in 1..Len(c) /\ h[m] = c[m]
      BY <2>4, <3>1, <3>2 DEF NoRepeat
    <3>3. CASE m - Len(c) \in 1..Len(d) /\ h[m] = d[m - Len(c)]
      <4>1. CASE n \in 1..Len(c) /\ h[n] = c[n]
        BY <3>1, <3>3, <4>1
      <4>2. CASE n - Len(c) \in 1..Len(d) /\ h[n] = d[n - Len(c)]
        <5>1. m - Len(c) = n - Len(c)
          BY <3>1, <3>3, <4>2 DEF NoRepeat
        <5> QED
          BY <2>4, <5>1
      <4> QED
        BY <2>4, <4>1, <4>2
    <3> QED
      BY <2>4, <3>2, <3>3
  <2>7. Cardinality(Elements(h)) = Len(h)
    <3>1. PICK n : n \in Nat /\ n = Len(h)
      BY <2>3
    <3>2. PICK S : S = 1..n
      OBVIOUS
    <3>3. IsFiniteSet(S) /\ Cardinality(S) = n
      <4>1. 1 \in Int /\ n \in Int
        BY <3>1
      <4>2. IsFiniteSet(1..n) /\ Cardinality(1..n) = IF 1 > n THEN 0 ELSE n - 1 + 1
        BY <4>1, FS_Interval
      <4>3. (IF 1 > n THEN 0 ELSE n - 1 + 1) = n
        BY <3>1
      <4> QED
        BY <3>2, <4>2, <4>3
    <3>4. PICK T : T = Elements(h)
      OBVIOUS
    <3>5. PICK f : f = [m \in S |-> h[m]]
      OBVIOUS
    <3>6. f \in Bijection(S, T)
      <4>1. \A m \in S : f[m] \in T
        BY <3>1, <3>2, <3>4, <3>5 DEF Elements
      <4>2. f \in [S -> T]
        BY <3>5, <4>1
      <4>3. \A a, b \in S : f[a] = f[b] => a = b
        BY <2>6, <3>1, <3>2, <3>5 DEF NoRepeat
      <4>4. \A t \in T : \E m \in S : f[m] = t
        BY <3>1, <3>2, <3>4, <3>5 DEF Elements
      <4> QED
        BY <4>2, <4>3, <4>4, Fun_IsBij, Zenon
    <3>7. ExistsBijection(S, T)
      BY <3>6, Zenon DEF ExistsBijection
    <3> QED
      BY <3>1, <3>3, <3>4, <3>7, FS_Bijection
  <2>8. Open(disk) \cap Elements(h) = {}
    <3> SUFFICES ASSUME NEW i \in Open(disk), NEW n \in 1..Len(h), h[n] = i
                 PROVE  FALSE
      BY DEF Elements
    <3>1. HasItem(disk, i)
      BY DEF Open, WithStatus, HasItem
    <3> QED
      BY <2>1, <2>2, <2>4, <2>5, <3>1 DEF Filed, Closed
  <2> QED
    BY <2>1, <2>2, <2>3, <2>7, <2>8 DEF StateLoads
<1> QED
  BY <1>1, InvariantHolds, QueueHolds, PTL

-----------------------------------------------------------------------------
(* POSTs that outlive their clients.                                       *)

ReplyRecord == [says : Refusal..MaxAttempts, late : BOOLEAN]
LateIn(s)   == {n \in 1..Len(s) : s[n].late}

\* Late replies are counted one by one.
LEMMA LateInAppended ==
  ASSUME NEW s \in Seq(ReplyRecord), NEW x \in ReplyRecord
  PROVE  /\ IsFiniteSet(LateIn(s)) /\ Cardinality(LateIn(s)) \in Nat
         /\ Cardinality(LateIn(Append(s, x))) = Cardinality(LateIn(s)) + IF x.late THEN 1 ELSE 0
<1>1. PICK k \in Nat : k = Len(s)
  OBVIOUS
<1>2. /\ Len(Append(s, x)) = k + 1 /\ Append(s, x)[k + 1] = x
      /\ \A n \in 1..k : Append(s, x)[n] = s[n]
  BY <1>1
<1>3. PICK L : L = LateIn(s)
  OBVIOUS
<1>4. IsFiniteSet(L) /\ Cardinality(L) \in Nat
  <2>1. PICK S : S = 1..k
    OBVIOUS
  <2>2. IsFiniteSet(S) /\ L \in SUBSET S
    BY <1>1, <1>3, <2>1, FS_Interval DEF LateIn
  <2> QED
    BY <2>2, FS_Subset, FS_CardinalityType
<1>5. LateIn(Append(s, x)) = IF x.late THEN L \cup {k + 1} ELSE L
  BY <1>1, <1>2, <1>3 DEF LateIn
<1>6. k + 1 \notin L
  BY <1>1, <1>3 DEF LateIn
<1>7. Cardinality(L \cup {k + 1}) = Cardinality(L) + 1
  BY <1>4, <1>6, FS_AddElement
<1> QED
  BY <1>3, <1>4, <1>5, <1>7

\* If at most one reply is in time, all others are late.
LEMMA AllButOneIsLate ==
  ASSUME NEW s \in Seq(ReplyRecord),
         \A m, n \in 1..Len(s) : ~s[m].late /\ ~s[n].late => m = n
  PROVE  /\ Len(s) <= Cardinality(LateIn(s)) + 1
         /\ (\A n \in 1..Len(s) : s[n].late) => Len(s) = Cardinality(LateIn(s))
<1>1. PICK k \in Nat : k = Len(s)
  OBVIOUS
<1>2. PICK S : S = 1..k
  OBVIOUS
<1>3. IsFiniteSet(S) /\ Cardinality(S) = k
  <2>1. IsFiniteSet(1..k) /\ Cardinality(1..k) = IF 1 > k THEN 0 ELSE k - 1 + 1
    BY FS_Interval
  <2>2. (IF 1 > k THEN 0 ELSE k - 1 + 1) = k
    OBVIOUS
  <2> QED
    BY <1>2, <2>1, <2>2
<1>4. CASE \A n \in 1..Len(s) : s[n].late
  <2>1. LateIn(s) = S
    BY <1>1, <1>2, <1>4 DEF LateIn
  <2> QED
    BY <1>1, <1>3, <2>1
<1>5. CASE \E m \in 1..Len(s) : ~s[m].late
  <2>1. PICK m \in 1..Len(s) : ~s[m].late
    BY <1>5
  <2>2. PICK L : L = LateIn(s)
    OBVIOUS
  <2>3. IsFiniteSet(L) /\ m \notin L /\ S = L \cup {m}
    <3>1. IsFiniteSet(L)
      <4>1. L \in SUBSET S
        BY <1>1, <1>2, <2>2 DEF LateIn
      <4> QED
        BY <1>3, <4>1, FS_Subset
    <3> QED
      BY <1>1, <1>2, <2>1, <2>2, <3>1 DEF LateIn
  <2>4. Cardinality(S) = Cardinality(L) + 1 /\ Cardinality(L) \in Nat
    BY <2>3, FS_AddElement, FS_CardinalityType
  <2> QED
    BY <1>1, <1>3, <1>5, <2>2, <2>4
<1> QED
  BY <1>4, <1>5

\* A reply that comes late answers a request the dispatcher took, and says what can be
\* said of it; and there are not more of them than the bound allows.
LateFew(i) == Len(late[i]) + Cardinality(LateIn(replies[i])) <= MaxLate
LateTaken(i) ==
    late[i] # <<>> =>
        /\ i <= Len(inbox) /\ inbox[i] # "other"
        /\ replies[i] # <<>> \/ HasItem(disk, i) \/ i \in unpostable
        /\ inbox[i] = "malformed" => \A n \in 1..Len(late[i]) : late[i][n] = Refusal
LateAnswers == \A i \in Ids : LateFew(i) /\ LateTaken(i)

\* A reply that was committed is there.
LEMMA AppendedIsThere ==
  ASSUME NEW s \in Seq(ReplyRecord), NEW x
  PROVE  Append(s, x) # <<>>
<1>1. Len(Append(s, x)) = Len(s) + 1 /\ Len(s) \in Nat
  OBVIOUS
<1>2. Len(<<>>) = 0
  OBVIOUS
<1> QED
  BY <1>1, <1>2

\* No step takes more POSTs for late than the bound allows.
LEMMA LateStayFew ==
  ASSUME IInv, LateAnswers, Next, NEW i \in Ids
  PROVE  LateFew(i)'
<1>1. /\ LateFew(i) /\ MaxLate \in Nat
      /\ replies \in [Ids -> Seq(ReplyRecord)] /\ late \in [Ids -> Seq(Refusal..MaxAttempts)]
  BY DispatcherAssumption DEF LateAnswers, IInv, TypeOK, ReplyRecord
<1>2. PICK s \in Seq(ReplyRecord) : s = replies[i]
  BY <1>1
<1>3. PICK l \in Seq(Refusal..MaxAttempts) : l = late[i]
  BY <1>1
<1>4. /\ Len(l) + Cardinality(LateIn(s)) <= MaxLate
      /\ Len(l) \in Nat /\ Cardinality(LateIn(s)) \in Nat
  <2>1. [says |-> Refusal, late |-> TRUE] \in ReplyRecord
    BY DispatcherAssumption DEF ReplyRecord, Refusal
  <2> QED
    BY <1>1, <1>2, <1>3, <2>1, LateInAppended DEF LateFew
<1>5. CASE replies'[i] = s /\ late'[i] = l
  BY <1>4, <1>5 DEF LateFew
<1>6. CASE PostAnswered \/ PostUnanswered
  <2>1. PICK j \in Ids, says \in Refusal..MaxAttempts :
           j = Current /\ says = Reply(memory.items[Current])
    BY <1>6, CurrentReply DEF PostAnswered, PostUnanswered
  <2>2. PICK x \in ReplyRecord : x = [says |-> says, late |-> FALSE]
    BY DEF ReplyRecord
  <2>3. replies' = [replies EXCEPT ![j] = Append(replies[j], x)] /\ late' = late
    BY <1>6, <2>1, <2>2 DEF PostAnswered, PostUnanswered, Committed
  <2>4. CASE i = j
    <3>1. replies'[i] = Append(s, x) /\ late'[i] = l
      BY <1>1, <1>2, <1>3, <2>3, <2>4
    <3>2. Cardinality(LateIn(Append(s, x))) = Cardinality(LateIn(s)) + IF x.late THEN 1 ELSE 0
      BY LateInAppended
    <3>3. Cardinality(LateIn(Append(s, x))) = Cardinality(LateIn(s))
      BY <1>4, <2>2, <3>2
    <3> QED
      BY <1>4, <3>1, <3>3 DEF LateFew
  <2> QED
    BY <1>1, <1>2, <1>3, <1>5, <2>3, <2>4
<1>7. CASE PostOutlivesClient
  <2>1. PICK j \in Ids, says \in Refusal..MaxAttempts :
           j = Current /\ says = Reply(memory.items[Current])
    BY <1>7, CurrentReply DEF PostOutlivesClient
  <2>2. /\ replies' = replies /\ late' = [late EXCEPT ![j] = Append(late[j], says)]
        /\ Len(late[j]) + Cardinality(LateIn(replies[j])) < MaxLate
    BY <1>7, <2>1 DEF PostOutlivesClient, LateIn
  <2>3. CASE i = j
    <3>1. replies'[i] = s /\ late'[i] = Append(l, says) /\ Len(Append(l, says)) = Len(l) + 1
      BY <1>1, <1>2, <1>3, <2>2, <2>3
    <3>2. Len(l) + Cardinality(LateIn(s)) < MaxLate
      BY <1>2, <1>3, <2>2, <2>3
    <3> QED
      BY <1>1, <1>4, <3>1, <3>2 DEF LateFew
  <2> QED
    BY <1>1, <1>2, <1>3, <1>5, <2>2, <2>3
<1>8. ASSUME NEW j \in Ids, LatePostCommits(j)
      PROVE  LateFew(i)'
  <2>1. PICK says \in Refusal..MaxAttempts : says = Head(late[j])
    BY <1>8, HeadTailProperties DEF LatePostCommits, IInv, TypeOK
  <2>2. PICK x \in ReplyRecord : x = [says |-> says, late |-> TRUE]
    BY DEF ReplyRecord
  <2>3. /\ replies' = [replies EXCEPT ![j] = Append(replies[j], x)]
        /\ late' = [late EXCEPT ![j] = Tail(late[j])] /\ late[j] # <<>>
    BY <1>8, <2>1, <2>2 DEF LatePostCommits, Committed
  <2>4. CASE i = j
    <3>1. replies'[i] = Append(s, x) /\ late'[i] = Tail(l) /\ l # <<>>
      BY <1>1, <1>2, <1>3, <2>3, <2>4
    <3>2. Len(Tail(l)) = Len(l) - 1
      BY <3>1
    <3>3. Cardinality(LateIn(Append(s, x))) = Cardinality(LateIn(s)) + IF x.late THEN 1 ELSE 0
      BY LateInAppended
    <3>4. Cardinality(LateIn(Append(s, x))) = Cardinality(LateIn(s)) + 1
      BY <1>4, <2>2, <3>3
    <3> QED
      BY <1>1, <1>4, <3>1, <3>2, <3>4 DEF LateFew
  <2> QED
    BY <1>1, <1>2, <1>3, <1>5, <2>3, <2>4
<1> QED
  BY <1>2, <1>3, <1>5, <1>6, <1>7, <1>8, WaysToReply

\* A step that loses no item without a reply or a refusal leaves what is late taken.
LEMMA TakenStays ==
  ASSUME IInv, LateAnswers, NEW i \in Ids,
         late'[i] = late[i] \/ late'[i] = Tail(late[i]),
         inbox' = inbox \/ Arrive,
         replies[i] # <<>> \/ HasItem(disk, i) \/ i \in unpostable
             => replies'[i] # <<>> \/ HasItem(disk', i) \/ i \in unpostable'
  PROVE  LateTaken(i)'
<1> SUFFICES ASSUME late'[i] # <<>>
             PROVE  LateTaken(i)'
  BY DEF LateTaken
<1>1. PICK l \in Seq(Refusal..MaxAttempts) : l = late[i]
  BY DEF IInv, TypeOK
<1>2. l # <<>> /\ Len(late'[i]) \in Nat
      /\ \A n \in 1..Len(late'[i]) : \E m \in 1..Len(l) : late'[i][n] = l[m]
  <2>1. CASE late'[i] = l
    BY <1>1, <2>1
  <2>2. CASE late'[i] = Tail(l)
    <3>1. l # <<>>
      BY <1>1, <2>2
    <3>2. Len(Tail(l)) = Len(l) - 1 /\ \A n \in 1..Len(Tail(l)) : Tail(l)[n] = l[n + 1]
      BY <1>1, <3>1, HeadTailProperties
    <3>3. \A n \in 1..Len(Tail(l)) : n + 1 \in 1..Len(l)
      BY <1>1, <3>2
    <3> QED
      BY <1>1, <2>2, <3>1, <3>2, <3>3
  <2> QED
    BY <1>1, <2>1, <2>2
<1>3. /\ i <= Len(inbox) /\ inbox[i] # "other"
      /\ replies[i] # <<>> \/ HasItem(disk, i) \/ i \in unpostable
      /\ inbox[i] = "malformed" => \A m \in 1..Len(l) : l[m] = Refusal
  BY <1>1, <1>2 DEF LateAnswers, LateTaken
<1>4. i <= Len(inbox') /\ inbox'[i] = inbox[i]
  <2>1. inbox \in Seq({"request", "malformed", "other"}) /\ Len(inbox) \in Nat
    BY DEF IInv, TypeOK
  <2>2. CASE Arrive
    <3>1. PICK kind \in {"request", "malformed", "other"} : inbox' = Append(inbox, kind)
      BY <2>2 DEF Arrive
    <3> QED
      BY <1>3, <2>1, <3>1 DEF Ids
  <2> QED
    BY <1>3, <2>2
<1> QED
  BY <1>2, <1>3, <1>4 DEF LateTaken, HasItem

\* No step makes a late answer one that nobody asked for.
LEMMA LateStayTaken ==
  ASSUME IInv, QueueInv, LateAnswers, Next, NEW i \in Ids
  PROVE  LateTaken(i)'
<1>1. /\ replies \in [Ids -> Seq(ReplyRecord)] /\ late \in [Ids -> Seq(Refusal..MaxAttempts)]
  BY DEF IInv, TypeOK, ReplyRecord
<1>2. CASE QueueKept
  <2>1. SameIds(disk, disk') /\ unpostable' = unpostable
    BY <1>2 DEF QueueKept
  <2>2. CASE UNCHANGED <<inbox, replies, late>> \/ Arrive
    BY <2>1, <2>2, TakenStays DEF Arrive, SameIds, HasItem, reviewers
  <2>3. ASSUME NEW j \in Ids, LatePostCommits(j)
        PROVE  LateTaken(i)'
    <3>1. PICK says \in Refusal..MaxAttempts : says = Head(late[j])
      BY <2>3, HeadTailProperties DEF LatePostCommits, IInv, TypeOK
    <3>2. PICK x \in ReplyRecord : x = [says |-> says, late |-> TRUE]
      BY DEF ReplyRecord
    <3>3. /\ replies' = [replies EXCEPT ![j] = Append(replies[j], x)]
          /\ late' = [late EXCEPT ![j] = Tail(late[j])] /\ inbox' = inbox
      BY <2>3, <3>1, <3>2 DEF LatePostCommits, Committed
    <3>4. CASE i = j
      <4>1. replies'[i] = Append(replies[i], x) /\ late'[i] = Tail(late[i])
        BY <1>1, <3>3, <3>4
      <4>2. replies'[i] # <<>>
        BY <1>1, <4>1, AppendedIsThere
      <4> QED
        BY <3>3, <4>1, <4>2, TakenStays
    <3>5. CASE i # j
      <4>1. replies'[i] = replies[i] /\ late'[i] = late[i]
        BY <1>1, <3>3, <3>5
      <4> QED
        BY <2>1, <3>3, <4>1, TakenStays DEF SameIds, HasItem
    <3> QED
      BY <3>4, <3>5
  <2> QED
    BY <1>2, <2>2, <2>3 DEF QueueKept
<1>3. ASSUME disk' = disk, inbox' = inbox, unpostable \subseteq unpostable', late' = late,
             replies[i] # <<>> => replies'[i] # <<>>
      PROVE  LateTaken(i)'
  BY <1>3, TakenStays DEF HasItem
<1>4. CASE PostAnswered \/ PostUnanswered
  <2>1. PICK j \in Ids, says \in Refusal..MaxAttempts :
           j = Current /\ says = Reply(memory.items[Current])
    BY <1>4, CurrentReply DEF PostAnswered, PostUnanswered
  <2>2. PICK x \in ReplyRecord : x = [says |-> says, late |-> FALSE]
    BY DEF ReplyRecord
  <2>3. /\ replies' = [replies EXCEPT ![j] = Append(replies[j], x)]
        /\ UNCHANGED <<disk, inbox, unpostable, late>>
    BY <1>4, <2>1, <2>2 DEF PostAnswered, PostUnanswered, Committed
  <2>4. replies[i] # <<>> => replies'[i] # <<>>
    <3>1. replies'[i] = replies[i] \/ replies'[i] = Append(replies[i], x)
      BY <1>1, <2>3
    <3> QED
      BY <1>1, <3>1, AppendedIsThere
  <2> QED
    BY <1>3, <2>3, <2>4
<1>5. CASE PostOutlivesClient
  <2>1. PICK j \in Ids, says \in Refusal..MaxAttempts :
           j = Current /\ says = Reply(memory.items[Current])
    BY <1>5, CurrentReply DEF PostOutlivesClient
  <2>2. /\ late' = [late EXCEPT ![j] = Append(late[j], says)] /\ pc = "post"
        /\ UNCHANGED <<disk, inbox, unpostable, replies>>
    BY <1>5, <2>1 DEF PostOutlivesClient
  <2>3. CASE i # j
    <3>1. late'[i] = late[i]
      BY <1>1, <2>2, <2>3
    <3> QED
      BY <2>2, <3>1, TakenStays DEF HasItem
  <2>4. CASE i = j
    <3>1. /\ HasItem(disk, i) /\ i <= Len(inbox) /\ inbox[i] # "other"
          /\ inbox[i] = "malformed" => says = Refusal
      <4>1. memory = disk /\ memory.items[i].status \in {"result_ready", "reply_pending"}
        BY <2>1, <2>2, <2>4, Standing DEF IInv, Stage, Synced
      <4> QED
        BY <2>1, <2>4, <4>1 DEF QueueInv, OfItsKind, HasItem, Reply
    <3>2. inbox[i] = "malformed" => \A n \in 1..Len(late'[i]) : late'[i][n] = Refusal
      <4>1. PICK l \in Seq(Refusal..MaxAttempts) : l = late[i]
        BY <1>1
      <4>2. inbox[i] = "malformed" => \A n \in 1..Len(l) : l[n] = Refusal
        BY <4>1 DEF LateAnswers, LateTaken
      <4>3. late'[i] = Append(l, says)
        BY <1>1, <2>2, <2>4, <4>1
      <4>4. Len(Append(l, says)) = Len(l) + 1 /\ Len(l) \in Nat
            /\ Append(l, says)[Len(l) + 1] = says
            /\ \A n \in 1..Len(l) : Append(l, says)[n] = l[n]
        BY <4>1
      <4> QED
        BY <3>1, <4>2, <4>3, <4>4
    <3> QED
      BY <2>2, <3>1, <3>2 DEF LateTaken, HasItem
  <2> QED
    BY <2>3, <2>4
<1>6. CASE Dropped
  BY <1>3, <1>4, <1>5, <1>6 DEF Dropped
<1>7. CASE Filing
  BY <1>3, <1>4, <1>7 DEF Filing, PostRejected
<1>8. CASE Poll
  BY <1>3, <1>8 DEF Poll, service
<1>9. CASE Prime
  <2>1. skipped = NoStateFile /\ UNCHANGED <<inbox, late>>
    BY <1>9 DEF Prime, service
  <2>2. unpostable = {} /\ ~HasItem(disk, i) /\ replies[i] = <<>>
    BY <2>1, NothingYet
  <2> QED
    BY <2>1, <2>2, TakenStays
<1>10. CASE SaveRecovered
  <2>1. pc = "save" /\ disk' = memory /\ UNCHANGED <<inbox, replies, late, unpostable>>
    BY <1>10 DEF SaveRecovered, Save, service
  <2>2. HasItem(disk, i) => HasItem(disk', i)
    <3>1. PolledQueue(disk, memory)
      BY <2>1 DEF QueueInv, Between
    <3>2. HasItem(disk, i) => i <= disk.cursor
      <4>1. disk.cursor \in Nat
        BY DEF IInv, TypeOK, StateRecord
      <4> QED
        BY <4>1 DEF IInv, Good, GoodState, NoItem, HasItem, Ids
    <3> QED
      BY <2>1, <3>1, <3>2 DEF PolledQueue, HasItem
  <2> QED
    BY <2>1, <2>2, TakenStays
<1>11. CASE FinishPublication
  <2>1. pc = "finish" /\ disk' = memory /\ UNCHANGED <<inbox, replies, late, unpostable>>
    BY <1>11 DEF FinishPublication, Save, service
  <2>2. HasItem(disk, i) => HasItem(disk', i) \/ replies[i] # <<>> \/ i \in unpostable
    BY <2>1 DEF QueueInv, Over, HasItem
  <2> QED
    BY <2>1, <2>2, TakenStays
<1>12. Between
  BY DEF QueueInv
<1> QED
  BY <1>2, <1>6, <1>7, <1>8, <1>9, <1>10, <1>11, <1>12, WaysToTheQueue

\* Late answers are few and to requests, in every state.
LEMMA LateAnswersHold == Spec => []LateAnswers
<1>1. Init => LateAnswers
  <2> SUFFICES ASSUME Init, NEW i \in Ids
               PROVE  LateFew(i) /\ LateTaken(i)
    BY DEF LateAnswers
  <2>1. late[i] = <<>> /\ replies[i] = <<>>
    BY DEF Init
  <2>2. LateIn(replies[i]) = {} /\ Len(late[i]) = 0
    BY <2>1 DEF LateIn
  <2>3. Cardinality(LateIn(replies[i])) = 0
    BY <2>2, FS_EmptySet
  <2>4. MaxLate \in Nat
    BY DispatcherAssumption
  <2>5. LateFew(i)
    BY <2>2, <2>3, <2>4 DEF LateFew
  <2>6. LateTaken(i)
    BY <2>1 DEF LateTaken
  <2> QED
    BY <2>5, <2>6
<1>2. IInv /\ QueueInv /\ LateAnswers /\ [Next]_vars => LateAnswers'
  <2>1. IInv /\ QueueInv /\ LateAnswers /\ Next => LateAnswers'
    BY LateStayFew, LateStayTaken DEF LateAnswers
  <2>2. LateAnswers /\ UNCHANGED vars => LateAnswers'
    BY DEF LateAnswers, LateFew, LateTaken, HasItem, LateIn, vars, service
  <2> QED
    BY <2>1, <2>2
<1> QED
  BY <1>1, <1>2, InvariantHolds, QueueHolds, PTL DEF Spec

-----------------------------------------------------------------------------
(* The dispatcher implements ReviewQueue.                                  *)

\* What became of message i, seen from the cursor.
Became(i) ==
    IF i > Len(inbox) \/ inbox[i] = "other" THEN "absent"
    ELSE IF i > disk.cursor    THEN "new"
    ELSE IF replies[i] # <<>>  THEN "answered"
    ELSE IF HasItem(disk, i)   THEN "open"
    ELSE IF i \in unpostable   THEN "refused"
    ELSE "skipped"

\* The refinement mapping.
States == [i \in Ids |-> StateOf(i)]
Kinds  == [i \in Ids |-> IF i <= Len(inbox) THEN inbox[i] ELSE "none"]
Said   == [i \in Ids |-> [n \in DOMAIN replies[i] |-> replies[i][n].says]]

Seen   == [i \in Ids |-> Became(i)]

\* What is beyond the cursor is new, and nothing that the cursor passed is.
LEMMA StatesAre == IInv /\ QueueInv => States = Seen
<1> SUFFICES ASSUME IInv, QueueInv, NEW i \in Ids
             PROVE  StateOf(i) = Became(i)
  BY DEF States, Seen
<1>1. /\ disk \in StateRecord /\ disk.cursor \in Int /\ Len(inbox) \in Int
      /\ skipped \in Int /\ GoodState(disk) /\ disk.items[i] \in ItemRecord
  <2>1. disk \in StateRecord /\ Len(inbox) \in Int /\ skipped \in Int /\ GoodState(disk)
    BY DEF IInv, TypeOK, Good, NoStateFile
  <2> QED
    BY <2>1 DEF StateRecord
<1>2. i \in Open(disk) <=> HasItem(disk, i)
  BY <1>1 DEF Open, WithStatus, HasItem, ItemRecord
<1>3. CASE i > disk.cursor
  <2>1. ~HasItem(disk, i) /\ replies[i] = <<>>
    BY <1>1, <1>3 DEF GoodState, NoItem, HasItem, IInv, Good, Linked, Unanswered
  <2>2. i \notin unpostable /\ ~(i <= skipped)
    BY <1>1, <1>3 DEF QueueInv, Behind, Ids
  <2> QED
    BY <1>2, <1>3, <2>1, <2>2 DEF StateOf, Became
<1>4. CASE ~(i > disk.cursor)
  <2>1. inbox[i] # "other" => replies[i] # <<>> \/ HasItem(disk, i) \/ i \in unpostable
                              \/ i <= skipped
    BY <1>1, <1>4 DEF QueueInv, Accounted, Ids
  <2> QED
    BY <1>2, <1>4, <2>1 DEF StateOf, Became
<1> QED
  BY <1>3, <1>4

\* Where nothing changes for the thread, nothing changes in the abstract.
LEMMA Stutters ==
  ASSUME States' = States, inbox' = inbox, replies' = replies
  PROVE  UNCHANGED Queue!vars
BY DEF Queue!vars, States

\* The states before and after a step.
LEMMA SeenAround ==
  ASSUME IInv, QueueInv, IInv', QueueInv'
  PROVE  /\ States = [i \in Ids |-> Became(i)] /\ States' = [i \in Ids |-> Became(i)']
         /\ Len(inbox) \in Nat /\ Len(inbox') \in Nat
         /\ disk.cursor \in Nat /\ disk'.cursor \in Nat
         /\ disk.cursor <= Len(inbox) /\ disk'.cursor <= Len(inbox')
         /\ skipped \in Int /\ skipped' \in Int
<1>1. (States = Seen)'
  BY StatesAre, PTL
<1>2. ASSUME NEW d, d \in StateRecord
      PROVE  d.cursor \in Nat
  BY <1>2 DEF StateRecord
<1>3. /\ disk \in StateRecord /\ disk' \in StateRecord
      /\ memory \in StateRecord /\ memory' \in StateRecord
      /\ Len(inbox) \in Nat /\ Len(inbox') \in Nat /\ skipped \in Int /\ skipped' \in Int
  BY DEF IInv, TypeOK, NoStateFile
<1>4. /\ disk.cursor <= memory.cursor /\ memory.cursor <= Len(inbox)
      /\ disk'.cursor <= memory'.cursor /\ memory'.cursor <= Len(inbox')
  BY DEF IInv, Stage
<1>5. disk.cursor \in Nat /\ disk'.cursor \in Nat /\ memory.cursor \in Nat /\ memory'.cursor \in Nat
  BY <1>2, <1>3
<1> QED
  BY <1>1, <1>3, <1>4, <1>5, StatesAre DEF Seen

\* Reply r is added to those of request i, which was taken and which it answers.
Answers(i, r) ==
    /\ replies' = [replies EXCEPT ![i] = Append(replies[i], r)]
    /\ i <= disk.cursor /\ i <= Len(inbox) /\ inbox[i] # "other"
    /\ inbox[i] = "malformed" => r.says = Refusal
    /\ \A n \in 1..Len(replies[i]) : replies[i][n].says = r.says
    /\ replies[i] # <<>> \/ HasItem(disk, i) \/ i \in unpostable

\* A reply makes an answered request of one that was open or given up, and is an
\* answer more of one that was answered.
LEMMA ReplyAnswers ==
  ASSUME IInv, QueueInv, IInv', QueueInv', SameIds(disk, disk'),
         UNCHANGED <<inbox, unpostable, skipped>>,
         NEW i \in Ids, NEW r \in ReplyRecord, Answers(i, r)
  PROVE  /\ States[i] = IF replies[i] # <<>> THEN "answered"
                        ELSE IF HasItem(disk, i) THEN "open" ELSE "refused"
         /\ States' = [j \in Ids |-> IF j \in {i} THEN "answered" ELSE States[j]]
         /\ Kinds' = Kinds /\ (Kinds[i] = "malformed" => r.says = Refusal)
<1>1. replies \in [Ids -> Seq(ReplyRecord)]
  BY DEF IInv, TypeOK, ReplyRecord
<1>2. /\ \A j \in Ids \ {i} : replies'[j] = replies[j]
      /\ replies'[i] # <<>>
  <2>1. replies'[i] = Append(replies[i], r)
    BY <1>1 DEF Answers
  <2> QED
    BY <1>1, <2>1, AppendedIsThere DEF Answers
<1>3. ~(i > Len(inbox)) /\ ~(i > disk.cursor) /\ i <= Len(inbox) /\ inbox[i] # "other"
      /\ disk'.cursor = disk.cursor
  BY SeenAround DEF Answers, Ids, SameIds
<1>4. ASSUME NEW j \in Ids
      PROVE  Became(j)' = IF j \in {i} THEN "answered" ELSE Became(j)
  <2>1. CASE j = i
    BY <1>2, <1>3, <2>1 DEF Became
  <2>2. CASE j # i
    BY <1>2, <1>3, <2>2 DEF Became, SameIds, HasItem
  <2> QED
    BY <2>1, <2>2
<1>5. Became(i) = IF replies[i] # <<>> THEN "answered"
                  ELSE IF HasItem(disk, i) THEN "open" ELSE "refused"
  BY <1>3 DEF Became, Answers
<1>6. Kinds' = Kinds /\ (Kinds[i] = "malformed" => r.says = Refusal)
  BY <1>3 DEF Kinds, Answers
<1> QED
  BY <1>4, <1>5, <1>6, SeenAround

\* What is said, after a reply more.
LEMMA ReplySays ==
  ASSUME IInv, NEW i \in Ids, NEW r \in ReplyRecord, Answers(i, r)
  PROVE  /\ Said' = [Said EXCEPT ![i] = Append(Said[i], r.says)]
         /\ replies[i] = <<>> => Append(Said[i], r.says) = <<r.says>>
         /\ Len(Said[i]) = Len(replies[i])
         /\ \A n \in 1..Len(Said[i]) : Said[i][n] = r.says
<1>1. replies \in [Ids -> Seq(ReplyRecord)]
  BY DEF IInv, TypeOK, ReplyRecord
<1>2. PICK s \in Seq(ReplyRecord) : s = replies[i]
  BY <1>1
<1>3. PICK k \in Nat : k = Len(s) /\ DOMAIN s = 1..k
  OBVIOUS
<1>4. PICK w : w = [n \in 1..k |-> s[n].says]
  OBVIOUS
<1>5. w \in Seq(Refusal..MaxAttempts) /\ Len(w) = k
  <2>1. \A n \in 1..k : s[n] \in ReplyRecord
    BY <1>2, <1>3, ElementOfSeq
  <2>2. \A n \in 1..k : w[n] \in Refusal..MaxAttempts
    BY <1>4, <2>1 DEF ReplyRecord
  <2>3. w \in [1..k -> Refusal..MaxAttempts]
    BY <1>4, <2>2
  <2>4. PICK S : S = Refusal..MaxAttempts
    OBVIOUS
  <2>5. w \in [1..k -> S] /\ k \in Nat
    BY <2>3, <2>4
  <2>6. w \in Seq(S) /\ Len(w) = k
    BY ONLY <2>5
  <2> QED
    BY <2>4, <2>6
<1>6. Said[i] = w
  BY <1>2, <1>3, <1>4 DEF Said
<1>7. replies'[i] = Append(s, r) /\ \A j \in Ids \ {i} : replies'[j] = replies[j]
  BY <1>1, <1>2 DEF Answers
<1>8. [n \in DOMAIN replies'[i] |-> replies'[i][n].says] = Append(w, r.says)
  <2>1. /\ DOMAIN Append(s, r) = 1..(k + 1)
        /\ \A n \in 1..k : Append(s, r)[n] = s[n]
        /\ Append(s, r)[k + 1] = r
    BY <1>3
  <2>2. PICK v : v = [n \in 1..(k + 1) |-> Append(s, r)[n].says]
    OBVIOUS
  <2>3. /\ r.says \in Refusal..MaxAttempts
        /\ \A n \in 1..k : v[n] = w[n]
        /\ v[k + 1] = r.says
    BY <1>3, <1>4, <2>1, <2>2 DEF ReplyRecord
  <2>4. /\ Append(w, r.says) \in Seq(Refusal..MaxAttempts)
        /\ Len(Append(w, r.says)) = k + 1
        /\ \A n \in 1..k : Append(w, r.says)[n] = w[n]
        /\ Append(w, r.says)[k + 1] = r.says
    BY <1>5, <2>3
  <2>5. v \in Seq(Refusal..MaxAttempts) /\ Len(v) = k + 1
    <3>1. PICK S : S = Refusal..MaxAttempts
      OBVIOUS
    <3>2. \A n \in 1..k : w[n] \in S
      BY <1>5, <3>1, ElementOfSeq
    <3>3. \A n \in 1..(k + 1) : n \in 1..k \/ n = k + 1
      OBVIOUS
    <3>4. \A n \in 1..(k + 1) : v[n] \in S
      BY <2>3, <3>1, <3>2, <3>3
    <3>5. v \in [1..(k + 1) -> S] /\ k \in Nat
      BY <2>2, <3>4
    <3>6. v \in Seq(S) /\ Len(v) = k + 1
      BY ONLY <3>5
    <3> QED
      BY <3>1, <3>6
  <2>6. v = Append(w, r.says)
    <3>1. \A n \in 1..(k + 1) : v[n] = Append(w, r.says)[n]
      BY <2>3, <2>4
    <3> QED
      BY <2>4, <2>5, <3>1, SeqEqual
  <2> QED
    BY <1>7, <2>1, <2>2, <2>6
<1>9. Said' = [Said EXCEPT ![i] = Append(w, r.says)]
  BY <1>7, <1>8 DEF Said
<1>10. s = <<>> => Append(w, r.says) = <<r.says>>
  <2>1. s = <<>> => w = <<>>
    BY <1>3, <1>5
  <2> QED
    BY <2>1
<1>11. \A n \in 1..Len(w) : w[n] = r.says
  BY <1>2, <1>3, <1>4, <1>5 DEF Answers
<1> QED
  BY <1>2, <1>3, <1>5, <1>6, <1>9, <1>10, <1>11

\* The first reply to an open request is its answer.
LEMMA FirstReplyIsAnswer ==
  ASSUME IInv, QueueInv, IInv', QueueInv', SameIds(disk, disk'),
         UNCHANGED <<inbox, unpostable, skipped>>,
         NEW i \in Ids, NEW r \in ReplyRecord, Answers(i, r),
         replies[i] = <<>>, HasItem(disk, i)
  PROVE  Queue!Answer(i, r.says)
<1>1. /\ States[i] = "open"
      /\ States' = [j \in Ids |-> IF j \in {i} THEN "answered" ELSE States[j]]
      /\ Kinds' = Kinds /\ (Kinds[i] = "malformed" => r.says = Refusal)
  BY ReplyAnswers
<1>2. Said' = [Said EXCEPT ![i] = <<r.says>>]
  BY ReplySays
<1> QED
  BY <1>1, <1>2 DEF Queue!Answer, Queue!Become, States, Kinds, Said

\* Any other is a late answer.
LEMMA OtherReplyIsLate ==
  ASSUME IInv, QueueInv, IInv', QueueInv', SameIds(disk, disk'),
         UNCHANGED <<inbox, unpostable, skipped>>,
         NEW i \in Ids, NEW r \in ReplyRecord, Answers(i, r),
         replies[i] # <<>> \/ ~HasItem(disk, i),
         MaxLate > 0, Len(replies[i]) <= MaxLate
  PROVE  Queue!AnswerLate(i, r.says)
<1>1. /\ States[i] \in {"answered", "refused"}
      /\ States' = [j \in Ids |-> IF j \in {i} THEN "answered" ELSE States[j]]
      /\ Kinds' = Kinds /\ (Kinds[i] = "malformed" => r.says = Refusal)
  BY ReplyAnswers
<1>2. /\ Said' = [Said EXCEPT ![i] = Append(Said[i], r.says)]
      /\ Len(Said[i]) <= MaxLate
      /\ \A n \in 1..Len(Said[i]) : Said[i][n] = r.says
  BY ReplySays
<1> QED
  BY <1>1, <1>2 DEF Queue!AnswerLate, Queue!Become, States, Kinds, Said

\* Late replies have a number.
LEMMA LateAreCounted ==
  ASSUME IInv, NEW i \in Ids
  PROVE  Cardinality(LateIn(replies[i])) \in Nat
<1>1. replies[i] \in Seq(ReplyRecord)
  BY DEF IInv, TypeOK, ReplyRecord
<1>2. [says |-> Refusal, late |-> TRUE] \in ReplyRecord
  BY DispatcherAssumption DEF ReplyRecord, Refusal
<1> QED
  BY <1>1, <1>2, LateInAppended

\* How many replies there are.
LEMMA RepliesAreFew ==
  ASSUME IInv, LateAnswers, NEW i \in Ids
  PROVE  /\ MaxLate \in Nat /\ Len(replies[i]) \in Nat /\ Len(late[i]) \in Nat
         /\ Len(replies[i]) + Len(late[i]) <= MaxLate + 1
         /\ (\A n \in 1..Len(replies[i]) : replies[i][n].late) => Len(replies[i]) <= MaxLate
<1>1. PICK s \in Seq(ReplyRecord) : s = replies[i]
  BY DEF IInv, TypeOK, ReplyRecord
<1>2. \A m, n \in 1..Len(s) : ~s[m].late /\ ~s[n].late => m = n
  BY <1>1 DEF IInv, Replied
<1>3. PICK c \in Nat : c = Cardinality(LateIn(s))
  BY <1>1, LateAreCounted
<1>4. PICK l \in Nat : l = Len(late[i])
  BY DEF IInv, TypeOK
<1>5. l + c <= MaxLate /\ MaxLate \in Nat /\ Len(s) \in Nat
  BY <1>1, <1>3, <1>4, DispatcherAssumption DEF LateAnswers, LateFew
<1>6. Len(s) <= c + 1 /\ ((\A n \in 1..Len(s) : s[n].late) => Len(s) = c)
  BY <1>2, <1>3, AllButOneIsLate
<1>7. PICK k \in Nat : k = Len(s)
  OBVIOUS
<1>8. PICK m \in Nat : m = MaxLate
  BY <1>5
<1>9. k + l <= m + 1 /\ (k = c => k <= m)
  <2>1. l + c <= m /\ k <= c + 1
    BY <1>5, <1>6, <1>7, <1>8
  <2> QED
    BY ONLY <2>1, k \in Nat, l \in Nat, c \in Nat, m \in Nat
<1>10. (\A n \in 1..k : s[n].late) => k = c
  BY <1>6, <1>7
<1> QED
  BY <1>1, <1>4, <1>7, <1>8, <1>9, <1>10

\* A reply that is committed while its client waits answers an open request, or comes
\* after late ones.
LEMMA PostIsAnswer ==
  ASSUME IInv, QueueInv, LateAnswers, IInv', QueueInv', pc = "post",
         disk' = disk, UNCHANGED <<inbox, unpostable, skipped>>,
         Committed(Current, [says |-> Reply(memory.items[Current]), late |-> FALSE])
  PROVE  \E i \in Ids, says \in Refusal..MaxAttempts : Queue!Answer(i, says) \/ Queue!AnswerLate(i, says)
<1>1. /\ memory = disk /\ Current \in Ids
      /\ memory.items[Current].status \in {"result_ready", "reply_pending"}
      /\ Reply(memory.items[Current]) \in Refusal..MaxAttempts
      /\ Says(Current, Reply(memory.items[Current]))
  BY Standing, CurrentReply DEF IInv, Stage, Synced
<1>2. PICK i \in Ids : i = Current
  BY <1>1
<1>3. PICK says \in Refusal..MaxAttempts : says = Reply(memory.items[i])
  BY <1>1, <1>2
<1>4. PICK r \in ReplyRecord : r = [says |-> says, late |-> FALSE]
  BY DEF ReplyRecord
<1>5. HasItem(disk, i) /\ i <= Len(inbox) /\ inbox[i] # "other"
      /\ (inbox[i] = "malformed" => says = Refusal)
  BY <1>1, <1>2, <1>3 DEF QueueInv, OfItsKind, HasItem, Reply
<1>6. i <= disk.cursor
  <2>1. ~(i > disk.cursor)
    BY <1>5 DEF IInv, Good, GoodState, NoItem, HasItem
  <2> QED
    BY <2>1, SeenAround DEF Ids
<1>7. Answers(i, r)
  <2>1. replies' = [replies EXCEPT ![i] = Append(replies[i], r)]
    BY <1>2, <1>3, <1>4 DEF Committed
  <2>2. \A n \in 1..Len(replies[i]) : replies[i][n].says = r.says
    BY <1>1, <1>2, <1>3, <1>4 DEF Says
  <2> QED
    BY <1>4, <1>5, <1>6, <2>1, <2>2 DEF Answers
<1>8. SameIds(disk, disk')
  BY DEF SameIds
<1>9. CASE replies[i] = <<>>
  BY <1>4, <1>5, <1>7, <1>8, <1>9, FirstReplyIsAnswer
<1>10. CASE replies[i] # <<>>
  <2>1. Len(replies[i]) <= MaxLate
    <3>1. \A n \in 1..Len(replies[i]) : replies[i][n].late
      BY <1>2 DEF IInv, Replied
    <3> QED
      BY <3>1, RepliesAreFew
  <2>2. MaxLate > 0
    <3>1. PICK s \in Seq(ReplyRecord) : s = replies[i]
      BY DEF IInv, TypeOK, ReplyRecord
    <3>2. PICK k \in Nat : k = Len(s)
      OBVIOUS
    <3>3. k # 0
      BY <1>10, <3>1, <3>2
    <3>4. MaxLate \in Nat /\ k <= MaxLate
      BY <2>1, <3>1, <3>2, DispatcherAssumption
    <3> QED
      BY ONLY <3>3, <3>4, k \in Nat
  <2>3. Queue!AnswerLate(i, r.says)
    BY <1>7, <1>8, <1>10, <2>1, <2>2, OtherReplyIsLate
  <2> QED
    BY <1>4, <2>3
<1> QED
  BY <1>9, <1>10

\* So does one whose client has given up, or it answers what was given up.
LEMMA LatePostIsAnswer ==
  ASSUME IInv, QueueInv, LateAnswers, IInv', QueueInv', SameIds(disk, disk'),
         UNCHANGED <<unpostable, skipped>>, NEW i \in Ids, LatePostCommits(i)
  PROVE  \E says \in Refusal..MaxAttempts : Queue!Answer(i, says) \/ Queue!AnswerLate(i, says)
<1>1. PICK l \in Seq(Refusal..MaxAttempts) : l = late[i]
  BY DEF IInv, TypeOK
<1>2. l # <<>> /\ Head(l) = l[1] /\ 1 \in 1..Len(l) /\ inbox' = inbox
  BY <1>1 DEF LatePostCommits
<1>3. PICK says \in Refusal..MaxAttempts : says = Head(l)
  BY <1>2, ElementOfSeq
<1>4. PICK r \in ReplyRecord : r = [says |-> says, late |-> TRUE]
  BY DEF ReplyRecord
<1>5. Answers(i, r)
  <2>1. replies' = [replies EXCEPT ![i] = Append(replies[i], r)]
    BY <1>1, <1>3, <1>4 DEF LatePostCommits, Committed
  <2>2. \A n \in 1..Len(replies[i]) : replies[i][n].says = r.says
    BY <1>1, <1>2, <1>3, <1>4 DEF IInv, Replied, Says
  <2>3. /\ i <= Len(inbox) /\ inbox[i] # "other"
        /\ replies[i] # <<>> \/ HasItem(disk, i) \/ i \in unpostable
        /\ inbox[i] = "malformed" => l[1] = Refusal
    BY <1>1, <1>2 DEF LateAnswers, LateTaken
  <2>4. i <= disk.cursor
    <3>1. ~(i > disk.cursor)
      BY <1>1, <1>2 DEF IInv, Good, Linked, Unanswered
    <3> QED
      BY <3>1, SeenAround DEF Ids
  <2> QED
    BY <1>2, <1>3, <1>4, <2>1, <2>2, <2>3, <2>4 DEF Answers
<1>6. Len(replies[i]) <= MaxLate /\ MaxLate > 0
  <2>1. PICK a \in Nat : a = Len(late[i])
    BY RepliesAreFew
  <2>2. PICK k \in Nat : k = Len(replies[i])
    BY RepliesAreFew
  <2>3. PICK m \in Nat : m = MaxLate
    BY RepliesAreFew
  <2>4. 1 \in 1..a /\ k + a <= m + 1
    BY <1>1, <1>2, <2>1, <2>2, <2>3, RepliesAreFew
  <2>5. k <= m
    BY ONLY <2>4, a \in Nat, k \in Nat, m \in Nat
  <2>6. m > 0
    <3>1. Len(late[i]) + Cardinality(LateIn(replies[i])) <= MaxLate
          /\ Cardinality(LateIn(replies[i])) \in Nat
      BY LateAreCounted DEF LateAnswers, LateFew
    <3>2. PICK c \in Nat : c = Cardinality(LateIn(replies[i]))
      BY <3>1
    <3>3. a + c <= m
      BY <2>1, <2>3, <3>1, <3>2
    <3> QED
      BY ONLY <2>4, <3>3, a \in Nat, c \in Nat, m \in Nat
  <2> QED
    BY <2>2, <2>3, <2>5, <2>6
<1>7. CASE replies[i] = <<>> /\ HasItem(disk, i)
  BY <1>2, <1>4, <1>5, <1>7, FirstReplyIsAnswer
<1>8. CASE ~(replies[i] = <<>> /\ HasItem(disk, i))
  BY <1>2, <1>4, <1>5, <1>6, <1>8, OtherReplyIsLate
<1> QED
  BY <1>7, <1>8

\* A message arrives.
LEMMA ArrivalIsAsk ==
  ASSUME IInv, QueueInv, IInv', QueueInv', Arrive, SameIds(disk, disk')
  PROVE  \E i \in Ids : Queue!Ask(i)
<1>1. PICK kind \in {"request", "malformed", "other"} : inbox' = Append(inbox, kind)
  BY DEF Arrive
<1>2. /\ Len(inbox) \in Nat /\ Len(inbox) < MaxMessages
      /\ UNCHANGED <<replies, unpostable, skipped>>
      /\ inbox \in Seq({"request", "malformed", "other"})
  BY DEF Arrive, IInv, TypeOK, reviewers
<1>3. PICK i \in Ids : i = Len(inbox) + 1
  BY <1>2, DispatcherAssumption DEF Ids
<1>4. /\ Len(inbox') = i /\ inbox'[i] = kind
      /\ \A j \in Ids : j < i => inbox'[j] = inbox[j] /\ inbox[j] \in {"request", "malformed", "other"}
      /\ \A j \in Ids : j <= Len(inbox) <=> j < i
      /\ \A j \in Ids : j <= Len(inbox') <=> (j < i \/ j = i)
  BY <1>1, <1>2, <1>3 DEF Ids
<1>5. Kinds' = [Kinds EXCEPT ![i] = kind] /\ Said' = Said
  BY <1>2, <1>4 DEF Kinds, Said
<1>6. Kinds[i] = "none" /\ \A j \in Ids : j < i => Kinds[j] # "none"
  BY <1>2, <1>3, <1>4 DEF Kinds
<1>7. ASSUME NEW j \in Ids
      PROVE  Became(j)' = IF j = i /\ kind # "other" THEN "new" ELSE Became(j)
  <2>1. CASE j < i
    <3>1. ~(j > Len(inbox)) /\ ~(j > Len(inbox')) /\ inbox'[j] = inbox[j] /\ j # i
      BY <1>2, <1>4, <2>1 DEF Ids
    <3> QED
      BY <1>2, <3>1 DEF Became, SameIds, HasItem
  <2>2. CASE j = i
    <3>1. j > disk'.cursor /\ ~(j > Len(inbox')) /\ j > Len(inbox)
      <4>1. disk'.cursor = disk.cursor
        BY DEF SameIds
      <4> QED
        BY <1>3, <1>4, <2>2, <4>1, SeenAround DEF Ids
    <3> QED
      BY <1>4, <2>2, <3>1 DEF Became
  <2>3. CASE j > i
    <3>1. j > Len(inbox) /\ j > Len(inbox') /\ j # i
      BY <1>2, <1>3, <1>4, <2>3 DEF Ids
    <3> QED
      BY <3>1 DEF Became
  <2> QED
    BY <1>3, <2>1, <2>2, <2>3 DEF Ids
<1>8. States' = IF kind = "other" THEN States
                ELSE [j \in Ids |-> IF j \in {i} THEN "new" ELSE States[j]]
  BY <1>7, SeenAround
<1> QED
  BY <1>5, <1>6, <1>8 DEF Queue!Ask, Queue!Become, States, Kinds, Said

\* Steps that leave the queue alone: a message or a late answer arrives, or nothing
\* changes.
LEMMA KeptIsQueue ==
  ASSUME IInv, QueueInv, LateAnswers, IInv', QueueInv', QueueKept
  PROVE  [Queue!Next]_(Queue!vars)
<1>1. SameIds(disk, disk') /\ UNCHANGED <<unpostable, skipped>>
  BY DEF QueueKept
<1>2. CASE Arrive
  BY <1>1, <1>2, ArrivalIsAsk DEF Queue!Next
<1>3. CASE UNCHANGED <<inbox, replies>>
  <2>1. \A i \in Ids : Became(i)' = Became(i)
    BY <1>1, <1>3 DEF Became, SameIds, HasItem
  <2> QED
    BY <1>3, <2>1, SeenAround, Stutters
<1>4. ASSUME NEW i \in Ids, LatePostCommits(i)
      PROVE  Queue!Next
  BY <1>1, <1>4, LatePostIsAnswer DEF Queue!Next
<1> QED
  BY <1>2, <1>3, <1>4 DEF QueueKept

\* A POST that is committed answers its request; a process that dies changes nothing.
LEMMA DroppedIsQueue ==
  ASSUME IInv, QueueInv, LateAnswers, IInv', QueueInv', Dropped
  PROVE  [Queue!Next]_(Queue!vars)
<1>1. disk' = disk /\ UNCHANGED <<inbox, unpostable, skipped>>
  BY DEF Dropped
<1>2. CASE PostUnanswered
  <2>1. \E i \in Ids, says \in Refusal..MaxAttempts : Queue!Answer(i, says) \/ Queue!AnswerLate(i, says)
    BY <1>1, <1>2, PostIsAnswer DEF PostUnanswered
  <2> QED
    BY <2>1 DEF Queue!Next
<1>3. CASE replies' = replies
  <2>1. \A i \in Ids : Became(i)' = Became(i)
    BY <1>1, <1>3 DEF Became, HasItem
  <2> QED
    BY <1>1, <1>3, <2>1, SeenAround, Stutters
<1> QED
  BY <1>2, <1>3 DEF Dropped, PostOutlivesClient

\* So is a POST whose answer arrives; to file a request in memory changes nothing yet.
LEMMA FilingIsQueue ==
  ASSUME IInv, QueueInv, LateAnswers, IInv', QueueInv', Filing
  PROVE  [Queue!Next]_(Queue!vars)
<1>1. disk' = disk /\ UNCHANGED <<inbox, skipped>>
  BY DEF Filing
<1>2. CASE PostAnswered
  <2>1. \E i \in Ids, says \in Refusal..MaxAttempts : Queue!Answer(i, says) \/ Queue!AnswerLate(i, says)
    BY <1>1, <1>2, PostIsAnswer DEF PostAnswered
  <2> QED
    BY <2>1 DEF Queue!Next
<1>3. CASE UNCHANGED <<replies, unpostable>>
  <2>1. \A i \in Ids : Became(i)' = Became(i)
    BY <1>1, <1>3 DEF Became, HasItem
  <2> QED
    BY <1>1, <1>3, <2>1, SeenAround, Stutters
<1>4. CASE PostRejected
  <2>1. replies' = replies /\ unpostable' = unpostable \cup {Current} /\ pc = "post"
    BY <1>4 DEF PostRejected
  <2>2. Current \in Ids /\ HasItem(disk, Current)
    BY <2>1, Standing DEF IInv, Stage, Synced, HasItem
  <2>3. \A i \in Ids : Became(i)' = Became(i)
    BY <1>1, <2>1, <2>2 DEF Became, HasItem
  <2> QED
    BY <1>1, <2>1, <2>3, SeenAround, Stutters
<1> QED
  BY <1>2, <1>3, <1>4 DEF Filing

\* A poll is not seen before it is saved.
LEMMA PollIsQueue ==
  ASSUME IInv, QueueInv, IInv', QueueInv', Poll
  PROVE  UNCHANGED Queue!vars
<1>1. disk' = disk /\ UNCHANGED <<inbox, replies, unpostable, skipped>>
  BY DEF Poll, service
<1>2. \A i \in Ids : Became(i)' = Became(i)
  BY <1>1 DEF Became, HasItem
<1> QED
  BY <1>1, <1>2, SeenAround, Stutters

\* Priming skips what is new.
LEMMA PrimeIsQueue ==
  ASSUME IInv, QueueInv, IInv', QueueInv', Prime
  PROVE  [Queue!Next]_(Queue!vars)
<1>1. /\ skipped = NoStateFile /\ skipped' = Len(inbox)
      /\ disk' = [EmptyState EXCEPT !.cursor = Len(inbox)]
      /\ UNCHANGED <<inbox, replies, unpostable>>
  BY DEF Prime, Save, service
<1>2. /\ disk.cursor = 0 /\ unpostable = {}
      /\ \A i \in Ids : replies[i] = <<>>
  BY <1>1, NothingYet
<1>3. disk'.cursor = Len(inbox) /\ \A i \in Ids : ~HasItem(disk', i)
  BY <1>1 DEF EmptyState, HasItem, NoItem
<1>4. ASSUME NEW i \in Ids
      PROVE  /\ Became(i) \in {"absent", "new"}
             /\ Became(i)' = IF Became(i) = "new" THEN "skipped" ELSE Became(i)
  <2>1. i > disk.cursor
    BY <1>2 DEF Ids
  <2>2. i > Len(inbox) <=> i > disk'.cursor
    BY <1>3
  <2> QED
    BY <1>1, <1>2, <1>3, <2>1, <2>2 DEF Became, HasItem
<1>5. PICK S : S = {i \in Ids : States[i] = "new"}
  OBVIOUS
<1>6. /\ States' = [i \in Ids |-> IF i \in S THEN "skipped" ELSE States[i]]
      /\ \A i \in Ids : States[i] \in {"absent", "new"}
  BY <1>4, <1>5, SeenAround
<1>7. Kinds' = Kinds /\ Said' = Said
  BY <1>1 DEF Kinds, Said
<1>8. CASE S = {}
  <2>1. States' = States
    BY <1>6, <1>8 DEF States
  <2> QED
    BY <1>1, <2>1, Stutters
<1>9. CASE S # {}
  <2>1. Queue!Skip
    BY <1>5, <1>6, <1>7, <1>9 DEF Queue!Skip, Queue!In, Queue!Become, States, Kinds, Said
  <2> QED
    BY <2>1 DEF Queue!Next
<1> QED
  BY <1>8, <1>9

\* To save a poll takes what is new up to the cursor.
LEMMA SaveIsQueue ==
  ASSUME IInv, QueueInv, IInv', QueueInv', SaveRecovered
  PROVE  [Queue!Next]_(Queue!vars)
<1>1. /\ pc = "save" /\ disk' = memory
      /\ skipped' = IF skipped = NoStateFile THEN 0 ELSE skipped
      /\ UNCHANGED <<inbox, replies, unpostable>>
  BY DEF SaveRecovered, Save, service
<1>2. PolledQueue(disk, disk')
  BY <1>1 DEF QueueInv, Between, PolledQueue, HasItem
<1>3. PICK S : S = {i \in Ids : Became(i) = "new" /\ i <= disk'.cursor}
  OBVIOUS
<1>4. ASSUME NEW i \in Ids
      PROVE  Became(i)' = IF i \in S THEN "open" ELSE Became(i)
  <2>1. CASE i > Len(inbox) \/ inbox[i] = "other"
    BY <1>1, <1>3, <2>1 DEF Became
  <2>2. CASE ~(i > Len(inbox) \/ inbox[i] = "other") /\ i > disk.cursor
    <3>1. Became(i) = "new"
      BY <2>2 DEF Became
    <3>2. CASE i <= disk'.cursor
      <4>1. replies[i] = <<>>
        BY <2>2 DEF IInv, Good, Linked, Unanswered
      <4>2. HasItem(disk', i) /\ ~(i > disk'.cursor)
        BY <1>2, <2>2, <3>2, SeenAround DEF PolledQueue, Ids
      <4> QED
        BY <1>1, <1>3, <2>2, <3>1, <3>2, <4>1, <4>2 DEF Became, HasItem
    <3>3. CASE ~(i <= disk'.cursor)
      <4>1. i > disk'.cursor
        BY <3>3, SeenAround DEF Ids
      <4> QED
        BY <1>1, <1>3, <2>2, <3>1, <3>3, <4>1 DEF Became
    <3> QED
      BY <3>2, <3>3
  <2>3. CASE ~(i > Len(inbox) \/ inbox[i] = "other") /\ ~(i > disk.cursor)
    <3>1. Became(i) # "new" /\ i \notin S
      BY <1>3, <2>3 DEF Became
    <3>2. i <= disk.cursor /\ ~(i > disk'.cursor)
      BY <1>2, <2>3, SeenAround DEF PolledQueue, Ids
    <3>3. HasItem(disk', i) <=> HasItem(disk, i)
      BY <1>2, <3>2 DEF PolledQueue
    <3> QED
      BY <1>1, <2>3, <3>1, <3>2, <3>3 DEF Became, HasItem
  <2> QED
    BY <2>1, <2>2, <2>3
<1>5. /\ States = [i \in Ids |-> Became(i)]
      /\ States' = [i \in Ids |-> IF i \in S THEN "open" ELSE States[i]]
  BY <1>4, SeenAround
<1>6. Kinds' = Kinds /\ Said' = Said
  BY <1>1 DEF Kinds, Said
<1>7. CASE S = {}
  <2>1. States' = States
    BY <1>5, <1>7 DEF States
  <2> QED
    BY <1>1, <2>1, Stutters
<1>8. CASE S # {}
  <2>1. \A i \in S, j \in Ids : States[j] = "new" /\ j < i => j \in S
    <3> SUFFICES ASSUME NEW i \in S, NEW j \in Ids, States[j] = "new", j < i
                 PROVE  j \in S
      OBVIOUS
    <3>1. i \in Int /\ j \in Int /\ i <= disk'.cursor /\ Became(j) = "new"
      BY <1>3, <1>5 DEF Ids
    <3>2. j <= disk'.cursor
      BY <3>1, SeenAround
    <3> QED
      BY <1>3, <3>1, <3>2
  <2>2. S \in SUBSET Ids /\ \A i \in S : States[i] = "new"
    BY <1>3, <1>5
  <2>3. Queue!Take(S)
    BY <1>5, <1>6, <1>8, <2>1, <2>2 DEF Queue!Take, Queue!In, Queue!Become, States, Kinds, Said
  <2> QED
    BY <2>2, <2>3 DEF Queue!Next
<1> QED
  BY <1>7, <1>8

\* To save what is filed gives up what the service refused.
LEMMA FinishIsQueue ==
  ASSUME IInv, QueueInv, IInv', QueueInv', FinishPublication
  PROVE  [Queue!Next]_(Queue!vars)
<1>1. pc = "finish" /\ disk' = memory /\ UNCHANGED <<inbox, replies, unpostable, skipped>>
  BY DEF FinishPublication, Save, service
<1>2. PICK i \in Ids : FiledQueue(disk, disk', i)
  BY <1>1 DEF QueueInv, Between
<1>3. /\ HasItem(disk, i) /\ ~HasItem(disk', i) /\ disk'.cursor = disk.cursor
      /\ \A j \in Ids \ {i} : HasItem(disk', j) <=> HasItem(disk, j)
  BY <1>2 DEF FiledQueue
<1>4. replies[i] # <<>> \/ i \in unpostable
  BY <1>1, <1>3 DEF QueueInv, Over
<1>5. i <= Len(inbox) /\ inbox[i] # "other" /\ ~(i > disk.cursor)
  BY <1>3 DEF QueueInv, OfItsKind, IInv, Good, GoodState, NoItem, HasItem
<1>6. ~(i > Len(inbox))
  BY <1>5, SeenAround DEF Ids
<1>7. ASSUME NEW j \in Ids
      PROVE  Became(j)' = IF j = i /\ replies[i] = <<>> THEN "refused" ELSE Became(j)
  <2>1. CASE j = i
    BY <1>1, <1>3, <1>4, <1>5, <1>6, <2>1 DEF Became, HasItem
  <2>2. CASE j # i
    BY <1>1, <1>3, <2>2 DEF Became, HasItem
  <2> QED
    BY <2>1, <2>2
<1>8. CASE replies[i] # <<>>
  BY <1>1, <1>7, <1>8, SeenAround, Stutters
<1>9. CASE replies[i] = <<>>
  <2>1. States[i] = "open"
    BY <1>3, <1>5, <1>6, <1>9, SeenAround DEF Became
  <2>2. States' = [j \in Ids |-> IF j \in {i} THEN "refused" ELSE States[j]]
    BY <1>7, <1>9, SeenAround
  <2>3. Kinds' = Kinds /\ Said' = Said
    BY <1>1 DEF Kinds, Said
  <2>4. Queue!GiveUp(i)
    BY <2>1, <2>2, <2>3 DEF Queue!GiveUp, Queue!Become, States, Kinds, Said
  <2> QED
    BY <2>4 DEF Queue!Next
<1> QED
  BY <1>8, <1>9

\* Requests are taken in the order in which they were asked, none is passed over, each
\* is answered, or given up when the service refuses every answer, and what is closed
\* stays closed, whatever crashes; and only a POST that outlives its client makes it
\* two answers, which agree, or answers what was given up.
THEOREM ImplementsReviewQueue == Spec => IsReviewQueue
<1>1. Init => Queue!Init
  <2> SUFFICES ASSUME Init
               PROVE  Queue!Init
    OBVIOUS
  <2>1. inbox = <<>> /\ replies = [i \in Ids |-> <<>>]
    BY DEF Init
  <2>2. \A i \in Ids : i > Len(inbox) /\ ~(i <= Len(inbox))
    BY <2>1 DEF Ids
  <2>3. \A i \in Ids : StateOf(i) = "absent"
    BY <2>2 DEF StateOf
  <2>4. \A i \in Ids : [n \in DOMAIN replies[i] |-> replies[i][n].says] = <<>>
    BY <2>1
  <2> QED
    BY <2>2, <2>3, <2>4 DEF Queue!Init
<1>2. IInv /\ QueueInv /\ LateAnswers /\ [Next]_vars /\ IInv' /\ QueueInv'
      => [Queue!Next]_(Queue!vars)
  <2> SUFFICES ASSUME IInv, QueueInv, LateAnswers, [Next]_vars, IInv', QueueInv'
               PROVE  [Queue!Next]_(Queue!vars)
    OBVIOUS
  <2>1. CASE Next
    <3>1. Between
      BY DEF QueueInv
    <3> QED
      BY <2>1, <3>1, WaysToTheQueue, KeptIsQueue, DroppedIsQueue, FilingIsQueue, PollIsQueue,
         PrimeIsQueue, SaveIsQueue, FinishIsQueue
  <2>2. CASE UNCHANGED vars
    <3>1. UNCHANGED <<inbox, replies, unpostable, skipped, disk>>
      BY <2>2 DEF vars, service
    <3>2. States' = States
      BY <3>1 DEF States, StateOf, Open, WithStatus
    <3> QED
      BY <3>1, <3>2, Stutters
  <2> QED
    BY <2>1, <2>2
<1> QED
  BY <1>1, <1>2, InvariantHolds, QueueHolds, LateAnswersHold, PTL DEF Spec, IsReviewQueue, Queue!Spec
=============================================================================
