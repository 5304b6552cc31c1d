------------------------------ MODULE RdbProofs ------------------------------
(***************************************************************************)
(* The broker keeps its invariants for every set of task IDs and unique    *)
(* keys, every bound and every reading of the callers' clocks: its types   *)
(* and its locks always, the rest as long as no call of Archive aborts.    *)
(***************************************************************************)
EXTENDS Rdb, SequenceTheorems, FiniteSetTheorems, WellFoundedInduction, TLAPS

------------------------------------------------------------------------------
(* Sorted sets, hashes and lists.                                          *)

\* ZADD and HSET add one member, and leave the others alone.
LEMMA PutIs ==
  ASSUME NEW R, NEW z, Partial(z, R), NEW x \in TaskID, NEW v \in R
  PROVE  /\ Partial(Put(z, x, v), R)
         /\ DOMAIN Put(z, x, v) = DOMAIN z \cup {x}
         /\ Put(z, x, v)[x] = v
         /\ \A y \in DOMAIN z : y # x => Put(z, x, v)[y] = z[y]
BY DEF Partial, Put

\* ZREM and DEL remove members, and leave the others alone.
LEMMA DropIs ==
  ASSUME NEW R, NEW z, Partial(z, R), NEW S
  PROVE  /\ Partial(Drop(z, S), R)
         /\ DOMAIN Drop(z, S) = DOMAIN z \ S
         /\ \A y \in DOMAIN z \ S : Drop(z, S)[y] = z[y]
BY DEF Partial, Drop

\* No message is the mark of a hash without one (base.TaskMessage).
LEMMA MessageMsg == \A m \in Message : m # NoMsg
BY MsgAssumption

\* LPUSH of an ID that is not in the list.
LEMMA AppendIs ==
  ASSUME NEW S, NEW s \in Seq(S), NEW x \in S
  PROVE  /\ Append(s, x) \in Seq(S)
         /\ Range(Append(s, x)) = Range(s) \cup {x}
         /\ (x \notin Range(s) /\ IsInjective(s)) => IsInjective(Append(s, x))
<1>1. DEFINE r == Append(s, x)
<1>2. /\ r \in Seq(S) /\ DOMAIN s = 1..Len(s) /\ DOMAIN r = 1..(Len(s) + 1)
      /\ r[Len(s) + 1] = x /\ \A i \in 1..Len(s) : r[i] = s[i]
      /\ Len(s) \in Nat
  OBVIOUS
<1>3. Range(r) = Range(s) \cup {x}
  <2>1. ASSUME NEW y \in Range(r) PROVE y \in Range(s) \cup {x}
    <3>1. PICK i \in DOMAIN r : y = r[i]
      BY <2>1 DEF Range
    <3>2. i \in 1..Len(s) \/ i = Len(s) + 1
      BY <1>2, <3>1
    <3>3. QED
      BY <1>2, <3>1, <3>2 DEF Range
  <2>2. ASSUME NEW y \in Range(s) PROVE y \in Range(r)
    BY <1>2, <2>2 DEF Range
  <2>3. x \in Range(r)
    BY <1>2 DEF Range
  <2>4. QED
    BY <2>1, <2>2, <2>3
<1>4. ASSUME x \notin Range(s), IsInjective(s) PROVE IsInjective(r)
  BY <1>2, <1>4 DEF IsInjective, Range
<1>5. QED
  BY <1>2, <1>3, <1>4

\* RPOPLPUSH: the head leaves a list that has each ID once.
LEMMA TailIs ==
  ASSUME NEW S, NEW s \in Seq(S), s # <<>>
  PROVE  /\ Head(s) \in Range(s)
         /\ Head(s) \in S
         /\ Tail(s) \in Seq(S)
         /\ IsInjective(s) => /\ Range(Tail(s)) = Range(s) \ {Head(s)}
                             /\ IsInjective(Tail(s))
<1>1. /\ Len(s) \in Nat \ {0} /\ DOMAIN s = 1..Len(s) /\ Head(s) = s[1]
      /\ Tail(s) \in Seq(S) /\ DOMAIN Tail(s) = 1..(Len(s) - 1)
      /\ \A i \in 1..(Len(s) - 1) : Tail(s)[i] = s[i + 1]
      /\ Head(s) \in S
  BY HeadTailProperties, LenProperties, EmptySeq
<1>2. ASSUME IsInjective(s) PROVE IsInjective(Tail(s))
  BY <1>1, <1>2 DEF IsInjective
<1>3. ASSUME IsInjective(s) PROVE Range(Tail(s)) = Range(s) \ {Head(s)}
  <2>1. ASSUME NEW y \in Range(Tail(s)) PROVE y \in Range(s) \ {Head(s)}
    <3>1. PICK i \in 1..(Len(s) - 1) : y = s[i + 1]
      BY <1>1, <2>1 DEF Range
    <3>2. i + 1 \in 1..Len(s) /\ 1 \in 1..Len(s) /\ i + 1 # 1
      BY <1>1
    <3>3. QED
      BY <1>1, <1>3, <3>1, <3>2 DEF Range, IsInjective
  <2>2. ASSUME NEW y \in Range(s), y # Head(s) PROVE y \in Range(Tail(s))
    <3>1. PICK i \in 1..Len(s) : y = s[i]
      BY <1>1, <2>2 DEF Range
    <3>2. i - 1 \in 1..(Len(s) - 1) /\ Tail(s)[i - 1] = y
      BY <1>1, <2>2, <3>1
    <3>3. QED
      BY <1>1, <3>2 DEF Range
  <2>3. QED
    BY <2>1, <2>2
<1>4. Head(s) \in Range(s)
  BY <1>1 DEF Range
<1>5. QED
  BY <1>1, <1>2, <1>3, <1>4

\* RPUSH and a run of LPUSHes: two lists with no common ID are joined.
LEMMA JoinIs ==
  ASSUME NEW S, NEW s \in Seq(S), NEW t \in Seq(S)
  PROVE  /\ s \o t \in Seq(S)
         /\ Range(s \o t) = Range(s) \cup Range(t)
         /\ (IsInjective(s) /\ IsInjective(t) /\ Range(s) \cap Range(t) = {})
              => IsInjective(s \o t)
<1>1. /\ Len(s) \in Nat /\ Len(t) \in Nat
      /\ DOMAIN s = 1..Len(s) /\ DOMAIN t = 1..Len(t)
      /\ s \o t \in Seq(S) /\ DOMAIN (s \o t) = 1..(Len(s) + Len(t))
      /\ \A i \in 1..(Len(s) + Len(t)) :
           (s \o t)[i] = IF i =< Len(s) THEN s[i] ELSE t[i - Len(s)]
  BY ConcatProperties, LenProperties
<1>2. Range(s \o t) = Range(s) \cup Range(t)
  BY RangeConcatenation
<1>3. ASSUME IsInjective(s), IsInjective(t), Range(s) \cap Range(t) = {},
             NEW i \in 1..(Len(s) + Len(t)), NEW j \in 1..(Len(s) + Len(t)),
             (s \o t)[i] = (s \o t)[j]
      PROVE i = j
  <2>1. \A k \in 1..Len(s) : s[k] \in Range(s)
    BY <1>1 DEF Range
  <2>2. \A k \in 1..Len(t) : t[k] \in Range(t)
    BY <1>1 DEF Range
  <2>3. CASE i =< Len(s) /\ j =< Len(s)
    BY <1>1, <1>3, <2>3 DEF IsInjective
  <2>4. CASE i > Len(s) /\ j > Len(s)
    <3>1. i - Len(s) \in 1..Len(t) /\ j - Len(s) \in 1..Len(t)
      BY <1>1, <2>4
    <3>2. t[i - Len(s)] = t[j - Len(s)]
      BY <1>1, <1>3, <2>4
    <3>3. i - Len(s) = j - Len(s)
      BY <1>1, <1>3, <3>1, <3>2 DEF IsInjective
    <3>4. QED
      BY <1>1, <3>3
  <2>5. CASE i =< Len(s) /\ j > Len(s)
    <3>1. i \in 1..Len(s) /\ j - Len(s) \in 1..Len(t)
      BY <1>1, <2>5
    <3>2. s[i] = t[j - Len(s)]
      BY <1>1, <1>3, <2>5
    <3>3. QED
      BY <1>3, <2>1, <2>2, <3>1, <3>2
  <2>6. CASE i > Len(s) /\ j =< Len(s)
    <3>1. j \in 1..Len(s) /\ i - Len(s) \in 1..Len(t)
      BY <1>1, <2>6
    <3>2. s[j] = t[i - Len(s)]
      BY <1>1, <1>3, <2>6
    <3>3. QED
      BY <1>3, <2>1, <2>2, <3>1, <3>2
  <2>7. QED
    BY <1>1, <2>3, <2>4, <2>5, <2>6
<1>4. QED
  BY <1>1, <1>2, <1>3 DEF IsInjective

\* forwardCmd's batch: the members it names, each once.
LEMMA InOrderIs ==
  ASSUME NEW z, Partial(z, Int), NEW S \in SUBSET TaskID, NEW s \in InOrder(z, S),
         IsFiniteSet(S)
  PROVE  /\ s \in Seq(TaskID)
         /\ Range(s) = S
         /\ (S \subseteq DOMAIN z) => IsInjective(s)
<1>1. Cardinality(S) \in Nat
  BY FS_CardinalityType
<1>2. /\ s \in [1..Cardinality(S) -> S] /\ Range(s) = S
      /\ DOMAIN s = 1..Cardinality(S)
      /\ \A i, j \in DOMAIN s : i < j => Before(z, s[i], s[j])
  BY DEF InOrder
<1>3. s \in Seq(TaskID)
  BY <1>1, <1>2
<1>4. ASSUME S \subseteq DOMAIN z, NEW i \in DOMAIN s, NEW j \in DOMAIN s, s[i] = s[j]
      PROVE i = j
  <2>1. ~Before(z, s[i], s[i])
    <3>1. s[i] \in DOMAIN z /\ s[i] \in Int /\ z[s[i]] \in Int
      BY <1>2, <1>4, IDAssumption DEF Partial
    <3>2. QED
      BY <3>1 DEF Before
  <2>2. ~(i < j) /\ ~(j < i)
    BY <1>2, <1>4, <2>1
  <2>3. QED
    BY <1>1, <1>2, <2>2
<1>5. QED
  BY <1>2, <1>3, <1>4 DEF IsInjective

------------------------------------------------------------------------------
(* Types.                                                                  *)

\* What the messages of the bounded instance are.
LEMMA CopiesAre == Copies \subseteq Message
BY SizeAssumption DEF Copies, Message

\* A score is the second in which the clock was read.
LEMMA UnixIs ==
  \A t \in Int : Unix(t) \in Int /\ Unix(t) =< t /\ t < Unix(t) + Second
<1> SUFFICES ASSUME NEW t \in Int
             PROVE  Unix(t) \in Int /\ Unix(t) =< t /\ t < Unix(t) + Second
  OBVIOUS
<1>1. Second \in Int /\ Second > 0
  BY TimeAssumption
<1>2. t % Second \in Int /\ 0 =< t % Second /\ t % Second < Second
  BY <1>1
<1>3. QED
  BY <1>1, <1>2 DEF Unix

\* The three shapes of a hash the scripts write.
LEMMA HashIs ==
  ASSUME Partial(task, Hash)
  PROVE  /\ \A m \in Message, st \in State : [state |-> st, msg |-> m] \in Hash
         /\ \A id \in TaskID, st \in State : Restated(id, st) \in Hash
         /\ [state |-> "none", msg |-> NoMsg] \in Hash
BY DEF Partial, Hash, Restated

\* HSET key msg m state st.
LEMMA WithMsgIs ==
  ASSUME NEW t, Partial(t, Hash), NEW m \in Message, NEW st \in State
  PROVE  /\ m.id \in TaskID
         /\ Partial(WithMsg(t, m, st), Hash)
<1> DEFINE v == [state |-> st, msg |-> m]
<1>1. m.id \in TaskID
  BY DEF Message
<1>2. v \in Hash
  BY DEF Hash
<1>3. WithMsg(t, m, st) = Put(t, m.id, v)
  BY DEF WithMsg
<1> HIDE DEF v
<1>4. Partial(Put(t, m.id, v), Hash)
  BY <1>1, <1>2, PutIs
<1>5. QED
  BY <1>1, <1>3, <1>4 DEF v

\* HSET key state st.
LEMMA WithStateIs ==
  ASSUME Partial(task, Hash), NEW id \in TaskID, NEW st \in State
  PROVE  /\ Partial(WithState(id, st), Hash)
         /\ DOMAIN WithState(id, st) = DOMAIN task \cup {id}
         /\ WithState(id, st)[id] = Restated(id, st)
         /\ \A y \in DOMAIN task : y # id => WithState(id, st)[y] = task[y]
<1>1. Restated(id, st) \in Hash
  BY HashIs
<1>2. Partial(Put(task, id, Restated(id, st)), Hash)
  BY <1>1, PutIs
<1>3. QED
  BY <1>2 DEF WithState, Put

\* The copy that Retry stores.
LEMMA ModifiedIs ==
  ASSUME NEW m \in Message
  PROVE  /\ [m EXCEPT !.retried = @ + 1] \in Message
         /\ [m EXCEPT !.retried = @ + 1].id = m.id
BY DEF Message

\* What forwardCmd or the janitor picks are members of the set.
LEMMA BatchIs ==
  ASSUME NEW z, Partial(z, Int), NEW t, NEW n
  PROVE  /\ FirstOf(z, UpTo(z, t), n) \subseteq DOMAIN z
         /\ FirstOf(z, UpTo(z, t), n) \in SUBSET TaskID
         /\ IsFiniteSet(FirstOf(z, UpTo(z, t), n))
BY FS_Subset, IDAssumption DEF FirstOf, UpTo, Partial

\* The IDs that leave the list of active ones are task IDs.
LEMMA ReleaseType ==
  ASSUME TypeOK, NEW id, Release(id)
  PROVE  id \in TaskID /\ active' \subseteq TaskID /\ Partial(lease, Int)'
BY DropIs DEF TypeOK, Release

\* Every script leaves each key with values of its type.
LEMMA TypeStep == TypeOK /\ [Next]_vars => TypeOK'
<1> SUFFICES ASSUME TypeOK, [Next]_vars PROVE TypeOK'
  OBVIOUS
<1> USE DEF TypeOK, delayed, finals
<1>t. \A t \in Time : t \in Int /\ Unix(t + LeaseDuration) \in Int
  <2>1. \A t \in Time : t \in Int /\ t + LeaseDuration \in Int
    BY SizeAssumption, TimeAssumption
  <2>2. QED
    BY <2>1, UnixIs
<1>u. \A t \in Int : Unix(t) \in Int
  BY UnixIs
<1>m. /\ Fresh \subseteq Message /\ Unique \subseteq Message
      /\ \A m \in Message : m.id \in TaskID
      /\ \A m \in Unique : m.ukey \in UniqueKey
  BY CopiesAre DEF Fresh, Unique, Message
<1>1. ASSUME NEW m \in Message, Enqueue(m) PROVE TypeOK'
  BY <1>1, <1>m, WithMsgIs, AppendIs DEF Enqueue, State
<1>2. ASSUME NEW m \in Unique, EnqueueUnique(m) PROVE TypeOK'
  <2>1. m \in Message /\ m.id \in TaskID /\ m.ukey \in UniqueKey
    BY <1>m
  <2>2. lock' \in [UniqueKey -> TaskID \cup {NoTask}]
    BY <1>2, <2>1 DEF EnqueueUnique
  <2>3. /\ Partial(WithMsg(task, m, "pending"), Hash)
        /\ Append(pending, m.id) \in Seq(TaskID)
    BY <2>1, WithMsgIs, AppendIs DEF State
  <2>4. QED
    BY <1>2, <2>2, <2>3 DEF EnqueueUnique
<1>3. ASSUME NEW m \in Message, NEW t \in Int, Schedule(m, t) PROVE TypeOK'
  BY <1>3, <1>m, <1>u, PutIs, WithMsgIs DEF Schedule, State
<1>4. ASSUME NEW m \in Unique, NEW t \in Int, ScheduleUnique(m, t) PROVE TypeOK'
  <2>1. m \in Message /\ m.id \in TaskID /\ m.ukey \in UniqueKey
    BY <1>m
  <2>2. lock' \in [UniqueKey -> TaskID \cup {NoTask}]
    BY <1>4, <2>1 DEF ScheduleUnique
  <2>3. /\ Partial(WithMsg(task, m, "scheduled"), Hash)
        /\ Partial(Put(scheduled, m.id, Unix(t)), Int)
    BY <1>u, <2>1, WithMsgIs, PutIs DEF State
  <2>4. QED
    BY <1>4, <2>2, <2>3 DEF ScheduleUnique
<1>5. ASSUME NEW t \in Time, Dequeue(t) PROVE TypeOK'
  <2>1. Head(pending) \in TaskID /\ Tail(pending) \in Seq(TaskID)
    BY <1>5, TailIs DEF Dequeue
  <2>2. Partial(task', Hash) /\ Partial(lease', Int)
    BY <1>5, <1>t, <2>1, PutIs, WithStateIs DEF Dequeue, State
  <2>3. QED
    BY <1>5, <2>1, <2>2 DEF Dequeue
<1>6. ASSUME NEW m \in Message, Done(m) PROVE TypeOK'
  BY <1>6, ReleaseType, DropIs DEF Done, Message
<1>7. ASSUME NEW m \in Message, NEW t \in Int, MarkAsComplete(m, t) PROVE TypeOK'
  BY <1>7, <1>m, <1>u, ReleaseType, PutIs, WithMsgIs DEF MarkAsComplete, State
<1>8. ASSUME NEW m \in Message, Requeue(m) PROVE TypeOK'
  <2>1. <<m.id>> \in Seq(TaskID)
    BY <1>m
  <2>2. <<m.id>> \o pending \in Seq(TaskID)
    BY <2>1, JoinIs
  <2>3. Partial(WithState(m.id, "pending"), Hash)
    BY <1>m, WithStateIs DEF State
  <2>4. pending' \in Seq(TaskID) /\ Partial(task', Hash)
    BY <1>8, <2>2, <2>3 DEF Requeue
  <2>5. QED
    BY <1>8, <2>4, ReleaseType DEF Requeue
<1>9. ASSUME NEW m \in Message, NEW t \in Int, NEW f \in BOOLEAN, Retry(m, t, f)
      PROVE TypeOK'
  <2> DEFINE n == IF f THEN [m EXCEPT !.retried = @ + 1] ELSE m
  <2>1. n \in Message /\ n.id \in TaskID
    BY <1>m, ModifiedIs
  <2>2. Partial(WithMsg(task, n, "retry"), Hash)
    BY <2>1, WithMsgIs DEF State
  <2>3. QED
    <3>1. retry' = Put(retry, m.id, Unix(t)) \/ retry' = retry
      BY <1>9 DEF Retry
    <3>2. task' = WithMsg(task, n, "retry") \/ task' = task
      BY <1>9 DEF Retry
    <3>3. Release(m.id) /\ UNCHANGED <<pending, scheduled, finals, lock, paused>>
      BY <1>9 DEF Retry
    <3>4. Partial(Put(retry, m.id, Unix(t)), Int)
      BY <1>m, <1>u, PutIs
    <3>5. QED
      BY <2>2, <3>1, <3>2, <3>3, <3>4, ReleaseType
<1>10. ASSUME NEW m \in Message, NEW t \in Int, Archive(m, t) PROVE TypeOK'
  <2> DEFINE added == Archiving(m, t)
  <2>1. Partial(added, Int)
    BY <1>m, <1>u, PutIs DEF Archiving
  <2>2. \A S : Partial(Drop(added, S), Int) /\ Partial(Drop(task, S), Hash)
    BY <2>1, DropIs
  <2>3. \A S : Partial(WithMsg(Drop(task, S), m, "archived"), Hash)
    BY <2>2, WithMsgIs DEF State
  <2>4. CASE Archives(m, t)
    BY <2>2, <2>3, <2>4, ReleaseType DEF Archives
  <2>5. CASE ArchiveAborts(m, t)
    BY <2>1, <2>2, <2>5, ReleaseType DEF ArchiveAborts
  <2>6. QED
    BY <1>10, <2>4, <2>5 DEF Archive
<1>11. ASSUME NEW id \in TaskID, WriteResult(id) PROVE TypeOK'
  BY <1>11, PutIs, HashIs DEF WriteResult
<1>12. ASSUME NEW z, Partial(z, Int), NEW ids \in SUBSET TaskID, IsFiniteSet(ids),
              ForwardFrom(z, ids)
       PROVE /\ pending' \in Seq(TaskID) /\ Partial(task', Hash)
             /\ UNCHANGED <<active, lease, finals, lock, paused>>
  <2>1. PICK s \in InOrder(z, ids) : pending' = pending \o s
    BY <1>12 DEF ForwardFrom
  <2>2. pending' \in Seq(TaskID)
    BY <1>12, <2>1, InOrderIs, JoinIs
  <2>3. Partial(task', Hash)
    BY <1>12, HashIs DEF ForwardFrom, Partial, State
  <2>4. QED
    BY <1>12, <2>2, <2>3 DEF ForwardFrom
<1>13. ASSUME NEW t \in Time, ForwardScheduled(t) PROVE TypeOK'
  BY <1>12, <1>13, BatchIs, DropIs DEF ForwardScheduled
<1>14. ASSUME NEW t \in Time, ForwardRetry(t) PROVE TypeOK'
  BY <1>12, <1>14, BatchIs, DropIs DEF ForwardRetry
<1>15. ASSUME NEW t \in Time, DeleteExpiredCompletedTasks(t) PROVE TypeOK'
  BY <1>15, DropIs DEF DeleteExpiredCompletedTasks
<1>16. ASSUME NEW ids, NEW t \in Time, ExtendLease(ids, t) PROVE TypeOK'
  BY <1>16, <1>t DEF ExtendLease, Partial
<1>17. ASSUME OutsideStep PROVE TypeOK'
  BY <1>17 DEF OutsideStep, Pause, LockExpires
<1>18. CASE UNCHANGED vars
  BY <1>18 DEF vars, Partial
<1>19. CASE ClientStep
  BY <1>1, <1>2, <1>3, <1>4, <1>19, <1>m, <1>t DEF ClientStep
<1>20. CASE WorkerStep
  BY <1>5, <1>6, <1>7, <1>8, <1>9, <1>10, <1>11, <1>20, <1>t, CopiesAre DEF WorkerStep
<1>21. CASE ServerStep
  BY <1>13, <1>14, <1>15, <1>16, <1>21 DEF ServerStep
<1>22. QED
  BY <1>17, <1>18, <1>19, <1>20, <1>21 DEF Next

\* The keys start with values of their types, and every script keeps them so.
THEOREM TypeCorrect == Spec => []TypeOK
<1>1. ASSUME NEW R PROVE Partial(NoEntry, R)
  BY DEF Partial, NoEntry
<1>2. Init => TypeOK
  <2>1. <<>> \in Seq(TaskID)
    OBVIOUS
  <2>2. QED
    BY <1>1, <2>1 DEF Init, TypeOK
<1>3. QED
  BY <1>2, TypeStep, PTL DEF Spec

------------------------------------------------------------------------------
(* Places: ListedIsStored and StoredIsListed, one ID at a time.            *)

Stored(id, st) == /\ id \in DOMAIN task
                  /\ task[id].state = st
                  /\ task[id].msg # NoMsg
                  /\ task[id].msg.id = id

Placed(id) ==
  /\ id \in Range(pending)    => Stored(id, "pending")
  /\ id \in active            => Stored(id, "active")
  /\ id \in DOMAIN scheduled  => Stored(id, "scheduled")
  /\ id \in DOMAIN retry      => Stored(id, "retry")
  /\ id \in DOMAIN archived   => Stored(id, "archived")
  /\ id \in DOMAIN completed  => Stored(id, "completed")
  /\ id \in DOMAIN task =>
       /\ task[id].state = "pending"   => id \in Range(pending)
       /\ task[id].state = "active"    => id \in active
       /\ task[id].state = "scheduled" => id \in DOMAIN scheduled
       /\ task[id].state = "retry"     => id \in DOMAIN retry
       /\ task[id].state = "completed" => id \in DOMAIN completed

\* The six lists and sets hold task IDs only.
LEMMA MembersAre ==
  ASSUME TypeOK
  PROVE  /\ Range(pending) \subseteq TaskID /\ active \subseteq TaskID
         /\ DOMAIN scheduled \subseteq TaskID /\ DOMAIN retry \subseteq TaskID
         /\ DOMAIN archived \subseteq TaskID /\ DOMAIN completed \subseteq TaskID
         /\ DOMAIN task \subseteq TaskID
BY RangeOfSeq DEF TypeOK, Partial

\* The two invariants say this of each ID, and nothing more.
LEMMA PlacedIs ==
  ASSUME TypeOK
  PROVE  (ListedIsStored /\ StoredIsListed) <=> \A id \in TaskID : Placed(id)
<1>1. /\ Members["pending"] = Range(pending) /\ Members["active"] = active
      /\ Members["scheduled"] = DOMAIN scheduled /\ Members["retry"] = DOMAIN retry
      /\ Members["archived"] = DOMAIN archived
      /\ Members["completed"] = DOMAIN completed
  BY DEF Members
<1>2. ASSUME ListedIsStored, StoredIsListed, NEW id \in TaskID PROVE Placed(id)
  <2>1. \A st \in State : id \in Members[st] => Stored(id, st)
    BY <1>2 DEF ListedIsStored, Stored
  <2>2. id \in DOMAIN task =>
          \A st \in State \ {"archived"} : task[id].state = st => id \in Members[st]
    BY <1>2 DEF StoredIsListed
  <2>3. QED
    BY <1>1, <2>1, <2>2 DEF Placed, State
<1>3. ASSUME \A id \in TaskID : Placed(id) PROVE ListedIsStored
  <2> SUFFICES ASSUME NEW st \in State, NEW id \in Members[st] PROVE Stored(id, st)
    BY DEF ListedIsStored, Stored
  <2>1. id \in TaskID
    BY <1>1, MembersAre DEF State
  <2>2. Placed(id)
    BY <1>3, <2>1
  <2>3. QED
    BY <1>1, <2>2 DEF Placed, State
<1>4. ASSUME \A id \in TaskID : Placed(id) PROVE StoredIsListed
  <2> SUFFICES ASSUME NEW id \in DOMAIN task, task[id].state \in State \ {"archived"}
               PROVE  id \in Members[task[id].state]
    BY DEF StoredIsListed
  <2>1. id \in TaskID
    BY MembersAre
  <2>2. QED
    BY <1>1, <1>4, <2>1 DEF Placed, State
<1>5. QED
  BY <1>2, <1>3, <1>4

\* An ID whose entries a step does not touch stays placed.
LEMMA StillPlaced ==
  ASSUME NEW id, Placed(id),
         id \in Range(pending)' <=> id \in Range(pending),
         id \in active' <=> id \in active,
         id \in DOMAIN scheduled' <=> id \in DOMAIN scheduled,
         id \in DOMAIN retry' <=> id \in DOMAIN retry,
         id \in DOMAIN archived' <=> id \in DOMAIN archived,
         id \in DOMAIN completed' <=> id \in DOMAIN completed,
         id \in DOMAIN task' <=> id \in DOMAIN task,
         id \in DOMAIN task => task'[id] = task[id]
  PROVE  Placed(id)'
BY DEF Placed, Stored

\* The strengthening of the safety invariants that every step keeps.
IInv == /\ TypeOK
        /\ ListedIsStored
        /\ StoredIsListed
        /\ PendingOnce
        /\ LeasedIffActive

\* PendingOnce says that the pending list is an injective function.
LEMMA PendingOnceIs == PendingOnce <=> IsInjective(pending)
BY DEF PendingOnce, IsInjective

------------------------------------------------------------------------------
(* Each script keeps every ID in its place.                                *)

Core == /\ \A id \in TaskID : Placed(id)
        /\ IsInjective(pending)
        /\ DOMAIN lease = active

\* The invariant in the form the lemmas on the scripts use.
LEMMA CoreIs == TypeOK => (IInv <=> Core)
BY PlacedIs, PendingOnceIs DEF IInv, Core, LeasedIffActive

\* Enqueue and EnqueueUnique: the ID had no hash, so it was nowhere.
LEMMA EnqueueCore ==
  ASSUME TypeOK, Core, NEW m \in Message, m.id \notin DOMAIN task,
         task' = WithMsg(task, m, "pending"),
         pending' = Append(pending, m.id),
         UNCHANGED <<active, lease, scheduled, retry, archived, completed>>
  PROVE  Core'
<1> DEFINE x == m.id
<1>1. x \in TaskID /\ m # NoMsg
  BY MessageMsg DEF Message
<1>2. /\ DOMAIN task' = DOMAIN task \cup {x}
      /\ task'[x] = [state |-> "pending", msg |-> m]
      /\ \A y \in DOMAIN task : y # x => task'[y] = task[y]
  BY DEF WithMsg, Put
<1>3. /\ x \notin Range(pending) /\ x \notin active
      /\ x \notin DOMAIN scheduled /\ x \notin DOMAIN retry
      /\ x \notin DOMAIN archived /\ x \notin DOMAIN completed
  BY <1>1 DEF Core, Placed, Stored
<1>4. Range(pending') = Range(pending) \cup {x} /\ IsInjective(pending')
  BY <1>1, <1>3, AppendIs DEF TypeOK, Core
<1>5. ASSUME NEW y \in TaskID PROVE Placed(y)'
  <2>1. CASE y = x
    BY <1>1, <1>2, <1>3, <1>4, <2>1 DEF Placed, Stored
  <2>2. CASE y # x
    BY <1>2, <1>4, <2>2, StillPlaced DEF Core
  <2>3. QED
    BY <2>1, <2>2
<1>6. QED
  BY <1>4, <1>5 DEF Core

\* Schedule and ScheduleUnique.
LEMMA ScheduleCore ==
  ASSUME TypeOK, Core, NEW m \in Message, NEW t \in Int, m.id \notin DOMAIN task,
         task' = WithMsg(task, m, "scheduled"),
         scheduled' = Put(scheduled, m.id, Unix(t)),
         UNCHANGED <<pending, active, lease, retry, archived, completed>>
  PROVE  Core'
<1> DEFINE x == m.id
<1>1. x \in TaskID /\ m # NoMsg
  BY MessageMsg DEF Message
<1>2. /\ DOMAIN task' = DOMAIN task \cup {x}
      /\ task'[x] = [state |-> "scheduled", msg |-> m]
      /\ \A y \in DOMAIN task : y # x => task'[y] = task[y]
  BY DEF WithMsg, Put
<1>3. /\ x \notin Range(pending) /\ x \notin active
      /\ x \notin DOMAIN scheduled /\ x \notin DOMAIN retry
      /\ x \notin DOMAIN archived /\ x \notin DOMAIN completed
  BY <1>1 DEF Core, Placed, Stored
<1>4. DOMAIN scheduled' = DOMAIN scheduled \cup {x}
  BY DEF Put
<1>5. ASSUME NEW y \in TaskID PROVE Placed(y)'
  <2>1. CASE y = x
    BY <1>1, <1>2, <1>3, <1>4, <2>1 DEF Placed, Stored
  <2>2. CASE y # x
    BY <1>2, <1>4, <2>2, StillPlaced DEF Core
  <2>3. QED
    BY <2>1, <2>2
<1>6. QED
  BY <1>5 DEF Core

\* The head of the list is stored as pending, and becomes active.
LEMMA DequeueCore ==
  ASSUME TypeOK, Core, NEW t \in Int, Dequeue(t)
  PROVE  Core'
<1> DEFINE x == Head(pending)
<1>1. /\ x \in TaskID /\ x \in Range(pending)
      /\ Range(pending') = Range(pending) \ {x} /\ IsInjective(pending')
  BY TailIs DEF Dequeue, TypeOK, Core
<1>2. Stored(x, "pending")
  BY <1>1 DEF Core, Placed
<1>3. /\ x \notin active /\ x \notin DOMAIN scheduled /\ x \notin DOMAIN retry
      /\ x \notin DOMAIN archived /\ x \notin DOMAIN completed
  BY <1>1, <1>2 DEF Core, Placed, Stored
<1>4. /\ DOMAIN task' = DOMAIN task \cup {x}
      /\ task'[x] = Restated(x, "active")
      /\ \A y \in DOMAIN task : y # x => task'[y] = task[y]
  BY <1>1, WithStateIs DEF Dequeue, TypeOK, State
<1>5. /\ DOMAIN lease' = DOMAIN lease \cup {x} /\ active' = active \cup {x}
      /\ UNCHANGED <<scheduled, retry, archived, completed>>
  BY DEF Dequeue, Put, delayed, finals
<1>6. ASSUME NEW y \in TaskID PROVE Placed(y)'
  <2>1. CASE y = x
    BY <1>1, <1>2, <1>3, <1>4, <1>5, <2>1 DEF Placed, Stored, Restated
  <2>2. CASE y # x
    BY <1>1, <1>4, <1>5, <2>2, StillPlaced DEF Core
  <2>3. QED
    BY <2>1, <2>2
<1>7. QED
  BY <1>1, <1>5, <1>6 DEF Core

\* What Release finds and leaves: an active task is leased, is stored as
\* active and is nowhere else, so no script stops half-way.
LEMMA ReleaseIs ==
  ASSUME TypeOK, Core, NEW x, Release(x)
  PROVE  /\ x \in TaskID /\ Leased(x) /\ Stored(x, "active")
         /\ x \notin Range(pending) /\ x \notin DOMAIN scheduled
         /\ x \notin DOMAIN retry /\ x \notin DOMAIN archived
         /\ x \notin DOMAIN completed
         /\ active' = active \ {x} /\ DOMAIN lease' = active'
<1>1. x \in TaskID /\ Leased(x)
  BY DEF Release, TypeOK, Core, Leased
<1>2. Stored(x, "active")
  BY <1>1 DEF Release, Core, Placed
<1>3. DOMAIN lease' = DOMAIN lease \ {x}
  BY DEF Release, Drop
<1>4. QED
  BY <1>1, <1>2, <1>3 DEF Release, Core, Placed, Stored

\* Done: the hash goes with the last entry.
LEMMA DoneCore ==
  ASSUME TypeOK, Core, NEW m \in Message, Done(m)
  PROVE  Core'
<1> DEFINE x == m.id
<1>1. Release(x)
  BY DEF Done
<1>2. /\ DOMAIN task' = DOMAIN task \ {x}
      /\ \A y \in DOMAIN task : y # x => task'[y] = task[y]
      /\ UNCHANGED <<pending, scheduled, retry, archived, completed>>
  BY <1>1, ReleaseIs DEF Done, Drop, delayed, finals
<1>3. ASSUME NEW y \in TaskID PROVE Placed(y)'
  <2>1. CASE y = x
    BY <1>1, <1>2, <2>1, ReleaseIs DEF Placed
  <2>2. CASE y # x
    BY <1>1, <1>2, <2>2, ReleaseIs, StillPlaced DEF Core
  <2>3. QED
    BY <2>1, <2>2
<1>4. QED
  BY <1>1, <1>2, <1>3, ReleaseIs DEF Core

\* MarkAsComplete: ZADD always adds a member.
LEMMA CompleteCore ==
  ASSUME TypeOK, Core, NEW m \in Message, NEW t \in Int, MarkAsComplete(m, t)
  PROVE  Core'
<1> DEFINE x == m.id
<1>1. Release(x) /\ m # NoMsg
  BY MessageMsg DEF MarkAsComplete
<1>2. /\ task' = WithMsg(task, m, "completed")
      /\ completed' = Put(completed, x, Unix(t))
      /\ UNCHANGED <<pending, scheduled, retry, archived>>
  BY <1>1, ReleaseIs DEF MarkAsComplete, delayed
<1>3. /\ DOMAIN task' = DOMAIN task \cup {x}
      /\ task'[x] = [state |-> "completed", msg |-> m]
      /\ \A y \in DOMAIN task : y # x => task'[y] = task[y]
      /\ DOMAIN completed' = DOMAIN completed \cup {x}
  BY <1>2 DEF WithMsg, Put
<1>4. ASSUME NEW y \in TaskID PROVE Placed(y)'
  <2>1. CASE y = x
    BY <1>1, <1>2, <1>3, <2>1, ReleaseIs DEF Placed, Stored
  <2>2. CASE y # x
    BY <1>1, <1>2, <1>3, <2>2, ReleaseIs, StillPlaced DEF Core
  <2>3. QED
    BY <2>1, <2>2
<1>5. QED
  BY <1>1, <1>2, <1>4, ReleaseIs DEF Core

\* Requeue: the ID was not in the list.
LEMMA RequeueCore ==
  ASSUME TypeOK, Core, NEW m \in Message, Requeue(m)
  PROVE  Core'
<1> DEFINE x == m.id
<1>1. Release(x) /\ x \in TaskID
  BY DEF Requeue, Message
<1>2. /\ task' = WithState(x, "pending")
      /\ pending' = <<x>> \o pending
      /\ UNCHANGED <<scheduled, retry, archived, completed>>
  BY <1>1, ReleaseIs DEF Requeue, delayed, finals
<1>3. /\ DOMAIN task' = DOMAIN task \cup {x}
      /\ task'[x] = Restated(x, "pending")
      /\ \A y \in DOMAIN task : y # x => task'[y] = task[y]
  BY <1>2 DEF WithState, Put
<1> DEFINE s == <<x>>
<1>4. /\ s \in Seq(TaskID) /\ Range(s) = {x} /\ IsInjective(s)
      /\ pending' = s \o pending
  <2>1. /\ s \in Seq(TaskID) /\ DOMAIN s = 1..1 /\ s[1] = x
        /\ pending' = s \o pending
    BY <1>1, <1>2
  <2>2. \A i \in 1..1 : i = 1
    OBVIOUS
  <2>3. QED
    BY <2>1, <2>2 DEF Range, IsInjective
<1> HIDE DEF s
<1>5. Range(pending') = Range(pending) \cup {x} /\ IsInjective(pending')
  BY <1>1, <1>4, JoinIs, ReleaseIs DEF TypeOK, Core
<1>6. ASSUME NEW y \in TaskID PROVE Placed(y)'
  <2>1. CASE y = x
    BY <1>1, <1>2, <1>3, <1>5, <2>1, ReleaseIs DEF Placed, Stored, Restated
  <2>2. CASE y # x
    BY <1>1, <1>2, <1>3, <1>5, <2>2, ReleaseIs, StillPlaced DEF Core
  <2>3. QED
    BY <2>1, <2>2
<1>7. QED
  BY <1>1, <1>5, <1>6, ReleaseIs DEF Core

\* Retry, with the copy n of the message that it stores.
LEMMA RetryCore ==
  ASSUME TypeOK, Core, NEW n \in Message, NEW t \in Int, Release(n.id),
         retry' = Put(retry, n.id, Unix(t)),
         task' = WithMsg(task, n, "retry"),
         UNCHANGED <<pending, scheduled, archived, completed>>
  PROVE  Core'
<1> DEFINE x == n.id
<1>1. n # NoMsg
  BY MessageMsg
<1>2. /\ DOMAIN task' = DOMAIN task \cup {x}
      /\ task'[x] = [state |-> "retry", msg |-> n]
      /\ \A y \in DOMAIN task : y # x => task'[y] = task[y]
      /\ DOMAIN retry' = DOMAIN retry \cup {x}
  BY DEF WithMsg, Put
<1>3. ASSUME NEW y \in TaskID PROVE Placed(y)'
  <2>1. CASE y = x
    BY <1>1, <1>2, <2>1, ReleaseIs DEF Placed, Stored
  <2>2. CASE y # x
    BY <1>2, <2>2, ReleaseIs, StillPlaced DEF Core
  <2>3. QED
    BY <2>1, <2>2
<1>4. QED
  BY <1>3, ReleaseIs DEF Core

\* A call of Archive that does not abort.
LEMMA CalmArchive ==
  ASSUME TypeOK, NEW m \in Message, NEW t \in Int, Archive(m, t), [~Aborting]_vars
  PROVE  Archives(m, t)
<1> SUFFICES ASSUME Leased(m.id), ~Unpacks(m, t), ArchiveAborts(m, t) PROVE FALSE
  BY DEF Archive
<1>1. Aborting
  BY DEF Aborting
<1>2. active' # active
  BY DEF ArchiveAborts, Release
<1>3. QED
  BY <1>1, <1>2 DEF vars

\* Archive: what the trimming removes was stored as archived.
LEMMA ArchiveCore ==
  ASSUME TypeOK, Core, NEW m \in Message, NEW t \in Int, Archives(m, t)
  PROVE  Core'
<1> DEFINE x     == m.id
           added == Archiving(m, t)
           gone  == Trimmed(m, t)
<1>1. Release(x) /\ m # NoMsg
  BY MessageMsg DEF Archives
<1>2. DOMAIN added = DOMAIN archived \cup {x}
  BY DEF Archiving, Put
<1>3. gone \subseteq DOMAIN archived \cup {x}
  BY <1>2 DEF Trimmed, Old, UpTo, Extra, Drop
<1>4. /\ task' = WithMsg(Drop(task, gone), m, "archived")
      /\ archived' = Drop(added, gone)
      /\ UNCHANGED <<pending, scheduled, retry, completed>>
  BY <1>1, ReleaseIs DEF Archives, delayed
<1> HIDE DEF added, gone
<1>5. /\ DOMAIN task' = (DOMAIN task \ gone) \cup {x}
      /\ task'[x] = [state |-> "archived", msg |-> m]
      /\ \A y \in DOMAIN task \ gone : y # x => task'[y] = task[y]
      /\ DOMAIN archived' = (DOMAIN archived \cup {x}) \ gone
  BY <1>2, <1>4 DEF WithMsg, Put, Drop
<1>6. ASSUME NEW y \in TaskID PROVE Placed(y)'
  <2>1. CASE y = x
    BY <1>1, <1>4, <1>5, <2>1, ReleaseIs DEF Placed, Stored
  <2>2. CASE y # x /\ y \notin gone
    BY <1>1, <1>4, <1>5, <2>2, ReleaseIs, StillPlaced DEF Core
  <2>3. CASE y # x /\ y \in gone
    <3>1. Stored(y, "archived") /\ Placed(y)
      BY <1>3, <2>3 DEF Core, Placed
    <3>2. /\ y \notin Range(pending) /\ y \notin active
          /\ y \notin DOMAIN scheduled /\ y \notin DOMAIN retry
          /\ y \notin DOMAIN completed
      BY <3>1 DEF Placed, Stored
    <3>3. QED
      BY <1>1, <1>4, <1>5, <2>3, <3>2, ReleaseIs DEF Placed
  <2>4. QED
    BY <2>1, <2>2, <2>3
<1>7. QED
  BY <1>1, <1>4, <1>6, ReleaseIs DEF Core

\* WriteResult: the new hash has neither state nor message.
LEMMA WriteResultCore ==
  ASSUME TypeOK, Core, NEW x \in TaskID, WriteResult(x)
  PROVE  Core'
<1>1. /\ DOMAIN task' = DOMAIN task \cup {x} /\ x \notin DOMAIN task
      /\ task'[x] = [state |-> "none", msg |-> NoMsg]
      /\ \A y \in DOMAIN task : y # x => task'[y] = task[y]
      /\ UNCHANGED <<pending, active, lease, scheduled, retry, archived, completed>>
  BY DEF WriteResult, Put, delayed, finals
<1>2. ASSUME NEW y \in TaskID PROVE Placed(y)'
  <2>1. CASE y = x
    <3>1. /\ x \notin Range(pending) /\ x \notin active
          /\ x \notin DOMAIN scheduled /\ x \notin DOMAIN retry
          /\ x \notin DOMAIN archived /\ x \notin DOMAIN completed
      BY <1>1 DEF Core, Placed, Stored
    <3>2. task'[x].state = "none"
      BY <1>1
    <3>3. QED
      BY <1>1, <2>1, <3>1, <3>2 DEF Placed
  <2>2. CASE y # x
    BY <1>1, <2>2, StillPlaced DEF Core
  <2>3. QED
    BY <2>1, <2>2
<1>3. QED
  BY <1>1, <1>2 DEF Core

\* A batch of one delayed set goes to the end of the list, from the set del
\* whose members are stored in state st.
LEMMA ForwardCore ==
  ASSUME TypeOK, Core, NEW z, Partial(z, Int), NEW ids \in SUBSET TaskID,
         IsFiniteSet(ids), ids \subseteq DOMAIN z, ForwardFrom(z, ids),
         \/ /\ z = scheduled /\ scheduled' = Drop(scheduled, ids) /\ UNCHANGED retry
         \/ /\ z = retry /\ retry' = Drop(retry, ids) /\ UNCHANGED scheduled
  PROVE  Core'
<1>1. PICK s \in InOrder(z, ids) : pending' = pending \o s
  BY DEF ForwardFrom
<1>2. s \in Seq(TaskID) /\ Range(s) = ids /\ IsInjective(s)
  BY InOrderIs
<1>3. ASSUME NEW y \in ids
      PROVE  /\ y \in TaskID /\ y \in DOMAIN task
             /\ task[y].msg # NoMsg /\ task[y].msg.id = y
             /\ y \notin Range(pending) /\ y \notin active
             /\ y \notin DOMAIN archived /\ y \notin DOMAIN completed
             /\ y \notin DOMAIN scheduled' /\ y \notin DOMAIN retry'
  <2>1. Placed(y)
    BY <1>3 DEF Core
  <2>2. CASE z = scheduled /\ scheduled' = Drop(scheduled, ids) /\ retry' = retry
    BY <1>3, <2>1, <2>2 DEF Placed, Stored, Drop
  <2>3. CASE z = retry /\ retry' = Drop(retry, ids) /\ scheduled' = scheduled
    BY <1>3, <2>1, <2>3 DEF Placed, Stored, Drop
  <2>4. QED
    BY <2>2, <2>3
<1>4. Range(pending') = Range(pending) \cup ids /\ IsInjective(pending')
  <2>1. Range(pending) \cap Range(s) = {}
    BY <1>2, <1>3
  <2>2. QED
    BY <1>1, <1>2, <2>1, JoinIs DEF TypeOK, Core
<1>5. /\ DOMAIN task' = DOMAIN task \cup ids
      /\ \A y \in ids : task'[y] = Restated(y, "pending")
      /\ \A y \in DOMAIN task \ ids : task'[y] = task[y]
      /\ UNCHANGED <<active, lease, archived, completed>>
  BY DEF ForwardFrom, finals
<1>6. /\ DOMAIN scheduled' \ ids = DOMAIN scheduled \ ids
      /\ DOMAIN retry' \ ids = DOMAIN retry \ ids
  BY DEF Drop
<1>7. ASSUME NEW y \in TaskID PROVE Placed(y)'
  <2>1. CASE y \in ids
    <3>1. task'[y].state = "pending" /\ task'[y].msg = task[y].msg
      BY <1>3, <1>5, <2>1 DEF Restated
    <3>2. Stored(y, "pending")'
      BY <1>3, <1>5, <2>1, <3>1 DEF Stored
    <3>3. /\ y \in Range(pending)' /\ y \notin active'
          /\ y \notin DOMAIN scheduled' /\ y \notin DOMAIN retry'
          /\ y \notin DOMAIN archived' /\ y \notin DOMAIN completed'
      BY <1>3, <1>4, <1>5, <2>1
    <3>4. QED
      BY <3>1, <3>2, <3>3 DEF Placed
  <2>2. CASE y \notin ids
    <3>1. Placed(y)
      BY DEF Core
    <3>2. /\ y \in Range(pending)' <=> y \in Range(pending)
          /\ y \in DOMAIN task' <=> y \in DOMAIN task
          /\ y \in DOMAIN task => task'[y] = task[y]
      BY <1>4, <1>5, <2>2
    <3>3. /\ y \in active' <=> y \in active
          /\ y \in DOMAIN scheduled' <=> y \in DOMAIN scheduled
          /\ y \in DOMAIN retry' <=> y \in DOMAIN retry
      BY <1>5, <1>6, <2>2
    <3>4. /\ y \in DOMAIN archived' <=> y \in DOMAIN archived
          /\ y \in DOMAIN completed' <=> y \in DOMAIN completed
      BY <1>5
    <3>5. QED
      BY ONLY <3>1, <3>2, <3>3, <3>4, StillPlaced
  <2>3. QED
    BY <2>1, <2>2
<1>8. QED
  BY <1>4, <1>5, <1>7 DEF Core

\* The janitor removes completed tasks, entry and hash.
LEMMA DeleteCore ==
  ASSUME TypeOK, Core, NEW t, DeleteExpiredCompletedTasks(t)
  PROVE  Core'
<1> DEFINE ids == FirstOf(completed, UpTo(completed, Unix(t)), BatchSize)
<1>1. ids \subseteq DOMAIN completed /\ ids \subseteq TaskID
  BY BatchIs DEF TypeOK
<1>2. /\ task' = Drop(task, ids) /\ completed' = Drop(completed, ids)
      /\ UNCHANGED <<pending, active, lease, scheduled, retry, archived>>
  BY DEF DeleteExpiredCompletedTasks, delayed
<1> HIDE DEF ids
<1>3. /\ DOMAIN task' = DOMAIN task \ ids /\ DOMAIN completed' = DOMAIN completed \ ids
      /\ \A y \in DOMAIN task \ ids : task'[y] = task[y]
  BY <1>2 DEF Drop
<1>4. ASSUME NEW y \in TaskID PROVE Placed(y)'
  <2>1. CASE y \in ids
    BY <1>1, <1>2, <1>3, <2>1 DEF Core, Placed, Stored
  <2>2. CASE y \notin ids
    BY <1>2, <1>3, <2>2, StillPlaced DEF Core
  <2>3. QED
    BY <2>1, <2>2
<1>5. QED
  BY <1>2, <1>4 DEF Core

\* A step that leaves the lists, the sets and the hashes alone.
LEMMA IdleCore ==
  ASSUME Core, DOMAIN lease' = DOMAIN lease,
         UNCHANGED <<pending, active, scheduled, retry, archived, completed, task>>
  PROVE  Core'
BY DEF Core, Placed, Stored

\* Every script that does not abort keeps every ID in its place.
LEMMA CoreStep == TypeOK /\ Core /\ [Next]_vars /\ [~Aborting]_vars => Core'
<1> SUFFICES ASSUME TypeOK, Core, [Next]_vars, [~Aborting]_vars PROVE Core'
  OBVIOUS
<1>t. \A t \in Time : t \in Int
  BY TimeAssumption
<1>m. Fresh \subseteq Message /\ Unique \subseteq Message
  BY CopiesAre DEF Fresh, Unique
<1>1. CASE ClientStep
  <2>1. ASSUME NEW m \in Fresh \ Unique, Enqueue(m) PROVE Core'
    BY <1>m, <2>1, EnqueueCore DEF Enqueue, delayed, finals
  <2>2. ASSUME NEW m \in Unique, EnqueueUnique(m) PROVE Core'
    <3>1. CASE m.id \in DOMAIN task
      BY <2>2, <3>1, IdleCore DEF EnqueueUnique, delayed, finals
    <3>2. CASE m.id \notin DOMAIN task
      BY <1>m, <2>2, <3>2, EnqueueCore DEF EnqueueUnique, delayed, finals
    <3>3. QED
      BY <3>1, <3>2
  <2>3. ASSUME NEW m \in Fresh \ Unique, NEW t \in Time, Schedule(m, t) PROVE Core'
    BY <1>m, <1>t, <2>3, ScheduleCore DEF Schedule, finals
  <2>4. ASSUME NEW m \in Unique, NEW t \in Time, ScheduleUnique(m, t) PROVE Core'
    <3>1. CASE m.id \in DOMAIN task
      BY <2>4, <3>1, IdleCore DEF ScheduleUnique, finals
    <3>2. CASE m.id \notin DOMAIN task
      BY <1>m, <1>t, <2>4, <3>2, ScheduleCore DEF ScheduleUnique, finals
    <3>3. QED
      BY <3>1, <3>2
  <2>5. QED
    BY <1>1, <2>1, <2>2, <2>3, <2>4 DEF ClientStep
<1>2. CASE WorkerStep
  <2>1. ASSUME NEW m \in Message, NEW t \in Int, NEW f \in BOOLEAN, Retry(m, t, f)
        PROVE Core'
    <3> DEFINE n == IF f THEN [m EXCEPT !.retried = @ + 1] ELSE m
    <3>1. n \in Message /\ n.id = m.id
      BY ModifiedIs
    <3>2. Release(m.id)
      BY <2>1 DEF Retry
    <3>3. /\ retry' = Put(retry, m.id, Unix(t)) /\ task' = WithMsg(task, n, "retry")
          /\ UNCHANGED <<pending, scheduled, archived, completed>>
      BY <2>1, <3>2, ReleaseIs DEF Retry, finals
    <3> HIDE DEF n
    <3>4. QED
      BY <2>1, <3>1, <3>2, <3>3, RetryCore
  <2>2. ASSUME NEW m \in Message, NEW t \in Int, Archive(m, t) PROVE Core'
    BY <2>2, ArchiveCore, CalmArchive
  <2>3. QED
    BY <1>2, <1>t, <2>1, <2>2, CopiesAre, DequeueCore, DoneCore, CompleteCore,
       RequeueCore, WriteResultCore DEF WorkerStep
<1>3. CASE ServerStep
  <2>1. ASSUME NEW t \in Time, ForwardScheduled(t) PROVE Core'
    BY <2>1, BatchIs, ForwardCore DEF ForwardScheduled, TypeOK
  <2>2. ASSUME NEW t \in Time, ForwardRetry(t) PROVE Core'
    BY <2>2, BatchIs, ForwardCore DEF ForwardRetry, TypeOK
  <2>3. ASSUME NEW ids, NEW t \in Time, ExtendLease(ids, t) PROVE Core'
    BY <2>3, IdleCore DEF ExtendLease, delayed, finals
  <2>4. QED
    BY <1>3, <2>1, <2>2, <2>3, DeleteCore DEF ServerStep
<1>4. CASE OutsideStep
  BY <1>4, IdleCore DEF OutsideStep, Pause, LockExpires, delayed, finals
<1>5. CASE UNCHANGED vars
  BY <1>5, IdleCore DEF vars
<1>6. QED
  BY <1>1, <1>2, <1>3, <1>4, <1>5 DEF Next

\* An empty queue satisfies the invariant.
LEMMA InitInv == Init => IInv
<1> SUFFICES ASSUME Init PROVE TypeOK /\ Core
  BY CoreIs
<1>1. TypeOK
  <2>1. ASSUME NEW R PROVE Partial(NoEntry, R)
    BY DEF Partial, NoEntry
  <2>2. <<>> \in Seq(TaskID)
    OBVIOUS
  <2>3. QED
    BY <2>1, <2>2 DEF Init, TypeOK
<1>2. Range(pending) = {} /\ IsInjective(pending)
  BY DEF Init, Range, IsInjective
<1>3. Core
  BY <1>2 DEF Init, Core, Placed, NoEntry
<1>4. QED
  BY <1>1, <1>3

\* Every script, complete or stopped half-way, keeps the invariant, but for a
\* call of Archive that aborts.
LEMMA StepInv == IInv /\ [Next]_vars /\ [~Aborting]_vars => IInv'
<1> SUFFICES ASSUME IInv, [Next]_vars, [~Aborting]_vars PROVE IInv'
  OBVIOUS
<1>1. TypeOK /\ Core
  BY CoreIs DEF IInv
<1>2. TypeOK'
  BY <1>1, TypeStep
<1>3. Core'
  BY <1>1, CoreStep
<1>4. (TypeOK => (IInv <=> Core))'
  BY CoreIs, PTL
<1>5. QED
  BY <1>2, <1>3, <1>4

\* The inductive invariant: types, and the four facts that tie the hashes, the
\* lists and sets and the leases together, hold after any calls of the scripts.
THEOREM Inductive == Spec /\ NoAbort => []IInv
BY InitInv, StepInv, PTL DEF Spec, NoAbort

\* No ID is in two lists or sets, and none is there without its message.
THEOREM ListedCorrect == Spec /\ NoAbort => []ListedIsStored
<1>1. IInv => ListedIsStored
  BY DEF IInv
<1>2. QED
  BY <1>1, Inductive, PTL

\* No script leaves a waiting, active or completed task where nobody looks.
THEOREM StoredCorrect == Spec /\ NoAbort => []StoredIsListed
<1>1. IInv => StoredIsListed
  BY DEF IInv
<1>2. QED
  BY <1>1, Inductive, PTL

\* No ID is twice in the pending list.
THEOREM PendingCorrect == Spec /\ NoAbort => []PendingOnce
<1>1. IInv => PendingOnce
  BY DEF IInv
<1>2. QED
  BY <1>1, Inductive, PTL

\* The leases are those of the active tasks.
THEOREM LeasesCorrect == Spec /\ NoAbort => []LeasedIffActive
<1>1. IInv => LeasedIffActive
  BY DEF IInv
<1>2. QED
  BY <1>1, Inductive, PTL

------------------------------------------------------------------------------
(* The size of the archive.                                                *)

\* A set of natural numbers that is not empty has a least one.
LEMMA LeastNumber ==
  ASSUME NEW S \in SUBSET Nat, S # {}
  PROVE  \E n \in S : \A k \in S : ~(k < n)
<1> DEFINE R == OpToRel(<, Nat)
<1>1. IsWellFoundedOn(R, Nat)
  BY NatLessThanWellFounded, Zenon
<1>2. ASSUME NEW k \in Nat, NEW n \in Nat, k < n PROVE <<k, n>> \in R
  BY <1>2, Zenon DEF OpToRel
<1> HIDE DEF R
<1>3. PICK n \in S : \A k \in S : ~(<<k, n>> \in R)
  BY <1>1, WFMin
<1>4. QED
  BY <1>2, <1>3

\* Redis orders the members of a sorted set: by score, then by name.
LEMMA BeforeIsOrder ==
  ASSUME NEW z, Partial(z, Int)
  PROVE  /\ \A x, y \in DOMAIN z : x = y \/ Before(z, x, y) \/ Before(z, y, x)
         /\ \A x \in DOMAIN z : ~Before(z, x, x)
         /\ \A x, y, w \in DOMAIN z :
              Before(z, x, y) /\ Before(z, y, w) => Before(z, x, w)
<1>1. \A x \in DOMAIN z : z[x] \in Int /\ x \in Int
  BY IDAssumption DEF Partial
<1>2. QED
  BY <1>1 DEF Before

\* So a finite set of members that is not empty has a first one.
LEMMA FirstMember ==
  ASSUME NEW z, Partial(z, Int), NEW K \in SUBSET DOMAIN z, IsFiniteSet(K), K # {}
  PROVE  \E x \in K : \A y \in K : y = x \/ Before(z, x, y)
<1> DEFINE Pred(x) == {y \in K : Before(z, y, x)}
           Sizes   == {Cardinality(Pred(x)) : x \in K}
<1>1. ASSUME NEW x \in K PROVE IsFiniteSet(Pred(x)) /\ Cardinality(Pred(x)) \in Nat
  <2>1. IsFiniteSet(Pred(x))
    BY FS_Subset
  <2>2. QED
    BY <2>1, FS_CardinalityType
<1>2. Sizes \subseteq Nat /\ Sizes # {}
  BY <1>1
<1>3. PICK n \in Sizes : \A k \in Sizes : ~(k < n)
  BY <1>2, LeastNumber
<1>4. PICK x \in K : n = Cardinality(Pred(x))
  OBVIOUS
<1>5. ASSUME NEW y \in K, y # x, ~Before(z, x, y) PROVE FALSE
  <2>1. Before(z, y, x)
    BY <1>5, BeforeIsOrder
  <2>2. Pred(y) \subseteq Pred(x)
    BY <2>1, BeforeIsOrder
  <2>3. y \in Pred(x) /\ y \notin Pred(y)
    BY <2>1, BeforeIsOrder
  <2>4. Cardinality(Pred(y)) =< Cardinality(Pred(x)) /\ Cardinality(Pred(y)) # Cardinality(Pred(x))
    <3> HIDE DEF Pred
    <3>1. QED
      BY <1>1, <2>2, <2>3, FS_Subset
  <2>5. Cardinality(Pred(y)) \in Nat /\ Cardinality(Pred(x)) \in Nat
    BY <1>1
  <2>6. Cardinality(Pred(y)) < n
    BY <1>4, <2>4, <2>5
  <2>7. QED
    BY <1>3, <2>6
<1>6. QED
  BY <1>5

\* ZRANGE 0 -MaxArchiveSize leaves at most MaxArchiveSize - 1 members.
LEMMA ExtraLeaves ==
  ASSUME NEW z, Partial(z, Int)
  PROVE  Cardinality(DOMAIN z \ Extra(z)) < MaxArchiveSize
<1> DEFINE After(x) == {y \in DOMAIN z : Before(z, x, y)}
           K == DOMAIN z \ Extra(z)
<1>1. IsFiniteSet(DOMAIN z) /\ IsFiniteSet(K)
  BY FS_Subset, IDAssumption DEF Partial
<1>2. ASSUME NEW x \in DOMAIN z
      PROVE  IsFiniteSet(After(x)) /\ Cardinality(After(x)) \in Nat
  <2>1. IsFiniteSet(After(x))
    BY <1>1, FS_Subset
  <2>2. QED
    BY <2>1, FS_CardinalityType
<1>3. CASE K = {}
  BY <1>3, FS_EmptySet, SizeAssumption
<1>4. CASE K # {}
  <2>1. PICK x \in K : \A y \in K : y = x \/ Before(z, x, y)
    BY <1>1, <1>4, FirstMember
  <2>2. ~(Cardinality(After(x)) >= MaxArchiveSize - 1)
    BY <2>1 DEF Extra
  <2>3. K \ {x} \subseteq After(x)
    BY <2>1
  <2>4. Cardinality(K \ {x}) = Cardinality(K) - 1 /\ Cardinality(K) \in Nat
    BY <1>1, <2>1, FS_RemoveElement, FS_CardinalityType
  <2>5. Cardinality(K \ {x}) =< Cardinality(After(x))
    <3> HIDE DEF After, K
    <3>1. QED
      BY <1>2, <2>1, <2>3, FS_Subset DEF K
  <2>6. QED
    BY <1>2, <2>1, <2>2, <2>4, <2>5, SizeAssumption
<1>5. QED
  BY <1>3, <1>4

\* Between two calls there is room for one more.
ArchiveRoom == Cardinality(DOMAIN archived) < MaxArchiveSize

\* archiveCmd trims what it has added to.
LEMMA ArchiveTrims ==
  ASSUME TypeOK, ArchiveRoom, NEW m \in Message, NEW t \in Int, Archives(m, t)
  PROVE  ArchiveRoom'
<1> DEFINE added == Archiving(m, t)
           old   == Old(m, t)
           kept  == Drop(added, old)
<1>1. CASE Leased(m.id)
  <2>1. Partial(added, Int)
    BY PutIs, UnixIs DEF TypeOK, Message, Archiving
  <2>2. Partial(kept, Int)
    BY <2>1, DropIs
  <2>3. archived' = Drop(added, old \cup Extra(kept))
    BY <1>1 DEF Archives, Trimmed
  <2>4. DOMAIN archived' = DOMAIN kept \ Extra(kept)
    BY <2>3 DEF Drop
  <2>5. QED
    BY <2>2, <2>4, ExtraLeaves DEF ArchiveRoom
<1>2. CASE ~Leased(m.id)
  BY <1>2 DEF Archives, ArchiveRoom
<1>3. QED
  BY <1>1, <1>2

\* Every script that does not abort leaves room.
LEMMA RoomStep == TypeOK /\ ArchiveRoom /\ [Next]_vars /\ [~Aborting]_vars => ArchiveRoom'
<1> SUFFICES ASSUME TypeOK, ArchiveRoom, [Next]_vars, [~Aborting]_vars
             PROVE  ArchiveRoom'
  OBVIOUS
<1>1. ASSUME NEW m \in Copies, NEW t \in Time, Archive(m, t) PROVE ArchiveRoom'
  BY <1>1, ArchiveTrims, CalmArchive, CopiesAre, TimeAssumption
<1>2. ASSUME UNCHANGED archived PROVE ArchiveRoom'
  BY <1>2 DEF ArchiveRoom
<1>3. CASE ClientStep
  BY <1>2, <1>3 DEF ClientStep, Enqueue, EnqueueUnique, Schedule, ScheduleUnique, finals
<1>4. CASE WorkerStep
  BY <1>1, <1>2, <1>4 DEF WorkerStep, Dequeue, Done, MarkAsComplete, Requeue, Retry,
                          WriteResult, finals
<1>5. CASE ServerStep
  BY <1>2, <1>5 DEF ServerStep, ForwardScheduled, ForwardRetry, ForwardFrom,
                    DeleteExpiredCompletedTasks, ExtendLease, finals
<1>6. CASE OutsideStep \/ UNCHANGED vars
  BY <1>2, <1>6 DEF OutsideStep, Pause, LockExpires, finals, vars
<1>7. QED
  BY <1>3, <1>4, <1>5, <1>6 DEF Next

\* An empty archive has room.
LEMMA RoomInit == Init => ArchiveRoom
BY FS_EmptySet, SizeAssumption DEF Init, NoEntry, ArchiveRoom

\* The archive never has more members than its constant says, whatever the
\* clocks of the servers that archive, as long as unpack takes the members that
\* each call removes.
THEOREM ArchiveCorrect == Spec /\ NoAbort => []ArchiveBounded
<1>1. TypeOK /\ ArchiveRoom => ArchiveBounded
  <2>1. TypeOK => Cardinality(DOMAIN archived) \in Nat
    BY FS_Subset, FS_CardinalityType, IDAssumption DEF TypeOK, Partial
  <2>2. QED
    BY <2>1, SizeAssumption DEF ArchiveRoom, ArchiveBounded
<1>2. QED
  BY <1>1, RoomInit, RoomStep, TypeCorrect, PTL DEF Spec, NoAbort

\* With room in the archive, a call has at most MaxArchiveSize to remove.
LEMMA RoomToUnpack ==
  ASSUME TypeOK, ArchiveRoom, UnpackLimit >= MaxArchiveSize,
         NEW m \in Message, NEW t \in Int
  PROVE  Unpacks(m, t)
<1> DEFINE all == DOMAIN archived \cup {m.id}
<1>1. /\ IsFiniteSet(DOMAIN archived) /\ IsFiniteSet(all)
      /\ Cardinality(DOMAIN archived) \in Nat
      /\ Cardinality(all) =< Cardinality(DOMAIN archived) + 1
  <2>1. IsFiniteSet(DOMAIN archived)
    BY FS_Subset, IDAssumption DEF TypeOK, Partial
  <2>2. /\ IsFiniteSet(all) /\ Cardinality(DOMAIN archived) \in Nat
        /\ \/ Cardinality(all) = Cardinality(DOMAIN archived)
           \/ Cardinality(all) = Cardinality(DOMAIN archived) + 1
    BY <2>1, FS_AddElement, FS_CardinalityType
  <2>3. QED
    BY <2>1, <2>2
<1>2. ASSUME NEW S \in SUBSET all PROVE ~TooMany(S)
  <2>1. IsFiniteSet(S) /\ Cardinality(S) =< Cardinality(all)
    <3> HIDE DEF all
    <3>1. QED
      BY <1>1, FS_Subset
  <2>2. Cardinality(S) \in Nat /\ Cardinality(all) \in Nat
    BY <1>1, <2>1, FS_CardinalityType
  <2>3. QED
    BY <1>1, <2>1, <2>2, SizeAssumption DEF TooMany, ArchiveRoom
<1>3. Old(m, t) \subseteq all /\ Trimmed(m, t) \ Old(m, t) \subseteq all
  BY DEF Trimmed, Old, UpTo, Extra, Drop, Archiving, Put
<1>4. QED
  BY <1>2, <1>3 DEF Unpacks

\* No call of Archive aborts when unpack takes as many members as the archive
\* is to have: the limit of Lua, about 8000, is below maxArchiveSize.
THEOREM UnpackSuffices == ASSUME UnpackLimit >= MaxArchiveSize PROVE Spec => NoAbort
<1>1. TypeOK /\ ArchiveRoom => ~Aborting
  BY RoomToUnpack DEF Aborting
<1>2. TypeOK /\ ArchiveRoom /\ [Next]_vars => [~Aborting]_vars /\ ArchiveRoom'
  BY <1>1, RoomStep
<1>3. QED
  BY <1>2, RoomInit, TypeCorrect, PTL DEF Spec, NoAbort

------------------------------------------------------------------------------
(* Uniqueness locks.                                                       *)

\* A script that takes a lock finds it free; only doneUniqueCmd gives one up,
\* with the task that holds it.
LEMMA LockStep ==
  ASSUME TypeOK, [Next]_vars, NEW k \in UniqueKey, lock[k] # NoTask, lock'[k] # lock[k]
  PROVE  LockExpires(k) \/ Acknowledged(lock[k])
<1>1. lock \in [UniqueKey -> TaskID \cup {NoTask}]
  BY DEF TypeOK
<1>2. ASSUME NEW m \in Unique, lock[m.ukey] = NoTask,
             lock' = [lock EXCEPT ![m.ukey] = m.id]
      PROVE  FALSE
  BY <1>1, <1>2
<1>3. ASSUME NEW m \in Copies, Done(m) PROVE Acknowledged(lock[k])
  <2>1. /\ Leased(m.id) /\ m.id \in DOMAIN task /\ lock[m.ukey] = m.id
        /\ lock' = [lock EXCEPT ![m.ukey] = NoTask]
        /\ task' = Drop(task, {m.id})
    BY <1>3 DEF Done
  <2>2. m.ukey = k
    BY <1>1, <2>1
  <2>3. QED
    BY <2>1, <2>2 DEF Drop, Acknowledged
<1>4. ASSUME NEW j \in UniqueKey, LockExpires(j) PROVE LockExpires(k)
  <2>1. j = k
    BY <1>1, <1>4 DEF LockExpires
  <2>2. QED
    BY <1>4, <2>1
<1>5. CASE ClientStep
  BY <1>2, <1>5 DEF ClientStep, Enqueue, EnqueueUnique, Schedule, ScheduleUnique
<1>6. CASE WorkerStep
  BY <1>3, <1>6 DEF WorkerStep, Dequeue, MarkAsComplete, Requeue, Retry, Archive,
                          Archives, ArchiveAborts, WriteResult
<1>7. CASE ServerStep
  BY <1>7 DEF ServerStep, ForwardScheduled, ForwardRetry, ForwardFrom,
              DeleteExpiredCompletedTasks, ExtendLease
<1>8. CASE OutsideStep
  BY <1>4, <1>8 DEF OutsideStep, Pause
<1>9. CASE UNCHANGED vars
  BY <1>9 DEF vars
<1>10. QED
  BY <1>5, <1>6, <1>7, <1>8, <1>9 DEF Next

\* No call frees a lock that another task holds.
THEOREM LocksKept == Spec => LockKept
<1>1. TypeOK /\ [Next]_vars =>
        [\A k \in UniqueKey : lock[k] # NoTask /\ lock'[k] # lock[k] =>
           LockExpires(k) \/ Acknowledged(lock[k])]_vars
  BY LockStep
<1>2. QED
  BY <1>1, TypeCorrect, PTL DEF Spec, LockKept
==============================================================================
