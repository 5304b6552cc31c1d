---------------------------- MODULE RdbRefinement ----------------------------
(***************************************************************************)
(* Every behaviour of the broker in which no call of Archive aborts is one *)
(* of TaskLifecycle, the stage of an ID being the state field of its hash. *)
(***************************************************************************)
EXTENDS RdbProofs

\* One ID moves, the hashes of the others are what they were.
LEMMA MoveOne ==
  ASSUME NEW x \in TaskID, NEW t, stageOf'[x] = t,
         \A y \in TaskID : y # x => /\ y \in DOMAIN task' <=> y \in DOMAIN task
                                    /\ y \in DOMAIN task => task'[y] = task[y]
  PROVE  Lifecycle!MoveAll({x}, t)
<1>1. ASSUME NEW y \in TaskID, y # x PROVE stageOf'[y] = stageOf[y]
  BY <1>1 DEF stageOf
<1>2. stageOf' = [y \in TaskID |-> IF y \in {x} THEN t ELSE stageOf[y]]
  BY <1>1 DEF stageOf
<1>3. QED
  BY <1>2 DEF Lifecycle!MoveAll

\* Nothing moves.
LEMMA NoMove ==
  ASSUME UNCHANGED task PROVE stageOf' = stageOf
BY DEF stageOf

\* A client's script.
LEMMA SubmitStep ==
  ASSUME TypeOK, NEW m \in Message, m.id \notin DOMAIN task,
         NEW st \in {"pending", "scheduled"}, task' = WithMsg(task, m, st)
  PROVE  Lifecycle!Next
<1> DEFINE x == m.id
<1>1. x \in TaskID
  BY DEF Message
<1>2. /\ x \in DOMAIN task' /\ task'[x].state = st
      /\ \A y \in TaskID : y # x => /\ y \in DOMAIN task' <=> y \in DOMAIN task
                                    /\ y \in DOMAIN task => task'[y] = task[y]
  BY DEF WithMsg, Put
<1>3. stageOf[x] = "absent" /\ stageOf'[x] = st
  BY <1>1, <1>2 DEF stageOf
<1>4. Lifecycle!MoveAll({x}, st)
  BY <1>1, <1>2, <1>3, MoveOne
<1>5. Lifecycle!Submit(x)
  BY <1>3, <1>4 DEF Lifecycle!Submit
<1>6. QED
  BY <1>1, <1>5 DEF Lifecycle!Next

\* A worker takes the head of the list.
LEMMA StartStep ==
  ASSUME TypeOK, Core, NEW t \in Int, Dequeue(t)
  PROVE  Lifecycle!Next
<1> DEFINE x == Head(pending)
<1>1. x \in TaskID /\ x \in Range(pending)
  BY TailIs DEF Dequeue, TypeOK, Core
<1>2. Stored(x, "pending")
  BY <1>1 DEF Core, Placed
<1>3. task' = WithState(x, "active")
  BY DEF Dequeue
<1> HIDE DEF x
<1>4. /\ x \in DOMAIN task' /\ task'[x].state = "active"
      /\ \A y \in TaskID : y # x => /\ y \in DOMAIN task' <=> y \in DOMAIN task
                                    /\ y \in DOMAIN task => task'[y] = task[y]
  BY <1>3 DEF WithState, Put, Restated
<1>5. stageOf[x] = "pending" /\ stageOf'[x] = "active"
  BY <1>1, <1>2, <1>4 DEF stageOf, Stored
<1>6. Lifecycle!MoveAll({x}, "active")
  BY <1>1, <1>4, <1>5, MoveOne
<1>7. Lifecycle!Start(x)
  BY <1>5, <1>6 DEF Lifecycle!Start
<1>8. QED
  BY <1>1, <1>7 DEF Lifecycle!Next

\* A task leaves its worker for stage st, with its hash.
LEMMA LeaveStep ==
  ASSUME TypeOK, Core, NEW x, Release(x), NEW st \in {"completed", "pending", "retry"},
         x \in DOMAIN task', task'[x].state = st,
         \A y \in TaskID : y # x => /\ y \in DOMAIN task' <=> y \in DOMAIN task
                                    /\ y \in DOMAIN task => task'[y] = task[y]
  PROVE  Lifecycle!Next
<1>1. x \in TaskID /\ Stored(x, "active")
  BY ReleaseIs
<1>2. stageOf[x] = "active"
  BY <1>1 DEF stageOf, Stored
<1>3. st # "none"
  OBVIOUS
<1>4. stageOf'[x] = st
  BY <1>1, <1>3 DEF stageOf
<1>5. Lifecycle!MoveAll({x}, st)
  BY <1>1, <1>4, MoveOne
<1>6. Lifecycle!Leave(x)
  BY <1>2, <1>5 DEF Lifecycle!Leave
<1>7. QED
  BY <1>1, <1>6 DEF Lifecycle!Next

\* Done: the task is forgotten.
LEMMA DoneStep ==
  ASSUME TypeOK, Core, NEW m \in Message, Done(m)
  PROVE  Lifecycle!Next
<1> DEFINE x == m.id
<1>1. Release(x)
  BY DEF Done
<1>2. x \in TaskID /\ Stored(x, "active")
  BY <1>1, ReleaseIs
<1>3. /\ x \notin DOMAIN task'
      /\ \A y \in TaskID : y # x => /\ y \in DOMAIN task' <=> y \in DOMAIN task
                                    /\ y \in DOMAIN task => task'[y] = task[y]
  BY <1>1, ReleaseIs DEF Done, Drop
<1>4. stageOf[x] = "active" /\ stageOf'[x] = "absent"
  BY <1>2, <1>3 DEF stageOf, Stored
<1>5. Lifecycle!MoveAll({x}, "absent")
  BY <1>2, <1>3, <1>4, MoveOne
<1>6. Lifecycle!Leave(x)
  BY <1>4, <1>5 DEF Lifecycle!Leave
<1>7. QED
  BY <1>2, <1>6 DEF Lifecycle!Next

\* Archive: the trimmed tasks were archived, the task itself was active.
LEMMA BuryStep ==
  ASSUME TypeOK, Core, NEW m \in Message, NEW t \in Int, Archives(m, t)
  PROVE  Lifecycle!Next
<1> DEFINE x     == m.id
           gone  == Trimmed(m, t)
           evicted == gone \ {x}
<1>1. Release(x)
  BY DEF Archives
<1>2. x \in TaskID /\ Stored(x, "active")
  BY <1>1, ReleaseIs
<1>3. gone \subseteq DOMAIN archived \cup {x}
  BY DEF Trimmed, Old, Archiving, UpTo, Extra, Drop, Put
<1>4. task' = WithMsg(Drop(task, gone), m, "archived")
  BY <1>1, ReleaseIs DEF Archives
<1> HIDE DEF gone
<1>5. /\ x \in DOMAIN task' /\ task'[x].state = "archived"
      /\ \A y \in TaskID \ gone : y # x =>
           /\ y \in DOMAIN task' <=> y \in DOMAIN task
           /\ y \in DOMAIN task => task'[y] = task[y]
      /\ \A y \in evicted : y \notin DOMAIN task'
  BY <1>4 DEF WithMsg, Put, Drop
<1>6. \A y \in evicted : y \in TaskID /\ Stored(y, "archived")
  BY <1>3, MembersAre DEF Core, Placed
<1>7. evicted \in SUBSET Lifecycle!In("archived")
  BY <1>6 DEF Lifecycle!In, stageOf, Stored
<1>8. stageOf[x] = "active"
  BY <1>2 DEF stageOf, Stored
<1>9. ASSUME NEW y \in TaskID
      PROVE  stageOf'[y] = IF y = x THEN "archived"
                           ELSE IF y \in evicted THEN "absent" ELSE stageOf[y]
  <2>1. CASE y = x
    BY <1>5, <2>1 DEF stageOf
  <2>2. CASE y \in evicted
    BY <1>5, <2>2 DEF stageOf
  <2>3. CASE y # x /\ y \notin gone
    BY <1>5, <2>3 DEF stageOf
  <2>4. QED
    BY <2>1, <2>2, <2>3
<1>10. stageOf' = [y \in TaskID |-> IF y = x THEN "archived"
                                   ELSE IF y \in evicted THEN "absent"
                                   ELSE stageOf[y]]
  BY <1>9 DEF stageOf
<1> HIDE DEF evicted
<1>11. Lifecycle!Bury(x)
  BY <1>7, <1>8, <1>10 DEF Lifecycle!Bury
<1>12. QED
  BY <1>2, <1>11 DEF Lifecycle!Next

\* A batch of a delayed set, whose members are in stage st, becomes pending.
LEMMA PromoteStep ==
  ASSUME TypeOK, Core, NEW st \in {"scheduled", "retry"}, NEW z,
         NEW ids \in SUBSET TaskID, \A y \in ids : Stored(y, st), ForwardFrom(z, ids)
  PROVE  Lifecycle!Next
<1>1. ids \in SUBSET Lifecycle!In(st)
  BY DEF Lifecycle!In, stageOf, Stored
<1>2. /\ DOMAIN task' = DOMAIN task \cup ids
      /\ \A y \in ids : task'[y].state = "pending"
      /\ \A y \in DOMAIN task \ ids : task'[y] = task[y]
  BY DEF ForwardFrom, Restated
<1>3. ASSUME NEW y \in TaskID
      PROVE  stageOf'[y] = IF y \in ids THEN "pending" ELSE stageOf[y]
  BY <1>2 DEF stageOf
<1>4. Lifecycle!MoveAll(ids, "pending")
  BY <1>3 DEF Lifecycle!MoveAll, stageOf
<1>5. QED
  BY <1>1, <1>4 DEF Lifecycle!Next, Lifecycle!Promote

\* A batch of completed tasks is forgotten.
LEMMA PurgeStep ==
  ASSUME TypeOK, Core, NEW t, DeleteExpiredCompletedTasks(t)
  PROVE  Lifecycle!Next
<1> DEFINE ids == FirstOf(completed, UpTo(completed, Unix(t)), BatchSize)
<1>1. ids \subseteq DOMAIN completed /\ ids \subseteq TaskID
  BY BatchIs DEF TypeOK
<1>2. task' = Drop(task, ids)
  BY DEF DeleteExpiredCompletedTasks
<1> HIDE DEF ids
<1>3. \A y \in ids : Stored(y, "completed")
  BY <1>1 DEF Core, Placed
<1>4. ids \in SUBSET Lifecycle!In("completed")
  BY <1>1, <1>3 DEF Lifecycle!In, stageOf, Stored
<1>5. ASSUME NEW y \in TaskID
      PROVE  stageOf'[y] = IF y \in ids THEN "absent" ELSE stageOf[y]
  BY <1>2 DEF stageOf, Drop
<1>6. Lifecycle!MoveAll(ids, "absent")
  BY <1>5 DEF Lifecycle!MoveAll, stageOf
<1>7. QED
  BY <1>4, <1>6 DEF Lifecycle!Next, Lifecycle!Purge

\* Every script that does not abort is a step of the life cycle or leaves the
\* stages alone.
LEMMA LifecycleStep ==
  TypeOK /\ Core /\ [Next]_vars /\ [~Aborting]_vars =>
    Lifecycle!Next \/ UNCHANGED stageOf
<1> SUFFICES ASSUME TypeOK, Core, [Next]_vars, [~Aborting]_vars
             PROVE  Lifecycle!Next \/ UNCHANGED stageOf
  OBVIOUS
<1>t. \A t \in Time : t \in Int
  BY TimeAssumption
<1>m. Fresh \subseteq Message /\ Unique \subseteq Message
  BY CopiesAre DEF Fresh, Unique
<1>1. CASE ClientStep
  <2>1. ASSUME NEW m \in Message, Enqueue(m) PROVE Lifecycle!Next
    BY <2>1, SubmitStep DEF Enqueue
  <2>2. ASSUME NEW m \in Message, EnqueueUnique(m)
        PROVE  Lifecycle!Next \/ UNCHANGED stageOf
    BY <2>2, SubmitStep, NoMove DEF EnqueueUnique
  <2>3. ASSUME NEW m \in Message, NEW t \in Time, Schedule(m, t) PROVE Lifecycle!Next
    BY <2>3, SubmitStep DEF Schedule
  <2>4. ASSUME NEW m \in Message, NEW t \in Time, ScheduleUnique(m, t)
        PROVE  Lifecycle!Next \/ UNCHANGED stageOf
    BY <2>4, SubmitStep, NoMove DEF ScheduleUnique
  <2>5. QED
    BY <1>1, <1>m, <2>1, <2>2, <2>3, <2>4 DEF ClientStep
<1>2. CASE WorkerStep
  <2>1. ASSUME NEW m \in Message, NEW t \in Int, MarkAsComplete(m, t)
        PROVE  Lifecycle!Next
    <3>1. Release(m.id) /\ task' = WithMsg(task, m, "completed")
      BY <2>1, ReleaseIs DEF MarkAsComplete
    <3>2. QED
      BY <3>1, LeaveStep DEF WithMsg, Put
  <2>2. ASSUME NEW m \in Message, Requeue(m) PROVE Lifecycle!Next
    <3>1. Release(m.id) /\ task' = WithState(m.id, "pending")
      BY <2>2, ReleaseIs DEF Requeue
    <3>2. QED
      BY <3>1, LeaveStep DEF WithState, Put, Restated
  <2>3. ASSUME NEW m \in Message, NEW t \in Int, NEW f \in BOOLEAN, Retry(m, t, f)
        PROVE  Lifecycle!Next
    <3> DEFINE n == IF f THEN [m EXCEPT !.retried = @ + 1] ELSE m
    <3>1. n.id = m.id
      BY ModifiedIs
    <3>2. Release(m.id)
      BY <2>3 DEF Retry
    <3>3. task' = WithMsg(task, n, "retry")
      BY <2>3, <3>2, ReleaseIs DEF Retry
    <3> HIDE DEF n
    <3>4. QED
      BY <3>1, <3>2, <3>3, LeaveStep DEF WithMsg, Put
  <2>4. ASSUME NEW x \in TaskID, WriteResult(x) PROVE UNCHANGED stageOf
    BY <2>4 DEF WriteResult, Put, stageOf
  <2>5. ASSUME NEW m \in Message, NEW t \in Int, Archive(m, t) PROVE Lifecycle!Next
    BY <2>5, CalmArchive, BuryStep
  <2>6. QED
    BY <1>2, <1>t, <2>1, <2>2, <2>3, <2>4, <2>5, CopiesAre, StartStep, DoneStep
       DEF WorkerStep
<1>3. CASE ServerStep
  <2>1. ASSUME NEW t \in Time, ForwardScheduled(t) PROVE Lifecycle!Next
    <3> DEFINE ids == FirstOf(scheduled, UpTo(scheduled, Unix(t)), ForwardLimit)
    <3>1. ids \in SUBSET TaskID /\ \A y \in ids : Stored(y, "scheduled")
      BY BatchIs DEF TypeOK, Core, Placed
    <3>2. ForwardFrom(scheduled, ids)
      BY <2>1 DEF ForwardScheduled
    <3> HIDE DEF ids
    <3>3. QED
      BY <3>1, <3>2, PromoteStep
  <2>2. ASSUME NEW t \in Time, ForwardRetry(t) PROVE Lifecycle!Next
    <3> DEFINE ids == FirstOf(retry, UpTo(retry, Unix(t)), ForwardLimit)
    <3>1. ids \in SUBSET TaskID /\ \A y \in ids : Stored(y, "retry")
      BY BatchIs DEF TypeOK, Core, Placed
    <3>2. ForwardFrom(retry, ids)
      BY <2>2 DEF ForwardRetry
    <3> HIDE DEF ids
    <3>3. QED
      BY <3>1, <3>2, PromoteStep
  <2>3. QED
    BY <1>3, <2>1, <2>2, PurgeStep, NoMove DEF ServerStep, ExtendLease
<1>4. CASE OutsideStep
  BY <1>4, NoMove DEF OutsideStep, Pause, LockExpires
<1>5. CASE UNCHANGED vars
  BY <1>5, NoMove DEF vars
<1>6. QED
  BY <1>1, <1>2, <1>3, <1>4, <1>5 DEF Next

\* The broker implements the life cycle: it starts with no task, and each
\* script moves tasks along the stages or leaves them where they are, as long as
\* no call of Archive aborts.
THEOREM Refinement == Spec /\ NoAbort => LifecycleSpec
<1>1. Init => Lifecycle!Init
  BY DEF Init, NoEntry, Lifecycle!Init, stageOf
<1>2. IInv /\ [Next]_vars /\ [~Aborting]_vars => [Lifecycle!Next]_stageOf
  <2>1. IInv => TypeOK /\ Core
    BY CoreIs DEF IInv
  <2>2. QED
    BY <2>1, LifecycleStep
<1>3. QED
  BY <1>1, <1>2, Inductive, PTL DEF Spec, NoAbort, LifecycleSpec, Lifecycle!Spec
==============================================================================
