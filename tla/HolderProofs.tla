----------------------------- MODULE HolderProofs -----------------------------
(***************************************************************************)
(* With one server a task has one worker: for every number of tokens and   *)
(* tasks, whatever calls fail or are late and however often it crashes.    *)
(* With two servers two recoverers may list the same message, and none of  *)
(* this holds.                                                             *)
(***************************************************************************)
EXTENDS WorkersProofs

------------------------------------------------------------------------------
(* Who may change the message of an active task.                           *)

\* The effect of a script that ends the activation of the caller's copy m:
\* no hash but that of m has its message changed, and m's gets no older copy.
Writes(m) ==
  /\ m.id \in active /\ active' = active \ {m.id}
  /\ \A x \in DOMAIN task' :
       \/ x \in DOMAIN task /\ task'[x].msg = task[x].msg
       \/ /\ x = m.id
          /\ task'[x].msg \in Copies /\ task'[x].msg.retried >= m.retried

\* The effect of every other step: a hash may be new, none is rewritten.
Spares ==
  /\ active \subseteq active'
  /\ \A x \in DOMAIN task' :
       \/ x \in DOMAIN task /\ task'[x].msg = task[x].msg
       \/ x \notin DOMAIN task /\ task'[x].msg \in Copies \cup {NoMsg}

\* An active task has its hash, with a message of its own ID.
LEMMA ActiveIs ==
  ASSUME BrokerInv, NEW x \in active
  PROVE  /\ x \in DOMAIN task /\ task[x].msg # NoMsg /\ task[x].msg.id = x
         /\ task[x].state = "active"
<1>1. x \in Members["active"] /\ "active" \in State
  BY DEF Members, State
<1>2. QED
  BY <1>1 DEF BrokerInv, IInv, ListedIsStored

\* The next task to be taken is not active.
LEMMA HeadIsFree ==
  ASSUME BrokerInv, NEW t, Dequeue(t)
  PROVE  Head(pending) \notin active /\ Head(pending) \in DOMAIN task
<1> DEFINE x == Head(pending)
<1>1. x \in Range(pending)
  BY TailIs DEF BrokerInv, IInv, TypeOK, Dequeue
<1>2. x \in Members["pending"] /\ "pending" \in State
  BY <1>1 DEF Members, State
<1> HIDE DEF x
<1>3. x \in DOMAIN task /\ task[x].state = "pending"
  BY <1>2 DEF BrokerInv, IInv, ListedIsStored
<1>4. QED
  BY <1>3, ActiveIs DEF x

\* doneCmd, markAsCompleteCmd, requeueCmd, retryCmd and archiveCmd.
LEMMA ScriptWrites ==
  ASSUME BrokerInv, NEW m \in Copies, NEW t, NEW f \in BOOLEAN,
         f => m.retried < MaxRetried,
         \/ Done(m) \/ MarkAsComplete(m, t) \/ Requeue(m)
         \/ Retry(m, t, f) \/ Archive(m, t)
  PROVE  Writes(m)
<1>1. m.id \in active /\ active' = active \ {m.id}
  BY DEF Done, MarkAsComplete, Requeue, Retry, Archive, Archives, ArchiveAborts,
         Release
<1>2. m.retried \in Nat /\ m.retried >= m.retried
  BY DEF Copies
<1>3. m.id \in DOMAIN task
  BY <1>1, ActiveIs
<1> DEFINE Spared(z) == \A x \in DOMAIN z : x \in DOMAIN task /\ z[x] = task[x]
<1>4. ASSUME NEW z, Spared(z), NEW n \in Copies, n.id = m.id,
             n.retried >= m.retried, NEW st, task' = WithMsg(z, n, st)
      PROVE  \A x \in DOMAIN task' :
               \/ x \in DOMAIN task /\ task'[x].msg = task[x].msg
               \/ /\ x = m.id
                  /\ task'[x].msg \in Copies /\ task'[x].msg.retried >= m.retried
  BY <1>4 DEF WithMsg, Put
<1>5. ASSUME Spared(task')
      PROVE  \A x \in DOMAIN task' : x \in DOMAIN task /\ task'[x].msg = task[x].msg
  BY <1>5
<1>6. \A S : Spared(Drop(task, S))
  BY DEF Drop
<1>7. Spared(task)
  OBVIOUS
<1>8. CASE Done(m)
  <2>1. task' = Drop(task, {m.id}) \/ task' = task
    BY <1>8 DEF Done
  <2>2. Spared(task')
    BY <1>6, <1>7, <2>1
  <2> HIDE DEF Spared
  <2>3. QED
    BY <1>1, <1>5, <2>2 DEF Writes
<1>9. CASE MarkAsComplete(m, t)
  <2>1. task' = WithMsg(task, m, "completed") \/ task' = task
    BY <1>9 DEF MarkAsComplete
  <2>2. task' = task => Spared(task')
    BY <1>7
  <2> HIDE DEF Spared
  <2>3. QED
    BY <1>1, <1>2, <1>4, <1>5, <1>7, <2>1, <2>2 DEF Writes
<1>10. CASE Requeue(m)
  <2>1. task' = WithState(m.id, "pending") \/ task' = task
    BY <1>10 DEF Requeue
  <2>2. \A x \in DOMAIN task' : x \in DOMAIN task /\ task'[x].msg = task[x].msg
    BY <1>3, <2>1 DEF WithState, Put, Restated
  <2>3. QED
    BY <1>1, <2>2 DEF Writes
<1>11. CASE Retry(m, t, f)
  <2> DEFINE n == IF f THEN [m EXCEPT !.retried = @ + 1] ELSE m
  <2>1. task' = WithMsg(task, n, "retry") \/ task' = task
    BY <1>11 DEF Retry
  <2>2. n \in Copies
    BY RetriedCopy
  <2>3. n.id = m.id /\ n.retried >= m.retried
    BY <1>2 DEF Copies
  <2>4. task' = task => Spared(task')
    BY <1>7
  <2> HIDE DEF n, Spared
  <2>5. QED
    BY <1>1, <1>4, <1>5, <1>7, <2>1, <2>2, <2>3, <2>4 DEF Writes
<1>12. CASE Archive(m, t)
  <2>1. \/ task' = WithMsg(Drop(task, Trimmed(m, t)), m, "archived")
        \/ Spared(task')
    BY <1>6, <1>7, <1>12 DEF Archive, Archives, ArchiveAborts
  <2> HIDE DEF Spared
  <2>2. QED
    BY <1>1, <1>2, <1>4, <1>5, <1>6, <2>1 DEF Writes
<1>13. QED
  BY <1>8, <1>9, <1>10, <1>11, <1>12
\* The outcomes of a worker that knows of its lease.
LEMMA CallWrites ==
  ASSUME BrokerInv, NEW m \in Copies, NEW t, NEW outcome, Script(outcome, m, t)
  PROVE  Writes(m)
<1>1. ASSUME \/ Done(m) \/ MarkAsComplete(m, t) \/ Requeue(m) \/ Archive(m, t)
      PROVE  Writes(m)
  <2>1. PICK f \in BOOLEAN : ~f
    OBVIOUS
  <2>2. QED
    BY <1>1, <2>1, ScriptWrites
<1>2. ASSUME m.retried < MaxRetried, NEW f \in BOOLEAN, Retry(m, t + RetryDelay, f)
      PROVE  Writes(m)
  BY <1>2, ScriptWrites
<1>3. QED
  BY <1>1, <1>2 DEF Script, Acknowledge, HandleFailed

\* A worker's last call, the recoverer's call, or a step that ends nothing.
LEMMA CallerCases ==
  ASSUME ServersInv, [WorkersNext]_allVars
  PROVE  \/ \E w \in Worker : Act(w) /\ Writes(worker[w].msg)
         \/ \E s \in Server : \E m \in expired[s] : Recover(s, m) /\ Writes(m)
         \/ Spares
<1> USE DEF ServersInv
<1>1. ASSUME NEW w \in Worker, Act(w) PROVE Writes(worker[w].msg)
  <2>1. worker[w].msg \in Copies
    BY <1>1 DEF Act, Manned
  <2>2. QED
    BY <1>1, <2>1, CallWrites DEF Act
<1>2. ASSUME NEW s \in Server, NEW m \in expired[s], Recover(s, m) PROVE Writes(m)
  <2>1. m \in Copies /\ m.retried \in 0..MaxRetried
    BY DEF WorkersTypeOK, Copies
  <2>2. CASE Archive(m, Clock(s))
    <3>1. FALSE \in BOOLEAN
      OBVIOUS
    <3>2. QED
      BY <2>1, <2>2, <3>1, ScriptWrites
  <2>3. ASSUME ~(m.retried >= MaxRetried), NEW f \in BOOLEAN,
               Retry(m, Clock(s) + RetryDelay, f)
        PROVE  Writes(m)
    <3>1. m.retried < MaxRetried
      BY <2>1, <2>3, SizeAssumption
    <3>2. QED
      BY <2>1, <2>3, <3>1, ScriptWrites
  <2>4. QED
    BY <1>2, <2>2, <2>3 DEF Recover
<1>3. ASSUME UNCHANGED <<active, task>> PROVE Spares
  BY <1>3 DEF Spares
<1>4. CASE Submit
  <2>1. PICK m \in Fresh \ Unique : Enqueue(m)
    BY <1>4 DEF Submit
  <2>2. m \in Copies
    BY DEF Fresh
  <2>3. QED
    BY <2>1, <2>2 DEF Enqueue, WithMsg, Put, Spares
<1>5. ASSUME NEW t, Dequeue(t) PROVE Spares
  <2>1. Head(pending) \in DOMAIN task
    BY <1>5, HeadIsFree
  <2>2. /\ task' = WithState(Head(pending), "active")
        /\ active' = active \cup {Head(pending)}
    BY <1>5 DEF Dequeue
  <2>3. QED
    BY <2>1, <2>2 DEF WithState, Put, Restated, Spares
<1>6. ASSUME NEW s \in Server, Housekeeping(s) PROVE Spares
  <2>1. CASE ForwardRetry(Clock(s))
    <3> DEFINE ids == FirstOf(retry, UpTo(retry, Unix(Clock(s))), ForwardLimit)
    <3>1. ids \subseteq DOMAIN retry /\ "retry" \in State
      BY DEF FirstOf, UpTo, State
    <3>2. ids \subseteq DOMAIN task
      BY <3>1 DEF BrokerInv, IInv, ListedIsStored, Members
    <3>3. ForwardFrom(retry, ids)
      BY <2>1 DEF ForwardRetry
    <3> HIDE DEF ids
    <3>4. /\ active' = active
          /\ task' = [x \in DOMAIN task \cup ids |->
                        IF x \in ids THEN Restated(x, "pending") ELSE task[x]]
      BY <3>3 DEF ForwardFrom
    <3>5. QED
      BY <3>2, <3>4 DEF Restated, Spares
  <2>2. CASE DeleteExpiredCompletedTasks(Clock(s))
    BY <2>2 DEF DeleteExpiredCompletedTasks, Drop, Spares
  <2>3. QED
    BY <1>6, <2>1, <2>2 DEF Housekeeping
<1>7. ASSUME NEW w \in Worker, WorkerMoves(w), ~Act(w) PROVE Spares
  <2>1. CASE Take(w) \/ TakeLost(w)
    BY <1>5, <2>1 DEF Take, TakeLost
  <2>2. CASE \/ Register(w) \/ ActFails(w) \/ Finish(w)
             \/ \E outcome \in Outcome : Conclude(w, outcome)
    <3>1. UNCHANGED <<active, task>>
      BY <2>2 DEF Register, Conclude, ActFails, Finish, vars
    <3>2. QED
      BY <1>3, <3>1
  <2>3. QED
    BY <1>7, <2>1, <2>2 DEF WorkerMoves
<1>8. ASSUME NEW s \in Server, \/ List(s) \/ HeartbeaterMoves(s) \/ Stop(s) \/ Crash(s)
                               \/ \E m \in expired[s] : RecoverFails(s, m)
      PROVE  UNCHANGED <<active, task>>
  BY <1>8 DEF List, RecoverFails, HeartbeaterMoves, BeginBeat, Extend, ExtendFails,
              ExtendLate, ExtendLease, ResetLeases, Stop, Crash, vars
<1>9. CASE Tick \/ UNCHANGED allVars
  BY <1>3, <1>9 DEF Tick, allVars, vars
<1>w. ASSUME NEW s \in Server, HandlerWrites(s) PROVE Spares
  BY <1>w DEF HandlerWrites, WriteResult, Put, Spares
<1>10. \/ Submit \/ Tick \/ UNCHANGED allVars
       \/ \E w \in Worker : WorkerMoves(w)
       \/ \E s \in Server : \/ List(s) \/ HeartbeaterMoves(s) \/ Stop(s) \/ Crash(s)
                             \/ \E m \in expired[s] : RecoverFails(s, m)
       \/ \E s \in Server : Housekeeping(s) \/ HandlerWrites(s)
       \/ \E s \in Server : \E m \in expired[s] : Recover(s, m)
  BY DEF WorkersNext, RecovererMoves
<1>11. QED
  BY <1>1, <1>2, <1>3, <1>4, <1>6, <1>7, <1>8, <1>9, <1>w, <1>10

\* A worker that may act on a task could before, or takes it now.
LEMMA MayActStep ==
  ASSUME ServersInv, [WorkersNext]_allVars, [~Aborting]_vars,
         NEW w \in Worker, NEW id \in TaskID, MayAct(w, id)'
  PROVE  \/ MayAct(w, id) /\ worker'[w].msg = worker[w].msg
         \/ /\ Take(w) /\ id = Head(pending) /\ worker[w].pc = "idle"
            /\ worker'[w].msg = task[id].msg
<1> DEFINE s == Srv(w)
<1>i. /\ ServersInv /\ WorkersTypeOK /\ BrokerInv /\ Manned
      /\ s \in Server /\ worker[w] \in Goroutine /\ worker'[w] \in Goroutine
  BY ServerIs, ServersStep DEF ServersInv, WorkersTypeOK
<1>c. /\ Clock(s) \in Int /\ Clock(s)' \in Int /\ Clock(s) =< Clock(s)'
      /\ Transit \in Int /\ worker[w].ends \in Int
  BY <1>i, ClockStep, MarginAssumption DEF Goroutine
<1>1. /\ Holding(w)' /\ worker'[w].pc # "idle" /\ worker'[w].msg.id = id
      /\ Clock(s)' =< worker'[w].ends + Transit
  BY DEF MayAct, Holds, Holding, InTime
<1>2. CASE /\ worker'[w].ends = worker[w].ends
           /\ worker'[w].msg = worker[w].msg /\ Holding(w)
  <2>1. Clock(s) =< worker[w].ends + Transit
    BY <1>1, <1>2, <1>c
  <2>2. QED
    BY <1>1, <1>2, <2>1 DEF MayAct, Holds, Holding, InTime
<1>3. CASE worker'[w] = Idle
  BY <1>1, <1>3, IdleIs
<1>4. CASE Take(w)
  <2>1. PICK r \in Goroutine : /\ worker' = [worker EXCEPT ![w] = r]
                               /\ worker[w].pc = "idle"
                               /\ r.msg = task[Head(pending)].msg
    BY <1>i, <1>4, TakeIs
  <2>2. worker'[w].msg = task[Head(pending)].msg
    BY <1>i, <2>1 DEF WorkersTypeOK
  <2>3. task[Head(pending)].msg.id = Head(pending)
    BY <1>i, <1>4, HeadIs DEF Take
  <2>4. QED
    BY <1>1, <1>4, <2>1, <2>2, <2>3
<1>5. ASSUME NEW t \in Server, ResetLeases(t),
             worker'[w].pc = worker[w].pc, worker'[w].msg = worker[w].msg
      PROVE  MayAct(w, id) /\ worker'[w].msg = worker[w].msg
  <2>1. worker'[w] = worker[w] \/ Valid(w)
    BY <1>5 DEF ResetLeases
  <2>2. CASE worker'[w] = worker[w]
    BY <1>1, <1>2, <2>2 DEF Holding
  <2>3. CASE Valid(w)
    <3>1. Clock(s) =< worker[w].ends + Transit
      BY <2>3, <1>c, MarginAssumption DEF Valid
    <3>2. QED
      BY <1>1, <1>5, <3>1 DEF MayAct, Holds, Holding, InTime
  <2>4. QED
    BY <2>1, <2>2, <2>3
<1> HIDE DEF s
<1>6. QED
  BY <1>i, <1>1, <1>2, <1>3, <1>4, <1>5, TokenCases
------------------------------------------------------------------------------
(* One server: the invariant.                                              *)

OneServer == \A s, t \in Server : s = t

\* A worker that may act has the task, and the copy of its hash.
HasTask ==
  \A w \in Worker : \A id \in TaskID :
    MayAct(w, id) => id \in active /\ task[id].msg = worker[w].msg

\* What is on the recoverer's list is abandoned, and the copy of its hash.
Abandoned ==
  \A s \in Server : \A m \in expired[s] :
    /\ m.id \in active /\ task[m.id].msg = m
    /\ \A w \in Worker : ~MayAct(w, m.id)

HolderInv == LeaseInv /\ HasTask /\ OneHolder /\ Abandoned

\* An active task that nobody ends stays active, with its message.
LEMMA StaysActive ==
  ASSUME ServersInv, [WorkersNext]_allVars, [~Aborting]_vars, NEW x \in active,
         \A w \in Worker : Act(w) => worker[w].msg.id # x,
         \A s \in Server : \A m \in expired[s] : Recover(s, m) => m.id # x
  PROVE  x \in active' /\ task'[x].msg = task[x].msg
<1>1. x \in active'
  BY CallerCases DEF Writes, Spares
<1>2. x \in DOMAIN task /\ x \in DOMAIN task'
  <2>1. BrokerInv'
    BY ServersStep DEF ServersInv
  <2>2. Members'["active"] = active' /\ "active" \in State
    BY DEF Members, State
  <2>3. x \in DOMAIN task'
    BY <1>1, <2>1, <2>2 DEF BrokerInv, IInv, ListedIsStored
  <2>4. QED
    BY <2>3, ActiveIs DEF ServersInv
<1>3. QED
  BY <1>1, <1>2, CallerCases DEF Writes, Spares

\* One token takes the task.
LEMMA TakeApart ==
  ASSUME ServersInv, NEW v \in Worker, NEW w \in Worker, Take(v), Take(w)
  PROVE  v = w
<1>1. worker \in [Worker -> Goroutine] /\ worker[v].pc = "idle" /\ worker[w].pc = "idle"
  BY DEF ServersInv, WorkersTypeOK, Take
<1>2. PICK r \in Goroutine : worker' = [worker EXCEPT ![v] = r]
  BY TakeIs DEF ServersInv
<1>3. PICK q \in Goroutine : worker' = [worker EXCEPT ![w] = q] /\ q.pc = "starting"
  BY TakeIs DEF ServersInv
<1>4. QED
  BY <1>1, <1>2, <1>3

\* What Take makes active.
LEMMA TakesFree ==
  ASSUME ServersInv, NEW w \in Worker, Take(w)
  PROVE  /\ Head(pending) \notin active
         /\ Head(pending) \in active'
         /\ task'[Head(pending)].msg = task[Head(pending)].msg
<1>1. PICK t \in Readings(Srv(w)) : Dequeue(t)
  BY DEF Take
<1>2. Head(pending) \notin active /\ Head(pending) \in DOMAIN task
  BY <1>1, HeadIsFree DEF ServersInv
<1>3. /\ active' = active \cup {Head(pending)}
      /\ task' = WithState(Head(pending), "active")
  BY <1>1 DEF Dequeue
<1>4. QED
  BY <1>2, <1>3 DEF WithState, Put, Restated

\* A worker that may still act has not been anticipated.
LEMMA HasTaskStep ==
  HolderInv /\ [WorkersNext]_allVars /\ [~Aborting]_vars => HasTask'
<1> SUFFICES ASSUME HolderInv, [WorkersNext]_allVars, [~Aborting]_vars,
                    NEW w \in Worker, NEW id \in TaskID, MayAct(w, id)'
             PROVE  id \in active' /\ task'[id].msg = worker'[w].msg
  BY DEF HasTask
<1>i. ServersInv
  BY DEF HolderInv, LeaseInv
<1>1. CASE MayAct(w, id) /\ worker'[w].msg = worker[w].msg
  <2>1. id \in active /\ task[id].msg = worker[w].msg
    BY <1>1 DEF HolderInv, HasTask
  <2>2. ASSUME NEW v \in Worker, Act(v), worker[v].msg.id = id PROVE FALSE
    <3>1. MayAct(v, id)
      BY <2>2 DEF Act, MayAct, Holds
    <3>2. v = w
      BY <1>1, <3>1 DEF HolderInv, OneHolder
    <3>3. worker'[w].pc = "finishing"
      BY <1>i, <2>2, <3>2 DEF Act, ServersInv, WorkersTypeOK, Goroutine
    <3>4. QED
      BY <3>3 DEF MayAct, Holds
  <2>3. ASSUME NEW s \in Server, NEW m \in expired[s], m.id = id PROVE FALSE
    BY <1>1, <2>3 DEF HolderInv, Abandoned
  <2>4. id \in active' /\ task'[id].msg = task[id].msg
    BY <1>i, <2>1, <2>2, <2>3, StaysActive
  <2>5. QED
    BY <1>1, <2>1, <2>4
<1>2. CASE Take(w) /\ id = Head(pending) /\ worker'[w].msg = task[id].msg
  BY <1>i, <1>2, TakesFree
<1>3. QED
  BY <1>i, <1>1, <1>2, MayActStep

\* Two workers would have to take the task in the same step.
LEMMA OneHolderStep ==
  HolderInv /\ [WorkersNext]_allVars /\ [~Aborting]_vars => OneHolder'
<1> SUFFICES ASSUME HolderInv, [WorkersNext]_allVars, [~Aborting]_vars,
                    NEW v \in Worker, NEW w \in Worker, NEW id \in TaskID,
                    MayAct(v, id)', MayAct(w, id)'
             PROVE  v = w
  BY DEF OneHolder
<1>i. ServersInv
  BY DEF HolderInv, LeaseInv
<1>1. MayAct(v, id) \/ (Take(v) /\ id = Head(pending))
  BY <1>i, MayActStep
<1>2. MayAct(w, id) \/ (Take(w) /\ id = Head(pending))
  BY <1>i, MayActStep
<1>3. CASE MayAct(v, id) /\ MayAct(w, id)
  BY <1>3 DEF HolderInv, OneHolder
<1>4. CASE Take(v) /\ Take(w)
  BY <1>i, <1>4, TakeApart
<1>5. ASSUME NEW x \in Worker, NEW y \in Worker,
             MayAct(x, id), Take(y), id = Head(pending)
      PROVE  FALSE
  <2>1. id \in active
    BY <1>5 DEF HolderInv, HasTask
  <2>2. QED
    BY <1>i, <1>5, <2>1, TakesFree
<1>6. QED
  BY <1>1, <1>2, <1>3, <1>4, <1>5

\* A message on the list stays abandoned until this recoverer handles it.
LEMMA AbandonedStep ==
  ASSUME OneServer, HolderInv, [WorkersNext]_allVars, [~Aborting]_vars
  PROVE  Abandoned'
<1> SUFFICES ASSUME NEW s \in Server, NEW m \in expired'[s]
             PROVE  /\ m.id \in active' /\ task'[m.id].msg = m
                    /\ \A w \in Worker : ~MayAct(w, m.id)'
  BY DEF Abandoned
<1>i. ServersInv /\ LeaseInv /\ WorkersTypeOK /\ DOMAIN expired = Server
  BY DEF HolderInv, LeaseInv, ServersInv, WorkersTypeOK
<1>1. CASE m \in expired[s]
  <2>1. /\ m.id \in active /\ m.id \in TaskID /\ task[m.id].msg = m
        /\ \A w \in Worker : ~MayAct(w, m.id)
    BY <1>i, <1>1 DEF HolderInv, Abandoned, WorkersTypeOK, Copies
  <2>2. ASSUME NEW v \in Worker, Act(v), worker[v].msg.id = m.id PROVE FALSE
    BY <2>1, <2>2 DEF Act, MayAct, Holds
  <2>3. ASSUME NEW t \in Server, NEW n \in expired[t], Recover(t, n), n.id = m.id
        PROVE  FALSE
    <3>1. t = s
      BY DEF OneServer
    <3>2. n = m
      BY <2>1, <2>3 DEF HolderInv, Abandoned
    <3>3. expired'[s] = expired[s] \ {m}
      BY <1>i, <2>3, <3>1, <3>2 DEF Recover
    <3>4. QED
      BY <3>3
  <2>4. m.id \in active' /\ task'[m.id].msg = m
    BY <1>i, <2>1, <2>2, <2>3, StaysActive
  <2>5. ASSUME NEW w \in Worker, MayAct(w, m.id)' PROVE FALSE
    <3>1. Take(w) /\ m.id = Head(pending)
      BY <1>i, <2>1, <2>5, MayActStep
    <3>2. QED
      BY <1>i, <2>1, <3>1, TakesFree
  <2>6. QED
    BY <2>4, <2>5
<1>2. CASE m \notin expired[s]
  <2>1. \A w \in Worker : ~MayAct(w, m.id)
    BY <1>i, <1>2, ListStep
  <2>2. List(s)
    BY <1>i, <1>2
       DEF WorkersNext, Submit, Tick, WorkerMoves, Take, TakeLost, Register,
           Conclude, Act, ActFails, Finish, HeartbeaterMoves, BeginBeat, Extend,
           ExtendFails, ExtendLate, ResetLeases, RecovererMoves, List, Recover,
           RecoverFails, Housekeeping, HandlerWrites, Stop, Crash, allVars, procVars
  <2>3. UNCHANGED <<active, task, worker, now>>
    BY <2>2 DEF List, vars
  <2>4. PICK x \in DOMAIN task : x \in DOMAIN lease /\ m = task[x].msg
    BY <1>i, <2>2 DEF List, ListLeaseExpired, UpTo
  <2>5. x \in active
    BY <1>i, <2>4 DEF ServersInv, BrokerInv, IInv, LeasedIffActive
  <2>6. m.id = x
    BY <1>i, <2>4, <2>5, ActiveIs DEF ServersInv
  <2>7. QED
    BY <2>1, <2>3, <2>4, <2>5, <2>6 DEF MayAct, Holds, InTime, Clock
<1>3. QED
  BY <1>1, <1>2

\* In the beginning no worker has a task and no message is listed.
LEMMA HolderInit == WorkersInit => HasTask /\ OneHolder /\ Abandoned
BY IdleIs DEF WorkersInit, HasTask, OneHolder, Abandoned, MayAct, Holds

\* Every step of a single server keeps the invariant.
LEMMA HolderStep ==
  ASSUME OneServer, HolderInv, [WorkersNext]_allVars, [~Aborting]_vars
  PROVE  HolderInv'
BY LeaseInvStep, HasTaskStep, OneHolderStep, AbandonedStep DEF HolderInv

LEMMA HolderInductive ==
  ASSUME OneServer PROVE WorkersSpec /\ NoAbort => []HolderInv
<1>1. WorkersInit => HolderInv
  BY HolderInit, LeaseInit DEF HolderInv
<1>2. HolderInv /\ [WorkersNext]_allVars /\ [~Aborting]_vars => HolderInv'
  BY HolderStep
<1>3. QED
  BY <1>1, <1>2, PTL DEF WorkersSpec, NoAbort

------------------------------------------------------------------------------
(* What follows for one server.                                            *)

\* No two workers of a server may conclude the same task, however many tokens
\* it has: not even when a lease ended, the task was recovered and taken again.
THEOREM OneHolderAlone ==
  ASSUME OneServer PROVE WorkersSpec /\ NoAbort => []OneHolder
<1>1. HolderInv => OneHolder
  BY DEF HolderInv
<1>2. QED
  BY <1>1, HolderInductive, PTL

\* What the recoverer of a single server listed is still abandoned when its
\* turn comes: it retries or archives no task that a worker may conclude.
THEOREM RecoveryAlone ==
  ASSUME OneServer PROVE WorkersSpec /\ NoAbort => RecoversOnlyAbandoned
<1>1. HolderInv /\ [WorkersNext]_allVars =>
        [\A s \in Server : \A m \in expired[s] \ expired'[s] :
           m.id \in active \ active' => \A w \in Worker : ~MayAct(w, m.id)]_allVars
  BY DEF HolderInv, Abandoned
<1>2. QED
  BY <1>1, HolderInductive, PTL DEF WorkersSpec, RecoversOnlyAbandoned, NoAbort

\* Each call that writes a message was made with the copy of its hash.
LEMMA RetriesStep ==
  ASSUME HolderInv, [WorkersNext]_allVars,
         NEW id \in DOMAIN task, id \in DOMAIN task', task[id].msg # NoMsg
  PROVE  task'[id].msg # NoMsg /\ task'[id].msg.retried >= task[id].msg.retried
<1>i. ServersInv /\ task[id].msg \in Copies /\ task[id].msg.retried \in Nat
  BY DEF HolderInv, LeaseInv, ServersInv, BrokerInv, Carries, Copies
<1>m. \A m \in Copies : m # NoMsg
  BY MessageMsg, CopiesAre
<1>1. ASSUME NEW w \in Worker, Act(w), worker[w].msg.id = id
      PROVE  task[id].msg = worker[w].msg
  <2>1. worker[w].msg.id \in TaskID /\ MayAct(w, id)
    BY <1>i, <1>1 DEF Act, MayAct, Holds, ServersInv, Manned, Copies
  <2>2. QED
    BY <1>1, <2>1 DEF HolderInv, HasTask
<1>2. ASSUME NEW s \in Server, NEW m \in expired[s], m.id = id
      PROVE  task[id].msg = m
  BY <1>2 DEF HolderInv, Abandoned
<1>3. ASSUME NEW m, Writes(m), m.id = id => task[id].msg = m
      PROVE  task'[id].msg # NoMsg /\ task'[id].msg.retried >= task[id].msg.retried
  BY <1>i, <1>m, <1>3 DEF Writes
<1>4. CASE Spares
  BY <1>i, <1>4 DEF Spares
<1>5. QED
  BY <1>i, <1>1, <1>2, <1>3, <1>4, CallerCases

\* No late call of a server writes an older copy of a message over a newer
\* one: the retries are counted, whatever a handler writes meanwhile.
THEOREM RetriesAlone ==
  ASSUME OneServer PROVE WorkersSpec /\ NoAbort => RetriesKept
<1>1. HolderInv /\ [WorkersNext]_allVars =>
        [\A id \in DOMAIN task \cap DOMAIN task' : task[id].msg # NoMsg =>
           /\ task'[id].msg # NoMsg
           /\ task'[id].msg.retried >= task[id].msg.retried]_allVars
  BY RetriesStep
<1>2. QED
  BY <1>1, HolderInductive, PTL DEF WorkersSpec, RetriesKept, NoAbort
==============================================================================
