---------------------------- MODULE WorkersProofs ----------------------------
(***************************************************************************)
(* The servers use the broker as Rdb allows, and the broker's leases       *)
(* outlive those in the workers' memory: for every set of servers, tokens  *)
(* and tasks and any clocks within the margin.                             *)
(***************************************************************************)
EXTENDS Workers, RdbProofs

------------------------------------------------------------------------------
(* The copies of messages in the hashes.                                   *)

Carries(z) == \A x \in DOMAIN z : z[x].msg \in Copies \cup {NoMsg}

\* The broker's part of what the servers rely on.  It holds as long as no call
\* of Archive aborts (NoAbort).
BrokerInv == IInv /\ Carries(task)

\* HSET of a message.
LEMMA WithMsgCarries ==
  ASSUME NEW z, Carries(z), NEW m \in Copies, NEW st
  PROVE  Carries(WithMsg(z, m, st))
BY DEF Carries, WithMsg, Put

\* HSET of a state.
LEMMA WithStateCarries ==
  ASSUME Carries(task), NEW id, NEW st
  PROVE  Carries(WithState(id, st))
BY DEF Carries, WithState, Put, Restated

\* DEL of hashes.
LEMMA DropCarries ==
  ASSUME NEW z, Carries(z), NEW S
  PROVE  Carries(Drop(z, S))
BY DEF Carries, Drop

\* The copy that Retry stores is within the bound of its caller.
LEMMA RetriedCopy ==
  ASSUME NEW m \in Copies, NEW f \in BOOLEAN, f => m.retried < MaxRetried
  PROVE  (IF f THEN [m EXCEPT !.retried = @ + 1] ELSE m) \in Copies
BY SizeAssumption DEF Copies

\* No script makes a message that was not in its caller's hands.
LEMMA CarriesStep == Carries(task) /\ [Next]_vars => Carries(task)'
<1> SUFFICES ASSUME Carries(task), [Next]_vars PROVE Carries(task')
  OBVIOUS
<1>f. Fresh \subseteq Copies /\ Unique \subseteq Copies
  BY DEF Fresh, Unique
<1>1. CASE ClientStep
  BY <1>1, <1>f, WithMsgCarries
     DEF ClientStep, Enqueue, EnqueueUnique, Schedule, ScheduleUnique
<1>2. CASE WorkerStep
  <2>1. ASSUME NEW t, Dequeue(t) PROVE Carries(task')
    BY <2>1, WithStateCarries DEF Dequeue
  <2>2. ASSUME NEW m \in Copies, Done(m) PROVE Carries(task')
    BY <2>2, DropCarries DEF Done
  <2>3. ASSUME NEW m \in Copies, NEW t, MarkAsComplete(m, t) PROVE Carries(task')
    BY <2>3, WithMsgCarries DEF MarkAsComplete
  <2>4. ASSUME NEW m \in Copies, Requeue(m) PROVE Carries(task')
    BY <2>4, WithStateCarries DEF Requeue
  <2>5. ASSUME NEW m \in Copies, NEW t, NEW f \in BOOLEAN, Retry(m, t, f),
               f => m.retried < MaxRetried
        PROVE  Carries(task')
    <3> DEFINE n == IF f THEN [m EXCEPT !.retried = @ + 1] ELSE m
    <3>1. n \in Copies
      BY <2>5, RetriedCopy
    <3>2. task' = WithMsg(task, n, "retry") \/ task' = task
      BY <2>5 DEF Retry
    <3> HIDE DEF n
    <3>3. QED
      BY <3>1, <3>2, WithMsgCarries
  <2>6. ASSUME NEW m \in Copies, NEW t, Archive(m, t) PROVE Carries(task')
    <3>1. CASE Archives(m, t)
      <4>1. Carries(Drop(task, Trimmed(m, t)))
        BY DropCarries
      <4>2. \/ task' = WithMsg(Drop(task, Trimmed(m, t)), m, "archived")
            \/ task' = task
        BY <3>1 DEF Archives
      <4>3. QED
        BY <4>1, <4>2, WithMsgCarries
    <3>2. CASE ArchiveAborts(m, t)
      BY <3>2, DropCarries DEF ArchiveAborts
    <3>3. QED
      BY <2>6, <3>1, <3>2 DEF Archive
  <2>7. ASSUME NEW id, WriteResult(id) PROVE Carries(task')
    BY <2>7 DEF WriteResult, Carries, Put
  <2>8. QED
    BY <1>2, <2>1, <2>2, <2>3, <2>4, <2>5, <2>6, <2>7 DEF WorkerStep
<1>3. CASE ServerStep
  <2>1. ASSUME NEW z, NEW ids, ForwardFrom(z, ids) PROVE Carries(task')
    BY <2>1 DEF ForwardFrom, Carries, Restated
  <2>2. ASSUME NEW t, DeleteExpiredCompletedTasks(t) PROVE Carries(task')
    BY <2>2, DropCarries DEF DeleteExpiredCompletedTasks
  <2>3. QED
    BY <1>3, <2>1, <2>2
       DEF ServerStep, ForwardScheduled, ForwardRetry, ExtendLease
<1>4. CASE OutsideStep
  BY <1>4 DEF OutsideStep, Pause, LockExpires
<1>5. CASE UNCHANGED vars
  BY <1>5 DEF vars
<1>6. QED
  BY <1>1, <1>2, <1>3, <1>4, <1>5 DEF Next
------------------------------------------------------------------------------
(* The servers' calls are calls of Rdb's open environment.                 *)

\* A goroutine that has a token has its copy of a message.
Manned == \A w \in Worker : worker[w].pc # "idle" => worker[w].msg \in Copies

\* The commands that may still come carry readings of their server's clock.
Timely == \A s \in Server : \A c \in late[s] : c.at \in Readings(s)

\* The clocks are read within the bounds.
LEMMA ClockIs ==
  ASSUME WorkersTypeOK, NEW s \in Server
  PROVE  /\ Clock(s) \in Time
         /\ Clock(s) + RetryDelay \in Time
         /\ Clock(s) \in now..(now + Spread)
         /\ Clock(s) \in Readings(s)
<1>1. /\ now \in 0..MaxNow /\ Skew[s] \in 0..Spread /\ Spread \in Nat
      /\ RetryDelay \in Nat /\ MaxNow \in Nat /\ Delay \in Nat
  BY SkewAssumption, ClockAssumption, MarginAssumption DEF WorkersTypeOK
<1>2. /\ Clock(s) \in now..(now + Spread)
      /\ Clock(s) \in (-Delay)..(MaxNow + Spread + RetryDelay)
      /\ Clock(s) + RetryDelay \in (-Delay)..(MaxNow + Spread + RetryDelay)
  BY <1>1 DEF Clock
<1>3. Clock(s) \in Readings(s)
  BY <1>1, <1>2 DEF Readings
<1>4. QED
  BY <1>2, <1>3, ClockAssumption

\* What a command takes from the clock is at most Delay old, and the score of
\* the lease it gives is at most Lag less than the clock would have it.
LEMMA ReadingIs ==
  ASSUME WorkersTypeOK, NEW s \in Server, NEW t \in Readings(s)
  PROVE  /\ t \in Time /\ t \in Int /\ t =< Clock(s)
         /\ t + LeaseDuration \in Int /\ Unix(t + LeaseDuration) \in Int
         /\ Unix(t + LeaseDuration) =< now + Spread + LeaseDuration
         /\ Unix(t + LeaseDuration) + Lag >= now + LeaseDuration
         /\ Unix(t + LeaseDuration) + Lag >= t + LeaseDuration
<1>1. /\ now \in 0..MaxNow /\ Skew[s] \in 0..Spread /\ Spread \in Nat
      /\ RetryDelay \in Nat /\ MaxNow \in Nat /\ Delay \in Nat
      /\ LeaseDuration \in Nat /\ Second \in Nat
  BY SkewAssumption, ClockAssumption, MarginAssumption, SizeAssumption,
     TimeAssumption DEF WorkersTypeOK
<1>2. /\ t \in Int /\ t =< Clock(s) /\ Clock(s) =< t + Delay
      /\ t =< now + Spread /\ now =< t + Delay
      /\ t \in (-Delay)..(MaxNow + Spread + RetryDelay)
  BY <1>1 DEF Readings, Clock
<1> DEFINE e == t + LeaseDuration
           u == Unix(e)
<1>3. e \in Int /\ u \in Int /\ u =< e /\ e < u + Second
  BY <1>1, <1>2, UnixIs
<1> HIDE DEF u
<1>4. /\ u =< now + Spread + LeaseDuration
      /\ u + Lag >= now + LeaseDuration /\ u + Lag >= e
  BY <1>1, <1>2, <1>3 DEF Lag
<1>5. QED
  BY <1>2, <1>3, <1>4, ClockAssumption DEF u

\* The server of a token.
LEMMA ServerIs == \A w \in Worker : Srv(w) \in Server
BY DEF Worker, Srv

\* Whatever a server does, to the broker it is a script of Rdb or nothing.
LEMMA CallStep ==
  WorkersTypeOK /\ Manned /\ Timely /\ [WorkersNext]_allVars => [Next]_vars
<1> SUFFICES ASSUME WorkersTypeOK, Manned, Timely, [WorkersNext]_allVars
             PROVE  [Next]_vars
  OBVIOUS
<1>1. CASE Submit
  BY <1>1 DEF Submit, Next, ClientStep
<1>2. ASSUME NEW w \in Worker, WorkerMoves(w) PROVE [Next]_vars
  <2> DEFINE s == Srv(w)
             m == worker[w].msg
  <2>1. s \in Server /\ Clock(s) \in Time /\ Clock(s) + RetryDelay \in Time
    BY ServerIs, ClockIs
  <2>2. CASE Take(w) \/ TakeLost(w)
    <3>1. PICK t \in Readings(s) : Dequeue(t)
      BY <2>2 DEF Take, TakeLost
    <3>2. t \in Time
      BY <2>1, ReadingIs
    <3>3. QED
      BY <3>1, <3>2 DEF Next, WorkerStep
  <2>3. CASE Act(w)
    <3>1. m \in Copies /\ Script(worker[w].outcome, m, Clock(s))
      BY <2>3 DEF Act, Manned
    <3> DEFINE t == Clock(s)
    <3>2. t \in Time /\ t + RetryDelay \in Time
      BY <2>1
    <3> HIDE DEF m, t
    <3>3. CASE Acknowledge(m, t)
      BY <3>1, <3>2, <3>3 DEF Acknowledge, Next, WorkerStep
    <3>4. CASE HandleFailed(m, t)
      BY <3>1, <3>2, <3>4 DEF HandleFailed, Next, WorkerStep
    <3>5. CASE Requeue(m)
      BY <3>1, <3>5 DEF Next, WorkerStep
    <3>6. QED
      BY <3>1, <3>3, <3>4, <3>5 DEF Script, t
  <2>4. CASE \/ Register(w) \/ ActFails(w) \/ Finish(w)
             \/ \E outcome \in Outcome : Conclude(w, outcome)
    BY <2>4 DEF Register, ActFails, Finish, Conclude
  <2>5. QED
    BY <1>2, <2>2, <2>3, <2>4 DEF WorkerMoves
<1>3. ASSUME NEW s \in Server, HeartbeaterMoves(s) PROVE [Next]_vars
  <2>1. beat[s].ids \in SUBSET TaskID
    BY DEF WorkersTypeOK, Beat
  <2>2. ASSUME NEW ids \in SUBSET TaskID, NEW t \in Readings(s), ExtendLease(ids, t)
        PROVE  [Next]_vars
    <3>1. t \in Time
      BY ReadingIs
    <3>2. QED
      BY <2>2, <3>1 DEF Next, ServerStep
  <2>3. CASE Extend(s)
    BY <2>1, <2>2, <2>3 DEF Extend
  <2>4. CASE ExtendLate(s)
    <3>1. PICK c \in late[s] : ExtendLease(c.ids, c.at)
      BY <2>4 DEF ExtendLate
    <3>2. c.ids \in SUBSET TaskID /\ c.at \in Readings(s)
      BY <3>1 DEF WorkersTypeOK, Timely, Extension
    <3>3. QED
      BY <2>2, <3>1, <3>2
  <2>5. QED
    BY <1>3, <2>3, <2>4
       DEF HeartbeaterMoves, BeginBeat, ExtendFails, ResetLeases
<1>4. ASSUME NEW s \in Server, RecovererMoves(s) PROVE [Next]_vars
  <2>1. ASSUME NEW m \in expired[s], Recover(s, m) PROVE [Next]_vars
    <3>1. /\ m \in Copies /\ m.retried \in 0..MaxRetried
          /\ Clock(s) \in Time /\ Clock(s) + RetryDelay \in Time
      BY ClockIs DEF WorkersTypeOK, Copies
    <3>2. CASE Archive(m, Clock(s))
      BY <3>1, <3>2 DEF Next, WorkerStep
    <3>3. ASSUME m.retried < MaxRetried, NEW isFailure \in BOOLEAN,
                 Retry(m, Clock(s) + RetryDelay, isFailure)
          PROVE  [Next]_vars
      BY <3>1, <3>3 DEF Next, WorkerStep
    <3>4. m.retried >= MaxRetried \/ m.retried < MaxRetried
      BY <3>1, SizeAssumption
    <3>5. QED
      BY <2>1, <3>2, <3>3, <3>4 DEF Recover
  <2>2. QED
    BY <1>4, <2>1 DEF RecovererMoves, List, RecoverFails
<1>5. ASSUME NEW s \in Server, Housekeeping(s) PROVE [Next]_vars
  BY <1>5, ClockIs DEF Housekeeping, Next, ServerStep
<1>6. ASSUME NEW s \in Server, HandlerWrites(s) PROVE [Next]_vars
  <2>1. handlers[s] \subseteq TaskID
    BY DEF WorkersTypeOK
  <2>2. QED
    BY <1>6, <2>1 DEF HandlerWrites, Next, WorkerStep
<1>7. CASE \/ Tick \/ UNCHANGED allVars
           \/ \E s \in Server : Stop(s) \/ Crash(s)
  BY <1>7 DEF Tick, Stop, Crash, allVars
<1>8. QED
  BY <1>1, <1>2, <1>3, <1>4, <1>5, <1>6, <1>7 DEF WorkersNext
------------------------------------------------------------------------------
(* The servers' variables keep their types.                                *)

\* One token moves on.
LEMMA TokenIs ==
  ASSUME WorkersTypeOK, Manned, NEW w \in Worker, NEW r \in Goroutine,
         r.pc # "idle" => r.msg \in Copies,
         worker' = [worker EXCEPT ![w] = r]
  PROVE  /\ worker' \in [Worker -> Goroutine]
         /\ Manned'
         /\ worker'[w] = r
         /\ \A v \in Worker : v # w => worker'[v] = worker[v]
BY DEF WorkersTypeOK, Manned

\* A goroutine goes on with the same message and lease.
LEMMA PhaseIs ==
  ASSUME NEW r \in Goroutine,
         NEW pc \in {"starting", "running", "acting", "finishing"}
  PROVE  /\ [r EXCEPT !.pc = pc] \in Goroutine
         /\ [r EXCEPT !.pc = pc].pc = pc
         /\ [r EXCEPT !.pc = pc].msg = r.msg
         /\ [r EXCEPT !.pc = pc].ends = r.ends
BY DEF Goroutine

\* A free token, and a heartbeater between two beats.
LEMMA IdleIs ==
  /\ Idle \in Goroutine /\ Idle.pc = "idle" /\ Idle.ends = 0
  /\ NotInBeat \in Beat /\ NotInBeat.pc = "idle" /\ NotInBeat.ids = {}
BY DEF Idle, Goroutine, NotInBeat, Beat

\* A heartbeater that has looked at the leases.
LEMMA BeatIs ==
  ASSUME NEW ids \in SUBSET TaskID
  PROVE  [NotInBeat EXCEPT !.pc = "extend", !.ids = ids] \in Beat
<1> DEFINE r == [NotInBeat EXCEPT !.pc = "extend"]
<1>1. r \in Beat
  BY IdleIs DEF Beat
<1> HIDE DEF r
<1>2. [r EXCEPT !.ids = ids] \in Beat
  BY <1>1 DEF Beat
<1>3. [NotInBeat EXCEPT !.pc = "extend", !.ids = ids] = [r EXCEPT !.ids = ids]
  BY IdleIs DEF r, Beat
<1>4. QED
  BY <1>2, <1>3

\* What the worker's own steps do to its token: they keep message and lease,
\* until the token is free.
LEMMA TokenStep ==
  ASSUME WorkersTypeOK, Manned, NEW w \in Worker,
         \/ Register(w) \/ ActFails(w) \/ Act(w) \/ Finish(w)
         \/ \E outcome \in Outcome : Conclude(w, outcome)
  PROVE  \E r \in Goroutine :
           /\ worker' = [worker EXCEPT ![w] = r]
           /\ worker[w].pc # "idle"
           /\ \/ r = Idle /\ Finish(w)
              \/ /\ r.pc # "idle" /\ r.msg = worker[w].msg /\ r.ends = worker[w].ends
                 /\ r.pc \in {"starting", "running", "acting"} =>
                      worker[w].pc \in {"starting", "running", "acting"}
<1> worker[w] \in Goroutine /\ worker \in [Worker -> Goroutine]
  BY DEF WorkersTypeOK
<1>1. CASE Register(w)
  <2> DEFINE r == [worker[w] EXCEPT !.pc = "running"]
  <2>1. r \in Goroutine /\ r.pc = "running"
    BY PhaseIs
  <2>2. r.msg = worker[w].msg /\ r.ends = worker[w].ends
    BY PhaseIs
  <2>3. worker' = [worker EXCEPT ![w] = r] /\ worker[w].pc = "starting"
    BY <1>1 DEF Register
  <2> HIDE DEF r
  <2>4. QED
    BY <2>1, <2>2, <2>3
<1>2. CASE ActFails(w) \/ Act(w)
  <2> DEFINE r == [worker[w] EXCEPT !.pc = "finishing"]
  <2>1. r \in Goroutine /\ r.pc = "finishing"
    BY PhaseIs
  <2>2. r.msg = worker[w].msg /\ r.ends = worker[w].ends
    BY PhaseIs
  <2>3. worker' = [worker EXCEPT ![w] = r] /\ worker[w].pc = "acting"
    BY <1>2 DEF ActFails, Act
  <2> HIDE DEF r
  <2>4. QED
    BY <2>1, <2>2, <2>3
<1>3. CASE Finish(w)
  BY <1>3, IdleIs DEF Finish
<1>4. ASSUME NEW outcome \in Outcome, Conclude(w, outcome)
      PROVE  \E r \in Goroutine :
               /\ worker' = [worker EXCEPT ![w] = r]
               /\ worker[w].pc # "idle"
               /\ r.pc # "idle" /\ r.msg = worker[w].msg /\ r.ends = worker[w].ends
               /\ worker[w].pc \in {"starting", "running", "acting"}
  <2>1. CASE Valid(w)
    <3> DEFINE r == [worker[w] EXCEPT !.pc = "acting", !.outcome = outcome]
    <3>1. r \in Goroutine /\ r.pc = "acting"
      BY DEF Goroutine
    <3>2. r.msg = worker[w].msg /\ r.ends = worker[w].ends
      BY DEF Goroutine
    <3>3. worker' = [worker EXCEPT ![w] = r] /\ worker[w].pc = "running"
      BY <1>4, <2>1 DEF Conclude
    <3> HIDE DEF r
    <3>4. QED
      BY <3>1, <3>2, <3>3
  <2>2. CASE ~Valid(w)
    <3> DEFINE r == [worker[w] EXCEPT !.pc = "finishing"]
    <3>1. r \in Goroutine /\ r.pc = "finishing"
      BY PhaseIs
    <3>2. r.msg = worker[w].msg /\ r.ends = worker[w].ends
      BY PhaseIs
    <3>3. worker' = [worker EXCEPT ![w] = r] /\ worker[w].pc = "running"
      BY <1>4, <2>2 DEF Conclude
    <3> HIDE DEF r
    <3>4. QED
      BY <3>1, <3>2, <3>3
  <2>3. QED
    BY <2>1, <2>2
<1>5. QED
  BY <1>1, <1>2, <1>3, <1>4
\* A task that is pending has its message, a copy within the bounds.
LEMMA HeadIs ==
  ASSUME BrokerInv, NEW t, Dequeue(t)
  PROVE  /\ Head(pending) \in TaskID
         /\ task[Head(pending)].msg \in Copies
         /\ task[Head(pending)].msg.id = Head(pending)
<1> DEFINE x == Head(pending)
<1>1. x \in TaskID /\ x \in Range(pending)
  BY TailIs DEF BrokerInv, IInv, TypeOK, Dequeue
<1>2. x \in Members["pending"] /\ "pending" \in State
  BY <1>1 DEF Members, State
<1> HIDE DEF x
<1>3. x \in DOMAIN task /\ task[x].msg # NoMsg /\ task[x].msg.id = x
  BY <1>2 DEF BrokerInv, IInv, ListedIsStored
<1>4. task[x].msg \in Copies
  BY <1>3 DEF BrokerInv, Carries
<1>5. QED
  BY <1>1, <1>3, <1>4 DEF x

\* The goroutine of a task that was taken.
LEMMA TakeIs ==
  ASSUME BrokerInv, WorkersTypeOK, Manned, NEW w \in Worker, Take(w)
  PROVE  \E r \in Goroutine :
           /\ worker' = [worker EXCEPT ![w] = r]
           /\ worker[w].pc = "idle" /\ r.pc = "starting"
           /\ r.msg = task[Head(pending)].msg /\ r.msg \in Copies
           /\ \E t \in Readings(Srv(w)) : Dequeue(t) /\ r.ends = t + LeaseDuration
<1> PICK t \in Readings(Srv(w)) :
      /\ Dequeue(t)
      /\ worker' = [worker EXCEPT ![w] =
           [Idle EXCEPT !.pc = "starting", !.msg = task[Head(pending)].msg,
                        !.ends = t + LeaseDuration]]
  BY DEF Take
<1> DEFINE m == task[Head(pending)].msg
           e == t + LeaseDuration
           r == [Idle EXCEPT !.pc = "starting", !.msg = m, !.ends = e]
<1>1. m \in Copies
  BY HeadIs
<1>2. e \in Int
  BY ReadingIs, ServerIs
<1>3. worker' = [worker EXCEPT ![w] = r] /\ worker[w].pc = "idle"
  BY DEF Take
<1> HIDE DEF m, e
<1>4. r \in Goroutine /\ r.pc = "starting" /\ r.msg = m /\ r.ends = e
  BY <1>1, <1>2 DEF Idle, Goroutine, Outcome
<1> HIDE DEF r
<1>5. QED
  BY <1>1, <1>3, <1>4 DEF m, e

\* What a recoverer lists are copies within the bounds.
LEMMA ListIs ==
  ASSUME BrokerInv, NEW cutoff
  PROVE  ListLeaseExpired(cutoff) \subseteq Copies
BY DEF BrokerInv, Carries, ListLeaseExpired

\* The reply of ExtendLease reaches the workers whose lease has not ended.
LEMMA ResetIs ==
  ASSUME WorkersTypeOK, Manned, NEW s \in Server, ResetLeases(s)
  PROVE  /\ worker' \in [Worker -> Goroutine]
         /\ Manned'
         /\ \A w \in Worker :
              /\ worker'[w].pc = worker[w].pc /\ worker'[w].msg = worker[w].msg
              /\ \/ worker'[w].ends = worker[w].ends
                 \/ /\ worker'[w].ends = beat[s].ends
                    /\ \E id \in beat[s].ids : w = watched[s][id]
<1> DEFINE e == beat[s].ends
<1>1. e \in Int
  BY DEF WorkersTypeOK, Beat
<1>2. ASSUME NEW w \in Worker
      PROVE  /\ worker'[w] \in Goroutine
             /\ worker'[w].pc = worker[w].pc /\ worker'[w].msg = worker[w].msg
             /\ \/ worker'[w].ends = worker[w].ends
                \/ /\ worker'[w].ends = e
                   /\ \E id \in beat[s].ids : w = watched[s][id]
  <2>1. worker[w] \in Goroutine
    BY DEF WorkersTypeOK
  <2> DEFINE r == [worker[w] EXCEPT !.ends = e]
  <2>2. r \in Goroutine /\ r.pc = worker[w].pc /\ r.msg = worker[w].msg /\ r.ends = e
    BY <1>1, <2>1 DEF Goroutine
  <2>3. \/ worker'[w] = worker[w]
        \/ worker'[w] = r /\ \E id \in beat[s].ids : w = watched[s][id]
    BY DEF ResetLeases
  <2> HIDE DEF r
  <2>4. QED
    BY <2>1, <2>2, <2>3
<1>3. worker' \in [Worker -> Goroutine]
  <2>1. worker' = [w \in Worker |-> worker'[w]]
    BY DEF ResetLeases
  <2>2. QED
    BY <1>2, <2>1
<1>4. QED
  BY <1>2, <1>3 DEF Manned
\* Every step of the servers leaves their variables with values of their type.
LEMMA ServersTypeStep ==
  BrokerInv /\ WorkersTypeOK /\ Manned /\ [WorkersNext]_allVars
    => WorkersTypeOK' /\ Manned'
<1> SUFFICES ASSUME BrokerInv, WorkersTypeOK, Manned, [WorkersNext]_allVars
             PROVE  WorkersTypeOK' /\ Manned'
  OBVIOUS
<1> USE DEF WorkersTypeOK
<1>0. CASE UNCHANGED <<now, procVars>>
  BY <1>0 DEF procVars, apart, Manned
<1>1. CASE \/ Submit \/ UNCHANGED allVars
           \/ \E s \in Server : \/ Housekeeping(s) \/ HandlerWrites(s)
                                \/ ExtendLate(s)
  BY <1>0, <1>1 DEF Submit, Housekeeping, HandlerWrites, ExtendLate, allVars
<1>2. CASE Tick
  <2>1. now' \in 0..MaxNow
    BY <1>2, ClockAssumption DEF Tick
  <2>2. late' \in [Server -> SUBSET Extension]
    BY <1>2 DEF Tick
  <2>3. QED
    BY <1>2, <2>1, <2>2 DEF Tick, Manned
<1>3. ASSUME NEW w \in Worker, WorkerMoves(w) PROVE WorkersTypeOK' /\ Manned'
  <2>1. CASE TakeLost(w)
    BY <1>0, <2>1 DEF TakeLost
  <2>2. CASE Take(w)
    <3>1. worker' \in [Worker -> Goroutine] /\ Manned'
      BY <2>2, TakeIs, TokenIs
    <3>2. UNCHANGED <<now, watched, beat, expired, stopping, late, handlers>>
      BY <2>2 DEF Take, apart
    <3>3. QED
      BY <3>1, <3>2
  <2>3. CASE \/ Register(w) \/ ActFails(w) \/ Act(w) \/ Finish(w)
             \/ \E outcome \in Outcome : Conclude(w, outcome)
    <3>1. worker' \in [Worker -> Goroutine] /\ Manned'
      <4>1. PICK r \in Goroutine :
              /\ worker' = [worker EXCEPT ![w] = r]
              /\ worker[w].pc # "idle"
              /\ r = Idle \/ r.msg = worker[w].msg
        BY <2>3, TokenStep
      <4>2. r.pc # "idle" => r.msg \in Copies
        BY <4>1, IdleIs DEF Manned
      <4>3. QED
        BY <4>1, <4>2, TokenIs
    <3>2. /\ UNCHANGED <<now, beat, expired, stopping, late>>
          /\ handlers' \in [Server -> SUBSET TaskID]
      <4>1. CASE Register(w)
        <5> DEFINE h == handlers[Srv(w)] \cup {worker[w].msg.id}
        <5>1. h \in SUBSET TaskID
          BY <4>1, ServerIs DEF Register, Manned, Copies
        <5>2. handlers' = [handlers EXCEPT ![Srv(w)] = h]
          BY <4>1 DEF Register
        <5> HIDE DEF h
        <5>3. QED
          BY <4>1, <5>1, <5>2 DEF Register
      <4>2. QED
        BY <2>3, <4>1 DEF ActFails, Act, Finish, Conclude, apart
    <3>3. DOMAIN watched' = Server /\ \A s \in Server : Partial(watched'[s], Worker)
      <4> DEFINE x == worker[w].msg.id
                 q == Srv(w)
      <4>1. q \in Server
        BY ServerIs
      <4>2. CASE Register(w)
        <5>1. x \in TaskID
          BY <4>2 DEF Register, Manned, Copies
        <5>2. watched' = [watched EXCEPT ![q] = Put(watched[q], x, w)]
          BY <4>2 DEF Register
        <5> HIDE DEF x, q
        <5>3. Partial(watched[q], Worker)
          BY <4>1
        <5>4. Partial(Put(watched[q], x, w), Worker)
          BY ONLY <5>1, <5>3, w \in Worker DEF Put, Partial
        <5>5. QED
          BY <4>1, <5>2, <5>4
      <4>3. CASE Finish(w)
        <5>1. watched' = [watched EXCEPT ![q] = Drop(watched[q], {x})]
          BY <4>3 DEF Finish
        <5>2. Partial(Drop(watched[q], {x}), Worker)
          BY <4>1, DropIs
        <5> HIDE DEF x, q
        <5>3. QED
          BY <4>1, <5>1, <5>2
      <4>4. QED
        BY <2>3, <4>2, <4>3 DEF ActFails, Act, Conclude
    <3>4. QED
      BY <3>1, <3>2, <3>3
  <2>4. QED
    BY <1>3, <2>1, <2>2, <2>3 DEF WorkerMoves
<1>4. ASSUME NEW s \in Server, HeartbeaterMoves(s) PROVE WorkersTypeOK' /\ Manned'
  <2>1. CASE BeginBeat(s)
    <3> DEFINE live == {id \in DOMAIN watched[s] : Valid(watched[s][id])}
               b    == [NotInBeat EXCEPT !.pc = "extend", !.ids = live]
    <3>1. live \in SUBSET TaskID
      BY DEF Partial
    <3>2. beat' = [beat EXCEPT ![s] = b]
      BY <2>1 DEF BeginBeat
    <3> HIDE DEF live
    <3>3. b \in Beat
      BY <3>1, BeatIs
    <3> HIDE DEF b
    <3>4. QED
      BY <2>1, <3>2, <3>3 DEF BeginBeat, apart, Manned
  <2>2. CASE Extend(s)
    <3>0. PICK t \in Readings(s) :
            /\ beat' = [beat EXCEPT ![s].pc = "reset", ![s].ends = t + LeaseDuration]
            /\ late' = [late EXCEPT ![s] = @ \cup {Sent(s, t)}]
      BY <2>2 DEF Extend
    <3> DEFINE e == t + LeaseDuration
               b == [beat[s] EXCEPT !.pc = "reset", !.ends = e]
    <3>1. e \in Int /\ Sent(s, t) \in Extension
      BY ReadingIs DEF Sent, Extension, Beat
    <3>2. beat' = [beat EXCEPT ![s] = b]
      BY <3>0
    <3>3. late' \in [Server -> SUBSET Extension]
      BY <3>0, <3>1
    <3> HIDE DEF e
    <3>4. b \in Beat
      BY <3>1 DEF Beat
    <3> HIDE DEF b
    <3>5. QED
      BY <2>2, <3>2, <3>3, <3>4 DEF Extend, Manned
  <2>3. CASE ExtendFails(s)
    <3>1. Sent(s, Clock(s)) \in Extension
      BY ClockIs, ReadingIs DEF Sent, Extension, Beat
    <3>2. late' \in [Server -> SUBSET Extension]
      BY <2>3, <3>1 DEF ExtendFails
    <3>3. QED
      BY <2>3, <3>2, IdleIs DEF ExtendFails, Manned
  <2>4. CASE ResetLeases(s)
    <3>1. worker' \in [Worker -> Goroutine] /\ Manned'
      BY <2>4, ResetIs
    <3>2. QED
      BY <2>4, <3>1, IdleIs DEF ResetLeases, apart
  <2>5. QED
    BY <1>1, <1>4, <2>1, <2>2, <2>3, <2>4 DEF HeartbeaterMoves
<1>5. ASSUME NEW s \in Server, RecovererMoves(s) PROVE WorkersTypeOK' /\ Manned'
  <2>1. UNCHANGED <<now, worker, watched, beat, stopping, late, handlers>>
    BY <1>5 DEF RecovererMoves, List, Recover, RecoverFails, apart
  <2>2. expired' \in [Server -> SUBSET Copies]
    BY <1>5, ListIs DEF RecovererMoves, List, Recover, RecoverFails
  <2>3. QED
    BY <2>1, <2>2 DEF Manned
<1>6. ASSUME NEW s \in Server, Stop(s) PROVE WorkersTypeOK' /\ Manned'
  BY <1>6 DEF Stop, apart, Manned
<1>7. ASSUME NEW s \in Server, Crash(s) PROVE WorkersTypeOK' /\ Manned'
  <2>1. worker' \in [Worker -> Goroutine] /\ Manned'
    <3>1. worker' = [w \in Worker |-> IF Srv(w) = s THEN Idle ELSE worker[w]]
      BY <1>7 DEF Crash
    <3>2. QED
      BY <3>1, IdleIs DEF Manned
  <2>2. watched' = [watched EXCEPT ![s] = NoEntry] /\ Partial(NoEntry, Worker)
    BY <1>7 DEF Crash, NoEntry, Partial
  <2>3. handlers' \in [Server -> SUBSET TaskID]
    BY <1>7 DEF Crash
  <2>4. QED
    BY <1>7, <2>1, <2>2, <2>3, IdleIs DEF Crash
<1>8. QED
  BY <1>1, <1>2, <1>3, <1>4, <1>5, <1>6, <1>7 DEF WorkersNext

\* A command that is sent carries a reading of the clock, and is no more to
\* come when the reading is older than Delay.
LEMMA TimelyStep ==
  WorkersTypeOK /\ Timely /\ [WorkersNext]_allVars => Timely'
<1> SUFFICES ASSUME WorkersTypeOK, Timely, [WorkersNext]_allVars,
                    NEW s \in Server, NEW c \in late'[s]
             PROVE  c.at \in Readings(s)'
  BY DEF Timely
<1>1. CASE Tick
  <2> DEFINE k == Skew[s]
  <2>1. now \in Int /\ now' \in Int /\ k \in Int /\ Delay \in Int
    BY <1>1, SkewAssumption, MarginAssumption, ClockAssumption
       DEF Tick, WorkersTypeOK
  <2>2. c \in late[s] /\ now' + k =< c.at + Delay /\ now' = now + 1
    BY <1>1 DEF Tick, Clock
  <2>3. c.at \in (now + k - Delay)..(now + k)
    BY <2>1, <2>2 DEF Timely, Readings, Clock
  <2> HIDE DEF k
  <2>4. c.at \in (now' + k - Delay)..(now' + k)
    BY <2>1, <2>2, <2>3
  <2>5. Readings(s)' = (now' + k - Delay)..(now' + k)
    BY <2>1 DEF Readings, Clock, k
  <2>6. QED
    BY <2>4, <2>5
<1>2. CASE UNCHANGED now /\ c \in late[s]
  BY <1>2 DEF Timely, Readings, Clock
<1>3. ASSUME NEW v \in Server, Extend(v) PROVE UNCHANGED now /\ c.at \in Readings(s)
  <2>1. PICK t \in Readings(v) : late' = [late EXCEPT ![v] = @ \cup {Sent(v, t)}]
    BY <1>3 DEF Extend
  <2>2. c \in late[s] \/ (v = s /\ c = Sent(v, t))
    BY <2>1 DEF WorkersTypeOK
  <2>3. QED
    BY <1>3, <2>2 DEF Extend, Timely, Sent
<1>4. ASSUME NEW v \in Server, ExtendFails(v)
      PROVE  UNCHANGED now /\ c.at \in Readings(s)
  <2>1. c \in late[s] \/ (v = s /\ c = Sent(v, Clock(v)))
    BY <1>4 DEF ExtendFails, WorkersTypeOK
  <2>2. QED
    BY <1>4, <2>1, ClockIs DEF ExtendFails, Timely, Sent
<1>5. CASE UNCHANGED now /\ c.at \in Readings(s)
  BY <1>5 DEF Readings, Clock
<1>6. CASE UNCHANGED <<now, late>>
  BY <1>2, <1>6
<1>7. ASSUME NEW w \in Worker, WorkerMoves(w) PROVE UNCHANGED <<now, late>>
  BY <1>7 DEF WorkerMoves, Take, TakeLost, Register, Conclude, Act, ActFails,
              Finish, procVars, apart
<1>8. ASSUME NEW v \in Server, HeartbeaterMoves(v), ~Extend(v), ~ExtendFails(v)
      PROVE  UNCHANGED <<now, late>>
  BY <1>8 DEF HeartbeaterMoves, BeginBeat, ExtendLate, ResetLeases, procVars, apart
<1>9. CASE \/ Submit \/ UNCHANGED allVars
           \/ \E v \in Server : \/ RecovererMoves(v) \/ Housekeeping(v)
                                \/ HandlerWrites(v) \/ Stop(v) \/ Crash(v)
  <2>1. UNCHANGED <<now, late>>
    BY <1>9 DEF Submit, RecovererMoves, List, Recover, RecoverFails, Housekeeping,
                HandlerWrites, Stop, Crash, allVars, procVars, apart
  <2>2. QED
    BY <1>6, <2>1
<1>10. QED
  BY <1>1, <1>3, <1>4, <1>5, <1>6, <1>7, <1>8, <1>9 DEF WorkersNext
------------------------------------------------------------------------------
(* The servers' invariant, and what follows for the broker.                *)

ServersInv == BrokerInv /\ WorkersTypeOK /\ Manned /\ Timely

\* No server has done anything.
LEMMA ServersInit == WorkersInit => ServersInv
<1> SUFFICES ASSUME WorkersInit PROVE ServersInv
  OBVIOUS
<1>1. BrokerInv
  BY InitInv DEF WorkersInit, BrokerInv, Carries, Init, NoEntry
<1>2. WorkersTypeOK /\ Manned /\ Timely
  <2>1. Partial(NoEntry, Worker) /\ 0 \in 0..MaxNow
    BY ClockAssumption DEF NoEntry, Partial
  <2>2. QED
    BY <2>1, IdleIs DEF WorkersInit, WorkersTypeOK, Manned, Timely
<1>3. QED
  BY <1>1, <1>2 DEF ServersInv

\* Every step of the servers is allowed by the broker and keeps the invariant.
LEMMA ServersStep ==
  ServersInv /\ [WorkersNext]_allVars /\ [~Aborting]_vars
    => ServersInv' /\ [Next]_vars
<1> SUFFICES ASSUME ServersInv, [WorkersNext]_allVars, [~Aborting]_vars
             PROVE  ServersInv' /\ [Next]_vars
  OBVIOUS
<1>1. [Next]_vars
  BY CallStep DEF ServersInv
<1>2. IInv' /\ Carries(task)'
  BY <1>1, StepInv, CarriesStep DEF ServersInv, BrokerInv
<1>3. WorkersTypeOK' /\ Manned' /\ Timely'
  BY ServersTypeStep, TimelyStep DEF ServersInv
<1>4. QED
  BY <1>1, <1>2, <1>3 DEF ServersInv, BrokerInv

\* The invariant of the servers and their broker holds throughout.
THEOREM ServersInductive == WorkersSpec /\ NoAbort => []ServersInv
BY ServersInit, ServersStep, PTL DEF WorkersSpec, NoAbort

\* However the servers run, they use the broker only as its specification
\* allows: what is proved of Rdb holds for them, refinement included.
THEOREM ServersRefineRdb == WorkersSpec /\ NoAbort => BrokerSpec /\ Spec
<1>1. WorkersInit => Init
  BY DEF WorkersInit
<1>2. ServersInv /\ [WorkersNext]_allVars /\ [~Aborting]_vars =>
        [Next]_vars /\ [UNCHANGED vars \/ Next]_vars
  BY ServersStep
<1>3. QED
  BY <1>1, <1>2, ServersInductive, PTL DEF WorkersSpec, Spec, BrokerSpec, NoAbort

\* The variables of the servers keep their types: no worker holds a message
\* that was retried more often than its limit.
THEOREM ServersTypeCorrect == WorkersSpec /\ NoAbort => []WorkersTypeOK
<1>1. ServersInv => WorkersTypeOK
  BY DEF ServersInv
<1>2. QED
  BY <1>1, ServersInductive, PTL

------------------------------------------------------------------------------
(* What a step can do to a worker's lease, to a beat and to the broker's   *)
(* leases.                                                                 *)

Holding(w) == worker[w].pc \in {"starting", "running", "acting"}

\* A worker goes on with its message and its lease, takes a task, learns of
\* an extension, or is gone.
LEMMA TokenCases ==
  ASSUME ServersInv, [WorkersNext]_allVars, NEW w \in Worker
  PROVE  \/ /\ worker'[w].ends = worker[w].ends
            /\ worker'[w].pc # "idle" =>
                 worker[w].pc # "idle" /\ worker'[w].msg = worker[w].msg
            /\ Holding(w)' => Holding(w)
            /\ worker'[w].pc = "idle" => worker[w].pc = "idle"
         \/ worker'[w] = Idle /\ (Finish(w) \/ Crash(Srv(w)))
         \/ Take(w)
         \/ \E s \in Server :
              /\ ResetLeases(s)
              /\ worker'[w].pc = worker[w].pc /\ worker'[w].msg = worker[w].msg
              /\ worker'[w].ends = beat[s].ends
              /\ \E id \in beat[s].ids : w = watched[s][id]
<1> USE DEF ServersInv
<1> DEFINE Stays == worker'[w] = worker[w]
<1>1. ASSUME NEW v \in Worker,
             \/ Register(v) \/ ActFails(v) \/ Act(v) \/ Finish(v)
             \/ \E outcome \in Outcome : Conclude(v, outcome)
      PROVE  \/ Stays
             \/ /\ worker'[w].ends = worker[w].ends
                /\ worker'[w].pc # "idle" =>
                     worker[w].pc # "idle" /\ worker'[w].msg = worker[w].msg
                /\ Holding(w)' => Holding(w)
                /\ worker'[w].pc # "idle"
             \/ worker'[w] = Idle /\ Finish(w)
  <2>1. PICK r \in Goroutine :
          /\ worker' = [worker EXCEPT ![v] = r]
          /\ worker[v].pc # "idle"
          /\ \/ r = Idle /\ Finish(v)
             \/ /\ r.pc # "idle" /\ r.msg = worker[v].msg /\ r.ends = worker[v].ends
                /\ r.pc \in {"starting", "running", "acting"} =>
                     worker[v].pc \in {"starting", "running", "acting"}
    BY <1>1, TokenStep
  <2>2. DOMAIN worker = Worker
    BY DEF WorkersTypeOK
  <2>3. CASE v = w
    BY <2>1, <2>2, <2>3 DEF Holding
  <2>4. CASE v # w
    BY <2>1, <2>2, <2>4
  <2>5. QED
    BY <2>3, <2>4
<1>2. ASSUME NEW v \in Worker, Take(v) PROVE Stays \/ Take(w)
  <2>1. PICK r \in Goroutine : worker' = [worker EXCEPT ![v] = r]
    BY <1>2, TakeIs
  <2>2. QED
    BY <1>2, <2>1 DEF WorkersTypeOK
<1>3. ASSUME NEW s \in Server, ResetLeases(s)
      PROVE  /\ worker'[w].pc = worker[w].pc /\ worker'[w].msg = worker[w].msg
             /\ \/ worker'[w].ends = worker[w].ends
                \/ /\ worker'[w].ends = beat[s].ends
                   /\ \E id \in beat[s].ids : w = watched[s][id]
  BY <1>3, ResetIs
<1>4. ASSUME NEW s \in Server, Crash(s)
      PROVE  Stays \/ (worker'[w] = Idle /\ Crash(Srv(w)))
  BY <1>4 DEF Crash
<1>5. ASSUME UNCHANGED worker PROVE Stays
  BY <1>5
<1>6. \/ UNCHANGED worker
      \/ \E v \in Worker : Take(v)
      \/ \E v \in Worker :
           \/ Register(v) \/ ActFails(v) \/ Act(v) \/ Finish(v)
           \/ \E outcome \in Outcome : Conclude(v, outcome)
      \/ \E s \in Server : ResetLeases(s)
      \/ \E s \in Server : Crash(s)
  <2>1. CASE Submit \/ Tick \/ UNCHANGED allVars
    BY <2>1 DEF Submit, Tick, allVars, procVars
  <2>2. ASSUME NEW s \in Server,
               \/ BeginBeat(s) \/ Extend(s) \/ ExtendFails(s) \/ ExtendLate(s)
               \/ RecovererMoves(s) \/ Housekeeping(s) \/ HandlerWrites(s)
               \/ Stop(s)
        PROVE  UNCHANGED worker
    BY <2>2 DEF BeginBeat, Extend, ExtendFails, ExtendLate, RecovererMoves, List,
                Recover, RecoverFails, Housekeeping, HandlerWrites, Stop, procVars
  <2>3. ASSUME NEW v \in Worker, TakeLost(v) PROVE UNCHANGED worker
    BY <2>3 DEF TakeLost, procVars
  <2>4. QED
    BY <2>1, <2>2, <2>3 DEF WorkersNext, WorkerMoves, HeartbeaterMoves
<1>7. ASSUME Stays
      PROVE  /\ worker'[w].ends = worker[w].ends
             /\ worker'[w].pc # "idle" =>
                  worker[w].pc # "idle" /\ worker'[w].msg = worker[w].msg
             /\ Holding(w)' => Holding(w)
             /\ worker'[w].pc = "idle" => worker[w].pc = "idle"
  BY <1>7 DEF Holding
<1> HIDE DEF Stays
<1>8. CASE \E s \in Server : ResetLeases(s)
  <2>1. PICK s \in Server : ResetLeases(s)
    BY <1>8
  <2>2. CASE worker'[w].ends = worker[w].ends
    BY <1>3, <2>1, <2>2 DEF Holding
  <2>3. CASE /\ worker'[w].ends = beat[s].ends
             /\ \E id \in beat[s].ids : w = watched[s][id]
    BY <1>3, <2>1, <2>3
  <2>4. QED
    BY <1>3, <2>1, <2>2, <2>3
<1>9. QED
  BY <1>1, <1>2, <1>4, <1>5, <1>6, <1>7, <1>8
\* A step that gives no lease: what stays active keeps its lease.
LeasesStay == \A x \in active' : x \in active /\ lease'[x] = lease[x]

\* Whatever a worker or a recoverer writes, it can only end a lease.
LEMMA ReleaseStays ==
  ASSUME BrokerInv, NEW x, Release(x)
  PROVE  LeasesStay
BY DEF LeasesStay, Release, Drop, BrokerInv, IInv, LeasedIffActive

\* A lease is new or prolonged only by Dequeue and ExtendLease, on the clock
\* of a server: it then ends LeaseDuration from now, as much later as two clocks
\* may differ, or as much earlier as a score may lag.
Renewed(x) == /\ lease'[x] + Lag >= now + LeaseDuration
              /\ lease'[x] =< now + Spread + LeaseDuration

LEMMA LeaseStep ==
  ASSUME ServersInv, [WorkersNext]_allVars
  PROVE  \A x \in active' : \/ x \in active /\ lease'[x] = lease[x]
                            \/ Renewed(x)
<1> USE DEF ServersInv
<1>a. DOMAIN lease = active
  BY DEF BrokerInv, IInv, LeasedIffActive
<1>1. ASSUME NEW s \in Server, NEW t \in Readings(s), Dequeue(t)
      PROVE  \A x \in active' : \/ x \in active /\ lease'[x] = lease[x]
                                \/ Renewed(x)
  <2> DEFINE e == Unix(t + LeaseDuration)
             h == Head(pending)
  <2>1. active' = active \cup {h} /\ lease' = Put(lease, h, e)
    BY <1>1 DEF Dequeue
  <2>2. e + Lag >= now + LeaseDuration /\ e =< now + Spread + LeaseDuration
    BY ReadingIs
  <2> HIDE DEF e, h
  <2>3. QED
    BY <1>a, <2>1, <2>2 DEF Put, Renewed
<1>2. ASSUME NEW s \in Server, NEW ids, NEW t \in Readings(s), ExtendLease(ids, t)
      PROVE  \A x \in active' : \/ x \in active /\ lease'[x] = lease[x]
                                \/ Renewed(x)
  <2> DEFINE e == Unix(t + LeaseDuration)
  <2>1. /\ active' = active
        /\ lease' = [x \in DOMAIN lease |-> IF x \in ids THEN e ELSE lease[x]]
    BY <1>2 DEF ExtendLease
  <2>2. e + Lag >= now + LeaseDuration /\ e =< now + Spread + LeaseDuration
    BY ReadingIs
  <2> HIDE DEF e
  <2>3. QED
    BY <1>a, <2>1, <2>2 DEF Renewed
<1>3. CASE UNCHANGED <<active, lease>>
  BY <1>3
<1>4. ASSUME NEW w \in Worker, WorkerMoves(w)
      PROVE  \/ UNCHANGED <<active, lease>> \/ LeasesStay
             \/ \E s \in Server : \E t \in Readings(s) : Dequeue(t)
  <2>1. ASSUME NEW o, NEW m, NEW t, Script(o, m, t) PROVE \E x : Release(x)
    BY <2>1 DEF Script, Acknowledge, HandleFailed, Done, MarkAsComplete,
                Requeue, Retry, Archive, Archives, ArchiveAborts
  <2>2. CASE Act(w)
    BY <2>1, <2>2, ReleaseStays DEF Act
  <2>3. CASE Take(w) \/ TakeLost(w)
    BY <2>3, ServerIs DEF Take, TakeLost
  <2>4. CASE \/ Register(w) \/ ActFails(w) \/ Finish(w)
             \/ \E outcome \in Outcome : Conclude(w, outcome)
    BY <2>4 DEF Register, ActFails, Finish, Conclude, vars
  <2>5. QED
    BY <1>4, <2>2, <2>3, <2>4 DEF WorkerMoves
<1>5. ASSUME NEW s \in Server, RecovererMoves(s)
      PROVE  UNCHANGED <<active, lease>> \/ LeasesStay
  <2>1. ASSUME NEW m, Recover(s, m) PROVE \E x : Release(x)
    BY <2>1 DEF Recover, Retry, Archive, Archives, ArchiveAborts
  <2>2. QED
    BY <1>5, <2>1, ReleaseStays DEF RecovererMoves, List, RecoverFails, vars
<1>6. CASE \/ Submit \/ Tick \/ UNCHANGED allVars
           \/ \E s \in Server : \/ Housekeeping(s) \/ HandlerWrites(s)
                                \/ Stop(s) \/ Crash(s)
  <2>1. UNCHANGED <<active, lease>>
    BY <1>6 DEF Submit, Enqueue, Tick, Housekeeping, ForwardRetry, ForwardFrom,
                DeleteExpiredCompletedTasks, HandlerWrites, WriteResult, Stop,
                Crash, allVars, vars
  <2>2. QED
    BY <1>3, <2>1
<1>7. ASSUME NEW s \in Server, HeartbeaterMoves(s)
      PROVE  \/ UNCHANGED <<active, lease>>
             \/ \E ids : \E t \in Readings(s) : ExtendLease(ids, t)
  <2>1. CASE ExtendLate(s)
    BY <2>1 DEF ExtendLate, Timely
  <2>2. QED
    BY <1>7, <2>1 DEF HeartbeaterMoves, BeginBeat, Extend, ExtendFails,
                      ResetLeases, vars
<1>8. QED
  BY <1>1, <1>2, <1>3, <1>4, <1>5, <1>6, <1>7 DEF WorkersNext, LeasesStay
\* A server's heartbeater goes on, stops, looks at leases, or has a reply.
LEMMA BeatCases ==
  ASSUME ServersInv, [WorkersNext]_allVars, NEW s \in Server
  PROVE  \/ beat'[s] = beat[s]
         \/ beat'[s] = NotInBeat
         \/ /\ UNCHANGED watched
            /\ beat'[s].pc = "extend" /\ beat'[s].ids \subseteq DOMAIN watched[s]
            /\ beat'[s].ends = 0
         \/ /\ Extend(s)
            /\ beat'[s].pc = "reset" /\ beat'[s].ids = beat[s].ids
            /\ \E t \in Readings(s) : /\ ExtendLease(beat[s].ids, t)
                                      /\ beat'[s].ends = t + LeaseDuration
<1> beat \in [Server -> Beat] /\ beat[s] \in Beat
  BY DEF ServersInv, WorkersTypeOK
<1>1. ASSUME NEW t \in Server, HeartbeaterMoves(t), t # s PROVE beat'[s] = beat[s]
  BY <1>1 DEF HeartbeaterMoves, BeginBeat, Extend, ExtendFails, ExtendLate,
              ResetLeases, procVars
<1>2. CASE BeginBeat(s)
  <2> DEFINE live == {id \in DOMAIN watched[s] : Valid(watched[s][id])}
  <2>1. beat'[s] = [NotInBeat EXCEPT !.pc = "extend", !.ids = live]
    BY <1>2 DEF BeginBeat
  <2>2. live \subseteq DOMAIN watched[s] /\ UNCHANGED watched
    BY <1>2 DEF BeginBeat
  <2> HIDE DEF live
  <2>3. QED
    BY <2>1, <2>2 DEF NotInBeat
<1>3. CASE Extend(s)
  <2> PICK t \in Readings(s) :
        /\ ExtendLease(beat[s].ids, t)
        /\ beat' = [beat EXCEPT ![s].pc = "reset", ![s].ends = t + LeaseDuration]
    BY <1>3 DEF Extend
  <2> DEFINE e == t + LeaseDuration
  <2>1. beat'[s] = [beat[s] EXCEPT !.pc = "reset", !.ends = e]
    OBVIOUS
  <2> HIDE DEF e
  <2>2. beat'[s].pc = "reset" /\ beat'[s].ids = beat[s].ids /\ beat'[s].ends = e
    BY <2>1 DEF Beat
  <2>3. QED
    BY <1>3, <2>1, <2>2 DEF e
<1>4. CASE ExtendFails(s) \/ ExtendLate(s) \/ ResetLeases(s)
  BY <1>4 DEF ExtendFails, ExtendLate, ResetLeases, procVars
<1>5. ASSUME NEW t \in Server, Crash(t) PROVE beat'[s] \in {beat[s], NotInBeat}
  BY <1>5 DEF Crash
<1>6. ASSUME NEW w \in Worker, WorkerMoves(w) PROVE beat' = beat
  BY <1>6 DEF WorkerMoves, Take, TakeLost, Register, Conclude, Act, ActFails,
              Finish, procVars
<1>7. CASE \/ Submit \/ Tick \/ UNCHANGED allVars
           \/ \E t \in Server : \/ RecovererMoves(t) \/ Housekeeping(t)
                                \/ HandlerWrites(t) \/ Stop(t)
  BY <1>7 DEF Submit, Tick, Housekeeping, HandlerWrites, RecovererMoves, List,
              Recover, RecoverFails, Stop, allVars, procVars
<1>8. QED
  BY <1>1, <1>2, <1>3, <1>4, <1>5, <1>6, <1>7 DEF WorkersNext, HeartbeaterMoves

\* What a heartbeater watches changes with Register, Finish and a crash.
LEMMA WatchedCases ==
  ASSUME ServersInv, [WorkersNext]_allVars, NEW s \in Server
  PROVE  \/ watched'[s] = watched[s]
         \/ /\ watched'[s] = NoEntry /\ Crash(s)
         \/ \E w \in Worker :
              /\ Srv(w) = s /\ beat[s].pc = "idle" /\ beat' = beat
              /\ \/ /\ worker[w].pc = "starting" /\ worker'[w].pc = "running"
                    /\ worker'[w].msg = worker[w].msg
                    /\ watched'[s] = Put(watched[s], worker[w].msg.id, w)
                 \/ /\ Finish(w)
                    /\ watched'[s] = Drop(watched[s], {worker[w].msg.id})
<1> DOMAIN watched = Server /\ DOMAIN worker = Worker
  BY DEF ServersInv, WorkersTypeOK
<1>1. ASSUME NEW w \in Worker, Register(w)
      PROVE  \/ watched'[s] = watched[s]
             \/ /\ Srv(w) = s /\ beat[s].pc = "idle" /\ beat' = beat
                /\ worker[w].pc = "starting" /\ worker'[w].pc = "running"
                /\ worker'[w].msg = worker[w].msg
                /\ watched'[s] = Put(watched[s], worker[w].msg.id, w)
  <2>1. /\ worker' = [worker EXCEPT ![w] = [worker[w] EXCEPT !.pc = "running"]]
        /\ worker[w].pc = "starting" /\ beat[Srv(w)].pc = "idle" /\ beat' = beat
        /\ watched' = [watched EXCEPT ![Srv(w)] =
                         Put(watched[Srv(w)], worker[w].msg.id, w)]
    BY <1>1 DEF Register
  <2>2. worker[w] \in Goroutine
    BY DEF ServersInv, WorkersTypeOK
  <2>3. worker'[w].pc = "running" /\ worker'[w].msg = worker[w].msg
    BY <2>1, <2>2, PhaseIs
  <2>4. QED
    BY <2>1, <2>3
<1>2. ASSUME NEW w \in Worker, Finish(w)
      PROVE  \/ watched'[s] = watched[s]
             \/ /\ Srv(w) = s /\ beat[s].pc = "idle" /\ beat' = beat
                /\ watched'[s] = Drop(watched[s], {worker[w].msg.id})
  BY <1>2 DEF Finish
<1>3. ASSUME NEW w \in Worker,
             \/ Take(w) \/ TakeLost(w) \/ Act(w) \/ ActFails(w)
             \/ \E outcome \in Outcome : Conclude(w, outcome)
      PROVE  watched' = watched
  BY <1>3 DEF Take, TakeLost, Act, ActFails, Conclude, procVars
<1>4. ASSUME NEW t \in Server, Crash(t)
      PROVE  watched'[s] = watched[s] \/ (watched'[s] = NoEntry /\ Crash(s))
  BY <1>4 DEF Crash
<1>5. CASE \/ Submit \/ Tick \/ UNCHANGED allVars
           \/ \E t \in Server : \/ HeartbeaterMoves(t) \/ RecovererMoves(t)
                                \/ Housekeeping(t) \/ HandlerWrites(t) \/ Stop(t)
  BY <1>5 DEF Submit, Tick, Housekeeping, HandlerWrites, RecovererMoves, List,
              Recover, RecoverFails, HeartbeaterMoves, BeginBeat, Extend,
              ExtendFails, ExtendLate, ResetLeases, Stop, allVars, procVars
<1>6. QED
  BY <1>1, <1>2, <1>3, <1>4, <1>5 DEF WorkersNext, WorkerMoves
------------------------------------------------------------------------------
(* The leases in memory and in the broker.                                 *)

\* No lease in memory ends later than LeaseDuration from now.
Bounded ==
  /\ \A w \in Worker : worker[w].ends =< Clock(Srv(w)) + LeaseDuration
  /\ \A s \in Server : beat[s].pc = "reset" =>
       beat[s].ends =< Clock(s) + LeaseDuration

\* A heartbeater knows its own server's workers, each by its task.
Watching ==
  \A s \in Server : \A id \in DOMAIN watched[s] :
    LET w == watched[s][id]
    IN Srv(w) = s /\ worker[w].pc # "idle" /\ worker[w].msg.id = id

\* During a beat no worker comes or goes.
Beating ==
  \A s \in Server : /\ beat[s].ids \subseteq DOMAIN watched[s]
                    /\ beat[s].pc = "idle" => beat[s].ids = {}

\* Between ExtendLease and Reset, the broker's leases already cover the ones
\* that the workers are about to get.
Promised ==
  \A s \in Server : beat[s].pc = "reset" =>
    \A id \in beat[s].ids \cap active :
      lease[id] + Lag >= beat[s].ends - Skew[s]

LeaseInv == /\ ServersInv
            /\ Bounded
            /\ Watching
            /\ Beating
            /\ Promised
            /\ LeaseCovers

\* Clocks never go back.
LEMMA NowStep ==
  ASSUME [WorkersNext]_allVars PROVE now' = now \/ now' = now + 1
BY DEF WorkersNext, Submit, Tick, WorkerMoves, Take, TakeLost, Register,
       Conclude, Act, ActFails, Finish, HeartbeaterMoves, BeginBeat, Extend,
       ExtendFails, ExtendLate, ResetLeases, RecovererMoves, List, Recover,
       RecoverFails, Housekeeping, HandlerWrites, Stop, Crash, allVars

LEMMA ClockStep ==
  ASSUME ServersInv, [WorkersNext]_allVars, NEW s \in Server
  PROVE  /\ Clock(s) \in Int /\ Clock(s)' \in Int /\ Clock(s) =< Clock(s)'
         /\ Clock(s) = now + Skew[s] /\ now \in Int /\ Skew[s] \in 0..Spread
<1>1. now' = now \/ now' = now + 1
  BY NowStep
<1>2. now \in Int /\ Skew[s] \in 0..Spread /\ Skew[s] \in Int
  BY SkewAssumption, ClockAssumption DEF ServersInv, WorkersTypeOK
<1>3. QED
  BY <1>1, <1>2 DEF Clock

\* A score may lag, by nothing at least.
LEMMA LagIs == Lag \in Nat /\ Spread + Transit + Lag < Grace
<1>1. Delay \in Nat /\ Second \in Int /\ Second >= 1
  BY MarginAssumption, TimeAssumption
<1>2. QED
  BY <1>1, MarginAssumption DEF Lag

\* A lease in memory starts when a call is made.
LEMMA BoundedStep == LeaseInv /\ [WorkersNext]_allVars => Bounded'
<1> SUFFICES ASSUME LeaseInv, [WorkersNext]_allVars PROVE Bounded'
  OBVIOUS
<1>i. ServersInv /\ Bounded /\ WorkersTypeOK /\ BrokerInv /\ Manned
  BY DEF LeaseInv, ServersInv
<1>d. LeaseDuration \in Int
  BY SizeAssumption
<1>1. ASSUME NEW w \in Worker
      PROVE  worker'[w].ends =< Clock(Srv(w))' + LeaseDuration
  <2> DEFINE s == Srv(w)
             c == Clock(s)
             e == worker[w].ends
  <2>1. s \in Server
    BY ServerIs
  <2>2. c \in Int /\ c' \in Int /\ c =< c'
    BY <1>i, <2>1, ClockStep
  <2>3. e \in Int /\ e =< c + LeaseDuration
    BY <1>i, <2>1 DEF Bounded, WorkersTypeOK, Goroutine
  <2>4. CASE worker'[w].ends = e
    BY <1>d, <2>2, <2>3, <2>4
  <2>5. CASE worker'[w] = Idle
    <3>1. worker'[w].ends = 0 /\ c' >= 0
      <4>1. worker'[w].ends = 0
        BY <2>5, IdleIs
      <4>2. now >= 0 /\ c >= now
        BY <1>i, <2>1, ClockIs, ClockStep, ClockAssumption DEF WorkersTypeOK
      <4>3. QED
        BY <1>i, <2>1, <2>2, <4>1, <4>2, ClockStep
    <3>2. QED
      BY <2>2, <3>1, SizeAssumption
  <2>6. CASE Take(w)
    <3>1. PICK r \in Goroutine :
            /\ worker' = [worker EXCEPT ![w] = r]
            /\ \E t \in Readings(s) : r.ends = t + LeaseDuration
      BY <1>i, <2>6, TakeIs
    <3>2. PICK t \in Readings(s) : r.ends = t + LeaseDuration
      BY <3>1
    <3>3. worker'[w].ends = t + LeaseDuration
      BY <1>i, <3>1, <3>2 DEF WorkersTypeOK
    <3>4. t \in Int /\ t =< c
      BY <1>i, <2>1, ReadingIs
    <3>5. QED
      BY <1>d, <2>2, <3>3, <3>4
  <2>7. ASSUME NEW t \in Server, ResetLeases(t), worker'[w].ends = beat[t].ends,
               NEW id \in beat[t].ids, w = watched[t][id]
        PROVE  worker'[w].ends =< c' + LeaseDuration
    <3>1. t = s
      BY <2>7 DEF LeaseInv, Watching, Beating
    <3>2. beat[s].ends \in Int /\ beat[s].ends =< c + LeaseDuration
      BY <1>i, <2>7, <3>1 DEF ResetLeases, Bounded, WorkersTypeOK, Beat
    <3>3. QED
      BY <1>d, <2>2, <2>7, <3>1, <3>2
  <2> HIDE DEF s, c, e
  <2>8. QED
    BY <1>i, <2>4, <2>5, <2>6, <2>7, TokenCases DEF s, c, e
<1>2. ASSUME NEW s \in Server, beat'[s].pc = "reset"
      PROVE  beat'[s].ends =< Clock(s)' + LeaseDuration
  <2> DEFINE c == Clock(s)
  <2>1. c \in Int /\ c' \in Int /\ c =< c'
    BY <1>i, ClockStep
  <2>2. CASE beat'[s] = beat[s]
    <3>1. beat[s].ends \in Int /\ beat[s].ends =< c + LeaseDuration
      BY <1>i, <1>2, <2>2 DEF Bounded, WorkersTypeOK, Beat
    <3>2. QED
      BY <1>d, <2>1, <2>2, <3>1
  <2>3. ASSUME NEW t \in Readings(s), beat'[s].ends = t + LeaseDuration
        PROVE  beat'[s].ends =< c' + LeaseDuration
    <3>1. t \in Int /\ t =< c
      BY <1>i, ReadingIs
    <3>2. QED
      BY <1>d, <2>1, <2>3, <3>1
  <2> HIDE DEF c
  <2>4. QED
    BY <1>i, <1>2, <2>2, <2>3, BeatCases, IdleIs DEF c
<1>3. QED
  BY <1>1, <1>2 DEF Bounded
\* An entry of watched is kept until its own worker is done.
LEMMA WatchingStep == LeaseInv /\ [WorkersNext]_allVars => Watching'
<1> SUFFICES ASSUME LeaseInv, [WorkersNext]_allVars,
                    NEW s \in Server, NEW id \in DOMAIN watched'[s]
             PROVE  /\ Srv(watched'[s][id]) = s
                    /\ worker'[watched'[s][id]].pc # "idle"
                    /\ worker'[watched'[s][id]].msg.id = id
  BY DEF Watching
<1>i. ServersInv /\ Watching /\ WorkersTypeOK
  BY DEF LeaseInv, ServersInv
<1>1. CASE \E w \in Worker :
             /\ Srv(w) = s /\ worker'[w].pc = "running"
             /\ worker'[w].msg = worker[w].msg
             /\ id = worker[w].msg.id /\ watched'[s][id] = w
  BY <1>1
<1>2. ASSUME id \in DOMAIN watched[s], watched'[s][id] = watched[s][id],
             ~Crash(s),
             \A w \in Worker : Srv(w) = s /\ Finish(w) => worker[w].msg.id # id
      PROVE  /\ Srv(watched'[s][id]) = s
             /\ worker'[watched'[s][id]].pc # "idle"
             /\ worker'[watched'[s][id]].msg.id = id
  <2> DEFINE w == watched[s][id]
  <2>1. /\ w \in Worker /\ Srv(w) = s
        /\ worker[w].pc # "idle" /\ worker[w].msg.id = id
    BY <1>i, <1>2 DEF Watching, WorkersTypeOK, Partial
  <2> HIDE DEF w
  <2>2. ~Take(w) /\ ~Finish(w) /\ ~Crash(Srv(w))
    BY <1>2, <2>1 DEF Take
  <2>3. worker'[w].pc # "idle" /\ worker'[w].msg.id = id
    BY <1>i, <2>1, <2>2, TokenCases
  <2>4. QED
    BY <1>2, <2>1, <2>3 DEF w
<1>3. ASSUME Crash(s) PROVE DOMAIN watched'[s] = {}
  BY <1>i, <1>3 DEF Crash, WorkersTypeOK, NoEntry
<1>4. ASSUME NEW w \in Worker, Srv(w) = s, Finish(w)
      PROVE  watched'[s] = Drop(watched[s], {worker[w].msg.id})
  BY <1>i, <1>4 DEF Finish, WorkersTypeOK
<1>5. CASE watched'[s] = watched[s]
  BY <1>2, <1>3, <1>4, <1>5 DEF Drop
<1>6. ASSUME NEW w \in Worker, Finish(w), Srv(w) = s
      PROVE  /\ id \in DOMAIN watched[s] /\ watched'[s][id] = watched[s][id]
             /\ worker[w].msg.id # id
  BY <1>4, <1>6 DEF Drop
<1>7. ASSUME NEW w \in Worker, Srv(w) = s,
             worker[w].pc = "starting", worker'[w].pc = "running",
             worker'[w].msg = worker[w].msg,
             watched'[s] = Put(watched[s], worker[w].msg.id, w)
      PROVE  \/ id = worker[w].msg.id /\ watched'[s][id] = w
             \/ /\ id \in DOMAIN watched[s] /\ watched'[s][id] = watched[s][id]
                /\ \A v \in Worker : Srv(v) = s => ~Finish(v)
  <2>1. ASSUME NEW v \in Worker, Finish(v) PROVE FALSE
    BY <1>i, <1>7, <2>1, IdleIs DEF Finish, WorkersTypeOK
  <2>2. QED
    BY <1>7, <2>1 DEF Put
<1>8. QED
  BY <1>i, <1>1, <1>2, <1>3, <1>5, <1>6, <1>7, WatchedCases

\* A beat keeps its IDs, and the heartbeater does nothing else meanwhile.
LEMMA BeatingStep == LeaseInv /\ [WorkersNext]_allVars => Beating'
<1> SUFFICES ASSUME LeaseInv, [WorkersNext]_allVars, NEW s \in Server
             PROVE  /\ beat'[s].ids \subseteq DOMAIN watched'[s]
                    /\ beat'[s].pc = "idle" => beat'[s].ids = {}
  BY DEF Beating
<1>i. ServersInv /\ Beating /\ beat \in [Server -> Beat]
  BY DEF LeaseInv, ServersInv, WorkersTypeOK
<1>1. CASE beat'[s] = NotInBeat
  BY <1>1, IdleIs
<1>2. CASE beat'[s] = beat[s]
  <2>1. ASSUME Crash(s) PROVE beat'[s] = NotInBeat
    BY <1>i, <2>1 DEF Crash
  <2>2. QED
    BY <1>i, <1>1, <1>2, <2>1, WatchedCases DEF Beating
<1>3. QED
  BY <1>i, <1>1, <1>2, BeatCases DEF Beating, Extend

\* The broker's leases are prolonged before the reply is there.
LEMMA PromisedStep ==
  LeaseInv /\ [WorkersNext]_allVars /\ [~Aborting]_vars => Promised'
<1> SUFFICES ASSUME LeaseInv, [WorkersNext]_allVars, [~Aborting]_vars,
                    NEW s \in Server, beat'[s].pc = "reset",
                    NEW id \in beat'[s].ids, id \in active'
             PROVE  lease'[id] + Lag >= beat'[s].ends - Skew[s]
  BY DEF Promised
<1> DEFINE c == Clock(s)
<1>i. /\ ServersInv /\ Promised /\ Bounded /\ beat[s] \in Beat
      /\ DOMAIN lease = active /\ lease \in [DOMAIN lease -> Int]
      /\ lease' \in [DOMAIN lease' -> Int] /\ DOMAIN lease' = active'
  BY ServersStep DEF LeaseInv, ServersInv, WorkersTypeOK, BrokerInv, IInv,
                     LeasedIffActive, TypeOK, Partial
<1>c. /\ c = now + Skew[s] /\ now \in Int /\ Skew[s] \in Int
      /\ LeaseDuration \in Int /\ Lag \in Int /\ Skew[s] >= 0
  BY <1>i, ClockStep, SizeAssumption, LagIs
<1>1. CASE beat'[s] = beat[s]
  <2>1. beat[s].ends \in Int /\ beat[s].ends =< c + LeaseDuration
    BY <1>i, <1>1 DEF Bounded, Beat
  <2>2. CASE id \in active /\ lease'[id] = lease[id]
    BY <1>i, <1>1, <2>2 DEF Promised
  <2>3. CASE lease'[id] + Lag >= now + LeaseDuration
    BY <1>i, <1>c, <1>1, <2>1, <2>3
  <2>4. QED
    BY <1>i, <2>2, <2>3, LeaseStep DEF Renewed
<1>2. ASSUME beat'[s].ids = beat[s].ids, NEW t \in Readings(s),
             ExtendLease(beat[s].ids, t), beat'[s].ends = t + LeaseDuration
      PROVE  lease'[id] + Lag >= beat'[s].ends - Skew[s]
  <2> DEFINE e == t + LeaseDuration
             u == Unix(e)
  <2>1. lease' = [x \in DOMAIN lease |-> IF x \in beat[s].ids THEN u ELSE lease[x]]
    BY <1>2 DEF ExtendLease
  <2>2. lease'[id] = u
    BY <1>i, <1>2, <2>1
  <2>3. e \in Int /\ u \in Int /\ u + Lag >= e
    BY <1>i, ReadingIs DEF ServersInv
  <2> HIDE DEF u
  <2>4. QED
    BY <1>2, <1>c, <2>2, <2>3
<1> HIDE DEF c
<1>3. QED
  BY <1>i, <1>1, <1>2, BeatCases, IdleIs DEF c
\* Whatever becomes of a worker's lease in memory, the broker's covers it.
LEMMA CoversStep ==
  LeaseInv /\ [WorkersNext]_allVars /\ [~Aborting]_vars => LeaseCovers'
<1> SUFFICES ASSUME LeaseInv, [WorkersNext]_allVars, [~Aborting]_vars,
                    NEW w \in Worker, NEW id \in active', Holds(w, id)'
             PROVE  lease'[id] + Lag >= worker'[w].ends - Skew[Srv(w)]
  BY DEF LeaseCovers
<1> DEFINE s == Srv(w)
           c == Clock(s)
           e == worker[w].ends
<1>1. Holding(w)' /\ worker'[w].msg.id = id /\ worker'[w].pc # "idle"
  BY DEF Holds, Holding
<1>i. /\ ServersInv /\ LeaseCovers /\ Bounded /\ s \in Server /\ e \in Int
      /\ DOMAIN lease = active /\ lease \in [DOMAIN lease -> Int]
      /\ lease' \in [DOMAIN lease' -> Int] /\ DOMAIN lease' = active'
  BY ServerIs, ServersStep
     DEF LeaseInv, ServersInv, WorkersTypeOK, Goroutine, BrokerInv, IInv,
         LeasedIffActive, TypeOK, Partial
<1>c. /\ c = now + Skew[s] /\ now \in Int /\ Skew[s] \in Int /\ Skew[s] >= 0
      /\ LeaseDuration \in Int /\ e =< c + LeaseDuration /\ Lag \in Int
  BY <1>i, ClockStep, SizeAssumption, LagIs DEF Bounded
<1>2. CASE worker'[w].ends = e /\ worker'[w].msg = worker[w].msg /\ Holding(w)
  <2>1. CASE id \in active /\ lease'[id] = lease[id]
    BY <1>1, <1>2, <1>i, <2>1 DEF LeaseCovers, Holds, Holding
  <2>2. CASE lease'[id] + Lag >= now + LeaseDuration
    BY <1>2, <1>i, <1>c, <2>2
  <2>3. QED
    BY <1>i, <2>1, <2>2, LeaseStep DEF Renewed
<1>3. CASE Take(w)
  <2> DEFINE h == Head(pending)
  <2>1. PICK r \in Goroutine :
          /\ worker' = [worker EXCEPT ![w] = r] /\ r.msg = task[h].msg
          /\ \E t \in Readings(s) : Dequeue(t) /\ r.ends = t + LeaseDuration
    BY <1>i, <1>3, TakeIs DEF ServersInv
  <2>2. PICK t \in Readings(s) : Dequeue(t) /\ r.ends = t + LeaseDuration
    BY <2>1
  <2> DEFINE d == t + LeaseDuration
             u == Unix(d)
  <2>3. worker'[w] = r
    BY <1>i, <2>1 DEF ServersInv, WorkersTypeOK
  <2>4. lease' = Put(lease, h, u)
    BY <2>2 DEF Dequeue
  <2>5. id = h
    BY <1>1, <1>i, <2>1, <2>2, <2>3, HeadIs DEF ServersInv
  <2>6. d \in Int /\ u \in Int /\ u + Lag >= d
    BY <1>i, ReadingIs DEF ServersInv
  <2>7. worker'[w].ends = d
    BY <2>2, <2>3
  <2> HIDE DEF h, d, u
  <2>8. lease'[id] = u
    BY <2>4, <2>5 DEF Put
  <2>9. QED
    BY <1>c, <2>6, <2>7, <2>8
<1>4. ASSUME NEW t \in Server, ResetLeases(t), worker'[w].ends = beat[t].ends,
             worker'[w].msg = worker[w].msg,
             NEW x \in beat[t].ids, w = watched[t][x]
      PROVE  lease'[id] + Lag >= worker'[w].ends - Skew[s]
  <2>1. t = s /\ worker[w].msg.id = x
    BY <1>4 DEF LeaseInv, Watching, Beating
  <2>2. x = id /\ active' = active /\ lease' = lease /\ beat[t].pc = "reset"
    BY <1>1, <1>4, <2>1 DEF ResetLeases, vars
  <2>3. QED
    BY <1>4, <2>1, <2>2 DEF LeaseInv, Promised
<1> HIDE DEF s, c, e
<1>5. CASE worker'[w] = Idle
  BY <1>1, <1>5, IdleIs
<1>6. CASE /\ worker'[w].ends = e
           /\ worker'[w].pc # "idle" =>
                worker[w].pc # "idle" /\ worker'[w].msg = worker[w].msg
           /\ Holding(w)' => Holding(w)
  BY <1>1, <1>2, <1>6 DEF s
<1>7. QED
  BY <1>i, <1>3, <1>4, <1>5, <1>6, TokenCases DEF s, c, e

\* Nobody has a lease in the beginning.
LEMMA LeaseInit == WorkersInit => LeaseInv
<1> SUFFICES ASSUME WorkersInit PROVE LeaseInv
  OBVIOUS
<1>1. ServersInv
  BY ServersInit
<1>2. \A s \in Server : Clock(s) + LeaseDuration >= 0
  <2>1. LeaseDuration \in Nat /\ now >= 0 /\ now \in Int
    BY <1>1, SizeAssumption, ClockAssumption DEF ServersInv, WorkersTypeOK
  <2>2. QED
    BY <1>1, <2>1, SkewAssumption DEF Clock
<1>3. Bounded
  BY <1>2, ServerIs, IdleIs DEF WorkersInit, Bounded
<1>4. Watching /\ Beating /\ Promised /\ LeaseCovers
  BY IdleIs DEF WorkersInit, Watching, Beating, Promised, LeaseCovers, Holds,
                NoEntry
<1>5. QED
  BY <1>1, <1>3, <1>4 DEF LeaseInv

\* Every step of the servers keeps the invariant.
LEMMA LeaseInvStep ==
  LeaseInv /\ [WorkersNext]_allVars /\ [~Aborting]_vars => LeaseInv'
<1> SUFFICES ASSUME LeaseInv, [WorkersNext]_allVars, [~Aborting]_vars
             PROVE  LeaseInv'
  OBVIOUS
<1>1. ServersInv'
  BY ServersStep DEF LeaseInv
<1>2. QED
  BY <1>1, BoundedStep, WatchingStep, BeatingStep, PromisedStep, CoversStep
     DEF LeaseInv

LEMMA LeaseInductive == WorkersSpec /\ NoAbort => []LeaseInv
BY LeaseInit, LeaseInvStep, PTL DEF WorkersSpec, NoAbort

\* What a heartbeat adds to a lease counts from the beat: a clock that goes on
\* only brings the end of a lease closer.
LEMMA LeasesEndStep ==
  ASSUME LeaseInv, LeasesEnd, [WorkersNext]_allVars, [~Aborting]_vars
  PROVE  LeasesEnd'
<1> SUFFICES ASSUME NEW x \in active'
             PROVE  lease'[x] =< now' + Spread + LeaseDuration
  BY DEF LeasesEnd
<1>1. ServersInv /\ ServersInv'
  BY ServersStep DEF LeaseInv
<1>2. /\ now \in Int /\ now' \in Int /\ Spread \in Int /\ LeaseDuration \in Int
      /\ DOMAIN lease = active /\ lease \in [DOMAIN lease -> Int]
      /\ lease'[x] \in Int
  BY <1>1, SkewAssumption, SizeAssumption
     DEF ServersInv, WorkersTypeOK, BrokerInv, IInv, LeasedIffActive, TypeOK, Partial
<1>3. now =< now'
  BY <1>2, NowStep
<1>4. CASE x \in active /\ lease'[x] = lease[x]
  <2>1. lease[x] \in Int /\ lease[x] =< now + Spread + LeaseDuration
    BY <1>2, <1>4 DEF LeasesEnd
  <2>2. QED
    BY <1>2, <1>3, <1>4, <2>1
<1>5. CASE Renewed(x)
  BY <1>2, <1>3, <1>5 DEF Renewed
<1>6. QED
  BY <1>1, <1>4, <1>5, LeaseStep

\* An active task that nobody serves any more can be recovered: its lease ends
\* within LeaseDuration of its last heartbeat, whatever heartbeats there were.
THEOREM LeasesDoEnd == WorkersSpec /\ NoAbort => []LeasesEnd
<1>1. WorkersInit => LeasesEnd
  BY DEF WorkersInit, Init, LeasesEnd
<1>2. LeaseInv /\ LeasesEnd /\ [WorkersNext]_allVars /\ [~Aborting]_vars
        => LeasesEnd'
  BY LeasesEndStep
<1>3. QED
  BY <1>1, <1>2, LeaseInductive, PTL DEF WorkersSpec, NoAbort

\* For any clocks, any number of servers and workers, and whatever calls fail
\* or are late, the broker's lease ends at most Lag before the worker's.
THEOREM LeasesCovered == WorkersSpec /\ NoAbort => []LeaseCovers
<1>1. LeaseInv => LeaseCovers
  BY DEF LeaseInv
<1>2. QED
  BY <1>1, LeaseInductive, PTL

\* The heartbeater prolongs leases only for workers that still have the task.
THEOREM WatchedHeld == WorkersSpec /\ NoAbort => []WatchedIsHeld
<1>1. LeaseInv => WatchedIsHeld
  BY DEF LeaseInv, Watching, WatchedIsHeld
<1>2. QED
  BY <1>1, LeaseInductive, PTL

\* A recoverer lists what the broker's leases, the grace period taken off,
\* have left: no worker's own lease is as old.
LEMMA ListStep ==
  ASSUME LeaseInv, [WorkersNext]_allVars, NEW s \in Server
  PROVE  \A m \in expired'[s] \ expired[s] : \A w \in Worker : ~MayAct(w, m.id)
<1>i. DOMAIN expired = Server
  BY DEF LeaseInv, ServersInv, WorkersTypeOK
<1>1. ASSUME List(s), NEW m \in expired'[s], NEW w \in Worker, MayAct(w, m.id)
      PROVE  FALSE
  <2> DEFINE v == Srv(w)
  <2>1. PICK x \in DOMAIN task : /\ x \in DOMAIN lease
                                 /\ lease[x] =< Unix(Clock(s) - Grace)
                                 /\ m = task[x].msg
    BY <1>i, <1>1 DEF List, ListLeaseExpired, UpTo
  <2>2. x \in active /\ lease[x] \in Int
    BY <2>1 DEF LeaseInv, ServersInv, BrokerInv, IInv, LeasedIffActive,
                TypeOK, Partial
  <2>3. m.id = x
    <3>1. x \in Members["active"] /\ "active" \in State
      BY <2>2 DEF Members, State
    <3>2. QED
      BY <2>1, <3>1 DEF LeaseInv, ServersInv, BrokerInv, IInv, ListedIsStored
  <2>4. /\ v \in Server /\ worker[w].ends \in Int
        /\ lease[x] + Lag >= worker[w].ends - Skew[v]
        /\ Clock(v) =< worker[w].ends + Transit
    BY <1>1, <2>2, <2>3, ServerIs
       DEF LeaseInv, LeaseCovers, MayAct, InTime, ServersInv, WorkersTypeOK, Goroutine
  <2>5. /\ Clock(s) = now + Skew[s] /\ Clock(v) = now + Skew[v] /\ now \in Int
        /\ Skew[s] \in 0..Spread /\ Skew[v] \in 0..Spread
    BY <2>4, ClockStep DEF LeaseInv
  <2> HIDE DEF v
  <2> DEFINE k == Clock(s) - Grace
  <2>6. k \in Int /\ Unix(k) \in Int /\ Unix(k) =< k
    BY <2>5, MarginAssumption, UnixIs
  <2>7. lease[x] =< k
    BY <2>1, <2>2, <2>6
  <2>8. QED
    BY <2>2, <2>4, <2>5, <2>7, LagIs, MarginAssumption, SkewAssumption
<1>2. ASSUME ~List(s) PROVE expired'[s] \subseteq expired[s]
  BY <1>i, <1>2
     DEF WorkersNext, Submit, Tick, WorkerMoves, Take, TakeLost, Register,
         Conclude, Act, ActFails, Finish, HeartbeaterMoves, BeginBeat, Extend,
         ExtendFails, ExtendLate, ResetLeases, RecovererMoves, List, Recover,
         RecoverFails, Housekeeping, HandlerWrites, Stop, Crash, allVars, procVars
<1>3. QED
  BY <1>1, <1>2

\* With a grace period longer than the clocks' spread, a command's transit and
\* the lag of a score together, no recoverer lists a task that a worker may
\* still acknowledge.
THEOREM GraceSuffices == WorkersSpec /\ NoAbort => ListsOnlyAbandoned
<1> DEFINE Safe(s) == \A m \in expired'[s] \ expired[s] :
                        \A w \in Worker : ~MayAct(w, m.id)
<1>1. LeaseInv /\ [WorkersNext]_allVars =>
        [\A s \in Server : Safe(s)]_allVars
  BY ListStep
<1>2. QED
  BY <1>1, LeaseInductive, PTL DEF WorkersSpec, ListsOnlyAbandoned
==============================================================================
