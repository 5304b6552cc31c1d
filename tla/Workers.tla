------------------------------- MODULE Workers -------------------------------
(***************************************************************************)
(* Servers that process the tasks of one queue: the processor and its      *)
(* worker goroutines, the heartbeater, the recoverer, the forwarder and    *)
(* the janitor of each server, calling the scripts of Rdb.                 *)
(*                                                                         *)
(* A worker's lease lives twice: base.Lease in the worker's memory and a   *)
(* score in the broker's lease set.  The two are written at different      *)
(* moments, by calls whose replies may be lost or whose commands may come  *)
(* late, the score cut to seconds, and are compared with the clocks of     *)
(* different machines.                                                     *)
(***************************************************************************)
EXTENDS Rdb

CONSTANTS
  Server,
  Slot,          \* tokens of a server's sema: its concurrency
  Skew,          \* Skew[s]: how far the clock of s is ahead of the slowest
  Spread,        \* no two clocks differ by more
  Grace,         \* recoverer: expired 30 s ago or earlier, in ticks
  Transit,       \* a command sent before its context ended may be executed
                 \* this much later
  Delay,         \* a command that takes its time from the clock may be
                 \* executed this much after the clock was read
  RetryDelay,    \* retryDelayFunc, in ticks
  MaxNow         \* bound: how long the clocks run

ASSUME SkewAssumption == Skew \in [Server -> 0..Spread] /\ Spread \in Nat

\* By how much the score of a lease may lag behind: it is computed from an
\* earlier reading of the clock, and cut to seconds.
Lag == Delay + Second - 1

\* What the grace period has to cover.
ASSUME MarginAssumption ==
  /\ Grace \in Nat /\ Transit \in Nat /\ Delay \in Nat
  /\ Spread + Transit + Lag < Grace
ASSUME ClockAssumption ==
  /\ RetryDelay \in Nat /\ MaxNow \in Nat
  /\ (-Delay)..(MaxNow + Spread + RetryDelay) \subseteq Time

Worker == Server \X Slot
Srv(w) == w[1]

VARIABLES
  now,       \* the slowest clock
  worker,    \* the goroutine that holds each token
  watched,   \* heartbeater.workers: the worker it knows for a task ID
  beat,      \* where the heartbeater is in beat()
  expired,   \* messages the recoverer has listed and not yet handled
  stopping,  \* has processor.stop() returned?
  late,      \* ExtendLease commands that were sent and may still come, or
             \* come again: the client sends one again that is not answered
  handlers   \* task IDs whose handlers were started and may still be running,
             \* for a worker does not wait for its handler to the end

apart    == <<late, handlers>>
procVars == <<worker, watched, beat, expired, stopping, apart>>
allVars  == <<vars, now, procVars>>

Clock(s) == now + Skew[s]

\* The readings of a server's clock that a command executed now may carry.
\* It matters for leases; with any other call an older reading does what the
\* same call would have done a little earlier.
Readings(s) == (Clock(s) - Delay)..Clock(s)

\* What a worker goroutine's select can lead to: handleSucceededMessage,
\* handleFailedMessage, requeue.
Outcome == {"succeeded", "failed", "aborted"}

\* A token of sema and the goroutine that holds it, if any.  A time may be
\* counted from any moment, and be negative.
Goroutine == [pc : {"idle", "starting", "running", "acting", "finishing"},
              msg : Copies \cup {NoMsg}, ends : Int,
              outcome : Outcome \cup {"none"}]
Extension == [ids : SUBSET TaskID, at : Int]
Beat      == [pc : {"idle", "extend", "reset"}, ids : SUBSET TaskID, ends : Int]

Idle      == [pc |-> "idle", msg |-> NoMsg, ends |-> 0, outcome |-> "none"]
NotInBeat == [pc |-> "idle", ids |-> {}, ends |-> 0]

\* lease.IsValid(): at the very instant it ends a lease is still valid.
Valid(w) == worker[w].ends >= Clock(Srv(w))

\* The servers' own invariant; the broker's part is Rdb's TypeOK.
WorkersTypeOK ==
  /\ now \in 0..MaxNow
  /\ worker \in [Worker -> Goroutine]
  /\ DOMAIN watched = Server
  /\ \A s \in Server : Partial(watched[s], Worker)
  /\ beat \in [Server -> Beat]
  /\ expired \in [Server -> SUBSET Copies]
  /\ stopping \in [Server -> BOOLEAN]
  /\ late \in [Server -> SUBSET Extension]
  /\ handlers \in [Server -> SUBSET TaskID]

------------------------------------------------------------------------------
(* The processor (exec) and its workers.                                   *)

HasMessage(id) == id \in DOMAIN task /\ task[id].msg # NoMsg

\* Dequeue, then wait for the heartbeater; the processor goroutine does one
\* task at a time.  base.Lease is not cut to seconds.
Take(w) ==
  LET s == Srv(w)
  IN /\ ~stopping[s]
     /\ worker[w].pc = "idle"
     /\ \A v \in Worker : Srv(v) = s => worker[v].pc # "starting"
     /\ \E t \in Readings(s) :
          /\ Dequeue(t)
          /\ HasMessage(Head(pending))
          /\ worker' = [worker EXCEPT ![w] =
               [Idle EXCEPT !.pc = "starting", !.msg = task[Head(pending)].msg,
                            !.ends = t + LeaseDuration]]
     /\ UNCHANGED <<now, watched, beat, expired, stopping, apart>>

\* The reply is lost, or is nil for a hash that has no message: exec gives the
\* token back, the task stays active.
TakeLost(w) ==
  /\ ~stopping[Srv(w)]
  /\ worker[w].pc = "idle"
  /\ \A v \in Worker : Srv(v) = Srv(w) => worker[v].pc # "starting"
  /\ \E t \in Readings(Srv(w)) : Dequeue(t)
  /\ UNCHANGED <<now, procVars>>

\* The heartbeater receives from starting; the worker goroutine starts, and
\* with it the handler.
Register(w) ==
  LET s == Srv(w)
  IN /\ worker[w].pc = "starting"
     /\ beat[s].pc = "idle"
     /\ worker' = [worker EXCEPT ![w].pc = "running"]
     /\ watched' = [watched EXCEPT ![s] = Put(@, worker[w].msg.id, w)]
     /\ handlers' = [handlers EXCEPT ![s] = @ \cup {worker[w].msg.id}]
     /\ UNCHANGED <<vars, now, beat, expired, stopping, late>>

\* The select in exec receives: the call that the outcome asks for follows,
\* unless the lease is over: then nothing is written and the recoverer takes
\* care of the task.  A notice on lease.Done() comes only when it is over.
\* Only shutdown closes the channel abort.
Conclude(w, outcome) ==
  /\ worker[w].pc = "running"
  /\ outcome = "aborted" => stopping[Srv(w)]
  /\ worker' = IF Valid(w)
               THEN [worker EXCEPT ![w].pc = "acting", ![w].outcome = outcome]
               ELSE [worker EXCEPT ![w].pc = "finishing"]
  /\ UNCHANGED <<vars, now, watched, beat, expired, stopping, apart>>

\* The deadline of the call's context is the lease's.
InTime(w) == Clock(Srv(w)) =< worker[w].ends + Transit

\* markAsDone, or markAsComplete for a task with a retention.
Acknowledge(m, t) == Done(m) \/ MarkAsComplete(m, t)

\* Mutant: the retries are not counted.
HandleFailedForever(m, t) ==
  \/ Archive(m, t)
  \/ \E isFailure \in BOOLEAN : Retry(m, t + RetryDelay, isFailure)

\* handleFailedMessage: any error may be SkipRetry, and may be none that
\* counts as a failure.
HandleFailed(m, t) ==
  \/ Archive(m, t)
  \/ /\ m.retried < MaxRetried
     /\ \E isFailure \in BOOLEAN : Retry(m, t + RetryDelay, isFailure)

\* The script a worker's last call runs.
Script(outcome, m, t) ==
  \/ outcome = "succeeded" /\ Acknowledge(m, t)
  \/ outcome = "failed" /\ HandleFailed(m, t)
  \/ outcome = "aborted" /\ Requeue(m)

Act(w) ==
  /\ worker[w].pc = "acting"
  /\ InTime(w)
  /\ Script(worker[w].outcome, worker[w].msg, Clock(Srv(w)))
  /\ worker' = [worker EXCEPT ![w].pc = "finishing"]
  /\ UNCHANGED <<now, watched, beat, expired, stopping, apart>>

\* The call is refused with NOT FOUND, or never reaches the broker.  The
\* syncer is sent the same call, but with the context that markAsDone and the
\* others cancel when they return, so that it never reaches the broker either.
ActFails(w) ==
  /\ worker[w].pc = "acting"
  /\ worker' = [worker EXCEPT ![w].pc = "finishing"]
  /\ UNCHANGED <<vars, now, watched, beat, expired, stopping, apart>>

\* Mutant: the heartbeater is not told.
FinishUntold(w) ==
  /\ worker[w].pc = "finishing"
  /\ worker' = [worker EXCEPT ![w] = Idle]
  /\ UNCHANGED <<vars, now, watched, beat, expired, stopping, apart>>

\* The heartbeater receives from finished and deletes its entry for the ID;
\* the token is free.
Finish(w) ==
  LET s == Srv(w)
  IN /\ worker[w].pc = "finishing"
     /\ beat[s].pc = "idle"
     /\ watched' = [watched EXCEPT ![s] = Drop(@, {worker[w].msg.id})]
     /\ worker' = [worker EXCEPT ![w] = Idle]
     /\ UNCHANGED <<vars, now, beat, expired, stopping, apart>>

WorkerMoves(w) ==
  \/ Take(w) \/ TakeLost(w) \/ Register(w)
  \/ \E outcome \in Outcome : Conclude(w, outcome)
  \/ Act(w) \/ ActFails(w) \/ Finish(w)

------------------------------------------------------------------------------
(* The heartbeater.                                                        *)

\* beat() looks at the leases of the workers it knows, also of one that waits
\* to be received from finished.
BeginBeat(s) ==
  LET live == {id \in DOMAIN watched[s] : Valid(watched[s][id])}
  IN /\ beat[s].pc = "idle"
     /\ live # {}
     /\ beat' = [beat EXCEPT ![s] = [NotInBeat EXCEPT !.pc = "extend",
                                                    !.ids = live]]
     /\ UNCHANGED <<vars, now, worker, watched, expired, stopping, apart>>

Sent(s, t) == [ids |-> beat[s].ids, at |-> t]

\* ExtendLease returns the new end of the leases.
Extend(s) ==
  /\ beat[s].pc = "extend"
  /\ \E t \in Readings(s) :
       /\ ExtendLease(beat[s].ids, t)
       /\ beat' = [beat EXCEPT ![s].pc = "reset", ![s].ends = t + LeaseDuration]
       /\ late' = [late EXCEPT ![s] = @ \cup {Sent(s, t)}]
  /\ UNCHANGED <<now, worker, watched, expired, stopping, handlers>>

\* The call fails, before or after the broker has done its part.
ExtendFails(s) ==
  /\ beat[s].pc = "extend"
  /\ beat' = [beat EXCEPT ![s] = NotInBeat]
  /\ late' = [late EXCEPT ![s] = @ \cup {Sent(s, Clock(s))}]
  /\ UNCHANGED <<vars, now, worker, watched, expired, stopping, handlers>>

\* The command comes now, whatever has become of the tasks since.
ExtendLate(s) ==
  /\ \E c \in late[s] : ExtendLease(c.ids, c.at)
  /\ UNCHANGED <<now, procVars>>

\* Mutant: the lease is taken to start when the reply is handled.
ResetFromNow(s) ==
  LET extended == {watched[s][id] : id \in beat[s].ids}
  IN /\ beat[s].pc = "reset"
     /\ worker' = [w \in Worker |->
          IF w \in extended /\ Valid(w)
          THEN [worker[w] EXCEPT !.ends = Clock(s) + LeaseDuration] ELSE worker[w]]
     /\ beat' = [beat EXCEPT ![s] = NotInBeat]
     /\ UNCHANGED <<vars, now, watched, expired, stopping, apart>>

\* Lease.Reset of every worker, refused where the lease has ended meanwhile.
ResetLeases(s) ==
  LET extended == {watched[s][id] : id \in beat[s].ids}
  IN /\ beat[s].pc = "reset"
     /\ worker' = [w \in Worker |->
          IF w \in extended /\ Valid(w)
          THEN [worker[w] EXCEPT !.ends = beat[s].ends] ELSE worker[w]]
     /\ beat' = [beat EXCEPT ![s] = NotInBeat]
     /\ UNCHANGED <<vars, now, watched, expired, stopping, apart>>

HeartbeaterMoves(s) ==
  BeginBeat(s) \/ Extend(s) \/ ExtendFails(s) \/ ExtendLate(s) \/ ResetLeases(s)

------------------------------------------------------------------------------
(* The recoverer, the forwarder and the janitor.                           *)

\* Mutant: no time is left for clocks that differ.
ListWithoutGrace(s) ==
  /\ expired[s] = {}
  /\ expired' = [expired EXCEPT ![s] = ListLeaseExpired(Clock(s) - 1)]
  /\ expired'[s] # {}
  /\ UNCHANGED <<vars, now, worker, watched, beat, stopping, apart>>

List(s) ==
  /\ expired[s] = {}
  /\ expired' = [expired EXCEPT ![s] = ListLeaseExpired(Clock(s) - Grace)]
  /\ expired'[s] # {}
  /\ UNCHANGED <<vars, now, worker, watched, beat, stopping, apart>>

\* Mutant: the message stays on the recoverer's list.
RecoverAgain(s, m) ==
  /\ m \in expired[s]
  /\ IF m.retried >= MaxRetried
     THEN Archive(m, Clock(s))
     ELSE \E isFailure \in BOOLEAN : Retry(m, Clock(s) + RetryDelay, isFailure)
  /\ UNCHANGED <<now, procVars>>

\* One message of the list; nothing is read again before the call.
Recover(s, m) ==
  /\ m \in expired[s]
  /\ IF m.retried >= MaxRetried
     THEN Archive(m, Clock(s))
     ELSE \E isFailure \in BOOLEAN : Retry(m, Clock(s) + RetryDelay, isFailure)
  /\ expired' = [expired EXCEPT ![s] = @ \ {m}]
  /\ UNCHANGED <<now, worker, watched, beat, stopping, apart>>

\* NOT FOUND, or the broker cannot be reached: the recoverer goes on.
RecoverFails(s, m) ==
  /\ m \in expired[s]
  /\ expired' = [expired EXCEPT ![s] = @ \ {m}]
  /\ UNCHANGED <<vars, now, worker, watched, beat, stopping, apart>>

RecovererMoves(s) ==
  List(s) \/ \E m \in expired[s] : Recover(s, m) \/ RecoverFails(s, m)

Housekeeping(s) ==
  /\ ForwardRetry(Clock(s)) \/ DeleteExpiredCompletedTasks(Clock(s))
  /\ UNCHANGED <<now, procVars>>

------------------------------------------------------------------------------
(* Clients, operators, clocks and crashes.                                 *)

Submit ==
  /\ \E m \in Fresh \ Unique : Enqueue(m)
  /\ UNCHANGED <<now, procVars>>

\* A handler writes its result, be its task still there or not.
HandlerWrites(s) ==
  /\ \E id \in handlers[s] : WriteResult(id)
  /\ UNCHANGED <<now, procVars>>

Stop(s) ==
  /\ ~stopping[s]
  /\ stopping' = [stopping EXCEPT ![s] = TRUE]
  /\ UNCHANGED <<vars, now, worker, watched, beat, expired, apart>>

\* The process ends, at any point: what it had in memory is gone, what it has
\* sent is not.  A process that starts in its place has the same clock.
Crash(s) ==
  /\ worker' = [w \in Worker |-> IF Srv(w) = s THEN Idle ELSE worker[w]]
  /\ watched' = [watched EXCEPT ![s] = NoEntry]
  /\ beat' = [beat EXCEPT ![s] = NotInBeat]
  /\ expired' = [expired EXCEPT ![s] = {}]
  /\ stopping' = [stopping EXCEPT ![s] = FALSE]
  /\ handlers' = [handlers EXCEPT ![s] = {}]
  /\ UNCHANGED <<vars, now, late>>

Tick ==
  /\ now < MaxNow
  /\ now' = now + 1
  /\ late' = [s \in Server |-> {c \in late[s] : Clock(s)' =< c.at + Delay}]
  /\ UNCHANGED <<vars, worker, watched, beat, expired, stopping, handlers>>

------------------------------------------------------------------------------
WorkersInit ==
  /\ Init
  /\ now = 0
  /\ worker = [w \in Worker |-> Idle]
  /\ watched = [s \in Server |-> NoEntry]
  /\ beat = [s \in Server |-> NotInBeat]
  /\ expired = [s \in Server |-> {}]
  /\ stopping = [s \in Server |-> FALSE]
  /\ late = [s \in Server |-> {}]
  /\ handlers = [s \in Server |-> {}]

WorkersNext ==
  \/ Submit \/ Tick
  \/ \E w \in Worker : WorkerMoves(w)
  \/ \E s \in Server : \/ HeartbeaterMoves(s) \/ RecovererMoves(s)
                       \/ Housekeeping(s) \/ HandlerWrites(s)
                       \/ Stop(s) \/ Crash(s)

WorkersSpec == WorkersInit /\ [][WorkersNext]_allVars

------------------------------------------------------------------------------
(* Properties.                                                             *)

\* The servers use the broker as Rdb lets anybody use it: Spec, where a step
\* that leaves the broker alone is seen first.
BrokerSpec == Init /\ [][UNCHANGED vars \/ Next]_vars

Holds(w, id) == /\ worker[w].pc \in {"starting", "running", "acting"}
                /\ worker[w].msg.id = id

\* May the worker still run a script on its task?
MayAct(w, id) == Holds(w, id) /\ InTime(w)

\* The broker's lease of an active task ends at most Lag before the lease that
\* any worker believes to have on it, taken back to the slowest clock: whatever
\* heartbeat was delayed, lost, refused, executed late or meant for another
\* worker's task.
LeaseCovers ==
  \A w \in Worker : \A id \in active :
    Holds(w, id) => lease[id] + Lag >= worker[w].ends - Skew[Srv(w)]

\* The lease of an active task ends when LeaseDuration has gone by since it was
\* last given or prolonged, whichever clock counted it: heartbeats do not add
\* up, and what nobody prolongs any more can be recovered.
LeasesEnd == \A id \in active : lease[id] =< now + Spread + LeaseDuration

\* A recoverer never lists a task that a worker may still acknowledge: the
\* grace period covers the difference of the clocks, the commands under way in
\* either direction, and the second that the score is cut to.
ListsOnlyAbandoned ==
  [][\A s \in Server : \A m \in expired'[s] \ expired[s] :
       \A w \in Worker : ~MayAct(w, m.id)]_allVars

\* A recoverer takes a task out of a worker's hands only when that worker may
\* not conclude it any more (doc.go: it "Handles lease-expired tasks from
\* crashed workers"), at the time it does so and not only when it looked.
RecoversOnlyAbandoned ==
  [][\A s \in Server : \A m \in expired[s] \ expired'[s] :
       m.id \in active \ active' => \A w \in Worker : ~MayAct(w, m.id)]_allVars

\* At most one worker may still conclude a task: what it writes is not about
\* a task that another worker is running.
OneHolder ==
  \A v, w \in Worker : \A id \in TaskID :
    MayAct(v, id) /\ MayAct(w, id) => v = w

\* A task's retry counter never goes back while the task exists, so that it
\* is retried at most Retry times, and its message is never lost.
RetriesKept ==
  [][\A id \in DOMAIN task \cap DOMAIN task' : task[id].msg # NoMsg =>
       /\ task'[id].msg # NoMsg
       /\ task'[id].msg.retried >= task[id].msg.retried]_allVars

\* The heartbeater prolongs leases only for workers that still have the task:
\* else the lease of a task nobody runs would never end.
WatchedIsHeld ==
  \A s \in Server : \A id \in DOMAIN watched[s] :
    LET w == watched[s][id] IN worker[w].pc # "idle" /\ worker[w].msg.id = id

\* beat "extends lease for workers": for each one that runs a task.
RunningIsWatched ==
  \A w \in Worker : worker[w].pc = "running" =>
    \E id \in DOMAIN watched[Srv(w)] : watched[Srv(w)][id] = w
==============================================================================
