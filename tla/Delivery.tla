------------------------------ MODULE Delivery ------------------------------
(***************************************************************************)
(* The servers of Workers for as long as they run: what finally happens to *)
(* a task that was accepted, with handlers that fail, calls that are lost, *)
(* processes that crash again and again.  Two parts of a server that       *)
(* Workers leaves out join in: the syncer (syncer.go), which is handed the *)
(* calls that failed, and the cancel functions of the running tasks        *)
(* (base.Cancelations).                                                    *)
(*                                                                         *)
(* The clock needs no bound here: every time counts from the beginning of  *)
(* the second that the slowest clock is in, now is the tick within it, and *)
(* with each new second every time that is stored comes a second closer,   *)
(* down to -Floor.  No comparison of the code with a clock tells such a    *)
(* time from an earlier one; but tasks that are overdue for so long are    *)
(* forwarded in the order of their IDs.                                    *)
(***************************************************************************)
EXTENDS Workers

CONSTANTS
  Floor,      \* times further back need not be told apart
  MaxStops    \* bound: how often a server is stopped, see Delivered

ASSUME FloorAssumption ==
  /\ Floor \in Nat /\ MaxStops \in Nat
  /\ Floor >= Grace + Second - 1 /\ Floor >= ArchiveTTL + Second - 1
  /\ Floor > Transit
  /\ Second - 1 =< MaxNow

VARIABLES
  run,        \* how far each worker's goroutine has come, see Phase
  cancelable, \* Cancelations of each server: the run that an ID's function ends
  requests,   \* the syncRequests of each server
  stops       \* how often each server was stopped

syncVars == <<run, cancelable, requests, stops>>
lifeVars == <<allVars, syncVars>>

\* The goroutine that exec starts: before Cancelations.Add, after it, when its
\* last call has returned, after cancel(), and after Cancelations.Delete, when
\* it is as far as if there were none.
Phase == {"none", "new", "open", "returned", "cancelled"}

\* A syncRequest waits in the channel, then it is on the syncer's list.  When
\* the context it runs with is cancelled its deadline is all that matters.
Request == [worker : Worker, msg : Copies \cup {NoMsg}, place : {"channel", "list", "cancelled"},
            fn : {"done", "retry", "archive", "none"}, at : Int, ends : Int]

Within == -Floor..(Second - 1 + Spread + LeaseDuration)

DeliveryTypeOK ==
  /\ now \in 0..(Second - 1)
  /\ \A w \in Worker : worker[w].ends \in Within
  /\ run \in [Worker -> Phase]
  /\ \A w \in Worker : run[w] # "none" => worker[w].pc # "idle"
  /\ DOMAIN cancelable = Server
  /\ \A s \in Server : Partial(cancelable[s], Worker)
  /\ requests \in [Server -> SUBSET Request]
  /\ stops \in [Server -> 0..MaxStops]

------------------------------------------------------------------------------
(* A worker's goroutine, from its start to its end.                        *)

Untouched == UNCHANGED syncVars

\* The heartbeater has received from starting: exec starts the goroutine.
StartRun(w) ==
  /\ Register(w)
  /\ run' = [run EXCEPT ![w] = "new"]
  /\ UNCHANGED <<cancelable, requests, stops>>

\* The goroutine makes the context and adds its cancel function.
AddCancel(w) ==
  LET s == Srv(w)
  IN /\ run[w] = "new"
     /\ run' = [run EXCEPT ![w] = "open"]
     /\ cancelable' = [cancelable EXCEPT ![s] = Put(@, worker[w].msg.id, w)]
     /\ UNCHANGED <<allVars, requests, stops>>

Concludes(w) ==
  /\ run[w] = "open"
  /\ \E outcome \in Outcome : Conclude(w, outcome)
  /\ Untouched

\* defaultIsFailureFunc: every error counts, so every retry is counted.
Counted ==
  \A id \in DOMAIN retry' \ DOMAIN retry :
    task'[id].msg.retried > task[id].msg.retried

\* The calls that a syncRequest may make again, for each outcome of a worker.
Calls == [succeeded |-> {"done"}, failed |-> {"retry", "archive"}, aborted |-> {}]

Failed(w, fn) ==
  [worker |-> w, msg |-> worker[w].msg, place |-> "channel", fn |-> fn,
   at |-> IF fn = "retry" THEN Clock(Srv(w)) + RetryDelay ELSE 0,
   ends |-> worker[w].ends]

\* The call returned an error, which the worker sends to the syncer with a
\* function that makes the call again; a failed Requeue is only logged.
HandOver(w) ==
  /\ IF Calls[worker[w].outcome] = {}
     THEN UNCHANGED requests
     ELSE \E fn \in Calls[worker[w].outcome] :
            /\ fn = "retry" => worker[w].msg.retried < MaxRetried
            /\ requests' = [requests EXCEPT ![Srv(w)] = @ \cup {Failed(w, fn)}]
  /\ UNCHANGED <<run, cancelable, stops>>

\* The script ends with OK: it has found the lease, and no unpack aborts it.
RunsThrough(m, t) == Leased(m.id) /\ ~(~Unpacks(m, t) /\ ArchiveAborts(m, t))

Answered(w) ==
  /\ Act(w) /\ Counted
  /\ RunsThrough(worker[w].msg, Clock(Srv(w)))
  /\ Untouched

\* The script ends with an error, or its reply is lost.
AnswerLost(w) == Act(w) /\ Counted /\ HandOver(w)
Refused(w)    == ActFails(w) /\ HandOver(w)

Sending(w) == \E r \in requests[Srv(w)] : r.worker = w /\ r.place = "channel"

Cancelled(r) ==
  [r EXCEPT !.msg = NoMsg, !.place = "cancelled", !.fn = "none", !.at = 0]

CancelRequests(w) ==
  requests' = [requests EXCEPT ![Srv(w)] =
                 {IF r.worker = w /\ r.place = "list" THEN Cancelled(r) ELSE r : r \in @}]

\* markAsDone, markAsComplete, retry or archive returns, and its own deferred
\* cancel ends the context that the request it has sent runs with.
CallReturns(w) ==
  /\ worker[w].pc = "finishing"
  /\ run[w] = "open"
  /\ ~Sending(w)
  /\ CancelRequests(w)
  /\ run' = [run EXCEPT ![w] = "returned"]
  /\ UNCHANGED <<allVars, cancelable, stops>>

\* The goroutine's deferred function: cancel ...
CancelRun(w) ==
  /\ run[w] = "returned"
  /\ run' = [run EXCEPT ![w] = "cancelled"]
  /\ UNCHANGED <<allVars, cancelable, requests, stops>>

\* ... and Delete, by the task's ID.
DeleteCancel(w) ==
  LET s == Srv(w)
  IN /\ run[w] = "cancelled"
     /\ run' = [run EXCEPT ![w] = "none"]
     /\ cancelable' = [cancelable EXCEPT ![s] = Drop(@, {worker[w].msg.id})]
     /\ UNCHANGED <<allVars, requests, stops>>

\* Mutant: the deferred functions run in the order of the text.
EndFirst(w) == Finish(w) /\ Untouched

\* The deferred function that was declared first comes last.
End(w) == run[w] = "none" /\ Finish(w) /\ Untouched

WorkerGoesOn(w) ==
  \/ StartRun(w) \/ AddCancel(w) \/ Concludes(w)
  \/ Answered(w) \/ AnswerLost(w) \/ Refused(w)
  \/ CallReturns(w) \/ CancelRun(w) \/ DeleteCancel(w) \/ End(w)

------------------------------------------------------------------------------
(* The syncer.                                                             *)

Receive(s, r) ==
  /\ r \in requests[s] /\ r.place = "channel"
  /\ requests' = [requests EXCEPT ![s] = (@ \ {r}) \cup {[r EXCEPT !.place = "list"]}]
  /\ UNCHANGED <<allVars, run, cancelable, stops>>

\* What fn does when its context still lets it.
Again(r) ==
  LET m == r.msg
      t == Clock(Srv(r.worker))
  IN \/ r.fn = "done"    /\ Acknowledge(m, t)
     \/ r.fn = "archive" /\ Archive(m, t)
     \/ r.fn = "retry"   /\ Retry(m, r.at, TRUE)

\* The interval is over and the request is not stale: fn is called, and the
\* request is done with or, if fn fails, stays on the list.  The last try at
\* the end differs only in that it does not look for stale requests.
\* Assumed: the interval is long, whoever sent a request that is on the list
\* has returned from its call by then; nothing in syncer.go makes it wait.
Sync(s, r) ==
  /\ r \in requests[s] /\ r.place # "channel"
  /\ r.ends >= Clock(s)
  /\ \A q \in requests[s] : q.place = "list" => run[q.worker] # "open"
  /\ IF r.place = "list"
     THEN /\ Again(r)
          /\ requests' = [requests EXCEPT ![s] = @ \ {r}]
     ELSE UNCHANGED <<vars, requests>>
  /\ UNCHANGED <<now, procVars, run, cancelable, stops>>

\* A stale request is dropped.
SyncDrops(s, r) ==
  /\ r \in requests[s] /\ r.place # "channel"
  /\ r.ends < Clock(s)
  /\ requests' = [requests EXCEPT ![s] = @ \ {r}]
  /\ UNCHANGED <<allVars, run, cancelable, stops>>

SyncerGoesOn(s) ==
  \E r \in requests[s] : Receive(s, r) \/ Sync(s, r) \/ SyncDrops(s, r)

------------------------------------------------------------------------------
(* The rest of a server, and what surrounds it.                            *)

Recovers(s, m) == Recover(s, m) /\ Counted /\ Untouched

ForwardsRetry(s) == ForwardRetry(Clock(s)) /\ UNCHANGED <<now, procVars>> /\ Untouched
ForwardsScheduled(s) ==
  ForwardScheduled(Clock(s)) /\ UNCHANGED <<now, procVars>> /\ Untouched
Cleans(s) ==
  DeleteExpiredCompletedTasks(Clock(s)) /\ UNCHANGED <<now, procVars>> /\ Untouched

SubmitLater ==
  /\ \E m \in Fresh \ Unique, at \in Time : Schedule(m, at)
  /\ UNCHANGED <<now, procVars>>

StopServer(s) ==
  /\ stops[s] < MaxStops
  /\ Stop(s)
  /\ stops' = [stops EXCEPT ![s] = @ + 1]
  /\ UNCHANGED <<run, cancelable, requests>>

\* What the process had in memory is gone, and another one starts.
CrashServer(s) ==
  /\ Crash(s)
  /\ run' = [w \in Worker |-> IF Srv(w) = s THEN "none" ELSE run[w]]
  /\ cancelable' = [cancelable EXCEPT ![s] = NoEntry]
  /\ requests' = [requests EXCEPT ![s] = {}]
  /\ UNCHANGED stops

\* A server that was stopped and has no workers left is started again.
Restart(s) ==
  /\ stopping[s]
  /\ \A w \in Worker : Srv(w) = s => worker[w].pc = "idle"
  /\ CrashServer(s)

Later(t) == IF t - Second >= -Floor THEN t - Second ELSE -Floor
Aged(z)  == [x \in DOMAIN z |-> Later(z[x])]

\* Requests of which nothing can come any more but that SyncDrops drops them:
\* here it does so within the second.
Spent(s) == {r \in requests[s] : r.place = "cancelled" /\ r.ends < Clock(s)}

\* The times count from the new second, the commands that may still come too.
NextSecond ==
  /\ now + 1 = Second
  /\ now' = 0
  /\ lease' = Aged(lease)
  /\ scheduled' = Aged(scheduled) /\ retry' = Aged(retry)
  /\ archived' = Aged(archived)   /\ completed' = Aged(completed)
  /\ worker' = [w \in Worker |-> IF worker[w].pc = "idle" THEN Idle
                                 ELSE [worker[w] EXCEPT !.ends = Later(@)]]
  /\ beat' = [s \in Server |-> IF beat[s].pc # "reset" THEN beat[s]
                               ELSE [beat[s] EXCEPT !.ends = Later(@)]]
  /\ late' = [s \in Server |->
       {[c EXCEPT !.at = @ - Second] : c \in {d \in late[s] : Clock(s) < d.at + Delay}}]
  /\ requests' = [s \in Server |->
       {[r EXCEPT !.ends = Later(@),
                  !.at = IF r.fn = "retry" THEN Later(@) ELSE @] : r \in requests[s] \ Spent(s)}]
  /\ UNCHANGED <<pending, active, task, lock, paused, watched, expired,
                 stopping, handlers, run, cancelable, stops>>

TimePasses ==
  \/ now + 1 < Second /\ Tick /\ Untouched
  \/ NextSecond

------------------------------------------------------------------------------
DeliveryInit ==
  /\ WorkersInit
  /\ run = [w \in Worker |-> "none"]
  /\ cancelable = [s \in Server |-> NoEntry]
  /\ requests = [s \in Server |-> {}]
  /\ stops = [s \in Server |-> 0]

ServerGoesOn(s) ==
  \/ HeartbeaterMoves(s) /\ Untouched
  \/ List(s) /\ Untouched
  \/ \E m \in expired[s] : Recovers(s, m)
  \/ \E m \in expired[s] : RecoverFails(s, m) /\ Untouched
  \/ ForwardsRetry(s) \/ ForwardsScheduled(s) \/ Cleans(s)
  \/ SyncerGoesOn(s)
  \/ HandlerWrites(s) /\ Untouched
  \/ StopServer(s) \/ CrashServer(s)

DeliveryNext ==
  \/ (Submit \/ SubmitLater) /\ Untouched
  \/ \E w \in Worker : (Take(w) \/ TakeLost(w)) /\ Untouched
  \/ \E w \in Worker : WorkerGoesOn(w)
  \/ \E s \in Server : ServerGoesOn(s)
  \/ TimePasses

\* The processor gets a reply now and then, beat() ends, the recoverer and the
\* forwarder go on, a stopped server is started again.  Strong fairness for
\* two choices that are made again and again: a worker that waits for the
\* heartbeater is received in the end, for select chooses at random; and the
\* recoverer's call gets through in the end, though it may be lost and its
\* process may crash first any number of times.
ServerFairness(s) ==
  /\ WF_lifeVars(\E w \in Worker : Srv(w) = s /\ Take(w) /\ Untouched)
  /\ WF_lifeVars((Extend(s) \/ ExtendFails(s) \/ ResetLeases(s)) /\ Untouched)
  /\ WF_lifeVars(\E r \in requests[s] : Receive(s, r))
  /\ WF_lifeVars(List(s) /\ Untouched)
  /\ WF_lifeVars(\E m \in expired[s] :
                   Recovers(s, m) \/ (RecoverFails(s, m) /\ Untouched))
  /\ SF_lifeVars(\E m \in expired[s] : Recovers(s, m))
  /\ WF_lifeVars(ForwardsRetry(s))
  /\ WF_lifeVars(ForwardsScheduled(s))
  /\ WF_lifeVars(Restart(s))

Fairness == /\ WF_lifeVars(TimePasses)
            /\ \A w \in Worker : SF_lifeVars(WorkerGoesOn(w))
            /\ \A s \in Server : ServerFairness(s)

DeliverySpec == DeliveryInit /\ [][DeliveryNext]_lifeVars /\ Fairness

------------------------------------------------------------------------------
(* Properties.                                                             *)

\* "Cancelations is a collection that holds cancel functions for all active
\* tasks": a function that the subscriber finds there for an ID is of a run of
\* that task whose goroutine has yet to come to its Delete, never one of a run
\* that has left or of another task's, though an ID may come back while its
\* old run has not returned.  That each run's function is found is not said:
\* the old run's Delete may have removed it.
NoLeak ==
  \A s \in Server : \A id \in DOMAIN cancelable[s] :
    LET w == cancelable[s][id]
    IN run[w] \in {"open", "returned", "cancelled"} /\ worker[w].msg.id = id

\* "syncer is responsible for queuing up failed requests to redis and retry
\* those requests", and drops the stale ones: a request on its list that is
\* not stale is a call that can still be made, and not one whose context is
\* over.
SyncerCanRetry ==
  \A s \in Server : \A r \in requests[s] :
    r.place # "channel" /\ r.ends >= Clock(s) => r.place = "list"

Waits(id) == /\ id \in DOMAIN task
             /\ task[id].state \in {"pending", "active", "scheduled", "retry"}

\* At least once: a task that was accepted is acknowledged or archived in the
\* end.  No crash, lost call or lost reply, however often it happens, leaves
\* it where nobody comes for it, and none lets it go round for ever: each lost
\* attempt counts.  Only a shutdown returns a task without counting, so their
\* number is bounded here (MaxStops).
Delivered == \A id \in TaskID : Waits(id) ~> ~Waits(id)
=============================================================================
