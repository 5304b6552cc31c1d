------------------------------ MODULE Shutdown ------------------------------
(***************************************************************************)
(* The life of one server: Start, Stop, Ping and Shutdown, called from any *)
(* goroutines at any time, the eight background goroutines they start and  *)
(* stop over unbuffered channels, and the workers between them.            *)
(*                                                                         *)
(* A goroutine at its select can receive; a send and its receive are one   *)
(* step.  What the goroutines do to the tasks is the subject of Workers.   *)
(***************************************************************************)
EXTENDS Naturals, FiniteSets, Sequences, Functions

CONSTANTS
  Caller,        \* goroutines of the program that uses the server
  Slot,          \* tokens of sema: the server's concurrency
  Waking         \* bound: the goroutines whose timers fire

ASSUME SlotAssumption == IsFiniteSet(Slot)

\* The order in Server.Start.
StartOrder == <<"heartbeater", "healthchecker", "subscriber", "syncer",
                "recoverer", "forwarder", "processor", "janitor">>

\* Mutants: the heartbeater is stopped first; nobody waits.
HeartbeaterFirst == <<"heartbeater", "forwarder", "processor", "workers",
                      "recoverer", "syncer", "subscriber", "janitor",
                      "healthchecker", "wait">>
NoWait           == <<"forwarder", "processor", "workers", "recoverer", "syncer",
                      "subscriber", "janitor", "healthchecker", "heartbeater">>

\* The order in Server.Shutdown; processor.shutdown has two steps.
ShutdownOrder == <<"forwarder", "processor", "workers", "recoverer", "syncer",
                   "subscriber", "janitor", "healthchecker", "heartbeater",
                   "wait">>

Goroutine == Range(StartOrder)

\* Those that only wait for a timer, a message or done.
Simple == Goroutine \ {"processor", "heartbeater"}

VARIABLES
  state,     \* srv.state.value
  mu,        \* is srv.state.mu held by Ping?
  caller,    \* what each caller is in the middle of
  once,      \* processor.once: nobody, somebody or everybody is done
  phase,     \* where each background goroutine is
  worker,    \* what holds each token
  abort,     \* the timer of processor.shutdown and the channel it closes
  down       \* has the Shutdown that closed the server returned?

vars == <<state, mu, caller, once, phase, worker, abort, down>>

\* Where each goroutine can be.  The processor is between two calls of exec
\* ("select"), at exec's select ("token"), in Dequeue or asleep ("busy"), or
\* sends on starting.  The heartbeater locks the state first ("lock").  After
\* done there may be something left to do ("ending").
Phase == {"none", "select", "token", "lock", "busy", "starting", "ending",
          "ended"}

\* A token is free, held by the processor, by a worker goroutine, or by
\* processor.shutdown.
WorkerPhase == {"free", "held", "handling", "writing", "requeueing", "syncing",
                "finishing", "drained"}

\* What a caller is in the middle of, and how far it has got.
Call == [op : {"none", "start", "stop", "ping", "shutdown"},
         at : 1..Len(ShutdownOrder)]
Idle == [op |-> "none", at |-> 1]

TypeOK ==
  /\ state \in {"new", "active", "stopped", "closed"}
  /\ mu \in BOOLEAN
  /\ caller \in [Caller -> Call]
  /\ once \in {"new", "running", "done"}
  /\ phase \in [Goroutine -> Phase]
  /\ worker \in [Slot -> WorkerPhase]
  /\ abort \in {"unset", "armed", "closed"}
  /\ down \in BOOLEAN

Moves(g, from, to) == phase[g] = from /\ phase' = [phase EXCEPT ![g] = to]
Steps(w, from, to) == worker[w] = from /\ worker' = [worker EXCEPT ![w] = to]
Begin(c, op)       == /\ caller[c].op = "none"
                      /\ caller' = [caller EXCEPT ![c].op = op]
End(c)             == caller' = [caller EXCEPT ![c] = Idle]
Next1(c)           == caller' = [caller EXCEPT ![c].at = @ + 1]
At(c, step)        == /\ caller[c].op = "shutdown"
                      /\ ShutdownOrder[caller[c].at] = step

------------------------------------------------------------------------------
(* The server's methods.  A call that is refused changes nothing.          *)

Start(c) ==
  /\ ~mu
  /\ state = "new"
  /\ Begin(c, "start")
  /\ state' = "active"
  /\ UNCHANGED <<mu, once, phase, worker, abort, down>>

\* The goroutines are started one by one; heartbeater and recoverer begin
\* with a run, the subscriber with a connection.
StartNext(c) ==
  LET g == StartOrder[caller[c].at]
      first == CASE g = "heartbeater" -> "lock"
                 [] g \in {"recoverer", "subscriber"} -> "busy"
                 [] OTHER -> "select"
  IN /\ caller[c].op = "start"
     /\ Moves(g, "none", first)
     /\ IF caller[c].at = Len(StartOrder) THEN End(c) ELSE Next1(c)
     /\ UNCHANGED <<state, mu, once, worker, abort, down>>

\* Ping keeps the state locked while the broker answers.
Ping(c) ==
  /\ ~mu
  /\ state # "closed"
  /\ Begin(c, "ping")
  /\ mu' = TRUE
  /\ UNCHANGED <<state, once, phase, worker, abort, down>>

PingReturns(c) ==
  /\ caller[c].op = "ping"
  /\ End(c)
  /\ mu' = FALSE
  /\ UNCHANGED <<state, once, phase, worker, abort, down>>

Stop(c) ==
  /\ ~mu
  /\ state = "active"
  /\ Begin(c, "stop")
  /\ state' = "stopped"
  /\ UNCHANGED <<mu, once, phase, worker, abort, down>>

Shutdown(c) ==
  /\ ~mu
  /\ state \in {"active", "stopped"}
  /\ Begin(c, "shutdown")
  /\ state' = "closed"
  /\ UNCHANGED <<mu, once, phase, worker, abort, down>>

\* processor.stop, from Stop or from Shutdown: the first call closes quit and
\* sends on done, the others wait until it has.
InStop(c) == caller[c].op = "stop" \/ At(c, "processor")

CloseQuit(c) ==
  /\ InStop(c)
  /\ once = "new"
  /\ once' = "running"
  /\ UNCHANGED <<state, mu, caller, phase, worker, abort, down>>

\* The send on done, whoever makes it.
SendDone ==
  /\ once = "running"
  /\ Moves("processor", "select", "ending")
  /\ once' = "done"
  /\ UNCHANGED <<state, mu, caller, worker, abort, down>>

\* Mutant: another caller does not wait for the first.
LeaveStopEarly(c) ==
  /\ InStop(c)
  /\ once # "new"
  /\ IF caller[c].op = "stop"
     THEN End(c) /\ UNCHANGED abort
     ELSE Next1(c) /\ abort' = "armed"
  /\ UNCHANGED <<state, mu, once, phase, worker, down>>

\* Mutant: the timer is not set.
LeaveStopPatiently(c) ==
  /\ InStop(c)
  /\ once = "done"
  /\ IF caller[c].op = "stop" THEN End(c) ELSE Next1(c)
  /\ UNCHANGED <<state, mu, once, phase, worker, abort, down>>

\* In Shutdown the timer that closes abort is set next.
LeaveStop(c) ==
  /\ InStop(c)
  /\ once = "done"
  /\ IF caller[c].op = "stop"
     THEN End(c) /\ UNCHANGED abort
     ELSE Next1(c) /\ abort' = "armed"
  /\ UNCHANGED <<state, mu, once, phase, worker, down>>

\* processor.shutdown takes every token for itself.
Drain(c) ==
  /\ At(c, "workers")
  /\ \E w \in Slot : Steps(w, "free", "drained")
  /\ UNCHANGED <<state, mu, caller, once, phase, abort, down>>

LeaveDrain(c) ==
  /\ At(c, "workers")
  /\ \A w \in Slot : worker[w] = "drained"
  /\ Next1(c)
  /\ UNCHANGED <<state, mu, once, phase, worker, abort, down>>

AbortFires ==
  /\ abort = "armed"
  /\ abort' = "closed"
  /\ UNCHANGED <<state, mu, caller, once, phase, worker, down>>

\* The send on the done channel of any other goroutine.
ShutDown(c, g) ==
  /\ At(c, g)
  /\ Moves(g, "select", "ending")
  /\ Next1(c)
  /\ UNCHANGED <<state, mu, once, worker, abort, down>>

\* Mutant: Shutdown does not wait.
ReturnAtOnce(c) ==
  /\ At(c, "wait")
  /\ End(c)
  /\ down' = TRUE
  /\ UNCHANGED <<state, mu, once, phase, worker, abort>>

\* wg.Wait: no goroutine is started and not ended.
WaitReturns(c) ==
  /\ At(c, "wait")
  /\ \A g \in Goroutine : phase[g] \in {"none", "ended"}
  /\ End(c)
  /\ down' = TRUE
  /\ UNCHANGED <<state, mu, once, phase, worker, abort>>

------------------------------------------------------------------------------
(* The background goroutines.                                              *)

\* A timer fires or a message comes.
Wake(g) ==
  /\ g \in Simple \cap Waking
  /\ Moves(g, "select", "busy")
  /\ UNCHANGED <<state, mu, caller, once, worker, abort, down>>

\* beat() reads the state first.
Beat ==
  /\ Moves("heartbeater", "select", "lock")
  /\ UNCHANGED <<state, mu, caller, once, worker, abort, down>>

ReadState ==
  /\ ~mu
  /\ Moves("heartbeater", "lock", "busy")
  /\ UNCHANGED <<state, mu, caller, once, worker, abort, down>>

\* The calls to the broker are over.
Rest(g) ==
  /\ g # "processor"
  /\ Moves(g, "busy", "select")
  /\ UNCHANGED <<state, mu, caller, once, worker, abort, down>>

\* The syncer tries its requests once more, the heartbeater clears its records.
EndOf(g) ==
  /\ Moves(g, "ending", "ended")
  /\ UNCHANGED <<state, mu, caller, once, worker, abort, down>>

\* No sender is there: default.
Poll ==
  /\ Moves("processor", "select", "token")
  /\ UNCHANGED <<state, mu, caller, once, worker, abort, down>>

\* exec's select: quit is closed, or there is a token.
Quit ==
  /\ once # "new"
  /\ Moves("processor", "token", "select")
  /\ UNCHANGED <<state, mu, caller, once, worker, abort, down>>

TakeToken ==
  /\ Moves("processor", "token", "busy")
  /\ \E w \in Slot : Steps(w, "free", "held")
  /\ UNCHANGED <<state, mu, caller, once, abort, down>>

\* No task, or the broker cannot be reached.
ReleaseToken ==
  /\ Moves("processor", "busy", "select")
  /\ \E w \in Slot : Steps(w, "held", "free")
  /\ UNCHANGED <<state, mu, caller, once, abort, down>>

Dequeue ==
  /\ Moves("processor", "busy", "starting")
  /\ UNCHANGED <<state, mu, caller, once, worker, abort, down>>

\* The heartbeater receives from starting; the worker goroutine starts.  The
\* handler is not called if the task's context is over already.
Register(w) ==
  /\ phase["heartbeater"] = "select"
  /\ Moves("processor", "starting", "select")
  /\ \E first \in {"handling", "writing"} : Steps(w, "held", first)
  /\ UNCHANGED <<state, mu, caller, once, abort, down>>

------------------------------------------------------------------------------
(* The workers.                                                            *)

\* The handler returns, or its context or lease is over: then the worker leaves
\* the handler's goroutine to itself, which holds no token and sends nothing.
LeaveHandler(w) ==
  /\ Steps(w, "handling", "writing")
  /\ UNCHANGED <<state, mu, caller, once, phase, abort, down>>

\* The worker does not wait for the handler.
Abort(w) ==
  /\ abort = "closed"
  /\ Steps(w, "handling", "requeueing")
  /\ UNCHANGED <<state, mu, caller, once, phase, abort, down>>

\* The program's ErrorHandler, IsFailure and RetryDelayFunc, called before the
\* write, return; the broker answers.  A failed request goes to the syncer, but
\* requeue's is dropped.
Written(w) ==
  /\ \/ \E next \in {"finishing", "syncing"} : Steps(w, "writing", next)
     \/ Steps(w, "requeueing", "finishing")
  /\ UNCHANGED <<state, mu, caller, once, phase, abort, down>>

SyncRequest(w) ==
  /\ phase["syncer"] = "select"
  /\ Steps(w, "syncing", "finishing")
  /\ UNCHANGED <<state, mu, caller, once, phase, abort, down>>

\* The heartbeater receives from finished; the token is given back.
Finish(w) ==
  /\ phase["heartbeater"] = "select"
  /\ Steps(w, "finishing", "free")
  /\ UNCHANGED <<state, mu, caller, once, phase, abort, down>>

\* After Shutdown the program may go on without the server.
Exited == down /\ UNCHANGED vars

------------------------------------------------------------------------------
Init ==
  /\ state = "new"
  /\ mu = FALSE
  /\ caller = [c \in Caller |-> Idle]
  /\ once = "new"
  /\ phase = [g \in Goroutine |-> "none"]
  /\ worker = [w \in Slot |-> "free"]
  /\ abort = "unset"
  /\ down = FALSE

CallerMoves(c) ==
  \/ Start(c) \/ StartNext(c) \/ Ping(c) \/ PingReturns(c)
  \/ Stop(c) \/ Shutdown(c)
  \/ CloseQuit(c) \/ LeaveStop(c) \/ Drain(c) \/ LeaveDrain(c)
  \/ \E g \in Goroutine \ {"processor"} : ShutDown(c, g)
  \/ WaitReturns(c)

ProcessorMoves ==
  \/ Poll \/ Quit \/ TakeToken \/ ReleaseToken \/ Dequeue
  \/ \E w \in Slot : Register(w)

WorkerMoves(w) ==
  \/ LeaveHandler(w) \/ Abort(w) \/ Written(w)
  \/ SyncRequest(w) \/ Finish(w)

Next ==
  \/ \E c \in Caller : CallerMoves(c)
  \/ \E g \in Goroutine : Wake(g) \/ Rest(g) \/ EndOf(g)
  \/ Beat \/ ReadState \/ SendDone \/ ProcessorMoves
  \/ \E w \in Slot : WorkerMoves(w)
  \/ AbortFires \/ Exited

\* What a caller in the middle of a method does next, other than a send.  All
\* of these are taken a few times at most.
GoesOn(c) == StartNext(c) \/ CloseQuit(c) \/ LeaveStop(c) \/ Drain(c)
               \/ LeaveDrain(c) \/ WaitReturns(c)

Send(c) == \E g \in Goroutine \ {"processor"} : ShutDown(c, g)

\* The broker answers, timers fire, and whoever can go on does.  Where a select
\* has several ready cases Go chooses at random, and a mutex lets those that
\* wait have their turn: a case that is ready again and again is chosen.
\* Handlers need not return, tasks need not come, and nobody has to call.
Fairness ==
  /\ WF_vars(\E c \in Caller : GoesOn(c))
  /\ WF_vars(\E c \in Caller : PingReturns(c))
  /\ WF_vars(AbortFires)
  /\ SF_vars(SendDone)
  /\ SF_vars(\E c \in Caller : Send(c))
  /\ \A g \in Goroutine : WF_vars(Rest(g) \/ EndOf(g))
  /\ SF_vars(ReadState)
  /\ WF_vars(Poll \/ Quit \/ TakeToken \/ ReleaseToken \/ Dequeue)
  /\ \A w \in Slot :
       /\ WF_vars(Abort(w) \/ Written(w))
       /\ SF_vars(Register(w)) /\ SF_vars(SyncRequest(w)) /\ SF_vars(Finish(w))

Spec     == Init /\ [][Next]_vars
FairSpec == Spec /\ Fairness

------------------------------------------------------------------------------
(* Properties.                                                             *)

\* When Shutdown returns, and the broker's connection is closed, every
\* goroutine that Start starts has been started and has ended, and every worker
\* is gone: also if Shutdown was called while Start or Stop was under way.
QuietWhenDown ==
  down => /\ \A g \in Goroutine : phase[g] = "ended"
          /\ \A w \in Slot : worker[w] = "drained"

Serving(g) == phase[g] \in {"select", "lock", "busy"}

\* Whoever sends to the heartbeater or the syncer, or will, finds it there to
\* receive.
ReceiversLive ==
  /\ phase["processor"] = "starting" => Serving("heartbeater")
  /\ \A w \in Slot :
       /\ worker[w] \in {"handling", "writing", "requeueing", "syncing",
                         "finishing"} => Serving("heartbeater")
       /\ worker[w] = "syncing" => Serving("syncer")

\* After processor.stop has returned, from Stop or in Shutdown, no worker is
\* started, whatever the processor was doing.
NoneStartedAfterStop ==
  [][\A c \in Caller : ~InStop(c)' /\ InStop(c) =>
       phase'["processor"] \in {"ending", "ended"} /\ \A w \in Slot : worker'[w] # "held"]_vars

\* Stop and Shutdown end, whenever they are called and even if the handlers
\* never do: nobody waits for a goroutine that has ended or waits itself.
CallsEnd ==
  LET Busy == \E c \in Caller : caller[c].op \in {"stop", "shutdown"}
  IN Busy ~> ~Busy
==============================================================================
