--------------------------- MODULE ShutdownProofs ---------------------------
(***************************************************************************)
(* The shutdown of a server for any number of callers and workers.         *)
(***************************************************************************)
EXTENDS Shutdown, TLAPS

------------------------------------------------------------------------------
(* The inductive invariant.                                                *)

\* Has g been told to end?
Told(g) == phase[g] \in {"ending", "ended"}

\* No task is taken or run any more, and none will be.
Drained == Told("processor") /\ \A w \in Slot : worker[w] = "drained"

\* At most one call of Start and one of Shutdown get through the state.
Alone ==
  /\ \A c \in Caller :
       /\ caller[c].op = "start" => state # "new" /\ caller[c].at \in 1..8
       /\ caller[c].op = "shutdown" => state = "closed" /\ ~down
       /\ caller[c].op \notin {"start", "shutdown"} => caller[c].at = 1
  /\ \A c, d \in Caller :
       caller[c].op = caller[d].op /\ caller[c].op \in {"start", "shutdown"} => c = d
  /\ down => state = "closed"

\* The order of the start: whom a goroutine sends to is there before it.
Founded ==
  /\ \A c \in Caller : caller[c].op = "start" =>
       \A i \in 1..8 : i < caller[c].at => phase[StartOrder[i]] # "none"
  /\ phase["processor"] # "none" =>
       phase["heartbeater"] # "none" /\ phase["syncer"] # "none"
  /\ \A w \in Slot : worker[w] \notin {"free", "drained"} => phase["processor"] # "none"

\* The processor holds one token, from exec's select until it starts a worker.
Holding ==
  /\ \A w \in Slot : worker[w] = "held" => phase["processor"] \in {"busy", "starting"}
  /\ \A v, w \in Slot : worker[v] = "held" /\ worker[w] = "held" => v = w
  /\ \A g \in Goroutine \ {"processor"} : phase[g] \notin {"token", "starting"}

\* The order of the shutdown: who is before the caller has been told.
Ordered ==
  /\ \A c \in Caller : caller[c].op = "shutdown" =>
       \A i \in 1..10 : i < caller[c].at =>
         IF ShutdownOrder[i] = "workers" THEN Drained ELSE Told(ShutdownOrder[i])
  /\ once = "done" <=> Told("processor")
  /\ Told("syncer") \/ Told("heartbeater") =>
       down \/ \E c \in Caller : caller[c].op = "shutdown" /\ caller[c].at > 3
  /\ down => Drained /\ \A g \in Goroutine : phase[g] = "ended"

Inv == /\ TypeOK
       /\ Alone
       /\ Founded
       /\ Holding
       /\ Ordered

------------------------------------------------------------------------------
(* The two orders, and the types.                                          *)

\* The orders, step by step.
LEMMA OrdersAre ==
  /\ Len(StartOrder) = 8 /\ Len(ShutdownOrder) = 10
  /\ StartOrder[1] = "heartbeater" /\ StartOrder[2] = "healthchecker"
  /\ StartOrder[3] = "subscriber" /\ StartOrder[4] = "syncer"
  /\ StartOrder[5] = "recoverer" /\ StartOrder[6] = "forwarder"
  /\ StartOrder[7] = "processor" /\ StartOrder[8] = "janitor"
  /\ ShutdownOrder[1] = "forwarder" /\ ShutdownOrder[2] = "processor"
  /\ ShutdownOrder[3] = "workers" /\ ShutdownOrder[4] = "recoverer"
  /\ ShutdownOrder[5] = "syncer" /\ ShutdownOrder[6] = "subscriber"
  /\ ShutdownOrder[7] = "janitor" /\ ShutdownOrder[8] = "healthchecker"
  /\ ShutdownOrder[9] = "heartbeater" /\ ShutdownOrder[10] = "wait"
BY DEF StartOrder, ShutdownOrder

\* The goroutines are the eight that are started.
LEMMA GoroutineIs ==
  Goroutine = {"heartbeater", "healthchecker", "subscriber", "syncer",
               "recoverer", "forwarder", "processor", "janitor"}
<1>1. DOMAIN StartOrder = 1..8
  BY DEF StartOrder
<1>2. Goroutine = {StartOrder[i] : i \in 1..8}
  BY <1>1 DEF Goroutine, Range
<1>3. 1..8 = {1, 2, 3, 4, 5, 6, 7, 8}
  OBVIOUS
<1>4. QED
  BY <1>2, <1>3, OrdersAre

\* What begins, goes on and ends in a caller, and nothing in the others.
LEMMA BeginIs ==
  ASSUME TypeOK, NEW c \in Caller,
         NEW op \in {"start", "stop", "ping", "shutdown"}, Begin(c, op)
  PROVE  /\ caller' \in [Caller -> Call]
         /\ caller[c].op = "none" /\ caller'[c].op = op
         /\ caller'[c].at = caller[c].at
         /\ \A d \in Caller : d # c => caller'[d] = caller[d]
BY OrdersAre DEF TypeOK, Begin, Call

\* What ends.
LEMMA EndIs ==
  ASSUME TypeOK, NEW c \in Caller, End(c)
  PROVE  /\ caller' \in [Caller -> Call]
         /\ caller'[c].op = "none"
         /\ \A d \in Caller : d # c => caller'[d] = caller[d]
BY OrdersAre DEF TypeOK, End, Idle, Call

\* What goes on by one step.
LEMMA Next1Is ==
  ASSUME TypeOK, NEW c \in Caller, Next1(c), caller[c].at < 10
  PROVE  /\ caller' \in [Caller -> Call]
         /\ caller'[c].op = caller[c].op
         /\ caller'[c].at = caller[c].at + 1
         /\ \A d \in Caller : d # c => caller'[d] = caller[d]
<1> DEFINE r == [caller[c] EXCEPT !.at = @ + 1]
<1>1. caller[c] \in Call /\ caller[c].at + 1 \in 1..10
  BY OrdersAre DEF TypeOK, Call
<1>2. r \in Call /\ r.op = caller[c].op /\ r.at = caller[c].at + 1
  BY <1>1, OrdersAre DEF Call
<1>3. caller' = [caller EXCEPT ![c] = r]
  BY DEF Next1
<1> HIDE DEF r
<1>4. QED
  BY <1>2, <1>3 DEF TypeOK

\* At a step of the shutdown other than the last there is a next one.
LEMMA AtIs ==
  ASSUME TypeOK, NEW c \in Caller
  PROVE  /\ caller[c].at \in 1..10
         /\ At(c, "processor") <=> caller[c].op = "shutdown" /\ caller[c].at = 2
         /\ At(c, "workers") <=> caller[c].op = "shutdown" /\ caller[c].at = 3
         /\ At(c, "wait") <=> caller[c].op = "shutdown" /\ caller[c].at = 10
<1>1. caller[c].at \in {1, 2, 3, 4, 5, 6, 7, 8, 9, 10}
  BY OrdersAre DEF TypeOK, Call
<1>2. QED
  BY <1>1, OrdersAre DEF At

------------------------------------------------------------------------------
(* What a step can do to a caller, a goroutine and a worker.               *)

\* A method begins, ends, or goes on by one.
LEMMA CallerCases ==
  ASSUME TypeOK, Alone, [Next]_vars, NEW c \in Caller
  PROVE  \/ caller'[c] = caller[c]
         \/ /\ caller[c].op = "none" /\ caller[c].at = 1 /\ caller'[c].at = 1
            /\ \/ caller'[c].op = "start" /\ Start(c)
               \/ caller'[c].op = "shutdown" /\ Shutdown(c)
               \/ caller'[c].op \in {"stop", "ping"}
         \/ /\ caller'[c].op = "none" /\ caller'[c].at = 1
            /\ \/ caller[c].op = "ping"
               \/ caller[c].op = "stop" /\ LeaveStop(c)
               \/ caller[c].op = "start" /\ StartNext(c)
               \/ caller[c].op = "shutdown" /\ WaitReturns(c)
         \/ /\ caller'[c].op = caller[c].op /\ caller'[c].at = caller[c].at + 1
            /\ \/ caller[c].op = "start" /\ StartNext(c) /\ caller[c].at < 8
               \/ /\ caller[c].op = "shutdown" /\ caller[c].at < 10
                  /\ \/ LeaveStop(c) /\ caller[c].at = 2
                     \/ LeaveDrain(c) /\ caller[c].at = 3
                     \/ \E g \in Goroutine \ {"processor"} : ShutDown(c, g)
<1>1. ASSUME NEW d \in Caller, CallerMoves(d), d # c PROVE caller'[c] = caller[c]
  <2>1. \/ \E op \in {"start", "stop", "ping", "shutdown"} : Begin(d, op)
        \/ End(d) \/ Next1(d) \/ caller' = caller
    BY <1>1 DEF CallerMoves, Start, StartNext, Ping, PingReturns, Stop, Shutdown,
                CloseQuit, LeaveStop, Drain, LeaveDrain, ShutDown, WaitReturns
  <2>2. QED
    BY <1>1, <2>1 DEF TypeOK, Begin, End, Next1
<1>2. CASE caller' = caller
  BY <1>2
<1>3. ASSUME NEW op \in {"start", "stop", "ping", "shutdown"}, Begin(c, op)
      PROVE  /\ caller[c].op = "none" /\ caller[c].at = 1
             /\ caller'[c].op = op /\ caller'[c].at = 1
  BY <1>3, BeginIs DEF Alone
<1>4. CASE Start(c) \/ Ping(c) \/ Stop(c) \/ Shutdown(c)
  BY <1>3, <1>4 DEF Start, Ping, Stop, Shutdown
<1>5. ASSUME End(c) PROVE caller'[c].op = "none" /\ caller'[c].at = 1
  BY <1>5 DEF TypeOK, End, Idle
<1>6. CASE StartNext(c)
  BY <1>5, <1>6, Next1Is, OrdersAre DEF StartNext, Alone
<1>7. CASE PingReturns(c)
  BY <1>5, <1>7 DEF PingReturns
<1>8. CASE LeaveStop(c)
  BY <1>5, <1>8, Next1Is, AtIs DEF LeaveStop, InStop
<1>9. CASE LeaveDrain(c)
  BY <1>9, Next1Is, AtIs DEF LeaveDrain
<1>10. ASSUME NEW g \in Goroutine \ {"processor"}, ShutDown(c, g)
       PROVE  /\ caller'[c].op = caller[c].op /\ caller'[c].at = caller[c].at + 1
              /\ caller[c].op = "shutdown" /\ caller[c].at < 10
  <2>1. caller[c].op = "shutdown" /\ caller[c].at # 10
    BY <1>10, AtIs, OrdersAre, GoroutineIs DEF ShutDown, At
  <2>2. caller[c].at < 10
    BY <2>1, AtIs
  <2>3. QED
    BY <1>10, <2>1, <2>2, Next1Is DEF ShutDown
<1>11. CASE WaitReturns(c)
  BY <1>5, <1>11 DEF WaitReturns, At
<1>12. CASE CloseQuit(c) \/ Drain(c)
  BY <1>2, <1>12 DEF CloseQuit, Drain
<1>13. CASE \/ \E g \in Goroutine : Wake(g) \/ Rest(g) \/ EndOf(g)
            \/ Beat \/ ReadState \/ SendDone \/ ProcessorMoves
            \/ \E w \in Slot : WorkerMoves(w)
            \/ AbortFires \/ Exited \/ UNCHANGED vars
  BY <1>2, <1>13
     DEF Wake, Rest, EndOf, Beat, ReadState, SendDone, ProcessorMoves, Poll, Quit,
         TakeToken, ReleaseToken, Dequeue, Register, WorkerMoves, LeaveHandler, Abort, Written, SyncRequest, Finish, AbortFires,
         Exited, vars
<1>14. QED
  BY <1>1, <1>4, <1>6, <1>7, <1>8, <1>9, <1>10, <1>11, <1>12, <1>13
     DEF Next, CallerMoves

\* A goroutine is started, told to end, ends, or goes about its work.
LEMMA PhaseCases ==
  ASSUME TypeOK, [Next]_vars, NEW g \in Goroutine
  PROVE  \/ phase'[g] = phase[g]
         \/ /\ phase[g] = "none" /\ phase'[g] \in {"lock", "busy", "select"}
            /\ \E c \in Caller : StartNext(c) /\ g = StartOrder[caller[c].at]
         \/ /\ phase[g] = "select" /\ phase'[g] = "ending"
            /\ \/ g = "processor" /\ SendDone
               \/ g # "processor" /\ \E c \in Caller : ShutDown(c, g)
         \/ phase[g] = "ending" /\ phase'[g] = "ended"
         \/ /\ phase[g] \notin {"none", "ending", "ended"}
            /\ \/ phase'[g] \in {"select", "lock", "busy"}
               \/ g = "processor" /\ phase'[g] \in {"token", "starting"}
<1>1. ASSUME NEW h \in Goroutine, NEW from, NEW to, Moves(h, from, to)
      PROVE  IF h = g THEN phase[g] = from /\ phase'[g] = to
                      ELSE phase'[g] = phase[g]
  BY <1>1 DEF TypeOK, Moves
<1>2. CASE phase' = phase
  BY <1>2
<1>3. ASSUME NEW c \in Caller, StartNext(c)
      PROVE  \/ phase'[g] = phase[g]
             \/ /\ phase[g] = "none" /\ phase'[g] \in {"lock", "busy", "select"}
                /\ g = StartOrder[caller[c].at]
  <2> DEFINE h == StartOrder[caller[c].at]
  <2>1. PICK to \in {"lock", "busy", "select"} : Moves(h, "none", to)
    BY <1>3 DEF StartNext
  <2> HIDE DEF h
  <2>2. phase' = [phase EXCEPT ![h] = to] /\ phase[h] = "none" /\ DOMAIN phase = Goroutine
    BY <2>1 DEF Moves, TypeOK
  <2>3. QED
    BY <2>2 DEF h
<1>4. ASSUME NEW c \in Caller, NEW h \in Goroutine \ {"processor"}, ShutDown(c, h)
      PROVE  \/ phase'[g] = phase[g]
             \/ phase[g] = "select" /\ phase'[g] = "ending" /\ g = h
  BY <1>1, <1>4 DEF ShutDown
<1>5. ASSUME NEW c \in Caller, CallerMoves(c)
      PROVE  \/ phase' = phase \/ StartNext(c)
             \/ \E h \in Goroutine \ {"processor"} : ShutDown(c, h)
  BY <1>5 DEF CallerMoves, Start, Ping, PingReturns, Stop, Shutdown, CloseQuit,
              LeaveStop, Drain, LeaveDrain, WaitReturns
<1>6. ASSUME NEW h \in Goroutine, Wake(h) \/ Rest(h)
      PROVE  \/ phase'[g] = phase[g]
             \/ /\ phase[g] \notin {"none", "ending", "ended"}
                /\ phase'[g] \in {"select", "busy"}
  BY <1>1, <1>6 DEF Wake, Rest
<1>7. ASSUME NEW h \in Goroutine, EndOf(h)
      PROVE  phase'[g] = phase[g] \/ (phase[g] = "ending" /\ phase'[g] = "ended")
  BY <1>1, <1>7 DEF EndOf
<1>8. "heartbeater" \in Goroutine /\ "processor" \in Goroutine
  BY GoroutineIs
<1>9. CASE SendDone
  BY <1>1, <1>8, <1>9 DEF SendDone
<1>10. CASE Beat \/ ReadState \/ ProcessorMoves
  <2>1. \E from \in {"select", "token", "lock", "busy", "starting"} :
          \/ \E to \in {"lock", "busy"} : Moves("heartbeater", from, to)
          \/ \E to \in {"select", "token", "busy", "starting"} :
               Moves("processor", from, to)
    BY <1>10 DEF Beat, ReadState, ProcessorMoves, Poll, Quit, TakeToken,
                 ReleaseToken, Dequeue, Register
  <2>2. QED
    BY <1>1, <1>8, <2>1
<1>11. CASE \/ \E w \in Slot : WorkerMoves(w)
            \/ AbortFires \/ Exited \/ UNCHANGED vars
  BY <1>2, <1>11
     DEF WorkerMoves, LeaveHandler, Abort, Written, SyncRequest,
         Finish, AbortFires, Exited, vars
<1>12. QED
  BY <1>2, <1>3, <1>4, <1>5, <1>6, <1>7, <1>9, <1>10, <1>11 DEF Next

\* What becomes of a token.
LEMMA WorkerCases ==
  ASSUME TypeOK, [Next]_vars, NEW w \in Slot
  PROVE  \/ worker'[w] = worker[w]
         \/ worker[w] = "free" /\ worker'[w] = "held" /\ TakeToken
         \/ /\ worker[w] = "free" /\ worker'[w] = "drained"
            /\ \E c \in Caller : Drain(c)
         \/ worker[w] = "held" /\ worker'[w] = "free" /\ ReleaseToken
         \/ /\ worker[w] = "held" /\ worker'[w] \in {"handling", "writing"}
            /\ Register(w)
         \/ /\ worker[w] \notin {"free", "held", "drained"}
            /\ worker'[w] \in {"free", "writing", "requeueing", "syncing", "finishing"}
<1>1. ASSUME NEW v \in Slot, NEW from, NEW to, Steps(v, from, to)
      PROVE  IF v = w THEN worker[w] = from /\ worker'[w] = to
                      ELSE worker'[w] = worker[w]
  BY <1>1 DEF TypeOK, Steps
<1>2. CASE worker' = worker
  BY <1>2
<1>3. CASE TakeToken \/ ReleaseToken \/ \E c \in Caller : Drain(c)
  BY <1>1, <1>3 DEF TakeToken, ReleaseToken, Drain
<1>4. ASSUME NEW v \in Slot, Register(v)
      PROVE  \/ worker'[w] = worker[w]
             \/ /\ worker[w] = "held" /\ worker'[w] \in {"handling", "writing"}
                /\ v = w
  BY <1>1, <1>4 DEF Register
<1>5. ASSUME NEW v \in Slot, WorkerMoves(v)
      PROVE  \/ worker'[w] = worker[w]
             \/ /\ worker[w] \notin {"free", "held", "drained"}
                /\ worker'[w] \in {"free", "writing", "requeueing", "syncing",
                                  "finishing"}
  BY <1>1, <1>5 DEF WorkerMoves, LeaveHandler, Abort, Written,
                    SyncRequest, Finish
<1>6. ASSUME NEW c \in Caller, CallerMoves(c), ~Drain(c) PROVE worker' = worker
  BY <1>6 DEF CallerMoves, Start, StartNext, Ping, PingReturns, Stop, Shutdown,
              CloseQuit, LeaveStop, LeaveDrain, ShutDown, WaitReturns
<1>7. CASE \/ \E g \in Goroutine : Wake(g) \/ Rest(g) \/ EndOf(g)
           \/ Beat \/ ReadState \/ SendDone \/ Poll \/ Quit \/ Dequeue
           \/ AbortFires \/ Exited \/ UNCHANGED vars
  BY <1>2, <1>7 DEF Wake, Rest, EndOf, Beat, ReadState, SendDone, Poll, Quit,
                    Dequeue, AbortFires, Exited, vars
<1>8. QED
  BY <1>2, <1>3, <1>4, <1>5, <1>6, <1>7 DEF Next, ProcessorMoves

\* The state and once go on; down is set with the end of a Shutdown.
LEMMA StateCases ==
  ASSUME [Next]_vars
  PROVE  /\ \/ state' = state
            \/ state = "new" /\ state' = "active"
            \/ state = "active" /\ state' = "stopped"
            \/ state \in {"active", "stopped"} /\ state' = "closed"
         /\ \/ once' = once
            \/ once = "new" /\ once' = "running"
            \/ once = "running" /\ once' = "done" /\ SendDone
         /\ \/ down' = down
            \/ down' = TRUE /\ \E c \in Caller : WaitReturns(c)
<1>1. ASSUME NEW c \in Caller, CallerMoves(c)
      PROVE  /\ \/ state' = state
                \/ state = "new" /\ state' = "active"
                \/ state = "active" /\ state' = "stopped"
                \/ state \in {"active", "stopped"} /\ state' = "closed"
             /\ once' = once \/ (once = "new" /\ once' = "running")
             /\ down' = down \/ (down' = TRUE /\ WaitReturns(c))
  BY <1>1 DEF CallerMoves, Start, StartNext, Ping, PingReturns, Stop, Shutdown,
              CloseQuit, LeaveStop, Drain, LeaveDrain, ShutDown, WaitReturns
<1>2. CASE SendDone
  BY <1>2 DEF SendDone
<1>3. CASE \/ \E g \in Goroutine : Wake(g) \/ Rest(g) \/ EndOf(g)
           \/ Beat \/ ReadState \/ ProcessorMoves
           \/ \E w \in Slot : WorkerMoves(w)
           \/ AbortFires \/ Exited \/ UNCHANGED vars
  BY <1>3
     DEF Wake, Rest, EndOf, Beat, ReadState, ProcessorMoves, Poll, Quit,
         TakeToken, ReleaseToken, Dequeue, Register, WorkerMoves, LeaveHandler, Abort, Written, SyncRequest, Finish, AbortFires,
         Exited, vars
<1>4. QED
  BY <1>1, <1>2, <1>3 DEF Next

\* What can happen to the processor while it holds a token.
LEMMA ProcessorCases ==
  ASSUME TypeOK, [Next]_vars
  PROVE  LET p == "processor"
         IN  \/ phase'[p] = phase[p]
             \/ phase[p] \notin {"busy", "starting"} /\ ~ReleaseToken
             \/ phase[p] = "busy" /\ phase'[p] = "starting"
             \/ phase[p] = "busy" /\ ReleaseToken
             \/ phase[p] = "starting" /\ \E w \in Slot : Register(w)
<1>1. ASSUME NEW h \in Goroutine, h # "processor", NEW from, NEW to, Moves(h, from, to)
      PROVE  phase'["processor"] = phase["processor"]
  BY <1>1, GoroutineIs DEF TypeOK, Moves
<1>2. CASE phase' = phase
  BY <1>2
<1>3. CASE Poll \/ Quit \/ TakeToken \/ ReleaseToken \/ Dequeue \/ SendDone
           \/ \E w \in Slot : Register(w)
  <2>1. ReleaseToken => phase["processor"] = "busy"
    BY DEF ReleaseToken, Moves
  <2>2. Poll \/ Quit \/ TakeToken \/ SendDone =>
          phase["processor"] \notin {"busy", "starting"}
    BY DEF Poll, Quit, TakeToken, SendDone, Moves
  <2>3. Dequeue => phase["processor"] = "busy" /\ phase'["processor"] = "starting"
    BY GoroutineIs DEF Dequeue, Moves, TypeOK
  <2>4. ASSUME NEW w \in Slot, Register(w) PROVE phase["processor"] = "starting"
    BY <2>4 DEF Register, Moves
  <2>5. QED
    BY <1>3, <2>1, <2>2, <2>3, <2>4
<1>4. QED
  <2>1. ASSUME NEW c \in Caller, CallerMoves(c), ~StartNext(c)
        PROVE  phase'["processor"] = phase["processor"]
    BY <1>1, <2>1 DEF CallerMoves, Start, Ping, PingReturns, Stop, Shutdown, CloseQuit,
                      LeaveStop, Drain, LeaveDrain, WaitReturns, ShutDown
  <2>2. ASSUME NEW c \in Caller, StartNext(c)
        PROVE  \/ phase'["processor"] = phase["processor"]
               \/ phase["processor"] = "none" /\ ~ReleaseToken
    <3> DEFINE h == StartOrder[caller[c].at]
    <3>1. PICK to : Moves(h, "none", to)
      BY <2>2 DEF StartNext
    <3> HIDE DEF h
    <3>2. QED
      BY <3>1 DEF Moves, TypeOK, ReleaseToken
  <2>3. ASSUME NEW g \in Goroutine, Wake(g) \/ Rest(g)
        PROVE  phase'["processor"] = phase["processor"]
    BY <1>1, <2>3 DEF Wake, Rest, Simple
  <2>4. ASSUME NEW g \in Goroutine, EndOf(g)
        PROVE  \/ phase'["processor"] = phase["processor"]
               \/ phase["processor"] = "ending" /\ ~ReleaseToken
    BY <1>1, <2>4 DEF EndOf, Moves, ReleaseToken
  <2>5. CASE Beat \/ ReadState
    BY <1>1, <2>5, GoroutineIs DEF Beat, ReadState
  <2>6. CASE \/ \E w \in Slot : WorkerMoves(w)
             \/ AbortFires \/ Exited \/ UNCHANGED vars
    BY <1>2, <2>6
       DEF WorkerMoves, LeaveHandler, Abort, Written, SyncRequest,
           Finish, AbortFires, Exited, vars
  <2>7. QED
    BY <1>2, <1>3, <2>1, <2>2, <2>3, <2>4, <2>5, <2>6 DEF Next, ProcessorMoves
------------------------------------------------------------------------------
(* Every part of the invariant is kept.                                    *)

\* No step makes a function of anything else.
LEMMA FunctionsStay ==
  ASSUME TypeOK, [Next]_vars
  PROVE  /\ phase' \in [Goroutine -> Phase]
         /\ worker' \in [Slot -> WorkerPhase]
<1>1. \/ phase' = phase
      \/ \E g, to : phase' = [phase EXCEPT ![g] = to]
  <2>1. ASSUME NEW c \in Caller, CallerMoves(c)
        PROVE  phase' = phase \/ \E g, to : phase' = [phase EXCEPT ![g] = to]
    BY <2>1 DEF CallerMoves, Start, StartNext, Ping, PingReturns, Stop, Shutdown,
                CloseQuit, LeaveStop, Drain, LeaveDrain, ShutDown, WaitReturns, Moves
  <2>2. CASE \/ \E g \in Goroutine : Wake(g) \/ Rest(g) \/ EndOf(g)
             \/ Beat \/ ReadState \/ SendDone \/ ProcessorMoves
    BY <2>2 DEF Wake, Rest, EndOf, Beat, ReadState, SendDone, ProcessorMoves, Poll,
                Quit, TakeToken, ReleaseToken, Dequeue, Register, Moves
  <2>3. CASE \/ \E w \in Slot : WorkerMoves(w)
             \/ AbortFires \/ Exited \/ UNCHANGED vars
    BY <2>3 DEF WorkerMoves, LeaveHandler, Abort, Written,
                SyncRequest, Finish, AbortFires, Exited, vars
  <2>4. QED
    BY <2>1, <2>2, <2>3 DEF Next
<1>2. \/ worker' = worker
      \/ \E w, to : worker' = [worker EXCEPT ![w] = to]
  <2>1. ASSUME NEW c \in Caller, CallerMoves(c)
        PROVE  worker' = worker \/ \E w, to : worker' = [worker EXCEPT ![w] = to]
    BY <2>1 DEF CallerMoves, Start, StartNext, Ping, PingReturns, Stop, Shutdown,
                CloseQuit, LeaveStop, Drain, LeaveDrain, ShutDown, WaitReturns, Steps
  <2>2. CASE \/ \E g \in Goroutine : Wake(g) \/ Rest(g) \/ EndOf(g)
             \/ Beat \/ ReadState \/ SendDone \/ ProcessorMoves
    BY <2>2 DEF Wake, Rest, EndOf, Beat, ReadState, SendDone, ProcessorMoves, Poll,
                Quit, TakeToken, ReleaseToken, Dequeue, Register, Steps
  <2>3. CASE \/ \E w \in Slot : WorkerMoves(w)
             \/ AbortFires \/ Exited \/ UNCHANGED vars
    BY <2>3 DEF WorkerMoves, LeaveHandler, Abort, Written,
                SyncRequest, Finish, AbortFires, Exited, vars, Steps
  <2>4. QED
    BY <2>1, <2>2, <2>3 DEF Next
<1>3. \A g \in Goroutine : phase'[g] \in Phase
  <2>1. \A g \in Goroutine : phase[g] \in Phase
    BY DEF TypeOK
  <2>2. QED
    BY <2>1, PhaseCases DEF Phase
<1>4. \A w \in Slot : worker'[w] \in WorkerPhase
  <2>1. \A w \in Slot : worker[w] \in WorkerPhase
    BY DEF TypeOK
  <2>2. QED
    BY <2>1, WorkerCases DEF WorkerPhase
<1>5. QED
  BY <1>1, <1>2, <1>3, <1>4 DEF TypeOK

\* The types are kept: no caller goes beyond the last step of its method.
LEMMA TypeStep == TypeOK /\ Alone /\ [Next]_vars => TypeOK'
<1> SUFFICES ASSUME TypeOK, Alone, [Next]_vars PROVE TypeOK'
  OBVIOUS
<1>1. /\ state' \in {"new", "active", "stopped", "closed"}
      /\ once' \in {"new", "running", "done"} /\ down' \in BOOLEAN
  BY StateCases DEF TypeOK
<1>2. caller' \in [Caller -> Call]
  <2>1. ASSUME NEW c \in Caller, CallerMoves(c) PROVE caller' \in [Caller -> Call]
    <3>1. CASE caller' = caller
      BY <3>1 DEF TypeOK
    <3>2. CASE End(c) \/ \E op \in {"start", "stop", "ping", "shutdown"} : Begin(c, op)
      BY <3>2, BeginIs, EndIs
    <3>3. CASE Next1(c) /\ caller[c].at < 10
      BY <3>3, Next1Is
    <3>4. CASE StartNext(c)
      BY <3>2, <3>3, <3>4, OrdersAre DEF StartNext, Alone
    <3>5. CASE LeaveStop(c) \/ LeaveDrain(c)
      BY <3>2, <3>3, <3>5, AtIs DEF LeaveStop, LeaveDrain, InStop
    <3>6. ASSUME NEW g \in Goroutine \ {"processor"}, ShutDown(c, g)
          PROVE  Next1(c) /\ caller[c].at < 10
      <4>1. caller[c].at # 10
        BY <3>6, OrdersAre, GoroutineIs DEF ShutDown, At
      <4>2. QED
        BY <3>6, <4>1, AtIs DEF ShutDown
    <3>7. QED
      BY <2>1, <3>1, <3>2, <3>3, <3>4, <3>5, <3>6
         DEF CallerMoves, Start, Ping, PingReturns, Stop, Shutdown, CloseQuit, Drain,
             WaitReturns
  <2>2. CASE \/ \E g \in Goroutine : Wake(g) \/ Rest(g) \/ EndOf(g)
             \/ Beat \/ ReadState \/ SendDone \/ ProcessorMoves
             \/ \E w \in Slot : WorkerMoves(w)
             \/ AbortFires \/ Exited \/ UNCHANGED vars
    BY <2>2
       DEF Wake, Rest, EndOf, Beat, ReadState, SendDone, ProcessorMoves, Poll, Quit,
           TakeToken, ReleaseToken, Dequeue, Register, WorkerMoves, LeaveHandler, Abort, Written, SyncRequest, Finish, AbortFires,
           Exited, vars, TypeOK
  <2>3. QED
    BY <2>1, <2>2 DEF Next
<1>3. mu' \in BOOLEAN /\ abort' \in {"unset", "armed", "closed"}
  <2>1. ASSUME NEW c \in Caller, CallerMoves(c)
        PROVE  mu' \in BOOLEAN /\ abort' \in {"unset", "armed", "closed"}
    BY <2>1 DEF CallerMoves, Start, StartNext, Ping, PingReturns, Stop, Shutdown,
                CloseQuit, LeaveStop, Drain, LeaveDrain, ShutDown, WaitReturns, TypeOK
  <2>2. QED
    BY <2>1
       DEF Next, Wake, Rest, EndOf, Beat, ReadState, SendDone, ProcessorMoves, Poll,
           Quit, TakeToken, ReleaseToken, Dequeue, Register, WorkerMoves,
           LeaveHandler, Abort, Written, SyncRequest, Finish,
           AbortFires, Exited, vars, TypeOK
<1>4. QED
  BY <1>1, <1>2, <1>3, FunctionsStay DEF TypeOK

\* Start and Shutdown each change the state to one that refuses the next such call.
LEMMA AloneStep == TypeOK /\ Alone /\ [Next]_vars => Alone'
<1> SUFFICES ASSUME TypeOK, Alone, [Next]_vars PROVE Alone'
  OBVIOUS
<1> USE DEF Alone
<1>1. ASSUME NEW c \in Caller, caller'[c].op = "start"
      PROVE  state' # "new" /\ caller'[c].at \in 1..8
  <2>1. caller[c].op = "start" => state # "new" /\ caller[c].at \in 1..8
    OBVIOUS
  <2>2. Start(c) => state' = "active"
    BY DEF Start
  <2>3. state # "new" => state' # "new"
    BY StateCases
  <2>4. CASE caller'[c] = caller[c]
    BY <1>1, <2>1, <2>3, <2>4
  <2>5. CASE Start(c) /\ caller'[c].at = 1
    BY <2>2, <2>5
  <2>6. CASE /\ caller[c].op = "start" /\ caller[c].at < 8
             /\ caller'[c].at = caller[c].at + 1
    BY <2>1, <2>3, <2>6
  <2>7. QED
    BY <1>1, <2>4, <2>5, <2>6, CallerCases
<1>2. ASSUME NEW c \in Caller, caller'[c].op = "shutdown"
      PROVE  state' = "closed" /\ ~down'
  <2>1. CASE Shutdown(c) /\ caller'[c].op # caller[c].op
    BY <2>1 DEF Shutdown
  <2>2. CASE caller[c].op = "shutdown"
    <3>1. state' = "closed"
      BY <2>2, StateCases
    <3>2. ASSUME NEW d \in Caller, WaitReturns(d) PROVE FALSE
      <4>1. d = c
        BY <2>2, <3>2 DEF WaitReturns, At
      <4>2. QED
        BY <1>2, <3>2, <4>1, EndIs DEF WaitReturns
    <3>3. down' = down
      BY <3>2, StateCases
    <3>4. QED
      BY <2>2, <3>1, <3>3 DEF TypeOK
  <2>3. QED
    BY <1>2, <2>1, <2>2, CallerCases
<1>3. ASSUME NEW c \in Caller, caller'[c].op \notin {"start", "shutdown"}
      PROVE  caller'[c].at = 1
  BY <1>3, CallerCases
<1>4. ASSUME NEW c \in Caller, NEW d \in Caller, caller'[c].op = caller'[d].op,
             caller'[c].op \in {"start", "shutdown"}, c # d
      PROVE  FALSE
  <2>1. ASSUME NEW e \in Caller, Start(e) \/ Shutdown(e)
        PROVE  \A b \in Caller : b # e => caller'[b] = caller[b]
    BY <2>1, BeginIs DEF Start, Shutdown
  <2>2. ASSUME NEW e \in Caller, NEW b \in Caller, b # e,
               Start(e), caller'[b].op = "start" PROVE FALSE
    <3>1. caller[b].op = "start"
      BY <2>1, <2>2
    <3>2. QED
      BY <2>2, <3>1 DEF Start
  <2>3. ASSUME NEW e \in Caller, NEW b \in Caller, b # e,
               Shutdown(e), caller'[b].op = "shutdown" PROVE FALSE
    <3>1. caller[b].op = "shutdown"
      BY <2>1, <2>3
    <3>2. QED
      BY <2>3, <3>1 DEF Shutdown
  <2>4. caller[c].op = caller'[c].op
    BY <1>4, <2>2, <2>3, CallerCases
  <2>5. caller[d].op = caller'[d].op
    BY <1>4, <2>2, <2>3, CallerCases
  <2>6. QED
    BY <1>4, <2>4, <2>5
<1>5. down' => state' = "closed"
  BY StateCases DEF WaitReturns, At
<1>6. QED
  BY <1>1, <1>2, <1>3, <1>4, <1>5

\* A goroutine that is there stays.
LEMMA FoundedStep == TypeOK /\ Alone /\ Founded /\ [Next]_vars => Founded'
<1> SUFFICES ASSUME TypeOK, Alone, Founded, [Next]_vars PROVE Founded'
  OBVIOUS
<1>1. \A g \in Goroutine : phase[g] # "none" => phase'[g] # "none"
  BY PhaseCases
<1>2. \A i \in 1..8 : StartOrder[i] \in Goroutine
  <2>1. 1..8 = {1, 2, 3, 4, 5, 6, 7, 8}
    OBVIOUS
  <2>2. QED
    BY <2>1, OrdersAre, GoroutineIs
<1>3. ASSUME NEW c \in Caller, caller'[c].op = "start",
             NEW i \in 1..8, i < caller'[c].at
      PROVE  phase'[StartOrder[i]] # "none"
  <2>1. CASE caller[c].op = "start" /\ i < caller[c].at
    <3>1. phase[StartOrder[i]] # "none"
      BY <2>1 DEF Founded
    <3>2. QED
      BY <1>1, <1>2, <3>1
  <2>2. CASE caller[c].op = "start" /\ StartNext(c) /\ i = caller[c].at
    <3> DEFINE g == StartOrder[i]
    <3>1. PICK to \in {"lock", "busy", "select"} : Moves(g, "none", to)
      BY <2>2 DEF StartNext
    <3>2. g \in Goroutine
      BY <1>2
    <3> HIDE DEF g
    <3>3. phase'[g] = to
      BY <3>1, <3>2 DEF Moves, TypeOK
    <3>4. QED
      BY <3>3 DEF g
  <2>3. caller[c].at \in 1..10
    BY AtIs
  <2>4. \/ caller[c].op = "start" /\ i < caller[c].at
        \/ caller[c].op = "start" /\ StartNext(c) /\ i = caller[c].at
    <3>1. CASE caller'[c] = caller[c]
      BY <1>3, <3>1
    <3>2. CASE caller'[c] # caller[c]
      BY <1>3, <2>3, <3>2, CallerCases
    <3>3. QED
      BY <3>1, <3>2
  <2>5. QED
    BY <2>1, <2>2, <2>4
<1>4. ASSUME phase'["processor"] # "none"
      PROVE  phase'["heartbeater"] # "none" /\ phase'["syncer"] # "none"
  <2>1. CASE phase["processor"] # "none"
    BY <1>1, <2>1, GoroutineIs DEF Founded
  <2>2. CASE phase["processor"] = "none"
    <3>1. PICK c \in Caller : StartNext(c) /\ "processor" = StartOrder[caller[c].at]
      BY <1>4, <2>2, PhaseCases, GoroutineIs
    <3>2. caller[c].op = "start" /\ caller[c].at \in {1, 2, 3, 4, 5, 6, 7, 8}
      BY <3>1 DEF StartNext, Alone
    <3>3. caller[c].at = 7
      BY <3>1, <3>2, OrdersAre
    <3>4. phase[StartOrder[1]] # "none" /\ phase[StartOrder[4]] # "none"
      BY <3>2, <3>3 DEF Founded
    <3>5. QED
      BY <1>1, <3>4, OrdersAre, GoroutineIs
  <2>3. QED
    BY <2>1, <2>2
<1>5. ASSUME NEW w \in Slot, worker'[w] \notin {"free", "drained"}
      PROVE  phase'["processor"] # "none"
  <2>1. TakeToken => phase["processor"] # "none"
    BY DEF TakeToken, Moves
  <2>2. worker[w] \notin {"free", "drained"} => phase["processor"] # "none"
    BY DEF Founded
  <2>3. phase["processor"] # "none"
    BY <1>5, <2>1, <2>2, WorkerCases
  <2>4. QED
    BY <1>1, <2>3, GoroutineIs
<1>6. QED
  BY <1>3, <1>4, <1>5 DEF Founded

\* The processor releases its token, or passes it on, before it takes another.
LEMMA HoldingStep == TypeOK /\ Holding /\ [Next]_vars => Holding'
<1> SUFFICES ASSUME TypeOK, Holding, [Next]_vars PROVE Holding'
  OBVIOUS
<1>1. TakeToken => /\ \A w \in Slot : worker[w] # "held"
                   /\ phase'["processor"] = "busy"
                   /\ \E v \in Slot : \A w \in Slot : w # v => worker'[w] = worker[w]
  <2> SUFFICES ASSUME TakeToken
               PROVE  /\ \A w \in Slot : worker[w] # "held"
                      /\ phase'["processor"] = "busy"
                      /\ \E v \in Slot : \A w \in Slot : w # v => worker'[w] = worker[w]
    OBVIOUS
  <2>1. phase["processor"] = "token" /\ phase'["processor"] = "busy"
    BY GoroutineIs DEF TakeToken, Moves, TypeOK
  <2>2. PICK v \in Slot : Steps(v, "free", "held")
    BY DEF TakeToken
  <2>3. \A w \in Slot : w # v => worker'[w] = worker[w]
    BY <2>2 DEF Steps, TypeOK
  <2>4. QED
    BY <2>1, <2>3 DEF Holding
<1>2. ReleaseToken \/ (\E w \in Slot : Register(w)) => \A w \in Slot : worker'[w] # "held"
  <2> SUFFICES ASSUME ReleaseToken \/ (\E w \in Slot : Register(w))
               PROVE  \A w \in Slot : worker'[w] # "held"
    OBVIOUS
  <2>1. PICK v \in Slot, to \in {"free", "handling", "writing"} : Steps(v, "held", to)
    BY DEF ReleaseToken, Register
  <2>2. QED
    BY <2>1 DEF Steps, TypeOK, Holding
<1>3. \A w \in Slot : worker'[w] = "held" => worker[w] = "held" \/ TakeToken
  BY WorkerCases
<1>4. ASSUME NEW w \in Slot, worker'[w] = "held"
      PROVE  phase'["processor"] \in {"busy", "starting"}
  <2>1. CASE worker[w] = "held"
    <3>1. phase["processor"] \in {"busy", "starting"}
      BY <2>1 DEF Holding
    <3>2. QED
      BY <1>2, <1>4, <3>1, ProcessorCases
  <2>2. QED
    BY <1>1, <1>3, <1>4, <2>1
<1>5. ASSUME NEW v \in Slot, NEW w \in Slot, worker'[v] = "held", worker'[w] = "held"
      PROVE  v = w
  <2>1. CASE TakeToken
    BY <1>1, <1>5, <2>1
  <2>2. CASE ~TakeToken
    BY <1>3, <1>5, <2>2 DEF Holding
  <2>3. QED
    BY <2>1, <2>2
<1>6. \A g \in Goroutine \ {"processor"} : phase'[g] \notin {"token", "starting"}
  <2>1. \A g \in Goroutine \ {"processor"} : phase[g] \notin {"token", "starting"}
    BY DEF Holding
  <2>2. QED
    BY <2>1, PhaseCases
<1>7. QED
  BY <1>4, <1>5, <1>6 DEF Holding
\* Who has been told has been told.
LEMMA ToldStays ==
  ASSUME TypeOK, [Next]_vars
  PROVE  /\ \A g \in Goroutine : Told(g) => Told(g)'
         /\ Drained => Drained'
<1>1. \A g \in Goroutine : Told(g) => Told(g)'
  BY PhaseCases DEF Told
<1>2. \A w \in Slot : worker[w] = "drained" => worker'[w] = "drained"
  BY WorkerCases
<1>3. QED
  BY <1>1, <1>2, GoroutineIs DEF Drained

\* The done channel of every goroutine but the processor's has one sender.
LEMMA NewlyTold ==
  ASSUME TypeOK, [Next]_vars, NEW g \in Goroutine, ~Told(g), Told(g)'
  PROVE  \/ g = "processor" /\ SendDone
         \/ g # "processor" /\ \E c \in Caller : ShutDown(c, g)
BY PhaseCases DEF Told

\* A step of Shutdown is left only when its goroutine has been told.
LEMMA OrderedStep == TypeOK /\ Alone /\ Ordered /\ [Next]_vars => Ordered'
<1> SUFFICES ASSUME TypeOK, Alone, Ordered, [Next]_vars PROVE Ordered'
  OBVIOUS
<1> DEFINE Passed(i) == IF ShutdownOrder[i] = "workers" THEN Drained
                                                        ELSE Told(ShutdownOrder[i])
<1>1. \A c \in Caller : caller[c].op = "shutdown" =>
        \A i \in 1..10 : i < caller[c].at => Passed(i)
  BY DEF Ordered
<1>2. \A i \in 1..9 : ShutdownOrder[i] = "workers" \/ ShutdownOrder[i] \in Goroutine
  <2>1. 1..9 = {1, 2, 3, 4, 5, 6, 7, 8, 9}
    OBVIOUS
  <2>2. QED
    BY <2>1, OrdersAre, GoroutineIs
<1>3. \A i \in 1..9 : Passed(i) => Passed(i)'
  BY <1>2, ToldStays
<1>4. ASSUME NEW c \in Caller, caller'[c].op = "shutdown",
             NEW i \in 1..10, i < caller'[c].at
      PROVE  Passed(i)'
  <2>1. caller'[c].at \in 1..10 /\ i \in 1..9 /\ caller[c].at \in 1..10
    <3>1. TypeOK'
      BY TypeStep
    <3>2. caller'[c].at \in 1..10
      BY <3>1, OrdersAre DEF TypeOK, Call
    <3>3. QED
      BY <1>4, <3>2, AtIs
  <2>2. CASE caller[c].op = "shutdown" /\ i < caller[c].at
    BY <1>1, <1>3, <2>1, <2>2
  <2>3. CASE LeaveStop(c) /\ caller[c].op = "shutdown" /\ i = 2
    <3>1. once = "done"
      BY <2>3 DEF LeaveStop
    <3>2. Told("processor")
      BY <3>1 DEF Ordered
    <3>3. QED
      BY <1>3, <2>1, <2>3, <3>2, OrdersAre
  <2>4. CASE LeaveDrain(c) /\ i = 3 /\ caller[c].at = 3 /\ caller[c].op = "shutdown"
    <3>1. Passed(2)
      BY <1>1, <2>4
    <3>2. Told("processor") /\ \A w \in Slot : worker[w] = "drained"
      BY <2>4, <3>1, OrdersAre DEF LeaveDrain
    <3>3. Passed(3)
      BY <3>2, OrdersAre DEF Drained
    <3>4. QED
      BY <1>3, <2>1, <2>4, <3>3
  <2>5. ASSUME NEW g \in Goroutine \ {"processor"}, ShutDown(c, g), i = caller[c].at
        PROVE  Passed(i)'
    <3>1. ShutdownOrder[i] = g
      BY <2>5 DEF ShutDown, At
    <3>2. phase'[g] = "ending"
      BY <2>5 DEF ShutDown, Moves, TypeOK
    <3>3. g # "workers"
      BY GoroutineIs
    <3>4. QED
      BY <3>1, <3>2, <3>3 DEF Told
  <2>6. \/ caller[c].op = "shutdown" /\ i < caller[c].at
        \/ /\ caller[c].op = "shutdown" /\ i = caller[c].at
           /\ \/ LeaveStop(c) /\ caller[c].at = 2
              \/ LeaveDrain(c) /\ caller[c].at = 3
              \/ \E g \in Goroutine \ {"processor"} : ShutDown(c, g)
    <3>1. CASE caller'[c] = caller[c]
      BY <1>4, <3>1
    <3>2. CASE caller'[c].at = 1
      BY <1>4, <2>1, <3>2
    <3>3. CASE caller'[c].at = caller[c].at + 1 /\ caller'[c] # caller[c]
      BY <1>4, <2>1, <3>3, CallerCases
    <3>4. QED
      BY <1>4, <3>1, <3>2, <3>3, CallerCases
  <2>7. QED
    BY <2>2, <2>3, <2>4, <2>5, <2>6
<1>5. once' = "done" <=> Told("processor")'
  <2>1. once = "done" <=> Told("processor")
    BY DEF Ordered
  <2>2. SendDone => once' = "done" /\ Told("processor")'
    BY GoroutineIs DEF SendDone, Moves, TypeOK, Told
  <2>3. ~SendDone => once' = once \/ (once' = "running" /\ once = "new")
    BY StateCases
  <2>4. Told("processor") => Told("processor")'
    BY ToldStays, GoroutineIs
  <2>5. ~SendDone /\ Told("processor")' => Told("processor")
    BY NewlyTold, GoroutineIs
  <2>6. CASE SendDone
    BY <2>2, <2>6
  <2>7. CASE ~SendDone
    <3>1. Told("processor")' <=> Told("processor")
      BY <2>4, <2>5, <2>7
    <3>2. once' = "done" <=> once = "done"
      BY <2>1, <2>3, <2>7
    <3>3. QED
      BY <2>1, <3>1, <3>2
  <2>8. QED
    BY <2>6, <2>7
<1>6. ASSUME Told("syncer")' \/ Told("heartbeater")'
      PROVE  down' \/ \E c \in Caller : caller'[c].op = "shutdown" /\ caller'[c].at > 3
  <2>1. CASE down
    BY <2>1, StateCases
  <2>2. ASSUME NEW c \in Caller, caller[c].op = "shutdown",
               caller[c].at > 3 \/ \E g \in {"syncer", "heartbeater"} : ShutDown(c, g)
        PROVE  down' \/ (caller'[c].op = "shutdown" /\ caller'[c].at > 3)
    <3>1. caller[c].at > 3
      <4>1. ASSUME NEW g \in {"syncer", "heartbeater"}, ShutDown(c, g)
            PROVE  caller[c].at > 3
        <5>1. ShutdownOrder[caller[c].at] = g
          BY <4>1 DEF ShutDown, At
        <5>2. caller[c].at \notin {1, 2, 3}
          BY <5>1, OrdersAre
        <5>3. QED
          BY <5>2, AtIs
      <4>2. QED
        BY <2>2, <4>1
    <3>2. WaitReturns(c) => down'
      BY DEF WaitReturns
    <3>3. QED
      BY <2>2, <3>1, <3>2, CallerCases, AtIs
  <2>3. \/ down
        \/ \E c \in Caller : /\ caller[c].op = "shutdown"
                             /\ \/ caller[c].at > 3
                                \/ \E g \in {"syncer", "heartbeater"} : ShutDown(c, g)
    <3>1. CASE Told("syncer") \/ Told("heartbeater")
      BY <3>1 DEF Ordered
    <3>2. CASE ~Told("syncer") /\ ~Told("heartbeater")
      <4>1. PICK g \in {"syncer", "heartbeater"} : ~Told(g) /\ Told(g)'
        BY <1>6, <3>2
      <4>2. PICK c \in Caller : ShutDown(c, g)
        BY <4>1, NewlyTold, GoroutineIs
      <4>3. caller[c].op = "shutdown"
        BY <4>2 DEF ShutDown, At
      <4>4. QED
        BY <4>2, <4>3
    <3>3. QED
      BY <3>1, <3>2
  <2>4. QED
    BY <2>1, <2>2, <2>3
<1>7. ASSUME down' PROVE Drained' /\ \A g \in Goroutine : phase'[g] = "ended"
  <2>1. CASE down
    <3>1. Drained /\ \A g \in Goroutine : phase[g] = "ended"
      BY <2>1 DEF Ordered
    <3>2. QED
      BY <3>1, ToldStays, PhaseCases
  <2>2. ASSUME NEW c \in Caller, WaitReturns(c)
        PROVE  Drained' /\ \A g \in Goroutine : phase'[g] = "ended"
    <3>1. caller[c].op = "shutdown" /\ caller[c].at = 10
      BY <2>2, AtIs DEF WaitReturns
    <3>2. \A i \in 1..9 : Passed(i)
      BY <1>1, <3>1
    <3>3. Drained
      BY <3>2, OrdersAre
    <3>4. \A g \in Goroutine : Told(g)
      BY <3>2, OrdersAre, GoroutineIs
    <3>5. \A g \in Goroutine : phase[g] = "ended"
      BY <2>2, <3>4 DEF WaitReturns, Told
    <3>6. QED
      BY <3>3, <3>5, ToldStays, PhaseCases
  <2>3. QED
    BY <1>7, <2>1, <2>2, StateCases
<1>8. QED
  BY <1>4, <1>5, <1>6, <1>7 DEF Ordered

------------------------------------------------------------------------------
(* The results.                                                            *)

\* The five parts together hold in every reachable state.
THEOREM ShutdownInductive == Spec => []Inv
<1>1. Init => Inv
  <2> SUFFICES ASSUME Init PROVE Inv
    OBVIOUS
  <2>1. \A c \in Caller : caller[c] = Idle
    BY DEF Init
  <2>2. \A g \in Goroutine : phase[g] = "none"
    BY DEF Init
  <2>3. \A w \in Slot : worker[w] = "free"
    BY DEF Init
  <2>4. TypeOK
    <3>1. Idle \in Call
      BY OrdersAre DEF Idle, Call
    <3>2. QED
      BY <3>1 DEF Init, TypeOK, Phase, WorkerPhase
  <2>5. Alone
    BY <2>1 DEF Init, Alone, Idle
  <2>6. Founded
    BY <2>1, <2>2, <2>3, GoroutineIs DEF Founded, Idle
  <2>7. Holding
    BY <2>2, <2>3 DEF Holding
  <2>8. Ordered
    BY <2>1, <2>2, GoroutineIs DEF Ordered, Idle, Init, Told
  <2>9. QED
    BY <2>4, <2>5, <2>6, <2>7, <2>8 DEF Inv
<1>2. Inv /\ [Next]_vars => Inv'
  BY TypeStep, AloneStep, FoundedStep, HoldingStep, OrderedStep DEF Inv
<1>3. QED
  BY <1>1, <1>2, PTL DEF Spec

\* Callers, goroutines, tokens and channels keep their types: no call goes on
\* beyond the last step of its method, no matter what others call.
THEOREM ShutdownTypeCorrect == Spec => []TypeOK
<1>1. Inv => TypeOK
  BY DEF Inv
<1>2. QED
  BY <1>1, ShutdownInductive, PTL

\* When Shutdown returns everything that Start starts has ended, and no worker
\* is left, whatever else was called meanwhile.
THEOREM ShutdownQuiet == Spec => []QuietWhenDown
<1>1. Inv => QuietWhenDown
  BY DEF Inv, Ordered, Drained, QuietWhenDown
<1>2. QED
  BY <1>1, ShutdownInductive, PTL

\* While a worker, or the processor, may still send on starting, finished or
\* syncRequestCh, the goroutine that receives there is running.
THEOREM ShutdownReceiversLive == Spec => []ReceiversLive
<1>1. ASSUME Inv PROVE ReceiversLive
  <2> USE <1>1
  <2>1. ASSUME Told("syncer") \/ Told("heartbeater") PROVE Drained
    <3>1. CASE down
      BY <3>1 DEF Inv, Ordered
    <3>2. ASSUME NEW c \in Caller, caller[c].op = "shutdown", caller[c].at > 3
          PROVE  Drained
      BY <3>2, OrdersAre DEF Inv, Ordered
    <3>3. QED
      BY <2>1, <3>1, <3>2 DEF Inv, Ordered
  <2>2. ASSUME NEW g \in {"syncer", "heartbeater"}, phase[g] # "none", ~Drained
        PROVE  Serving(g)
    <3>1. phase[g] \in Phase /\ phase[g] \notin {"token", "starting"}
      BY GoroutineIs DEF Inv, TypeOK, Holding
    <3>2. ~Told(g)
      BY <2>1, <2>2
    <3>3. QED
      BY <2>2, <3>1, <3>2 DEF Phase, Told, Serving
  <2>3. ASSUME phase["processor"] = "starting" PROVE Serving("heartbeater")
    <3>1. ~Drained /\ phase["heartbeater"] # "none"
      BY <2>3 DEF Drained, Told, Inv, Founded
    <3>2. QED
      BY <2>2, <3>1
  <2>4. ASSUME NEW w \in Slot,
               worker[w] \in {"handling", "writing", "requeueing", "syncing", "finishing"}
        PROVE  Serving("heartbeater") /\ Serving("syncer")
    <3>1. ~Drained
      BY <2>4 DEF Drained
    <3>2. phase["heartbeater"] # "none" /\ phase["syncer"] # "none"
      BY <2>4 DEF Inv, Founded
    <3>3. QED
      BY <2>2, <3>1, <3>2
  <2>5. QED
    BY <2>3, <2>4 DEF ReceiversLive
<1>2. QED
  BY <1>1, ShutdownInductive, PTL

\* Once processor.stop has returned to anybody, the processor has received done
\* and holds no token: it starts no worker any more.
THEOREM ShutdownNoneStarted == Spec => NoneStartedAfterStop
<1> DEFINE A == \A c \in Caller : ~InStop(c)' /\ InStop(c) =>
                  /\ phase'["processor"] \in {"ending", "ended"}
                  /\ \A w \in Slot : worker'[w] # "held"
<1>1. ASSUME Inv, [Next]_vars PROVE A
  <2> SUFFICES ASSUME NEW c \in Caller, ~InStop(c)', InStop(c)
               PROVE  /\ phase'["processor"] \in {"ending", "ended"}
                      /\ \A w \in Slot : worker'[w] # "held"
    OBVIOUS
  <2> USE <1>1
  <2>1. TypeOK /\ Alone /\ Ordered /\ Holding
    BY DEF Inv
  <2>2. LeaveStop(c)
    <3>1. caller'[c] # caller[c]
      BY DEF InStop, At
    <3>2. CASE caller[c].op = "stop"
      BY <2>1, <3>1, <3>2, CallerCases
    <3>3. CASE caller[c].op = "shutdown" /\ caller[c].at = 2
      <4>1. ~WaitReturns(c)
        BY <2>1, <3>3, AtIs DEF WaitReturns
      <4>2. \A g \in Goroutine \ {"processor"} : ~ShutDown(c, g)
        BY <3>3, OrdersAre DEF ShutDown, At
      <4>3. QED
        BY <2>1, <3>1, <3>3, <4>1, <4>2, CallerCases
    <3>4. QED
      BY <2>1, <3>2, <3>3, AtIs DEF InStop
  <2>3. phase' = phase /\ worker' = worker /\ Told("processor")
    BY <2>1, <2>2 DEF LeaveStop, Ordered
  <2>4. QED
    BY <2>1, <2>3 DEF Told, Holding
<1>2. Inv /\ [Next]_vars =>
        [\A c \in Caller : ~InStop(c)' /\ InStop(c) =>
           phase'["processor"] \in {"ending", "ended"} /\ \A w \in Slot : worker'[w] # "held"]_vars
  BY <1>1
<1>3. QED
  BY <1>2, ShutdownInductive, PTL DEF Spec, NoneStartedAfterStop
==============================================================================
