--------------------------- MODULE DeliveryProofs ---------------------------
(***************************************************************************)
(* What Delivery says of the cancel functions and of the syncer, for every *)
(* number of servers, tokens, tasks and stops and any length of time.      *)
(***************************************************************************)
EXTENDS Delivery, HolderProofs, RdbRefinement

------------------------------------------------------------------------------
(* The tokens, whatever messages their runs have.                          *)

IsToken(g)   == g = [pc |-> g.pc, msg |-> g.msg, ends |-> g.ends, outcome |-> g.outcome]
IsRequest(r) == r = [worker |-> r.worker, msg |-> r.msg, place |-> r.place,
                     fn |-> r.fn, at |-> r.at, ends |-> r.ends]

Shaped == /\ worker = [w \in Worker |-> worker[w]]
          /\ \A w \in Worker : IsToken(worker[w])

\* A goroutine adds its function before it can conclude, and ends its context
\* when its last call has returned.
Opened ==
  /\ run = [w \in Worker |-> run[w]]
  /\ \A w \in Worker :
       /\ run[w] \in Phase
       /\ run[w] = "new" => worker[w].pc = "running"
       /\ run[w] = "open" => worker[w].pc \in {"running", "acting", "finishing"}
       /\ run[w] \in {"returned", "cancelled"} => worker[w].pc = "finishing"
       /\ worker[w].pc = "running" => run[w] \in {"new", "open"}
       /\ worker[w].pc = "acting" => run[w] = "open"

Entered == {"open", "returned", "cancelled"}

\* The functions of a server are those of its own runs.
Owned ==
  /\ cancelable = [s \in Server |-> cancelable[s]]
  /\ \A s \in Server : \A id \in DOMAIN cancelable[s] :
       /\ cancelable[s][id] \in Worker
       /\ run[cancelable[s][id]] \in Entered
       /\ Srv(cancelable[s][id]) = s
       /\ worker[cancelable[s][id]].msg.id = id

\* The call whose request can still succeed has not returned.
Requested ==
  /\ requests = [s \in Server |-> requests[s]]
  /\ \A s \in Server : \A r \in requests[s] :
       /\ IsRequest(r)
       /\ r.place \in {"channel", "list"} =>
            r.worker \in Worker /\ run[r.worker] = "open" /\ Srv(r.worker) = s

RunsInv == Shaped /\ Opened /\ Owned /\ Requested

\* What a step may do to a run v: nothing but for its lease; its next phase
\* with the same message; or something else, when there is no goroutine.
Same(v) == /\ worker'[v].pc = worker[v].pc
           /\ worker'[v].msg = worker[v].msg
Goes(v) == /\ worker'[v].pc \in {"acting", "finishing"}
           /\ run[v] = "open"
           /\ worker'[v].msg = worker[v].msg
Free(v) == /\ worker'[v].pc \notin {"running", "acting"}
           /\ run[v] = "none"

\* A step that brings no goroutine further.
Quiet == /\ UNCHANGED run
         /\ Shaped'
         /\ \A v \in Worker : Same(v) \/ Goes(v) \/ Free(v)

LEMMA QuietOpened == ASSUME RunsInv, Quiet PROVE Opened'
BY DEF RunsInv, Quiet, Opened, Same, Goes, Free

LEMMA QuietOwned ==
  ASSUME RunsInv, Quiet, UNCHANGED cancelable PROVE Owned'
BY DEF RunsInv, Quiet, Entered, Owned, Same, Goes, Free

LEMMA QuietRequested ==
  ASSUME RunsInv, Quiet, UNCHANGED requests PROVE Requested'
BY DEF RunsInv, Quiet, Requested

\* A step that does not touch the tokens.
LEMMA Untold ==
  ASSUME RunsInv, UNCHANGED <<worker, run>> PROVE Quiet
BY DEF RunsInv, Quiet, Same, Shaped

LEMMA StartToken ==
  ASSUME NEW m, NEW e
  PROVE  LET g == [Idle EXCEPT !.pc = "starting", !.msg = m, !.ends = e]
         IN IsToken(g) /\ g.pc = "starting"
<1> DEFINE g == [Idle EXCEPT !.pc = "starting", !.msg = m, !.ends = e]
<1>1. DOMAIN g = {"pc", "msg", "ends", "outcome"}
  BY DEF Idle
<1>2. g.pc = "starting"
  BY DEF Idle
<1>3. g = [k \in {"pc", "msg", "ends", "outcome"} |-> g[k]]
  BY <1>1 DEF Idle
<1> HIDE DEF g
<1>4. IsToken(g)
  BY <1>3 DEF IsToken
<1>5. QED
  BY <1>2, <1>4 DEF g

\* The steps of Workers that Delivery takes as they are.
LEMMA WorkersQuiet ==
  ASSUME RunsInv, UNCHANGED run, NEW w \in Worker,
         \/ Take(w) \/ TakeLost(w)
         \/ run[w] = "open" /\ \E outcome \in Outcome : Conclude(w, outcome)
         \/ Act(w) \/ ActFails(w)
         \/ run[w] = "none" /\ Finish(w)
  PROVE  Quiet
<1>1. Shaped /\ Opened
  BY DEF RunsInv
<1>2. CASE Take(w)
  <2>0. PICK t \in Readings(Srv(w)) :
          /\ worker[w].pc = "idle"
          /\ worker' = [worker EXCEPT ![w] =
               [Idle EXCEPT !.pc = "starting", !.msg = task[Head(pending)].msg,
                            !.ends = t + LeaseDuration]]
    BY <1>2 DEF Take
  <2> DEFINE g == [Idle EXCEPT !.pc = "starting", !.msg = task[Head(pending)].msg,
                               !.ends = t + LeaseDuration]
  <2>1. worker' = [worker EXCEPT ![w] = g] /\ worker[w].pc = "idle"
    BY <2>0
  <2>2. IsToken(g) /\ g.pc = "starting"
    BY StartToken
  <2> HIDE DEF g
  <2>3. \A v \in Worker : worker'[v] = IF v = w THEN g ELSE worker[v]
    BY <1>1, <2>1 DEF Shaped
  <2>4. worker' = [v \in Worker |-> worker'[v]]
    BY <1>1, <2>1 DEF Shaped
  <2>5. Shaped'
    BY <1>1, <2>2, <2>3, <2>4 DEF Shaped, IsToken
  <2>6. ASSUME NEW v \in Worker PROVE Same(v) \/ Free(v)
    <3>1. CASE v = w
      <4>1. run[v] = "none"
        BY <1>1, <2>1, <3>1 DEF Opened, Phase
      <4>2. QED
        BY <2>2, <2>3, <3>1, <4>1 DEF Free
    <3>2. CASE v # w
      BY <2>3, <3>2 DEF Same
    <3>3. QED
      BY <3>1, <3>2
  <2>7. QED
    BY <2>5, <2>6 DEF Quiet
<1>3. CASE TakeLost(w)
  BY <1>3, Untold DEF TakeLost, procVars
<1>4. ASSUME run[w] = "open", NEW outcome \in Outcome, Conclude(w, outcome) PROVE Quiet
  <2>1. /\ worker[w].pc = "running"
        /\ \/ worker' = [worker EXCEPT ![w].pc = "acting", ![w].outcome = outcome]
           \/ worker' = [worker EXCEPT ![w].pc = "finishing"]
    BY <1>4 DEF Conclude
  <2>2. Shaped' /\ \A v \in Worker : v # w => worker'[v] = worker[v]
    BY <1>1, <2>1 DEF Shaped, IsToken
  <2>3. worker'[w].pc \in {"acting", "finishing"} /\ worker'[w].msg = worker[w].msg
    BY <1>1, <2>1 DEF Shaped, IsToken
  <2>4. QED
    BY <1>4, <2>1, <2>2, <2>3 DEF Quiet, Same, Goes
<1>5. CASE Act(w) \/ ActFails(w)
  BY <1>1, <1>5 DEF Act, ActFails, Quiet, Same, Goes, Shaped, IsToken, Opened
<1>6. CASE run[w] = "none" /\ Finish(w)
  BY <1>1, <1>6 DEF Finish, Quiet, Same, Free, Shaped, IsToken, Idle
<1>7. QED
  BY <1>2, <1>3, <1>4, <1>5, <1>6

\* beat() changes no more of a token than when its lease ends.
LEMMA BeatQuiet ==
  ASSUME RunsInv, UNCHANGED run, NEW s \in Server, HeartbeaterMoves(s)
  PROVE  Quiet
<1>1. CASE ResetLeases(s)
  BY <1>1 DEF ResetLeases, RunsInv, Quiet, Same, Shaped, IsToken
<1>2. CASE BeginBeat(s) \/ Extend(s) \/ ExtendFails(s) \/ ExtendLate(s)
  BY <1>2, Untold DEF BeginBeat, Extend, ExtendFails, ExtendLate, procVars
<1>3. QED
  BY <1>1, <1>2 DEF HeartbeaterMoves

------------------------------------------------------------------------------
(* The steps that open or end runs.                                        *)

\* The failed call of a run that still has its context.
LEMMA HandOverRequested ==
  ASSUME RunsInv, Quiet, NEW w \in Worker, worker[w].pc = "acting", HandOver(w)
  PROVE  Requested'
<1>1. run[w] = "open" /\ run'[w] = "open"
  BY DEF RunsInv, Opened, Quiet
<1>2. CASE UNCHANGED requests
  BY <1>2, QuietRequested
<1>3. ASSUME NEW fn, requests' = [requests EXCEPT ![Srv(w)] = @ \cup {Failed(w, fn)}]
      PROVE  Requested'
  <2>1. IsRequest(Failed(w, fn)) /\ Failed(w, fn).worker = w
    BY DEF Failed, IsRequest
  <2>2. QED
    BY <1>1, <1>3, <2>1 DEF RunsInv, Requested, Quiet
<1>4. QED
  BY <1>2, <1>3 DEF HandOver

LEMMA StartRunStep ==
  ASSUME RunsInv, NEW w \in Worker, StartRun(w) PROVE RunsInv'
<1>1. /\ worker[w].pc = "starting"
      /\ worker' = [worker EXCEPT ![w].pc = "running"]
      /\ run' = [run EXCEPT ![w] = "new"]
      /\ UNCHANGED <<cancelable, requests>>
  BY DEF StartRun, Register
<1>2. /\ \A v \in Worker : v # w => worker'[v] = worker[v]
      /\ worker'[w].pc = "running"
      /\ Shaped'
  BY <1>1 DEF RunsInv, Shaped, IsToken
<1>3. /\ run' = [v \in Worker |-> run'[v]]
      /\ \A v \in Worker : v # w => run'[v] = run[v]
      /\ run'[w] = "new" /\ run[w] = "none"
  BY <1>1 DEF RunsInv, Opened, Phase
<1>4. Opened'
  BY <1>2, <1>3 DEF RunsInv, Opened, Phase
<1>5. Owned'
  BY <1>1, <1>2, <1>3 DEF RunsInv, Owned, Entered
<1>6. Requested'
  BY <1>1, <1>3 DEF RunsInv, Requested
<1>7. QED
  BY <1>2, <1>4, <1>5, <1>6 DEF RunsInv

\* A goroutine goes on by itself.
LEMMA AdvanceIs ==
  ASSUME RunsInv, NEW w \in Worker, NEW p \in Phase, UNCHANGED worker,
         run' = [run EXCEPT ![w] = p]
  PROVE  /\ Shaped' /\ run' = [v \in Worker |-> run'[v]]
         /\ run'[w] = p /\ \A v \in Worker : v # w => run'[v] = run[v]
BY DEF RunsInv, Shaped, Opened

LEMMA AddCancelStep ==
  ASSUME RunsInv, NEW w \in Worker, AddCancel(w) PROVE RunsInv'
<1> DEFINE s == Srv(w)
           x == worker[w].msg.id
<1>1. /\ run[w] = "new" /\ run' = [run EXCEPT ![w] = "open"]
      /\ cancelable' = [cancelable EXCEPT ![s] = Put(@, x, w)]
      /\ UNCHANGED <<worker, requests>>
  BY DEF AddCancel, allVars, procVars
<1>2. /\ Shaped' /\ run' = [v \in Worker |-> run'[v]]
      /\ run'[w] = "open" /\ \A v \in Worker : v # w => run'[v] = run[v]
  BY <1>1, AdvanceIs DEF Phase
<1>3. Opened'
  BY <1>1, <1>2 DEF RunsInv, Opened, Phase
<1>4. Owned'
  <2>1. cancelable' = [t \in Server |-> cancelable'[t]]
    BY <1>1 DEF RunsInv, Owned
  <2>2. ASSUME NEW t \in Server, NEW id \in DOMAIN cancelable'[t]
        PROVE  /\ cancelable'[t][id] \in Worker
               /\ run'[cancelable'[t][id]] \in Entered
               /\ Srv(cancelable'[t][id]) = t
               /\ worker'[cancelable'[t][id]].msg.id = id
    <3>1. CASE t = s /\ id = x
      <4>1. cancelable'[t][id] = w
        BY <1>1, <2>2, <3>1 DEF RunsInv, Owned, Put
      <4>2. QED
        BY <1>1, <1>2, <3>1, <4>1 DEF Entered
    <3>2. CASE ~(t = s /\ id = x)
      <4>1. id \in DOMAIN cancelable[t] /\ cancelable'[t][id] = cancelable[t][id]
        BY <1>1, <2>2, <3>2 DEF RunsInv, Owned, Put
      <4>2. QED
        BY <1>1, <1>2, <4>1 DEF RunsInv, Owned, Entered
    <3>3. QED
      BY <3>1, <3>2
  <2>3. QED
    BY <2>1, <2>2 DEF Owned, Entered
<1>5. Requested'
  BY <1>1, <1>2 DEF RunsInv, Requested
<1>6. QED
  BY <1>2, <1>3, <1>4, <1>5 DEF RunsInv

\* With its call, the requests of the run are over.
LEMMA CallReturnsStep ==
  ASSUME RunsInv, NEW w \in Worker, CallReturns(w) PROVE RunsInv'
<1> DEFINE s == Srv(w)
<1>1. /\ worker[w].pc = "finishing" /\ run[w] = "open"
      /\ ~Sending(w)
      /\ CancelRequests(w)
      /\ run' = [run EXCEPT ![w] = "returned"]
      /\ UNCHANGED <<worker, cancelable>>
  BY DEF CallReturns, allVars, procVars
<1>2. /\ Shaped' /\ run' = [v \in Worker |-> run'[v]]
      /\ run'[w] = "returned" /\ \A v \in Worker : v # w => run'[v] = run[v]
  BY <1>1, AdvanceIs DEF Phase
<1>3. Opened'
  BY <1>1, <1>2 DEF RunsInv, Opened, Phase
<1>4. Owned'
  BY <1>1, <1>2 DEF RunsInv, Owned, Entered
<1>5. Requested'
  <2>1. requests' = [requests EXCEPT ![s] =
          {IF r.worker = w /\ r.place = "list" THEN Cancelled(r) ELSE r : r \in @}]
    BY <1>1 DEF CancelRequests
  <2>2. requests' = [t \in Server |-> requests'[t]]
    BY <2>1 DEF RunsInv, Requested
  <2>3. ASSUME NEW t \in Server, NEW r \in requests'[t]
        PROVE  /\ IsRequest(r)
               /\ r.place \in {"channel", "list"} =>
                    r.worker \in Worker /\ run'[r.worker] = "open" /\ Srv(r.worker) = t
    <3>1. CASE t = s
      <4>1. PICK q \in requests[s] :
              r = IF q.worker = w /\ q.place = "list" THEN Cancelled(q) ELSE q
        BY <2>1, <2>3, <3>1 DEF RunsInv, Requested
      <4>2. CASE q.worker = w /\ q.place = "list"
        <5>1. r = Cancelled(q) /\ IsRequest(q)
          BY <3>1, <4>1, <4>2 DEF RunsInv, Requested
        <5>2. IsRequest(r) /\ r.place = "cancelled"
          BY <5>1 DEF IsRequest, Cancelled
        <5>3. QED
          BY <5>2
      <4>3. CASE ~(q.worker = w /\ q.place = "list")
        <5>1. ~(q.worker = w /\ q.place = "channel")
          BY <1>1, <4>1 DEF Sending
        <5>2. QED
          BY <1>2, <3>1, <4>1, <4>3, <5>1 DEF RunsInv, Requested
      <4>4. QED
        BY <4>2, <4>3
    <3>2. CASE t # s
      <4>1. r \in requests[t]
        BY <2>1, <2>3, <3>2 DEF RunsInv, Requested
      <4>2. QED
        BY <1>2, <3>2, <4>1 DEF RunsInv, Requested
    <3>3. QED
      BY <3>1, <3>2
  <2>4. QED
    BY <2>2, <2>3 DEF Requested
<1>6. QED
  BY <1>2, <1>3, <1>4, <1>5 DEF RunsInv

LEMMA CancelRunStep ==
  ASSUME RunsInv, NEW w \in Worker, CancelRun(w) PROVE RunsInv'
<1>1. /\ run[w] = "returned" /\ run' = [run EXCEPT ![w] = "cancelled"]
      /\ UNCHANGED <<worker, cancelable, requests>>
  BY DEF CancelRun, allVars, procVars
<1>2. /\ Shaped' /\ run' = [v \in Worker |-> run'[v]]
      /\ run'[w] = "cancelled" /\ \A v \in Worker : v # w => run'[v] = run[v]
  BY <1>1, AdvanceIs DEF Phase
<1>3. Opened'
  BY <1>1, <1>2 DEF RunsInv, Opened, Phase
<1>4. Owned' /\ Requested'
  BY <1>1, <1>2 DEF RunsInv, Owned, Requested, Entered
<1>5. QED
  BY <1>2, <1>3, <1>4 DEF RunsInv

\* What is deleted under the ID may be another run's, but the own entry is
\* under no other ID.
LEMMA DeleteCancelStep ==
  ASSUME RunsInv, NEW w \in Worker, DeleteCancel(w) PROVE RunsInv'
<1> DEFINE s == Srv(w)
           x == worker[w].msg.id
<1>1. /\ run[w] = "cancelled" /\ run' = [run EXCEPT ![w] = "none"]
      /\ cancelable' = [cancelable EXCEPT ![s] = Drop(@, {x})]
      /\ UNCHANGED <<worker, requests>>
  BY DEF DeleteCancel, allVars, procVars
<1>2. /\ Shaped' /\ run' = [v \in Worker |-> run'[v]]
      /\ run'[w] = "none" /\ \A v \in Worker : v # w => run'[v] = run[v]
  BY <1>1, AdvanceIs DEF Phase
<1>3. Opened'
  BY <1>1, <1>2 DEF RunsInv, Opened, Phase
<1>4. Owned'
  <2>1. cancelable' = [t \in Server |-> cancelable'[t]]
    BY <1>1 DEF RunsInv, Owned
  <2>2. ASSUME NEW t \in Server, NEW id \in DOMAIN cancelable'[t]
        PROVE  /\ cancelable'[t][id] \in Worker
               /\ run'[cancelable'[t][id]] \in Entered
               /\ Srv(cancelable'[t][id]) = t
               /\ worker'[cancelable'[t][id]].msg.id = id
    <3>1. /\ id \in DOMAIN cancelable[t] /\ cancelable'[t][id] = cancelable[t][id]
          /\ ~(t = s /\ id = x)
      BY <1>1, <2>2 DEF RunsInv, Owned, Drop
    <3>2. cancelable[t][id] # w
      BY <3>1 DEF RunsInv, Owned
    <3>3. QED
      BY <1>1, <1>2, <3>1, <3>2 DEF RunsInv, Owned, Entered
  <2>3. QED
    BY <2>1, <2>2 DEF Owned, Entered
<1>5. Requested'
  BY <1>1, <1>2 DEF RunsInv, Requested
<1>6. QED
  BY <1>2, <1>3, <1>4, <1>5 DEF RunsInv

LEMMA CrashStep ==
  ASSUME RunsInv, NEW s \in Server, CrashServer(s) PROVE RunsInv'
<1>1. /\ worker' = [w \in Worker |-> IF Srv(w) = s THEN Idle ELSE worker[w]]
      /\ run' = [w \in Worker |-> IF Srv(w) = s THEN "none" ELSE run[w]]
      /\ cancelable' = [cancelable EXCEPT ![s] = NoEntry]
      /\ requests' = [requests EXCEPT ![s] = {}]
  BY DEF CrashServer, Crash
<1>2. Shaped'
  BY <1>1 DEF RunsInv, Shaped, IsToken, Idle
<1>3. Opened'
  BY <1>1 DEF RunsInv, Opened, Phase, Idle
<1>4. Owned'
  BY <1>1 DEF RunsInv, Owned, Entered, NoEntry
<1>5. Requested'
  BY <1>1 DEF RunsInv, Requested
<1>6. QED
  BY <1>2, <1>3, <1>4, <1>5 DEF RunsInv

LEMMA TimeStep ==
  ASSUME RunsInv, NextSecond PROVE RunsInv'
<1>1. Quiet
  <2>1. Shaped'
    BY DEF NextSecond, RunsInv, Shaped, IsToken, Idle
  <2>2. ASSUME NEW v \in Worker PROVE Same(v) \/ Free(v)
    <3>1. CASE worker[v].pc = "idle"
      <4>1. worker'[v].pc = "idle" /\ run[v] = "none"
        BY <3>1 DEF NextSecond, RunsInv, Opened, Phase, Idle
      <4>2. QED
        BY <3>1, <4>1 DEF Free
    <3>2. CASE worker[v].pc # "idle"
      <4>1. worker'[v] = [worker[v] EXCEPT !.ends = Later(@)] /\ IsToken(worker[v])
        BY <3>2 DEF NextSecond, RunsInv, Shaped
      <4>2. QED
        BY <4>1 DEF Same, IsToken
    <3>3. QED
      BY <3>1, <3>2
  <2>3. QED
    BY <2>1, <2>2 DEF NextSecond, Quiet
<1>2. UNCHANGED cancelable
  BY DEF NextSecond
<1>3. Requested'
  <2>1. requests' = [s \in Server |->
          {[r EXCEPT !.ends = Later(@),
                     !.at = IF r.fn = "retry" THEN Later(@) ELSE @] :
             r \in requests[s] \ Spent(s)}]
    BY DEF NextSecond
  <2>2. ASSUME NEW s \in Server, NEW r \in requests'[s]
        PROVE  /\ IsRequest(r)
               /\ r.place \in {"channel", "list"} =>
                    r.worker \in Worker /\ run'[r.worker] = "open" /\ Srv(r.worker) = s
    <3>1. PICK q \in requests[s] :
            r = [q EXCEPT !.ends = Later(@), !.at = IF q.fn = "retry" THEN Later(@) ELSE @]
      BY <2>1, <2>2
    <3>2. IsRequest(q)
      BY DEF RunsInv, Requested
    <3>3. IsRequest(r) /\ r.place = q.place /\ r.worker = q.worker
      BY <3>1, <3>2 DEF IsRequest
    <3>4. QED
      BY <1>1, <3>3 DEF RunsInv, Requested, Quiet
  <2>3. QED
    BY <2>1, <2>2 DEF Requested
<1>4. QED
  BY <1>1, <1>2, <1>3, QuietOpened, QuietOwned DEF RunsInv, Quiet

\* The syncer takes requests from the channel and off its list.
LEMMA SyncerStep ==
  ASSUME RunsInv, NEW s \in Server, NEW r \in requests[s],
         Receive(s, r) \/ Sync(s, r) \/ SyncDrops(s, r)
  PROVE  RunsInv'
<1>1. UNCHANGED <<worker, run, cancelable>>
  BY DEF Receive, Sync, SyncDrops, allVars, procVars
<1>2. CASE Receive(s, r)
  <2> DEFINE q == [r EXCEPT !.place = "list"]
  <2>1. requests' = [requests EXCEPT ![s] = (@ \ {r}) \cup {q}]
    BY <1>2 DEF Receive
  <2>2. IsRequest(q) /\ q.worker = r.worker /\ r.place = "channel"
    BY <1>2 DEF Receive, RunsInv, Requested, IsRequest
  <2> HIDE DEF q
  <2>3. requests' = [t \in Server |-> requests'[t]]
    BY <2>1 DEF RunsInv, Requested
  <2>4. r.worker \in Worker /\ run[r.worker] = "open" /\ Srv(r.worker) = s
    BY <2>2 DEF RunsInv, Requested
  <2>5. ASSUME NEW t \in Server, NEW p \in requests'[t]
        PROVE  /\ IsRequest(p)
               /\ p.place \in {"channel", "list"} =>
                    p.worker \in Worker /\ run'[p.worker] = "open" /\ Srv(p.worker) = t
    <3>1. p \in requests[t] \/ (t = s /\ p = q)
      BY <2>1, <2>5 DEF RunsInv, Requested
    <3>2. CASE p \in requests[t]
      BY <1>1, <3>2 DEF RunsInv, Requested
    <3>3. CASE t = s /\ p = q
      BY <1>1, <2>2, <2>4, <3>3
    <3>4. QED
      BY <3>1, <3>2, <3>3
  <2>6. Requested'
    BY <2>3, <2>5 DEF Requested
  <2>7. QED
    BY <1>1, <2>6, Untold, QuietOpened, QuietOwned DEF RunsInv, Quiet
<1>3. CASE Sync(s, r) \/ SyncDrops(s, r)
  <2>1. requests' = requests \/ requests' = [requests EXCEPT ![s] = @ \ {r}]
    BY <1>3 DEF Sync, SyncDrops
  <2>2. Requested'
    BY <1>1, <2>1 DEF RunsInv, Requested
  <2>3. QED
    BY <1>1, <2>2, Untold, QuietOpened, QuietOwned DEF RunsInv, Quiet
<1>4. QED
  BY <1>2, <1>3

\* A request that the syncer tries was cancelled.
LEMMA SyncIs ==
  ASSUME RunsInv, NEW s \in Server, NEW r \in requests[s], Sync(s, r)
  PROVE  r.place # "list" /\ UNCHANGED vars
<1>1. r.place # "list"
  BY DEF Sync, RunsInv, Requested
<1>2. QED
  BY <1>1 DEF Sync

------------------------------------------------------------------------------
LEMMA QuietStep ==
  ASSUME RunsInv, Quiet, UNCHANGED <<cancelable, requests>> PROVE RunsInv'
BY QuietOpened, QuietOwned, QuietRequested DEF RunsInv, Quiet

LEMMA WorkerStep1 ==
  ASSUME RunsInv, NEW w \in Worker, WorkerGoesOn(w) PROVE RunsInv'
<1>1. CASE StartRun(w) \/ AddCancel(w)
  BY <1>1, StartRunStep, AddCancelStep
<1>2. CASE Concludes(w)
  BY <1>2, WorkersQuiet, QuietStep DEF Concludes, Untouched, syncVars
<1>3. CASE Answered(w)
  BY <1>3, WorkersQuiet, QuietStep DEF Answered, Untouched, syncVars
<1>4. CASE AnswerLost(w) \/ Refused(w)
  <2>1. /\ Act(w) \/ ActFails(w)
        /\ HandOver(w)
        /\ UNCHANGED <<run, cancelable>>
    BY <1>4 DEF AnswerLost, Refused, HandOver
  <2>2. worker[w].pc = "acting"
    BY <2>1 DEF Act, ActFails
  <2>3. Quiet
    BY <2>1, WorkersQuiet
  <2>4. QED
    BY <2>1, <2>2, <2>3, HandOverRequested, QuietOpened, QuietOwned DEF RunsInv, Quiet
<1>5. CASE CallReturns(w) \/ CancelRun(w) \/ DeleteCancel(w)
  BY <1>5, CallReturnsStep, CancelRunStep, DeleteCancelStep
<1>6. CASE End(w)
  BY <1>6, WorkersQuiet, QuietStep DEF End, Untouched, syncVars
<1>7. QED
  BY <1>1, <1>2, <1>3, <1>4, <1>5, <1>6 DEF WorkerGoesOn

LEMMA ServerStep1 ==
  ASSUME RunsInv, NEW s \in Server, ServerGoesOn(s) PROVE RunsInv'
<1>1. CASE HeartbeaterMoves(s) /\ Untouched
  BY <1>1, BeatQuiet, QuietStep DEF Untouched, syncVars
<1>2. CASE List(s) /\ Untouched
  BY <1>2, Untold, QuietStep DEF List, Untouched, syncVars
<1>3. CASE \E m \in expired[s] : Recovers(s, m)
  BY <1>3, Untold, QuietStep DEF Recovers, Recover, Untouched, syncVars
<1>4. CASE \E m \in expired[s] : RecoverFails(s, m) /\ Untouched
  BY <1>4, Untold, QuietStep DEF RecoverFails, Untouched, syncVars
<1>5. CASE ForwardsRetry(s) \/ ForwardsScheduled(s) \/ Cleans(s)
  BY <1>5, Untold, QuietStep DEF ForwardsRetry, ForwardsScheduled, Cleans, procVars,
                                 Untouched, syncVars
<1>6. CASE SyncerGoesOn(s)
  BY <1>6, SyncerStep DEF SyncerGoesOn
<1>7. CASE StopServer(s)
  BY <1>7, Untold, QuietStep DEF StopServer, Stop
<1>8. CASE CrashServer(s)
  BY <1>8, CrashStep
<1>9. CASE HandlerWrites(s) /\ Untouched
  BY <1>9, Untold, QuietStep DEF HandlerWrites, procVars, Untouched, syncVars
<1>10. QED
  BY <1>1, <1>2, <1>3, <1>4, <1>5, <1>6, <1>7, <1>8, <1>9 DEF ServerGoesOn

LEMMA RunsStep == RunsInv /\ [DeliveryNext]_lifeVars => RunsInv'
<1> SUFFICES ASSUME RunsInv, [DeliveryNext]_lifeVars PROVE RunsInv'
  OBVIOUS
<1>1. CASE (Submit \/ SubmitLater) /\ Untouched
  BY <1>1, Untold, QuietStep DEF Submit, SubmitLater, procVars, Untouched, syncVars
<1>2. CASE \E w \in Worker : (Take(w) \/ TakeLost(w)) /\ Untouched
  BY <1>2, WorkersQuiet, QuietStep DEF Untouched, syncVars
<1>3. CASE \E w \in Worker : WorkerGoesOn(w)
  BY <1>3, WorkerStep1
<1>4. CASE \E s \in Server : ServerGoesOn(s)
  BY <1>4, ServerStep1
<1>5. CASE TimePasses
  <2>1. CASE Tick /\ Untouched
    BY <2>1, Untold, QuietStep DEF Tick, Untouched, syncVars
  <2>2. QED
    BY <1>5, <2>1, TimeStep DEF TimePasses
<1>6. CASE UNCHANGED lifeVars
  BY <1>6, Untold, QuietStep DEF lifeVars, allVars, procVars, syncVars
<1>7. QED
  BY <1>1, <1>2, <1>3, <1>4, <1>5, <1>6 DEF DeliveryNext

\* No run has begun.
LEMMA RunsInit == DeliveryInit => RunsInv
BY DEF DeliveryInit, WorkersInit, RunsInv, Shaped, IsToken, Opened, Phase, Owned,
       Requested, Idle, NoEntry

\* The invariant of the runs, their cancel functions and their requests.
THEOREM RunsInductive == DeliverySpec => []RunsInv
BY RunsInit, RunsStep, PTL DEF DeliverySpec

\* A cancel function that is found belongs to a run of that task that has yet
\* to delete it.
THEOREM DeliveryNoLeak == DeliverySpec => []NoLeak
<1>1. RunsInv => NoLeak
  BY DEF RunsInv, Owned, Entered, NoLeak
<1>2. QED
  BY <1>1, RunsInductive, PTL

\* No try of the syncer reaches the broker: the context of each request on its
\* list is over when its turn comes.
THEOREM SyncerRetriesNothing ==
  DeliverySpec =>
    [][\A s \in Server : \A r \in requests[s] :
         Sync(s, r) => r.place # "list" /\ UNCHANGED vars]_lifeVars
<1>1. RunsInv /\ [DeliveryNext]_lifeVars =>
        [\A s \in Server : \A r \in requests[s] :
           Sync(s, r) => r.place # "list" /\ UNCHANGED vars]_lifeVars
  BY SyncIs
<1>2. QED
  BY <1>1, RunsInductive, PTL DEF DeliverySpec

------------------------------------------------------------------------------
(* The servers' steps, and the three that Workers does not have.           *)

\* A task is scheduled, or scheduled tasks have become due.
Aside == SubmitLater \/ \E s \in Server : ForwardsScheduled(s)

\* The clock does not leave the second.
Within1 == now' = now \/ (now' = now + 1 /\ now + 1 < Second)

\* A server that runs for ever takes the steps of Workers within a second; the
\* syncer's part in them is none.
LEMMA StepIs ==
  ASSUME RunsInv, [DeliveryNext]_lifeVars
  PROVE  ([WorkersNext]_allVars /\ Within1) \/ Aside \/ NextSecond
<1>u. UNCHANGED allVars => [WorkersNext]_allVars /\ UNCHANGED now
  BY DEF allVars
<1>n. UNCHANGED now => Within1
  BY DEF Within1
<1>1. CASE (Submit \/ SubmitLater) /\ Untouched
  BY <1>1, <1>n DEF Submit, WorkersNext, Aside
<1>2. ASSUME NEW w \in Worker, (Take(w) \/ TakeLost(w)) /\ Untouched
      PROVE  [WorkersNext]_allVars /\ UNCHANGED now
  BY <1>2 DEF Take, TakeLost, WorkersNext, WorkerMoves
<1>3. ASSUME NEW w \in Worker, WorkerGoesOn(w)
      PROVE  [WorkersNext]_allVars /\ UNCHANGED now
  <2>1. CASE AddCancel(w) \/ CallReturns(w) \/ CancelRun(w) \/ DeleteCancel(w)
    BY <1>u, <2>1 DEF AddCancel, CallReturns, CancelRun, DeleteCancel
  <2>2. ASSUME ~(AddCancel(w) \/ CallReturns(w) \/ CancelRun(w) \/ DeleteCancel(w))
        PROVE  WorkerMoves(w) /\ UNCHANGED now
    BY <1>3, <2>2 DEF WorkerGoesOn, StartRun, Concludes, Answered, AnswerLost, Refused,
                End, WorkerMoves, Register, Conclude, Act, ActFails, Finish
  <2>3. QED
    BY <2>1, <2>2 DEF WorkersNext
<1>4. ASSUME NEW s \in Server, ServerGoesOn(s)
      PROVE  ([WorkersNext]_allVars /\ UNCHANGED now) \/ Aside
  <2>1. CASE HeartbeaterMoves(s)
    BY <2>1 DEF WorkersNext, HeartbeaterMoves, BeginBeat, Extend, ExtendFails,
                ExtendLate, ResetLeases
  <2>2. CASE List(s) \/ \E m \in expired[s] : Recovers(s, m) \/ RecoverFails(s, m)
    BY <2>2 DEF WorkersNext, RecovererMoves, List, Recovers, Recover, RecoverFails
  <2>3. CASE ForwardsRetry(s) \/ Cleans(s)
    BY <2>3 DEF ForwardsRetry, Cleans, WorkersNext, Housekeeping
  <2>4. CASE ForwardsScheduled(s)
    BY <2>4 DEF Aside
  <2>5. ASSUME NEW r \in requests[s], Receive(s, r) \/ Sync(s, r) \/ SyncDrops(s, r)
        PROVE  UNCHANGED allVars
    <3>1. CASE Receive(s, r) \/ SyncDrops(s, r)
      BY <3>1 DEF Receive, SyncDrops
    <3>2. CASE Sync(s, r)
      BY <3>2, SyncIs DEF Sync, allVars
    <3>3. QED
      BY <2>5, <3>1, <3>2
  <2>6. CASE StopServer(s) \/ CrashServer(s)
    BY <2>6 DEF StopServer, CrashServer, Stop, Crash, WorkersNext
  <2>7. CASE HandlerWrites(s)
    BY <2>7 DEF HandlerWrites, WorkersNext
  <2>8. QED
    BY <1>4, <1>u, <2>1, <2>2, <2>3, <2>4, <2>5, <2>6, <2>7
       DEF ServerGoesOn, SyncerGoesOn
<1>5. CASE UNCHANGED lifeVars
  BY <1>5, <1>n, <1>u DEF lifeVars
<1>6. CASE now + 1 < Second /\ Tick
  BY <1>6 DEF Tick, WorkersNext, Within1
<1>7. QED
  BY <1>1, <1>2, <1>3, <1>4, <1>5, <1>6, <1>n DEF DeliveryNext, TimePasses

\* The two steps aside are scripts that no token, heartbeater or lease knows of.
LEMMA AsideIs ==
  ASSUME ServersInv, Aside
  PROVE  /\ [Next]_vars /\ Spares
         /\ UNCHANGED <<now, worker, watched, beat, expired, stopping, apart, active, lease>>
<1>1. CASE SubmitLater
  <2>1. PICK m \in Fresh \ Unique, at \in Time : Schedule(m, at)
    BY <1>1 DEF SubmitLater
  <2>2. m \in Copies
    BY DEF Fresh
  <2>3. Next
    BY <2>1 DEF Next, ClientStep
  <2>4. Spares /\ UNCHANGED <<active, lease>>
    BY <2>1, <2>2 DEF Schedule, WithMsg, Put, Spares
  <2>5. QED
    BY <1>1, <2>3, <2>4 DEF SubmitLater, procVars
<1>2. ASSUME NEW s \in Server, ForwardsScheduled(s)
      PROVE  /\ [Next]_vars /\ Spares
             /\ UNCHANGED <<now, worker, watched, beat, expired, stopping, apart, active, lease>>
  <2>1. ForwardScheduled(Clock(s)) /\ Clock(s) \in Time
    BY <1>2, ClockIs DEF ForwardsScheduled, ServersInv
  <2>2. Next
    BY <2>1 DEF Next, ServerStep
  <2> DEFINE ids == FirstOf(scheduled, UpTo(scheduled, Unix(Clock(s))), ForwardLimit)
  <2>3. ids \subseteq DOMAIN scheduled /\ "scheduled" \in State
    BY DEF FirstOf, UpTo, State
  <2>4. ids \subseteq DOMAIN task
    BY <2>3 DEF ServersInv, BrokerInv, IInv, ListedIsStored, Members
  <2>5. ForwardFrom(scheduled, ids)
    BY <2>1 DEF ForwardScheduled
  <2> HIDE DEF ids
  <2>6. /\ active' = active /\ lease' = lease
        /\ task' = [x \in DOMAIN task \cup ids |->
                      IF x \in ids THEN Restated(x, "pending") ELSE task[x]]
    BY <2>5 DEF ForwardFrom
  <2>7. Spares
    BY <2>4, <2>6 DEF Restated, Spares
  <2>8. QED
    BY <1>2, <2>2, <2>6, <2>7 DEF ForwardsScheduled, procVars
<1>3. QED
  BY <1>1, <1>2 DEF Aside

LEMMA AsideLeaseInv ==
  ASSUME LeaseInv, Aside, [~Aborting]_vars PROVE LeaseInv'
<1>i. ServersInv
  BY DEF LeaseInv
<1>1. /\ UNCHANGED <<now, worker, watched, beat, expired, stopping, apart>>
      /\ UNCHANGED <<active, lease>>
  BY <1>i, AsideIs
<1>2. IInv' /\ Carries(task)'
  BY <1>i, AsideIs, StepInv, CarriesStep DEF ServersInv, BrokerInv
<1>3. WorkersTypeOK' /\ Manned' /\ Timely'
  BY <1>i, <1>1 DEF ServersInv, WorkersTypeOK, Manned, Timely, Readings, Clock, apart
<1>4. ServersInv'
  BY <1>2, <1>3 DEF ServersInv, BrokerInv
<1>5. Bounded' /\ Watching' /\ Beating'
  BY <1>1 DEF LeaseInv, Bounded, Watching, Beating, Clock
<1>6. Promised' /\ LeaseCovers'
  BY <1>1 DEF LeaseInv, Promised, LeaseCovers, Holds
<1>7. QED
  BY <1>4, <1>5, <1>6 DEF LeaseInv

------------------------------------------------------------------------------
(* As time passes.                                                         *)

\* A time comes closer, or has been reached long ago.
LEMMA LaterIs ==
  ASSUME NEW t \in Int
  PROVE  /\ Later(t) \in Int
         /\ t \in Within => Later(t) \in Within
BY FloorAssumption, SizeAssumption, SkewAssumption, TimeAssumption DEF Later, Within

\* Two times stay in their order, but for k: not even when one of the two is
\* no longer counted down do they part.
LEMMA LaterKeeps ==
  ASSUME NEW a \in Int, NEW b \in Int, NEW j \in Nat, NEW k \in Nat, a + j >= b - k
  PROVE  Later(a) + j >= Later(b) - k
BY FloorAssumption, TimeAssumption DEF Later

\* A time that the clock has not passed by more than n stays so.
LEMMA LaterSoon ==
  ASSUME NEW c \in Int, NEW d \in Int, d >= 0, d = c + 1 - Second,
         NEW n \in Nat, NEW a \in Int
  PROVE  /\ a =< c + n => Later(a) =< d + n
         /\ d =< Later(a) + Transit => c =< a + Transit
BY FloorAssumption, TimeAssumption, MarginAssumption DEF Later

\* The sorted sets keep their members.
LEMMA AgedIs ==
  ASSUME NEW z, Partial(z, Int)
  PROVE  /\ Partial(Aged(z), Int) /\ DOMAIN Aged(z) = DOMAIN z
         /\ \A x \in DOMAIN z : Aged(z)[x] = Later(z[x])
BY LaterIs DEF Partial, Aged

LEMMA AgedBroker ==
  ASSUME BrokerInv, NextSecond PROVE BrokerInv'
<1>1. /\ UNCHANGED <<pending, active, task, lock, paused>>
      /\ lease' = Aged(lease) /\ scheduled' = Aged(scheduled) /\ retry' = Aged(retry)
      /\ archived' = Aged(archived) /\ completed' = Aged(completed)
  BY DEF NextSecond
<1>2. /\ Partial(lease', Int) /\ DOMAIN lease' = DOMAIN lease
      /\ Partial(scheduled', Int) /\ DOMAIN scheduled' = DOMAIN scheduled
      /\ Partial(retry', Int) /\ DOMAIN retry' = DOMAIN retry
      /\ Partial(archived', Int) /\ DOMAIN archived' = DOMAIN archived
      /\ Partial(completed', Int) /\ DOMAIN completed' = DOMAIN completed
  BY <1>1, AgedIs DEF BrokerInv, IInv, TypeOK
<1>3. TypeOK'
  BY <1>1, <1>2 DEF BrokerInv, IInv, TypeOK
<1>4. Members' = Members
  BY <1>1, <1>2 DEF Members
<1>5. ListedIsStored' /\ StoredIsListed'
  BY <1>1, <1>4 DEF BrokerInv, IInv, ListedIsStored, StoredIsListed
<1>6. PendingOnce' /\ LeasedIffActive' /\ Carries(task)'
  BY <1>1, <1>2 DEF BrokerInv, IInv, PendingOnce, LeasedIffActive, Carries
<1>7. QED
  BY <1>3, <1>5, <1>6 DEF BrokerInv, IInv

\* A run keeps all but the end of its lease.
LEMMA AgedToken ==
  ASSUME WorkersTypeOK, NextSecond, NEW w \in Worker
  PROVE  /\ worker'[w] \in Goroutine
         /\ worker'[w].pc = worker[w].pc
         /\ worker[w].pc = "idle" => worker'[w] = Idle
         /\ worker[w].pc # "idle" =>
              /\ worker'[w].msg = worker[w].msg /\ worker'[w].outcome = worker[w].outcome
              /\ worker'[w].ends = Later(worker[w].ends)
<1> DEFINE e == Later(worker[w].ends)
           g == [worker[w] EXCEPT !.ends = e]
<1>1. worker[w] \in Goroutine /\ worker[w].ends \in Int
  BY DEF WorkersTypeOK, Goroutine
<1>2. e \in Int
  BY <1>1, LaterIs
<1>3. worker'[w] = IF worker[w].pc = "idle" THEN Idle ELSE g
  BY DEF NextSecond
<1> HIDE DEF e
<1>4. /\ g \in Goroutine /\ g.pc = worker[w].pc /\ g.msg = worker[w].msg
      /\ g.outcome = worker[w].outcome /\ g.ends = e
  BY <1>1, <1>2 DEF Goroutine
<1> HIDE DEF g
<1>5. QED
  BY <1>3, <1>4, IdleIs DEF e

LEMMA AgedBeat ==
  ASSUME WorkersTypeOK, NextSecond, NEW s \in Server
  PROVE  /\ beat'[s] \in Beat
         /\ beat'[s].pc = beat[s].pc /\ beat'[s].ids = beat[s].ids
         /\ beat'[s].ends = IF beat[s].pc # "reset" THEN beat[s].ends
                            ELSE Later(beat[s].ends)
<1> DEFINE e == Later(beat[s].ends)
           b == [beat[s] EXCEPT !.ends = e]
<1>1. beat[s] \in Beat /\ beat[s].ends \in Int
  BY DEF WorkersTypeOK, Beat
<1>2. e \in Int
  BY <1>1, LaterIs
<1>3. beat'[s] = IF beat[s].pc # "reset" THEN beat[s] ELSE b
  BY DEF NextSecond
<1> HIDE DEF e
<1>4. b \in Beat /\ b.pc = beat[s].pc /\ b.ids = beat[s].ids /\ b.ends = e
  BY <1>1, <1>2 DEF Beat
<1> HIDE DEF b
<1>5. QED
  BY <1>1, <1>3, <1>4 DEF e

LEMMA AnewIs ==
  ASSUME NextSecond
  PROVE  now + 1 = Second /\ now' = 0 /\ Second \in Nat \ {0} /\ now' \in 0..(Second - 1)
<1>1. now + 1 = Second /\ now' = 0
  BY DEF NextSecond
<1>2. 0 \in 0..(Second - 1) /\ Second \in Nat \ {0}
  BY TimeAssumption
<1>3. QED
  BY <1>1, <1>2

\* What may still come late is shifted with the clock.
LEMMA AgedLate ==
  ASSUME WorkersTypeOK, Timely, NextSecond
  PROVE  late' \in [Server -> SUBSET Extension] /\ Timely'
<1>1. /\ late \in [Server -> SUBSET Extension] /\ now + 1 = Second /\ now' = 0
      /\ now \in Int /\ Second \in Int /\ Delay \in Int
  BY AnewIs, MarginAssumption, ClockAssumption DEF WorkersTypeOK
<1>2. late' = [s \in Server |->
        {[c EXCEPT !.at = @ - Second] : c \in {d \in late[s] : Clock(s) < d.at + Delay}}]
  BY DEF NextSecond
<1>3. ASSUME NEW s \in Server, NEW e \in late'[s]
      PROVE  e \in Extension /\ e.at \in Readings(s)'
  <2>1. PICK c \in late[s] : Clock(s) < c.at + Delay /\ e = [c EXCEPT !.at = @ - Second]
    BY <1>2, <1>3
  <2>2. c \in Extension /\ c.at \in Int /\ c.at \in (Clock(s) - Delay)..Clock(s)
    BY <1>1 DEF Timely, Readings, Extension
  <2>3. c.at - Second \in Int
    BY <1>1, <2>2
  <2>4. e \in Extension /\ e.at = c.at - Second
    BY <2>1, <2>2, <2>3 DEF Extension
  <2>5. Clock(s) \in Int /\ Clock(s)' = Clock(s) + 1 - Second /\ Clock(s)' \in Int
    BY <1>1, SkewAssumption DEF Clock
  <2>6. e.at \in (Clock(s)' - Delay)..Clock(s)'
    BY <1>1, <2>1, <2>2, <2>3, <2>4, <2>5
  <2>7. QED
    BY <2>4, <2>6 DEF Readings
<1>4. QED
  BY <1>2, <1>3 DEF Timely

\* A server's clock begins its second anew.
LEMMA ClockAnew ==
  ASSUME WorkersTypeOK, NextSecond, NEW s \in Server
  PROVE  /\ Clock(s) \in Int /\ Clock(s)' \in Int /\ Clock(s)' >= 0
         /\ Clock(s)' = Clock(s) + 1 - Second
         /\ now \in Int /\ now' = 0 /\ now + 1 = Second /\ Second \in Nat \ {0}
<1>1. Skew[s] \in Nat /\ now \in Int
  BY SkewAssumption, ClockAssumption DEF WorkersTypeOK
<1>2. QED
  BY <1>1, AnewIs DEF Clock

LEMMA AgedServers ==
  ASSUME ServersInv, NextSecond PROVE ServersInv'
<1>i. BrokerInv /\ WorkersTypeOK /\ Manned /\ Timely
  BY DEF ServersInv
<1>1. BrokerInv'
  BY <1>i, AgedBroker
<1>2. worker' = [w \in Worker |-> worker'[w]] /\ beat' = [s \in Server |-> beat'[s]]
  BY DEF NextSecond
<1>3. worker' \in [Worker -> Goroutine] /\ beat' \in [Server -> Beat]
  BY <1>i, <1>2, AgedToken, AgedBeat
<1>4. UNCHANGED <<watched, expired, stopping, handlers>> /\ now' = 0
  BY DEF NextSecond
<1>5. now' \in 0..MaxNow
  BY <1>4, ClockAssumption
<1>6. late' \in [Server -> SUBSET Extension] /\ Timely'
  BY <1>i, AgedLate
<1>7. WorkersTypeOK'
  BY <1>i, <1>3, <1>4, <1>5, <1>6 DEF WorkersTypeOK
<1>8. Manned'
  BY <1>i, AgedToken DEF Manned
<1>9. QED
  BY <1>1, <1>6, <1>7, <1>8 DEF ServersInv

\* No lease in a worker's memory gets ahead of the broker's.
LEMMA AgedLeases ==
  ASSUME LeaseInv, NextSecond PROVE LeaseInv'
<1>i. /\ ServersInv /\ BrokerInv /\ WorkersTypeOK /\ Bounded
      /\ DOMAIN lease = active /\ Partial(lease, Int)
  BY DEF LeaseInv, ServersInv, BrokerInv, IInv, LeasedIffActive, TypeOK
<1>1. ServersInv'
  BY <1>i, AgedServers
<1>t. UNCHANGED <<active, watched>> /\ lease' = Aged(lease)
  BY DEF NextSecond
<1>l. \A x \in active : lease[x] \in Int /\ lease'[x] = Later(lease[x])
  BY <1>i, <1>t, AgedIs DEF Partial
<1>2. Bounded'
  <2>1. ASSUME NEW w \in Worker
        PROVE  worker'[w].ends =< Clock(Srv(w))' + LeaseDuration
    <3> DEFINE c == Clock(Srv(w))
               d == Clock(Srv(w))'
    <3>1. c \in Int /\ d \in Int /\ d >= 0 /\ d = c + 1 - Second
      BY <1>i, ServerIs, ClockAnew
    <3>2. worker[w].ends \in Int /\ worker[w].ends =< c + LeaseDuration
      BY <1>i DEF Bounded, WorkersTypeOK, Goroutine
    <3>3. worker'[w].ends = 0 \/ worker'[w].ends = Later(worker[w].ends)
      BY <1>i, AgedToken, IdleIs
    <3> HIDE DEF c, d
    <3>4. worker'[w].ends =< d + LeaseDuration
      BY <3>1, <3>2, <3>3, LaterSoon, SizeAssumption
    <3>5. QED
      BY <3>4 DEF d
  <2>2. ASSUME NEW s \in Server, beat'[s].pc = "reset"
        PROVE  beat'[s].ends =< Clock(s)' + LeaseDuration
    <3>1. /\ Clock(s) \in Int /\ Clock(s)' \in Int /\ Clock(s)' >= 0
          /\ Clock(s)' = Clock(s) + 1 - Second
      BY <1>i, ClockAnew
    <3>2. /\ beat[s].ends \in Int /\ beat[s].pc = "reset"
          /\ beat'[s].ends = Later(beat[s].ends)
      BY <1>i, <2>2, AgedBeat DEF WorkersTypeOK, Beat
    <3>3. beat[s].ends =< Clock(s) + LeaseDuration
      BY <1>i, <3>2 DEF Bounded
    <3>4. QED
      BY <3>1, <3>2, <3>3, LaterSoon, SizeAssumption
  <2>3. QED
    BY <2>1, <2>2 DEF Bounded
<1>3. Watching'
  <2>1. ASSUME NEW s \in Server, NEW id \in DOMAIN watched[s]
        PROVE  /\ Srv(watched[s][id]) = s
               /\ worker'[watched[s][id]].pc # "idle"
               /\ worker'[watched[s][id]].msg.id = id
    <3>1. /\ watched[s][id] \in Worker /\ Srv(watched[s][id]) = s
          /\ worker[watched[s][id]].pc # "idle"
          /\ worker[watched[s][id]].msg.id = id
      BY <1>i DEF LeaseInv, Watching, WorkersTypeOK, Partial
    <3>2. QED
      BY <1>i, <3>1, AgedToken
  <2>2. QED
    BY <1>t, <2>1 DEF Watching
<1>4. Beating'
  BY <1>i, <1>t, AgedBeat DEF LeaseInv, Beating
<1>5. Promised'
  <2> SUFFICES ASSUME NEW s \in Server, beat'[s].pc = "reset",
                      NEW id \in beat'[s].ids, id \in active
               PROVE  lease'[id] + Lag >= beat'[s].ends - Skew[s]
    BY <1>t DEF Promised
  <2>1. /\ beat[s].pc = "reset" /\ id \in beat[s].ids
        /\ beat'[s].ends = Later(beat[s].ends) /\ beat[s].ends \in Int
    BY <1>i, AgedBeat DEF WorkersTypeOK, Beat
  <2>2. lease[id] + Lag >= beat[s].ends - Skew[s]
    BY <2>1 DEF LeaseInv, Promised
  <2>3. Skew[s] \in Nat /\ Lag \in Nat
    BY SkewAssumption, LagIs
  <2>4. QED
    BY <1>l, <2>1, <2>2, <2>3, LaterKeeps
<1>6. LeaseCovers'
  <2> SUFFICES ASSUME NEW w \in Worker, NEW id \in active, Holds(w, id)'
               PROVE  lease'[id] + Lag >= worker'[w].ends - Skew[Srv(w)]
    BY <1>t DEF LeaseCovers
  <2>1. /\ Holds(w, id) /\ worker[w].ends \in Int
        /\ worker'[w].ends = Later(worker[w].ends)
    BY <1>i, AgedToken DEF Holds, WorkersTypeOK, Goroutine
  <2>2. lease[id] + Lag >= worker[w].ends - Skew[Srv(w)]
    BY <2>1 DEF LeaseInv, LeaseCovers
  <2>3. Skew[Srv(w)] \in Nat /\ Lag \in Nat
    BY ServerIs, SkewAssumption, LagIs
  <2>4. QED
    BY <1>l, <2>1, <2>2, <2>3, LaterKeeps
<1>7. QED
  BY <1>1, <1>2, <1>3, <1>4, <1>5, <1>6 DEF LeaseInv

------------------------------------------------------------------------------
(* What holds however long the servers run.                                *)

LastingInv == RunsInv /\ LeaseInv

LEMMA LastingStep ==
  LastingInv /\ [DeliveryNext]_lifeVars /\ [~Aborting]_vars => LastingInv'
BY RunsStep, StepIs, LeaseInvStep, AsideLeaseInv, AgedLeases DEF LastingInv

LEMMA LastingInductive == DeliverySpec /\ NoAbort => []LastingInv
<1>1. DeliveryInit => LeaseInv
  BY LeaseInit DEF DeliveryInit
<1>2. DeliveryInit => RunsInv
  BY RunsInit
<1>3. QED
  BY <1>1, <1>2, LastingStep, PTL DEF DeliverySpec, NoAbort, LastingInv

\* Whatever crashes, fails or is late, and for how long: the broker's lease of
\* an active task ends at most Lag before the one a worker believes to have.
THEOREM LeasesStayCovered == DeliverySpec /\ NoAbort => []LeaseCovers
<1>1. LastingInv => LeaseCovers
  BY DEF LastingInv, LeaseInv
<1>2. QED
  BY <1>1, LastingInductive, PTL

\* And it ends: a server that is gone leaves no lease that lasts longer than
\* LeaseDuration, however long the servers ran before.
THEOREM LeasesKeepEnding == DeliverySpec /\ NoAbort => []LeasesEnd
<1>1. DeliveryInit => LeasesEnd
  BY DEF DeliveryInit, WorkersInit, Init, LeasesEnd
<1>2. LastingInv /\ LeasesEnd /\ [DeliveryNext]_lifeVars /\ [~Aborting]_vars
        => LeasesEnd'
  <2> SUFFICES ASSUME LastingInv, LeasesEnd, [DeliveryNext]_lifeVars, [~Aborting]_vars
               PROVE  LeasesEnd'
    OBVIOUS
  <2>1. CASE [WorkersNext]_allVars
    BY <2>1, LeasesEndStep DEF LastingInv
  <2>2. CASE Aside
    BY <2>2, AsideIs DEF LastingInv, LeaseInv, LeasesEnd
  <2>3. CASE NextSecond
    <3>1. /\ UNCHANGED active /\ lease' = Aged(lease)
          /\ now' = 0 /\ now + 1 = Second
      BY <2>3 DEF NextSecond
    <3>2. DOMAIN lease = active /\ Partial(lease, Int) /\ now \in Int
      BY DEF LastingInv, LeaseInv, ServersInv, WorkersTypeOK, BrokerInv, IInv,
             LeasedIffActive, TypeOK
    <3>3. \A x \in active : lease'[x] = Later(lease[x]) /\ lease[x] \in Int
      BY <3>1, <3>2, AgedIs DEF Partial
    <3>4. Spread + LeaseDuration \in Nat
      BY SkewAssumption, SizeAssumption
    <3> DEFINE n == Spread + LeaseDuration
    <3> HIDE DEF n
    <3>5. n \in Nat /\ 0 \in Int /\ 0 = now + 1 - Second
      BY <3>1, <3>2, <3>4, TimeAssumption DEF n
    <3>6. \A x \in active : lease[x] =< now + n
      BY <3>2, <3>3, SkewAssumption, SizeAssumption DEF LeasesEnd, n
    <3>7. ASSUME NEW x \in active PROVE Later(lease[x]) =< 0 + n
      <4>1. lease[x] \in Int /\ lease[x] =< now + n
        BY <3>3, <3>6
      <4>2. 0 >= 0
        OBVIOUS
      <4>3. QED
        BY <3>2, <3>5, <4>1, <4>2, LaterSoon
    <3>8. QED
      BY <3>1, <3>3, <3>7, SkewAssumption, SizeAssumption DEF LeasesEnd, n
  <2>4. QED
    BY <2>1, <2>2, <2>3, StepIs DEF LastingInv
<1>3. QED
  BY <1>1, <1>2, LastingInductive, PTL DEF DeliverySpec, NoAbort

\* However often workers come and go under the same ID, the heartbeater
\* prolongs leases only for those that still have the task.
THEOREM WatchedStaysHeld == DeliverySpec /\ NoAbort => []WatchedIsHeld
<1>1. LastingInv => WatchedIsHeld
  BY DEF LastingInv, LeaseInv, Watching, WatchedIsHeld
<1>2. QED
  BY <1>1, LastingInductive, PTL

\* Nothing is lost in the long run either: what waits is in the list or set its
\* hash names, once, and what is active can be recovered.
THEOREM BrokerStaysSound ==
  DeliverySpec /\ NoAbort =>
    [](ListedIsStored /\ StoredIsListed /\ PendingOnce /\ LeasedIffActive)
<1>1. LastingInv => ListedIsStored /\ StoredIsListed /\ PendingOnce /\ LeasedIffActive
  BY DEF LastingInv, LeaseInv, ServersInv, BrokerInv, IInv
<1>2. QED
  BY <1>1, LastingInductive, PTL

\* At no time does a recoverer list a task that a worker may still conclude.
THEOREM GraceStaysSufficient == DeliverySpec /\ NoAbort => ListsOnlyAbandoned
<1>1. LastingInv /\ [DeliveryNext]_lifeVars =>
        [\A s \in Server : \A m \in expired'[s] \ expired[s] :
           \A w \in Worker : ~MayAct(w, m.id)]_allVars
  <2> SUFFICES ASSUME LastingInv, [DeliveryNext]_lifeVars,
                      NEW s \in Server, NEW m \in expired'[s] \ expired[s],
                      NEW w \in Worker
               PROVE  ~MayAct(w, m.id)
    OBVIOUS
  <2>1. CASE [WorkersNext]_allVars
    BY <2>1, ListStep DEF LastingInv
  <2>2. CASE Aside
    BY <2>2, AsideIs DEF LastingInv, LeaseInv
  <2>3. CASE NextSecond
    BY <2>3 DEF NextSecond
  <2>4. QED
    BY <2>1, <2>2, <2>3, StepIs DEF LastingInv
<1>2. QED
  BY <1>1, LastingInductive, PTL DEF DeliverySpec, ListsOnlyAbandoned

\* The broker's contents move as TaskLifecycle says while servers and time go
\* on: an accepted task leaves the queue only when it was run or the archive or
\* its retention lets it go.
THEOREM DeliveryRefinesLifecycle == DeliverySpec /\ NoAbort => LifecycleSpec
<1>1. DeliveryInit => Lifecycle!Init
  BY DEF DeliveryInit, WorkersInit, Init, NoEntry, Lifecycle!Init, stageOf
<1>2. LastingInv /\ [DeliveryNext]_lifeVars /\ [~Aborting]_vars =>
        [Lifecycle!Next]_stageOf
  <2> SUFFICES ASSUME LastingInv, [DeliveryNext]_lifeVars, [~Aborting]_vars
               PROVE  Lifecycle!Next \/ UNCHANGED stageOf
    OBVIOUS
  <2>1. ServersInv /\ TypeOK /\ Core
    BY CoreIs DEF LastingInv, LeaseInv, ServersInv, BrokerInv, IInv
  <2>2. CASE [WorkersNext]_allVars
    BY <2>1, <2>2, ServersStep, LifecycleStep
  <2>3. CASE Aside
    BY <2>1, <2>3, AsideIs, LifecycleStep
  <2>4. CASE NextSecond
    BY <2>4, NoMove DEF NextSecond
  <2>5. QED
    BY <2>2, <2>3, <2>4, StepIs DEF LastingInv
<1>3. QED
  BY <1>1, <1>2, LastingInductive, PTL
     DEF DeliverySpec, NoAbort, LifecycleSpec, Lifecycle!Spec

------------------------------------------------------------------------------
(* One server.                                                             *)

\* Where no call is made, a worker that may act could before.
LEMMA AgedMayAct ==
  ASSUME ServersInv, NextSecond, NEW w \in Worker, NEW id \in TaskID, MayAct(w, id)'
  PROVE  MayAct(w, id) /\ worker'[w].msg = worker[w].msg
<1>i. WorkersTypeOK /\ worker[w].ends \in Int
  BY DEF ServersInv, WorkersTypeOK, Goroutine
<1>1. Holds(w, id)' /\ Clock(Srv(w))' =< worker'[w].ends + Transit
  BY DEF MayAct, InTime
<1>2. /\ Holds(w, id) /\ worker'[w].msg = worker[w].msg
      /\ worker'[w].ends = Later(worker[w].ends)
  BY <1>i, <1>1, AgedToken DEF Holds
<1>3. /\ Clock(Srv(w)) \in Int /\ Clock(Srv(w))' \in Int /\ Clock(Srv(w))' >= 0
      /\ Clock(Srv(w))' = Clock(Srv(w)) + 1 - Second
  BY <1>i, ServerIs, ClockAnew
<1>4. Clock(Srv(w)) =< worker[w].ends + Transit
  <2>1. \A n \in Nat : Clock(Srv(w)) =< worker[w].ends + Transit
    BY <1>i, <1>1, <1>2, <1>3, LaterSoon
  <2>2. QED
    BY <2>1, MarginAssumption
<1>5. QED
  BY <1>2, <1>4 DEF MayAct, InTime

\* A step that leaves tokens, list and messages alone lets nobody act anew.
LEMMA HolderStays ==
  ASSUME HolderInv, LeaseInv', Spares, UNCHANGED expired,
         \A w \in Worker : \A id \in TaskID :
           MayAct(w, id)' => MayAct(w, id) /\ worker'[w].msg = worker[w].msg
  PROVE  HolderInv'
<1>2. \A x \in active : x \in active' /\ task'[x].msg = task[x].msg
  <2> SUFFICES ASSUME NEW x \in active PROVE x \in active' /\ task'[x].msg = task[x].msg
    OBVIOUS
  <2>1. x \in active'
    BY DEF Spares
  <2>2. x \in DOMAIN task
    BY ActiveIs DEF HolderInv, LeaseInv, ServersInv
  <2>3. x \in DOMAIN task'
    <3>1. ListedIsStored' /\ "active" \in State /\ Members'["active"] = active'
      BY DEF LeaseInv, ServersInv, BrokerInv, IInv, State, Members
    <3>2. QED
      BY <2>1, <3>1 DEF ListedIsStored
  <2>4. QED
    BY <2>1, <2>2, <2>3 DEF Spares
<1>3. HasTask'
  BY <1>2 DEF HolderInv, HasTask
<1>4. OneHolder'
  BY DEF HolderInv, OneHolder
<1>5. Abandoned'
  <2>1. \A s \in Server : \A m \in expired[s] : m.id \in TaskID
    BY DEF HolderInv, LeaseInv, ServersInv, WorkersTypeOK, Copies
  <2>2. QED
    BY <1>2, <2>1 DEF HolderInv, Abandoned
<1>6. QED
  BY <1>3, <1>4, <1>5 DEF HolderInv

LEMMA LastingHolderStep ==
  ASSUME OneServer, LastingInv, HolderInv, LeaseInv', [DeliveryNext]_lifeVars,
         [~Aborting]_vars
  PROVE  HolderInv'
<1>i. ServersInv /\ RunsInv
  BY DEF LastingInv, LeaseInv
<1>1. CASE [WorkersNext]_allVars
  BY <1>1, HolderStep
<1>2. CASE Aside
  <2>1. Spares /\ UNCHANGED <<now, worker, expired>>
    BY <1>i, <1>2, AsideIs
  <2>2. \A w \in Worker : \A id \in TaskID :
          MayAct(w, id)' => MayAct(w, id) /\ worker'[w].msg = worker[w].msg
    BY <2>1 DEF MayAct, Holds, InTime, Clock
  <2>3. QED
    BY <2>1, <2>2, HolderStays
<1>3. CASE NextSecond
  <2>1. UNCHANGED <<active, task, expired>>
    BY <1>3 DEF NextSecond
  <2>0. Spares
    BY <2>1 DEF Spares
  <2>2. QED
    BY <1>i, <1>3, <2>0, <2>1, AgedMayAct, HolderStays
<1>4. QED
  BY <1>i, <1>1, <1>2, <1>3, StepIs

LEMMA LastingHolder == ASSUME OneServer PROVE DeliverySpec /\ NoAbort => []HolderInv
<1>1. DeliveryInit => HasTask /\ OneHolder /\ Abandoned
  BY HolderInit DEF DeliveryInit
<1>2. LastingInv /\ HolderInv /\ LastingInv' /\ [DeliveryNext]_lifeVars
        /\ [~Aborting]_vars => HolderInv'
  BY LastingHolderStep DEF LastingInv
<1>3. LastingInv /\ HasTask /\ OneHolder /\ Abandoned => HolderInv
  BY DEF HolderInv, LastingInv
<1>4. QED
  BY <1>1, <1>2, <1>3, LastingInductive, PTL DEF DeliverySpec, NoAbort

\* A single server, however long it runs and however often it crashes, has no
\* two workers that may conclude the same task.
THEOREM OneHolderForEver == ASSUME OneServer PROVE DeliverySpec /\ NoAbort => []OneHolder
<1>1. HolderInv => OneHolder
  BY DEF HolderInv
<1>2. QED
  BY <1>1, LastingHolder, PTL

\* Nor does its recoverer ever conclude a task that a worker may conclude.
THEOREM RecoveryForEver ==
  ASSUME OneServer PROVE DeliverySpec /\ NoAbort => RecoversOnlyAbandoned
<1>1. HolderInv /\ [DeliveryNext]_lifeVars =>
        [\A s \in Server : \A m \in expired[s] \ expired'[s] :
           m.id \in active \ active' => \A w \in Worker : ~MayAct(w, m.id)]_allVars
  BY DEF HolderInv, Abandoned
<1>2. QED
  BY <1>1, LastingHolder, PTL DEF DeliverySpec, RecoversOnlyAbandoned

\* And no late call takes a retry back: for as long as a task exists, each of
\* its attempts stays counted.
THEOREM RetriesForEver ==
  ASSUME OneServer PROVE DeliverySpec /\ NoAbort => RetriesKept
<1>1. LastingInv /\ HolderInv /\ [DeliveryNext]_lifeVars =>
        [\A id \in DOMAIN task \cap DOMAIN task' : task[id].msg # NoMsg =>
           /\ task'[id].msg # NoMsg
           /\ task'[id].msg.retried >= task[id].msg.retried]_allVars
  <2> SUFFICES ASSUME LastingInv, HolderInv, [DeliveryNext]_lifeVars,
                      NEW id \in DOMAIN task, id \in DOMAIN task', task[id].msg # NoMsg
               PROVE  /\ task'[id].msg # NoMsg
                      /\ task'[id].msg.retried >= task[id].msg.retried
    OBVIOUS
  <2>1. CASE [WorkersNext]_allVars
    BY <2>1, RetriesStep
  <2>2. CASE Spares
    <3>1. task'[id].msg = task[id].msg
      BY <2>2 DEF Spares
    <3>2. task[id].msg.retried \in Nat
      BY DEF HolderInv, LeaseInv, ServersInv, BrokerInv, Carries, Copies
    <3>3. QED
      BY <3>1, <3>2
  <2>3. CASE Aside
    BY <2>2, <2>3, AsideIs DEF LastingInv, LeaseInv
  <2>4. CASE NextSecond
    BY <2>2, <2>4 DEF NextSecond, Spares
  <2>5. QED
    BY <2>1, <2>3, <2>4, StepIs DEF LastingInv
<1>2. QED
  BY <1>1, LastingInductive, LastingHolder, PTL DEF DeliverySpec, RetriesKept

------------------------------------------------------------------------------
(* The types of Delivery.                                                  *)

\* With the clock in its first second, every end of a lease is near.
Ranges == /\ now \in 0..(Second - 1)
          /\ \A w \in Worker : worker[w].ends \in Within
          /\ \A s \in Server : beat[s].ends \in Within

\* Who makes a call has decided which.
Decided == \A w \in Worker : worker[w].pc = "acting" => worker[w].outcome \in Outcome

\* What the syncer and Cancelations keep.
SyncTypes ==
  /\ \A s \in Server :
       cancelable[s] = [id \in DOMAIN cancelable[s] |-> cancelable[s][id]]
  /\ \A s \in Server : requests[s] \subseteq Request
  /\ stops \in [Server -> 0..MaxStops]

TypesInv == LastingInv /\ Ranges /\ Decided /\ SyncTypes

\* A server's clock, and what it promises, are in the range.
LEMMA PromiseIs ==
  ASSUME WorkersTypeOK, now \in 0..(Second - 1), NEW s \in Server, NEW t \in Readings(s)
  PROVE  t + LeaseDuration \in Within
<1>1. /\ Skew[s] \in 0..Spread /\ Spread \in Nat /\ Delay \in Nat /\ Delay < Grace
      /\ Grace =< Floor /\ Floor \in Nat /\ Grace \in Nat /\ LeaseDuration \in Nat
      /\ Second \in Nat \ {0}
  BY SkewAssumption, MarginAssumption, FloorAssumption, TimeAssumption, SizeAssumption
     DEF Lag
<1>2. t \in (now + Skew[s] - Delay)..(now + Skew[s])
  BY <1>1 DEF Readings, Clock
<1>3. QED
  BY <1>1, <1>2 DEF Within

LEMMA NearIs == 0 \in Within
BY FloorAssumption, SizeAssumption, SkewAssumption, TimeAssumption DEF Within

LEMMA RangesStep ==
  ASSUME LastingInv, Ranges, [DeliveryNext]_lifeVars PROVE Ranges'
<1>i. /\ ServersInv /\ WorkersTypeOK /\ Watching /\ Beating /\ RunsInv /\ now \in 0..(Second - 1)
  BY DEF LastingInv, LeaseInv, ServersInv, Ranges
<1>z. 0 \in Within
  BY NearIs
<1>1. CASE [WorkersNext]_allVars /\ Within1
  <2>1. ASSUME NEW w \in Worker PROVE worker'[w].ends \in Within
    <3>1. CASE worker'[w].ends = worker[w].ends
      BY <3>1 DEF Ranges
    <3>2. CASE worker'[w] = Idle
      BY <1>z, <3>2, IdleIs
    <3>3. CASE Take(w)
      <4>1. PICK r \in Goroutine :
              /\ worker' = [worker EXCEPT ![w] = r]
              /\ \E t \in Readings(Srv(w)) : r.ends = t + LeaseDuration
        BY <1>i, <3>3, TakeIs DEF ServersInv
      <4>2. worker'[w].ends = r.ends
        BY <1>i, <4>1 DEF WorkersTypeOK
      <4>3. QED
        BY <1>i, <4>1, <4>2, ServerIs, PromiseIs
    <3>4. ASSUME NEW s \in Server, worker'[w].ends = beat[s].ends
          PROVE  worker'[w].ends \in Within
      BY <3>4 DEF Ranges
    <3>5. QED
      BY <1>i, <1>1, <3>1, <3>2, <3>3, <3>4, TokenCases
  <2>2. ASSUME NEW s \in Server PROVE beat'[s].ends \in Within
    <3>1. CASE beat'[s] = beat[s]
      BY <3>1 DEF Ranges
    <3>2. CASE beat'[s].ends = 0
      BY <1>z, <3>2
    <3>3. ASSUME NEW t \in Readings(s), beat'[s].ends = t + LeaseDuration
          PROVE  beat'[s].ends \in Within
      BY <1>i, <3>3, PromiseIs
    <3>4. \/ beat'[s] = beat[s] \/ beat'[s].ends = 0
          \/ \E t \in Readings(s) : beat'[s].ends = t + LeaseDuration
      <4>1. NotInBeat.ends = 0
        BY DEF NotInBeat
      <4>2. QED
        BY <1>i, <1>1, <4>1, BeatCases
    <3>5. QED
      BY <3>1, <3>2, <3>3, <3>4
  <2>3. now' \in 0..(Second - 1)
    BY <1>i, <1>1, TimeAssumption DEF Within1
  <2>4. QED
    BY <2>1, <2>2, <2>3 DEF Ranges
<1>2. CASE Aside
  BY <1>i, <1>2, AsideIs DEF Ranges
<1>3. CASE NextSecond
  <2>1. ASSUME NEW w \in Worker PROVE worker'[w].ends \in Within
    <3>1. worker[w].ends \in Int /\ worker[w].ends \in Within
      BY <1>i DEF WorkersTypeOK, Goroutine, Ranges
    <3>2. QED
      BY <1>i, <1>3, <1>z, <3>1, AgedToken, IdleIs, LaterIs
  <2>2. ASSUME NEW s \in Server PROVE beat'[s].ends \in Within
    <3>1. beat[s].ends \in Int /\ beat[s].ends \in Within
      BY <1>i DEF WorkersTypeOK, Beat, Ranges
    <3>2. QED
      BY <1>i, <1>3, <3>1, AgedBeat, LaterIs
  <2>3. now' \in 0..(Second - 1)
    BY <1>3, AnewIs
  <2>4. QED
    BY <2>1, <2>2, <2>3 DEF Ranges
<1>4. QED
  BY <1>i, <1>1, <1>2, <1>3, StepIs
LEMMA DecidedStep ==
  ASSUME LastingInv, Decided, [DeliveryNext]_lifeVars PROVE Decided'
<1>i. ServersInv /\ WorkersTypeOK /\ RunsInv /\ worker \in [Worker -> Goroutine]
  BY DEF LastingInv, LeaseInv, ServersInv, WorkersTypeOK
<1>1. ASSUME NEW v \in Worker,
             Take(v) \/ Register(v) \/ ActFails(v) \/ Act(v) \/ Finish(v)
      PROVE  Decided'
  <2>1. /\ worker'[v].pc # "acting"
        /\ \A w \in Worker : w # v => worker'[w] = worker[w]
    <3>1. CASE Take(v)
      <4>1. PICK r \in Goroutine : worker' = [worker EXCEPT ![v] = r] /\ r.pc = "starting"
        BY <1>i, <3>1, TakeIs DEF ServersInv
      <4>2. QED
        BY <1>i, <4>1
    <3>2. CASE Register(v) \/ ActFails(v) \/ Act(v) \/ Finish(v)
      BY <1>i, <3>2 DEF Register, ActFails, Act, Finish, Goroutine, Idle
    <3>3. QED
      BY <1>1, <3>1, <3>2
  <2>2. QED
    BY <2>1 DEF Decided
<1>2. ASSUME NEW v \in Worker, NEW outcome \in Outcome, Conclude(v, outcome)
      PROVE  Decided'
  <2>1. /\ worker'[v].pc = "acting" => worker'[v].outcome = outcome
        /\ \A w \in Worker : w # v => worker'[w] = worker[w]
    BY <1>i, <1>2 DEF Conclude, Goroutine
  <2>2. QED
    BY <2>1 DEF Decided
<1>3. ASSUME NEW s \in Server, ResetLeases(s) PROVE Decided'
  BY <1>i, <1>3 DEF ResetLeases, Decided, Goroutine
<1>4. ASSUME NEW s \in Server, Crash(s) PROVE Decided'
  BY <1>4, IdleIs DEF Crash, Decided
<1>5. CASE UNCHANGED worker
  BY <1>5 DEF Decided
<1>6. CASE [WorkersNext]_allVars
  <2>1. ASSUME NEW s \in Server,
               \/ BeginBeat(s) \/ Extend(s) \/ ExtendFails(s) \/ ExtendLate(s)
               \/ RecovererMoves(s) \/ Housekeeping(s) \/ HandlerWrites(s) \/ Stop(s)
        PROVE  UNCHANGED worker
    BY <2>1 DEF BeginBeat, Extend, ExtendFails, ExtendLate, HandlerWrites, RecovererMoves, List, Recover,
                RecoverFails, Housekeeping, Stop, procVars
  <2>2. ASSUME NEW v \in Worker, TakeLost(v) PROVE UNCHANGED worker
    BY <2>2 DEF TakeLost, procVars
  <2>3. Submit \/ Tick \/ UNCHANGED allVars => UNCHANGED worker
    BY DEF Submit, Tick, allVars, procVars
  <2>4. QED
    BY <1>1, <1>2, <1>3, <1>4, <1>5, <1>6, <2>1, <2>2, <2>3
       DEF WorkersNext, WorkerMoves, HeartbeaterMoves
<1>7. CASE NextSecond
  BY <1>i, <1>7, AgedToken DEF Decided
<1>8. QED
  BY <1>i, <1>5, <1>6, <1>7, StepIs, AsideIs

\* A call that failed is sent as a request.
LEMMA FailedIs ==
  ASSUME ServersInv, Decided, NEW w \in Worker, worker[w].pc = "acting",
         NEW fn \in Calls[worker[w].outcome]
  PROVE  Failed(w, fn) \in Request
<1>1. worker[w].msg \in Copies /\ worker[w].ends \in Int
  BY DEF ServersInv, Manned, WorkersTypeOK, Goroutine
<1>2. fn \in {"done", "retry", "archive"}
  <2>1. /\ Calls["succeeded"] = {"done"} /\ Calls["failed"] = {"retry", "archive"}
        /\ Calls["aborted"] = {}
    BY DEF Calls
  <2>2. worker[w].outcome \in {"succeeded", "failed", "aborted"}
    BY DEF Decided, Outcome
  <2>3. QED
    BY <2>1, <2>2
<1> DEFINE a == IF fn = "retry" THEN Clock(Srv(w)) + RetryDelay ELSE 0
<1>3. a \in Int
  <2>1. Clock(Srv(w)) + RetryDelay \in Time /\ 0 \in Int
    BY ServerIs, ClockIs DEF ServersInv
  <2>2. QED
    BY <2>1, TimeAssumption
<1> HIDE DEF a
<1>4. Failed(w, fn) = [worker |-> w, msg |-> worker[w].msg, place |-> "channel", fn |-> fn,
                       at |-> a, ends |-> worker[w].ends]
  BY DEF Failed, a
<1>5. QED
  BY <1>1, <1>2, <1>3, <1>4 DEF Request

\* The syncer's list, and a request that was cancelled.
LEMMA MovedIs ==
  ASSUME NEW r \in Request
  PROVE  [r EXCEPT !.place = "list"] \in Request /\ Cancelled(r) \in Request
<1>1. [r EXCEPT !.place = "list"] \in Request
  BY DEF Request
<1> DEFINE p == [r EXCEPT !.msg = NoMsg, !.place = "cancelled"]
<1>2. p \in Request
  BY DEF Request
<1> HIDE DEF p
<1>3. \A a \in Int : [p EXCEPT !.fn = "none", !.at = a] \in Request
  BY <1>2 DEF Request
<1>4. Cancelled(r) = [p EXCEPT !.fn = "none", !.at = 0]
  BY DEF Cancelled, p
<1>5. 0 \in Int
  OBVIOUS
<1>6. QED
  BY <1>1, <1>3, <1>4, <1>5

LEMMA AgedRequest ==
  ASSUME NEW r \in Request
  PROVE  [r EXCEPT !.ends = Later(@), !.at = IF r.fn = "retry" THEN Later(@) ELSE @]
           \in Request
<1> DEFINE e == Later(r.ends)
           a == IF r.fn = "retry" THEN Later(r.at) ELSE r.at
<1>1. r.ends \in Int /\ r.at \in Int
  BY DEF Request
<1>2. e \in Int /\ a \in Int
  BY <1>1, LaterIs
<1> HIDE DEF e, a
<1>3. [r EXCEPT !.ends = e, !.at = a] \in Request
  BY <1>2 DEF Request
<1>4. QED
  BY <1>3 DEF e, a
\* Who changes the syncer's requests, Cancelations and the number of stops.
LEMMA SyncTypesStep ==
  ASSUME TypesInv, [DeliveryNext]_lifeVars PROVE SyncTypes'
<1>i. /\ ServersInv /\ RunsInv /\ Decided /\ SyncTypes
      /\ DOMAIN requests = Server /\ DOMAIN cancelable = Server
  BY DEF TypesInv, LastingInv, LeaseInv, Ranges, RunsInv, Requested, Owned
<1>f. \A z, x, v : /\ Put(z, x, v) = [y \in DOMAIN Put(z, x, v) |-> Put(z, x, v)[y]]
                   /\ Drop(z, {x}) = [y \in DOMAIN Drop(z, {x}) |-> Drop(z, {x})[y]]
  BY DEF Put, Drop
<1>1. CASE UNCHANGED syncVars
  BY <1>i, <1>1 DEF syncVars, SyncTypes
<1>2. ASSUME NEW w \in Worker, WorkerGoesOn(w) PROVE SyncTypes'
  <2> DEFINE s == Srv(w)
             x == worker[w].msg.id
  <2>0. CASE StartRun(w) \/ CancelRun(w)
    BY <1>i, <2>0 DEF StartRun, CancelRun, SyncTypes
  <2>1. CASE AddCancel(w)
    <3>1. /\ cancelable' = [cancelable EXCEPT ![s] = Put(cancelable[s], x, w)]
          /\ UNCHANGED <<requests, stops>>
      BY <2>1 DEF AddCancel
    <3> HIDE DEF s, x
    <3>2. QED
      BY <1>i, <1>f, <3>1 DEF SyncTypes
  <2>2. CASE AnswerLost(w) \/ Refused(w)
    <3>1. worker[w].pc = "acting" /\ HandOver(w)
      BY <2>2 DEF AnswerLost, Refused, Act, ActFails
    <3>2. UNCHANGED <<cancelable, stops>>
      BY <3>1 DEF HandOver
    <3>3. ASSUME NEW fn \in Calls[worker[w].outcome],
                 requests' = [requests EXCEPT ![s] = @ \cup {Failed(w, fn)}]
          PROVE  SyncTypes'
      <4>1. Failed(w, fn) \in Request
        BY <1>i, <3>1, FailedIs
      <4> DEFINE q == Failed(w, fn)
      <4> HIDE DEF q, s
      <4>2. \A t \in Server : requests'[t] \subseteq requests[t] \cup {q}
        BY <1>i, <3>3 DEF q
      <4>3. q \in Request
        BY <4>1 DEF q
      <4>4. QED
        BY <1>i, <3>2, <4>2, <4>3 DEF SyncTypes
    <3>4. QED
      BY <1>i, <3>1, <3>2, <3>3 DEF HandOver, SyncTypes
  <2>3. CASE CallReturns(w)
    <3>1. /\ UNCHANGED <<cancelable, stops>>
          /\ requests' = [requests EXCEPT ![s] =
               {IF r.worker = w /\ r.place = "list" THEN Cancelled(r) ELSE r :
                  r \in requests[s]}]
      BY <2>3 DEF CallReturns, CancelRequests
    <3>2. \A r \in requests[s] :
            (IF r.worker = w /\ r.place = "list" THEN Cancelled(r) ELSE r) \in Request
      BY <1>i, ServerIs, MovedIs DEF SyncTypes
    <3> HIDE DEF s, x
    <3>3. \A t \in Server : requests'[t] \subseteq Request
      BY <1>i, <3>1, <3>2 DEF SyncTypes
    <3>4. QED
      BY <1>i, <3>1, <3>3 DEF SyncTypes
  <2>4. CASE DeleteCancel(w)
    <3>1. /\ cancelable' = [cancelable EXCEPT ![s] = Drop(cancelable[s], {x})]
          /\ UNCHANGED <<requests, stops>>
      BY <2>4 DEF DeleteCancel
    <3> DEFINE d == Drop(cancelable[s], {x})
    <3>2. d = [id \in DOMAIN d |-> d[id]]
      BY <1>f
    <3>3. cancelable' = [cancelable EXCEPT ![s] = d]
      BY <3>1
    <3> HIDE DEF d, s, x
    <3>4. QED
      BY <1>i, <3>1, <3>2, <3>3 DEF SyncTypes
  <2>5. QED
    BY <1>1, <1>2, <2>0, <2>1, <2>2, <2>3, <2>4
       DEF WorkerGoesOn, Concludes, Answered, End, Untouched
<1>3. ASSUME NEW s \in Server, NEW r \in requests[s],
             Receive(s, r) \/ Sync(s, r) \/ SyncDrops(s, r)
      PROVE  SyncTypes'
  <2>1. UNCHANGED <<cancelable, stops>>
    BY <1>3 DEF Receive, Sync, SyncDrops
  <2>2. [r EXCEPT !.place = "list"] \in Request
    BY <1>i, MovedIs DEF SyncTypes
  <2>3. \/ requests' = [requests EXCEPT ![s] = (@ \ {r}) \cup {[r EXCEPT !.place = "list"]}]
        \/ requests' = [requests EXCEPT ![s] = @ \ {r}]
        \/ UNCHANGED requests
    BY <1>3 DEF Receive, Sync, SyncDrops
  <2> DEFINE q == [r EXCEPT !.place = "list"]
  <2> HIDE DEF q
  <2>4. CASE requests' = [requests EXCEPT ![s] = (@ \ {r}) \cup {q}]
    BY <1>i, <2>1, <2>2, <2>4 DEF SyncTypes, q
  <2>5. CASE requests' = [requests EXCEPT ![s] = @ \ {r}] \/ UNCHANGED requests
    BY <1>i, <2>1, <2>5 DEF SyncTypes
  <2>6. QED
    BY <2>3, <2>4, <2>5 DEF q
<1>4. ASSUME NEW s \in Server, StopServer(s) PROVE SyncTypes'
  <2>1. /\ stops' = [stops EXCEPT ![s] = @ + 1] /\ stops[s] < MaxStops
        /\ UNCHANGED <<cancelable, requests>>
    BY <1>4 DEF StopServer
  <2>2. stops' \in [Server -> 0..MaxStops]
    BY <1>i, <2>1, FloorAssumption DEF SyncTypes
  <2>3. QED
    BY <1>i, <2>1, <2>2 DEF SyncTypes
<1>5. ASSUME NEW s \in Server, CrashServer(s) PROVE SyncTypes'
  <2>1. /\ cancelable' = [cancelable EXCEPT ![s] = NoEntry] /\ UNCHANGED stops
        /\ requests' = [requests EXCEPT ![s] = {}]
    BY <1>5 DEF CrashServer
  <2>2. NoEntry = [id \in DOMAIN NoEntry |-> NoEntry[id]]
    BY DEF NoEntry
  <2>3. QED
    BY <1>i, <2>1, <2>2 DEF SyncTypes
<1>6. CASE NextSecond
  <2>1. UNCHANGED <<cancelable, stops>>
    BY <1>6 DEF NextSecond
  <2>2. ASSUME NEW s \in Server PROVE requests'[s] \subseteq Request
    <3>1. requests'[s] = {[r EXCEPT !.ends = Later(@),
                             !.at = IF r.fn = "retry" THEN Later(@) ELSE @] :
                            r \in requests[s] \ Spent(s)}
      BY <1>6 DEF NextSecond
    <3>2. \A r \in requests[s] : r \in Request
      BY <1>i DEF SyncTypes
    <3>3. \A r \in requests[s] :
            [r EXCEPT !.ends = Later(@), !.at = IF r.fn = "retry" THEN Later(@) ELSE @]
              \in Request
      BY <3>2, AgedRequest
    <3>4. QED
      BY <3>1, <3>3
  <2>3. QED
    BY <1>i, <2>1, <2>2 DEF SyncTypes
<1>7. ASSUME NEW s \in Server, ServerGoesOn(s) PROVE SyncTypes'
  BY <1>1, <1>3, <1>4, <1>5, <1>7
     DEF ServerGoesOn, SyncerGoesOn, Recovers, ForwardsRetry, ForwardsScheduled, Cleans,
         Untouched
<1>8. QED
  BY <1>1, <1>2, <1>6, <1>7 DEF DeliveryNext, TimePasses, Untouched, lifeVars

LEMMA TypesInductive == DeliverySpec /\ NoAbort => []TypesInv
<1>1. DeliveryInit => Ranges /\ Decided /\ SyncTypes
  <2> SUFFICES ASSUME DeliveryInit PROVE Ranges /\ Decided /\ SyncTypes
    OBVIOUS
  <2>1. /\ 0 \in Within /\ NotInBeat.ends = 0 /\ 0 \in 0..MaxStops
        /\ 0 \in 0..(Second - 1)
    BY NearIs, FloorAssumption, TimeAssumption DEF NotInBeat
  <2>2. Ranges /\ Decided
    BY <2>1, IdleIs DEF DeliveryInit, WorkersInit, Ranges, Decided
  <2>3. NoEntry = [id \in DOMAIN NoEntry |-> NoEntry[id]]
    BY DEF NoEntry
  <2>4. SyncTypes
    BY <2>1, <2>3 DEF DeliveryInit, SyncTypes
  <2>5. QED
    BY <2>2, <2>4
<1>2. TypesInv /\ [DeliveryNext]_lifeVars /\ LastingInv' => TypesInv'
  BY RangesStep, DecidedStep, SyncTypesStep DEF TypesInv
<1>3. LastingInv /\ Ranges /\ Decided /\ SyncTypes => TypesInv
  BY DEF TypesInv
<1>4. QED
  BY <1>1, <1>2, <1>3, LastingInductive, PTL DEF DeliverySpec

\* The clock that stands still does its work: no end of a lease leaves the
\* range in which the code's comparisons tell times apart, and what waits for
\* the syncer or can be cancelled is of a worker and a task of the server.
THEOREM DeliveryTypeCorrect == DeliverySpec /\ NoAbort => []DeliveryTypeOK
<1>1. TypesInv => DeliveryTypeOK
  <2> SUFFICES ASSUME TypesInv PROVE DeliveryTypeOK
    OBVIOUS
  <2>1. Ranges /\ SyncTypes /\ Opened /\ Owned /\ Requested /\ Manned
    BY DEF TypesInv, LastingInv, LeaseInv, ServersInv, RunsInv
  <2>2. /\ run \in [Worker -> Phase]
        /\ \A w \in Worker : run[w] # "none" => worker[w].pc # "idle"
    BY <2>1 DEF Opened, Phase
  <2>3. ASSUME NEW s \in Server PROVE Partial(cancelable[s], Worker)
    <3>1. ASSUME NEW id \in DOMAIN cancelable[s]
          PROVE  id \in TaskID /\ cancelable[s][id] \in Worker
      <4>1. /\ cancelable[s][id] \in Worker
            /\ run[cancelable[s][id]] # "none"
            /\ worker[cancelable[s][id]].msg.id = id
        BY <2>1 DEF Owned, Entered
      <4>2. worker[cancelable[s][id]].msg \in Copies
        BY <2>1, <2>2, <4>1 DEF Manned
      <4>3. QED
        BY <4>1, <4>2 DEF Copies
    <3>2. cancelable[s] = [id \in DOMAIN cancelable[s] |-> cancelable[s][id]]
      BY <2>1 DEF SyncTypes
    <3>3. QED
      BY <3>1, <3>2 DEF Partial
  <2>4. DOMAIN cancelable = Server /\ requests \in [Server -> SUBSET Request]
    BY <2>1 DEF Owned, Requested, SyncTypes
  <2>5. QED
    BY <2>1, <2>2, <2>3, <2>4 DEF Ranges, SyncTypes, DeliveryTypeOK
<1>2. QED
  BY <1>1, TypesInductive, PTL
==============================================================================
