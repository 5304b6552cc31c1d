------------------------------- MODULE Queues -------------------------------
(***************************************************************************)
(* A server with several queues: which of them it keeps of its Config      *)
(* (NewServer), in which order the processor asks them for a task          *)
(* (normalizeQueues, sortByPriority, queues, uniq), and the polls          *)
(* themselves (RDB.Dequeue: one script per queue, so that anything may     *)
(* happen between two of them).                                            *)
(*                                                                         *)
(* What becomes of a task is Rdb's and Delivery's; here a queue's pending  *)
(* tasks are counted.                                                      *)
(***************************************************************************)
EXTENDS Integers, SequencesExt, Functions, FiniteSets

CONSTANTS
  Server,
  Queue,       \* names
  Blank,       \* the names that ValidateQueueName refuses
  Default,     \* base.DefaultQueueName
  Configs,     \* of a server: Config.Queues and Config.StrictPriority
  MaxTasks,    \* bound: the tasks of a queue
  Pausable     \* bound: the queues that are ever paused

ASSUME NameAssumption == Default \in Queue \ Blank /\ Pausable \subseteq Queue
ASSUME ConfigAssumption ==
  \A c \in Configs : /\ DOMAIN c.queues \subseteq Queue
                     /\ IsFiniteSet(DOMAIN c.queues)
                     /\ \A q \in DOMAIN c.queues : c.queues[q] \in Int
                     /\ c.strict \in BOOLEAN
ASSUME MarkAssumption ==
  {"none", "polling", "nothing", "error"} \cap Queue = {}
ASSUME BoundAssumption == MaxTasks \in Nat \ {0}

VARIABLES
  config,      \* what each server was given
  weight,      \* processor.queueConfig
  orders,      \* what processor.queues() can return
  pending,     \* how many tasks each queue has to give
  paused,      \* the queues that have their key paused
  asking,      \* the queues that a poll has still to ask
  found,       \* how the last poll ended; "polling" while one goes on
  free         \* history: the queues that had nothing to give at some time
               \* since the last poll began and before it ended

given     == <<config, weight, orders>>
tasks     == <<pending, paused>>
queueVars == <<given, tasks, asking, found, free>>

Available(q) == pending[q] > 0 /\ q \notin paused

------------------------------------------------------------------------------
(* From the configuration to the processor's queues.                       *)

\* Mutant: zero is not ignored.
KeptWithZero(named) ==
  LET kept == {q \in DOMAIN named \ Blank : named[q] >= 0}
  IN IF kept = {} THEN [q \in {Default} |-> 1] ELSE Restrict(named, kept)

\* NewServer ignores blank names and priorities that are not positive.
Kept(named) ==
  LET kept == {q \in DOMAIN named \ Blank : named[q] > 0}
  IN IF kept = {} THEN [q \in {Default} |-> 1] ELSE Restrict(named, kept)

\* Mutant: the loop ends too early.
EuclidShort[xy \in Nat \X Nat] ==
  IF xy[2] > 1 THEN EuclidShort[<<xy[2], xy[1] % xy[2]>>] ELSE xy[1]

Euclid[xy \in Nat \X Nat] ==
  IF xy[2] > 0 THEN Euclid[<<xy[2], xy[1] % xy[2]>>] ELSE xy[1]

\* Mutant: by the shortened loop.
DivisorShort(named) == FoldFunction(LAMBDA x, d : EuclidShort[<<x, d>>], 0, named)

Divisor(named) == FoldFunction(LAMBDA x, d : Euclid[<<x, d>>], 0, named)

normalizeQueues(named) ==
  [q \in DOMAIN named |-> named[q] \div Divisor(named)]

\* Mutant: sort.Sort without sort.Reverse.
sortAscending(w) ==
  {order \in SetToSeqs(DOMAIN w) :
     \A i, j \in DOMAIN order : i < j => w[order[i]] =< w[order[j]]}

\* The sort is not stable and its input comes out of a map: every order that
\* descends is possible, and the one that newProcessor gets is kept.
sortByPriority(w) ==
  {order \in SetToSeqs(DOMAIN w) :
     \A i, j \in DOMAIN order : i < j => w[order[i]] >= w[order[j]]}

\* Every queue's name as often as its weight, shuffled.
Shuffled(w) ==
  {names \in [1..SumFunction(w) -> DOMAIN w] :
     \A q \in DOMAIN w : Cardinality({i \in DOMAIN names : names[i] = q}) = w[q]}

\* Mutant: the length is compared before the name is added.
uniqShort(names, l) ==
  FoldLeft(LAMBDA res, name :
             IF Len(res) >= l - 1 \/ name \in Range(res) THEN res
             ELSE Append(res, name),
           <<>>, names)

uniq(names, l) ==
  FoldLeft(LAMBDA res, name :
             IF Len(res) = l \/ name \in Range(res) THEN res
             ELSE Append(res, name),
           <<>>, names)

\* Mutant: the names are not shuffled.
queuesUnshuffled(w, strict) == {{order} : order \in sortByPriority(w)}

\* What queues() can return: the one order of newProcessor, or what uniq makes
\* of any shuffle.  A single queue is no exception.
queues(w, strict) ==
  IF strict THEN {{order} : order \in sortByPriority(w)}
  ELSE {{uniq(names, Cardinality(DOMAIN w)) : names \in Shuffled(w)}}

------------------------------------------------------------------------------
(* A poll.                                                                 *)

\* exec has a token.
Poll(s) ==
  /\ found[s] # "polling"
  /\ \E order \in orders[s] : asking' = [asking EXCEPT ![s] = order]
  /\ found' = [found EXCEPT ![s] = "polling"]
  /\ UNCHANGED <<given, tasks>>

Ends(s, how) == /\ asking' = [asking EXCEPT ![s] = <<>>]
                /\ found' = [found EXCEPT ![s] = how]

\* dequeueCmd for the next queue: a task, or nil, and the loop goes on.
Ask(s, q) ==
  /\ asking[s] # <<>>
  /\ q = Head(asking[s])
  /\ IF Available(q)
     THEN Ends(s, q) /\ pending' = [pending EXCEPT ![q] = @ - 1]
     ELSE /\ IF Len(asking[s]) > 1
             THEN asking' = [asking EXCEPT ![s] = Tail(@)] /\ UNCHANGED found
             ELSE Ends(s, "nothing")
          /\ UNCHANGED pending
  /\ UNCHANGED <<given, paused>>

\* The call fails, before or after the script has run, and so does the poll.
AskFails(s) ==
  /\ asking[s] # <<>>
  /\ LET q == Head(asking[s])
     IN \/ UNCHANGED pending
        \/ Available(q) /\ pending' = [pending EXCEPT ![q] = @ - 1]
  /\ Ends(s, "error")
  /\ UNCHANGED <<given, paused>>

------------------------------------------------------------------------------
(* Others at the same queues: clients, the clock, servers, operators.      *)

Elsewhere == UNCHANGED <<given, asking, found>>

Enqueue(q) ==
  /\ pending[q] < MaxTasks
  /\ pending' = [pending EXCEPT ![q] = @ + 1]
  /\ UNCHANGED paused /\ Elsewhere

\* Another server's poll.
TakenElsewhere(q) ==
  /\ Available(q)
  /\ pending' = [pending EXCEPT ![q] = @ - 1]
  /\ UNCHANGED paused /\ Elsewhere

Pause(q) ==
  /\ paused' = IF q \in paused THEN paused \ {q} ELSE paused \cup {q}
  /\ UNCHANGED pending /\ Elsewhere

------------------------------------------------------------------------------
QueuesInit ==
  /\ config \in [Server -> Configs]
  /\ weight = [s \in Server |-> normalizeQueues(Kept(config[s].queues))]
  /\ orders \in [Server -> UNION {queues(weight[s], config[s].strict) : s \in Server}]
  /\ \A s \in Server : orders[s] \in queues(weight[s], config[s].strict)
  /\ pending = [q \in Queue |-> 0]
  /\ paused = {}
  /\ asking = [s \in Server |-> <<>>]
  /\ found = [s \in Server |-> "none"]
  /\ free = [s \in Server |-> {}]

\* History: the queues of the server that have nothing to give now.
Watch ==
  LET without(s) == {q \in DOMAIN weight[s] : ~Available(q)'}
  IN free' = [s \in Server |->
       IF found'[s] # "polling" THEN free[s]
       ELSE without(s) \cup IF found[s] = "polling" THEN free[s] ELSE {}]

ServerPolls(s) == Poll(s) \/ (\E q \in Queue : Ask(s, q)) \/ AskFails(s)

QueuesNext ==
  /\ \/ \E s \in Server : ServerPolls(s)
     \/ \E q \in UNION {DOMAIN weight[s] : s \in Server} :
          Enqueue(q) \/ TakenElsewhere(q)
     \/ \E q \in Pausable : Pause(q)
  /\ Watch

\* Tokens come back and polls go on; of the orders that the shuffle can give,
\* each queue comes first again and again; and for each queue a call gets
\* through again and again, however many fail.
ServerFairness(s) ==
  \A q \in Queue \ Blank :
       /\ SF_queueVars(Poll(s) /\ Head(asking'[s]) = q /\ Watch)
       /\ SF_queueVars(Ask(s, q) /\ Watch)

QueuesSpec == /\ QueuesInit /\ [][QueuesNext]_queueVars
              /\ \A s \in Server : ServerFairness(s)

------------------------------------------------------------------------------
(* Properties.                                                             *)

QueuesTypeOK ==
  /\ config \in [Server -> Configs]
  /\ pending \in [Queue -> 0..MaxTasks]
  /\ paused \subseteq Queue
  /\ found \in [Server -> Queue \cup {"none", "polling", "nothing", "error"}]
  /\ \A s \in Server :
       /\ DOMAIN weight[s] \subseteq Queue \ Blank
       /\ DOMAIN weight[s] # {}
       /\ \A q \in DOMAIN weight[s] : weight[s][q] \in Nat \ {0}
       /\ free[s] \subseteq DOMAIN weight[s]
       /\ IsInjective(asking[s])
       /\ found[s] = "polling" <=> asking[s] # <<>>

\* "normalizeQueues divides priority numbers by their greatest common
\* divisor": two queues stand to each other as in the configuration, and no
\* smaller whole numbers do.
Normalised ==
  \A s \in Server :
    LET w == weight[s]
        c == config[s].queues
        \* the queues that were configured, if the default is not all there is
        known == {q \in DOMAIN w \cap DOMAIN c : c[q] > 0}
    IN /\ \A q, r \in known : w[q] * c[r] = w[r] * c[q]
       /\ \A q \in DOMAIN w : \A d \in 2..w[q] : \E r \in DOMAIN w : w[r] % d # 0

\* A server's queues that go before q when it is strict: by the numbers of
\* the configuration, not by those that they were turned into.
Before(s, q) ==
  IF q \in DOMAIN config[s].queues
  THEN {r \in DOMAIN weight[s] : config[s].queues[r] > config[s].queues[q]} ELSE {}

\* "tasks in the queue with the highest priority is processed first": with
\* StrictPriority a task is taken only if each queue of a higher priority had
\* none to give at some time of the same poll.  (Not at the moment at which it
\* is taken: a queue may fill up behind the poll's back.)
StrictOrder ==
  \A s \in Server :
    config[s].strict /\ found[s] \in Queue => Before(s, found[s]) \subseteq free[s]

\* "If all queues are empty, ErrNoProcessableTask error is returned": the
\* processor sleeps only if every queue of the server had nothing to give at
\* some time of the poll, whatever the shuffle and uniq made of the names.
SleepsWhenEmpty ==
  \A s \in Server : found[s] = "nothing" => free[s] = DOMAIN weight[s]

\* With StrictPriority: one that is equal in priority may stand in front.
MayPrecede(s, q) ==
  {r \in DOMAIN weight[s] \ {q} : config[s].strict /\ weight[s][r] >= weight[s][q]}

\* "to avoid starving low priority queues": a queue that goes on having tasks
\* to give goes on giving them to the server, however full the others are and
\* however many polls fail.  With StrictPriority this is promised only while
\* those that may go before it have nothing to give.
Served ==
  \A s \in Server : \A q \in Queue :
    []<>(\/ q \notin DOMAIN weight[s]
         \/ ~Available(q) \/ found[s] = q
         \/ \E r \in MayPrecede(s, q) : Available(r))
=============================================================================
