------------------------------- MODULE Client -------------------------------
(***************************************************************************)
(* From the options of a task to the time its handler has: goroutines that *)
(* enqueue one Task at the same time (client.go), the message and the lock *)
(* their calls leave in the broker, and the deadline a server computes for *)
(* the handler (processor.go).                                             *)
(*                                                                         *)
(* A tick is half a second: the program computes with durations and stores *)
(* whole seconds.  Names are numbers too, of which 0 is the blank one.     *)
(***************************************************************************)
EXTENDS Integers, Sequences

CONSTANTS
  Queue,           \* names of queues
  Caller,          \* goroutines that call Enqueue, once each, with the same Task
  TaskOpts,        \* the options given to NewTask
  Choices,         \* bound: the options given to Enqueue, a set of sequences
  Spare,           \* how many more options the array of TaskOpts has room for
  DefaultTimeout,  \* in ticks
  DefaultMaxRetry,
  MaxNow           \* bound of the clock

Second == 2
Seconds(t) == t \div Second

Type  == {"retry", "queue", "taskID", "timeout", "deadline", "unique",
          "processAt", "processIn", "retention"}
Field == Type \ {"processIn"}
FieldOf(type) == IF type = "processIn" THEN "processAt" ELSE type
Option == [type : Type, value : Nat]

DefaultQueue == 1

ASSUME OptionsAssumption ==
  /\ TaskOpts \in Seq(Option)
  /\ Choices \subseteq Seq(Option)
  /\ Spare \in Nat
ASSUME QueueAssumption ==
  /\ DefaultQueue \in Queue /\ Queue \subseteq Nat \ {0}
  /\ \A s \in Choices \cup {TaskOpts} : \A i \in DOMAIN s :
       s[i].type = "queue" => s[i].value \in Queue \cup {0}
ASSUME TimeAssumption ==
  /\ DefaultTimeout \in Nat /\ DefaultTimeout >= Second
  /\ DefaultMaxRetry \in Nat
  /\ MaxNow \in Nat /\ MaxNow >= Second
\* No deadline is in the first second of the epoch.
ASSUME DeadlineAssumption ==
  \A s \in Choices \cup {TaskOpts} : \A i \in DOMAIN s :
    s[i].type = "deadline" => s[i].value >= Second

VARIABLES
  now,
  spare,    \* the part of the array of TaskOpts after its end
  pc,       \* how far each caller's task has got
  given,    \* the options it was enqueued with
  todo,     \* the words append has still to write
  read,     \* how many options composeOptions has read
  opt,      \* its result so far
  score,    \* when the task is due, in seconds; 0 if at once
  ttl,      \* of the uniqueness lock the call asks for
  time,     \* when it was called, stored and started
  endsBy,   \* the handler's deadline
  lock,     \* when each queue's lock on the task ends
  ids       \* the task keys with an ID chosen with TaskID that are taken

vars == <<now, spare, pc, given, todo, read, opt, score, ttl, time, endsBy, lock, ids>>

Stored == {"stored", "running"}
Place  == {"idle", "composing", "scheduling", "sending", "refused"} \cup Stored
Words  == {"type", "value"}

\* What NewTask's array holds after its end: anything that is no option.
Blank == [type |-> "retention", value |-> 0]

TypeOK ==
  /\ now \in Second..MaxNow
  /\ spare \in [1..Spare -> Option]
  /\ pc \in [Caller -> Place]
  /\ given \in [Caller -> Choices \cup {<<>>}]
  /\ todo \in [Caller -> SUBSET ((1..Spare) \X Words)]
  /\ read \in [Caller -> Nat]
  /\ opt \in [Caller -> [Field -> Nat]]
  /\ \A c \in Caller : opt[c]["queue"] \in Queue
  /\ score \in [Caller -> Nat]
  /\ ttl \in [Caller -> Int]
  /\ time \in [Caller -> [{"called", "stored", "started"} -> Nat]]
  /\ endsBy \in [Caller -> Nat]
  /\ lock \in [Queue -> Nat]
  /\ ids \subseteq Queue \X (Nat \ {0})

------------------------------------------------------------------------------
(* Client.EnqueueContext.                                                  *)

\* append(task.opts, opts...) writes into the task's own array if it has room,
\* otherwise into a new one.
Shared(c) == given[c] # <<>> /\ Len(given[c]) =< Spare

Count(c) == Len(TaskOpts) + Len(given[c])

\* Mutant: the task's options override those of the call.
OptionAtSwapped(c, i) ==
  CASE i =< Len(given[c]) -> given[c][i]
    [] OTHER              -> TaskOpts[i - Len(given[c])]

OptionAt(c, i) ==
  CASE i =< Len(TaskOpts) -> TaskOpts[i]
    [] i > Len(TaskOpts) /\ Shared(c)  -> spare[i - Len(TaskOpts)]
    [] i > Len(TaskOpts) /\ ~Shared(c) -> given[c][i - Len(TaskOpts)]

Defaults == [f \in Field |-> CASE f = "retry"     -> DefaultMaxRetry
                               [] f = "queue"     -> DefaultQueue
                               [] f = "processAt" -> now
                               [] OTHER           -> 0]

Enqueue(c) ==
  /\ pc[c] = "idle"
  /\ \E opts \in Choices :
       /\ given' = [given EXCEPT ![c] = opts]
       /\ todo' = [todo EXCEPT ![c] = IF Len(opts) > Spare THEN {}
                                      ELSE (1..Len(opts)) \X Words]
  /\ opt' = [opt EXCEPT ![c] = Defaults]
  /\ time' = [time EXCEPT ![c]["called"] = now]
  /\ pc' = [pc EXCEPT ![c] = "composing"]
  /\ UNCHANGED <<now, spare, read, score, ttl, endsBy, lock, ids>>

\* Two words make an option, and nothing keeps two callers from writing theirs
\* to the same place at the same time.
AppendWord(c) ==
  /\ \E i \in 1..Spare, w \in Words :
       /\ <<i, w>> \in todo[c]
       /\ spare' = [spare EXCEPT ![i][w] = given[c][i][w]]
       /\ todo' = [todo EXCEPT ![c] = @ \ {<<i, w>>}]
  /\ UNCHANGED <<now, pc, given, read, opt, score, ttl, time, endsBy, lock, ids>>

\* Mutant: a blank queue name is let through.
InvalidButQueue(o) ==
  \/ o.type = "taskID" /\ o.value = 0
  \/ o.type = "unique" /\ o.value < Second

Invalid(o) ==
  \/ o.type \in {"queue", "taskID"} /\ o.value = 0
  \/ o.type = "unique" /\ o.value < Second

Composing(c) == pc[c] = "composing" /\ todo[c] = {}

\* Mutant: ProcessIn is taken for a time.
ComposeAbsolute(c) ==
  LET o == OptionAt(c, read[c] + 1)
  IN /\ Composing(c)
     /\ read[c] < Count(c)
     /\ ~Invalid(o)
     /\ opt' = [opt EXCEPT ![c][FieldOf(o.type)] = o.value]
     /\ read' = [read EXCEPT ![c] = @ + 1]
     /\ UNCHANGED <<now, spare, pc, given, todo, score, ttl, time, endsBy, lock, ids>>

\* One turn of the loop of composeOptions.
Compose(c) ==
  LET o == OptionAt(c, read[c] + 1)
  IN /\ Composing(c)
     /\ read[c] < Count(c)
     /\ ~Invalid(o)
     /\ opt' = [opt EXCEPT ![c][FieldOf(o.type)] =
                  IF o.type = "processIn" THEN now + o.value ELSE o.value]
     /\ read' = [read EXCEPT ![c] = @ + 1]
     /\ UNCHANGED <<now, spare, pc, given, todo, score, ttl, time, endsBy, lock, ids>>

Refuse(c) ==
  /\ pc' = [pc EXCEPT ![c] = "refused"]
  /\ UNCHANGED <<now, spare, given, todo, read, opt, score, ttl, time, endsBy>>

\* composeOptions returns an error.
ComposeFails(c) ==
  /\ Composing(c)
  /\ read[c] < Count(c)
  /\ Invalid(OptionAt(c, read[c] + 1))
  /\ Refuse(c)
  /\ UNCHANGED <<lock, ids>>

\* opt.processAt.After(now): schedule or enqueue?
Decide(c) ==
  /\ Composing(c)
  /\ read[c] = Count(c)
  /\ IF opt[c]["processAt"] > now
     THEN /\ pc' = [pc EXCEPT ![c] = "scheduling"]
          /\ score' = [score EXCEPT ![c] = Seconds(opt[c]["processAt"])]
          /\ UNCHANGED ttl
     ELSE /\ pc' = [pc EXCEPT ![c] = "sending"]
          /\ ttl' = [ttl EXCEPT ![c] = opt[c]["unique"]]
          /\ UNCHANGED score
  /\ UNCHANGED <<now, spare, given, todo, read, opt, time, endsBy, lock, ids>>

\* Mutant: the lock of a scheduled task begins with the call.
ScheduleFromNow(c) ==
  /\ pc[c] = "scheduling"
  /\ pc' = [pc EXCEPT ![c] = "sending"]
  /\ ttl' = [ttl EXCEPT ![c] = opt[c]["unique"]]
  /\ UNCHANGED <<now, spare, given, todo, read, opt, score, time, endsBy, lock, ids>>

\* Client.schedule reads the clock again.
Schedule(c) ==
  /\ pc[c] = "scheduling"
  /\ pc' = [pc EXCEPT ![c] = "sending"]
  /\ ttl' = [ttl EXCEPT ![c] = opt[c]["processAt"] + opt[c]["unique"] - now]
  /\ UNCHANGED <<now, spare, given, todo, read, opt, score, time, endsBy, lock, ids>>

------------------------------------------------------------------------------
(* The broker and the server.                                              *)

Unique(c) == opt[c]["unique"] > 0
QueueOf(c) == opt[c]["queue"]
IDOf(c) == opt[c]["taskID"]

\* base.TaskKey: an ID is looked for in its own queue only.
TaskKey(c) == <<QueueOf(c), IDOf(c)>>

\* SET NX EX with less than a second, or with a lock that still holds.
LockRefused(c) == Unique(c) /\ (Seconds(ttl[c]) =< 0 \/ lock[QueueOf(c)] > now)

\* The scripts behind the four calls take the lock before they look at the ID.
TakeLock(c) ==
  lock' = IF Unique(c)
          THEN [lock EXCEPT ![QueueOf(c)] = now + Second * Seconds(ttl[c])]
          ELSE lock

Store(c) ==
  /\ pc[c] = "sending"
  /\ ~LockRefused(c)
  /\ TaskKey(c) \notin ids
  /\ TakeLock(c)
  /\ ids' = IF IDOf(c) = 0 THEN ids ELSE ids \cup {TaskKey(c)}
  /\ time' = [time EXCEPT ![c]["stored"] = now]
  /\ pc' = [pc EXCEPT ![c] = "stored"]
  /\ UNCHANGED <<now, spare, given, todo, read, opt, score, ttl, endsBy>>

StoreFails(c) ==
  /\ pc[c] = "sending"
  /\ \/ LockRefused(c) /\ UNCHANGED lock
     \/ ~LockRefused(c) /\ TaskKey(c) \in ids /\ TakeLock(c)
  /\ Refuse(c)
  /\ UNCHANGED ids

\* The command is lost.
SendFails(c) ==
  /\ pc[c] = "sending"
  /\ Refuse(c)
  /\ UNCHANGED <<lock, ids>>

\* The message has whole seconds.  The default is for neither of the two.
Deadline(c) == Seconds(opt[c]["deadline"])
Timeout(c)  == IF opt[c]["timeout"] = 0 /\ opt[c]["deadline"] = 0
               THEN Seconds(DefaultTimeout) ELSE Seconds(opt[c]["timeout"])

Earlier(s, t) == IF s < t THEN s ELSE t
Later(s, t)   == IF s < t THEN t ELSE s

\* Mutant: the later of the two.
ComputeDeadlineLater(c) ==
  CASE Timeout(c) = 0 /\ Deadline(c) = 0 -> now + DefaultTimeout
    [] Timeout(c) # 0 /\ Deadline(c) # 0 ->
         Second * Later(Seconds(now) + Timeout(c), Deadline(c))
    [] Timeout(c) # 0 /\ Deadline(c) = 0 -> now + Second * Timeout(c)
    [] Timeout(c) = 0 /\ Deadline(c) # 0 -> Second * Deadline(c)

ComputeDeadline(c) ==
  CASE Timeout(c) = 0 /\ Deadline(c) = 0 -> now + DefaultTimeout
    [] Timeout(c) # 0 /\ Deadline(c) # 0 ->
         Second * Earlier(Seconds(now) + Timeout(c), Deadline(c))
    [] Timeout(c) # 0 /\ Deadline(c) = 0 -> now + Second * Timeout(c)
    [] Timeout(c) = 0 /\ Deadline(c) # 0 -> Second * Deadline(c)

\* A server takes the task; the forwarder compares whole seconds.
Start(c) ==
  /\ pc[c] = "stored"
  /\ score[c] =< Seconds(now)
  /\ pc' = [pc EXCEPT ![c] = "running"]
  /\ time' = [time EXCEPT ![c]["started"] = now]
  /\ endsBy' = [endsBy EXCEPT ![c] = ComputeDeadline(c)]
  /\ UNCHANGED <<now, spare, given, todo, read, opt, score, ttl, lock, ids>>

Tick ==
  /\ now < MaxNow
  /\ now' = now + 1
  /\ UNCHANGED <<spare, pc, given, todo, read, opt, score, ttl, time, endsBy, lock, ids>>

\* The end of the time looked at.
TimeIsUp == now = MaxNow /\ UNCHANGED vars

------------------------------------------------------------------------------
Init ==
  /\ now = Second
  /\ spare = [i \in 1..Spare |-> Blank]
  /\ pc = [c \in Caller |-> "idle"]
  /\ given = [c \in Caller |-> <<>>]
  /\ todo = [c \in Caller |-> {}]
  /\ read = [c \in Caller |-> 0]
  /\ opt = [c \in Caller |-> Defaults]
  /\ score = [c \in Caller |-> 0]
  /\ ttl = [c \in Caller |-> 0]
  /\ time = [c \in Caller |-> [called |-> 0, stored |-> 0, started |-> 0]]
  /\ endsBy = [c \in Caller |-> 0]
  /\ lock = [q \in Queue |-> 0]
  /\ ids = {}

Next ==
  \/ \E c \in Caller :
       \/ Enqueue(c) \/ AppendWord(c) \/ Compose(c) \/ ComposeFails(c) \/ Decide(c)
       \/ Schedule(c) \/ Store(c) \/ StoreFails(c) \/ SendFails(c) \/ Start(c)
  \/ Tick \/ TimeIsUp

Spec == Init /\ [][Next]_vars

------------------------------------------------------------------------------
(* Properties.                                                             *)

\* What the program asks for, said without an order of reading: the option of a
\* kind after which there is no other, among the task's and then the call's.
Asked == [c \in Caller |-> TaskOpts \o given[c]]

IsLast(s, i, f) == /\ FieldOf(s[i].type) = f
                   /\ \A j \in DOMAIN s : j > i => FieldOf(s[j].type) # f

\* client.go: "If there are conflicting Option values the last one overrides
\* others", and the options of a call override those of its task; also when
\* several goroutines enqueue the task at once.
LastOverrides ==
  \A c \in Caller : pc[c] \in {"scheduling", "sending"} \cup Stored =>
    \A f \in Field \ {"processAt"} :
      \/ \E i \in DOMAIN Asked[c] : /\ IsLast(Asked[c], i, f)
                                    /\ opt[c][f] = Asked[c][i].value
      \/ /\ \A i \in DOMAIN Asked[c] : FieldOf(Asked[c][i].type) # f
         /\ opt[c][f] = Defaults[f]

\* A handler has until its timeout or its deadline, whichever comes first, or
\* else the default; truncation to seconds takes less than two seconds of it,
\* and adds nothing.  (A timeout of less than a second is taken for none.)
InTime ==
  \A c \in Caller :
    LET t == opt[c]["timeout"]
        d == opt[c]["deadline"]
        start == time[c]["started"]
        limit == CASE t = 0 /\ d = 0 -> start + DefaultTimeout
                   [] t # 0 /\ d = 0 -> start + t
                   [] t = 0 /\ d # 0 -> d
                   [] t # 0 /\ d # 0 -> Earlier(start + t, d)
    IN pc[c] = "running" /\ ~(0 < t /\ t < Second) =>
         limit - 2 * Second < endsBy[c] /\ endsBy[c] =< limit

\* No task is started in a second before the one it was asked to wait for,
\* although its score is truncated and the clock is read four times on the way.
NotEarly ==
  \A c \in Caller : pc[c] = "running" =>
    \A i \in DOMAIN Asked[c] : IsLast(Asked[c], i, "processAt") =>
      LET o == Asked[c][i]
          due == IF o.type = "processIn" THEN time[c]["called"] + o.value ELSE o.value
      IN Seconds(time[c]["started"]) >= Seconds(due)

\* client.go: a task "is guaranteed to be unique within the given ttl", of a
\* scheduled task from the time it is due: of two accepted calls the later comes
\* after that, but for the second that truncation takes.
UniqueApart ==
  \A c, d \in Caller :
    /\ c # d /\ {pc[c], pc[d]} \subseteq Stored
    /\ Unique(c) /\ Unique(d) /\ QueueOf(c) = QueueOf(d)
    /\ time[c]["stored"] =< time[d]["stored"]
    => LET from == IF score[c] = 0 THEN time[c]["stored"] ELSE opt[c]["processAt"]
       IN time[d]["stored"] > from + opt[c]["unique"] - Second
==============================================================================
