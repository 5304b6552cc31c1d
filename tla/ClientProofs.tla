---------------------------- MODULE ClientProofs ----------------------------
(***************************************************************************)
(* Options, locks and deadlines for any task, any options and any number   *)
(* of callers, as long as the array of the task's options is full          *)
(* (Spare = 0, which the arguments of NewTask make it unless they are a    *)
(* slice): then append copies, and the callers share nothing but the       *)
(* broker.                                                                 *)
(***************************************************************************)
EXTENDS Client, TLAPS

------------------------------------------------------------------------------
(* The options a caller reads.                                             *)

LEMMA OptionsFacts ==
  ASSUME NEW o \in Option
  PROVE  o.type \in Type /\ o.value \in Nat /\ FieldOf(o.type) \in Field
BY DEF Option, Type, Field, FieldOf

\* A task's options and a call's are all the ones an instance knows.
LEMMA AskedIsSeq ==
  ASSUME TypeOK, NEW c \in Caller
  PROVE  /\ given[c] \in Seq(Option)
         /\ Asked[c] = TaskOpts \o given[c]
         /\ Asked[c] \in Seq(Option)
         /\ Len(Asked[c]) = Count(c)
         /\ Count(c) \in Nat
<1>1. given[c] \in Choices \cup {<<>>}
  BY DEF TypeOK
<1>2. given[c] \in Seq(Option) /\ TaskOpts \in Seq(Option)
  <2>1. <<>> \in Seq(Option)
    OBVIOUS
  <2>2. QED
    BY <1>1, <2>1, OptionsAssumption, Zenon
<1>3. Asked[c] = TaskOpts \o given[c]
  BY DEF Asked
<1>4. /\ TaskOpts \o given[c] \in Seq(Option)
      /\ Len(TaskOpts \o given[c]) = Len(TaskOpts) + Len(given[c])
  BY <1>2
<1>5. Count(c) = Len(TaskOpts) + Len(given[c]) /\ Count(c) \in Nat
  BY <1>2 DEF Count
<1>6. QED
  BY <1>2, <1>3, <1>4, <1>5

\* Without room to spare, append has made the caller a copy.
LEMMA OptionIsAsked ==
  ASSUME TypeOK, Spare = 0, NEW c \in Caller, NEW i \in 1..Count(c)
  PROVE  /\ OptionAt(c, i) = Asked[c][i]
         /\ OptionAt(c, i) \in Option
<1>1. /\ given[c] \in Seq(Option) /\ TaskOpts \in Seq(Option)
      /\ Asked[c] = TaskOpts \o given[c]
      /\ Asked[c] \in Seq(Option) /\ i \in 1..Len(Asked[c])
  BY AskedIsSeq, OptionsAssumption
<1>2. CASE i =< Len(TaskOpts)
  BY <1>1, <1>2 DEF OptionAt
<1>3. CASE i > Len(TaskOpts)
  <2>1. given[c] # <<>> /\ Len(given[c]) > 0
    BY <1>1, <1>3 DEF Count
  <2>2. ~Shared(c)
    BY <2>1 DEF Shared
  <2>3. OptionAt(c, i) = given[c][i - Len(TaskOpts)]
    BY <1>1, <1>3, <2>2 DEF OptionAt
  <2>4. QED
    BY <1>1, <1>3, <2>3
<1>4. QED
  BY <1>1, <1>2, <1>3

\* What the assumptions say of an option that a caller reads.
LEMMA OptionInBounds ==
  ASSUME TypeOK, Spare = 0, NEW c \in Caller, NEW i \in 1..Count(c)
  PROVE  LET o == OptionAt(c, i)
         IN /\ o.type = "queue" => o.value \in Queue \cup {0}
            /\ o.type = "deadline" => o.value >= Second
<1>1. /\ given[c] \in Seq(Option) /\ TaskOpts \in Seq(Option)
      /\ Asked[c] = TaskOpts \o given[c]
      /\ OptionAt(c, i) = Asked[c][i]
      /\ i \in 1..(Len(TaskOpts) + Len(given[c]))
  BY AskedIsSeq, OptionIsAsked, OptionsAssumption DEF Count
<1>2. CASE i =< Len(TaskOpts)
  <2>1. OptionAt(c, i) = TaskOpts[i] /\ i \in DOMAIN TaskOpts
    BY <1>1, <1>2
  <2>2. QED
    BY <2>1, QueueAssumption, DeadlineAssumption
<1>3. CASE i > Len(TaskOpts)
  <2>1. /\ OptionAt(c, i) = given[c][i - Len(TaskOpts)]
        /\ i - Len(TaskOpts) \in DOMAIN given[c]
    BY <1>1, <1>3
  <2>2. given[c] \in Choices
    BY <2>1 DEF TypeOK
  <2>3. QED
    BY <2>1, <2>2, QueueAssumption, DeadlineAssumption
<1>4. QED
  BY <1>1, <1>2, <1>3

------------------------------------------------------------------------------
(* The inductive invariant.                                                *)

\* The callers have nothing to write to the array they share, have read as much
\* as their place says, and hold no deadline in the first second of the epoch.
Sane ==
  \A c \in Caller :
    /\ todo[c] = {}
    /\ opt[c]["deadline"] = 0 \/ opt[c]["deadline"] >= Second
    /\ pc[c] = "idle" => read[c] = 0
    /\ read[c] =< Count(c)
    /\ pc[c] \in {"scheduling", "sending"} \cup Stored => read[c] = Count(c)

LEMMA DefaultsFacts ==
  ASSUME now \in Nat
  PROVE  /\ Defaults \in [Field -> Nat]
         /\ Defaults["queue"] = DefaultQueue
         /\ Defaults["deadline"] = 0
         /\ Defaults["processAt"] = now
<1>1. \A f \in Field : Defaults[f] =
        IF f = "retry" THEN DefaultMaxRetry
        ELSE IF f = "queue" THEN DefaultQueue
        ELSE IF f = "processAt" THEN now ELSE 0
  BY Zenon DEF Defaults
<1>2. DefaultMaxRetry \in Nat /\ DefaultQueue \in Nat
  BY QueueAssumption, TimeAssumption
<1>3. {"queue", "deadline", "processAt"} \subseteq Field
  BY DEF Field, Type
<1>4. Defaults = [f \in Field |-> Defaults[f]]
  BY DEF Defaults
<1>5. \A f \in Field : Defaults[f] \in Nat
  BY <1>1, <1>2
<1>6. QED
  BY <1>1, <1>3, <1>4, <1>5

LEMMA TypeInit == ASSUME Spare = 0, Init PROVE TypeOK /\ Sane
<1>1. now = Second /\ now \in Nat
  BY DEF Init, Second
<1>2. Defaults \in [Field -> Nat] /\ Defaults["queue"] \in Queue /\ Defaults["deadline"] = 0
  BY <1>1, DefaultsFacts, QueueAssumption
<1>3. now \in Second..MaxNow /\ spare \in [1..Spare -> Option]
  BY <1>1, TimeAssumption DEF Init, Second
<1>4. /\ pc \in [Caller -> Place]
      /\ given \in [Caller -> Choices \cup {<<>>}]
      /\ todo \in [Caller -> SUBSET ((1..Spare) \X Words)]
      /\ read \in [Caller -> Nat]
  BY DEF Init, Place
<1>5. opt \in [Caller -> [Field -> Nat]] /\ \A c \in Caller : opt[c]["queue"] \in Queue
  BY <1>2 DEF Init
<1>6. /\ score \in [Caller -> Nat]
      /\ ttl \in [Caller -> Int]
      /\ endsBy \in [Caller -> Nat]
      /\ lock \in [Queue -> Nat]
      /\ ids \subseteq Queue \X (Nat \ {0})
  BY DEF Init
<1>7. time \in [Caller -> [{"called", "stored", "started"} -> Nat]]
  BY DEF Init
<1>8. TypeOK
  BY <1>3, <1>4, <1>5, <1>6, <1>7 DEF TypeOK
<1>9. \A c \in Caller : Count(c) \in Nat
  BY <1>8, AskedIsSeq
<1>10. QED
  BY <1>2, <1>8, <1>9 DEF Sane, Init, Stored

LEMMA TypeEnqueue ==
  ASSUME Spare = 0, TypeOK, Sane, NEW c \in Caller, Enqueue(c)
  PROVE  TypeOK' /\ Sane'
<1>1. PICK opts \in Choices :
        /\ given' = [given EXCEPT ![c] = opts]
        /\ todo' = [todo EXCEPT ![c] = IF Len(opts) > Spare THEN {}
                                       ELSE (1..Len(opts)) \X Words]
  BY DEF Enqueue
<1>2. now \in Nat /\ Defaults \in [Field -> Nat]
      /\ Defaults["queue"] \in Queue /\ Defaults["deadline"] = 0
  <2>1. now \in Nat
    BY TimeAssumption DEF TypeOK, Second
  <2>2. QED
    BY <2>1, DefaultsFacts, QueueAssumption
<1>3. todo' = [todo EXCEPT ![c] = {}]
  <2>1. opts \in Seq(Option) /\ Len(opts) \in Nat
    BY OptionsAssumption
  <2>2. Len(opts) = 0 => 1..Len(opts) = {}
    OBVIOUS
  <2>3. Len(opts) = 0 => (1..Len(opts)) \X Words = {}
    BY <2>2
  <2>4. Len(opts) = 0 \/ Len(opts) > Spare
    BY <2>1
  <2>5. QED
    BY <1>1, <2>3, <2>4, <2>1
<1>4. /\ now' \in Second..MaxNow
      /\ spare' \in [1..Spare -> Option]
      /\ pc' \in [Caller -> Place]
      /\ given' \in [Caller -> Choices \cup {<<>>}]
      /\ todo' \in [Caller -> SUBSET ((1..Spare) \X Words)]
  BY <1>1, <1>3 DEF TypeOK, Enqueue, Place
<1>5. /\ read' \in [Caller -> Nat]
      /\ opt' \in [Caller -> [Field -> Nat]]
      /\ \A d \in Caller : opt'[d]["queue"] \in Queue
  BY <1>2 DEF TypeOK, Enqueue
<1>6. /\ score' \in [Caller -> Nat] /\ ttl' \in [Caller -> Int]
      /\ endsBy' \in [Caller -> Nat] /\ lock' \in [Queue -> Nat]
      /\ ids' \subseteq Queue \X (Nat \ {0})
  BY DEF TypeOK, Enqueue
<1>7. time' \in [Caller -> [{"called", "stored", "started"} -> Nat]]
  BY <1>2 DEF TypeOK, Enqueue
<1>8. TypeOK'
  BY <1>4, <1>5, <1>6, <1>7 DEF TypeOK
<1>9. ASSUME NEW d \in Caller PROVE Count(d)' \in Nat /\ (d # c => Count(d)' = Count(d))
  <2>1. Len(given'[d]) \in Nat
    <3>1. <<>> \in Seq(Option)
      OBVIOUS
    <3>2. given'[d] \in Seq(Option)
      BY <1>4, <3>1, OptionsAssumption, Zenon
    <3>3. QED
      BY <3>2
  <2>2. QED
    BY <1>1, <2>1, OptionsAssumption DEF Count, TypeOK
<1>10. ASSUME NEW d \in Caller
       PROVE  /\ todo'[d] = {}
              /\ opt'[d]["deadline"] = 0 \/ opt'[d]["deadline"] >= Second
              /\ pc'[d] = "idle" => read'[d] = 0
              /\ read'[d] =< Count(d)'
              /\ pc'[d] \in {"scheduling", "sending"} \cup Stored => read'[d] = Count(d)'
  <2>1. CASE d = c
    <3>1. /\ pc[c] = "idle" /\ pc'[c] = "composing" /\ read'[c] = read[c]
          /\ opt'[c] = Defaults /\ todo'[c] = {}
      BY <1>3 DEF TypeOK, Enqueue
    <3>2. read[c] = 0
      BY <3>1 DEF Sane
    <3>3. QED
      BY <1>2, <1>9, <2>1, <3>1, <3>2 DEF Stored
  <2>2. CASE d # c
    <3>1. /\ pc'[d] = pc[d] /\ read'[d] = read[d]
          /\ opt'[d] = opt[d] /\ todo'[d] = todo[d] /\ Count(d)' = Count(d)
      BY <1>3, <1>9, <2>2 DEF TypeOK, Enqueue
    <3>2. QED
      BY <3>1 DEF Sane, Stored
  <2>3. QED
    BY <2>1, <2>2
<1>11. QED
  BY <1>8, <1>10 DEF Sane, Stored

\* A step that leaves the options alone: what is left to show of it.
LEMMA TypeKept ==
  ASSUME Spare = 0, TypeOK, Sane, NEW c \in Caller,
         UNCHANGED <<spare, given, todo, read, opt>>,
         now' \in Second..MaxNow,
         pc' \in [Caller -> Place],
         \A d \in Caller : d # c => pc'[d] = pc[d],
         pc'[c] # "idle" \/ pc'[c] = pc[c],
         pc'[c] \in {"scheduling", "sending"} \cup Stored => read[c] = Count(c),
         score' \in [Caller -> Nat], ttl' \in [Caller -> Int],
         time' \in [Caller -> [{"called", "stored", "started"} -> Nat]],
         endsBy' \in [Caller -> Nat], lock' \in [Queue -> Nat], ids' \subseteq Queue \X (Nat \ {0})
  PROVE  TypeOK' /\ Sane'
<1>1. TypeOK'
  BY DEF TypeOK
<1>2. \A d \in Caller : Count(d)' = Count(d)
  BY DEF Count
<1>3. QED
  BY <1>1, <1>2 DEF Sane, Stored

LEMMA ClockIsNat == ASSUME TypeOK PROVE now \in Nat /\ now >= 2
BY TimeAssumption DEF TypeOK, Second

LEMMA TypeCompose ==
  ASSUME Spare = 0, TypeOK, Sane, NEW c \in Caller, Compose(c)
  PROVE  TypeOK' /\ Sane'
<1> DEFINE o == OptionAt(c, read[c] + 1)
           v == IF o.type = "processIn" THEN now + o.value ELSE o.value
<1>1. /\ read[c] + 1 \in 1..Count(c)
      /\ pc[c] = "composing" /\ ~Invalid(o)
      /\ opt' = [opt EXCEPT ![c][FieldOf(o.type)] = v]
      /\ read' = [read EXCEPT ![c] = @ + 1]
      /\ UNCHANGED <<now, spare, pc, given, todo, score, ttl, time, endsBy, lock, ids>>
  <2>1. Count(c) \in Nat /\ read[c] \in Nat
    BY AskedIsSeq DEF TypeOK
  <2>2. QED
    BY <2>1 DEF Compose, Composing
<1>2. /\ o \in Option /\ o.type \in Type /\ o.value \in Nat
      /\ FieldOf(o.type) \in Field
      /\ o.type = "queue" => o.value \in Queue \cup {0}
      /\ o.type = "deadline" => o.value >= Second
  <2>1. o \in Option
    BY <1>1, OptionIsAsked
  <2>2. QED
    BY <1>1, <2>1, OptionsFacts, OptionInBounds
<1>3. /\ v \in Nat
      /\ FieldOf(o.type) = "queue" => v \in Queue
      /\ FieldOf(o.type) = "deadline" => v >= Second
  BY <1>1, <1>2, ClockIsNat DEF Invalid, FieldOf
<1> HIDE DEF o, v
<1>4. /\ opt' \in [Caller -> [Field -> Nat]]
      /\ \A d \in Caller : opt'[d]["queue"] \in Queue
      /\ \A d \in Caller : opt'[d]["deadline"] = 0 \/ opt'[d]["deadline"] >= Second
  <2> DEFINE g == FieldOf(o.type)
  <2>1. g \in Field /\ opt' = [opt EXCEPT ![c][g] = v] /\ opt \in [Caller -> [Field -> Nat]]
    BY <1>1, <1>2 DEF TypeOK
  <2>2. /\ g = "queue" => v \in Queue
        /\ g = "deadline" => v >= Second
    BY <1>3
  <2>3. "queue" \in Field /\ "deadline" \in Field
    BY DEF Field, Type
  <2> HIDE DEF g
  <2>4. \A d \in Caller : /\ opt[d]["queue"] \in Queue
                          /\ opt[d]["deadline"] = 0 \/ opt[d]["deadline"] >= Second
    BY DEF TypeOK, Sane
  <2>5. QED
    BY <1>3, <2>1, <2>2, <2>3, <2>4
<1>5. read' \in [Caller -> Nat]
  BY <1>1 DEF TypeOK
<1>6. TypeOK'
  BY <1>1, <1>4, <1>5 DEF TypeOK
<1>7. \A d \in Caller : Count(d)' = Count(d)
  BY <1>1 DEF Count
<1>8. ASSUME NEW d \in Caller
      PROVE  /\ pc'[d] = "idle" => read'[d] = 0
             /\ read'[d] =< Count(d)'
             /\ pc'[d] \in {"scheduling", "sending"} \cup Stored => read'[d] = Count(d)'
  <2>1. CASE d = c
    BY <1>1, <1>7, <2>1 DEF TypeOK, Stored
  <2>2. CASE d # c
    <3>1. pc'[d] = pc[d] /\ read'[d] = read[d]
      BY <1>1, <2>2 DEF TypeOK
    <3>2. QED
      BY <1>7, <3>1 DEF Sane
  <2>3. QED
    BY <2>1, <2>2
<1>9. QED
  BY <1>1, <1>4, <1>6, <1>8 DEF Sane, Stored

LEMMA TypeRefuse ==
  ASSUME Spare = 0, TypeOK, Sane, NEW c \in Caller, Refuse(c),
         lock' \in [Queue -> Nat], ids' = ids
  PROVE  TypeOK' /\ Sane'
<1>1. /\ UNCHANGED <<now, spare, given, todo, read, opt, score, ttl, time, endsBy>>
      /\ pc' = [pc EXCEPT ![c] = "refused"]
  BY DEF Refuse
<1>2. /\ pc' \in [Caller -> Place] /\ pc'[c] = "refused"
      /\ \A d \in Caller : d # c => pc'[d] = pc[d]
  BY <1>1 DEF TypeOK, Place
<1>3. /\ now' \in Second..MaxNow /\ score' \in [Caller -> Nat] /\ ttl' \in [Caller -> Int]
      /\ time' \in [Caller -> [{"called", "stored", "started"} -> Nat]]
      /\ endsBy' \in [Caller -> Nat] /\ ids' \subseteq Queue \X (Nat \ {0})
  BY <1>1 DEF TypeOK
<1>4. pc'[c] \notin {"scheduling", "sending"} \cup Stored
  BY <1>2 DEF Stored
<1>5. QED
  BY <1>1, <1>2, <1>3, <1>4, TypeKept

LEMMA LockType ==
  ASSUME TypeOK, NEW c \in Caller, TakeLock(c), ~LockRefused(c)
  PROVE  lock' \in [Queue -> Nat]
<1>1. now + Second * Seconds(ttl[c]) \in Nat \/ ~Unique(c)
  <2>1. ttl[c] \in Int /\ now \in Nat
    BY ClockIsNat DEF TypeOK
  <2>2. QED
    BY <2>1 DEF LockRefused, Second, Seconds
<1>2. QED
  BY <1>1 DEF TypeOK, TakeLock

\* The four cases of computeDeadline, in the task's own times.
LEMMA DeadlineCases ==
  ASSUME TypeOK, Sane, NEW c \in Caller
  PROVE  LET t == opt[c]["timeout"]
             d == opt[c]["deadline"]
             T == t \div 2
             D == d \div 2
         IN /\ t \in Nat /\ d \in Nat /\ T \in Nat /\ D \in Nat
            /\ d = 0 \/ D >= 1
            /\ t = 0 /\ d = 0 => ComputeDeadline(c) = now + 2 * (DefaultTimeout \div 2)
            /\ t # 0 /\ T = 0 /\ d = 0 => ComputeDeadline(c) = now + DefaultTimeout
            /\ T # 0 /\ d = 0 => ComputeDeadline(c) = now + 2 * T
            /\ T = 0 /\ d # 0 => ComputeDeadline(c) = 2 * D
            /\ T # 0 /\ d # 0 =>
                 ComputeDeadline(c) = 2 * (IF now \div 2 + T < D THEN now \div 2 + T ELSE D)
<1> DEFINE t == opt[c]["timeout"]
           d == opt[c]["deadline"]
           T == t \div 2
           D == d \div 2
<1>1. /\ t \in Nat /\ d \in Nat /\ T \in Nat /\ D \in Nat
      /\ d = 0 \/ D >= 1
  <2>1. {"timeout", "deadline"} \subseteq Field
    BY DEF Field, Type
  <2>2. t \in Nat /\ d \in Nat
    BY <2>1 DEF TypeOK
  <2>3. d = 0 \/ d >= 2
    BY DEF Sane, Second
  <2>4. QED
    BY <2>2, <2>3
<1>2. /\ Deadline(c) = D
      /\ Timeout(c) = IF t = 0 /\ d = 0 THEN DefaultTimeout \div 2 ELSE T
  BY DEF Deadline, Timeout, Seconds, Second
<1>3. /\ DefaultTimeout \in Nat /\ DefaultTimeout >= 2 /\ DefaultTimeout \div 2 # 0
      /\ now \in Nat
  BY TimeAssumption, ClockIsNat DEF Second
<1>4. d = 0 => D = 0
  BY <1>1
<1>5. t = 0 => T = 0
  BY <1>1
<1> HIDE DEF t, d, T, D
<1>6. Timeout(c) = 0 /\ Deadline(c) = 0 => ComputeDeadline(c) = now + DefaultTimeout
  BY Zenon DEF ComputeDeadline
<1>7. Timeout(c) # 0 /\ Deadline(c) = 0 => ComputeDeadline(c) = now + Second * Timeout(c)
  BY Zenon DEF ComputeDeadline
<1>8. Timeout(c) = 0 /\ Deadline(c) # 0 => ComputeDeadline(c) = Second * Deadline(c)
  BY Zenon DEF ComputeDeadline
<1>9. Timeout(c) # 0 /\ Deadline(c) # 0 =>
        ComputeDeadline(c) = Second * Earlier(Seconds(now) + Timeout(c), Deadline(c))
  BY Zenon DEF ComputeDeadline
<1>10. /\ t = 0 /\ d = 0 => ComputeDeadline(c) = now + 2 * (DefaultTimeout \div 2)
       /\ t # 0 /\ T = 0 /\ d = 0 => ComputeDeadline(c) = now + DefaultTimeout
       /\ T # 0 /\ d = 0 => ComputeDeadline(c) = now + 2 * T
  BY <1>1, <1>2, <1>3, <1>4, <1>5, <1>6, <1>7 DEF Second
<1>11. /\ T = 0 /\ d # 0 => ComputeDeadline(c) = 2 * D
       /\ T # 0 /\ d # 0 =>
            ComputeDeadline(c) = 2 * (IF now \div 2 + T < D THEN now \div 2 + T ELSE D)
  BY <1>1, <1>2, <1>3, <1>8, <1>9 DEF Second, Earlier, Seconds
<1>12. QED
  BY <1>1, <1>3, <1>10, <1>11 DEF t, d, T, D

LEMMA DecideCases ==
  ASSUME NEW c \in Caller, Decide(c)
  PROVE  \/ /\ opt[c]["processAt"] > now
            /\ pc' = [pc EXCEPT ![c] = "scheduling"] /\ ttl' = ttl
            /\ score' = [score EXCEPT ![c] = Seconds(opt[c]["processAt"])]
         \/ /\ ~(opt[c]["processAt"] > now)
            /\ pc' = [pc EXCEPT ![c] = "sending"] /\ score' = score
            /\ ttl' = [ttl EXCEPT ![c] = opt[c]["unique"]]
BY Zenon DEF Decide

LEMMA TypeStep ==
  ASSUME Spare = 0, TypeOK, Sane, [Next]_vars
  PROVE  TypeOK' /\ Sane'
<1>1. ASSUME NEW c \in Caller, ComposeFails(c) \/ SendFails(c) \/ StoreFails(c)
      PROVE  TypeOK' /\ Sane'
  <2>1. Refuse(c) /\ ids' = ids
    BY <1>1 DEF ComposeFails, SendFails, StoreFails
  <2>2. lock' = lock \/ (TakeLock(c) /\ ~LockRefused(c))
    BY <1>1 DEF ComposeFails, SendFails, StoreFails
  <2>3. lock' \in [Queue -> Nat]
    BY <2>2, LockType DEF TypeOK
  <2>4. QED
    BY <2>1, <2>3, TypeRefuse
<1>2. ASSUME NEW c \in Caller, Decide(c) PROVE TypeOK' /\ Sane'
  <2>1. /\ UNCHANGED <<now, spare, given, todo, read, opt, time, endsBy, lock, ids>>
        /\ pc[c] = "composing" /\ read[c] = Count(c)
        /\ \/ pc' = [pc EXCEPT ![c] = "scheduling"]
           \/ pc' = [pc EXCEPT ![c] = "sending"]
    BY <1>2 DEF Decide, Composing
  <2>2. {"processAt", "unique"} \subseteq Field
    BY DEF Field, Type
  <2>3. score' \in [Caller -> Nat] /\ ttl' \in [Caller -> Int]
    <3>1. opt[c]["processAt"] \in Nat /\ opt[c]["unique"] \in Nat
      BY <2>2 DEF TypeOK
    <3>2. Seconds(opt[c]["processAt"]) \in Nat
      BY <3>1 DEF Seconds, Second
    <3>3. score \in [Caller -> Nat] /\ ttl \in [Caller -> Int]
      BY DEF TypeOK
    <3>4. QED
      BY <1>2, <3>1, <3>2, <3>3, DecideCases
  <2>4. /\ pc' \in [Caller -> Place] /\ pc'[c] \in {"scheduling", "sending"}
        /\ \A d \in Caller : d # c => pc'[d] = pc[d]
    BY <2>1 DEF TypeOK, Place
  <2>5. QED
    BY <2>1, <2>3, <2>4, TypeKept DEF TypeOK
<1>3. ASSUME NEW c \in Caller, Schedule(c) PROVE TypeOK' /\ Sane'
  <2>1. /\ UNCHANGED <<now, spare, given, todo, read, opt, score, time, endsBy, lock, ids>>
        /\ pc[c] = "scheduling" /\ pc' = [pc EXCEPT ![c] = "sending"]
    BY <1>3 DEF Schedule
  <2>2. ttl' \in [Caller -> Int]
    <3>1. {"processAt", "unique"} \subseteq Field
      BY DEF Field, Type
    <3>2. opt[c]["processAt"] \in Nat /\ opt[c]["unique"] \in Nat /\ now \in Nat
      BY <3>1, ClockIsNat DEF TypeOK
    <3>3. QED
      BY <1>3, <3>2 DEF Schedule, TypeOK
  <2>3. /\ pc' \in [Caller -> Place] /\ pc'[c] = "sending"
        /\ \A d \in Caller : d # c => pc'[d] = pc[d]
    BY <2>1 DEF TypeOK, Place
  <2>4. read[c] = Count(c)
    BY <2>1 DEF Sane
  <2>5. QED
    BY <2>1, <2>2, <2>3, <2>4, TypeKept DEF TypeOK
<1>4. ASSUME NEW c \in Caller, Store(c) PROVE TypeOK' /\ Sane'
  <2>1. /\ UNCHANGED <<now, spare, given, todo, read, opt, score, ttl, endsBy>>
        /\ pc[c] = "sending" /\ pc' = [pc EXCEPT ![c] = "stored"]
        /\ TakeLock(c) /\ ~LockRefused(c)
        /\ time' = [time EXCEPT ![c]["stored"] = now]
        /\ ids' = IF IDOf(c) = 0 THEN ids ELSE ids \cup {TaskKey(c)}
    BY <1>4 DEF Store
  <2>2. /\ pc' \in [Caller -> Place] /\ pc'[c] = "stored"
        /\ \A d \in Caller : d # c => pc'[d] = pc[d]
    BY <2>1 DEF TypeOK, Place, Stored
  <2>3. ids' \subseteq Queue \X (Nat \ {0})
    <3>1. "taskID" \in Field
      BY DEF Field, Type
    <3>2. IDOf(c) \in Nat /\ QueueOf(c) \in Queue
      BY <3>1 DEF IDOf, QueueOf, TypeOK
    <3>3. IDOf(c) # 0 => TaskKey(c) \in Queue \X (Nat \ {0})
      BY <3>2 DEF TaskKey
    <3>4. ids \subseteq Queue \X (Nat \ {0})
      BY DEF TypeOK
    <3>5. QED
      BY <2>1, <3>3, <3>4
  <2>4. time' \in [Caller -> [{"called", "stored", "started"} -> Nat]]
    BY <2>1, ClockIsNat DEF TypeOK
  <2>5. lock' \in [Queue -> Nat]
    BY <2>1, LockType
  <2>6. read[c] = Count(c)
    BY <2>1 DEF Sane
  <2>7. QED
    BY <2>1, <2>2, <2>3, <2>4, <2>5, <2>6, TypeKept DEF TypeOK
<1>5. ASSUME NEW c \in Caller, Start(c) PROVE TypeOK' /\ Sane'
  <2>1. /\ UNCHANGED <<now, spare, given, todo, read, opt, score, ttl, lock, ids>>
        /\ pc[c] = "stored" /\ pc' = [pc EXCEPT ![c] = "running"]
        /\ time' = [time EXCEPT ![c]["started"] = now]
        /\ endsBy' = [endsBy EXCEPT ![c] = ComputeDeadline(c)]
    BY <1>5 DEF Start
  <2>2. /\ pc' \in [Caller -> Place] /\ pc'[c] = "running"
        /\ \A d \in Caller : d # c => pc'[d] = pc[d]
    BY <2>1 DEF TypeOK, Place, Stored
  <2>3. ComputeDeadline(c) \in Nat
    BY DeadlineCases, ClockIsNat, TimeAssumption
  <2>4. time' \in [Caller -> [{"called", "stored", "started"} -> Nat]]
        /\ endsBy' \in [Caller -> Nat]
    BY <2>1, <2>3, ClockIsNat DEF TypeOK
  <2>5. read[c] = Count(c)
    BY <2>1 DEF Sane, Stored
  <2>6. QED
    BY <2>1, <2>2, <2>4, <2>5, TypeKept DEF TypeOK
<1>6. ASSUME Tick PROVE TypeOK' /\ Sane'
  <2>1. now' \in Second..MaxNow
    BY <1>6, TimeAssumption DEF Tick, TypeOK, Second
  <2>2. TypeOK'
    BY <1>6, <2>1 DEF Tick, TypeOK
  <2>3. QED
    BY <1>6, <2>2 DEF Tick, Sane, Count
<1>7. ASSUME UNCHANGED vars PROVE TypeOK' /\ Sane'
  BY <1>7 DEF vars, TypeOK, Sane, Count
<1>8. ASSUME NEW c \in Caller, AppendWord(c) PROVE FALSE
  BY <1>8 DEF AppendWord, Sane
<1>9. QED
  BY <1>1, <1>2, <1>3, <1>4, <1>5, <1>6, <1>7, <1>8, TypeEnqueue, TypeCompose
  DEF Next, TimeIsUp

LEMMA ClientTypesSane == ASSUME Spare = 0 PROVE Spec => [](TypeOK /\ Sane)
<1>1. Init => TypeOK /\ Sane
  BY TypeInit
<1>2. TypeOK /\ Sane /\ [Next]_vars => (TypeOK /\ Sane)'
  BY TypeStep
<1>3. QED
  BY <1>1, <1>2, PTL DEF Spec

\* Types, of what callers compose and of what the broker keeps: no option, valid
\* or not, gets a caller past composeOptions with a queue of no name.
THEOREM ClientTypes == ASSUME Spare = 0 PROVE Spec => []TypeOK
BY ClientTypesSane, PTL

------------------------------------------------------------------------------
(* What a step does to one caller.                                         *)

Untouched(d) ==
  /\ pc'[d] = pc[d] /\ given'[d] = given[d] /\ todo'[d] = todo[d]
  /\ read'[d] = read[d] /\ opt'[d] = opt[d] /\ score'[d] = score[d]
  /\ ttl'[d] = ttl[d] /\ time'[d] = time[d] /\ endsBy'[d] = endsBy[d]

\* Its own steps after the first.
Fails(c) == ComposeFails(c) \/ SendFails(c) \/ StoreFails(c)

LEMMA CallerSteps ==
  ASSUME TypeOK, Sane, [Next]_vars, NEW d \in Caller
  PROVE  \/ Untouched(d) \/ Enqueue(d) \/ Compose(d) \/ Fails(d)
         \/ Decide(d) \/ Schedule(d) \/ Store(d) \/ Start(d)
<1>1. ASSUME NEW c \in Caller, c # d, Enqueue(c) PROVE Untouched(d)
  BY <1>1 DEF Enqueue, Untouched, TypeOK
<1>2. ASSUME NEW c \in Caller, c # d, Compose(c) PROVE Untouched(d)
  BY <1>2 DEF Compose, Untouched, TypeOK
<1>3. ASSUME NEW c \in Caller, c # d, Fails(c) PROVE Untouched(d)
  <2>1. Refuse(c)
    BY <1>3 DEF Fails, ComposeFails, SendFails, StoreFails
  <2>2. ttl' = ttl
    BY <2>1 DEF Refuse
  <2>3. QED
    BY <1>3, <2>1, <2>2 DEF Refuse, Untouched, TypeOK
<1>4. ASSUME NEW c \in Caller, c # d, Decide(c) PROVE Untouched(d)
  <2>1. UNCHANGED <<given, todo, read, opt, time, endsBy>>
    BY <1>4 DEF Decide
  <2>2. pc'[d] = pc[d] /\ score'[d] = score[d] /\ ttl'[d] = ttl[d]
    BY <1>4, DecideCases DEF TypeOK
  <2>3. QED
    BY <2>1, <2>2 DEF Untouched
<1>5. ASSUME NEW c \in Caller, c # d, Schedule(c) PROVE Untouched(d)
  BY <1>5 DEF Schedule, Untouched, TypeOK
<1>6. ASSUME NEW c \in Caller, c # d, Store(c) PROVE Untouched(d)
  BY <1>6 DEF Store, Untouched, TypeOK
<1>7. ASSUME NEW c \in Caller, c # d, Start(c) PROVE Untouched(d)
  BY <1>7 DEF Start, Untouched, TypeOK
<1>8. ASSUME NEW c \in Caller, AppendWord(c) PROVE FALSE
  BY <1>8 DEF AppendWord, Sane
<1>9. ASSUME Tick \/ UNCHANGED vars PROVE Untouched(d)
  BY <1>9 DEF Tick, vars, Untouched
<1>10. QED
  BY <1>1, <1>2, <1>3, <1>4, <1>5, <1>6, <1>7, <1>8, <1>9 DEF Next, TimeIsUp, Fails

LEMMA ClockForward == ASSUME TypeOK, [Next]_vars PROVE now' \in Nat /\ now =< now'
<1>1. now' = now \/ now' = now + 1
  BY DEF Next, Enqueue, AppendWord, Compose, ComposeFails, Refuse, Decide, Schedule, Store,
         StoreFails, SendFails, Start, Tick, TimeIsUp, vars
<1>2. QED
  BY <1>1, ClockIsNat

------------------------------------------------------------------------------
(* The time a handler has.                                                 *)

\* What InTime says of one caller.
HandlerInTime(c) ==
  LET t == opt[c]["timeout"]
      d == opt[c]["deadline"]
      start == time[c]["started"]
      limit == CASE t = 0 /\ d = 0 -> start + DefaultTimeout
                 [] t # 0 /\ d = 0 -> start + t
                 [] t = 0 /\ d # 0 -> d
                 [] t # 0 /\ d # 0 -> Earlier(start + t, d)
  IN pc[c] = "running" /\ ~(0 < t /\ t < Second) =>
       limit - 2 * Second < endsBy[c] /\ endsBy[c] =< limit

LEMMA InTimeStart ==
  ASSUME TypeOK, Sane, NEW c \in Caller, Start(c)
  PROVE  HandlerInTime(c)'
<1> DEFINE t == opt[c]["timeout"]
           d == opt[c]["deadline"]
           T == t \div 2
           D == d \div 2
<1>1. /\ opt' = opt /\ now' = now
      /\ time'[c]["started"] = now /\ endsBy'[c] = ComputeDeadline(c)
  BY DEF Start, TypeOK
<1>2. /\ now \in Nat /\ now >= 2
      /\ DefaultTimeout \in Nat /\ DefaultTimeout >= 2
  BY ClockIsNat, TimeAssumption DEF Second
<1>3. /\ t \in Nat /\ d \in Nat /\ T \in Nat /\ D \in Nat
      /\ t = 2 * T \/ t = 2 * T + 1
      /\ d = 2 * D \/ d = 2 * D + 1
  <2>1. t \in Nat /\ d \in Nat
    BY DeadlineCases
  <2>2. \A n \in Nat : n \div 2 \in Nat /\ (n = 2 * (n \div 2) \/ n = 2 * (n \div 2) + 1)
    OBVIOUS
  <2>3. QED
    BY <2>1, <2>2
<1>4. /\ d = 0 \/ D >= 1
      /\ t = 0 /\ d = 0 => endsBy'[c] = now + 2 * (DefaultTimeout \div 2)
      /\ T # 0 /\ d = 0 => endsBy'[c] = now + 2 * T
      /\ T = 0 /\ d # 0 => endsBy'[c] = 2 * D
      /\ T # 0 /\ d # 0 =>
           endsBy'[c] = 2 * (IF now \div 2 + T < D THEN now \div 2 + T ELSE D)
  BY <1>1, DeadlineCases
<1>5. t = opt'[c]["timeout"] /\ d = opt'[c]["deadline"]
  BY <1>1
<1> HIDE DEF t, d, T, D
<1> DEFINE limit == IF t = 0 /\ d = 0 THEN now + DefaultTimeout
                    ELSE IF d = 0 THEN now + t
                    ELSE IF t = 0 THEN d
                    ELSE Earlier(now + t, d)
<1>6. ~(0 < t /\ t < 2) => limit - 4 < endsBy'[c] /\ endsBy'[c] =< limit
  <2>1. CASE t = 0 /\ d = 0
    BY <1>2, <1>4, <2>1
  <2>2. CASE t # 0 /\ d = 0
    BY <1>2, <1>3, <1>4, <2>2
  <2>3. CASE t = 0 /\ d # 0
    BY <1>2, <1>3, <1>4, <2>3
  <2>4. CASE t # 0 /\ d # 0
    BY <1>2, <1>3, <1>4, <2>4 DEF Earlier
  <2>5. QED
    BY <1>3, <2>1, <2>2, <2>3, <2>4
<1>7. QED
  <2>1. time'[c]["started"] = now
    BY <1>1
  <2>2. limit = IF t = 0 /\ d = 0 THEN time'[c]["started"] + DefaultTimeout
                ELSE IF d = 0 THEN time'[c]["started"] + t
                ELSE IF t = 0 THEN d
                ELSE Earlier(time'[c]["started"] + t, d)
    BY <2>1
  <2> HIDE DEF limit
  <2>3. HandlerInTime(c)' <=>
          (pc'[c] = "running" /\ ~(0 < t /\ t < Second) =>
             limit - 2 * Second < endsBy'[c] /\ endsBy'[c] =< limit)
    BY <1>5, <2>2, Zenon DEF HandlerInTime
  <2>4. QED
    BY <1>6, <2>3 DEF Second

\* Every handler has the time its options give it, to the second.
THEOREM ClientInTime == ASSUME Spare = 0 PROVE Spec => []InTime
<1>1. Init => InTime
  BY DEF Init, InTime
<1>2. ASSUME TypeOK, Sane, InTime, [Next]_vars PROVE InTime'
  <2>1. ASSUME NEW c \in Caller PROVE HandlerInTime(c)'
    <3>1. HandlerInTime(c)
      BY <1>2 DEF InTime, HandlerInTime
    <3>2. CASE Untouched(c)
      BY <3>1, <3>2 DEF Untouched, HandlerInTime
    <3>3. CASE Start(c)
      BY <1>2, <3>3, InTimeStart
    <3>4. CASE pc'[c] # "running"
      BY <3>4 DEF HandlerInTime
    <3>5. QED
      <4>1. Enqueue(c) \/ Compose(c) \/ Fails(c) \/ Decide(c) \/ Schedule(c) \/ Store(c)
              => pc'[c] # "running"
        BY <1>2, DecideCases
        DEF Enqueue, Compose, Composing, Fails, ComposeFails, SendFails, StoreFails,
            Refuse, Schedule, Store, TypeOK
      <4>2. QED
        BY <1>2, <3>2, <3>3, <3>4, <4>1, CallerSteps
  <2>2. QED
    BY <2>1 DEF InTime, HandlerInTime
<1>3. TypeOK /\ Sane /\ InTime /\ [Next]_vars => InTime'
  BY <1>2
<1>4. QED
  BY <1>1, <1>3, ClientTypesSane, PTL DEF Spec

------------------------------------------------------------------------------
(* The locks of unique tasks.                                              *)

\* The lock a caller asks for ends when its options say, counted from its clock
\* if the task is due at once, or else from when it is due.
Timed(c) ==
  /\ pc[c] \in {"idle", "composing"} => score[c] = 0
  /\ pc[c] = "scheduling" => score[c] > 0
  /\ pc[c] \in {"sending"} \cup Stored /\ score[c] = 0 => ttl[c] = opt[c]["unique"]
  /\ pc[c] = "sending" /\ score[c] > 0 =>
       ttl[c] + now >= opt[c]["processAt"] + opt[c]["unique"]
  /\ pc[c] \in Stored =>
       /\ time[c]["stored"] =< now
       /\ score[c] > 0 =>
            ttl[c] + time[c]["stored"] >= opt[c]["processAt"] + opt[c]["unique"]

\* When the lock that c has taken ends.
LockEnd(c) == time[c]["stored"] + 2 * (ttl[c] \div 2)

\* Locks only grow; nobody else takes one before it ends.
Held(c) ==
  pc[c] \in Stored /\ Unique(c) => ttl[c] >= 2 /\ lock[QueueOf(c)] >= LockEnd(c)

Apart(c, d) ==
  /\ c # d /\ {pc[c], pc[d]} \subseteq Stored
  /\ Unique(c) /\ Unique(d) /\ QueueOf(c) = QueueOf(d)
  /\ time[c]["stored"] =< time[d]["stored"]
  => time[d]["stored"] >= LockEnd(c)

LEMMA CallerTypes ==
  ASSUME TypeOK, NEW c \in Caller
  PROVE  /\ opt[c]["unique"] \in Nat /\ opt[c]["processAt"] \in Nat
         /\ opt[c]["queue"] \in Queue
         /\ ttl[c] \in Int /\ score[c] \in Nat
         /\ time[c]["stored"] \in Nat /\ time[c]["called"] \in Nat /\ time[c]["started"] \in Nat
         /\ \A q \in Queue : lock[q] \in Nat
<1>1. {"unique", "processAt", "queue"} \subseteq Field
  BY DEF Field, Type
<1>2. QED
  BY <1>1 DEF TypeOK

LEMMA TimedStep ==
  ASSUME TypeOK, Sane, [Next]_vars, NEW c \in Caller, Timed(c)
  PROVE  Timed(c)'
<1>1. /\ now \in Nat /\ now' \in Nat /\ now =< now' /\ now >= 2
      /\ opt[c]["unique"] \in Nat /\ opt[c]["processAt"] \in Nat
      /\ ttl[c] \in Int /\ score[c] \in Nat /\ time[c]["stored"] \in Nat
  BY ClockIsNat, ClockForward, CallerTypes
<1>2. CASE Untouched(c)
  BY <1>1, <1>2 DEF Untouched, Timed, Stored
<1>3. CASE Enqueue(c)
  <2>1. pc[c] = "idle" /\ pc'[c] = "composing" /\ score'[c] = score[c]
    BY <1>3 DEF Enqueue, TypeOK
  <2>2. QED
    BY <2>1 DEF Timed, Stored
<1>4. CASE Compose(c)
  <2>1. pc[c] = "composing" /\ pc'[c] = "composing" /\ score'[c] = score[c]
    BY <1>4 DEF Compose, Composing
  <2>2. QED
    BY <2>1 DEF Timed, Stored
<1>5. CASE Fails(c)
  <2>1. pc'[c] = "refused"
    BY <1>5 DEF Fails, ComposeFails, SendFails, StoreFails, Refuse, TypeOK
  <2>2. QED
    BY <2>1 DEF Timed, Stored
<1>6. CASE Decide(c)
  <2>1. pc[c] = "composing" /\ opt' = opt
    BY <1>6 DEF Decide, Composing
  <2>2. score[c] = 0
    BY <2>1 DEF Timed
  <2>3. \/ pc'[c] = "scheduling" /\ score'[c] = Seconds(opt[c]["processAt"])
           /\ opt[c]["processAt"] > now
        \/ pc'[c] = "sending" /\ score'[c] = 0 /\ ttl'[c] = opt[c]["unique"]
    BY <1>6, <2>2, DecideCases DEF TypeOK
  <2>4. QED
    BY <1>1, <2>1, <2>3 DEF Timed, Stored, Seconds, Second
<1>7. CASE Schedule(c)
  <2>1. /\ pc[c] = "scheduling" /\ pc'[c] = "sending" /\ opt' = opt /\ score' = score
        /\ ttl'[c] = opt[c]["processAt"] + opt[c]["unique"] - now /\ now' = now
    BY <1>7 DEF Schedule, TypeOK
  <2>2. QED
    BY <1>1, <2>1 DEF Timed, Stored
<1>8. CASE Store(c)
  <2>1. /\ pc[c] = "sending" /\ pc'[c] = "stored" /\ opt' = opt /\ score' = score /\ ttl' = ttl
        /\ time'[c]["stored"] = now /\ now' = now
    BY <1>8 DEF Store, TypeOK
  <2>2. QED
    BY <1>1, <2>1 DEF Timed, Stored
<1>9. CASE Start(c)
  <2>1. /\ pc[c] = "stored" /\ pc'[c] = "running" /\ opt' = opt /\ score' = score /\ ttl' = ttl
        /\ time'[c]["stored"] = time[c]["stored"] /\ now' = now
    BY <1>9 DEF Start, TypeOK
  <2>2. QED
    BY <1>1, <2>1 DEF Timed, Stored
<1>10. QED
  BY <1>2, <1>3, <1>4, <1>5, <1>6, <1>7, <1>8, <1>9, CallerSteps

LEMMA LockTaken ==
  ASSUME TypeOK, NEW c \in Caller, TakeLock(c), ~LockRefused(c)
  PROVE  /\ \A q \in Queue : lock'[q] >= lock[q]
         /\ Unique(c) => /\ ttl[c] >= 2 /\ lock[QueueOf(c)] =< now
                         /\ lock'[QueueOf(c)] = now + 2 * (ttl[c] \div 2)
<1>1. /\ now \in Nat /\ ttl[c] \in Int /\ QueueOf(c) \in Queue
      /\ \A q \in Queue : lock[q] \in Nat
  BY ClockIsNat, CallerTypes DEF QueueOf
<1>2. CASE Unique(c)
  <2>1. Seconds(ttl[c]) = ttl[c] \div 2
    BY DEF Seconds, Second
  <2>2. ~(ttl[c] \div 2 =< 0) /\ ~(lock[QueueOf(c)] > now)
    BY <1>2, <2>1 DEF LockRefused
  <2>3. lock' = [lock EXCEPT ![QueueOf(c)] = now + 2 * (ttl[c] \div 2)]
    BY <1>2, <2>1 DEF TakeLock, Second
  <2>4. ttl[c] >= 2 /\ lock[QueueOf(c)] =< now
    BY <1>1, <2>2
  <2>5. lock'[QueueOf(c)] = now + 2 * (ttl[c] \div 2)
    BY <1>1, <2>3 DEF TypeOK
  <2>6. \A q \in Queue : lock'[q] >= lock[q]
    BY <1>1, <2>3, <2>4, <2>5 DEF TypeOK
  <2>7. QED
    BY <2>4, <2>5, <2>6
<1>3. CASE ~Unique(c)
  BY <1>1, <1>3 DEF TakeLock
<1>4. QED
  BY <1>2, <1>3

LEMMA LocksGrow == ASSUME TypeOK, [Next]_vars PROVE \A q \in Queue : lock'[q] >= lock[q]
<1>1. ASSUME NEW c \in Caller, TakeLock(c), ~LockRefused(c)
      PROVE  \A q \in Queue : lock'[q] >= lock[q]
  BY <1>1, LockTaken
<1>2. lock' = lock \/ \E c \in Caller : TakeLock(c) /\ ~LockRefused(c)
  BY DEF Next, Enqueue, AppendWord, Compose, ComposeFails, Refuse, Decide, Schedule, Store,
         StoreFails, SendFails, Start, Tick, TimeIsUp, vars
<1>3. ASSUME lock' = lock PROVE \A q \in Queue : lock'[q] >= lock[q]
  BY <1>3 DEF TypeOK
<1>4. QED
  BY <1>1, <1>2, <1>3

\* Once stored, a task keeps what its lock depends on.
LEMMA StoredStays ==
  ASSUME TypeOK, Sane, [Next]_vars, NEW c \in Caller, pc[c] \in Stored
  PROVE  /\ pc'[c] \in Stored /\ opt'[c] = opt[c] /\ ttl'[c] = ttl[c]
         /\ score'[c] = score[c] /\ time'[c]["stored"] = time[c]["stored"]
<1>1. CASE Untouched(c)
  BY <1>1 DEF Untouched
<1>2. CASE Start(c)
  BY <1>2 DEF Start, TypeOK, Stored
<1>3. ~Enqueue(c) /\ ~Compose(c) /\ ~Decide(c) /\ ~Schedule(c) /\ ~Store(c) /\ ~Fails(c)
  BY DEF Enqueue, Compose, Composing, Decide, Schedule, Store, Stored,
         Fails, ComposeFails, StoreFails, SendFails
<1>4. QED
  BY <1>1, <1>2, <1>3, CallerSteps

\* How a task comes to be stored.
LEMMA BecomesStored ==
  ASSUME TypeOK, Sane, [Next]_vars, NEW c \in Caller, pc[c] \notin Stored, pc'[c] \in Stored
  PROVE  Store(c)
<1>1. ~Untouched(c)
  BY DEF Untouched
<1>2. Enqueue(c) \/ Compose(c) \/ Fails(c) \/ Schedule(c) \/ Decide(c) => pc'[c] \notin Stored
  BY DecideCases
  DEF Enqueue, Compose, Composing, Schedule, Stored,
      Fails, ComposeFails, StoreFails, SendFails, Refuse, TypeOK
<1>3. ~Start(c)
  BY DEF Start, Stored
<1>4. QED
  BY <1>1, <1>2, <1>3, CallerSteps

LEMMA HeldStep ==
  ASSUME TypeOK, Sane, [Next]_vars, NEW c \in Caller, Held(c)
  PROVE  Held(c)'
<1>1. CASE pc[c] \in Stored
  <2>1. /\ pc'[c] \in Stored /\ opt'[c] = opt[c] /\ ttl'[c] = ttl[c]
        /\ time'[c]["stored"] = time[c]["stored"]
    BY <1>1, StoredStays
  <2>2. /\ Unique(c)' = Unique(c) /\ QueueOf(c)' = QueueOf(c) /\ LockEnd(c)' = LockEnd(c)
    BY <2>1 DEF Unique, QueueOf, LockEnd
  <2>3. QueueOf(c) \in Queue /\ LockEnd(c) \in Int /\ \A q \in Queue : lock[q] \in Nat
    BY CallerTypes DEF QueueOf, LockEnd
  <2>4. lock'[QueueOf(c)] >= lock[QueueOf(c)] /\ lock'[QueueOf(c)] \in Int
    <3>1. lock' \in [Queue -> Nat]
      BY LockType DEF Next, Enqueue, AppendWord, Compose, ComposeFails, Refuse, Decide, Schedule,
         Store, StoreFails, SendFails, Start, Tick, TimeIsUp, vars, TypeOK
    <3>2. QED
      BY <2>3, <3>1, LocksGrow
  <2>5. QED
    BY <1>1, <2>1, <2>2, <2>3, <2>4 DEF Held
<1>2. CASE pc[c] \notin Stored /\ pc'[c] \in Stored
  <2>1. Store(c)
    BY <1>2, BecomesStored
  <2>2. /\ TakeLock(c) /\ ~LockRefused(c)
        /\ opt' = opt /\ ttl' = ttl /\ time'[c]["stored"] = now
    BY <2>1 DEF Store, TypeOK
  <2>3. Unique(c)' = Unique(c) /\ QueueOf(c)' = QueueOf(c)
        /\ LockEnd(c)' = now + 2 * (ttl[c] \div 2)
    BY <2>2 DEF Unique, QueueOf, LockEnd
  <2>4. now \in Nat /\ ttl[c] \in Int
    BY ClockIsNat, CallerTypes
  <2>5. Unique(c) => ttl[c] >= 2 /\ lock'[QueueOf(c)] = now + 2 * (ttl[c] \div 2)
    BY <2>2, LockTaken
  <2>6. QED
    BY <2>2, <2>3, <2>4, <2>5 DEF Held
<1>3. CASE pc'[c] \notin Stored
  BY <1>3 DEF Held
<1>4. QED
  BY <1>1, <1>2, <1>3

LEMMA ApartStep ==
  ASSUME TypeOK, Sane, [Next]_vars, NEW c \in Caller, NEW d \in Caller,
         Timed(c), Timed(d), Held(c), Held(d), Apart(c, d)
  PROVE  Apart(c, d)'
<1> SUFFICES ASSUME c # d, pc'[c] \in Stored, pc'[d] \in Stored, Unique(c)', Unique(d)',
                    QueueOf(c)' = QueueOf(d)', time'[c]["stored"] =< time'[d]["stored"]
             PROVE  time'[d]["stored"] >= LockEnd(c)'
  BY DEF Apart
<1>1. /\ now \in Nat /\ ttl[c] \in Int /\ ttl[d] \in Int
      /\ time[c]["stored"] \in Nat /\ time[d]["stored"] \in Nat
      /\ opt[c]["queue"] \in Queue /\ opt[d]["queue"] \in Queue
      /\ \A q \in Queue : lock[q] \in Nat
  BY ClockIsNat, CallerTypes
<1>2. CASE pc[c] \in Stored /\ pc[d] \in Stored
  <2>1. /\ opt'[c] = opt[c] /\ ttl'[c] = ttl[c] /\ time'[c]["stored"] = time[c]["stored"]
        /\ opt'[d] = opt[d] /\ time'[d]["stored"] = time[d]["stored"]
    BY <1>2, StoredStays
  <2>2. QED
    BY <1>2, <2>1 DEF Apart, Unique, QueueOf, LockEnd
<1>3. CASE pc[c] \in Stored /\ pc[d] \notin Stored
  <2>1. Store(d)
    BY <1>3, BecomesStored
  <2>2. /\ TakeLock(d) /\ ~LockRefused(d) /\ opt' = opt /\ ttl' = ttl
        /\ time'[d]["stored"] = now /\ time'[c]["stored"] = time[c]["stored"]
    BY <2>1 DEF Store, TypeOK
  <2>3. lock[QueueOf(d)] =< now /\ Unique(d) /\ Unique(c) /\ QueueOf(c) = QueueOf(d)
    BY <2>2, LockTaken DEF Unique, QueueOf
  <2>4. lock[QueueOf(c)] >= LockEnd(c)
    BY <1>3, <2>3 DEF Held
  <2>5. LockEnd(c)' = LockEnd(c) /\ LockEnd(c) \in Int
    BY <1>1, <2>2 DEF LockEnd
  <2>6. QED
    BY <1>1, <2>2, <2>3, <2>4, <2>5 DEF QueueOf
<1>4. CASE pc[c] \notin Stored /\ pc[d] \in Stored
  <2>1. Store(c)
    BY <1>4, BecomesStored
  <2>2. /\ TakeLock(c) /\ ~LockRefused(c) /\ opt' = opt /\ ttl' = ttl
        /\ time'[c]["stored"] = now /\ time'[d]["stored"] = time[d]["stored"]
    BY <2>1 DEF Store, TypeOK
  <2>3. lock[QueueOf(c)] =< now /\ Unique(d) /\ Unique(c) /\ QueueOf(c) = QueueOf(d)
    BY <2>2, LockTaken DEF Unique, QueueOf
  <2>4. lock[QueueOf(d)] >= time[d]["stored"] + 2 * (ttl[d] \div 2) /\ ttl[d] >= 2
    BY <1>4, <2>3 DEF Held, LockEnd
  <2>5. QED
    BY <1>1, <2>2, <2>3, <2>4 DEF QueueOf
<1>5. CASE pc[c] \notin Stored /\ pc[d] \notin Stored
  <2>1. Store(c) /\ Store(d)
    BY <1>5, BecomesStored
  <2>2. pc' = [pc EXCEPT ![c] = "stored"]
    BY <2>1 DEF Store
  <2>3. QED
    BY <1>5, <2>2 DEF TypeOK
<1>6. QED
  BY <1>2, <1>3, <1>4, <1>5

LockInv ==
  /\ \A c \in Caller : Timed(c) /\ Held(c)
  /\ \A c, d \in Caller : Apart(c, d)

LEMMA ApartSuffices ==
  ASSUME TypeOK, LockInv
  PROVE  UniqueApart
<1> SUFFICES ASSUME NEW c \in Caller, NEW d \in Caller,
                    c # d, {pc[c], pc[d]} \subseteq Stored, Unique(c), Unique(d),
                    QueueOf(c) = QueueOf(d), time[c]["stored"] =< time[d]["stored"]
             PROVE  LET from == IF score[c] = 0 THEN time[c]["stored"] ELSE opt[c]["processAt"]
                    IN time[d]["stored"] > from + opt[c]["unique"] - Second
  BY DEF UniqueApart
<1>1. /\ opt[c]["unique"] \in Nat /\ opt[c]["processAt"] \in Nat
      /\ ttl[c] \in Int /\ score[c] \in Nat
      /\ time[c]["stored"] \in Nat /\ time[d]["stored"] \in Nat
  BY CallerTypes
<1>2. time[d]["stored"] >= time[c]["stored"] + 2 * (ttl[c] \div 2)
  BY DEF LockInv, Apart, LockEnd
<1>3. 2 * (ttl[c] \div 2) > ttl[c] - 2
  BY <1>1
<1>4. /\ score[c] = 0 => ttl[c] = opt[c]["unique"]
      /\ score[c] > 0 =>
           ttl[c] + time[c]["stored"] >= opt[c]["processAt"] + opt[c]["unique"]
  BY DEF LockInv, Timed
<1>5. CASE score[c] = 0
  BY <1>1, <1>2, <1>3, <1>4, <1>5 DEF Second
<1>6. CASE score[c] # 0
  BY <1>1, <1>2, <1>3, <1>4, <1>6 DEF Second
<1>7. QED
  BY <1>5, <1>6

\* Of two accepted calls for the same lock, the later is the length of the lock
\* after the earlier, or after the time that one's task is due.
THEOREM ClientUniqueApart == ASSUME Spare = 0 PROVE Spec => []UniqueApart
<1>1. Init => LockInv
  BY DEF Init, LockInv, Timed, Held, Apart, Stored
<1>2. TypeOK /\ Sane /\ LockInv /\ [Next]_vars => LockInv'
  <2> SUFFICES ASSUME TypeOK, Sane, LockInv, [Next]_vars PROVE LockInv'
    OBVIOUS
  <2>1. ASSUME NEW c \in Caller PROVE Timed(c)' /\ Held(c)'
    BY TimedStep, HeldStep DEF LockInv
  <2>2. ASSUME NEW c \in Caller, NEW d \in Caller PROVE Apart(c, d)'
    BY ApartStep DEF LockInv
  <2>3. QED
    BY <2>1, <2>2 DEF LockInv
<1>3. TypeOK /\ LockInv => UniqueApart
  BY ApartSuffices
<1>4. QED
  BY <1>1, <1>2, <1>3, ClientTypesSane, PTL DEF Spec

------------------------------------------------------------------------------
(* The options that count.                                                 *)

\* i is the last of the first n options that c is given for the field f.
LastOf(c, n, i, f) ==
  /\ i \in 1..n
  /\ FieldOf(Asked[c][i].type) = f
  /\ \A j \in 1..n : j > i => FieldOf(Asked[c][j].type) # f

\* The field f of c is what its first n options say.
Follows(c, n, f) ==
  \/ \E i \in 1..n : LastOf(c, n, i, f) /\ opt[c][f] = Asked[c][i].value
  \/ /\ \A i \in 1..n : FieldOf(Asked[c][i].type) # f
     /\ opt[c][f] = Defaults[f]

\* c has composed what it has read.
Composed(c) ==
  pc[c] \in {"composing", "scheduling", "sending"} \cup Stored =>
    \A f \in Field \ {"processAt"} : Follows(c, read[c], f)

LEMMA DefaultsStay ==
  ASSUME NEW f \in Field \ {"processAt"}
  PROVE  Defaults'[f] = Defaults[f]
<1>1. Defaults[f] = IF f = "retry" THEN DefaultMaxRetry
                    ELSE IF f = "queue" THEN DefaultQueue ELSE 0
  BY Zenon DEF Defaults
<1>2. Defaults'[f] = IF f = "retry" THEN DefaultMaxRetry
                     ELSE IF f = "queue" THEN DefaultQueue ELSE 0
  BY Zenon DEF Defaults
<1>3. QED
  BY <1>1, <1>2

\* One more option: it is the last for its own field, and for no other.
LEMMA FollowsOneMore ==
  ASSUME Spare = 0, TypeOK, Sane, NEW c \in Caller, Compose(c),
         NEW f \in Field \ {"processAt"}, Follows(c, read[c], f)
  PROVE  Follows(c, read[c], f)'
<1> DEFINE n == read[c]
           o == OptionAt(c, n + 1)
           g == FieldOf(o.type)
           v == IF o.type = "processIn" THEN now + o.value ELSE o.value
<1>1. /\ n \in Nat /\ n + 1 \in 1..Count(c)
      /\ opt' = [opt EXCEPT ![c][g] = v]
      /\ read'[c] = n + 1 /\ given' = given
  <2>1. Count(c) \in Nat /\ read[c] \in Nat
    BY AskedIsSeq DEF TypeOK
  <2>2. QED
    BY <2>1 DEF Compose, Composing, TypeOK
<1>2. o = Asked[c][n + 1] /\ o \in Option
  BY <1>1, OptionIsAsked
<1>3. g \in Field /\ o.type \in Type
  BY <1>2, OptionsFacts
<1>4. Asked' = Asked
  BY <1>1 DEF Asked
<1>5. Defaults'[f] = Defaults[f]
  BY DefaultsStay
<1>6. opt'[c][f] = IF f = g THEN v ELSE opt[c][f]
  BY <1>1, <1>3 DEF TypeOK
<1> HIDE DEF n, o, g, v
<1>7. CASE f = g
  <2>1. v = o.value
    BY <1>7 DEF v, g, FieldOf
  <2>2. LastOf(c, n + 1, n + 1, f)
    BY <1>1, <1>2, <1>7 DEF LastOf, g
  <2>3. opt'[c][f] = Asked[c][n + 1].value
    BY <1>2, <1>6, <1>7, <2>1
  <2>4. QED
    BY <1>1, <1>4, <2>2, <2>3 DEF Follows, LastOf
<1>8. CASE f # g
  <2>1. FieldOf(Asked[c][n + 1].type) # f
    BY <1>2, <1>8 DEF g
  <2>2. opt'[c][f] = opt[c][f]
    BY <1>6, <1>8
  <2>3. ASSUME NEW i \in 1..n, LastOf(c, n, i, f), opt[c][f] = Asked[c][i].value
        PROVE  Follows(c, read[c], f)'
    <3>1. i \in 1..(n + 1) /\ LastOf(c, n + 1, i, f)
      <4>1. \A j \in 1..(n + 1) : j \in 1..n \/ j = n + 1
        BY <1>1
      <4>2. QED
        BY <1>1, <2>1, <2>3, <4>1 DEF LastOf
    <3>2. QED
      BY <1>1, <1>4, <2>2, <2>3, <3>1 DEF Follows, LastOf
  <2>4. ASSUME \A i \in 1..n : FieldOf(Asked[c][i].type) # f, opt[c][f] = Defaults[f]
        PROVE  Follows(c, read[c], f)'
    <3>1. \A i \in 1..(n + 1) : FieldOf(Asked[c][i].type) # f
      <4>1. \A j \in 1..(n + 1) : j \in 1..n \/ j = n + 1
        BY <1>1
      <4>2. QED
        BY <2>1, <2>4, <4>1
    <3>2. opt'[c][f] = Defaults'[f]
      BY <1>5, <2>2, <2>4
    <3>3. QED
      BY <1>1, <1>4, <3>1, <3>2 DEF Follows
  <2>5. QED
    BY <2>3, <2>4 DEF Follows, n
<1>9. QED
  BY <1>7, <1>8

LEMMA FollowsStill ==
  ASSUME NEW c \in Caller, opt'[c] = opt[c], Asked'[c] = Asked[c], read'[c] = read[c],
         NEW f \in Field \ {"processAt"}, Follows(c, read[c], f)
  PROVE  Follows(c, read[c], f)'
BY DefaultsStay DEF Follows, LastOf

LEMMA ComposedStep ==
  ASSUME Spare = 0, TypeOK, Sane, [Next]_vars, NEW c \in Caller, Composed(c)
  PROVE  Composed(c)'
<1>1. CASE Enqueue(c)
  <2>1. read'[c] = 0 /\ opt'[c] = Defaults
    BY <1>1 DEF Enqueue, Sane, TypeOK
  <2>2. 1..0 = {}
    OBVIOUS
  <2>3. ASSUME NEW f \in Field \ {"processAt"} PROVE Follows(c, read[c], f)'
    BY <2>1, <2>2, DefaultsStay DEF Follows
  <2>4. QED
    BY <2>3 DEF Composed
<1>2. CASE Compose(c)
  <2>1. pc[c] = "composing"
    BY <1>2 DEF Compose, Composing
  <2>2. \A f \in Field \ {"processAt"} : Follows(c, read[c], f)'
    BY <1>2, <2>1, FollowsOneMore DEF Composed
  <2>3. QED
    BY <2>2 DEF Composed
<1>3. CASE Fails(c)
  <2>1. pc'[c] = "refused"
    BY <1>3 DEF Fails, ComposeFails, SendFails, StoreFails, Refuse, TypeOK
  <2>2. QED
    BY <2>1 DEF Composed, Stored
<1>4. CASE Untouched(c) \/ Decide(c) \/ Schedule(c) \/ Store(c) \/ Start(c)
  <2>1. /\ opt'[c] = opt[c] /\ given'[c] = given[c] /\ read'[c] = read[c]
        /\ pc[c] = pc'[c] \/ pc[c] \in {"composing", "scheduling", "sending", "stored"}
    BY <1>4 DEF Untouched, Decide, Composing, Schedule, Store, Start
  <2>2. Asked'[c] = Asked[c]
    BY <2>1 DEF Asked
  <2>3. ASSUME pc'[c] \in {"composing", "scheduling", "sending"} \cup Stored,
               NEW f \in Field \ {"processAt"}
        PROVE  Follows(c, read[c], f)'
    <3>1. Follows(c, read[c], f)
      BY <2>1, <2>3 DEF Composed, Stored
    <3>2. QED
      BY <2>1, <2>2, <3>1, FollowsStill
  <2>4. QED
    BY <2>3 DEF Composed, Stored
<1>5. QED
  BY <1>1, <1>2, <1>3, <1>4, CallerSteps

\* The last of a call's options overrides the others, and they override the
\* task's, whatever the other callers of the same task do meanwhile.
THEOREM ClientLastOverrides == ASSUME Spare = 0 PROVE Spec => []LastOverrides
<1> DEFINE AllComposed == \A c \in Caller : Composed(c)
<1>1. Init => AllComposed
  BY DEF Init, Composed, Stored
<1>2. TypeOK /\ Sane /\ AllComposed /\ [Next]_vars => AllComposed'
  BY ComposedStep
<1>3. TypeOK /\ Sane /\ AllComposed => LastOverrides
  <2> SUFFICES ASSUME TypeOK, Sane, AllComposed, NEW c \in Caller,
                      pc[c] \in {"scheduling", "sending"} \cup Stored,
                      NEW f \in Field \ {"processAt"}
               PROVE  \/ \E i \in DOMAIN Asked[c] : /\ IsLast(Asked[c], i, f)
                                                    /\ opt[c][f] = Asked[c][i].value
                      \/ /\ \A i \in DOMAIN Asked[c] : FieldOf(Asked[c][i].type) # f
                         /\ opt[c][f] = Defaults[f]
    BY DEF LastOverrides
  <2>1. DOMAIN Asked[c] = 1..read[c]
    BY AskedIsSeq DEF Sane
  <2>2. Follows(c, read[c], f)
    BY DEF Composed
  <2>3. QED
    BY <2>1, <2>2 DEF Follows, LastOf, IsLast
<1>4. QED
  BY <1>1, <1>2, <1>3, ClientTypesSane, PTL DEF Spec

------------------------------------------------------------------------------
(* The time a task waits for.                                              *)

\* When option i asks for the task to be processed, for c.
DueOf(c, i) ==
  IF Asked[c][i].type = "processIn" THEN time[c]["called"] + Asked[c][i].value
  ELSE Asked[c][i].value

\* The time composed is not before the one asked for, nor the score before it.
Waits(c) ==
  /\ pc[c] \in {"composing", "scheduling", "sending"} \cup Stored =>
       /\ time[c]["called"] =< now
       /\ \A i \in 1..read[c] :
            LastOf(c, read[c], i, "processAt") => opt[c]["processAt"] >= DueOf(c, i)
  /\ pc[c] \in {"scheduling", "sending", "stored"} =>
       score[c] = Seconds(opt[c]["processAt"]) \/ opt[c]["processAt"] =< now
  /\ pc[c] = "running" => Seconds(time[c]["started"]) >= Seconds(opt[c]["processAt"])

LEMMA WaitsCompose ==
  ASSUME Spare = 0, TypeOK, Sane, NEW c \in Caller, Compose(c), Waits(c)
  PROVE  Waits(c)'
<1> DEFINE n == read[c]
           o == OptionAt(c, n + 1)
           g == FieldOf(o.type)
           v == IF o.type = "processIn" THEN now + o.value ELSE o.value
<1>1. /\ n \in Nat /\ n + 1 \in 1..Count(c)
      /\ opt' = [opt EXCEPT ![c][g] = v]
      /\ read'[c] = n + 1 /\ UNCHANGED <<given, now, time>>
      /\ pc[c] = "composing" /\ pc'[c] = "composing"
  <2>1. Count(c) \in Nat /\ read[c] \in Nat
    BY AskedIsSeq DEF TypeOK
  <2>2. QED
    BY <2>1 DEF Compose, Composing, TypeOK
<1>2. o = Asked[c][n + 1] /\ o \in Option
  BY <1>1, OptionIsAsked
<1>3. g \in Field /\ o.type \in Type /\ o.value \in Nat
  BY <1>2, OptionsFacts
<1>4. Asked' = Asked
  BY <1>1 DEF Asked
<1>5. "processAt" \in Field
  BY DEF Field, Type
<1>6. opt'[c]["processAt"] = IF g = "processAt" THEN v ELSE opt[c]["processAt"]
  BY <1>1, <1>3, <1>5 DEF TypeOK
<1>7. time[c]["called"] =< now /\ time[c]["called"] \in Nat /\ now \in Nat
  BY <1>1, ClockIsNat, CallerTypes DEF Waits
<1>8. v >= DueOf(c, n + 1)
  BY <1>2, <1>3, <1>7 DEF DueOf
<1> HIDE DEF n, o, g, v
<1>9. ASSUME NEW i \in 1..(n + 1), LastOf(c, n + 1, i, "processAt")
      PROVE  opt'[c]["processAt"] >= DueOf(c, i)
  <2>1. CASE i = n + 1
    <3>1. g = "processAt"
      BY <1>2, <1>9, <2>1 DEF LastOf, g
    <3>2. QED
      BY <1>6, <1>8, <2>1, <3>1
  <2>2. CASE i # n + 1
    <3>1. i \in 1..n /\ n + 1 \in 1..(n + 1) /\ n + 1 > i
      BY <1>1, <2>2
    <3>2. g # "processAt"
      BY <1>2, <1>9, <3>1 DEF LastOf, g
    <3>3. \A j \in 1..n : j \in 1..(n + 1)
      BY <1>1
    <3>4. LastOf(c, n, i, "processAt")
      BY <1>9, <3>1, <3>3 DEF LastOf
    <3>5. opt[c]["processAt"] >= DueOf(c, i)
      BY <1>1, <3>1, <3>4 DEF Waits, n
    <3>6. QED
      BY <1>6, <3>2, <3>5
  <2>3. QED
    BY <2>1, <2>2
<1>10. \A i : DueOf(c, i)' = DueOf(c, i)
  BY <1>1, <1>4 DEF DueOf
<1>11. \A i : LastOf(c, read[c], i, "processAt")' <=> LastOf(c, n + 1, i, "processAt")
  BY <1>1, <1>4 DEF LastOf
<1>12. QED
  BY <1>1, <1>7, <1>9, <1>10, <1>11 DEF Waits

\* The part of Waits that no step but Compose touches.
LEMMA WaitsStill ==
  ASSUME TypeOK, [Next]_vars, NEW c \in Caller,
         opt'[c] = opt[c], given'[c] = given[c], read'[c] = read[c],
         time'[c]["called"] = time[c]["called"],
         pc[c] \in {"composing", "scheduling", "sending"} \cup Stored,
         Waits(c)
  PROVE  /\ time'[c]["called"] =< now'
         /\ \A i \in 1..read'[c] :
              LastOf(c, read[c], i, "processAt")' => opt'[c]["processAt"] >= DueOf(c, i)'
<1>1. Asked'[c] = Asked[c]
  BY DEF Asked
<1>2. \A i : DueOf(c, i)' = DueOf(c, i)
  BY <1>1 DEF DueOf
<1>3. \A i : LastOf(c, read[c], i, "processAt")' <=> LastOf(c, read[c], i, "processAt")
  BY <1>1 DEF LastOf
<1>4. time[c]["called"] \in Nat /\ now \in Nat /\ now' \in Nat /\ now =< now'
  BY CallerTypes, ClockIsNat, ClockForward
<1>5. QED
  BY <1>2, <1>3, <1>4 DEF Waits

LEMMA WaitsStep ==
  ASSUME Spare = 0, TypeOK, Sane, [Next]_vars, NEW c \in Caller, Waits(c)
  PROVE  Waits(c)'
<1>1. /\ now \in Nat /\ now' \in Nat /\ now =< now'
      /\ opt[c]["processAt"] \in Nat
  BY ClockIsNat, ClockForward, CallerTypes
<1>2. CASE Enqueue(c)
  <2>1. /\ read'[c] = 0 /\ pc'[c] = "composing"
        /\ time'[c]["called"] = now /\ now' = now
    BY <1>2 DEF Enqueue, Sane, TypeOK
  <2>2. 1..0 = {}
    OBVIOUS
  <2>3. QED
    BY <1>1, <2>1, <2>2 DEF Waits
<1>3. CASE Compose(c)
  BY <1>3, WaitsCompose
<1>4. CASE Fails(c)
  <2>1. pc'[c] = "refused"
    BY <1>4 DEF Fails, ComposeFails, SendFails, StoreFails, Refuse, TypeOK
  <2>2. QED
    BY <2>1 DEF Waits, Stored
<1>5. CASE Untouched(c)
  <2>1. CASE pc[c] \in {"composing", "scheduling", "sending"} \cup Stored
    <3>1. /\ time'[c]["called"] =< now'
          /\ \A i \in 1..read'[c] :
               LastOf(c, read[c], i, "processAt")' => opt'[c]["processAt"] >= DueOf(c, i)'
      BY <1>5, <2>1, WaitsStill DEF Untouched
    <3>2. /\ pc'[c] = pc[c] /\ opt'[c] = opt[c] /\ score'[c] = score[c] /\ time'[c] = time[c]
      BY <1>5 DEF Untouched
    <3>3. /\ pc'[c] \in {"scheduling", "sending", "stored"} =>
               score'[c] = Seconds(opt'[c]["processAt"]) \/ opt'[c]["processAt"] =< now'
          /\ pc'[c] = "running" =>
               Seconds(time'[c]["started"]) >= Seconds(opt'[c]["processAt"])
      BY <1>1, <3>2 DEF Waits
    <3>4. QED
      BY <3>1, <3>3 DEF Waits
  <2>2. CASE pc[c] \notin {"composing", "scheduling", "sending"} \cup Stored
    <3>1. pc'[c] \notin {"composing", "scheduling", "sending"} \cup Stored
      BY <1>5, <2>2 DEF Untouched
    <3>2. QED
      BY <3>1 DEF Waits, Stored
  <2>3. QED
    BY <2>1, <2>2
<1>6. CASE Decide(c) \/ Schedule(c) \/ Store(c)
  <2>1. /\ opt' = opt /\ given' = given /\ read' = read /\ now' = now
        /\ time'[c]["called"] = time[c]["called"]
        /\ pc[c] \in {"composing", "scheduling", "sending"}
    BY <1>6 DEF Decide, Composing, Schedule, Store, TypeOK
  <2>2. pc'[c] \in {"scheduling", "sending", "stored"}
    BY <1>6, DecideCases DEF Schedule, Store, TypeOK
  <2>3. /\ time'[c]["called"] =< now'
        /\ \A i \in 1..read'[c] :
             LastOf(c, read[c], i, "processAt")' => opt'[c]["processAt"] >= DueOf(c, i)'
    BY <2>1, WaitsStill
  <2>4. score'[c] = Seconds(opt[c]["processAt"]) \/ opt[c]["processAt"] =< now
    <3>1. CASE Decide(c)
      BY <1>1, <3>1, DecideCases DEF TypeOK
    <3>2. CASE Schedule(c) \/ Store(c)
      BY <3>2 DEF Schedule, Store, Waits
    <3>3. QED
      BY <1>6, <3>1, <3>2
  <2>5. QED
    BY <2>1, <2>2, <2>3, <2>4 DEF Waits
<1>7. CASE Start(c)
  <2>1. /\ opt' = opt /\ given' = given /\ read' = read /\ now' = now
        /\ time'[c]["called"] = time[c]["called"] /\ time'[c]["started"] = now
        /\ pc[c] = "stored" /\ pc'[c] = "running"
        /\ score[c] =< Seconds(now)
    BY <1>7 DEF Start, TypeOK
  <2>2. /\ time'[c]["called"] =< now'
        /\ \A i \in 1..read'[c] :
             LastOf(c, read[c], i, "processAt")' => opt'[c]["processAt"] >= DueOf(c, i)'
    BY <2>1, WaitsStill DEF Stored
  <2>3. score[c] = Seconds(opt[c]["processAt"]) \/ opt[c]["processAt"] =< now
    BY <2>1 DEF Waits
  <2>4. Seconds(now) >= Seconds(opt[c]["processAt"])
    BY <1>1, <2>1, <2>3 DEF Seconds, Second
  <2>5. QED
    BY <2>1, <2>2, <2>4 DEF Waits
<1>8. QED
  BY <1>2, <1>3, <1>4, <1>5, <1>6, <1>7, CallerSteps

\* No task is started in a second before the one it was asked to wait for.
THEOREM ClientNotEarly == ASSUME Spare = 0 PROVE Spec => []NotEarly
<1> DEFINE AllWait == \A c \in Caller : Waits(c)
<1>1. Init => AllWait
  BY DEF Init, Waits, Stored
<1>2. TypeOK /\ Sane /\ AllWait /\ [Next]_vars => AllWait'
  BY WaitsStep
<1>3. TypeOK /\ Sane /\ AllWait => NotEarly
  <2> SUFFICES ASSUME TypeOK, Sane, AllWait, NEW c \in Caller, pc[c] = "running",
                      NEW i \in DOMAIN Asked[c], IsLast(Asked[c], i, "processAt")
               PROVE  Seconds(time[c]["started"]) >= Seconds(DueOf(c, i))
    BY DEF NotEarly, DueOf
  <2>1. /\ DOMAIN Asked[c] = 1..read[c] /\ Asked[c][i] \in Option
    BY AskedIsSeq DEF Sane, Stored
  <2>2. LastOf(c, read[c], i, "processAt")
    BY <2>1 DEF LastOf, IsLast
  <2>3. /\ opt[c]["processAt"] >= DueOf(c, i)
        /\ Seconds(time[c]["started"]) >= Seconds(opt[c]["processAt"])
    BY <2>1, <2>2 DEF Waits, Stored
  <2>4. /\ opt[c]["processAt"] \in Nat /\ time[c]["started"] \in Nat /\ DueOf(c, i) \in Nat
    BY <2>1, CallerTypes, OptionsFacts DEF DueOf
  <2>5. QED
    BY <2>3, <2>4 DEF Seconds, Second
<1>4. QED
  BY <1>1, <1>2, <1>3, ClientTypesSane, PTL DEF Spec
==============================================================================
