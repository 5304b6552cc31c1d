--------------------------------- MODULE Rdb ---------------------------------
(***************************************************************************)
(* The broker of TitanQueue (internal/rdb/rdb.go): the Redis keys of one   *)
(* queue and the Lua scripts that change them.  A script is atomic, so it  *)
(* is one action; a script that stops half-way with an error_reply keeps   *)
(* what it wrote before, and so does its action.                           *)
(*                                                                         *)
(* Who calls is left open here: any client, worker, recoverer or janitor   *)
(* may call any script at any time, with any message copy (a copy taken    *)
(* before a delay, a crash or a restart is as good as a fresh one) and     *)
(* with the reading of any clock, for the callers' clocks need not agree.  *)
(* The modules that model the callers EXTEND this one and say which calls  *)
(* they make.                                                              *)
(***************************************************************************)
EXTENDS Integers, FiniteSets, Sequences, Functions

CONSTANTS
  TaskID,          \* the task IDs; ordered, as Redis orders the members of a
                   \* sorted set that have equal scores
  UniqueKey,       \* the keys of uniqueness locks (base.UniqueKey)
  NoKey,           \* the empty TaskMessage.UniqueKey: no lock was asked for
  NoMsg,           \* the msg field of a hash that has none
  NoTask,          \* the value of a unique key that is not set
  LeaseDuration,   \* base: 30 s, in ticks
  MaxArchiveSize,  \* maxArchiveSize: 10000
  ArchiveTTL,      \* archivedExpirationInDays: 90 days, in ticks
  ForwardLimit,    \* tasks that one run of forwardCmd moves: 100
  BatchSize,       \* janitor's batch of completed tasks
  UnpackLimit,     \* the longest list that Lua's unpack takes
  Second,          \* ticks of a clock in a second
  Time,            \* bound: the readings of the callers' clocks
  MaxRetried       \* bound: a message is retried at most this often

\* base.TaskMessage, the fields a script or a caller branches on.
Message == [id : TaskID, retried : Nat, ukey : UniqueKey \cup {NoKey}]

ASSUME IDAssumption == TaskID \subseteq Int /\ IsFiniteSet(TaskID)
ASSUME KeyAssumption == NoKey \notin UniqueKey
ASSUME MsgAssumption == NoMsg \notin Message
ASSUME LockAssumption == NoTask \notin TaskID
ASSUME SizeAssumption ==
  /\ LeaseDuration \in Nat
  /\ MaxArchiveSize \in Nat \ {0}
  /\ ArchiveTTL \in Nat
  /\ ForwardLimit \in Nat \ {0}
  /\ BatchSize \in Nat \ {0}
  /\ UnpackLimit \in Nat
  /\ MaxRetried \in Nat

ASSUME TimeAssumption == Second \in Nat \ {0} /\ Time \subseteq Int

VARIABLES
  pending,    \* list; Head is the end RPOPLPUSH pops from
  active,     \* list, its order is never used
  lease,      \* sorted set: the score is when the lease ends
  scheduled,  \* sorted set: the score is when to run the task
  retry,      \* sorted set: the score is when to run it again
  archived,   \* sorted set: the score is when the task died
  completed,  \* sorted set: the score is when the retention ends
  task,       \* the hashes t:<id>: fields state and msg
  lock,       \* the unique keys: the task that holds each
  paused      \* does the key paused exist?

vars == <<pending, active, lease, scheduled, retry, archived, completed, task,
          lock, paused>>
delayed == <<scheduled, retry>>
finals  == <<archived, completed>>

State == {"pending", "active", "scheduled", "retry", "archived", "completed"}

\* A hash WriteResult made has neither field: state "none" and no message.
Hash == [state : State \cup {"none"}, msg : Message \cup {NoMsg}]

\* Redis hashes by key and sorted sets by member are finite partial functions.
Partial(z, R) == DOMAIN z \subseteq TaskID /\ z \in [DOMAIN z -> R]
NoEntry       == [x \in {} |-> 0]

TypeOK ==
  /\ pending \in Seq(TaskID)
  /\ active \subseteq TaskID
  /\ Partial(lease, Int)
  /\ Partial(scheduled, Int)
  /\ Partial(retry, Int)
  /\ Partial(archived, Int)
  /\ Partial(completed, Int)
  /\ Partial(task, Hash)
  /\ lock \in [UniqueKey -> TaskID \cup {NoTask}]
  /\ paused \in BOOLEAN

------------------------------------------------------------------------------
(* Redis commands.                                                         *)

\* time.Time.Unix: clocks count finer than seconds, scores are seconds.
Unix(t) == t - (t % Second)

\* ZADD x with score v to z, or set key x of the hashes z to v.
Put(z, x, v) == [y \in DOMAIN z \cup {x} |-> IF y = x THEN v ELSE z[y]]

\* ZREM or DEL of every member of S; members that are missing do no harm.
Drop(z, S) == [y \in DOMAIN z \ S |-> z[y]]

\* Members by score, and by name where the scores are equal.
Before(z, x, y) == z[x] < z[y] \/ (z[x] = z[y] /\ x < y)

\* ZRANGEBYSCORE z -inf t.
UpTo(z, t) == {x \in DOMAIN z : z[x] =< t}

\* The first n of the members S, in the order of z (LIMIT 0 n).
FirstOf(z, S, n) ==
  {x \in S : Cardinality({y \in S : Before(z, y, x)}) < n}

\* The members S as a list in the order of z.
InOrder(z, S) ==
  {s \in [1..Cardinality(S) -> S] :
     /\ Range(s) = S
     /\ \A i, j \in DOMAIN s : i < j => Before(z, s[i], s[j])}

\* HSET key state st: a missing hash is made, without a message.
Restated(id, st) ==
  [state |-> st, msg |-> IF id \in DOMAIN task THEN task[id].msg ELSE NoMsg]
WithState(id, st) == Put(task, id, Restated(id, st))

\* HSET key msg m state st.
WithMsg(t, m, st) == Put(t, m.id, [state |-> st, msg |-> m])

------------------------------------------------------------------------------
(* Clients.  A refused call changes nothing and has no action, except for  *)
(* the lock that enqueueUniqueCmd has taken before it looks at the ID.     *)

\* Mutant: enqueueCmd does not look for the task ID.
EnqueueBlindly(m) ==
  /\ task' = WithMsg(task, m, "pending")
  /\ pending' = Append(pending, m.id)
  /\ UNCHANGED <<active, lease, delayed, finals, lock, paused>>

Enqueue(m) ==
  /\ m.id \notin DOMAIN task
  /\ task' = WithMsg(task, m, "pending")
  /\ pending' = Append(pending, m.id)
  /\ UNCHANGED <<active, lease, delayed, finals, lock, paused>>

\* Mutant: the arguments of SET are swapped, the lock's value is its TTL.
EnqueueUniqueSwapped(m) ==
  /\ lock[m.ukey] = NoTask
  /\ lock' = [lock EXCEPT ![m.ukey] = 0]
  /\ IF m.id \in DOMAIN task
     THEN UNCHANGED <<task, pending>>
     ELSE /\ task' = WithMsg(task, m, "pending")
          /\ pending' = Append(pending, m.id)
  /\ UNCHANGED <<active, lease, delayed, finals, paused>>

EnqueueUnique(m) ==
  /\ lock[m.ukey] = NoTask
  /\ lock' = [lock EXCEPT ![m.ukey] = m.id]
  /\ IF m.id \in DOMAIN task
     THEN UNCHANGED <<task, pending>>
     ELSE /\ task' = WithMsg(task, m, "pending")
          /\ pending' = Append(pending, m.id)
  /\ UNCHANGED <<active, lease, delayed, finals, paused>>

Schedule(m, processAt) ==
  /\ m.id \notin DOMAIN task
  /\ task' = WithMsg(task, m, "scheduled")
  /\ scheduled' = Put(scheduled, m.id, Unix(processAt))
  /\ UNCHANGED <<pending, active, lease, retry, finals, lock, paused>>

ScheduleUnique(m, processAt) ==
  /\ lock[m.ukey] = NoTask
  /\ lock' = [lock EXCEPT ![m.ukey] = m.id]
  /\ IF m.id \in DOMAIN task
     THEN UNCHANGED <<task, scheduled>>
     ELSE /\ task' = WithMsg(task, m, "scheduled")
          /\ scheduled' = Put(scheduled, m.id, Unix(processAt))
  /\ UNCHANGED <<pending, active, lease, retry, finals, paused>>

------------------------------------------------------------------------------
(* Workers.                                                                *)

\* The caller's clock has read t.  The script returns HGET key msg, or nil.
Dequeue(t) ==
  /\ ~paused
  /\ pending # <<>>
  /\ LET id == Head(pending)
     IN /\ pending' = Tail(pending)
        /\ active' = active \cup {id}
        /\ task' = WithState(id, "active")
        /\ lease' = Put(lease, id, Unix(t + LeaseDuration))
  /\ UNCHANGED <<delayed, finals, lock, paused>>

\* Mutant: the lease entry is forgotten.
ReleaseActiveOnly(id) ==
  /\ id \in active
  /\ active' = active \ {id}
  /\ UNCHANGED lease

\* The first lines of every script that ends an activation: LREM, or NOT
\* FOUND; ZREM, or NOT FOUND with the LREM done.  Then the rest runs.
Release(id) ==
  /\ id \in active
  /\ active' = active \ {id}
  /\ lease' = Drop(lease, {id})

Leased(id) == id \in DOMAIN lease

\* Mutant: the lock is deleted without a look at who holds it.
DoneFreesAny(m) ==
  /\ Release(m.id)
  /\ task' = IF Leased(m.id) THEN Drop(task, {m.id}) ELSE task
  /\ lock' = IF Leased(m.id) /\ m.id \in DOMAIN task /\ m.ukey # NoKey
             THEN [lock EXCEPT ![m.ukey] = NoTask]
             ELSE lock
  /\ UNCHANGED <<pending, delayed, finals, paused>>

\* doneCmd when the message has no unique key, else doneUniqueCmd, which ends
\* with the removal of the lock, if it is still this task's.
Done(m) ==
  /\ Release(m.id)
  /\ task' = IF Leased(m.id) THEN Drop(task, {m.id}) ELSE task
  /\ lock' = IF /\ Leased(m.id)
                /\ m.id \in DOMAIN task
                /\ m.ukey # NoKey
                /\ lock[m.ukey] = m.id
             THEN [lock EXCEPT ![m.ukey] = NoTask]
             ELSE lock
  /\ UNCHANGED <<pending, delayed, finals, paused>>

\* expireAt is the caller's clock plus the retention.  ZADD must add a
\* member, or the script ends with INTERNAL.
MarkAsComplete(m, expireAt) ==
  /\ Release(m.id)
  /\ completed' = IF Leased(m.id) THEN Put(completed, m.id, Unix(expireAt))
                  ELSE completed
  /\ task' = IF Leased(m.id) /\ m.id \notin DOMAIN completed
             THEN WithMsg(task, m, "completed") ELSE task
  /\ UNCHANGED <<pending, delayed, archived, lock, paused>>

\* RPUSH: the task is the next one to be taken.
Requeue(m) ==
  /\ Release(m.id)
  /\ IF Leased(m.id)
     THEN /\ pending' = <<m.id>> \o pending
          /\ task' = WithState(m.id, "pending")
     ELSE UNCHANGED <<pending, task>>
  /\ UNCHANGED <<delayed, finals, lock, paused>>

\* Mutant: the state field still says active.
RetryUnmarked(m, retryAt, isFailure) ==
  /\ Release(m.id)
  /\ retry' = Put(retry, m.id, Unix(retryAt))
  /\ UNCHANGED <<pending, scheduled, finals, task, lock, paused>>

\* The hash gets the caller's copy of the message, one retry up if the error
\* counts as a failure.
Retry(m, retryAt, isFailure) ==
  LET modified == IF isFailure THEN [m EXCEPT !.retried = @ + 1] ELSE m
  IN /\ Release(m.id)
     /\ IF Leased(m.id)
        THEN /\ retry' = Put(retry, m.id, Unix(retryAt))
             /\ task' = WithMsg(task, modified, "retry")
        ELSE UNCHANGED <<retry, task>>
     /\ UNCHANGED <<pending, scheduled, finals, lock, paused>>

\* What archiveCmd takes out of the archive when the caller's clock has read t:
\* first the members from before the cutoff.
Archiving(m, t) == Put(archived, m.id, Unix(t))
Old(m, t)       == UpTo(Archiving(m, t), Unix(t - ArchiveTTL))

\* Then ZRANGE z 0 -MaxArchiveSize: all but the MaxArchiveSize - 1 last ones.
Extra(z) ==
  {x \in DOMAIN z :
     Cardinality({y \in DOMAIN z : Before(z, x, y)}) >= MaxArchiveSize - 1}

Trimmed(m, t) == Old(m, t) \cup Extra(Drop(Archiving(m, t), Old(m, t)))

\* The trimming comes before the hash is written: when it takes the task
\* itself, its hash is made anew and is in no set.
Archives(m, t) ==
  /\ Release(m.id)
  /\ IF Leased(m.id)
     THEN /\ archived' = Drop(Archiving(m, t), Trimmed(m, t))
          /\ task' = WithMsg(Drop(task, Trimmed(m, t)), m, "archived")
     ELSE UNCHANGED <<archived, task>>
  /\ UNCHANGED <<pending, delayed, completed, lock, paused>>

TooMany(S) == Cardinality(S) > UnpackLimit

\* unpack raises an error, for the old members or for the extra ones.
Unpacks(m, t) == ~TooMany(Old(m, t)) /\ ~TooMany(Trimmed(m, t) \ Old(m, t))

\* The script ends there.  The hashes are deleted, the members are still in
\* the archive, and the task's hash is as it was.
ArchiveAborts(m, t) ==
  /\ Release(m.id)
  /\ IF TooMany(Old(m, t))
     THEN /\ archived' = Archiving(m, t)
          /\ task' = Drop(task, Old(m, t))
     ELSE /\ archived' = Drop(Archiving(m, t), Old(m, t))
          /\ task' = Drop(task, Trimmed(m, t))
  /\ UNCHANGED <<pending, delayed, completed, lock, paused>>

Archive(m, t) == IF Leased(m.id) /\ ~Unpacks(m, t) THEN ArchiveAborts(m, t)
                                                   ELSE Archives(m, t)

\* HSET key result: makes a hash for a task that is gone.
WriteResult(id) ==
  /\ id \notin DOMAIN task
  /\ task' = Put(task, id, [state |-> "none", msg |-> NoMsg])
  /\ UNCHANGED <<pending, active, lease, delayed, finals, lock, paused>>

------------------------------------------------------------------------------
(* The server's background goroutines.                                     *)

\* forwardCmd on one of the two delayed sets: LPUSH, ZREM and HSET of up to
\* ForwardLimit due members, in their order.
ForwardFrom(z, ids) ==
  /\ ids # {}
  /\ \E s \in InOrder(z, ids) : pending' = pending \o s
  /\ task' = [x \in DOMAIN task \cup ids |->
                IF x \in ids THEN Restated(x, "pending") ELSE task[x]]
  /\ UNCHANGED <<active, lease, finals, lock, paused>>

ForwardScheduled(t) ==
  LET ids == FirstOf(scheduled, UpTo(scheduled, Unix(t)), ForwardLimit)
  IN /\ ForwardFrom(scheduled, ids)
     /\ scheduled' = Drop(scheduled, ids)
     /\ UNCHANGED retry

\* Mutant: forwardCmd does not remove what it has pushed.
ForwardRetryTwice(t) ==
  /\ ForwardFrom(retry, FirstOf(retry, UpTo(retry, Unix(t)), ForwardLimit))
  /\ UNCHANGED delayed

ForwardRetry(t) ==
  LET ids == FirstOf(retry, UpTo(retry, Unix(t)), ForwardLimit)
  IN /\ ForwardFrom(retry, ids)
     /\ retry' = Drop(retry, ids)
     /\ UNCHANGED scheduled

\* Mutant: the set is trimmed, the hashes stay.
DeleteExpiredEntries(t) ==
  LET ids == FirstOf(completed, UpTo(completed, Unix(t)), BatchSize)
  IN /\ ids # {}
     /\ completed' = Drop(completed, ids)
     /\ UNCHANGED <<pending, active, lease, delayed, archived, task, lock, paused>>

DeleteExpiredCompletedTasks(t) ==
  LET ids == FirstOf(completed, UpTo(completed, Unix(t)), BatchSize)
  IN /\ ids # {}
     /\ task' = Drop(task, ids)
     /\ completed' = Drop(completed, ids)
     /\ UNCHANGED <<pending, active, lease, delayed, archived, lock, paused>>

\* The messages listLeaseExpiredCmd returns.
ListLeaseExpired(cutoff) ==
  {task[id].msg : id \in {x \in UpTo(lease, Unix(cutoff)) \cap DOMAIN task :
                            task[x].msg # NoMsg}}

\* Mutant: the lease is prolonged from its end on.
ExtendFurther(ids, t) ==
  /\ lease' = [x \in DOMAIN lease |-> IF x \in ids THEN lease[x] + LeaseDuration
                                      ELSE lease[x]]
  /\ UNCHANGED <<pending, active, delayed, finals, task, lock, paused>>

\* ZADD XX: only members that are there.  The caller has read its clock, t,
\* some time before: the new end may be earlier than the one that is there.
ExtendLease(ids, t) ==
  /\ lease' = [x \in DOMAIN lease |-> IF x \in ids THEN Unix(t + LeaseDuration)
                                      ELSE lease[x]]
  /\ UNCHANGED <<pending, active, delayed, finals, task, lock, paused>>

------------------------------------------------------------------------------
(* Outside the repository.                                                 *)

\* Redis removes a unique key when its TTL is over.
LockExpires(k) ==
  /\ lock[k] # NoTask
  /\ lock' = [lock EXCEPT ![k] = NoTask]
  /\ UNCHANGED <<pending, active, lease, delayed, finals, task, paused>>

\* An operator's tool sets or deletes the key paused; nothing here does.
Pause ==
  /\ paused' = ~paused
  /\ UNCHANGED <<pending, active, lease, delayed, finals, task, lock>>

------------------------------------------------------------------------------
Init ==
  /\ pending = <<>>
  /\ active = {}
  /\ lease = NoEntry /\ scheduled = NoEntry /\ retry = NoEntry
  /\ archived = NoEntry /\ completed = NoEntry /\ task = NoEntry
  /\ lock = [k \in UniqueKey |-> NoTask]
  /\ paused = FALSE

\* The messages the bounds leave, and those of a client: not yet retried.
Copies  == [id : TaskID, retried : 0..MaxRetried, ukey : UniqueKey \cup {NoKey}]
Fresh   == {m \in Copies : m.retried = 0}
Unique  == {m \in Fresh : m.ukey # NoKey}

ClientStep ==
  \/ \E m \in Fresh \ Unique : Enqueue(m)
  \/ \E m \in Unique : EnqueueUnique(m)
  \/ \E m \in Fresh \ Unique, at \in Time : Schedule(m, at)
  \/ \E m \in Unique, at \in Time : ScheduleUnique(m, at)

WorkerStep ==
  \/ \E t \in Time : Dequeue(t)
  \/ \E m \in Copies : Done(m)
  \/ \E m \in Copies, t \in Time : MarkAsComplete(m, t)
  \/ \E m \in Copies : Requeue(m)
  \/ \E m \in Copies, t \in Time, isFailure \in BOOLEAN :
       /\ isFailure => m.retried < MaxRetried
       /\ Retry(m, t, isFailure)
  \/ \E m \in Copies, t \in Time : Archive(m, t)
  \/ \E id \in TaskID : WriteResult(id)

ServerStep ==
  \/ \E t \in Time : ForwardScheduled(t)
  \/ \E t \in Time : ForwardRetry(t)
  \/ \E t \in Time : DeleteExpiredCompletedTasks(t)
  \/ \E ids \in SUBSET TaskID, t \in Time : ExtendLease(ids, t)

OutsideStep == Pause \/ \E k \in UniqueKey : LockExpires(k)

Next == ClientStep \/ WorkerStep \/ ServerStep \/ OutsideStep

Spec == Init /\ [][Next]_vars

\* The runs in which unpack takes whatever a call of Archive removes at once.
\* What an abort leaves behind breaks the order of the keys for good.
Aborting == \E m \in Message, t \in Int :
              Leased(m.id) /\ ~Unpacks(m, t) /\ ArchiveAborts(m, t)
NoAbort  == [][~Aborting]_vars

------------------------------------------------------------------------------
(* Properties.                                                             *)

Members == [pending   |-> Range(pending),   active   |-> active,
            scheduled |-> DOMAIN scheduled, retry    |-> DOMAIN retry,
            archived  |-> DOMAIN archived,  completed |-> DOMAIN completed]

\* An ID that a list or a set holds has a hash with a message of that ID, and
\* the hash's state field names that list or set: so no ID is ever in two of
\* them, and no worker pops an ID whose message is gone.
ListedIsStored ==
  \A st \in State : \A id \in Members[st] :
    /\ id \in DOMAIN task
    /\ task[id].state = st
    /\ task[id].msg # NoMsg
    /\ task[id].msg.id = id

\* A hash that says its task is pending, active, scheduled, retried or
\* completed is in the list or set that it names: a script that stops half-way
\* or comes late leaves no such task where neither workers nor the forwarder
\* nor the janitor look for it.  Two kinds of hashes are left out: those that
\* WriteResult alone has made, which name no list, and the archived ones, for
\* Archive may trim the very task it archives.
StoredIsListed ==
  \A id \in DOMAIN task :
    task[id].state \in State \ {"archived"} => id \in Members[task[id].state]

\* No ID is twice in the pending list: a task is not handed out again while
\* a worker has it, however requeueCmd, forwardCmd and the recoverer race.
PendingOnce ==
  \A i, j \in DOMAIN pending : pending[i] = pending[j] => i = j

\* The lease set holds the active IDs and no other: a task in a worker's hands
\* can always be recovered, and ExtendLease never revives a finished one.
LeasedIffActive == DOMAIN lease = active

\* The archive stays within the size its constant names, whatever the scores:
\* Archive "also trims the archive by timestamp and set size".  That holds as
\* long as no call of Archive aborts.
ArchiveBounded == Cardinality(DOMAIN archived) =< MaxArchiveSize

\* A uniqueness lock ends by its TTL, or when the task that holds it is
\* acknowledged: not when a task enqueued under the same key after the TTL, or
\* by an older copy of the message, is.  (MarkAsComplete is said to remove the
\* lock too, and does not; either way is allowed here.)
Acknowledged(id) ==
  /\ id \in DOMAIN task
  /\ id \in DOMAIN task' =>
       task[id].state = "active" /\ task'[id].state = "completed"

LockKept ==
  [][\A k \in UniqueKey :
       lock[k] # NoTask /\ lock'[k] # lock[k] =>
         LockExpires(k) \/ Acknowledged(lock[k])]_vars

\* The stage a task ID is in, for the abstract specification: the state field
\* of its hash.
stageOf == [id \in TaskID |-> IF id \in DOMAIN task /\ task[id].state # "none"
                              THEN task[id].state ELSE "absent"]

Lifecycle == INSTANCE TaskLifecycle WITH stage <- stageOf

\* Every script moves tasks only along the stages of TaskLifecycle: no script
\* drops a task that still waits, or takes a task a worker does not have.
LifecycleSpec == Lifecycle!Spec
==============================================================================
