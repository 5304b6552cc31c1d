# TitanQueue in TLA+

TitanQueue is a task queue: clients put tasks into Redis, servers take them out
and run them, and background goroutines repair what crashes and slow networks
leave behind. There are no tests in the repository that exercise several
processes at once; this project models what happens between them, checks it
with TLC and proves the parts that matter most with TLAPS.

## The system

| Component | State | Operations | What makes it correct |
|---|---|---|---|
| Broker scripts (`internal/rdb/rdb.go`) | per queue: lists `pending`, `active`; sorted sets `lease`, `scheduled`, `retry`, `archived`, `completed`; a hash per task (`msg`, `state`); uniqueness locks; `paused` | the Lua scripts behind Enqueue(Unique), Schedule(Unique), Dequeue, Done, MarkAsComplete, Requeue, Retry, Archive, ForwardIfReady, DeleteExpiredCompletedTasks, ListLeaseExpired, ExtendLease, WriteResult | each task in exactly one place, the one its hash names; leases for exactly the active tasks; no task dropped while it waits |
| Processor and workers (`processor.go`) | the queues' weights; tokens of `sema`; per worker a message copy and a `base.Lease` in memory | poll the queues, take a task, register with the heartbeater, run the handler, write the outcome if the lease is valid, report `finished` | a worker writes only while the task is its own; no queue starves; a task taken is one day done |
| Heartbeater (`heartbeat.go`) | a map from task ID to worker | `starting`, `finished`, `beat()`: look at the leases, `ExtendLease`, `Reset` | leases of live workers go on, those of dead ones end |
| Lease (`internal/base/base.go`) | `expireAt`, a channel | IsValid, Reset, NotifyExpiration | never revived after its end |
| Recoverer (`recoverer.go`) | the list of messages it is working through | list expired leases, Retry or Archive each | takes only abandoned tasks, and all of them in the end |
| Forwarder, janitor | a timer | one script each | due tasks become pending, retained ones go |
| Syncer (`syncer.go`) | failed calls | call them again until their deadline | a late call meets no task in other hands |
| Client (`client.go`) | none but the task's option slice | compose options, one of four broker calls | uniqueness, limits as asked for |
| Cancelations, subscriber | cancel functions by task ID, a PubSub channel | Add, Delete, cancel | cancels the run that was meant |
| Server (`server.go`, `signals_*.go`) | new, active, stopped, closed | Run, Start, Stop, Ping, Shutdown | shutdown ends, in the right order, and leaves nothing running |
| Healthchecker (`healthcheck.go`) | a timer | Ping, the program's callback | ends when told |
| Context, errors, log, timeutil | | | |
| Dashboard, examples, benchmark | | read-only or programs that use the library | |

Components meet in three ways. All processes share the broker, where a script is
atomic. Inside a server, goroutines talk over unbuffered channels (`starting`,
`finished`, `syncRequestCh`, `done`). And a worker's lease is shared memory
between the worker and the heartbeater.

What is hard: the lease lives twice (in the broker and in the worker), the
copies are written by different calls that may be late or lose their replies,
and they are compared with the clocks of different machines; scripts act by task
ID and by the caller's message copy, whoever holds the task by then; maps in
the server are keyed by task ID, which may be reused; shutdown stops goroutines
one by one over unbuffered channels. `PROJECT.json` lists the hazards line by
line with the properties that would catch them.

## Modules

| Module | Models | Role |
|---|---|---|
| `TaskLifecycle` | `base.TaskState` | abstract specification: the stages of a task ID and the only moves between them |
| `Rdb` | `internal/rdb/rdb.go` | every script, with an open environment |
| `MCRdb` | | TLC instance of `Rdb` |
| `RdbProofs` | | proofs of `Rdb`'s invariants |
| `RdbRefinement` | | proof that `Rdb` implements `TaskLifecycle` |
| `Workers` | `processor.go`, `heartbeat.go`, `recoverer.go`, `forwarder.go`, `janitor.go`, `base.Lease` | servers that call the scripts of `Rdb` |
| `MCWorkers` | | TLC instances of `Workers` |
| `WorkersProofs` | | proofs that servers keep to `Rdb`, and of the leases |
| `HolderProofs` | | proofs that one server's task is in one worker's hands |
| `Delivery` | `Workers`, `syncer.go`, `base.Cancelations`, and a clock without end | what finally happens to a task |
| `MCDelivery` | | TLC instance of `Delivery` |
| `DeliveryProofs` | | proofs about cancel functions and the syncer, and that what holds of `Workers` holds for ever |
| `Queues` | `NewServer`'s queues, `processor.queues` and its helpers, the loop of `RDB.Dequeue` | in which order a server asks its queues |
| `MCQueues` | | TLC instance of `Queues` |
| `QueuesProofs` | | proofs of what the loops compute and of the polls' order |
| `Shutdown` | `server.go`, `processor.go`, the loops of the eight background goroutines | the life of one server, from Start to Shutdown |
| `MCShutdown` | | TLC instances of `Shutdown` |
| `ShutdownProofs` | | proofs of `Shutdown`'s invariants |
| `Client` | `client.go`, `processor.computeDeadline` | from the options of a task to the handler's deadline |
| `MCClient` | | TLC instances of `Client` |
| `ClientProofs` | | proofs of `Client`'s invariants |

### Rdb

One variable per key of the queue, named as the key. Lists of which only the
membership matters (`active`) are sets; sorted sets and hashes are finite
partial functions. A script is one action; where it can stop half-way
(`LREM` done, then the lease is not found) the action keeps what was written.
`archiveCmd` also stops half-way when `unpack` cannot take all the members
that it trims (`ArchiveAborts`; `UnpackLimit` is Lua's limit, about 8000 where the
archive may hold 10000). A call that changes nothing has no action. The helpers `Put`, `Drop`, `UpTo`,
`FirstOf`, `InOrder` are the Redis commands.

The environment is open: any caller may call any script with any copy of a
message and any clock reading. That makes the results about `Rdb` independent
of how the servers are built: they hold for late commands, duplicated calls,
skewed clocks, stale copies and crashed callers, because all of these are just
calls. Clocks count finer than seconds; the scripts are given seconds (`Unix`). Two actions stand for things outside the repository: `LockExpires` (the
TTL of a uniqueness lock) and `Pause` (a tool that sets the `paused` key).

Not in `Rdb`: the counters, the queue name (one queue), expiry of hashes
(none has one), WriteServerState and the cancelation channel.

### TaskLifecycle

The stage of an ID is the `state` field of its hash. A task is never dropped
while it waits: it leaves the queue only from *active*, *completed* or
*archived*. `Rdb` refines it by `stage <- stageOf`.

### Workers

Extends `Rdb` and closes its environment: servers do nothing else to the broker
(`BrokerSpec`). A worker is a token of a server's
`sema`; its `pc` follows `processor.exec`: `starting` (blocked on the channel to
the heartbeater), `running` (handler), `acting` (the lease was valid; the last
call is on its way), `finishing` (blocked on `finished`). The handler's result
is any outcome at any time. A call may be lost before it runs (`ActFails`,
`ExtendFails`, `RecoverFails`), its reply may be lost after (`TakeLost`,
`ExtendFails`), and it may be executed up to `Transit` ticks after the end of
its context. A process may crash at any point and start again (`Crash`).

`beat()` is three steps, between which time passes and other servers act.
The recoverer's list and its calls are separate steps. The clock of server `s`
is `now + Skew[s]`.

A lease is written with a reading of the clock that may be up to `Delay` old when the
command is executed (`Readings`), and the broker's score is cut to seconds while the
worker keeps the finer time. `ExtendLease` has no deadline: each command that was
sent stays in `late` as long as its reading is no older than `Delay`, and may be
executed again in that time, after its caller has gone on, crashed or lost the task
(`ExtendLate`). So an old extension may shorten the lease of the task's next holder.
The sum of the two, `Lag`, is what the broker's lease may lack.

A handler may go on after its worker has stopped waiting for it, and writes its result
to the hash of an ID whatever has become of the task (`handlers`, `HandlerWrites`).

Assumed: no two clocks differ by more than `Spread`; a command is not executed more than
`Transit` after its context ends, nor more than `Delay` after its reading of the clock;
and `Spread + Transit + Lag` is less than the recoverer's grace period.
`ListsOnlyAbandoned` is what these buy: with the code's 30 s and whole seconds, 29 s are
left for the clocks and the network. Older readings matter for leases only: with any
other call an older one does what the call would have done a little earlier. That the
Redis client sends a command twice matters for the others only as a call whose reply
was lost: each tests what the first one has changed. What a crashed process
has sent lands before the one in its place begins, except for extensions. The recoverer
reads its list in one step, though `ListLeaseExpired` may ask several queues.
Timers are not modelled: a beat, a recoverer run or a forwarder run may come at
any moment, which includes the intervals of `server.go`. The notice on
`lease.Done()` is one of the moments at which a worker concludes with a lease
that is over. The syncer has no effect here; `Delivery`, which has it, shows why.

### Delivery

`Workers` with the parts that matter when a server runs for ever. The worker
goroutine has phases of its own (`run`): it is started once the heartbeater has received
from `starting` (`StartRun`), makes its context and enters its cancel function
(`AddCancel`), hands a call that failed to the syncer (`HandOver`), returns from that call,
whose own deferred `cancel` runs then (`CallReturns`), cancels its context (`CancelRun`),
removes the entry of the task's ID (`DeleteCancel`) and only then reports `finished`
(`End`). A request is in the channel, then on the syncer's list, and `cancelled` once the
worker's call has returned: the function of a request uses the context that `markAsDone`
and the others cancel when they return, so that from then on it fails before it reaches
the broker. `Sync` is a try of the syncer: what the function does (`Again`) if it still can.

`Workers` counts time up to a bound, which liveness does not allow. Here times count
from the beginning of the second that the slowest clock is in: `now` is the tick
within it, and with a new second (`NextSecond`) each time that is stored comes a second
closer, down to `-Floor`. So the cut to seconds is the same as with a clock that runs on. Requests that are stale and
whose context is over are forgotten with the second (`Spent`): nothing can come of them.
`Floor` is at least as large as each constant a time is compared with, and a second more, so
that what is further back is not told apart by any guard.
Stored times that are bounded above by their constants and below by `Floor` make the
state space finite with no bound on the run.

Assumed, besides what `Workers` assumes: the default `IsFailure`, by which every retry
counts (`Counted`; with one that spares `ErrLeaseExpired` a task may be lost and retried
for ever); the syncer's interval of five seconds is longer than a worker takes from its
send to its return from that call, a few instructions (the guard in `Sync`; nothing in
`syncer.go` enforces it, and should it not hold, a request could be made in time after all); the queue is not paused; handlers end, as their
context has a deadline; and a server that was stopped is started again. Crashes and lost
calls are not bounded. Shutdowns are (`MaxStops`): Requeue alone returns a task
without counting, so a task that is requeued for ever is never done.

A cancel message does to a run what its deadline does: the context ends and
`Conclude` as failed follows. The messages themselves are not modelled.

### Queues

One server's polls of several queues. `QueuesInit` computes what `NewServer` and
`newProcessor` do from a configuration: entries that are kept (`Kept`), divided by
their greatest common divisor, and the orders in which polls may ask: one order of
descending weights, fixed for the process, or what `uniq` makes of any shuffle. A poll
asks one queue at a time (`Ask`), and clients, operators and other servers act in between
(`TakenElsewhere` is another server's poll). A failed call ends the poll, with
or without the task. `free` is a history variable: the queues that had nothing to give at
some time of the poll; `StrictOrder` and `SleepsWhenEmpty` speak of it, as neither
holds of the moment at which the poll ends. Tasks of a queue are counted, their order is
`Rdb`'s matter.

A poll needs a token, and workers give theirs back (`CallsEnd`, and handlers that end);
tokens are left out. The probabilities of the shuffle are taken as fairness.

### Shutdown

One server and any number of callers of its four methods. A caller is in the
middle of a method at some statement: in `Start` the next goroutine to start, in
`Shutdown` the next one to stop (`StartOrder`, `ShutdownOrder`). A background
goroutine is at its select, busy, or ending; the processor also at exec's select
(`token`) or at its send on `starting`; the heartbeater also at the server's
mutex. A send on an unbuffered channel and its receive are one step, which both
sides must be ready for. `once` is `sync.Once`: the first caller of
`processor.stop` closes `quit` and sends, the others wait until it is done.
A worker is what holds a token: a handler, a write, a send to the syncer or to
the heartbeater; `processor.shutdown` takes the tokens for itself. A handler whose
worker has stopped waiting for it is left to itself: it holds no token.

What the goroutines do to tasks is left to `Workers`; here a call to the broker
is only time that passes. It always ends: the Redis client has timeouts. The
subscriber's two loops are one, since `done` is taken in both; the messages it gets, nil
ones too, are not modelled. The program's callbacks are assumed to return and not to
call the server: that of the healthchecker, and `ErrorHandler`, `RetryDelayFunc` and
`IsFailure`, which a worker calls before it writes a failed task. Handlers need not
return.

### Client

Goroutines that enqueue one `Task`, each with options of its own. A caller
appends its options to the task's (`AppendWord`, if the array of the task's slice
has room: an option is an interface value of two words), reads them one by one
(`Compose`), decides whether to schedule, asks for a lock and sends. The
clock ticks in halves of a second and may tick between any two of these steps; the
message, the score and the lock have whole seconds. The broker is reduced to the
two things that a call can meet there, a lock and an ID that is taken in its queue
(`TaskKey`); a lock ends only by
its time, as the early release by a finished task is the matter of the planned
`UniqueLock`. A server starts a task when the forwarder would have let it, and
`computeDeadline` is computed then.

`LastOverrides` compares what the loop composed with a definition that has no loop.
`InTime`, `NotEarly` and `UniqueApart` relate what the options ask for to what the
handler and the second caller get at the other end.

Left out: negative durations, options of a program's own making (ignored by the
code), the random ID, and timeouts of less than a second, which `InTime` names: they
are cut to zero and taken for none.

## Runs

| Run | Question | Result |
|---|---|---|
| `rdb` | Do the scripts alone keep every task in its place? | yes: types, `ListedIsStored`, `StoredIsListed`, `PendingOnce`, `LeasedIffActive`, `LockKept`, refinement of `TaskLifecycle` |
| `archive_abort` | Does the archive keep to its size? | no, when one call has more to remove than `unpack` takes |
| `one_server` | With one recoverer, is a task in one pair of hands? | yes: `OneHolder`, `RecoversOnlyAbandoned`, `RetriesKept`, `WatchedIsHeld`; and the servers use the broker as its specification allows (`BrokerSpec`) |
| `two_servers` | Does the grace period cover skewed clocks, late extensions and the cut to seconds? | yes: the broker's lease lags behind the worker's by `Lag` at most (`LeaseCovers`), and `ListsOnlyAbandoned`; and no lease reaches further than a lease and the spread of the clocks (`LeasesEnd`) |
| `rival_recoverers` | Does a recoverer take only abandoned tasks? | no, when two servers run one: list and call are not atomic |
| `unwatched` | Does the heartbeater know every running worker? | no, when a task ID comes back while the old worker waits on `finished` |
| `delivery` | Is a task that was accepted acknowledged or archived in the end, however often calls, replies and processes are lost? | yes: `Delivered` |
| `syncer` | Can a call on the syncer's list still be made? | no: the context it runs with ends as soon as the worker's function has sent it (`SyncerCanRetry`) |
| `queues` | Do polls keep to the configuration while the queues change under them? | yes: `Normalised`, `StrictOrder`, `SleepsWhenEmpty`, `Served` |
| `shutdown` | Do Start, Stop, Ping and Shutdown, whoever calls them when, end and leave nothing behind? | yes: `QuietWhenDown`, `ReceiversLive`, `NoneStartedAfterStop`, `CallsEnd` |
| `client` | Do options mean at the other end what they meant to the caller? | yes: `LastOverrides`, `InTime`, `NotEarly`, `UniqueApart` |
| `shared_task` | Also for a task whose option slice has room to spare? | no: callers write their options into the same array |

Bounds. `rdb`: three tasks, so that the archive of two evicts, forwarding by
twos leaves a member and a list has a middle; one unique key; clock readings 0
and 1, enough for earlier, equal and later scores; message copies of every
kind. The retry counter is bounded by 0 there, since no script branches on it;
`Workers` counts retries. `unpack` takes two members there, as many as the archive is to
hold, and so never aborts (`UnpackSuffices`); in `archive_abort` it takes one of three,
the proportion of 8000 to 10000, and a fourth task shows the overflow.
`one_server`: one task, two tokens, six ticks: a lease (2), the grace period (3), which
covers a transit and a delay of one tick each, and, with a retry delay of none, a recovered
task that is taken again, more than once, while its old worker is still there.
`two_servers`: one token each, a clock one tick ahead, a second of two ticks, so that
times are cut, readings up to a tick old; lease of one tick, grace of
four, three ticks of time: a task is taken, listed by the fast clock, put back and
taken by the other server while heartbeats of the first are under way. One
task is enough in `Workers` since workers interfere only over the same ID.

`delivery`: one server, one token, one task: more of them interfere only over an ID
(`two_servers`, `one_server`), and what is asked is whether one task comes to an end. A
task is put in again under the same ID when it is done. A second has two ticks; lease and
retry delay are one, the grace period two; `MaxRetried` 1, so that a retried task fails
again; one Stop. No reading is old there and no call outlasts its context, as neither
decides whether a task comes to an end, only when (`two_servers` and `one_server` have
them). With one token a run never overlaps with another's, so that
`NoLeak` is not asked of this run: it is proved (`DeliveryNoLeak`). `syncer` has the
same bounds.

`queues`: one server (another one's polls are `TakenElsewhere`); three queues, strict with
two equal ones and weighted with weights 3, 2, 1 after division; two kept of four names,
without a common divisor; and nothing kept at all. Two tasks of a queue: it is still
not empty after one was taken. Only some queues are ever paused (`Pausable`).

`shutdown`: two callers, so that any two methods overlap (a second Stop, Shutdown
or Start is refused, so a third caller adds nothing but another Ping); one token,
since workers do not wait for each other; the timers of all goroutines but the
syncer, the heartbeater and the processor, which others send to, are left out by
`Waking`, as they only delay the goroutine's own `done`.

`client`: two callers, since locks, IDs and the array are contended by pairs; six
choices of options with every kind of conflict (of a call with its task, within
a call, of `ProcessIn` with `ProcessAt`), of refusal and of lock; two
seconds, in which a lock of one second passes. The task's slice has room for one
option, and one choice fits: both callers may write to the array, but the same, which
is what the property can stand; `shared_task` has two that fit.

Fairness is needed by `CallsEnd`, `Delivered` and `Served`. For `CallsEnd`, weak: the
broker answers, the abort timer fires, a goroutine that can go on does. Strong: a send to
a goroutine that is at its select again and again is received in the end, because Go
chooses at random among the ready cases of a select, and the heartbeater gets the mutex,
because Go's mutex hands itself to a waiter that starves. Nothing is assumed of handlers,
of tasks or of callers.

For `Delivered`, weak: time passes, the processor takes a task that it can take, beat()
ends, recoverer and forwarder run, a stopped server is started again. Strong: a worker
goes on, which at its sends again depends on a select of the heartbeater or the syncer;
and the recoverer's call gets through now and then, though its process may crash between
list and call any number of times. No worker's call needs to get through: if all of them
are lost, the recoverer archives the task in the end. For `Served`, strong: each queue comes
first in some shuffle again and again, and a call for it gets through again and again.

Every property has a mutant in `PROJECT.json`: a plausible bug in a mapped
definition that the run then finds. No run uses symmetry (task IDs are ordered,
and liveness does not allow it).
Deadlock is checked in every run.

## Proofs

`RdbProofs` proves, for every finite set of task IDs, every set of unique keys
and all bounds, that `TypeOK`, `ListedIsStored`, `StoredIsListed`, `PendingOnce`,
`LeasedIffActive` and `ArchiveBounded` are invariants of `Spec`, and `LockKept`. All
but `TypeOK` and `LockKept` have the hypothesis `NoAbort`, that no call of Archive ends in
`unpack`: an abort leaves members without hashes and breaks them for good.
`UnpackSuffices` says when that cannot happen: if `unpack` takes as many values as the
archive is to hold, which 10000 does not grant and a smaller `maxArchiveSize` would.
None but `TypeOK` is inductive
alone: that Requeue cannot enter an ID twice needs that an active ID is not pending,
which needs that each ID's state names its only place, and that the scripts
may test `active` by its list and the lease by its set needs that the two agree.
`IInv` is the conjunction. The proof restates it ID by ID (`Placed`), shows that
an ID whose hash and memberships a script leaves alone stays placed
(`StillPlaced`), and then has one lemma per script for the IDs it moves.
`ArchiveBounded` needs that `ZRANGE 0 -N` leaves no more than it should, whatever its
members: `FirstMember` (a finite set that is not empty has a first member in the order of scores
and IDs, from the well-foundedness of the numbers) and, with the cardinality of
finite sets, `ExtraLeaves` and `ArchiveTrims`. `LockKept` goes script by script (`LockStep`).

`RdbRefinement` proves `Spec /\ NoAbort => LifecycleSpec`: `IInv` tells which stage an ID
that a script finds in a set was in, and each script is then a move of
`TaskLifecycle` or a stutter.

`NoAbort` is a hypothesis of all results about `Workers` and `Delivery`, but for those about
`run` and `requests` alone.

`WorkersProofs` has two parts. `ServersInductive` proves `ServersInv`: the broker's
invariant (with the message copies in the hashes), the servers' types, and
`Manned` (a worker that is not idle has a copy of a message) and `Timely` (no command that may still come is too old). Each step of a server is a script of `Rdb`
with arguments that `Rdb`'s environment may give, or leaves the broker alone;
so `ServersRefineRdb`, and all that is proved of `Rdb` holds for the servers.

The second part is about leases, for any number of servers, tokens and tasks,
any skew of the clocks and any delays. `LeaseInv` adds to `ServersInv`: no lease
in memory ends later than `LeaseDuration` from now (`Bounded`); the heartbeater's
entries are workers with that task (`Watching`); the IDs that beat() has collected are still entered, since no
worker comes or goes during a beat (`Beating`); between ExtendLease's answer and Reset the broker's
leases already cover the new ones but for `Lag` (`Promised`); the extensions that may still
come carry readings no older than `Delay`; and `LeaseCovers` and `LeasesEnd`
themselves. The key step is `LeaseStep`: a lease in the broker is only ever set from a
reading of some server's clock, no older than `Delay` and cut to seconds, to
`LeaseDuration` from then, so it falls behind a copy by `Lag` at most and does not run
ahead of the clocks. From `LeasesCovered` and the assumption `Spread + Transit + Lag < Grace`
follows `GraceSuffices`: no recoverer lists a task that a worker may still conclude.

`HolderProofs` proves `OneHolder`, `RecoversOnlyAbandoned` and `RetriesKept` for a
single server with any number of tokens and tasks; `OneServer` is a hypothesis of the
theorems, for with two servers they are false (`rival_recoverers`). `HolderInv` adds
to `LeaseInv`: a worker that may act on a task has it active, and its copy of the message is that
of the hash (`HasTask`); whatever the recoverer has listed is active, in nobody's hands
and listed in the copy of the hash (`Abandoned`); and `OneHolder`. A hash need not have
a message: handlers that write late make some without. None of them is inductive alone: a worker
keeps its task because the recoverer's list holds only abandoned ones, and what is on the list
stays abandoned because nobody else can end it and a task has to be
ended before it is taken again. `MayActStep` shows that a right to act arises
only from Take (an extension comes too late for a lease that is over), `CallerCases`
that only a worker's last call and the recoverer's call end an activation or rewrite a message.

`DeliveryProofs` has three parts, for any number of servers, tokens, tasks and stops. The
first proves `NoLeak` and `SyncerRetriesNothing`, the theorem behind the run `syncer`: no
try of the syncer reaches the broker. The invariant relates four things: a run that is
open belongs to a worker that runs, writes or has written (`Opened`); a server's cancel
function for an ID is that of one of its own runs of that ID that has not come to its Delete
(`Owned`); a request that can still succeed belongs to a run that has not returned from
its call (`Requested`); and tokens are records (`Shaped`). Most steps leave the runs alone or
take one to its next phase; those of the cancel functions, crashes, time and the syncer have
a lemma each.

The second part carries over to servers that run for ever what holds of `Workers`, whose
clock is bounded. The invariant is `LastingInv`, which is the first part's and `LeaseInv`. A
step of `Delivery` is one of three (`StepIs`): a step of `Workers` at a clock that stands
still, for which the lemmas of `WorkersProofs` and `HolderProofs` are there; a step beside the
leases (`Aside`: a task is submitted for later, or the forwarder moves one); or
`NextSecond`, which takes a second from each stored time but stops at `-Floor`. A time that is no
more than `k` behind another stays so (`LaterKeeps`), which is the form that each part of
`LeaseInv` has about times, so that each survives (the `Aged` lemmas). For that the ends of
leases in memory are integers, here and in `Workers`. Hence `LeasesStayCovered`, `LeasesKeepEnding`, `WatchedStaysHeld`,
`GraceStaysSufficient`, the broker's invariants (`BrokerStaysSound`) and the
refinement of `TaskLifecycle` (`DeliveryRefinesLifecycle`); and with one server
`OneHolderForEver`, `RecoveryForEver` and `RetriesForEver`.

The third part is `DeliveryTypeCorrect`. That stored times stay in their finite range is what
makes `delivery` a finite state space with no bound on the run, and it needs `LeasesEnd`: a
lease is bounded above only because nobody prolongs one by more than its clock allows.

`QueuesProofs` proves `QueuesTypeOK`, `Normalised`, `StrictOrder` and `SleepsWhenEmpty`, for
any finite configurations, any servers and any shuffle. It begins with what the loops
compute: `EuclidIsGcd`, the fold over a configuration that is made of it, and
`UniqKeepsEach`. The library's induction theorems have an operator for the property and
cannot be used. Here a property is the set of the numbers (`NumberInduction`), pairs or
finite sets that have it, and an element outside of it that is least gives the contradiction;
that a function defined by recursion has a value is shown in the same way. `QInv` then
has what the constructor settles (`Constructed`: the weights are normalised and each order
has each queue once, descending if strict), and of each poll that it goes on in that order
(`PollInOrder`), that whatever it has asked or has nothing to give now is on record
(`AskedWereFree`), and what its end says of the record (`EndedRightly`). `StrictOrder` speaks of
the priorities in the configuration and the proof of the weights: `Normalised`'s ratios link
the two.

`ShutdownProofs` proves, for any number of callers and workers, types,
`QuietWhenDown`, `ReceiversLive` and `NoneStartedAfterStop`. The invariant has four
parts besides the types: at most one Start and one Shutdown get through the state
(`Alone`); the receivers are started before the processor (`Founded`); the
processor holds one token at most, and only between exec's select and the start
of a worker (`Holding`); and the goroutines whose step of Shutdown is past have
been told to end, the workers are gone once theirs is past, and the syncer and the
heartbeater are told only after that (`Ordered`).

`ClientProofs` proves all of `Client`'s properties, for any options, number of callers
and delays, when the array of the task's options is full (`Spare = 0`), as it is if
`NewTask` is given options one by one. With room to spare they are false
(`shared_task`). `CallerSteps` reduces each invariant to the steps of one caller;
`Composed` is the loop's invariant (each field follows the options read so far);
`Timed`, `Held` and `Apart` carry the locks: a lock in the broker only ever grows, and
ends no earlier than the caller's clock said when it asked; `Waits` carries the times.

The proofs rest on the named assumptions on the constants: in `Rdb` task IDs are
finitely many and ordered as integers, and the marks for "none" are not
values of their kind; in `Workers` the numbers are naturals, the clocks are within
`Spread`, the readings a command may carry are times, and the grace period is long enough
(`MarginAssumption`); in `Delivery` `Floor` is no
smaller than the constants that times are compared with, and a second more; in `Queues` a configuration has
finitely many queues, priorities are integers, and the marks for how a poll ends are no
names; in `Shutdown` the tokens are finitely many; in `Client` options have values of their kind,
the default timeout is a second at least and no deadline is in the first second of the
epoch (which the code takes for none).

What stays with TLC are the liveness properties `CallsEnd`, `Delivered` and `Served`:
they rest on fairness, which is out of the prover's reach. Every other property of a passing run
is stated by a theorem. With `Spare > 0`, and with two servers' recoverers, what is proved
under a hypothesis is false, and a run shows it; with an `unpack` that takes too little, so is
`ArchiveBounded`.

## What the work found

* `archiveCmd` ends in the middle when it has more to remove than Lua's `unpack` takes
  (rdb.go:700, 708). The archive then keeps members without hashes, grows with every call and is
  never trimmed again (`archive_abort`). It takes some 8000 archived tasks that pass the
  age of 90 days between two calls.
* It trims before it writes the hash, and keeps one member fewer than the constant says
  (`ZRANGE 0 -N`). With equal scores the member that is trimmed may be the one just added:
  its hash is then written for a task that is in no set. That is why `StoredIsListed` leaves
  archived tasks out.
* Recoverers of two servers race, and the loser takes a task from a worker with
  a valid lease, with an old retry count (`rival_recoverers`).
* The heartbeater forgets a live worker when a task ID is reused (`unwatched`).
* Goroutines that enqueue one task share the array of its options (`shared_task`).
* The syncer cannot make good what it is handed, against its comment (syncer.go:14), doc.go:90
  and the log ("Will retry syncing"): its requests run with a context that is
  cancelled before it first tries them (`syncer`, `SyncerRetriesNothing`). Nothing is lost by
  that, as the task comes back when its lease is over (`Delivered`), but a task whose
  acknowledgement failed is run again.
* `MarkAsComplete` leaves the uniqueness lock in place, though its comment says that it
  "removes a uniqueness lock acquired by the task, if any" (rdb.go:406); `Done` removes it.
  `LockKept`, which is about locks that are taken from others, allows either.
* `WriteResult` for a task that is gone makes a hash that no script deletes and that blocks the
  ID. `StoredIsListed` leaves it out; that no list ever gets such an ID is `ListedIsStored`.
* The grace period has to cover more than the clocks' difference: the age of the reading an
  extension carries (`ExtendLease` has no deadline) and the cut to seconds come off it too.
* Between the scripts of one poll a queue may fill up: with `StrictPriority` a task of a
  lower queue may be taken while a higher one has some, but never without the higher one
  having been empty or paused during the poll (`StrictOrder`).
* Handlers that ignore their context outlive their worker, which gives its token back
  (processor.go:233-255), so that more of them than `Concurrency` run at once, against
  server.go:93; and two of one task may. No run asks for it: such a handler is in no
  variable of the server.
* The old run's `Delete` may remove the cancel function of the next run of the same ID
  (processor.go:207): a cancel message then finds nothing. `NoLeak` says the other half.

## Not modelled

The counters (`processed`, `failed`) and what the heartbeater writes for the dashboard: no
task depends on them. The PubSub channel of cancel messages: one occasion more for
a run to fail. Contexts, errors, logging and the clock are libraries without state of
their own, beyond the deadlines that `Client` computes. The dashboard only reads. A queue
whose calls always fail while others work: `ForwardIfReady` and `ListLeaseExpired` then never
come to the queues behind it.

## Plan

Done: the broker, the servers that use it, delivery, the queues' order, the server's life
and the client. What is left:

1. `UniqueLock`: closed composition of clients, workers and the lock's TTL
   (lock kept by MarkAsComplete; lock taken on an ID conflict; TTL of a
   scheduled task; retries that outlive the lock).
2. `Stats`: the counters at their limit. `ServerState`: the heartbeater's records.
