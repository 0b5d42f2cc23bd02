# mew: models, checks and proofs

mew is a C++ runtime for event-driven programs: publish/subscribe and channels
on top of a libuv loop and a work-stealing thread pool, with a graph of nodes
and a small server above. This directory holds TLA+ models of its concurrent
core, TLC configurations that check them, and theorems checked by TLAPS.

## The system

| component | code | state | operations | talks to |
|---|---|---|---|---|
| queue of a worker | `thread_pool/mpmc_bounded_queue.hpp` | ring of cells with sequence numbers, two positions | `push`, `pop` | |
| thread pool | `thread_pool/thread_pool.hpp`, `worker.hpp` | workers, their queues, running flags, the round-robin counter | `tryPost`, `getWorker`, `threadFunc`, destructor | one queue per worker |
| scheduler and jobs | `tpscheduler.h`, `job.h` | a heap-allocated `Job` per closure | `schedule`, `run` | posts closures to the pool |
| publish/subscribe | `mew.h`, `mew.cc` | `_subscriptions`: a vector per topic; per subscription the counter `jobCpt` | `subscribe`, `publish`, `unsubscribe` | one job per publication and subscription |
| channels | `mew.h`, `uvasync.*`, `channelqueue.h` | `_channels`: one receiver per name, with a queue and an async handle | `channel_open`, `channel_write` | signal to the loop thread, job to the pool |
| queue of a channel | `concurrentqueue.h` (moodycamel) | a producer per writing thread: counters, blocks, a ring of index entries; the table of producers; the free list of blocks | `enqueue`, `try_dequeue` | one queue per receiver |
| timers and polling | `uvtimer.*`, `uvpoller.*` | libuv handles | one job per tick or readiness | the loop thread, the pool |
| nodes, ports, connections | `node.*`, `*port.h`, `connection.h`, `graph.h`, `parameterizable.*` | ports by name, the address an output writes to | `connect*End`, `write`, `setParameter` | channels, subscriptions, timers |
| workspace and identifiers | `workspace.*`, `identifiable.*`, `proquint.*` | graphs by identifier | `assignId`, `createEmptyGraph`, `getGraph` | |
| nodes of the library | `lib/nodes/*` | sockets, counters | `onInput`, `onTimer`, `onSetParameter` | ports, timers, polling |
| server | `server/` | table of request handlers | `process` and the handlers | the workspace |
| legacy and unused code | `mew_old.h`, `workstealingqueue*.h`, `deque.h`, ... | | | nothing |
| vendored code | the rest of moodycamel's queues, libcuckoo, Remotery, loguru, cppbackports | | | |

What is hard about it, in a sentence per component (the `hazards` of
`PROJECT.json` give the lines):

- The queue is lock-free: every access to shared memory interleaves with every
  other, and a thread can hold a position that is a round old.
- The pool lets a worker and its neighbour take from one queue while clients
  and handlers push to it, refuses when a queue is full, swallows exceptions,
  and joins its workers one after the other while the rest still steal.
- Publish/subscribe shares a vector between threads, and frees an object when
  a counter says that no job needs it. Its mutex is never locked:
  `std::unique_lock< std::mutex >( _subRegistryMtx );` declares a variable.
- A channel turns items into signals, signals into callbacks, callbacks into
  jobs and jobs into items; three of these four steps can lose one.
- The queue of a channel is lock-free in four places at once: two counters that
  dequeues draw ahead of what is there, a ring that turns and grows under its
  readers, a free list with reference counts, a hash table that is replaced
  while it is used; and in each an allocation may fail half-way.
- Timers and polling start jobs whether or not the earlier ones have ended.
- Identifiers, connections and parameters depend on orders of calls that
  nothing enforces.

What makes each correct:

- queue: each cell's data has one user at a time; items come out once, in the
  order of their positions; calls return.
- pool: an accepted task is run once, by one worker; none is lost; the
  destructor returns, and frees nothing a thread can still touch.
- publish/subscribe: the counter is exact; no deleted subscription is used; no
  subscription is lost; `unsubscribe` waits for jobs only and returns.
- queue of a channel: a thread has one stream; dequeues take what is there, once
  and in order; no block is used twice; a miss has a reason.
- channels: an accepted item is delivered at most once, and what stays in the
  queue is explained.
- timers and polling: what is ready is attended to although jobs are refused, unless
  one kind of job never leaves room for the other;
  counts are exact when executions do not overlap.
- nodes and workspace: identifiers differ; what is connected communicates.

## The modules

    BoundedQueue  <=(TLAPS, TLC)=  MPMCQueue     one queue, memory access by memory access
         |
      (its steps)
         v
    TaskPool  <=(TLAPS, TLC)=  ThreadPool        workers, stealing, destructor
       |
       +--> PubSub                               publish/subscribe over the pool
       +--> Channel                              channels over the loop and the pool
               ^
      (its streams, its misses)
               |
    WriterStreams  <=(TLAPS, TLC)=  ImplicitProducer  a channel's queue, memory access by memory access
               ^                        |
               |                        +--> FreeList  its unused blocks
      (one stream per writer)
               |
    ProducerHash                                 how a writer finds its stream

    UVLoop      timers and a polled socket over the workers' queues
    NodeGraph   identifiers, graphs, ports and connections over names of channels
    Proquint    identifiers and their names

`A <= B`: B implements A. Each arrow is an abstraction boundary that keeps the
next level small: `PubSub` and `Channel` extend `TaskPool`, so their jobs are
accepted, refused, started and finished by exactly the actions that
`ThreadPool` has been shown to implement.

### BoundedQueue and MPMCQueue

`MPMCQueue` has one action per access to shared memory of `push` and `pop`:
the load of the position (`LoadEnqueuePos`), the load of the cell's sequence
number and the three-way branch on it (`LoadSequenceForPush`, `PushFull`), the
compare-and-exchange that succeeds (`ClaimForPush`) or fails, spuriously too
(`MissPush`), the data (`WriteData`) and the store of the sequence number
(`StoreForPop`); `pop` likewise. `at` is the program counter, `pos` and `item`
the local variables. `pushed` and `outcome` are history variables.

`BoundedQueue` says what that amounts to: cells are claimed in order, and a
claim and its completion are two steps. It admits two effects that a plain FIFO
would not: a push is *refused although the queue is not full* when a slow pop
still holds the cell, and a pop *finds nothing although there are items* when a
slow push holds the first of them. Both are kept in `ThreadPool`.

Assumed: sequential consistency (the acquire/release pairs on `sequence` are
what orders the accesses to `data`; the relaxed accesses to the positions are
only read-modify-writes and hints), and no wrap of the 64-bit positions.
`QueueSize` is a power of two in the code, which makes `&` a modulo; the model
takes the modulo. A size below two, which the constructor refuses, breaks the
protocol.

### TaskPool and ThreadPool

A queue is the sequence of the tasks it has ever accepted (`pushed`), how many
of them have been claimed by a pop (`m_dequeue_pos`), and the task whose push
is not complete (`posting`). `pc` and `handler` are the position and the local
variable of `threadFunc`; `pc = "release"` is between the two steps of a pop.
`target` is the worker `getWorker` has chosen for a client's call. A handler
may post (to its own worker's queue) any number of times, and it returns or
throws: in the worker both are one action because `catch(...)` is empty.
`dtor` and `joining` are the position of the destructor's loop.

A client does not post once the destructor has begun, and the destructor does
not begin during a client's call: the owner of the pool has to see to that.

`TaskPool` is the promise of `JobScheduler::schedule`. A refusal in it is not a
sign of `QueueSize` pending tasks but only of `QueueSize` accepted ones, one of
which is not done: the cell may be held by a thief that has already taken the
task out, and the queue of another worker may be empty.

A handler may never return: one that is in `unsubscribe` waits for other jobs. Such
tasks are `Endless`. A queue has two threads that take from it, its owner and one
thief (`Takers`), and once both are held its tasks wait, however many other workers are
idle. So the pool promises to start a pending task only while fewer than two workers
are in endless handlers. It does not promise which queue a task is in, and so
it cannot promise more; `AcceptedRuns`, which sees the queues, does.

### PubSub

Threads are clients and jobs; `call` is the call each of them is in. `publish`
reads the bounds of the vector (`PublishBegin`), then one element at a time
(`PublishNext`), counts the job (`PublishCount`) and posts it (`PublishPost`,
where the pool accepts or refuses). `push_back` and `erase` read the vector in
one step and write it in another. The job runs the callback, which may itself
publish, subscribe or unsubscribe, then lowers the counter (`JobRelease`) or,
if the callback throws, does not (`JobThrow`).

Since no mutex is locked, every step interleaves with every other. A loop whose
vector shrinks reads beyond its end, where `Slot` lets it find any subscription
ever made for the topic. The constant `Serialised` adds the assumption under
which the design would work: callers keep a change of the registry apart from
every other access. The runs and theorems say which properties need it.

### Channel

`ChannelWrite` enqueues and `Trigger` sends the signal, as two steps.
`uv_async_send` raises a flag that `AsyncCallback` lowers before it runs
`UVAsync::periodic` (`Periodic`), which makes a job. The job takes at most one
item (`PopItem`) and calls the receiver with it. `try_dequeue` looks at one
stream after the other (`PopLook`, `PopNothing`), and it may miss in a stream
that is not empty, but only while another job looks at the same queue
(`Overlapped`): a coarser condition than that of `WriterStreams`, so `Channel`
allows every miss that can happen, and some that cannot. Memory is taken to
suffice here: an `enqueue` that fails would be a write that is not followed by
a signal. `coalesced`, `refused` and `missed` record the three ways in which a
write is not followed by a delivery of its own.

What the job does is undefined in C++: `UVAsync::periodic` gives it the `UVAsync` as a
`void*`, the job makes a `UVPoller*` of it and calls `UVPoller::exec`, which calls a
`std::function<void(Mew*, int)>` that is a `std::function<void(Mew*)>`, with an `_fd`
that lies behind the object. Both classes have the same members in the same places up to
there, and an `fc` that takes one argument ignores a second in the usual calling
conventions, so the receiver's `fc` is called. The model has that outcome and no other
(`JobStep`). `UVAsync::exec`, which was meant, is called by nothing.

### WriterStreams, ImplicitProducer and FreeList

The part of `moodycamel::ConcurrentQueue` that channels use. `ImplicitProducer`
has one action per access to shared memory. `enqueue` at the start of a block:
the next entry of the index (`FindEntry`), a ring of twice the size if that is
in use (`NewBlockIndex`), key, tail, a block from the initial pool, the free
list or the allocator, the element, the entry's value, the tail of the stream
(`Publish`); elsewhere the element (`Construct`) and the tail. What happens when
an allocation fails or the copy of the element throws is there up to the last
store (`RewindTail`, `ClearValue`, `GivenBack`). `dequeue`: the overcommit, the
count, the draw of a count, the second look at the tail (`Recheck`), then either
the count is given back (`AddOvercommit`) or an index is drawn (`Claim`), the
entry of its block looked up in four loads, the element moved out (`Move`), and
the block, if that was its last element, taken out of the index (`Unlink`) and
put on the list. `FreeList` is the list with its reference counts, step by step:
`add`, `add_knowing_refcount_is_zero` and `try_get`.

`WriterStreams` says what comes of it: a first-in first-out stream per writer,
and a dequeue that takes its head, or misses, the latter only if other dequeues
around it could have had all that was there when it began. The history variables `took`
and `failed` hold the counts drawn by who went on and who gave up, `span` what a
dequeue had before it and how many others it met.

Assumed: sequential consistency and no wrap of the 64-bit indices. Not used by
channels and left out: explicit producers, tokens, the bulk operations.

### ProducerHash

How a thread that enqueues finds its producer: `get_or_add_implicit_producer`, one
access to shared memory per step. Tables of the hash are never removed, the current one
is `main`, and each points to the one it replaced. `Find`, `FindBehind` and
`LookBehind` are the search through them; an entry found in an older table is
copied into the one the thread takes for the current (`Fill`). A thread that is
in none draws a count (`CountIn`), tries to become the one who makes a larger table
(`TakeFlag`, `Reload`, `Grow`), waits for another who does (`WaitForTable`), and when
the table it has is less than three quarters full makes a producer (`Create`) and
enters it (`Fill`). `claim` is the count it has drawn and not given back, `mine` (a
history variable) what its calls have returned.

The load of a key and the compare-and-exchange that follows when it is empty are
one step: a failed exchange leads where a load that finds the slot taken would.
The push to the list of producers is one step, because nothing is ever taken
from that list. Producers are not recycled: without tokens, and without
`thread_local` (whose use the header has switched off), none becomes inactive.
That thread numbers differ is assumed.

### UVLoop

The loop thread makes a job per tick (`Tick`) and a job on every turn that finds
the socket readable (`Poll`), and forgets about both. Such jobs have no end, and
so the queues hold kinds of jobs instead of the names `TaskPool` gives each
task. What decides whether a job is refused is kept exactly: the job goes to one
queue (`target`, which other threads' posts move as well), and `push` fails if the
cell at its position has not been given back (`Room`), be it because of the jobs that
wait or because of a pop that has claimed that cell and not completed it. A pop is
two steps, `Start` and `Release`, and `span` counts the cells from a pop's own to the
next to be popped. One stalled pop is thus enough for a refusal. Pushes are one step: the loop
thread makes one at a time, and the jobs of other threads are left out.

The two callbacks are those of the library's nodes: `Clock::onTimer` adds one to
`_cpt`, `UDPSrc`'s loop reads until `read` returns nothing and adds what it got to
`_byteCpt`; a datagram has one byte or none. Neither counter is guarded
(`LoadCounter`, `StoreCounter`); once two executions have met, the values are
not followed any further (`Followed`), because nothing is said of them. Datagrams may
go on coming for ever, and one that finds the socket's buffer full is dropped. Of libuv
and the kernel the model says what the code relies on: level-triggered polling, a
descriptor that `uv_poll_init` makes non-blocking, a repeat of 0 that means once, a closed
descriptor that leaves the poll set and whose number a new socket may get. The
counters count modulo `Wrap`, so that neither ticks nor datagrams need a bound.

### NodeGraph

A channel's name is the label of an input port and the printed identifier of its
node, here the pair of the two. `AddConnection` is the constructor of
`Connection` with everything it calls: the receiving end names and opens its
channel the first time, the emitting end copies that name over the one it had.
`AssignId` records 0, as `registerId` does. What an identifier was last given to
is in the history variable `owner`, the last connection of an output port in
`linked`. The history variable `faults` counts what can go wrong with identifiers and
nothing in the code prevents: `Repeated`, that the random number has been drawn
before; `Early`, that a node is connected before it is in a graph, so that
`getInputPortFullPath` prints an `_id` that no constructor has set (`Reads`: any
number, but always the same one). `Routed` and `Found` are about `faults = 0`,
`AddressKnown` is not.

### Proquint

One step per letter of `uint2quint` and per character of `quint2uint`, on words
of sixteen digits to the base 4. `str_id` cuts the buffer after eleven
characters, behind which nobody has written.

## The runs

The runs use two to four tasks or pushes and queues of two cells unless said
otherwise: the least with which a ring is full, a cell is reused, a steal meets
a pop, and two jobs of one subscription overlap.

| run | instance | shows |
|---|---|---|
| `pool` | 2 workers, 2 clients, 3 tasks, 2 of them endless | each task is in one place (`ExclusiveTask`), nothing is freed under a thread (`NoThreadAfterFree`), only TaskPool's steps happen (`SafeTaskPool`) and its fairness holds (`ImplementsTaskPool`); accepted tasks run unless the pool is destroyed or owner and thief are held (`AcceptedRuns`), the destructor returns unless a worker is held (`DestructorReturns`) |
| `queue` | 2 threads, 2 items, 4 pushes | one user per cell (`OneOwner`), `CallsReturn`, refinement of BoundedQueue |
| `pubsub` | serialised; 3 workers, queues of two cells; callback of `s1` publishes and throws, that of `s2` subscribes and unsubscribes | `JobCount`, `SafeReclaim`, `NoLostSubscription`, `UnsubscribeReturns` |
| `channel_queue` | 2 writers, 2 readers; blocks of two elements, an index of two entries, 3 blocks, 1 of them in the initial pool; five plans (below) | `NeverOverdrawn`, `EntryFound`, `BlockInOnePlace`, `ImplementsStreams` |
| `producer_table` | 3 threads, tables of 2, 4 and 8 slots, one allocation fails | `HasRoom`, `OneProducerEach`, `CallsReturn` |
| `channel` | 2 workers whose jobs end, 2 receivers under one name, 2 writers, 3 items, 4 job names | `Accounting`, `Delivery` |
| `timers_and_polls` | 2 workers, queues of two cells, any number of ticks and of datagrams, a buffer of 2, 1 change of port | `Counted`, `Drained`, `LoopEnds`, `KeepsTicking` |
| `graph_routing` | 1 graph, 2 nodes, 2 connections; an input, a parameter, an output per node; 5 identifiers, 2 faults | `Routed`, `Found` without a fault, `AddressKnown` with any |
| `identifier_names` | any two digits at any two places, over three backgrounds | `RoundTrip` |
| `pubsub_full_queue` | serialised; queues of two cells; callback of `s1` publishes | **violated**: `WaitsOnlyForJobs` |
| `pubsub_unlocked` | not serialised; queues of four cells, so that nothing is refused | **violated**: `SafeReclaim` |
| `graph_ids` | as `graph_routing`, 3 identifiers, 1 fault | **violated**: `IdsDistinct` |

Bounds: `Tasks` and `Items` are used once each; `MaxPush` bounds the pushes;
`JobsLeft` lets a publish begin only while there are names for its jobs. Four
pushes in two cells go through the second round of the ring, in which stale
positions and stale sequence numbers differ from fresh ones. Four jobs let two
subscriptions get two publications each, one of them refused by a queue of two.
`CHECK_DEADLOCK FALSE` is in every configuration because a bounded run comes to
an end, and because the programs may rest.

Five entities and five identifiers without a fault leave nothing over to add a
node a second time; with fewer connections made, one identifier is free for it,
which gives the node an identifier its ports do not have. Two faults let an
identifier that is read early be repeated later. A buffer of two
datagrams, one of them empty, is the least with which one is left behind when a loop is broken off;
ticks and polls fill queues of two while two workers run, and one change of port
is enough for a descriptor's number to be used again. Two free digits over a
background meet every pair of neighbours in a letter and every pair of letters;
a background of a digit other than 0 shows what a shift leaves.

A run of `channel_queue` follows one of five plans (`Plans`), which bound the
calls of each thread and the faults: the index of a writer turns and grows while
an allocation or a copy fails (seven enqueues, four dequeues); blocks go from one
writer to the other over the free list; two readers share a stream of two
blocks; all four threads at once, with a fault; two readers draw more counts than
there are elements. Two elements per block are the least with which a block is
emptied by two readers; the other hazards need three blocks or fewer. The free
list's ABA needs a node that goes out and comes back while a thread holds it,
which the second plan has.

Tables of 2, 4 and 8 slots for three threads grow twice, the third thread's
count having been drawn before either; `t1` and `t2` collide at the end of
every table, so that a search wraps around into the slot of `t3`. A failing
allocation gives a count back while another thread waits for the table.

`UnsubscribeReturns` has three exceptions, each of which TLC finds necessary: a
job of the subscription was refused or threw (`Lost`), a callback waits for a job
that is itself waiting, two callbacks wait. Three workers are the least with which
two waiting callbacks are not all workers: the job they wait for may lie in the queue that
only these two take from, while the third worker is idle. TLC finds the property
violated if the third exception is taken to be that all three wait. In `pool`, two
workers are enough for the promise this rests on, because each is owner of one queue
and thief of the other; two of the three tasks may hold them, which leaves one that
can be refused, run or wait. The run `pubsub_full_queue` shows the
first as a violation of what the code's comment says.

What the three violations say of the code:

- `pubsub_full_queue`: `publish` counts a job before it is posted and does not
  look at what `schedule` returns. A refused job stays counted, and
  `unsubscribe`, which according to its comment waits for jobs to complete,
  waits for one that does not exist. A callback that throws has the same effect.
- `pubsub_unlocked`: the registry's mutex is never locked. A publish that has
  read a pointer goes on to use it after `unsubscribe` has seen the counter at
  zero and deleted the object.
- `graph_ids`: `assignId` looks numbers up in a dictionary in which `registerId`
  only ever puts 0. A repetition is improbable, and nothing else prevents it;
  `graph_routing` shows what depends on it not happening.

## Fairness

- Threads run (weak fairness of each thread's steps), and a handler or callback
  ends unless it waits in `unsubscribe` or is one of the `Endless`. Nobody is
  obliged to begin a call.
- In the queue, the compare-and-exchange is strongly fair: it does not fail
  spuriously for ever while the position is the expected one. The other threads
  make finitely many calls only in the push direction (`MaxPush`).
- In the pool, the destructor's thread runs.
- `PubSub` and `Channel` assume of the pool what `FairPoolSpec` says, per task, and
  `pool` checks that the workers provide it, held ones included. In `PubSub` every
  callback may wait: a pending job is started as long as fewer than two callbacks wait.
  In `Channel` the receivers' functions are assumed to end (`Endless = {}`); one that
  waits in `unsubscribe` takes a worker away as it does in `PubSub`.
- The loop thread is inside `uv_run` (`Mew::run`) and looks at its timers and
  descriptors in each turn: `Tick` and `Poll` are weakly fair in `UVLoop`, as is
  each worker. Datagrams need not arrive, and may arrive for ever.
- Without a bound on ticks and datagrams the one can starve the other. A timer that
  fires faster than its jobs run may have its jobs in a full queue (`Filled`) whenever
  a poll is posted: this is the exception of `Drained`. Traffic that lasts makes a poll
  per turn, which may have its jobs in full queues whenever a tick is posted, and may keep
  the read loops of both workers from ending: these are the exceptions of
  `KeepsTicking`. A loop that does not end counts bytes for ever, which `LoopEnds`
  allows. TLC finds each of them necessary.

## What is proved

For every value of the constants, from the named assumptions only:

`ThreadPoolProofs` (`ThreadPoolAssumption`: at least one worker and one cell,
client names that are not worker numbers). The inductive invariant is `Inv`:
types; a task is in one cell of one queue (`QueuesDistinct`); two workers never
hold the same task (`RunnersDistinct`); queued, held, finished and refused tasks
are disjoint (`PlacesDisjoint`); positions are within the queue (`QueuesBounded`); every task
claimed by a pop is held or finished (`TakenOnce`), without which a claim could
meet a task that is already running; and the workers the destructor has passed
have exited (`JoinedExited`). From it: `TypeCorrect`, `Exclusive`,
`SafeDestruction`, and `Implementation`, the refinement of `TaskPool`: each
action is a step of the abstract pool or a stutter, the bound on a full queue
coming from an injection of its cells into the accepted tasks.

`PubSubProofs` (`PoolAssumption`, `PubSubAssumption`). `CountInv` is inductive
without any assumption on the callers: job names are new when made, the poster
of a job is the only one, and so each step that changes the counter changes the
set of outstanding jobs by that job. `CounterIsExact` follows for the code as it
is. `RegistryInv` adds, under `Serialised`, that what a call has read of the
vector is still true, that no vector holds a pointer twice or a deleted one, and
that one thread at most waits for a subscription; `ReclaimIsSafe` and
`NoSubscriptionLost` follow, with refusals, exceptions and calls from callbacks.

`NodeGraphProofs` (`NodeGraphAssumption`: the sets and the null values are
distinct). `AddressInv` holds whatever becomes of the identifiers: an open channel
is answered by a port that has its name as address, and a named input port's
channel is open (`ChannelsAnswer`); a connected output port has the address of
its port (`LinksKnown`). `AddressesAreKnown` follows. `RouteInv` adds, while
`faults = 0`, who owns what: a key of a map has been given out and an identifier
belongs to who has it (`KeysGivenOut`), entities are found, and an address carries
an identifier of the port's node, though it may be an old one (`TopicsOwned`).
`TopicsOwned` is what turns `AddressKnown` into `WritesAreRouted`: who has the
address of a port has its label and its node. `EntitiesAreFound` follows as well.
`NodeGraph` takes the name of a channel for a pair of label and identifier. `NamesAreRead`
justifies that: it is about `Proquint` (`ProquintAssumption`: the separator is no letter) and
states `RoundTrip` for every identifier. `NameInv` says which digits are in each local
variable at each character: twelve places, and at each the digits before it (`DigitsBefore`).
That the table and the switch are inverse comes from the letters being different.

`MPMCQueueProofs` (`MPMCQueueAssumption`: two cells or more). `Inv` says of each
cell which position its sequence number belongs to, and of each thread that the
position it holds is not ahead of the queue's; a cell that has been claimed
is told apart from the same cell a round later by the position, and two positions
in one cell differ by a multiple of `QueueSize` (lemmas on the modulo).
`TypeCorrect` and `DataHasOneOwner` follow. `Implementation` is the refinement of
`BoundedQueue`: it needs in addition that what lies in a cell is what was pushed at
its position (`Contents`) and the bound on pushes (`Budget`).

`ChannelProofs` (`PoolAssumption`, `ChannelAssumption`). `IInv` adds to types that an item is
in one stream, one job's hands or delivered (`ItemsOnce`), that a job with an item or
in the middle of a look is running (`JobsPlaced`), and the balance itself
(`Accounting`), which is inductive with them: each step moves one unit from one term
of a receiver's sum to another. `TypeCorrect` and `AccountIsKept` follow.

`ImplicitProducerProofs` (`ImplicitProducerAssumption`, `FreeListAssumption`); the
definitions its invariants consist of are in `ImplicitProducerInvariants`.
`TicketsKept` is the argument that the comment in `ExplicitProducer::dequeue`
("rationale and explanation") gives in prose: a count is drawn once and decided once
(`Drawn`), each decision reaches its counter (`Counted`), the overcommit a
dequeue has read comes from counts older than the one it drew (`Older`), and who
went on had seen enough elements for all older ones that went on (`Enough`).
`NothingOverdrawn` follows.

Its second argument is about the blocks. `BlockInv` is inductive together with
`NothingOverdrawn`, and has three layers, which need each other:
- the free list (`Placed`). Every block has a kind (unused, in an entry, held, being
  linked, on the list, popped, left for its last holder to link) and an owner;
  `freeListRefs` is the weight of the kind plus the threads inside `try_get` that
  count themselves in the block (`Weighed`). This is what defeats ABA: whoever is about
  to swing the head is counted, so the block cannot have been relinked, and
  the `next` it has read is still the block's. That the flag is above every such sum
  is the assumption on `SHOULD_BE_ON_FREELIST` (2^31 in the code: fewer threads than
  that).
- the rings (`RingInv`). From a block to the tail of the current ring the keys are in order
  (`Home`); the entry a writer fills is the one after the tail and holds no block
  (`Picked`); an entry has a block only where the ring says so (`HeldHome`).
- the readers. A block stays in the ring while it has indices to give out or readers
  on the way (`Live`); the elements taken from it and the readers on the way add up to the
  indices given out (`Account`), so that the reader that counts the last
  element is the only one left (`Alone`); and a tail read from a ring that has been replaced
  or moved on still leads, by the difference of keys, to the reader's block (`Leads`,
  `ReaderOK`).

`TypeCorrect`, `EntriesFound` and `BlocksApart` follow. The last two are the
properties `EntryFound` and `BlockInOnePlace`. `OnList` is the least set that holds
the head and is closed under `freeListNext`, so what the proof shows to be closed contains it.

Its third argument is the refinement of `WriterStreams` (`Implementation`, the property
`ImplementsStreams`). A stream is what the tail has published and no reader has drawn
(`Untaken`); a dequeue has in `span` what it found there and whom it met (`Call`). Two
invariants are needed on top of `BlockInv`:
- `SlotInv` (`SlotsKept`): an element is in the slot of its index, unchanged, from before the
  tail is stored until the one reader that drew the index moves it out; a block
  given to a writer has no slot that anybody still reads.
- `CallInv` (`CallsKept`): every count drawn is decided or in the hands of the one dequeue
  about to decide it (`Exact`). For each dequeue, the counts drawn less the
  overcommit it has read are at most the elements gone when it began and the dequeues it
  overlapped (`MissKept`, `Reckoned`). A miss, which has seen no tail beyond the former,
  is then one that the abstract queue allows.

`Publish` is then `Enqueue`, `DequeueStart` is `Begin`, `Claim` is `Take`, giving up (at the
first look, or with `AddOvercommit`) is `Miss`, the last step of a dequeue that has an element
is `Return`; every other step leaves the streams as they are.

`ProducerHashProofs` (`ProducerHashAssumption`: finitely many threads, capacities that
are not 0; neither that they double nor how a slot follows from a hash is used). `IInv`:
an entry lies on a path without a gap from its thread's hash, and is its thread's only
one in the table (`Entries`); a thread that searches has no entry in the tables it has left,
and one that draws a count has none at all (`ThreadOK`); only one thread has the flag,
and for it the current table stays (`Flagged`); who is behind is no larger (`Chain`). For
`RoomKept`, counts are the point: the thread of an entry has a count smaller than the
capacity, and for no `n` do more than `n` threads have counts up to `n` (`Counts`),
which survives that a count is given back while later ones are out. A full table would
put as many threads as it has slots below its capacity. `OneProducer` follows with `NotAnywhere`:
a search that ended has shown that there is nothing.

`UVLoopProofs` (`UVLoopAssumption`). `TypeCorrect` contains that waiting jobs and the
cells of incomplete pops fit in the queue together (`QueueTyped`): a claim moves one cell from the
former to the latter, a push needs `Room` beside every pop. While a kind of
callback is not in `overlapped`,
one worker at most runs it (`Alone`), and the counter that worker has read is still
the counter (`Fresh`); a worker in a pop or a callback has a job
(`IdleAtBegin`). `Counted` is inductive with these: a value is followed (`Followed`)
until the callback has overlapped.

Every invariant and every safety property of the passing runs is thus a theorem. Only
model-checked is all liveness (`AcceptedRuns`, `DestructorReturns`, `ImplementsTaskPool`,
of which `SafeTaskPool` is the proved part, `CallsReturn`, `UnsubscribeReturns`, `Delivery`,
`Drained`, `LoopEnds`, `KeepsTicking`): fairness and ENABLED are beyond the proof system. So
is induction over data. The models need none: `RoundTrip` is about words of fixed length.

## Not modelled

- `~Mew` (empty; the runtime lives as long as the program in all examples),
  moving pools and queues (unused), opening a channel while others write to one
  (a `std::map` without a lock: anything may happen), the typed `channel_open`
  (it does not compile when instantiated), weak memory, outcomes of the cast in
  `UVAsync::periodic` other than the call that was meant (see `Channel`).
- Of moodycamel's queue: explicit producers, tokens, bulk operations and the blocking
  variant, none of which anything calls; moves, swaps and the destructor.
- The server: it is constructed and never started, and its handlers forward to
  what `NodeGraph` models. The legacy runtime, the work-stealing queues and
  `UDPTransmitter`: no code path reaches them.
- Vendored code that has no part in the program's behaviour: three copies of
  Remotery (a profiler), loguru, libcuckoo, cppbackports, safe_ptr. Together with
  the unused parts above they are most of the lines in the tree; of the lines of
  the runtime itself the models cover those that change state.
- `values`, node names and full paths, printing: data without an order of events.

## Plan

1. `Parameters`: `setParameter`, `declare_parameter` with its types, and the tick
   timer of a node, which reads them; a subscription per parameter port over
   `PubSub`'s topics.
2. `UVLoop` as a refinement of the pool's contract with recycled names; several
   sockets and timers.
3. Proofs: that the queue steps of `Channel` are steps of `WriterStreams`, so that the two
   meet in a refinement and not by their definitions alone; what 1 and 2 state.
