------------------------------ MODULE ThreadPool ------------------------------
(***************************************************************************)
(* tp::ThreadPoolImpl and tp::Worker (lib/include/thread_pool): N worker   *)
(* threads, each with a bounded queue of its own.  A thread of the pool    *)
(* posts to its own queue, any other thread posts round-robin.  A worker   *)
(* runs the tasks of its queue and, when that is empty, those of the next  *)
(* worker's.  The destructor stops and joins the workers one by one and    *)
(* drops what is still queued.                                             *)
(*                                                                         *)
(* push and pop of a queue are two steps each, as BoundedQueue has them: a *)
(* cell is claimed, then it is written and handed over.  MPMCQueue shows   *)
(* that MPMCBoundedQueue behaves so.                                       *)
(***************************************************************************)
EXTENDS Integers, Sequences, FiniteSets

CONSTANTS
  NWorkers,   \* ThreadPoolOptions::threadCount()
  QueueSize,  \* ThreadPoolOptions::queueSize()
  Clients,    \* threads outside the pool that post to it
  Tasks,      \* closures handed to tryPost, each one once
  Endless,    \* those of them that need not return: unsubscribe waits in some
  NoTask,     \* the empty FixedFunction
  NoWorker    \* no call of tryPost is under way

Worker == 0 .. NWorkers - 1

ASSUME ThreadPoolAssumption ==
  /\ NWorkers \in Nat \ {0}
  /\ QueueSize \in Nat \ {0}
  /\ Endless \subseteq Tasks
  /\ Clients \cap Worker = {}
  /\ NoTask \notin Tasks
  /\ NoWorker \notin Worker

VARIABLES
  pushed,       \* what each m_queue has accepted, in the order of its cells
  m_dequeue_pos,\* how many of those tasks have been claimed by a pop
  posting,      \* the task a thread has claimed a cell for and not yet stored
  m_next_worker,\* only its value modulo the number of workers is ever used
  target,       \* the worker getWorker gave to a client, until tryPost returns
  m_running_flag,
  pc,           \* where threadFunc of each worker is
  handler,      \* local variable of threadFunc: the last task taken
  dtor,         \* "alive", "stopping" in the destructor's loop, "destroyed"
  joining,      \* the worker the destructor's loop is stopping
  finished,     \* history: tasks whose handler has returned or thrown
  refused       \* history: tasks for which tryPost returned false

queueVars == <<pushed, m_dequeue_pos, posting>>
callVars == <<m_next_worker, target>>
workerVars == <<m_running_flag, pc, handler>>
poolVars == <<dtor, joining>>
vars == <<queueVars, callVars, workerVars, poolVars, finished, refused>>

Threads == Clients \cup Worker

PC == {"check", "pop", "steal", "release", "run", "exited"}

HasTask == {"release", "run"}

TypeOK ==
  /\ pushed \in [Worker -> Seq(Tasks)]
  /\ m_dequeue_pos \in [Worker -> Nat]
  /\ posting \in [Threads -> Tasks \cup {NoTask}]
  /\ m_next_worker \in Worker
  /\ target \in [Clients -> Worker \cup {NoWorker}]
  /\ m_running_flag \in [Worker -> BOOLEAN]
  /\ pc \in [Worker -> PC]
  /\ handler \in [Worker -> Tasks \cup {NoTask}]
  /\ \A w \in Worker : pc[w] \in HasTask => handler[w] \in Tasks
  /\ dtor \in {"alive", "stopping", "destroyed"}
  /\ joining \in 0 .. NWorkers
  /\ finished \in SUBSET Tasks
  /\ refused \in SUBSET Tasks

(* Where the tasks are.                                                    *)
Queued(w) == {pushed[w][i] : i \in m_dequeue_pos[w] + 1 .. Len(pushed[w])}
Pending == UNION {Queued(w) : w \in Worker}
Executing == {handler[w] : w \in {v \in Worker : pc[v] \in HasTask}}
Fresh == Tasks \ (Pending \cup Executing \cup finished \cup refused)

-------------------------------------------------------------------------------
Init ==
  /\ pushed = [w \in Worker |-> <<>>]
  /\ m_dequeue_pos = [w \in Worker |-> 0]
  /\ posting = [t \in Threads |-> NoTask]
  /\ m_next_worker = 0
  /\ target = [c \in Clients |-> NoWorker]
  /\ m_running_flag = [w \in Worker |-> TRUE]
  /\ pc = [w \in Worker |-> "check"]
  /\ handler = [w \in Worker |-> NoTask]
  /\ dtor = "alive"
  /\ joining = 0
  /\ finished = {}
  /\ refused = {}

(* detail::thread_id(): -1u, larger than any number of workers, in a       *)
(* thread the pool did not start.                                          *)
ThreadId(t) == IF t \in Worker THEN t ELSE NWorkers + 1

(* Mutant: the counter is used without the modulo.                         *)
GetWorkerNoModulo(t) ==
  /\ ThreadId(t) > NWorkers
  /\ dtor = "alive" /\ target[t] = NoWorker
  /\ target' = [target EXCEPT ![t] = m_next_worker]
  /\ m_next_worker' = (m_next_worker + 1) % (NWorkers + 1)
  /\ UNCHANGED <<queueVars, workerVars, poolVars, finished, refused>>

(* getWorker by a thread outside the pool: fetch_add on the counter.  A    *)
(* thread of the pool touches no shared state to find its queue.  A client *)
(* may not call once the destructor has begun, nor destroy the pool before *)
(* every call has returned.                                                *)
GetWorker(t) ==
  /\ ThreadId(t) > NWorkers
  /\ dtor = "alive" /\ target[t] = NoWorker
  /\ target' = [target EXCEPT ![t] = m_next_worker]
  /\ m_next_worker' = (m_next_worker + 1) % NWorkers
  /\ UNCHANGED <<queueVars, workerVars, poolVars, finished, refused>>

(* Thread t is about to push to the queue of w.                            *)
PostsTo(t, w) ==
  /\ posting[t] = NoTask
  /\ \/ t \in Clients /\ target[t] = w
     \/ t \in Worker /\ t = w /\ pc[t] = "run"

(* The cell the next push wants still belongs to the task pushed QueueSize *)
(* cells before: it has not been claimed, or its pop has not released it.  *)
Releasing == {handler[v] : v \in {u \in Worker : pc[u] = "release"}}

(* Mutant: the queue is full with one cell left.                           *)
FullTooSoon(w) ==
  LET last == Len(pushed[w]) IN
  last >= QueueSize - 1 /\ pushed[w][last - QueueSize + 2] \in Pending \cup Releasing

Full(w) ==
  LET last == Len(pushed[w]) IN
  last >= QueueSize /\ pushed[w][last - QueueSize + 1] \in Pending \cup Releasing

(* push claims the cell ...                                                *)
PostAccepted(t, w, k) ==
  /\ PostsTo(t, w)
  /\ k \in Fresh
  /\ ~Full(w)
  /\ pushed' = [pushed EXCEPT ![w] = Append(@, k)]
  /\ posting' = [posting EXCEPT ![t] = k]
  /\ UNCHANGED <<m_dequeue_pos, callVars, workerVars, poolVars, finished, refused>>

PostReturns(t) ==
  target' = IF t \in Clients THEN [target EXCEPT ![t] = NoWorker] ELSE target

(* ... stores the task in it and hands it over to pop.                     *)
PostStored(t) ==
  /\ posting[t] # NoTask
  /\ posting' = [posting EXCEPT ![t] = NoTask]
  /\ PostReturns(t)
  /\ UNCHANGED <<pushed, m_dequeue_pos, m_next_worker, workerVars, poolVars,
                 finished, refused>>

PostRefused(t, w, k) ==
  /\ PostsTo(t, w)
  /\ k \in Fresh
  /\ Full(w)
  /\ refused' = refused \cup {k}
  /\ PostReturns(t)
  /\ UNCHANGED <<queueVars, m_next_worker, workerVars, poolVars, finished>>

-------------------------------------------------------------------------------
(* threadFunc.                                                             *)

(* Mutant: the flag is not looked at.                                      *)
CheckNothing(w) ==
  /\ pc[w] = "check"
  /\ pc' = [pc EXCEPT ![w] = "pop"]
  /\ UNCHANGED <<queueVars, callVars, m_running_flag, handler, poolVars,
                 finished, refused>>

CheckRunning(w) ==
  /\ pc[w] = "check"
  /\ pc' = [pc EXCEPT ![w] = IF m_running_flag[w] THEN "pop" ELSE "exited"]
  /\ UNCHANGED <<queueVars, callVars, m_running_flag, handler, poolVars,
                 finished, refused>>

Donor(w) == (w + 1) % NWorkers

(* pop finds a task only when the first unclaimed cell has been written:   *)
(* a slow push hides the tasks behind it.                                  *)
Ready(v) ==
  /\ m_dequeue_pos[v] < Len(pushed[v])
  /\ \A t \in Threads : posting[t] # pushed[v][m_dequeue_pos[v] + 1]

(* Mutant: the task is read, its cell is not claimed.                      *)
TakeCopy(w, v) ==
  /\ Ready(v)
  /\ handler' = [handler EXCEPT ![w] = pushed[v][m_dequeue_pos[v] + 1]]
  /\ pc' = [pc EXCEPT ![w] = "release"]
  /\ UNCHANGED <<queueVars, callVars, m_running_flag, poolVars, finished, refused>>

(* Worker w claims the first cell of the queue of worker v ...             *)
Take(w, v) ==
  /\ Ready(v)
  /\ handler' = [handler EXCEPT ![w] = pushed[v][m_dequeue_pos[v] + 1]]
  /\ m_dequeue_pos' = [m_dequeue_pos EXCEPT ![v] = @ + 1]
  /\ pc' = [pc EXCEPT ![w] = "release"]
  /\ UNCHANGED <<pushed, posting, callVars, m_running_flag, poolVars, finished,
                 refused>>

Pop(w) ==
  /\ pc[w] = "pop"
  /\ Take(w, w)

PopNothing(w) ==
  /\ pc[w] = "pop"
  /\ ~Ready(w)
  /\ pc' = [pc EXCEPT ![w] = "steal"]
  /\ UNCHANGED <<queueVars, callVars, m_running_flag, handler, poolVars,
                 finished, refused>>

Steal(w) ==
  /\ pc[w] = "steal"
  /\ Take(w, Donor(w))

(* Nothing to steal: sleep for a millisecond, then look at the flag again. *)
StealNothing(w) ==
  /\ pc[w] = "steal"
  /\ ~Ready(Donor(w))
  /\ pc' = [pc EXCEPT ![w] = "check"]
  /\ UNCHANGED <<queueVars, callVars, m_running_flag, handler, poolVars,
                 finished, refused>>

(* Mutant: the task is taken out and never called.                         *)
ReleaseOnly(w) ==
  /\ pc[w] = "release"
  /\ pc' = [pc EXCEPT ![w] = "check"]
  /\ UNCHANGED <<queueVars, callVars, m_running_flag, handler, poolVars,
                 finished, refused>>

(* ... moves the task out of it, gives the cell back and calls the task.   *)
Release(w) ==
  /\ pc[w] = "release"
  /\ pc' = [pc EXCEPT ![w] = "run"]
  /\ UNCHANGED <<queueVars, callVars, m_running_flag, handler, poolVars,
                 finished, refused>>

(* Mutant: an exception of the handler ends the thread.                    *)
EndHandlerUncaught(w) ==
  /\ pc[w] = "run" /\ posting[w] = NoTask
  /\ finished' = finished \cup {handler[w]}
  /\ pc' = [pc EXCEPT ![w] = "exited"]
  /\ UNCHANGED <<queueVars, callVars, m_running_flag, handler, poolVars, refused>>

(* The handler returns, or throws: catch(...) drops the exception.         *)
EndHandler(w) ==
  /\ pc[w] = "run" /\ posting[w] = NoTask
  /\ finished' = finished \cup {handler[w]}
  /\ pc' = [pc EXCEPT ![w] = "check"]
  /\ UNCHANGED <<queueVars, callVars, m_running_flag, handler, poolVars, refused>>

WorkerStep(w) ==
  \/ CheckRunning(w) \/ Pop(w) \/ PopNothing(w) \/ Steal(w) \/ StealNothing(w)
  \/ Release(w) \/ EndHandler(w)

-------------------------------------------------------------------------------
(* ~ThreadPoolImpl: stop() of each worker in turn clears its flag, then    *)
(* joins its thread; the workers and their queues are freed after the loop.*)

BeginDestructor ==
  /\ dtor = "alive" /\ \A c \in Clients : target[c] = NoWorker
  /\ dtor' = "stopping"
  /\ UNCHANGED <<queueVars, callVars, workerVars, joining, finished, refused>>

StopWorker ==
  /\ dtor = "stopping" /\ joining < NWorkers
  /\ m_running_flag[joining]
  /\ m_running_flag' = [m_running_flag EXCEPT ![joining] = FALSE]
  /\ UNCHANGED <<queueVars, callVars, pc, handler, poolVars, finished, refused>>

(* Mutant: stop() clears the flag and does not join.                       *)
JoinNothing ==
  /\ dtor = "stopping" /\ joining < NWorkers
  /\ ~m_running_flag[joining]
  /\ joining' = joining + 1
  /\ UNCHANGED <<queueVars, callVars, workerVars, dtor, finished, refused>>

JoinWorker ==
  /\ dtor = "stopping" /\ joining < NWorkers
  /\ ~m_running_flag[joining] /\ pc[joining] = "exited"
  /\ joining' = joining + 1
  /\ UNCHANGED <<queueVars, callVars, workerVars, dtor, finished, refused>>

FreeWorkers ==
  /\ dtor = "stopping" /\ joining = NWorkers
  /\ dtor' = "destroyed"
  /\ UNCHANGED <<queueVars, callVars, workerVars, joining, finished, refused>>

Destructor == StopWorker \/ JoinWorker \/ FreeWorkers

-------------------------------------------------------------------------------
Next ==
  \/ \E c \in Clients : GetWorker(c)
  \/ \E t \in Threads, w \in Worker, k \in Tasks :
        PostAccepted(t, w, k) \/ PostRefused(t, w, k)
  \/ \E t \in Threads : PostStored(t)
  \/ \E w \in Worker : WorkerStep(w)
  \/ BeginDestructor
  \/ Destructor

Spec == Init /\ [][Next]_vars

(* A worker in a handler that need not return.                             *)
Held(w) == pc[w] = "run" /\ handler[w] \in Endless

(* The operating system runs every thread; a handler returns, unless it is *)
(* Endless.  Nothing obliges a client to post or to destroy the pool.      *)
Fairness ==
  /\ \A w \in Worker : WF_vars(~Held(w) /\ WorkerStep(w))
  /\ \A t \in Threads : WF_vars(PostStored(t))
  /\ WF_vars(Destructor)

FairSpec == Spec /\ Fairness

-------------------------------------------------------------------------------
(* A task is in one place: once in one cell of one queue, or taken out of  *)
(* it and in the hands of one worker or done, or refused; none is lost     *)
(* (worker.hpp: own pops and a sibling's steals compete with posts for the *)
(* same queue).                                                            *)
QueuesDistinct ==
  \A v, w \in Worker : \A i \in 1 .. Len(pushed[v]), j \in 1 .. Len(pushed[w]) :
    pushed[v][i] = pushed[w][j] => v = w /\ i = j

RunnersDistinct ==
  \A v, w \in Worker :
    pc[v] \in HasTask /\ pc[w] \in HasTask /\ handler[v] = handler[w] => v = w

PlacesDisjoint ==
  /\ Pending \cap (Executing \cup finished \cup refused) = {}
  /\ Executing \cap (finished \cup refused) = {}
  /\ finished \cap refused = {}

TakenFrom(w) == {pushed[w][i] : i \in 1 .. m_dequeue_pos[w]}
Taken == UNION {TakenFrom(w) : w \in Worker}

TakenOnce == Taken = Executing \cup finished

ExclusiveTask ==
  QueuesDistinct /\ RunnersDistinct /\ PlacesDisjoint /\ TakenOnce

(* The workers and their queues are freed only when no thread of the pool  *)
(* can touch them any more: a thief reads its donor's queue (thread_pool   *)
(* .hpp: ~ThreadPoolImpl joins every worker before the first is freed).    *)
NoThreadAfterFree ==
  dtor = "destroyed" => \A w \in Worker : pc[w] = "exited"

(* What is further needed for an inductive invariant.                      *)
QueuesBounded ==
  \A w \in Worker : /\ m_dequeue_pos[w] <= Len(pushed[w])
                    /\ Len(pushed[w]) - m_dequeue_pos[w] <= QueueSize

JoinedExited ==
  /\ \A w \in Worker : w < joining => pc[w] = "exited"
  /\ dtor = "destroyed" => joining = NWorkers

Inv ==
  /\ TypeOK
  /\ QueuesDistinct
  /\ RunnersDistinct
  /\ PlacesDisjoint
  /\ QueuesBounded
  /\ TakenOnce
  /\ JoinedExited

(* An accepted task is run, unless the destructor begins first             *)
(* (worker.hpp: threadFunc; the docs promise no more than acceptance), or  *)
(* the owner of its queue and the thief (thread_pool.hpp: steal_donor) are *)
(* both held for ever.                                                     *)
AcceptedRuns ==
  \A w \in Worker, k \in Tasks :
    \/ k \in Queued(w) ~> (k \in Executing \cup finished \/ dtor # "alive")
    \/ <>[](\A v \in Worker : w \in {v, Donor(v)} => Held(v))

(* The destructor returns as long as handlers do: the joins wait for       *)
(* workers that may still be stealing from one another.                    *)
DestructorReturns ==
  dtor = "stopping" ~> (dtor = "destroyed" \/ \E w \in Worker : Held(w))

Abstract == INSTANCE TaskPool WITH
  pending <- Pending, executing <- Executing, finished <- finished,
  refused <- refused, closed <- dtor # "alive"

(* The pool keeps the promise of TaskPool: its safety ...                  *)
SafeTaskPool == Abstract!PoolSpec

(* ... and its progress.                                                   *)
ImplementsTaskPool == Abstract!FairPoolSpec
===============================================================================
