------------------------------- MODULE TaskPool -------------------------------
(***************************************************************************)
(* What the runtime relies on when it hands a job to its scheduler         *)
(* (JobScheduler::schedule, implemented by TPScheduler over                *)
(* tp::ThreadPool): a job is accepted or refused once and for all; an      *)
(* accepted job is started at most once, on one of NWorkers threads, and   *)
(* is started for certain unless the pool is being destroyed or two tasks  *)
(* never return.  Which worker runs it, and in which order, is not part of *)
(* the promise.                                                            *)
(*                                                                         *)
(* ThreadPool implements this module; PubSub and Channel are built on it.  *)
(***************************************************************************)
EXTENDS Naturals, FiniteSets

CONSTANTS
  Tasks,      \* the closures that may be posted, each posted at most once
  NWorkers,   \* number of worker threads
  QueueSize,  \* number of cells of the queue of one worker
  Endless     \* those of the closures that need not return

ASSUME PoolAssumption ==
  /\ NWorkers \in Nat \ {0}
  /\ QueueSize \in Nat \ {0}
  /\ Endless \subseteq Tasks

VARIABLES
  pending,    \* accepted, not started yet
  executing,  \* being run by a worker
  finished,   \* their handler returned or threw
  refused,    \* tryPost returned false
  closed      \* the destructor of the pool has begun

poolVars == <<pending, executing, finished, refused, closed>>

Submitted == pending \cup executing \cup finished \cup refused

Accepted == pending \cup executing \cup finished

(* A cell is free again only when the task it held has left it and every   *)
(* earlier cell has been used: a refusal is a sign that QueueSize tasks     *)
(* have been accepted and that one of them is not done.  It is not a sign  *)
(* that QueueSize tasks are pending.                                       *)
Accept(k) ==
  /\ k \in Tasks \ Submitted
  /\ Cardinality(pending) < NWorkers * QueueSize
  /\ pending' = pending \cup {k}
  /\ UNCHANGED <<executing, finished, refused, closed>>

Refuse(k) ==
  /\ k \in Tasks \ Submitted
  /\ Cardinality(Accepted) >= QueueSize
  /\ pending \cup executing # {}
  /\ refused' = refused \cup {k}
  /\ UNCHANGED <<pending, executing, finished, closed>>

Start(k) ==
  /\ k \in pending
  /\ Cardinality(executing) < NWorkers
  /\ pending' = pending \ {k}
  /\ executing' = executing \cup {k}
  /\ UNCHANGED <<finished, refused, closed>>

Finish(k) ==
  /\ k \in executing
  /\ executing' = executing \ {k}
  /\ finished' = finished \cup {k}
  /\ UNCHANGED <<pending, refused, closed>>

Close ==
  /\ ~closed
  /\ closed' = TRUE
  /\ UNCHANGED <<pending, executing, finished, refused>>

PoolInit ==
  /\ pending = {} /\ executing = {} /\ finished = {} /\ refused = {}
  /\ closed = FALSE

PoolNext ==
  \/ \E k \in Tasks : Accept(k) \/ Refuse(k) \/ Start(k) \/ Finish(k)
  \/ Close

PoolSpec == PoolInit /\ [][PoolNext]_poolVars

(* How many threads take from one queue: its owner and one thief.          *)
Takers == IF NWorkers = 1 THEN 1 ELSE 2

(* The promise of progress: as long as the pool is open a pending task is  *)
(* not overlooked for ever while a worker is free, unless as many threads  *)
(* as take from one queue are held by tasks that need not return: the task *)
(* may be in that queue, and then the other workers do not see it.         *)
PoolFairness ==
  \A k \in Tasks :
    /\ WF_poolVars(/\ ~closed /\ Cardinality(executing \cap Endless) < Takers
                   /\ Start(k))
    /\ k \notin Endless => WF_poolVars(Finish(k))

FairPoolSpec == PoolSpec /\ PoolFairness
===============================================================================
