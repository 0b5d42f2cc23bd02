-------------------------------- MODULE PubSub --------------------------------
(***************************************************************************)
(* Publish/subscribe in mew::Mew (lib/include/mew.h, lib/src/mew.cc) over   *)
(* the task pool.  A topic has a vector of subscriptions; publish makes one *)
(* job per subscription, counts it in jobCpt and hands it to the scheduler; *)
(* the job runs the callback and counts itself out; unsubscribe takes the   *)
(* subscription out of the vector, waits for jobCpt = 0 and deletes it.     *)
(*                                                                         *)
(* Each of the three calls begins with                                     *)
(*     std::unique_lock< std::mutex >( _subRegistryMtx );                   *)
(* which declares a new, empty unique_lock that happens to be called       *)
(* _subRegistryMtx: nothing is locked.  Every step of the calls therefore  *)
(* interleaves with every other.  Serialised says that the callers keep a  *)
(* change of the registry apart from any other access to it by themselves. *)
(*                                                                         *)
(* A thread is a client (the main thread, a thread of the application) or  *)
(* a worker running a job, named by its job; a callback makes at most one  *)
(* call.  The runtime outlives every thread: ~Mew is not modelled.         *)
(***************************************************************************)
EXTENDS TaskPool, Sequences, SequencesExt

CONSTANTS
  Subs,        \* SubscriptionReference objects
  Topics,
  Clients,     \* threads outside the pool
  Publishing,  \* subscriptions whose callback may publish
  Registering, \* subscriptions whose callback may subscribe or unsubscribe
  MayThrow,    \* subscriptions whose callback may throw
  Serialised,
  NoSub, NoTopic, NoJob

ASSUME PubSubAssumption ==
  /\ Publishing \subseteq Subs /\ Registering \subseteq Subs
  /\ MayThrow \subseteq Subs
  /\ Serialised \in BOOLEAN
  /\ Clients \cap Tasks = {}
  /\ NoSub \notin Subs /\ NoTopic \notin Topics /\ NoJob \notin Tasks
  /\ IsFiniteSet(Tasks)

VARIABLES
  vec,       \* _subscriptions: the vector of each topic
  home,      \* the topic a subscription was made for, NoTopic before
  deleted,   \* subscriptions unsubscribe has deleted
  jobCpt,    \* the atomic counter of each subscription
  jobSub,    \* the subscription a job was made for, NoSub before
  released,  \* jobs that have executed jobCpt--
  call       \* the call each thread is in

pubVars == <<vec, home, deleted, jobCpt, jobSub, released, call>>
vars == <<poolVars, pubVars>>

Threads == Clients \cup Tasks

At == {"idle", "next", "count", "post", "insert", "erase", "wait", "returned"}

Call == [at : At, topic : Topics \cup {NoTopic}, sub : Subs \cup {NoSub},
         i : Nat, end : Nat, job : Tasks \cup {NoJob}, seen : Seq(Subs)]

InCall(at, p, s, i, end, seen) ==
  [at |-> at, topic |-> p, sub |-> s, i |-> i, end |-> end, job |-> NoJob,
   seen |-> seen]

NoCall(at) == InCall(at, NoTopic, NoSub, 0, 0, <<>>)

TypeOK ==
  /\ pending \in SUBSET Tasks /\ executing \in SUBSET Tasks
  /\ finished \in SUBSET Tasks /\ refused \in SUBSET Tasks
  /\ closed = FALSE
  /\ vec \in [Topics -> Seq(Subs)]
  /\ home \in [Subs -> Topics \cup {NoTopic}]
  /\ deleted \in SUBSET Subs
  /\ jobCpt \in [Subs -> Nat]
  /\ jobSub \in [Tasks -> Subs \cup {NoSub}]
  /\ released \in SUBSET Tasks
  /\ call \in [Threads -> Call]

-------------------------------------------------------------------------------
Init ==
  /\ PoolInit
  /\ vec = [p \in Topics |-> <<>>]
  /\ home = [s \in Subs |-> NoTopic]
  /\ deleted = {}
  /\ jobCpt = [s \in Subs |-> 0]
  /\ jobSub = [k \in Tasks |-> NoSub]
  /\ released = {}
  /\ call = [t \in Threads |-> NoCall("idle")]

(* Threads inside publish's loop, and inside a change of the registry.     *)
Iterating == {t \in Threads : call[t].at \in {"next", "count", "post"}}
Changing == {t \in Threads : call[t].at \in {"insert", "erase"}}

MayRead == Serialised => Changing = {}
MayChange == Serialised => Changing = {} /\ Iterating = {}

InCallback(k) == k \in executing \ released

(* Thread t may begin a call; a callback needs the permission.             *)
Free(t, permitted) ==
  /\ call[t].at = "idle"
  /\ t \in Tasks => InCallback(t) /\ jobSub[t] \in permitted

Return(t) ==
  call' = [call EXCEPT ![t] =
             NoCall(IF t \in Clients THEN "idle" ELSE "returned")]

Unused == {k \in Tasks : jobSub[k] = NoSub}

(* Bound of the model: a publish begins only while there are job names for *)
(* it and for every publish under way.                                     *)
JobsLeft == Cardinality(Subs) * (Cardinality(Iterating) + 1) <= Cardinality(Unused)

-------------------------------------------------------------------------------
(* publish: one job for each element between the begin and the end that    *)
(* the range-for loop has read first.                                      *)

PublishBegin(t, p) ==
  /\ Free(t, Publishing) /\ JobsLeft
  /\ MayRead
  /\ call' = [call EXCEPT ![t] =
                InCall("next", p, NoSub, 1, Len(vec[p]), <<>>)]
  /\ UNCHANGED <<poolVars, vec, home, deleted, jobCpt, jobSub, released>>

(* What the loop may read at position i.  The position can be past the end *)
(* when the vector has shrunk under the loop: it still holds one of the    *)
(* pointers that were ever stored there.                                   *)
Slot(p, i) ==
  IF i \in 1 .. Len(vec[p]) THEN {vec[p][i]} ELSE {s \in Subs : home[s] = p}

PublishNext(t) ==
  /\ call[t].at = "next" /\ call[t].i <= call[t].end
  /\ \E s \in Slot(call[t].topic, call[t].i) :
       call' = [call EXCEPT ![t].at = "count", ![t].sub = s]
  /\ UNCHANGED <<poolVars, vec, home, deleted, jobCpt, jobSub, released>>

(* Mutant: the job is not counted.                                         *)
PublishUncounted(t) ==
  LET s == call[t].sub
      k == CHOOSE j \in Unused : TRUE IN
  /\ call[t].at = "count" /\ Unused # {}
  /\ jobSub' = [jobSub EXCEPT ![k] = s]
  /\ call' = [call EXCEPT ![t].at = "post", ![t].job = k]
  /\ UNCHANGED <<poolVars, vec, home, deleted, jobCpt, released>>

(* sref->jobCpt++, and the job that will hold sref.                        *)
PublishCount(t) ==
  LET s == call[t].sub
      k == CHOOSE j \in Unused : TRUE IN
  /\ call[t].at = "count" /\ Unused # {}
  /\ jobCpt' = [jobCpt EXCEPT ![s] = @ + 1]
  /\ jobSub' = [jobSub EXCEPT ![k] = s]
  /\ call' = [call EXCEPT ![t].at = "post", ![t].job = k]
  /\ UNCHANGED <<poolVars, vec, home, deleted, released>>

(* schedule(j): publish does not look at the result.                       *)
PublishPost(t) ==
  LET k == call[t].job IN
  /\ call[t].at = "post"
  /\ Accept(k) \/ Refuse(k)
  /\ call' = [call EXCEPT ![t].at = "next", ![t].i = @ + 1, ![t].sub = NoSub,
                          ![t].job = NoJob]
  /\ UNCHANGED <<vec, home, deleted, jobCpt, jobSub, released>>

PublishEnd(t) ==
  /\ call[t].at = "next" /\ call[t].i > call[t].end
  /\ Return(t)
  /\ UNCHANGED <<poolVars, vec, home, deleted, jobCpt, jobSub, released>>

-------------------------------------------------------------------------------
(* subscribe: push_back reads the vector (its end, its capacity), then     *)
(* writes it; what another thread has done in between is overwritten.      *)

SubscribeBegin(t, s, p) ==
  /\ Free(t, Registering)
  /\ MayChange
  /\ home[s] = NoTopic
  /\ home' = [home EXCEPT ![s] = p]
  /\ call' = [call EXCEPT ![t] = InCall("insert", p, s, 0, 0, vec[p])]
  /\ UNCHANGED <<poolVars, vec, deleted, jobCpt, jobSub, released>>

SubscribeEnd(t) ==
  /\ call[t].at = "insert"
  /\ vec' = [vec EXCEPT ![call[t].topic] = Append(call[t].seen, call[t].sub)]
  /\ Return(t)
  /\ UNCHANGED <<poolVars, home, deleted, jobCpt, jobSub, released>>

-------------------------------------------------------------------------------
(* unsubscribe, with a pointer that a subscribe has returned.              *)
Returned(s) ==
  home[s] # NoTopic /\ \A t \in Threads : ~ (call[t].at = "insert" /\ call[t].sub = s)

UnsubscribeFound(t, s) ==
  /\ Free(t, Registering) /\ Returned(s)
  /\ MayChange
  /\ \E i \in 1 .. Len(vec[home[s]]) :
       /\ vec[home[s]][i] = s
       /\ call' = [call EXCEPT ![t] = InCall("erase", home[s], s, i, 0, <<>>)]
  /\ UNCHANGED <<poolVars, vec, home, deleted, jobCpt, jobSub, released>>

(* Not in any vector: unsubscribe returns false.                           *)
UnsubscribeUnknown(t, s) ==
  /\ Free(t, Registering) /\ Returned(s)
  /\ MayRead
  /\ s \notin ToSet(vec[home[s]])
  /\ Return(t)
  /\ UNCHANGED <<poolVars, vec, home, deleted, jobCpt, jobSub, released>>

(* Mutant: erase at the begin of the vector.                               *)
UnsubscribeEraseFirst(t) ==
  LET p == call[t].topic IN
  /\ call[t].at = "erase"
  /\ vec' = [vec EXCEPT ![p] = Tail(@)]
  /\ call' = [call EXCEPT ![t].at = "wait"]
  /\ UNCHANGED <<poolVars, home, deleted, jobCpt, jobSub, released>>

(* erase at the position found.  If the vector has shrunk below it since,  *)
(* the last element goes.                                                  *)
UnsubscribeErase(t) ==
  LET p == call[t].topic IN
  /\ call[t].at = "erase"
  /\ vec' = [vec EXCEPT ![p] = IF call[t].i <= Len(@)
                                 THEN RemoveAt(@, call[t].i)
                                 ELSE SubSeq(@, 1, Len(@) - 1)]
  /\ call' = [call EXCEPT ![t].at = "wait"]
  /\ UNCHANGED <<poolVars, home, deleted, jobCpt, jobSub, released>>

(* Mutant: delete without the wait.                                        *)
UnsubscribeDeleteNow(t) ==
  /\ call[t].at = "wait"
  /\ deleted' = deleted \cup {call[t].sub}
  /\ Return(t)
  /\ UNCHANGED <<poolVars, vec, home, jobCpt, jobSub, released>>

(* The wait loop, left when it reads 0.                                    *)
UnsubscribeDelete(t) ==
  /\ call[t].at = "wait"
  /\ jobCpt[call[t].sub] = 0
  /\ deleted' = deleted \cup {call[t].sub}
  /\ Return(t)
  /\ UNCHANGED <<poolVars, vec, home, jobCpt, jobSub, released>>

-------------------------------------------------------------------------------
(* A job: the callback (a value of another type than the callback's is     *)
(* dropped, which is a callback that does nothing), jobCpt--, the end.     *)

JobStart(k) == Start(k) /\ UNCHANGED pubVars

CallbackOver(k) == InCallback(k) /\ call[k].at \in {"idle", "returned"}

(* Mutants: the job does not count itself out, or does it twice.           *)
JobReleaseUncounted(k) ==
  /\ CallbackOver(k)
  /\ released' = released \cup {k}
  /\ UNCHANGED <<poolVars, vec, home, deleted, jobCpt, jobSub, call>>

JobReleaseTwice(k) ==
  /\ CallbackOver(k)
  /\ jobCpt' = [jobCpt EXCEPT ![jobSub[k]] = @ - 2]
  /\ released' = released \cup {k}
  /\ UNCHANGED <<poolVars, vec, home, deleted, jobSub, call>>

JobRelease(k) ==
  /\ CallbackOver(k)
  /\ jobCpt' = [jobCpt EXCEPT ![jobSub[k]] = @ - 1]
  /\ released' = released \cup {k}
  /\ UNCHANGED <<poolVars, vec, home, deleted, jobSub, call>>

JobEnd(k) ==
  /\ k \in released
  /\ Finish(k)
  /\ UNCHANGED pubVars

(* The exception skips jobCpt-- and is dropped by the worker.              *)
JobThrow(k) ==
  /\ CallbackOver(k) /\ jobSub[k] \in MayThrow
  /\ Finish(k)
  /\ UNCHANGED pubVars

-------------------------------------------------------------------------------
CallStep(t) ==
  \/ PublishNext(t) \/ PublishCount(t) \/ PublishPost(t) \/ PublishEnd(t)
  \/ SubscribeEnd(t)
  \/ UnsubscribeErase(t) \/ UnsubscribeDelete(t)

Next ==
  \/ \E t \in Threads :
       \/ \E p \in Topics : PublishBegin(t, p)
       \/ \E s \in Subs, p \in Topics : SubscribeBegin(t, s, p)
       \/ \E s \in Subs : UnsubscribeFound(t, s) \/ UnsubscribeUnknown(t, s)
       \/ CallStep(t)
  \/ \E k \in Tasks : JobStart(k) \/ JobRelease(k) \/ JobEnd(k) \/ JobThrow(k)

Spec == Init /\ [][Next]_vars

(* The callbacks inside unsubscribe's wait loop: each holds a worker.      *)
Waiting == {k \in executing : call[k].at = "wait"}

(* A call that has begun goes on as far as it can, a callback comes to its *)
(* end, and the pool starts pending jobs: that is TaskPool's promise, of   *)
(* which the callbacks that wait for ever are the Endless ones: as soon as *)
(* two wait they may be the owner and the only thief of a queue (thread_   *)
(* pool.hpp: steal_donor), whose jobs then do not start, however many      *)
(* workers are idle.                                                       *)
Fairness ==
  /\ \A c \in Clients : WF_vars(CallStep(c))
  /\ \A k \in Tasks : /\ WF_vars(Cardinality(Waiting) < Takers /\ JobStart(k))
                      /\ WF_vars(CallStep(k) \/ JobRelease(k) \/ JobEnd(k))

FairSpec == Spec /\ Fairness

-------------------------------------------------------------------------------
(* The jobs made for s that have not counted themselves out.               *)
Outstanding(s) == {k \in Tasks : jobSub[k] = s /\ k \notin released}

(* jobCpt is the number of those jobs, whatever the interleaving, and      *)
(* whether or not they are refused or throw (mew.h: publish, the job's     *)
(* lambda).                                                                *)
JobCount == \A s \in Subs : jobCpt[s] = Cardinality(Outstanding(s))

(* Nothing uses a subscription that unsubscribe has deleted: no job still  *)
(* to call it, no publish about to count a job in it, no second            *)
(* unsubscribe waiting on its counter (mew.cc: delete csubref).            *)
SafeReclaim ==
  \A s \in deleted :
    /\ \A k \in (pending \cup executing) \ released : jobSub[k] # s
    /\ \A t \in Threads :
         call[t].sub = s => call[t].at \notin {"count", "post", "wait"}

(* A subscription stays in its topic's vector from the end of subscribe to *)
(* the erase of unsubscribe: overlapping changes lose none.                *)
Leaving(s) == \E t \in Threads : call[t].at = "wait" /\ call[t].sub = s

NoLostSubscription ==
  \A s \in Subs :
    Returned(s) /\ s \notin deleted /\ ~ Leaving(s)
      => s \in ToSet(vec[home[s]])

(* The invariants the proofs of JobCount and of the other two need.        *)
ThreadOK(t) ==
  LET c == call[t] IN
  /\ c.at \in {"next", "count", "post", "insert", "erase"} => c.topic \in Topics
  /\ c.at \in {"count", "post", "insert", "erase", "wait"} => c.sub \in Subs
  /\ c.at = "post" => /\ c.job \in Tasks \ (pending \cup executing \cup released)
                      /\ jobSub[c.job] = c.sub

CallOK == \A t \in Threads : ThreadOK(t)

PostersDistinct ==
  \A t, u \in Threads :
    call[t].at = "post" /\ call[u].at = "post" /\ call[t].job = call[u].job
      => t = u

JobsMade ==
  \A k \in pending \cup executing \cup released : jobSub[k] # NoSub

CountInv == TypeOK /\ CallOK /\ PostersDistinct /\ JobsMade /\ JobCount

(* One change at a time, and none while a publish iterates.                *)
Exclusion ==
  \A t \in Changing, u \in Changing \cup Iterating : t = u

(* What a thread has read of the registry is still true.                   *)
ViewFresh(t) ==
  LET c == call[t] IN
  /\ c.at \in {"next", "count", "post"} => c.i > 0 /\ c.end = Len(vec[c.topic])
  /\ c.at = "count" => c.sub \in ToSet(vec[c.topic])
  /\ c.at = "insert" => /\ c.seen = vec[c.topic]
                        /\ home[c.sub] = c.topic
                        /\ c.sub \notin ToSet(vec[c.topic])
                        /\ c.sub \notin deleted /\ ~ Leaving(c.sub)
  /\ c.at = "erase" => /\ c.i \in 1 .. Len(vec[c.topic])
                       /\ vec[c.topic][c.i] = c.sub
  /\ c.at = "wait" => c.sub \notin deleted /\ home[c.sub] # NoTopic

ViewsFresh == \A t \in Threads : ViewFresh(t)

VectorOK(p) ==
  /\ \A s \in ToSet(vec[p]) : home[s] = p /\ s \notin deleted /\ ~ Leaving(s)
  /\ \A i, j \in 1 .. Len(vec[p]) : vec[p][i] = vec[p][j] => i = j

VectorsOK == \A p \in Topics : VectorOK(p)

OneWaiter ==
  \A t, u \in Threads :
    call[t].at = "wait" /\ call[u].at = "wait" /\ call[t].sub = call[u].sub
      => t = u

Drained == \A s \in deleted : home[s] # NoTopic /\ jobCpt[s] = 0

RegistryInv ==
  /\ CountInv
  /\ Exclusion /\ ViewsFresh /\ VectorsOK
  /\ OneWaiter /\ Drained /\ NoLostSubscription

(* unsubscribe waits for jobs and for nothing else: while it waits there   *)
(* is one that will count itself out (mew.cc: "Wait for jobs completion"). *)
WaitsOnlyForJobs ==
  \A t \in Threads :
    call[t].at = "wait" /\ jobCpt[call[t].sub] > 0 =>
      \E k \in Outstanding(call[t].sub) :
        \/ k \in pending \cup executing
        \/ \E u \in Threads : call[u].at = "post" /\ call[u].job = k

(* unsubscribe returns (mew.cc: "Wait for jobs completion"), with three    *)
(* exceptions: a job it waits for has been refused or has thrown; a        *)
(* callback waits for its own job, or for one whose callback waits; two    *)
(* callbacks wait (one, if there is one worker), who may be all that take  *)
(* from the queue of the job.                                              *)
Lost(s) == \E k \in Outstanding(s) : k \in refused \cup finished

UnsubscribeReturns ==
  \A s \in Subs :
    Leaving(s) ~>
      \/ ~Leaving(s)
      \/ Lost(s)
      \/ Waiting \cap Outstanding(s) # {}
      \/ Cardinality(Waiting) >= Takers
===============================================================================
