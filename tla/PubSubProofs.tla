----------------------------- MODULE PubSubProofs -----------------------------
(***************************************************************************)
(* What holds of PubSub for every set of subscriptions, topics, clients    *)
(* and jobs.  JobCount needs no discipline of the callers; SafeReclaim and *)
(* NoLostSubscription are proved for callers that serialise their changes  *)
(* of the registry, the assumption the missing lock makes necessary.       *)
(***************************************************************************)
EXTENDS PubSub, TLAPS, FiniteSetTheorems

(* The pool's steps, as far as this module looks at them.                  *)
LEMMA PoolSteps ==
  ASSUME NEW k, Accept(k) \/ Refuse(k) \/ Start(k) \/ Finish(k),
         pending \in SUBSET Tasks, executing \in SUBSET Tasks,
         finished \in SUBSET Tasks, refused \in SUBSET Tasks
  PROVE  /\ pending' \cup executing' \subseteq pending \cup executing \cup {k}
         /\ k \in Tasks
         /\ pending' \in SUBSET Tasks /\ executing' \in SUBSET Tasks
         /\ finished' \in SUBSET Tasks /\ refused' \in SUBSET Tasks
         /\ closed' = closed
<1>1. CASE Accept(k)
  BY <1>1 DEF Accept, Submitted
<1>2. CASE Refuse(k)
  BY <1>2 DEF Refuse, Submitted
<1>3. CASE Start(k)
  BY <1>3 DEF Start
<1>4. CASE Finish(k)
  BY <1>4 DEF Finish
<1> QED
  BY <1>1, <1>2, <1>3, <1>4

LEMMA NoCallType ==
  ASSUME NEW at \in At
  PROVE  /\ NoCall(at) \in Call
         /\ NoCall(at).at = at /\ NoCall(at).sub = NoSub
<1>1. <<>> \in Seq(Subs) /\ 0 \in Nat
  OBVIOUS
<1> QED
  BY <1>1 DEF NoCall, InCall, Call

LEMMA BeginRecord ==
  ASSUME TypeOK, NEW t \in Threads, NEW r \in Call, call' = [call EXCEPT ![t] = r]
  PROVE  /\ call'[t] = r
         /\ call' \in [Threads -> Call]
         /\ \A u \in Threads \ {t} : call'[u] = call[u]
BY DEF TypeOK

(* The end of a call, and what the steps of one thread leave alone.        *)
LEMMA ReturnCall ==
  ASSUME TypeOK, NEW t \in Threads, Return(t)
  PROVE  /\ call' \in [Threads -> Call]
         /\ call'[t].at \in {"idle", "returned"}
         /\ call'[t].sub = NoSub
         /\ \A u \in Threads \ {t} : call'[u] = call[u]
<1> DEFINE at == IF t \in Clients THEN "idle" ELSE "returned"
<1>1. at \in At /\ at \in {"idle", "returned"}
  BY DEF At
<1>2. call' = [call EXCEPT ![t] = NoCall(at)]
  BY DEF Return
<1> HIDE DEF at
<1> QED
  BY <1>1, <1>2, NoCallType, BeginRecord

LEMMA InitCount == Init => CountInv
<1> SUFFICES ASSUME Init PROVE CountInv
  OBVIOUS
<1>1. NoCall("idle") \in Call /\ NoCall("idle").at = "idle"
  BY NoCallType DEF At
<1>2. TypeOK
  BY <1>1 DEF Init, PoolInit, TypeOK, Threads
<1>3. CallOK /\ PostersDistinct
  BY <1>1 DEF Init, CallOK, ThreadOK, PostersDistinct
<1>4. JobsMade
  BY DEF Init, PoolInit, JobsMade
<1>5. JobCount
  <2>1. \A s \in Subs : Outstanding(s) = {}
    BY PubSubAssumption DEF Init, Outstanding
  <2> QED
    BY <2>1, FS_EmptySet DEF Init, JobCount
<1> QED
  BY <1>2, <1>3, <1>4, <1>5 DEF CountInv

-------------------------------------------------------------------------------
(* A step that changes neither the counters nor the jobs.                  *)
LEMMA SameCount ==
  ASSUME JobCount, UNCHANGED <<jobCpt, jobSub, released>>
  PROVE  JobCount'
BY DEF JobCount, Outstanding

(* The steps of publish, subscribe and unsubscribe that leave pool, jobs   *)
(* and counters alone and move one thread.                                 *)
LEMMA CallMoves ==
  ASSUME CountInv, NEW t \in Threads,
         UNCHANGED <<poolVars, jobCpt, jobSub, released>>,
         vec' \in [Topics -> Seq(Subs)],
         home' \in [Subs -> Topics \cup {NoTopic}],
         deleted' \in SUBSET Subs,
         call'[t] \in Call, call'[t].at # "post",
         call' \in [Threads -> Call],
         \A u \in Threads \ {t} : call'[u] = call[u],
         call'[t].at \in {"next", "count", "insert", "erase"}
           => call'[t].topic \in Topics,
         call'[t].at \in {"count", "insert", "erase", "wait"}
           => call'[t].sub \in Subs
  PROVE  CountInv'
<1>1. TypeOK'
  BY DEF CountInv, TypeOK, poolVars
<1>2. CallOK'
  <2>1. ThreadOK(t)'
    BY DEF ThreadOK
  <2>2. \A u \in Threads \ {t} : ThreadOK(u)'
    BY DEF CountInv, CallOK, ThreadOK, poolVars
  <2> QED
    BY <2>1, <2>2 DEF CallOK
<1>p. PostersDistinct'
  BY DEF CountInv, PostersDistinct
<1>3. JobsMade'
  BY DEF CountInv, JobsMade, poolVars
<1> QED
  BY <1>1, <1>2, <1>p, <1>3, SameCount DEF CountInv

LEMMA PublishCountStep ==
  ASSUME CountInv, NEW t \in Threads, PublishCount(t)
  PROVE  CountInv'
<1>0. /\ call[t].sub \in Subs /\ call[t].topic \in Topics
      /\ (CHOOSE j \in Unused : TRUE) \in Unused
  BY DEF PublishCount, CountInv, CallOK, ThreadOK
<1>s. PICK s \in Subs : s = call[t].sub
  BY <1>0
<1>k. PICK k \in Unused : k = CHOOSE j \in Unused : TRUE
  BY <1>0
<1>1. /\ k \in Tasks /\ jobSub[k] = NoSub
      /\ s \in Subs /\ s # NoSub /\ call[t].at = "count"
      /\ call[t].topic \in Topics
  BY <1>0, <1>k, PubSubAssumption DEF PublishCount, Unused
<1>2. /\ jobCpt' = [jobCpt EXCEPT ![s] = @ + 1]
      /\ jobSub' = [jobSub EXCEPT ![k] = s]
      /\ call' = [call EXCEPT ![t].at = "post", ![t].job = k]
      /\ UNCHANGED <<poolVars, vec, home, deleted, released>>
  BY <1>s, <1>k DEF PublishCount
<1>3. k \notin pending \cup executing \cup released
  BY <1>1 DEF CountInv, JobsMade
<1>4. call[t] \in Call /\ call \in [Threads -> Call]
  BY DEF CountInv, TypeOK
<1>5. /\ call'[t] = [call[t] EXCEPT !.at = "post", !.job = k]
      /\ \A u \in Threads \ {t} : call'[u] = call[u]
  BY <1>2, <1>4
<1>6. call'[t] \in Call
  BY <1>1, <1>4, <1>5 DEF Call, At
<1>7. TypeOK'
  <2>1. call' \in [Threads -> Call]
    BY <1>2, <1>4, <1>5, <1>6
  <2> QED
    BY <2>1, <1>1, <1>2 DEF CountInv, TypeOK, poolVars
<1>8. call'[t].topic = call[t].topic /\ call'[t].sub = s
      /\ call'[t].at = "post" /\ call'[t].job = k
  BY <1>4, <1>5, <1>s DEF Call
<1>9. jobSub \in [Tasks -> Subs \cup {NoSub}] /\ jobCpt \in [Subs -> Nat]
  BY DEF CountInv, TypeOK
<1>10. CallOK' /\ PostersDistinct'
  <2>1. \A u \in Threads : call[u].at = "post" => call[u].job # k
    BY <1>1, PubSubAssumption DEF CountInv, CallOK, ThreadOK
  <2>2. jobSub'[k] = s /\ \A j \in Tasks \ {k} : jobSub'[j] = jobSub[j]
    BY <1>1, <1>2, <1>9
  <2>3. UNCHANGED <<pending, executing, released>>
    BY <1>2 DEF poolVars
  <2>4. ThreadOK(t)'
    BY <1>1, <1>3, <1>8, <2>2, <2>3 DEF ThreadOK
  <2>5. ASSUME NEW u \in Threads \ {t} PROVE ThreadOK(u)'
    <3>1. call'[u] = call[u] /\ ThreadOK(u)
      BY <1>5 DEF CountInv, CallOK, ThreadOK
    <3> QED
      BY <3>1, <2>1, <2>2, <2>3 DEF ThreadOK
  <2>6. PostersDistinct'
    <3>1. \A u \in Threads \ {t} :
            call'[u] = call[u] /\ (call[u].at = "post" => call[u].job # k)
      BY <1>5, <2>1
    <3>2. \A u, v \in Threads \ {t} :
            call'[u].at = "post" /\ call'[v].at = "post"
              /\ call'[u].job = call'[v].job => u = v
      BY <3>1 DEF CountInv, PostersDistinct
    <3>3. \A u \in Threads \ {t} :
            ~ (call'[u].at = "post" /\ call'[u].job = call'[t].job)
      BY <3>1, <1>8
    <3> QED
      BY <3>2, <3>3 DEF PostersDistinct
  <2> QED
    BY <2>4, <2>5, <2>6 DEF CallOK
<1>11. JobsMade'
  BY <1>2, <1>3, <1>9 DEF CountInv, JobsMade, poolVars
<1>12. JobCount'
  <2>1. IsFiniteSet(Outstanding(s)) /\ k \notin Outstanding(s)
    BY <1>1, PubSubAssumption, FS_Subset DEF Outstanding
  <2>2. Outstanding(s)' = Outstanding(s) \cup {k}
    BY <1>1, <1>2, <1>3, <1>9 DEF Outstanding
  <2>3. Cardinality(Outstanding(s)') = Cardinality(Outstanding(s)) + 1
    BY <2>1, <2>2, FS_AddElement
  <2>4. ASSUME NEW r \in Subs \ {s}
        PROVE  Outstanding(r)' = Outstanding(r)
    BY <1>1, <1>2, <1>9, PubSubAssumption DEF Outstanding
  <2>5. jobCpt'[s] = jobCpt[s] + 1 /\ \A r \in Subs \ {s} : jobCpt'[r] = jobCpt[r]
    BY <1>1, <1>2, <1>9
  <2>6. ASSUME NEW r \in Subs
        PROVE  jobCpt'[r] = Cardinality(Outstanding(r)')
    <3>1. jobCpt[r] = Cardinality(Outstanding(r))
      BY DEF CountInv, JobCount
    <3> QED
      BY <3>1, <2>3, <2>4, <2>5, <1>1
  <2> QED
    BY <2>6 DEF JobCount
<1> QED
  BY <1>7, <1>10, <1>11, <1>12 DEF CountInv

LEMMA PublishPostStep ==
  ASSUME CountInv, NEW t \in Threads, PublishPost(t)
  PROVE  CountInv'
<1>k. PICK k : k = call[t].job
  OBVIOUS
<1>1. /\ call[t].at = "post"
      /\ Accept(k) \/ Refuse(k)
      /\ call' = [call EXCEPT ![t].at = "next", ![t].i = @ + 1,
                              ![t].sub = NoSub, ![t].job = NoJob]
      /\ UNCHANGED <<vec, home, deleted, jobCpt, jobSub, released>>
  BY <1>k DEF PublishPost
<1>2. /\ call[t].topic \in Topics /\ call[t].sub \in Subs
      /\ jobSub[k] = call[t].sub
  BY <1>k, <1>1 DEF CountInv, CallOK, ThreadOK
<1>3. call[t] \in Call /\ call \in [Threads -> Call]
  BY DEF CountInv, TypeOK
<1>4. /\ call'[t] = [call[t] EXCEPT !.at = "next", !.i = @ + 1,
                                    !.sub = NoSub, !.job = NoJob]
      /\ \A u \in Threads \ {t} : call'[u] = call[u]
  BY <1>1, <1>3
<1>5. /\ call'[t] \in Call /\ call'[t].at = "next"
      /\ call'[t].topic = call[t].topic
  <2>1. call[t].i + 1 \in Nat /\ "next" \in At
    BY <1>3 DEF Call, At
  <2>2. call'[t] \in Call
    BY <1>3, <1>4, <2>1 DEF Call
  <2>3. call'[t].at = "next" /\ call'[t].topic = call[t].topic
    BY <1>3, <1>4 DEF Call
  <2> QED
    BY <2>2, <2>3
<1>6. /\ pending' \cup executing' \subseteq pending \cup executing \cup {k}
      /\ pending' \in SUBSET Tasks /\ executing' \in SUBSET Tasks
      /\ finished' \in SUBSET Tasks /\ refused' \in SUBSET Tasks
      /\ closed' = closed
  BY <1>1, PoolSteps DEF CountInv, TypeOK
<1>7. TypeOK'
  <2>1. call' \in [Threads -> Call]
    BY <1>1, <1>3, <1>4, <1>5
  <2> QED
    BY <2>1, <1>1, <1>6 DEF CountInv, TypeOK
<1>8. CallOK' /\ PostersDistinct'
  <2>1. ThreadOK(t)'
    BY <1>2, <1>5 DEF ThreadOK
  <2>2. ASSUME NEW u \in Threads \ {t} PROVE ThreadOK(u)'
    <3>1. call'[u] = call[u] /\ ThreadOK(u)
      BY <1>4 DEF CountInv, CallOK
    <3>2. call[u].at = "post" => call[u].job # k
      BY <1>k, <1>1 DEF CountInv, PostersDistinct
    <3> QED
      BY <3>1, <3>2, <1>1, <1>6 DEF ThreadOK
  <2>3. PostersDistinct'
    <3>1. call'[t].at # "post"
      BY <1>5
    <3>2. PostersDistinct
      BY DEF CountInv
    <3> QED
      BY <1>4, <3>1, <3>2 DEF PostersDistinct
  <2> QED
    BY <2>1, <2>2, <2>3 DEF CallOK
<1>9. JobsMade'
  BY <1>1, <1>2, <1>6, PubSubAssumption DEF CountInv, JobsMade
<1> QED
  BY <1>1, <1>7, <1>8, <1>9, SameCount DEF CountInv

LEMMA JobReleaseStep ==
  ASSUME CountInv, NEW k \in Tasks, JobRelease(k)
  PROVE  CountInv'
<1>s. PICK s : s = jobSub[k]
  OBVIOUS
<1>1. /\ k \in executing /\ k \notin released
      /\ call[k].at \in {"idle", "returned"}
      /\ jobCpt' = [jobCpt EXCEPT ![s] = @ - 1]
      /\ released' = released \cup {k}
      /\ UNCHANGED <<poolVars, vec, home, deleted, jobSub, call>>
  BY <1>s DEF JobRelease, CallbackOver, InCallback
<1>2. s \in Subs
  BY <1>s, <1>1 DEF CountInv, JobsMade, TypeOK
<1>3. IsFiniteSet(Outstanding(s)) /\ k \in Outstanding(s)
  BY <1>s, <1>1, PubSubAssumption, FS_Subset DEF Outstanding
<1>4. Outstanding(s)' = Outstanding(s) \ {k}
  BY <1>1 DEF Outstanding
<1>5. Cardinality(Outstanding(s)') = Cardinality(Outstanding(s)) - 1
  BY <1>3, <1>4, FS_RemoveElement
<1>6. \A r \in Subs \ {s} : Outstanding(r)' = Outstanding(r)
  BY <1>s, <1>1 DEF Outstanding
<1>7. /\ jobCpt \in [Subs -> Nat]
      /\ \A r \in Subs : jobCpt[r] = Cardinality(Outstanding(r))
  BY DEF CountInv, TypeOK, JobCount
<1>8. jobCpt'[s] = jobCpt[s] - 1 /\ \A r \in Subs \ {s} : jobCpt'[r] = jobCpt[r]
  BY <1>1, <1>2, <1>7
<1>9. JobCount'
  <2>1. ASSUME NEW r \in Subs
        PROVE  jobCpt'[r] = Cardinality(Outstanding(r)')
    BY <1>2, <1>5, <1>6, <1>7, <1>8
  <2> QED
    BY <2>1 DEF JobCount
<1>10. jobCpt[s] \in Nat \ {0}
  BY <1>2, <1>3, <1>7, FS_EmptySet
<1>11. TypeOK'
  BY <1>1, <1>2, <1>8, <1>10 DEF CountInv, TypeOK, poolVars
<1>12. CallOK' /\ PostersDistinct'
  <2>1. ASSUME NEW t \in Threads PROVE ThreadOK(t)'
    <3>1. ThreadOK(t) /\ (call[t].at = "post" => call[t].job # k)
      BY <1>1 DEF CountInv, CallOK, ThreadOK
    <3> QED
      BY <1>1, <3>1 DEF ThreadOK, poolVars
  <2>2. PostersDistinct'
    BY <1>1 DEF CountInv, PostersDistinct
  <2> QED
    BY <2>1, <2>2 DEF CallOK
<1>13. JobsMade'
  BY <1>s, <1>1, <1>2, PubSubAssumption DEF CountInv, JobsMade, poolVars
<1> QED
  BY <1>9, <1>11, <1>12, <1>13 DEF CountInv

-------------------------------------------------------------------------------
(* The steps of the pool other than a post.                                *)
LEMMA PoolStep ==
  ASSUME CountInv, UNCHANGED pubVars, NEW k \in Tasks, Start(k) \/ Finish(k)
  PROVE  CountInv'
<1>1. /\ pending' \cup executing' \subseteq pending \cup executing
      /\ pending' \in SUBSET Tasks /\ executing' \in SUBSET Tasks
      /\ finished' \in SUBSET Tasks /\ refused' \in SUBSET Tasks
      /\ closed' = closed
  <2>1. CASE Start(k)
    BY <2>1 DEF Start, CountInv, TypeOK
  <2>2. CASE Finish(k)
    BY <2>2 DEF Finish, CountInv, TypeOK
  <2> QED
    BY <2>1, <2>2
<1>2. TypeOK'
  BY <1>1 DEF CountInv, TypeOK, pubVars
<1>3. CallOK' /\ PostersDistinct'
  <2>1. \A t \in Threads : ThreadOK(t)'
    BY <1>1 DEF CountInv, CallOK, ThreadOK, pubVars
  <2> QED
    BY <2>1 DEF CallOK, CountInv, PostersDistinct, pubVars
<1>4. JobsMade'
  BY <1>1 DEF CountInv, JobsMade, pubVars
<1>5. JobCount'
  BY SameCount DEF CountInv, pubVars
<1> QED
  BY <1>2, <1>3, <1>4, <1>5 DEF CountInv

LEMMA ReturnStep ==
  ASSUME CountInv, NEW t \in Threads, Return(t),
         UNCHANGED <<poolVars, jobCpt, jobSub, released>>,
         vec' \in [Topics -> Seq(Subs)],
         home' \in [Subs -> Topics \cup {NoTopic}],
         deleted' \in SUBSET Subs
  PROVE  CountInv'
<1>1. /\ call' \in [Threads -> Call]
      /\ call'[t].at \in {"idle", "returned"}
      /\ \A u \in Threads \ {t} : call'[u] = call[u]
  BY ReturnCall DEF CountInv
<1>2. call'[t] \in Call
  BY <1>1
<1> QED
  BY <1>1, <1>2, CallMoves

LEMMA RemoveAtType ==
  ASSUME NEW S, NEW q \in Seq(S), NEW i \in Nat, i <= Len(q)
  PROVE  RemoveAt(q, i) \in Seq(S)
<1>1. SubSeq(q, 1, i - 1) \in Seq(S)
  OBVIOUS
<1>2. SubSeq(q, i + 1, Len(q)) \in Seq(S)
  OBVIOUS
<1> QED
  BY <1>1, <1>2 DEF RemoveAt

LEMMA CallStepCount ==
  ASSUME CountInv, NEW t \in Threads, CallStep(t)
  PROVE  CountInv'
<1> USE DEF CountInv, TypeOK
<1>0. /\ call[t] \in Call /\ call \in [Threads -> Call]
      /\ call[t].at \in {"next", "count", "insert", "erase"}
           => call[t].topic \in Topics
      /\ call[t].at \in {"count", "insert", "erase", "wait"}
           => call[t].sub \in Subs
  BY DEF CallOK, ThreadOK
<1>1. CASE PublishNext(t)
  <2>1. PICK s \in Slot(call[t].topic, call[t].i) :
          call' = [call EXCEPT ![t].at = "count", ![t].sub = s]
    BY <1>1 DEF PublishNext
  <2>2. call[t].at = "next" /\ call[t].topic \in Topics
    BY <1>0, <1>1 DEF PublishNext
  <2>3. s \in Subs
    BY <2>1, <2>2 DEF Slot
  <2>4. /\ call'[t] = [call[t] EXCEPT !.at = "count", !.sub = s]
        /\ \A u \in Threads \ {t} : call'[u] = call[u]
    BY <1>0, <2>1
  <2>5. /\ call'[t] \in Call /\ call'[t].at = "count"
        /\ call'[t].topic = call[t].topic /\ call'[t].sub = s
    BY <1>0, <2>3, <2>4 DEF Call, At
  <2>6. call' \in [Threads -> Call]
    BY <1>0, <2>1, <2>4, <2>5
  <2> QED
    BY <1>1, <2>2, <2>3, <2>4, <2>5, <2>6, CallMoves DEF PublishNext
<1>2. CASE PublishCount(t)
  BY <1>2, PublishCountStep
<1>3. CASE PublishPost(t)
  BY <1>3, PublishPostStep
<1>4. CASE PublishEnd(t)
  BY <1>4, ReturnStep DEF PublishEnd
<1>5. CASE SubscribeEnd(t)
  <2>1. /\ call[t].topic \in Topics /\ call[t].sub \in Subs
        /\ call[t].seen \in Seq(Subs)
    BY <1>0, <1>5 DEF SubscribeEnd, Call
  <2>2. Append(call[t].seen, call[t].sub) \in Seq(Subs)
    BY <2>1
  <2>3. vec' \in [Topics -> Seq(Subs)]
    BY <1>5, <2>1, <2>2 DEF SubscribeEnd
  <2> QED
    BY <1>5, <2>3, ReturnStep DEF SubscribeEnd
<1>6. CASE UnsubscribeErase(t)
  <2>1. /\ call[t].at = "erase"
        /\ call' = [call EXCEPT ![t].at = "wait"]
        /\ call[t].topic \in Topics /\ call[t].sub \in Subs /\ call[t].i \in Nat
    BY <1>0, <1>6 DEF UnsubscribeErase, Call
  <2>2. vec' \in [Topics -> Seq(Subs)]
    <3> DEFINE q == vec[call[t].topic]
    <3>1. q \in Seq(Subs)
      BY <2>1
    <3>2. call[t].i <= Len(q) => RemoveAt(q, call[t].i) \in Seq(Subs)
      BY <3>1, <2>1, RemoveAtType
    <3>3. SubSeq(q, 1, Len(q) - 1) \in Seq(Subs)
      BY <3>1
    <3> QED
      BY <1>6, <2>1, <3>2, <3>3 DEF UnsubscribeErase
  <2>4. /\ call'[t] = [call[t] EXCEPT !.at = "wait"]
        /\ \A u \in Threads \ {t} : call'[u] = call[u]
    BY <1>0, <2>1
  <2>5. /\ call'[t] \in Call /\ call'[t].at = "wait"
        /\ call'[t].sub = call[t].sub
    BY <1>0, <2>4 DEF Call, At
  <2>6. call' \in [Threads -> Call]
    BY <1>0, <2>1, <2>4, <2>5
  <2> QED
    BY <1>6, <2>1, <2>2, <2>4, <2>5, <2>6, CallMoves DEF UnsubscribeErase
<1>7. CASE UnsubscribeDelete(t)
  <2>1. call[t].sub \in Subs
    BY <1>0, <1>7 DEF UnsubscribeDelete
  <2> QED
    BY <1>7, <2>1, ReturnStep DEF UnsubscribeDelete
<1> QED
  BY <1>1, <1>2, <1>3, <1>4, <1>5, <1>6, <1>7 DEF CallStep

(* The first step of a call.                                               *)
BeginStep(t) ==
  \/ \E p \in Topics : PublishBegin(t, p)
  \/ \E s \in Subs, p \in Topics : SubscribeBegin(t, s, p)
  \/ \E s \in Subs : UnsubscribeFound(t, s) \/ UnsubscribeUnknown(t, s)

LEMMA BeginMoves ==
  ASSUME CountInv, NEW t \in Threads, NEW r \in Call,
         call' = [call EXCEPT ![t] = r],
         r.at \in {"next", "insert", "erase"}, r.topic \in Topics,
         r.at # "next" => r.sub \in Subs,
         UNCHANGED <<poolVars, vec, deleted, jobCpt, jobSub, released>>,
         home' \in [Subs -> Topics \cup {NoTopic}]
  PROVE  CountInv'
<1>1. /\ call'[t] = r
      /\ call' \in [Threads -> Call]
      /\ \A u \in Threads \ {t} : call'[u] = call[u]
  BY BeginRecord DEF CountInv
<1>2. vec' \in [Topics -> Seq(Subs)] /\ deleted' \in SUBSET Subs
  BY DEF CountInv, TypeOK
<1> QED
  BY <1>1, <1>2, CallMoves

LEMMA BeginStepCount ==
  ASSUME CountInv, NEW t \in Threads, BeginStep(t)
  PROVE  CountInv'
<1> USE DEF CountInv, TypeOK
<1>1. ASSUME NEW p \in Topics, PublishBegin(t, p)
      PROVE  CountInv'
  <2> DEFINE r == InCall("next", p, NoSub, 1, Len(vec[p]), <<>>)
  <2>1. call' = [call EXCEPT ![t] = r]
    BY <1>1 DEF PublishBegin
  <2>2. Len(vec[p]) \in Nat /\ <<>> \in Seq(Subs) /\ "next" \in At
    BY DEF At
  <2>4. r \in Call /\ r.at = "next" /\ r.topic = p
    BY <2>2 DEF InCall, Call
  <2> HIDE DEF r
  <2> QED
    BY <1>1, <2>1, <2>4, BeginMoves DEF PublishBegin
<1>2. ASSUME NEW s \in Subs, NEW p \in Topics, SubscribeBegin(t, s, p)
      PROVE  CountInv'
  <2> DEFINE r == InCall("insert", p, s, 0, 0, vec[p])
  <2>1. call' = [call EXCEPT ![t] = r] /\ home' = [home EXCEPT ![s] = p]
    BY <1>2 DEF SubscribeBegin
  <2>3. vec[p] \in Seq(Subs) /\ "insert" \in At /\ 0 \in Nat
    BY DEF At
  <2>4. r \in Call /\ r.at = "insert" /\ r.topic = p /\ r.sub = s
    BY <2>3 DEF InCall, Call
  <2> HIDE DEF r
  <2>5. home' \in [Subs -> Topics \cup {NoTopic}]
    BY <2>1
  <2>6. UNCHANGED <<poolVars, vec, deleted, jobCpt, jobSub, released>>
    BY <1>2 DEF SubscribeBegin
  <2> QED
    BY <2>1, <2>4, <2>5, <2>6, BeginMoves
<1>3. ASSUME NEW s \in Subs, UnsubscribeFound(t, s)
      PROVE  CountInv'
  <2>1. PICK i \in 1 .. Len(vec[home[s]]) :
          call' = [call EXCEPT ![t] = InCall("erase", home[s], s, i, 0, <<>>)]
    BY <1>3 DEF UnsubscribeFound
  <2> DEFINE r == InCall("erase", home[s], s, i, 0, <<>>)
  <2>2. home[s] \in Topics
    BY <1>3 DEF UnsubscribeFound, Returned
  <2>4. i \in Nat /\ <<>> \in Seq(Subs) /\ "erase" \in At
    BY <2>2 DEF At
  <2>5. r \in Call /\ r.at = "erase" /\ r.topic = home[s] /\ r.sub = s
    BY <2>2, <2>4 DEF InCall, Call
  <2> HIDE DEF r
  <2>7. call' = [call EXCEPT ![t] = r]
    BY <2>1 DEF r
  <2> QED
    BY <1>3, <2>2, <2>5, <2>7, BeginMoves
       DEF UnsubscribeFound
<1>4. ASSUME NEW s \in Subs, UnsubscribeUnknown(t, s)
      PROVE  CountInv'
  BY <1>4, ReturnStep DEF UnsubscribeUnknown
<1> QED
  BY <1>1, <1>2, <1>3, <1>4 DEF BeginStep

LEMMA CountStep == CountInv /\ [Next]_vars => CountInv'
<1> SUFFICES ASSUME CountInv, [Next]_vars PROVE CountInv'
  OBVIOUS
<1>1. CASE \E t \in Threads : BeginStep(t)
  BY <1>1, BeginStepCount
<1>2. CASE \E t \in Threads : CallStep(t)
  BY <1>2, CallStepCount
<1>3. ASSUME NEW k \in Tasks, JobStart(k) \/ JobEnd(k) \/ JobThrow(k)
      PROVE  CountInv'
  BY <1>3, PoolStep DEF JobStart, JobEnd, JobThrow
<1>4. CASE \E k \in Tasks : JobRelease(k)
  BY <1>4, JobReleaseStep
<1>5. CASE UNCHANGED vars
  <2>1. UNCHANGED <<poolVars, pubVars>>
    BY <1>5 DEF vars
  <2>2. TypeOK' /\ JobsMade' /\ PostersDistinct'
    BY <2>1 DEF CountInv, TypeOK, JobsMade, PostersDistinct, poolVars, pubVars
  <2>3. CallOK'
    BY <2>1 DEF CountInv, CallOK, ThreadOK, poolVars, pubVars
  <2> QED
    BY <2>1, <2>2, <2>3, SameCount DEF CountInv, pubVars
<1> QED
  BY <1>1, <1>2, <1>3, <1>4, <1>5 DEF Next, BeginStep

THEOREM CountInvariance == Spec => []CountInv
<1>1. Init => CountInv
  BY InitCount
<1> QED
  BY <1>1, CountStep, PTL DEF Spec

(* Type correctness; in particular jobCpt never goes below zero.           *)
THEOREM TypeCorrect == Spec => []TypeOK
<1>1. CountInv => TypeOK
  BY DEF CountInv
<1> QED
  BY <1>1, CountInvariance, PTL

(* jobCpt counts the jobs that have not counted themselves out, with no    *)
(* assumption on the callers: publishes, callbacks and changes of the      *)
(* registry may overlap in any way, posts may fail and callbacks throw.    *)
THEOREM CounterIsExact == Spec => []JobCount
<1>1. CountInv => JobCount
  BY DEF CountInv
<1> QED
  BY <1>1, CountInvariance, PTL

-------------------------------------------------------------------------------
(* From here on the callers serialise the changes of the registry.         *)

LEMMA AppendSet ==
  ASSUME NEW S, NEW q \in Seq(S), NEW e \in S, e \notin ToSet(q),
         \A i, j \in 1 .. Len(q) : q[i] = q[j] => i = j
  PROVE  /\ ToSet(Append(q, e)) = ToSet(q) \cup {e}
         /\ \A i, j \in 1 .. Len(Append(q, e)) :
              Append(q, e)[i] = Append(q, e)[j] => i = j
<1> DEFINE r == Append(q, e)
<1>1. /\ Len(q) \in Nat /\ Len(r) = Len(q) + 1
      /\ r[Len(q) + 1] = e
      /\ \A i \in 1 .. Len(q) : r[i] = q[i]
      /\ DOMAIN r = 1 .. Len(r) /\ DOMAIN q = 1 .. Len(q)
  OBVIOUS
<1> HIDE DEF r
<1>2. \A i \in 1 .. Len(r) : i \in 1 .. Len(q) \/ i = Len(q) + 1
  BY <1>1
<1>3. 1 .. Len(q) \subseteq 1 .. Len(r) /\ Len(q) + 1 \in 1 .. Len(r)
  BY <1>1
<1>4. ToSet(r) = ToSet(q) \cup {e}
  BY <1>1, <1>2, <1>3 DEF ToSet
<1>5. \A i \in 1 .. Len(q) : q[i] # e
  BY <1>1 DEF ToSet
<1>6. \A i, j \in 1 .. Len(r) : r[i] = r[j] => i = j
  BY <1>1, <1>2, <1>5
<1> QED
  BY <1>4, <1>6 DEF r

LEMMA RemoveSet ==
  ASSUME NEW S, NEW q \in Seq(S), NEW n \in 1 .. Len(q),
         \A i, j \in 1 .. Len(q) : q[i] = q[j] => i = j
  PROVE  /\ ToSet(RemoveAt(q, n)) = ToSet(q) \ {q[n]}
         /\ \A i, j \in 1 .. Len(RemoveAt(q, n)) :
              RemoveAt(q, n)[i] = RemoveAt(q, n)[j] => i = j
<1> DEFINE r == RemoveAt(q, n)
           a == SubSeq(q, 1, n - 1)
           b == SubSeq(q, n + 1, Len(q))
           from(i) == IF i < n THEN i ELSE i + 1
<1>1. Len(q) \in Nat /\ n \in Nat
  OBVIOUS
<1>2. /\ a \in Seq(S) /\ Len(a) = n - 1
      /\ \A i \in 1 .. n - 1 : a[i] = q[i]
  OBVIOUS
<1>3. /\ b \in Seq(S) /\ Len(b) = Len(q) - n
      /\ \A i \in 1 .. Len(q) - n : b[i] = q[i + n]
  OBVIOUS
<1>4. r = a \o b
  BY DEF RemoveAt
<1> HIDE DEF r, a, b
<1>5. Len(r) = Len(q) - 1 /\ DOMAIN r = 1 .. Len(q) - 1
  BY <1>1, <1>2, <1>3, <1>4
<1>6. ASSUME NEW i \in 1 .. Len(q) - 1
      PROVE  r[i] = q[from(i)] /\ from(i) \in 1 .. Len(q) /\ from(i) # n
  <2>1. CASE i < n
    BY <2>1, <1>1, <1>2, <1>3, <1>4
  <2>2. CASE ~ (i < n)
    <3>1. i - (n - 1) \in 1 .. Len(q) - n /\ i - (n - 1) + n = i + 1
      BY <2>2, <1>1
    <3>2. r[i] = b[i - (n - 1)]
      <4>1. /\ i \in 1 .. Len(a) + Len(b) /\ ~ (i <= Len(a))
            /\ i - Len(a) = i - (n - 1)
        BY <2>2, <1>1, <1>2, <1>3
      <4>2. (a \o b)[i] = b[i - Len(a)]
        BY <4>1, <1>2, <1>3
      <4> QED
        BY <4>1, <4>2, <1>4
    <3> QED
      BY <2>2, <3>1, <3>2, <1>1, <1>3
  <2> QED
    BY <2>1, <2>2
<1>7. ASSUME NEW m \in 1 .. Len(q), m # n
      PROVE  \E i \in 1 .. Len(q) - 1 : from(i) = m
  <2>1. CASE m < n
    BY <2>1, <1>1
  <2>2. CASE m > n
    <3>1. m - 1 \in 1 .. Len(q) - 1 /\ from(m - 1) = m
      BY <2>2, <1>1
    <3> QED
      BY <3>1
  <2> QED
    BY <2>1, <2>2, <1>1, <1>7
<1>8. \A i, j \in 1 .. Len(q) - 1 : from(i) = from(j) => i = j
  BY <1>1
<1> HIDE DEF from
<1>9. ToSet(r) = ToSet(q) \ {q[n]}
  <2>1. DOMAIN q = 1 .. Len(q)
    OBVIOUS
  <2>2. ToSet(r) \subseteq ToSet(q) \ {q[n]}
    BY <2>1, <1>5, <1>6 DEF ToSet
  <2>3. ASSUME NEW x \in ToSet(q) \ {q[n]} PROVE x \in ToSet(r)
    <3>1. PICK m \in 1 .. Len(q) : x = q[m]
      BY <2>1 DEF ToSet
    <3>2. PICK i \in 1 .. Len(q) - 1 : from(i) = m
      BY <3>1, <1>7
    <3>3. r[i] = x
      BY <3>1, <3>2, <1>6
    <3> QED
      BY <3>3, <1>5 DEF ToSet
  <2> QED
    BY <2>2, <2>3
<1>10. \A i, j \in 1 .. Len(r) : r[i] = r[j] => i = j
  BY <1>5, <1>6, <1>8
<1> QED
  BY <1>9, <1>10 DEF r

(* The steps that leave the registry alone: of the thread t that makes one *)
(* only the position in publish's loop matters.                            *)
LEMMA QuietStep ==
  ASSUME RegistryInv, CountInv', NEW t \in Threads,
         UNCHANGED <<vec, home, deleted>>,
         \A u \in Threads \ {t} : call'[u] = call[u],
         call[t].at \notin {"insert", "erase", "wait"},
         call'[t].at \notin {"insert", "erase", "wait"},
         call'[t].at \in {"next", "count", "post"} =>
           /\ Changing = {}
           /\ call'[t].i > 0 /\ call'[t].end = Len(vec[call'[t].topic]),
         call'[t].at = "count" => call'[t].sub \in ToSet(vec[call'[t].topic]),
         \A s \in deleted : jobCpt'[s] = jobCpt[s]
  PROVE  RegistryInv'
<1>1. \A s : Leaving(s)' <=> Leaving(s)
  BY DEF Leaving
<1>2. \A s : Returned(s)' <=> Returned(s)
  BY DEF Returned
<1>3. Changing' = Changing /\ Iterating' \subseteq Iterating \cup {t}
  BY DEF Changing, Iterating
<1>4. Exclusion'
  <2>1. t \in Iterating' => Changing = {}
    BY DEF Iterating
  <2> QED
    BY <1>3, <2>1 DEF RegistryInv, Exclusion
<1>5. ViewsFresh'
  <2>1. ViewFresh(t)'
    BY DEF ViewFresh
  <2>2. ASSUME NEW u \in Threads \ {t} PROVE ViewFresh(u)'
    <3>1. ViewFresh(u) /\ call'[u] = call[u]
      BY DEF RegistryInv, ViewsFresh
    <3> QED
      BY <3>1, <1>1 DEF ViewFresh
  <2> QED
    BY <2>1, <2>2 DEF ViewsFresh
<1>6. VectorsOK'
  BY <1>1 DEF RegistryInv, VectorsOK, VectorOK
<1>7. OneWaiter'
  BY DEF RegistryInv, OneWaiter
<1>8. Drained'
  BY DEF RegistryInv, Drained
<1>9. NoLostSubscription'
  BY <1>1, <1>2 DEF RegistryInv, NoLostSubscription
<1> QED
  BY <1>4, <1>5, <1>6, <1>7, <1>8, <1>9 DEF RegistryInv

(* The same when no call moves.                                            *)
LEMMA SilentStep ==
  ASSUME RegistryInv, CountInv', UNCHANGED <<vec, home, deleted, call>>,
         \A s \in deleted : jobCpt'[s] = jobCpt[s]
  PROVE  RegistryInv'
<1>1. \A s : (Leaving(s)' <=> Leaving(s)) /\ (Returned(s)' <=> Returned(s))
  BY DEF Leaving, Returned
<1>2. Exclusion' /\ OneWaiter' /\ Drained'
  BY DEF RegistryInv, Exclusion, Changing, Iterating, OneWaiter, Drained
<1>3. ViewsFresh'
  <2>1. \A u \in Threads : ViewFresh(u) => ViewFresh(u)'
    BY <1>1 DEF ViewFresh
  <2> QED
    BY <2>1 DEF RegistryInv, ViewsFresh
<1>4. VectorsOK' /\ NoLostSubscription'
  BY <1>1 DEF RegistryInv, VectorsOK, VectorOK, NoLostSubscription
<1> QED
  BY <1>2, <1>3, <1>4 DEF RegistryInv

LEMMA ReleaseKeepsDeleted ==
  ASSUME RegistryInv, NEW k \in Tasks, JobRelease(k)
  PROVE  \A s \in deleted : jobCpt'[s] = jobCpt[s]
<1>1. /\ k \in executing /\ k \notin released
      /\ jobCpt' = [jobCpt EXCEPT ![jobSub[k]] = @ - 1]
  BY DEF JobRelease, CallbackOver, InCallback
<1>2. ASSUME NEW s \in deleted PROVE jobSub[k] # s
  <2>1. s \in Subs /\ jobCpt[s] = 0 /\ jobCpt[s] = Cardinality(Outstanding(s))
    BY DEF RegistryInv, CountInv, TypeOK, Drained, JobCount
  <2>2. IsFiniteSet(Outstanding(s))
    BY PubSubAssumption, FS_Subset DEF Outstanding
  <2>3. Outstanding(s) = {}
    BY <2>1, <2>2, FS_EmptySet
  <2> QED
    BY <1>1, <2>3 DEF Outstanding
<1>3. jobCpt \in [Subs -> Nat] /\ deleted \subseteq Subs
  BY DEF RegistryInv, CountInv, TypeOK
<1> QED
  BY <1>1, <1>2, <1>3

(* What Exclusion says at the two ends of a change.                        *)
LEMMA ChangerAlone ==
  ASSUME RegistryInv, NEW t \in Threads, call[t].at \in {"insert", "erase"}
  PROVE  \A u \in Threads \ {t} :
           call[u].at \notin {"insert", "erase", "next", "count", "post"}
BY DEF RegistryInv, Exclusion, Changing, Iterating

LEMMA PublishBeginRegistry ==
  ASSUME Serialised, RegistryInv, CountInv', NEW t \in Threads,
         NEW p \in Topics, PublishBegin(t, p)
  PROVE  RegistryInv'
<1> DEFINE r == InCall("next", p, NoSub, 1, Len(vec[p]), <<>>)
<1>1. r.at = "next" /\ r.i = 1 /\ r.end = Len(vec[p]) /\ r.topic = p
  BY DEF InCall
<1> HIDE DEF r
<1>2. /\ call[t].at = "idle" /\ Changing = {}
      /\ call' = [call EXCEPT ![t] = r]
      /\ UNCHANGED <<poolVars, vec, home, deleted, jobCpt, jobSub, released>>
  BY DEF PublishBegin, Free, MayRead, r
<1>3. call'[t] = r /\ \A u \in Threads \ {t} : call'[u] = call[u]
  BY <1>2 DEF RegistryInv, CountInv, TypeOK
<1> QED
  BY <1>1, <1>2, <1>3, QuietStep

LEMMA PublishNextRegistry ==
  ASSUME RegistryInv, CountInv', NEW t \in Threads, PublishNext(t)
  PROVE  RegistryInv'
<1>1. /\ call[t].at = "next" /\ call[t].i <= call[t].end
      /\ UNCHANGED <<vec, home, deleted, jobCpt>>
  BY DEF PublishNext
<1>2. PICK s \in Slot(call[t].topic, call[t].i) :
        call' = [call EXCEPT ![t].at = "count", ![t].sub = s]
  BY DEF PublishNext
<1>3. /\ call[t].i > 0 /\ call[t].end = Len(vec[call[t].topic])
      /\ call[t].topic \in Topics /\ Changing = {}
      /\ call[t] \in Call /\ call \in [Threads -> Call]
      /\ vec[call[t].topic] \in Seq(Subs)
  BY <1>1 DEF RegistryInv, CountInv, TypeOK, CallOK, ThreadOK, ViewsFresh,
              ViewFresh, Exclusion, Changing, Iterating
<1>4. s \in ToSet(vec[call[t].topic])
  <2>1. call[t].i \in 1 .. Len(vec[call[t].topic])
    BY <1>1, <1>3 DEF Call
  <2>2. s = vec[call[t].topic][call[t].i]
    BY <1>2, <2>1 DEF Slot
  <2>3. DOMAIN vec[call[t].topic] = 1 .. Len(vec[call[t].topic])
    BY <1>3
  <2> QED
    BY <2>1, <2>2, <2>3 DEF ToSet
<1>5. /\ call'[t] = [call[t] EXCEPT !.at = "count", !.sub = s]
      /\ \A u \in Threads \ {t} : call'[u] = call[u]
  BY <1>2, <1>3
<1>6. /\ call'[t].at = "count" /\ call'[t].sub = s
      /\ call'[t].i = call[t].i /\ call'[t].end = call[t].end
      /\ call'[t].topic = call[t].topic
  BY <1>3, <1>5 DEF Call
<1> QED
  BY <1>1, <1>3, <1>4, <1>5, <1>6, QuietStep

LEMMA PublishCountRegistry ==
  ASSUME RegistryInv, CountInv', NEW t \in Threads, PublishCount(t)
  PROVE  RegistryInv'
<1>1. PICK k : call' = [call EXCEPT ![t].at = "post", ![t].job = k]
  BY DEF PublishCount
<1>2. /\ call[t].at = "count"
      /\ jobCpt' = [jobCpt EXCEPT ![call[t].sub] = @ + 1]
      /\ UNCHANGED <<vec, home, deleted>>
  BY DEF PublishCount
<1>3. /\ call[t].i > 0 /\ call[t].end = Len(vec[call[t].topic])
      /\ call[t].topic \in Topics /\ Changing = {}
      /\ call[t].sub \in ToSet(vec[call[t].topic])
      /\ call[t] \in Call /\ call \in [Threads -> Call]
      /\ jobCpt \in [Subs -> Nat] /\ deleted \subseteq Subs
  BY <1>2 DEF RegistryInv, CountInv, TypeOK, CallOK, ThreadOK, ViewsFresh,
              ViewFresh, Exclusion, Changing, Iterating
<1>4. call[t].sub \notin deleted
  BY <1>3 DEF RegistryInv, VectorsOK, VectorOK
<1>5. \A s \in deleted : jobCpt'[s] = jobCpt[s]
  BY <1>2, <1>3, <1>4
<1>6. /\ call'[t] = [call[t] EXCEPT !.at = "post", !.job = k]
      /\ \A u \in Threads \ {t} : call'[u] = call[u]
  BY <1>1, <1>3
<1>7. /\ call'[t].at = "post" /\ call'[t].i = call[t].i
      /\ call'[t].end = call[t].end /\ call'[t].topic = call[t].topic
  BY <1>3, <1>6 DEF Call
<1> QED
  BY <1>2, <1>3, <1>5, <1>6, <1>7, QuietStep

LEMMA PublishPostRegistry ==
  ASSUME RegistryInv, CountInv', NEW t \in Threads, PublishPost(t)
  PROVE  RegistryInv'
<1>1. /\ call[t].at = "post"
      /\ call' = [call EXCEPT ![t].at = "next", ![t].i = @ + 1,
                              ![t].sub = NoSub, ![t].job = NoJob]
      /\ UNCHANGED <<vec, home, deleted, jobCpt>>
  BY DEF PublishPost
<1>2. /\ call[t].i > 0 /\ call[t].end = Len(vec[call[t].topic])
      /\ Changing = {}
      /\ call[t] \in Call /\ call \in [Threads -> Call]
  BY <1>1 DEF RegistryInv, CountInv, TypeOK, ViewsFresh, ViewFresh, Exclusion,
              Changing, Iterating
<1>3. /\ call'[t] = [call[t] EXCEPT !.at = "next", !.i = @ + 1,
                                    !.sub = NoSub, !.job = NoJob]
      /\ \A u \in Threads \ {t} : call'[u] = call[u]
  BY <1>1, <1>2
<1>4. /\ call'[t].at = "next" /\ call'[t].i = call[t].i + 1
      /\ call'[t].end = call[t].end /\ call'[t].topic = call[t].topic
  BY <1>2, <1>3 DEF Call
<1>5. call'[t].i > 0
  <2>1. call[t].i \in Nat
    BY <1>2 DEF Call
  <2> QED
    BY <1>4, <2>1
<1>6. /\ call[t].at \notin {"insert", "erase", "wait"}
      /\ call'[t].at \notin {"insert", "erase", "wait"}
      /\ call'[t].at # "count"
      /\ \A s \in deleted : jobCpt'[s] = jobCpt[s]
  BY <1>1, <1>4
<1>7. call'[t].end = Len(vec[call'[t].topic])
  BY <1>2, <1>4
<1> QED
  BY <1>1, <1>2, <1>3, <1>5, <1>6, <1>7, QuietStep

(* PublishEnd and UnsubscribeUnknown.                                      *)
LEMMA QuietReturn ==
  ASSUME RegistryInv, CountInv', NEW t \in Threads, Return(t),
         call[t].at \notin {"insert", "erase", "wait"},
         UNCHANGED <<vec, home, deleted, jobCpt>>
  PROVE  RegistryInv'
<1>1. /\ call'[t].at \in {"idle", "returned"}
      /\ \A u \in Threads \ {t} : call'[u] = call[u]
  BY ReturnCall DEF RegistryInv, CountInv
<1> QED
  BY <1>1, QuietStep

LEMMA SubscribeBeginRegistry ==
  ASSUME Serialised, RegistryInv, CountInv', NEW t \in Threads,
         NEW s \in Subs, NEW p \in Topics, SubscribeBegin(t, s, p)
  PROVE  RegistryInv'
<1> DEFINE r == InCall("insert", p, s, 0, 0, vec[p])
<1>1. r.at = "insert" /\ r.topic = p /\ r.sub = s /\ r.seen = vec[p]
  BY DEF InCall
<1> HIDE DEF r
<1>2. /\ call[t].at = "idle" /\ Changing = {} /\ Iterating = {}
      /\ home[s] = NoTopic /\ home' = [home EXCEPT ![s] = p]
      /\ call' = [call EXCEPT ![t] = r]
      /\ UNCHANGED <<vec, deleted, jobCpt>>
  BY DEF SubscribeBegin, Free, MayChange, r
<1>3. /\ call'[t] = r /\ \A u \in Threads \ {t} : call'[u] = call[u]
      /\ home'[s] = p /\ \A x \in Subs \ {s} : home'[x] = home[x]
      /\ deleted \subseteq Subs
  BY <1>2 DEF RegistryInv, CountInv, TypeOK
<1>4. \A x : Leaving(x)' <=> Leaving(x)
  BY <1>1, <1>2, <1>3 DEF Leaving
<1>5. \A u \in Threads : call[u].at \notin {"insert", "erase", "next", "count", "post"}
  BY <1>2 DEF Changing, Iterating
<1>6. ~ Leaving(s) /\ s \notin deleted
  BY <1>2, PubSubAssumption DEF Leaving, RegistryInv, ViewsFresh, ViewFresh, Drained
<1>7. \A q \in Topics : s \notin ToSet(vec[q]) /\ ToSet(vec[q]) \subseteq Subs
  <2>1. ASSUME NEW q \in Topics PROVE ToSet(vec[q]) \subseteq Subs
    <3>1. vec[q] \in Seq(Subs)
      BY DEF RegistryInv, CountInv, TypeOK
    <3> QED
      BY <3>1 DEF ToSet
  <2> QED
    BY <2>1, <1>2, PubSubAssumption DEF RegistryInv, VectorsOK, VectorOK
<1>8. Exclusion'
  BY <1>1, <1>3, <1>5 DEF Exclusion, Changing, Iterating
<1>9. ViewsFresh'
  <2>1. ViewFresh(t)'
    BY <1>1, <1>2, <1>3, <1>4, <1>6, <1>7 DEF ViewFresh
  <2>2. ASSUME NEW u \in Threads \ {t} PROVE ViewFresh(u)'
    <3>1. ViewFresh(u) /\ call'[u] = call[u]
      BY <1>3 DEF RegistryInv, ViewsFresh
    <3>2. call[u].at = "wait" => call[u].sub \in Subs
      BY DEF RegistryInv, CountInv, CallOK, ThreadOK
    <3>3. call[u].at = "wait" => home'[call[u].sub] # NoTopic
      BY <3>1, <3>2, <1>3, PubSubAssumption DEF ViewFresh
    <3> QED
      BY <3>1, <3>3, <1>2, <1>5 DEF ViewFresh
  <2> QED
    BY <2>1, <2>2 DEF ViewsFresh
<1>10. VectorsOK'
  BY <1>2, <1>3, <1>4, <1>7 DEF RegistryInv, VectorsOK, VectorOK
<1>11. OneWaiter'
  BY <1>1, <1>3 DEF RegistryInv, OneWaiter
<1>12. Drained'
  BY <1>2, <1>3, PubSubAssumption DEF RegistryInv, Drained
<1>13. NoLostSubscription'
  <2> SUFFICES ASSUME NEW x \in Subs, Returned(x)', x \notin deleted, ~ Leaving(x)
               PROVE  x \in ToSet(vec'[home'[x]])
    BY <1>2, <1>4 DEF NoLostSubscription
  <2>1. x # s
    BY <1>1, <1>3 DEF Returned
  <2>2. Returned(x) /\ home'[x] = home[x]
    BY <2>1, <1>3, <1>5 DEF Returned
  <2> QED
    BY <2>2, <1>2 DEF RegistryInv, NoLostSubscription
<1> QED
  BY <1>8, <1>9, <1>10, <1>11, <1>12, <1>13 DEF RegistryInv

LEMMA SubscribeEndRegistry ==
  ASSUME RegistryInv, CountInv', NEW t \in Threads, SubscribeEnd(t)
  PROVE  RegistryInv'
<1>s. PICK s \in Subs : s = call[t].sub
  BY DEF SubscribeEnd, RegistryInv, CountInv, CallOK, ThreadOK
<1>p. PICK p \in Topics : p = call[t].topic
  BY DEF SubscribeEnd, RegistryInv, CountInv, CallOK, ThreadOK
<1>1. /\ call[t].at = "insert" /\ call[t].seen = vec[p]
      /\ home[s] = p /\ s \notin ToSet(vec[p]) /\ s \notin deleted
      /\ ~ Leaving(s)
  BY <1>s, <1>p DEF SubscribeEnd, RegistryInv, ViewsFresh, ViewFresh
<1>2. /\ vec' = [vec EXCEPT ![p] = Append(vec[p], s)]
      /\ UNCHANGED <<home, deleted, jobCpt>>
  BY <1>s, <1>p, <1>1 DEF SubscribeEnd
<1>3. /\ call'[t].at \in {"idle", "returned"}
      /\ \A u \in Threads \ {t} : call'[u] = call[u]
  BY ReturnCall DEF SubscribeEnd, RegistryInv, CountInv
<1>4. \A u \in Threads \ {t} :
        call[u].at \notin {"insert", "erase", "next", "count", "post"}
  BY <1>1, ChangerAlone
<1>5. \A x : Leaving(x)' <=> Leaving(x)
  BY <1>1, <1>3 DEF Leaving
<1>6. /\ vec'[p] = Append(vec[p], s)
      /\ \A q \in Topics \ {p} : vec'[q] = vec[q]
      /\ vec[p] \in Seq(Subs)
  BY <1>2 DEF RegistryInv, CountInv, TypeOK
<1>7. /\ ToSet(vec'[p]) = ToSet(vec[p]) \cup {s}
      /\ \A i, j \in 1 .. Len(vec'[p]) : vec'[p][i] = vec'[p][j] => i = j
  BY <1>1, <1>6, AppendSet DEF RegistryInv, VectorsOK, VectorOK
<1>8. Exclusion'
  BY <1>3, <1>4 DEF Exclusion, Changing, Iterating
<1>9. ViewsFresh'
  <2>1. ViewFresh(t)'
    BY <1>3 DEF ViewFresh
  <2>2. ASSUME NEW u \in Threads \ {t} PROVE ViewFresh(u)'
    <3>1. ViewFresh(u) /\ call'[u] = call[u]
      BY <1>3 DEF RegistryInv, ViewsFresh
    <3> QED
      BY <3>1, <1>2, <1>4 DEF ViewFresh
  <2> QED
    BY <2>1, <2>2 DEF ViewsFresh
<1>10. VectorsOK'
  <2>1. VectorOK(p)'
    BY <1>1, <1>2, <1>5, <1>7 DEF RegistryInv, VectorsOK, VectorOK
  <2>2. ASSUME NEW q \in Topics \ {p} PROVE VectorOK(q)'
    BY <1>2, <1>5, <1>6 DEF RegistryInv, VectorsOK, VectorOK
  <2> QED
    BY <2>1, <2>2 DEF VectorsOK
<1>11. OneWaiter' /\ Drained'
  BY <1>2, <1>3 DEF RegistryInv, OneWaiter, Drained
<1>12. NoLostSubscription'
  <2> SUFFICES ASSUME NEW x \in Subs, Returned(x)', x \notin deleted, ~ Leaving(x)
               PROVE  x \in ToSet(vec'[home[x]])
    BY <1>2, <1>5 DEF NoLostSubscription
  <2>1. CASE x = s
    BY <2>1, <1>1, <1>7
  <2>2. CASE x # s
    <3>1. Returned(x)
      BY <2>2, <1>s, <1>2, <1>3 DEF Returned
    <3>2. x \in ToSet(vec[home[x]]) /\ home[x] \in Topics
      BY <3>1 DEF RegistryInv, NoLostSubscription, Returned, CountInv, TypeOK
    <3> QED
      BY <3>2, <1>6, <1>7
  <2> QED
    BY <2>1, <2>2
<1> QED
  BY <1>8, <1>9, <1>10, <1>11, <1>12 DEF RegistryInv

LEMMA UnsubscribeFoundRegistry ==
  ASSUME Serialised, RegistryInv, CountInv', NEW t \in Threads,
         NEW s \in Subs, UnsubscribeFound(t, s)
  PROVE  RegistryInv'
<1>1. PICK i \in 1 .. Len(vec[home[s]]) :
        /\ vec[home[s]][i] = s
        /\ call' = [call EXCEPT ![t] = InCall("erase", home[s], s, i, 0, <<>>)]
  BY DEF UnsubscribeFound
<1> DEFINE r == InCall("erase", home[s], s, i, 0, <<>>)
<1>2. r.at = "erase" /\ r.topic = home[s] /\ r.sub = s /\ r.i = i
  BY DEF InCall
<1> HIDE DEF r
<1>3. /\ call[t].at = "idle" /\ Changing = {} /\ Iterating = {}
      /\ call' = [call EXCEPT ![t] = r]
      /\ UNCHANGED <<vec, home, deleted, jobCpt>>
  BY <1>1 DEF UnsubscribeFound, Free, MayChange, r
<1>4. call'[t] = r /\ \A u \in Threads \ {t} : call'[u] = call[u]
  BY <1>3 DEF RegistryInv, CountInv, TypeOK
<1>5. \A u \in Threads : call[u].at \notin {"insert", "erase", "next", "count", "post"}
  BY <1>3 DEF Changing, Iterating
<1>6. \A x : (Leaving(x)' <=> Leaving(x)) /\ (Returned(x)' <=> Returned(x))
  BY <1>2, <1>3, <1>4 DEF Leaving, Returned
<1>7. Exclusion'
  BY <1>2, <1>4, <1>5 DEF Exclusion, Changing, Iterating
<1>8. ViewsFresh'
  <2>1. ViewFresh(t)'
    BY <1>1, <1>2, <1>3, <1>4 DEF ViewFresh
  <2>2. ASSUME NEW u \in Threads \ {t} PROVE ViewFresh(u)'
    <3>1. ViewFresh(u) /\ call'[u] = call[u]
      BY <1>4 DEF RegistryInv, ViewsFresh
    <3> QED
      BY <3>1, <1>3, <1>5 DEF ViewFresh
  <2> QED
    BY <2>1, <2>2 DEF ViewsFresh
<1>9. VectorsOK' /\ NoLostSubscription'
  BY <1>3, <1>6 DEF RegistryInv, VectorsOK, VectorOK, NoLostSubscription
<1>10. OneWaiter' /\ Drained'
  BY <1>2, <1>3, <1>4 DEF RegistryInv, OneWaiter, Drained
<1> QED
  BY <1>7, <1>8, <1>9, <1>10 DEF RegistryInv

LEMMA UnsubscribeEraseRegistry ==
  ASSUME RegistryInv, CountInv', NEW t \in Threads, UnsubscribeErase(t)
  PROVE  RegistryInv'
<1>s. PICK s \in Subs : s = call[t].sub
  BY DEF UnsubscribeErase, RegistryInv, CountInv, CallOK, ThreadOK
<1>p. PICK p \in Topics : p = call[t].topic
  BY DEF UnsubscribeErase, RegistryInv, CountInv, CallOK, ThreadOK
<1>i. PICK i \in 1 .. Len(vec[p]) : i = call[t].i /\ vec[p][i] = s
  BY <1>s, <1>p DEF UnsubscribeErase, RegistryInv, ViewsFresh, ViewFresh
<1>1. /\ call[t].at = "erase"
      /\ vec' = [vec EXCEPT ![p] = RemoveAt(vec[p], i)]
      /\ call' = [call EXCEPT ![t].at = "wait"]
      /\ UNCHANGED <<home, deleted, jobCpt>>
  BY <1>p, <1>i DEF UnsubscribeErase
<1>2. /\ call[t] \in Call /\ call \in [Threads -> Call]
      /\ vec \in [Topics -> Seq(Subs)]
  BY DEF RegistryInv, CountInv, TypeOK
<1>3. /\ call'[t].at = "wait" /\ call'[t].sub = s
      /\ \A u \in Threads \ {t} : call'[u] = call[u]
  BY <1>1, <1>2, <1>s DEF Call
<1>4. \A u \in Threads \ {t} :
        call[u].at \notin {"insert", "erase", "next", "count", "post"}
  BY <1>1, ChangerAlone
<1>5. s \in ToSet(vec[p])
  BY <1>i, <1>2 DEF ToSet
<1>6. home[s] = p /\ s \notin deleted /\ ~ Leaving(s)
  BY <1>5 DEF RegistryInv, VectorsOK, VectorOK
<1>7. \A x : Leaving(x)' <=> Leaving(x) \/ x = s
  BY <1>1, <1>3 DEF Leaving
<1>8. /\ vec'[p] = RemoveAt(vec[p], i)
      /\ \A q \in Topics \ {p} : vec'[q] = vec[q]
  BY <1>1, <1>2
<1>9. /\ ToSet(vec'[p]) = ToSet(vec[p]) \ {s}
      /\ \A m, n \in 1 .. Len(vec'[p]) : vec'[p][m] = vec'[p][n] => m = n
  BY <1>2, <1>8, <1>i, RemoveSet DEF RegistryInv, VectorsOK, VectorOK
<1>10. Exclusion'
  BY <1>3, <1>4 DEF Exclusion, Changing, Iterating
<1>11. ViewsFresh'
  <2>1. ViewFresh(t)'
    BY <1>1, <1>3, <1>6, PubSubAssumption DEF ViewFresh
  <2>2. ASSUME NEW u \in Threads \ {t} PROVE ViewFresh(u)'
    <3>1. ViewFresh(u) /\ call'[u] = call[u]
      BY <1>3 DEF RegistryInv, ViewsFresh
    <3> QED
      BY <3>1, <1>1, <1>4 DEF ViewFresh
  <2> QED
    BY <2>1, <2>2 DEF ViewsFresh
<1>12. VectorsOK'
  <2>1. VectorOK(p)'
    BY <1>1, <1>7, <1>9 DEF RegistryInv, VectorsOK, VectorOK
  <2>2. ASSUME NEW q \in Topics \ {p} PROVE VectorOK(q)'
    <3>1. s \notin ToSet(vec[q])
      BY <1>6 DEF RegistryInv, VectorsOK, VectorOK
    <3> QED
      BY <3>1, <1>1, <1>7, <1>8 DEF RegistryInv, VectorsOK, VectorOK
  <2> QED
    BY <2>1, <2>2 DEF VectorsOK
<1>13. OneWaiter'
  <2>1. \A u \in Threads \ {t} : ~ (call[u].at = "wait" /\ call[u].sub = s)
    BY <1>6 DEF Leaving
  <2> QED
    BY <1>3, <2>1 DEF RegistryInv, OneWaiter
<1>14. Drained'
  BY <1>1 DEF RegistryInv, Drained
<1>15. NoLostSubscription'
  <2> SUFFICES ASSUME NEW x \in Subs, Returned(x)', x \notin deleted,
                      ~ Leaving(x), x # s
               PROVE  x \in ToSet(vec'[home[x]])
    BY <1>1, <1>7 DEF NoLostSubscription
  <2>1. Returned(x)
    BY <1>1, <1>3 DEF Returned
  <2>2. x \in ToSet(vec[home[x]]) /\ home[x] \in Topics
    BY <2>1 DEF RegistryInv, NoLostSubscription, Returned, CountInv, TypeOK
  <2> QED
    BY <2>2, <1>8, <1>9
<1> QED
  BY <1>10, <1>11, <1>12, <1>13, <1>14, <1>15 DEF RegistryInv

LEMMA UnsubscribeDeleteRegistry ==
  ASSUME RegistryInv, CountInv', NEW t \in Threads, UnsubscribeDelete(t)
  PROVE  RegistryInv'
<1>s. PICK s \in Subs : s = call[t].sub
  BY DEF UnsubscribeDelete, RegistryInv, CountInv, CallOK, ThreadOK
<1>1. /\ call[t].at = "wait" /\ jobCpt[s] = 0
      /\ deleted' = deleted \cup {s}
      /\ UNCHANGED <<vec, home, jobCpt>>
  BY <1>s DEF UnsubscribeDelete
<1>2. home[s] # NoTopic /\ Leaving(s)
  BY <1>s, <1>1 DEF RegistryInv, ViewsFresh, ViewFresh, Leaving
<1>3. /\ call'[t].at \in {"idle", "returned"}
      /\ \A u \in Threads \ {t} : call'[u] = call[u]
  BY ReturnCall DEF UnsubscribeDelete, RegistryInv, CountInv
<1>4. \A u \in Threads \ {t} : call[u].at = "wait" => call[u].sub # s
  BY <1>s, <1>1 DEF RegistryInv, OneWaiter
<1>5. \A x : Leaving(x)' <=> Leaving(x) /\ x # s
  BY <1>s, <1>1, <1>3, <1>4 DEF Leaving
<1>6. Exclusion'
  BY <1>1, <1>3 DEF RegistryInv, Exclusion, Changing, Iterating
<1>7. ViewsFresh'
  <2>1. ViewFresh(t)'
    BY <1>3 DEF ViewFresh
  <2>2. ASSUME NEW u \in Threads \ {t} PROVE ViewFresh(u)'
    <3>1. ViewFresh(u) /\ call'[u] = call[u]
      BY <1>3 DEF RegistryInv, ViewsFresh
    <3>2. call[u].at = "insert" => call[u].sub # s
      BY <3>1, <1>2 DEF ViewFresh
    <3> QED
      BY <3>1, <3>2, <1>1, <1>4, <1>5 DEF ViewFresh
  <2> QED
    BY <2>1, <2>2 DEF ViewsFresh
<1>8. VectorsOK'
  <2>1. \A q \in Topics : s \notin ToSet(vec[q])
    BY <1>2 DEF RegistryInv, VectorsOK, VectorOK
  <2> QED
    BY <2>1, <1>1, <1>5 DEF RegistryInv, VectorsOK, VectorOK
<1>9. OneWaiter'
  BY <1>3 DEF RegistryInv, OneWaiter
<1>10. Drained'
  BY <1>1, <1>2 DEF RegistryInv, Drained
<1>11. NoLostSubscription'
  <2>1. \A x : Returned(x)' => Returned(x)
    BY <1>1, <1>3 DEF Returned
  <2> QED
    BY <2>1, <1>1, <1>5 DEF RegistryInv, NoLostSubscription
<1> QED
  BY <1>6, <1>7, <1>8, <1>9, <1>10, <1>11 DEF RegistryInv

LEMMA InitRegistry == Init => RegistryInv
<1> SUFFICES ASSUME Init PROVE RegistryInv
  OBVIOUS
<1>1. CountInv
  BY InitCount
<1>2. \A t \in Threads : call[t].at = "idle"
  BY DEF Init, NoCall, InCall
<1>3. Exclusion /\ ViewsFresh /\ OneWaiter
  BY <1>2 DEF Exclusion, Changing, Iterating, ViewsFresh, ViewFresh, OneWaiter
<1>4. VectorsOK
  <2>1. ASSUME NEW p \in Topics PROVE ToSet(vec[p]) = {} /\ Len(vec[p]) = 0
    BY DEF Init, ToSet
  <2> QED
    BY <2>1 DEF VectorsOK, VectorOK
<1>5. Drained /\ NoLostSubscription
  BY DEF Init, Drained, NoLostSubscription, Returned
<1> QED
  BY <1>1, <1>3, <1>4, <1>5 DEF RegistryInv

LEMMA RegistryStep ==
  ASSUME Serialised, RegistryInv, [Next]_vars
  PROVE  RegistryInv'
<1>1. CountInv'
  BY CountStep DEF RegistryInv
<1>2. ASSUME NEW t \in Threads, BeginStep(t) PROVE RegistryInv'
  <2>1. ASSUME NEW s \in Subs, UnsubscribeUnknown(t, s) PROVE RegistryInv'
    BY <1>1, <2>1, QuietReturn DEF UnsubscribeUnknown, Free
  <2> QED
    BY <1>1, <1>2, <2>1, PublishBeginRegistry, SubscribeBeginRegistry,
       UnsubscribeFoundRegistry DEF BeginStep
<1>3. ASSUME NEW t \in Threads, CallStep(t) PROVE RegistryInv'
  <2>1. CASE PublishEnd(t)
    BY <1>1, <2>1, QuietReturn DEF PublishEnd
  <2> QED
    BY <1>1, <1>3, <2>1, PublishNextRegistry, PublishCountRegistry,
       PublishPostRegistry, SubscribeEndRegistry, UnsubscribeEraseRegistry,
       UnsubscribeDeleteRegistry DEF CallStep
<1>4. ASSUME NEW k \in Tasks, JobStart(k) \/ JobEnd(k) \/ JobThrow(k)
      PROVE  RegistryInv'
  BY <1>1, <1>4, SilentStep DEF JobStart, JobEnd, JobThrow, pubVars
<1>5. ASSUME NEW k \in Tasks, JobRelease(k) PROVE RegistryInv'
  <2>1. UNCHANGED <<vec, home, deleted, call>>
    BY <1>5 DEF JobRelease
  <2> QED
    BY <1>1, <1>5, <2>1, ReleaseKeepsDeleted, SilentStep
<1>6. CASE UNCHANGED vars
  BY <1>1, <1>6, SilentStep DEF vars, pubVars
<1> QED
  BY <1>2, <1>3, <1>4, <1>5, <1>6 DEF Next, BeginStep

LEMMA RegistryReclaims == RegistryInv => SafeReclaim
<1> SUFFICES ASSUME RegistryInv, NEW s \in deleted
             PROVE  /\ \A k \in (pending \cup executing) \ released : jobSub[k] # s
                    /\ \A t \in Threads :
                         call[t].sub = s => call[t].at \notin {"count", "post", "wait"}
  BY DEF SafeReclaim
<1>1. Outstanding(s) = {}
  <2>1. s \in Subs /\ jobCpt[s] = 0 /\ jobCpt[s] = Cardinality(Outstanding(s))
    BY DEF RegistryInv, CountInv, TypeOK, Drained, JobCount
  <2>2. IsFiniteSet(Outstanding(s))
    BY PubSubAssumption, FS_Subset DEF Outstanding
  <2> QED
    BY <2>1, <2>2, FS_EmptySet
<1>2. \A k \in (pending \cup executing) \ released : jobSub[k] # s
  BY <1>1 DEF Outstanding, RegistryInv, CountInv, TypeOK
<1>3. ASSUME NEW t \in Threads, call[t].sub = s
      PROVE  call[t].at \notin {"count", "post", "wait"}
  <2>1. ThreadOK(t) /\ ViewFresh(t)
    BY DEF RegistryInv, CountInv, CallOK, ViewsFresh
  <2>2. call[t].at # "post"
    BY <1>1, <1>3, <2>1 DEF ThreadOK, Outstanding
  <2>3. call[t].at # "wait"
    BY <1>3, <2>1 DEF ViewFresh
  <2>4. call[t].at # "count"
    BY <1>3, <2>1 DEF ThreadOK, ViewFresh, RegistryInv, VectorsOK, VectorOK
  <2> QED
    BY <2>2, <2>3, <2>4
<1> QED
  BY <1>2, <1>3

THEOREM RegistryInvariance ==
  ASSUME Serialised
  PROVE  Spec => []RegistryInv
<1>1. Init => RegistryInv
  BY InitRegistry
<1>2. RegistryInv /\ [Next]_vars => RegistryInv'
  BY RegistryStep
<1> QED
  BY <1>1, <1>2, PTL DEF Spec

(* With serialised callers unsubscribe never deletes a subscription that a *)
(* job, a publish or another unsubscribe can still reach, whatever the     *)
(* jobs do: the wait for jobCpt = 0 is enough.                             *)
THEOREM ReclaimIsSafe ==
  ASSUME Serialised
  PROVE  Spec => []SafeReclaim
<1>1. RegistryInv => SafeReclaim
  BY RegistryReclaims
<1> QED
  BY <1>1, RegistryInvariance, PTL

(* With serialised callers a subscription is in its topic's vector for as  *)
(* long as it should be.                                                   *)
THEOREM NoSubscriptionLost ==
  ASSUME Serialised
  PROVE  Spec => []NoLostSubscription
<1>1. RegistryInv => NoLostSubscription
  BY DEF RegistryInv
<1> QED
  BY <1>1, RegistryInvariance, PTL
===============================================================================
