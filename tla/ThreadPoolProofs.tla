--------------------------- MODULE ThreadPoolProofs ---------------------------
(***************************************************************************)
(* What holds of ThreadPool for every number of workers, queue size and    *)
(* set of tasks.  Inv is the inductive invariant: the two invariants of    *)
(* the module plus the bound of the queues and the state of the workers    *)
(* the destructor has already joined.                                      *)
(***************************************************************************)
EXTENDS ThreadPool, TLAPS, FiniteSetTheorems

-------------------------------------------------------------------------------
LEMMA WorkerNat == Worker \subseteq Nat /\ 0 \in Worker
BY ThreadPoolAssumption DEF Worker

LEMMA NextWorker ==
  ASSUME NEW w \in Worker
  PROVE  (w + 1) % NWorkers \in Worker
BY ThreadPoolAssumption DEF Worker

LEMMA InitInv == Init => Inv
<1> SUFFICES ASSUME Init PROVE Inv
  OBVIOUS
<1> USE DEF Init
<1>1. Pending = {} /\ Executing = {} /\ Taken = {}
  BY DEF Pending, Queued, Executing, Taken, TakenFrom, HasTask
<1>2. TypeOK
  BY ThreadPoolAssumption, WorkerNat DEF TypeOK, PC, HasTask
<1>3. QueuesDistinct /\ RunnersDistinct
  BY DEF QueuesDistinct, RunnersDistinct, HasTask
<1>4. QueuesBounded /\ JoinedExited
  BY ThreadPoolAssumption DEF QueuesBounded, JoinedExited, Worker
<1> QED
  BY <1>1, <1>2, <1>3, <1>4 DEF Inv, PlacesDisjoint, TakenOnce

(* TypeOK is inductive by itself.                                          *)
LEMMA TypeStep == TypeOK /\ [Next]_vars => TypeOK'
<1> SUFFICES ASSUME TypeOK, [Next]_vars PROVE TypeOK'
  OBVIOUS
<1> USE DEF TypeOK, PC, HasTask, queueVars, callVars, workerVars, poolVars
<1>1. CASE \E c \in Clients : GetWorker(c)
  BY <1>1, NextWorker DEF GetWorker
<1>2. ASSUME NEW t \in Threads, NEW w \in Worker, NEW k \in Tasks,
             PostAccepted(t, w, k)
      PROVE  TypeOK'
  <2>1. pushed[w] \in Seq(Tasks) /\ Append(pushed[w], k) \in Seq(Tasks)
    OBVIOUS
  <2>2. pushed' \in [Worker -> Seq(Tasks)]
    BY <1>2, <2>1 DEF PostAccepted
  <2>3. posting' \in [Threads -> Tasks \cup {NoTask}]
    BY <1>2 DEF PostAccepted
  <2>4. UNCHANGED <<m_dequeue_pos, callVars, workerVars, poolVars, finished,
                    refused>>
    BY <1>2 DEF PostAccepted
  <2> QED
    BY <2>2, <2>3, <2>4
<1>3. ASSUME NEW t \in Threads, NEW w \in Worker, NEW k \in Tasks,
             PostRefused(t, w, k)
      PROVE  TypeOK'
  BY <1>3 DEF PostRefused, PostReturns
<1>4. ASSUME NEW t \in Threads, PostStored(t)
      PROVE  TypeOK'
  BY <1>4 DEF PostStored, PostReturns
<1>5. ASSUME NEW w \in Worker, NEW v \in Worker, Take(w, v)
      PROVE  TypeOK'
  <2>1. pushed[v][m_dequeue_pos[v] + 1] \in Tasks
    BY <1>5 DEF Take, Ready
  <2> QED
    BY <1>5, <2>1 DEF Take
<1>6. ASSUME NEW w \in Worker, WorkerStep(w)
      PROVE  TypeOK'
  <2>1. CASE CheckRunning(w)
    BY <2>1 DEF CheckRunning
  <2>2. CASE Pop(w)
    BY <2>2, <1>5 DEF Pop
  <2>3. CASE PopNothing(w)
    BY <2>3 DEF PopNothing
  <2>4. CASE Steal(w)
    BY <2>4, <1>5, NextWorker DEF Steal, Donor
  <2>5. CASE StealNothing(w)
    BY <2>5 DEF StealNothing
  <2>6. CASE Release(w)
    BY <2>6 DEF Release
  <2>7. CASE EndHandler(w)
    BY <2>7 DEF EndHandler
  <2> QED
    BY <1>6, <2>1, <2>2, <2>3, <2>4, <2>5, <2>6, <2>7 DEF WorkerStep
<1>7. CASE BeginDestructor
  BY <1>7 DEF BeginDestructor
<1>8. CASE Destructor
  <2>1. CASE StopWorker
    BY <2>1 DEF StopWorker
  <2>2. CASE JoinWorker
    <3>1. joining + 1 \in 0 .. NWorkers
      BY <2>2, ThreadPoolAssumption DEF JoinWorker
    <3> QED
      BY <2>2, <3>1 DEF JoinWorker
  <2>3. CASE FreeWorkers
    BY <2>3 DEF FreeWorkers
  <2> QED
    BY <1>8, <2>1, <2>2, <2>3 DEF Destructor
<1>9. CASE UNCHANGED vars
  BY <1>9 DEF vars
<1> QED
  BY <1>1, <1>2, <1>3, <1>4, <1>6, <1>7, <1>8, <1>9 DEF Next

-------------------------------------------------------------------------------
(* Where a task goes: what the steps that move tasks do to Pending, Taken  *)
(* and Executing.                                                          *)

LEMMA AppendEntries ==
  ASSUME NEW S, NEW q \in Seq(S), NEW k \in S
  PROVE  /\ Len(q) \in Nat
         /\ Len(Append(q, k)) = Len(q) + 1
         /\ \A i \in 1 .. Len(q) : Append(q, k)[i] = q[i]
         /\ Append(q, k)[Len(q) + 1] = k
OBVIOUS

(* Every position of a queue is pending or taken.                          *)
LEMMA EntriesPlaced ==
  ASSUME Inv, NEW w \in Worker, NEW i \in 1 .. Len(pushed[w])
  PROVE  pushed[w][i] \in Pending \cup Taken
<1>1. Len(pushed[w]) \in Nat /\ m_dequeue_pos[w] \in Nat
  BY DEF Inv, TypeOK
<1>2. CASE i <= m_dequeue_pos[w]
  <2>1. i \in 1 .. m_dequeue_pos[w]
    BY <1>1, <1>2
  <2> QED
    BY <2>1 DEF Taken, TakenFrom
<1>3. CASE ~ (i <= m_dequeue_pos[w])
  <2>1. i \in m_dequeue_pos[w] + 1 .. Len(pushed[w])
    BY <1>1, <1>3
  <2> QED
    BY <2>1 DEF Pending, Queued
<1> QED
  BY <1>2, <1>3

(* A fresh task claims a cell.                                             *)
LEMMA PostPlaces ==
  ASSUME Inv, NEW t \in Threads, NEW w \in Worker, NEW k \in Tasks,
         PostAccepted(t, w, k)
  PROVE  /\ Pending' = Pending \cup {k}
         /\ Executing' = Executing
         /\ Taken' = Taken
         /\ QueuesDistinct'
<1> USE DEF Inv, TypeOK
<1>1. /\ pushed' = [pushed EXCEPT ![w] = Append(pushed[w], k)]
      /\ k \notin Pending \cup Executing \cup finished
      /\ pc' = pc /\ handler' = handler /\ m_dequeue_pos' = m_dequeue_pos
  BY DEF PostAccepted, Fresh, workerVars
<1>2. /\ Len(pushed'[w]) = Len(pushed[w]) + 1
      /\ \A i \in 1 .. Len(pushed[w]) : pushed'[w][i] = pushed[w][i]
      /\ pushed'[w][Len(pushed[w]) + 1] = k
      /\ \A v \in Worker \ {w} : pushed'[v] = pushed[v]
      /\ \A v \in Worker : Len(pushed[v]) \in Nat /\ m_dequeue_pos[v] \in Nat
      /\ \A v \in Worker : m_dequeue_pos[v] <= Len(pushed[v])
  BY <1>1, AppendEntries DEF QueuesBounded
<1>3. ASSUME NEW v \in Worker
      PROVE  Queued(v)' = IF v = w THEN Queued(v) \cup {k} ELSE Queued(v)
  <2>1. CASE v = w
    <3>1. m_dequeue_pos[w] + 1 .. Len(pushed'[w])
            = (m_dequeue_pos[w] + 1 .. Len(pushed[w])) \cup {Len(pushed[w]) + 1}
      BY <1>2
    <3>2. Queued(w)' = {pushed'[w][i] : i \in m_dequeue_pos[w] + 1 .. Len(pushed[w])}
                         \cup {k}
      <4>1. Queued(w)' = {pushed'[w][i] : i \in m_dequeue_pos[w] + 1 .. Len(pushed'[w])}
        BY <1>1 DEF Queued
      <4>2. pushed'[w][Len(pushed[w]) + 1] = k
        BY <1>2
      <4> HIDE <1>1, <1>2 DEF Inv, TypeOK
      <4> QED
        BY <3>1, <4>1, <4>2
    <3>3. \A i \in m_dequeue_pos[w] + 1 .. Len(pushed[w]) : i \in 1 .. Len(pushed[w])
      BY <1>2
    <3>4. {pushed'[w][i] : i \in m_dequeue_pos[w] + 1 .. Len(pushed[w])} = Queued(w)
      BY <1>2, <3>3 DEF Queued
    <3> QED
      BY <2>1, <3>2, <3>4
  <2>2. CASE v # w
    BY <2>2, <1>1, <1>2 DEF Queued
  <2> QED
    BY <2>1, <2>2
<1>4. Pending' = Pending \cup {k}
  BY <1>3 DEF Pending
<1>5. Executing' = Executing
  BY <1>1 DEF Executing
<1>6. Taken' = Taken
  <2>1. ASSUME NEW v \in Worker, NEW i \in 1 .. m_dequeue_pos[v]
        PROVE  pushed'[v][i] = pushed[v][i]
    <3>1. i \in 1 .. Len(pushed[v])
      BY <1>2
    <3> QED
      BY <3>1, <1>2
  <2>2. ASSUME NEW v \in Worker PROVE TakenFrom(v)' = TakenFrom(v)
    <3>1. TakenFrom(v)' = {pushed'[v][i] : i \in 1 .. m_dequeue_pos[v]}
      BY <1>1 DEF TakenFrom
    <3>2. \A i \in 1 .. m_dequeue_pos[v] : pushed'[v][i] = pushed[v][i]
      BY <2>1
    <3>3. TakenFrom(v)' = {pushed[v][i] : i \in 1 .. m_dequeue_pos[v]}
      BY <3>1, <3>2, Zenon
    <3> QED
      BY <3>3 DEF TakenFrom
  <2> QED
    BY <2>2 DEF Taken
<1>7. \A v \in Worker : \A i \in 1 .. Len(pushed[v]) : pushed[v][i] # k
  BY <1>1, EntriesPlaced DEF TakenOnce
<1>8. QueuesDistinct'
  <2> SUFFICES ASSUME NEW u \in Worker, NEW v \in Worker,
                      NEW i \in 1 .. Len(pushed'[u]), NEW j \in 1 .. Len(pushed'[v]),
                      pushed'[u][i] = pushed'[v][j]
               PROVE  u = v /\ i = j
    BY DEF QueuesDistinct
  <2>0. ASSUME NEW a \in Worker, NEW n \in 1 .. Len(pushed'[a])
        PROVE  \/ n \in 1 .. Len(pushed[a]) /\ pushed'[a][n] = pushed[a][n]
               \/ a = w /\ n = Len(pushed[w]) + 1 /\ pushed'[a][n] = k
    <3>1. CASE a = w
      <4>1. n \in 1 .. Len(pushed[w]) \/ n = Len(pushed[w]) + 1
        BY <1>2, <3>1
      <4> QED
        BY <4>1, <1>2, <3>1
    <3>2. CASE a # w
      BY <1>2, <3>2
    <3> QED
      BY <3>1, <3>2
  <2>1. \/ i \in 1 .. Len(pushed[u]) /\ pushed'[u][i] = pushed[u][i]
        \/ u = w /\ i = Len(pushed[w]) + 1 /\ pushed'[u][i] = k
    BY <2>0
  <2>2. \/ j \in 1 .. Len(pushed[v]) /\ pushed'[v][j] = pushed[v][j]
        \/ v = w /\ j = Len(pushed[w]) + 1 /\ pushed'[v][j] = k
    BY <2>0
  <2>3. CASE pushed'[u][i] = k
    <3>1. u = w /\ i = Len(pushed[w]) + 1
      BY <1>7, <2>1, <2>3
    <3>2. v = w /\ j = Len(pushed[w]) + 1
      BY <1>7, <2>2, <2>3
    <3> QED
      BY <3>1, <3>2
  <2>4. CASE pushed'[u][i] # k
    <3>1. i \in 1 .. Len(pushed[u]) /\ pushed'[u][i] = pushed[u][i]
      BY <2>1, <2>4
    <3>2. j \in 1 .. Len(pushed[v]) /\ pushed'[v][j] = pushed[v][j]
      BY <2>2, <2>4
    <3>3. pushed[u][i] = pushed[v][j]
      BY <3>1, <3>2
    <3>4. QueuesDistinct
      BY DEF Inv
    <3> QED
      BY <3>1, <3>2, <3>3, <3>4 DEF QueuesDistinct
  <2> QED
    BY <2>3, <2>4
<1> QED
  BY <1>4, <1>5, <1>6, <1>8

(* A pop or a steal: the task that First(v) names changes hands.            *)
First(v) == pushed[v][m_dequeue_pos[v] + 1]

LEMMA TakePlaces ==
  ASSUME Inv, NEW w \in Worker, NEW v \in Worker, pc[w] \notin HasTask, Take(w, v)
  PROVE  /\ First(v) \in Pending
         /\ Pending' = Pending \ {First(v)}
         /\ Executing' = Executing \cup {First(v)}
         /\ Taken' = Taken \cup {First(v)}
         /\ RunnersDistinct'
<1> USE DEF Inv, TypeOK
<1>1. /\ pushed' = pushed
      /\ m_dequeue_pos' = [m_dequeue_pos EXCEPT ![v] = m_dequeue_pos[v] + 1]
      /\ m_dequeue_pos[v] < Len(pushed[v])
      /\ pc' = [pc EXCEPT ![w] = "release"]
      /\ handler' = [handler EXCEPT ![w] = First(v)]
  BY DEF Take, Ready, First
<1>2. PICK n \in Nat : n = m_dequeue_pos[v]
  OBVIOUS
<1>3. PICK h : h = First(v)
  OBVIOUS
<1>4. /\ n + 1 \in n + 1 .. Len(pushed[v]) /\ n + 1 \in 1 .. Len(pushed[v])
      /\ h = pushed[v][n + 1]
      /\ m_dequeue_pos'[v] = n + 1
      /\ \A u \in Worker \ {v} : m_dequeue_pos'[u] = m_dequeue_pos[u]
      /\ \A u \in Worker : Len(pushed[u]) \in Nat /\ m_dequeue_pos[u] \in Nat
  BY <1>1, <1>2, <1>3 DEF First
<1>5. h \in Pending
  BY <1>4, <1>2 DEF Pending, Queued
<1>6. ASSUME NEW u \in Worker
      PROVE  Queued(u)' = Queued(u) \ {h}
  <2>1. CASE u = v
    <3>1. n + 1 .. Len(pushed[v]) = {n + 1} \cup (n + 2 .. Len(pushed[v]))
      BY <1>4
    <3>2. \A i \in n + 2 .. Len(pushed[v]) : i \in 1 .. Len(pushed[v]) /\ i # n + 1
      BY <1>4
    <3>3. \A i \in n + 2 .. Len(pushed[v]) : pushed[v][i] # h
      BY <3>2, <1>4 DEF QueuesDistinct
    <3>4. Queued(v) = {h} \cup {pushed[v][i] : i \in n + 2 .. Len(pushed[v])}
      BY <3>1, <1>2, <1>4 DEF Queued
    <3>5. n + 1 + 1 = n + 2
      OBVIOUS
    <3>6. Queued(v)' = {pushed[v][i] : i \in n + 2 .. Len(pushed[v])}
      BY <1>1, <1>4, <3>5 DEF Queued
    <3> QED
      BY <2>1, <3>3, <3>4, <3>6
  <2>2. CASE u # v
    <3>1. \A i \in m_dequeue_pos[u] + 1 .. Len(pushed[u]) : i \in 1 .. Len(pushed[u])
      BY <1>4
    <3>2. h \notin Queued(u)
      BY <2>2, <1>4, <3>1 DEF Queued, QueuesDistinct
    <3> QED
      BY <2>2, <3>2, <1>1, <1>4 DEF Queued
  <2> QED
    BY <2>1, <2>2
<1>7. Pending' = Pending \ {h}
  BY <1>6 DEF Pending
<1>8. /\ pc'[w] \in HasTask /\ handler'[w] = h
      /\ \A u \in Worker \ {w} : pc'[u] = pc[u] /\ handler'[u] = handler[u]
  BY <1>1, <1>3 DEF HasTask
<1>9. Executing' = Executing \cup {h}
  <2>1. ASSUME NEW x \in Executing' PROVE x \in Executing \cup {h}
    <3>1. PICK u \in Worker : pc'[u] \in HasTask /\ x = handler'[u]
      BY <2>1 DEF Executing
    <3> QED
      BY <3>1, <1>8 DEF Executing
  <2>2. ASSUME NEW x \in Executing PROVE x \in Executing'
    <3>1. PICK u \in Worker : pc[u] \in HasTask /\ x = handler[u]
      BY <2>2 DEF Executing
    <3>2. u # w
      BY <3>1
    <3> QED
      BY <3>1, <3>2, <1>8 DEF Executing
  <2>3. h \in Executing'
    BY <1>8 DEF Executing
  <2> QED
    BY <2>1, <2>2, <2>3
<1>10. Taken' = Taken \cup {h}
  <2>1. 1 .. n + 1 = (1 .. n) \cup {n + 1}
    OBVIOUS
  <2>2. {pushed[v][i] : i \in 1 .. n + 1} = {pushed[v][i] : i \in 1 .. n} \cup {h}
    BY <2>1, <1>4
  <2>3. ASSUME NEW u \in Worker
        PROVE  TakenFrom(u)' = TakenFrom(u) \cup (IF u = v THEN {h} ELSE {})
    BY <2>2, <1>1, <1>2, <1>4 DEF TakenFrom
  <2> QED
    BY <2>3 DEF Taken
<1>11. RunnersDistinct'
  <2>1. h \notin Executing
    BY <1>5 DEF PlacesDisjoint
  <2>2. \A u \in Worker \ {w} : pc[u] \in HasTask => handler[u] # h
    BY <2>1 DEF Executing
  <2> QED
    BY <1>8, <2>2 DEF RunnersDistinct
<1> QED
  BY <1>3, <1>5, <1>7, <1>9, <1>10, <1>11

(* The end of a handler.                                                   *)
LEMMA EndPlaces ==
  ASSUME Inv, NEW w \in Worker, EndHandler(w)
  PROVE  /\ handler[w] \in Executing
         /\ Executing' = Executing \ {handler[w]}
         /\ Pending' = Pending /\ Taken' = Taken
         /\ finished' = finished \cup {handler[w]}
         /\ refused' = refused
         /\ RunnersDistinct'
<1> USE DEF Inv, TypeOK
<1>1. /\ pc[w] = "run" /\ pc'[w] = "check"
      /\ \A u \in Worker \ {w} : pc'[u] = pc[u]
      /\ handler' = handler /\ pushed' = pushed
      /\ m_dequeue_pos' = m_dequeue_pos /\ refused' = refused
      /\ finished' = finished \cup {handler[w]}
  BY DEF EndHandler, queueVars
<1>2. handler[w] \in Executing
  BY <1>1 DEF Executing, HasTask
<1>3. \A u \in Worker \ {w} : pc[u] \in HasTask => handler[u] # handler[w]
  BY <1>1 DEF RunnersDistinct, HasTask
<1>4. Executing' = Executing \ {handler[w]}
  BY <1>1, <1>3 DEF Executing, HasTask
<1>5. Pending' = Pending /\ Taken' = Taken
  BY <1>1 DEF Pending, Queued, Taken, TakenFrom
<1>6. RunnersDistinct'
  BY <1>1 DEF RunnersDistinct, HasTask
<1> QED
  BY <1>1, <1>2, <1>4, <1>5, <1>6

-------------------------------------------------------------------------------
(* Every step preserves Inv.                                               *)

Places == ExclusiveTask /\ QueuesBounded

(* The steps that move no task.                                            *)
LEMMA StillPlaces ==
  ASSUME Inv, UNCHANGED <<pushed, m_dequeue_pos, finished, refused>>,
         \A w \in Worker : pc'[w] \in HasTask <=> pc[w] \in HasTask,
         \A w \in Worker : pc[w] \in HasTask => handler'[w] = handler[w]
  PROVE  /\ Pending' = Pending /\ Executing' = Executing
         /\ Places'
<1>1. Pending' = Pending /\ Taken' = Taken
  BY DEF Pending, Queued, Taken, TakenFrom
<1>2. Executing' = Executing
  BY DEF Executing
<1>3. QueuesDistinct' /\ QueuesBounded'
  BY DEF Inv, QueuesDistinct, QueuesBounded
<1>4. RunnersDistinct'
  BY DEF Inv, RunnersDistinct
<1> QED
  BY <1>1, <1>2, <1>3, <1>4
     DEF Inv, PlacesDisjoint, TakenOnce, Places, ExclusiveTask

(* A push that is not refused finds a free cell.                           *)
LEMMA FreeCell ==
  ASSUME Inv, NEW w \in Worker, ~Full(w)
  PROVE  Len(pushed[w]) - m_dequeue_pos[w] < QueueSize
<1> SUFFICES ASSUME Len(pushed[w]) - m_dequeue_pos[w] >= QueueSize
             PROVE  FALSE
  BY ThreadPoolAssumption DEF Inv, TypeOK
<1>1. PICK i : i = Len(pushed[w]) - QueueSize + 1
  OBVIOUS
<1>2. i \in m_dequeue_pos[w] + 1 .. Len(pushed[w]) /\ Len(pushed[w]) >= QueueSize
  BY <1>1, ThreadPoolAssumption DEF Inv, TypeOK
<1>3. pushed[w][i] \in Pending
  BY <1>2 DEF Pending, Queued
<1> QED
  BY <1>1, <1>2, <1>3 DEF Full

LEMMA PlacesStep == Inv /\ [Next]_vars => Places'
<1> SUFFICES ASSUME Inv, [Next]_vars
             PROVE  Places'
  OBVIOUS
<1> USE DEF queueVars, callVars, workerVars, poolVars
<1>1. CASE \E c \in Clients : GetWorker(c)
  BY <1>1, StillPlaces DEF GetWorker
<1>2. ASSUME NEW t \in Threads, NEW w \in Worker, NEW k \in Tasks,
             PostAccepted(t, w, k)
      PROVE  Places'
  <2>1. /\ Pending' = Pending \cup {k}
        /\ Executing' = Executing /\ Taken' = Taken
        /\ QueuesDistinct'
    BY <1>2, PostPlaces
  <2>2. k \notin Executing \cup finished \cup refused
    BY <1>2 DEF PostAccepted, Fresh
  <2>3. PlacesDisjoint' /\ TakenOnce'
    BY <1>2, <2>1, <2>2 DEF PostAccepted, Inv, PlacesDisjoint, TakenOnce
  <2>4. RunnersDistinct'
    BY <1>2 DEF PostAccepted, Inv, RunnersDistinct
  <2>5. QueuesBounded'
    <3>1. /\ pushed' = [pushed EXCEPT ![w] = Append(pushed[w], k)]
          /\ pushed \in [Worker -> Seq(Tasks)]
          /\ m_dequeue_pos' = m_dequeue_pos
          /\ Len(pushed[w]) - m_dequeue_pos[w] < QueueSize
      BY <1>2, FreeCell DEF PostAccepted, Inv, TypeOK
    <3>2. Len(Append(pushed[w], k)) = Len(pushed[w]) + 1 /\ Len(pushed[w]) \in Nat
      BY <3>1, AppendEntries
    <3>3. \A v \in Worker : Len(pushed'[v]) = IF v = w THEN Len(pushed[w]) + 1
                                                       ELSE Len(pushed[v])
      BY <3>1, <3>2
    <3>4. m_dequeue_pos \in [Worker -> Nat]
      BY DEF Inv, TypeOK
    <3>5. ASSUME NEW v \in Worker
          PROVE  /\ m_dequeue_pos'[v] <= Len(pushed'[v])
                 /\ Len(pushed'[v]) - m_dequeue_pos'[v] <= QueueSize
      <4>1. /\ m_dequeue_pos[v] \in Nat /\ Len(pushed[v]) \in Nat
            /\ m_dequeue_pos[v] <= Len(pushed[v])
            /\ Len(pushed[v]) - m_dequeue_pos[v] <= QueueSize
        <5>1. m_dequeue_pos[v] \in Nat /\ Len(pushed[v]) \in Nat
          <6>1. m_dequeue_pos[v] \in Nat
            BY <3>4
          <6>2. pushed[v] \in Seq(Tasks)
            BY <3>1
          <6> QED
            BY <6>1, <6>2
        <5>2. /\ m_dequeue_pos[v] <= Len(pushed[v])
              /\ Len(pushed[v]) - m_dequeue_pos[v] <= QueueSize
          BY DEF Inv, QueuesBounded
        <5> QED
          BY <5>1, <5>2
      <4>2. QueueSize \in Nat /\ m_dequeue_pos'[v] = m_dequeue_pos[v]
        BY <3>1, ThreadPoolAssumption
      <4>3. CASE v = w
        BY <3>1, <3>3, <4>1, <4>2, <4>3
      <4>4. CASE v # w
        BY <3>3, <4>1, <4>2, <4>4
      <4> QED
        BY <4>3, <4>4
    <3> QED
      BY <3>5 DEF QueuesBounded
  <2> QED
    BY <2>1, <2>3, <2>4, <2>5 DEF Places, ExclusiveTask
<1>3. ASSUME NEW t \in Threads, NEW w \in Worker, NEW k \in Tasks,
             PostRefused(t, w, k)
      PROVE  Places'
  <2>1. /\ UNCHANGED <<pushed, m_dequeue_pos, pc, handler, finished>>
        /\ refused' = refused \cup {k}
        /\ k \notin Pending \cup Executing \cup finished
    BY <1>3 DEF PostRefused, Fresh
  <2>2. Pending' = Pending /\ Executing' = Executing /\ Taken' = Taken
    BY <2>1 DEF Pending, Queued, Executing, Taken, TakenFrom
  <2>3. PlacesDisjoint' /\ TakenOnce'
    BY <2>1, <2>2 DEF Inv, PlacesDisjoint, TakenOnce
  <2>4. QueuesDistinct' /\ RunnersDistinct' /\ QueuesBounded'
    BY <2>1 DEF Inv, QueuesDistinct, RunnersDistinct, QueuesBounded
  <2> QED
    BY <2>3, <2>4 DEF Places, ExclusiveTask
<1>4. CASE \E t \in Threads : PostStored(t)
  BY <1>4, StillPlaces DEF PostStored
<1>5. ASSUME NEW w \in Worker, NEW v \in Worker, pc[w] \notin HasTask, Take(w, v)
      PROVE  Places'
  <2>1. /\ First(v) \in Pending
        /\ Pending' = Pending \ {First(v)}
        /\ Executing' = Executing \cup {First(v)}
        /\ Taken' = Taken \cup {First(v)}
        /\ RunnersDistinct'
    BY <1>5, TakePlaces
  <2>2. PlacesDisjoint' /\ TakenOnce'
    BY <1>5, <2>1 DEF Take, Inv, PlacesDisjoint, TakenOnce
  <2>3. QueuesDistinct'
    BY <1>5 DEF Take, Inv, QueuesDistinct
  <2>4. QueuesBounded'
    BY <1>5, ThreadPoolAssumption DEF Take, Ready, Inv, TypeOK, QueuesBounded
  <2> QED
    BY <2>1, <2>2, <2>3, <2>4 DEF Places, ExclusiveTask
<1>6. ASSUME NEW w \in Worker, WorkerStep(w)
      PROVE  Places'
  <2> USE DEF Inv, TypeOK, HasTask
  <2>1. CASE CheckRunning(w)
    BY <2>1, StillPlaces DEF CheckRunning
  <2>2. CASE Pop(w)
    BY <2>2, <1>5 DEF Pop
  <2>3. CASE PopNothing(w)
    BY <2>3, StillPlaces DEF PopNothing
  <2>4. CASE Steal(w)
    BY <2>4, <1>5, NextWorker DEF Steal, Donor
  <2>5. CASE StealNothing(w)
    BY <2>5, StillPlaces DEF StealNothing
  <2>6. CASE Release(w)
    BY <2>6, StillPlaces DEF Release
  <2>7. CASE EndHandler(w)
    <3>1. PlacesDisjoint' /\ RunnersDistinct' /\ TakenOnce'
      BY <2>7, EndPlaces DEF PlacesDisjoint, TakenOnce
    <3>2. pushed' = pushed /\ m_dequeue_pos' = m_dequeue_pos
      BY <2>7 DEF EndHandler
    <3> QED
      BY <3>1, <3>2 DEF QueuesDistinct, QueuesBounded, Places, ExclusiveTask
  <2> QED
    BY <1>6, <2>1, <2>2, <2>3, <2>4, <2>5, <2>6, <2>7 DEF WorkerStep
<1>7. CASE BeginDestructor \/ Destructor \/ UNCHANGED vars
  <2>1. UNCHANGED <<pushed, m_dequeue_pos, pc, handler, finished, refused>>
    BY <1>7 DEF BeginDestructor, Destructor, StopWorker, JoinWorker,
                FreeWorkers, vars
  <2> QED
    BY <2>1, StillPlaces
<1> QED
  BY <1>1, <1>2, <1>3, <1>4, <1>6, <1>7 DEF Next

LEMMA JoinedStep == Inv /\ [Next]_vars => JoinedExited'
<1> SUFFICES ASSUME Inv, [Next]_vars PROVE JoinedExited'
  OBVIOUS
<1> USE DEF Inv, JoinedExited, queueVars, callVars, workerVars, poolVars
<1>1. CASE \E c \in Clients : GetWorker(c)
  BY <1>1 DEF GetWorker
<1>2. CASE \/ \E t \in Threads, w \in Worker, k \in Tasks :
               PostAccepted(t, w, k) \/ PostRefused(t, w, k)
           \/ \E t \in Threads : PostStored(t)
  BY <1>2 DEF PostAccepted, PostRefused, PostStored
<1>3. ASSUME NEW w \in Worker, WorkerStep(w)
      PROVE  JoinedExited'
  <2>1. /\ pc[w] # "exited" /\ joining' = joining /\ dtor' = dtor
        /\ \A v \in Worker \ {w} : pc'[v] = pc[v]
    BY <1>3 DEF WorkerStep, CheckRunning, Pop, PopNothing, Steal, StealNothing,
                Release, EndHandler, Take, TypeOK
  <2>2. ~ (w < joining)
    BY <2>1
  <2> QED
    BY <2>1, <2>2
<1>4. CASE BeginDestructor
  BY <1>4 DEF BeginDestructor
<1>5. CASE StopWorker
  BY <1>5 DEF StopWorker
<1>6. CASE JoinWorker
  BY <1>6, ThreadPoolAssumption DEF JoinWorker, Worker, TypeOK
<1>7. CASE FreeWorkers
  BY <1>7 DEF FreeWorkers
<1>8. CASE UNCHANGED vars
  BY <1>8 DEF vars
<1> QED
  BY <1>1, <1>2, <1>3, <1>4, <1>5, <1>6, <1>7, <1>8 DEF Next, Destructor

(* Inv is an invariant of every pool.                                      *)
THEOREM Invariance == Spec => []Inv
<1>1. Init => Inv
  BY InitInv
<1>2. Inv /\ [Next]_vars => Inv'
  BY TypeStep, PlacesStep, JoinedStep DEF Inv, Places, ExclusiveTask
<1> QED
  BY <1>1, <1>2, PTL DEF Spec

(* Type correctness: queues hold tasks only, the round-robin counter and   *)
(* every target name a worker, a running worker has a task.                *)
THEOREM TypeCorrect == Spec => []TypeOK
<1>1. Inv => TypeOK
  BY DEF Inv
<1> QED
  BY <1>1, Invariance, PTL

(* However own pops, a sibling's steals and posts interleave, and for any  *)
(* number of workers and clients, no task is in two places and none is     *)
(* lost: a task that was accepted and has left its queue is in the hands   *)
(* of one worker or done, and a refused one is never run.                  *)
THEOREM Exclusive == Spec => []ExclusiveTask
<1>1. Inv => ExclusiveTask
  BY DEF Inv, ExclusiveTask
<1> QED
  BY <1>1, Invariance, PTL

(* ~ThreadPoolImpl frees no worker, and so no queue, that a thread of the  *)
(* pool can still touch.                                                   *)
THEOREM SafeDestruction == Spec => []NoThreadAfterFree
<1>1. Inv => NoThreadAfterFree
  BY ThreadPoolAssumption DEF Inv, TypeOK, JoinedExited, NoThreadAfterFree, Worker
<1> QED
  BY <1>1, Invariance, PTL

-------------------------------------------------------------------------------
(* The pool implements TaskPool.  The steps that move no task stutter; what *)
(* remains is to count: the bounds TaskPool puts on its sets.              *)

Entries(w) == {pushed[w][i] : i \in 1 .. Len(pushed[w])}

LEMMA EntriesCardinality ==
  ASSUME Inv, NEW w \in Worker
  PROVE  IsFiniteSet(Entries(w)) /\ Cardinality(Entries(w)) = Len(pushed[w])
<1> DEFINE I == 1 .. Len(pushed[w])
           f == [i \in I |-> pushed[w][i]]
<1>1. Len(pushed[w]) \in Nat
  BY DEF Inv, TypeOK
<1>2. IsFiniteSet(I) /\ Cardinality(I) = Len(pushed[w])
  BY <1>1, FS_Interval
<1>3. f \in Bijection(I, Entries(w))
  BY DEF Inv, QueuesDistinct, Entries, Bijection, Injection, Surjection,
         IsInjective
<1>4. ExistsBijection(I, Entries(w))
  BY <1>3 DEF ExistsBijection
<1> HIDE DEF I
<1> QED
  BY <1>2, <1>4, FS_Bijection

LEMMA WorkersFinite == IsFiniteSet(Worker) /\ Cardinality(Worker) = NWorkers
<1>1. 0 \in Int /\ NWorkers - 1 \in Int /\ ~ (0 > NWorkers - 1)
  BY ThreadPoolAssumption
<1>2. /\ IsFiniteSet(0 .. NWorkers - 1)
      /\ Cardinality(0 .. NWorkers - 1) = NWorkers - 1 - 0 + 1
  BY <1>1, FS_Interval
<1> QED
  BY <1>2, ThreadPoolAssumption DEF Worker

(* Every pending task has a cell of its own among the cells of all queues, *)
(* so one free cell keeps their number below the capacity of the pool.     *)
LEMMA PendingBelowCapacity ==
  ASSUME Inv, NEW w \in Worker, ~Full(w)
  PROVE  Cardinality(Pending) < NWorkers * QueueSize
<1> DEFINE Slots == Worker \X (1 .. QueueSize)
           Holds(x, p) ==
             /\ m_dequeue_pos[p[1]] + p[2] \in 1 .. Len(pushed[p[1]])
             /\ pushed[p[1]][m_dequeue_pos[p[1]] + p[2]] = x
           free == <<w, Len(pushed[w]) - m_dequeue_pos[w] + 1>>
           slot(x) == CHOOSE p \in Slots : Holds(x, p)
           f == [x \in Pending |-> slot(x)]
<1> \A v \in Worker : Len(pushed[v]) \in Nat /\ m_dequeue_pos[v] \in Nat
  BY DEF Inv, TypeOK
<1>1. IsFiniteSet(Slots) /\ Cardinality(Slots) = NWorkers * QueueSize
  <2>1. IsFiniteSet(1 .. QueueSize) /\ Cardinality(1 .. QueueSize) = QueueSize
    BY FS_Interval, ThreadPoolAssumption
  <2> QED
    BY <2>1, WorkersFinite, FS_Product
<1>2. free \in Slots
  BY FreeCell, ThreadPoolAssumption DEF Inv, QueuesBounded
<1>3. ASSUME NEW x \in Pending PROVE slot(x) \in Slots /\ Holds(x, slot(x))
  <2>1. PICK v \in Worker : x \in Queued(v)
    BY DEF Pending
  <2>2. PICK i \in m_dequeue_pos[v] + 1 .. Len(pushed[v]) : x = pushed[v][i]
    BY <2>1 DEF Queued
  <2>3. PICK j \in Int : j = i - m_dequeue_pos[v]
    BY <2>2
  <2>4. j \in 1 .. QueueSize /\ m_dequeue_pos[v] + j = i /\ i \in 1 .. Len(pushed[v])
    BY <2>2, <2>3, ThreadPoolAssumption DEF Inv, QueuesBounded
  <2>5. <<v, j>> \in Slots /\ Holds(x, <<v, j>>)
    BY <2>2, <2>4
  <2> HIDE DEF Slots, Holds
  <2> QED
    BY <2>5
<1>4. ASSUME NEW x \in Pending, NEW y \in Pending, slot(x) = slot(y)
      PROVE  x = y
  BY <1>3, <1>4
<1>5. ASSUME NEW x \in Pending PROVE slot(x) # free
  <2>1. ~ Holds(x, free)
    OBVIOUS
  <2> HIDE DEF Holds
  <2> QED
    BY <1>3, <2>1
<1> HIDE DEF Slots, Holds, free, slot
<1>6. f \in Injection(Pending, Slots \ {free})
  <2>1. f \in [Pending -> Slots \ {free}]
    BY <1>3, <1>5
  <2>2. \A x, y \in Pending : f[x] = f[y] => x = y
    BY <1>4
  <2> QED
    BY <2>1, <2>2 DEF Injection, IsInjective
<1>7. /\ IsFiniteSet(Slots \ {free})
      /\ Cardinality(Slots \ {free}) = NWorkers * QueueSize - 1
  BY <1>1, <1>2, FS_RemoveElement
<1>8. /\ IsFiniteSet(Pending)
      /\ Cardinality(Pending) <= NWorkers * QueueSize - 1
  BY <1>6, <1>7, FS_Injection
<1>9. NWorkers * QueueSize \in Int /\ Cardinality(Pending) \in Nat
  BY <1>8, ThreadPoolAssumption, FS_CardinalityType
<1> QED
  BY <1>8, <1>9

(* A refusal shows that QueueSize different tasks have been accepted, and  *)
(* that the first of the last QueueSize of them is not done.               *)
LEMMA AcceptedAboveFullQueue ==
  ASSUME Inv, NEW w \in Worker, Full(w)
  PROVE  /\ Cardinality(Pending \cup Executing \cup finished) >= QueueSize
         /\ Pending \cup Executing # {}
<1>1. IsFiniteSet(Entries(w)) /\ Cardinality(Entries(w)) = Len(pushed[w])
  BY EntriesCardinality
<1>2. IsFiniteSet(Pending \cup Taken)
  <2> DEFINE Q == {Entries(v) : v \in Worker}
             f == [v \in Worker |-> Entries(v)]
  <2>1. f \in Surjection(Worker, Q)
    BY DEF Surjection
  <2>2. IsFiniteSet(Q)
    BY <2>1, WorkersFinite, FS_Surjection
  <2>3. \A T \in Q : IsFiniteSet(T)
    BY EntriesCardinality
  <2> HIDE DEF Q
  <2>4. IsFiniteSet(UNION Q)
    BY <2>2, <2>3, FS_UNION
  <2>5. Pending \cup Taken \subseteq UNION Q
    <3>1. ASSUME NEW v \in Worker
          PROVE  /\ \A i \in m_dequeue_pos[v] + 1 .. Len(pushed[v]) :
                       i \in 1 .. Len(pushed[v])
                 /\ \A i \in 1 .. m_dequeue_pos[v] : i \in 1 .. Len(pushed[v])
      BY DEF Inv, TypeOK, QueuesBounded
    <3>2. Pending \subseteq UNION Q
      BY <3>1 DEF Pending, Queued, Q, Entries
    <3>3. Taken \subseteq UNION Q
      BY <3>1 DEF Taken, TakenFrom, Q, Entries
    <3> QED
      BY <3>2, <3>3
  <2> QED
    BY <2>4, <2>5, FS_Subset
<1>3. Pending \cup Taken = Pending \cup Executing \cup finished
  BY DEF Inv, TakenOnce
<1>4. Entries(w) \in SUBSET (Pending \cup Taken)
  BY EntriesPlaced DEF Entries
<1>5. Cardinality(Entries(w)) <= Cardinality(Pending \cup Taken)
  BY <1>2, <1>4, FS_Subset
<1>6. Cardinality(Pending \cup Taken) \in Nat /\ Len(pushed[w]) \in Nat
  BY <1>2, FS_CardinalityType DEF Inv, TypeOK
<1>7. Releasing \subseteq Executing
  BY DEF Releasing, Executing, HasTask
<1>8. Len(pushed[w]) >= QueueSize /\ Pending \cup Executing # {}
  BY <1>7 DEF Full
<1>9. Cardinality(Pending \cup Taken) >= QueueSize
  BY <1>1, <1>5, <1>6, <1>8, ThreadPoolAssumption
<1> QED
  BY <1>3, <1>8, <1>9

(* A worker that is not running a task leaves room among the running ones. *)
LEMMA ExecutingBelowWorkers ==
  ASSUME NEW w \in Worker, pc[w] \notin HasTask
  PROVE  Cardinality(Executing) < NWorkers
<1> DEFINE R == {v \in Worker : pc[v] \in HasTask}
           f == [v \in R |-> handler[v]]
<1>1. /\ IsFiniteSet(Worker \ {w})
      /\ Cardinality(Worker \ {w}) = NWorkers - 1
  BY WorkersFinite, FS_RemoveElement
<1>2. R \in SUBSET (Worker \ {w})
  OBVIOUS
<1>3. IsFiniteSet(R) /\ Cardinality(R) <= NWorkers - 1
  BY <1>1, <1>2, FS_Subset
<1>4. f \in Surjection(R, Executing)
  BY DEF Surjection, Executing
<1> HIDE DEF R, f
<1>5. IsFiniteSet(Executing) /\ Cardinality(Executing) <= Cardinality(R)
  BY <1>3, <1>4, FS_Surjection
<1>6. Cardinality(Executing) \in Nat /\ Cardinality(R) \in Nat
  BY <1>3, <1>5, FS_CardinalityType
<1> QED
  BY <1>3, <1>5, <1>6, ThreadPoolAssumption

LEMMA SameCardinality == \A S : Abstract!Cardinality(S) = Cardinality(S)
BY DEF Abstract!Cardinality, Cardinality

LEMMA StepImplements ==
  Inv /\ [Next]_vars => [Abstract!PoolNext]_(Abstract!poolVars)
<1> SUFFICES ASSUME Inv, [Next]_vars
             PROVE  [Abstract!PoolNext]_(Abstract!poolVars)
  OBVIOUS
<1> USE DEF Abstract!poolVars, queueVars, callVars, workerVars, poolVars
<1>1. CASE (\E c \in Clients : GetWorker(c)) \/ (\E t \in Threads : PostStored(t))
  <2>1. UNCHANGED <<pushed, m_dequeue_pos, pc, handler, finished, refused, dtor>>
    BY <1>1 DEF GetWorker, PostStored
  <2> QED
    BY <2>1 DEF Pending, Queued, Executing
<1>2. ASSUME NEW t \in Threads, NEW w \in Worker, NEW k \in Tasks,
             PostAccepted(t, w, k)
      PROVE  Abstract!Accept(k)
  <2>1. Cardinality(Pending) < NWorkers * QueueSize
    BY <1>2, PendingBelowCapacity DEF PostAccepted
  <2>2. Pending' = Pending \cup {k} /\ Executing' = Executing
    BY <1>2, PostPlaces
  <2>3. /\ UNCHANGED <<finished, refused>>
        /\ (dtor # "alive")' = (dtor # "alive")
        /\ k \in Tasks \ (Pending \cup Executing \cup finished \cup refused)
    BY <1>2 DEF PostAccepted, Fresh
  <2> QED
    BY SameCardinality, <2>1, <2>2, <2>3 DEF Abstract!Accept, Abstract!Submitted
<1>3. ASSUME NEW t \in Threads, NEW w \in Worker, NEW k \in Tasks,
             PostRefused(t, w, k)
      PROVE  Abstract!Refuse(k)
  <2>1. /\ Cardinality(Pending \cup Executing \cup finished) >= QueueSize
        /\ Pending \cup Executing # {}
    BY <1>3, AcceptedAboveFullQueue DEF PostRefused
  <2>2. UNCHANGED <<pushed, m_dequeue_pos, pc, handler>>
    BY <1>3 DEF PostRefused
  <2>3. Pending' = Pending /\ Executing' = Executing
    BY <2>2 DEF Pending, Queued, Executing
  <2>4. /\ finished' = finished /\ refused' = refused \cup {k}
        /\ (dtor # "alive")' = (dtor # "alive")
        /\ k \in Tasks \ (Pending \cup Executing \cup finished \cup refused)
    BY <1>3 DEF PostRefused, Fresh
  <2> QED
    BY SameCardinality, <2>1, <2>3, <2>4
       DEF Abstract!Refuse, Abstract!Submitted, Abstract!Accepted
<1>4. ASSUME NEW w \in Worker, NEW v \in Worker, pc[w] \notin HasTask, Take(w, v)
      PROVE  Abstract!Start(First(v))
  <2>1. Cardinality(Executing) < NWorkers
    BY <1>4, ExecutingBelowWorkers
  <2>2. /\ First(v) \in Pending
        /\ Pending' = Pending \ {First(v)}
        /\ Executing' = Executing \cup {First(v)}
    BY <1>4, TakePlaces
  <2>3. /\ UNCHANGED <<finished, refused>>
        /\ (dtor # "alive")' = (dtor # "alive")
    BY <1>4 DEF Take
  <2> QED
    BY SameCardinality, <2>1, <2>2, <2>3 DEF Abstract!Start
<1>5. ASSUME NEW w \in Worker, WorkerStep(w)
      PROVE  \/ \E k \in Tasks : Abstract!Start(k) \/ Abstract!Finish(k)
             \/ UNCHANGED Abstract!poolVars
  <2>1. CASE CheckRunning(w) \/ PopNothing(w) \/ StealNothing(w) \/ Release(w)
    <3>1. /\ UNCHANGED <<pushed, m_dequeue_pos, handler, finished, refused, dtor>>
          /\ pc'[w] \in HasTask <=> pc[w] \in HasTask
          /\ \A v \in Worker \ {w} : pc'[v] = pc[v]
      BY <2>1 DEF CheckRunning, PopNothing, StealNothing, Release, Inv, TypeOK,
                  HasTask
    <3>2. Pending' = Pending
      BY <3>1 DEF Pending, Queued
    <3>3. Executing' = Executing
      BY <3>1 DEF Executing
    <3> QED
      BY <3>1, <3>2, <3>3
  <2>2. CASE Pop(w) \/ Steal(w)
    <3>1. PICK v \in Worker : pc[w] \notin HasTask /\ Take(w, v)
      BY <2>2, NextWorker DEF Pop, Steal, Donor, HasTask
    <3>2. First(v) \in Tasks
      BY <3>1 DEF Take, Ready, First, Inv, TypeOK
    <3> QED
      BY <3>1, <3>2, <1>4
  <2>3. CASE EndHandler(w)
    <3>1. handler[w] \in Tasks
      BY <2>3 DEF EndHandler, Inv, TypeOK, HasTask
    <3>2. Abstract!Finish(handler[w])
      BY <2>3, EndPlaces DEF EndHandler, Abstract!Finish
    <3> QED
      BY <3>1, <3>2
  <2> QED
    BY <1>5, <2>1, <2>2, <2>3 DEF WorkerStep
<1>6. CASE BeginDestructor
  <2>1. UNCHANGED <<pushed, m_dequeue_pos, pc, handler, finished, refused>>
    BY <1>6 DEF BeginDestructor
  <2>2. Pending' = Pending /\ Executing' = Executing
    BY <2>1 DEF Pending, Queued, Executing
  <2>3. dtor = "alive" /\ dtor' = "stopping"
    BY <1>6 DEF BeginDestructor
  <2>4. Abstract!Close
    BY <2>1, <2>2, <2>3 DEF Abstract!Close
  <2> QED
    BY <2>4 DEF Abstract!PoolNext
<1>7. CASE Destructor \/ UNCHANGED vars
  <2>1. /\ UNCHANGED <<pushed, m_dequeue_pos, pc, handler, finished, refused>>
        /\ (dtor' # "alive") = (dtor # "alive")
    BY <1>7 DEF Destructor, StopWorker, JoinWorker, FreeWorkers, vars
  <2>2. Pending' = Pending /\ Executing' = Executing
    BY <2>1 DEF Pending, Queued, Executing
  <2> QED
    BY <2>1, <2>2
<1> QED
  BY <1>1, <1>2, <1>3, <1>5, <1>6, <1>7 DEF Next, Abstract!PoolNext

(* The pool keeps the promise of TaskPool (its safety part; the progress   *)
(* part is checked by TLC): a task is accepted or refused once, started at *)
(* most once, refused only when QueueSize tasks have been accepted and one *)
(* is not done, and never run by more than NWorkers threads at a time.     *)
THEOREM Implementation == Spec => SafeTaskPool
<1>1. Init => Abstract!PoolInit
  BY DEF Init, Abstract!PoolInit, Pending, Queued, Executing, HasTask
<1> QED
  BY <1>1, StepImplements, Invariance, PTL
     DEF Spec, SafeTaskPool, Abstract!PoolSpec
===============================================================================
