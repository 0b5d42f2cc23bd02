----------------------------- MODULE UVLoopProofs -----------------------------
(***************************************************************************)
(* The types of the loop and its workers, and that a counter is exact      *)
(* unless two workers have run its callback at the same time.              *)
(***************************************************************************)
EXTENDS UVLoop, TLAPS

Step == {"pop", "begin", "load", "store"}
Count == 0 .. Wrap - 1

(* A queue's waiting jobs and the cells a pop holds up fit in the queue.   *)
QueueTyped ==
  /\ queue \in [Worker -> Seq(Kind)]
  /\ span \in [Worker -> [Worker -> 0 .. QueueSize]]
  /\ \A v, w \in Worker : Len(queue[v]) + span[v][w] <= QueueSize
  /\ target \in Worker

CallTyped ==
  /\ running \in [Worker -> Kind \cup {"none"}]
  /\ step \in [Worker -> Step]
  /\ loaded \in [Worker -> Count]
  /\ counter \in [Kind -> Count] /\ total \in [Kind -> Count]

SocketTyped ==
  /\ armed \in BOOLEAN /\ watched \in BOOLEAN /\ reused \in BOOLEAN
  /\ moved \in 0 .. PortChanges
  /\ unread \in Seq({0, 1}) /\ Len(unread) <= Buffer

(* A worker that is in a pop or a callback has a job.                      *)
IdleAtBegin == \A w \in Worker : running[w] = "none" => step[w] = "begin"

(* Only one worker runs a callback that has not overlapped.                *)
Alone ==
  \A k \in Kind \ overlapped, v, w \in Worker :
    InCallback(v, k) /\ InCallback(w, k) => v = w

(* What it has read of the counter is still true when it stores.           *)
Fresh ==
  \A k \in Kind \ overlapped, w \in Worker :
    running[w] = k /\ step[w] = "store" => loaded[w] = counter[k]

IInv ==
  /\ QueueTyped /\ CallTyped /\ SocketTyped /\ overlapped \subseteq Kind
  /\ IdleAtBegin /\ Alone /\ Fresh /\ Counted

-------------------------------------------------------------------------------
(* Who takes a job out of a queue gets a kind of job, and leaves one.      *)
LEMMA TakeType ==
  ASSUME NEW S, NEW s \in Seq(S), s # <<>>
  PROVE  /\ Head(s) \in S /\ Tail(s) \in Seq(S)
         /\ Len(Tail(s)) <= Len(s) /\ Len(Tail(s)) + 1 = Len(s)
  OBVIOUS

LEMMA PutType ==
  ASSUME NEW S, NEW s \in Seq(S), NEW k \in S
  PROVE  Append(s, k) \in Seq(S) /\ Len(Append(s, k)) = Len(s) + 1
  OBVIOUS

LEMMA CountType ==
  /\ 0 \in Count
  /\ \A n \in Nat : n % Wrap \in Count
  /\ Wrap \in Nat \ {0} /\ QueueSize \in Nat \ {0}
  BY UVLoopAssumption DEF Count

(* A value that is followed is the value itself.                           *)
LEMMA FollowedCount ==
  ASSUME NEW met, NEW k, NEW n \in Nat
  PROVE  /\ Followed(met, k, n) \in Count
         /\ k \notin met => Followed(met, k, n) = n % Wrap
         /\ k \notin met /\ n \in Count => Followed(met, k, n) = n
  BY UVLoopAssumption DEF Followed, Count

LEMMA InitInv == Init => IInv
<1> SUFFICES ASSUME Init PROVE IInv
  OBVIOUS
<1>1. QueueTyped
  <2>1. /\ queue = [w \in Worker |-> <<>>] /\ target = 0
        /\ span = [v \in Worker |-> [w \in Worker |-> 0]]
    BY DEF Init
  <2>2. 0 \in Worker /\ 0 \in 0 .. QueueSize /\ 0 + 0 <= QueueSize
    BY UVLoopAssumption DEF Worker
  <2>3. <<>> \in Seq(Kind) /\ Len(<<>>) = 0
    OBVIOUS
  <2> QED  BY <2>1, <2>2, <2>3 DEF QueueTyped
<1>2. CallTyped
  BY CountType DEF Init, CallTyped, Step
<1>3. SocketTyped
  <2>1. /\ armed \in BOOLEAN /\ watched \in BOOLEAN /\ reused \in BOOLEAN
    BY DEF Init
  <2>2. 0 \in 0 .. PortChanges /\ Len(<<>>) <= Buffer
    BY UVLoopAssumption
  <2>3. moved = 0 /\ unread = <<>>
    BY DEF Init
  <2> QED  BY <2>1, <2>2, <2>3 DEF SocketTyped
<1>4. overlapped \subseteq Kind
  BY DEF Init
<1>5. IdleAtBegin /\ Alone /\ Fresh
  BY DEF Init, IdleAtBegin, Alone, Fresh, InCallback, Kind
<1>6. Counted
  BY DEF Init, Counted
<1> QED  BY <1>1, <1>2, <1>3, <1>4, <1>5, <1>6 DEF IInv

(* The loop thread only changes the queues.                                *)
LEMMA ScheduleTyped ==
  ASSUME QueueTyped, NEW k \in Kind, Schedule(k)
  PROVE  QueueTyped'
<1>1. target \in Worker /\ target' \in Worker /\ span' = span
  BY DEF Schedule, QueueTyped
<1>2. CASE ~Room(target)
  BY <1>1, <1>2 DEF Schedule, QueueTyped
<1>3. CASE Room(target)
  <2>1. queue' = [queue EXCEPT ![target] = Append(@, k)]
    BY <1>3 DEF Schedule
  <2>2. queue[target] \in Seq(Kind)
    BY <1>1 DEF QueueTyped
  <2>3. /\ Append(queue[target], k) \in Seq(Kind)
        /\ Len(Append(queue[target], k)) = Len(queue[target]) + 1
    BY <2>2, PutType
  <2>4. queue' \in [Worker -> Seq(Kind)]
    BY <2>1, <2>3 DEF QueueTyped
  <2>5. ASSUME NEW v \in Worker, NEW w \in Worker
        PROVE  Len(queue'[v]) + span[v][w] <= QueueSize
    <3>1. CASE v = target
      <4>1. Len(queue[target]) + span[target][w] < QueueSize
        BY <1>3 DEF Room
      <4>2. span[target][w] \in Nat /\ Len(queue[target]) \in Nat
        BY <1>1, <2>2 DEF QueueTyped
      <4>3. Len(queue'[v]) = Len(queue[target]) + 1
        BY <2>1, <2>3, <3>1, <1>1 DEF QueueTyped
      <4>4. \A l, n \in Nat : l + n < QueueSize => (l + 1) + n <= QueueSize
        BY UVLoopAssumption
      <4> QED  BY <3>1, <4>1, <4>2, <4>3, <4>4
    <3>2. CASE v # target
      BY <2>1, <3>2 DEF QueueTyped
    <3> QED  BY <3>1, <3>2
  <2> QED  BY <1>1, <2>4, <2>5 DEF QueueTyped
<1> QED  BY <1>2, <1>3

(* A step that leaves the callbacks alone keeps what is known of them.     *)
LEMMA CallsSame ==
  ASSUME IInv, UNCHANGED <<running, step, countVars, overlapped>>
  PROVE  /\ CallTyped' /\ overlapped' \subseteq Kind
         /\ IdleAtBegin' /\ Alone' /\ Fresh' /\ Counted'
<1> USE DEF IInv, countVars
<1>1. CallTyped'
  BY DEF CallTyped
<1>2. IdleAtBegin' /\ Alone'
  BY DEF IdleAtBegin, Alone, InCallback
<1>3. Fresh'
  BY DEF Fresh
<1>4. Counted'
  BY DEF Counted
<1> QED  BY <1>1, <1>2, <1>3, <1>4

(* A worker whose callback ends leaves the counters as they are.           *)
LEMMA EndInv ==
  ASSUME IInv, NEW w \in Worker, step[w] = "begin",
         running' = [running EXCEPT ![w] = "none"],
         UNCHANGED <<step, countVars, overlapped>>
  PROVE  /\ CallTyped' /\ overlapped' \subseteq Kind
         /\ IdleAtBegin' /\ Alone' /\ Fresh' /\ Counted'
<1> USE DEF IInv, countVars
<1>1. CallTyped'
  BY DEF CallTyped
<1>2. \A v \in Worker : running'[v] = IF v = w THEN "none" ELSE running[v]
  BY DEF CallTyped
<1>3. "none" \notin Kind
  BY DEF Kind
<1>4. IdleAtBegin'
  BY <1>2 DEF IdleAtBegin
<1>5. Alone'
  BY <1>2, <1>3 DEF Alone, InCallback
<1>6. Fresh'
  BY <1>2, <1>3 DEF Fresh
<1>7. Counted'
  BY DEF Counted
<1> QED  BY <1>1, <1>4, <1>5, <1>6, <1>7

-------------------------------------------------------------------------------
LEMMA TickInv == IInv /\ Tick => IInv'
<1> SUFFICES ASSUME IInv, Tick PROVE IInv'
  OBVIOUS
<1>1. QueueTyped'
  BY ScheduleTyped DEF IInv, Tick, Kind
<1>2. SocketTyped'
  BY DEF IInv, Tick, SocketTyped, socketVars
<1>3. UNCHANGED <<running, step, countVars, overlapped>>
  BY DEF Tick
<1> QED  BY <1>1, <1>2, <1>3, CallsSame DEF IInv

LEMMA PollInv == IInv /\ Poll => IInv'
<1> SUFFICES ASSUME IInv, Poll PROVE IInv'
  OBVIOUS
<1>1. QueueTyped'
  BY ScheduleTyped DEF IInv, Poll, Kind
<1>2. SocketTyped'
  BY DEF IInv, Poll, SocketTyped, socketVars
<1>3. UNCHANGED <<running, step, countVars, overlapped>>
  BY DEF Poll
<1> QED  BY <1>1, <1>2, <1>3, CallsSame DEF IInv

LEMMA ArriveInv ==
  ASSUME NEW n \in {0, 1}
  PROVE  IInv /\ Arrive(n) => IInv'
<1> SUFFICES ASSUME IInv, Arrive(n) PROVE IInv'
  OBVIOUS
<1>1. QueueTyped'
  BY DEF IInv, Arrive, QueueTyped, queueVars
<1>2. SocketTyped'
  <2>1. /\ Append(unread, n) \in Seq({0, 1})
        /\ Len(Append(unread, n)) = Len(unread) + 1
    BY PutType DEF IInv, SocketTyped
  <2>2. Len(unread) \in Nat /\ Len(unread) < Buffer
    BY DEF IInv, SocketTyped, Arrive
  <2>3. Len(unread) + 1 <= Buffer
    BY <2>2, UVLoopAssumption
  <2> QED  BY <2>1, <2>3 DEF IInv, Arrive, SocketTyped, socketVars
<1>3. UNCHANGED <<running, step, countVars, overlapped>>
  BY DEF Arrive
<1> QED  BY <1>1, <1>2, <1>3, CallsSame DEF IInv

LEMMA SetPortInv ==
  ASSUME NEW same \in BOOLEAN
  PROVE  IInv /\ SetPort(same) => IInv'
<1> SUFFICES ASSUME IInv, SetPort(same) PROVE IInv'
  OBVIOUS
<1>1. QueueTyped'
  BY DEF IInv, SetPort, QueueTyped, queueVars
<1>2. SocketTyped'
  <2>1. moved + 1 \in 0 .. PortChanges
    BY UVLoopAssumption DEF IInv, SocketTyped, SetPort
  <2>2. <<>> \in Seq({0, 1}) /\ Len(<<>>) <= Buffer
    BY UVLoopAssumption
  <2> QED  BY <2>1, <2>2 DEF IInv, SetPort, SocketTyped
<1>3. UNCHANGED <<running, step, countVars, overlapped>>
  BY DEF SetPort
<1> QED  BY <1>1, <1>2, <1>3, CallsSame DEF IInv

LEMMA StartInv ==
  ASSUME NEW w \in Worker
  PROVE  IInv /\ Start(w) => IInv'
<1> SUFFICES ASSUME IInv, Start(w) PROVE IInv'
  OBVIOUS
<1> USE DEF IInv, countVars
<1>1. PICK v \in {w, Donor(w)} :
    /\ running[w] = "none"
    /\ queue[v] # <<>>
    /\ queue' = [queue EXCEPT ![v] = Tail(@)]
    /\ span' = [span EXCEPT ![v] = Claimed(w, span[v])]
    /\ running' = [running EXCEPT ![w] = Head(queue[v])]
    /\ step' = [step EXCEPT ![w] = "pop"]
    /\ UNCHANGED <<target, countVars, armed, unread, socketVars, overlapped>>
  BY DEF Start
<1>2. v \in Worker
  BY UVLoopAssumption DEF Donor, Worker
<1>3. queue[v] \in Seq(Kind)
  BY <1>2 DEF QueueTyped
<1>4. PICK h : h = Head(queue[v])
  OBVIOUS
<1>5. /\ h \in Kind /\ Tail(queue[v]) \in Seq(Kind)
      /\ Len(Tail(queue[v])) \in Nat /\ Len(queue[v]) = Len(Tail(queue[v])) + 1
  <2>1. /\ Head(queue[v]) \in Kind /\ Tail(queue[v]) \in Seq(Kind)
        /\ Len(Tail(queue[v])) + 1 = Len(queue[v])
    BY <1>1, <1>3, TakeType
  <2> QED  BY <1>4, <2>1
<1>6. QueueTyped'
  <2>1. \A u \in Worker : /\ span[v][u] \in Nat
                          /\ Len(queue[v]) + span[v][u] <= QueueSize
    BY <1>2 DEF QueueTyped
  <2>2. \A u \in Worker : /\ Claimed(w, span[v])[u] \in Nat
                          /\ Claimed(w, span[v])[u] <= span[v][u] + 1
    BY <2>1 DEF Claimed
  <2>3. \A u \in Worker :
          /\ Claimed(w, span[v])[u] \in 0 .. QueueSize
          /\ Len(Tail(queue[v])) + Claimed(w, span[v])[u] <= QueueSize
    <3> SUFFICES ASSUME NEW u \in Worker
                 PROVE  /\ Claimed(w, span[v])[u] \in 0 .. QueueSize
                        /\ Len(Tail(queue[v])) + Claimed(w, span[v])[u] <= QueueSize
      OBVIOUS
    <3>1. \A t, l, c, n \in Nat :
            l + n <= QueueSize /\ l = t + 1 /\ c <= n + 1
              => c \in 0 .. QueueSize /\ t + c <= QueueSize
      BY CountType
    <3>2. Len(queue[v]) \in Nat
      BY <1>5
    <3> QED  BY <1>5, <2>1, <2>2, <3>1, <3>2
  <2>4. Claimed(w, span[v]) \in [Worker -> 0 .. QueueSize]
    BY <2>3 DEF Claimed
  <2>5. /\ queue' \in [Worker -> Seq(Kind)]
        /\ span' \in [Worker -> [Worker -> 0 .. QueueSize]]
        /\ target' \in Worker
    BY <1>1, <1>5, <2>4 DEF QueueTyped
  <2>6. ASSUME NEW x \in Worker, NEW u \in Worker
        PROVE  Len(queue'[x]) + span'[x][u] <= QueueSize
    <3>1. CASE x = v
      BY <1>1, <2>3, <3>1 DEF QueueTyped
    <3>2. CASE x # v
      BY <1>1, <3>2 DEF QueueTyped
    <3> QED  BY <3>1, <3>2
  <2> QED  BY <2>5, <2>6 DEF QueueTyped
<1>7. CallTyped'
  BY <1>1, <1>4, <1>5 DEF CallTyped, Step
<1>8. SocketTyped'
  BY <1>1 DEF SocketTyped, socketVars
<1>9. \A u \in Worker : /\ running'[u] = IF u = w THEN h ELSE running[u]
                        /\ step'[u] = IF u = w THEN "pop" ELSE step[u]
  BY <1>1, <1>4 DEF CallTyped
<1>10. IdleAtBegin'
  BY <1>5, <1>9 DEF IdleAtBegin, Kind
<1>11. Alone'
  BY <1>1, <1>9 DEF Alone, InCallback
<1>12. Fresh'
  BY <1>1, <1>9 DEF Fresh
<1>13. Counted'
  BY <1>1 DEF Counted
<1>14. overlapped' \subseteq Kind
  BY <1>1
<1> QED  BY <1>6, <1>7, <1>8, <1>10, <1>11, <1>12, <1>13, <1>14

LEMMA ReleaseInv ==
  ASSUME NEW w \in Worker
  PROVE  IInv /\ Release(w) => IInv'
<1> SUFFICES ASSUME IInv, Release(w) PROVE IInv'
  OBVIOUS
<1> USE DEF IInv
<1>1. /\ step[w] = "pop"
      /\ span' = [v \in Worker |-> [span[v] EXCEPT ![w] = 0]]
      /\ step' = [step EXCEPT ![w] = "begin"]
      /\ overlapped' = overlapped \cup
           {k \in {running[w]} : \E u \in Worker : InCallback(u, k)}
      /\ UNCHANGED <<queue, target, running, armed, unread, socketVars>>
  BY DEF Release
<1>2. /\ counter' = [k \in Kind |-> Followed(overlapped', k, counter[k])]
      /\ total' = [k \in Kind |-> Followed(overlapped', k, total[k])]
      /\ loaded' =
           [u \in Worker |-> Followed(overlapped', running[u], loaded[u])]
  BY DEF Release
<1>3. QueueTyped'
  <2>1. 0 \in 0 .. QueueSize
    BY CountType
  <2>2. /\ span' \in [Worker -> [Worker -> 0 .. QueueSize]]
        /\ queue' = queue /\ target' = target
    BY <1>1, <2>1 DEF QueueTyped
  <2>3. ASSUME NEW v \in Worker, NEW u \in Worker
        PROVE  Len(queue[v]) + span'[v][u] <= QueueSize
    <3>1. /\ Len(queue[v]) \in Nat /\ span[v][u] \in Nat
          /\ Len(queue[v]) + span[v][u] <= QueueSize
      BY DEF QueueTyped
    <3>2. span'[v][u] = IF u = w THEN 0 ELSE span[v][u]
      BY <1>1 DEF QueueTyped
    <3>3. \A l, n \in Nat : l + n <= QueueSize => l + 0 <= QueueSize
      BY UVLoopAssumption
    <3> QED  BY <3>1, <3>2, <3>3
  <2> QED  BY <2>2, <2>3 DEF QueueTyped
<1>4. SocketTyped'
  BY <1>1 DEF SocketTyped, socketVars
<1>5. running[w] \in Kind
  BY <1>1 DEF CallTyped, IdleAtBegin
<1>6. /\ overlapped' \subseteq Kind /\ overlapped \subseteq overlapped'
      /\ running[w] \notin overlapped' =>
           \A u \in Worker : ~InCallback(u, running[w])
  BY <1>1, <1>5
<1>7. \A n \in Count : n \in Nat
  BY DEF Count
<1>8. CallTyped'
  <2>1. /\ running' \in [Worker -> Kind \cup {"none"}]
        /\ step' \in [Worker -> Step]
    BY <1>1 DEF CallTyped, Step
  <2>2. /\ \A k \in Kind : Followed(overlapped', k, counter[k]) \in Count
        /\ \A k \in Kind : Followed(overlapped', k, total[k]) \in Count
        /\ \A u \in Worker :
             Followed(overlapped', running[u], loaded[u]) \in Count
    BY <1>7, FollowedCount DEF CallTyped
  <2>3. loaded' \in [Worker -> Count]
    BY <1>2, <2>2
  <2>4. counter' \in [Kind -> Count] /\ total' \in [Kind -> Count]
    BY <1>2, <2>2
  <2> QED  BY <2>1, <2>3, <2>4 DEF CallTyped
<1>9. \A k \in Kind \ overlapped' : counter'[k] = counter[k] /\ total'[k] = total[k]
  BY <1>2, <1>7, FollowedCount DEF CallTyped
<1>10. \A u \in Worker : running[u] \notin overlapped' => loaded'[u] = loaded[u]
  BY <1>2, <1>7, FollowedCount DEF CallTyped
<1>11. \A u \in Worker : step'[u] = IF u = w THEN "begin" ELSE step[u]
  BY <1>1 DEF CallTyped
<1>12. IdleAtBegin'
  BY <1>1, <1>11 DEF IdleAtBegin
<1>13. Alone'
  <2> SUFFICES ASSUME NEW k \in Kind \ overlapped',
                      NEW u \in Worker, NEW x \in Worker,
                      InCallback(u, k)', InCallback(x, k)'
               PROVE  u = x
    BY DEF Alone
  <2>1. CASE k = running[w]
    BY <1>1, <1>6, <1>11, <2>1 DEF InCallback
  <2>2. CASE k # running[w]
    <3>1. InCallback(u, k) /\ InCallback(x, k)
      BY <1>1, <1>11, <2>2 DEF InCallback
    <3> QED  BY <1>6, <3>1 DEF Alone
  <2> QED  BY <2>1, <2>2
<1>14. Fresh'
  <2> SUFFICES ASSUME NEW k \in Kind \ overlapped', NEW u \in Worker,
                      running[u] = k, step'[u] = "store"
               PROVE  loaded'[u] = counter'[k]
    BY <1>1 DEF Fresh
  <2>1. step[u] = "store"
    BY <1>11
  <2>2. loaded[u] = counter[k]
    BY <1>6, <2>1 DEF Fresh
  <2> QED  BY <1>9, <1>10, <2>2
<1>15. Counted'
  BY <1>6, <1>9 DEF Counted
<1> QED  BY <1>3, <1>4, <1>6, <1>8, <1>12, <1>13, <1>14, <1>15

LEMMA ReadBytesInv ==
  ASSUME NEW w \in Worker
  PROVE  IInv /\ ReadBytes(w) => IInv'
<1> SUFFICES ASSUME IInv, ReadBytes(w) PROVE IInv'
  OBVIOUS
<1> USE DEF IInv, ReadBytes, Reading
<1>1. QueueTyped'
  BY DEF QueueTyped, queueVars
<1>2. SocketTyped'
  <2>1. /\ Tail(unread) \in Seq({0, 1}) /\ Len(Tail(unread)) <= Len(unread)
        /\ Len(unread) <= Buffer /\ Buffer \in Nat /\ Len(unread) \in Nat
        /\ Len(Tail(unread)) \in Nat
    BY TakeType, UVLoopAssumption DEF SocketTyped
  <2>2. Len(Tail(unread)) <= Buffer
    BY <2>1
  <2> QED  BY <2>1, <2>2 DEF SocketTyped, socketVars
<1>3. CallTyped'
  BY DEF CallTyped, Step, countVars
<1>4. \A u \in Worker : step'[u] = IF u = w THEN "load" ELSE step[u]
  BY DEF CallTyped
<1>5. IdleAtBegin' /\ Alone'
  BY <1>4 DEF IdleAtBegin, Alone, InCallback
<1>6. Fresh'
  BY <1>4 DEF Fresh, countVars
<1>7. Counted'
  BY DEF Counted, countVars
<1> QED  BY <1>1, <1>2, <1>3, <1>5, <1>6, <1>7

LEMMA ReadEmptyInv ==
  ASSUME NEW w \in Worker
  PROVE  IInv /\ ReadEmpty(w) => IInv'
<1> SUFFICES ASSUME IInv, ReadEmpty(w) PROVE IInv'
  OBVIOUS
<1>1. QueueTyped'
  BY DEF IInv, ReadEmpty, QueueTyped, queueVars
<1>2. SocketTyped'
  <2>1. /\ Tail(unread) \in Seq({0, 1}) /\ Len(Tail(unread)) <= Len(unread)
        /\ Len(unread) <= Buffer /\ Buffer \in Nat /\ Len(unread) \in Nat
        /\ Len(Tail(unread)) \in Nat
    BY TakeType, UVLoopAssumption DEF IInv, ReadEmpty, SocketTyped
  <2>2. Len(Tail(unread)) <= Buffer
    BY <2>1
  <2> QED  BY <2>1, <2>2 DEF IInv, ReadEmpty, SocketTyped, socketVars
<1>3. /\ step[w] = "begin" /\ running' = [running EXCEPT ![w] = "none"]
      /\ UNCHANGED <<step, countVars, overlapped>>
  BY DEF ReadEmpty, Reading
<1> QED  BY <1>1, <1>2, <1>3, EndInv DEF IInv

LEMMA ReadFailsInv ==
  ASSUME NEW w \in Worker
  PROVE  IInv /\ ReadFails(w) => IInv'
<1> SUFFICES ASSUME IInv, ReadFails(w) PROVE IInv'
  OBVIOUS
<1> USE DEF ReadFails, End, Reading
<1>1. QueueTyped'
  BY DEF IInv, QueueTyped, queueVars
<1>2. SocketTyped'
  BY DEF IInv, SocketTyped, socketVars
<1>3. /\ step[w] = "begin" /\ running' = [running EXCEPT ![w] = "none"]
      /\ UNCHANGED <<step, countVars, overlapped>>
  OBVIOUS
<1> QED  BY <1>1, <1>2, <1>3, EndInv DEF IInv

LEMMA LoadCounterInv ==
  ASSUME NEW w \in Worker
  PROVE  IInv /\ LoadCounter(w) => IInv'
<1> SUFFICES ASSUME IInv, LoadCounter(w) PROVE IInv'
  OBVIOUS
<1> USE DEF IInv, LoadCounter
<1>1. QueueTyped'
  BY DEF QueueTyped, queueVars
<1>2. SocketTyped'
  BY DEF SocketTyped, socketVars
<1>3. running[w] \in Kind
  BY DEF CallTyped
<1>4. PICK n \in Count : n = counter[running[w]]
  BY <1>3 DEF CallTyped
<1>5. /\ Followed(overlapped, running[w], n) \in Count
      /\ running[w] \notin overlapped => Followed(overlapped, running[w], n) = n
  BY FollowedCount DEF Count
<1>6. CallTyped'
  BY <1>4, <1>5 DEF CallTyped, Step
<1>7. \A u \in Worker :
        /\ step'[u] = IF u = w THEN "store" ELSE step[u]
        /\ loaded'[u] = IF u = w THEN Followed(overlapped, running[w], n)
                        ELSE loaded[u]
  BY <1>4 DEF CallTyped
<1>8. step[w] # "pop"
  OBVIOUS
<1>9. IdleAtBegin' /\ Alone'
  BY <1>7, <1>8 DEF IdleAtBegin, Alone, InCallback
<1>10. Fresh'
  BY <1>4, <1>5, <1>7 DEF Fresh
<1>11. Counted'
  BY DEF Counted
<1> QED  BY <1>1, <1>2, <1>6, <1>9, <1>10, <1>11

LEMMA StoreCounterInv ==
  ASSUME NEW w \in Worker
  PROVE  IInv /\ StoreCounter(w) => IInv'
<1> SUFFICES ASSUME IInv, StoreCounter(w) PROVE IInv'
  OBVIOUS
<1> USE DEF IInv
<1>1. PICK k : k = running[w]
  OBVIOUS
<1>2. /\ step[w] = "store"
      /\ step' = [step EXCEPT ![w] = "begin"]
      /\ loaded' = [loaded EXCEPT ![w] = 0]
      /\ running' = [running EXCEPT ![w] = IF k = "tick" THEN "none" ELSE @]
      /\ UNCHANGED <<queueVars, armed, unread, socketVars, overlapped>>
  BY <1>1 DEF StoreCounter
<1>3. /\ counter' = [counter EXCEPT ![k] = Followed(overlapped, k, loaded[w] + 1)]
      /\ total' = [total EXCEPT ![k] = Followed(overlapped, k, total[k] + 1)]
  BY <1>1 DEF StoreCounter
<1>4. QueueTyped'
  BY <1>2 DEF QueueTyped, queueVars
<1>5. SocketTyped'
  BY <1>2 DEF SocketTyped, socketVars
<1>6. k \in Kind
  BY <1>1, <1>2 DEF CallTyped, IdleAtBegin
<1>7. loaded[w] + 1 \in Nat /\ total[k] + 1 \in Nat
  BY <1>6, CountType DEF CallTyped, Count
<1>8. /\ Followed(overlapped, k, loaded[w] + 1) \in Count
      /\ Followed(overlapped, k, total[k] + 1) \in Count
  BY <1>7, FollowedCount
<1>9. CallTyped'
  <2>1. running' \in [Worker -> Kind \cup {"none"}]
    BY <1>2 DEF CallTyped
  <2>2. step' \in [Worker -> Step]
    BY <1>2 DEF CallTyped, Step
  <2>3. loaded' \in [Worker -> Count]
    BY <1>2, CountType DEF CallTyped
  <2>4. counter' \in [Kind -> Count] /\ total' \in [Kind -> Count]
    BY <1>3, <1>8 DEF CallTyped
  <2> QED  BY <2>1, <2>2, <2>3, <2>4 DEF CallTyped
<1>10. \A u \in Worker : /\ running'[u] \in {running[u], "none"}
                         /\ u # w => running'[u] = running[u]
                         /\ u # w => step'[u] = step[u] /\ loaded'[u] = loaded[u]
  BY <1>2 DEF CallTyped
<1>11. step'[w] = "begin"
  BY <1>2 DEF CallTyped
<1>12. \A l \in Kind : /\ l # k => counter'[l] = counter[l] /\ total'[l] = total[l]
                       /\ counter'[k] = Followed(overlapped, k, loaded[w] + 1)
                       /\ total'[k] = Followed(overlapped, k, total[k] + 1)
  BY <1>3, <1>6 DEF CallTyped
<1>13. "none" \notin Kind
  BY DEF Kind
<1>14. IdleAtBegin'
  BY <1>10, <1>11 DEF IdleAtBegin
<1>15. \A l \in Kind, u \in Worker : InCallback(u, l)' => InCallback(u, l)
  BY <1>2, <1>10, <1>13 DEF InCallback
<1>16. Alone'
  BY <1>2, <1>15 DEF Alone
<1>17. Fresh'
  <2> SUFFICES ASSUME NEW l \in Kind \ overlapped', NEW u \in Worker,
                      running'[u] = l, step'[u] = "store"
               PROVE  loaded'[u] = counter'[l]
    BY DEF Fresh
  <2>1. u # w
    BY <1>11
  <2>2. /\ l \in Kind \ overlapped
        /\ running[u] = l /\ step[u] = "store" /\ loaded'[u] = loaded[u]
    BY <1>2, <1>10, <2>1
  <2>3. l # k
    BY <2>1, <2>2, <1>1, <1>2 DEF Alone, InCallback
  <2>4. counter'[l] = counter[l]
    BY <2>2, <2>3, <1>12
  <2> QED  BY <2>2, <2>4 DEF Fresh
<1>18. Counted'
  <2> SUFFICES ASSUME NEW l \in Kind \ overlapped
               PROVE  counter'[l] = total'[l]
    BY <1>2 DEF Counted
  <2>1. counter[l] = total[l]
    BY DEF Counted
  <2>2. l = k => loaded[w] = counter[l]
    BY <1>1, <1>2 DEF Fresh
  <2> QED  BY <2>1, <2>2, <1>12
<1>19. overlapped' \subseteq Kind
  BY <1>2
<1> QED  BY <1>4, <1>5, <1>9, <1>14, <1>16, <1>17, <1>18, <1>19

LEMMA StutterInv == IInv /\ UNCHANGED vars => IInv'
<1> SUFFICES ASSUME IInv, UNCHANGED vars PROVE IInv'
  OBVIOUS
<1>1. QueueTyped' /\ SocketTyped'
  BY DEF IInv, vars, queueVars, socketVars, QueueTyped, SocketTyped
<1>2. UNCHANGED <<running, step, countVars, overlapped>>
  BY DEF vars
<1> QED  BY <1>1, <1>2, CallsSame DEF IInv

-------------------------------------------------------------------------------
(* The invariant behind the others (uvtimer.cc, uvpoller.cc): a counter    *)
(* that has not been shared in time is in the hands of one worker, and     *)
(* that worker's copy of it is current.                                    *)
THEOREM Invariance == Spec => []IInv
<1>1. ASSUME IInv, [Next]_vars PROVE IInv'
  <2>1. CASE Tick
    BY <1>1, <2>1, TickInv
  <2>2. CASE Poll
    BY <1>1, <2>2, PollInv
  <2>3. ASSUME NEW w \in Worker, WorkerStep(w) PROVE IInv'
    BY <1>1, <2>3, StartInv, ReleaseInv, ReadBytesInv, ReadEmptyInv, ReadFailsInv,
       LoadCounterInv, StoreCounterInv DEF WorkerStep
  <2>4. ASSUME NEW n \in {0, 1}, Arrive(n) PROVE IInv'
    BY <1>1, <2>4, ArriveInv
  <2>5. ASSUME NEW same \in BOOLEAN, SetPort(same) PROVE IInv'
    BY <1>1, <2>5, SetPortInv
  <2>6. CASE UNCHANGED vars
    BY <1>1, <2>6, StutterInv
  <2> QED  BY <1>1, <2>1, <2>2, <2>3, <2>4, <2>5, <2>6 DEF Next
<1> QED  BY <1>1, InitInv, PTL DEF Spec

(* Posting never runs into a cell that a pop has not given back, however   *)
(* the pops of owner and thief overlap (mpmc_bounded_queue.hpp: push), and  *)
(* the socket's buffer holds no more than its size.                        *)
THEOREM TypeCorrect == Spec => []TypeOK
<1>1. IInv => TypeOK
  <2> SUFFICES ASSUME IInv PROVE TypeOK
    OBVIOUS
  <2>1. Len(unread) <= Buffer
    BY UVLoopAssumption DEF IInv, SocketTyped
  <2> QED  BY <2>1 DEF IInv, QueueTyped, CallTyped, SocketTyped, TypeOK, Step, Count
<1> QED  BY <1>1, Invariance, PTL

(* Ticks and bytes are counted exactly (clock.cc: _cpt++, udpsrc.cc:       *)
(* _byteCpt += cc) until two executions of the callback meet, for any      *)
(* number of workers and size of queue, however many datagrams come,       *)
(* whatever jobs are refused and wherever the port is changed.             *)
THEOREM CountedExactly == Spec => []Counted
<1>1. IInv => Counted
  BY DEF IInv
<1> QED  BY <1>1, Invariance, PTL
===============================================================================
