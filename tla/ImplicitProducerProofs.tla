------------------------ MODULE ImplicitProducerProofs ------------------------
(***************************************************************************)
(* Proofs about ImplicitProducer, along ImplicitProducerInvariants: no     *)
(* dequeue is let through to an element that is not there, a reader finds  *)
(* the block of its index, and the queue is WriterStreams, for every       *)
(* number of writers and readers and every size of blocks and index.       *)
(***************************************************************************)
EXTENDS ImplicitProducerInvariants, TLAPS, FiniteSetTheorems, SequenceTheorems,
        WellFoundedInduction

-------------------------------------------------------------------------------
LEMMA FiniteDraws ==
  ASSUME NEW n \in Nat, NEW S, S \subseteq 0 .. n - 1
  PROVE  /\ IsFiniteSet(S) /\ Cardinality(S) \in Nat
         /\ \A t : /\ IsFiniteSet(Below(S, t)) /\ Cardinality(Below(S, t)) \in Nat
                   /\ Cardinality(Below(S, t)) <= Cardinality(S)
<1>1. IsFiniteSet(0 .. n - 1) BY FS_Interval
<1>2. IsFiniteSet(S) BY <1>1, FS_Subset
<1>3. ASSUME NEW t
      PROVE  /\ IsFiniteSet(Below(S, t))
             /\ Cardinality(Below(S, t)) <= Cardinality(S)
  BY <1>2, FS_Subset DEF Below
<1> QED BY <1>2, <1>3, FS_CardinalityType

(* One more ticket fails: no count of failed tickets goes down.            *)
LEMMA OneMore ==
  ASSUME NEW n \in Nat, NEW S, S \subseteq 0 .. n - 1, NEW m \in 0 .. n - 1, m \notin S
  PROVE  /\ Cardinality(S \cup {m}) = Cardinality(S) + 1
         /\ \A t : Cardinality(Below(S, t)) <= Cardinality(Below(S \cup {m}, t))
<1>1. IsFiniteSet(S) /\ IsFiniteSet(S \cup {m}) BY FiniteDraws
<1>2. ASSUME NEW t
      PROVE  Cardinality(Below(S, t)) <= Cardinality(Below(S \cup {m}, t))
  BY FiniteDraws, FS_Subset DEF Below
<1> QED BY <1>1, <1>2, FS_AddElement

LEMMA FiniteInAt ==
  ASSUME NEW w, NEW a
  PROVE  IsFiniteSet(InAt(w, a)) /\ Cardinality(InAt(w, a)) \in Nat
<1>1. InAt(w, a) \subseteq Readers /\ IsFiniteSet(Readers)
  BY ImplicitProducerAssumption DEF InAt
<1> QED BY <1>1, FS_Subset, FS_CardinalityType

(* A reader that moves on leaves one set of readers and joins another.     *)
LEMMA MoveOn ==
  ASSUME CountType, NEW r \in Readers, NEW d \in DeqLocal,
         deq' = [deq EXCEPT ![r] = d]
  PROVE  /\ deq' \in [Readers -> DeqLocal]
         /\ deq'[r] = d /\ \A q \in Readers \ {r} : deq'[q] = deq[q]
         /\ \A w, a :
              InAt(w, a)' = IF d.of = w /\ d.at = a THEN InAt(w, a) \cup {r}
                                                    ELSE InAt(w, a) \ {r}
<1>1. deq' \in [Readers -> DeqLocal] BY DEF CountType
<1>2. deq'[r] = d /\ \A q \in Readers \ {r} : deq'[q] = deq[q] BY DEF CountType
<1> QED BY <1>1, <1>2 DEF InAt

(* A set of numbers has a least one.                                       *)
LEMMA LeastNatural ==
  ASSUME NEW S, S \subseteq Nat, S # {}
  PROVE  \E m \in S : \A k \in S : m <= k
<1>1. IsWellFoundedOn(OpToRel(<, Nat), Nat) BY NatLessThanWellFounded
<1>2. \E m \in S : \A k \in S : ~ (<<k, m>> \in OpToRel(<, Nat)) BY <1>1, WFMin
<1>3. ASSUME NEW m \in S, NEW k \in S, ~ (<<k, m>> \in OpToRel(<, Nat))
      PROVE  m <= k
  BY <1>3 DEF OpToRel
<1> QED BY <1>2, <1>3

(* What dequeue counts is bounded by what has been enqueued.               *)
LEMMA TookAtMostTail ==
  ASSUME CountType, NEW w \in Writers, Drawn(w), Enough(w)
  PROVE  Cardinality(took[w]) <= tailIndex[w]
<1> DEFINE n == dequeueOptimisticCount[w]
<1>0. n \in Nat /\ tailIndex[w] \in Nat /\ took[w] \subseteq Nat BY DEF CountType
<1>1. took[w] \subseteq 0 .. n - 1 /\ failed[w] \subseteq 0 .. n - 1 BY DEF Drawn
<1>2. CASE took[w] = {} BY <1>0, <1>2, FS_EmptySet
<1>3. CASE took[w] # {}
  <2>1. PICK t \in took[w] : \A u \in took[w] : u <= t
    <3>1. \E m \in Nat : \A u \in took[w] : u <= m BY <1>0, <1>1
    <3>2. PICK m \in Nat : /\ \A u \in took[w] : u <= m
                           /\ \A k \in Nat : (\A u \in took[w] : u <= k) => m <= k
      <4> DEFINE Upper == {k \in Nat : \A u \in took[w] : u <= k}
      <4>1. Upper # {} /\ Upper \subseteq Nat BY <3>1
      <4>2. \E m \in Upper : \A k \in Upper : m <= k BY <4>1, LeastNatural
      <4> QED BY <4>2
    <3>3. m \in took[w]
      <4>1. SUFFICES ASSUME m \notin took[w] PROVE FALSE OBVIOUS
      <4>2. PICK u \in took[w] : TRUE BY <1>3
      <4>3. m \in Nat \ {0} BY <1>0, <3>2, <4>1, <4>2
      <4>4. \A v \in took[w] : v <= m - 1 BY <1>0, <3>2, <4>1
      <4> QED BY <3>2, <4>3, <4>4
    <3> QED BY <3>2, <3>3
  <2> DEFINE F == Below(failed[w], t)
  <2> DEFINE All == 0 .. t
  <2>2. t \in Nat /\ All \subseteq Nat BY <1>0
  <2>3. IsFiniteSet(All) /\ Cardinality(All) = t + 1 BY <2>2, FS_Interval
  <2>4. F \subseteq All /\ All \cap F = F BY <1>1, <2>2 DEF Below
  <2>5. took[w] \subseteq All \ F BY <1>0, <2>1 DEF Drawn, Below
  <2>9. t + 1 <= tailIndex[w] + Cardinality(F) BY DEF Enough
  <2>10. Cardinality(F) \in Nat /\ Cardinality(took[w]) \in Nat
    BY <1>0, <1>1, FiniteDraws
  <2> HIDE DEF F, All
  <2>6. IsFiniteSet(All \ F) /\ Cardinality(All \ F) = Cardinality(All) - Cardinality(All \cap F)
    BY <2>3, FS_Difference
  <2>8. Cardinality(took[w]) <= Cardinality(All \ F) BY <2>5, <2>6, FS_Subset
  <2>11. Cardinality(All \cap F) = Cardinality(F) BY <2>4
  <2>12. Cardinality(All \ F) = t + 1 - Cardinality(F) BY <2>2, <2>3, <2>6, <2>10, <2>11
  <2> QED BY <1>0, <2>2, <2>8, <2>9, <2>10, <2>12
<1> QED BY <1>2, <1>3

-------------------------------------------------------------------------------
(* Steps that no stream's counters see.                                    *)

LEMMA InitTickets ==
  ASSUME Init
  PROVE  IInv
<1>1. CountType BY DEF Init, CountType, DeqLocal, DeqIdle
<1>2. ASSUME NEW w \in Writers, NEW a, a # "idle"
      PROVE  InAt(w, a) = {}
  BY <1>2 DEF Init, InAt, DeqIdle
<1>3. ASSUME NEW w \in Writers
      PROVE  Tickets(w)
  <2>1. took[w] = {} /\ failed[w] = {} /\ headIndex[w] = 0 /\ dequeueOvercommit[w] = 0
    BY DEF Init
  <2>2. Counted(w) BY <1>2, <2>1, FS_EmptySet DEF Counted
  <2>3. Drawn(w) /\ Older(w) /\ Enough(w) BY <1>2, <2>1 DEF Drawn, Older, Enough
  <2> QED BY <2>2, <2>3 DEF Tickets
<1> QED BY <1>1, <1>3 DEF IInv

LEMMA Quiet ==
  ASSUME IInv, UNCHANGED <<countVars, deq, took, failed>>
  PROVE  IInv'
<1>1. CountType' BY DEF IInv, CountType, countVars
<1>2. \A v, a : InAt(v, a)' = InAt(v, a) BY DEF InAt
<1>3. ASSUME NEW v \in Writers PROVE Tickets(v)'
  BY <1>2 DEF IInv, Tickets, Drawn, Counted, countVars, Older, Enough, Below
<1> QED BY <1>1, <1>3 DEF IInv

(* An enqueue: more elements than before.                                  *)
LEMMA PublishTickets ==
  ASSUME IInv, NEW w \in Writers, Publish(w)
  PROVE  IInv'
<1>1. CountType /\ CountType' BY DEF IInv, CountType, Publish, readVars, ghostVars
<1>2. \A v, a : InAt(v, a)' = InAt(v, a) BY DEF InAt, Publish, readVars
<1>3. ASSUME NEW v \in Writers
      PROVE  Tickets(v)'
  <2>1. Tickets(v) BY DEF IInv
  <2>2. Drawn(v)' /\ Counted(v)' /\ Older(v)'
    BY <1>2, <2>1 DEF Tickets, Drawn, Counted, Older, Below, Publish, readVars,
       ghostVars
  <2>3. tailIndex[v] <= tailIndex'[v] BY <1>1 DEF CountType, Publish
  <2>4. took'[v] = took[v] /\ failed'[v] = failed[v] /\ took[v] \subseteq Nat
    BY <1>1 DEF Publish, ghostVars, CountType
  <2>5. \A t : Cardinality(Below(failed[v], t)) \in Nat
    BY <1>1, <2>1, FiniteDraws DEF Tickets, Drawn, CountType
  <2>6. ASSUME NEW t \in took[v]
        PROVE  t + 1 <= tailIndex'[v] + Cardinality(Below(failed[v], t))
    BY <1>1, <2>1, <2>3, <2>4, <2>5 DEF Tickets, Enough, CountType
  <2>7. Enough(v)' BY <2>4, <2>6 DEF Enough, Below
  <2> QED BY <2>2, <2>7 DEF Tickets
<1> QED BY <1>1, <1>3 DEF IInv

(* A reader's step says nothing of a stream it is not at.                  *)
LEMMA OtherStream ==
  ASSUME CountType, NEW v \in Writers, Tickets(v),
         NEW r \in Readers, NEW d \in DeqLocal, deq' = [deq EXCEPT ![r] = d],
         deq[r].of # v \/ deq[r].at \notin Marked, d.of # v \/ d.at \notin Marked,
         tailIndex'[v] = tailIndex[v], headIndex'[v] = headIndex[v],
         dequeueOptimisticCount'[v] = dequeueOptimisticCount[v],
         dequeueOvercommit'[v] = dequeueOvercommit[v],
         took'[v] = took[v], failed'[v] = failed[v]
  PROVE  Tickets(v)'
<1>1. ASSUME NEW a \in Marked PROVE InAt(v, a)' = InAt(v, a) /\ r \notin InAt(v, a)
  BY MoveOn DEF InAt
<1>2. \A q \in Readers \ {r} : deq'[q] = deq[q] BY MoveOn
<1>3. \A a \in Marked : \A q \in InAt(v, a) : deq'[q] = deq[q] BY <1>1, <1>2 DEF InAt
<1>4. Counted(v)' BY <1>1 DEF Marked, Tickets, Counted
<1>5. Drawn(v)' BY <1>1, <1>3 DEF Marked, Tickets, Drawn
<1>6. Older(v)' /\ Enough(v)' BY <1>1, <1>3 DEF Marked, Tickets, Older, Enough, Below
<1> QED BY <1>4, <1>5, <1>6 DEF Tickets

(* A step from one place Tickets does not speak of to another.             *)
LEMMA Elsewhere ==
  ASSUME IInv, NEW r \in Readers, NEW d \in DeqLocal, deq' = [deq EXCEPT ![r] = d],
         deq[r].at \notin Marked, d.at \notin Marked, d.at # "idle" => d.of \in Writers,
         UNCHANGED <<countVars, took, failed>>
  PROVE  IInv'
<1>1. CountType BY DEF IInv
<1>2. CountType' BY <1>1, MoveOn DEF CountType, countVars
<1>3. ASSUME NEW v \in Writers PROVE Tickets(v)'
  BY <1>1, OtherStream DEF IInv, countVars
<1> QED BY <1>2, <1>3 DEF IInv

-------------------------------------------------------------------------------
(* The steps of a dequeue at its own stream.                               *)

LEMMA Walk ==
  ASSUME CountType, NEW w, NEW r \in Readers, NEW a, NEW d \in DeqLocal,
         deq[r].of = w, deq[r].at = a, deq' = [deq EXCEPT ![r] = d], d.at # a
  PROVE  Walks(w, r, a, d)
<1>1. deq'[r] = d /\ \A q \in Readers \ {r} : deq'[q] = deq[q] BY MoveOn
<1>2. ASSUME NEW b
      PROVE  InAt(w, b)' = IF d.of = w /\ d.at = b THEN InAt(w, b) \cup {r}
                                                   ELSE InAt(w, b) \ {r}
  BY <1>1 DEF InAt
<1>3. ASSUME NEW b, b # d.at, b # a PROVE InAt(w, b)' = InAt(w, b)
  BY <1>2, <1>3 DEF InAt
<1>4. \A b : \A q \in InAt(w, b)' : q # r => q \in InAt(w, b) /\ deq'[q] = deq[q]
  BY <1>1 DEF InAt
<1>5. \A b : b # d.at => r \notin InAt(w, b)' BY <1>1 DEF InAt
<1>6. r \in InAt(w, a) /\ Cardinality(InAt(w, a)') = Cardinality(InAt(w, a)) - 1
  <2>1. r \in InAt(w, a) BY DEF InAt
  <2>2. InAt(w, a)' = InAt(w, a) \ {r} BY <1>2
  <2>3. Cardinality(InAt(w, a) \ {r}) = Cardinality(InAt(w, a)) - 1
    BY <2>1, FiniteInAt, FS_RemoveElement
  <2> QED BY <2>1, <2>2, <2>3
<1>7. ASSUME d.of = w
      PROVE  Cardinality(InAt(w, d.at)') = Cardinality(InAt(w, d.at)) + 1
  <2>1. r \notin InAt(w, d.at) BY DEF InAt
  <2>2. InAt(w, d.at)' = InAt(w, d.at) \cup {r} BY <1>2, <1>7
  <2> QED BY <2>1, <2>2, FiniteInAt, FS_AddElement
<1> QED BY <1>1, <1>3, <1>4, <1>5, <1>6, <1>7 DEF Walks

(* Only its own stream is left to look at.                                 *)
LEMMA OwnStream ==
  ASSUME IInv, CountType', NEW w \in Writers, NEW r \in Readers,
         NEW d \in DeqLocal, deq' = [deq EXCEPT ![r] = d],
         deq[r].of = w, d.of # w => d.at \notin Marked /\ d.of \notin Writers,
         \A v \in Writers \ {w} :
           /\ tailIndex'[v] = tailIndex[v] /\ headIndex'[v] = headIndex[v]
           /\ dequeueOptimisticCount'[v] = dequeueOptimisticCount[v]
           /\ dequeueOvercommit'[v] = dequeueOvercommit[v]
           /\ took'[v] = took[v] /\ failed'[v] = failed[v],
         Drawn(w)', Counted(w)', Older(w)', Enough(w)'
  PROVE  IInv'
<1>1. ASSUME NEW v \in Writers, v # w PROVE Tickets(v)' BY <1>1, OtherStream DEF IInv
<1>2. Tickets(w)' BY DEF Tickets
<1> QED BY <1>1, <1>2 DEF IInv

LEMMA LoadOvercommitTickets ==
  ASSUME IInv, NEW r \in Readers, LoadOvercommit(r)
  PROVE  IInv'
<1>1. CountType /\ deq[r] \in DeqLocal /\ deq[r].of \in Writers /\ deq[r].at = "over"
  BY DEF IInv, CountType, LoadOvercommit
<1>2. PICK w \in Writers : deq[r].of = w BY <1>1
<1>3. PICK d \in DeqLocal :
        /\ deq' = [deq EXCEPT ![r] = d]
        /\ d.of = w /\ d.at = "count" /\ d.over = dequeueOvercommit[w]
  <2>1. dequeueOvercommit[w] \in Nat BY <1>1 DEF CountType
  <2>2. [deq[r] EXCEPT !.at = "count", !.over = dequeueOvercommit[w]] \in DeqLocal
    BY <1>1, <2>1 DEF DeqLocal
  <2>3. deq' = [deq EXCEPT ![r] =
                 [deq[r] EXCEPT !.at = "count", !.over = dequeueOvercommit[w]]]
    BY <1>1, <1>2 DEF LoadOvercommit, CountType
  <2> QED BY <1>1, <1>2, <2>2, <2>3 DEF DeqLocal
<1>4. UNCHANGED <<countVars, took, failed>> BY DEF LoadOvercommit, ghostVars
<1>5. CountType' BY <1>1, <1>3, <1>4, MoveOn DEF CountType, countVars
<1>6. Drawn(w) /\ Counted(w) /\ Older(w) /\ Enough(w) BY DEF IInv, Tickets
<1>7. /\ deq'[r] = d
      /\ \A b : b # "count" /\ b # "over" => InAt(w, b)' = InAt(w, b)
      /\ \A b : \A q \in InAt(w, b)' : q # r => q \in InAt(w, b) /\ deq'[q] = deq[q]
      /\ \A b : b # "count" => r \notin InAt(w, b)'
  <2>1. d.at # "over" BY <1>3
  <2>2. Walks(w, r, "over", d) BY <1>1, <1>2, <1>3, <2>1, Walk
  <2> QED BY <1>3, <2>2 DEF Walks
<1>8. d.over <= Cardinality(failed[w])
  BY <1>1, <1>3, <1>6, FiniteInAt DEF Counted, CountType
<1>9. Drawn(w)' /\ Counted(w)' BY <1>4, <1>6, <1>7 DEF Drawn, Counted, countVars
<1>10. Older(w)' /\ Enough(w)'
  BY <1>4, <1>6, <1>7, <1>8 DEF Older, Enough, Below, countVars
<1> QED BY <1>2, <1>3, <1>4, <1>5, <1>9, <1>10, OwnStream DEF IInv, countVars

LEMMA LoadOptimisticCountTickets ==
  ASSUME IInv, NEW r \in Readers, LoadOptimisticCount(r)
  PROVE  IInv'
<1>1. CountType /\ deq[r] \in DeqLocal /\ deq[r].of \in Writers /\ deq[r].at = "count"
  BY DEF IInv, CountType, LoadOptimisticCount
<1>2. PICK w \in Writers : deq[r].of = w BY <1>1
<1>3. PICK d \in DeqLocal :
        /\ deq' = [deq EXCEPT ![r] = d]
        /\ \/ d.of = w /\ d.at = "ticket" /\ d.over = deq[r].over
           \/ d.of = NoWriter /\ d.at = "idle"
  <2>1. DeqIdle \in DeqLocal /\ DeqIdle.of = NoWriter /\ DeqIdle.at = "idle"
    BY DEF DeqIdle, DeqLocal
  <2>2. [deq[r] EXCEPT !.at = "ticket"] \in DeqLocal BY <1>1 DEF DeqLocal
  <2>3. \/ deq' = [deq EXCEPT ![r] = [deq[r] EXCEPT !.at = "ticket"]]
        \/ deq' = [deq EXCEPT ![r] = DeqIdle]
    BY <1>1 DEF LoadOptimisticCount, Missed, CountType
  <2> QED BY <1>1, <1>2, <2>1, <2>2, <2>3 DEF DeqLocal
<1>4. UNCHANGED <<countVars, took, failed>> BY DEF LoadOptimisticCount
<1>5. CountType' BY <1>1, <1>3, <1>4, MoveOn DEF CountType, countVars
<1>6. Drawn(w) /\ Counted(w) /\ Older(w) /\ Enough(w) BY DEF IInv, Tickets
<1>7. Walks(w, r, "count", d) BY <1>1, <1>2, <1>3, Walk
<1>8. deq[r].over <= Cardinality(failed[w]) BY <1>6, <1>7 DEF Older, Walks
<1>9. Drawn(w)' /\ Counted(w)'
  BY <1>3, <1>4, <1>6, <1>7 DEF Walks, Drawn, Counted, countVars
<1>10. Older(w)' /\ Enough(w)'
  BY <1>3, <1>4, <1>6, <1>7, <1>8 DEF Walks, Older, Enough, Below, countVars
<1>11. d.of # w => d.at \notin Marked /\ d.of \notin Writers
  BY <1>3, ImplicitProducerAssumption DEF Marked
<1> QED BY <1>2, <1>3, <1>4, <1>5, <1>9, <1>10, <1>11, OwnStream DEF countVars

LEMMA AddOptimisticCountTickets ==
  ASSUME IInv, NEW r \in Readers, AddOptimisticCount(r)
  PROVE  IInv'
<1>1. CountType /\ deq[r] \in DeqLocal /\ deq[r].of \in Writers /\ deq[r].at = "ticket"
  BY DEF IInv, CountType, AddOptimisticCount
<1>2. PICK w \in Writers : deq[r].of = w BY <1>1
<1>3. PICK n \in Nat : dequeueOptimisticCount[w] = n BY <1>1 DEF CountType
<1>4. PICK d \in DeqLocal :
        /\ deq' = [deq EXCEPT ![r] = d]
        /\ d.of = w /\ d.at = "recheck" /\ d.over = deq[r].over /\ d.my = n
  <2>1. [deq[r] EXCEPT !.at = "recheck", !.my = n] \in DeqLocal BY <1>1 DEF DeqLocal
  <2>2. deq' = [deq EXCEPT ![r] = [deq[r] EXCEPT !.at = "recheck", !.my = n]]
    BY <1>1, <1>2, <1>3 DEF AddOptimisticCount, CountType
  <2> QED BY <1>1, <1>2, <2>1, <2>2 DEF DeqLocal
<1>5. /\ dequeueOptimisticCount' = [dequeueOptimisticCount EXCEPT ![w] = n + 1]
      /\ UNCHANGED <<tailIndex, headIndex, dequeueOvercommit, took, failed>>
  BY <1>2, <1>3 DEF AddOptimisticCount, ghostVars
<1>6. CountType' /\ dequeueOptimisticCount'[w] = n + 1
  BY <1>1, <1>4, <1>5, MoveOn DEF CountType
<1>7. Drawn(w) /\ Counted(w) /\ Older(w) /\ Enough(w) BY DEF IInv, Tickets
<1>8. Walks(w, r, "ticket", d) BY <1>1, <1>2, <1>4, Walk
<1>9. took[w] \cup failed[w] \subseteq 0 .. n - 1 BY <1>3, <1>7 DEF Drawn
<1>10. Drawn(w)'
  <2>1. took[w] \cup failed[w] \subseteq 0 .. n /\ n \notin took[w] \cup failed[w]
    BY <1>9
  <2>2. \A q \in InAt(w, "recheck")' \ {r} :
          /\ deq'[q].my \in 0 .. n - 1
          /\ deq'[q].my \notin took[w] \cup failed[w]
          /\ \A p \in InAt(w, "recheck")' \ {r, q} : deq'[p].my # deq'[q].my
    BY <1>3, <1>7, <1>8 DEF Walks, Drawn
  <2>3. deq'[r].my = n BY <1>4, <1>8 DEF Walks
  <2>4. \A q \in InAt(w, "recheck")' :
          /\ deq'[q].my \in 0 .. n
          /\ deq'[q].my \notin took[w] \cup failed[w]
          /\ \A p \in InAt(w, "recheck")' \ {q} : deq'[p].my # deq'[q].my
    BY <2>1, <2>2, <2>3
  <2>5. took'[w] = took[w] /\ failed'[w] = failed[w] /\ (n + 1) - 1 = n BY <1>5
  <2> QED BY <1>6, <1>7, <2>1, <2>4, <2>5 DEF Drawn
<1>11. Counted(w)' BY <1>4, <1>5, <1>7, <1>8 DEF Walks, Counted
<1>12. Older(w)'
  <2>1. Below(failed[w], n) = failed[w] BY <1>9 DEF Below
  <2>2. d.over <= Cardinality(failed[w]) BY <1>4, <1>7, <1>8 DEF Walks, Older
  <2>3. \A q \in InAt(w, "count")' \cup InAt(w, "ticket")' :
          deq'[q].over <= Cardinality(failed[w])
    BY <1>4, <1>7, <1>8 DEF Walks, Older
  <2>4. \A q \in InAt(w, "recheck")' :
          deq'[q].over <= Cardinality(Below(failed[w], deq'[q].my))
    BY <1>4, <1>7, <1>8, <2>1, <2>2 DEF Walks, Older
  <2> QED BY <1>5, <2>3, <2>4 DEF Older, Below
<1>13. Enough(w)' BY <1>5, <1>7 DEF Enough, Below
<1>14. \A v \in Writers \ {w} : dequeueOptimisticCount'[v] = dequeueOptimisticCount[v]
  BY <1>1, <1>5 DEF CountType
<1> QED BY <1>2, <1>4, <1>5, <1>6, <1>10, <1>11, <1>12, <1>13, <1>14, OwnStream

LEMMA AddOvercommitTickets ==
  ASSUME IInv, NEW r \in Readers, AddOvercommit(r)
  PROVE  IInv'
<1>1. CountType /\ deq[r] \in DeqLocal /\ deq[r].of \in Writers /\ deq[r].at = "overcommit"
  BY DEF IInv, CountType, AddOvercommit
<1>2. PICK w \in Writers : deq[r].of = w BY <1>1
<1>3. PICK d \in DeqLocal :
        deq' = [deq EXCEPT ![r] = d] /\ d.of = NoWriter /\ d.at = "idle"
  <2>1. DeqIdle \in DeqLocal /\ DeqIdle.of = NoWriter /\ DeqIdle.at = "idle"
    BY DEF DeqIdle, DeqLocal
  <2> QED BY <2>1 DEF AddOvercommit, Missed
<1>4. /\ dequeueOvercommit' = [dequeueOvercommit EXCEPT ![w] = @ + 1]
      /\ UNCHANGED <<tailIndex, headIndex, dequeueOptimisticCount, took, failed>>
  BY <1>2 DEF AddOvercommit
<1>5. /\ CountType' /\ dequeueOvercommit'[w] = dequeueOvercommit[w] + 1
      /\ dequeueOvercommit[w] \in Nat
  BY <1>1, <1>3, <1>4, MoveOn DEF CountType
<1>6. Drawn(w) /\ Counted(w) /\ Older(w) /\ Enough(w) BY DEF IInv, Tickets
<1>7. Walks(w, r, "overcommit", d) BY <1>1, <1>2, <1>3, Walk
<1>8. Counted(w)' BY <1>3, <1>4, <1>5, <1>6, <1>7, FiniteInAt DEF Counted, Walks
<1>9. Drawn(w)' /\ Older(w)' /\ Enough(w)'
  BY <1>3, <1>4, <1>6, <1>7 DEF Walks, Drawn, Older, Enough, Below
<1>10. d.of # w => d.at \notin Marked /\ d.of \notin Writers
  BY <1>3, ImplicitProducerAssumption DEF Marked
<1>11. \A v \in Writers \ {w} : dequeueOvercommit'[v] = dequeueOvercommit[v]
  BY <1>1, <1>4 DEF CountType
<1> QED BY <1>2, <1>3, <1>4, <1>5, <1>8, <1>9, <1>10, <1>11, OwnStream

LEMMA ClaimTickets ==
  ASSUME IInv, NEW r \in Readers, Claim(r)
  PROVE  IInv'
<1>1. CountType /\ deq[r] \in DeqLocal /\ deq[r].of \in Writers /\ deq[r].at = "claim"
  BY DEF IInv, CountType, Claim
<1>2. PICK w \in Writers : deq[r].of = w BY <1>1
<1>3. PICK d \in DeqLocal :
        deq' = [deq EXCEPT ![r] = d] /\ d.of = w /\ d.at = "header"
  <2>1. headIndex[w] \in Nat BY <1>1 DEF CountType
  <2>2. [DeqIdle EXCEPT !.at = "header", !.of = w, !.index = headIndex[w]] \in DeqLocal
    BY <2>1 DEF DeqIdle, DeqLocal
  <2> QED BY <1>2, <2>2 DEF Claim, DeqIdle, DeqLocal
<1>4. /\ headIndex' = [headIndex EXCEPT ![w] = @ + 1]
      /\ UNCHANGED <<tailIndex, dequeueOptimisticCount, dequeueOvercommit, took, failed>>
  BY <1>2 DEF Claim
<1>5. CountType' /\ headIndex'[w] = headIndex[w] + 1 /\ headIndex[w] \in Nat
  BY <1>1, <1>3, <1>4, MoveOn DEF CountType
<1>6. Drawn(w) /\ Counted(w) /\ Older(w) /\ Enough(w) BY DEF IInv, Tickets
<1>7. Walks(w, r, "claim", d) BY <1>1, <1>2, <1>3, Walk
<1>8. Counted(w)' BY <1>3, <1>4, <1>5, <1>6, <1>7, FiniteInAt DEF Counted, Walks
<1>9. Drawn(w)' /\ Older(w)' /\ Enough(w)'
  BY <1>3, <1>4, <1>6, <1>7 DEF Walks, Drawn, Older, Enough, Below
<1>10. \A v \in Writers \ {w} : headIndex'[v] = headIndex[v] BY <1>1, <1>4 DEF CountType
<1> QED BY <1>2, <1>3, <1>4, <1>5, <1>8, <1>9, <1>10, OwnStream

LEMMA RecheckTickets ==
  ASSUME IInv, NEW r \in Readers, Recheck(r)
  PROVE  IInv'
<1>1. CountType /\ deq[r] \in DeqLocal /\ deq[r].of \in Writers /\ deq[r].at = "recheck"
  BY DEF IInv, CountType, Recheck
<1>2. PICK w \in Writers : deq[r].of = w BY <1>1
<1>3. PICK m \in Nat : deq[r].my = m BY <1>1 DEF DeqLocal
<1>4. PICK d \in DeqLocal :
        /\ deq' = [deq EXCEPT ![r] = d] /\ d.of = w
        /\ \/ /\ d.at = "claim" /\ m - deq[r].over < tailIndex[w]
              /\ took' = [took EXCEPT ![w] = @ \cup {m}]
              /\ UNCHANGED failed
           \/ /\ d.at = "overcommit"
              /\ failed' = [failed EXCEPT ![w] = @ \cup {m}]
              /\ UNCHANGED took
  <2>1. tailIndex[w] \in Nat BY <1>1 DEF CountType
  <2>2. CASE m - deq[r].over < tailIndex[w]
    BY <1>1, <1>2, <1>3, <2>1, <2>2 DEF DeqLocal, Recheck, CountType
  <2>3. CASE ~ (m - deq[r].over < tailIndex[w])
    BY <1>1, <1>2, <1>3, <2>1, <2>3 DEF DeqLocal, Recheck, CountType
  <2> QED BY <2>2, <2>3
<1>5. UNCHANGED countVars BY DEF Recheck
<1>6. CountType' BY <1>1, <1>4, <1>5, MoveOn DEF CountType, countVars
<1>7. Drawn(w) /\ Counted(w) /\ Older(w) /\ Enough(w) BY DEF IInv, Tickets
<1>8. Walks(w, r, "recheck", d) BY <1>1, <1>2, <1>4, Walk
<1>9. PICK n \in Nat : dequeueOptimisticCount[w] = n BY <1>1 DEF CountType
<1>10. /\ took[w] \subseteq 0 .. n - 1 /\ failed[w] \subseteq 0 .. n - 1
       /\ m \in 0 .. n - 1 /\ m \notin took[w] /\ m \notin failed[w]
       /\ \A q \in InAt(w, "recheck")' : q # r /\ deq'[q].my # m
  BY <1>3, <1>4, <1>7, <1>8, <1>9 DEF Walks, Drawn
<1>11. /\ IsFiniteSet(took[w]) /\ Cardinality(took[w]) \in Nat
       /\ IsFiniteSet(failed[w]) /\ Cardinality(failed[w]) \in Nat
       /\ \A t : Cardinality(Below(failed[w], t)) \in Nat
  BY <1>10, FiniteDraws
<1>12. Cardinality(InAt(w, "claim")) \in Nat /\ Cardinality(InAt(w, "overcommit")) \in Nat
  BY FiniteInAt
<1>13. \A v \in Writers \ {w} : took'[v] = took[v] /\ failed'[v] = failed[v]
  BY <1>1, <1>4 DEF CountType
<1>14. CASE d.at = "claim"
  <2>1. /\ took'[w] = took[w] \cup {m} /\ failed'[w] = failed[w]
        /\ m - deq[r].over < tailIndex[w]
    BY <1>1, <1>4, <1>14 DEF CountType
  <2>2. Drawn(w)'
    BY <1>5, <1>7, <1>8, <1>9, <1>10, <1>14, <2>1 DEF Walks, Drawn, countVars
  <2>3. Counted(w)'
    <3>1. Cardinality(took'[w]) = Cardinality(took[w]) + 1 BY <1>10, <2>1, OneMore
    <3>2. Cardinality(InAt(w, "claim")') = Cardinality(InAt(w, "claim")) + 1
      BY <1>4, <1>8, <1>14 DEF Walks
    <3>3. headIndex[w] \in Nat
          /\ headIndex[w] + Cardinality(InAt(w, "claim")) = Cardinality(took[w])
      BY <1>1, <1>7 DEF Counted, CountType
    <3>4. headIndex[w] + Cardinality(InAt(w, "claim")') = Cardinality(took'[w])
      BY <1>11, <1>12, <3>1, <3>2, <3>3
    <3>5. InAt(w, "overcommit")' = InAt(w, "overcommit") BY <1>8, <1>14 DEF Walks
    <3> QED BY <1>5, <1>7, <2>1, <3>4, <3>5 DEF Counted, countVars
  <2>4. Older(w)' BY <1>5, <1>7, <1>8, <1>14, <2>1 DEF Walks, Older, Below
  <2>5. Enough(w)'
    <3>1. m + 1 <= tailIndex[w] + Cardinality(Below(failed[w], m))
      BY <1>1, <1>3, <1>7, <1>8, <1>11, <2>1 DEF Walks, Older, CountType, DeqLocal
    <3> QED BY <1>5, <1>7, <2>1, <3>1 DEF Enough, Below, countVars
  <2> QED
    BY <1>2, <1>4, <1>5, <1>6, <1>13, <2>2, <2>3, <2>4, <2>5, OwnStream DEF countVars
<1>15. CASE d.at = "overcommit"
  <2>1. failed'[w] = failed[w] \cup {m} /\ took'[w] = took[w]
    BY <1>1, <1>4, <1>15 DEF CountType
  <2>2. Drawn(w)'
    BY <1>5, <1>7, <1>8, <1>9, <1>10, <1>15, <2>1 DEF Walks, Drawn, countVars
  <2>3. /\ Cardinality(failed'[w]) = Cardinality(failed[w]) + 1
        /\ \A t : Cardinality(Below(failed[w], t)) <= Cardinality(Below(failed'[w], t))
    BY <1>10, <2>1, OneMore
  <2>4. Counted(w)'
    <3>1. Cardinality(InAt(w, "overcommit")') = Cardinality(InAt(w, "overcommit")) + 1
      BY <1>4, <1>8, <1>15 DEF Walks
    <3>2. dequeueOvercommit[w] \in Nat
          /\ dequeueOvercommit[w] + Cardinality(InAt(w, "overcommit")) = Cardinality(failed[w])
      BY <1>1, <1>7 DEF Counted, CountType
    <3>3. dequeueOvercommit[w] + Cardinality(InAt(w, "overcommit")') = Cardinality(failed'[w])
      BY <1>11, <1>12, <2>3, <3>1, <3>2
    <3>4. InAt(w, "claim")' = InAt(w, "claim") BY <1>8, <1>15 DEF Walks
    <3> QED BY <1>5, <1>7, <2>1, <3>3, <3>4 DEF Counted, countVars
  <2>5. /\ failed'[w] \subseteq 0 .. n - 1
        /\ \A t : Cardinality(Below(failed'[w], t)) \in Nat
    BY <1>10, <2>1, FiniteDraws
  <2>6. Older(w)'
    <3>1. ASSUME NEW q \in InAt(w, "count")' \cup InAt(w, "ticket")'
          PROVE  deq'[q].over <= Cardinality(failed'[w])
      <4>1. /\ q \in Readers /\ deq'[q] = deq[q]
            /\ q \in InAt(w, "count") \cup InAt(w, "ticket")
        BY <1>8, <1>15, <3>1 DEF Walks, InAt
      <4>2. deq[q].over <= Cardinality(failed[w]) /\ deq[q].over \in Nat
        BY <1>1, <1>7, <4>1 DEF Older, CountType, DeqLocal
      <4> QED BY <1>11, <2>3, <4>1, <4>2
    <3>2. ASSUME NEW q \in InAt(w, "recheck")'
          PROVE  deq'[q].over <= Cardinality(Below(failed'[w], deq'[q].my))
      <4>1. q \in Readers /\ deq'[q] = deq[q] /\ q \in InAt(w, "recheck")
        BY <1>8, <1>10, <3>2 DEF Walks, InAt
      <4>2. deq[q].over <= Cardinality(Below(failed[w], deq[q].my)) /\ deq[q].over \in Nat
        BY <1>1, <1>7, <4>1 DEF Older, CountType, DeqLocal
      <4> QED BY <1>11, <2>3, <2>5, <4>1, <4>2
    <3> QED BY <3>1, <3>2 DEF Older, Below
  <2>7. Enough(w)'
    <3>1. ASSUME NEW t \in took[w]
          PROVE  t + 1 <= tailIndex[w] + Cardinality(Below(failed'[w], t))
      BY <1>1, <1>7, <1>10, <1>11, <2>3, <2>5 DEF Enough, CountType
    <3> QED BY <1>5, <2>1, <3>1 DEF Enough, Below, countVars
  <2> QED
    BY <1>2, <1>4, <1>5, <1>6, <1>13, <2>2, <2>4, <2>6, <2>7, OwnStream DEF countVars
<1> QED BY <1>4, <1>14, <1>15

-------------------------------------------------------------------------------
(* All steps.                                                              *)

LEMMA EnqueueTickets ==
  ASSUME IInv, NEW w \in Writers, EnqueueStep(w)
  PROVE  IInv'
<1>1. CASE Publish(w) BY <1>1, PublishTickets
<1>2. CASE ~ Publish(w)
  <2>1. UNCHANGED <<countVars, readVars, took, failed>>
    <3>1. CASE FindEntry(w) \/ NewBlockIndex(w) \/ NewBlockIndexFails(w)
               \/ WriteKey(w) \/ WriteTail(w) \/ Construct(w)
      BY <3>1 DEF FindEntry, NewBlockIndex, NewBlockIndexFails, WriteKey, WriteTail,
         Construct, ghostVars
    <3>2. CASE FromInitialPool(w) \/ FromFreeList(w) \/ Got(w) \/ Create(w)
               \/ CreateFails(w) \/ GivenBack(w)
      BY <3>2 DEF FromInitialPool, FromFreeList, Got, Create, CreateFails, GivenBack,
         ghostVars
    <3>3. CASE Fill(w) \/ FillThrows(w) \/ RewindTail(w) \/ ClearValue(w) \/ WriteValue(w)
      BY <3>3 DEF Fill, FillThrows, RewindTail, ClearValue, WriteValue, ghostVars
    <3> QED BY <1>2, <3>1, <3>2, <3>3 DEF EnqueueStep
  <2> QED BY <2>1, Quiet DEF readVars
<1> QED BY <1>1, <1>2

(* From the index on, and before the first count, only deq moves.          *)
LEMMA LookupTickets ==
  ASSUME IInv, NEW r \in Readers,
         \/ \E w \in Writers : DequeueStart(r, w)
         \/ LoadHeader(r) \/ LoadTail(r) \/ LoadKey(r) \/ LoadValue(r) \/ Move(r)
         \/ SetEmpty(r) \/ Unlink(r) \/ Freed(r)
  PROVE  IInv'
<1>1. CountType /\ deq[r] \in DeqLocal BY DEF IInv, CountType
<1>2. UNCHANGED <<countVars, took, failed>> /\ deq[r].at \notin Marked
  BY Zenon DEF DequeueStart, LoadHeader, LoadTail, LoadKey, LoadValue, Move, SetEmpty,
     Unlink, Freed, ghostVars, Marked
<1>3. PICK d \in DeqLocal :
        /\ deq' = [deq EXCEPT ![r] = d]
        /\ d.at \notin Marked /\ (d.at # "idle" => d.of \in Writers)
  <2>1. CASE \E w \in Writers : DequeueStart(r, w)
    <3>1. PICK w \in Writers : DequeueStart(r, w) BY <2>1
    <3>2. tailIndex[w] \in Nat BY <1>1 DEF CountType
    <3>3. PICK d \in DeqLocal : d = [deq[r] EXCEPT !.at = "over", !.of = w, !.tail = tailIndex[w]]
      BY <1>1, <3>2 DEF DeqLocal
    <3>4. deq' = [deq EXCEPT ![r] = d] /\ d.at = "over" /\ d.of = w
      BY <1>1, <3>1, <3>3 DEF DequeueStart, CountType, DeqLocal
    <3> QED BY <3>4 DEF Marked
  <2>2. CASE \E a \in {"tail", "key", "value", "move", "empty", "unlink", "free"} :
               deq' = [deq EXCEPT ![r].at = a] /\ deq[r].at # "idle"
    <3>1. PICK a \in {"tail", "key", "value", "move", "empty", "unlink", "free"} :
               deq' = [deq EXCEPT ![r].at = a] /\ deq[r].at # "idle"
      BY <2>2
    <3>2. PICK d \in DeqLocal : d = [deq[r] EXCEPT !.at = a] BY <1>1 DEF DeqLocal
    <3>3. deq' = [deq EXCEPT ![r] = d] /\ d.at = a /\ d.of = deq[r].of
      BY <1>1, <3>1, <3>2 DEF CountType, DeqLocal
    <3> QED BY <1>1, <3>1, <3>3 DEF Marked, CountType
  <2>3. CASE Dequeued(r)
    <3>1. DeqIdle \in DeqLocal /\ DeqIdle.at = "idle" BY DEF DeqIdle, DeqLocal
    <3> QED BY <2>3, <3>1 DEF Dequeued, Marked
  <2> QED
    BY <2>1, <2>2, <2>3, Zenon DEF LoadHeader, LoadTail, LoadKey, LoadValue, Move,
       SetEmpty, Unlink, Freed
<1> QED BY <1>2, <1>3, Elsewhere, Zenon

(* The tickets are kept by every step.                                     *)
LEMMA Inductive ==
  ASSUME IInv, [Next]_vars
  PROVE  IInv'
<1>1. ASSUME NEW w \in Writers, EnqueueStep(w) PROVE IInv' BY <1>1, EnqueueTickets
<1>2. ASSUME NEW r \in Readers, DequeueStep(r) PROVE IInv'
  <2>1. CASE LoadOvercommit(r) BY <2>1, LoadOvercommitTickets
  <2>2. CASE LoadOptimisticCount(r) BY <2>2, LoadOptimisticCountTickets
  <2>3. CASE AddOptimisticCount(r) BY <2>3, AddOptimisticCountTickets
  <2>4. CASE Recheck(r) BY <2>4, RecheckTickets
  <2>5. CASE AddOvercommit(r) BY <2>5, AddOvercommitTickets
  <2>6. CASE Claim(r) BY <2>6, ClaimTickets
  <2> QED BY <1>2, <2>1, <2>2, <2>3, <2>4, <2>5, <2>6, LookupTickets DEF DequeueStep
<1>3. ASSUME NEW t \in Threads, InList(t) PROVE IInv'
  BY <1>3, Quiet DEF InList, readVars, ghostVars
<1>4. CASE UNCHANGED vars BY <1>4, Quiet DEF vars, readVars, ghostVars
<1> QED BY <1>1, <1>2, <1>3, <1>4 DEF Next

(* The tickets drawn from dequeueOptimisticCount are decided once, counted *)
(* where they go, and those that went on had seen elements enough.         *)
THEOREM TicketsKept == Spec => []IInv BY InitTickets, Inductive, PTL DEF Spec

(* A count drawn that goes on has an element of its own.                   *)
LEMMA CountsBound ==
  ASSUME IInv PROVE NeverOverdrawn
<1>1. SUFFICES ASSUME NEW w \in Writers
               PROVE  headIndex[w] + Cardinality({r \in Readers :
                        deq[r].of = w /\ deq[r].at = "claim"}) <= tailIndex[w]
  BY DEF NeverOverdrawn
<1>2. Drawn(w) /\ Enough(w) /\ CountType BY DEF IInv, Tickets
<1>3. headIndex[w] + Cardinality(InAt(w, "claim")) = Cardinality(took[w])
  BY DEF IInv, Tickets, Counted
<1>4. Cardinality(took[w]) <= tailIndex[w] BY <1>2, TookAtMostTail
<1> QED BY <1>3, <1>4 DEF InAt

(* Every dequeue that goes on to headIndex finds an element there          *)
(* (ImplicitProducer::dequeue).                                            *)
THEOREM NothingOverdrawn == Spec => []NeverOverdrawn BY CountsBound, TicketsKept, PTL

-------------------------------------------------------------------------------
(* Blocks of indices: numbers, keys and remainders.                        *)

LEMMA BlockSize == BLOCK_SIZE \in Nat /\ BLOCK_SIZE > 1 BY ImplicitProducerAssumption

(* Keys are in the order of the numbers of the blocks.                     *)
LEMMA KeyOrder ==
  /\ \A x \in Int : Key(x) \in Int /\ Key(x + 1) = Key(x) + BLOCK_SIZE
                    /\ Key(x - 1) = Key(x) - BLOCK_SIZE
  /\ \A x \in Nat : Key(x) \in Nat
  /\ \A x, y \in Int : x < y => Key(x) + BLOCK_SIZE <= Key(y)
<1>1. ASSUME NEW x \in Int
      PROVE  Key(x) \in Int /\ Key(x + 1) = Key(x) + BLOCK_SIZE
             /\ Key(x - 1) = Key(x) - BLOCK_SIZE
  BY BlockSize, SMT DEF Key
<1>2. ASSUME NEW x \in Nat PROVE Key(x) \in Nat BY BlockSize, SMT DEF Key
<1>3. ASSUME NEW x \in Int, NEW y \in Int, x < y
      PROVE  Key(x) + BLOCK_SIZE <= Key(y)
  BY <1>1, <1>2, <1>3, BlockSize DEF Key
<1> QED BY <1>1, <1>2, <1>3

(* An index is in the block of its number, at its slot.                    *)
LEMMA NumSlot ==
  ASSUME NEW i \in Int
  PROVE  /\ Num(i) \in Int /\ Slot(i) \in 0 .. BLOCK_SIZE - 1
         /\ i = Key(Num(i)) + Slot(i)
         /\ BlockBase(i) = Key(Num(i))
         /\ i \in Nat => Num(i) \in Nat
<1>1. Num(i) \in Int /\ Slot(i) \in 0 .. BLOCK_SIZE - 1 BY BlockSize DEF Num, Slot
<1>2. i = BLOCK_SIZE * (i \div BLOCK_SIZE) + (i % BLOCK_SIZE) BY BlockSize
<1>3. i = Key(Num(i)) + Slot(i) BY <1>1, <1>2, BlockSize DEF Num, Slot, Key
<1>4. BlockBase(i) = Key(Num(i)) BY <1>1, <1>3, KeyOrder DEF BlockBase
<1>5. ASSUME i \in Nat, ~ (Num(i) \in Nat) PROVE FALSE
  BY <1>1, <1>3, <1>5, KeyOrder, BlockSize DEF Key
<1> QED BY <1>1, <1>3, <1>4, <1>5

(* An index is in block x when it is in the range of x.                    *)
LEMMA NumIs ==
  ASSUME NEW i \in Int, NEW x \in Int
  PROVE  Num(i) = x <=> Key(x) <= i /\ i < Key(x) + BLOCK_SIZE
<1>1. /\ Num(i) \in Int /\ Slot(i) \in 0 .. BLOCK_SIZE - 1
      /\ i = Key(Num(i)) + Slot(i)
  BY NumSlot
<1>2. Key(x) \in Int /\ Key(Num(i)) \in Int BY <1>1, KeyOrder
<1>3. CASE Num(i) = x BY <1>1, <1>2, <1>3, BlockSize
<1>4. CASE Num(i) < x
  <2>1. Key(Num(i)) + BLOCK_SIZE <= Key(x) BY <1>1, <1>4, KeyOrder
  <2> QED BY <1>1, <1>2, <1>4, <2>1, BlockSize
<1>5. CASE Num(i) > x
  <2>1. Key(x) + BLOCK_SIZE <= Key(Num(i)) BY <1>1, <1>5, KeyOrder
  <2> QED BY <1>1, <1>2, <1>5, <2>1, BlockSize
<1> QED BY <1>1, <1>3, <1>4, <1>5

LEMMA KeySlot ==
  ASSUME NEW x \in Int, NEW s \in 0 .. BLOCK_SIZE - 1
  PROVE  Num(Key(x) + s) = x /\ Slot(Key(x) + s) = s /\ Key(x) + s \in Int
<1>1. Key(x) \in Int /\ Key(x) + s \in Int BY KeyOrder, BlockSize
<1>2. Num(Key(x) + s) = x BY <1>1, NumIs, BlockSize
<1> QED BY <1>1, <1>2, NumSlot, BlockSize

(* The distance of two keys in blocks is that of their numbers.            *)
LEMMA KeyDifference ==
  ASSUME NEW x \in Int, NEW y \in Int
  PROVE  /\ Key(x) = Key(y) => x = y
         /\ (Key(x) - Key(y)) \div BLOCK_SIZE = x - y
<1>1. Key(x) - Key(y) = Key(x - y) /\ x - y \in Int BY BlockSize, SMT DEF Key
<1>2. Num(Key(x - y) + 0) = x - y BY <1>1, KeySlot, BlockSize
<1>3. Key(x - y) \in Int BY <1>1, KeyOrder
<1>4. (Key(x) - Key(y)) \div BLOCK_SIZE = x - y BY <1>1, <1>2, <1>3 DEF Num
<1>5. ASSUME Key(x) = Key(y), x # y PROVE FALSE
  <2>1. x < y \/ y < x BY <1>5
  <2>2. Key(x) \in Int /\ Key(y) \in Int BY KeyOrder
  <2>3. Key(x) + BLOCK_SIZE <= Key(y) \/ Key(y) + BLOCK_SIZE <= Key(x) BY <2>1, KeyOrder
  <2> QED BY <2>2, <2>3, <1>5, BlockSize
<1> QED BY <1>4, <1>5

(* The next index starts a block or continues the last one.                *)
LEMMA NumBefore ==
  ASSUME NEW i \in Nat
  PROVE  /\ Slot(i) = 0 => Num(i - 1) = Num(i) - 1 /\ i = Key(Num(i))
         /\ Slot(i) # 0 => Num(i - 1) = Num(i)
         /\ Num(i - 1) \in Int /\ Num(i - 1) <= Num(i)
<1>1. /\ Num(i) \in Int /\ Slot(i) \in 0 .. BLOCK_SIZE - 1
      /\ i = Key(Num(i)) + Slot(i) /\ Key(Num(i)) \in Int
      /\ Key(Num(i) - 1) = Key(Num(i)) - BLOCK_SIZE
  BY NumSlot, KeyOrder
<1>2. ASSUME Slot(i) = 0
      PROVE  Num(i - 1) = Num(i) - 1 /\ i = Key(Num(i))
  BY <1>1, <1>2, NumIs, BlockSize
<1>3. ASSUME Slot(i) # 0
      PROVE  Num(i - 1) = Num(i)
  BY <1>1, <1>3, NumIs, BlockSize
<1> QED BY <1>1, <1>2, <1>3

(* Turns of a ring of n places.                                            *)
LEMMA Turn ==
  ASSUME NEW n \in Nat, n > 0, NEW p \in Int
  PROVE  /\ p % n \in 0 .. n - 1
         /\ \E k \in Int : p = k * n + (p % n)
<1>1. p % n \in 0 .. n - 1 /\ p \div n \in Int OBVIOUS
<1>2. p = (p \div n) * n + (p % n) OBVIOUS
<1> QED BY <1>1, <1>2

LEMMA SameTurn ==
  ASSUME NEW n \in Nat, n > 0, NEW p \in Int, NEW q \in Int, NEW k \in Int,
         p = k * n + q, q \in 0 .. n - 1
  PROVE  p % n = q
OBVIOUS

-------------------------------------------------------------------------------
(* The free list: where each block is, and what its freeListRefs counts.   *)

LEMMA ListSize ==
  /\ IsFiniteSet(Threads) /\ Cardinality(Threads) \in Nat
  /\ SHOULD_BE_ON_FREELIST \in Nat
  /\ SHOULD_BE_ON_FREELIST > Cardinality(Threads) + 1
  /\ Holders(SHOULD_BE_ON_FREELIST) = 0 /\ Holders(0) = 0
<1>1. /\ IsFiniteSet(Threads) /\ SHOULD_BE_ON_FREELIST \in Nat
      /\ SHOULD_BE_ON_FREELIST > Cardinality(Threads) + 1
  BY FreeListAssumption
<1>2. Cardinality(Threads) \in Nat BY <1>1, FS_CardinalityType
<1>3. SHOULD_BE_ON_FREELIST % SHOULD_BE_ON_FREELIST = 0 BY <1>1, <1>2, SameTurn
<1>4. 0 % SHOULD_BE_ON_FREELIST = 0 BY <1>1, <1>2
<1> QED BY <1>1, <1>2, <1>3, <1>4 DEF Holders

(* One thread goes on: who holds what.                                     *)
LEMMA HeldSize ==
  ASSUME NEW b
  PROVE  /\ Held(b) \in Nat /\ Held(b) <= Cardinality(Threads)
         /\ \A t \in Threads : Holds(fl[t], b) => Held(b) # 0
<1>1. Holding(b) \subseteq Threads BY DEF Holding
<1>2. /\ IsFiniteSet(Holding(b)) /\ Held(b) \in Nat /\ Held(b) <= Cardinality(Threads)
  BY <1>1, ListSize, FS_Subset, FS_CardinalityType DEF Held
<1>3. ASSUME NEW t \in Threads, Holds(fl[t], b) PROVE Held(b) # 0
  BY <1>2, <1>3, FS_EmptySet DEF Held, Holding
<1> QED BY <1>2, <1>3

(* One thread goes on: how many hold b afterwards.                         *)
LEMMA HeldStep ==
  ASSUME ListTypeOK, NEW t \in Threads, NEW d \in Local, fl' = [fl EXCEPT ![t] = d],
         NEW b
  PROVE  /\ Held(b)' \in Nat
         /\ ~ Holds(fl[t], b) /\ ~ Holds(d, b) => Held(b)' = Held(b)
         /\ Holds(fl[t], b) /\ Holds(d, b) => Held(b)' = Held(b)
         /\ ~ Holds(fl[t], b) /\ Holds(d, b) => Held(b)' = Held(b) + 1
         /\ Holds(fl[t], b) /\ ~ Holds(d, b) => Held(b)' = Held(b) - 1
<1>1. /\ Holding(b) \subseteq Threads /\ Holding(b)' \subseteq Threads
      /\ IsFiniteSet(Holding(b)) /\ IsFiniteSet(Holding(b)')
  BY ListSize, FS_Subset DEF Holding
<1>2. fl'[t] = d /\ \A u \in Threads \ {t} : fl'[u] = fl[u] BY DEF ListTypeOK
<1>3. ASSUME ~ Holds(fl[t], b), ~ Holds(d, b) PROVE Holding(b)' = Holding(b)
  BY <1>2, <1>3 DEF Holding
<1>4. ASSUME Holds(fl[t], b), Holds(d, b) PROVE Holding(b)' = Holding(b)
  BY <1>2, <1>4 DEF Holding
<1>5. ASSUME ~ Holds(fl[t], b), Holds(d, b)
      PROVE  Holding(b)' = Holding(b) \cup {t} /\ t \notin Holding(b)
  BY <1>2, <1>5 DEF Holding
<1>6. ASSUME Holds(fl[t], b), ~ Holds(d, b)
      PROVE  Holding(b)' = Holding(b) \ {t} /\ t \in Holding(b)
  BY <1>2, <1>6 DEF Holding
<1> QED
  BY <1>1, <1>3, <1>4, <1>5, <1>6, FS_AddElement, FS_RemoveElement, FS_CardinalityType
     DEF Held

LEMMA UsedSame ==
  ASSUME NEW kind, NEW who, Used(kind, who), entries' = entries, enq' = enq, unused' = unused
  PROVE  Used(kind, who)'
BY DEF Used

LEMMA UsedEntry ==
  ASSUME NEW kind, NEW who, Used(kind, who), NEW w \in Writers,
         NEW e \in 1 .. Len(entries[w]), entries[w][e].value \in Blocks
  PROVE  InEntry(kind, who, w, e)
BY DEF Used, InEntry

(* A step of thread t that leaves every block where it is.                 *)
LEMMA Stays ==
  ASSUME ListTypeOK, NEW kind, NEW who, Placement(kind, who),
         NEW t \in Threads, NEW d \in Local, fl' = [fl EXCEPT ![t] = d],
         UNCHANGED <<entries, enq, unused>>,
         Owns(d) => /\ Owns(fl[t]) /\ d.node = fl[t].node
                    /\ KindAt(d.at) = KindAt(fl[t].at),
         \A b \in Blocks :
           /\ freeListRefs'[b] = freeListRefs[b] + Held(b)' - Held(b)
           /\ kind[b] = "link" => Held(b)' = 0
           /\ kind[b] = "pending" => Held(b)' # 0,
         Chained(kind)'
  PROVE  Placed'
<1>1. Used(kind, who)' BY DEF Used, Placement
<1>2. Owned(kind, who)' BY DEF Owned, Placement, ListTypeOK
<1>3. Weighed(kind)'
  <2>1. SUFFICES ASSUME NEW b \in Blocks
                 PROVE  freeListRefs'[b] = Weight(kind[b]) + Held(b)'
    BY DEF Weighed, Placement
  <2>2. freeListRefs[b] = Weight(kind[b]) + Held(b) /\ freeListRefs[b] \in Nat
    BY DEF Weighed, Placement, ListTypeOK
  <2>3. Weight(kind[b]) \in Nat /\ Held(b) \in Nat /\ Held(b)' \in Nat
    BY ListSize, HeldSize, HeldStep DEF Weight
  <2> QED BY <2>2, <2>3
<1>4. Placement(kind, who)' BY <1>1, <1>2, <1>3 DEF Placement
<1> QED BY <1>4 DEF Placed

(* A step of thread t that takes block b from one place to another.        *)
LEMMA Goes ==
  ASSUME ListTypeOK, NEW kind, NEW who, Placement(kind, who),
         NEW t \in Threads, NEW d \in Local, fl' = [fl EXCEPT ![t] = d],
         UNCHANGED <<entries, enq, unused>>,
         NEW b \in Blocks, NEW k \in Kinds, k \notin {"unused", "entry"},
         freeListRefs'[b] = Weight(k) + Held(b)',
         \A c \in Blocks \ {b} : freeListRefs'[c] = freeListRefs[c],
         Owns(fl[t]) => fl[t].node = b,
         Owns(fl[t]) \/ kind[b] \in {"listed", "pending"},
         t \in Writers => enq[t].at \notin WithBlock,
         Owns(d) => d.node = b /\ k = KindAt(d.at),
         \A c \in Blocks \ {b} : Holds(d, c) <=> Holds(fl[t], c),
         k = "link" => Held(b)' = 0,
         k = "pending" => Held(b)' # 0,
         Chained([kind EXCEPT ![b] = k])'
  PROVE  Placed'
<1> DEFINE kind2 == [kind EXCEPT ![b] = k]
           who2 == [who EXCEPT ![b] = t]
<1>1. /\ kind2 \in [Blocks -> Kinds] /\ kind2[b] = k
      /\ who2 \in [Blocks -> Owners] /\ who2[b] = t
      /\ \A c \in Blocks \ {b} : kind2[c] = kind[c] /\ who2[c] = who[c]
  BY DEF Placement, Owners
<1>2. /\ kind[b] \notin {"unused", "entry"}
      /\ kind[b] = "held" => who[b] = t
  BY DEF Placement, Owned, KindAt, Owns
<1>3. unused \subseteq Blocks BY DEF Placement, Used
<1>4. Used(kind2, who2)'
  <2>1. unused \subseteq Blocks /\ \A c \in unused : kind2[c] = "unused"
    BY <1>1, <1>2, <1>3 DEF Placement, Used
  <2>2. ASSUME NEW w \in Writers, NEW e \in 1 .. Len(entries[w]),
               entries[w][e].value \in Blocks
        PROVE  kind2[entries[w][e].value] = "entry" /\ who2[entries[w][e].value] = <<w, e>>
    BY <1>1, <1>2, <2>2 DEF Placement, Used
  <2>3. ASSUME NEW w \in Writers, enq[w].at \in WithBlock, enq[w].block \in Blocks
        PROVE  kind2[enq[w].block] = "held" /\ who2[enq[w].block] = w
    BY <1>1, <1>2, <2>3 DEF Placement, Used
  <2>4. entries' = entries /\ enq' = enq /\ unused' = unused OBVIOUS
  <2> HIDE DEF kind2, who2
  <2>5. Used(kind2, who2) BY <2>1, <2>2, <2>3 DEF Used
  <2> QED BY <2>4, <2>5, UsedSame
<1>5. Owned(kind2, who2)'
  <2>1. ASSUME NEW u \in Threads \ {t}, Owns(fl[u])
        PROVE  /\ kind2[fl[u].node] = KindAt(fl[u].at)
               /\ who2[fl[u].node] = u
    BY <1>1, <2>1 DEF Placement, Owned, Owns, KindAt
  <2>2. Owns(d) => kind2[d.node] = KindAt(d.at) /\ who2[d.node] = t BY <1>1
  <2>3. fl'[t] = d /\ \A u \in Threads \ {t} : fl'[u] = fl[u] BY DEF ListTypeOK
  <2> QED BY <2>1, <2>2, <2>3 DEF Owned
<1>6. Weighed(kind2)'
  <2>1. ASSUME NEW c \in Blocks \ {b}
        PROVE  /\ freeListRefs'[c] = Weight(kind2[c]) + Held(c)'
               /\ kind2[c] = "link" => Held(c)' = 0
               /\ kind2[c] = "pending" => Held(c)' # 0
    <3>1. Held(c)' = Held(c) BY <2>1, HeldStep
    <3> QED BY <3>1, <1>1 DEF Placement, Weighed, ListTypeOK
  <2> QED BY <2>1, <1>1 DEF Weighed
<1>7. Placement(kind2, who2)' BY <1>1, <1>4, <1>5, <1>6 DEF Placement
<1> QED BY <1>7 DEF Placed

-------------------------------------------------------------------------------
(* Each step of the free list finds a new place for at most one block.     *)

LEMMA AddFlagPlaced ==
  ASSUME ListInv, NEW t \in Threads, AddFlag(t), UNCHANGED <<entries, enq, deq, unused>>
  PROVE  Placed'
<1>1. PICK kind, who : Placement(kind, who) BY DEF ListInv, Placed
<1>2. ListTypeOK /\ Calling /\ ListLocal(t) BY DEF ListInv
<1>0. PICK b \in Blocks : b = fl[t].node BY <1>2 DEF AddFlag, ListLocal, Owning
<1>3. /\ b \in Blocks /\ fl[t].at = "add" /\ fl[t] \in Local /\ fl[t].node = b
      /\ Owns(fl[t]) /\ \A c : ~ Holds(fl[t], c)
  BY <1>0, <1>2 DEF AddFlag, ListLocal, Owning, ListTypeOK, Owns, Holds
<1>4. kind[b] = "held" /\ who[b] = t /\ freeListRefs[b] = Held(b) /\ Held(b) \in Nat
  BY <1>1, <1>3, HeldSize DEF Placement, Owned, Weighed, Weight, KindAt
<1>5. t \in Writers => enq[t].at \notin WithBlock
  BY <1>2, <1>3 DEF Calling, Outside, WithBlock
<1>6. CASE freeListRefs[b] = 0
  <2> DEFINE d == [fl[t] EXCEPT !.at = "link"]
  <2>1. d \in Local /\ fl' = [fl EXCEPT ![t] = d] /\ d.at = "link" /\ d.node = b
    BY <1>2, <1>3, <1>6 DEF AddFlag, Local, Places, ListTypeOK
  <2>2. \A c : ~ Holds(d, c) BY <2>1 DEF Holds
  <2> HIDE DEF d
  <2>3. Held(b)' = 0 BY <1>2, <1>3, <1>4, <1>6, <2>1, <2>2, HeldStep
  <2>4. Chained([kind EXCEPT ![b] = "link"])'
    BY <1>1, <1>3, <1>4 DEF AddFlag, Placement, Chained
  <2>5. /\ freeListRefs'[b] = Weight("link") + Held(b)'
        /\ \A c \in Blocks \ {b} : freeListRefs'[c] = freeListRefs[c]
    BY <1>2, <1>3, <1>6, <2>3, ListSize DEF AddFlag, ListTypeOK, Weight
  <2>6. "link" \in Kinds /\ "link" \notin {"unused", "entry"} /\ "link" # "pending"
        /\ KindAt(d.at) = "link"
    BY <2>1 DEF Kinds, KindAt
  <2> QED BY <1>1, <1>2, <1>3, <1>5, <2>1, <2>2, <2>3, <2>4, <2>5, <2>6, Goes
<1>7. CASE freeListRefs[b] # 0
  <2>1. Out \in Local /\ fl' = [fl EXCEPT ![t] = Out] /\ ~ Owns(Out)
    BY <1>2, <1>3, <1>7, FreeListAssumption DEF AddFlag, Local, Places, Out, ListTypeOK,
       Node, Owns
  <2>2. \A c : ~ Holds(Out, c) BY DEF Holds, Out
  <2>3. Held(b)' = Held(b) BY <1>2, <1>3, <2>1, <2>2, HeldStep
  <2>4. Chained([kind EXCEPT ![b] = "pending"])'
    BY <1>1, <1>3, <1>4 DEF AddFlag, Placement, Chained
  <2>5. /\ freeListRefs'[b] = Weight("pending") + Held(b)'
        /\ \A c \in Blocks \ {b} : freeListRefs'[c] = freeListRefs[c]
    BY <1>2, <1>3, <1>4, <2>3, ListSize DEF AddFlag, ListTypeOK, Weight
  <2>6. "pending" \in Kinds /\ "pending" \notin {"unused", "entry", "link"} BY DEF Kinds
  <2> QED
    BY <1>1, <1>2, <1>3, <1>4, <1>5, <1>7, <2>1, <2>2, <2>3, <2>4, <2>5, <2>6, Goes
<1> QED BY <1>6, <1>7

(* Steps of the list's functions that only read.                           *)
LEMMA ReadPlaced ==
  ASSUME ListInv, NEW t \in Threads,
         \/ LinkHead(t) \/ GetHead(t) \/ GetNothing(t) \/ GetTest(t) \/ GetNext(t),
         UNCHANGED <<entries, enq, deq, unused>>
  PROVE  Placed'
<1>1. PICK kind, who : Placement(kind, who) BY DEF ListInv, Placed
<1>2. ListTypeOK /\ ListLocal(t) /\ fl[t] \in Local BY DEF ListInv, ListTypeOK
<1>3. Chained(kind)'
  BY <1>1 DEF Placement, Chained, LinkHead, GetHead, GetNothing, GetTest, GetNext
<1>4. PICK d \in Local :
        /\ fl' = [fl EXCEPT ![t] = d]
        /\ Owns(d) => /\ Owns(fl[t]) /\ d.node = fl[t].node
                      /\ KindAt(d.at) = KindAt(fl[t].at)
        /\ \A b : Holds(d, b) <=> Holds(fl[t], b)
  <2>1. CASE LinkHead(t)
    <3> DEFINE d == [fl[t] EXCEPT !.at = "next", !.next = freeListHead]
    <3>1. /\ d \in Local /\ fl' = [fl EXCEPT ![t] = d] /\ d.at = "next"
          /\ d.node = fl[t].node /\ fl[t].at = "link"
      BY <1>2, <2>1 DEF LinkHead, Local, Places, ListTypeOK
    <3> QED BY <3>1 DEF Owns, Owning, Holds, KindAt
  <2>2. CASE GetHead(t)
    <3> DEFINE d == [fl[t] EXCEPT !.at = "test", !.head = freeListHead]
    <3>1. /\ d \in Local /\ fl' = [fl EXCEPT ![t] = d] /\ d.at = "test"
          /\ fl[t].at = "head"
      BY <1>2, <2>2 DEF GetHead, Local, Places, ListTypeOK
    <3> QED BY <3>1 DEF Owns, Owning, Holds
  <2>3. CASE GetNothing(t)
    <3>1. Out \in Local /\ fl' = [fl EXCEPT ![t] = Out] /\ fl[t].at = "test"
      BY <2>3 DEF GetNothing, Local, Places, Out, Node
    <3> QED BY <3>1, FreeListAssumption DEF Owns, Owning, Holds, Out
  <2>4. CASE GetTest(t)
    <3> DEFINE refs == freeListRefs[fl[t].head]
               d == IF Holders(refs) = 0 THEN [fl[t] EXCEPT !.at = "head"]
                    ELSE [fl[t] EXCEPT !.at = "hold", !.refs = refs]
    <3>1. fl[t].head \in Blocks BY <1>2, <2>4 DEF GetTest, Local, Node
    <3>2. refs \in Nat BY <1>2, <3>1 DEF ListTypeOK
    <3>3. d \in Local /\ fl' = [fl EXCEPT ![t] = d] /\ d.at \in {"head", "hold"}
          /\ fl[t].at = "test"
      BY <1>2, <2>4, <3>2 DEF GetTest, Local, Places, ListTypeOK
    <3> QED BY <3>3 DEF Owns, Owning, Holds
  <2>5. CASE GetNext(t)
    <3> DEFINE d == [fl[t] EXCEPT !.at = "pop", !.next = freeListNext[fl[t].head]]
    <3>1. fl[t].head \in Blocks BY <1>2, <2>5 DEF GetNext, ListLocal
    <3>2. freeListNext[fl[t].head] \in Node BY <1>2, <3>1 DEF ListTypeOK
    <3>3. d \in Local /\ fl' = [fl EXCEPT ![t] = d] /\ d.at = "pop"
          /\ d.head = fl[t].head /\ fl[t].at = "read"
      BY <1>2, <2>5, <3>2 DEF GetNext, Local, Places, ListTypeOK
    <3> QED BY <3>3 DEF Owns, Owning, Holds
  <2> QED BY <2>1, <2>2, <2>3, <2>4, <2>5
<1>5. freeListRefs' = freeListRefs
  BY DEF LinkHead, GetHead, GetNothing, GetTest, GetNext
<1>6. ASSUME NEW b \in Blocks PROVE Held(b)' = Held(b) /\ Held(b) \in Nat
  BY <1>2, <1>4, HeldStep, HeldSize
<1>7. \A b \in Blocks : freeListRefs'[b] = freeListRefs[b] + Held(b)' - Held(b)
  BY <1>2, <1>5, <1>6 DEF ListTypeOK
<1>8. \A b \in Blocks : /\ kind[b] = "link" => Held(b)' = 0
                        /\ kind[b] = "pending" => Held(b)' # 0
  BY <1>1, <1>6 DEF Placement, Weighed
<1> QED BY <1>1, <1>2, <1>3, <1>4, <1>7, <1>8, Stays

(* What a thread that has a block knows of it.                             *)
LEMMA Owner ==
  ASSUME ListInv, NEW kind, NEW who, Placement(kind, who), NEW t \in Threads,
         NEW b \in Blocks, fl[t].node = b, fl[t].at \in Owning \ {"out"}
  PROVE  /\ ListTypeOK /\ fl[t] \in Local /\ ListLocal(t)
         /\ Owns(fl[t]) /\ \A c : ~ Holds(fl[t], c)
         /\ kind[b] = KindAt(fl[t].at)
         /\ freeListRefs[b] = Weight(KindAt(fl[t].at)) + Held(b)
         /\ Held(b) \in Nat
         /\ kind[b] = "link" => Held(b) = 0
         /\ t \in Writers => enq[t].at \notin WithBlock
<1>1. ListTypeOK /\ fl[t] \in Local /\ ListLocal(t) /\ Calling
  BY DEF ListInv, ListTypeOK
<1>2. Owns(fl[t]) /\ \A c : ~ Holds(fl[t], c) BY DEF Owns, Owning, Holds
<1>3. kind[b] = KindAt(fl[t].at) BY <1>2 DEF Placement, Owned
<1>4. freeListRefs[b] = Weight(KindAt(fl[t].at)) + Held(b) /\ Held(b) \in Nat
      /\ (kind[b] = "link" => Held(b) = 0)
  BY <1>3, HeldSize DEF Placement, Weighed
<1>5. t \in Writers => enq[t].at \notin WithBlock
  BY <1>1 DEF Calling, Outside, WithBlock, Owning
<1> QED BY <1>1, <1>2, <1>3, <1>4, <1>5

LEMMA LinkNextPlaced ==
  ASSUME ListInv, NEW t \in Threads, LinkNext(t), UNCHANGED <<entries, enq, deq, unused>>
  PROVE  Placed'
<1>1. PICK kind, who : Placement(kind, who) BY DEF ListInv, Placed
<1>2. PICK b \in Blocks : b = fl[t].node BY DEF LinkNext, ListInv, ListLocal, Owning
<1>3. fl[t].at = "next" /\ fl[t].at \in Owning \ {"out"} BY DEF LinkNext, Owning
<1>4. /\ ListTypeOK /\ fl[t] \in Local /\ Owns(fl[t]) /\ \A c : ~ Holds(fl[t], c)
      /\ kind[b] = "link"
  BY <1>1, <1>2, <1>3, Owner DEF KindAt
<1> DEFINE d == [fl[t] EXCEPT !.at = "refs"]
<1>5. /\ d \in Local /\ fl' = [fl EXCEPT ![t] = d] /\ d.node = b /\ d.at = "refs"
      /\ freeListRefs' = freeListRefs
  BY <1>2, <1>4 DEF LinkNext, Local, Places, ListTypeOK
<1>6. Owns(d) => Owns(fl[t]) /\ d.node = fl[t].node /\ KindAt(d.at) = KindAt(fl[t].at)
  BY <1>2, <1>3, <1>4, <1>5 DEF KindAt
<1>7. \A c : ~ Holds(d, c) BY <1>5 DEF Holds
<1> HIDE DEF d
<1>8. \A c \in Blocks : Held(c)' = Held(c) /\ Held(c) \in Nat
  BY <1>4, <1>5, <1>7, HeldStep, HeldSize
<1>9. \A c \in Blocks : /\ freeListRefs'[c] = freeListRefs[c] + Held(c)' - Held(c)
                        /\ kind[c] = "link" => Held(c)' = 0
                        /\ kind[c] = "pending" => Held(c)' # 0
  BY <1>1, <1>4, <1>5, <1>8 DEF Placement, Weighed, ListTypeOK
<1>10. Chained(kind)' BY <1>1, <1>2, <1>4 DEF LinkNext, ListTypeOK, Placement, Chained
<1> QED BY <1>1, <1>4, <1>5, <1>6, <1>9, <1>10, Stays

LEMMA LinkRefsPlaced ==
  ASSUME ListInv, NEW t \in Threads, LinkRefs(t), UNCHANGED <<entries, enq, deq, unused>>
  PROVE  Placed'
<1>1. PICK kind, who : Placement(kind, who) BY DEF ListInv, Placed
<1>2. PICK b \in Blocks : b = fl[t].node BY DEF LinkRefs, ListInv, ListLocal, Owning
<1>3. fl[t].at = "refs" /\ fl[t].at \in Owning \ {"out"} BY DEF LinkRefs, Owning
<1>4. /\ ListTypeOK /\ fl[t] \in Local /\ Owns(fl[t]) /\ \A c : ~ Holds(fl[t], c)
      /\ kind[b] = "link" /\ Held(b) = 0 /\ (t \in Writers => enq[t].at \notin WithBlock)
  BY <1>1, <1>2, <1>3, Owner DEF KindAt
<1> DEFINE d == [fl[t] EXCEPT !.at = "swing"]
<1>5. /\ d \in Local /\ fl' = [fl EXCEPT ![t] = d] /\ d.node = b /\ d.at = "swing"
  BY <1>2, <1>4 DEF LinkRefs, Local, Places, ListTypeOK
<1>6. (\A c : ~ Holds(d, c)) /\ KindAt(d.at) = "swing" BY <1>5 DEF Holds, KindAt
<1> HIDE DEF d
<1>7. Held(b)' = 0 BY <1>4, <1>5, <1>6, HeldStep
<1>8. /\ freeListRefs'[b] = Weight("swing") + Held(b)'
      /\ \A c \in Blocks \ {b} : freeListRefs'[c] = freeListRefs[c]
  BY <1>2, <1>4, <1>7 DEF LinkRefs, ListTypeOK, Weight
<1>9. "swing" \in Kinds /\ "swing" \notin {"unused", "entry", "link", "pending"}
  BY DEF Kinds
<1>10. Chained([kind EXCEPT ![b] = "swing"])'
  BY <1>1, <1>4 DEF LinkRefs, Placement, Chained
<1> QED BY <1>1, <1>2, <1>4, <1>5, <1>6, <1>7, <1>8, <1>9, <1>10, Goes

LEMMA LinkSwingPlaced ==
  ASSUME ListInv, NEW t \in Threads, LinkSwing(t), UNCHANGED <<entries, enq, deq, unused>>
  PROVE  Placed'
<1>1. PICK kind, who : Placement(kind, who) BY DEF ListInv, Placed
<1>2. PICK b \in Blocks : b = fl[t].node BY DEF LinkSwing, ListInv, ListLocal, Owning
<1>3. fl[t].at = "swing" /\ fl[t].at \in Owning \ {"out"} BY DEF LinkSwing, Owning
<1>4. /\ ListTypeOK /\ fl[t] \in Local /\ ListLocal(t)
      /\ Owns(fl[t]) /\ \A c : ~ Holds(fl[t], c)
      /\ kind[b] = "swing" /\ (t \in Writers => enq[t].at \notin WithBlock)
      /\ freeListRefs[b] = 1 + Held(b) /\ Held(b) \in Nat
  BY <1>1, <1>2, <1>3, Owner DEF KindAt, Weight
<1>5. CASE freeListHead = fl[t].next
  <2>1. PICK d \in Local : /\ d = Linked(t) /\ fl' = [fl EXCEPT ![t] = d]
                           /\ d.at \in {"out", "test"} /\ d.node = NoBlock
    <3>1. fl' = [fl EXCEPT ![t] = Linked(t)] BY <1>5 DEF LinkSwing
    <3>2. Linked(t) \in Local /\ Linked(t).at \in {"out", "test"} /\ Linked(t).node = NoBlock
      BY <1>4 DEF Linked, Out, Local, Places, Node
    <3> QED BY <3>1, <3>2
  <2>2. ~ Owns(d) /\ \A c : ~ Holds(d, c) BY <2>1, FreeListAssumption DEF Owns, Holds
  <2>3. Held(b)' = Held(b) BY <1>4, <2>1, <2>2, HeldStep
  <2>4. /\ freeListRefs'[b] = Weight("listed") + Held(b)'
        /\ \A c \in Blocks \ {b} : freeListRefs'[c] = freeListRefs[c]
    BY <1>4, <2>3 DEF LinkSwing, Weight
  <2>5. "listed" \in Kinds /\ "listed" \notin {"unused", "entry", "link", "pending"}
    BY DEF Kinds
  <2>6. Chained([kind EXCEPT ![b] = "listed"])'
    BY <1>1, <1>2, <1>3, <1>4, <1>5 DEF LinkSwing, ListLocal, Placement, Chained
  <2> QED BY <1>1, <1>2, <1>4, <2>1, <2>2, <2>3, <2>4, <2>5, <2>6, Goes
<1>6. CASE freeListHead # fl[t].next
  <2> DEFINE d == [fl[t] EXCEPT !.at = "retry", !.next = freeListHead]
  <2>1. /\ d \in Local /\ fl' = [fl EXCEPT ![t] = d] /\ d.node = b /\ d.at = "retry"
        /\ UNCHANGED <<freeListHead, freeListNext, freeListRefs>>
    BY <1>2, <1>4, <1>6 DEF LinkSwing, Local, Places, ListTypeOK
  <2>2. /\ Owns(d) => Owns(fl[t]) /\ d.node = fl[t].node /\ KindAt(d.at) = KindAt(fl[t].at)
        /\ \A c : ~ Holds(d, c)
    BY <1>2, <1>3, <1>4, <2>1 DEF KindAt, Holds
  <2> HIDE DEF d
  <2>3. \A c \in Blocks : Held(c)' = Held(c) /\ Held(c) \in Nat
    BY <1>4, <2>1, <2>2, HeldStep, HeldSize
  <2>4. \A c \in Blocks : /\ freeListRefs'[c] = freeListRefs[c] + Held(c)' - Held(c)
                          /\ kind[c] = "link" => Held(c)' = 0
                          /\ kind[c] = "pending" => Held(c)' # 0
    BY <1>1, <1>4, <2>1, <2>3 DEF Placement, Weighed, ListTypeOK
  <2>5. Chained(kind)' BY <1>1, <2>1 DEF Placement, Chained
  <2> QED BY <1>1, <1>4, <2>1, <2>2, <2>4, <2>5, Stays
<1> QED BY <1>5, <1>6

LEMMA LinkRetryPlaced ==
  ASSUME ListInv, NEW t \in Threads, LinkRetry(t), UNCHANGED <<entries, enq, deq, unused>>
  PROVE  Placed'
<1>1. PICK kind, who : Placement(kind, who) BY DEF ListInv, Placed
<1>2. PICK b \in Blocks : b = fl[t].node BY DEF LinkRetry, ListInv, ListLocal, Owning
<1>3. fl[t].at = "retry" /\ fl[t].at \in Owning \ {"out"} BY DEF LinkRetry, Owning
<1>4. /\ ListTypeOK /\ fl[t] \in Local
      /\ Owns(fl[t]) /\ \A c : ~ Holds(fl[t], c)
      /\ kind[b] = "swing" /\ (t \in Writers => enq[t].at \notin WithBlock)
      /\ freeListRefs[b] = 1 + Held(b) /\ Held(b) \in Nat
  BY <1>1, <1>2, <1>3, Owner DEF KindAt, Weight
<1>5. /\ freeListRefs'[b] = SHOULD_BE_ON_FREELIST + Held(b)
      /\ \A c \in Blocks \ {b} : freeListRefs'[c] = freeListRefs[c]
  BY <1>2, <1>4, ListSize DEF LinkRetry, ListTypeOK
<1>6. CASE freeListRefs[b] = 1
  <2> DEFINE d == [fl[t] EXCEPT !.at = "next"]
  <2>1. /\ d \in Local /\ fl' = [fl EXCEPT ![t] = d] /\ d.node = b /\ d.at = "next"
    BY <1>2, <1>4, <1>6 DEF LinkRetry, Local, Places, ListTypeOK
  <2>2. (\A c : ~ Holds(d, c)) /\ KindAt(d.at) = "link" BY <2>1 DEF Holds, KindAt
  <2> HIDE DEF d
  <2>0. Held(b) = 0 BY <1>4, <1>6
  <2>3. Held(b)' = 0 /\ Held(b) = 0 BY <1>4, <2>0, <2>1, <2>2, HeldStep
  <2>4. freeListRefs'[b] = Weight("link") + Held(b)' BY <1>5, <2>3, ListSize DEF Weight
  <2>5. "link" \in Kinds /\ "link" \notin {"unused", "entry", "pending"} BY DEF Kinds
  <2>6. Chained([kind EXCEPT ![b] = "link"])'
    BY <1>1, <1>4 DEF LinkRetry, Placement, Chained
  <2> QED BY <1>1, <1>2, <1>4, <1>5, <2>1, <2>2, <2>3, <2>4, <2>5, <2>6, Goes
<1>7. CASE freeListRefs[b] # 1
  <2>1. PICK d \in Local : /\ d = Linked(t) /\ fl' = [fl EXCEPT ![t] = d]
                           /\ d.at \in {"out", "test"} /\ d.node = NoBlock
    <3>1. fl' = [fl EXCEPT ![t] = Linked(t)] BY <1>2, <1>7 DEF LinkRetry
    <3>2. Linked(t) \in Local /\ Linked(t).at \in {"out", "test"} /\ Linked(t).node = NoBlock
      BY <1>4 DEF Linked, Out, Local, Places, Node
    <3> QED BY <3>1, <3>2
  <2>2. ~ Owns(d) /\ \A c : ~ Holds(d, c) BY <2>1, FreeListAssumption DEF Owns, Holds
  <2>0. Held(b) # 0 BY <1>4, <1>7
  <2>3. Held(b)' = Held(b) /\ Held(b) # 0 BY <1>4, <2>0, <2>1, <2>2, HeldStep
  <2>4. freeListRefs'[b] = Weight("pending") + Held(b)'
    BY <1>5, <2>3, ListSize DEF Weight
  <2>5. "pending" \in Kinds /\ "pending" \notin {"unused", "entry", "link"} BY DEF Kinds
  <2>6. Chained([kind EXCEPT ![b] = "pending"])'
    BY <1>1, <1>4 DEF LinkRetry, Placement, Chained
  <2> QED BY <1>1, <1>2, <1>4, <1>5, <2>1, <2>2, <2>3, <2>4, <2>5, <2>6, Goes
<1> QED BY <1>6, <1>7

LEMMA GetHoldPlaced ==
  ASSUME ListInv, NEW t \in Threads, GetHold(t), UNCHANGED <<entries, enq, deq, unused>>
  PROVE  Placed'
<1>1. PICK kind, who : Placement(kind, who) BY DEF ListInv, Placed
<1>2. PICK b \in Blocks : b = fl[t].head BY DEF GetHold, ListInv, ListLocal
<1>3. /\ ListTypeOK /\ ListLocal(t) /\ fl[t] \in Local /\ fl[t].at = "hold"
      /\ \A c : ~ Holds(fl[t], c)
  BY DEF ListInv, ListTypeOK, GetHold, Holds
<1>4. Chained(kind)' BY <1>1 DEF GetHold, Placement, Chained
<1>5. \A c \in Blocks : /\ freeListRefs[c] \in Nat /\ Held(c) \in Nat
                        /\ kind[c] = "link" => Held(c) = 0 /\ freeListRefs[c] = SHOULD_BE_ON_FREELIST
                        /\ kind[c] = "pending" => Held(c) # 0
  BY <1>1, <1>3, HeldSize, ListSize DEF Placement, Weighed, ListTypeOK, Weight
<1>6. CASE freeListRefs[b] = fl[t].refs
  <2> DEFINE d == [Out EXCEPT !.at = "read", !.head = b]
  <2>1. /\ d \in Local /\ fl' = [fl EXCEPT ![t] = d]
        /\ d.at = "read" /\ d.head = b /\ d.node = NoBlock
    BY <1>2, <1>3, <1>6 DEF GetHold, Local, Places, Out, Node
  <2>2. ~ Owns(d) /\ \A c : Holds(d, c) <=> c = b BY <2>1 DEF Owns, Owning, Holds
  <2> HIDE DEF d
  <2>3. Held(b)' = Held(b) + 1 /\ \A c \in Blocks \ {b} : Held(c)' = Held(c)
    BY <1>3, <2>1, <2>2, HeldStep
  <2>4. freeListRefs'[b] = freeListRefs[b] + 1
        /\ \A c \in Blocks \ {b} : freeListRefs'[c] = freeListRefs[c]
    BY <1>2, <1>3, <1>6 DEF GetHold, ListTypeOK
  <2>5. kind[b] # "link" BY <1>2, <1>3, <1>5, <1>6, ListSize DEF ListLocal
  <2>6. \A c \in Blocks : /\ freeListRefs'[c] = freeListRefs[c] + Held(c)' - Held(c)
                          /\ kind[c] = "link" => Held(c)' = 0
                          /\ kind[c] = "pending" => Held(c)' # 0
    BY <1>5, <2>3, <2>4, <2>5
  <2> QED BY <1>1, <1>3, <1>4, <2>1, <2>2, <2>6, Stays
<1>7. CASE freeListRefs[b] # fl[t].refs
  <2> DEFINE d == [Out EXCEPT !.at = "head"]
  <2>1. /\ d \in Local /\ fl' = [fl EXCEPT ![t] = d] /\ d.at = "head"
        /\ freeListRefs' = freeListRefs
    BY <1>2, <1>3, <1>7 DEF GetHold, Local, Places, Out, Node
  <2>2. ~ Owns(d) /\ \A c : ~ Holds(d, c) BY <2>1 DEF Owns, Owning, Holds
  <2> HIDE DEF d
  <2>3. \A c \in Blocks : Held(c)' = Held(c) BY <1>3, <2>1, <2>2, HeldStep
  <2>4. \A c \in Blocks : /\ freeListRefs'[c] = freeListRefs[c] + Held(c)' - Held(c)
                          /\ kind[c] = "link" => Held(c)' = 0
                          /\ kind[c] = "pending" => Held(c)' # 0
    BY <1>5, <2>1, <2>3
  <2> QED BY <1>1, <1>3, <1>4, <2>1, <2>2, <2>4, Stays
<1> QED BY <1>6, <1>7

(* The head is swung only while the thread holds the node, so that nobody  *)
(* has linked it anew since its next was read.                             *)
LEMMA GetPopPlaced ==
  ASSUME ListInv, NEW t \in Threads, GetPop(t), UNCHANGED <<entries, enq, deq, unused>>
  PROVE  Placed'
<1>1. PICK kind, who : Placement(kind, who) BY DEF ListInv, Placed
<1>2. PICK b \in Blocks : b = fl[t].head BY DEF GetPop, ListInv, ListLocal
<1>3. /\ ListTypeOK /\ ListLocal(t) /\ Calling /\ fl[t] \in Local /\ fl[t].at = "pop"
      /\ ~ Owns(fl[t]) /\ \A c : Holds(fl[t], c) <=> c = b
  BY <1>2 DEF ListInv, ListTypeOK, GetPop, Holds, Owns, Owning
<1>4. \A c \in Blocks : /\ freeListRefs[c] = Weight(kind[c]) + Held(c)
                        /\ freeListRefs[c] \in Nat /\ Held(c) \in Nat
                        /\ kind[c] = "link" => Held(c) = 0
                        /\ kind[c] = "pending" => Held(c) # 0
  BY <1>1, <1>3, HeldSize DEF Placement, Weighed, ListTypeOK
<1>5. CASE freeListHead = b
  <2> DEFINE d == [Out EXCEPT !.at = "release", !.node = b]
  <2>1. /\ d \in Local /\ fl' = [fl EXCEPT ![t] = d] /\ d.at = "release" /\ d.node = b
        /\ freeListHead' = freeListNext[b]
        /\ UNCHANGED <<freeListNext, freeListRefs>>
    BY <1>2, <1>3, <1>5 DEF GetPop, ListLocal, Local, Places, Out, Node
  <2>2. (\A c : ~ Holds(d, c)) /\ KindAt(d.at) = "popped" BY <2>1 DEF Holds, KindAt
  <2> HIDE DEF d
  <2>3. Held(b)' = Held(b) - 1 BY <1>3, <2>1, <2>2, HeldStep
  <2>4. kind[b] = "listed" BY <1>1, <1>5 DEF Placement, Chained
  <2>5. freeListRefs'[b] = Weight("popped") + Held(b)'
    BY <1>4, <2>1, <2>3, <2>4 DEF Weight
  <2>6. "popped" \in Kinds /\ "popped" \notin {"unused", "entry", "link", "pending"}
    BY DEF Kinds
  <2>7. Chained([kind EXCEPT ![b] = "popped"])'
    BY <1>1, <1>5, <2>1, <2>4 DEF Placement, Chained
  <2>8. t \in Writers => enq[t].at \notin WithBlock
    BY <1>3 DEF Calling, Outside, WithBlock
  <2> QED BY <1>1, <1>3, <2>1, <2>2, <2>4, <2>5, <2>6, <2>7, <2>8, Goes
<1>6. CASE freeListHead # b
  <2> DEFINE d == [Out EXCEPT !.at = "drop", !.node = b, !.head = freeListHead]
  <2>1. /\ d \in Local /\ fl' = [fl EXCEPT ![t] = d] /\ d.at = "drop" /\ d.node = b
        /\ UNCHANGED <<freeListHead, freeListNext, freeListRefs>>
    BY <1>2, <1>3, <1>6 DEF GetPop, ListTypeOK, Local, Places, Out, Node
  <2>2. ~ Owns(d) /\ \A c : Holds(d, c) <=> c = b BY <2>1 DEF Owns, Owning, Holds
  <2> HIDE DEF d
  <2>3. \A c \in Blocks : Held(c)' = Held(c) BY <1>3, <2>1, <2>2, HeldStep
  <2>4. \A c \in Blocks : /\ freeListRefs'[c] = freeListRefs[c] + Held(c)' - Held(c)
                          /\ kind[c] = "link" => Held(c)' = 0
                          /\ kind[c] = "pending" => Held(c)' # 0
    BY <1>4, <2>1, <2>3
  <2>5. Chained(kind)' BY <1>1, <2>1 DEF Placement, Chained
  <2> QED BY <1>1, <1>3, <2>1, <2>2, <2>4, <2>5, Stays
<1> QED BY <1>5, <1>6

LEMMA GetReleasePlaced ==
  ASSUME ListInv, NEW t \in Threads, GetRelease(t), UNCHANGED <<entries, enq, deq, unused>>
  PROVE  Placed'
<1>1. PICK kind, who : Placement(kind, who) BY DEF ListInv, Placed
<1>2. PICK b \in Blocks : b = fl[t].node BY DEF GetRelease, ListInv, ListLocal, Owning
<1>3. fl[t].at = "release" /\ fl[t].at \in Owning \ {"out"} BY DEF GetRelease, Owning
<1>4. /\ ListTypeOK /\ fl[t] \in Local
      /\ Owns(fl[t]) /\ \A c : ~ Holds(fl[t], c)
      /\ kind[b] = "popped" /\ (t \in Writers => enq[t].at \notin WithBlock)
      /\ freeListRefs[b] = 2 + Held(b) /\ Held(b) \in Nat
  BY <1>1, <1>2, <1>3, Owner DEF KindAt, Weight
<1> DEFINE d == [fl[t] EXCEPT !.at = "out"]
<1>5. /\ d \in Local /\ fl' = [fl EXCEPT ![t] = d] /\ d.node = b /\ d.at = "out"
  BY <1>2, <1>4 DEF GetRelease, Local, Places, ListTypeOK
<1>6. (\A c : ~ Holds(d, c)) /\ KindAt(d.at) = "held" BY <1>5 DEF Holds, KindAt
<1> HIDE DEF d
<1>7. Held(b)' = Held(b) BY <1>4, <1>5, <1>6, HeldStep
<1>8. /\ freeListRefs'[b] = Weight("held") + Held(b)'
      /\ \A c \in Blocks \ {b} : freeListRefs'[c] = freeListRefs[c]
  BY <1>2, <1>4, <1>7 DEF GetRelease, ListTypeOK, Weight
<1>9. "held" \in Kinds /\ "held" \notin {"unused", "entry", "link", "pending"}
  BY DEF Kinds
<1>10. Chained([kind EXCEPT ![b] = "held"])'
  BY <1>1, <1>4 DEF GetRelease, Placement, Chained
<1> QED BY <1>1, <1>2, <1>4, <1>5, <1>6, <1>8, <1>9, <1>10, Goes

LEMMA GetDropPlaced ==
  ASSUME ListInv, NEW t \in Threads, GetDrop(t), UNCHANGED <<entries, enq, deq, unused>>
  PROVE  Placed'
<1>1. PICK kind, who : Placement(kind, who) BY DEF ListInv, Placed
<1>2. PICK b \in Blocks : b = fl[t].node BY DEF GetDrop, ListInv, ListLocal
<1>3. /\ ListTypeOK /\ Calling /\ fl[t] \in Local /\ fl[t].at = "drop"
      /\ ~ Owns(fl[t]) /\ \A c : Holds(fl[t], c) <=> c = b
  BY <1>2 DEF ListInv, ListTypeOK, GetDrop, Holds, Owns, Owning
<1>4. \A c \in Blocks : /\ freeListRefs[c] = Weight(kind[c]) + Held(c)
                        /\ freeListRefs[c] \in Nat /\ Held(c) \in Nat
                        /\ kind[c] = "link" => Held(c) = 0
                        /\ kind[c] = "pending" => Held(c) # 0
  BY <1>1, <1>3, HeldSize DEF Placement, Weighed, ListTypeOK
<1>5. /\ freeListRefs'[b] = freeListRefs[b] - 1
      /\ \A c \in Blocks \ {b} : freeListRefs'[c] = freeListRefs[c]
      /\ Held(b) # 0 /\ Held(b) <= Cardinality(Threads)
  BY <1>2, <1>3, HeldSize DEF GetDrop, ListTypeOK
<1>6. kind[b] # "link" BY <1>4, <1>5
<1>7. CASE freeListRefs[b] = SHOULD_BE_ON_FREELIST + 1
  <2> DEFINE d == [fl[t] EXCEPT !.at = "link", !.then = "test"]
  <2>1. /\ d \in Local /\ fl' = [fl EXCEPT ![t] = d] /\ d.at = "link" /\ d.node = b
    BY <1>2, <1>3, <1>7 DEF GetDrop, Local, Places
  <2>2. (\A c : ~ Holds(d, c)) /\ KindAt(d.at) = "link" BY <2>1 DEF Holds, KindAt
  <2> HIDE DEF d
  <2>3. Held(b)' = Held(b) - 1 BY <1>3, <2>1, <2>2, HeldStep
  <2>4. kind[b] = "pending" /\ Held(b) = 1
    BY <1>4, <1>5, <1>6, <1>7, ListSize DEF Weight
  <2>5. freeListRefs'[b] = Weight("link") + Held(b)' /\ Held(b)' = 0
    BY <1>5, <1>7, <2>3, <2>4, ListSize DEF Weight
  <2>6. "link" \in Kinds /\ "link" \notin {"unused", "entry", "pending"} BY DEF Kinds
  <2>7. Chained([kind EXCEPT ![b] = "link"])'
    BY <1>1, <2>4 DEF GetDrop, Placement, Chained
  <2>8. t \in Writers => enq[t].at \notin WithBlock
    BY <1>3 DEF Calling, Outside, WithBlock
  <2> QED BY <1>1, <1>3, <1>5, <2>1, <2>2, <2>4, <2>5, <2>6, <2>7, <2>8, Goes
<1>8. CASE freeListRefs[b] # SHOULD_BE_ON_FREELIST + 1
  <2> DEFINE d == [fl[t] EXCEPT !.at = "test", !.node = NoBlock]
  <2>1. /\ d \in Local /\ fl' = [fl EXCEPT ![t] = d] /\ d.at = "test"
    BY <1>2, <1>3, <1>8 DEF GetDrop, Local, Places, Node
  <2>2. ~ Owns(d) /\ \A c : ~ Holds(d, c) BY <2>1 DEF Owns, Owning, Holds
  <2> HIDE DEF d
  <2>3. Held(b)' = Held(b) - 1 /\ \A c \in Blocks \ {b} : Held(c)' = Held(c)
    BY <1>3, <2>1, <2>2, HeldStep
  <2>4. kind[b] = "pending" => Held(b) # 1 BY <1>4, <1>8, ListSize DEF Weight
  <2>5. \A c \in Blocks : /\ freeListRefs'[c] = freeListRefs[c] + Held(c)' - Held(c)
                          /\ kind[c] = "link" => Held(c)' = 0
                          /\ kind[c] = "pending" => Held(c)' # 0
    BY <1>4, <1>5, <1>6, <2>3, <2>4
  <2>6. Chained(kind)' BY <1>1 DEF GetDrop, Placement, Chained
  <2> QED BY <1>1, <1>3, <2>1, <2>2, <2>5, <2>6, Stays
<1> QED BY <1>7, <1>8

-------------------------------------------------------------------------------
(* What a thread in the functions of the list has in its hands.            *)

LEMMA OutLocal == Out \in Local /\ Out.at = "out" /\ Out.node = NoBlock /\ Out.then = "out"
BY DEF Out, Local, Places, Node

LEMMA LinkedLocal ==
  ASSUME NEW t, fl[t] \in Local
  PROVE  /\ Linked(t) \in Local /\ Linked(t).node = NoBlock
         /\ Linked(t).at \in {"out", "test"}
         /\ fl[t].then = "out" => Linked(t) = Out
         /\ fl[t].then = "test" => Linked(t).at = "test"
BY DEF Linked, Out, Local, Places, Node

LEMMA TryLocals ==
  ASSUME NEW b \in Node, NEW h \in Node
  PROVE  /\ [Out EXCEPT !.at = "read", !.head = b] \in Local
         /\ [Out EXCEPT !.at = "head"] \in Local
         /\ [Out EXCEPT !.at = "release", !.node = b] \in Local
         /\ [Out EXCEPT !.at = "drop", !.node = b, !.head = h] \in Local
BY DEF Out, Local, Places, Node

LEMMA ListTypeStep ==
  ASSUME ListInv, NEW t \in Threads, ListStep(t)
  PROVE  ListTypeOK'
<1>1. /\ ListTypeOK /\ fl[t] \in Local /\ ListLocal(t) BY DEF ListInv, ListTypeOK
<1>2. SHOULD_BE_ON_FREELIST \in Nat \ {0} BY ListSize
<1>3. PICK kind, who : Placement(kind, who) BY DEF ListInv, Placed
<1>4. CASE AddFlag(t)
  BY <1>1, <1>2, <1>4, OutLocal DEF AddFlag, ListLocal, Owning, ListTypeOK, Local,
     Places
<1>5. CASE LinkHead(t) BY <1>1, <1>5 DEF LinkHead, ListTypeOK, Local, Places
<1>6. CASE LinkNext(t) BY <1>1, <1>6 DEF LinkNext, ListTypeOK, Local, Places
<1>7. CASE LinkRefs(t) BY <1>1, <1>7 DEF LinkRefs, ListTypeOK, Local, Places
<1>8. Linked(t) \in Local BY <1>1, LinkedLocal
<1>9. CASE LinkSwing(t) BY <1>1, <1>8, <1>9 DEF LinkSwing, ListTypeOK, Local, Places
<1>10. CASE LinkRetry(t)
  <2>1. fl' \in [Threads -> Local]
    BY <1>1, <1>8, <1>10 DEF LinkRetry, ListTypeOK, Local, Places
  <2>2. fl[t].node \in Blocks BY <1>1, <1>10 DEF LinkRetry, ListLocal, Owning
  <2>3. freeListRefs' \in [Blocks -> Nat]
    BY <1>1, <1>2, <1>10, <2>2 DEF LinkRetry, ListTypeOK
  <2> QED BY <1>1, <1>10, <2>1, <2>3 DEF ListTypeOK, LinkRetry
<1>11. CASE GetHead(t) BY <1>1, <1>11 DEF GetHead, ListTypeOK, Local, Places
<1>12. CASE GetNothing(t) BY <1>1, <1>12, OutLocal DEF GetNothing, ListTypeOK
<1>13. CASE GetTest(t) BY <1>1, <1>13 DEF GetTest, Local, Node, ListTypeOK, Places
<1>14. CASE GetHold(t)
  <2>1. fl[t].head \in Blocks BY <1>1, <1>14 DEF GetHold, ListLocal
  <2>2. fl' \in [Threads -> Local]
    <3>1. fl[t].head \in Node BY <2>1 DEF Node
    <3> QED BY <1>1, <1>14, <3>1, TryLocals DEF GetHold, ListTypeOK
  <2>3. freeListRefs' \in [Blocks -> Nat] BY <1>1, <1>14, <2>1 DEF GetHold, ListTypeOK
  <2> QED BY <1>1, <1>14, <2>2, <2>3 DEF ListTypeOK, GetHold
<1>15. CASE GetNext(t) BY <1>1, <1>15 DEF GetNext, ListLocal, ListTypeOK, Local, Places
<1>16. CASE GetPop(t)
  <2>1. fl[t].head \in Node /\ fl[t].next \in Node BY <1>1 DEF Local
  <2>2. fl' \in [Threads -> Local]
    BY <1>1, <1>16, <2>1, TryLocals DEF GetPop, ListTypeOK
  <2>3. freeListHead' \in Node BY <1>1, <1>16, <2>1 DEF GetPop, ListTypeOK
  <2> QED BY <1>1, <1>16, <2>2, <2>3 DEF ListTypeOK, GetPop
<1>17. CASE GetRelease(t)
  BY <1>1, <1>3, <1>17, Owner DEF GetRelease, ListLocal, Owning, KindAt, Weight,
     ListTypeOK, Local, Places
<1>18. CASE GetDrop(t)
  <2>1. PICK b \in Blocks : b = fl[t].node BY <1>1, <1>18 DEF GetDrop, ListLocal
  <2>2. Held(b) \in Nat /\ Held(b) # 0 /\ freeListRefs[b] = Weight(kind[b]) + Held(b)
    BY <1>3, <1>18, <2>1, HeldSize DEF GetDrop, Holds, Placement, Weighed
  <2>3. Weight(kind[b]) \in Nat BY ListSize DEF Weight
  <2>4. freeListRefs' \in [Blocks -> Nat]
    BY <1>1, <1>18, <2>1, <2>2, <2>3 DEF GetDrop, ListTypeOK
  <2>5. fl' \in [Threads -> Local]
    BY <1>1, <1>18 DEF GetDrop, ListTypeOK, Local, Places, Node
  <2> QED BY <1>1, <1>18, <2>4, <2>5 DEF ListTypeOK, GetDrop
<1> QED
  BY <1>4, <1>5, <1>6, <1>7, <1>9, <1>10, <1>11, <1>12, <1>13, <1>14, <1>15, <1>16,
     <1>17, <1>18 DEF ListStep

(* Only t moves, and only LinkNext writes a next, that of a node nobody    *)
(* else has or holds.                                                      *)
LEMMA ListLocalStep ==
  ASSUME ListInv, NEW t \in Threads, ListStep(t), NEW u \in Threads
  PROVE  ListLocal(u)'
<1>1. /\ ListTypeOK /\ fl[t] \in Local /\ ListLocal(t) /\ ListLocal(u)
  BY DEF ListInv, ListTypeOK
<1>2. ListTypeOK' BY ListTypeStep
<1>3. CASE u # t
  <2>1. fl'[u] = fl[u]
    BY <1>1, <1>3 DEF ListTypeOK, ListStep, AddFlag, LinkHead, LinkNext, LinkRefs,
       LinkSwing, LinkRetry, GetHead, GetNothing, GetTest, GetHold, GetNext, GetPop,
       GetRelease, GetDrop
  <2>2. CASE ~ LinkNext(t)
    <3>1. freeListNext' = freeListNext
      BY <2>2 DEF ListStep, AddFlag, LinkHead, LinkRefs, LinkSwing, LinkRetry, GetHead,
         GetNothing, GetTest, GetHold, GetNext, GetPop, GetRelease, GetDrop
    <3> QED BY <1>1, <2>1, <3>1 DEF ListLocal
  <2>3. CASE LinkNext(t)
    <3>1. PICK kind, who : Placement(kind, who) BY DEF ListInv, Placed
    <3>2. PICK b \in Blocks : b = fl[t].node
      BY <1>1, <2>3 DEF LinkNext, ListLocal, Owning
    <3>3. kind[b] = "link" /\ who[b] = t /\ Held(b) = 0
      BY <2>3, <3>1, <3>2 DEF LinkNext, Placement, Owned, Weighed, Owns, Owning, KindAt
    <3>4. \A c \in Blocks \ {b} : freeListNext'[c] = freeListNext[c]
      BY <1>1, <2>3, <3>2 DEF LinkNext, ListTypeOK
    <3>5. fl[u].at = "pop" => fl[u].head # b BY <3>3, HeldSize DEF Holds
    <3>6. fl[u].at \in {"refs", "swing"} => fl[u].node # b
      BY <1>3, <3>1, <3>3 DEF Placement, Owned, Owns, Owning
    <3> QED BY <1>1, <2>1, <3>4, <3>5, <3>6 DEF ListLocal, Owning
  <2> QED BY <2>2, <2>3
<1>4. CASE u = t
  <2>1. CASE AddFlag(t)
    BY <1>1, <1>4, <2>1, OutLocal DEF AddFlag, ListLocal, ListTypeOK, Owning, Local
  <2>2. CASE LinkHead(t)
    BY <1>1, <1>4, <2>2 DEF LinkHead, ListLocal, ListTypeOK, Owning, Local
  <2>3. CASE LinkNext(t)
    BY <1>1, <1>4, <2>3 DEF LinkNext, ListLocal, ListTypeOK, Owning, Local
  <2>4. CASE LinkRefs(t)
    BY <1>1, <1>4, <2>4 DEF LinkRefs, ListLocal, ListTypeOK, Owning, Local
  <2>5. CASE LinkSwing(t)
    <3>1. /\ Linked(t).at \in {"out", "test"} /\ fl[t].at = "swing" /\ fl[t].node \in Blocks
      BY <1>1, <2>5, LinkedLocal DEF LinkSwing, ListLocal, Owning
    <3>2. CASE fl'[t] = Linked(t) BY <1>4, <3>1, <3>2 DEF ListLocal, Owning
    <3>3. CASE fl'[t] = [fl[t] EXCEPT !.at = "retry", !.next = freeListHead]
      BY <1>1, <1>4, <3>1, <3>3 DEF Local, ListLocal, Owning
    <3> QED BY <1>1, <2>5, <3>2, <3>3 DEF LinkSwing, ListTypeOK
  <2>6. CASE LinkRetry(t)
    BY <1>1, <1>4, <2>6, OutLocal DEF LinkRetry, ListLocal, ListTypeOK, Owning, Local,
       Linked, Out
  <2>7. CASE GetHead(t)
    BY <1>1, <1>4, <2>7 DEF GetHead, ListLocal, ListTypeOK, Owning, Local
  <2>8. CASE GetNothing(t)
    BY <1>1, <1>4, <2>8, OutLocal DEF GetNothing, ListLocal, ListTypeOK, Owning, Local
  <2>9. CASE GetTest(t)
    BY <1>1, <1>4, <2>9 DEF GetTest, ListLocal, ListTypeOK, Owning, Local, Node
  <2>10. CASE GetHold(t)
    <3>1. \/ fl'[t].at = "read" /\ fl'[t].head = fl[t].head
          \/ fl'[t].at = "head"
      BY <1>1, <2>10 DEF GetHold, ListTypeOK, Out
    <3>2. fl[t].head \in Blocks BY <1>1, <2>10 DEF GetHold, ListLocal
    <3> QED BY <1>4, <3>1, <3>2 DEF ListLocal, Owning
  <2>11. CASE GetNext(t)
    BY <1>1, <1>4, <2>11 DEF GetNext, ListLocal, ListTypeOK, Owning, Local
  <2>12. CASE GetPop(t)
    <3>1. fl'[t].at \in {"release", "drop"} /\ fl'[t].node = fl[t].head
      BY <1>1, <2>12 DEF GetPop, ListTypeOK, Out
    <3>2. fl[t].head \in Blocks BY <1>1, <2>12 DEF GetPop, ListLocal
    <3> QED BY <1>4, <3>1, <3>2 DEF ListLocal, Owning
  <2>13. CASE GetRelease(t)
    BY <1>1, <1>4, <2>13 DEF GetRelease, ListLocal, ListTypeOK, Owning, Local
  <2>14. CASE GetDrop(t)
    BY <1>1, <1>4, <2>14 DEF GetDrop, ListLocal, ListTypeOK, Owning, Local
  <2> QED
    BY <2>1, <2>2, <2>3, <2>4, <2>5, <2>6, <2>7, <2>8, <2>9, <2>10, <2>11, <2>12, <2>13,
       <2>14 DEF ListStep
<1> QED BY <1>3, <1>4

(* A call stays the call it is until it returns.                           *)
LEMMA CallStep ==
  ASSUME ListInv, NEW t \in Threads, ListStep(t), UNCHANGED <<enq, deq>>
  PROVE  Calling'
<1>1. /\ ListTypeOK /\ fl[t] \in Local /\ Calling BY DEF ListInv, ListTypeOK
<1>2. /\ \A u \in Threads \ {t} : fl'[u] = fl[u]
  BY <1>1 DEF ListTypeOK, ListStep, AddFlag, LinkHead, LinkNext, LinkRefs, LinkSwing,
     LinkRetry, GetHead, GetNothing, GetTest, GetHold, GetNext, GetPop, GetRelease,
     GetDrop
<1>3. ~ Outside(t) /\ fl[t].at # "out"
  BY DEF Outside, ListStep, AddFlag, LinkHead, LinkNext, LinkRefs, LinkSwing, LinkRetry,
     GetHead, GetNothing, GetTest, GetHold, GetNext, GetPop, GetRelease, GetDrop
<1>4. ASSUME InAdd(t) PROVE InAdd(t)'
  <2>1. fl[t].at \in Adding /\ fl[t].then = "out" BY <1>3, <1>4 DEF InAdd
  <2>2. AddFlag(t) \/ LinkHead(t) \/ LinkNext(t) \/ LinkRefs(t) \/ LinkSwing(t) \/ LinkRetry(t)
    BY <2>1 DEF Adding, ListStep, GetHead, GetNothing, GetTest, GetHold, GetNext,
       GetPop, GetRelease, GetDrop
  <2> QED
    BY <1>1, <2>1, <2>2, OutLocal DEF ListTypeOK, AddFlag, LinkHead, LinkNext, LinkRefs,
       LinkSwing, LinkRetry, Linked, InAdd, Outside, Adding, Local
<1>5. ASSUME InTryGet(t) PROVE InTryGet(t)'
  <2>1. CASE fl[t].at \in Adding
    <3>1. fl[t].at # "add" /\ fl[t].then = "test" BY <1>5, <2>1 DEF InTryGet
    <3>2. LinkHead(t) \/ LinkNext(t) \/ LinkRefs(t) \/ LinkSwing(t) \/ LinkRetry(t)
      BY <2>1, <3>1 DEF Adding, ListStep, AddFlag, GetHead, GetNothing, GetTest,
         GetHold, GetNext, GetPop, GetRelease, GetDrop
    <3>3. \/ fl'[t].at = "test"
          \/ fl'[t].at \in Adding \ {"add"} /\ fl'[t].then = "test"
      BY <1>1, <3>1, <3>2, LinkedLocal DEF ListTypeOK, LinkHead, LinkNext, LinkRefs,
         LinkSwing, LinkRetry, Adding, Local
    <3> QED BY <3>3 DEF InTryGet, Adding
  <2>2. CASE fl[t].at \notin Adding
    <3>1. \/ GetHead(t) \/ GetNothing(t) \/ GetTest(t) \/ GetHold(t) \/ GetNext(t)
          \/ GetPop(t) \/ GetRelease(t) \/ GetDrop(t)
      BY <2>2 DEF Adding, ListStep, AddFlag, LinkHead, LinkNext, LinkRefs, LinkSwing,
         LinkRetry
    <3>2. GetDrop(t) => InTryGet(t)'
      BY <1>1 DEF GetDrop, InTryGet, ListTypeOK, Adding, Local
    <3>3. fl'[t].at \in {"test", "out", "head", "hold", "read", "pop", "release", "drop"}
          \/ GetDrop(t)
      <4>1. GetHold(t) => fl'[t].at \in {"head", "read"}
        BY <1>1 DEF ListTypeOK, GetHold, Out
      <4>2. GetPop(t) => fl'[t].at \in {"release", "drop"}
        BY <1>1 DEF ListTypeOK, GetPop, Out
      <4>3. GetTest(t) => fl'[t].at \in {"head", "hold"}
        BY <1>1 DEF ListTypeOK, GetTest, Local
      <4>4. GetHead(t) \/ GetNothing(t) \/ GetNext(t) \/ GetRelease(t)
              => fl'[t].at \in {"test", "out", "pop"}
        BY <1>1, OutLocal DEF ListTypeOK, GetHead, GetNothing, GetNext, GetRelease,
           Local
      <4> QED BY <3>1, <4>1, <4>2, <4>3, <4>4
    <3> QED BY <3>2, <3>3 DEF InTryGet, Adding
  <2> QED BY <2>1, <2>2
<1>6. ASSUME NEW u \in Threads \ {t}
      PROVE  Outside(u)' = Outside(u) /\ InAdd(u)' = InAdd(u) /\ InTryGet(u)' = InTryGet(u)
  BY <1>2 DEF Outside, InAdd, InTryGet
<1>7. Readers \subseteq Threads /\ Writers \subseteq Threads
  BY ImplicitProducerAssumption
<1>8. ASSUME NEW r \in Readers
      PROVE  IF deq'[r].at = "free" THEN InAdd(r)' ELSE Outside(r)'
  BY <1>1, <1>3, <1>4, <1>6, <1>7 DEF Calling
<1>9. ASSUME NEW w \in Writers
      PROVE  IF enq'[w].at = "give" THEN InAdd(w)'
             ELSE IF enq'[w].at = "get" THEN InTryGet(w)' ELSE Outside(w)'
  BY <1>1, <1>3, <1>4, <1>5, <1>6, <1>7 DEF Calling
<1> QED BY <1>1, <1>8, <1>9 DEF Calling

(* Every step inside the free list finds a place for every block.          *)
LEMMA ListStepInv ==
  ASSUME ListInv, NEW t \in Threads, ListStep(t), UNCHANGED <<entries, enq, deq, unused>>
  PROVE  ListInv'
<1>1. ListTypeOK' /\ Calling' BY ListTypeStep, CallStep
<1>2. \A u \in Threads : ListLocal(u)' BY ListLocalStep
<1>3. Placed'
  BY AddFlagPlaced, ReadPlaced, LinkNextPlaced, LinkRefsPlaced, LinkSwingPlaced,
     LinkRetryPlaced, GetHoldPlaced, GetPopPlaced, GetReleasePlaced, GetDropPlaced DEF
     ListStep
<1> QED BY <1>1, <1>2, <1>3 DEF ListInv

-------------------------------------------------------------------------------
(* A block goes from the list's care to a stream's, and back.              *)

LEMMA SameHeld ==
  ASSUME fl' = fl, NEW b
  PROVE  Held(b)' = Held(b)
<1>1. Holding(b)' = Holding(b) BY DEF Holding
<1> QED BY <1>1 DEF Held

(* The list stays as it is while every block keeps its use or one block    *)
(* passes from one user to another.                                        *)
LEMMA Keeps ==
  ASSUME ListTypeOK, NEW kind, NEW who, Placement(kind, who),
         UNCHANGED <<freeListHead, freeListNext, freeListRefs>>,
         \A c \in Blocks : Held(c)' = Held(c),
         Used(kind, who)', Owned(kind, who)'
  PROVE  Placed'
<1>1. Chained(kind)' BY DEF Placement, Chained
<1>2. Weighed(kind)' BY DEF Placement, Weighed
<1>3. Placement(kind, who)' BY <1>1, <1>2 DEF Placement
<1> QED BY <1>3 DEF Placed

LEMMA Passes ==
  ASSUME ListTypeOK, NEW kind, NEW who, Placement(kind, who),
         UNCHANGED <<freeListHead, freeListNext, freeListRefs>>,
         \A c \in Blocks : Held(c)' = Held(c),
         NEW b \in Blocks, kind[b] \in {"unused", "held", "entry"},
         NEW k \in {"unused", "held", "entry"},
         NEW o \in Owners,
         Used([kind EXCEPT ![b] = k], [who EXCEPT ![b] = o])',
         Owned([kind EXCEPT ![b] = k], [who EXCEPT ![b] = o])'
  PROVE  Placed'
<1> DEFINE kind2 == [kind EXCEPT ![b] = k]
           who2 == [who EXCEPT ![b] = o]
<1>1. /\ kind2 \in [Blocks -> Kinds] /\ kind2[b] = k
      /\ who2 \in [Blocks -> Owners]
      /\ \A c \in Blocks \ {b} : kind2[c] = kind[c]
  BY DEF Placement, Kinds
<1>2. Chained(kind2)' BY <1>1 DEF Placement, Chained
<1>3. Weighed(kind2)' BY <1>1 DEF Weight, Placement, Weighed
<1>4. Placement(kind2, who2)' BY <1>1, <1>2, <1>3 DEF Placement
<1> QED BY <1>4 DEF Placed

(* A call begins or ends: nobody holds more or less.                       *)
LEMMA CallHeld ==
  ASSUME ListTypeOK, NEW t \in Threads, NEW d \in Local, fl' = [fl EXCEPT ![t] = d],
         fl[t].at = "out", d.at \in {"out", "add", "head"}
  PROVE  /\ \A b : Held(b)' = Held(b)
         /\ fl' \in [Threads -> Local]
         /\ fl'[t] = d /\ \A u \in Threads \ {t} : fl'[u] = fl[u]
<1>1. ASSUME NEW b PROVE Held(b)' = Held(b) BY HeldStep DEF Holds
<1> QED BY <1>1 DEF ListTypeOK

LEMMA AddLocal ==
  ASSUME NEW b \in Blocks
  PROVE  /\ [Out EXCEPT !.at = "add", !.node = b] \in Local
         /\ [Out EXCEPT !.at = "add", !.node = b].at = "add"
         /\ [Out EXCEPT !.at = "add", !.node = b].node = b
         /\ [Out EXCEPT !.at = "add", !.node = b].then = "out"
BY DEF Out, Local, Places, Node

(* Steps that leave the list and the use of every block alone.             *)
LEMMA Aside ==
  ASSUME ListInv, UNCHANGED <<listVars, unused>>, Calling',
         \A w \in Writers :
           /\ \A e \in 1 .. Len(entries'[w]) :
                entries'[w][e].value \in Blocks =>
                  e \in 1 .. Len(entries[w]) /\ entries'[w][e].value = entries[w][e].value
           /\ enq'[w].at \in WithBlock /\ enq'[w].block \in Blocks =>
                enq[w].at \in WithBlock /\ enq'[w].block = enq[w].block
  PROVE  ListInv'
<1>1. PICK kind, who : Placement(kind, who) BY DEF ListInv, Placed
<1>2. /\ ListTypeOK'
      /\ \A t \in Threads : ListLocal(t)'
  BY DEF ListInv, listVars, ListTypeOK, ListLocal
<1>3. Used(kind, who)' BY <1>1 DEF Placement, Used
<1>4. Owned(kind, who)' BY <1>1 DEF Placement, Owned, listVars
<1>5. \A c \in Blocks : Held(c)' = Held(c) BY SameHeld DEF listVars
<1>6. Placed' BY <1>1, <1>3, <1>4, <1>5, Keeps DEF ListInv, listVars
<1> QED BY <1>2, <1>6 DEF ListInv

(* Dequeue but for Unlink.                                                 *)
LEMMA DequeueAside ==
  ASSUME ListInv, TypeOK, NEW r \in Readers, DequeueStep(r), ~ Unlink(r)
  PROVE  ListInv'
<1>1. UNCHANGED <<listVars, entries, enq, unused>>
  BY Zenon DEF DequeueStep, DequeueStart, LoadOvercommit, LoadOptimisticCount,
     AddOptimisticCount, Recheck, AddOvercommit, Claim, LoadHeader, LoadTail, LoadKey,
     LoadValue, Move, SetEmpty, Freed, listVars, indexVars, blockVars
<1>0. deq \in [Readers -> DeqLocal] BY DEF TypeOK
<1>2. \A q \in Readers \ {r} : deq'[q] = deq[q]
  BY <1>0, Zenon DEF DequeueStep, DequeueStart, LoadOvercommit, LoadOptimisticCount,
     AddOptimisticCount, Recheck, AddOvercommit, Claim, LoadHeader, LoadTail, LoadKey,
     LoadValue, Move, SetEmpty, Freed, Missed, Dequeued
<1>3. deq'[r].at # "free"
  <2>1. Missed(r) \/ Dequeued(r) => deq'[r].at = "idle"
    BY <1>0 DEF Missed, Dequeued, DeqIdle
  <2>2. Claim(r) => deq'[r].at = "header" BY <1>0 DEF Claim, DeqIdle
  <2>3. ASSUME NEW w \in Writers, DequeueStart(r, w) PROVE deq'[r].at = "over"
    BY <1>0, <2>3 DEF DequeueStart, DeqLocal
  <2>4. LoadOvercommit(r) \/ AddOptimisticCount(r) => deq'[r].at # "free"
    BY <1>0 DEF LoadOvercommit, AddOptimisticCount, DeqLocal
  <2>5. LoadOptimisticCount(r) \/ AddOvercommit(r) => deq'[r].at # "free"
    BY <1>0, <2>1 DEF LoadOptimisticCount, AddOvercommit, DeqLocal
  <2>6. Recheck(r) => deq'[r].at # "free" BY <1>0 DEF Recheck, DeqLocal
  <2>7. LoadHeader(r) \/ LoadTail(r) \/ LoadKey(r) \/ LoadValue(r) \/ Move(r)
          => deq'[r].at # "free"
    BY <1>0 DEF LoadHeader, LoadTail, LoadKey, LoadValue, Move, DeqLocal
  <2>8. SetEmpty(r) \/ Freed(r) => deq'[r].at # "free"
    BY <1>0, <2>1 DEF SetEmpty, Freed, DeqLocal
  <2> QED BY <2>1, <2>2, <2>3, <2>4, <2>5, <2>6, <2>7, <2>8 DEF DequeueStep
<1>4. Outside(r)
  <2>1. CASE deq[r].at = "free"
    <3>1. Freed(r)
      BY <2>1 DEF DequeueStep, DequeueStart, LoadOvercommit, LoadOptimisticCount,
         AddOptimisticCount, Recheck, AddOvercommit, Claim, LoadHeader, LoadTail,
         LoadKey, LoadValue, Move, SetEmpty
    <3> QED BY <2>1, <3>1 DEF Freed, Returned, ListInv, Calling, InAdd, Adding
  <2>2. CASE deq[r].at # "free" BY <2>2 DEF ListInv, Calling
  <2> QED BY <2>1, <2>2
<1>5. \A u \in Threads : Outside(u)' = Outside(u) /\ InAdd(u)' = InAdd(u)
                         /\ InTryGet(u)' = InTryGet(u)
  BY <1>1 DEF listVars, Outside, InAdd, InTryGet
<1>6. Readers \subseteq Threads /\ Writers \subseteq Threads
  BY ImplicitProducerAssumption
<1>7. Calling' BY <1>1, <1>2, <1>3, <1>4, <1>5, <1>6 DEF ListInv, Calling
<1> QED BY <1>1, <1>7, Aside

-------------------------------------------------------------------------------
(* The ring of block index entries of a producer.                          *)

(* What a ring has, with types.                                            *)
LEMMA ShapeFacts ==
  ASSUME TypeOK, NEW w \in Writers, Shape(w)
  PROVE  /\ Current(w) \in Nat /\ Current(w) >= 1 /\ CurrentHeader(w) \in Header
         /\ blockIndex[w] \in Seq(Header) /\ entries[w] \in Seq(Entry)
         /\ Len(entries[w]) \in Nat /\ Len(entries[w]) > 0
         /\ tailIndex[w] \in Nat /\ headIndex[w] \in Nat /\ enq[w] \in EnqLocal
         /\ Top(w) \in Int /\ Written(w) \in Int
         /\ \A e \in 1 .. Len(entries[w]) : entries[w][e] \in Entry
<1>1. /\ blockIndex[w] \in Seq(Header) /\ entries[w] \in Seq(Entry)
      /\ tailIndex[w] \in Nat /\ headIndex[w] \in Nat /\ enq[w] \in EnqLocal
  BY DEF TypeOK
<1>2. Current(w) \in Nat /\ Current(w) >= 1 BY <1>1 DEF Shape, Current
<1>3. CurrentHeader(w) \in Header BY <1>1, <1>2 DEF CurrentHeader, Current
<1>4. Len(entries[w]) \in Nat /\ Len(entries[w]) > 0
  BY <1>1, <1>2 DEF Shape, CurrentHeader
<1>5. Top(w) \in Int /\ Written(w) \in Int
  <2>1. \A i \in Int : Num(i) \in Int BY NumSlot
  <2>2. tailIndex[w] \in Int /\ tailIndex[w] - 1 \in Int BY <1>1
  <2> QED BY <2>1, <2>2 DEF Top, Written
<1> QED BY <1>1, <1>2, <1>3, <1>4, <1>5

(* A place of a ring, a turn later, and another place less than a turn     *)
(* away.                                                                   *)
LEMMA AtFacts ==
  ASSUME NEW h, NEW n \in Nat, n > 0, Capacity(h) = n, NEW p \in Int, NEW q \in Int
  PROVE  /\ At(h, p) = h.index[(p % n) + 1] /\ (p % n) + 1 \in 1 .. n
         /\ At(h, p + n) = At(h, p)
         /\ p < q /\ q < p + n => (p % n) + 1 # (q % n) + 1
<1>1. At(h, p) = h.index[(p % n) + 1] /\ At(h, p + n) = h.index[((p + n) % n) + 1]
  BY DEF At
<1>2. PICK k \in Int : p = k * n + (p % n) BY Turn
<1>3. p % n \in 0 .. n - 1 /\ q % n \in 0 .. n - 1 BY Turn
<1>4. p + n = (k + 1) * n + (p % n) /\ k + 1 \in Int BY <1>2, <1>3
<1>5. (p + n) % n = p % n BY <1>3, <1>4, SameTurn
<1>6. ASSUME p < q, q < p + n, p % n = q % n PROVE FALSE
  <2>1. PICK m \in Int : q = m * n + (q % n) BY Turn
  <2>2. q - p = (m - k) * n BY <1>2, <1>3, <1>6, <2>1
  <2>3. 0 < (m - k) * n /\ (m - k) * n < n BY <1>6, <2>2
  <2>4. m - k \in Int /\ (m - k <= 0 \/ m - k >= 1) OBVIOUS
  <2>5. CASE m - k <= 0
    <3>1. (m - k) * n <= 0 BY <2>4, <2>5
    <3> QED BY <2>3, <2>4, <3>1
  <2>6. CASE m - k >= 1
    <3>1. (m - k) * n >= n BY <2>4, <2>6
    <3> QED BY <2>3, <2>4, <3>1
  <2> QED BY <2>4, <2>5, <2>6
<1> QED BY <1>1, <1>3, <1>5, <1>6

LEMMA AtOne ==
  ASSUME NEW h, NEW n \in Nat, n > 0, Capacity(h) = n, NEW p \in Int
  PROVE  /\ At(h, p) = h.index[(p % n) + 1] /\ (p % n) + 1 \in 1 .. n
         /\ At(h, p + n) = At(h, p)
BY AtFacts

(* A ring returns after a turn, and not before.                            *)
LEMMA RingFacts ==
  ASSUME TypeOK, NEW w \in Writers, Shape(w), NEW x \in Int, NEW y \in Int
  PROVE  /\ RingAt(w, x) \in 1 .. Len(entries[w])
         /\ RingAt(w, x + Len(entries[w])) = RingAt(w, x)
         /\ x < y /\ y < x + Len(entries[w]) => RingAt(w, x) # RingAt(w, y)
         /\ EntryOf(w, x) \in Entry
<1> DEFINE n == Len(entries[w])
           h == CurrentHeader(w)
           p == h.tail + x - Top(w)
           q == h.tail + y - Top(w)
<1>1. /\ n \in Nat /\ n > 0 /\ Capacity(h) = n /\ h.tail \in Nat /\ Top(w) \in Int
      /\ Current(w) \in 1 .. Current(w)
  BY ShapeFacts DEF Shape, Header
<1>2. p \in Int /\ q \in Int /\ h.tail + (x + n) - Top(w) = p + n
      /\ (x < y /\ y < x + n => p < q /\ q < p + n)
  <2>1. ASSUME NEW a \in Nat, NEW m \in Nat, NEW t \in Int
        PROVE  /\ a + x - t \in Int /\ a + y - t \in Int
               /\ a + (x + m) - t = (a + x - t) + m
               /\ x < y /\ y < x + m => a + x - t < a + y - t /\ a + y - t < (a + x - t) + m
    OBVIOUS
  <2> HIDE DEF n, h
  <2> QED BY <1>1, <2>1
<1>3. /\ At(h, p) = h.index[(p % n) + 1] /\ (p % n) + 1 \in 1 .. n
      /\ At(h, q) = h.index[(q % n) + 1] /\ (q % n) + 1 \in 1 .. n
      /\ At(h, p + n) = At(h, p)
      /\ p < q /\ q < p + n => (p % n) + 1 # (q % n) + 1
  <2> HIDE DEF n, h, p, q
  <2>1. n \in Nat /\ n > 0 /\ Capacity(h) = n /\ p \in Int /\ q \in Int BY <1>1, <1>2
  <2>2. /\ At(h, p) = h.index[(p % n) + 1] /\ (p % n) + 1 \in 1 .. n
        /\ At(h, p + n) = At(h, p)
    BY <2>1, AtOne, Zenon
  <2>3. At(h, q) = h.index[(q % n) + 1] /\ (q % n) + 1 \in 1 .. n BY <2>1, AtOne, Zenon
  <2>4. p < q /\ q < p + n => (p % n) + 1 # (q % n) + 1 BY <2>1, AtFacts, Zenon
  <2> QED BY <2>2, <2>3, <2>4
<1>4. RingAt(w, x) \in 1 .. n
  <2>1. \A c \in 1 .. n : h.index[c] \in 1 .. n
    BY <1>1, ShapeFacts DEF Shape, CurrentHeader
  <2>2. RingAt(w, x) = At(h, p) BY DEF RingAt
  <2> HIDE DEF n, h, p, q
  <2> QED BY <1>3, <2>1, <2>2
<1>5. RingAt(w, x + n) = RingAt(w, x) BY <1>2, <1>3 DEF RingAt
<1>6. x < y /\ y < x + n => RingAt(w, x) # RingAt(w, y) BY <1>2, <1>3 DEF RingAt, Shape
<1>7. EntryOf(w, x) \in Entry BY <1>4, ShapeFacts DEF EntryOf
<1> QED BY <1>4, <1>5, <1>6, <1>7

(* A step of a writer changes nothing of another one's producer.           *)
LEMMA WriterFrame ==
  ASSUME TypeOK, NEW w \in Writers, EnqueueStep(w), NEW v \in Writers \ {w}
  PROVE  /\ tailIndex'[v] = tailIndex[v] /\ enq'[v] = enq[v] /\ tailBlock'[v] = tailBlock[v]
         /\ blockIndex'[v] = blockIndex[v] /\ entries'[v] = entries[v]
<1>1. /\ tailIndex \in [Writers -> Nat] /\ enq \in [Writers -> EnqLocal]
      /\ tailBlock \in [Writers -> Node] /\ blockIndex \in [Writers -> Seq(Header)]
      /\ entries \in [Writers -> Seq(Entry)]
  BY DEF TypeOK
<1>2. enq'[v] = enq[v]
  BY <1>1 DEF EnqueueStep, FindEntry, NewBlockIndex, NewBlockIndexFails, WriteKey,
     WriteTail, FromInitialPool, FromFreeList, Got, Create, CreateFails, Fill,
     FillThrows, RewindTail, ClearValue, GivenBack, WriteValue, Construct, Publish
<1>3. tailIndex'[v] = tailIndex[v] /\ tailBlock'[v] = tailBlock[v]
  BY <1>1 DEF EnqueueStep, FindEntry, NewBlockIndex, NewBlockIndexFails, WriteKey,
     WriteTail, FromInitialPool, FromFreeList, Got, Create, CreateFails, Fill,
     FillThrows, RewindTail, ClearValue, GivenBack, WriteValue, Construct, Publish,
     countVars, indexVars
<1>4. blockIndex'[v] = blockIndex[v] /\ entries'[v] = entries[v]
  BY <1>1 DEF EnqueueStep, FindEntry, NewBlockIndex, NewBlockIndexFails, WriteKey,
     WriteTail, FromInitialPool, FromFreeList, Got, Create, CreateFails, Fill,
     FillThrows, RewindTail, ClearValue, GivenBack, WriteValue, Construct, Publish,
     indexVars, MoveTail
<1> QED BY <1>2, <1>3, <1>4

(* What a step of a writer leaves of its index, its tail and the counters. *)
LEMMA WriterKeeps ==
  ASSUME NEW w \in Writers, EnqueueStep(w)
  PROVE  /\ UNCHANGED <<headIndex, deq, found>>
         /\ NewBlockIndex(w) \/ WriteTail(w) \/ RewindTail(w) \/ UNCHANGED blockIndex
         /\ \/ NewBlockIndex(w) \/ WriteKey(w) \/ ClearValue(w) \/ WriteValue(w)
            \/ UNCHANGED entries
         /\ Publish(w) \/ UNCHANGED tailIndex
         /\ WriteValue(w) \/ UNCHANGED tailBlock
         /\ Fill(w) \/ Construct(w) \/ UNCHANGED element
         /\ Fill(w) \/ FillThrows(w) \/ UNCHANGED elementsCompletelyDequeued
BY DEF EnqueueStep, FindEntry, NewBlockIndex, NewBlockIndexFails, WriteKey, WriteTail,
   FromInitialPool, FromFreeList, Got, Create, CreateFails, Fill, FillThrows,
   RewindTail, ClearValue, GivenBack, WriteValue, Construct, Publish, indexVars,
   countVars, readVars, blockVars

(* The places of enqueue, in order.                                        *)
LEMMA WriterPlaces ==
  ASSUME TypeOK, NEW w \in Writers
  PROVE  /\ FindEntry(w) => enq[w].at = "idle" /\ enq'[w].at \in {"key", "grow"}
         /\ NewBlockIndex(w) => enq[w].at = "grow" /\ enq'[w].at = "key"
         /\ NewBlockIndexFails(w) => enq[w].at = "grow" /\ enq'[w].at = "idle"
         /\ WriteKey(w) => enq[w].at = "key" /\ enq'[w].at = "tail"
         /\ WriteTail(w) => enq[w].at = "tail" /\ enq'[w].at = "block"
         /\ FromInitialPool(w) => enq[w].at = "block" /\ enq'[w].at = "fill"
         /\ FromFreeList(w) => enq[w].at = "block" /\ enq'[w].at = "get"
         /\ Got(w) => enq[w].at = "get" /\ enq'[w].at \in {"create", "fill"}
         /\ Create(w) => enq[w].at = "create" /\ enq'[w].at = "fill"
         /\ CreateFails(w) => enq[w].at = "create" /\ enq'[w].at = "undo"
         /\ Fill(w) => enq[w].at = "fill" /\ enq'[w].at = "value"
         /\ FillThrows(w) => enq[w].at = "fill" /\ enq'[w].at = "undo"
         /\ RewindTail(w) => enq[w].at = "undo" /\ enq'[w].at = "rewind"
         /\ ClearValue(w) => enq[w].at = "rewind" /\ enq'[w].at \in {"idle", "give"}
         /\ GivenBack(w) => enq[w].at = "give" /\ enq'[w].at = "idle"
         /\ WriteValue(w) => enq[w].at = "value" /\ enq'[w].at = "publish"
         /\ Construct(w) => enq[w].at = "idle" /\ enq'[w].at = "publish"
         /\ Publish(w) => enq[w].at = "publish" /\ enq'[w].at = "idle"
<1>0. enq \in [Writers -> EnqLocal] BY DEF TypeOK
<1>1. FindEntry(w) => enq[w].at = "idle" /\ enq'[w].at \in {"key", "grow"}
  BY <1>0 DEF FindEntry, EnqLocal
<1>2. NewBlockIndex(w) => enq[w].at = "grow" /\ enq'[w].at = "key"
  BY <1>0 DEF NewBlockIndex, EnqLocal
<1>3. NewBlockIndexFails(w) => enq[w].at = "grow" /\ enq'[w].at = "idle"
  BY <1>0 DEF NewBlockIndexFails, EnqLocal, EnqIdle
<1>4. WriteKey(w) => enq[w].at = "key" /\ enq'[w].at = "tail"
  BY <1>0 DEF WriteKey, EnqLocal
<1>5. WriteTail(w) => enq[w].at = "tail" /\ enq'[w].at = "block"
  BY <1>0 DEF WriteTail, EnqLocal
<1>6. FromInitialPool(w) => enq[w].at = "block" /\ enq'[w].at = "fill"
  BY <1>0 DEF FromInitialPool, EnqLocal
<1>7. FromFreeList(w) => enq[w].at = "block" /\ enq'[w].at = "get"
  BY <1>0 DEF FromFreeList, EnqLocal
<1>8. Got(w) => enq[w].at = "get" /\ enq'[w].at \in {"create", "fill"}
  BY <1>0 DEF Got, EnqLocal
<1>9. Create(w) => enq[w].at = "create" /\ enq'[w].at = "fill"
  BY <1>0 DEF Create, EnqLocal
<1>10. CreateFails(w) => enq[w].at = "create" /\ enq'[w].at = "undo"
  BY <1>0 DEF CreateFails, EnqLocal
<1>11. Fill(w) => enq[w].at = "fill" /\ enq'[w].at = "value" BY <1>0 DEF Fill, EnqLocal
<1>12. FillThrows(w) => enq[w].at = "fill" /\ enq'[w].at = "undo"
  BY <1>0 DEF FillThrows, EnqLocal
<1>13. RewindTail(w) => enq[w].at = "undo" /\ enq'[w].at = "rewind"
  BY <1>0 DEF RewindTail, EnqLocal
<1>14. ClearValue(w) => enq[w].at = "rewind" /\ enq'[w].at \in {"idle", "give"}
  BY <1>0 DEF ClearValue, EnqLocal, EnqIdle
<1>15. GivenBack(w) => enq[w].at = "give" /\ enq'[w].at = "idle"
  BY <1>0 DEF GivenBack, EnqLocal, EnqIdle
<1>16. WriteValue(w) => enq[w].at = "value" /\ enq'[w].at = "publish"
  BY <1>0 DEF WriteValue, EnqLocal
<1>17. Construct(w) => enq[w].at = "idle" /\ enq'[w].at = "publish"
  BY <1>0 DEF Construct, EnqLocal
<1>18. Publish(w) => enq[w].at = "publish" /\ enq'[w].at = "idle"
  BY <1>0 DEF Publish, EnqLocal, EnqIdle
<1> QED
  BY <1>1, <1>2, <1>3, <1>4, <1>5, <1>6, <1>7, <1>8, <1>9, <1>10, <1>11, <1>12, <1>13,
     <1>14, <1>15, <1>16, <1>17, <1>18

-------------------------------------------------------------------------------
(* How a step of a writer moves the tail of its ring.                      *)

LEMMA TopAt ==
  ASSUME NEW w
  PROVE  /\ Top(w) = IF enq[w].at \in Moved \cup {"publish"} THEN Num(tailIndex[w])
                                                           ELSE Num(tailIndex[w] - 1)
         /\ Written(w) = IF enq[w].at = "publish" THEN Num(tailIndex[w])
                                                ELSE Num(tailIndex[w] - 1)
         /\ Top(w)' = IF enq'[w].at \in Moved \cup {"publish"} THEN Num(tailIndex'[w])
                                                            ELSE Num(tailIndex'[w] - 1)
         /\ Written(w)' = IF enq'[w].at = "publish" THEN Num(tailIndex'[w])
                                                 ELSE Num(tailIndex'[w] - 1)
BY DEF Top, Written

(* The tail of the ring moves with WriteTail and RewindTail, and a block   *)
(* comes in with WriteValue.                                               *)
LEMMA WriterMoves ==
  ASSUME TypeOK, NEW w \in Writers, StartsBlock(w), EnqueueStep(w)
  PROVE  /\ WriteTail(w) => Top(w)' = Top(w) + 1 /\ Top(w) = Num(tailIndex[w]) - 1
         /\ RewindTail(w) => Top(w)' = Top(w) - 1 /\ Top(w) = Num(tailIndex[w])
         /\ ~ WriteTail(w) /\ ~ RewindTail(w) => Top(w)' = Top(w)
         /\ WriteValue(w) => /\ Top(w) = Num(tailIndex[w]) /\ Written(w)' = Top(w)
                             /\ Written(w) = Top(w) - 1
         /\ ~ WriteValue(w) => Written(w)' = Written(w)
         /\ enq[w].at \in Moved => Top(w) = Num(tailIndex[w]) /\ Written(w) = Top(w) - 1
         /\ enq[w].at \in Entering \ Moved => Top(w) = Num(tailIndex[w]) - 1 /\ Written(w) = Top(w)
<1>1. tailIndex \in [Writers -> Nat] BY DEF TypeOK
<1> DEFINE T == tailIndex[w]
<1>2. /\ Slot(T) = 0 => Num(T - 1) = Num(T) - 1
      /\ Slot(T) # 0 => Num(T - 1) = Num(T)
      /\ Num(T) \in Int
  BY <1>1, NumBefore, NumSlot
<1>3. enq[w].at \in Moved => Top(w) = Num(T) /\ Written(w) = Num(T) - 1
  BY <1>2, TopAt DEF StartsBlock, Entering, Moved
<1>4. enq[w].at \in Entering \ Moved => Top(w) = Num(T) - 1 /\ Written(w) = Num(T) - 1
  BY <1>2, TopAt DEF StartsBlock, Entering, Moved
<1>5. ~ Publish(w) => tailIndex' = tailIndex BY WriterKeeps
<1>6. CASE WriteTail(w)
  <2>1. enq[w].at = "tail" /\ enq'[w].at = "block" /\ ~ RewindTail(w) /\ ~ WriteValue(w)
        /\ ~ Publish(w)
    BY <1>6, WriterPlaces DEF RewindTail, WriteValue, Publish
  <2> QED BY <1>2, <1>3, <1>4, <1>5, <1>6, <2>1, TopAt DEF Moved, Entering
<1>7. CASE RewindTail(w)
  BY <1>2, <1>3, <1>5, <1>7, WriterPlaces, TopAt DEF WriteTail, WriteValue, Publish,
     StartsBlock, Entering, Moved
<1>8. CASE WriteValue(w)
  BY <1>2, <1>3, <1>5, <1>8, WriterPlaces, TopAt DEF WriteTail, RewindTail, Publish,
     Moved, Entering
<1>9. CASE Publish(w)
  <2>1. /\ enq[w].at = "publish" /\ enq'[w].at = "idle" /\ ~ WriteTail(w) /\ ~ RewindTail(w)
        /\ ~ WriteValue(w)
    BY <1>9, WriterPlaces DEF WriteTail, RewindTail, WriteValue
  <2>2. Num(tailIndex'[w] - 1) = Num(T) BY <1>1, <1>9 DEF Publish, Num
  <2>3. Top(w)' = Top(w) /\ Written(w)' = Written(w) BY <2>1, <2>2, TopAt DEF Moved
  <2>4. enq[w].at \notin Entering BY <2>1 DEF Moved, Entering
  <2> QED BY <2>1, <2>3, <2>4 DEF Entering
<1>10. CASE Construct(w)
  BY <1>2, <1>5, <1>10, WriterPlaces, TopAt DEF WriteTail, RewindTail, WriteValue,
     Publish, Construct, Moved, Entering
<1>11. ASSUME ~ WriteTail(w), ~ RewindTail(w), ~ WriteValue(w), ~ Publish(w), ~ Construct(w)
       PROVE  Top(w)' = Top(w) /\ Written(w)' = Written(w)
  BY <1>5, <1>11, WriterPlaces, TopAt DEF EnqueueStep, Moved
<1> QED BY <1>3, <1>4, <1>6, <1>7, <1>8, <1>9, <1>10, <1>11

(* Moving the tail turns the current ring and leaves the rest of it.       *)
LEMMA MovedTail ==
  ASSUME TypeOK, NEW w \in Writers, Shape(w), NEW m \in Nat, MoveTail(w, m)
  PROVE  /\ Current(w)' = Current(w)
         /\ CurrentHeader(w)'.tail = (CurrentHeader(w).tail + m) % Len(entries[w])
         /\ CurrentHeader(w)'.index = CurrentHeader(w).index
         /\ \A g \in 1 .. Current(w) :
              /\ blockIndex'[w][g].index = blockIndex[w][g].index
              /\ g # Current(w) => blockIndex'[w][g] = blockIndex[w][g]
<1>1. /\ blockIndex \in [Writers -> Seq(Header)] /\ blockIndex[w] \in Seq(Header)
      /\ Current(w) \in 1 .. Len(blockIndex[w]) /\ Current(w) = Len(blockIndex[w])
      /\ Capacity(CurrentHeader(w)) = Len(entries[w])
  BY ShapeFacts DEF TypeOK, Current, Shape
<1>2. blockIndex'[w] = [blockIndex[w] EXCEPT ![Current(w)].tail = (@ + m) % Len(entries[w])]
  BY <1>1 DEF MoveTail
<1>3. Len(blockIndex'[w]) = Len(blockIndex[w]) BY <1>1, <1>2
<1>4. Current(w)' = Current(w) BY <1>3 DEF Current
<1>5. ASSUME NEW g \in 1 .. Current(w)
      PROVE  /\ blockIndex'[w][g].index = blockIndex[w][g].index
             /\ g # Current(w) => blockIndex'[w][g] = blockIndex[w][g]
             /\ g = Current(w) =>
                  blockIndex'[w][g].tail = (blockIndex[w][g].tail + m) % Len(entries[w])
  BY <1>1, <1>2 DEF Header
<1>6. CurrentHeader(w)' = blockIndex'[w][Current(w)] BY <1>4 DEF CurrentHeader
<1> QED BY <1>1, <1>4, <1>5, <1>6 DEF CurrentHeader

(* A larger ring: the old entries, from the oldest to the newest, and as   *)
(* many new ones.                                                          *)
LEMMA Grown ==
  ASSUME TypeOK, NEW w \in Writers, Shape(w), NewBlockIndex(w), NEW n \in Nat, n = Len(entries[w])
  PROVE  /\ n > 0 /\ entries'[w] \in Seq(Entry) /\ Len(entries'[w]) = 2 * n
         /\ \A i \in 1 .. n : entries'[w][i] = entries[w][i]
         /\ \A i \in n + 1 .. 2 * n : entries'[w][i] = FreshEntry
         /\ Current(w)' = Current(w) + 1
         /\ \A g \in 1 .. Current(w) : blockIndex'[w][g] = blockIndex[w][g]
         /\ CurrentHeader(w)'.tail = n - 1
         /\ CurrentHeader(w)'.index =
              [p \in 1 .. 2 * n |-> IF p <= n THEN At(CurrentHeader(w), CurrentHeader(w).tail + p)
                                              ELSE p]
<1>1. /\ blockIndex \in [Writers -> Seq(Header)] /\ blockIndex[w] \in Seq(Header)
      /\ entries \in [Writers -> Seq(Entry)] /\ entries[w] \in Seq(Entry)
      /\ Current(w) \in Nat /\ Current(w) = Len(blockIndex[w])
      /\ Capacity(CurrentHeader(w)) = n /\ n > 0
  BY ShapeFacts DEF TypeOK, Current, Shape
<1>2. FreshEntries(n) \in Seq(Entry) /\ Len(FreshEntries(n)) = n
      /\ \A i \in 1 .. n : FreshEntries(n)[i] = FreshEntry
  BY DEF FreshEntries, FreshEntry, Entry
<1>3. entries'[w] = entries[w] \o FreshEntries(n) BY <1>1 DEF NewBlockIndex
<1>4. /\ entries'[w] \in Seq(Entry) /\ Len(entries'[w]) = 2 * n
      /\ \A i \in 1 .. n : entries'[w][i] = entries[w][i]
      /\ \A i \in n + 1 .. 2 * n : entries'[w][i] = FreshEntry
  <2>1. /\ entries'[w] \in Seq(Entry)
        /\ Len(entries'[w]) = Len(entries[w]) + Len(FreshEntries(n))
        /\ \A i \in 1 .. Len(entries[w]) : entries'[w][i] = entries[w][i]
        /\ \A i \in 1 .. Len(FreshEntries(n)) :
             entries'[w][Len(entries[w]) + i] = FreshEntries(n)[i]
    <3>1a. PICK s \in Seq(Entry), t \in Seq(Entry) : \E u :
            s = entries[w] /\ t = FreshEntries(n) /\ u = entries'[w]
      BY <1>1, <1>2
    <3>1. PICK u :
            s = entries[w] /\ t = FreshEntries(n) /\ u = entries'[w]
      BY <3>1a
    <3>2. u = s \o t BY <1>3, <3>1
    <3>3. u \in Seq(Entry) /\ Len(u) = Len(s) + Len(t) BY <3>2
    <3>4. \A i \in 1 .. Len(s) : u[i] = s[i] BY <3>2
    <3>5. \A i \in 1 .. Len(t) : u[Len(s) + i] = t[i] BY <3>2
    <3> QED BY <3>1, <3>3, <3>4, <3>5
  <2>2. ASSUME NEW i \in n + 1 .. 2 * n PROVE entries'[w][i] = FreshEntry
    <3>1. i - n \in 1 .. n /\ n + (i - n) = i OBVIOUS
    <3> QED BY <1>1, <1>2, <2>1, <3>1
  <2> QED BY <1>1, <1>2, <2>1, <2>2
<1> DEFINE h == [tail |-> n - 1,
                 index |-> [p \in 1 .. 2 * n |->
                   IF p <= n THEN At(CurrentHeader(w), CurrentHeader(w).tail + p) ELSE p]]
<1>5. blockIndex'[w] = Append(blockIndex[w], h) BY <1>1 DEF NewBlockIndex
<1>6. h.tail = n - 1 /\ h.index = [p \in 1 .. 2 * n |->
        IF p <= n THEN At(CurrentHeader(w), CurrentHeader(w).tail + p) ELSE p]
  OBVIOUS
<1> HIDE DEF h
<1>7. /\ Len(blockIndex'[w]) = Current(w) + 1 /\ blockIndex'[w][Current(w) + 1] = h
      /\ \A g \in 1 .. Current(w) : blockIndex'[w][g] = blockIndex[w][g]
  BY <1>1, <1>5
<1>8. Current(w)' = Current(w) + 1 /\ CurrentHeader(w)' = h
  BY <1>7 DEF Current, CurrentHeader
<1> QED BY <1>1, <1>4, <1>6, <1>7, <1>8

LEMMA TurnedPlace ==
  ASSUME NEW n \in Nat, n > 0, NEW a \in Nat, NEW m \in Nat, NEW d \in Int, NEW x \in Int
  PROVE  SamePlace(n, a, m, d, x)
<1>1. PICK b \in Int, k \in Int : b = (a + m) % n /\ a + m = k * n + b BY Turn
<1>2. PICK q \in Int, r \in Int, i \in Int : q = a + x - d /\ r = q % n /\ q = i * n + r
  <2>1. PICK q \in Int : q = a + x - d OBVIOUS
  <2>2. \E i \in Int : q = i * n + (q % n) BY Turn
  <2> QED BY <2>1, <2>2
<1>3. r \in 0 .. n - 1 BY <1>2
<1>4. ASSUME NEW p \in Int, NEW j \in Int, p = j * n + r PROVE p % n = r
  BY <1>3, <1>4, SameTurn
<1>5. b + x - (d + m) = (i - k) * n + r BY <1>1, <1>2
<1>6. b + x - (d + m - n) = (i - k + 1) * n + r BY <1>1, <1>2
<1>7. (b + x - (d + m)) % n = r BY <1>4, <1>5
<1>8. (b + x - (d + m - n)) % n = r BY <1>4, <1>6
<1> QED BY <1>1, <1>2, <1>7, <1>8, Zenon DEF SamePlace

(* A step of the writer turns its ring, at most, and every block keeps its *)
(* entry.                                                                  *)
LEMMA RingTurns ==
  ASSUME TypeOK, NEW w \in Writers, Shape(w), StartsBlock(w), EnqueueStep(w),
         ~ NewBlockIndex(w)
  PROVE  /\ Len(entries'[w]) = Len(entries[w])
         /\ Current(w)' = Current(w)
         /\ \A g \in 1 .. Current(w) :
              /\ blockIndex'[w][g].index = blockIndex[w][g].index
              /\ g # Current(w) => blockIndex'[w][g] = blockIndex[w][g]
         /\ \A x \in Int : RingAt(w, x)' = RingAt(w, x)
         /\ Shape(w)'
<1> DEFINE n == Len(entries[w])
<1>1. /\ n \in Nat /\ n > 0 /\ Capacity(CurrentHeader(w)) = n /\ CurrentHeader(w) \in Header
      /\ Current(w) \in Nat /\ Current(w) >= 1 /\ Top(w) \in Int
      /\ entries \in [Writers -> Seq(Entry)] /\ CurrentHeader(w).tail \in Nat
  BY ShapeFacts DEF Shape, TypeOK, Header
<1>2. Len(entries'[w]) = n
  <2>1. entries' = entries \/ WriteKey(w) \/ ClearValue(w) \/ WriteValue(w)
    BY WriterKeeps
  <2> QED BY <1>1, <2>1 DEF WriteKey, ClearValue, WriteValue
<1>3. \/ /\ blockIndex' = blockIndex /\ Top(w)' = Top(w)
      \/ MoveTail(w, 1) /\ Top(w)' = Top(w) + 1
      \/ MoveTail(w, n - 1) /\ Top(w)' = Top(w) - 1
  BY <1>1, WriterMoves, WriterKeeps DEF WriteTail, RewindTail
<1>4. ASSUME blockIndex' = blockIndex, Top(w)' = Top(w)
      PROVE  /\ Current(w)' = Current(w)
             /\ \A g \in 1 .. Current(w) : blockIndex'[w][g] = blockIndex[w][g]
             /\ \A x \in Int : RingAt(w, x)' = RingAt(w, x)
  BY <1>4 DEF Current, RingAt, CurrentHeader
<1>5. ASSUME NEW m \in Nat, NEW j \in {0, 1}, MoveTail(w, m), Top(w)' = Top(w) + m - j * n
      PROVE  /\ Current(w)' = Current(w)
             /\ \A g \in 1 .. Current(w) :
                  /\ blockIndex'[w][g].index = blockIndex[w][g].index
                  /\ g # Current(w) => blockIndex'[w][g] = blockIndex[w][g]
             /\ \A x \in Int : RingAt(w, x)' = RingAt(w, x)
  <2>1. /\ Current(w)' = Current(w)
        /\ CurrentHeader(w)'.tail = (CurrentHeader(w).tail + m) % n
        /\ CurrentHeader(w)'.index = CurrentHeader(w).index
        /\ \A g \in 1 .. Current(w) :
             /\ blockIndex'[w][g].index = blockIndex[w][g].index
             /\ g # Current(w) => blockIndex'[w][g] = blockIndex[w][g]
    BY <1>5, MovedTail
  <2>2. ASSUME NEW x \in Int PROVE RingAt(w, x)' = RingAt(w, x)
    <3>1a. PICK a \in Nat, d \in Int, c \in Nat : \E h, g :
            /\ h = CurrentHeader(w)' /\ g = CurrentHeader(w)
            /\ a = g.tail /\ d = Top(w) /\ c = n
      BY <1>1
    <3>1. PICK h, g :
            /\ h = CurrentHeader(w)' /\ g = CurrentHeader(w)
            /\ a = g.tail /\ d = Top(w) /\ c = n
      BY <3>1a
    <3>2. /\ h.index = g.index /\ c > 0 /\ Len(g.index) = c
          /\ h.tail = (a + m) % c
      BY <1>1, <2>1, <3>1 DEF Capacity
    <3>3. Top(w)' = d + m \/ Top(w)' = d + m - c BY <1>1, <1>5, <3>1
    <3>4. /\ (((a + m) % c) + x - (d + m)) % c = (a + x - d) % c
          /\ (((a + m) % c) + x - (d + m - c)) % c = (a + x - d) % c
      <4>1. c > 0 /\ c \in Nat /\ m \in Nat /\ a \in Nat /\ d \in Int /\ x \in Int
        BY <3>2
      <4>2. SamePlace(c, a, m, d, x) BY <4>1, TurnedPlace
      <4> QED BY <4>2, Zenon DEF SamePlace
    <3>5. (h.tail + x - Top(w)') % c = (g.tail + x - Top(w)) % c
      BY <3>1, <3>2, <3>3, <3>4, Zenon
    <3>6. RingAt(w, x)' = h.index[((h.tail + x - Top(w)') % c) + 1]
      BY <3>1, <3>2 DEF RingAt, At, Capacity
    <3>7. RingAt(w, x) = g.index[((g.tail + x - Top(w)) % c) + 1]
      BY <3>1, <3>2 DEF RingAt, At, Capacity
    <3> QED BY <3>2, <3>5, <3>6, <3>7, Zenon
  <2> QED BY <2>1, <2>2
<1>6. /\ Current(w)' = Current(w)
      /\ \A g \in 1 .. Current(w) :
           /\ blockIndex'[w][g].index = blockIndex[w][g].index
           /\ g # Current(w) => blockIndex'[w][g] = blockIndex[w][g]
      /\ \A x \in Int : RingAt(w, x)' = RingAt(w, x)
  <2>1. CASE blockIndex' = blockIndex /\ Top(w)' = Top(w) BY <1>4, <2>1
  <2>2. CASE MoveTail(w, 1) /\ Top(w)' = Top(w) + 1 BY <1>1, <1>5, <2>2
  <2>3. CASE MoveTail(w, n - 1) /\ Top(w)' = Top(w) - 1 BY <1>1, <1>5, <2>3
  <2> QED BY <1>3, <2>1, <2>2, <2>3
<1>7. Shape(w)'
  <2>1. blockIndex'[w] # <<>> BY <1>1, <1>6 DEF Current
  <2>2. ASSUME NEW g \in 1 .. Current(w)
        PROVE  LET h == blockIndex'[w][g] IN
               Capacity(h) > 0 /\ \A p \in 1 .. Capacity(h) : h.index[p] \in 1 .. n
    BY <1>6 DEF Shape, Capacity
  <2>3. CurrentHeader(w)'.index = CurrentHeader(w).index BY <1>1, <1>6 DEF CurrentHeader
  <2>4. Capacity(CurrentHeader(w)') = n BY <1>1, <2>3 DEF Capacity
  <2> QED BY <1>2, <1>6, <2>1, <2>2, <2>3, <2>4 DEF Shape
<1> QED BY <1>2, <1>6, <1>7

LEMMA Unrolled ==
  ASSUME NEW n \in Nat, NEW h, NEW t \in Nat, NEW k, Unrolls(k, h, n, t)
  PROVE  SamePlaces(k, h, n, t)
<1>13. n > 0 /\ Capacity(h) = n /\ Capacity(k) = 2 * n BY DEF Unrolls
<1>1. ASSUME NEW c \in Int, NEW d \in Int
      PROVE  /\ At(h, c) = h.index[(c % n) + 1] /\ (c % n) + 1 \in 1 .. n
             /\ At(h, c + n) = At(h, c)
             /\ c < d /\ d < c + n => (c % n) + 1 # (d % n) + 1
  BY <1>13, AtFacts
<1>12. /\ \A p \in 1 .. 2 * n : k.index[p] = IF p <= n THEN At(h, t + p) ELSE p
       /\ \A p, q \in 1 .. n : h.index[p] \in 1 .. n /\ (h.index[p] = h.index[q] => p = q)
  BY DEF Unrolls
<1>2. ASSUME NEW c \in Int, NEW d \in Int, c < d, d < c + n
      PROVE  At(h, c) \in 1 .. n /\ At(h, c) # At(h, d)
  <2>1. PICK p \in 1 .. n : p = (c % n) + 1 /\ At(h, c) = h.index[p] BY <1>1, Zenon
  <2>2. PICK q \in 1 .. n : q = (d % n) + 1 /\ At(h, d) = h.index[q] BY <1>1, Zenon
  <2>3. p # q BY <1>1, <1>2, <2>1, <2>2, Zenon
  <2> QED BY <1>12, <2>1, <2>2, <2>3
<1>3. ASSUME NEW p \in 1 .. n
      PROVE  At(h, t + p) \in 1 .. n
  <2>1. t + p \in Int OBVIOUS
  <2> QED BY <1>1, <1>12, <2>1
<1>4. ASSUME NEW p \in 1 .. n, NEW q \in 1 .. n, p < q
      PROVE  At(h, t + p) # At(h, t + q)
  BY <1>2, <1>4
<1>5. ASSUME NEW y \in 0 .. 2 * n - 1, NEW i \in {0 - 1, 0}, NEW z \in Int, z = i * (2 * n) + y
      PROVE  At(k, z) = k.index[y + 1]
  <2>1. At(k, z) = k.index[(z % (2 * n)) + 1] BY <1>13 DEF At
  <2>2. z % (2 * n) = y BY <1>5, <1>13, SameTurn
  <2> QED BY <2>1, <2>2
<1>6. ASSUME NEW d \in Int, 0 - n < d, d <= 0
      PROVE  At(k, n - 1 + d) = At(h, t + d)
  <2>1. PICK y \in 0 .. 2 * n - 1 : y = n - 1 + d /\ y + 1 \in 1 .. 2 * n /\ y + 1 <= n
    BY <1>6
  <2>2. At(k, y) = k.index[y + 1] BY <1>5
  <2>3. k.index[y + 1] = At(h, t + (y + 1)) BY <1>12, <2>1
  <2>4. PICK c \in Int : c = t + d /\ t + (y + 1) = c + n BY <2>1
  <2>5. At(h, c + n) = At(h, c) BY <1>1
  <2> QED BY <2>1, <2>2, <2>3, <2>4, <2>5
<1>7. At(k, n - 1 + 1) = n + 1 BY <1>5, <1>12, <1>13
<1>8. ASSUME NEW d \in Int, 0 - 2 * n < d, d <= 0 - n
      PROVE  At(k, n - 1 + d) \in n + 1 .. 2 * n
  <2>1. PICK y \in 0 .. 2 * n - 1 : y = 3 * n - 1 + d /\ y + 1 \in n + 1 .. 2 * n
    BY <1>8
  <2>2. PICK z \in Int : z = n - 1 + d /\ z = (0 - 1) * (2 * n) + y BY <2>1
  <2>3. At(k, z) = k.index[y + 1] BY <1>5, <2>2
  <2>4. y + 1 \in 1 .. 2 * n /\ ~ (y + 1 <= n) BY <2>1
  <2> QED BY <1>12, <2>1, <2>2, <2>3, <2>4
<1>9. ASSUME NEW i \in 1 .. 2 * n
      PROVE  IF i <= n THEN i \in 1 .. n /\ k.index[i] = At(h, t + i) /\ k.index[i] \in 1 .. n
                       ELSE k.index[i] = i
  BY <1>3, <1>12
<1>10. ASSUME NEW p \in 1 .. 2 * n, NEW q \in 1 .. 2 * n, k.index[p] = k.index[q]
       PROVE  p = q
  <2>1. CASE p <= n /\ q <= n BY <1>4, <1>9, <1>10, <2>1
  <2>2. CASE ~ (p <= n) \/ ~ (q <= n) BY <1>9, <1>10, <2>2
  <2> QED BY <2>1, <2>2
<1>11. ASSUME NEW p \in 1 .. 2 * n PROVE k.index[p] \in 1 .. 2 * n BY <1>9
<1> QED BY <1>6, <1>7, <1>8, <1>10, <1>11 DEF SamePlaces

(* A step that enlarges the ring: the blocks in it keep their entries, the *)
(* next one and the places before the oldest get new ones.                 *)
LEMMA RingGrows ==
  ASSUME TypeOK, NEW w \in Writers, Shape(w), StartsBlock(w), NewBlockIndex(w),
         NEW n \in Nat, n = Len(entries[w])
  PROVE  /\ Shape(w)' /\ Top(w)' = Top(w) /\ Top(w) = Num(tailIndex[w]) - 1
         /\ \A x \in Int : Top(w) - n < x /\ x <= Top(w) => RingAt(w, x)' = RingAt(w, x)
         /\ RingAt(w, Top(w) + 1)' = n + 1
         /\ \A x \in Int : Top(w) - 2 * n < x /\ x <= Top(w) - n =>
              RingAt(w, x)' \in n + 1 .. 2 * n
<1>1. /\ n > 0 /\ entries'[w] \in Seq(Entry) /\ Len(entries'[w]) = 2 * n
      /\ Current(w)' = Current(w) + 1
      /\ \A g \in 1 .. Current(w) : blockIndex'[w][g] = blockIndex[w][g]
      /\ CurrentHeader(w)'.tail = n - 1
      /\ CurrentHeader(w)'.index =
           [p \in 1 .. 2 * n |-> IF p <= n THEN At(CurrentHeader(w), CurrentHeader(w).tail + p)
                                           ELSE p]
  BY Grown
<1>0. n > 0 /\ 2 * n \in Nat BY <1>1
<1>2. Top(w)' = Top(w) /\ Top(w) \in Int /\ Top(w) = Num(tailIndex[w]) - 1
  BY WriterMoves, ShapeFacts DEF NewBlockIndex, EnqueueStep, Entering, Moved, WriteTail,
     RewindTail
<1>3. /\ CurrentHeader(w).tail \in Nat /\ Capacity(CurrentHeader(w)) = n
      /\ Current(w) \in Nat /\ Current(w) >= 1
  BY ShapeFacts DEF Shape, Header
<1>4a. PICK t \in Nat, T \in Int : \E h, k :
        /\ t = CurrentHeader(w).tail /\ T = Top(w) /\ h = CurrentHeader(w)
        /\ k = CurrentHeader(w)'
  BY <1>2, <1>3
<1>4. PICK h, k :
        /\ t = CurrentHeader(w).tail /\ T = Top(w) /\ h = CurrentHeader(w)
        /\ k = CurrentHeader(w)'
  BY <1>4a
<1>5. /\ \A p \in 1 .. 2 * n : k.index[p] = IF p <= n THEN At(h, t + p) ELSE p
      /\ Len(k.index) = 2 * n /\ k.tail = n - 1
  BY <1>1, <1>4
<1>6. /\ k.tail = n - 1 /\ Capacity(h) = n /\ Capacity(k) = 2 * n
      /\ \A p, q \in 1 .. n : h.index[p] \in 1 .. n /\ (h.index[p] = h.index[q] => p = q)
  <2>1. Capacity(h) = n /\ h = CurrentHeader(w) /\ h = blockIndex[w][Current(w)]
        /\ Current(w) \in 1 .. Current(w)
    BY <1>3, <1>4 DEF CurrentHeader
  <2>2. \A p \in 1 .. n : h.index[p] \in 1 .. n BY <2>1 DEF Shape
  <2>3. \A p, q \in 1 .. n : h.index[p] = h.index[q] => p = q BY <2>1 DEF Shape
  <2> QED BY <1>5, <2>1, <2>2, <2>3 DEF Capacity
<1>7. /\ \A d \in Int : 0 - n < d /\ d <= 0 => At(k, n - 1 + d) = At(h, t + d)
      /\ At(k, n - 1 + 1) = n + 1
      /\ \A d \in Int : 0 - 2 * n < d /\ d <= 0 - n => At(k, n - 1 + d) \in n + 1 .. 2 * n
      /\ \A p \in 1 .. 2 * n : k.index[p] \in 1 .. 2 * n
      /\ \A p, q \in 1 .. 2 * n : k.index[p] = k.index[q] => p = q
  <2>1. \A p \in 1 .. 2 * n : k.index[p] = IF p <= n THEN At(h, t + p) ELSE p BY <1>5
  <2>2. n > 0 /\ Capacity(h) = n /\ Capacity(k) = 2 * n BY <1>0, <1>6
  <2>3. \A p, q \in 1 .. n : h.index[p] \in 1 .. n /\ (h.index[p] = h.index[q] => p = q)
    BY <1>6
  <2>4. Unrolls(k, h, n, t) BY <2>1, <2>2, <2>3, Zenon DEF Unrolls
  <2>5. SamePlaces(k, h, n, t) BY <2>4, Unrolled
  <2> QED BY <2>5 DEF SamePlaces
<1>8. ASSUME NEW x \in Int
      PROVE  /\ RingAt(w, x)' = At(k, n - 1 + x - T) /\ RingAt(w, x) = At(h, t + x - T)
             /\ n - 1 + x - T = n - 1 + (x - T) /\ t + x - T = t + (x - T)
  BY <1>2, <1>4, <1>6 DEF RingAt
<1>9. ASSUME NEW x \in Int
      PROVE  /\ T - n < x /\ x <= T => RingAt(w, x)' = RingAt(w, x)
             /\ T - 2 * n < x /\ x <= T - n => RingAt(w, x)' \in n + 1 .. 2 * n
             /\ x = T + 1 => RingAt(w, x)' = n + 1
  <2>1. PICK d \in Int : d = x - T OBVIOUS
  <2>2. RingAt(w, x)' = At(k, n - 1 + d) /\ RingAt(w, x) = At(h, t + d) BY <1>8, <2>1
  <2>3. /\ T - n < x /\ x <= T => 0 - n < d /\ d <= 0
        /\ T - 2 * n < x /\ x <= T - n => 0 - 2 * n < d /\ d <= 0 - n
        /\ x = T + 1 => d = 1
    BY <1>0, <2>1
  <2> QED BY <1>7, <2>2, <2>3
<1>10. T + 1 \in Int OBVIOUS
<1>11. Shape(w)'
  <2>1. /\ blockIndex'[w] # <<>> /\ Capacity(CurrentHeader(w)') = Len(entries'[w])
    BY <1>1, <1>3, <1>4, <1>5 DEF Current, Capacity
  <2>2. ASSUME NEW g \in 1 .. Current(w)'
        PROVE  LET f == blockIndex'[w][g] IN
               Capacity(f) > 0 /\ \A p \in 1 .. Capacity(f) : f.index[p] \in 1 .. 2 * n
    <3>1. CASE g \in 1 .. Current(w)
      <4>1. blockIndex'[w][g] = blockIndex[w][g] BY <1>1, <3>1
      <4>2. LET f == blockIndex[w][g] IN
            Capacity(f) > 0 /\ \A p \in 1 .. Capacity(f) : f.index[p] \in 1 .. n
        BY <3>1 DEF Shape
      <4>3. ASSUME NEW i \in 1 .. n PROVE i \in 1 .. 2 * n OBVIOUS
      <4> QED BY <4>1, <4>2, <4>3
    <3>2. CASE g = Current(w)'
      BY <1>1, <1>4, <1>5, <1>7, <3>2 DEF CurrentHeader, Capacity
    <3> QED BY <1>1, <1>3, <3>1, <3>2
  <2>3. \A p, q \in 1 .. 2 * n : k.index[p] = k.index[q] => p = q BY <1>7
  <2> QED BY <1>1, <1>4, <2>1, <2>2, <2>3 DEF Shape
<1> QED BY <1>2, <1>4, <1>9, <1>10, <1>11

-------------------------------------------------------------------------------
(* The blocks in a ring, and the entry a writer fills.                     *)

LEMMA PickedFacts ==
  ASSUME TypeOK, NEW w \in Writers, Shape(w), Picked(w),
         enq[w].at \in Filling \cup {"key"}
  PROVE  \E T, n \in Nat : \E e : PickedAt(w, T, n, e)
<1>0a. PICK T \in Nat, n \in Nat : \E e : T = Num(tailIndex[w]) /\ n = Len(entries[w])
                                     /\ e = enq[w].entry
  <2>1. tailIndex[w] \in Nat /\ tailIndex[w] \in Int /\ Len(entries[w]) \in Nat
    BY ShapeFacts
  <2>2. Num(tailIndex[w]) \in Nat BY <2>1, NumSlot
  <2> QED BY <2>1, <2>2
<1>0. PICK e : T = Num(tailIndex[w]) /\ n = Len(entries[w])
                                     /\ e = enq[w].entry
  BY <1>0a
<1>1. Len(entries[w]) > 0 /\ tailIndex[w] \in Nat BY ShapeFacts
<1>2. e = RingAt(w, T) BY <1>0 DEF Picked
<1>3. ASSUME NEW y \in Int
      PROVE  /\ RingAt(w, y) \in 1 .. n /\ RingAt(w, y + n) = RingAt(w, y)
             /\ y < T /\ T < y + n => RingAt(w, y) # RingAt(w, T)
  <2> DEFINE m == Len(entries[w])
  <2>1. T \in Int OBVIOUS
  <2>2. /\ RingAt(w, y) \in 1 .. m /\ RingAt(w, y + m) = RingAt(w, y)
        /\ y < T /\ T < y + m => RingAt(w, y) # RingAt(w, T)
    BY <2>1, RingFacts, Zenon
  <2>3. m = n BY <1>0
  <2> HIDE DEF m
  <2> QED BY <2>2, <2>3
<1>4. RingAt(w, T - n) = e BY <1>2, <1>3
<1>5. ASSUME NEW y \in Int, T - n < y, y < T PROVE RingAt(w, y) # e
  <2>1. T < y + n BY <1>5
  <2> QED BY <1>2, <1>3, <1>5, <2>1
<1>6. Slot(tailIndex[w]) = 0 BY DEF Picked, StartsBlock, Entering, Filling
<1>7. tailIndex[w] = Key(T) /\ Num(tailIndex[w] - 1) = T - 1
  BY <1>0, <1>1, <1>6, NumBefore
<1>8. /\ enq[w].at \in Moved => Top(w) = T
      /\ enq[w].at \notin Moved => Top(w) = T - 1
  BY <1>0, <1>7, TopAt DEF Filling
<1>9. e \in 1 .. n BY <1>2, <1>3
<1>10. n > 0 BY <1>0, <1>1
<1>11. PickedAt(w, T, n, e)
  BY <1>0, <1>2, <1>3, <1>4, <1>5, <1>7, <1>8, <1>9, <1>10, Zenon DEF PickedAt
<1> QED BY <1>11

LEMMA WriteKeyHome ==
  ASSUME TypeOK, NEW w \in Writers, RingInv(w), WriteKey(w), NEW x \in Int
  PROVE  /\ Home(w, x)' <=> Home(w, x)
         /\ Home(w, x) => EntryOf(w, x)' = EntryOf(w, x)
<1>1. Shape(w) /\ Picked(w) /\ StartsBlock(w) /\ EnqueueStep(w) /\ ~ NewBlockIndex(w)
      /\ enq[w].at = "key"
  BY DEF RingInv, Picked, EnqueueStep, WriteKey, NewBlockIndex
<1>2a. PICK T \in Nat, n \in Nat : \E e : PickedAt(w, T, n, e) BY <1>1, PickedFacts
<1>2. PICK e : PickedAt(w, T, n, e) BY <1>2a
<1>3. /\ T = Num(tailIndex[w]) /\ n = Len(entries[w]) /\ e = enq[w].entry
      /\ n > 0 /\ e = RingAt(w, T) /\ e \in 1 .. n /\ RingAt(w, T - n) = e
      /\ Top(w) = T - 1
      /\ \A y \in Int : T - n < y /\ y < T => RingAt(w, y) # e
      /\ \A y \in Int : RingAt(w, y) \in 1 .. n
  BY <1>1, <1>2 DEF PickedAt, Moved
<1>4. /\ Len(entries'[w]) = n /\ Top(w)' = T - 1
      /\ \A y \in Int : RingAt(w, y)' = RingAt(w, y)
  <2>1. ~ WriteTail(w) /\ ~ RewindTail(w) BY <1>1 DEF WriteTail, RewindTail
  <2> QED BY <1>1, <1>3, <2>1, WriterMoves, RingTurns
<1>5. /\ \A i \in 1 .. n : i # e => entries'[w][i] = entries[w][i]
      /\ entries'[w][e].value = entries[w][e].value /\ entries[w][e].value \notin Blocks
  <2>1. entries \in [Writers -> Seq(Entry)] /\ entries[w][e] \in Entry
    BY <1>3, ElementOfSeq DEF TypeOK
  <2>2. entries' = [entries EXCEPT ![w][e].key = tailIndex[w]] BY <1>3 DEF WriteKey
  <2>3. \A i \in 1 .. n : i # e => entries'[w][i] = entries[w][i] BY <1>3, <2>1, <2>2
  <2>4. entries'[w][e].value = entries[w][e].value BY <1>3, <2>1, <2>2 DEF Entry
  <2> QED BY <1>1, <1>3, <2>3, <2>4 DEF Picked
<1>6. ASSUME NEW y \in Int, T - n < y, y < T PROVE EntryOf(w, y)' = EntryOf(w, y)
  BY <1>3, <1>4, <1>5, <1>6 DEF EntryOf
<1>7. EntryOf(w, T - n).value \notin Blocks /\ EntryOf(w, T - n)'.value \notin Blocks
  <2>1. T - n \in Int OBVIOUS
  <2> QED BY <1>3, <1>4, <1>5, <2>1 DEF EntryOf
<1>8. ASSUME Home(w, x) \/ Home(w, x)' PROVE T - n < x /\ x < T
  <2>1. x <= T - 1 /\ T - 1 < x + n /\ x # T - n BY <1>3, <1>4, <1>7, <1>8 DEF Home
  <2> QED BY <2>1
<1>9. ASSUME T - n < x, x < T PROVE Home(w, x)' <=> Home(w, x)
  <2>1. \A y \in x .. T - 1 : EntryOf(w, y)' = EntryOf(w, y) BY <1>6, <1>9
  <2>2. x \in x .. T - 1 BY <1>9
  <2> QED BY <1>3, <1>4, <2>1, <2>2 DEF Home
<1> QED BY <1>6, <1>8, <1>9

LEMMA WriteTailHome ==
  ASSUME TypeOK, NEW w \in Writers, RingInv(w), WriteTail(w), NEW x \in Int
  PROVE  /\ Home(w, x)' <=> Home(w, x)
         /\ EntryOf(w, x)' = EntryOf(w, x)
<1>1. Shape(w) /\ Picked(w) /\ StartsBlock(w) /\ EnqueueStep(w) /\ ~ NewBlockIndex(w)
      /\ enq[w].at = "tail" /\ entries' = entries
  BY DEF RingInv, Picked, EnqueueStep, WriteTail, NewBlockIndex
<1>2a. PICK T \in Nat, n \in Nat : \E e : PickedAt(w, T, n, e)
  BY <1>1, PickedFacts DEF Filling
<1>2. PICK e : PickedAt(w, T, n, e) BY <1>2a
<1>3. /\ T = Num(tailIndex[w]) /\ n = Len(entries[w]) /\ e = enq[w].entry
      /\ n > 0 /\ e = RingAt(w, T) /\ e \in 1 .. n /\ RingAt(w, T - n) = e
      /\ Top(w) = T - 1 /\ tailIndex[w] = Key(T)
  BY <1>1, <1>2 DEF PickedAt, Moved
<1>4. /\ Top(w)' = T
      /\ \A y \in Int : RingAt(w, y)' = RingAt(w, y)
  BY <1>1, <1>3, RingTurns, WriterMoves
<1>5. ASSUME NEW y \in Int PROVE EntryOf(w, y)' = EntryOf(w, y)
  BY <1>1, <1>4 DEF EntryOf
<1>6. /\ EntryOf(w, T - n).value \notin Blocks
      /\ EntryOf(w, T).value \notin Blocks /\ EntryOf(w, T).key = Key(T)
  BY <1>1, <1>3 DEF EntryOf, Picked, Filling
<1>7. ASSUME Home(w, x) \/ Home(w, x)' PROVE T - n < x /\ x < T
  <2>1. /\ x # T - n /\ x # T
        /\ (x <= T - 1 /\ T - 1 < x + n) \/ (x <= T /\ T < x + n)
    BY <1>1, <1>3, <1>4, <1>5, <1>6, <1>7 DEF Home
  <2> QED BY <2>1
<1>8. ASSUME T - n < x, x < T PROVE Home(w, x)' <=> Home(w, x)
  <2>1. x .. T = (x .. T - 1) \cup {T} /\ x <= T /\ T < x + n /\ x <= T - 1 /\ T - 1 < x + n
    BY <1>8
  <2>2. \A y \in x .. T : EntryOf(w, y)' = EntryOf(w, y) BY <1>5
  <2>3. Home(w, x)' <=> EntryOf(w, x).value \in Blocks
                        /\ \A y \in x .. T : EntryOf(w, y).key = Key(y)
    BY <1>1, <1>3, <1>4, <1>5, <2>1, <2>2 DEF Home
  <2>4. Home(w, x) <=> EntryOf(w, x).value \in Blocks
                       /\ \A y \in x .. T - 1 : EntryOf(w, y).key = Key(y)
    BY <1>1, <1>3, <2>1 DEF Home
  <2> QED BY <1>6, <2>1, <2>3, <2>4
<1> QED BY <1>5, <1>7, <1>8

LEMMA RewindTailHome ==
  ASSUME TypeOK, NEW w \in Writers, RingInv(w), RewindTail(w), NEW x \in Int
  PROVE  /\ Home(w, x)' <=> Home(w, x)
         /\ EntryOf(w, x)' = EntryOf(w, x)
<1>1. Shape(w) /\ Picked(w) /\ StartsBlock(w) /\ EnqueueStep(w) /\ ~ NewBlockIndex(w)
      /\ enq[w].at = "undo" /\ entries' = entries
  BY DEF RingInv, Picked, EnqueueStep, RewindTail, NewBlockIndex
<1>2a. PICK T \in Nat, n \in Nat : \E e : PickedAt(w, T, n, e)
  BY <1>1, PickedFacts DEF Filling, Moved
<1>2. PICK e : PickedAt(w, T, n, e) BY <1>2a
<1>3. /\ T = Num(tailIndex[w]) /\ n = Len(entries[w]) /\ e = enq[w].entry
      /\ n > 0 /\ e = RingAt(w, T) /\ e \in 1 .. n /\ RingAt(w, T - n) = e
      /\ Top(w) = T /\ tailIndex[w] = Key(T)
  BY <1>1, <1>2 DEF PickedAt, Moved
<1>4. /\ Top(w)' = T - 1
      /\ \A y \in Int : RingAt(w, y)' = RingAt(w, y)
  BY <1>1, <1>3, RingTurns, WriterMoves
<1>5. ASSUME NEW y \in Int PROVE EntryOf(w, y)' = EntryOf(w, y)
  BY <1>1, <1>4 DEF EntryOf
<1>6. /\ EntryOf(w, T - n).value \notin Blocks
      /\ EntryOf(w, T).value \notin Blocks /\ EntryOf(w, T).key = Key(T)
  BY <1>1, <1>3 DEF EntryOf, Picked, Filling, Moved
<1>7. ASSUME Home(w, x) \/ Home(w, x)' PROVE T - n < x /\ x < T
  <2>1. /\ x # T - n /\ x # T
        /\ (x <= T - 1 /\ T - 1 < x + n) \/ (x <= T /\ T < x + n)
    BY <1>1, <1>3, <1>4, <1>5, <1>6, <1>7 DEF Home
  <2> QED BY <2>1
<1>8. ASSUME T - n < x, x < T PROVE Home(w, x)' <=> Home(w, x)
  <2>1. x .. T = (x .. T - 1) \cup {T} /\ x <= T /\ T < x + n /\ x <= T - 1 /\ T - 1 < x + n
    BY <1>8
  <2>2. \A y \in x .. T : EntryOf(w, y)' = EntryOf(w, y) BY <1>5
  <2>3. Home(w, x)' <=> EntryOf(w, x).value \in Blocks
                        /\ \A y \in x .. T - 1 : EntryOf(w, y).key = Key(y)
    BY <1>1, <1>3, <1>4, <1>5, <2>1, <2>2 DEF Home
  <2>4. Home(w, x) <=> EntryOf(w, x).value \in Blocks
                       /\ \A y \in x .. T : EntryOf(w, y).key = Key(y)
    BY <1>1, <1>3, <2>1 DEF Home
  <2> QED BY <1>6, <2>1, <2>3, <2>4
<1> QED BY <1>5, <1>7, <1>8

(* A block comes in, or what was to be one is cleared.                     *)
LEMMA ValueHome ==
  ASSUME TypeOK, NEW w \in Writers, RingInv(w), ClearValue(w) \/ WriteValue(w), NEW x \in Int
  PROVE  /\ Home(w, x) => Home(w, x)' /\ EntryOf(w, x)' = EntryOf(w, x)
         /\ Home(w, x)' => Home(w, x) \/ (WriteValue(w) /\ x = Num(tailIndex[w]))
         /\ EntryOf(w, x)'.key = EntryOf(w, x).key
         /\ WriteValue(w) /\ x = Num(tailIndex[w]) => Home(w, x)' /\ ~ Home(w, x)
                             /\ EntryOf(w, x)'.value = enq[w].block
<1>1. Shape(w) /\ Picked(w) /\ StartsBlock(w) /\ EnqueueStep(w) /\ ~ NewBlockIndex(w)
      /\ enq[w].at \in {"rewind", "value"}
  BY DEF RingInv, Picked, EnqueueStep, ClearValue, WriteValue, NewBlockIndex
<1>2a. PICK T \in Nat, n \in Nat : \E e : PickedAt(w, T, n, e)
  BY <1>1, PickedFacts DEF Filling, Moved
<1>2. PICK e : PickedAt(w, T, n, e) BY <1>2a
<1>3. /\ T = Num(tailIndex[w]) /\ n = Len(entries[w]) /\ e = enq[w].entry
      /\ n > 0 /\ e = RingAt(w, T) /\ e \in 1 .. n /\ RingAt(w, T - n) = e
      /\ (Top(w) = IF enq[w].at = "value" THEN T ELSE T - 1) /\ tailIndex[w] = Key(T)
      /\ \A y \in Int : T - n < y /\ y < T => RingAt(w, y) # e
      /\ \A y \in Int : RingAt(w, y) \in 1 .. n
  BY <1>1, <1>2 DEF PickedAt, Moved
<1>4. /\ Len(entries'[w]) = n /\ Top(w)' = Top(w)
      /\ \A y \in Int : RingAt(w, y)' = RingAt(w, y)
  BY <1>1, <1>3, RingTurns, WriterMoves DEF WriteTail, RewindTail
<1>5. /\ \A i \in 1 .. n : i # e => entries'[w][i] = entries[w][i]
      /\ entries'[w][e].key = entries[w][e].key /\ entries[w][e].key = Key(T)
      /\ entries[w][e].value \notin Blocks
      /\ ClearValue(w) => entries'[w][e].value \notin Blocks
      /\ WriteValue(w) => entries'[w][e].value = enq[w].block /\ enq[w].block \in Blocks
  <2>1. entries \in [Writers -> Seq(Entry)] /\ entries[w][e] \in Entry
    BY <1>3 DEF TypeOK
  <2>2. PICK v : /\ entries' = [entries EXCEPT ![w][e].value = v]
                 /\ ClearValue(w) => v \notin Blocks
                 /\ WriteValue(w) => v = enq[w].block /\ v \in Blocks
    BY <1>1, <1>3, FreeListAssumption DEF ClearValue, WriteValue, Picked
  <2>6. /\ entries' = [entries EXCEPT ![w][e].value = v] /\ e \in 1 .. Len(entries[w])
        /\ n = Len(entries[w])
    BY <1>3, <2>2
  <2>3. \A i \in 1 .. n : i # e => entries'[w][i] = entries[w][i] BY <2>1, <2>6
  <2>4. entries'[w][e].key = entries[w][e].key /\ entries'[w][e].value = v
    BY <2>1, <2>6 DEF Entry
  <2>5. entries[w][e].key = Key(T) /\ entries[w][e].value \notin Blocks
    BY <1>1, <1>3 DEF Picked, Filling, Moved
  <2> QED BY <2>2, <2>3, <2>4, <2>5
<1>6. ASSUME NEW y \in Int
      PROVE  /\ EntryOf(w, y)'.key = EntryOf(w, y).key
             /\ RingAt(w, y) # e => EntryOf(w, y)' = EntryOf(w, y)
             /\ RingAt(w, y) = e => EntryOf(w, y).value \notin Blocks
                   /\ EntryOf(w, y)'.value = entries'[w][e].value
             /\ y \in {T - n, T} => RingAt(w, y) = e
             /\ T - n < y /\ y < T => RingAt(w, y) # e
  BY <1>3, <1>4, <1>5, <1>6 DEF EntryOf
<1>7. Home(w, x) => T - n < x /\ x < T
  <2>1. ASSUME Home(w, x) PROVE T - n < x /\ x < T
    <3>1. x # T - n /\ x # T BY <1>6, <2>1 DEF Home
    <3>2. (x <= T /\ T < x + n) \/ (x <= T - 1 /\ T - 1 < x + n) BY <1>3, <2>1 DEF Home
    <3> QED BY <3>1, <3>2
  <2> QED BY <2>1
<1>8. Home(w, x)' /\ ~ WriteValue(w) => T - n < x /\ x < T
  <2>1. ASSUME Home(w, x)', ~ WriteValue(w) PROVE T - n < x /\ x < T
    <3>1. x # T - n /\ x # T BY <1>5, <1>6, <2>1 DEF Home
    <3>2. (x <= T /\ T < x + n) \/ (x <= T - 1 /\ T - 1 < x + n)
      BY <1>3, <1>4, <2>1 DEF Home
    <3> QED BY <3>1, <3>2
  <2> QED BY <2>1
<1>9. Home(w, x)' /\ WriteValue(w) => T - n < x /\ x <= T
  <2>1. ASSUME Home(w, x)', WriteValue(w) PROVE T - n < x /\ x <= T
    <3>1. x <= Top(w) /\ Top(w) < x + n /\ Top(w) = T
      BY <1>1, <1>3, <1>4, <2>1 DEF Home, WriteValue
    <3> QED BY <3>1
  <2> QED BY <2>1
<1>10. ASSUME T - n < x, x < T
       PROVE  (Home(w, x)' <=> Home(w, x)) /\ EntryOf(w, x)' = EntryOf(w, x)
  <2>1. EntryOf(w, x)' = EntryOf(w, x) BY <1>6, <1>10
  <2>2. \A y \in x .. Top(w) : EntryOf(w, y)'.key = EntryOf(w, y).key BY <1>6
  <2> QED BY <1>3, <1>4, <2>1, <2>2 DEF Home
<1>11. ASSUME WriteValue(w), x = T
       PROVE  Home(w, x)' /\ ~ Home(w, x) /\ EntryOf(w, x)'.value = enq[w].block
  <2>1. Top(w) = T /\ T .. T = {T} /\ T <= T /\ T < T + n
    BY <1>1, <1>3, <1>11 DEF WriteValue
  <2>2. EntryOf(w, T)'.key = Key(T) /\ EntryOf(w, T)'.value = enq[w].block
        /\ enq[w].block \in Blocks
    BY <1>3, <1>4, <1>5, <1>11 DEF EntryOf
  <2>3. Home(w, T)' BY <1>4, <2>1, <2>2 DEF Home
  <2> QED BY <1>7, <1>11, <2>2, <2>3
<1>12. Home(w, x) => Home(w, x)' /\ EntryOf(w, x)' = EntryOf(w, x) BY <1>7, <1>10
<1>13. Home(w, x)' => Home(w, x) \/ (WriteValue(w) /\ x = T)
  <2>1. ASSUME Home(w, x)', WriteValue(w), x # T PROVE T - n < x /\ x < T BY <1>9, <2>1
  <2> QED BY <1>8, <1>10, <2>1
<1> QED BY <1>3, <1>6, <1>11, <1>12, <1>13

(* new_block_index keeps every block of the ring that it copies.           *)
LEMMA GrownHome ==
  ASSUME TypeOK, NEW w \in Writers, RingInv(w), NewBlockIndex(w), NEW x \in Int
  PROVE  /\ Home(w, x)' <=> Home(w, x)
         /\ Home(w, x) => EntryOf(w, x)' = EntryOf(w, x) /\ RingAt(w, x)' = RingAt(w, x)
<1>1. Shape(w) /\ StartsBlock(w) BY DEF RingInv, Picked
<1>2. PICK n \in Nat, p \in Int : n = Len(entries[w]) /\ p = Top(w) BY <1>1, ShapeFacts
<1>3. /\ n > 0 /\ Len(entries'[w]) = 2 * n
      /\ \A i \in 1 .. n : entries'[w][i] = entries[w][i]
      /\ \A i \in n + 1 .. 2 * n : entries'[w][i] = FreshEntry
  BY <1>1, <1>2, Grown
<1>4. /\ Top(w)' = p
      /\ \A y \in Int : p - n < y /\ y <= p => RingAt(w, y)' = RingAt(w, y)
      /\ \A y \in Int : p - 2 * n < y /\ y <= p - n => RingAt(w, y)' \in n + 1 .. 2 * n
  BY <1>1, <1>2, RingGrows
<1>5. \A y \in Int : RingAt(w, y) \in 1 .. n BY <1>1, <1>2, RingFacts
<1>6. ASSUME NEW y \in Int, p - n < y, y <= p
      PROVE  EntryOf(w, y)' = EntryOf(w, y) /\ RingAt(w, y)' = RingAt(w, y)
  BY <1>3, <1>4, <1>5, <1>6 DEF EntryOf
<1>7. ASSUME NEW y \in Int, p - 2 * n < y, y <= p - n
      PROVE  EntryOf(w, y)'.value \notin Blocks
  BY <1>3, <1>4, <1>7, ImplicitProducerAssumption DEF EntryOf, FreshEntry
<1>8. ASSUME Home(w, x)' PROVE p - n < x /\ x <= p BY <1>3, <1>4, <1>7, <1>8 DEF Home
<1>9. ASSUME Home(w, x) PROVE p - n < x /\ x <= p
  <2>1. x <= p /\ p < x + n BY <1>2, <1>9 DEF Home
  <2> QED BY <2>1
<1>10. ASSUME p - n < x, x <= p PROVE Home(w, x)' <=> Home(w, x)
  <2>1. \A y \in x .. p : EntryOf(w, y)' = EntryOf(w, y)
    <3>1. SUFFICES ASSUME NEW y \in x .. p PROVE EntryOf(w, y)' = EntryOf(w, y) OBVIOUS
    <3>2. y \in Int /\ p - n < y /\ y <= p BY <1>10
    <3> QED BY <1>6, <3>2
  <2>2. x \in x .. p /\ p < x + n /\ p < x + 2 * n BY <1>3, <1>10
  <2> QED BY <1>2, <1>3, <1>4, <2>1, <2>2 DEF Home
<1> QED BY <1>6, <1>8, <1>9, <1>10

(* A step of its writer keeps every block of a ring where it is, and but   *)
(* one brings none.                                                        *)
LEMMA EnqueueHome ==
  ASSUME TypeOK, NEW w \in Writers, RingInv(w), EnqueueStep(w), NEW x \in Int
  PROVE  /\ Home(w, x) => /\ Home(w, x)' /\ RingAt(w, x)' = RingAt(w, x)
                          /\ EntryOf(w, x)'.value = EntryOf(w, x).value
         /\ Home(w, x)' => Home(w, x) \/ (WriteValue(w) /\ x = Num(tailIndex[w]))
         /\ WriteValue(w) /\ x = Num(tailIndex[w]) =>
              Home(w, x)' /\ ~ Home(w, x) /\ EntryOf(w, x)'.value = enq[w].block
<1>1. Shape(w) /\ StartsBlock(w) BY DEF RingInv, Picked
<1>2. ~ NewBlockIndex(w) => RingAt(w, x)' = RingAt(w, x) BY <1>1, RingTurns
<1>3. CASE NewBlockIndex(w)
  <2>1. ~ WriteValue(w) BY <1>3 DEF NewBlockIndex, WriteValue
  <2> QED BY <1>3, <2>1, GrownHome
<1>4. CASE WriteKey(w)
  BY <1>2, <1>4, WriteKeyHome DEF WriteKey, WriteValue, NewBlockIndex
<1>5. CASE WriteTail(w) \/ RewindTail(w)
  BY <1>2, <1>5, WriteTailHome, RewindTailHome DEF WriteTail, RewindTail, WriteValue,
     NewBlockIndex
<1>6. CASE ClearValue(w) \/ WriteValue(w)
  <2>1. ~ NewBlockIndex(w) BY <1>6 DEF ClearValue, WriteValue, NewBlockIndex
  <2> QED BY <1>2, <1>6, <2>1, ValueHome
<1>7. ASSUME ~ NewBlockIndex(w), ~ WriteKey(w), ~ WriteTail(w), ~ RewindTail(w),
             ~ ClearValue(w), ~ WriteValue(w)
      PROVE  (Home(w, x)' <=> Home(w, x)) /\ EntryOf(w, x)' = EntryOf(w, x)
  BY <1>1, <1>7, WriterKeeps, WriterMoves, RingTurns, ShapeFacts DEF EntryOf, Home
<1> QED BY <1>2, <1>3, <1>4, <1>5, <1>6, <1>7

(* So does the key of every block up to the one at the tail index.         *)
LEMMA KeyKept ==
  ASSUME TypeOK, NEW w \in Writers, RingInv(w), EnqueueStep(w), NEW x \in Int, Home(w, x),
         NEW y \in Int, x <= y, y <= Num(tailIndex[w]), EntryOf(w, y).key = Key(y)
  PROVE  EntryOf(w, y)'.key = Key(y) /\ RingAt(w, y)' = RingAt(w, y)
<1>1. Shape(w) /\ StartsBlock(w) /\ Picked(w) BY DEF RingInv, Picked
<1>2. CASE NewBlockIndex(w)
  <2>1. PICK n \in Nat, p \in Int, T \in Nat : n = Len(entries[w]) /\ p = Top(w)
                                               /\ T = Num(tailIndex[w])
    <3>1. tailIndex[w] \in Nat /\ tailIndex[w] \in Int BY <1>1, ShapeFacts
    <3>2. Num(tailIndex[w]) \in Nat BY <3>1, NumSlot
    <3> QED BY <1>1, <3>2, ShapeFacts
  <2>2. p = T - 1 /\ \A i \in Int : p - n < i /\ i <= p => RingAt(w, i)' = RingAt(w, i)
    BY <1>1, <1>2, <2>1, RingGrows
  <2>3. x <= p /\ p < x + n BY <2>1 DEF Home
  <2>4. y # T
    <3>1. enq[w].at = "grow" BY <1>2 DEF NewBlockIndex
    <3>2. EntryOf(w, T).key # tailIndex[w] BY <1>1, <2>1, <3>1 DEF Picked
    <3>3. tailIndex[w] = Key(T)
      BY <1>1, <2>1, <3>1, ShapeFacts, NumBefore DEF StartsBlock, Entering
    <3> QED BY <3>2, <3>3
  <2>5. p - n < y /\ y <= p BY <2>1, <2>2, <2>3, <2>4
  <2>6. RingAt(w, y)' = RingAt(w, y) /\ RingAt(w, y) \in 1 .. n
    BY <1>1, <2>1, <2>2, <2>5, RingFacts
  <2>7. \A i \in 1 .. n : entries'[w][i] = entries[w][i] BY <1>1, <1>2, <2>1, Grown
  <2> QED BY <2>6, <2>7 DEF EntryOf
<1>3. CASE ~ NewBlockIndex(w)
  <2>1. RingAt(w, y)' = RingAt(w, y) BY <1>1, <1>3, RingTurns
  <2>2. CASE entries' = entries BY <2>1, <2>2 DEF EntryOf
  <2>3. CASE ClearValue(w) \/ WriteValue(w) BY <2>1, <2>3, ValueHome
  <2>4. CASE WriteKey(w)
    <3>1. enq[w].at = "key" /\ Home(w, x)' BY <2>4, EnqueueHome DEF WriteKey
    <3>2a. PICK T \in Nat, n \in Nat : \E e : PickedAt(w, T, n, e)
      BY <1>1, <3>1, PickedFacts
    <3>2. PICK e : PickedAt(w, T, n, e) BY <3>2a
    <3>3. /\ T = Num(tailIndex[w]) /\ n = Len(entries[w]) /\ e = enq[w].entry
          /\ e = RingAt(w, T) /\ e \in 1 .. n /\ RingAt(w, T - n) = e /\ Top(w) = T - 1
          /\ tailIndex[w] = Key(T)
          /\ \A i \in Int : T - n < i /\ i < T => RingAt(w, i) # e
          /\ \A i \in Int : RingAt(w, i) \in 1 .. n
      BY <3>1, <3>2 DEF PickedAt, Moved
    <3>4. T - n < x
      <4>1. x # T - n BY <1>1, <3>1, <3>3 DEF Home, EntryOf, Picked
      <4>2. T - 1 < x + n BY <3>3 DEF Home
      <4> QED BY <4>1, <4>2
    <3>5. /\ entries \in [Writers -> Seq(Entry)] /\ e \in 1 .. Len(entries[w])
          /\ n = Len(entries[w])
          /\ entries' = [entries EXCEPT ![w][e].key = Key(T)]
      BY <2>4, <3>3 DEF TypeOK, WriteKey
    <3>6. \A i \in 1 .. n : i # e => entries'[w][i] = entries[w][i] BY <3>5
    <3>7. entries'[w][e].key = Key(T) BY <3>5 DEF Entry
    <3>8. CASE y = T BY <2>1, <3>3, <3>7, <3>8 DEF EntryOf
    <3>9. CASE y # T
      <4>2. y <= T BY <3>3
      <4>1. T - n < y /\ y < T BY <3>4, <3>9, <4>2
      <4> QED BY <2>1, <3>3, <3>6, <4>1 DEF EntryOf
    <3> QED BY <2>1, <3>8, <3>9
  <2> QED BY <1>3, <2>1, <2>2, <2>3, <2>4, WriterKeeps
<1> QED BY <1>2, <1>3

-------------------------------------------------------------------------------
(* Every step of a writer keeps its ring.                                  *)

LEMMA EntriesAfter ==
  ASSUME TypeOK, NEW w \in Writers, Shape(w), EnqueueStep(w),
         NEW n \in Nat, n = Len(entries[w]), NEW e, e = enq[w].entry
  PROVE  Remade(w, n, e)
<1>0. SUFFICES /\ ~ NewBlockIndex(w) => Len(entries'[w]) = n
               /\ NewBlockIndex(w) => /\ Len(entries'[w]) = 2 * n
                                      /\ \A i \in n + 1 .. 2 * n : entries'[w][i] = FreshEntry
               /\ \A i \in 1 .. n :
                    i # e \/ ~ (WriteKey(w) \/ ClearValue(w) \/ WriteValue(w)) =>
                      entries'[w][i] = entries[w][i]
               /\ e \in 1 .. n =>
                    /\ WriteKey(w) => /\ entries'[w][e].key = tailIndex[w]
                                      /\ entries'[w][e].value = entries[w][e].value
                    /\ ClearValue(w) => /\ entries'[w][e].key = entries[w][e].key
                                        /\ entries'[w][e].value = NoBlock
                    /\ WriteValue(w) => /\ entries'[w][e].key = entries[w][e].key
                                        /\ entries'[w][e].value = enq[w].block
  BY Zenon DEF Remade
<1>1. /\ entries \in [Writers -> Seq(Entry)] /\ entries[w] \in Seq(Entry)
      /\ tailIndex[w] \in Nat /\ enq[w].block \in Node
  BY DEF TypeOK, EnqLocal
<1>2. CASE NewBlockIndex(w)
  <2>1. ~ WriteKey(w) /\ ~ ClearValue(w) /\ ~ WriteValue(w)
    BY <1>2 DEF NewBlockIndex, WriteKey, ClearValue, WriteValue
  <2> QED BY <1>2, <2>1, Grown
<1>3. CASE WriteKey(w)
  BY <1>1, <1>3 DEF NewBlockIndex, WriteKey, ClearValue, WriteValue, Entry
<1>4. CASE ClearValue(w)
  BY <1>1, <1>4 DEF NewBlockIndex, WriteKey, ClearValue, WriteValue, Entry
<1>5. CASE WriteValue(w)
  BY <1>1, <1>5 DEF NewBlockIndex, WriteKey, ClearValue, WriteValue, Entry
<1>6. CASE ~ NewBlockIndex(w) /\ ~ WriteKey(w) /\ ~ ClearValue(w) /\ ~ WriteValue(w)
  <2>1. entries' = entries BY <1>6, WriterKeeps
  <2> QED BY <1>1, <1>6, <2>1
<1> QED BY <1>2, <1>3, <1>4, <1>5, <1>6

(* How a writer comes to have an entry picked, and how it gets rid of it.  *)
LEMMA FillKeeps ==
  ASSUME TypeOK, NEW w \in Writers, EnqueueStep(w)
  PROVE  /\ enq[w].at \in Filling \cup {"key"} /\ enq'[w].at \in Filling \cup {"key"} =>
              enq'[w].entry = enq[w].entry
         /\ enq'[w].at = "key" => FindEntry(w) \/ NewBlockIndex(w)
         /\ enq'[w].at = "grow" => FindEntry(w)
         /\ enq'[w].at \in Filling /\ ~ (enq[w].at \in Filling) => WriteKey(w)
         /\ enq[w].at \in Filling /\ ~ (enq'[w].at \in Filling) => ClearValue(w) \/ WriteValue(w)
         /\ enq[w].at = "key" => WriteKey(w)
         /\ enq'[w].at \in {"fill", "value"} =>
              FromInitialPool(w) \/ Got(w) \/ Create(w) \/ Fill(w)
<1>1. enq \in [Writers -> EnqLocal] /\ enq[w] \in EnqLocal BY DEF TypeOK
<1>2. ASSUME enq[w].at \in Filling \cup {"key"}, enq'[w].at \in Filling \cup {"key"}
      PROVE  enq'[w].entry = enq[w].entry
  <2>1. CASE WriteKey(w) \/ WriteTail(w) \/ FromFreeList(w) \/ CreateFails(w) \/ Fill(w)
             \/ FillThrows(w) \/ RewindTail(w)
    BY <1>1, <2>1 DEF WriteKey, WriteTail, FromFreeList, CreateFails, Fill, FillThrows,
       RewindTail, EnqLocal
  <2>2. CASE FromInitialPool(w) \/ Create(w)
    BY <1>1, <2>2 DEF FromInitialPool, Create, EnqLocal
  <2>3. CASE Got(w) BY <1>1, <2>3 DEF Got, EnqLocal
  <2>4. CASE FindEntry(w) \/ NewBlockIndex(w) \/ NewBlockIndexFails(w) \/ ClearValue(w)
             \/ GivenBack(w) \/ WriteValue(w) \/ Construct(w) \/ Publish(w)
    BY <1>2, <2>4, WriterPlaces DEF Filling, Moved
  <2> QED BY <2>1, <2>2, <2>3, <2>4 DEF EnqueueStep
<1>3. /\ enq'[w].at = "key" => FindEntry(w) \/ NewBlockIndex(w)
      /\ enq'[w].at = "grow" => FindEntry(w)
      /\ enq[w].at = "key" => WriteKey(w)
  BY WriterPlaces DEF EnqueueStep
<1>4. enq'[w].at \in Filling /\ ~ (enq[w].at \in Filling) => WriteKey(w)
  BY WriterPlaces DEF EnqueueStep, Filling, Moved
<1>5. enq[w].at \in Filling /\ ~ (enq'[w].at \in Filling) => ClearValue(w) \/ WriteValue(w)
  BY WriterPlaces DEF EnqueueStep, Filling, Moved
<1>6. enq'[w].at \in {"fill", "value"} =>
         FromInitialPool(w) \/ Got(w) \/ Create(w) \/ Fill(w)
  BY WriterPlaces DEF EnqueueStep
<1> QED BY <1>2, <1>3, <1>4, <1>5, <1>6

(* The entry that insert_block_index_entry looks at is that of the block   *)
(* to come.                                                                *)
LEMMA NextEntry ==
  ASSUME TypeOK, NEW w \in Writers, RingInv(w), FindEntry(w),
         NEW T, T = Num(tailIndex[w]), NEW e, e = RingAt(w, T)
  PROVE  /\ T \in Nat /\ tailIndex[w] = Key(T) /\ Top(w) = T - 1
         /\ e \in 1 .. Len(entries[w])
         /\ \/ entries[w][e].key = INVALID_BLOCK_BASE /\ entries[w][e].value = Unwritten
            \/ entries[w][e].value = NoBlock
            \/ entries[w][e].value \in Blocks /\ entries[w][e].key # tailIndex[w]
         /\ enq'[w].at = "key" => /\ enq'[w].entry = e
                                  /\ entries[w][e].value \notin Blocks
         /\ enq'[w].at = "grow" => entries[w][e].key # tailIndex[w]
<1>1. Shape(w) /\ enq[w].at = "idle" /\ Slot(tailIndex[w]) = 0 /\ Fresh(w) /\ HeldHome(w)
  BY DEF RingInv, FindEntry
<1>2. /\ tailIndex[w] \in Nat /\ tailIndex[w] \in Int /\ CurrentHeader(w).tail \in Nat
      /\ enq \in [Writers -> EnqLocal]
  BY <1>1, ShapeFacts DEF Header, TypeOK
<1>3. T \in Nat /\ T \in Int BY <1>2, NumSlot
<1>4. tailIndex[w] = Key(T) /\ Num(tailIndex[w] - 1) = T - 1 BY <1>1, <1>2, NumBefore
<1>5. Top(w) = T - 1 BY <1>1, <1>4, TopAt DEF Moved
<1>6. e \in 1 .. Len(entries[w]) /\ entries[w][e] \in Entry
  BY <1>1, <1>3, RingFacts DEF EntryOf
<1>7. e = At(CurrentHeader(w), CurrentHeader(w).tail + 1) BY <1>2, <1>3, <1>5 DEF RingAt
<1>8. ASSUME entries[w][e].value \in Blocks PROVE entries[w][e].key # tailIndex[w]
  <2>1. PICK x \in Nat : RingAt(w, x) = e /\ Home(w, x) BY <1>1, <1>6, <1>8 DEF HeldHome
  <2>2. x <= T - 1 /\ x \in x .. T - 1 BY <1>3, <1>5, <2>1 DEF Home
  <2>3. entries[w][e].key = Key(x) BY <1>5, <2>1, <2>2 DEF Home, EntryOf
  <2>4. x # T /\ x \in Int /\ T \in Int BY <1>3, <2>2
  <2>5. Key(x) # Key(T) BY <2>4, KeyDifference
  <2> QED BY <1>4, <2>3, <2>5
<1>9. /\ entries[w][e].value \in Blocks \cup {NoBlock, Unwritten}
      /\ entries[w][e].value = Unwritten => entries[w][e].key = INVALID_BLOCK_BASE
      /\ entries[w][e].key = INVALID_BLOCK_BASE => entries[w][e].value = Unwritten
      /\ NoBlock \notin Blocks /\ Unwritten \notin Blocks
  BY <1>1, <1>6, FreeListAssumption, ImplicitProducerAssumption DEF Fresh, Entry,
     Filling, Moved
<1>10. enq' = IF \/ entries[w][e].key = INVALID_BLOCK_BASE
                 \/ entries[w][e].value = NoBlock
              THEN [enq EXCEPT ![w].at = "key", ![w].entry = e]
              ELSE [enq EXCEPT ![w].at = "grow"]
  BY <1>7, Zenon DEF FindEntry
<1>11. /\ enq'[w].at = "key" => enq'[w].entry = e /\ entries[w][e].value \notin Blocks
       /\ enq'[w].at = "grow" => entries[w][e].value \in Blocks
  BY <1>2, <1>9, <1>10 DEF EnqLocal
<1> QED BY <1>3, <1>4, <1>5, <1>6, <1>8, <1>9, <1>11

LEMMA PickedStep ==
  ASSUME TypeOK, NEW w \in Writers, RingInv(w), EnqueueStep(w)
  PROVE  Picked(w)'
<1>1. /\ Shape(w) /\ Picked(w) /\ StartsBlock(w)
      /\ enq \in [Writers -> EnqLocal] /\ tailIndex[w] \in Nat
      /\ Len(entries[w]) \in Nat /\ Len(entries[w]) > 0
  BY ShapeFacts DEF RingInv, Picked, TypeOK
<1>2. PICK T, n, e : T = Num(tailIndex[w]) /\ n = Len(entries[w]) /\ e = enq[w].entry
  OBVIOUS
<1>3. /\ n \in Nat /\ T \in Nat /\ T \in Int /\ n > 0
  <2>1. tailIndex[w] \in Int BY <1>1
  <2>2. Num(tailIndex[w]) \in Nat BY <1>1, <2>1, NumSlot
  <2> QED BY <1>1, <1>2, <2>2
<1>4. ASSUME enq'[w].at \in Entering
      PROVE  tailIndex'[w] = tailIndex[w] /\ Slot(tailIndex[w]) = 0 /\ T = Num(tailIndex'[w])
  BY <1>1, <1>2, <1>4, WriterPlaces, WriterKeeps DEF Entering, Moved, EnqueueStep,
     StartsBlock, FindEntry
<1>5. StartsBlock(w)' BY <1>4 DEF StartsBlock
<1>6. ASSUME enq'[w].at \in Filling \cup {"key"}
      PROVE  /\ enq'[w].entry = RingAt(w, T)'
             /\ entries'[w][enq'[w].entry].value \notin Blocks
             /\ enq'[w].at \in Filling => entries'[w][enq'[w].entry].key = tailIndex[w]
  <2>1. CASE FindEntry(w)
    <3>1. enq'[w].at = "key" /\ "key" \notin Filling
      BY <1>6, <2>1, WriterPlaces DEF Filling, Moved
    <3>2. ~ NewBlockIndex(w) /\ entries' = entries
      BY <2>1 DEF FindEntry, NewBlockIndex, indexVars
    <3>3. RingAt(w, T)' = RingAt(w, T) BY <1>1, <1>3, <3>2, RingTurns
    <3> QED BY <1>2, <2>1, <3>1, <3>2, <3>3, NextEntry
  <2>2. CASE NewBlockIndex(w)
    <3>1. Top(w) = T - 1 /\ RingAt(w, Top(w) + 1)' = n + 1
      BY <1>1, <1>2, <1>3, <2>2, RingGrows
    <3>2. Top(w) + 1 = T BY <1>3, <3>1
    <3>3. RingAt(w, T)' = n + 1
      <4>1. Top(w)' = Top(w) BY <1>1, <1>2, <1>3, <2>2, RingGrows
      <4>2. RingAt(w, Top(w) + 1)' = At(CurrentHeader(w)', CurrentHeader(w)'.tail + (Top(w)' + 1) - Top(w)')
        BY DEF RingAt
      <4>3. RingAt(w, T)' = At(CurrentHeader(w)', CurrentHeader(w)'.tail + T - Top(w)')
        BY DEF RingAt
      <4> QED BY <3>1, <3>2, <4>1, <4>2, <4>3
    <3>4. enq'[w].at = "key" /\ enq'[w].entry = n + 1 /\ "key" \notin Filling
      BY <1>1, <1>2, <2>2 DEF NewBlockIndex, EnqLocal, Filling, Moved, Shape
    <3>5. n + 1 \in n + 1 .. 2 * n BY <1>3
    <3>6. entries'[w][n + 1] = FreshEntry BY <1>1, <1>2, <1>3, <2>2, <3>5, Grown
    <3> QED BY <3>3, <3>4, <3>6, ImplicitProducerAssumption DEF FreshEntry
  <2>3. CASE ~ FindEntry(w) /\ ~ NewBlockIndex(w)
    <3>1. enq[w].at \in Filling \cup {"key"} /\ ~ ClearValue(w) /\ ~ WriteValue(w)
      BY <1>6, <2>3, FillKeeps, WriterPlaces DEF Filling, Moved
    <3>2. enq'[w].entry = e BY <1>2, <1>6, <3>1, FillKeeps
    <3>3. RingAt(w, T)' = RingAt(w, T) /\ RingAt(w, T) \in 1 .. n
      BY <1>1, <1>2, <1>3, <2>3, RingTurns, RingFacts
    <3>4. e = RingAt(w, T) /\ entries[w][e].value \notin Blocks
          /\ (enq[w].at \in Filling => entries[w][e].key = tailIndex[w])
      BY <1>1, <1>2, <3>1 DEF Picked
    <3>5. CASE WriteKey(w)
      <4>2. e \in 1 .. n BY <3>3, <3>4
      <4>3. Shape(w) /\ n = Len(entries[w]) /\ n \in Nat /\ e = enq[w].entry
        BY <1>1, <1>2, <1>3
      <4>1. entries'[w][e].key = tailIndex[w] /\ entries'[w][e].value = entries[w][e].value
        <5>1. Remade(w, n, e) BY <4>3, EntriesAfter
        <5> QED BY <3>5, <4>2, <5>1 DEF Remade
      <4> QED BY <3>2, <3>3, <3>4, <4>1
    <3>6. CASE ~ WriteKey(w)
      <4>1. entries' = entries BY <2>3, <3>1, <3>6, WriterKeeps
      <4>2. enq'[w].at \in Filling => enq[w].at \in Filling BY <3>6, FillKeeps
      <4> QED BY <3>2, <3>3, <3>4, <4>1, <4>2
    <3> QED BY <3>5, <3>6
  <2> QED BY <2>1, <2>2, <2>3
<1>7. ASSUME enq'[w].at = "grow" PROVE EntryOf(w, T)'.key # tailIndex[w]
  <2>1. FindEntry(w) BY <1>7, FillKeeps
  <2>2. ~ NewBlockIndex(w) /\ entries' = entries
    BY <2>1 DEF FindEntry, NewBlockIndex, indexVars
  <2>3. RingAt(w, T)' = RingAt(w, T) BY <1>1, <1>3, <2>2, RingTurns
  <2>4. entries[w][RingAt(w, T)].key # tailIndex[w] BY <1>2, <1>7, <2>1, NextEntry
  <2> QED BY <2>2, <2>3, <2>4 DEF EntryOf
<1>8. ASSUME enq'[w].at \in {"fill", "value"} PROVE enq'[w].block \in Blocks
  <2>1. CASE FromInitialPool(w) \/ Create(w)
    BY <1>1, <2>1 DEF FromInitialPool, Create, EnqLocal, TypeOK
  <2>2. CASE Got(w)
    BY <1>1, <1>8, <2>2, ImplicitProducerAssumption DEF TypeOK, ListTypeOK, Got,
       EnqLocal, Local, Node
  <2>3. CASE Fill(w) BY <1>1, <2>3 DEF Fill, EnqLocal, Picked
  <2> QED BY <1>8, <2>1, <2>2, <2>3, FillKeeps
<1>9. ASSUME NEW a \in Entering, enq'[w].at = a
      PROVE  T = Num(tailIndex'[w]) /\ tailIndex'[w] = tailIndex[w]
  BY <1>4, <1>9
<1>10. ASSUME NEW y, y = Num(tailIndex'[w]), T = y
       PROVE  RingAt(w, Num(tailIndex[w]))' = RingAt(w, T)'
              /\ EntryOf(w, Num(tailIndex[w]))' = EntryOf(w, T)'
  BY <1>10 DEF EntryOf, RingAt
<1>11. Filling \cup {"key", "grow"} \subseteq Entering BY DEF Filling, Entering, Moved
<1> QED BY <1>5, <1>6, <1>7, <1>8, <1>9, <1>10, <1>11 DEF Picked

(* What a step leaves of an entry.                                         *)
LEMMA EntryAfter ==
  ASSUME TypeOK, NEW w \in Writers, RingInv(w), EnqueueStep(w),
         NEW i \in 1 .. Len(entries'[w])
  PROVE  \/ NewBlockIndex(w) /\ i \notin 1 .. Len(entries[w]) /\ entries'[w][i] = FreshEntry
         \/ /\ i \in 1 .. Len(entries[w])
            /\ \/ entries'[w][i] = entries[w][i]
                  /\ (WriteKey(w) \/ ClearValue(w) \/ WriteValue(w) => i # enq[w].entry)
               \/ /\ i = enq[w].entry /\ entries[w][i].value \notin Blocks
                  /\ i = RingAt(w, Num(tailIndex[w]))
                  /\ \/ WriteKey(w) /\ entries'[w][i].key = tailIndex[w]
                        /\ entries'[w][i].value = entries[w][i].value
                     \/ ClearValue(w) /\ entries'[w][i].key = tailIndex[w]
                        /\ entries'[w][i].value = NoBlock
                     \/ WriteValue(w) /\ entries'[w][i].key = tailIndex[w]
                        /\ entries'[w][i].value = enq[w].block /\ enq[w].block \in Blocks
<1>1. Shape(w) /\ Picked(w) BY DEF RingInv
<1>2a. PICK n \in Nat : \E e : n = Len(entries[w]) /\ e = enq[w].entry
  BY <1>1, ShapeFacts
<1>2. PICK e : n = Len(entries[w]) /\ e = enq[w].entry BY <1>2a
<1>3. /\ ~ NewBlockIndex(w) => Len(entries'[w]) = n
      /\ NewBlockIndex(w) => /\ Len(entries'[w]) = 2 * n
                             /\ \A j \in n + 1 .. 2 * n : entries'[w][j] = FreshEntry
      /\ \A j \in 1 .. n :
              j # e \/ ~ (WriteKey(w) \/ ClearValue(w) \/ WriteValue(w)) =>
                entries'[w][j] = entries[w][j]
      /\ e \in 1 .. n =>
              /\ WriteKey(w) => /\ entries'[w][e].key = tailIndex[w]
                                /\ entries'[w][e].value = entries[w][e].value
              /\ ClearValue(w) => /\ entries'[w][e].key = entries[w][e].key
                                  /\ entries'[w][e].value = NoBlock
              /\ WriteValue(w) => /\ entries'[w][e].key = entries[w][e].key
                                  /\ entries'[w][e].value = enq[w].block
  <2>1. Shape(w) BY <1>1
  <2>2. n = Len(entries[w]) /\ e = enq[w].entry BY <1>2
  <2>3. Remade(w, n, e) BY <2>1, <2>2, EntriesAfter
  <2> QED BY <2>3 DEF Remade
<1>4. CASE i \notin 1 .. n BY <1>2, <1>3, <1>4
<1>5. CASE i \in 1 .. n /\ (i # e \/ ~ (WriteKey(w) \/ ClearValue(w) \/ WriteValue(w)))
  BY <1>2, <1>3, <1>5
<1>6. CASE i \in 1 .. n /\ i = e /\ (WriteKey(w) \/ ClearValue(w) \/ WriteValue(w))
  BY <1>1, <1>2, <1>3, <1>6 DEF WriteKey, ClearValue, WriteValue, Picked, Filling, Moved
<1> QED BY <1>4, <1>5, <1>6

LEMMA FreshStep ==
  ASSUME TypeOK, NEW w \in Writers, RingInv(w), EnqueueStep(w)
  PROVE  Fresh(w)'
<1>1. SUFFICES ASSUME NEW i \in 1 .. Len(entries'[w])
               PROVE  /\ entries'[w][i].key = INVALID_BLOCK_BASE => entries'[w][i].value = Unwritten
                      /\ entries'[w][i].value = Unwritten =>
                         \/ entries'[w][i].key = INVALID_BLOCK_BASE
                         \/ enq'[w].at \in Filling /\ i = enq'[w].entry
  BY DEF Fresh
<1>2. /\ Fresh(w) /\ tailIndex[w] \in Nat /\ INVALID_BLOCK_BASE \notin Nat
      /\ Unwritten \notin Blocks \cup {NoBlock}
  BY ImplicitProducerAssumption DEF RingInv, TypeOK
<1>3. CASE NewBlockIndex(w) /\ entries'[w][i] = FreshEntry BY <1>3 DEF FreshEntry
<1>4. CASE /\ i \in 1 .. Len(entries[w]) /\ entries'[w][i] = entries[w][i]
           /\ WriteKey(w) \/ ClearValue(w) \/ WriteValue(w) => i # enq[w].entry
  BY <1>2, <1>4, FillKeeps DEF Fresh
<1>5. CASE ClearValue(w) /\ entries'[w][i].key = tailIndex[w] /\ entries'[w][i].value = NoBlock
  BY <1>2, <1>5
<1>6. CASE WriteValue(w) /\ entries'[w][i].key = tailIndex[w]
           /\ entries'[w][i].value = enq[w].block /\ enq[w].block \in Blocks
  BY <1>2, <1>6
<1>7. CASE WriteKey(w) /\ entries'[w][i].key = tailIndex[w] /\ i = enq[w].entry
  BY <1>2, <1>7, WriterPlaces, FillKeeps DEF Filling
<1> QED BY <1>3, <1>4, <1>5, <1>6, <1>7, EntryAfter

LEMMA HeldHomeStep ==
  ASSUME TypeOK, NEW w \in Writers, RingInv(w), EnqueueStep(w)
  PROVE  HeldHome(w)'
<1>1. SUFFICES ASSUME NEW i \in 1 .. Len(entries'[w]), entries'[w][i].value \in Blocks
               PROVE  \E x \in Nat : RingAt(w, x)' = i /\ Home(w, x)'
  BY DEF HeldHome
<1>2. Shape(w) /\ Picked(w) /\ HeldHome(w) /\ tailIndex[w] \in Nat
  BY ShapeFacts DEF RingInv
<1>3. CASE /\ i \in 1 .. Len(entries[w]) /\ entries[w][i].value \in Blocks
  BY <1>2, <1>3, EnqueueHome DEF HeldHome
<1>4. CASE WriteValue(w) /\ i = RingAt(w, Num(tailIndex[w]))
  <2>0. tailIndex[w] \in Int BY <1>2
  <2>1. Num(tailIndex[w]) \in Nat BY <1>2, <2>0, NumSlot
  <2>2. PICK x \in Nat : x = Num(tailIndex[w]) BY <2>1
  <2>3. ~ NewBlockIndex(w) /\ StartsBlock(w)
    BY <1>2, <1>4 DEF NewBlockIndex, WriteValue, Picked
  <2>4. RingAt(w, x)' = RingAt(w, x) BY <1>2, <2>3, RingTurns
  <2>5. Home(w, x)' BY <1>4, <2>2, EnqueueHome
  <2> QED BY <1>4, <2>2, <2>4, <2>5
<1>5. FreshEntry.value \notin Blocks /\ NoBlock \notin Blocks
  BY FreeListAssumption, ImplicitProducerAssumption DEF FreshEntry
<1> QED BY <1>1, <1>3, <1>4, <1>5, EntryAfter

(* A step of a writer keeps its ring.                                      *)
LEMMA RingStep ==
  ASSUME TypeOK, NEW w \in Writers, RingInv(w), EnqueueStep(w)
  PROVE  RingInv(w)'
<1>1. Shape(w) /\ StartsBlock(w) BY DEF RingInv, Picked
<1>2. Shape(w)'
  <2>1. CASE NewBlockIndex(w)
    <3>1. PICK n \in Nat : n = Len(entries[w]) BY <1>1, ShapeFacts
    <3> QED BY <1>1, <2>1, <3>1, RingGrows
  <2>2. CASE ~ NewBlockIndex(w) BY <1>1, <2>2, RingTurns
  <2> QED BY <2>1, <2>2
<1> QED BY <1>2, PickedStep, FreshStep, HeldHomeStep DEF RingInv

(* Nothing else than an entry that a reader clears changes by the steps    *)
(* of others.                                                              *)
LEMMA RingSame ==
  ASSUME NEW w,
         tailIndex'[w] = tailIndex[w], enq'[w] = enq[w],
         blockIndex'[w] = blockIndex[w]
  PROVE  /\ Top(w)' = Top(w) /\ Written(w)' = Written(w)
         /\ Current(w)' = Current(w) /\ CurrentHeader(w)' = CurrentHeader(w)
         /\ \A x : RingAt(w, x)' = RingAt(w, x)
         /\ entries'[w] = entries[w] =>
              /\ RingInv(w)' <=> RingInv(w)
              /\ \A x : /\ EntryOf(w, x)' = EntryOf(w, x)
                        /\ Home(w, x)' <=> Home(w, x)
<1>1. /\ Top(w)' = Top(w) /\ Written(w)' = Written(w)
      /\ Current(w)' = Current(w)
  BY DEF Top, Written, Current
<1>2. CurrentHeader(w)' = CurrentHeader(w) BY <1>1 DEF CurrentHeader
<1>3. ASSUME NEW x PROVE RingAt(w, x)' = RingAt(w, x) BY <1>1, <1>2 DEF RingAt
<1>4. ASSUME entries'[w] = entries[w]
      PROVE  /\ RingInv(w)' <=> RingInv(w)
             /\ \A x : /\ EntryOf(w, x)' = EntryOf(w, x)
                       /\ Home(w, x)' <=> Home(w, x)
  <2>1. ASSUME NEW x PROVE EntryOf(w, x)' = EntryOf(w, x) BY <1>3, <1>4 DEF EntryOf
  <2>2. ASSUME NEW x PROVE Home(w, x)' <=> Home(w, x) BY <1>1, <1>4, <2>1 DEF Home
  <2>3. Shape(w)' <=> Shape(w) BY <1>1, <1>2, <1>4 DEF Shape
  <2>4. Picked(w)' <=> Picked(w) BY <1>3, <1>4, <2>1 DEF Picked, StartsBlock
  <2>5. (Fresh(w)' <=> Fresh(w)) /\ (HeldHome(w)' <=> HeldHome(w))
    BY <1>3, <1>4, <2>2 DEF Fresh, HeldHome
  <2> QED BY <2>1, <2>2, <2>3, <2>4, <2>5 DEF RingInv
<1> QED BY <1>1, <1>2, <1>3, <1>4

-------------------------------------------------------------------------------
(* Whose elements a block holds, and what a reader has found.              *)

LEMMA TailNum ==
  ASSUME TypeOK, NEW w \in Writers
  PROVE  /\ tailIndex[w] \in Nat /\ tailIndex[w] \in Int
         /\ Num(tailIndex[w]) \in Nat /\ Num(tailIndex[w]) \in Int
         /\ headIndex[w] \in Nat
<1>1. tailIndex[w] \in Nat /\ tailIndex[w] \in Int /\ headIndex[w] \in Nat BY DEF TypeOK
<1> QED BY <1>1, NumSlot

LEMMA FlightSize ==
  ASSUME NEW w, NEW x
  PROVE  /\ IsFiniteSet(InFlight(w, x)) /\ Cardinality(InFlight(w, x)) \in Nat
         /\ Cardinality(InFlight(w, x)) = 0 <=> InFlight(w, x) = {}
<1>1. InFlight(w, x) \subseteq Readers /\ IsFiniteSet(Readers)
  BY ImplicitProducerAssumption DEF InFlight
<1> QED BY <1>1, FS_Subset, FS_CardinalityType, FS_EmptySet

(* Blocks with a smaller number come first.                                *)
LEMMA NumOrder ==
  ASSUME NEW i \in Int, NEW j \in Int, i <= j
  PROVE  Num(i) <= Num(j) /\ Num(i) \in Int /\ Num(j) \in Int
<1>1. /\ Num(i) \in Int /\ Num(j) \in Int /\ Key(Num(i)) \in Int /\ Key(Num(j)) \in Int
      /\ Key(Num(i)) <= i /\ j < Key(Num(j)) + BLOCK_SIZE
  BY NumSlot, KeyOrder, NumIs
<1>2. ~ (Num(j) < Num(i))
  <2>1. SUFFICES ASSUME Num(j) < Num(i) PROVE FALSE OBVIOUS
  <2>2. Key(Num(j)) + BLOCK_SIZE <= Key(Num(i)) BY <1>1, <2>1, KeyOrder
  <2> QED BY <1>1, <2>2, BlockSize
<1> QED BY <1>1, <1>2

(* The block of an index below the head that is still to be served is in   *)
(* the ring, with its key.                                                 *)
LEMMA FlyingHome ==
  ASSUME TypeOK, NEW r \in Readers, NEW w \in Writers, deq[r].of = w, ReaderOK(r),
         deq[r].at \in Flying, RingInv(w), Live(w), headIndex[w] <= tailIndex[w],
         NEW x, x = Num(deq[r].index)
  PROVE  /\ x \in Nat /\ Home(w, x) /\ r \in InFlight(w, x)
         /\ EntryOf(w, x).key = Key(x) /\ EntryOf(w, x).value \in Blocks
         /\ RingAt(w, x) \in 1 .. Len(entries[w])
         /\ Key(x) = BlockBase(deq[r].index)
         /\ x <= Written(w) /\ Written(w) <= Top(w) /\ Top(w) <= Num(tailIndex[w])
<1>1. /\ deq[r].index \in Nat /\ deq[r].index \in Int
      /\ tailIndex[w] \in Nat /\ tailIndex[w] \in Int /\ headIndex[w] \in Nat
  BY TailNum DEF TypeOK, DeqLocal
<1>2. x \in Nat /\ Key(x) = BlockBase(deq[r].index) BY <1>1, NumSlot
<1>3. r \in InFlight(w, x) /\ Unfinished(w, x) BY DEF InFlight, Unfinished
<1>4. deq[r].index < headIndex[w] BY DEF ReaderOK
<1>5. deq[r].index <= tailIndex[w] - 1 /\ tailIndex[w] - 1 <= tailIndex[w]
      /\ tailIndex[w] - 1 \in Int
  BY <1>1, <1>4
<1>6. x <= Num(tailIndex[w] - 1) /\ Num(tailIndex[w] - 1) <= Num(tailIndex[w])
      /\ Num(tailIndex[w] - 1) \in Int /\ Num(tailIndex[w]) \in Int
  BY <1>1, <1>5, NumOrder
<1>7. x <= Written(w) /\ Written(w) <= Top(w) /\ Top(w) <= Num(tailIndex[w])
  BY <1>2, <1>6, TopAt
<1>8. Home(w, x) BY <1>2, <1>3, <1>7 DEF Live
<1>9. x \in x .. Top(w)
  <2>1. Top(w) \in Int BY ShapeFacts DEF RingInv
  <2> QED BY <1>2, <1>7, <1>8, <2>1 DEF Home
<1>10. EntryOf(w, x).key = Key(x) /\ EntryOf(w, x).value \in Blocks
  BY <1>8, <1>9 DEF Home
<1>11. RingAt(w, x) \in 1 .. Len(entries[w]) BY <1>2, RingFacts DEF RingInv
<1> QED BY <1>2, <1>3, <1>7, <1>8, <1>10, <1>11

(* Two blocks in the ring of a writer are in different entries.            *)
LEMMA HomesApart ==
  ASSUME TypeOK, NEW w \in Writers, Shape(w), NEW x \in Int, NEW y \in Int,
         Home(w, x), Home(w, y), x # y
  PROVE  RingAt(w, x) # RingAt(w, y)
<1>1. PICK n \in Nat, p \in Int : n = Len(entries[w]) /\ p = Top(w) BY ShapeFacts
<1>2. x <= p /\ p < x + n /\ y <= p /\ p < y + n BY <1>1 DEF Home
<1>3. (x < y /\ y < x + n) \/ (y < x /\ x < y + n) BY <1>2
<1> QED BY <1>1, <1>3, RingFacts

(* A block is in one entry of one ring.                                    *)
LEMMA EntryAlone ==
  ASSUME ListInv, NEW w \in Writers, NEW v \in Writers,
         NEW i \in 1 .. Len(entries[w]), NEW j \in 1 .. Len(entries[v]),
         entries[w][i].value \in Blocks, entries[v][j].value = entries[w][i].value
  PROVE  w = v /\ i = j
<1>1. PICK kind, who : Placement(kind, who) BY DEF ListInv, Placed
<1>2. who[entries[w][i].value] = <<w, i>> /\ who[entries[v][j].value] = <<v, j>>
  BY <1>1 DEF Placement, Used
<1> QED BY <1>2

(* A block is in one place of a ring.                                      *)
LEMMA HomeAlone ==
  ASSUME ListInv, TypeOK, NEW w \in Writers, NEW v \in Writers, Shape(w), Shape(v),
         NEW x \in Int, NEW y \in Int, Home(w, x), Home(v, y),
         EntryOf(v, y).value = EntryOf(w, x).value
  PROVE  w = v /\ x = y
<1>1. /\ RingAt(w, x) \in 1 .. Len(entries[w]) /\ RingAt(v, y) \in 1 .. Len(entries[v])
  BY RingFacts
<1>2. w = v /\ RingAt(w, x) = RingAt(v, y) BY <1>1, EntryAlone DEF EntryOf, Home
<1> QED BY <1>2, HomesApart

(* The block that a writer is about to use is in no entry, and nobody else *)
(* has it.                                                                 *)
LEMMA HeldAlone ==
  ASSUME ListInv, NEW v \in Writers, enq[v].at \in WithBlock, enq[v].block \in Blocks
  PROVE  /\ \A w \in Writers : \A i \in 1 .. Len(entries[w]) :
              entries[w][i].value # enq[v].block
         /\ \A w \in Writers :
              enq[w].at \in WithBlock /\ enq[w].block = enq[v].block => w = v
<1>1. PICK kind, who : Placement(kind, who) BY DEF ListInv, Placed
<1>2. kind[enq[v].block] = "held" /\ who[enq[v].block] = v BY <1>1 DEF Placement, Used
<1>3. ASSUME NEW w \in Writers, NEW i \in 1 .. Len(entries[w]), entries[w][i].value = enq[v].block
      PROVE  FALSE
  BY <1>1, <1>2, <1>3 DEF Placement, Used
<1>4. ASSUME NEW w \in Writers, enq[w].at \in WithBlock, enq[w].block = enq[v].block
      PROVE  w = v
  BY <1>1, <1>2, <1>4 DEF Placement, Used
<1> QED BY <1>3, <1>4

LEMMA ClaimedSize ==
  ASSUME TypeOK, NEW w \in Writers, NEW x \in Int
  PROVE  /\ Claimed(w, x) \in 0 .. BLOCK_SIZE /\ Key(x) \in Int
         /\ Claimed(w, x) = BLOCK_SIZE <=> headIndex[w] >= Key(x) + BLOCK_SIZE
         /\ headIndex[w] <= Key(x) => Claimed(w, x) = 0
<1>1. headIndex[w] \in Nat /\ Key(x) \in Int /\ BLOCK_SIZE \in Nat /\ BLOCK_SIZE > 1
  BY TailNum, KeyOrder, BlockSize
<1> QED BY <1>1 DEF Claimed

-------------------------------------------------------------------------------
(* A tail read in some ring leads to the block of the index.               *)

LEMMA LeadsNow ==
  ASSUME TypeOK, NEW w \in Writers, RingInv(w), NEW x \in Nat, Home(w, x),
         NEW g, g = Current(w), NEW t, t = CurrentHeader(w).tail
  PROVE  Leads(w, g, t, x)
<1>1. Shape(w) BY DEF RingInv
<1>2. /\ Current(w) \in Nat /\ Current(w) >= 1 /\ CurrentHeader(w).tail \in Nat
  BY <1>1, ShapeFacts DEF Header
<1>3. Top(w) \in Int /\ Top(w) <= Num(tailIndex[w]) BY TailNum, NumBefore, TopAt
<1>4. PICK p \in Int : p = Top(w) BY <1>3
<1>5. x <= p BY <1>4 DEF Home
<1>6. PICK d \in Nat : d = p - x BY <1>5
<1>7. x + d = p /\ p <= Num(tailIndex[w]) BY <1>3, <1>4, <1>6
<1>8. At(blockIndex[w][g], t - d) = RingAt(w, x)
  <2>1. t - d = t + x - p BY <1>2, <1>6
  <2> QED BY <1>4, <2>1 DEF RingAt, CurrentHeader
<1>9. At(blockIndex[w][g], t) = RingAt(w, p) BY <1>2, <1>4 DEF RingAt, CurrentHeader
<1>10. EntryOf(w, p).key = Key(p)
  <2>1. p \in x .. Top(w) BY <1>4, <1>5
  <2> QED BY <2>1 DEF Home
<1>11. /\ x + d <= Num(tailIndex[w])
       /\ At(blockIndex[w][g], t - d) = RingAt(w, x)
       /\ At(blockIndex[w][g], t) = RingAt(w, x + d)
       /\ EntryOf(w, x + d).key = Key(x + d)
  BY <1>7, <1>8, <1>9, <1>10
<1>12. g \in 1 .. Current(w) BY <1>2
<1> QED BY <1>11, <1>12 DEF Leads

LEMMA TailMoves ==
  ASSUME TypeOK, NEW w \in Writers, EnqueueStep(w)
  PROVE  /\ tailIndex' \in [Writers -> Nat] /\ tailIndex'[w] \in Int
         /\ tailIndex[w] <= tailIndex'[w]
         /\ Num(tailIndex[w]) <= Num(tailIndex'[w]) /\ Num(tailIndex'[w]) \in Int
<1>1. tailIndex \in [Writers -> Nat] BY DEF TypeOK
<1>2. tailIndex' = tailIndex \/ tailIndex' = [tailIndex EXCEPT ![w] = @ + 1]
  BY WriterKeeps DEF Publish
<1>3. tailIndex' \in [Writers -> Nat] /\ tailIndex[w] <= tailIndex'[w] BY <1>1, <1>2
<1>4. tailIndex'[w] \in Int /\ tailIndex[w] \in Int BY <1>1, <1>3
<1> QED BY <1>3, <1>4, NumOrder

(* A tail read in a ring given up still leads to the block.                *)
LEMMA LeadsKept ==
  ASSUME TypeOK, NEW w \in Writers, RingInv(w), EnqueueStep(w),
         NEW x \in Nat, Home(w, x), NEW g, NEW t, Leads(w, g, t, x)
  PROVE  Leads(w, g, t, x)'
<1>1. Shape(w) /\ StartsBlock(w) /\ Current(w) \in Nat /\ g \in 1 .. Current(w)
  BY ShapeFacts DEF RingInv, Picked, Leads
<1>2. PICK d \in Nat :
        /\ x + d <= Num(tailIndex[w])
        /\ At(blockIndex[w][g], t - d) = RingAt(w, x)
        /\ At(blockIndex[w][g], t) = RingAt(w, x + d)
        /\ EntryOf(w, x + d).key = Key(x + d)
  BY DEF Leads
<1>3. PICK y \in Int : y = x + d OBVIOUS
<1>4. /\ x <= y /\ y <= Num(tailIndex[w]) /\ EntryOf(w, y).key = Key(y)
      /\ At(blockIndex[w][g], t) = RingAt(w, y)
  BY <1>2, <1>3
<1>5. EntryOf(w, y)'.key = Key(y) /\ RingAt(w, y)' = RingAt(w, y) BY <1>4, KeyKept
<1>6. RingAt(w, x)' = RingAt(w, x) BY EnqueueHome
<1>7. Num(tailIndex[w]) <= Num(tailIndex'[w]) BY TailMoves
<1>8. g \in 1 .. Current(w)' /\ blockIndex'[w][g].index = blockIndex[w][g].index
  <2>1. CASE NewBlockIndex(w)
    <3>1. PICK n \in Nat : n = Len(entries[w]) BY <1>1, ShapeFacts
    <3>2. Current(w)' = Current(w) + 1 /\ blockIndex'[w][g] = blockIndex[w][g]
      BY <1>1, <2>1, <3>1, Grown
    <3> QED BY <1>1, <3>2
  <2>2. CASE ~ NewBlockIndex(w) BY <1>1, <2>2, RingTurns
  <2> QED BY <2>1, <2>2
<1>9. \A p : At(blockIndex'[w][g], p) = At(blockIndex[w][g], p) BY <1>8 DEF At, Capacity
<1>10. /\ At(blockIndex'[w][g], t - d) = RingAt(w, x)'
       /\ At(blockIndex'[w][g], t) = RingAt(w, x + d)'
       /\ EntryOf(w, x + d)'.key = Key(x + d)
  BY <1>2, <1>3, <1>4, <1>5, <1>6, <1>9 DEF RingAt, EntryOf
<1>11. x + d <= Num(tailIndex'[w]) BY <1>2, <1>7, TailMoves, TailNum
<1> QED BY <1>8, <1>10, <1>11 DEF Leads

-------------------------------------------------------------------------------
(* A step of a writer keeps what holds of the blocks and the readers.      *)

(* A step of a writer keeps every block of every ring, and its count.      *)
LEMMA CountStays ==
  ASSUME BlockInv, NEW w \in Writers, EnqueueStep(w), NEW v \in Writers,
         NEW i \in 1 .. Len(entries[v]), entries[v][i].value \in Blocks
  PROVE  elementsCompletelyDequeued'[entries[v][i].value]
           = elementsCompletelyDequeued[entries[v][i].value]
<1>1. elementsCompletelyDequeued \in [Blocks -> 0 .. BLOCK_SIZE] BY DEF BlockInv, TypeOK
<1>2. CASE Fill(w) \/ FillThrows(w)
  BY <1>1, <1>2, HeldAlone DEF Fill, FillThrows, BlockInv, RingInv, Picked, WithBlock
<1>3. CASE ~ Fill(w) /\ ~ FillThrows(w) BY <1>3, WriterKeeps
<1> QED BY <1>2, <1>3

LEMMA HomeStays ==
  ASSUME BlockInv, NEW w \in Writers, EnqueueStep(w), NEW v \in Writers, NEW x \in Int,
         Home(v, x)
  PROVE  /\ Home(v, x)' /\ RingAt(v, x)' = RingAt(v, x)
         /\ EntryOf(v, x)'.value = EntryOf(v, x).value /\ EntryOf(v, x).value \in Blocks
         /\ elementsCompletelyDequeued'[EntryOf(v, x).value]
              = elementsCompletelyDequeued[EntryOf(v, x).value]
<1>1. TypeOK /\ RingInv(v) /\ Shape(v) BY DEF BlockInv, RingInv
<1>2. EntryOf(v, x).value \in Blocks /\ RingAt(v, x) \in 1 .. Len(entries[v])
  BY <1>1, RingFacts DEF Home
<1>3. elementsCompletelyDequeued'[EntryOf(v, x).value]
              = elementsCompletelyDequeued[EntryOf(v, x).value]
  BY <1>2, CountStays DEF EntryOf
<1>4. CASE v = w BY <1>1, <1>2, <1>3, <1>4, EnqueueHome
<1>5. CASE v # w BY <1>1, <1>2, <1>3, <1>5, WriterFrame, RingSame
<1> QED BY <1>4, <1>5

LEMMA LeadsStays ==
  ASSUME BlockInv, NEW w \in Writers, EnqueueStep(w), NEW v \in Writers, NEW x \in Nat,
         Home(v, x), NEW g, NEW t, Leads(v, g, t, x)
  PROVE  Leads(v, g, t, x)'
<1>1. TypeOK /\ RingInv(v) BY DEF BlockInv
<1>2. CASE v = w BY <1>1, <1>2, LeadsKept
<1>3. CASE v # w BY <1>1, <1>3, WriterFrame, RingSame DEF Leads
<1> QED BY <1>2, <1>3

(* The header a reader has read is the current one still, or leads to its  *)
(* block.                                                                  *)
LEMMA HeaderStays ==
  ASSUME BlockInv, NEW w \in Writers, EnqueueStep(w), NEW v \in Writers, NEW x \in Nat,
         Home(v, x), NEW g \in 1 .. Current(v),
         g = Current(v) \/ Leads(v, g, blockIndex[v][g].tail, x)
  PROVE  /\ g \in 1 .. Current(v)'
         /\ g = Current(v)' \/ Leads(v, g, blockIndex[v][g].tail, x)'
<1>1. TypeOK /\ RingInv(v) /\ Shape(v) /\ StartsBlock(v) /\ Current(v) \in Nat
  BY ShapeFacts DEF BlockInv, RingInv, Picked
<1>2. PICK t : t = blockIndex[v][g].tail OBVIOUS
<1>3. Leads(v, g, t, x) BY <1>1, <1>2, LeadsNow DEF CurrentHeader
<1>4. Leads(v, g, t, x)' /\ g \in 1 .. Current(v)'
  <2>1. Leads(v, g, t, x)' BY <1>3, LeadsStays, Zenon
  <2> QED BY <2>1 DEF Leads
<1>5. CASE v = w /\ NewBlockIndex(w) BY <1>1, <1>2, <1>4, <1>5, ShapeFacts, Grown
<1>6. CASE v = w /\ ~ NewBlockIndex(w) BY <1>1, <1>2, <1>4, <1>6, RingTurns
<1>7. CASE v # w BY <1>1, <1>2, <1>4, <1>7, WriterFrame
<1> QED BY <1>5, <1>6, <1>7

LEMMA SameFlight ==
  ASSUME deq' = deq, NEW w, NEW x
  PROVE  InFlight(w, x)' = InFlight(w, x)
BY DEF InFlight

(* What a reader has found stays right while writers go on.                *)
LEMMA EnqueueReader ==
  ASSUME BlockInv, Served, OfWriters, NEW w \in Writers, EnqueueStep(w), NEW r \in Readers
  PROVE  ReaderOK(r)'
<1>1. UNCHANGED <<headIndex, deq, found>> /\ deq \in [Readers -> DeqLocal] /\ ReaderOK(r)
      /\ TypeOK
  BY WriterKeeps DEF BlockInv, TypeOK
<1>2. CASE deq[r].at \notin Flying \cup {"unlink"} BY <1>1, <1>2 DEF ReaderOK, Flying
<1>3. CASE deq[r].at \in Flying \cup {"unlink"}
  <2>1. PICK v, x, g, a, i, f :
          /\ v = deq[r].of /\ x = Num(deq[r].index) /\ g = found[r].header
          /\ a = deq[r].at /\ i = deq[r].index /\ f = found[r]
    OBVIOUS
  <2>2. v \in Writers BY <1>3, <2>1 DEF OfWriters, Flying
  <2>3. RingInv(v) /\ Live(v) /\ headIndex[v] <= tailIndex[v]
    BY <2>2 DEF BlockInv, Served
  <2>4. x \in Nat /\ Home(v, x)
    <3>1. CASE a \in Flying BY <1>1, <2>1, <2>2, <2>3, <3>1, FlyingHome
    <3>2. CASE a = "unlink" BY <1>1, <2>1, <3>2, NumSlot DEF DeqLocal, ReaderOK
    <3> QED BY <1>3, <2>1, <3>1, <3>2
  <2>5. /\ Home(v, x)' /\ RingAt(v, x)' = RingAt(v, x)
        /\ EntryOf(v, x)'.value = EntryOf(v, x).value
        /\ elementsCompletelyDequeued'[EntryOf(v, x).value]
             = elementsCompletelyDequeued[EntryOf(v, x).value]
    BY <2>2, <2>4, HomeStays
  <2>6. /\ a \in Flying => i < headIndex[v]
        /\ a = "tail" => /\ g \in 1 .. Current(v)
                         /\ g = Current(v) \/ Leads(v, g, blockIndex[v][g].tail, x)
        /\ a = "key" => Leads(v, g, f.tail, x)
        /\ a \in {"value", "move", "empty", "unlink"} => f.entry = RingAt(v, x)
        /\ a \in {"move", "empty", "unlink"} => f.block = EntryOf(v, x).value
        /\ a = "unlink" => Home(v, x) /\ elementsCompletelyDequeued[f.block] = BLOCK_SIZE
    BY <1>1, <2>1 DEF ReaderOK
  <2>7. a = "tail" => /\ g \in 1 .. Current(v)'
                      /\ g = Current(v)' \/ Leads(v, g, blockIndex[v][g].tail, x)'
    BY <2>2, <2>4, <2>6, HeaderStays
  <2>8. PICK t : t = f.tail OBVIOUS
  <2>9. a = "key" => Leads(v, g, t, x)' BY <2>2, <2>4, <2>6, <2>8, LeadsStays
  <2>10. /\ a \in Flying => i < headIndex'[v]
         /\ a \in {"value", "move", "empty", "unlink"} => f.entry = RingAt(v, x)'
         /\ a \in {"move", "empty", "unlink"} => f.block = EntryOf(v, x)'.value
         /\ a = "unlink" => Home(v, x)' /\ elementsCompletelyDequeued'[f.block] = BLOCK_SIZE
    BY <1>1, <2>5, <2>6
  <2>11. /\ v = deq'[r].of /\ x = Num(deq'[r].index) /\ g = found'[r].header
         /\ a = deq'[r].at /\ i = deq'[r].index /\ f = found'[r] /\ t = found'[r].tail
    BY <1>1, <2>1, <2>8
  <2> QED BY <2>7, <2>9, <2>10, <2>11 DEF ReaderOK
<1> QED BY <1>2, <1>3

(* A block with elements to come stays in the ring.                        *)
LEMMA EnqueueLive ==
  ASSUME BlockInv, NEW w \in Writers, EnqueueStep(w), NEW v \in Writers
  PROVE  Live(v)'
<1>1. UNCHANGED <<headIndex, deq, found>> /\ TypeOK /\ Live(v) /\ RingInv(w) /\ StartsBlock(w)
  BY WriterKeeps DEF BlockInv, RingInv, Picked
<1>2. SUFFICES ASSUME NEW x \in Nat, x <= Written(v)', Unfinished(v, x)' PROVE Home(v, x)'
  BY DEF Live
<1>3. Unfinished(v, x) BY <1>1, <1>2, SameFlight DEF Unfinished
<1>4. CASE x <= Written(v) BY <1>1, <1>3, <1>4, HomeStays DEF Live
<1>5. CASE ~ (x <= Written(v))
  <2>1. v = w
    <3>1. ASSUME v # w PROVE FALSE BY <1>1, <1>2, <1>5, <3>1, WriterFrame, RingSame
    <3> QED BY <3>1
  <2>2. WriteValue(w) /\ Written(w)' = Top(w) /\ Written(w) = Top(w) - 1
        /\ Top(w) = Num(tailIndex[w])
    BY <1>1, <1>2, <1>5, <2>1, WriterMoves
  <2>3. x = Num(tailIndex[w])
    <3>1. Top(w) \in Int BY <1>1, ShapeFacts DEF RingInv
    <3> QED BY <1>2, <1>5, <2>1, <2>2, <3>1
  <2> QED BY <1>1, <2>1, <2>2, <2>3, EnqueueHome
<1> QED BY <1>4, <1>5

(* Nobody is on the way to an element that is not there yet.               *)
LEMMA NoFlight ==
  ASSUME BlockInv, Served, NEW w \in Writers, NEW x \in Nat, tailIndex[w] <= Key(x)
  PROVE  InFlight(w, x) = {} /\ Claimed(w, x) = 0
<1>1. /\ headIndex[w] \in Nat /\ tailIndex[w] \in Nat /\ headIndex[w] <= tailIndex[w]
      /\ Key(x) \in Int
  BY TailNum, KeyOrder DEF BlockInv, Served
<1>2. ASSUME NEW r \in InFlight(w, x) PROVE FALSE
  BY <1>1, <1>2, NumIs DEF InFlight, BlockInv, ReaderOK, TypeOK, DeqLocal
<1>3. headIndex[w] <= Key(x) BY <1>1
<1> QED BY <1>2, <1>3 DEF Claimed

(* The taken elements of every block are accounted for.                    *)
LEMMA EnqueueAccount ==
  ASSUME BlockInv, Served, NEW w \in Writers, EnqueueStep(w), NEW v \in Writers
  PROVE  Account(v)'
<1>1. UNCHANGED <<headIndex, deq, found>> /\ TypeOK /\ Account(v) /\ RingInv(w) /\ Picked(w)
  BY WriterKeeps DEF BlockInv, RingInv
<1>2. ASSUME NEW x \in Nat, Home(v, x)'
      PROVE  elementsCompletelyDequeued'[EntryOf(v, x)'.value] + Cardinality(InFlight(v, x)')
               = Claimed(v, x)'
  <2>1. Claimed(v, x)' = Claimed(v, x) /\ InFlight(v, x)' = InFlight(v, x)
    BY <1>1, SameFlight DEF Claimed
  <2>2. CASE Home(v, x) BY <1>1, <2>1, <2>2, HomeStays DEF Account
  <2>3. CASE ~ Home(v, x)
    <3>1. v = w
      <4>1. ASSUME v # w PROVE FALSE BY <1>1, <1>2, <2>3, <4>1, WriterFrame, RingSame
      <4> QED BY <4>1
    <3>2. WriteValue(w) /\ x = Num(tailIndex[w]) BY <1>1, <1>2, <2>3, <3>1, EnqueueHome
    <3>3. EntryOf(w, x)'.value = enq[w].block BY <1>1, <3>2, EnqueueHome
    <3>4. elementsCompletelyDequeued'[enq[w].block] = 0
      BY <1>1, <3>1, <3>2 DEF WriteValue, blockVars, Account
    <3>5. tailIndex[w] = Key(x)
      BY <1>1, <3>2, TailNum, NumBefore DEF Picked, StartsBlock, Entering, Moved,
         WriteValue
    <3>6. InFlight(w, x) = {} /\ Claimed(w, x) = 0 BY <1>1, <3>5, TailNum, NoFlight
    <3>7. Cardinality(InFlight(w, x)) = 0 BY <3>6, FS_EmptySet
    <3> QED BY <2>1, <3>1, <3>3, <3>4, <3>6, <3>7
  <2> QED BY <2>2, <2>3
<1>3. ASSUME enq'[v].at = "value" PROVE elementsCompletelyDequeued'[enq'[v].block] = 0
  <2>1. elementsCompletelyDequeued \in [Blocks -> 0 .. BLOCK_SIZE] /\ enq \in [Writers -> EnqLocal]
    BY <1>1 DEF TypeOK
  <2>2. CASE v = w
    BY <1>1, <1>3, <2>1, <2>2, WriterPlaces DEF EnqueueStep, Fill, EnqLocal, Picked
  <2>3. CASE v # w
    <3>1. enq'[v] = enq[v] BY <1>1, <2>3, WriterFrame
    <3>2. enq[v].block \in Blocks /\ enq[v].at \in WithBlock
      BY <1>3, <3>1 DEF BlockInv, RingInv, Picked, WithBlock
    <3>3. elementsCompletelyDequeued[enq[v].block] = 0 BY <1>1, <1>3, <3>1 DEF Account
    <3>4. CASE Fill(w) \/ FillThrows(w)
      <4>1. enq[w].at \in WithBlock
            /\ elementsCompletelyDequeued'
                 = [elementsCompletelyDequeued EXCEPT ![enq[w].block] = 0]
        BY <3>4 DEF Fill, FillThrows, WithBlock
      <4>2. enq[w].block # enq[v].block BY <2>3, <3>2, <4>1, HeldAlone DEF BlockInv
      <4> QED BY <2>1, <3>1, <3>2, <3>3, <4>1, <4>2
    <3>5. CASE ~ Fill(w) /\ ~ FillThrows(w) BY <3>1, <3>3, <3>5, WriterKeeps
    <3> QED BY <3>4, <3>5
  <2> QED BY <2>2, <2>3
<1> QED BY <1>2, <1>3 DEF Account

-------------------------------------------------------------------------------
(* The free list and the rings agree after a step of a stream.             *)

LEMMA UnlinkList ==
  ASSUME ListInv, TypeOK, NEW r \in Readers, Unlink(r), NEW w \in Writers, w = deq[r].of,
         NEW e \in 1 .. Len(entries[w]), e = found[r].entry,
         NEW b \in Blocks, b = found[r].block, b = entries[w][e].value
  PROVE  ListInv'
<1>1. PICK kind, who : Placement(kind, who) BY DEF ListInv, Placed
<1>2. ListTypeOK /\ Calling /\ (\A t \in Threads : ListLocal(t)) /\ r \in Threads
  BY ImplicitProducerAssumption DEF ListInv
<1>3. fl[r].at = "out" /\ fl[r].node = NoBlock BY <1>2 DEF Unlink, Calling, Outside
<1> DEFINE d == [Out EXCEPT !.at = "add", !.node = b]
<1>4. /\ d \in Local /\ d.at = "add" /\ d.node = b /\ d.then = "out"
      /\ fl' = [fl EXCEPT ![r] = d]
  BY AddLocal, Zenon DEF Unlink, CallAdd
<1> HIDE DEF d
<1>5. /\ \A c : Held(c)' = Held(c)
      /\ fl' \in [Threads -> Local]
      /\ fl'[r] = d /\ \A u \in Threads \ {r} : fl'[u] = fl[u]
  BY <1>2, <1>3, <1>4, CallHeld
<1>6. /\ UNCHANGED <<freeListHead, freeListNext, freeListRefs, enq, unused>>
      /\ entries' = [entries EXCEPT ![w][e].value = NoBlock]
      /\ deq' = [deq EXCEPT ![r].at = "free"]
  BY DEF Unlink, blockVars
<1>7. kind[b] = "entry" /\ who[b] = <<w, e>>
  <2>1. Used(kind, who) BY <1>1 DEF Placement
  <2>2. entries[w][e].value \in Blocks OBVIOUS
  <2>3. InEntry(kind, who, w, e) BY <2>1, <2>2, UsedEntry
  <2> QED BY <2>3, Zenon DEF InEntry
<1> DEFINE kind2 == [kind EXCEPT ![b] = "held"]
           who2 == [who EXCEPT ![b] = r]
<1>8. /\ kind2[b] = "held" /\ who2[b] = r
      /\ \A c \in Blocks \ {b} : kind2[c] = kind[c] /\ who2[c] = who[c]
  BY <1>1 DEF Placement
<1>9. Used(kind2, who2)'
  <2>1. unused \subseteq Blocks /\ \A c \in unused : kind2[c] = "unused"
    BY <1>1, <1>7, <1>8, Zenon DEF Placement, Used
  <2>2. ASSUME NEW v \in Writers, NEW i \in 1 .. Len(entries'[v]),
               entries'[v][i].value \in Blocks
        PROVE  LET c == entries'[v][i].value IN
               kind2[c] = "entry" /\ who2[c] = <<v, i>>
    <3>1. entries \in [Writers -> Seq(Entry)] BY DEF TypeOK
    <3>2. Len(entries'[v]) = Len(entries[v]) BY <1>6, <3>1
    <3>3. <<v, i>> # <<w, e>> /\ entries'[v][i].value = entries[v][i].value
      BY <1>6, <2>2, <3>1, <3>2, FreeListAssumption DEF Entry
    <3>4. /\ kind[entries[v][i].value] = "entry" /\ who[entries[v][i].value] = <<v, i>>
          /\ entries[v][i].value \in Blocks
      BY <1>1, <2>2, <3>2, <3>3 DEF Placement, Used
    <3> QED BY <1>7, <1>8, <3>3, <3>4, Zenon
  <2>3. ASSUME NEW v \in Writers, enq[v].at \in WithBlock, enq[v].block \in Blocks
        PROVE  kind2[enq[v].block] = "held" /\ who2[enq[v].block] = v
    <3>1. Used(kind, who) BY <1>1 DEF Placement
    <3>2. kind[enq[v].block] = "held" /\ who[enq[v].block] = v BY <2>3, <3>1 DEF Used
    <3> QED BY <1>7, <1>8, <2>3, <3>2, Zenon
  <2>4. enq' = enq /\ unused' = unused BY <1>6
  <2> HIDE DEF kind2, who2
  <2> QED BY <2>1, <2>2, <2>3, <2>4, Zenon DEF Used
<1>10. Owned(kind2, who2)'
  BY <1>1, <1>4, <1>5, <1>7, <1>8 DEF Placement, Owned, Owns, KindAt
<1>11. Placed'
  <2>1. r \in Owners BY ImplicitProducerAssumption DEF Owners
  <2> QED BY <1>1, <1>2, <1>5, <1>6, <1>7, <1>9, <1>10, <2>1, Passes, Zenon
<1>12. ListTypeOK' /\ \A t \in Threads : ListLocal(t)'
  BY <1>2, <1>4, <1>5, <1>6 DEF ListTypeOK, ListLocal
<1>13. Calling'
  <2>1. deq \in [Readers -> DeqLocal] BY DEF TypeOK
  <2>2. \A q \in Readers \ {r} : deq'[q] = deq[q] BY <1>6, <2>1
  <2>3. InAdd(r)' BY <1>4, <1>5 DEF InAdd, Adding
  <2>4. Readers \subseteq Threads /\ Writers \subseteq Threads /\ r \notin Writers
    BY ImplicitProducerAssumption
  <2>5. deq'[r].at = "free" BY <1>6, <2>1 DEF DeqLocal
  <2>6. \A u \in Threads \ {r} :
          Outside(u)' = Outside(u) /\ InAdd(u)' = InAdd(u) /\ InTryGet(u)' = InTryGet(u)
    BY <1>5 DEF Outside, InAdd, InTryGet
  <2> QED BY <1>2, <1>6, <2>2, <2>3, <2>4, <2>5, <2>6 DEF Calling
<1> QED BY <1>11, <1>12, <1>13 DEF ListInv

(* A writer goes on; the calls of the others are what they were.           *)
LEMMA WriterCalls ==
  ASSUME Calling, NEW w \in Writers, UNCHANGED deq,
         \A u \in Threads \ {w} : fl'[u] = fl[u],
         \A v \in Writers \ {w} : enq'[v] = enq[v],
         IF enq'[w].at = "give" THEN InAdd(w)'
         ELSE IF enq'[w].at = "get" THEN InTryGet(w)' ELSE Outside(w)',
         enq'[w].at \in {"idle", "grow", "key", "tail", "block", "get", "create"} =>
           enq'[w].block = NoBlock
  PROVE  Calling'
<1>1. \A u \in Threads \ {w} :
          Outside(u)' = Outside(u) /\ InAdd(u)' = InAdd(u) /\ InTryGet(u)' = InTryGet(u)
  BY DEF Outside, InAdd, InTryGet
<1>2. Readers \subseteq Threads /\ Writers \subseteq Threads /\ w \notin Readers
  BY ImplicitProducerAssumption
<1> QED BY <1>1, <1>2 DEF Calling

LEMMA EnqueueAside ==
  ASSUME ListInv, TypeOK, NEW w \in Writers, RingInv(w),
         \/ FindEntry(w) \/ NewBlockIndexFails(w) \/ WriteKey(w) \/ WriteTail(w)
         \/ CreateFails(w) \/ Fill(w) \/ FillThrows(w) \/ RewindTail(w) \/ GivenBack(w)
         \/ Construct(w) \/ Publish(w) \/ NewBlockIndex(w)
  PROVE  ListInv'
<1>1. /\ UNCHANGED <<listVars, unused, deq>>
  BY DEF FindEntry, NewBlockIndexFails, WriteKey, WriteTail, CreateFails, Fill,
     FillThrows, RewindTail, GivenBack, Construct, Publish, NewBlockIndex, blockVars,
     readVars
<1>2. enq \in [Writers -> EnqLocal] /\ enq[w] \in EnqLocal BY DEF TypeOK
<1>3. entries \in [Writers -> Seq(Entry)] BY DEF TypeOK
<1>4. \A v \in Writers \ {w} : enq'[v] = enq[v]
  BY <1>2 DEF FindEntry, NewBlockIndexFails, WriteKey, WriteTail, CreateFails, Fill,
     FillThrows, RewindTail, GivenBack, Construct, Publish, NewBlockIndex
<1>5. Calling /\ w \in Threads BY ImplicitProducerAssumption DEF ListInv
<1>6. Outside(w)
  <2>1. CASE GivenBack(w) BY <1>5, <2>1 DEF GivenBack, Returned, Calling, InAdd, Adding
  <2>2. CASE ~ GivenBack(w)
    BY <1>5, <2>2 DEF FindEntry, NewBlockIndexFails, WriteKey, WriteTail, CreateFails,
       Fill, FillThrows, RewindTail, Construct, Publish, NewBlockIndex, Calling
  <2> QED BY <2>1, <2>2
<1>7. /\ enq'[w].at \notin {"give", "get"}
      /\ enq'[w].at \in {"idle", "grow", "key", "tail", "block", "get", "create"} =>
           enq'[w].block = NoBlock
      /\ enq'[w].at \in WithBlock =>
           enq'[w].block = NoBlock \/ (enq[w].at \in WithBlock /\ enq'[w].block = enq[w].block)
  <2>1. CASE NewBlockIndexFails(w) \/ GivenBack(w) \/ Publish(w)
    BY <1>2, <2>1 DEF NewBlockIndexFails, GivenBack, Publish, EnqIdle, WithBlock
  <2>2. CASE FindEntry(w)
    BY <1>2, <1>5, <2>2 DEF FindEntry, Calling, EnqLocal, WithBlock
  <2>3. CASE WriteKey(w) \/ WriteTail(w) \/ CreateFails(w)
    BY <1>2, <1>5, <2>3 DEF WriteKey, WriteTail, CreateFails, Calling, EnqLocal,
       WithBlock
  <2>4. CASE Fill(w) \/ FillThrows(w) \/ RewindTail(w)
    BY <1>2, <1>5, <2>4 DEF Fill, FillThrows, RewindTail, Calling, EnqLocal, WithBlock
  <2>5. CASE Construct(w) \/ NewBlockIndex(w)
    BY <1>2, <1>5, <2>5 DEF Construct, NewBlockIndex, Calling, EnqLocal, WithBlock
  <2> QED BY <2>1, <2>2, <2>3, <2>4, <2>5
<1>8. Calling' BY <1>1, <1>4, <1>5, <1>6, <1>7, WriterCalls DEF listVars, Outside
<1>9. ASSUME NEW v \in Writers, NEW i \in 1 .. Len(entries'[v]),
             entries'[v][i].value \in Blocks
      PROVE  i \in 1 .. Len(entries[v]) /\ entries'[v][i].value = entries[v][i].value
  <2>1. EnqueueStep(w) /\ ~ ClearValue(w) /\ ~ WriteValue(w)
    BY WriterPlaces DEF EnqueueStep
  <2>2. CASE v = w
    BY <1>9, <2>1, <2>2, ImplicitProducerAssumption, EntryAfter DEF FreshEntry
  <2>3. CASE v # w BY <1>9, <2>1, <2>3, WriterFrame
  <2> QED BY <2>2, <2>3
<1>10. ASSUME NEW v \in Writers, enq'[v].at \in WithBlock, enq'[v].block \in Blocks
       PROVE  enq[v].at \in WithBlock /\ enq'[v].block = enq[v].block
  BY <1>4, <1>7, <1>10, FreeListAssumption
<1> QED BY <1>1, <1>8, <1>9, <1>10, Aside

(* The entries with a block in them, after the steps that bring none.      *)
LEMMA EntriesWithBlock ==
  ASSUME TypeOK, NEW w \in Writers, RingInv(w), EnqueueStep(w), NEW v \in Writers,
         NEW i \in 1 .. Len(entries'[v]), entries'[v][i].value \in Blocks
  PROVE  \/ i \in 1 .. Len(entries[v]) /\ entries'[v][i].value = entries[v][i].value
         \/ /\ WriteValue(w) /\ v = w /\ i = enq[w].entry /\ i \in 1 .. Len(entries[w])
            /\ entries'[v][i].value = enq[w].block
<1>1. FreshEntry.value \notin Blocks /\ NoBlock \notin Blocks
  BY FreeListAssumption, ImplicitProducerAssumption DEF FreshEntry
<1>2. CASE v = w BY <1>1, <1>2, EntryAfter
<1>3. CASE v # w BY <1>3, WriterFrame
<1> QED BY <1>2, <1>3

LEMMA TakeList ==
  ASSUME ListInv, TypeOK, NEW w \in Writers, RingInv(w), FromInitialPool(w) \/ Create(w)
  PROVE  ListInv'
<1>1. PICK kind, who : Placement(kind, who) BY DEF ListInv, Placed
<1>2. /\ ListTypeOK /\ Calling /\ (\A t \in Threads : ListLocal(t)) /\ w \in Threads
      /\ enq \in [Writers -> EnqLocal]
  BY ImplicitProducerAssumption DEF ListInv, TypeOK
<1>3. PICK b \in unused :
        /\ unused' = unused \ {b}
        /\ enq' = [enq EXCEPT ![w].at = "fill", ![w].block = b]
  BY DEF FromInitialPool, Create
<1>4. /\ UNCHANGED <<listVars, entries, deq>> /\ enq[w].at \in {"block", "create"}
      /\ EnqueueStep(w)
  BY DEF FromInitialPool, Create, indexVars, readVars, EnqueueStep
<1>5. /\ enq'[w].at = "fill" /\ enq'[w].block = b /\ \A v \in Writers \ {w} : enq'[v] = enq[v]
  BY <1>2, <1>3 DEF EnqLocal
<1>6. b \in Blocks /\ kind[b] = "unused" BY <1>1, <1>3 DEF Placement, Used
<1> DEFINE kind2 == [kind EXCEPT ![b] = "held"]
           who2 == [who EXCEPT ![b] = w]
<1>7. /\ kind2[b] = "held" /\ who2[b] = w
      /\ \A c \in Blocks \ {b} : kind2[c] = kind[c] /\ who2[c] = who[c]
  BY <1>1, <1>6 DEF Placement
<1>8. Used(kind2, who2)'
  <2>1. unused' \subseteq Blocks /\ \A c \in unused' : kind2[c] = "unused"
    BY <1>1, <1>3, <1>7 DEF Placement, Used
  <2>2. ASSUME NEW v \in Writers, NEW i \in 1 .. Len(entries'[v]),
               entries'[v][i].value \in Blocks
        PROVE  LET c == entries'[v][i].value IN
               kind2[c] = "entry" /\ who2[c] = <<v, i>>
    BY <1>1, <1>4, <1>6, <1>7, <2>2 DEF Placement, Used
  <2>3. ASSUME NEW v \in Writers, enq'[v].at \in WithBlock, enq'[v].block \in Blocks
        PROVE  kind2[enq'[v].block] = "held" /\ who2[enq'[v].block] = v
    BY <1>1, <1>5, <1>6, <1>7, <2>3 DEF Placement, Used
  <2> QED BY <2>1, <2>2, <2>3 DEF Used
<1>9. Owned(kind2, who2)'
  BY <1>1, <1>4, <1>6, <1>7 DEF Placement, Owned, Owns, KindAt, listVars
<1>10. Placed'
  <2>1. \A c \in Blocks : Held(c)' = Held(c) BY <1>4, SameHeld DEF listVars
  <2>2. UNCHANGED <<freeListHead, freeListNext, freeListRefs>> BY <1>4 DEF listVars
  <2>3. w \in Owners BY ImplicitProducerAssumption DEF Owners
  <2> QED BY <1>1, <1>2, <1>6, <1>8, <1>9, <2>1, <2>2, <2>3, Passes
<1>11. ListTypeOK' /\ \A t \in Threads : ListLocal(t)'
  BY <1>2, <1>4 DEF ListTypeOK, ListLocal, listVars
<1>12. Calling' BY <1>2, <1>4, <1>5, WriterCalls DEF Calling, Outside, listVars
<1> QED BY <1>10, <1>11, <1>12 DEF ListInv

LEMMA TryList ==
  ASSUME ListInv, TypeOK, NEW w \in Writers, RingInv(w), FromFreeList(w)
  PROVE  ListInv'
<1>1. PICK kind, who : Placement(kind, who) BY DEF ListInv, Placed
<1>2. /\ ListTypeOK /\ Calling /\ (\A t \in Threads : ListLocal(t)) /\ w \in Threads
      /\ enq \in [Writers -> EnqLocal]
  BY ImplicitProducerAssumption DEF ListInv, TypeOK
<1>3. fl[w].at = "out" /\ fl[w].node = NoBlock /\ enq[w].block = NoBlock
  BY <1>2 DEF FromFreeList, Calling, Outside
<1> DEFINE d == [Out EXCEPT !.at = "head"]
<1>4. d \in Local /\ d.at = "head" /\ d.node = NoBlock /\ fl' = [fl EXCEPT ![w] = d]
  BY DEF FromFreeList, CallTryGet, Out, Local, Places, Node
<1> HIDE DEF d
<1>5. /\ \A c : Held(c)' = Held(c)
      /\ fl' \in [Threads -> Local]
      /\ fl'[w] = d /\ \A u \in Threads \ {w} : fl'[u] = fl[u]
  BY <1>2, <1>3, <1>4, CallHeld
<1>6. /\ UNCHANGED <<freeListHead, freeListNext, freeListRefs, entries, unused, deq>>
      /\ enq' = [enq EXCEPT ![w].at = "get"]
  BY DEF FromFreeList, indexVars, blockVars, readVars
<1>7. /\ enq'[w].at = "get" /\ enq'[w].block = NoBlock
      /\ \A v \in Writers \ {w} : enq'[v] = enq[v]
  BY <1>2, <1>3, <1>6 DEF EnqLocal
<1>8. Used(kind, who)' BY <1>1, <1>6, <1>7 DEF WithBlock, Placement, Used
<1>9. Owned(kind, who)'
  <2>1. ~ Owns(fl'[w]) BY <1>4, <1>5 DEF Owns, Owning
  <2> QED BY <1>1, <1>5, <2>1 DEF Placement, Owned
<1>10. Placed'
  <2>1. UNCHANGED <<freeListHead, freeListNext, freeListRefs>> /\ \A c \in Blocks : Held(c)' = Held(c)
    BY <1>5, <1>6
  <2> QED BY <1>1, <1>2, <1>8, <1>9, <2>1, Keeps
<1>11. ListTypeOK' /\ \A t \in Threads : ListLocal(t)'
  BY <1>2, <1>4, <1>5, <1>6 DEF ListLocal, Owning, ListTypeOK
<1>12. Calling'
  <2>1. InTryGet(w)' BY <1>4, <1>5 DEF InTryGet, Adding
  <2> QED BY <1>2, <1>5, <1>6, <1>7, <2>1, WriterCalls
<1> QED BY <1>10, <1>11, <1>12 DEF ListInv

LEMMA GotList ==
  ASSUME ListInv, TypeOK, NEW w \in Writers, RingInv(w), Got(w)
  PROVE  ListInv'
<1>1. PICK kind, who : Placement(kind, who) BY DEF ListInv, Placed
<1>2. /\ ListTypeOK /\ Calling /\ (\A t \in Threads : ListLocal(t)) /\ w \in Threads
      /\ enq \in [Writers -> EnqLocal] /\ fl[w] \in Local
  BY ImplicitProducerAssumption DEF ListInv, TypeOK, ListTypeOK
<1>3. fl[w].at = "out" /\ enq[w].at = "get" /\ enq[w].block = NoBlock /\ fl[w].node \in Node
  BY <1>2 DEF Got, Returned, Calling, Local
<1>4. Out \in Local /\ Out.at = "out" /\ Out.node = NoBlock /\ fl' = [fl EXCEPT ![w] = Out]
  BY DEF Got, Out, Local, Places, Node
<1>5. /\ \A c : Held(c)' = Held(c)
      /\ fl' \in [Threads -> Local]
      /\ fl'[w] = Out /\ \A u \in Threads \ {w} : fl'[u] = fl[u]
  BY <1>2, <1>3, <1>4, CallHeld
<1>6. /\ UNCHANGED <<freeListHead, freeListNext, freeListRefs, entries, unused, deq>>
      /\ enq' = IF fl[w].node = NoBlock
              THEN [enq EXCEPT ![w].at = "create"]
              ELSE [enq EXCEPT ![w].at = "fill", ![w].block = fl[w].node]
  BY DEF Got, indexVars, blockVars, readVars
<1>7. /\ \/ enq'[w].at = "create" /\ enq'[w].block = NoBlock
         \/ enq'[w].at = "fill" /\ enq'[w].block = fl[w].node
      /\ \A v \in Writers \ {w} : enq'[v] = enq[v]
  BY <1>2, <1>3, <1>6 DEF EnqLocal
<1>8. Used(kind, who)'
  <2>1. ASSUME fl[w].node \in Blocks PROVE kind[fl[w].node] = "held" /\ who[fl[w].node] = w
    BY <1>1, <1>2, <1>3, <2>1 DEF Placement, Owned, Owns, Owning, KindAt
  <2>2. ASSUME NEW v \in Writers, enq'[v].at \in WithBlock, enq'[v].block \in Blocks
        PROVE  kind[enq'[v].block] = "held" /\ who[enq'[v].block] = v
    BY <1>1, <1>7, <2>1, <2>2 DEF WithBlock, Placement, Used
  <2>3. entries' = entries /\ unused' = unused BY <1>6
  <2> QED BY <1>1, <2>2, <2>3 DEF Placement, Used
<1>9. Owned(kind, who)'
  <2>1. ~ Owns(fl'[w]) BY <1>4, <1>5, FreeListAssumption DEF Owns
  <2> QED BY <1>1, <1>5, <2>1 DEF Placement, Owned
<1>10. Placed'
  <2>1. UNCHANGED <<freeListHead, freeListNext, freeListRefs>> /\ \A c \in Blocks : Held(c)' = Held(c)
    BY <1>5, <1>6
  <2> QED BY <1>1, <1>2, <1>8, <1>9, <2>1, Keeps
<1>11. ListTypeOK' /\ \A t \in Threads : ListLocal(t)'
  BY <1>2, <1>4, <1>5, <1>6 DEF ListLocal, Owning, ListTypeOK
<1>12. Calling' BY <1>2, <1>4, <1>5, <1>6, <1>7, WriterCalls DEF Outside
<1> QED BY <1>10, <1>11, <1>12 DEF ListInv

LEMMA GiveList ==
  ASSUME ListInv, TypeOK, NEW w \in Writers, RingInv(w), ClearValue(w)
  PROVE  ListInv'
<1>1. PICK kind, who : Placement(kind, who) BY DEF ListInv, Placed
<1>2. /\ ListTypeOK /\ Calling /\ (\A t \in Threads : ListLocal(t)) /\ w \in Threads
      /\ enq \in [Writers -> EnqLocal] /\ enq[w].block \in Node
  BY ImplicitProducerAssumption DEF ListInv, TypeOK, EnqLocal
<1>3. fl[w].at = "out" /\ fl[w].node = NoBlock /\ enq[w].at = "rewind"
  BY <1>2 DEF ClearValue, Calling, Outside
<1>4. /\ UNCHANGED <<freeListHead, freeListNext, freeListRefs, unused, deq>>
      /\ EnqueueStep(w) /\ ~ WriteValue(w)
  BY DEF ClearValue, blockVars, readVars, EnqueueStep, WriteValue
<1>5. PICK b : b = enq[w].block OBVIOUS
<1>6. PICK d \in Local :
        /\ fl' = [fl EXCEPT ![w] = d]
        /\ \/ b = NoBlock /\ d = fl[w] /\ enq' = [enq EXCEPT ![w] = EnqIdle]
           \/ /\ b \in Blocks /\ d.at = "add" /\ d.node = b /\ d.then = "out"
              /\ enq' = [enq EXCEPT ![w].at = "give"]
  <2>1. CASE b = NoBlock BY <1>2, <1>5, <2>1 DEF ClearValue, ListTypeOK
  <2>2. CASE b # NoBlock BY <1>2, <1>5, <2>2, AddLocal DEF Node, ClearValue, CallAdd
  <2> QED BY <2>1, <2>2
<1>7. /\ \A c : Held(c)' = Held(c)
      /\ fl' \in [Threads -> Local]
      /\ fl'[w] = d /\ \A u \in Threads \ {w} : fl'[u] = fl[u]
  BY <1>2, <1>3, <1>6, CallHeld
<1>8. /\ \/ enq'[w] = EnqIdle /\ d.at = "out" /\ d.node = NoBlock
         \/ /\ enq'[w].at = "give" /\ b \in Blocks /\ d.at = "add" /\ d.node = b
            /\ d.then = "out"
      /\ \A v \in Writers \ {w} : enq'[v] = enq[v]
  BY <1>2, <1>3, <1>6 DEF EnqLocal
<1>9. Used(kind, who)'
  <2>1. ASSUME NEW v \in Writers, NEW i \in 1 .. Len(entries'[v]),
               entries'[v][i].value \in Blocks
        PROVE  LET c == entries'[v][i].value IN
               kind[c] = "entry" /\ who[c] = <<v, i>>
    BY <1>1, <1>4, <2>1, EntriesWithBlock DEF Placement, Used
  <2>2. ASSUME NEW v \in Writers, enq'[v].at \in WithBlock, enq'[v].block \in Blocks
        PROVE  kind[enq'[v].block] = "held" /\ who[enq'[v].block] = v
    <3>1. v # w BY <1>8, <2>2 DEF WithBlock, EnqIdle
    <3> QED BY <1>1, <1>8, <2>2, <3>1 DEF Placement, Used
  <2> QED BY <1>1, <1>4, <2>1, <2>2 DEF Placement, Used
<1>10. Owned(kind, who)'
  <2>1. ASSUME Owns(fl'[w])
        PROVE  kind[fl'[w].node] = KindAt(fl'[w].at) /\ who[fl'[w].node] = w
    <3>1. b \in Blocks /\ d.at = "add" /\ d.node = b /\ fl'[w] = d
      BY <1>7, <1>8, <2>1, FreeListAssumption DEF Owns
    <3>2. kind[b] = "held" /\ who[b] = w
      BY <1>1, <1>3, <1>5, <3>1 DEF Placement, Used, WithBlock
    <3> QED BY <3>1, <3>2 DEF KindAt
  <2> QED BY <1>1, <1>7, <2>1 DEF Placement, Owned
<1>11. Placed'
  <2>1. UNCHANGED <<freeListHead, freeListNext, freeListRefs>> /\ \A c \in Blocks : Held(c)' = Held(c)
    BY <1>4, <1>7
  <2> QED BY <1>1, <1>2, <1>9, <1>10, <2>1, Keeps
<1>12. ListTypeOK' /\ \A t \in Threads : ListLocal(t)'
  BY <1>2, <1>4, <1>7, <1>8 DEF ListLocal, Owning, ListTypeOK
<1>13. Calling'
  <2>1. CASE enq'[w] = EnqIdle /\ d.at = "out" /\ d.node = NoBlock
    BY <1>2, <1>4, <1>7, <1>8, <2>1, WriterCalls DEF Outside, EnqIdle
  <2>2. CASE enq'[w].at = "give" /\ d.at = "add" /\ d.then = "out"
    <3>1. InAdd(w)' BY <1>7, <2>2 DEF InAdd, Adding
    <3> QED BY <1>2, <1>4, <1>7, <1>8, <2>2, <3>1, WriterCalls
  <2> QED BY <1>8, <2>1, <2>2
<1> QED BY <1>11, <1>12, <1>13 DEF ListInv

LEMMA PutList ==
  ASSUME ListInv, TypeOK, NEW w \in Writers, RingInv(w), WriteValue(w)
  PROVE  ListInv'
<1>1. PICK kind, who : Placement(kind, who) BY DEF ListInv, Placed
<1>2. /\ ListTypeOK /\ Calling /\ (\A t \in Threads : ListLocal(t)) /\ w \in Threads
      /\ enq \in [Writers -> EnqLocal]
  BY ImplicitProducerAssumption DEF ListInv, TypeOK
<1>3. /\ UNCHANGED <<listVars, unused, deq>>
      /\ EnqueueStep(w) /\ enq[w].at = "value" /\ enq'[w].at = "publish"
      /\ \A v \in Writers \ {w} : enq'[v] = enq[v]
  BY <1>2 DEF WriteValue, blockVars, readVars, EnqueueStep, EnqLocal
<1>4. PICK b, e : b = enq[w].block /\ e = enq[w].entry OBVIOUS
<1>5. b \in Blocks /\ kind[b] = "held" /\ who[b] = w
  BY <1>1, <1>3, <1>4 DEF RingInv, Picked, Placement, Used, WithBlock
<1>6. e \in Nat BY <1>2, <1>4 DEF EnqLocal
<1> DEFINE kind2 == [kind EXCEPT ![b] = "entry"]
           who2 == [who EXCEPT ![b] = <<w, e>>]
<1>7. /\ kind2[b] = "entry" /\ who2[b] = <<w, e>>
      /\ \A c \in Blocks \ {b} : kind2[c] = kind[c] /\ who2[c] = who[c]
  BY <1>1, <1>5 DEF Placement
<1>8. Used(kind2, who2)'
  <2>1. unused' \subseteq Blocks /\ \A c \in unused' : kind2[c] = "unused"
    BY <1>1, <1>3, <1>5, <1>7 DEF Placement, Used
  <2>2. ASSUME NEW v \in Writers, NEW i \in 1 .. Len(entries'[v]),
               entries'[v][i].value \in Blocks
        PROVE  LET c == entries'[v][i].value IN
               kind2[c] = "entry" /\ who2[c] = <<v, i>>
    <3>1. CASE i \in 1 .. Len(entries[v]) /\ entries'[v][i].value = entries[v][i].value
      BY <1>1, <1>5, <1>7, <2>2, <3>1 DEF Placement, Used
    <3>2. CASE v = w /\ i = enq[w].entry /\ entries'[v][i].value = enq[w].block
      BY <1>4, <1>7, <3>2
    <3> QED BY <1>3, <2>2, <3>1, <3>2, EntriesWithBlock
  <2>3. ASSUME NEW v \in Writers, enq'[v].at \in WithBlock, enq'[v].block \in Blocks
        PROVE  kind2[enq'[v].block] = "held" /\ who2[enq'[v].block] = v
    BY <1>1, <1>3, <1>5, <1>7, <2>3 DEF WithBlock, Placement, Used
  <2> QED BY <2>1, <2>2, <2>3 DEF Used
<1>9. fl[w].at = "out" /\ fl[w].node = NoBlock BY <1>2, <1>3 DEF Calling, Outside
<1>10. Owned(kind2, who2)'
  <2>1. ASSUME NEW u \in Threads, Owns(fl[u]) PROVE fl[u].node \in Blocks \ {b}
    <3>1. u # w BY <1>9, <2>1, FreeListAssumption DEF Owns
    <3> QED BY <1>1, <1>5, <2>1, <3>1 DEF Placement, Owned, Owns
  <2> QED BY <1>1, <1>3, <1>7, <2>1 DEF Placement, Owned, listVars
<1>11. Placed'
  <2>1. \A c \in Blocks : Held(c)' = Held(c) BY <1>3, SameHeld DEF listVars
  <2>2. UNCHANGED <<freeListHead, freeListNext, freeListRefs>> BY <1>3 DEF listVars
  <2>3. kind[b] \in {"unused", "held", "entry"} /\ <<w, e>> \in Owners
    BY <1>5, <1>6 DEF Owners
  <2> QED BY <1>1, <1>2, <1>5, <1>8, <1>10, <2>1, <2>2, <2>3, Passes
<1>12. ListTypeOK' /\ \A t \in Threads : ListLocal(t)'
  BY <1>2, <1>3 DEF ListTypeOK, ListLocal, listVars
<1>13. Calling' BY <1>2, <1>3, <1>9, WriterCalls DEF Outside, listVars
<1> QED BY <1>11, <1>12, <1>13 DEF ListInv

(* A step of a writer agrees with the free list.                           *)
LEMMA EnqueueList ==
  ASSUME ListInv, TypeOK, NEW w \in Writers, RingInv(w), EnqueueStep(w)
  PROVE  ListInv'
BY EnqueueAside, TakeList, TryList, GotList, GiveList, PutList DEF EnqueueStep

-------------------------------------------------------------------------------
(* Types after a step of a writer.                                         *)

(* Types of the sequences a writer changes.                                *)
LEMMA PickedIn ==
  ASSUME TypeOK, NEW w \in Writers, RingInv(w), enq[w].at \in Filling \cup {"key"}
  PROVE  enq[w].entry \in 1 .. Len(entries[w])
<1>1. Shape(w) /\ enq[w].entry = RingAt(w, Num(tailIndex[w])) BY DEF RingInv, Picked
<1> QED BY <1>1, TailNum, RingFacts

LEMMA EntriesType ==
  ASSUME TypeOK, NEW w \in Writers, RingInv(w), EnqueueStep(w)
  PROVE  entries' \in [Writers -> Seq(Entry)]
<1>1. /\ entries \in [Writers -> Seq(Entry)] /\ entries[w] \in Seq(Entry)
      /\ tailIndex[w] \in Nat /\ enq[w].block \in Node
  BY DEF TypeOK, EnqLocal
<1>2. ASSUME NEW e \in 1 .. Len(entries[w]), NEW d \in Entry,
             entries' = [entries EXCEPT ![w][e] = d]
      PROVE  entries' \in [Writers -> Seq(Entry)]
  BY <1>1, <1>2, ExceptSeq
<1>3. CASE WriteKey(w) \/ ClearValue(w) \/ WriteValue(w)
  <2>1. PICK e : e = enq[w].entry OBVIOUS
  <2>2. enq[w].at \in Filling \cup {"key"}
    BY <1>3 DEF WriteKey, ClearValue, WriteValue, Filling, Moved
  <2>3. e \in 1 .. Len(entries[w]) /\ entries[w][e] \in Entry
    BY <1>1, <2>1, <2>2, PickedIn
  <2>4. CASE WriteKey(w) BY <1>1, <1>2, <2>1, <2>3, <2>4 DEF Entry, WriteKey
  <2>5. CASE ClearValue(w) BY <1>1, <1>2, <2>1, <2>3, <2>5 DEF Entry, ClearValue
  <2>6. CASE WriteValue(w) BY <1>1, <1>2, <2>1, <2>3, <2>6 DEF Entry, Node, WriteValue
  <2> QED BY <1>3, <2>4, <2>5, <2>6
<1>4. CASE NewBlockIndex(w)
  <2>1. PICK n \in Nat : n = Len(entries[w]) BY <1>1
  <2>2. entries'[w] \in Seq(Entry) BY <1>4, <2>1, Grown DEF RingInv
  <2>3. PICK s : entries' = [entries EXCEPT ![w] = s] BY <1>4 DEF NewBlockIndex
  <2>4. s = entries'[w] BY <1>1, <2>3
  <2> QED BY <1>1, <2>2, <2>3, <2>4
<1> QED BY <1>1, <1>3, <1>4, WriterKeeps

LEMMA MovedType ==
  ASSUME TypeOK, NEW w \in Writers, Shape(w), NEW m \in Nat, MoveTail(w, m)
  PROVE  blockIndex' \in [Writers -> Seq(Header)]
<1>1. /\ blockIndex \in [Writers -> Seq(Header)] /\ blockIndex[w] \in Seq(Header)
      /\ Current(w) \in 1 .. Len(blockIndex[w])
      /\ Capacity(CurrentHeader(w)) \in Nat /\ Capacity(CurrentHeader(w)) > 0
  <2>1. /\ blockIndex \in [Writers -> Seq(Header)] /\ blockIndex[w] \in Seq(Header)
        /\ Current(w) \in 1 .. Len(blockIndex[w])
    BY ShapeFacts DEF TypeOK, Current
  <2>2. Capacity(CurrentHeader(w)) = Len(entries[w]) BY DEF Shape
  <2> QED BY <2>1, <2>2, ShapeFacts
<1>2a. PICK s \in Seq(Header), n \in Nat : \E c :
        /\ s = blockIndex[w] /\ c = Current(w) /\ n = Capacity(CurrentHeader(w))
        /\ c \in 1 .. Len(s)
  BY <1>1
<1>2. PICK c :
        /\ s = blockIndex[w] /\ c = Current(w) /\ n = Capacity(CurrentHeader(w))
        /\ c \in 1 .. Len(s)
  BY <1>2a
<1>3. n > 0 /\ s[c] \in Header /\ s[c].tail + m \in Nat
  <2>1. n > 0 /\ c \in 1 .. Len(s) BY <1>1, <1>2
  <2>2. s[c] \in Header BY <2>1
  <2> QED BY <2>1, <2>2 DEF Header
<1>4. (s[c].tail + m) % n \in Nat BY <1>3
<1>5. PICK d \in Header : d = [s[c] EXCEPT !.tail = (s[c].tail + m) % n]
  BY <1>3, <1>4 DEF Header
<1>6. [s EXCEPT ![c] = d] \in Seq(Header) BY <1>2, ExceptSeq
<1>7. blockIndex' = [blockIndex EXCEPT ![w] = [s EXCEPT ![c] = d]]
  BY <1>1, <1>2, <1>5 DEF MoveTail
<1> QED BY <1>1, <1>6, <1>7

LEMMA GrownType ==
  ASSUME TypeOK, NEW w \in Writers, Shape(w), NewBlockIndex(w)
  PROVE  blockIndex' \in [Writers -> Seq(Header)]
<1>1. /\ blockIndex \in [Writers -> Seq(Header)] /\ blockIndex[w] \in Seq(Header)
      /\ CurrentHeader(w).tail \in Nat /\ Current(w) \in 1 .. Current(w)
  <2>1. /\ CurrentHeader(w) \in Header /\ blockIndex[w] \in Seq(Header)
        /\ Current(w) \in Nat /\ Current(w) >= 1
    BY ShapeFacts
  <2>2. blockIndex \in [Writers -> Seq(Header)] BY DEF TypeOK
  <2> QED BY <2>1, <2>2 DEF Header
<1>2a. PICK n \in Nat, t \in Nat : \E h : n = Len(entries[w]) /\ h = CurrentHeader(w) /\ t = h.tail
  BY <1>1, ShapeFacts
<1>2. PICK h : n = Len(entries[w]) /\ h = CurrentHeader(w) /\ t = h.tail BY <1>2a
<1>3. /\ n > 0 /\ Capacity(h) = n /\ \A p \in 1 .. n : h.index[p] \in 1 .. n
  BY <1>1, <1>2, ShapeFacts DEF Shape, CurrentHeader
<1>4. \A p \in Int : At(h, p) \in Nat
  <2>1. SUFFICES ASSUME NEW p \in Int PROVE At(h, p) \in Nat OBVIOUS
  <2>2. At(h, p) = h.index[(p % n) + 1] /\ (p % n) + 1 \in 1 .. n BY <1>3, AtFacts
  <2>3. At(h, p) \in 1 .. n BY <1>3, <2>2
  <2> QED BY <2>3
<1>5. \A p \in 1 .. 2 * n : (IF p <= n THEN At(h, t + p) ELSE p) \in Nat
  <2>1. SUFFICES ASSUME NEW p \in 1 .. 2 * n
                 PROVE  (IF p <= n THEN At(h, t + p) ELSE p) \in Nat
    OBVIOUS
  <2>2. t + p \in Int /\ p \in Nat OBVIOUS
  <2> QED BY <1>4, <2>2
<1>6. PICK k : k = [p \in 1 .. 2 * n |-> IF p <= n THEN At(h, t + p) ELSE p] OBVIOUS
<1>7. k \in [1 .. 2 * n -> Nat] BY <1>5, <1>6
<1>8. k \in Seq(Nat)
  <2>1. 2 * n \in Nat OBVIOUS
  <2> QED BY <1>7, <2>1
<1>9. PICK d \in Header : d = [tail |-> n - 1, index |-> k]
  <2>1. n - 1 \in Nat BY <1>3
  <2>2. [tail |-> n - 1, index |-> k] \in Header BY <1>8, <2>1 DEF Header
  <2> QED BY <2>2
<1>10. Append(blockIndex[w], d) \in Seq(Header) BY <1>1
<1>11. blockIndex' = [blockIndex EXCEPT ![w] = Append(blockIndex[w], d)]
  BY <1>2, <1>3, <1>6, <1>9 DEF NewBlockIndex
<1> QED BY <1>1, <1>10, <1>11

(* A slot of a block is written.                                           *)
LEMMA WriteType ==
  ASSUME TypeOK, NEW b, NEW i \in Nat, NEW y \in Item \cup {NoItem}, Write(b, i, y)
  PROVE  element' \in [Blocks -> [0 .. BLOCK_SIZE - 1 -> Item \cup {NoItem}]]
<1>1. element \in [Blocks -> [0 .. BLOCK_SIZE - 1 -> Item \cup {NoItem}]] BY DEF TypeOK
<1>2. PICK s \in 0 .. BLOCK_SIZE - 1 : s = Slot(i) BY NumSlot
<1>3. element' = [element EXCEPT ![b][s] = y] BY <1>2 DEF Write
<1> QED BY <1>1, <1>2, <1>3

LEMMA EnqueueLocal ==
  ASSUME TypeOK, NEW w \in Writers, RingInv(w), EnqueueStep(w)
  PROVE  enq' \in [Writers -> EnqLocal]
<1>1. /\ enq \in [Writers -> EnqLocal] /\ enq[w] \in EnqLocal
      /\ Shape(w) /\ unused \subseteq Blocks
  BY DEF TypeOK, RingInv
<1>2. EnqIdle \in EnqLocal BY DEF EnqIdle, EnqLocal, Node
<1>3. CASE FindEntry(w)
  <2>1. PICK e : e = RingAt(w, Num(tailIndex[w])) OBVIOUS
  <2>2. e \in Nat BY <1>1, <1>3, <2>1, NextEntry, ShapeFacts
  <2>3. enq' = [enq EXCEPT ![w].at = "grow"]
        \/ enq' = [enq EXCEPT ![w].at = "key", ![w].entry = enq'[w].entry]
    BY <1>1, <1>3 DEF FindEntry, EnqLocal
  <2>4. enq'[w].at = "key" => enq'[w].entry = e BY <1>3, <2>1, NextEntry
  <2>5. CASE enq' = [enq EXCEPT ![w].at = "grow"] BY <1>1, <2>5 DEF EnqLocal
  <2>6. CASE enq' = [enq EXCEPT ![w].at = "key", ![w].entry = enq'[w].entry]
    BY <1>1, <2>2, <2>4, <2>6 DEF EnqLocal
  <2> QED BY <2>3, <2>5, <2>6
<1>4. CASE NewBlockIndex(w)
  <2>1. PICK n \in Nat : n = Capacity(CurrentHeader(w)) BY <1>1, ShapeFacts DEF Shape
  <2>2. enq' = [enq EXCEPT ![w].at = "key", ![w].entry = n + 1] /\ n + 1 \in Nat
    BY <1>4, <2>1 DEF NewBlockIndex
  <2> QED BY <1>1, <2>2 DEF EnqLocal
<1>5. CASE NewBlockIndexFails(w) \/ GivenBack(w) \/ Publish(w)
  BY <1>1, <1>2, <1>5 DEF NewBlockIndexFails, GivenBack, Publish
<1>6. CASE WriteKey(w) \/ WriteTail(w) \/ FromFreeList(w) \/ CreateFails(w)
  BY <1>1, <1>6 DEF WriteKey, WriteTail, FromFreeList, CreateFails, EnqLocal
<1>7. CASE Fill(w) \/ FillThrows(w) \/ RewindTail(w) \/ WriteValue(w) \/ Construct(w)
  BY <1>1, <1>7 DEF Fill, FillThrows, RewindTail, WriteValue, Construct, EnqLocal
<1>8. CASE FromInitialPool(w) \/ Create(w)
  BY <1>1, <1>8 DEF FromInitialPool, Create, EnqLocal, Node
<1>9. CASE Got(w)
  BY <1>1, <1>9, ImplicitProducerAssumption DEF TypeOK, ListTypeOK, Local, Got, EnqLocal
<1>10. CASE ClearValue(w) BY <1>1, <1>2, <1>10 DEF ClearValue, EnqLocal
<1> QED BY <1>3, <1>4, <1>5, <1>6, <1>7, <1>8, <1>9, <1>10 DEF EnqueueStep

(* Types after a step of a writer.                                         *)
LEMMA EnqueueType ==
  ASSUME BlockInv, NEW w \in Writers, EnqueueStep(w)
  PROVE  TypeOK'
<1>1. TypeOK /\ RingInv(w) /\ Shape(w) /\ ListInv BY DEF BlockInv, RingInv
<1>2. ListTypeOK' BY <1>1, EnqueueList DEF ListInv
<1>3. /\ tailIndex' \in [Writers -> Nat] /\ entries' \in [Writers -> Seq(Entry)]
      /\ enq' \in [Writers -> EnqLocal]
  BY <1>1, TailMoves, EntriesType, EnqueueLocal
<1>4. blockIndex' \in [Writers -> Seq(Header)]
  <2>1. Capacity(CurrentHeader(w)) \in Nat /\ Capacity(CurrentHeader(w)) > 0
    BY <1>1, ShapeFacts DEF Shape
  <2>2. CASE WriteTail(w) \/ RewindTail(w)
    <3>1. PICK m \in Nat : MoveTail(w, m) BY <2>1, <2>2 DEF WriteTail, RewindTail
    <3> QED BY <1>1, <3>1, MovedType
  <2>3. CASE UNCHANGED blockIndex BY <1>1, <2>3 DEF TypeOK
  <2> QED BY <1>1, <2>2, <2>3, GrownType, WriterKeeps
<1>5. tailBlock' \in [Writers -> Node]
  BY <1>1, WriterKeeps DEF TypeOK, EnqLocal, WriteValue
<1>6. element' \in [Blocks -> [0 .. BLOCK_SIZE - 1 -> Item \cup {NoItem}]]
  <2>1. CASE Fill(w) \/ Construct(w)
    <3>1. <<w, tailIndex[w]>> \in Item /\ tailIndex[w] \in Nat BY <1>1, TailNum DEF Item
    <3>2. PICK b : Write(b, tailIndex[w], <<w, tailIndex[w]>>)
      BY <2>1 DEF Fill, Construct
    <3>3. PICK i \in Nat, y \in Item : i = tailIndex[w] /\ y = <<w, tailIndex[w]>>
      BY <3>1
    <3>4. Write(b, i, y) BY <3>2, <3>3 DEF Write
    <3> QED BY <1>1, <3>4, WriteType
  <2>2. CASE UNCHANGED element BY <1>1, <2>2 DEF TypeOK
  <2> QED BY <2>1, <2>2, WriterKeeps
<1>7. elementsCompletelyDequeued' \in [Blocks -> 0 .. BLOCK_SIZE]
  <2>1. elementsCompletelyDequeued \in [Blocks -> 0 .. BLOCK_SIZE] /\ 0 \in 0 .. BLOCK_SIZE
    BY <1>1, BlockSize DEF TypeOK
  <2>2. CASE Fill(w) \/ FillThrows(w) BY <2>1, <2>2 DEF Fill, FillThrows
  <2> QED BY <2>1, <2>2, WriterKeeps
<1>8. /\ UNCHANGED <<headIndex, dequeueOptimisticCount, dequeueOvercommit, deq, found,
                     took, failed, span>>
      /\ unused' \subseteq unused
  BY DEF EnqueueStep, FindEntry, NewBlockIndex, NewBlockIndexFails, WriteKey, WriteTail,
     FromInitialPool, FromFreeList, Got, Create, CreateFails, Fill, FillThrows,
     RewindTail, ClearValue, GivenBack, WriteValue, Construct, Publish, countVars,
     blockVars, readVars, ghostVars
<1>9. calls' \in [Threads -> Nat] /\ faults' \in Nat
  <2>1. calls \in [Threads -> Nat] /\ faults \in Nat BY <1>1 DEF TypeOK
  <2>2. CASE UNCHANGED calls
    <3>1. UNCHANGED faults \/ Fault
      BY <2>2 DEF EnqueueStep, FindEntry, NewBlockIndex, NewBlockIndexFails, WriteKey,
         WriteTail, FromInitialPool, FromFreeList, Got, Create, CreateFails, Fill,
         FillThrows, RewindTail, ClearValue, GivenBack, WriteValue, Construct, Publish
    <3> QED BY <2>1, <2>2, <3>1 DEF Fault
  <2>3. CASE Begins(w) /\ UNCHANGED faults
    <3>1. w \in Threads BY ImplicitProducerAssumption
    <3> QED BY <2>1, <2>3, <3>1 DEF Begins
  <2> QED
    BY <2>2, <2>3 DEF EnqueueStep, FindEntry, NewBlockIndex, NewBlockIndexFails,
       WriteKey, WriteTail, FromInitialPool, FromFreeList, Got, Create, CreateFails,
       Fill, FillThrows, RewindTail, ClearValue, GivenBack, WriteValue, Construct,
       Publish
<1> QED BY <1>1, <1>2, <1>3, <1>4, <1>5, <1>6, <1>7, <1>8, <1>9 DEF TypeOK

(* Every step of a writer keeps the invariant.                             *)
LEMMA EnqueueInv ==
  ASSUME BlockInv, Served, OfWriters, NEW w \in Writers, EnqueueStep(w)
  PROVE  BlockInv'
<1>1. TypeOK /\ ListInv /\ Alone /\ RingInv(w) BY DEF BlockInv
<1>2. TypeOK' /\ ListInv' BY <1>1, EnqueueType, EnqueueList
<1>3. Alone' BY <1>1, WriterKeeps DEF Alone
<1>4. ASSUME NEW v \in Writers PROVE RingInv(v)'
  <2>1. CASE v = w BY <1>1, <2>1, RingStep
  <2>2. CASE v # w BY <1>1, <2>2, WriterFrame, RingSame DEF BlockInv
  <2> QED BY <2>1, <2>2
<1>5. ASSUME NEW v \in Writers PROVE Live(v)' /\ Account(v)'
  BY EnqueueLive, EnqueueAccount
<1>6. ASSUME NEW r \in Readers PROVE ReaderOK(r)' BY EnqueueReader
<1> QED BY <1>2, <1>3, <1>4, <1>5, <1>6 DEF BlockInv

LEMMA RingFrame ==
  ASSUME IndexSame, NEW w
  PROVE  /\ RingInv(w)' <=> RingInv(w)
         /\ Current(w)' = Current(w) /\ Written(w)' = Written(w)
         /\ \A x : /\ Home(w, x)' <=> Home(w, x)
                   /\ RingAt(w, x)' = RingAt(w, x) /\ EntryOf(w, x)' = EntryOf(w, x)
         /\ \A g, t, x : Leads(w, g, t, x)' <=> Leads(w, g, t, x)
<1>1. /\ tailIndex'[w] = tailIndex[w] /\ enq'[w] = enq[w]
      /\ blockIndex'[w] = blockIndex[w] /\ entries'[w] = entries[w]
  BY DEF IndexSame
<1>2. /\ RingInv(w)' <=> RingInv(w)
      /\ Current(w)' = Current(w) /\ Written(w)' = Written(w)
      /\ \A x : /\ Home(w, x)' <=> Home(w, x)
                /\ RingAt(w, x)' = RingAt(w, x) /\ EntryOf(w, x)' = EntryOf(w, x)
  BY <1>1, RingSame
<1>3. ASSUME NEW g, NEW t, NEW x PROVE Leads(w, g, t, x)' <=> Leads(w, g, t, x)
  BY <1>1, <1>2 DEF Leads
<1> QED BY <1>2, <1>3

(* A reader that stays where it is.                                        *)
LEMMA ReaderStays ==
  ASSUME IndexSame, NEW q \in Readers, ReaderOK(q), deq'[q] = deq[q], found'[q] = found[q],
         deq[q].at \in Flying => deq[q].index < headIndex'[deq[q].of],
         deq[q].at = "unlink" =>
           elementsCompletelyDequeued'[found[q].block]
             = elementsCompletelyDequeued[found[q].block]
  PROVE  ReaderOK(q)'
<1>1. PICK v, x, g, a, i, f, t :
        /\ v = deq[q].of /\ x = Num(deq[q].index) /\ g = found[q].header
        /\ a = deq[q].at /\ i = deq[q].index /\ f = found[q] /\ t = found[q].tail
  OBVIOUS
<1>2. PICK u : u = blockIndex[v][g].tail OBVIOUS
<1>3. /\ a \in Flying => i < headIndex'[v]
      /\ a = "tail" => g \in 1 .. Current(v) /\ (g = Current(v) \/ Leads(v, g, u, x))
      /\ a = "key" => Leads(v, g, t, x)
      /\ a \in {"value", "move", "empty", "unlink"} => f.entry = RingAt(v, x)
      /\ a \in {"move", "empty", "unlink"} => f.block = EntryOf(v, x).value
      /\ a = "unlink" => Home(v, x) /\ elementsCompletelyDequeued'[f.block] = BLOCK_SIZE
  BY <1>1, <1>2 DEF ReaderOK
<1>4. /\ Current(v)' = Current(v) /\ (Home(v, x)' <=> Home(v, x))
      /\ RingAt(v, x)' = RingAt(v, x) /\ EntryOf(v, x)' = EntryOf(v, x)
      /\ (Leads(v, g, t, x)' <=> Leads(v, g, t, x))
      /\ (Leads(v, g, u, x)' <=> Leads(v, g, u, x))
  BY RingFrame
<1>5. u = blockIndex'[v][g].tail BY <1>2 DEF IndexSame
<1>6. /\ v = deq'[q].of /\ x = Num(deq'[q].index) /\ g = found'[q].header
      /\ a = deq'[q].at /\ i = deq'[q].index /\ f = found'[q] /\ t = found'[q].tail
  BY <1>1
<1>7. /\ a \in Flying => i < headIndex'[v]
      /\ a = "tail" => g \in 1 .. Current(v)'
                       /\ (g = Current(v)' \/ Leads(v, g, u, x)')
      /\ a = "key" => Leads(v, g, t, x)'
      /\ a \in {"value", "move", "empty", "unlink"} => f.entry = RingAt(v, x)'
      /\ a \in {"move", "empty", "unlink"} => f.block = EntryOf(v, x)'.value
      /\ a = "unlink" => Home(v, x)' /\ elementsCompletelyDequeued'[f.block] = BLOCK_SIZE
  BY <1>3, <1>4
<1> QED BY <1>5, <1>6, <1>7 DEF ReaderOK

(* Nobody's place, no counter and no index moves.                          *)
LEMMA QuietInv ==
  ASSUME BlockInv, IndexSame, TypeOK', ListInv', Alone',
         UNCHANGED <<headIndex, elementsCompletelyDequeued>>,
         \A v, x : InFlight(v, x)' = InFlight(v, x),
         \A r \in Readers : ReaderOK(r)'
  PROVE  BlockInv'
<1>1. ASSUME NEW v \in Writers PROVE RingInv(v)' BY RingFrame DEF BlockInv
<1>2. ASSUME NEW v \in Writers PROVE Live(v)'
  <2>1. SUFFICES ASSUME NEW x \in Nat, x <= Written(v)', Unfinished(v, x)' PROVE Home(v, x)'
    BY DEF Live
  <2>2. x <= Written(v) /\ (Home(v, x)' <=> Home(v, x)) BY <2>1, RingFrame
  <2>3. Unfinished(v, x) BY <2>1 DEF Unfinished
  <2> QED BY <2>2, <2>3 DEF BlockInv, Live
<1>3. ASSUME NEW v \in Writers PROVE Account(v)'
  <2>1. ASSUME NEW x \in Nat, Home(v, x)'
        PROVE  elementsCompletelyDequeued'[EntryOf(v, x)'.value] + Cardinality(InFlight(v, x)')
                 = Claimed(v, x)'
    BY <2>1, RingFrame DEF Claimed, BlockInv, Account
  <2>2. enq'[v].at = "value" => elementsCompletelyDequeued'[enq'[v].block] = 0
    BY DEF BlockInv, Account, IndexSame
  <2> QED BY <2>1, <2>2 DEF Account
<1> QED BY <1>1, <1>2, <1>3 DEF BlockInv

LEMMA StillInv ==
  ASSUME BlockInv, IndexSame, ListInv',
         UNCHANGED <<countVars, indexVars, blockVars, enq, deq, found, calls, faults, ghostVars>>
  PROVE  BlockInv'
<1>1. TypeOK'
  BY DEF BlockInv, TypeOK, ListInv, countVars, indexVars, blockVars, ghostVars
<1>2. Alone' BY DEF BlockInv, Alone
<1>3. ASSUME NEW v, NEW x PROVE InFlight(v, x)' = InFlight(v, x) BY SameFlight
<1>4. ASSUME NEW r \in Readers PROVE ReaderOK(r)'
  BY ReaderStays DEF BlockInv, countVars, blockVars, ReaderOK
<1> QED BY <1>1, <1>2, <1>3, <1>4, QuietInv DEF countVars, blockVars

(* Every step inside the free list keeps the invariant.                    *)
LEMMA InListInv ==
  ASSUME BlockInv, NEW t \in Threads, InList(t)
  PROVE  BlockInv'
<1>1. IndexSame BY DEF InList, IndexSame, countVars, indexVars
<1>2. ListInv' BY ListStepInv DEF BlockInv, InList, indexVars, readVars, blockVars
<1> QED BY <1>1, <1>2, StillInv DEF InList, readVars

LEMMA StutterInv ==
  ASSUME BlockInv, UNCHANGED vars
  PROVE  BlockInv'
<1>1. IndexSame BY DEF vars, IndexSame, countVars, indexVars
<1>2. ListInv'
  BY Aside DEF BlockInv, ListInv, Calling, vars, listVars, Outside, InAdd, InTryGet,
     indexVars, blockVars
<1> QED BY <1>1, <1>2, StillInv DEF vars

-------------------------------------------------------------------------------
(* The steps of a dequeue: what they leave, and their types.               *)

(* What a dequeue leaves as it is.                                         *)
LEMMA ReaderFrame ==
  ASSUME TypeOK, NEW r \in Readers, DequeueStep(r)
  PROVE  /\ \A q \in Readers \ {r} : deq'[q] = deq[q] /\ found'[q] = found[q]
         /\ UNCHANGED <<tailIndex, enq, blockIndex, tailBlock, unused, faults>>
         /\ ~ Unlink(r) => IndexSame /\ UNCHANGED listVars
         /\ ~ Claim(r) => UNCHANGED headIndex
         /\ ~ SetEmpty(r) => UNCHANGED elementsCompletelyDequeued
         /\ ~ Move(r) => UNCHANGED element
         /\ Claim(r) \/ Unlink(r) => UNCHANGED found
<1>0. deq \in [Readers -> DeqLocal] /\ found \in [Readers -> FoundLocal] BY DEF TypeOK
<1>1. \A q \in Readers \ {r} : deq'[q] = deq[q]
  BY <1>0, Zenon DEF DequeueStep, DequeueStart, LoadOvercommit, LoadOptimisticCount,
     AddOptimisticCount, Recheck, AddOvercommit, Claim, LoadHeader, LoadTail, LoadKey,
     LoadValue, Move, SetEmpty, Unlink, Freed, Missed, Dequeued
<1>2. \A q \in Readers \ {r} : found'[q] = found[q]
  BY <1>0, Zenon DEF DequeueStep, DequeueStart, LoadOvercommit, LoadOptimisticCount,
     AddOptimisticCount, Recheck, AddOvercommit, Claim, LoadHeader, LoadTail, LoadKey,
     LoadValue, Move, SetEmpty, Unlink, Freed, Missed, Dequeued
<1>3. /\ UNCHANGED <<tailIndex, enq, blockIndex, tailBlock, unused, faults>>
      /\ ~ Unlink(r) => UNCHANGED entries /\ UNCHANGED listVars
  BY Zenon DEF DequeueStep, DequeueStart, LoadOvercommit, LoadOptimisticCount,
     AddOptimisticCount, Recheck, AddOvercommit, Claim, LoadHeader, LoadTail, LoadKey,
     LoadValue, Move, SetEmpty, Unlink, Freed, countVars, indexVars, blockVars
<1>4. /\ ~ Claim(r) => UNCHANGED headIndex
      /\ ~ SetEmpty(r) => UNCHANGED elementsCompletelyDequeued
      /\ ~ Move(r) => UNCHANGED element
      /\ Claim(r) \/ Unlink(r) => UNCHANGED found
  BY Zenon DEF DequeueStep, DequeueStart, LoadOvercommit, LoadOptimisticCount,
     AddOptimisticCount, Recheck, AddOvercommit, Claim, LoadHeader, LoadTail, LoadKey,
     LoadValue, Move, SetEmpty, Unlink, Freed, countVars, indexVars, blockVars
<1> QED BY <1>1, <1>2, <1>3, <1>4 DEF IndexSame

LEMMA LooksPlaces ==
  ASSUME TypeOK, OfWriters, NEW r \in Readers, Looks(r)
  PROVE  /\ deq[r].at \notin Flying \cup {"unlink"} /\ deq'[r].at \notin Flying \cup {"unlink"}
         /\ deq' \in [Readers -> DeqLocal] /\ found' \in [Readers -> FoundLocal]
<1>0. /\ deq \in [Readers -> DeqLocal] /\ deq[r] \in DeqLocal /\ found \in [Readers -> FoundLocal]
      /\ tailIndex \in [Writers -> Nat] /\ dequeueOvercommit \in [Writers -> Nat]
      /\ dequeueOptimisticCount \in [Writers -> Nat]
  BY DEF TypeOK
<1>1. DeqIdle \in DeqLocal /\ DeqIdle.at \notin Flying \cup {"unlink"} /\ NotFound \in FoundLocal
  BY DEF DeqIdle, DeqLocal, Flying, NotFound, FoundLocal, Node
<1>2. /\ deq[r].at \notin Flying \cup {"unlink"}
      /\ UNCHANGED found \/ found' = [found EXCEPT ![r] = NotFound]
  BY DEF Looks, DequeueStart, LoadOvercommit, LoadOptimisticCount, AddOptimisticCount,
     Recheck, AddOvercommit, Freed, Flying, Dequeued
<1>3. ASSUME NEW w \in Writers, DequeueStart(r, w)
      PROVE  deq'[r].at \notin Flying \cup {"unlink"} /\ deq' \in [Readers -> DeqLocal]
  BY <1>0, <1>3 DEF DequeueStart, DeqLocal, Flying
<1>4. CASE deq' = [deq EXCEPT ![r] = DeqIdle] BY <1>0, <1>1, <1>2, <1>4
<1>5. ASSUME deq' # [deq EXCEPT ![r] = DeqIdle], ~ \E w \in Writers : DequeueStart(r, w)
      PROVE  deq'[r].at \notin Flying \cup {"unlink"} /\ deq' \in [Readers -> DeqLocal]
  <2>1. CASE LoadOvercommit(r)
    BY <1>0, <2>1 DEF OfWriters, LoadOvercommit, DeqLocal, Flying
  <2>2. CASE AddOptimisticCount(r)
    BY <1>0, <2>2 DEF OfWriters, AddOptimisticCount, DeqLocal, Flying
  <2>3. CASE LoadOptimisticCount(r)
    BY <1>0, <1>5, <2>3 DEF LoadOptimisticCount, Missed, DeqLocal, Flying
  <2>4. CASE Recheck(r) BY <1>0, <2>4 DEF OfWriters, Recheck, DeqLocal, Flying
  <2>5. ~ AddOvercommit(r) /\ ~ Freed(r)
    BY <1>5 DEF AddOvercommit, Freed, Missed, Dequeued
  <2> QED BY <1>5, <2>1, <2>2, <2>3, <2>4, <2>5 DEF Looks
<1> QED BY <1>1, <1>0, <1>2, <1>3, <1>4, <1>5

LEMMA DequeueCounts ==
  ASSUME TypeOK, Served, OfWriters, NEW r \in Readers, DequeueStep(r)
  PROVE  /\ calls' \in [Threads -> Nat]
         /\ headIndex' \in [Writers -> Nat]
         /\ dequeueOptimisticCount' \in [Writers -> Nat]
         /\ dequeueOvercommit' \in [Writers -> Nat]
         /\ took' \in [Writers -> SUBSET Nat] /\ failed' \in [Writers -> SUBSET Nat]
         /\ span' \in [Readers -> [there : Nat, overlap : Nat]]
<1>0. /\ deq \in [Readers -> DeqLocal] /\ deq[r] \in DeqLocal /\ deq[r].my \in Nat
      /\ tailIndex \in [Writers -> Nat] /\ headIndex \in [Writers -> Nat]
      /\ dequeueOvercommit \in [Writers -> Nat] /\ dequeueOptimisticCount \in [Writers -> Nat]
      /\ took \in [Writers -> SUBSET Nat] /\ failed \in [Writers -> SUBSET Nat]
      /\ span \in [Readers -> [there : Nat, overlap : Nat]]
      /\ calls \in [Threads -> Nat] /\ r \in Threads
  BY ImplicitProducerAssumption DEF TypeOK, DeqLocal
<1>1. calls' \in [Threads -> Nat]
  <2>1. UNCHANGED calls \/ Begins(r)
    BY Zenon DEF DequeueStep, DequeueStart, LoadOvercommit, LoadOptimisticCount,
       AddOptimisticCount, Recheck, AddOvercommit, Claim, LoadHeader, LoadTail, LoadKey,
       LoadValue, Move, SetEmpty, Unlink, Freed
  <2> QED BY <1>0, <2>1 DEF Begins
<1>2. headIndex' \in [Writers -> Nat]
  <2>1. CASE Claim(r) BY <1>0, <2>1 DEF OfWriters, Claim
  <2> QED BY <1>0, <2>1, ReaderFrame
<1>3. dequeueOptimisticCount' \in [Writers -> Nat]
  <2>1. CASE AddOptimisticCount(r) BY <1>0, <2>1 DEF OfWriters, AddOptimisticCount
  <2>2. CASE ~ AddOptimisticCount(r)
    BY <1>0, <2>2, Zenon DEF DequeueStep, DequeueStart, LoadOvercommit,
       LoadOptimisticCount, Recheck, AddOvercommit, Claim, LoadHeader, LoadTail,
       LoadKey, LoadValue, Move, SetEmpty, Unlink, Freed, countVars
  <2> QED BY <2>1, <2>2
<1>4. dequeueOvercommit' \in [Writers -> Nat]
  <2>1. CASE AddOvercommit(r) BY <1>0, <2>1 DEF OfWriters, AddOvercommit
  <2>2. CASE ~ AddOvercommit(r)
    BY <1>0, <2>2, Zenon DEF DequeueStep, DequeueStart, LoadOvercommit,
       LoadOptimisticCount, AddOptimisticCount, Recheck, Claim, LoadHeader, LoadTail,
       LoadKey, LoadValue, Move, SetEmpty, Unlink, Freed, countVars
  <2> QED BY <2>1, <2>2
<1>5. took' \in [Writers -> SUBSET Nat] /\ failed' \in [Writers -> SUBSET Nat]
  <2>1. CASE Recheck(r) BY <1>0, <2>1 DEF Recheck
  <2>2. CASE ~ Recheck(r)
    BY <1>0, <2>2, Zenon DEF DequeueStep, DequeueStart, LoadOvercommit,
       LoadOptimisticCount, AddOptimisticCount, AddOvercommit, Claim, LoadHeader,
       LoadTail, LoadKey, LoadValue, Move, SetEmpty, Unlink, Freed, ghostVars
  <2> QED BY <2>1, <2>2
<1>6. span' \in [Readers -> [there : Nat, overlap : Nat]]
  <2>1. ASSUME NEW w \in Writers, DequeueStart(r, w)
        PROVE  span' \in [Readers -> [there : Nat, overlap : Nat]]
    <3>1. tailIndex[w] - headIndex[w] \in Nat BY <1>0 DEF Served
    <3>2. Cardinality(OthersLooking(r, w)) \in Nat
      BY ImplicitProducerAssumption, FS_Subset, FS_CardinalityType DEF OthersLooking
    <3>3. PICK a \in Nat, c \in Nat :
            /\ a = tailIndex[w] - headIndex[w] /\ c = Cardinality(OthersLooking(r, w))
            /\ span' = [q \in Readers |->
                 IF q = r THEN [there |-> a, overlap |-> c]
                 ELSE IF Looking(q, w) THEN [span[q] EXCEPT !.overlap = @ + 1] ELSE span[q]]
      BY <2>1, <3>1, <3>2 DEF DequeueStart
    <3>4. ASSUME NEW q \in Readers
          PROVE  (IF q = r THEN [there |-> a, overlap |-> c]
                  ELSE IF Looking(q, w) THEN [span[q] EXCEPT !.overlap = @ + 1] ELSE span[q])
                   \in [there : Nat, overlap : Nat]
      BY <1>0
    <3> QED BY <3>3, <3>4
  <2>2. CASE UNCHANGED span BY <1>0, <2>2
  <2>3. CASE span' = [span EXCEPT ![r] = NoSpan] BY <1>0, <2>3 DEF NoSpan
  <2>4. \/ \E w \in Writers : DequeueStart(r, w)
        \/ UNCHANGED span \/ span' = [span EXCEPT ![r] = NoSpan]
    BY Zenon DEF DequeueStep, LoadOvercommit, LoadOptimisticCount, AddOptimisticCount,
       Recheck, AddOvercommit, Claim, LoadHeader, LoadTail, LoadKey, LoadValue, Move,
       SetEmpty, Unlink, Freed, Missed, ghostVars
  <2> QED BY <2>1, <2>2, <2>3, <2>4
<1> QED BY <1>1, <1>2, <1>3, <1>4, <1>5, <1>6

(* What is left of the type of the state after a step of a reader.         *)
LEMMA DequeueTyped ==
  ASSUME TypeOK, ListInv', Served, OfWriters, NEW r \in Readers, DequeueStep(r),
         deq' \in [Readers -> DeqLocal], found' \in [Readers -> FoundLocal],
         entries' \in [Writers -> Seq(Entry)],
         element' \in [Blocks -> [0 .. BLOCK_SIZE - 1 -> Item \cup {NoItem}]],
         elementsCompletelyDequeued' \in [Blocks -> 0 .. BLOCK_SIZE]
  PROVE  TypeOK'
<1>1. UNCHANGED <<tailIndex, enq, blockIndex, tailBlock, unused, faults>> BY ReaderFrame
<1>2. ListTypeOK' BY DEF ListInv
<1>3. /\ tailIndex' \in [Writers -> Nat] /\ tailBlock' \in [Writers -> Node]
      /\ blockIndex' \in [Writers -> Seq(Header)] /\ unused' \subseteq Blocks
      /\ enq' \in [Writers -> EnqLocal] /\ faults' \in Nat
  BY <1>1 DEF TypeOK
<1> QED BY <1>2, <1>3, DequeueCounts DEF TypeOK

(* Where the others are counts the same wherever one reader goes that is   *)
(* not on the way to an element before and after.                          *)
LEMMA FlightAside ==
  ASSUME NEW r \in Readers, \A q \in Readers \ {r} : deq'[q] = deq[q],
         \/ deq[r].at \notin Flying /\ deq'[r].at \notin Flying
         \/ /\ deq[r].at \in Flying /\ deq'[r].at \in Flying
            /\ deq'[r].of = deq[r].of /\ deq'[r].index = deq[r].index
  PROVE  \A v, x : InFlight(v, x)' = InFlight(v, x)
<1>1. ASSUME NEW v, NEW x, NEW q \in Readers
      PROVE  q \in InFlight(v, x)' <=> q \in InFlight(v, x)
  BY DEF InFlight
<1>2. \A v, x : InFlight(v, x) \subseteq Readers /\ InFlight(v, x)' \subseteq Readers
  BY DEF InFlight
<1> QED BY <1>1, <1>2

(* Up to the claim a dequeue changes nothing of blocks and rings.          *)
LEMMA LooksInv ==
  ASSUME BlockInv, Served, OfWriters, NEW r \in Readers, Looks(r)
  PROVE  BlockInv'
<1>1. DequeueStep(r) /\ ~ Unlink(r) /\ ~ Claim(r) /\ ~ SetEmpty(r) /\ ~ Move(r)
  BY Zenon DEF Looks, DequeueStep, Unlink, Claim, SetEmpty, Move, DequeueStart,
     LoadOvercommit, LoadOptimisticCount, AddOptimisticCount, Recheck, AddOvercommit,
     Freed
<1>2. TypeOK /\ ListInv /\ Alone BY DEF BlockInv
<1>3. /\ deq[r].at \notin Flying \cup {"unlink"} /\ deq'[r].at \notin Flying \cup {"unlink"}
      /\ deq' \in [Readers -> DeqLocal] /\ found' \in [Readers -> FoundLocal]
  BY <1>2, LooksPlaces
<1>4. /\ IndexSame /\ UNCHANGED <<headIndex, elementsCompletelyDequeued, element>>
      /\ \A q \in Readers \ {r} : deq'[q] = deq[q] /\ found'[q] = found[q]
  BY <1>1, <1>2, ReaderFrame
<1>5. ListInv' BY <1>1, <1>2, DequeueAside
<1>6. TypeOK' BY <1>1, <1>2, <1>3, <1>4, <1>5, DequeueTyped DEF TypeOK, IndexSame
<1>7. \A v, x : InFlight(v, x)' = InFlight(v, x) BY <1>3, <1>4, FlightAside
<1>8. ASSUME NEW q \in Readers PROVE ReaderOK(q)'
  <2>1. CASE q = r BY <1>3, <2>1 DEF ReaderOK, Flying
  <2>2. CASE q # r BY <1>4, <2>2, ReaderStays DEF BlockInv, ReaderOK
  <2> QED BY <2>1, <2>2
<1>9. Alone' BY <1>2, <1>3, <1>4 DEF Alone
<1> QED BY <1>4, <1>5, <1>6, <1>7, <1>8, <1>9, QuietInv

-------------------------------------------------------------------------------
(* The lookup.                                                             *)

(* A reader that has an index: the block of the index is in the ring.      *)
LEMMA ReaderAt ==
  ASSUME BlockInv, Served, OfWriters, NEW r \in Readers, deq[r].at \in Flying \cup {"unlink"},
         NEW v, v = deq[r].of, NEW x, x = Num(deq[r].index)
  PROVE  /\ v \in Writers /\ x \in Nat /\ Home(v, x) /\ RingInv(v) /\ Shape(v)
         /\ EntryOf(v, x).key = Key(x) /\ EntryOf(v, x).value \in Blocks
         /\ RingAt(v, x) \in 1 .. Len(entries[v])
         /\ Key(x) = BlockBase(deq[r].index)
         /\ deq[r].at \in Flying => r \in InFlight(v, x)
<1>1. v \in Writers BY DEF OfWriters, Flying
<1>2. /\ TypeOK /\ RingInv(v) /\ Shape(v) /\ Live(v) /\ ReaderOK(r)
      /\ headIndex[v] <= tailIndex[v]
  BY <1>1 DEF BlockInv, Served, RingInv
<1>3. deq[r].index \in Nat /\ deq[r].index \in Int BY <1>2 DEF TypeOK, DeqLocal
<1>4. x \in Nat /\ x \in Int /\ Key(x) = BlockBase(deq[r].index) BY <1>3, NumSlot
<1>5. Home(v, x) /\ (deq[r].at \in Flying => r \in InFlight(v, x))
  BY <1>1, <1>2, FlyingHome DEF ReaderOK, Flying
<1>6. RingAt(v, x) \in 1 .. Len(entries[v]) BY <1>1, <1>2, <1>4, RingFacts
<1>7. EntryOf(v, x).key = Key(x) /\ EntryOf(v, x).value \in Blocks
  <2>1. x \in x .. Top(v) BY <1>1, <1>2, <1>4, <1>5, ShapeFacts DEF Home
  <2> QED BY <1>5, <2>1 DEF Home
<1> QED BY <1>1, <1>2, <1>4, <1>5, <1>6, <1>7

LEMMA LooksUpPlaces ==
  ASSUME TypeOK, NEW r \in Readers, LooksUp(r)
  PROVE  /\ deq' \in [Readers -> DeqLocal]
         /\ deq[r].at \in Flying /\ deq'[r].at \in Flying
         /\ deq'[r].of = deq[r].of /\ deq'[r].index = deq[r].index
         /\ LoadHeader(r) => deq[r].at = "header" /\ deq'[r].at = "tail"
         /\ LoadTail(r) => deq[r].at = "tail" /\ deq'[r].at = "key"
         /\ LoadKey(r) => deq[r].at = "key" /\ deq'[r].at = "value"
         /\ LoadValue(r) => deq[r].at = "value" /\ deq'[r].at = "move"
         /\ Move(r) => deq[r].at = "move" /\ deq'[r].at = "empty"
<1>0. deq \in [Readers -> DeqLocal] BY DEF TypeOK
<1>1. CASE LoadHeader(r)
  BY <1>0, <1>1 DEF LoadHeader, LoadTail, LoadKey, LoadValue, Move, DeqLocal, Flying
<1>2. CASE LoadTail(r)
  BY <1>0, <1>2 DEF LoadTail, LoadHeader, LoadKey, LoadValue, Move, DeqLocal, Flying
<1>3. CASE LoadKey(r)
  BY <1>0, <1>3 DEF LoadKey, LoadHeader, LoadTail, LoadValue, Move, DeqLocal, Flying
<1>4. CASE LoadValue(r)
  BY <1>0, <1>4 DEF LoadValue, LoadHeader, LoadTail, LoadKey, Move, DeqLocal, Flying
<1>5. CASE Move(r)
  BY <1>0, <1>5 DEF Move, LoadHeader, LoadTail, LoadKey, LoadValue, DeqLocal, Flying
<1> QED BY <1>1, <1>2, <1>3, <1>4, <1>5 DEF LooksUp

LEMMA LooksUpInv ==
  ASSUME BlockInv, Served, OfWriters, NEW r \in Readers, LooksUp(r),
         found' \in [Readers -> FoundLocal],
         element' \in [Blocks -> [0 .. BLOCK_SIZE - 1 -> Item \cup {NoItem}]],
         ReaderOK(r)'
  PROVE  BlockInv'
<1>1. DequeueStep(r) /\ ~ Unlink(r) /\ ~ Claim(r) /\ ~ SetEmpty(r)
  BY Zenon DEF LooksUp, DequeueStep, Unlink, Claim, SetEmpty, LoadHeader, LoadTail,
     LoadKey, LoadValue, Move
<1>2. TypeOK /\ ListInv /\ Alone BY DEF BlockInv
<1>3. /\ deq' \in [Readers -> DeqLocal]
      /\ deq[r].at \in Flying /\ deq'[r].at \in Flying
      /\ deq'[r].of = deq[r].of /\ deq'[r].index = deq[r].index
  BY <1>2, LooksUpPlaces
<1>4. /\ IndexSame /\ UNCHANGED <<headIndex, elementsCompletelyDequeued>>
      /\ \A q \in Readers \ {r} : deq'[q] = deq[q] /\ found'[q] = found[q]
  BY <1>1, <1>2, ReaderFrame
<1>5. ListInv' BY <1>1, <1>2, DequeueAside
<1>6. TypeOK' BY <1>1, <1>2, <1>3, <1>4, <1>5, DequeueTyped DEF TypeOK, IndexSame
<1>7. \A v, x : InFlight(v, x)' = InFlight(v, x) BY <1>3, <1>4, FlightAside
<1>8. ASSUME NEW q \in Readers PROVE ReaderOK(q)'
  <2>1. CASE q # r BY <1>4, <2>1, ReaderStays DEF BlockInv, ReaderOK
  <2> QED BY <2>1
<1>9. Alone'
  <2>1. deq'[r].at # "unlink" BY <1>3 DEF Flying
  <2> QED BY <1>2, <1>4, <2>1 DEF Alone
<1> QED BY <1>4, <1>5, <1>6, <1>7, <1>8, <1>9, QuietInv

(* Each step of the lookup finds what it should.                           *)
LEMMA LoadHeaderInv ==
  ASSUME BlockInv, Served, OfWriters, NEW r \in Readers, LoadHeader(r)
  PROVE  BlockInv'
<1>1. PICK v, x, i, g : v = deq[r].of /\ i = deq[r].index /\ x = Num(i) /\ g = Current(v)
  OBVIOUS
<1>2. TypeOK /\ LooksUp(r) /\ deq[r].at = "header" /\ ReaderOK(r) /\ DequeueStep(r)
      /\ ~ Unlink(r) /\ ~ Claim(r)
  BY DEF BlockInv, LooksUp, LoadHeader, DequeueStep, Unlink, Claim
<1>3. v \in Writers /\ Shape(v) BY <1>1, <1>2, ReaderAt DEF Flying
<1>4. g \in Nat /\ g \in 1 .. g BY <1>1, <1>2, <1>3, ShapeFacts
<1>5. /\ deq'[r].at = "tail" /\ deq'[r].of = v /\ deq'[r].index = i
      /\ UNCHANGED <<headIndex, element>>
  BY <1>1, <1>2, LooksUpPlaces DEF LoadHeader, countVars, blockVars
<1>6. found' = [found EXCEPT ![r].header = g] /\ found \in [Readers -> FoundLocal]
  BY <1>1, <1>2 DEF LoadHeader, TypeOK
<1>7. found' \in [Readers -> FoundLocal] /\ found'[r].header = g
  BY <1>4, <1>6 DEF FoundLocal
<1>8. g = Current(v)' /\ g \in 1 .. Current(v)'
  <2>1. IndexSame BY <1>2, ReaderFrame
  <2> QED BY <1>1, <1>4, <2>1, RingFrame
<1>9. i < headIndex'[v] BY <1>1, <1>2, <1>5 DEF ReaderOK, Flying
<1>10. ReaderOK(r)' BY <1>5, <1>7, <1>8, <1>9 DEF ReaderOK
<1>11. element' \in [Blocks -> [0 .. BLOCK_SIZE - 1 -> Item \cup {NoItem}]]
  BY <1>2, <1>5 DEF TypeOK
<1> QED BY <1>2, <1>7, <1>10, <1>11, LooksUpInv

(* The tail of the ring it has leads to the block of its index.            *)
LEMMA LoadTailInv ==
  ASSUME BlockInv, Served, OfWriters, NEW r \in Readers, LoadTail(r)
  PROVE  BlockInv'
<1>1. PICK v, x, i, g, t :
        /\ v = deq[r].of /\ i = deq[r].index /\ x = Num(i) /\ g = found[r].header
        /\ t = blockIndex[v][g].tail
  OBVIOUS
<1>2. TypeOK /\ LooksUp(r) /\ deq[r].at = "tail" /\ ReaderOK(r) /\ DequeueStep(r)
      /\ ~ Unlink(r)
  BY DEF BlockInv, LooksUp, LoadTail, DequeueStep, Unlink
<1>3. v \in Writers /\ Shape(v) /\ RingInv(v) /\ x \in Nat /\ Home(v, x)
  BY <1>1, <1>2, ReaderAt DEF Flying
<1>4. g \in 1 .. Current(v) /\ (g = Current(v) \/ Leads(v, g, t, x))
  BY <1>1, <1>2 DEF ReaderOK
<1>5. t \in Nat
  <2>1. blockIndex[v] \in Seq(Header) /\ Current(v) = Len(blockIndex[v])
    BY <1>2, <1>3 DEF TypeOK, Current
  <2>2. blockIndex[v][g] \in Header BY <1>4, <2>1
  <2> QED BY <1>1, <2>2 DEF Header
<1>6. Leads(v, g, t, x)
  <2>1. CASE g = Current(v) BY <1>1, <1>2, <1>3, <2>1, LeadsNow DEF CurrentHeader
  <2> QED BY <1>4, <2>1
<1>7. Leads(v, g, t, x)'
  <2>1. IndexSame BY <1>2, ReaderFrame
  <2> QED BY <1>6, <2>1, RingFrame
<1>8. /\ deq'[r].at = "key" /\ deq'[r].of = v /\ deq'[r].index = i
      /\ UNCHANGED <<headIndex, element>>
  BY <1>1, <1>2, LooksUpPlaces DEF LoadTail, countVars, blockVars
<1>9. found' = [found EXCEPT ![r].tail = t] /\ found \in [Readers -> FoundLocal]
  BY <1>1, <1>2 DEF LoadTail, TypeOK
<1>10. found' \in [Readers -> FoundLocal] /\ found'[r].header = g /\ found'[r].tail = t
  BY <1>1, <1>5, <1>9 DEF FoundLocal
<1>11. i < headIndex'[v] BY <1>1, <1>2, <1>8 DEF ReaderOK, Flying
<1>12. ReaderOK(r)' BY <1>1, <1>7, <1>8, <1>10, <1>11 DEF ReaderOK
<1>13. element' \in [Blocks -> [0 .. BLOCK_SIZE - 1 -> Item \cup {NoItem}]]
  BY <1>2, <1>8 DEF TypeOK
<1> QED BY <1>2, <1>10, <1>12, <1>13, LooksUpInv

(* The key at that tail tells how far back the entry is.                   *)
LEMMA LoadKeyInv ==
  ASSUME BlockInv, Served, OfWriters, NEW r \in Readers, LoadKey(r)
  PROVE  BlockInv'
<1>1. PICK v, x, i, g, t, e :
        /\ v = deq[r].of /\ i = deq[r].index /\ x = Num(i) /\ g = found[r].header
        /\ t = found[r].tail /\ e = RingAt(v, x)
  OBVIOUS
<1>2. TypeOK /\ LooksUp(r) /\ deq[r].at = "key" /\ ReaderOK(r) /\ DequeueStep(r)
      /\ ~ Unlink(r)
  BY DEF BlockInv, LooksUp, LoadKey, DequeueStep, Unlink
<1>3. /\ v \in Writers /\ Shape(v) /\ x \in Nat /\ Home(v, x) /\ Key(x) = BlockBase(i)
      /\ e \in 1 .. Len(entries[v])
  BY <1>1, <1>2, ReaderAt DEF Flying
<1>4. Leads(v, g, t, x) BY <1>1, <1>2 DEF ReaderOK
<1>5. PICK d \in Nat : /\ At(blockIndex[v][g], t - d) = e
                       /\ At(blockIndex[v][g], t) = RingAt(v, x + d)
                       /\ EntryOf(v, x + d).key = Key(x + d)
  BY <1>1, <1>4 DEF Leads
<1>6. PICK h, base, offset :
        /\ h = blockIndex[v][g] /\ base = entries[v][At(h, t)].key
        /\ offset = (BlockBase(i) - base) \div BLOCK_SIZE
  OBVIOUS
<1>7. base = Key(x + d) BY <1>5, <1>6 DEF EntryOf
<1>8. offset = - d BY <1>3, <1>6, <1>7, KeyDifference
<1>9. t + offset = t - d
  <2>1. t \in Nat BY <1>1, <1>2 DEF TypeOK, FoundLocal
  <2> QED BY <1>8, <2>1
<1>10. At(h, t + offset) = e BY <1>5, <1>6, <1>9
<1>11. found' = [found EXCEPT ![r].entry = At(h, t + offset)]
  BY <1>1, <1>6, Zenon DEF LoadKey
<1>12. found' = [found EXCEPT ![r].entry = e] /\ found \in [Readers -> FoundLocal] /\ e \in Nat
  <2>1. Len(entries[v]) \in Nat BY <1>2, <1>3, ShapeFacts
  <2>2. e \in Nat BY <1>3, <2>1
  <2> QED BY <1>2, <1>10, <1>11, <2>2 DEF TypeOK
<1>13. found' \in [Readers -> FoundLocal] /\ found'[r].entry = e BY <1>12 DEF FoundLocal
<1>14. /\ deq'[r].at = "value" /\ deq'[r].of = v /\ deq'[r].index = i
       /\ UNCHANGED <<headIndex, element>>
  BY <1>1, <1>2, LooksUpPlaces, Zenon DEF LoadKey, countVars, blockVars
<1>15. e = RingAt(v, x)'
  <2>1. IndexSame BY <1>2, ReaderFrame
  <2> QED BY <1>1, <2>1, RingFrame
<1>16. i < headIndex'[v] BY <1>1, <1>2, <1>14 DEF ReaderOK, Flying
<1>17. ReaderOK(r)' BY <1>1, <1>13, <1>14, <1>15, <1>16 DEF ReaderOK
<1>18. element' \in [Blocks -> [0 .. BLOCK_SIZE - 1 -> Item \cup {NoItem}]]
  BY <1>2, <1>14 DEF TypeOK
<1> QED BY <1>2, <1>13, <1>17, <1>18, LooksUpInv

(* The entry has the block.                                                *)
LEMMA LoadValueInv ==
  ASSUME BlockInv, Served, OfWriters, NEW r \in Readers, LoadValue(r)
  PROVE  BlockInv'
<1>1. PICK v, x, i, e, b :
        /\ v = deq[r].of /\ i = deq[r].index /\ x = Num(i) /\ e = found[r].entry
        /\ b = EntryOf(v, x).value
  OBVIOUS
<1>2. TypeOK /\ LooksUp(r) /\ deq[r].at = "value" /\ ReaderOK(r) /\ DequeueStep(r)
      /\ ~ Unlink(r)
  BY DEF BlockInv, LooksUp, LoadValue, DequeueStep, Unlink
<1>3. b \in Blocks BY <1>1, <1>2, ReaderAt DEF Flying
<1>4. e = RingAt(v, x) BY <1>1, <1>2 DEF ReaderOK
<1>5. found' = [found EXCEPT ![r].block = b] /\ found \in [Readers -> FoundLocal]
  BY <1>1, <1>2, <1>4 DEF LoadValue, EntryOf, TypeOK
<1>6. found' \in [Readers -> FoundLocal] /\ found'[r].block = b /\ found'[r].entry = e
  BY <1>1, <1>3, <1>5 DEF FoundLocal, Node
<1>7. /\ deq'[r].at = "move" /\ deq'[r].of = v /\ deq'[r].index = i
      /\ UNCHANGED <<headIndex, element>>
  BY <1>1, <1>2, LooksUpPlaces DEF LoadValue, countVars, blockVars
<1>8. e = RingAt(v, x)' /\ b = EntryOf(v, x)'.value
  <2>1. IndexSame BY <1>2, ReaderFrame
  <2> QED BY <1>1, <1>4, <2>1, RingFrame
<1>9. i < headIndex'[v] BY <1>1, <1>2, <1>7 DEF ReaderOK, Flying
<1>10. ReaderOK(r)' BY <1>1, <1>6, <1>7, <1>8, <1>9 DEF ReaderOK
<1>11. element' \in [Blocks -> [0 .. BLOCK_SIZE - 1 -> Item \cup {NoItem}]]
  BY <1>2, <1>7 DEF TypeOK
<1> QED BY <1>2, <1>6, <1>10, <1>11, LooksUpInv

(* The element is taken out of its slot.                                   *)
LEMMA MoveInv ==
  ASSUME BlockInv, Served, OfWriters, NEW r \in Readers, Move(r)
  PROVE  BlockInv'
<1>1. PICK v, x, i, e, b :
        /\ v = deq[r].of /\ i = deq[r].index /\ x = Num(i) /\ e = found[r].entry
        /\ b = found[r].block
  OBVIOUS
<1>2. TypeOK /\ LooksUp(r) /\ deq[r].at = "move" /\ ReaderOK(r) /\ DequeueStep(r)
      /\ ~ Unlink(r)
  BY DEF BlockInv, LooksUp, Move, DequeueStep, Unlink
<1>3. e = RingAt(v, x) /\ b = EntryOf(v, x).value BY <1>1, <1>2 DEF ReaderOK
<1>4. b \in Blocks /\ i \in Nat /\ i \in Int
  <2>1. i \in Nat BY <1>1, <1>2 DEF TypeOK, DeqLocal
  <2> QED BY <1>1, <1>2, <1>3, <2>1, ReaderAt DEF Flying
<1>5. element[b][Slot(i)] \in Item \cup {NoItem}
  <2>1. Slot(i) \in 0 .. BLOCK_SIZE - 1 BY <1>4, NumSlot
  <2>2. element[b] \in [0 .. BLOCK_SIZE - 1 -> Item \cup {NoItem}]
    BY <1>2, <1>4 DEF TypeOK
  <2> QED BY <2>1, <2>2
<1>6. PICK y \in Item \cup {NoItem} : y = element[b][Slot(i)] BY <1>5
<1>7. found' = [found EXCEPT ![r].item = y] /\ found \in [Readers -> FoundLocal]
  BY <1>1, <1>2, <1>6 DEF Move, TypeOK
<1>8. found' \in [Readers -> FoundLocal] /\ found'[r].block = b /\ found'[r].entry = e
  BY <1>1, <1>7 DEF FoundLocal
<1>9. /\ deq'[r].at = "empty" /\ deq'[r].of = v /\ deq'[r].index = i
      /\ UNCHANGED headIndex
  BY <1>1, <1>2, LooksUpPlaces DEF Move, countVars
<1>10. e = RingAt(v, x)' /\ b = EntryOf(v, x)'.value
  <2>1. IndexSame BY <1>2, ReaderFrame
  <2> QED BY <1>1, <1>3, <2>1, RingFrame
<1>11. i < headIndex'[v] BY <1>1, <1>2, <1>9 DEF ReaderOK, Flying
<1>12. ReaderOK(r)' BY <1>1, <1>8, <1>9, <1>10, <1>11 DEF ReaderOK
<1>13. element' \in [Blocks -> [0 .. BLOCK_SIZE - 1 -> Item \cup {NoItem}]]
  <2>1. Write(b, i, NoItem) BY <1>1 DEF Move
  <2> QED BY <1>2, <1>4, <2>1, WriteType
<1> QED BY <1>2, <1>8, <1>12, <1>13, LooksUpInv

-------------------------------------------------------------------------------
(* An index is given out.                                                  *)

(* One more index of the block of the head is given out.                   *)
LEMMA ClaimCounts ==
  ASSUME TypeOK, NEW w \in Writers, NEW h \in Nat, h = headIndex[w], headIndex'[w] = h + 1,
         NEW y \in Int
  PROVE  /\ Num(h) = y => Claimed(w, y)' = Claimed(w, y) + 1 /\ h < Key(y) + BLOCK_SIZE
         /\ Num(h) # y => Claimed(w, y)' = Claimed(w, y)
<1>1. Key(y) \in Int /\ BLOCK_SIZE \in Nat /\ BLOCK_SIZE > 1 BY KeyOrder, BlockSize
<1>2. PICK k \in Int : k = Key(y) BY <1>1
<1>3. Num(h) = y <=> k <= h /\ h < k + BLOCK_SIZE BY <1>2, NumIs
<1>4. Claimed(w, y) = IF h <= k THEN 0 ELSE IF h >= k + BLOCK_SIZE THEN BLOCK_SIZE ELSE h - k
  BY <1>2 DEF Claimed
<1>5. Claimed(w, y)' = IF h + 1 <= k THEN 0
                       ELSE IF h + 1 >= k + BLOCK_SIZE THEN BLOCK_SIZE ELSE h + 1 - k
  BY <1>2 DEF Claimed
<1>6. CASE k <= h /\ h < k + BLOCK_SIZE BY <1>1, <1>2, <1>3, <1>4, <1>5, <1>6
<1>7. CASE ~ (k <= h /\ h < k + BLOCK_SIZE) BY <1>1, <1>3, <1>4, <1>5, <1>7
<1> QED BY <1>6, <1>7

LEMMA ClaimFlight ==
  ASSUME NEW r \in Readers, NEW w, NEW i, \A q \in Readers \ {r} : deq'[q] = deq[q],
         deq[r].at \notin Flying, deq'[r].at \in Flying, deq'[r].of = w, deq'[r].index = i
  PROVE  /\ \A v, y : v # w \/ y # Num(i) => InFlight(v, y)' = InFlight(v, y)
         /\ InFlight(w, Num(i))' = InFlight(w, Num(i)) \cup {r} /\ r \notin InFlight(w, Num(i))
<1>1. \A v, y : InFlight(v, y) \subseteq Readers /\ InFlight(v, y)' \subseteq Readers
  BY DEF InFlight
<1>2. ASSUME NEW v, NEW y, NEW q \in Readers, q # r
      PROVE  q \in InFlight(v, y)' <=> q \in InFlight(v, y)
  BY <1>2 DEF InFlight
<1>3. \A v, y : r \notin InFlight(v, y) BY DEF InFlight
<1>4. \A v, y : r \in InFlight(v, y)' <=> v = w /\ y = Num(i) BY DEF InFlight
<1>5. ASSUME NEW v, NEW y, v # w \/ y # Num(i)
      PROVE  InFlight(v, y)' = InFlight(v, y)
  BY <1>1, <1>2, <1>3, <1>4, <1>5
<1>6. InFlight(w, Num(i))' = InFlight(w, Num(i)) \cup {r} BY <1>1, <1>2, <1>3, <1>4
<1> QED BY <1>3, <1>5, <1>6

(* The claim of an index makes its block one that a reader is on the way to.*)
LEMMA ClaimInv ==
  ASSUME BlockInv, OfWriters, Served, NEW r \in Readers, Claim(r)
  PROVE  BlockInv'
<1>1. TypeOK /\ ListInv /\ Alone /\ DequeueStep(r) /\ ~ Unlink(r) /\ ~ SetEmpty(r) /\ ~ Move(r)
      /\ deq[r].at = "claim"
  BY DEF BlockInv, Claim, DequeueStep, Unlink, SetEmpty, Move
<1>2. PICK w \in Writers, h \in Nat : w = deq[r].of /\ h = headIndex[w]
  BY <1>1, TailNum DEF OfWriters
<1>3. /\ deq \in [Readers -> DeqLocal] /\ headIndex \in [Writers -> Nat]
      /\ deq' = [deq EXCEPT ![r] = [DeqIdle EXCEPT !.at = "header", !.of = w, !.index = h]]
      /\ headIndex' = [headIndex EXCEPT ![w] = @ + 1]
  BY <1>1, <1>2 DEF Claim, TypeOK
<1>4. /\ deq' \in [Readers -> DeqLocal] /\ deq'[r].at = "header" /\ deq'[r].of = w
      /\ deq'[r].index = h
  BY <1>3 DEF DeqIdle, DeqLocal
<1>5. /\ headIndex'[w] = h + 1
      /\ \A v \in Writers \ {w} : headIndex'[v] = headIndex[v]
  BY <1>2, <1>3
<1>6. /\ IndexSame /\ UNCHANGED <<elementsCompletelyDequeued, element, found>>
      /\ \A q \in Readers \ {r} : deq'[q] = deq[q] /\ found'[q] = found[q]
  BY <1>1, ReaderFrame
<1>7. ListInv' BY <1>1, DequeueAside
<1>8. TypeOK' BY <1>1, <1>4, <1>6, <1>7, DequeueTyped DEF TypeOK, IndexSame
<1>9. Alone' BY <1>1, <1>4, <1>6 DEF Alone
<1>10. PICK z : z = Num(h) OBVIOUS
<1>11. /\ \A v, y : v # w \/ y # z => InFlight(v, y)' = InFlight(v, y)
       /\ InFlight(w, z)' = InFlight(w, z) \cup {r} /\ r \notin InFlight(w, z)
  BY <1>1, <1>4, <1>6, <1>10, ClaimFlight DEF Flying
<1>12. ASSUME NEW v \in Writers PROVE headIndex[v] <= headIndex'[v] /\ headIndex[v] \in Nat
                                      /\ headIndex'[v] \in Nat
  BY <1>2, <1>3, <1>5
<1>13. ASSUME NEW v \in Writers PROVE RingInv(v)' /\ Live(v)'
  <2>1. RingInv(v)' BY <1>6, RingFrame DEF BlockInv
  <2>2. ASSUME NEW y \in Nat, y <= Written(v)', Unfinished(v, y)' PROVE Home(v, y)'
    <3>1. y <= Written(v) /\ (Home(v, y)' <=> Home(v, y)) BY <1>6, <2>2, RingFrame
    <3>2. Unfinished(v, y)
      <4>1. CASE v = w /\ y = z
        BY <1>1, <1>2, <1>5, <1>10, <4>1, ClaimCounts DEF Unfinished
      <4>2. CASE v # w \/ y # z
        <5>1. InFlight(v, y)' = InFlight(v, y) BY <1>11, <4>2
        <5>2. PICK k \in Int : k = Key(y) + BLOCK_SIZE BY KeyOrder, BlockSize
        <5>3. headIndex'[v] < k => headIndex[v] < k BY <1>12
        <5> QED BY <2>2, <5>1, <5>2, <5>3 DEF Unfinished
      <4> QED BY <4>1, <4>2
    <3> QED BY <3>1, <3>2 DEF BlockInv, Live
  <2> QED BY <2>1, <2>2 DEF Live
<1>14. ASSUME NEW v \in Writers PROVE Account(v)'
  <2>1. ASSUME NEW y \in Nat, Home(v, y)'
        PROVE  elementsCompletelyDequeued'[EntryOf(v, y)'.value] + Cardinality(InFlight(v, y)')
                 = Claimed(v, y)'
    <3>1. Home(v, y) /\ EntryOf(v, y)' = EntryOf(v, y) BY <1>6, <2>1, RingFrame
    <3>2. elementsCompletelyDequeued[EntryOf(v, y).value] + Cardinality(InFlight(v, y))
            = Claimed(v, y)
      BY <3>1 DEF BlockInv, Account
    <3>3. CASE v = w /\ y = z
      <4>1. Claimed(v, y)' = Claimed(v, y) + 1
        BY <1>1, <1>2, <1>5, <1>10, <3>3, ClaimCounts
      <4>2. Cardinality(InFlight(v, y)') = Cardinality(InFlight(v, y)) + 1
        BY <1>11, <3>3, FlightSize, FS_AddElement
      <4>3. /\ Cardinality(InFlight(v, y)) \in Nat
            /\ elementsCompletelyDequeued[EntryOf(v, y).value] \in Nat
        <5>1. EntryOf(v, y).value \in Blocks /\ elementsCompletelyDequeued \in [Blocks -> 0 .. BLOCK_SIZE]
          BY <1>1, <3>1 DEF Home, TypeOK
        <5> QED BY <5>1, FlightSize, BlockSize
      <4> QED BY <1>6, <3>1, <3>2, <4>1, <4>2, <4>3
    <3>4. CASE v # w \/ y # z
      <4>1. InFlight(v, y)' = InFlight(v, y) BY <1>11, <3>4
      <4>2. Claimed(v, y)' = Claimed(v, y)
        BY <1>1, <1>2, <1>5, <1>10, <3>4, ClaimCounts DEF Claimed
      <4> QED BY <1>6, <3>1, <3>2, <4>1, <4>2
    <3> QED BY <3>3, <3>4
  <2>2. enq'[v].at = "value" => elementsCompletelyDequeued'[enq'[v].block] = 0
    BY <1>6 DEF BlockInv, Account, IndexSame
  <2> QED BY <2>1, <2>2 DEF Account
<1>15. ASSUME NEW q \in Readers PROVE ReaderOK(q)'
  <2>1. CASE q = r
    <3>1. h < headIndex'[w] BY <1>5
    <3> QED BY <1>4, <2>1, <3>1 DEF ReaderOK
  <2>2. CASE q # r
    <3>1. ReaderOK(q) /\ deq[q].index \in Nat BY <1>1 DEF BlockInv, TypeOK, DeqLocal
    <3>2. deq[q].at \in Flying => deq[q].index < headIndex'[deq[q].of]
      <4>1. SUFFICES ASSUME deq[q].at \in Flying PROVE deq[q].index < headIndex'[deq[q].of]
        OBVIOUS
      <4>2. PICK v \in Writers : v = deq[q].of BY <4>1 DEF OfWriters, Flying
      <4>3. deq[q].index < headIndex[v] BY <3>1, <4>1, <4>2 DEF ReaderOK
      <4> QED BY <1>12, <3>1, <4>2, <4>3
    <3> QED BY <1>6, <2>2, <3>1, <3>2, ReaderStays
  <2> QED BY <2>1, <2>2
<1> QED BY <1>7, <1>8, <1>9, <1>13, <1>14, <1>15 DEF BlockInv

-------------------------------------------------------------------------------
(* An element less in a block; the last one takes the block out.           *)

LEMMA LeaveFlight ==
  ASSUME NEW r \in Readers, NEW w, NEW x, \A q \in Readers \ {r} : deq'[q] = deq[q],
         r \in InFlight(w, x), deq'[r].at \notin Flying
  PROVE  /\ \A v, y : v # w \/ y # x => InFlight(v, y)' = InFlight(v, y)
         /\ InFlight(w, x)' = InFlight(w, x) \ {r}
         /\ \A v, y : InFlight(v, y)' \subseteq InFlight(v, y)
<1>1. \A v, y : InFlight(v, y) \subseteq Readers /\ InFlight(v, y)' \subseteq Readers
  BY DEF InFlight
<1>2. ASSUME NEW v, NEW y, NEW q \in Readers, q # r
      PROVE  q \in InFlight(v, y)' <=> q \in InFlight(v, y)
  BY <1>2 DEF InFlight
<1>3. \A v, y : r \notin InFlight(v, y)' BY DEF InFlight
<1>4. \A v, y : r \in InFlight(v, y) => v = w /\ y = x BY DEF InFlight
<1>5. ASSUME NEW v, NEW y, v # w \/ y # x
      PROVE  InFlight(v, y)' = InFlight(v, y)
  BY <1>1, <1>2, <1>3, <1>4, <1>5
<1>6. InFlight(w, x)' = InFlight(w, x) \ {r} BY <1>1, <1>2, <1>3
<1>7. \A v, y : InFlight(v, y)' \subseteq InFlight(v, y) BY <1>1, <1>2, <1>3
<1> QED BY <1>5, <1>6, <1>7

(* A reader that is about to count its element: the block is not full      *)
(* without it.                                                             *)
LEMMA NotFull ==
  ASSUME BlockInv, Served, OfWriters, NEW r \in Readers, deq[r].at = "empty",
         NEW v, v = deq[r].of, NEW x, x = Num(deq[r].index), NEW b, b = found[r].block
  PROVE  /\ v \in Writers /\ x \in Nat /\ Home(v, x) /\ Shape(v) /\ b = EntryOf(v, x).value
         /\ found[r].entry = RingAt(v, x)
         /\ b \in Blocks /\ RingAt(v, x) \in 1 .. Len(entries[v])
         /\ r \in InFlight(v, x)
         /\ elementsCompletelyDequeued[b] \in 0 .. BLOCK_SIZE - 1
         /\ elementsCompletelyDequeued[b] + Cardinality(InFlight(v, x)) = Claimed(v, x)
<1>1. ReaderOK(r) /\ TypeOK BY DEF BlockInv
<1>2. b = EntryOf(v, x).value /\ found[r].entry = RingAt(v, x) BY <1>1 DEF ReaderOK
<1>3. /\ v \in Writers /\ x \in Nat /\ Home(v, x) /\ Shape(v) /\ b \in Blocks
      /\ RingAt(v, x) \in 1 .. Len(entries[v]) /\ r \in InFlight(v, x)
  BY <1>2, ReaderAt DEF Flying
<1>4. elementsCompletelyDequeued[b] + Cardinality(InFlight(v, x)) = Claimed(v, x)
  BY <1>2, <1>3 DEF BlockInv, Account
<1>5. Claimed(v, x) \in 0 .. BLOCK_SIZE
  <2>1. x \in Int BY <1>3
  <2> QED BY <1>1, <1>3, <2>1, ClaimedSize
<1>6. Cardinality(InFlight(v, x)) \in Nat /\ Cardinality(InFlight(v, x)) # 0
  BY <1>3, FlightSize
<1>7. elementsCompletelyDequeued[b] \in 0 .. BLOCK_SIZE BY <1>1, <1>3 DEF TypeOK
<1>8. elementsCompletelyDequeued[b] \in 0 .. BLOCK_SIZE - 1
  BY <1>4, <1>5, <1>6, <1>7, BlockSize
<1> QED BY <1>2, <1>3, <1>4, <1>8

LEMMA Emptied ==
  ASSUME TypeOK, NEW r \in Readers, SetEmpty(r), NEW b \in Blocks, b = found[r].block,
         NEW c \in 0 .. BLOCK_SIZE - 1, c = elementsCompletelyDequeued[b],
         NEW v, v = deq[r].of, NEW i, i = deq[r].index
  PROVE  Counts(r, b, c, v, i)
<1>1. /\ deq \in [Readers -> DeqLocal] /\ found \in [Readers -> FoundLocal]
      /\ elementsCompletelyDequeued \in [Blocks -> 0 .. BLOCK_SIZE]
  BY DEF TypeOK
<1>2. elementsCompletelyDequeued' = [elementsCompletelyDequeued EXCEPT ![b] = c + 1]
  BY DEF SetEmpty
<1>3. c + 1 \in 0 .. BLOCK_SIZE BY BlockSize
<1>4. elementsCompletelyDequeued' \in [Blocks -> 0 .. BLOCK_SIZE] BY <1>1, <1>2, <1>3
<1>5. CASE c = BLOCK_SIZE - 1
  BY <1>1, <1>2, <1>4, <1>5, BlockSize DEF SetEmpty, DeqLocal, Flying, Counts
<1>6. CASE c # BLOCK_SIZE - 1
  BY <1>1, <1>2, <1>4, <1>6 DEF SetEmpty, Dequeued, DeqIdle, DeqLocal, NotFound,
     FoundLocal, Node, Flying, Counts
<1> QED BY <1>5, <1>6

(* One more element of the block is taken; one reader sees the last.       *)
LEMMA SetEmptyInv ==
  ASSUME BlockInv, OfWriters, Served, NEW r \in Readers, SetEmpty(r)
  PROVE  BlockInv'
<1>1. TypeOK /\ ListInv /\ Alone /\ DequeueStep(r) /\ ~ Unlink(r) /\ ~ Claim(r) /\ ~ Move(r)
      /\ deq[r].at = "empty"
  BY DEF BlockInv, Claim, DequeueStep, Unlink, SetEmpty, Move
<1>2. PICK v, x, b, e, i : /\ v = deq[r].of /\ x = Num(i) /\ b = found[r].block
                           /\ e = RingAt(v, x) /\ i = deq[r].index
  OBVIOUS
<1>3. /\ v \in Writers /\ x \in Nat /\ Home(v, x) /\ Shape(v) /\ b = EntryOf(v, x).value
      /\ found[r].entry = e /\ b \in Blocks /\ e \in 1 .. Len(entries[v])
      /\ r \in InFlight(v, x)
      /\ elementsCompletelyDequeued[b] \in 0 .. BLOCK_SIZE - 1
      /\ elementsCompletelyDequeued[b] + Cardinality(InFlight(v, x)) = Claimed(v, x)
  BY <1>1, <1>2, NotFull
<1>4. PICK c \in 0 .. BLOCK_SIZE - 1 : c = elementsCompletelyDequeued[b] BY <1>3
<1>5. /\ elementsCompletelyDequeued' = [elementsCompletelyDequeued EXCEPT ![b] = c + 1]
      /\ elementsCompletelyDequeued' \in [Blocks -> 0 .. BLOCK_SIZE]
      /\ deq' \in [Readers -> DeqLocal] /\ found' \in [Readers -> FoundLocal]
      /\ deq'[r].at \notin Flying /\ deq'[r].at \in {"idle", "unlink"}
      /\ deq'[r].at = "unlink" => /\ c + 1 = BLOCK_SIZE /\ deq'[r].of = v
                                  /\ deq'[r].index = i /\ found'[r] = found[r]
  <2>1. b = found[r].block /\ c = elementsCompletelyDequeued[b] /\ b \in Blocks /\ TypeOK
    BY <1>1, <1>2, <1>3, <1>4
  <2>2. v = deq[r].of /\ i = deq[r].index BY <1>2
  <2>3. Counts(r, b, c, v, i) BY <2>1, <2>2, Emptied
  <2> QED BY <2>3 DEF Counts
<1>6. elementsCompletelyDequeued \in [Blocks -> 0 .. BLOCK_SIZE] BY <1>1 DEF TypeOK
<1>7. /\ elementsCompletelyDequeued'[b] = c + 1
      /\ \A d \in Blocks : d # b => elementsCompletelyDequeued'[d] = elementsCompletelyDequeued[d]
  BY <1>3, <1>5, <1>6
<1>8. /\ IndexSame /\ UNCHANGED <<headIndex, element>>
      /\ \A q \in Readers \ {r} : deq'[q] = deq[q] /\ found'[q] = found[q]
  BY <1>1, ReaderFrame
<1>9. ListInv' BY <1>1, DequeueAside
<1>10. TypeOK' BY <1>1, <1>5, <1>8, <1>9, DequeueTyped DEF TypeOK, IndexSame
<1>11. /\ \A w, y : w # v \/ y # x => InFlight(w, y)' = InFlight(w, y)
       /\ InFlight(v, x)' = InFlight(v, x) \ {r}
       /\ \A w, y : InFlight(w, y)' \subseteq InFlight(w, y)
  BY <1>3, <1>5, <1>8, LeaveFlight
<1>12. ASSUME NEW q \in Readers, deq[q].at = "unlink" PROVE found[q].block # b
  BY <1>4, <1>12, BlockSize DEF BlockInv, ReaderOK
<1>13. Alone'
  <2>1. ASSUME NEW q \in Readers \ {r}, deq'[r].at = "unlink", deq[q].at = "unlink",
               deq[q].of = v
        PROVE  Num(deq[q].index) # x
    <3>1. ASSUME Num(deq[q].index) = x PROVE FALSE
      BY <1>3, <1>12, <2>1, <3>1 DEF BlockInv, ReaderOK
    <3> QED BY <3>1
  <2>2. deq'[r].at = "unlink" => deq'[r].of = v /\ Num(deq'[r].index) = x BY <1>2, <1>5
  <2> QED BY <1>1, <1>8, <2>1, <2>2 DEF Alone
<1>14. ASSUME NEW w \in Writers PROVE RingInv(w)' /\ Live(w)'
  <2>1. RingInv(w)' BY <1>8, RingFrame DEF BlockInv
  <2>2. ASSUME NEW y \in Nat, y <= Written(w)', Unfinished(w, y)' PROVE Home(w, y)'
    BY <1>8, <1>11, <2>2, RingFrame DEF Unfinished, BlockInv, Live
  <2> QED BY <2>1, <2>2 DEF Live
<1>15. ASSUME NEW w \in Writers PROVE Account(w)'
  <2>1. ASSUME NEW y \in Nat, Home(w, y)'
        PROVE  elementsCompletelyDequeued'[EntryOf(w, y)'.value] + Cardinality(InFlight(w, y)')
                 = Claimed(w, y)'
    <3>1. Home(w, y) /\ EntryOf(w, y)' = EntryOf(w, y) BY <1>8, <2>1, RingFrame
    <3>2. Claimed(w, y)' = Claimed(w, y) BY <1>8 DEF Claimed
    <3>3. CASE w = v /\ y = x
      <4>1. Cardinality(InFlight(v, x)') = Cardinality(InFlight(v, x)) - 1
        <5>1. PICK S : S = InFlight(v, x) OBVIOUS
        <5>2. IsFiniteSet(S) /\ r \in S BY <1>3, <5>1, FlightSize
        <5>3. Cardinality(S \ {r}) = Cardinality(S) - 1 BY <5>2, FS_RemoveElement
        <5> QED BY <1>11, <5>1, <5>3
      <4>2. Cardinality(InFlight(v, x)) \in Nat BY FlightSize
      <4> QED BY <1>3, <1>4, <1>7, <3>1, <3>2, <3>3, <4>1, <4>2
    <3>4. CASE w # v \/ y # x
      <4>1. EntryOf(w, y).value # b /\ EntryOf(w, y).value \in Blocks
        BY <1>1, <1>3, <3>1, <3>4, HomeAlone DEF BlockInv, RingInv, Home
      <4>2. elementsCompletelyDequeued[EntryOf(w, y).value] + Cardinality(InFlight(w, y))
              = Claimed(w, y)
        BY <3>1 DEF BlockInv, Account
      <4>3. InFlight(w, y)' = InFlight(w, y) BY <1>11, <3>4
      <4> QED BY <1>7, <3>1, <3>2, <4>1, <4>2, <4>3
    <3> QED BY <3>3, <3>4
  <2>2. ASSUME enq'[w].at = "value" PROVE elementsCompletelyDequeued'[enq'[w].block] = 0
    <3>1. enq'[w] = enq[w] BY <1>8 DEF IndexSame
    <3>2. enq[w].at \in WithBlock /\ enq[w].block \in Blocks
      BY <2>2, <3>1 DEF BlockInv, RingInv, Picked, WithBlock
    <3>3. enq[w].block # b BY <1>1, <1>2, <1>3, <3>2, HeldAlone DEF EntryOf
    <3> QED BY <1>7, <2>2, <3>1, <3>2, <3>3 DEF BlockInv, Account
  <2> QED BY <2>1, <2>2 DEF Account
<1>16. ASSUME NEW q \in Readers PROVE ReaderOK(q)'
  <2>1. CASE q = r
    <3>1. CASE deq'[r].at = "unlink"
      <4>1. /\ e = RingAt(v, x)' /\ b = EntryOf(v, x)'.value /\ Home(v, x)'
        BY <1>2, <1>3, <1>8, RingFrame
      <4>2. found'[r].entry = e /\ found'[r].block = b BY <1>2, <1>3, <1>5, <3>1
      <4>3. elementsCompletelyDequeued'[b] = BLOCK_SIZE BY <1>5, <1>7, <3>1
      <4>4. deq'[r].of = v /\ deq'[r].index = i BY <1>5, <3>1
      <4> QED BY <1>2, <2>1, <3>1, <4>1, <4>2, <4>3, <4>4 DEF ReaderOK, Flying
    <3>2. CASE deq'[r].at # "unlink" BY <1>5, <2>1, <3>2 DEF ReaderOK
    <3> QED BY <3>1, <3>2
  <2>2. CASE q # r
    <3>1. ReaderOK(q) BY DEF BlockInv
    <3>2. deq[q].at \in Flying => deq[q].index < headIndex'[deq[q].of]
      BY <1>8, <3>1 DEF ReaderOK
    <3>3. ASSUME deq[q].at = "unlink"
          PROVE  elementsCompletelyDequeued'[found[q].block]
                   = elementsCompletelyDequeued[found[q].block]
      <4>1. found[q].block \in Blocks BY <3>1, <3>3, ReaderAt DEF ReaderOK
      <4> QED BY <1>7, <1>12, <3>3, <4>1
    <3> QED BY <1>8, <2>2, <3>1, <3>2, <3>3, ReaderStays
  <2> QED BY <2>1, <2>2
<1> QED BY <1>9, <1>10, <1>13, <1>14, <1>15, <1>16 DEF BlockInv

LEMMA TakenOut ==
  ASSUME TypeOK, NEW w \in Writers, NEW e \in 1 .. Len(entries[w]), TakesOut(w, e)
  PROVE  /\ entries' \in [Writers -> Seq(Entry)] /\ Len(entries'[w]) = Len(entries[w])
         /\ entries'[w][e].value = NoBlock /\ entries'[w][e].key = entries[w][e].key
         /\ \A i \in 1 .. Len(entries[w]) : i # e => entries'[w][i] = entries[w][i]
         /\ \A v \in Writers \ {w} : entries'[v] = entries[v]
<1>1. entries \in [Writers -> Seq(Entry)] /\ entries[w] \in Seq(Entry) BY DEF TypeOK
<1>2. PICK s \in Seq(Entry) : s = entries[w] /\ e \in 1 .. Len(s) /\ s[e] \in Entry
  BY <1>1
<1>3. PICK d : d = [s[e] EXCEPT !.value = NoBlock] OBVIOUS
<1>4. d \in Entry /\ d.value = NoBlock /\ d.key = s[e].key BY <1>2, <1>3 DEF Entry
<1>5. /\ [s EXCEPT ![e] = d] \in Seq(Entry) /\ Len([s EXCEPT ![e] = d]) = Len(s)
  BY <1>2, <1>4, ExceptSeq
<1>6. entries' = [entries EXCEPT ![w] = [s EXCEPT ![e] = d]]
  BY <1>1, <1>2, <1>3 DEF TakesOut
<1>7. entries'[w] = [s EXCEPT ![e] = d] /\ \A v \in Writers \ {w} : entries'[v] = entries[v]
  BY <1>1, <1>6
<1>8. entries' \in [Writers -> Seq(Entry)] BY <1>1, <1>5, <1>6
<1>9. [s EXCEPT ![e] = d][e] = d /\ \A i \in 1 .. Len(s) : i # e => [s EXCEPT ![e] = d][i] = s[i]
  BY <1>2
<1> QED BY <1>2, <1>4, <1>5, <1>7, <1>8, <1>9

LEMMA TakenHome ==
  ASSUME TypeOK, NEW w \in Writers, RingInv(w), NEW x \in Nat, Home(w, x),
         NEW e, e = RingAt(w, x), TakesOut(w, e)
  PROVE  /\ Written(w)' = Written(w) /\ Current(w)' = Current(w)
         /\ CurrentHeader(w)' = CurrentHeader(w)
         /\ \A y : RingAt(w, y)' = RingAt(w, y)
         /\ \A y \in Int : EntryOf(w, y)'.key = EntryOf(w, y).key
         /\ \A y \in Int : Home(w, y)' <=> Home(w, y) /\ y # x
         /\ \A y \in Int : Home(w, y) /\ y # x => EntryOf(w, y)' = EntryOf(w, y)
<1>1. Shape(w) BY DEF RingInv
<1>2. PICK n \in Nat, p \in Int : n = Len(entries[w]) /\ p = Top(w) BY <1>1, ShapeFacts
<1>3. /\ e \in 1 .. n /\ x \in Int
      /\ \A y \in Int : RingAt(w, y) \in 1 .. n
  <2>1. x \in Int OBVIOUS
  <2>2. \A y \in Int : RingAt(w, y) \in 1 .. n BY <1>1, <1>2, RingFacts
  <2> QED BY <2>1, <2>2
<1>4. /\ Len(entries'[w]) = n
      /\ entries'[w][e].value = NoBlock /\ entries'[w][e].key = entries[w][e].key
      /\ \A i \in 1 .. n : i # e => entries'[w][i] = entries[w][i]
  BY <1>2, <1>3, TakenOut
<1>5. /\ Top(w)' = p /\ Written(w)' = Written(w) /\ Current(w)' = Current(w)
      /\ CurrentHeader(w)' = CurrentHeader(w)
      /\ \A y : RingAt(w, y)' = RingAt(w, y)
  BY <1>2, RingSame DEF TakesOut
<1>6. \A y \in Int : /\ EntryOf(w, y)'.key = EntryOf(w, y).key
                     /\ RingAt(w, y) # e => EntryOf(w, y)' = EntryOf(w, y)
                     /\ RingAt(w, y) = e => EntryOf(w, y)'.value = NoBlock
  <2>1. SUFFICES ASSUME NEW y \in Int
                 PROVE  /\ EntryOf(w, y)'.key = EntryOf(w, y).key
                        /\ RingAt(w, y) # e => EntryOf(w, y)' = EntryOf(w, y)
                        /\ RingAt(w, y) = e => EntryOf(w, y)'.value = NoBlock
    OBVIOUS
  <2>2. PICK k \in 1 .. n : k = RingAt(w, y) BY <1>3
  <2>3. EntryOf(w, y) = entries[w][k] /\ EntryOf(w, y)' = entries'[w][k]
    BY <1>5, <2>2 DEF EntryOf
  <2> QED BY <1>4, <2>2, <2>3
<1>7. ASSUME NEW y \in Int, Home(w, y), y # x PROVE RingAt(w, y) # e
  BY <1>1, <1>3, <1>7, HomesApart
<1>8. ASSUME NEW y \in Int, Home(w, y), y # x PROVE Home(w, y)'
  BY <1>2, <1>4, <1>5, <1>6, <1>7, <1>8 DEF Home
<1>9. ASSUME NEW y \in Int, Home(w, y)' PROVE Home(w, y) /\ y # x
  BY <1>2, <1>4, <1>5, <1>6, <1>9, FreeListAssumption DEF Home
<1> QED BY <1>5, <1>6, <1>7, <1>8, <1>9

LEMMA TakenRing ==
  ASSUME TypeOK, NEW w \in Writers, RingInv(w), NEW x \in Nat, Home(w, x),
         NEW e, e = RingAt(w, x), TakesOut(w, e)
  PROVE  RingInv(w)'
<1>1. Shape(w) BY DEF RingInv
<1>2. PICK n \in Nat : n = Len(entries[w]) BY <1>1, ShapeFacts
<1>3. x \in Int /\ e \in 1 .. n /\ Num(tailIndex[w]) \in Int
  <2>1. x \in Int OBVIOUS
  <2> QED BY <1>1, <1>2, <2>1, RingFacts, TailNum
<1>4. /\ Len(entries'[w]) = n
      /\ entries'[w][e].value = NoBlock /\ entries'[w][e].key = entries[w][e].key
      /\ \A i \in 1 .. n : i # e => entries'[w][i] = entries[w][i]
  BY <1>2, <1>3, TakenOut
<1>5. /\ Current(w)' = Current(w) /\ CurrentHeader(w)' = CurrentHeader(w)
      /\ \A y : RingAt(w, y)' = RingAt(w, y)
      /\ \A y \in Int : EntryOf(w, y)'.key = EntryOf(w, y).key
      /\ \A y \in Int : Home(w, y)' <=> Home(w, y) /\ y # x
  BY TakenHome
<1>6. UNCHANGED <<tailIndex, enq, blockIndex>> BY DEF TakesOut
<1>7. Shape(w)' BY <1>1, <1>2, <1>4, <1>5, <1>6 DEF Shape
<1>8. Picked(w)'
  <2>1. StartsBlock(w)' BY <1>6 DEF RingInv, Picked, StartsBlock
  <2>2. ASSUME enq[w].at \in Filling \cup {"key"}
        PROVE  /\ enq[w].entry = RingAt(w, Num(tailIndex[w]))
               /\ entries'[w][enq[w].entry].value \notin Blocks
               /\ entries'[w][enq[w].entry].key = entries[w][enq[w].entry].key
    <3>1. /\ enq[w].entry = RingAt(w, Num(tailIndex[w]))
          /\ entries[w][enq[w].entry].value \notin Blocks
      BY <2>2 DEF RingInv, Picked
    <3>2. enq[w].entry \in 1 .. n BY <1>1, <1>2, <1>3, <3>1, RingFacts
    <3> QED BY <1>4, <3>1, <3>2, FreeListAssumption
  <2>3. /\ enq[w].at \in Filling => entries[w][enq[w].entry].key = tailIndex[w]
        /\ enq[w].at = "grow" => EntryOf(w, Num(tailIndex[w])).key # tailIndex[w]
        /\ enq[w].at \in {"fill", "value"} => enq[w].block \in Blocks
    BY DEF RingInv, Picked
  <2>4. PICK T \in Int : T = Num(tailIndex[w]) BY <1>3
  <2>5. /\ EntryOf(w, T)'.key = EntryOf(w, T).key /\ RingAt(w, T)' = RingAt(w, T)
        /\ T = Num(tailIndex'[w])
    BY <1>5, <1>6, <2>4
  <2> QED BY <1>6, <2>1, <2>2, <2>3, <2>4, <2>5 DEF Picked
<1>9. Fresh(w)'
  <2>1. entries[w][e].key # INVALID_BLOCK_BASE
    <3>1. x \in x .. Top(w) BY <1>1, ShapeFacts DEF Home
    <3>2. EntryOf(w, x).key = Key(x) BY <3>1 DEF Home
    <3> QED BY <3>2, KeyOrder, ImplicitProducerAssumption DEF EntryOf
  <2>2. NoBlock # Unwritten BY ImplicitProducerAssumption
  <2>3. ASSUME NEW i \in 1 .. n
        PROVE  /\ entries'[w][i].key = INVALID_BLOCK_BASE => entries'[w][i].value = Unwritten
               /\ entries'[w][i].value = Unwritten =>
                    \/ entries'[w][i].key = INVALID_BLOCK_BASE
                    \/ enq[w].at \in Filling /\ i = enq[w].entry
    <3>1. CASE i = e BY <1>4, <2>1, <2>2, <3>1
    <3>2. CASE i # e BY <1>2, <1>4, <3>2 DEF RingInv, Fresh
    <3> QED BY <3>1, <3>2
  <2> QED BY <1>4, <1>6, <2>3 DEF Fresh
<1>10. HeldHome(w)'
  <2>1. ASSUME NEW i \in 1 .. n, entries'[w][i].value \in Blocks
        PROVE  \E y \in Nat : RingAt(w, y)' = i /\ Home(w, y)'
    <3>1. i # e /\ entries[w][i].value \in Blocks BY <1>4, <2>1, FreeListAssumption
    <3>2. PICK y \in Nat : RingAt(w, y) = i /\ Home(w, y)
      BY <1>2, <3>1 DEF RingInv, HeldHome
    <3>3. y # x /\ y \in Int BY <3>1, <3>2
    <3> QED BY <1>5, <3>2, <3>3
  <2> QED BY <1>4, <2>1 DEF HeldHome
<1> QED BY <1>7, <1>8, <1>9, <1>10 DEF RingInv

LEMMA LeadsSame ==
  ASSUME NEW v, tailIndex'[v] = tailIndex[v], blockIndex'[v] = blockIndex[v],
         \A y : RingAt(v, y)' = RingAt(v, y),
         \A y \in Int : EntryOf(v, y)'.key = EntryOf(v, y).key,
         NEW g, NEW t, NEW x \in Int, Leads(v, g, t, x)
  PROVE  Leads(v, g, t, x)'
<1>1. PICK d \in Nat :
        /\ x + d <= Num(tailIndex[v])
        /\ At(blockIndex[v][g], t - d) = RingAt(v, x)
        /\ At(blockIndex[v][g], t) = RingAt(v, x + d)
        /\ EntryOf(v, x + d).key = Key(x + d)
  BY DEF Leads
<1>2. PICK y \in Int : y = x + d OBVIOUS
<1>3. /\ x + d <= Num(tailIndex'[v])
      /\ At(blockIndex'[v][g], t - d) = RingAt(v, x)'
      /\ At(blockIndex'[v][g], t) = RingAt(v, x + d)'
  BY <1>1
<1>4. EntryOf(v, x + d)'.key = Key(x + d) BY <1>1, <1>2 DEF EntryOf
<1>5. g \in 1 .. Current(v)' BY DEF Leads, Current
<1> QED BY <1>3, <1>4, <1>5 DEF Leads

LEMMA AllServed ==
  ASSUME BlockInv, Served, OfWriters, NEW r \in Readers, deq[r].at = "unlink",
         NEW v, v = deq[r].of, NEW x, x = Num(deq[r].index)
  PROVE  Exhausted(r, v, x)
<1>1. ReaderOK(r) /\ TypeOK BY DEF BlockInv
<1>2. /\ v \in Writers /\ x \in Nat /\ Home(v, x) /\ RingInv(v)
      /\ EntryOf(v, x).value \in Blocks /\ RingAt(v, x) \in 1 .. Len(entries[v])
  BY ReaderAt
<1>3. /\ found[r].entry = RingAt(v, x) /\ found[r].block = EntryOf(v, x).value
      /\ elementsCompletelyDequeued[EntryOf(v, x).value] = BLOCK_SIZE
  BY <1>1 DEF ReaderOK
<1>4. BLOCK_SIZE + Cardinality(InFlight(v, x)) = Claimed(v, x)
  BY <1>2, <1>3 DEF BlockInv, Account
<1>5. x \in Int BY <1>2
<1>6. /\ Claimed(v, x) \in 0 .. BLOCK_SIZE /\ Key(x) \in Int
      /\ Claimed(v, x) = BLOCK_SIZE <=> headIndex[v] >= Key(x) + BLOCK_SIZE
  BY <1>1, <1>2, <1>5, ClaimedSize
<1>7. Cardinality(InFlight(v, x)) \in Nat BY FlightSize
<1>8. Claimed(v, x) = BLOCK_SIZE /\ Cardinality(InFlight(v, x)) = 0
  BY <1>4, <1>6, <1>7, BlockSize
<1>9. InFlight(v, x) = {} BY <1>8, FlightSize
<1>10. ~ Unfinished(v, x)
  <2>1. headIndex[v] \in Nat BY <1>1, <1>2, TailNum
  <2>2. ~ (headIndex[v] < Key(x) + BLOCK_SIZE) BY <1>6, <1>8, <2>1, BlockSize
  <2> QED BY <1>9, <2>2 DEF Unfinished
<1> QED BY <1>2, <1>3, <1>9, <1>10 DEF Exhausted

(* A block that is not the one taken out stays where it is.                *)
LEMMA OthersHome ==
  ASSUME TypeOK, NEW v \in Writers, RingInv(v), NEW x \in Nat, Home(v, x),
         NEW e, e = RingAt(v, x), TakesOut(v, e),
         NEW w \in Writers
  PROVE  /\ Written(w)' = Written(w) /\ Current(w)' = Current(w)
         /\ \A y : RingAt(w, y)' = RingAt(w, y)
         /\ \A y \in Int : EntryOf(w, y)'.key = EntryOf(w, y).key
         /\ \A y \in Int : Home(w, y)' <=> Home(w, y) /\ (w # v \/ y # x)
         /\ \A y \in Int : Home(w, y) /\ (w # v \/ y # x) => EntryOf(w, y)' = EntryOf(w, y)
         /\ w # v => (RingInv(w)' <=> RingInv(w))
<1>1. CASE w = v BY <1>1, TakenHome
<1>2. CASE w # v
  <2>1. e \in 1 .. Len(entries[v])
    <3>1. x \in Int /\ Shape(v) BY DEF RingInv
    <3> QED BY <3>1, RingFacts
  <2>2. /\ tailIndex'[w] = tailIndex[w] /\ enq'[w] = enq[w]
        /\ blockIndex'[w] = blockIndex[w] /\ entries'[w] = entries[w]
    BY <1>2, <2>1, TakenOut DEF TakesOut
  <2> QED BY <1>2, <2>2, RingSame
<1> QED BY <1>1, <1>2

(* A reader that is on the way to another block.                           *)
LEMMA ReaderElsewhere ==
  ASSUME BlockInv, Served, OfWriters, NEW q \in Readers, ReaderOK(q),
         deq[q].at \in Flying \cup {"unlink"},
         UNCHANGED <<headIndex, elementsCompletelyDequeued, blockIndex, tailIndex>>,
         deq'[q] = deq[q], found'[q] = found[q],
         NEW w, w = deq[q].of, NEW y, y = Num(deq[q].index),
         Current(w)' = Current(w),
         \A z : RingAt(w, z)' = RingAt(w, z),
         \A z \in Int : EntryOf(w, z)'.key = EntryOf(w, z).key,
         Home(w, y)', EntryOf(w, y)' = EntryOf(w, y)
  PROVE  ReaderOK(q)'
<1>1. PICK g, a, i, f, t, u :
        /\ g = found[q].header /\ a = deq[q].at /\ i = deq[q].index /\ f = found[q]
        /\ t = found[q].tail /\ u = blockIndex[w][g].tail
  OBVIOUS
<1>2. /\ a \in Flying => i < headIndex[w]
      /\ a = "tail" => g \in 1 .. Current(w) /\ (g = Current(w) \/ Leads(w, g, u, y))
      /\ a = "key" => Leads(w, g, t, y)
      /\ a \in {"value", "move", "empty", "unlink"} => f.entry = RingAt(w, y)
      /\ a \in {"move", "empty", "unlink"} => f.block = EntryOf(w, y).value
      /\ a = "unlink" => elementsCompletelyDequeued[f.block] = BLOCK_SIZE
  BY <1>1 DEF ReaderOK
<1>3. y \in Int
  <2>1. y \in Nat BY ReaderAt
  <2> QED BY <2>1
<1>4. \A k : Leads(w, g, k, y) => Leads(w, g, k, y)' BY <1>3, LeadsSame
<1>5. /\ a \in Flying => i < headIndex'[w]
      /\ a = "tail" => g \in 1 .. Current(w)' /\ (g = Current(w)' \/ Leads(w, g, u, y)')
      /\ a = "key" => Leads(w, g, t, y)'
      /\ a \in {"value", "move", "empty", "unlink"} => f.entry = RingAt(w, y)'
      /\ a \in {"move", "empty", "unlink"} => f.block = EntryOf(w, y)'.value
      /\ a = "unlink" => Home(w, y)' /\ elementsCompletelyDequeued'[f.block] = BLOCK_SIZE
  BY <1>2, <1>4
<1>6. /\ w = deq'[q].of /\ y = Num(deq'[q].index) /\ g = found'[q].header
      /\ a = deq'[q].at /\ i = deq'[q].index /\ f = found'[q] /\ t = found'[q].tail
      /\ u = blockIndex'[w][g].tail
  BY <1>1
<1> QED BY <1>5, <1>6 DEF ReaderOK

(* The block leaves its entry, with all its elements taken.                *)
LEMMA UnlinkInv ==
  ASSUME BlockInv, OfWriters, Served, NEW r \in Readers, Unlink(r)
  PROVE  BlockInv'
<1>1. TypeOK /\ ListInv /\ Alone /\ DequeueStep(r) /\ ~ SetEmpty(r) /\ ~ Claim(r) /\ ~ Move(r)
      /\ deq[r].at = "unlink"
  BY DEF BlockInv, Claim, DequeueStep, Unlink, SetEmpty, Move
<1>2. PICK v, x, b, e : /\ v = deq[r].of /\ x = Num(deq[r].index) /\ b = found[r].block
                        /\ e = RingAt(v, x)
  OBVIOUS
<1>3. /\ v \in Writers /\ x \in Nat /\ Home(v, x) /\ RingInv(v)
      /\ found[r].entry = e /\ e \in 1 .. Len(entries[v])
      /\ b = EntryOf(v, x).value /\ b \in Blocks
      /\ InFlight(v, x) = {} /\ ~ Unfinished(v, x)
  <2>1. deq[r].at = "unlink" /\ v = deq[r].of /\ x = Num(deq[r].index) BY <1>1, <1>2
  <2>2. Exhausted(r, v, x) BY <2>1, AllServed
  <2> QED BY <1>2, <2>2 DEF Exhausted
<1>4. /\ UNCHANGED <<tailIndex, enq, blockIndex, headIndex, elementsCompletelyDequeued, element,
                     found>>
      /\ \A q \in Readers \ {r} : deq'[q] = deq[q] /\ found'[q] = found[q]
  BY <1>1, ReaderFrame
<1>5. TakesOut(v, e) BY <1>2, <1>3, <1>4 DEF Unlink, TakesOut
<1>6. deq \in [Readers -> DeqLocal] /\ deq' = [deq EXCEPT ![r].at = "free"]
  BY <1>1 DEF TypeOK, Unlink
<1>7. deq' \in [Readers -> DeqLocal] /\ deq'[r].at = "free" BY <1>6 DEF DeqLocal
<1>8. entries[v][e].value = b BY <1>2, <1>3 DEF EntryOf
<1>9. ListInv' BY <1>1, <1>2, <1>3, <1>8, UnlinkList
<1>10. TypeOK'
  <2>1. /\ entries' \in [Writers -> Seq(Entry)]
        /\ element' \in [Blocks -> [0 .. BLOCK_SIZE - 1 -> Item \cup {NoItem}]]
        /\ elementsCompletelyDequeued' \in [Blocks -> 0 .. BLOCK_SIZE]
        /\ found' \in [Readers -> FoundLocal]
    BY <1>1, <1>3, <1>4, <1>5, TakenOut DEF TypeOK
  <2> QED BY <1>1, <1>7, <1>9, <2>1, DequeueTyped
<1>11. \A w, y : InFlight(w, y)' = InFlight(w, y)
  BY <1>1, <1>4, <1>7, FlightAside DEF Flying
<1>12. ASSUME NEW w \in Writers
       PROVE  /\ Written(w)' = Written(w) /\ Current(w)' = Current(w)
              /\ \A y : RingAt(w, y)' = RingAt(w, y)
              /\ \A y \in Int : EntryOf(w, y)'.key = EntryOf(w, y).key
              /\ \A y \in Int : Home(w, y)' <=> Home(w, y) /\ (w # v \/ y # x)
              /\ \A y \in Int : Home(w, y) /\ (w # v \/ y # x) => EntryOf(w, y)' = EntryOf(w, y)
              /\ w # v => (RingInv(w)' <=> RingInv(w))
  BY <1>1, <1>2, <1>3, <1>5, OthersHome
<1>13. Alone' BY <1>1, <1>4, <1>7 DEF Alone
<1>14. ASSUME NEW w \in Writers PROVE RingInv(w)' /\ Live(w)'
  <2>1. RingInv(w)' BY <1>1, <1>2, <1>3, <1>5, <1>12, TakenRing DEF BlockInv
  <2>2. ASSUME NEW y \in Nat, y <= Written(w)', Unfinished(w, y)' PROVE Home(w, y)'
    BY <1>3, <1>4, <1>11, <1>12, <2>2 DEF Unfinished, BlockInv, Live
  <2> QED BY <2>1, <2>2 DEF Live
<1>15. ASSUME NEW w \in Writers PROVE Account(w)'
  <2>1. ASSUME NEW y \in Nat, Home(w, y)'
        PROVE  elementsCompletelyDequeued'[EntryOf(w, y)'.value] + Cardinality(InFlight(w, y)')
                 = Claimed(w, y)'
    BY <1>4, <1>11, <1>12, <2>1 DEF Claimed, BlockInv, Account
  <2>2. enq'[w].at = "value" => elementsCompletelyDequeued'[enq'[w].block] = 0
    BY <1>4 DEF BlockInv, Account
  <2> QED BY <2>1, <2>2 DEF Account
<1>16. ASSUME NEW q \in Readers PROVE ReaderOK(q)'
  <2>1. CASE q = r BY <1>7, <2>1 DEF ReaderOK, Flying
  <2>2. CASE q # r /\ deq[q].at \notin Flying \cup {"unlink"}
    BY <1>4, <2>2 DEF ReaderOK, Flying
  <2>3. CASE q # r /\ deq[q].at \in Flying \cup {"unlink"}
    <3>1. PICK w, y : w = deq[q].of /\ y = Num(deq[q].index) OBVIOUS
    <3>2. /\ w \in Writers /\ y \in Nat /\ Home(w, y)
          /\ deq[q].at \in Flying => q \in InFlight(w, y)
      BY <2>3, <3>1, ReaderAt
    <3>3. w # v \/ y # x BY <1>1, <1>2, <1>3, <2>3, <3>1, <3>2 DEF Alone
    <3>4. y \in Int BY <3>2
    <3>5. /\ Current(w)' = Current(w)
          /\ \A z : RingAt(w, z)' = RingAt(w, z)
          /\ \A z \in Int : EntryOf(w, z)'.key = EntryOf(w, z).key
          /\ Home(w, y)' /\ EntryOf(w, y)' = EntryOf(w, y)
      BY <1>12, <3>2, <3>3, <3>4
    <3>6. ReaderOK(q) BY DEF BlockInv
    <3>7. deq'[q] = deq[q] /\ found'[q] = found[q] BY <1>4, <2>3
    <3> QED BY <1>4, <2>3, <3>1, <3>5, <3>6, <3>7, ReaderElsewhere
  <2> QED BY <2>1, <2>2, <2>3
<1> QED BY <1>9, <1>10, <1>13, <1>14, <1>15, <1>16 DEF BlockInv

(* Every step of a dequeue keeps the invariant.                            *)
LEMMA DequeueInv ==
  ASSUME BlockInv, Served, OfWriters, NEW r \in Readers, DequeueStep(r)
  PROVE  BlockInv'
<1>1. \/ Looks(r) \/ Claim(r) \/ LoadHeader(r) \/ LoadTail(r) \/ LoadKey(r) \/ LoadValue(r)
      \/ Move(r) \/ SetEmpty(r) \/ Unlink(r)
  BY DEF DequeueStep, Looks
<1> QED
  BY <1>1, LooksInv, ClaimInv, LoadHeaderInv, LoadTailInv, LoadKeyInv, LoadValueInv,
     MoveInv, SetEmptyInv, UnlinkInv

-------------------------------------------------------------------------------
(* The start.                                                              *)

(* At the start no block is in use and every ring is of unwritten entries. *)
LEMMA InitTyped ==
  ASSUME Init PROVE TypeOK
<1>1. BLOCK_SIZE \in Nat /\ BLOCK_SIZE > 1 /\ IMPLICIT_INITIAL_INDEX_SIZE \in Nat
      /\ IMPLICIT_INITIAL_INDEX_SIZE > 0
  BY ImplicitProducerAssumption
<1>2. ListTypeOK BY DEF Init, ListInit, ListTypeOK, Node, Out, Local, Places
<1>3. FirstHeader \in Header BY <1>1 DEF FirstHeader, Header
<1>4. <<FirstHeader>> \in Seq(Header) BY <1>3
<1>5. FreshEntries(IMPLICIT_INITIAL_INDEX_SIZE) \in Seq(Entry)
  <2>1. FreshEntry \in Entry BY DEF FreshEntry, Entry
  <2> QED BY <1>1, <2>1 DEF FreshEntries
<1>6. blockIndex \in [Writers -> Seq(Header)] /\ entries \in [Writers -> Seq(Entry)]
  BY <1>4, <1>5 DEF Init
<1>7. /\ tailIndex \in [Writers -> Nat] /\ headIndex \in [Writers -> Nat]
      /\ dequeueOptimisticCount \in [Writers -> Nat]
      /\ dequeueOvercommit \in [Writers -> Nat]
      /\ tailBlock \in [Writers -> Node]
      /\ took \in [Writers -> SUBSET Nat] /\ failed \in [Writers -> SUBSET Nat]
  BY DEF Init, Node
<1>8. /\ element \in [Blocks -> [0 .. BLOCK_SIZE - 1 -> Item \cup {NoItem}]]
      /\ elementsCompletelyDequeued \in [Blocks -> 0 .. BLOCK_SIZE]
      /\ unused \subseteq Blocks
  BY <1>1 DEF Init
<1>9. /\ enq \in [Writers -> EnqLocal] /\ deq \in [Readers -> DeqLocal]
      /\ found \in [Readers -> FoundLocal] /\ span \in [Readers -> [there : Nat, overlap : Nat]]
  BY DEF Init, EnqIdle, EnqLocal, DeqIdle, DeqLocal, NotFound, FoundLocal, NoSpan, Node
<1>10. calls \in [Threads -> Nat] /\ faults \in Nat
  BY ImplicitProducerAssumption DEF Init
<1> QED BY <1>2, <1>6, <1>7, <1>8, <1>9, <1>10 DEF TypeOK

(* No thread is in the list and no block has a place.                      *)
LEMMA InitList ==
  ASSUME Init PROVE ListInv
<1>1. ListTypeOK BY InitTyped DEF TypeOK
<1>2. /\ \A t \in Threads : fl[t] = Out
      /\ Out.at = "out" /\ Out.node = NoBlock
      /\ freeListHead = NoBlock /\ NoBlock \notin Blocks
  BY FreeListAssumption DEF Init, ListInit, Out
<1>3. /\ \A w \in Writers : enq[w].at = "idle" /\ enq[w].block = NoBlock
      /\ \A r \in Readers : deq[r].at = "idle"
  BY DEF Init, EnqIdle, DeqIdle
<1>4. Calling BY <1>2, <1>3, ImplicitProducerAssumption DEF Outside, Calling
<1>5. \A t \in Threads : ListLocal(t) BY <1>2 DEF ListLocal, Owning
<1>6. Placed
  <2> DEFINE kind == [b \in Blocks |-> "unused"]
             who == [b \in Blocks |-> NoBlock]
  <2>1. kind \in [Blocks -> Kinds] /\ who \in [Blocks -> Owners] BY DEF Kinds, Owners
  <2>2. Used(kind, who)
    BY <1>3, ImplicitProducerAssumption DEF Init, FreshEntries, FreshEntry, Used,
       WithBlock
  <2>3. Owned(kind, who) BY <1>2 DEF Owned, Owns
  <2>4. Chained(kind) BY <1>2 DEF Chained
  <2>5. Weighed(kind)
    <3>1. \A b \in Blocks : Holding(b) = {} BY <1>2 DEF Holding, Holds
    <3>2. \A b \in Blocks : Held(b) = 0 BY <3>1, FS_EmptySet DEF Held
    <3>3. \A b \in Blocks : freeListRefs[b] = 0 BY DEF Init, ListInit
    <3> QED BY <3>2, <3>3 DEF Weighed, Weight
  <2> QED BY <2>1, <2>2, <2>3, <2>4, <2>5 DEF Placed, Placement
<1> QED BY <1>1, <1>4, <1>5, <1>6 DEF ListInv

(* The ring of a new producer has unwritten entries only.                  *)
LEMMA InitRing ==
  ASSUME Init, NEW w \in Writers
  PROVE  RingInv(w) /\ Live(w) /\ Account(w)
<1>1. PICK n \in Nat : n = IMPLICIT_INITIAL_INDEX_SIZE /\ n > 0
  BY ImplicitProducerAssumption
<1>2. /\ entries[w] = FreshEntries(n) /\ Len(entries[w]) = n
      /\ \A e \in 1 .. n : entries[w][e] = FreshEntry
  BY <1>1 DEF Init, FreshEntries
<1>3. /\ blockIndex[w] = <<FirstHeader>> /\ Current(w) = 1 /\ blockIndex[w][1] = FirstHeader
      /\ CurrentHeader(w) = FirstHeader
  BY DEF Init, Current, CurrentHeader
<1>4. Capacity(FirstHeader) = n /\ \A p \in 1 .. n : FirstHeader.index[p] = p
  BY <1>1 DEF FirstHeader, Capacity
<1>5. /\ tailIndex[w] = 0 /\ enq[w].at = "idle"
      /\ FreshEntry.key = INVALID_BLOCK_BASE /\ FreshEntry.value = Unwritten
      /\ Unwritten \notin Blocks
  BY ImplicitProducerAssumption DEF Init, EnqIdle, FreshEntry
<1>6. Shape(w) BY <1>1, <1>2, <1>3, <1>4 DEF Shape
<1>7. TypeOK BY InitTyped
<1>8. ASSUME NEW x \in Nat PROVE ~ Home(w, x)
  <2>1. RingAt(w, x) \in 1 .. n
    <3>1. x \in Int OBVIOUS
    <3> QED BY <1>2, <1>6, <1>7, <3>1, RingFacts
  <2> QED BY <1>2, <1>5, <2>1 DEF Home, EntryOf
<1>9. RingInv(w)
  BY <1>2, <1>5, <1>6 DEF Picked, StartsBlock, Entering, Filling, Moved, Fresh,
     HeldHome, RingInv
<1>10. Live(w)
  <2>1. Written(w) = 0 - 1
    <3>1. Num(0 - 1) = 0 - 1 BY BlockSize, NumIs DEF Key
    <3> QED BY <1>5, <3>1 DEF Written
  <2> QED BY <2>1 DEF Live
<1>11. Account(w) BY <1>5, <1>8 DEF Account
<1> QED BY <1>9, <1>10, <1>11

(* The invariant at the start.                                             *)
LEMMA InitBlocks ==
  ASSUME Init PROVE BlockInv
<1>1. \A r \in Readers : deq[r].at = "idle" BY DEF Init, DeqIdle
<1>2. Alone /\ \A r \in Readers : ReaderOK(r) BY <1>1 DEF Alone, ReaderOK, Flying
<1> QED BY <1>2, InitTyped, InitList, InitRing DEF BlockInv

(* What the counts give: nothing is taken that has not been put.           *)
LEMMA CountsServe ==
  ASSUME IInv, TypeOK PROVE Served /\ OfWriters
<1>1. OfWriters BY DEF IInv, CountType, OfWriters
<1>2. NeverOverdrawn BY CountsBound
<1>3. ASSUME NEW w \in Writers PROVE headIndex[w] <= tailIndex[w]
  <2> DEFINE S == {r \in Readers : deq[r].of = w /\ deq[r].at = "claim"}
  <2>1. IsFiniteSet(S) BY ImplicitProducerAssumption, FS_Subset
  <2>2. Cardinality(S) \in Nat BY <2>1, FS_CardinalityType
  <2>3. headIndex[w] \in Nat /\ tailIndex[w] \in Nat BY DEF TypeOK
  <2>4. headIndex[w] + Cardinality(S) <= tailIndex[w] BY <1>2 DEF NeverOverdrawn
  <2> QED BY <2>2, <2>3, <2>4
<1> QED BY <1>1, <1>3 DEF Served

(* The invariant is kept, given what the tickets say of the counters.      *)
LEMMA BlocksInductive ==
  ASSUME BlockInv, IInv, [Next]_vars
  PROVE  BlockInv'
<1>1. Served /\ OfWriters BY CountsServe DEF BlockInv
<1>2. CASE UNCHANGED vars BY <1>2, StutterInv
<1>3. CASE Next BY <1>1, <1>3, EnqueueInv, DequeueInv, InListInv DEF Next
<1> QED BY <1>2, <1>3

-------------------------------------------------------------------------------
(* What follows.                                                           *)

(* A reader at the value of its entry has the right entry.                 *)
LEMMA FoundIsRight ==
  ASSUME BlockInv, Served, OfWriters PROVE EntryFound
<1>1. SUFFICES ASSUME NEW r \in Readers, deq[r].at = "value"
               PROVE  /\ entries[deq[r].of][found[r].entry].key = BlockBase(deq[r].index)
                      /\ entries[deq[r].of][found[r].entry].value \in Blocks
  BY DEF EntryFound
<1>2. PICK v, x : v = deq[r].of /\ x = Num(deq[r].index) OBVIOUS
<1>3. /\ EntryOf(v, x).key = Key(x) /\ EntryOf(v, x).value \in Blocks
      /\ Key(x) = BlockBase(deq[r].index)
  BY <1>1, <1>2, ReaderAt DEF Flying
<1>4. found[r].entry = RingAt(v, x) BY <1>1, <1>2 DEF BlockInv, ReaderOK
<1> QED BY <1>2, <1>3, <1>4 DEF EntryOf

(* The list is of nodes that are placed on it.                             *)
LEMMA ListedOnly ==
  ASSUME NEW kind, NEW who, Placement(kind, who), ListTypeOK, NEW b \in OnList
  PROVE  b \in Blocks /\ kind[b] = "listed"
<1> DEFINE S == {c \in Blocks : kind[c] = "listed"}
<1>1. S \in SUBSET Blocks OBVIOUS
<1>2. {freeListHead} \ {NoBlock} \subseteq S BY DEF Placement, Chained, ListTypeOK, Node
<1>3. ASSUME NEW c \in S, freeListNext[c] # NoBlock PROVE freeListNext[c] \in S
  BY <1>3 DEF ListTypeOK, Node, Placement, Chained
<1>4. ({freeListHead} \cup {freeListNext[c] : c \in S}) \ {NoBlock} \subseteq S
  BY <1>2, <1>3
<1>5. b \in Blocks /\ b \in S
  <2> HIDE DEF S
  <2> QED BY <1>1, <1>4 DEF OnList
<1> QED BY <1>5

(* The users of a block are where it is placed.                            *)
LEMMA UserPlaced ==
  ASSUME NEW kind, NEW who, Placement(kind, who), TypeOK, NEW b \in Blocks, NEW u \in Users(b)
  PROVE  \/ kind[b] = "entry" /\ u = who[b]
         \/ kind[b] = "held" /\ u = <<who[b], 0>>
<1>1. CASE \E w \in Writers : \E e \in DOMAIN entries[w] :
             u = <<w, e>> /\ entries[w][e].value = b
  <2>1. PICK w, e : /\ w \in Writers /\ e \in DOMAIN entries[w]
                    /\ u = <<w, e>> /\ entries[w][e].value = b
    BY <1>1
  <2>2. e \in 1 .. Len(entries[w]) BY <2>1 DEF TypeOK
  <2>3. kind[b] = "entry" /\ who[b] = <<w, e>> BY <2>1, <2>2 DEF Placement, Used
  <2> QED BY <2>1, <2>3
<1>2. CASE \E w \in Writers : /\ u = <<w, 0>> /\ enq[w].block = b
                              /\ enq[w].at \in {"fill", "value", "undo", "rewind"}
  BY <1>2 DEF Placement, Used, WithBlock
<1> QED BY <1>1, <1>2 DEF Users

(* Two users of a block would own it both.                                 *)
LEMMA PlacedOnce ==
  ASSUME BlockInv PROVE BlockInOnePlace
<1>1. TypeOK /\ ListTypeOK /\ Placed BY DEF BlockInv, ListInv
<1>2. PICK kind, who : Placement(kind, who) BY <1>1 DEF Placed
<1>3. ASSUME NEW b \in Blocks PROVE Cardinality(Users(b)) <= 1
  <2>1. CASE Users(b) = {} BY <2>1, FS_EmptySet
  <2>2. CASE Users(b) # {}
    <3>1. PICK u : u \in Users(b) BY <2>2
    <3>2. \A o \in Users(b) : o = u BY <1>1, <1>2, <3>1, UserPlaced
    <3>3. Users(b) = {u} BY <3>1, <3>2
    <3>4. Cardinality({u}) = 1 BY FS_Singleton, Zenon
    <3> QED BY <3>3, <3>4
  <2> QED BY <2>1, <2>2
<1>4. ASSUME NEW b \in Blocks, Users(b) # {} PROVE b \notin unused \cup OnList
  BY <1>1, <1>2, <1>4, UserPlaced, ListedOnly DEF Placement, Used
<1> QED BY <1>3, <1>4 DEF BlockInOnePlace

(* Where every block is, who has it and what freeListRefs counts, the ring *)
(* of entries of every producer, and what every reader has found, whatever *)
(* the interleaving, the failures and the rings given up on the way.       *)
THEOREM BlocksKept == Spec => []BlockInv
<1>1. Init => BlockInv BY InitBlocks
<1>2. BlockInv /\ IInv /\ [Next]_vars => BlockInv' BY BlocksInductive
<1> QED BY <1>1, <1>2, TicketsKept, PTL DEF Spec

(* No counter of a dequeue, no count of a block and no freeListRefs goes   *)
(* below zero or above its bound.                                          *)
THEOREM TypeCorrect == Spec => []TypeOK
<1>1. BlockInv => TypeOK BY DEF BlockInv
<1> QED BY <1>1, BlocksKept, PTL

(* Who has an index finds the entry of its block, and the block in it      *)
(* (get_block_index_entry_for_index).                                      *)
THEOREM EntriesFound == Spec => []EntryFound
<1>1. BlockInv /\ IInv => EntryFound BY FoundIsRight, CountsServe DEF BlockInv
<1> QED BY <1>1, BlocksKept, TicketsKept, PTL

(* A block is in one entry or with one writer, and then neither on the     *)
(* free list nor never handed out (FreeList, requisition_block).           *)
THEOREM BlocksApart == Spec => []BlockInOnePlace
<1>1. BlockInv => BlockInOnePlace BY PlacedOnce
<1> QED BY <1>1, BlocksKept, PTL

-------------------------------------------------------------------------------
(* What the slots hold.                                                    *)

(* An index between the two counters, or of a reader under way, is in its  *)
(* place, and so is the next one of a writer that goes on with its block.  *)
LEMMA UpToTail ==
  ASSUME BlockInv, Served, NEW w \in Writers, NEW i \in Nat, i <= tailIndex[w],
         headIndex[w] <= i \/ InFlight(w, Num(i)) # {},
         i < tailIndex[w] \/ Continues(w)
  PROVE  InPlace(w, i)
<1>1. TypeOK /\ Live(w) /\ headIndex[w] <= tailIndex[w] BY DEF BlockInv, Served
<1>2. tailIndex[w] \in Nat /\ headIndex[w] \in Nat /\ i \in Int /\ tailIndex[w] - 1 \in Int
  BY <1>1, TailNum
<1>3. Num(i) \in Nat /\ Slot(i) \in 0 .. BLOCK_SIZE - 1 /\ i < Key(Num(i)) + BLOCK_SIZE
      /\ Key(Num(i)) \in Int
  BY <1>2, NumSlot, NumIs, KeyOrder
<1>4. Unfinished(w, Num(i)) BY <1>2, <1>3, BlockSize DEF Unfinished
<1>5. Num(i) <= Written(w)
  <2>1. CASE i < tailIndex[w] BY <1>2, <1>3, <2>1, NumOrder, TopAt
  <2>2. CASE i = tailIndex[w] /\ Continues(w)
    BY <1>2, <1>3, <2>2, NumBefore, TopAt DEF Continues
  <2> QED BY <1>2, <2>1, <2>2
<1>6. Home(w, Num(i)) BY <1>1, <1>3, <1>4, <1>5 DEF Live
<1> QED BY <1>3, <1>4, <1>5, <1>6 DEF InPlace, Home

(* An element waiting is in its place.                                     *)
LEMMA PendingPlace ==
  ASSUME BlockInv, Served, NEW w \in Writers, NEW i \in Nat, Pending(w, i)
  PROVE  InPlace(w, i)
<1>1. TypeOK /\ headIndex[w] \in Nat /\ tailIndex[w] \in Nat /\ headIndex[w] <= tailIndex[w]
  BY TailNum DEF BlockInv, Served
<1>2. CASE headIndex[w] <= i /\ i < tailIndex[w] BY <1>1, <1>2, UpToTail
<1>3. CASE enq[w].at = "publish" /\ i = tailIndex[w]
  BY <1>1, <1>3, UpToTail DEF Continues
<1>4. ASSUME NEW r \in Readers, deq[r].of = w, deq[r].at \in Bound, deq[r].index = i
      PROVE  InPlace(w, i)
  BY <1>1, <1>4, UpToTail DEF Bound, Flying, BlockInv, ReaderOK, InFlight
<1> QED BY <1>2, <1>3, <1>4 DEF Pending

(* Two elements are not in one slot.                                       *)
LEMMA SlotAlone ==
  ASSUME BlockInv, NEW v \in Writers, NEW w \in Writers, NEW i \in Nat, NEW j \in Nat,
         InPlace(v, i), InPlace(w, j), Slot(i) = Slot(j),
         EntryOf(v, Num(i)).value = EntryOf(w, Num(j)).value
  PROVE  v = w /\ i = j
<1>1. ListInv /\ TypeOK /\ Shape(v) /\ Shape(w) BY DEF BlockInv, RingInv
<1>2. Num(i) \in Int /\ Num(j) \in Int /\ Home(v, Num(i)) /\ Home(w, Num(j))
  BY DEF InPlace
<1>3. v = w /\ Num(i) = Num(j) BY <1>1, <1>2, HomeAlone
<1>4. i \in Int /\ j \in Int OBVIOUS
<1>5. i = Key(Num(i)) + Slot(i) /\ j = Key(Num(j)) + Slot(j) BY <1>4, NumSlot
<1> QED BY <1>3, <1>5

(* Nor is one in a block that a writer holds.                              *)
LEMMA NotHeld ==
  ASSUME BlockInv, NEW v \in Writers, NEW i \in Nat, InPlace(v, i),
         NEW w \in Writers, enq[w].at \in WithBlock, enq[w].block \in Blocks
  PROVE  EntryOf(v, Num(i)).value # enq[w].block
<1>1. ListInv /\ TypeOK /\ Shape(v) /\ Num(i) \in Int BY DEF BlockInv, RingInv, InPlace
<1>2. RingAt(v, Num(i)) \in 1 .. Len(entries[v]) BY <1>1, RingFacts
<1> QED BY <1>1, <1>2, HeldAlone DEF EntryOf

(* A writer adds an element to wait for, in a block of its own or in the   *)
(* block it goes on with.                                                  *)
LEMMA WriterAdds ==
  ASSUME BlockInv, NEW w \in Writers, EnqueueStep(w), NEW v \in Writers, NEW i \in Nat,
         Pending(v, i)'
  PROVE  \/ Pending(v, i)
         \/ v = w /\ i = tailIndex[w] /\ (Construct(w) \/ WriteValue(w))
<1>1. TypeOK /\ UNCHANGED <<headIndex, deq>> /\ (Publish(w) \/ UNCHANGED tailIndex)
  BY WriterKeeps DEF BlockInv
<1>2. /\ tailIndex \in [Writers -> Nat] /\ tailIndex[v] \in Nat BY <1>1 DEF TypeOK
<1>3. CASE headIndex'[v] <= i /\ i < tailIndex'[v]
  <2>1. CASE tailIndex'[v] = tailIndex[v] BY <1>1, <1>3, <2>1 DEF Pending
  <2>2. CASE Publish(w) /\ v = w BY <1>1, <1>2, <1>3, <2>2 DEF Publish, Pending
  <2> QED BY <1>1, <2>1, <2>2, WriterFrame
<1>4. CASE enq'[v].at = "publish" /\ i = tailIndex'[v]
  <2>1. CASE v # w BY <1>1, <1>4, <2>1, WriterFrame DEF Pending
  <2>2. CASE v = w
    BY <1>1, <1>4, <2>2, WriterPlaces DEF EnqueueStep, Construct, WriteValue, countVars
  <2> QED BY <2>1, <2>2
<1>5. CASE \E r \in Readers : deq'[r].of = v /\ deq'[r].at \in Bound /\ deq'[r].index = i
  BY <1>1, <1>5 DEF Pending
<1> QED BY <1>3, <1>4, <1>5 DEF Pending

(* Where a writer puts an element no other one waits or will wait.         *)
LEMMA WriterPuts ==
  ASSUME BlockInv, Served, NEW w \in Writers, TailHome(w), EnqueueStep(w)
  PROVE  \/ UNCHANGED element
         \/ Fill(w) /\ enq[w].block \in Blocks /\ enq[w].at = "fill"
            /\ Write(enq[w].block, tailIndex[w], <<w, tailIndex[w]>>)
         \/ Construct(w) /\ InPlace(w, tailIndex[w])
            /\ Write(EntryOf(w, Num(tailIndex[w])).value, tailIndex[w], <<w, tailIndex[w]>>)
<1>1. CASE Fill(w) BY <1>1 DEF Fill, BlockInv, RingInv, Picked
<1>2. CASE Construct(w)
  BY <1>2, TailNum, UpToTail DEF Construct, Continues, TailHome, BlockInv, Served
<1> QED BY <1>1, <1>2, WriterKeeps

(* What has been written, and what has not.                                *)
LEMMA WrittenOnly ==
  ASSUME TypeOK, NEW b \in Blocks, NEW i \in Nat, NEW x, Write(b, i, x)
  PROVE  /\ element'[b][Slot(i)] = x
         /\ \A c \in Blocks : \A j \in Nat :
              c # b \/ Slot(j) # Slot(i) => element'[c][Slot(j)] = element[c][Slot(j)]
<1>1. element \in [Blocks -> [0 .. BLOCK_SIZE - 1 -> Item \cup {NoItem}]] BY DEF TypeOK
<1>2. \A j \in Nat : Slot(j) \in 0 .. BLOCK_SIZE - 1 BY NumSlot
<1>3. element' = [element EXCEPT ![b][Slot(i)] = x] BY DEF Write
<1>4. PICK s \in 0 .. BLOCK_SIZE - 1 : s = Slot(i) BY <1>2
<1>5. PICK f : f = element[b] OBVIOUS
<1>6. f \in [0 .. BLOCK_SIZE - 1 -> Item \cup {NoItem}] BY <1>1, <1>5
<1>7. element'[b] = [f EXCEPT ![s] = x] /\ \A c \in Blocks \ {b} : element'[c] = element[c]
  BY <1>1, <1>3, <1>4, <1>5
<1>8. element'[b][s] = x /\ \A t \in 0 .. BLOCK_SIZE - 1 : t # s => element'[b][t] = f[t]
  BY <1>6, <1>7
<1> QED BY <1>2, <1>4, <1>5, <1>7, <1>8

(* An element waiting stays where it is.                                   *)
LEMMA StoredStays ==
  ASSUME BlockInv, Served, NEW w \in Writers, TailHome(w), EnqueueStep(w),
         NEW v \in Writers, NEW i \in Nat, InPlace(v, i), Stored(EntryOf(v, Num(i)).value, v, i)
  PROVE  Stored(EntryOf(v, Num(i)).value, v, i)'
<1>1. PICK b : b = EntryOf(v, Num(i)).value OBVIOUS
<1>2. TypeOK /\ b \in Blocks /\ EntryOf(v, Num(i))'.value = b
  BY <1>1, HomeStays DEF InPlace, BlockInv
<1>3. element[b][Slot(i)] = <<v, i>> BY <1>1 DEF Stored
<1>4. element'[b][Slot(i)] = <<v, i>>
  <2>0. PICK t \in Nat : t = tailIndex[w] BY <1>2, TailNum
  <2>1. CASE UNCHANGED element BY <1>3, <2>1
  <2>2. CASE Fill(w) /\ enq[w].block \in Blocks /\ enq[w].at = "fill"
             /\ Write(enq[w].block, t, <<w, t>>)
    <3>1. b # enq[w].block BY <1>1, <2>2, NotHeld DEF WithBlock
    <3> QED BY <1>2, <1>3, <2>2, <3>1, WrittenOnly
  <2>3. CASE InPlace(w, t) /\ Write(EntryOf(w, Num(t)).value, t, <<w, t>>)
    BY <1>1, <1>2, <1>3, <2>3, SlotAlone, WrittenOnly DEF InPlace
  <2> QED BY <2>0, <2>1, <2>2, <2>3, WriterPuts
<1> QED BY <1>2, <1>4 DEF Stored

(* The element of a writer on its way into a block.                        *)
LEMMA ValueStays ==
  ASSUME BlockInv, Served, NEW w \in Writers, TailHome(w), EnqueueStep(w),
         NEW v \in Writers, Contents(v), enq'[v].at = "value"
  PROVE  Stored(enq[v].block, v, tailIndex[v])'
<1>1. TypeOK BY DEF BlockInv
<1>2. PICK t \in Nat : t = tailIndex[w] BY <1>1, TailNum
<1>3. CASE v = w
  <2>1. Fill(w) BY <1>1, <1>3, WriterPlaces DEF EnqueueStep
  <2>2. enq[w].block \in Blocks /\ Write(enq[w].block, t, <<w, t>>)
    BY <1>2, <2>1 DEF Fill, BlockInv, RingInv, Picked
  <2>3. enq'[w].block = enq[w].block /\ tailIndex'[w] = t
    BY <1>1, <1>2, <2>1 DEF Fill, TypeOK, EnqLocal, countVars
  <2>4. element'[enq[w].block][Slot(t)] = <<w, t>> BY <1>1, <2>2, WrittenOnly
  <2> QED BY <1>3, <2>3, <2>4 DEF Stored
<1>4. CASE v # w
  <2>1. enq'[v] = enq[v] /\ tailIndex'[v] = tailIndex[v] BY <1>1, <1>4, WriterFrame
  <2>2a. PICK i \in Nat : i = tailIndex[v] BY <1>1, TailNum
  <2>2. PICK b : b = enq[v].block /\ i = tailIndex[v] BY <2>2a
  <2>3. b \in Blocks /\ enq[v].at \in WithBlock /\ element[b][Slot(i)] = <<v, i>>
    BY <2>1, <2>2 DEF BlockInv, RingInv, Picked, WithBlock, Contents, Stored
  <2>4. element'[b][Slot(i)] = <<v, i>>
    <3>1. CASE UNCHANGED element BY <2>3, <3>1
    <3>2. CASE Fill(w) /\ enq[w].block \in Blocks /\ enq[w].at = "fill"
               /\ Write(enq[w].block, t, <<w, t>>)
      <4>1. b # enq[w].block
        BY <1>4, <2>2, <2>3, <3>2, HeldAlone DEF BlockInv, WithBlock
      <4> QED BY <1>1, <2>3, <3>2, <4>1, WrittenOnly
    <3>3. CASE InPlace(w, t) /\ Write(EntryOf(w, Num(t)).value, t, <<w, t>>)
      BY <1>1, <2>2, <2>3, <3>3, NotHeld, WrittenOnly DEF InPlace
    <3> QED BY <1>2, <3>1, <3>2, <3>3, WriterPuts
  <2> QED BY <2>1, <2>2, <2>4 DEF Stored
<1> QED BY <1>3, <1>4

(* The element that is added is in its slot.                               *)
LEMMA StoredNew ==
  ASSUME BlockInv, Served, NEW w \in Writers, TailHome(w), Contents(w),
         Construct(w) \/ WriteValue(w), NEW i \in Nat, i = tailIndex[w]
  PROVE  Stored(EntryOf(w, Num(i)).value, w, i)'
<1>1. TypeOK /\ RingInv(w) /\ EnqueueStep(w) /\ Num(i) \in Int
  BY TailNum DEF BlockInv, EnqueueStep
<1>2. CASE Construct(w)
  <2>1. ~ Fill(w) /\ Slot(i) # 0 /\ Continues(w) BY <1>2 DEF Construct, Fill, Continues
  <2>2. PICK b : b = EntryOf(w, Num(i)).value OBVIOUS
  <2>3. InPlace(w, i) BY <2>1, UpToTail DEF Served
  <2>4. b \in Blocks /\ Write(b, i, <<w, i>>)
    BY <1>2, <2>1, <2>2, <2>3 DEF InPlace, TailHome, Construct
  <2>5. element'[b][Slot(i)] = <<w, i>> BY <1>1, <2>4, WrittenOnly
  <2>6. EntryOf(w, Num(i))'.value = b BY <1>1, <2>2, <2>3, HomeStays DEF InPlace
  <2> QED BY <2>5, <2>6 DEF Stored
<1>3. CASE WriteValue(w)
  BY <1>1, <1>3, EnqueueHome DEF WriteValue, blockVars, Contents, Stored
<1> QED BY <1>2, <1>3

(* The writer's block stays that of the next index.                        *)
LEMMA TailHomeStep ==
  ASSUME BlockInv, Served, NEW w \in Writers, EnqueueStep(w), NEW v \in Writers, TailHome(v)
  PROVE  TailHome(v)'
<1>1. TypeOK /\ RingInv(w) BY DEF BlockInv
<1>2. PICK t \in Nat : t = tailIndex[w] BY <1>1, TailNum
<1>3. CASE v # w BY <1>1, <1>3, WriterFrame, RingSame DEF TailHome, Continues
<1>4. CASE v = w
  <2>1. SUFFICES ASSUME Continues(w)', NEW u, u = tailIndex'[w]
                 PROVE  tailBlock'[w] = EntryOf(w, Num(u))'.value
    BY <1>4 DEF TailHome, EntryOf, RingAt
  <2>2. Continues(w) => EntryOf(w, Num(t))'.value = EntryOf(w, Num(t)).value
                        /\ tailBlock[w] = EntryOf(w, Num(t)).value
    <3>1. SUFFICES ASSUME Continues(w)
                   PROVE  EntryOf(w, Num(t))'.value = EntryOf(w, Num(t)).value
      BY <1>2, <1>4 DEF TailHome
    <3>2. headIndex[w] <= t /\ t <= tailIndex[w] BY <1>2 DEF Served
    <3>3. InPlace(w, t) BY <3>1, <3>2, UpToTail
    <3>4. Home(w, Num(t)) /\ Num(t) \in Int BY <3>3 DEF InPlace
    <3> QED BY <3>4, HomeStays
  <2>3. CASE Publish(w)
    <3>1. /\ tailIndex'[w] = t + 1 /\ enq'[w].at = "idle" /\ enq[w].at = "publish"
          /\ tailBlock' = tailBlock
      BY <1>1, <1>2, <2>3 DEF Publish, TypeOK, EnqIdle, indexVars
    <3>2. Slot(t + 1) # 0 BY <2>1, <3>1 DEF Continues
    <3>3. Num((t + 1) - 1) = Num(t + 1) /\ (t + 1) - 1 = t BY <3>2, NumBefore
    <3>4. Num(t + 1) = Num(t) BY <3>3
    <3> QED BY <2>1, <2>2, <3>1, <3>4 DEF Continues
  <2>4. CASE WriteValue(w)
    BY <1>1, <1>2, <2>1, <2>4, EnqueueHome, TailNum DEF WriteValue, TypeOK, countVars
  <2>5. CASE ~ Publish(w) /\ ~ WriteValue(w)
    <3>1. tailIndex' = tailIndex /\ tailBlock' = tailBlock BY <2>5, WriterKeeps
    <3>2. Continues(w)
      BY <1>1, <2>1, <2>5, <3>1, WriterPlaces DEF EnqueueStep, Construct, Continues
    <3> QED BY <1>2, <2>1, <2>2, <3>1, <3>2
  <2> QED BY <2>3, <2>4, <2>5
<1> QED BY <1>3, <1>4

(* A step of a writer keeps what the slots hold.                           *)
LEMMA EnqueueSlots ==
  ASSUME BlockInv, Served, SlotInv, NEW w \in Writers, EnqueueStep(w)
  PROVE  SlotInv'
<1>1. Distinct' BY WriterKeeps DEF SlotInv, Distinct
<1>2. ASSUME NEW v \in Writers PROVE TailHome(v)' BY TailHomeStep DEF SlotInv
<1>3. ASSUME NEW v \in Writers PROVE Contents(v)'
  <2>1. TailHome(w) /\ Contents(w) /\ Contents(v) BY DEF SlotInv
  <2>2. enq'[v].at = "value" => Stored(enq[v].block, v, tailIndex[v])'
    BY <2>1, ValueStays
  <2>3. ASSUME NEW i \in Nat, Pending(v, i)'
        PROVE  Stored(EntryOf(v, Num(i)).value, v, i)'
    <3>1. CASE Pending(v, i) BY <2>1, <3>1, PendingPlace, StoredStays DEF Contents
    <3>2. CASE v = w /\ i = tailIndex[w] /\ (Construct(w) \/ WriteValue(w))
      BY <2>1, <3>2, StoredNew
    <3> QED BY <2>3, <3>1, <3>2, WriterAdds
  <2> QED BY <2>2, <2>3 DEF Contents
<1> QED BY <1>1, <1>2, <1>3 DEF SlotInv

(* A dequeue leaves the entry of every element waiting.                    *)
LEMMA EntryStays ==
  ASSUME BlockInv, Served, OfWriters, NEW r \in Readers, DequeueStep(r),
         NEW v \in Writers, NEW i \in Nat, InPlace(v, i)
  PROVE  EntryOf(v, Num(i))' = EntryOf(v, Num(i))
<1>1. TypeOK BY DEF BlockInv
<1>2. CASE ~ Unlink(r) BY <1>1, <1>2, ReaderFrame, RingFrame
<1>3. CASE Unlink(r)
  <2>1. PICK w, x, e : w = deq[r].of /\ x = Num(deq[r].index) /\ e = found[r].entry
    OBVIOUS
  <2>2. deq[r].at = "unlink" BY <1>3 DEF Unlink
  <2>3. Exhausted(r, w, x) BY <2>1, <2>2, AllServed
  <2>4. TakesOut(w, e) BY <1>1, <1>3, <2>1, ReaderFrame DEF Unlink, TakesOut
  <2>5. /\ w \in Writers /\ x \in Nat /\ Home(w, x) /\ RingInv(w) /\ e = RingAt(w, x)
        /\ ~ Unfinished(w, x)
    BY <2>1, <2>3 DEF Exhausted
  <2>6. PICK y \in Nat : y = Num(i) BY DEF InPlace
  <2>7. Home(v, y) /\ (v # w \/ y # x) /\ y \in Int BY <2>5, <2>6 DEF InPlace
  <2>8. EntryOf(v, y)' = EntryOf(v, y) BY <1>1, <2>4, <2>5, <2>7, OthersHome
  <2> QED BY <2>6, <2>8
<1> QED BY <1>2, <1>3

(* A dequeue gets its index from the counter and keeps it.                 *)
LEMMA BoundStep ==
  ASSUME TypeOK, OfWriters, NeverOverdrawn, NEW r \in Readers, DequeueStep(r),
         deq'[r].at \in Bound
  PROVE  \/ Claim(r) /\ Claims(r, deq[r].of)
         \/ KeepsIndex(r) /\ UNCHANGED headIndex /\ ~ Move(r)
<1>0. deq \in [Readers -> DeqLocal] /\ headIndex \in [Writers -> Nat] /\ deq[r] \in DeqLocal
  BY DEF TypeOK
<1>1. CASE Claim(r)
  <2>1. PICK w \in Writers : w = deq[r].of
    <3>1. deq[r].at # "idle" BY <1>1 DEF Claim
    <3> QED BY <3>1 DEF OfWriters
  <2>2. deq[r].at = "claim" /\ headIndex' = [headIndex EXCEPT ![w] = @ + 1]
    BY <1>1, <2>1 DEF Claim
  <2>3. deq'[r].of = w /\ deq'[r].index = headIndex[w]
    BY <1>0, <1>1, <2>1 DEF Claim, DeqIdle
  <2>4. headIndex[w] < tailIndex[w]
    <3> DEFINE S == {q \in Readers : deq[q].of = w /\ deq[q].at = "claim"}
    <3>1. IsFiniteSet(S) BY ImplicitProducerAssumption, FS_Subset
    <3>2. r \in S BY <2>1, <2>2
    <3>3. Cardinality(S) \in Nat /\ Cardinality(S) # 0
      BY <3>1, <3>2, FS_CardinalityType, FS_EmptySet
    <3>4. headIndex[w] + Cardinality(S) <= tailIndex[w] BY DEF NeverOverdrawn
    <3>5. headIndex[w] \in Nat /\ tailIndex[w] \in Nat BY TailNum
    <3> QED BY <3>3, <3>4, <3>5
  <2> QED BY <1>1, <2>1, <2>2, <2>3, <2>4 DEF Claims
<1>2. CASE LooksUp(r)
  <2>1. deq[r].at \in Bound /\ ~ Claim(r)
    BY <1>2, Zenon DEF LooksUp, LoadHeader, LoadTail, LoadKey, LoadValue, Move, Claim,
       Bound
  <2>2. deq'[r].of = deq[r].of /\ deq'[r].index = deq[r].index /\ UNCHANGED headIndex
    BY <1>2, <2>1, LooksUpPlaces, ReaderFrame
  <2>3. ~ Move(r) BY <1>0 DEF Move, DeqLocal, Bound
  <2> QED BY <2>1, <2>2, <2>3 DEF KeepsIndex
<1>3. CASE Looks(r) BY <1>3, LooksPlaces DEF Bound, Flying
<1>4. CASE SetEmpty(r) \/ Unlink(r)
  BY <1>0, <1>4 DEF SetEmpty, Unlink, Dequeued, DeqIdle, DeqLocal, Bound
<1> QED BY <1>1, <1>2, <1>3, <1>4 DEF DequeueStep, LooksUp, Looks

(* No two dequeues have one index.                                         *)
LEMMA DistinctStep ==
  ASSUME BlockInv, OfWriters, NeverOverdrawn, Distinct, NEW r \in Readers, DequeueStep(r)
  PROVE  Distinct'
<1>1. TypeOK /\ \A q \in Readers \ {r} : deq'[q] = deq[q] BY ReaderFrame DEF BlockInv
<1>2. ASSUME NEW q \in Readers, q # r, deq'[r].of = deq[q].of,
             deq'[r].at \in Bound, deq[q].at \in Bound
      PROVE  deq'[r].index # deq[q].index
  <2>1. CASE KeepsIndex(r) BY <1>2, <2>1 DEF KeepsIndex, Distinct
  <2>2. CASE Claims(r, deq[r].of)
    <3>1. deq[q].of \in Writers /\ deq'[r].index = headIndex[deq[q].of]
      BY <1>2, <2>2 DEF Claims
    <3>2. deq[q].index < headIndex[deq[q].of]
      BY <1>2 DEF BlockInv, ReaderOK, Bound, Flying
    <3>3. deq[q].index \in Nat /\ headIndex[deq[q].of] \in Nat
      BY <1>1, <3>1 DEF TypeOK, DeqLocal
    <3> QED BY <3>1, <3>2, <3>3
  <2> QED BY <1>1, <1>2, <2>1, <2>2, BoundStep
<1> QED BY <1>1, <1>2 DEF Distinct

(* A dequeue waits for nothing that did not wait before, and for nothing   *)
(* it has taken.                                                           *)
LEMMA ReaderAdds ==
  ASSUME BlockInv, Served, OfWriters, NeverOverdrawn, Distinct, NEW r \in Readers,
         DequeueStep(r), NEW v \in Writers, NEW i \in Nat, Pending(v, i)'
  PROVE  Pending(v, i) /\ (Move(r) => deq[r].of # v \/ deq[r].index # i)
<1>1. /\ TypeOK /\ UNCHANGED <<tailIndex, enq>>
      /\ \A q \in Readers \ {r} : deq'[q] = deq[q]
      /\ ~ Claim(r) => UNCHANGED headIndex
  BY ReaderFrame DEF BlockInv
<1>2. /\ headIndex \in [Writers -> Nat] /\ headIndex[v] \in Nat /\ tailIndex[v] \in Nat
      /\ headIndex[v] <= tailIndex[v]
  BY <1>1 DEF TypeOK, Served
<1>3. headIndex[v] <= headIndex'[v] /\ headIndex'[v] \in Nat BY <1>1, <1>2 DEF Claim
<1>4. ASSUME Move(r), deq[r].of = v, deq[r].index = i
      PROVE  i < headIndex[v] /\ deq[r].at \in Bound /\ deq'[r].at \notin Bound /\ ~ Claim(r)
  BY <1>1, <1>4 DEF Move, Claim, BlockInv, ReaderOK, Flying, TypeOK, DeqLocal, Bound
<1>5. CASE headIndex'[v] <= i /\ i < tailIndex'[v]
  BY <1>1, <1>2, <1>3, <1>4, <1>5 DEF Pending
<1>6. CASE enq'[v].at = "publish" /\ i = tailIndex'[v]
  BY <1>1, <1>2, <1>4, <1>6 DEF Pending
<1>7. ASSUME NEW q \in Readers, deq'[q].of = v, deq'[q].at \in Bound, deq'[q].index = i
      PROVE  Pending(v, i) /\ (Move(r) => deq[r].of # v \/ deq[r].index # i)
  <2>1. CASE q # r BY <1>1, <1>4, <1>7, <2>1 DEF Pending, Distinct
  <2>2. CASE q = r
    <3>1. CASE Claim(r) /\ Claims(r, deq[r].of)
      BY <1>2, <1>4, <1>7, <2>2, <3>1 DEF Claims, Pending
    <3>2. CASE KeepsIndex(r) /\ ~ Move(r) BY <1>7, <2>2, <3>2 DEF Pending, KeepsIndex
    <3> QED BY <1>1, <1>7, <2>2, <3>1, <3>2, BoundStep
  <2> QED BY <2>1, <2>2
<1> QED BY <1>5, <1>6, <1>7 DEF Pending

(* An element waiting is where it was after a step of a dequeue.           *)
LEMMA ReaderLeaves ==
  ASSUME BlockInv, Served, OfWriters, NEW r \in Readers, DequeueStep(r),
         NEW b \in Blocks, NEW i \in Nat,
         NEW v, element[b][Slot(i)] = <<v, i>>,
         \A w \in Writers : \A j \in Nat :
           Move(r) /\ deq[r].of = w /\ deq[r].index = j /\ InPlace(w, j) =>
             b # EntryOf(w, Num(j)).value \/ Slot(i) # Slot(j)
  PROVE  element'[b][Slot(i)] = <<v, i>>
<1>1. TypeOK BY DEF BlockInv
<1>2. CASE ~ Move(r) BY <1>1, <1>2, ReaderFrame
<1>3. CASE Move(r)
  <2>1. deq[r].at = "move" /\ deq[r].at \in Flying /\ deq[r].at \in Bound
    BY <1>3 DEF Move, Flying, Bound
  <2>2. PICK w \in Writers, j \in Nat : w = deq[r].of /\ j = deq[r].index
    BY <1>1, <2>1 DEF OfWriters, TypeOK, DeqLocal
  <2>3. Pending(w, j) BY <2>1, <2>2 DEF Pending
  <2>4. InPlace(w, j) BY <2>3, PendingPlace
  <2>5. PICK c : c = EntryOf(w, Num(j)).value OBVIOUS
  <2>6. c \in Blocks /\ found[r].block = c
    BY <2>1, <2>2, <2>4, <2>5 DEF InPlace, BlockInv, ReaderOK
  <2>7. Write(c, j, NoItem) BY <1>3, <2>2, <2>6 DEF Move
  <2>8. b # c \/ Slot(i) # Slot(j) BY <1>3, <2>2, <2>4, <2>5
  <2> QED BY <1>1, <2>6, <2>7, <2>8, WrittenOnly
<1> QED BY <1>2, <1>3

(* A step of a dequeue keeps what the slots hold.                          *)
LEMMA DequeueSlots ==
  ASSUME BlockInv, Served, OfWriters, NeverOverdrawn, SlotInv, NEW r \in Readers,
         DequeueStep(r)
  PROVE  SlotInv'
<1>1. TypeOK /\ UNCHANGED <<tailIndex, enq, tailBlock>> BY ReaderFrame DEF BlockInv
<1>2. Distinct /\ Distinct' BY DistinctStep DEF SlotInv
<1>3. ASSUME NEW v \in Writers PROVE TailHome(v)'
  <2>1. PICK t \in Nat : t = tailIndex[v] BY <1>1, TailNum
  <2>2. SUFFICES ASSUME Continues(v)'
                 PROVE  tailBlock'[v] = EntryOf(v, Num(t))'.value
    BY <1>1, <2>1 DEF TailHome, EntryOf, RingAt
  <2>3. Continues(v) BY <1>1, <2>2 DEF Continues
  <2>4. headIndex[v] <= t /\ t <= tailIndex[v] BY <2>1 DEF Served
  <2>5. InPlace(v, t) BY <2>3, <2>4, UpToTail
  <2>6. EntryOf(v, Num(t))' = EntryOf(v, Num(t)) BY <2>5, EntryStays
  <2>7. tailBlock[v] = EntryOf(v, Num(t)).value BY <2>1, <2>3 DEF SlotInv, TailHome
  <2> QED BY <1>1, <2>6, <2>7
<1>4. ASSUME NEW v \in Writers PROVE Contents(v)'
  <2>1. Contents(v) BY DEF SlotInv
  <2>2. ASSUME NEW i \in Nat, Pending(v, i)'
        PROVE  Stored(EntryOf(v, Num(i)).value, v, i)'
    <3>1. Pending(v, i) /\ (Move(r) => deq[r].of # v \/ deq[r].index # i)
      BY <1>2, <2>2, ReaderAdds
    <3>2. InPlace(v, i) BY <3>1, PendingPlace
    <3>3. PICK b \in Blocks : b = EntryOf(v, Num(i)).value BY <3>2 DEF InPlace
    <3>4. element[b][Slot(i)] = <<v, i>> BY <2>1, <3>1, <3>3 DEF Contents, Stored
    <3>5. ASSUME NEW w \in Writers, NEW j \in Nat,
                 Move(r), deq[r].of = w, deq[r].index = j, InPlace(w, j)
          PROVE  b # EntryOf(w, Num(j)).value \/ Slot(i) # Slot(j)
      BY <3>1, <3>2, <3>3, <3>5, SlotAlone
    <3>6. element'[b][Slot(i)] = <<v, i>> BY <3>4, <3>5, ReaderLeaves
    <3>7. EntryOf(v, Num(i))' = EntryOf(v, Num(i)) BY <3>2, EntryStays
    <3> QED BY <3>3, <3>6, <3>7 DEF Stored
  <2>3. ASSUME enq'[v].at = "value" PROVE Stored(enq[v].block, v, tailIndex[v])'
    BY <1>1, <2>1, <2>3, TailNum, NotHeld, ReaderLeaves DEF WithBlock, BlockInv,
       RingInv, Picked, Contents, Stored
  <2> QED BY <2>2, <2>3 DEF Contents
<1> QED BY <1>2, <1>3, <1>4 DEF SlotInv

(* Nor does the free list touch a slot.                                    *)
LEMMA SlotsSame ==
  ASSUME SlotInv, UNCHANGED <<countVars, indexVars, element, enq, deq>>
  PROVE  SlotInv'
<1>1. /\ UNCHANGED <<tailIndex, headIndex, enq, deq, element, tailBlock>>
      /\ IndexSame
  BY DEF countVars, indexVars, IndexSame
<1>2. Distinct' BY <1>1 DEF SlotInv, Distinct
<1>3. ASSUME NEW v \in Writers PROVE Contents(v)' /\ TailHome(v)'
  <2>1. \A x : EntryOf(v, x)' = EntryOf(v, x) BY <1>1, RingFrame
  <2>2. Contents(v) /\ TailHome(v) BY DEF SlotInv
  <2>3. ASSUME NEW i \in Nat, Pending(v, i)'
        PROVE  Stored(EntryOf(v, Num(i)).value, v, i)'
    BY <1>1, <2>1, <2>2, <2>3 DEF Pending, Contents, Stored
  <2>4. enq'[v].at = "value" => Stored(enq[v].block, v, tailIndex[v])'
    BY <1>1, <2>2 DEF Contents, Stored
  <2>5. TailHome(v)'
    <3>1. PICK t : t = tailIndex[v] OBVIOUS
    <3>2. EntryOf(v, Num(t))' = EntryOf(v, Num(t)) BY <2>1
    <3>3. SUFFICES ASSUME Continues(v)' PROVE tailBlock'[v] = EntryOf(v, Num(t))'.value
      BY <1>1, <3>1 DEF TailHome, EntryOf, RingAt
    <3> QED BY <1>1, <2>2, <3>1, <3>2, <3>3 DEF TailHome, Continues
  <2> QED BY <2>3, <2>4, <2>5 DEF Contents
<1> QED BY <1>2, <1>3 DEF SlotInv

(* At the start nothing waits.                                             *)
LEMMA InitSlots ==
  ASSUME Init PROVE SlotInv
<1>1. /\ \A w \in Writers : /\ tailIndex[w] = 0 /\ headIndex[w] = 0
                            /\ enq[w].at = "idle"
      /\ \A r \in Readers : deq[r].at = "idle"
  BY DEF Init, EnqIdle, DeqIdle
<1>2. Slot(0) = 0 BY BlockSize DEF Slot
<1>3. Distinct BY <1>1 DEF Distinct, Bound
<1>4. ASSUME NEW w \in Writers, NEW i \in Nat PROVE ~ Pending(w, i)
  BY <1>1 DEF Pending, Bound
<1>5. ASSUME NEW w \in Writers PROVE Contents(w) /\ TailHome(w)
  BY <1>1, <1>2, <1>4 DEF Contents, TailHome, Continues
<1> QED BY <1>3, <1>5 DEF SlotInv

(* The invariant of the slots is kept.                                     *)
LEMMA SlotsInductive ==
  ASSUME BlockInv, IInv, SlotInv, [Next]_vars
  PROVE  SlotInv'
<1>1. Served /\ OfWriters /\ NeverOverdrawn BY CountsServe, CountsBound DEF BlockInv
<1>2. CASE UNCHANGED vars BY <1>2, SlotsSame DEF vars, blockVars
<1>3. ASSUME NEW t \in Threads, InList(t) PROVE SlotInv'
  BY <1>3, SlotsSame DEF InList, blockVars, readVars
<1>4. CASE Next BY <1>1, <1>3, <1>4, EnqueueSlots, DequeueSlots DEF Next
<1> QED BY <1>2, <1>4

-------------------------------------------------------------------------------
(* What a dequeue that misses has seen.                                    *)

(* What a step of a dequeue does to the others' spans.                     *)
LEMMA SpanFrame ==
  ASSUME TypeOK, NEW r \in Readers, DequeueStep(r), NEW q \in Readers \ {r}
  PROVE  \/ span'[q] = span[q] /\ \A w \in Writers : DequeueStart(r, w) => ~ Looking(q, w)
         \/ \E w \in Writers : /\ DequeueStart(r, w) /\ Looking(q, w)
                               /\ span'[q] = [span[q] EXCEPT !.overlap = @ + 1]
<1>1. span \in [Readers -> [there : Nat, overlap : Nat]] BY DEF TypeOK
<1>2. ASSUME NEW w \in Writers, DequeueStart(r, w)
      PROVE  span'[q] = IF Looking(q, w) THEN [span[q] EXCEPT !.overlap = @ + 1] ELSE span[q]
  BY <1>2 DEF DequeueStart
<1>3. ASSUME NEW w \in Writers, DequeueStart(r, w), NEW v \in Writers, DequeueStart(r, v)
      PROVE  v = w
  <2>1. deq \in [Readers -> DeqLocal] BY DEF TypeOK
  <2>2. deq'[r].of = w /\ deq'[r].of = v BY <1>3, <2>1 DEF DequeueStart, DeqLocal
  <2> QED BY <2>2
<1>4. ASSUME \A w \in Writers : ~ DequeueStart(r, w)
      PROVE  span'[q] = span[q]
  BY <1>1, <1>4, Zenon DEF DequeueStep, LoadOvercommit, LoadOptimisticCount,
     AddOptimisticCount, Recheck, AddOvercommit, Claim, LoadHeader, LoadTail, LoadKey,
     LoadValue, Move, SetEmpty, Unlink, Freed, Missed, ghostVars
<1> QED BY <1>2, <1>3, <1>4

(* A step of a dequeue keeps what the others are at.                       *)
LEMMA CallOthers ==
  ASSUME TypeOK, NEW r \in Readers, DequeueStep(r), NEW q \in Readers \ {r}, CallKept(q)
  PROVE  CallKept(q)'
<1>1. deq'[q] = deq[q] /\ found'[q] = found[q] BY ReaderFrame
<1>2. deq[q].at \notin Seeking => span'[q] = span[q] BY SpanFrame DEF Looking, Seeking
<1> QED BY <1>1, <1>2 DEF CallKept

(* A dequeue gives the element of its index.                               *)
LEMMA CallOwn ==
  ASSUME BlockInv, Served, OfWriters, SlotInv, NEW r \in Readers, DequeueStep(r), CallKept(r)
  PROVE  CallKept(r)'
<1>1. /\ deq \in [Readers -> DeqLocal] /\ found \in [Readers -> FoundLocal] /\ TypeOK
      /\ span \in [Readers -> [there : Nat, overlap : Nat]] /\ deq[r] \in DeqLocal
      /\ found[r] \in FoundLocal
  BY DEF BlockInv, TypeOK
<1>2. ASSUME NEW w \in Writers, DequeueStart(r, w) PROVE CallKept(r)'
  BY <1>1, <1>2 DEF DequeueStart, DeqLocal, CallKept, Seeking, Taken
<1>3. ASSUME deq[r].at \in Seeking, deq'[r].at \in Seeking, found' = found
      PROVE  CallKept(r)'
  BY <1>3 DEF CallKept, Seeking, Taken
<1>4. CASE LoadOvercommit(r) \/ AddOptimisticCount(r) \/ Recheck(r)
  BY <1>1, <1>3, <1>4 DEF LoadOvercommit, AddOptimisticCount, Recheck, DeqLocal, Seeking
<1>5. ASSUME deq[r].at \in Seeking, Missed(r), found' = found PROVE CallKept(r)'
  BY <1>1, <1>5 DEF Missed, CallKept, DeqIdle, Seeking, Taken
<1>6. CASE LoadOptimisticCount(r) \/ AddOvercommit(r)
  BY <1>1, <1>3, <1>5, <1>6 DEF LoadOptimisticCount, AddOvercommit, Seeking, DeqLocal
<1>7. CASE Claim(r) BY <1>1, <1>7 DEF Claim, DeqIdle, CallKept, Seeking, Taken
<1>8. CASE LoadHeader(r) \/ LoadTail(r) \/ LoadKey(r) \/ LoadValue(r)
  <2>1. PICK a, b \in {"header", "tail", "key", "value", "move"} :
          deq[r].at = a /\ deq' = [deq EXCEPT ![r].at = b]
    BY <1>8 DEF LoadHeader, LoadTail, LoadKey, LoadValue
  <2>2. span' = span
    BY <1>8, Zenon DEF LoadHeader, LoadTail, LoadKey, LoadValue, ghostVars
  <2>3. deq[r].at \in Bound /\ deq'[r].at \in Bound BY <1>1, <2>1 DEF DeqLocal, Bound
  <2> QED BY <2>2, <2>3 DEF CallKept, Seeking, Taken, Bound
<1>9. CASE Move(r)
  <2>1. deq[r].at = "move" /\ deq[r].at \in Bound /\ deq[r].at \in Flying
    BY <1>9 DEF Move, Bound, Flying
  <2>2. PICK w \in Writers, i \in Nat : w = deq[r].of /\ i = deq[r].index
    BY <1>1, <2>1 DEF OfWriters, DeqLocal
  <2>3. Pending(w, i) BY <2>1, <2>2 DEF Pending
  <2>4. element[found[r].block][Slot(i)] = <<w, i>>
    BY <2>1, <2>2, <2>3 DEF SlotInv, Contents, Stored, BlockInv, ReaderOK
  <2>5. found'[r].item = <<w, i>> BY <1>1, <1>9, <2>2, <2>4 DEF Move, FoundLocal
  <2>6. deq'[r].at = "empty" /\ deq'[r].of = w /\ deq'[r].index = i /\ span' = span
    BY <1>1, <1>9, <2>2 DEF Move, DeqLocal, ghostVars
  <2> QED BY <2>1, <2>5, <2>6 DEF CallKept, Seeking, Taken
<1>10. ASSUME deq[r].at \in Taken, deq'[r].at \in Taken, found' = found, span' = span,
              deq'[r].of = deq[r].of, deq'[r].index = deq[r].index
       PROVE  CallKept(r)'
  BY <1>10 DEF CallKept, Seeking, Taken
<1>11. ASSUME deq[r].at \in Taken, Dequeued(r), span' = span PROVE CallKept(r)'
  BY <1>1, <1>11 DEF Dequeued, CallKept, DeqIdle, NotFound, Seeking, Taken
<1>12. CASE SetEmpty(r) \/ Unlink(r) \/ Freed(r)
  BY <1>1, <1>10, <1>11, <1>12 DEF SetEmpty, Unlink, Freed, Taken, ghostVars, DeqLocal
<1> QED BY <1>2, <1>4, <1>6, <1>7, <1>8, <1>9, <1>12 DEF DequeueStep

(* The sets of those yet to draw are finite.                               *)
LEMMA DrawSize ==
  ASSUME NEW q, NEW w
  PROVE  IsFiniteSet(ToDraw(q, w)) /\ Cardinality(ToDraw(q, w)) \in Nat
<1>1. ToDraw(q, w) \subseteq Readers /\ IsFiniteSet(Readers)
  BY ImplicitProducerAssumption DEF ToDraw
<1> QED BY <1>1, FS_Subset, FS_CardinalityType

(* Every step of a dequeue is one of the three; the overcommit only grows. *)
LEMMA DrawPlaces ==
  ASSUME TypeOK, NEW r \in Readers, DequeueStep(r)
  PROVE  /\ Starts(r) \/ Draws(r) \/ Rests(r)
         /\ \A w \in Writers : dequeueOvercommit'[w] >= dequeueOvercommit[w]
<1>1. /\ deq \in [Readers -> DeqLocal] /\ deq[r] \in DeqLocal
      /\ dequeueOvercommit \in [Writers -> Nat]
  BY DEF TypeOK
<1>2. ASSUME NEW w \in Writers, DequeueStart(r, w) PROVE Starts(r)
  BY <1>1, <1>2 DEF DequeueStart, DeqLocal, Starts, countVars
<1>3. ASSUME AddOptimisticCount(r) PROVE Draws(r)
  BY <1>1, <1>3 DEF AddOptimisticCount, DeqLocal, Draws
<1>4. ASSUME LoadOvercommit(r) \/ LoadOptimisticCount(r) PROVE Rests(r)
  BY <1>1, <1>4 DEF LoadOvercommit, LoadOptimisticCount, Missed, DeqIdle, DeqLocal,
     Rests, Undrawn, countVars
<1>5. ASSUME Recheck(r) \/ AddOvercommit(r) \/ Claim(r) PROVE Rests(r)
  <2>1. deq[r].at # "idle" /\ UNCHANGED dequeueOptimisticCount
    BY <1>5 DEF Recheck, AddOvercommit, Claim, countVars
  <2>2. Recheck(r) => deq'[r].at \in {"claim", "overcommit"}
    BY <1>1 DEF Recheck, DeqLocal
  <2>3. AddOvercommit(r) => deq'[r].at = "idle"
    BY <1>1 DEF AddOvercommit, Missed, DeqIdle
  <2>4. Claim(r) => deq'[r].at = "header" BY <1>1 DEF Claim, DeqIdle
  <2> QED BY <1>5, <2>1, <2>2, <2>3, <2>4 DEF Rests, Undrawn
<1>6. ASSUME LooksUp(r) PROVE Rests(r)
  BY <1>6, LooksUpPlaces DEF LooksUp, LoadHeader, LoadTail, LoadKey, LoadValue, Move,
     countVars, Rests, Flying, Undrawn
<1>7. ASSUME SetEmpty(r) \/ Unlink(r) \/ Freed(r) PROVE Rests(r)
  BY <1>1, <1>7 DEF SetEmpty, Unlink, Freed, Dequeued, DeqIdle, DeqLocal, Rests,
     Undrawn, countVars
<1>8. \A w \in Writers : dequeueOvercommit'[w] >= dequeueOvercommit[w]
  <2>1. CASE AddOvercommit(r) BY <1>1, <2>1 DEF AddOvercommit
  <2>2. CASE ~ AddOvercommit(r)
    <3>1. dequeueOvercommit' = dequeueOvercommit
      BY <2>2, Zenon DEF DequeueStep, DequeueStart, LoadOvercommit, LoadOptimisticCount,
         AddOptimisticCount, Recheck, Claim, LoadHeader, LoadTail, LoadKey, LoadValue,
         Move, SetEmpty, Unlink, Freed, countVars
    <3> QED BY <1>1, <3>1
  <2> QED BY <2>1, <2>2
<1> QED BY <1>2, <1>3, <1>4, <1>5, <1>6, <1>7, <1>8 DEF DequeueStep, LooksUp

(* What is in play grows by one if a dequeue begins, and else not.         *)
LEMMA PlayStep ==
  ASSUME TypeOK, NEW r \in Readers, DequeueStep(r), NEW q \in Readers \ {r}, NEW v \in Writers
  PROVE  /\ InPlay(q, v) \in Nat /\ InPlay(q, v)' \in Nat
         /\ InPlay(q, v)' <= InPlay(q, v) + 1
         /\ ~ DequeueStart(r, v) => InPlay(q, v)' <= InPlay(q, v)
<1>1. /\ dequeueOptimisticCount \in [Writers -> Nat]
      /\ \A p \in Readers \ {r} : deq'[p] = deq[p]
  BY ReaderFrame DEF TypeOK
<1>a. PICK c \in Nat : c = dequeueOptimisticCount[v] BY <1>1
<1>2. PICK S, T : S = ToDraw(q, v) /\ T = ToDraw(q, v)' /\ c = dequeueOptimisticCount[v]
  BY <1>a
<1>3. IsFiniteSet(S) /\ Cardinality(S) \in Nat BY <1>2, DrawSize
<1>4. /\ S \ {r} = T \ {r}
      /\ r \in S <=> deq[r].of = v /\ deq[r].at \in Undrawn
      /\ r \in T <=> deq'[r].of = v /\ deq'[r].at \in Undrawn
  BY <1>1, <1>2 DEF ToDraw
<1>5. T \subseteq S \cup {r} /\ IsFiniteSet(S \cup {r})
      /\ Cardinality(S \cup {r}) <= Cardinality(S) + 1
  BY <1>3, <1>4, FS_AddElement
<1>6. IsFiniteSet(T) /\ Cardinality(T) \in Nat /\ Cardinality(T) <= Cardinality(S) + 1
  BY <1>3, <1>5, FS_Subset, FS_CardinalityType
<1>7. T \subseteq S => Cardinality(T) <= Cardinality(S) BY <1>3, FS_Subset
<1>8. InPlay(q, v) = c + Cardinality(S)
      /\ InPlay(q, v)' = dequeueOptimisticCount'[v] + Cardinality(T)
  BY <1>2 DEF InPlay
<1>9. CASE Starts(r)
  <2>1. dequeueOptimisticCount'[v] = c BY <1>2, <1>9 DEF Starts
  <2>2. ~ DequeueStart(r, v) => r \notin T BY <1>4, <1>9 DEF Starts
  <2>3. ~ DequeueStart(r, v) => T \subseteq S BY <1>4, <2>2
  <2> QED BY <1>3, <1>6, <1>7, <1>8, <2>1, <2>3
<1>10. CASE Draws(r)
  <2>1. r \notin T /\ ~ DequeueStart(r, v)
    BY <1>4, <1>10 DEF Draws, Undrawn, DequeueStart
  <2>2. CASE deq[r].of = v
    <3>1. dequeueOptimisticCount'[v] = c + 1 BY <1>1, <1>2, <1>10, <2>2 DEF Draws
    <3>2. r \in S /\ T = S \ {r} BY <1>4, <1>10, <2>1, <2>2 DEF Draws, Undrawn
    <3>3. Cardinality(T) = Cardinality(S) - 1 BY <1>3, <3>2, FS_RemoveElement
    <3> QED BY <1>3, <1>6, <1>8, <3>1, <3>3
  <2>3. CASE deq[r].of # v
    <3>1. dequeueOptimisticCount'[v] = c BY <1>1, <1>2, <1>10, <2>3 DEF Draws
    <3>2. T \subseteq S BY <1>4, <2>1
    <3> QED BY <1>3, <1>6, <1>7, <1>8, <3>1, <3>2
  <2> QED BY <2>2, <2>3
<1>11. CASE Rests(r)
  <2>1. dequeueOptimisticCount'[v] = c BY <1>2, <1>11 DEF Rests
  <2>2. r \in T => r \in S BY <1>4, <1>11 DEF Rests
  <2>4. ~ DequeueStart(r, v) BY <1>11 DEF Rests, DequeueStart
  <2>3. T \subseteq S BY <1>4, <2>2
  <2> QED BY <1>3, <1>6, <1>7, <1>8, <2>1, <2>3, <2>4
<1> QED BY <1>9, <1>10, <1>11, DrawPlaces

(* The others' reckoning holds after a step of a dequeue.                  *)
LEMMA MissOthers ==
  ASSUME TypeOK, OfWriters, NEW r \in Readers, DequeueStep(r), NEW q \in Readers \ {r},
         MissKept(q)
  PROVE  MissKept(q)'
<1>1. /\ deq'[q] = deq[q] /\ tailIndex' = tailIndex /\ deq[q] \in DeqLocal
      /\ span[q] \in [there : Nat, overlap : Nat]
  BY ReaderFrame DEF TypeOK
<1>2. PICK v : v = deq[q].of OBVIOUS
<1>3. CASE deq[q].at \notin Seeking BY <1>1, <1>3 DEF MissKept, Undrawn, Seeking
<1>4. CASE deq[q].at \in Seeking
  <2>1. v \in Writers BY <1>2, <1>4 DEF OfWriters, Seeking
  <2>2. /\ dequeueOvercommit[v] \in Nat /\ dequeueOvercommit'[v] \in Nat
        /\ dequeueOvercommit'[v] >= dequeueOvercommit[v]
    <3>1. dequeueOvercommit \in [Writers -> Nat] BY DEF TypeOK
    <3>2. dequeueOvercommit' = dequeueOvercommit
          \/ dequeueOvercommit' = [dequeueOvercommit EXCEPT ![deq[r].of] = @ + 1]
      BY Zenon DEF DequeueStep, DequeueStart, LoadOvercommit, LoadOptimisticCount,
         AddOvercommit, AddOptimisticCount, Recheck, Claim, LoadHeader, LoadTail,
         LoadKey, LoadValue, Move, SetEmpty, Unlink, Freed, countVars
    <3> QED BY <2>1, <3>1, <3>2, DrawPlaces
  <2>3. /\ InPlay(q, v) \in Nat /\ InPlay(q, v)' \in Nat
        /\ InPlay(q, v)' <= InPlay(q, v) + 1
        /\ ~ DequeueStart(r, v) => InPlay(q, v)' <= InPlay(q, v)
    BY <2>1, PlayStep
  <2>4. PICK o \in Nat, h \in Nat, t \in Nat :
          o = span[q].overlap /\ h = span[q].there /\ t = deq[q].tail
    BY <1>1 DEF DeqLocal
  <2>5. PICK p \in Nat : p = span'[q].overlap /\ h = span'[q].there /\ p >= o
                         /\ (DequeueStart(r, v) => p = o + 1)
    <3>1. Looking(q, v) BY <1>2, <1>4 DEF Looking, Seeking
    <3>2. CASE span'[q] = span[q] /\ \A w \in Writers : DequeueStart(r, w) => ~ Looking(q, w)
      BY <2>1, <2>4, <3>1, <3>2
    <3>3. CASE span'[q] = [span[q] EXCEPT !.overlap = @ + 1] BY <1>1, <2>4, <3>3
    <3> QED BY <3>2, <3>3, SpanFrame
  <2>6. Reckoned(q) = o + t - h /\ Reckoned(q)' = p + t - h
    BY <1>1, <2>4, <2>5 DEF Reckoned
  <2>7. PICK i \in Nat, j \in Nat : i = InPlay(q, v) /\ j = InPlay(q, v)'
                                    /\ j + o <= i + p
    BY <2>3, <2>5
  <2>8. /\ dequeueOptimisticCount[v] \in Nat /\ dequeueOptimisticCount'[v] \in Nat
        /\ Cardinality(ToDraw(q, v)) \in Nat /\ Cardinality(ToDraw(q, v)') \in Nat
    <3>1. dequeueOptimisticCount \in [Writers -> Nat] BY DEF TypeOK
    <3>2. dequeueOptimisticCount'[v] \in Nat
      BY <2>1, <3>1, DrawPlaces DEF Starts, Draws, Rests
    <3>3. PICK T : T = ToDraw(q, v)' OBVIOUS
    <3>4. T \subseteq Readers /\ IsFiniteSet(Readers)
      BY <3>3, ImplicitProducerAssumption DEF ToDraw
    <3>5. Cardinality(T) \in Nat BY <3>4, FS_Subset, FS_CardinalityType
    <3> QED BY <2>1, <3>1, <3>2, <3>3, <3>5, DrawSize
  <2>9. \A n \in Int :
          /\ dequeueOptimisticCount[v] - n + Cardinality(ToDraw(q, v)) = i - n
          /\ dequeueOptimisticCount'[v] - n + Cardinality(ToDraw(q, v)') = j - n
    BY <2>7, <2>8 DEF InPlay
  <2>10. deq[q].at = "over" => j - dequeueOvercommit'[v] <= p + t - h
    <3>1. deq[q].at = "over" => i - dequeueOvercommit[v] <= o + t - h
      BY <1>2, <2>2, <2>6, <2>9 DEF MissKept
    <3> QED BY <2>2, <2>7, <3>1
  <2>11. deq[q].at \in {"count", "ticket"} => j - deq[q].over <= p + t - h
    <3>0. deq[q].over \in Nat BY <1>1 DEF DeqLocal
    <3>1. deq[q].at \in {"count", "ticket"} => i - deq[q].over <= o + t - h
      BY <1>2, <2>6, <2>9, <3>0 DEF MissKept
    <3> QED BY <2>7, <3>0, <3>1
  <2>12. deq[q].at = "recheck" => deq[q].my - deq[q].over <= p + t - h
    BY <1>1, <1>2, <2>5, <2>6 DEF DeqLocal, MissKept
  <2>13. deq[q].at = "overcommit" => h <= p BY <2>4, <2>5 DEF MissKept
  <2>14. deq[q].at \in Undrawn \cup {"recheck"} => deq[q].tail <= tailIndex'[v]
    BY <1>1, <1>2 DEF MissKept
  <2>15. deq[q].over \in Nat BY <1>1 DEF DeqLocal
  <2> QED
    BY <1>1, <1>2, <2>2, <2>5, <2>6, <2>9, <2>10, <2>11, <2>12, <2>13, <2>14, <2>15 DEF
       MissKept
<1> QED BY <1>3, <1>4

(* The size of two sets that have nothing in common.                       *)
LEMMA UnionSize ==
  ASSUME NEW S, NEW T, IsFiniteSet(S), IsFiniteSet(T), S \cap T = {}
  PROVE  /\ IsFiniteSet(S \cup T) /\ Cardinality(S \cup T) \in Nat
         /\ Cardinality(S) \in Nat /\ Cardinality(T) \in Nat
         /\ Cardinality(S \cup T) = Cardinality(S) + Cardinality(T)
<1>1. /\ IsFiniteSet(S \cup T)
      /\ Cardinality(S \cup T) = Cardinality(S) + Cardinality(T) - Cardinality(S \cap T)
  BY FS_Union
<1>2. Cardinality(S \cap T) = 0 BY FS_EmptySet
<1>3. Cardinality(S) \in Nat /\ Cardinality(T) \in Nat /\ Cardinality(S \cup T) \in Nat
  BY <1>1, FS_CardinalityType
<1> QED BY <1>1, <1>2, <1>3

(* Who looks at a stream is at one of these places.                        *)
LEMMA LookersSize ==
  ASSUME NEW r \in Readers, NEW w \in Writers, deq[r].at = "idle"
  PROVE  /\ Cardinality(OthersLooking(r, w)) \in Nat
         /\ Cardinality(OthersLooking(r, w)) =
              Cardinality(InAt(w, "claim")) + Cardinality(InAt(w, "overcommit"))
                + Cardinality(InAt(w, "recheck")) + Cardinality(ToDraw(r, w))
<1>1. PICK K, V, R, U : /\ K = InAt(w, "claim") /\ V = InAt(w, "overcommit")
                        /\ R = InAt(w, "recheck") /\ U = ToDraw(r, w)
  OBVIOUS
<1>2. IsFiniteSet(K) /\ IsFiniteSet(V) /\ IsFiniteSet(R) /\ IsFiniteSet(U)
  BY <1>1, FiniteInAt, DrawSize
<1>3. K \cap V = {} /\ (K \cup V) \cap R = {} /\ (K \cup V \cup R) \cap U = {}
  BY <1>1 DEF InAt, ToDraw, Undrawn
<1>4. OthersLooking(r, w) = K \cup V \cup R \cup U
  BY <1>1 DEF InAt, ToDraw, Undrawn, OthersLooking, Looking
<1>5. /\ IsFiniteSet(K \cup V) /\ Cardinality(K) \in Nat /\ Cardinality(V) \in Nat
      /\ Cardinality(K \cup V) = Cardinality(K) + Cardinality(V)
  BY <1>2, <1>3, UnionSize
<1>6. /\ IsFiniteSet(K \cup V \cup R) /\ Cardinality(R) \in Nat
      /\ Cardinality(K \cup V \cup R) = Cardinality(K \cup V) + Cardinality(R)
  BY <1>2, <1>3, <1>5, UnionSize
<1>7. /\ Cardinality(K \cup V \cup R \cup U) \in Nat /\ Cardinality(U) \in Nat
      /\ Cardinality(K \cup V \cup R \cup U) = Cardinality(K \cup V \cup R) + Cardinality(U)
  BY <1>2, <1>3, <1>6, UnionSize
<1> QED BY <1>1, <1>4, <1>5, <1>6, <1>7

(* A dequeue that begins: the tickets in play are those of elements taken, *)
(* those that failed, and those of the dequeues it finds looking.          *)
LEMMA MissStart ==
  ASSUME TypeOK, IInv, NEW r \in Readers, NEW w \in Writers, Exact(w), DequeueStart(r, w)
  PROVE  MissKept(r)'
<1>1. /\ deq \in [Readers -> DeqLocal] /\ dequeueOptimisticCount[w] \in Nat
      /\ dequeueOvercommit[w] \in Nat /\ headIndex[w] \in Nat /\ tailIndex[w] \in Nat
      /\ span \in [Readers -> [there : Nat, overlap : Nat]]
  BY DEF TypeOK
<1>2. /\ deq'[r].at = "over" /\ deq'[r].of = w /\ deq'[r].tail = tailIndex[w]
      /\ deq[r].at = "idle" /\ UNCHANGED countVars
      /\ \A q \in Readers \ {r} : deq'[q] = deq[q]
  BY <1>1 DEF DequeueStart, DeqLocal
<1>3. /\ span'[r].there = tailIndex[w] - headIndex[w]
      /\ span'[r].overlap = Cardinality(OthersLooking(r, w))
  BY DEF DequeueStart
<1>4. ToDraw(r, w)' = ToDraw(r, w) BY <1>2 DEF ToDraw
<1>5. PICK n \in Nat, u \in Nat, k \in Nat, v \in Nat, p \in Nat :
        /\ n = Cardinality(OthersLooking(r, w)) /\ u = Cardinality(ToDraw(r, w))
        /\ k = Cardinality(InAt(w, "claim")) /\ v = Cardinality(InAt(w, "overcommit"))
        /\ p = Cardinality(InAt(w, "recheck"))
  BY <1>2, LookersSize, FiniteInAt, DrawSize
<1>6. n = k + v + p + u BY <1>2, <1>5, LookersSize
<1>7. Counted(w) /\ Drawn(w) BY DEF IInv, Tickets
<1>8. PICK t \in Nat, f \in Nat : t = Cardinality(took[w]) /\ f = Cardinality(failed[w])
  BY <1>1, <1>7, FiniteDraws DEF Drawn
<1>9. dequeueOptimisticCount[w] = t + f + p /\ headIndex[w] + k = t /\ dequeueOvercommit[w] + v = f
  BY <1>5, <1>7, <1>8 DEF Exact, Counted
<1>10. dequeueOptimisticCount[w] - dequeueOvercommit[w] + u
         = n + tailIndex[w] - (tailIndex[w] - headIndex[w])
  BY <1>1, <1>6, <1>9
<1>11. Reckoned(r)' = n + tailIndex[w] - (tailIndex[w] - headIndex[w])
  BY <1>2, <1>3, <1>5 DEF Reckoned
<1>12. /\ dequeueOptimisticCount'[w] = dequeueOptimisticCount[w]
       /\ dequeueOvercommit'[w] = dequeueOvercommit[w] /\ tailIndex'[w] = tailIndex[w]
  BY <1>2 DEF countVars
<1>13. dequeueOptimisticCount'[w] - dequeueOvercommit'[w] + Cardinality(ToDraw(r, w)')
         <= Reckoned(r)'
  BY <1>1, <1>4, <1>5, <1>10, <1>11, <1>12
<1> QED BY <1>1, <1>2, <1>12, <1>13 DEF MissKept

(* The count shows nothing left: the dequeue returns false.                *)
LEMMA NoneIsLeft ==
  ASSUME TypeOK, OfWriters, NEW r \in Readers, MissKept(r), LoadOptimisticCount(r),
         ~ deq'[r].at = "ticket"
  PROVE  Missed(r) /\ Accounted(r)
<1>1. /\ deq \in [Readers -> DeqLocal] /\ deq[r] \in DeqLocal /\ deq[r].at = "count"
      /\ span[r] \in [there : Nat, overlap : Nat]
  BY DEF TypeOK, LoadOptimisticCount
<1>2. PICK n, u : n = dequeueOptimisticCount[deq[r].of] /\ u = Cardinality(ToDraw(r, deq[r].of))
  OBVIOUS
<1>3. Missed(r) /\ ~ (n - deq[r].over < deq[r].tail)
  BY <1>1, <1>2 DEF LoadOptimisticCount, DeqLocal
<1>4. n - deq[r].over + u <= span[r].overlap + deq[r].tail - span[r].there
  BY <1>1, <1>2 DEF MissKept, Reckoned
<1>5. u \in Nat /\ deq[r].tail \in Nat /\ deq[r].over \in Nat
  BY <1>1, <1>2, DrawSize DEF DeqLocal
<1>6. n \in Nat
  <2>1. deq[r].of \in Writers BY <1>1 DEF OfWriters
  <2> QED BY <1>2, <2>1 DEF TypeOK
<1> QED BY <1>1, <1>3, <1>4, <1>5, <1>6 DEF Accounted

(* The reckoning of a dequeue holds after its own step.                    *)
LEMMA MissOwn ==
  ASSUME TypeOK, IInv, OfWriters, NEW r \in Readers, DequeueStep(r), MissKept(r),
         \A w \in Writers : Exact(w)
  PROVE  MissKept(r)'
<1>1. /\ deq \in [Readers -> DeqLocal] /\ deq[r] \in DeqLocal
      /\ span[r] \in [there : Nat, overlap : Nat]
  BY DEF TypeOK
<1>2. ASSUME NEW w \in Writers, DequeueStart(r, w) PROVE MissKept(r)' BY <1>2, MissStart
<1>3. ASSUME deq'[r].at \notin Undrawn \cup {"recheck", "overcommit"} PROVE MissKept(r)'
  BY <1>3 DEF MissKept, Undrawn
<1>4. \A w : ToDraw(r, w)' = ToDraw(r, w) BY ReaderFrame DEF ToDraw
<1>5. ASSUME deq[r].at \in Undrawn \cup {"recheck"}
      PROVE  \E w \in Writers :
               /\ w = deq[r].of
               /\ dequeueOptimisticCount[w] \in Nat /\ dequeueOvercommit[w] \in Nat
               /\ tailIndex[w] \in Nat /\ Cardinality(ToDraw(r, w)) \in Nat
  <2>1. deq[r].of \in Writers BY <1>5 DEF OfWriters, Undrawn
  <2> QED BY <2>1, DrawSize DEF TypeOK
<1>6. CASE LoadOvercommit(r)
  BY <1>1, <1>4, <1>5, <1>6 DEF LoadOvercommit, Undrawn, DeqLocal, ghostVars, Reckoned,
     countVars, MissKept
<1>7. CASE LoadOptimisticCount(r)
  <2>1. deq[r].at = "count" BY <1>7 DEF LoadOptimisticCount
  <2>2. PICK w \in Writers : w = deq[r].of BY <1>5, <2>1 DEF Undrawn
  <2>3. CASE deq' = [deq EXCEPT ![r].at = "ticket"] /\ UNCHANGED span
    BY <1>1, <1>4, <1>7, <2>1, <2>2, <2>3 DEF DeqLocal, LoadOptimisticCount, Reckoned,
       countVars, MissKept, Undrawn
  <2>4. CASE Missed(r)
    <3>1. deq'[r].at = "idle" BY <1>1, <2>4 DEF Missed, DeqIdle
    <3> QED BY <1>3, <3>1 DEF Undrawn
  <2> QED BY <1>7, <2>3, <2>4 DEF LoadOptimisticCount
<1>8. CASE AddOptimisticCount(r)
  BY <1>1, <1>5, <1>8 DEF AddOptimisticCount, Undrawn, DeqLocal, ghostVars, Reckoned,
     MissKept
<1>9. CASE Recheck(r)
  <2>1. deq[r].at = "recheck" BY <1>9 DEF Recheck
  <2>2. PICK w \in Writers, t \in Nat : w = deq[r].of /\ t = tailIndex[w] BY <1>5, <2>1
  <2>3. CASE deq[r].my - deq[r].over < t
    BY <1>1, <1>3, <1>9, <2>2, <2>3 DEF Recheck, DeqLocal, Undrawn
  <2>4. CASE ~ (deq[r].my - deq[r].over < t)
    BY <1>1, <1>9, <2>1, <2>2, <2>4 DEF Recheck, DeqLocal, MissKept, Reckoned, Undrawn
  <2> QED BY <2>3, <2>4
<1>10. CASE AddOvercommit(r) \/ Claim(r)
  <2>1. deq'[r].at \in {"idle", "header"}
    <3>1. CASE AddOvercommit(r) BY <1>1, <3>1 DEF AddOvercommit, Missed, DeqIdle
    <3>2. CASE Claim(r) BY <1>1, <3>2 DEF Claim, DeqIdle
    <3> QED BY <1>10, <3>1, <3>2
  <2> QED BY <1>3, <2>1 DEF Undrawn
<1>11. CASE LooksUp(r)
  <2>1. deq'[r].at \in Flying BY <1>11, LooksUpPlaces
  <2> QED BY <1>3, <2>1 DEF Undrawn, Flying
<1>12. CASE SetEmpty(r) \/ Unlink(r) \/ Freed(r)
  BY <1>1, <1>3, <1>12 DEF SetEmpty, Unlink, Freed, Dequeued, DeqIdle, DeqLocal, Undrawn
<1> QED BY <1>2, <1>6, <1>7, <1>8, <1>9, <1>10, <1>11, <1>12 DEF DequeueStep, LooksUp

(* Every ticket drawn is looked at again, then counted.                    *)
LEMMA ExactElsewhere ==
  ASSUME TypeOK, NEW r \in Readers, DequeueStep(r), ~ AddOptimisticCount(r), ~ Recheck(r),
         NEW v \in Writers, Exact(v)
  PROVE  Exact(v)'
<1>1. deq \in [Readers -> DeqLocal] /\ deq[r] \in DeqLocal
      /\ \A q \in Readers \ {r} : deq'[q] = deq[q]
  BY ReaderFrame DEF TypeOK
<1>2. deq[r].at # "recheck" /\ deq'[r].at # "recheck"
  <2>1. ASSUME NEW w \in Writers, DequeueStart(r, w)
        PROVE  deq[r].at # "recheck" /\ deq'[r].at # "recheck"
    BY <1>1, <2>1 DEF DequeueStart, DeqLocal
  <2>2. ASSUME LoadOvercommit(r) \/ LoadOptimisticCount(r)
        PROVE  deq[r].at # "recheck" /\ deq'[r].at # "recheck"
    BY <1>1, <2>2 DEF LoadOvercommit, LoadOptimisticCount, Missed, DeqIdle, DeqLocal
  <2>3. ASSUME AddOvercommit(r)
        PROVE  deq[r].at # "recheck" /\ deq'[r].at # "recheck"
    BY <1>1, <2>3 DEF AddOvercommit, Missed, DeqIdle
  <2>4. ASSUME Claim(r)
        PROVE  deq[r].at # "recheck" /\ deq'[r].at # "recheck"
    BY <1>1, <2>4 DEF Claim, DeqIdle
  <2>5. ASSUME LooksUp(r)
        PROVE  deq[r].at # "recheck" /\ deq'[r].at # "recheck"
    BY <2>5, LooksUpPlaces DEF Flying
  <2>6. ASSUME SetEmpty(r) \/ Unlink(r) \/ Freed(r)
        PROVE  deq[r].at # "recheck" /\ deq'[r].at # "recheck"
    BY <1>1, <2>6 DEF SetEmpty, Unlink, Freed, Dequeued, DeqIdle, DeqLocal
  <2> QED BY <2>1, <2>2, <2>3, <2>4, <2>5, <2>6 DEF DequeueStep, LooksUp
<1>3. InAt(v, "recheck")' = InAt(v, "recheck") BY <1>1, <1>2 DEF InAt
<1>4. UNCHANGED <<took, failed, dequeueOptimisticCount>>
  BY Zenon DEF DequeueStep, DequeueStart, LoadOvercommit, LoadOptimisticCount,
     AddOvercommit, Claim, LoadHeader, LoadTail, LoadKey, LoadValue, Move, SetEmpty,
     Unlink, Freed, countVars, ghostVars
<1> QED BY <1>3, <1>4 DEF Exact

(* The draw: one more drawn, one more to be looked at again.               *)
LEMMA ExactDraw ==
  ASSUME IInv, NEW r \in Readers, AddOptimisticCount(r), NEW v \in Writers, Exact(v)
  PROVE  Exact(v)'
<1>1. CountType /\ deq[r] \in DeqLocal /\ deq[r].of \in Writers /\ deq[r].at = "ticket"
  BY DEF IInv, CountType, AddOptimisticCount
<1>2. PICK w \in Writers : deq[r].of = w BY <1>1
<1>3. PICK d \in DeqLocal : deq' = [deq EXCEPT ![r] = d] /\ d.of = w /\ d.at = "recheck"
  <2>1. [deq[r] EXCEPT !.at = "recheck", !.my = dequeueOptimisticCount[w]] \in DeqLocal
    BY <1>1 DEF DeqLocal, CountType
  <2>2. deq' = [deq EXCEPT ![r] = [deq[r] EXCEPT !.at = "recheck",
                                                 !.my = dequeueOptimisticCount[w]]]
    BY <1>1, <1>2 DEF AddOptimisticCount, CountType
  <2> QED BY <1>1, <1>2, <2>1, <2>2 DEF DeqLocal
<1>4. /\ dequeueOptimisticCount' = [dequeueOptimisticCount EXCEPT ![w] = @ + 1]
      /\ UNCHANGED <<took, failed>> /\ dequeueOptimisticCount \in [Writers -> Nat]
  BY <1>1, <1>2 DEF AddOptimisticCount, ghostVars, CountType
<1>5. CASE v = w
  <2>1. Walks(w, r, "ticket", d) BY <1>1, <1>2, <1>3, Walk
  <2>2. Cardinality(InAt(w, "recheck")') = Cardinality(InAt(w, "recheck")) + 1
    BY <1>3, <2>1 DEF Walks
  <2>3. PICK t, f, p : /\ t = Cardinality(took[w]) /\ f = Cardinality(failed[w])
                       /\ p = Cardinality(InAt(w, "recheck"))
    OBVIOUS
  <2>4. t \in Nat /\ f \in Nat /\ p \in Nat
    BY <1>4, <2>3, FiniteDraws, FiniteInAt DEF IInv, Tickets, Drawn
  <2>5. dequeueOptimisticCount[w] = t + f + p BY <1>5, <2>3 DEF Exact
  <2>6. dequeueOptimisticCount'[w] = t + f + (p + 1) BY <1>4, <2>4, <2>5
  <2> QED BY <1>4, <1>5, <2>2, <2>3, <2>6 DEF Exact
<1>6. CASE v # w
  <2>1. deq'[r] = d /\ \A q \in Readers \ {r} : deq'[q] = deq[q] BY <1>1, <1>3, MoveOn
  <2>3. InAt(v, "recheck")' = InAt(v, "recheck") BY <1>2, <1>3, <1>6, <2>1 DEF InAt
  <2> QED BY <1>4, <1>6, <2>3 DEF Exact
<1> QED BY <1>5, <1>6

(* The second look: one less to be looked at, one more decided.            *)
LEMMA ExactLook ==
  ASSUME IInv, NEW r \in Readers, Recheck(r), NEW v \in Writers, Exact(v)
  PROVE  Exact(v)'
<1>1. CountType /\ deq[r] \in DeqLocal /\ deq[r].of \in Writers /\ deq[r].at = "recheck"
  BY DEF IInv, CountType, Recheck
<1>2. PICK w \in Writers, m \in Nat : deq[r].of = w /\ deq[r].my = m
  BY <1>1 DEF DeqLocal
<1>3. PICK d \in DeqLocal :
        /\ deq' = [deq EXCEPT ![r] = d] /\ d.of = w /\ d.at # "recheck"
        /\ \/ took' = [took EXCEPT ![w] = @ \cup {m}] /\ UNCHANGED failed
           \/ failed' = [failed EXCEPT ![w] = @ \cup {m}] /\ UNCHANGED took
  <2>1. tailIndex[w] \in Nat BY <1>1 DEF CountType
  <2>2. /\ [deq[r] EXCEPT !.at = "claim", !.tail = tailIndex[w]] \in DeqLocal
        /\ [deq[r] EXCEPT !.at = "overcommit", !.tail = tailIndex[w]] \in DeqLocal
    BY <1>1, <2>1 DEF DeqLocal
  <2>3. CASE m - deq[r].over < tailIndex[w]
    <3>1. deq' = [deq EXCEPT ![r] = [deq[r] EXCEPT !.at = "claim", !.tail = tailIndex[w]]]
      BY <1>1, <1>2, <2>3 DEF Recheck, CountType
    <3>2. took' = [took EXCEPT ![w] = @ \cup {m}] /\ UNCHANGED failed
      BY <1>2, <2>3 DEF Recheck
    <3> DEFINE d == [deq[r] EXCEPT !.at = "claim", !.tail = tailIndex[w]]
    <3>3. d \in DeqLocal /\ d.of = w /\ d.at # "recheck"
      BY <1>1, <1>2, <2>2 DEF DeqLocal
    <3> HIDE DEF d
    <3> QED BY <3>1, <3>2, <3>3 DEF d
  <2>4. CASE ~ (m - deq[r].over < tailIndex[w])
    <3>1. deq' = [deq EXCEPT ![r] = [deq[r] EXCEPT !.at = "overcommit", !.tail = tailIndex[w]]]
      BY <1>1, <1>2, <2>4 DEF Recheck, CountType
    <3>2. failed' = [failed EXCEPT ![w] = @ \cup {m}] /\ UNCHANGED took
      BY <1>2, <2>4 DEF Recheck
    <3> DEFINE d == [deq[r] EXCEPT !.at = "overcommit", !.tail = tailIndex[w]]
    <3>3. d \in DeqLocal /\ d.of = w /\ d.at # "recheck"
      BY <1>1, <1>2, <2>2 DEF DeqLocal
    <3> HIDE DEF d
    <3> QED BY <3>1, <3>2, <3>3 DEF d
  <2> QED BY <2>3, <2>4
<1>4. /\ dequeueOptimisticCount' = dequeueOptimisticCount
      /\ took \in [Writers -> SUBSET Nat] /\ failed \in [Writers -> SUBSET Nat]
  BY <1>1 DEF Recheck, countVars, CountType
<1>5. CASE v = w
  <2>1. Walks(w, r, "recheck", d) BY <1>1, <1>2, <1>3, Walk
  <2>2. Cardinality(InAt(w, "recheck")') = Cardinality(InAt(w, "recheck")) - 1
    BY <1>3, <2>1 DEF Walks
  <2>3. PICK n \in Nat : n = dequeueOptimisticCount[w] BY <1>1 DEF CountType
  <2>4. /\ took[w] \subseteq 0 .. n - 1 /\ failed[w] \subseteq 0 .. n - 1
        /\ m \in 0 .. n - 1 /\ m \notin took[w] /\ m \notin failed[w]
    BY <1>2, <2>1, <2>3 DEF Walks, IInv, Tickets, Drawn
  <2>5. PICK t, f, p : /\ t = Cardinality(took[w]) /\ f = Cardinality(failed[w])
                       /\ p = Cardinality(InAt(w, "recheck"))
    OBVIOUS
  <2>6. t \in Nat /\ f \in Nat /\ p \in Nat BY <2>4, <2>5, FiniteDraws, FiniteInAt
  <2>7. n = t + f + p BY <1>5, <2>3, <2>5 DEF Exact
  <2>8. \/ took'[w] = took[w] \cup {m} /\ failed'[w] = failed[w]
        \/ failed'[w] = failed[w] \cup {m} /\ took'[w] = took[w]
    BY <1>3, <1>4
  <2>9. \/ Cardinality(took'[w]) = t + 1 /\ Cardinality(failed'[w]) = f
        \/ Cardinality(failed'[w]) = f + 1 /\ Cardinality(took'[w]) = t
    BY <2>4, <2>5, <2>8, OneMore
  <2>10. n = Cardinality(took'[w]) + Cardinality(failed'[w]) + (p - 1)
    BY <2>6, <2>7, <2>9
  <2> QED BY <1>4, <1>5, <2>2, <2>3, <2>5, <2>10 DEF Exact
<1>6. CASE v # w
  <2>1. deq'[r] = d /\ \A q \in Readers \ {r} : deq'[q] = deq[q] BY <1>1, <1>3, MoveOn
  <2>3. InAt(v, "recheck")' = InAt(v, "recheck") BY <1>2, <1>3, <1>6, <2>1 DEF InAt
  <2>4. took'[v] = took[v] /\ failed'[v] = failed[v] BY <1>3, <1>4, <1>6
  <2> QED BY <1>4, <2>3, <2>4 DEF Exact
<1> QED BY <1>5, <1>6

(* A step of nobody's dequeue.                                             *)
LEMMA CallsStay ==
  ASSUME TypeOK, OfWriters, CallInv,
         UNCHANGED <<deq, found, span, took, failed, dequeueOptimisticCount, dequeueOvercommit>>,
         \A w \in Writers : tailIndex'[w] \in Nat /\ tailIndex[w] <= tailIndex'[w]
  PROVE  CallInv'
<1>1. ASSUME NEW w \in Writers PROVE Exact(w)' BY <1>1 DEF CallInv, Exact, InAt
<1>2. ASSUME NEW r \in Readers PROVE CallKept(r)' BY <1>2 DEF CallInv, CallKept
<1>3. ASSUME NEW r \in Readers PROVE MissKept(r)'
  <2>1. /\ \A w : ToDraw(r, w)' = ToDraw(r, w)
        /\ Reckoned(r)' = Reckoned(r) /\ MissKept(r) /\ deq[r] \in DeqLocal
    BY <1>3 DEF CallInv, ToDraw, Reckoned, TypeOK
  <2>2. deq[r].at \in Undrawn \cup {"recheck"} => deq[r].tail <= tailIndex'[deq[r].of]
    <3>1. SUFFICES ASSUME deq[r].at \in Undrawn \cup {"recheck"}
                   PROVE  deq[r].tail <= tailIndex'[deq[r].of]
      OBVIOUS
    <3>2. deq[r].of \in Writers /\ deq[r].tail \in Nat /\ deq[r].tail <= tailIndex[deq[r].of]
      BY <1>3, <2>1, <3>1 DEF OfWriters, MissKept, Undrawn, DeqLocal
    <3> QED BY <3>2 DEF TypeOK
  <2> QED BY <2>1, <2>2 DEF MissKept
<1> QED BY <1>1, <1>2, <1>3 DEF CallInv

(* At the start nobody has drawn.                                          *)
LEMMA InitCalls ==
  ASSUME Init
  PROVE  CallInv
<1>1. ASSUME NEW w \in Writers PROVE Exact(w)
  <2>1. took[w] = {} /\ failed[w] = {} /\ InAt(w, "recheck") = {} /\ dequeueOptimisticCount[w] = 0
    BY <1>1 DEF Init, InAt, DeqIdle
  <2>2. Cardinality({}) = 0 BY FS_EmptySet
  <2> QED BY <2>1, <2>2 DEF Exact
<1>2. ASSUME NEW r \in Readers PROVE CallKept(r) /\ MissKept(r)
  BY <1>2 DEF Init, CallKept, MissKept, DeqIdle, NotFound, Seeking, Taken, Undrawn
<1> QED BY <1>1, <1>2 DEF CallInv

(* What the dequeues have seen is kept.                                    *)
LEMMA CallsInductive ==
  ASSUME BlockInv, IInv, SlotInv, CallInv, Served, OfWriters, [Next]_vars
  PROVE  CallInv'
<1>0. TypeOK /\ tailIndex \in [Writers -> Nat] BY DEF BlockInv, TypeOK
<1>1. ASSUME NEW r \in Readers, DequeueStep(r) PROVE CallInv'
  <2>1. ASSUME NEW w \in Writers PROVE Exact(w)'
    BY <1>0, <1>1, <2>1, ExactElsewhere, ExactDraw, ExactLook DEF CallInv
  <2>2. ASSUME NEW q \in Readers \ {r} PROVE CallKept(q)' /\ MissKept(q)'
    BY <1>0, <1>1, <2>2, CallOthers, MissOthers DEF CallInv
  <2>3. CallKept(r)' /\ MissKept(r)' BY <1>0, <1>1, CallOwn, MissOwn DEF CallInv
  <2> QED BY <2>1, <2>2, <2>3 DEF CallInv
<1>2. ASSUME NEW w \in Writers, EnqueueStep(w) PROVE CallInv'
  <2>1. UNCHANGED <<deq, found, span, took, failed, dequeueOptimisticCount, dequeueOvercommit>>
    BY <1>2 DEF EnqueueStep, FindEntry, NewBlockIndex, NewBlockIndexFails, WriteKey,
       WriteTail, FromInitialPool, FromFreeList, Got, Create, CreateFails, Fill,
       FillThrows, RewindTail, ClearValue, GivenBack, WriteValue, Construct, Publish,
       countVars, readVars, ghostVars
  <2>2. tailIndex' = tailIndex \/ tailIndex' = [tailIndex EXCEPT ![w] = @ + 1]
    BY <1>2 DEF EnqueueStep, FindEntry, NewBlockIndex, NewBlockIndexFails, WriteKey,
       WriteTail, FromInitialPool, FromFreeList, Got, Create, CreateFails, Fill,
       FillThrows, RewindTail, ClearValue, GivenBack, WriteValue, Construct, Publish,
       countVars
  <2>3. \A v \in Writers : tailIndex'[v] \in Nat /\ tailIndex[v] <= tailIndex'[v]
    BY <1>0, <2>2
  <2> QED BY <1>0, <2>1, <2>3, CallsStay
<1>3. ASSUME UNCHANGED <<countVars, readVars, ghostVars>> PROVE CallInv'
  BY <1>0, <1>3, CallsStay DEF countVars, readVars, ghostVars
<1>4. ASSUME NEW t \in Threads, InList(t) PROVE CallInv' BY <1>3, <1>4 DEF InList
<1>5. ASSUME UNCHANGED vars PROVE CallInv' BY <1>3, <1>5 DEF vars, readVars
<1> QED BY <1>1, <1>2, <1>4, <1>5 DEF Next

-------------------------------------------------------------------------------
(* The streams of WriterStreams.                                           *)

(* The stream from h on: its length, what comes next, its head and rest.   *)
LEMMA RunFacts ==
  ASSUME NEW w \in Writers, NEW h \in Nat, NEW n \in Nat
  PROVE  /\ Run(w, h, n) \in Seq(Item) /\ Len(Run(w, h, n)) = n
         /\ Append(Run(w, h, n), <<w, h + n>>) = Run(w, h, n + 1)
         /\ n > 0 => /\ Run(w, h, n) # << >> /\ Head(Run(w, h, n)) = <<w, h>>
                     /\ Tail(Run(w, h, n)) = Run(w, h + 1, n - 1)
<1>1. ASSUME NEW g \in Nat, NEW m \in Nat
      PROVE  /\ Run(w, g, m) \in Seq(Item) /\ Len(Run(w, g, m)) = m
             /\ \A k \in 1 .. m : Run(w, g, m)[k] = <<w, g + k - 1>>
  BY <1>1 DEF Item, Run
<1>2. Append(Run(w, h, n), <<w, h + n>>) = Run(w, h, n + 1)
  <2>1. PICK u, t, e, s : /\ u = Run(w, h, n) /\ t = Run(w, h, n + 1)
                          /\ e = <<w, h + n>> /\ s = Append(u, e)
    OBVIOUS
  <2>2. e \in Item BY <2>1 DEF Item
  <2>3. u \in Seq(Item) /\ Len(u) = n /\ \A k \in 1 .. n : u[k] = <<w, h + k - 1>>
    BY <1>1, <2>1
  <2>4. n + 1 \in Nat OBVIOUS
  <2>5. /\ t \in Seq(Item) /\ Len(t) = n + 1
        /\ \A k \in 1 .. n + 1 : t[k] = <<w, h + k - 1>>
    BY <1>1, <2>1, <2>4
  <2>6. /\ s \in Seq(Item) /\ Len(s) = n + 1 /\ s[n + 1] = e
        /\ \A k \in 1 .. n : s[k] = u[k]
    BY <2>1, <2>2, <2>3, AppendProperties
  <2>7. \A k \in 1 .. n : s[k] = t[k]
    <3>1. \A k \in 1 .. n : k \in 1 .. n + 1 OBVIOUS
    <3> QED BY <2>3, <2>5, <2>6, <3>1, Zenon
  <2>8. s[n + 1] = t[n + 1]
    <3>1. h + (n + 1) - 1 = h + n /\ n + 1 \in 1 .. n + 1 OBVIOUS
    <3> QED BY <2>1, <2>5, <2>6, <3>1
  <2>9. \A k \in 1 .. n + 1 : k \in 1 .. n \/ k = n + 1 OBVIOUS
  <2>10. s = t BY <2>5, <2>6, <2>7, <2>8, <2>9, SeqEqual
  <2> QED BY <2>1, <2>10
<1>3. ASSUME n > 0
      PROVE  /\ Run(w, h, n) # << >> /\ Head(Run(w, h, n)) = <<w, h>>
             /\ Tail(Run(w, h, n)) = Run(w, h + 1, n - 1)
  <2> DEFINE s == Run(w, h, n)
  <2>1. s \in Seq(Item) /\ Len(s) = n /\ \A k \in 1 .. n : s[k] = <<w, h + k - 1>>
    BY <1>1
  <2> HIDE DEF s
  <2>2. s # << >> /\ Head(s) = s[1] /\ s[1] = <<w, h>> BY <1>3, <2>1
  <2>3. /\ Tail(s) \in Seq(Item) /\ Len(Tail(s)) = n - 1
        /\ \A k \in 1 .. n - 1 : Tail(s)[k] = s[k + 1]
    BY <1>3, <2>1, <2>2
  <2>4. \A k \in 1 .. n - 1 : Tail(s)[k] = <<w, (h + 1) + k - 1>>
    <3>1. ASSUME NEW k \in 1 .. n - 1 PROVE Tail(s)[k] = <<w, (h + 1) + k - 1>>
      BY <2>1, <2>3
    <3> QED BY <3>1
  <2>5. /\ n - 1 \in Nat /\ h + 1 \in Nat BY <1>3
  <2>6. /\ Run(w, h + 1, n - 1) \in Seq(Item) /\ Len(Run(w, h + 1, n - 1)) = n - 1
        /\ \A k \in 1 .. n - 1 : Run(w, h + 1, n - 1)[k] = <<w, (h + 1) + k - 1>>
    BY <1>1, <2>5
  <2>7. Tail(s) = Run(w, h + 1, n - 1) BY <2>3, <2>4, <2>6, SeqEqual
  <2> QED BY <2>2, <2>7 DEF s
<1> QED BY <1>1, <1>2, <1>3

(* What the invariants say of a call.                                      *)
LEMMA SeenCalls ==
  ASSUME TypeOK, OfWriters, CallInv, NEW r \in Readers
  PROVE  CallSeen(r)
<1>1. deq[r] \in DeqLocal /\ CallKept(r) BY DEF TypeOK, CallInv
<1>2. deq[r].at \in Seeking \cup {"idle"} => ItemOf(r) = NoItem
  BY <1>1 DEF CallKept, ItemOf, Seeking
<1>3. deq[r].at \in Bound \cup Taken =>
        ItemOf(r) = <<deq[r].of, deq[r].index>> /\ ItemOf(r) # NoItem
  <2>1. SUFFICES ASSUME deq[r].at \in Bound \cup Taken
                 PROVE  ItemOf(r) = <<deq[r].of, deq[r].index>> /\ ItemOf(r) # NoItem
    OBVIOUS
  <2>2. ItemOf(r) = <<deq[r].of, deq[r].index>>
    BY <1>1, <2>1 DEF CallKept, ItemOf, Bound, Taken
  <2>3. deq[r].of \in Writers /\ deq[r].index \in Nat
    BY <1>1, <2>1 DEF OfWriters, Bound, Taken, DeqLocal
  <2>4. <<deq[r].of, deq[r].index>> \in Writers \X Nat BY <2>3
  <2> QED BY <2>2, <2>4, ImplicitProducerAssumption
<1>4. deq[r].at = "idle" => Call[r] = Streams!Idle
  BY <1>1, <1>2 DEF CallKept, Call, NoSpan, Streams!Idle, Seeking
<1>5. ASSUME NEW w \in Writers PROVE Streams!Looking(r, w) <=> Looking(r, w)
  BY <1>1, <1>2, <1>3, ImplicitProducerAssumption DEF Streams!Looking, Call, CallKept,
     Looking, Seeking, Bound, Taken, DeqLocal
<1> QED BY <1>2, <1>3, <1>4, <1>5 DEF CallSeen

(* What a step changes in the calls.                                       *)
LEMMA SameCalls ==
  ASSUME UNCHANGED <<deq, found, span>>
  PROVE  Call' = Call
<1>1. ASSUME NEW r \in Readers PROVE ItemOf(r)' = ItemOf(r) BY DEF ItemOf
<1> QED BY <1>1 DEF Call

(* A step of a dequeue that does not begin changes its own call only.      *)
LEMMA OwnCall ==
  ASSUME TypeOK, NEW r \in Readers, DequeueStep(r), \A w \in Writers : ~ DequeueStart(r, w)
  PROVE  /\ Call'[r] = [of |-> deq'[r].of, there |-> span'[r].there,
                        overlap |-> span'[r].overlap, item |-> ItemOf(r)']
         /\ Call' = [Call EXCEPT ![r] = Call'[r]]
<1>1. Call'[r] = [of |-> deq'[r].of, there |-> span'[r].there,
                  overlap |-> span'[r].overlap, item |-> ItemOf(r)']
  BY DEF Call
<1>2. ASSUME NEW q \in Readers \ {r} PROVE Call'[q] = Call[q]
  BY <1>2, ReaderFrame, SpanFrame DEF ItemOf, Call
<1>3. PICK c, d : c = Call /\ d = Call' OBVIOUS
<1>4. c = [q \in Readers |-> c[q]] /\ d = [q \in Readers |-> d[q]] BY <1>3 DEF Call
<1>5. \A q \in Readers \ {r} : d[q] = c[q] BY <1>2, <1>3
<1>6. d = [c EXCEPT ![r] = d[r]] BY <1>4, <1>5
<1> QED BY <1>1, <1>3, <1>6

(* A step of a dequeue that leaves it where it was.                        *)
LEMMA CallRests ==
  ASSUME TypeOK, NEW r \in Readers, DequeueStep(r), \A w \in Writers : ~ DequeueStart(r, w),
         deq'[r].of = deq[r].of, span'[r] = span[r], ItemOf(r)' = ItemOf(r)
  PROVE  Call' = Call
<1>1. Call'[r] = Call[r] BY OwnCall DEF Call
<1>2. PICK c, d : c = Call /\ d = Call' OBVIOUS
<1>3. c = [q \in Readers |-> c[q]] /\ d = [c EXCEPT ![r] = c[r]]
  BY <1>1, <1>2, OwnCall DEF Call
<1>4. d = c BY <1>3
<1> QED BY <1>2, <1>4

(* The streams follow from the two counters.                               *)
LEMMA SameStreams ==
  ASSUME UNCHANGED <<headIndex, tailIndex>>
  PROVE  Untaken' = Untaken
BY DEF Untaken, Run

(* A writer's step is an Enqueue or nothing.                               *)
LEMMA EnqueueImplements ==
  ASSUME TypeOK, Served, NEW w \in Writers, EnqueueStep(w)
  PROVE  Streams!Enqueue(w) \/ UNCHANGED Streams!vars
<1>1. UNCHANGED <<deq, found, span, headIndex>>
  BY DEF EnqueueStep, FindEntry, NewBlockIndex, NewBlockIndexFails, WriteKey, WriteTail,
     FromInitialPool, FromFreeList, Got, Create, CreateFails, Fill, FillThrows,
     RewindTail, ClearValue, GivenBack, WriteValue, Construct, Publish, countVars,
     readVars, ghostVars
<1>2. Call' = Call BY <1>1, SameCalls
<1>3. CASE Publish(w)
  <2>1. tailIndex' = [tailIndex EXCEPT ![w] = @ + 1] /\ tailIndex \in [Writers -> Nat]
    BY <1>3 DEF Publish, TypeOK
  <2>2. PICK h \in Nat, t \in Nat : h = headIndex[w] /\ t = tailIndex[w] /\ h <= t
    BY DEF TypeOK, Served
  <2>3. t - h \in Nat /\ (t - h) + 1 = (t + 1) - h /\ h + (t - h) = t BY <2>2
  <2>4. Append(Run(w, h, t - h), <<w, t>>) = Run(w, h, (t + 1) - h)
    <3>1. Append(Run(w, h, t - h), <<w, h + (t - h)>>) = Run(w, h, (t - h) + 1)
      BY <2>3, RunFacts
    <3> QED BY <2>3, <3>1
  <2>5. PICK u, z : u = Untaken /\ z = Untaken' OBVIOUS
  <2>6. /\ u = [v \in Writers |-> u[v]] /\ z = [v \in Writers |-> z[v]]
        /\ u[w] = Run(w, h, t - h) /\ z[w] = Run(w, h, (t + 1) - h)
    BY <1>1, <2>1, <2>2, <2>5 DEF Untaken, Run
  <2>7. \A v \in Writers \ {w} : z[v] = u[v] BY <1>1, <2>1, <2>5 DEF Untaken, Run
  <2>8. z = [u EXCEPT ![w] = Append(u[w], <<w, t>>)] BY <2>4, <2>6, <2>7
  <2> QED BY <1>2, <2>1, <2>2, <2>5, <2>8 DEF Streams!Enqueue
<1>4. CASE ~ Publish(w)
  <2>1. tailIndex' = tailIndex
    BY <1>4 DEF EnqueueStep, FindEntry, NewBlockIndex, NewBlockIndexFails, WriteKey,
       WriteTail, FromInitialPool, FromFreeList, Got, Create, CreateFails, Fill,
       FillThrows, RewindTail, ClearValue, GivenBack, WriteValue, Construct, countVars
  <2>2. Untaken' = Untaken BY <1>1, <2>1, SameStreams
  <2> QED BY <1>2, <2>1, <2>2 DEF Streams!vars
<1> QED BY <1>3, <1>4

(* The instance has FiniteSets of its own.                                 *)
LEMMA SameCardinality == \A S : Streams!Cardinality(S) = Cardinality(S)
BY DEF Streams!Cardinality, Cardinality

(* The records of a call that begins and of one that has its element.      *)
LEMMA IdleBegun ==
  ASSUME NEW o, NEW t, NEW l
  PROVE  [Streams!Idle EXCEPT !.of = o, !.there = t, !.overlap = l]
           = [of |-> o, there |-> t, overlap |-> l, item |-> NoItem]
<1> DEFINE R == [of : {o}, there : {t}, overlap : {l}, item : {NoItem}]
<1>1. \A x, y \in R : x = y OBVIOUS
<1>2. [Streams!Idle EXCEPT !.of = o, !.there = t, !.overlap = l] \in R
  BY DEF Streams!Idle
<1>3. [of |-> o, there |-> t, overlap |-> l, item |-> NoItem] \in R OBVIOUS
<1> QED BY <1>1, <1>2, <1>3

LEMMA IdleTaken ==
  ASSUME NEW o, NEW i
  PROVE  [Streams!Idle EXCEPT !.of = o, !.item = i]
           = [of |-> o, there |-> 0, overlap |-> 0, item |-> i]
<1> DEFINE R == [of : {o}, there : {0}, overlap : {0}, item : {i}]
<1>1. \A x, y \in R : x = y OBVIOUS
<1>2. [Streams!Idle EXCEPT !.of = o, !.item = i] \in R BY DEF Streams!Idle
<1>3. [of |-> o, there |-> 0, overlap |-> 0, item |-> i] \in R OBVIOUS
<1> QED BY <1>1, <1>2, <1>3

(* A dequeue that begins is a Begin: there is what it sees between the     *)
(* two counters, the overlap is of the others it finds looking.            *)
LEMMA BeginImplements ==
  ASSUME TypeOK, Served, NEW r \in Readers, NEW w \in Writers, DequeueStart(r, w),
         \A q \in Readers : CallSeen(q), CallSeen(r)'
  PROVE  Streams!Begin(r, w)
<1>1. /\ deq \in [Readers -> DeqLocal] /\ span \in [Readers -> [there : Nat, overlap : Nat]]
      /\ DequeueStep(r)
  BY DEF TypeOK, DequeueStep
<1>2. /\ deq[r].at = "idle" /\ deq'[r].at = "over" /\ deq'[r].of = w
      /\ UNCHANGED <<tailIndex, headIndex, found>>
  BY <1>1 DEF DequeueStart, DeqLocal, countVars
<1>3. Call[r] = Streams!Idle BY <1>2 DEF CallSeen
<1>4. Streams!OthersLooking(r, w) = OthersLooking(r, w)
  BY DEF CallSeen, Streams!OthersLooking, OthersLooking
<1>5. Len(Untaken[w]) = tailIndex[w] - headIndex[w]
  <2>1. headIndex[w] \in Nat /\ tailIndex[w] - headIndex[w] \in Nat
    BY DEF TypeOK, Served
  <2> QED BY <2>1, RunFacts DEF Untaken
<1>6. /\ span'[r].there = tailIndex[w] - headIndex[w]
      /\ span'[r].overlap = Cardinality(OthersLooking(r, w))
      /\ \A q \in Readers \ {r} :
           span'[q] = IF Looking(q, w) THEN [span[q] EXCEPT !.overlap = @ + 1] ELSE span[q]
  BY DEF DequeueStart
<1>7. Call'[r] = [Streams!Idle EXCEPT !.of = w, !.there = Len(Untaken[w]),
                                       !.overlap = Cardinality(Streams!OthersLooking(r, w))]
  <2>1. ItemOf(r)' = NoItem BY <1>2 DEF CallSeen, Seeking
  <2>2. Call'[r] = [of |-> w, there |-> span'[r].there, overlap |-> span'[r].overlap,
                    item |-> NoItem]
    BY <1>2, <2>1 DEF Call
  <2> QED
    <3>1. PICK k, c : k = Len(Untaken[w]) /\ c = Cardinality(Streams!OthersLooking(r, w))
      OBVIOUS
    <3>2. Call'[r] = [of |-> w, there |-> k, overlap |-> c, item |-> NoItem]
      BY <1>4, <1>5, <1>6, <2>2, <3>1
    <3>3. [Streams!Idle EXCEPT !.of = w, !.there = k, !.overlap = c]
            = [of |-> w, there |-> k, overlap |-> c, item |-> NoItem]
      BY IdleBegun
    <3> QED BY <3>1, <3>2, <3>3
<1>8. ASSUME NEW q \in Readers \ {r}
      PROVE  Call'[q] = IF Streams!Looking(q, w) THEN [Call[q] EXCEPT !.overlap = @ + 1]
                                                 ELSE Call[q]
  <2>1. deq'[q] = deq[q] /\ found'[q] = found[q] BY <1>1, <1>8, ReaderFrame
  <2>2. ItemOf(q)' = ItemOf(q) BY <2>1 DEF ItemOf
  <2>3. /\ Call'[q] = [of |-> deq[q].of, there |-> span'[q].there,
                       overlap |-> span'[q].overlap, item |-> ItemOf(q)]
        /\ Call[q] = [of |-> deq[q].of, there |-> span[q].there,
                      overlap |-> span[q].overlap, item |-> ItemOf(q)]
    BY <1>8, <2>1, <2>2 DEF Call
  <2>4. Streams!Looking(q, w) <=> Looking(q, w) BY <1>8 DEF CallSeen
  <2>5. span[q] \in [there : Nat, overlap : Nat] BY <1>1, <1>8
  <2>6. CASE Looking(q, w)
    <3>1. span'[q].there = span[q].there /\ span'[q].overlap = span[q].overlap + 1
      BY <1>6, <1>8, <2>5, <2>6
    <3> QED BY <2>3, <2>4, <2>6, <3>1
  <2>7. CASE ~ Looking(q, w) BY <1>6, <1>8, <2>3, <2>4, <2>7
  <2> QED BY <2>6, <2>7
<1>9. Call' = [q \in Readers |->
        IF q = r THEN [Streams!Idle EXCEPT !.of = w, !.there = Len(Untaken[w]),
                                           !.overlap = Cardinality(Streams!OthersLooking(r, w))]
        ELSE IF Streams!Looking(q, w) THEN [Call[q] EXCEPT !.overlap = @ + 1]
        ELSE Call[q]]
  BY <1>7, <1>8 DEF Call
<1>10. Untaken' = Untaken BY <1>2, SameStreams
<1> QED BY <1>2, <1>3, <1>9, <1>10, SameCardinality DEF Streams!Begin

(* A miss of the code is a Miss of the specification.                      *)
LEMMA MissImplements ==
  ASSUME TypeOK, NEW r \in Readers, DequeueStep(r), Missed(r), deq[r].at \in Seeking,
         deq[r].of \in Writers, Accounted(r), CallSeen(r), CallSeen(r)',
         UNCHANGED <<tailIndex, headIndex>>
  PROVE  Streams!Miss(r, deq[r].of)
<1>1. deq'[r] = DeqIdle BY DEF Missed, TypeOK
<1>2. \A w \in Writers : ~ DequeueStart(r, w) BY DEF DequeueStart, Seeking
<1>3. Call' = [Call EXCEPT ![r] = Streams!Idle]
  <2>1. Call'[r] = Streams!Idle BY <1>1 DEF CallSeen, DeqIdle
  <2> QED BY <1>2, <2>1, OwnCall
<1>4. Streams!Looking(r, deq[r].of)
  <2>1. Looking(r, deq[r].of) BY DEF Looking, Seeking
  <2> QED BY <2>1 DEF CallSeen
<1>5. Call[r].there <= Call[r].overlap BY DEF Accounted, Call
<1>6. Untaken' = Untaken BY SameStreams
<1> QED BY <1>3, <1>4, <1>5, <1>6 DEF Streams!Miss

(* The claim of an index takes the oldest element.                         *)
LEMMA TakeImplements ==
  ASSUME TypeOK, OfWriters, Served', NEW r \in Readers, Claim(r), CallSeen(r), CallSeen(r)'
  PROVE  \E w \in Writers : Streams!Take(r, w)
<1>1. /\ deq \in [Readers -> DeqLocal] /\ deq[r].at = "claim" /\ DequeueStep(r)
      /\ headIndex \in [Writers -> Nat] /\ tailIndex \in [Writers -> Nat]
      /\ span \in [Readers -> [there : Nat, overlap : Nat]]
  BY DEF TypeOK, Claim, DequeueStep
<1>2. PICK w \in Writers, h \in Nat, t \in Nat :
        w = deq[r].of /\ h = headIndex[w] /\ t = tailIndex[w]
  BY <1>1 DEF OfWriters
<1>3. /\ deq'[r].at = "header" /\ deq'[r].of = w /\ deq'[r].index = h
      /\ headIndex' = [headIndex EXCEPT ![w] = h + 1] /\ tailIndex' = tailIndex
      /\ span'[r] = NoSpan
  BY <1>1, <1>2 DEF Claim, DeqIdle
<1>4. h + 1 <= t BY <1>1, <1>2, <1>3 DEF Served
<1>5. /\ t - h \in Nat /\ t - h > 0 /\ t - (h + 1) = (t - h) - 1 BY <1>2, <1>4
<1>6. /\ Run(w, h, t - h) # << >> /\ Head(Run(w, h, t - h)) = <<w, h>>
      /\ Tail(Run(w, h, t - h)) = Run(w, h + 1, t - (h + 1))
  <2>1. /\ Run(w, h, t - h) # << >> /\ Head(Run(w, h, t - h)) = <<w, h>>
        /\ Tail(Run(w, h, t - h)) = Run(w, h + 1, (t - h) - 1)
    BY <1>5, RunFacts
  <2> QED BY <1>5, <2>1
<1>7. PICK u, z : u = Untaken /\ z = Untaken' OBVIOUS
<1>8. /\ u = [v \in Writers |-> u[v]] /\ z = [v \in Writers |-> z[v]]
      /\ u[w] = Run(w, h, t - h) /\ z[w] = Run(w, h + 1, t - (h + 1))
  BY <1>1, <1>2, <1>3, <1>7 DEF Untaken, Run
<1>9. \A v \in Writers \ {w} : z[v] = u[v] BY <1>1, <1>3, <1>7 DEF Untaken, Run
<1>10. z = [u EXCEPT ![w] = Tail(u[w])] BY <1>6, <1>8, <1>9
<1>11. Call' = [Call EXCEPT ![r] = [Streams!Idle EXCEPT !.of = w, !.item = Head(Untaken[w])]]
  <2>1. ItemOf(r)' = <<w, h>> BY <1>3 DEF CallSeen, Bound
  <2>2. \A v \in Writers : ~ DequeueStart(r, v) BY <1>1 DEF DequeueStart
  <2>3. Call'[r] = [of |-> w, there |-> 0, overlap |-> 0, item |-> <<w, h>>]
    BY <1>1, <1>3, <2>1, <2>2, OwnCall DEF NoSpan
  <2>4. Head(Untaken[w]) = <<w, h>> BY <1>6, <1>7, <1>8
  <2>5. Call'[r] = [Streams!Idle EXCEPT !.of = w, !.item = Head(Untaken[w])]
    BY <2>3, <2>4, IdleTaken
  <2> QED BY <1>1, <2>2, <2>5, OwnCall
<1>12. Streams!Looking(r, w)
  <2>1. Looking(r, w) BY <1>1, <1>2 DEF Looking
  <2> QED BY <2>1 DEF CallSeen
<1>13. Streams!Take(r, w)
  BY <1>3, <1>6, <1>7, <1>8, <1>10, <1>11, <1>12 DEF Streams!Take
<1> QED BY <1>13

(* The end of a call that has its element.                                 *)
LEMMA ReturnImplements ==
  ASSUME TypeOK, NEW r \in Readers, DequeueStep(r), deq[r].at \in Taken, Dequeued(r),
         CallSeen(r), CallSeen(r)', UNCHANGED <<tailIndex, headIndex>>
  PROVE  Streams!Return(r)
<1>1. deq'[r] = DeqIdle BY DEF Dequeued, TypeOK
<1>2. \A w \in Writers : ~ DequeueStart(r, w) BY DEF DequeueStart, Taken
<1>3. Call' = [Call EXCEPT ![r] = Streams!Idle]
  <2>1. Call'[r] = Streams!Idle BY <1>1 DEF CallSeen, DeqIdle
  <2> QED BY <1>2, <2>1, OwnCall
<1>4. Call[r].item # NoItem BY DEF CallSeen, Call
<1>5. Untaken' = Untaken BY SameStreams
<1> QED BY <1>3, <1>4, <1>5 DEF Streams!Return

(* The refinement reads what the invariants give.                          *)
LEMMA InvMapped ==
  ASSUME BlockInv, IInv, CallInv PROVE Mapped
<1>1. TypeOK /\ Served /\ OfWriters BY CountsServe DEF BlockInv
<1> QED BY <1>1, SeenCalls DEF Mapped

(* A reader's step is a Begin, a Take, a Miss, a Return or nothing.        *)
LEMMA DequeueImplements ==
  ASSUME TypeOK, OfWriters, CallInv, Mapped, Mapped', NEW r \in Readers, DequeueStep(r)
  PROVE  \/ \E w \in Writers : Streams!Begin(r, w) \/ Streams!Take(r, w) \/ Streams!Miss(r, w)
         \/ Streams!Return(r)
         \/ UNCHANGED Streams!vars
<1>0. /\ deq \in [Readers -> DeqLocal] /\ deq[r] \in DeqLocal /\ MissKept(r)
      /\ CallSeen(r) /\ CallSeen(r)' /\ Served /\ Served'
      /\ \A q \in Readers : CallSeen(q)
  BY DEF TypeOK, CallInv, Mapped
<1>1. ASSUME NEW w \in Writers, DequeueStart(r, w) PROVE Streams!Begin(r, w)
  BY <1>0, <1>1, BeginImplements
<1>2. CASE Claim(r) BY <1>0, <1>2, TakeImplements
<1>3. ASSUME ~ Claim(r), \A w \in Writers : ~ DequeueStart(r, w)
      PROVE  UNCHANGED <<tailIndex, headIndex>> /\ Untaken' = Untaken
  <2>1. UNCHANGED <<tailIndex, headIndex>>
    BY <1>3, Zenon DEF DequeueStep, LoadOvercommit, LoadOptimisticCount,
       AddOptimisticCount, Recheck, AddOvercommit, LoadHeader, LoadTail, LoadKey,
       LoadValue, Move, SetEmpty, Unlink, Freed, countVars
  <2> QED BY <2>1, SameStreams
<1>4. ASSUME deq[r].at # "idle" PROVE \A w \in Writers : ~ DequeueStart(r, w)
  BY <1>4 DEF DequeueStart
<1>5. ASSUME deq[r].at \in Seeking, deq'[r].at \in Seeking, ~ Claim(r),
             deq'[r].of = deq[r].of, span' = span
      PROVE  UNCHANGED Streams!vars
  BY <1>0, <1>3, <1>4, <1>5, CallRests DEF CallSeen, Seeking, Streams!vars
<1>6. ASSUME deq[r].at \in Bound \cup Taken, deq'[r].at \in Bound \cup Taken, ~ Claim(r),
             deq'[r].of = deq[r].of, deq'[r].index = deq[r].index, span' = span
      PROVE  UNCHANGED Streams!vars
  BY <1>0, <1>3, <1>4, <1>6, CallRests DEF CallSeen, Bound, Taken, Streams!vars
<1>7. ASSUME deq[r].at \in Seeking, Missed(r), Accounted(r), ~ Claim(r)
      PROVE  \E w \in Writers : Streams!Miss(r, w)
  BY <1>0, <1>3, <1>4, <1>7, MissImplements DEF OfWriters, Seeking
<1>8. CASE LoadOvercommit(r) \/ AddOptimisticCount(r) \/ Recheck(r)
  <2>1. deq[r].at \in {"over", "ticket", "recheck"}
    BY <1>8 DEF LoadOvercommit, AddOptimisticCount, Recheck
  <2>2. ~ Claim(r) BY <2>1 DEF Claim
  <2>3. deq'[r].at \in {"count", "recheck", "claim", "overcommit"}
        /\ deq'[r].of = deq[r].of /\ span' = span
    BY <1>0, <1>8 DEF LoadOvercommit, AddOptimisticCount, DeqLocal, ghostVars, Recheck
  <2>4. UNCHANGED Streams!vars BY <1>5, <2>1, <2>2, <2>3 DEF Seeking
  <2> QED BY <2>4
<1>9. CASE LoadOptimisticCount(r)
  <2>1. deq[r].at = "count" /\ ~ Claim(r) BY <1>9 DEF LoadOptimisticCount, Claim
  <2>2. CASE deq'[r].at = "ticket"
    BY <1>0, <1>5, <1>9, <2>1, <2>2 DEF Missed, DeqIdle, LoadOptimisticCount, DeqLocal,
       Seeking
  <2>3. CASE deq'[r].at # "ticket"
    BY <1>0, <1>7, <1>9, <2>1, <2>3, NoneIsLeft DEF Seeking
  <2> QED BY <2>2, <2>3
<1>10. CASE AddOvercommit(r)
  BY <1>0, <1>7, <1>10 DEF AddOvercommit, Claim, MissKept, Accounted, Seeking
<1>11. CASE LooksUp(r)
  <2>1. /\ deq[r].at \in Flying /\ deq'[r].at \in Flying
        /\ deq'[r].of = deq[r].of /\ deq'[r].index = deq[r].index
    BY <1>11, LooksUpPlaces
  <2>2. span' = span /\ ~ Claim(r)
    BY <1>11, <2>1, Zenon DEF LooksUp, LoadHeader, LoadTail, LoadKey, LoadValue, Move,
       Claim, Flying, ghostVars
  <2>3. UNCHANGED Streams!vars BY <1>6, <2>1, <2>2 DEF Flying, Bound, Taken
  <2> QED BY <2>3
<1>12. CASE SetEmpty(r) \/ Unlink(r) \/ Freed(r)
  <2>1. deq[r].at \in Taken /\ span' = span
    BY <1>12 DEF SetEmpty, Unlink, Freed, Taken, ghostVars
  <2>2. ~ Claim(r) BY <2>1 DEF Claim, Taken
  <2>3. \/ Dequeued(r)
        \/ /\ deq'[r].at \in Taken
           /\ deq'[r].of = deq[r].of /\ deq'[r].index = deq[r].index
    BY <1>0, <1>12 DEF SetEmpty, Unlink, Freed, Taken, DeqLocal
  <2>4. CASE Dequeued(r)
    <3>1. UNCHANGED <<tailIndex, headIndex>> BY <1>3, <1>4, <2>1, <2>2 DEF Taken
    <3>2. Streams!Return(r) BY <1>0, <2>1, <2>4, <3>1, ReturnImplements
    <3> QED BY <3>2
  <2>5. CASE /\ deq'[r].at \in Taken
             /\ deq'[r].of = deq[r].of /\ deq'[r].index = deq[r].index
    <3>1. UNCHANGED Streams!vars BY <1>6, <2>1, <2>2, <2>5
    <3> QED BY <3>1
  <2> QED BY <2>3, <2>4, <2>5
<1> QED BY <1>1, <1>2, <1>8, <1>9, <1>10, <1>11, <1>12 DEF DequeueStep, LooksUp

(* Every step is one of WriterStreams or none.                             *)
LEMMA StepImplements ==
  ASSUME BlockInv, IInv, CallInv, Mapped, Mapped', [Next]_vars
  PROVE  [Streams!Next]_(Streams!vars)
<1>1. TypeOK /\ Served /\ OfWriters BY CountsServe DEF BlockInv
<1>2. ASSUME NEW w \in Writers, EnqueueStep(w) PROVE [Streams!Next]_(Streams!vars)
  BY <1>1, <1>2, EnqueueImplements DEF Streams!Next
<1>3. ASSUME NEW r \in Readers, DequeueStep(r) PROVE [Streams!Next]_(Streams!vars)
  BY <1>1, <1>3, DequeueImplements DEF Streams!Next
<1>4. ASSUME UNCHANGED <<tailIndex, headIndex, deq, found, span>>
      PROVE  UNCHANGED Streams!vars
  BY <1>4, SameCalls, SameStreams DEF Streams!vars
<1>5. ASSUME NEW t \in Threads, InList(t) PROVE UNCHANGED Streams!vars
  BY <1>4, <1>5 DEF InList, countVars, readVars, ghostVars
<1>6. CASE UNCHANGED vars BY <1>4, <1>6 DEF vars, countVars, ghostVars
<1> QED BY <1>2, <1>3, <1>5, <1>6 DEF Next

(* At the start every stream is empty and every call idle.                 *)
LEMMA InitStreams ==
  ASSUME Init PROVE Streams!Init
<1>1. tailIndex = [w \in Writers |-> 0] /\ headIndex = [w \in Writers |-> 0] BY DEF Init
<1>2. Untaken = [w \in Writers |-> << >>]
  <2>1. \A w \in Writers : Run(w, 0, 0 - 0) = << >>
    <3>1. ASSUME NEW w \in Writers PROVE Run(w, 0, 0 - 0) = << >> BY RunFacts, EmptySeq
    <3> QED BY <3>1
  <2> QED BY <1>1, <2>1 DEF Untaken
<1>3. Call = [r \in Readers |-> Streams!Idle]
  <2>1. ASSUME NEW r \in Readers
        PROVE  [of |-> deq[r].of, there |-> span[r].there, overlap |-> span[r].overlap,
                item |-> ItemOf(r)] = Streams!Idle
    BY DEF Init, DeqIdle, NotFound, NoSpan, ItemOf, Streams!Idle
  <2> QED BY <2>1 DEF Call
<1> QED BY <1>1, <1>2, <1>3 DEF Streams!Init

-------------------------------------------------------------------------------
(* The theorems.                                                           *)

(* What is put in a slot stays there until the reader that has its index   *)
(* takes it, whichever block of whichever ring the slot is in.             *)
THEOREM SlotsKept == Spec => []SlotInv
<1>1. Init => SlotInv BY InitSlots
<1>2. BlockInv /\ IInv /\ SlotInv /\ [Next]_vars => SlotInv' BY SlotsInductive
<1> QED BY <1>1, <1>2, BlocksKept, TicketsKept, PTL DEF Spec

(* What every dequeue has seen: the tickets in play, less the overcommit   *)
(* it read, are of elements taken or of dequeues around it.                *)
THEOREM CallsKept == Spec => []CallInv
<1>1. Init => CallInv BY InitCalls
<1>2. BlockInv /\ IInv /\ SlotInv /\ CallInv /\ [Next]_vars => CallInv'
  BY CallsInductive, CountsServe DEF BlockInv
<1> QED BY <1>1, <1>2, BlocksKept, TicketsKept, SlotsKept, PTL DEF Spec

(* The queue of a channel is a first-in first-out stream for each writing  *)
(* thread: a dequeue takes the oldest element, once, and gives what was    *)
(* put there, and it misses only if other dequeues around it account for   *)
(* all there was when it began (ConcurrentQueue::try_dequeue).             *)
THEOREM Implementation == Spec => ImplementsStreams
<1>1. Init => Streams!Init BY InitStreams
<1>2. BlockInv /\ IInv /\ CallInv => Mapped BY InvMapped
<1>3. BlockInv /\ IInv /\ CallInv /\ Mapped /\ Mapped' /\ [Next]_vars =>
        [Streams!Next]_(Streams!vars)
  BY StepImplements
<1> QED
  BY <1>1, <1>2, <1>3, BlocksKept, TicketsKept, CallsKept, PTL DEF Spec,
     ImplementsStreams, Streams!Spec
===============================================================================
