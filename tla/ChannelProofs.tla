----------------------------- MODULE ChannelProofs -----------------------------
(***************************************************************************)
(* Proofs about Channel, for any number of receivers, names, writers,      *)
(* items and jobs: types, and the accounting of the items left in a queue. *)
(***************************************************************************)
EXTENDS Channel, TLAPS, FiniteSetTheorems

(* A job is in one place; one that is to run was made for a receiver; one  *)
(* that holds an item is running or has run.                               *)
JobsPlaced ==
  /\ Submitted \subseteq Tasks
  /\ pending \cap executing = {} /\ pending \cap finished = {}
  /\ executing \cap finished = {} /\ refused \cap Accepted = {}
  /\ \A k \in pending \cup executing : jobFor[k] \in Receivers
  /\ \A k \in Tasks : held[k] # NoItem =>
       k \in executing \cup finished /\ held[k] \in written

Once(s) == \A i, j \in 1 .. Len(s) : s[i] = s[j] => i = j
In(x, r, w) == x \in ToSet(stream[r][w])

(* An item is in one stream, once, and has been written.                   *)
ItemsOnce ==
  /\ \A r \in Receivers, w \in Writers :
       /\ \A x \in ToSet(stream[r][w]) : x \in written
       /\ Once(stream[r][w])
  /\ \A r, q \in Receivers, w, v \in Writers, x \in Items :
       In(x, r, w) /\ In(x, q, v) => r = q /\ w = v

Waiting(r) == UNION {ToSet(stream[r][w]) : w \in Writers}
Triggering(r) == {w \in Writers : pushed[w] = r}
Going(r) == {k \in pending \cup executing : jobFor[k] = r /\ held[k] = NoItem}
Lost(r) == {k \in refused : jobFor[k] = r}

Balanced(r) == Backlog(r) = OnTheWay(r) + LeftBehind(r)

IInv == TypeOK /\ JobsPlaced /\ ItemsOnce /\ Accounting

-------------------------------------------------------------------------------
(* Sequences and what is counted.                                          *)

LEMMA ToSetIs ==
  ASSUME NEW s \in Seq(Items)
  PROVE  /\ ToSet(s) = {s[i] : i \in 1 .. Len(s)}
         /\ ToSet(s) \subseteq Items
BY DEF ToSet

LEMMA Appended ==
  ASSUME NEW s \in Seq(Items), NEW x \in Items, x \notin ToSet(s), Once(s)
  PROVE  ToSet(Append(s, x)) = ToSet(s) \cup {x} /\ Once(Append(s, x))
<1> DEFINE a == Append(s, x)
<1>1. /\ a \in Seq(Items) /\ Len(a) = Len(s) + 1 /\ Len(s) \in Nat
      /\ a[Len(s) + 1] = x
      /\ \A i \in 1 .. Len(s) : a[i] = s[i]
  OBVIOUS
<1> HIDE DEF a
<1>2. 1 .. Len(a) = 1 .. Len(s) \cup {Len(s) + 1}
  BY <1>1
<1>3. ToSet(a) = {a[i] : i \in 1 .. Len(a)} /\ ToSet(s) = {s[i] : i \in 1 .. Len(s)}
  BY <1>1, ToSetIs
<1>4. ToSet(a) = ToSet(s) \cup {x}
  BY <1>1, <1>2, <1>3
<1>5. \A i \in 1 .. Len(s) : a[i] # x
  BY <1>1, <1>3
<1>6. Once(a)
  BY <1>1, <1>2, <1>5 DEF Once
<1> QED
  BY <1>4, <1>6 DEF a

LEMMA Taken ==
  ASSUME NEW s \in Seq(Items), s # <<>>, Once(s)
  PROVE  /\ ToSet(Tail(s)) = ToSet(s) \ {Head(s)} /\ Once(Tail(s))
         /\ Head(s) \in ToSet(s) /\ Tail(s) \in Seq(Items)
<1> DEFINE t == Tail(s)
           h == Head(s)
<1>1. /\ t \in Seq(Items) /\ Len(s) \in Nat \ {0} /\ Len(t) = Len(s) - 1 /\ h = s[1]
      /\ \A i \in 1 .. Len(t) : t[i] = s[i + 1]
  OBVIOUS
<1> HIDE DEF t, h
<1>2. ToSet(t) = {t[i] : i \in 1 .. Len(t)} /\ ToSet(s) = {s[i] : i \in 1 .. Len(s)}
  BY <1>1, ToSetIs
<1>3. \A i \in 1 .. Len(t) : i + 1 \in 1 .. Len(s) /\ i + 1 # 1
  BY <1>1
<1>4. \A j \in 1 .. Len(s) : j # 1 => j - 1 \in 1 .. Len(t) /\ j = (j - 1) + 1
  BY <1>1
<1>5. 1 \in 1 .. Len(s)
  BY <1>1
<1>6. ASSUME NEW x \in ToSet(t) PROVE x \in ToSet(s) /\ x # h
  <2>1. PICK i \in 1 .. Len(t) : x = s[i + 1]
    BY <1>1, <1>2, <1>6
  <2> QED
    BY <1>1, <1>2, <1>3, <1>5, <2>1 DEF Once
<1>7. ASSUME NEW x \in ToSet(s), x # h PROVE x \in ToSet(t)
  <2>1. PICK j \in 1 .. Len(s) : x = s[j]
    BY <1>2, <1>7
  <2>2. j - 1 \in 1 .. Len(t) /\ j = (j - 1) + 1
    BY <1>1, <1>4, <1>7, <2>1
  <2>3. t[j - 1] = x
    BY <1>1, <2>1, <2>2
  <2> QED
    BY <1>2, <2>2, <2>3
<1>8. Once(t)
  <2>1. ASSUME NEW i \in 1 .. Len(t), NEW j \in 1 .. Len(t), t[i] = t[j]
        PROVE  i = j
    <3>1. s[i + 1] = s[j + 1] /\ i + 1 \in 1 .. Len(s) /\ j + 1 \in 1 .. Len(s)
      BY <1>1, <1>3, <2>1
    <3>2. i + 1 = j + 1
      BY <3>1 DEF Once
    <3> QED
      BY <1>1, <3>2
  <2> QED
    BY <2>1 DEF Once
<1>9. h \in ToSet(s)
  BY <1>1, <1>2, <1>5
<1> QED
  BY <1>1, <1>6, <1>7, <1>8, <1>9 DEF t, h

LEMMA Finite ==
  ASSUME TypeOK, JobsPlaced, NEW r \in Receivers
  PROVE  /\ IsFiniteSet(Waiting(r)) /\ Cardinality(Waiting(r)) \in Nat
         /\ IsFiniteSet(Triggering(r)) /\ Cardinality(Triggering(r)) \in Nat
         /\ IsFiniteSet(Going(r)) /\ Cardinality(Going(r)) \in Nat
         /\ IsFiniteSet(Lost(r)) /\ Cardinality(Lost(r)) \in Nat
<1>0. IsFiniteSet(Tasks) /\ IsFiniteSet(Writers) /\ IsFiniteSet(Items)
  BY ChannelAssumption
<1>1. \A w \in Writers : stream[r][w] \in Seq(Items)
  BY DEF TypeOK
<1>2. Waiting(r) \subseteq Items
  BY <1>1, ToSetIs DEF Waiting
<1>3. /\ Triggering(r) \subseteq Writers
      /\ Going(r) \subseteq Tasks /\ Lost(r) \subseteq Tasks
  BY DEF Triggering, Going, Lost, JobsPlaced, Submitted
<1>4. /\ IsFiniteSet(Waiting(r)) /\ IsFiniteSet(Triggering(r))
      /\ IsFiniteSet(Going(r)) /\ IsFiniteSet(Lost(r))
  BY <1>0, <1>2, <1>3, FS_Subset
<1> QED
  BY <1>4, FS_CardinalityType

LEMMA BalancedIs ==
  ASSUME NEW r \in Receivers
  PROVE  Balanced(r) <=>
           Cardinality(Waiting(r)) =
             Cardinality(Triggering(r)) + B(signal[r]) + B(looping = r)
               + Cardinality(Going(r))
               + (coalesced[r] + Cardinality(Lost(r)) + missed[r])
BY DEF Balanced, Backlog, OnTheWay, LeftBehind, Waiting, Triggering, Going, Lost

LEMMA BalancedIsNext ==
  ASSUME NEW r \in Receivers
  PROVE  Balanced(r)' <=>
           Cardinality(Waiting(r)') =
             Cardinality(Triggering(r)') + B(signal'[r]) + B(looping' = r)
               + Cardinality(Going(r)')
               + (coalesced'[r] + Cardinality(Lost(r)') + missed'[r])
BY DEF Balanced, Backlog, OnTheWay, LeftBehind, Waiting, Triggering, Going, Lost

(* The terms of the balance, as numbers.                                   *)
Terms(r, n1, n2, n3, n4, n5, n6, n7, n8) ==
  /\ n1 \in Nat /\ n2 \in Nat /\ n3 \in Nat /\ n4 \in Nat
  /\ n5 \in Nat /\ n6 \in Nat /\ n7 \in Nat /\ n8 \in Nat
  /\ n1 = Cardinality(Waiting(r)) /\ n2 = Cardinality(Triggering(r))
  /\ n3 = B(signal[r]) /\ n4 = B(looping = r)
  /\ n5 = Cardinality(Going(r)) /\ n6 = coalesced[r]
  /\ n7 = Cardinality(Lost(r)) /\ n8 = missed[r]
  /\ n1 = n2 + n3 + n4 + n5 + (n6 + n7 + n8)

LEMMA SomeTerms ==
  ASSUME TypeOK, JobsPlaced, NEW r \in Receivers, Balanced(r)
  PROVE  \E n1, n2, n3, n4, n5, n6, n7, n8 :
           Terms(r, n1, n2, n3, n4, n5, n6, n7, n8)
<1>1. PICK n1 \in Nat : n1 = Cardinality(Waiting(r))
  BY Finite
<1>2. PICK n2 \in Nat : n2 = Cardinality(Triggering(r))
  BY Finite
<1>3. PICK n3 \in Nat : n3 = B(signal[r])
  BY DEF B
<1>4. PICK n4 \in Nat : n4 = B(looping = r)
  BY DEF B
<1>5. PICK n5 \in Nat : n5 = Cardinality(Going(r))
  BY Finite
<1>6. PICK n6 \in Nat : n6 = coalesced[r]
  BY DEF TypeOK
<1>7. PICK n7 \in Nat : n7 = Cardinality(Lost(r))
  BY Finite
<1>8. PICK n8 \in Nat : n8 = missed[r]
  BY DEF TypeOK
<1>9. n1 = n2 + n3 + n4 + n5 + (n6 + n7 + n8)
  BY <1>1, <1>2, <1>3, <1>4, <1>5, <1>6, <1>7, <1>8, BalancedIs
<1> QED
  BY <1>1, <1>2, <1>3, <1>4, <1>5, <1>6, <1>7, <1>8, <1>9 DEF Terms

LEMMA Same ==
  ASSUME NEW r \in Receivers, Balanced(r),
         Waiting(r)' = Waiting(r), Triggering(r)' = Triggering(r),
         signal'[r] = signal[r], (looping' = r) = (looping = r),
         Going(r)' = Going(r), coalesced'[r] = coalesced[r],
         Lost(r)' = Lost(r), missed'[r] = missed[r]
  PROVE  Balanced(r)'
BY BalancedIs, BalancedIsNext

-------------------------------------------------------------------------------
(* Steps.                                                                  *)

LEMMA InitInv == Init => IInv
<1> SUFFICES ASSUME Init PROVE IInv
  OBVIOUS
<1> USE DEF Init, PoolInit
<1>1. TypeOK
  BY DEF TypeOK
<1>2. JobsPlaced
  BY DEF JobsPlaced, Submitted, Accepted
<1>3. \A r \in Receivers, w \in Writers :
        stream[r][w] = <<>> /\ ToSet(stream[r][w]) = {} /\ Once(stream[r][w])
  BY DEF ToSet, Once
<1>4. ItemsOnce
  BY <1>3 DEF ItemsOnce, In
<1>5. ASSUME NEW r \in Receivers PROVE Balanced(r)
  <2>1. Waiting(r) = {} /\ Triggering(r) = {} /\ Going(r) = {} /\ Lost(r) = {}
    BY <1>3, ChannelAssumption DEF Waiting, Triggering, Going, Lost
  <2>2. signal[r] = FALSE /\ (looping = r) = FALSE /\ coalesced[r] = 0 /\ missed[r] = 0
    BY ChannelAssumption
  <2>3. B(signal[r]) = 0 /\ B(looping = r) = 0
    BY <2>2 DEF B
  <2>4. Cardinality({}) = 0
    BY FS_EmptySet
  <2>5. /\ Cardinality(Waiting(r)) = 0 /\ Cardinality(Triggering(r)) = 0
        /\ Cardinality(Going(r)) = 0 /\ Cardinality(Lost(r)) = 0
    BY <2>1, <2>4
  <2>6. Cardinality(Waiting(r)) =
          Cardinality(Triggering(r)) + B(signal[r]) + B(looping = r)
            + Cardinality(Going(r))
            + (coalesced[r] + Cardinality(Lost(r)) + missed[r])
    <3>1. 0 = 0 + 0 + 0 + 0 + (0 + 0 + 0)
      OBVIOUS
    <3>2. coalesced[r] = 0 /\ missed[r] = 0
      BY <2>2
    <3> HIDE DEF Init, PoolInit
    <3> QED
      BY <2>3, <2>5, <3>1, <3>2
  <2> QED
    BY <2>6, BalancedIs
<1>6. Accounting
  BY <1>5 DEF Accounting, Balanced
<1> QED
  BY <1>1, <1>2, <1>4, <1>6 DEF IInv

LEMMA AllBalanced ==
  /\ Accounting <=> \A r \in Receivers : Balanced(r)
  /\ Accounting' <=> \A r \in Receivers : Balanced(r)'
BY DEF Accounting, Balanced

LEMMA SameStreams ==
  ASSUME ItemsOnce, stream' = stream, written \subseteq written'
  PROVE  ItemsOnce' /\ \A r \in Receivers : Waiting(r)' = Waiting(r)
BY DEF ItemsOnce, In, Waiting

(* Steps that move no item and no job.                                     *)
LEMMA OpenStep ==
  ASSUME IInv, NEW n \in Names, NEW r \in Receivers, ChannelOpen(n, r)
  PROVE  IInv'
<1> USE DEF IInv, poolVars
<1>1. /\ UNCHANGED <<pending, executing, finished, refused, stream, pushed, signal,
                     looping, jobFor, looked, held, written, delivered, coalesced,
                     missed>>
  BY DEF ChannelOpen
<1>2. TypeOK'
  BY DEF ChannelOpen, TypeOK
<1>3. JobsPlaced'
  BY <1>1 DEF JobsPlaced, Submitted, Accepted
<1>4. ItemsOnce' /\ \A q \in Receivers : Waiting(q)' = Waiting(q)
  BY <1>1, SameStreams
<1>5. Accounting'
  BY <1>1, <1>4, Same, AllBalanced DEF Triggering, Going, Lost
<1> QED
  BY <1>2, <1>3, <1>4, <1>5

LEMMA LookStep ==
  ASSUME IInv, NEW k \in Tasks, NEW w \in Writers, PopLook(k, w)
  PROVE  IInv'
<1> USE DEF IInv, poolVars
<1>1. /\ UNCHANGED <<pending, executing, finished, refused, stream, pushed, signal,
                     looping, jobFor, channels, opened, held, written, delivered,
                     coalesced, missed>>
  BY DEF PopLook
<1>2. TypeOK'
  BY DEF PopLook, TypeOK
<1>3. JobsPlaced'
  BY <1>1 DEF JobsPlaced, Submitted, Accepted
<1>4. ItemsOnce' /\ \A q \in Receivers : Waiting(q)' = Waiting(q)
  BY <1>1, SameStreams
<1>5. Accounting'
  BY <1>1, <1>4, Same, AllBalanced DEF Triggering, Going, Lost
<1> QED
  BY <1>2, <1>3, <1>4, <1>5

LEMMA StartStep ==
  ASSUME IInv, NEW k \in Tasks, JobStart(k)
  PROVE  IInv'
<1> USE DEF IInv, chanVars
<1>1. /\ UNCHANGED <<finished, refused, stream, pushed, signal, looping, jobFor, held,
                     written, coalesced, missed>>
      /\ pending' \cup executing' = pending \cup executing
      /\ k \in pending /\ pending' = pending \ {k} /\ executing' = executing \cup {k}
  BY DEF JobStart, Start
<1>2. TypeOK'
  BY DEF JobStart, TypeOK
<1>3. JobsPlaced'
  <2>1. Submitted' = Submitted
    BY <1>1 DEF Submitted
  <2>2. Accepted' = Accepted
    BY <1>1 DEF Accepted
  <2> QED
    BY <1>1, <2>1, <2>2 DEF JobsPlaced
<1>4. ItemsOnce' /\ \A q \in Receivers : Waiting(q)' = Waiting(q)
  BY <1>1, SameStreams
<1>5. Accounting'
  BY <1>1, <1>4, Same, AllBalanced DEF Triggering, Going, Lost
<1> QED
  BY <1>2, <1>3, <1>4, <1>5

LEMMA WriteStep ==
  ASSUME IInv, NEW w \in Writers, NEW n \in Names, NEW x \in Items,
         ChannelWrite(w, n, x)
  PROVE  IInv'
<1> USE DEF IInv, poolVars
<1>1. /\ UNCHANGED <<pending, executing, finished, refused, signal, looping, jobFor,
                     held, coalesced, missed, delivered, looked, channels, opened>>
      /\ pushed[w] = NoReceiver /\ x \notin written /\ written' = written \cup {x}
  BY DEF ChannelWrite
<1>2. PICK r \in Receivers : r = channels[n]
  BY DEF ChannelWrite, TypeOK
<1>3. /\ stream' = [stream EXCEPT ![r][w] = Append(@, x)]
      /\ pushed' = [pushed EXCEPT ![w] = r]
  BY <1>2 DEF ChannelWrite
<1>t. /\ stream \in [Receivers -> [Writers -> Seq(Items)]]
      /\ pushed \in [Writers -> Receivers \cup {NoReceiver}]
  BY DEF TypeOK
<1>4. /\ stream' \in [Receivers -> [Writers -> Seq(Items)]]
      /\ stream'[r][w] = Append(stream[r][w], x)
      /\ \A q \in Receivers, v \in Writers :
           ~ (q = r /\ v = w) => stream'[q][v] = stream[q][v]
  BY <1>3, <1>t
<1>5. TypeOK'
  BY <1>1, <1>3, <1>4 DEF TypeOK
<1>6. JobsPlaced'
  BY <1>1 DEF JobsPlaced, Submitted, Accepted
<1>7. \A q \in Receivers, v \in Writers : x \notin ToSet(stream[q][v])
  BY <1>1 DEF ItemsOnce
<1>8. /\ ToSet(stream'[r][w]) = ToSet(stream[r][w]) \cup {x}
      /\ Once(stream'[r][w])
  <2>1. stream[r][w] \in Seq(Items) /\ Once(stream[r][w])
    BY <1>t DEF ItemsOnce
  <2> QED
    BY <1>4, <1>7, <2>1, Appended
<1>9. ItemsOnce'
  <2>1. \A q \in Receivers, v \in Writers :
          /\ ToSet(stream'[q][v]) =
               IF q = r /\ v = w THEN ToSet(stream[r][w]) \cup {x} ELSE ToSet(stream[q][v])
          /\ Once(stream'[q][v])
    BY <1>4, <1>8 DEF ItemsOnce
  <2> QED
    BY <1>1, <1>7, <2>1 DEF ItemsOnce, In
<1>10. ASSUME NEW q \in Receivers PROVE Balanced(q)'
  <2>1. Going(q)' = Going(q) /\ Lost(q)' = Lost(q)
    BY <1>1 DEF Going, Lost
  <2>2. CASE q # r
    <3>1. Waiting(q)' = Waiting(q)
      BY <1>4, <2>2 DEF Waiting
    <3>2. Triggering(q)' = Triggering(q)
      BY <1>1, <1>3, <1>t, <2>2, ChannelAssumption DEF Triggering
    <3> QED
      BY <1>1, <2>1, <3>1, <3>2, Same, AllBalanced
  <2>3. CASE q = r
    <3>1. Waiting(r)' = Waiting(r) \cup {x} /\ x \notin Waiting(r)
      <4>1. x \notin Waiting(r)
        BY <1>7 DEF Waiting
      <4>2. \A v \in Writers : v # w => ToSet(stream'[r][v]) = ToSet(stream[r][v])
        BY <1>4
      <4>3. \A y : y \in Waiting(r)' <=> \E v \in Writers : y \in ToSet(stream'[r][v])
        BY DEF Waiting
      <4>4. \A y : y \in Waiting(r) <=> \E v \in Writers : y \in ToSet(stream[r][v])
        BY DEF Waiting
      <4>5. \A y : y \in Waiting(r)' <=> y \in Waiting(r) \/ y = x
        BY <1>8, <4>2, <4>3, <4>4
      <4> QED
        BY <4>1, <4>5
    <3>2. Triggering(r)' = Triggering(r) \cup {w} /\ w \notin Triggering(r)
      BY <1>1, <1>3, <1>t, ChannelAssumption DEF Triggering
    <3>3. Cardinality(Waiting(r)') = Cardinality(Waiting(r)) + 1
      BY <3>1, Finite, FS_AddElement
    <3>4. Cardinality(Triggering(r)') = Cardinality(Triggering(r)) + 1
      BY <3>2, Finite, FS_AddElement
    <3>5. PICK n1, n2, n3, n4, n5, n6, n7, n8 : Terms(r, n1, n2, n3, n4, n5, n6, n7, n8)
      BY SomeTerms, AllBalanced
    <3>6. n1 + 1 = (n2 + 1) + n3 + n4 + n5 + (n6 + n7 + n8)
      <4>1. /\ n1 \in Nat /\ n2 \in Nat /\ n3 \in Nat /\ n4 \in Nat
            /\ n5 \in Nat /\ n6 \in Nat /\ n7 \in Nat /\ n8 \in Nat
            /\ n1 = n2 + n3 + n4 + n5 + (n6 + n7 + n8)
        BY <3>5 DEF Terms
      <4> HIDE DEF IInv
      <4> QED
        BY <4>1
    <3> QED
      BY <1>1, <2>1, <2>3, <3>3, <3>4, <3>5, <3>6, BalancedIsNext DEF Terms
  <2> QED
    BY <2>2, <2>3
<1> QED
  BY <1>5, <1>6, <1>9, <1>10, AllBalanced

LEMMA TriggerStep ==
  ASSUME IInv, NEW w \in Writers, Trigger(w)
  PROVE  IInv'
<1> USE DEF IInv, poolVars
<1>1. UNCHANGED <<pending, executing, finished, refused, stream, looping, jobFor,
                  looked, held, written, delivered, missed, channels, opened>>
  BY DEF Trigger
<1>2. PICK r \in Receivers : r = pushed[w]
  BY DEF Trigger, TypeOK
<1>3. /\ signal' = [signal EXCEPT ![r] = TRUE]
      /\ coalesced' = [coalesced EXCEPT ![r] = IF signal[r] THEN @ + 1 ELSE @]
      /\ pushed' = [pushed EXCEPT ![w] = NoReceiver]
  BY <1>2 DEF Trigger
<1>t. /\ signal \in [Receivers -> BOOLEAN] /\ coalesced \in [Receivers -> Nat]
      /\ pushed \in [Writers -> Receivers \cup {NoReceiver}]
  BY DEF TypeOK
<1>4. TypeOK'
  BY <1>1, <1>3 DEF TypeOK
<1>5. JobsPlaced'
  BY <1>1 DEF JobsPlaced, Submitted, Accepted
<1>6. ItemsOnce' /\ \A q \in Receivers : Waiting(q)' = Waiting(q)
  BY <1>1, SameStreams
<1>7. ASSUME NEW q \in Receivers PROVE Balanced(q)'
  <2>1. Going(q)' = Going(q) /\ Lost(q)' = Lost(q)
    BY <1>1 DEF Going, Lost
  <2>2. CASE q # r
    <3>1. Triggering(q)' = Triggering(q)
      BY <1>2, <1>3, <1>t, <2>2, ChannelAssumption DEF Triggering
    <3>2. signal'[q] = signal[q] /\ coalesced'[q] = coalesced[q]
      BY <1>3, <1>t, <2>2
    <3> QED
      BY <1>1, <1>6, <2>1, <3>1, <3>2, Same, AllBalanced
  <2>3. CASE q = r
    <3>1. Triggering(r)' = Triggering(r) \ {w} /\ w \in Triggering(r)
      BY <1>2, <1>3, <1>t, ChannelAssumption DEF Triggering
    <3>2. Cardinality(Triggering(r)') = Cardinality(Triggering(r)) - 1
      BY <3>1, Finite, FS_RemoveElement
    <3>3. PICK n1, n2, n3, n4, n5, n6, n7, n8 : Terms(r, n1, n2, n3, n4, n5, n6, n7, n8)
      BY SomeTerms, AllBalanced
    <3>4. CASE signal[r]
      <4>1. B(signal'[r]) = n3 /\ coalesced'[r] = n6 + 1
        BY <1>3, <1>t, <3>3, <3>4 DEF B, Terms
      <4>2. n1 = (n2 - 1) + n3 + n4 + n5 + ((n6 + 1) + n7 + n8)
        BY <3>3 DEF Terms
      <4>9. /\ Cardinality(Waiting(r)') = n1 /\ Cardinality(Triggering(r)') = n2 - 1
            /\ B(signal'[r]) = n3 /\ B(looping' = r) = n4
            /\ Cardinality(Going(r)') = n5 /\ coalesced'[r] = n6 + 1
            /\ Cardinality(Lost(r)') = n7 /\ missed'[r] = n8
        <5>1. Cardinality(Waiting(r)') = n1
          BY <1>1, <1>6, <2>1, <2>3, <3>2, <3>3, <4>1 DEF Terms
        <5>2. Cardinality(Triggering(r)') = n2 - 1
          BY <1>1, <1>6, <2>1, <2>3, <3>2, <3>3, <4>1 DEF Terms
        <5>3. B(signal'[r]) = n3 /\ B(looping' = r) = n4
          BY <1>1, <1>6, <2>1, <2>3, <3>2, <3>3, <4>1 DEF Terms
        <5>4. Cardinality(Going(r)') = n5
          BY <1>1, <1>6, <2>1, <2>3, <3>2, <3>3, <4>1 DEF Terms
        <5>5. Cardinality(Lost(r)') = n7
          BY <1>1, <1>6, <2>1, <2>3, <3>2, <3>3, <4>1 DEF Terms
        <5>6. coalesced'[r] = n6 + 1 /\ missed'[r] = n8
          BY <1>1, <1>6, <2>1, <2>3, <3>2, <3>3, <4>1 DEF Terms
        <5> QED
          BY <5>1, <5>2, <5>3, <5>4, <5>5, <5>6
      <4> QED
        BY <2>3, <4>9, <4>2, BalancedIsNext
    <3>5. CASE ~signal[r]
      <4>1. B(signal'[r]) = 1 /\ n3 = 0 /\ coalesced'[r] = n6
        BY <1>3, <1>t, <3>3, <3>5 DEF B, Terms
      <4>2. n1 = (n2 - 1) + 1 + n4 + n5 + (n6 + n7 + n8)
        BY <3>3, <4>1 DEF Terms
      <4>9. /\ Cardinality(Waiting(r)') = n1 /\ Cardinality(Triggering(r)') = n2 - 1
            /\ B(signal'[r]) = 1 /\ B(looping' = r) = n4
            /\ Cardinality(Going(r)') = n5 /\ coalesced'[r] = n6
            /\ Cardinality(Lost(r)') = n7 /\ missed'[r] = n8
        <5>1. Cardinality(Waiting(r)') = n1
          BY <1>1, <1>6, <2>1, <2>3, <3>2, <3>3, <4>1 DEF Terms
        <5>2. Cardinality(Triggering(r)') = n2 - 1
          BY <1>1, <1>6, <2>1, <2>3, <3>2, <3>3, <4>1 DEF Terms
        <5>3. B(signal'[r]) = 1 /\ B(looping' = r) = n4
          BY <1>1, <1>6, <2>1, <2>3, <3>2, <3>3, <4>1 DEF Terms
        <5>4. Cardinality(Going(r)') = n5
          BY <1>1, <1>6, <2>1, <2>3, <3>2, <3>3, <4>1 DEF Terms
        <5>5. Cardinality(Lost(r)') = n7
          BY <1>1, <1>6, <2>1, <2>3, <3>2, <3>3, <4>1 DEF Terms
        <5>6. coalesced'[r] = n6 /\ missed'[r] = n8
          BY <1>1, <1>6, <2>1, <2>3, <3>2, <3>3, <4>1 DEF Terms
        <5> QED
          BY <5>1, <5>2, <5>3, <5>4, <5>5, <5>6
      <4> QED
        BY <2>3, <4>9, <4>2, BalancedIsNext
    <3> QED
      BY <3>4, <3>5
  <2> QED
    BY <2>2, <2>3
<1> QED
  BY <1>4, <1>5, <1>6, <1>7, AllBalanced

LEMMA CallbackStep ==
  ASSUME IInv, NEW r \in Receivers, AsyncCallback(r)
  PROVE  IInv'
<1> USE DEF IInv, poolVars
<1>1. UNCHANGED <<pending, executing, finished, refused, stream, pushed, jobFor,
                  looked, held, written, delivered, coalesced, missed, channels,
                  opened>>
  BY DEF AsyncCallback
<1>2. /\ looping = NoReceiver /\ signal[r]
      /\ signal' = [signal EXCEPT ![r] = FALSE] /\ looping' = r
  BY DEF AsyncCallback
<1>t. signal \in [Receivers -> BOOLEAN] /\ \A q \in Receivers : NoReceiver # q
  BY ChannelAssumption DEF TypeOK
<1>4. TypeOK'
  BY <1>1, <1>2 DEF TypeOK
<1>5. JobsPlaced'
  BY <1>1 DEF JobsPlaced, Submitted, Accepted
<1>6. ItemsOnce' /\ \A q \in Receivers : Waiting(q)' = Waiting(q)
  BY <1>1, SameStreams
<1>7. ASSUME NEW q \in Receivers PROVE Balanced(q)'
  <2>1. Going(q)' = Going(q) /\ Lost(q)' = Lost(q) /\ Triggering(q)' = Triggering(q)
    BY <1>1 DEF Going, Lost, Triggering
  <2>2. CASE q # r
    BY <1>1, <1>2, <1>t, <1>6, <2>1, <2>2, Same, AllBalanced
  <2>3. CASE q = r
    <3>1. PICK n1, n2, n3, n4, n5, n6, n7, n8 : Terms(r, n1, n2, n3, n4, n5, n6, n7, n8)
      BY SomeTerms, AllBalanced
    <3>2. n3 = 1 /\ n4 = 0 /\ B(signal'[r]) = 0 /\ B(looping' = r) = 1
      BY <1>2, <1>t, <3>1 DEF B, Terms
    <3>3. n1 = n2 + 0 + 1 + n5 + (n6 + n7 + n8)
      BY <3>1, <3>2 DEF Terms
    <3>9. /\ Cardinality(Waiting(r)') = n1 /\ Cardinality(Triggering(r)') = n2
          /\ B(signal'[r]) = 0 /\ B(looping' = r) = 1
          /\ Cardinality(Going(r)') = n5 /\ coalesced'[r] = n6
          /\ Cardinality(Lost(r)') = n7 /\ missed'[r] = n8
      <4>1. Cardinality(Waiting(r)') = n1
        BY <1>1, <1>6, <2>1, <2>3, <3>1, <3>2 DEF Terms
      <4>2. Cardinality(Triggering(r)') = n2
        BY <1>1, <1>6, <2>1, <2>3, <3>1, <3>2 DEF Terms
      <4>3. B(signal'[r]) = 0 /\ B(looping' = r) = 1
        BY <1>1, <1>6, <2>1, <2>3, <3>1, <3>2 DEF Terms
      <4>4. Cardinality(Going(r)') = n5
        BY <1>1, <1>6, <2>1, <2>3, <3>1, <3>2 DEF Terms
      <4>5. Cardinality(Lost(r)') = n7
        BY <1>1, <1>6, <2>1, <2>3, <3>1, <3>2 DEF Terms
      <4>6. coalesced'[r] = n6 /\ missed'[r] = n8
        BY <1>1, <1>6, <2>1, <2>3, <3>1, <3>2 DEF Terms
      <4> QED
        BY <4>1, <4>2, <4>3, <4>4, <4>5, <4>6
    <3> QED
      BY <2>3, <3>9, <3>3, BalancedIsNext
  <2> QED
    BY <2>2, <2>3
<1> QED
  BY <1>4, <1>5, <1>6, <1>7, AllBalanced

LEMMA PeriodicStep ==
  ASSUME IInv, NEW k \in Tasks, Periodic(k)
  PROVE  IInv'
<1> USE DEF IInv
<1>1. UNCHANGED <<stream, pushed, signal, looked, held, written, delivered,
                  coalesced, missed, channels, opened, executing, finished>>
  BY DEF Periodic, Accept, Refuse
<1>2. PICK r \in Receivers : r = looping
  BY DEF Periodic, TypeOK
<1>3. /\ jobFor' = [jobFor EXCEPT ![k] = r] /\ looping' = NoReceiver
      /\ k \notin pending /\ k \notin executing /\ k \notin finished
      /\ k \notin refused
  BY <1>2 DEF Periodic, Accept, Refuse, Submitted
<1>4. \/ pending' = pending \cup {k} /\ refused' = refused
      \/ pending' = pending /\ refused' = refused \cup {k}
  BY DEF Periodic, Accept, Refuse
<1>t. /\ jobFor \in [Tasks -> Receivers \cup {NoReceiver}]
      /\ \A q \in Receivers : NoReceiver # q
  BY ChannelAssumption DEF TypeOK
<1>5. TypeOK'
  BY <1>1, <1>3 DEF TypeOK
<1>6. JobsPlaced'
  BY <1>1, <1>3, <1>4, <1>t DEF JobsPlaced, Submitted, Accepted
<1>7. ItemsOnce' /\ \A q \in Receivers : Waiting(q)' = Waiting(q)
  BY <1>1, SameStreams
<1>8. held[k] = NoItem
  BY <1>3 DEF JobsPlaced
<1>9. /\ jobFor'[k] = r
      /\ \A j \in Tasks : j # k => jobFor'[j] = jobFor[j]
      /\ pending \cup executing \subseteq Tasks /\ refused \subseteq Tasks
  BY <1>3, <1>t DEF JobsPlaced, Submitted
<1>10. ASSUME NEW q \in Receivers PROVE Balanced(q)'
  <2>1. Triggering(q)' = Triggering(q)
    BY <1>1 DEF Triggering
  <2>2. CASE q # r
    <3>1. Going(q)' = Going(q)
      BY <1>1, <1>3, <1>4, <1>9, <2>2 DEF Going
    <3>2. Lost(q)' = Lost(q)
      BY <1>3, <1>4, <1>9, <2>2 DEF Lost
    <3> QED
      BY <1>1, <1>2, <1>3, <1>t, <1>7, <2>1, <2>2, <3>1, <3>2, Same, AllBalanced
  <2>3. CASE q = r
    <3>1. PICK n1, n2, n3, n4, n5, n6, n7, n8 : Terms(r, n1, n2, n3, n4, n5, n6, n7, n8)
      BY SomeTerms, AllBalanced
    <3>2. n4 = 1 /\ B(looping' = r) = 0
      BY <1>2, <1>3, <1>t, <3>1 DEF B, Terms
    <3>3. CASE pending' = pending \cup {k} /\ refused' = refused
      <4>1. Lost(r)' = Lost(r)
        BY <1>3, <1>9, <3>3 DEF Lost
      <4>2. Going(r)' = Going(r) \cup {k} /\ k \notin Going(r)
        BY <1>1, <1>3, <1>8, <1>9, <3>3 DEF Going
      <4>3. Cardinality(Going(r)') = Cardinality(Going(r)) + 1
        BY <4>2, Finite, FS_AddElement
      <4>4. n1 = n2 + n3 + 0 + (n5 + 1) + (n6 + n7 + n8)
        BY <3>1, <3>2 DEF Terms
      <4>9. /\ Cardinality(Waiting(r)') = n1 /\ Cardinality(Triggering(r)') = n2
            /\ B(signal'[r]) = n3 /\ B(looping' = r) = 0
            /\ Cardinality(Going(r)') = n5 + 1 /\ coalesced'[r] = n6
            /\ Cardinality(Lost(r)') = n7 /\ missed'[r] = n8
        <5>1. Cardinality(Waiting(r)') = n1
          BY <1>1, <1>7, <2>1, <2>3, <3>1, <3>2, <4>1, <4>3 DEF Terms
        <5>2. Cardinality(Triggering(r)') = n2
          BY <1>1, <1>7, <2>1, <2>3, <3>1, <3>2, <4>1, <4>3 DEF Terms
        <5>3. B(signal'[r]) = n3 /\ B(looping' = r) = 0
          BY <1>1, <1>7, <2>1, <2>3, <3>1, <3>2, <4>1, <4>3 DEF Terms
        <5>4. Cardinality(Going(r)') = n5 + 1
          BY <1>1, <1>7, <2>1, <2>3, <3>1, <3>2, <4>1, <4>3 DEF Terms
        <5>5. Cardinality(Lost(r)') = n7
          BY <1>1, <1>7, <2>1, <2>3, <3>1, <3>2, <4>1, <4>3 DEF Terms
        <5>6. coalesced'[r] = n6 /\ missed'[r] = n8
          BY <1>1, <1>7, <2>1, <2>3, <3>1, <3>2, <4>1, <4>3 DEF Terms
        <5> QED
          BY <5>1, <5>2, <5>3, <5>4, <5>5, <5>6
      <4> QED
        BY <2>3, <4>9, <4>4, BalancedIsNext
    <3>4. CASE pending' = pending /\ refused' = refused \cup {k}
      <4>1. Going(r)' = Going(r)
        BY <1>1, <1>3, <1>9, <3>4 DEF Going
      <4>2. Lost(r)' = Lost(r) \cup {k} /\ k \notin Lost(r)
        BY <1>3, <1>9, <3>4 DEF Lost
      <4>3. Cardinality(Lost(r)') = Cardinality(Lost(r)) + 1
        BY <4>2, Finite, FS_AddElement
      <4>4. n1 = n2 + n3 + 0 + n5 + (n6 + (n7 + 1) + n8)
        BY <3>1, <3>2 DEF Terms
      <4>9. /\ Cardinality(Waiting(r)') = n1 /\ Cardinality(Triggering(r)') = n2
            /\ B(signal'[r]) = n3 /\ B(looping' = r) = 0
            /\ Cardinality(Going(r)') = n5 /\ coalesced'[r] = n6
            /\ Cardinality(Lost(r)') = n7 + 1 /\ missed'[r] = n8
        <5>1. Cardinality(Waiting(r)') = n1
          BY <1>1, <1>7, <2>1, <2>3, <3>1, <3>2, <4>1, <4>3 DEF Terms
        <5>2. Cardinality(Triggering(r)') = n2
          BY <1>1, <1>7, <2>1, <2>3, <3>1, <3>2, <4>1, <4>3 DEF Terms
        <5>3. B(signal'[r]) = n3 /\ B(looping' = r) = 0
          BY <1>1, <1>7, <2>1, <2>3, <3>1, <3>2, <4>1, <4>3 DEF Terms
        <5>4. Cardinality(Going(r)') = n5
          BY <1>1, <1>7, <2>1, <2>3, <3>1, <3>2, <4>1, <4>3 DEF Terms
        <5>5. Cardinality(Lost(r)') = n7 + 1
          BY <1>1, <1>7, <2>1, <2>3, <3>1, <3>2, <4>1, <4>3 DEF Terms
        <5>6. coalesced'[r] = n6 /\ missed'[r] = n8
          BY <1>1, <1>7, <2>1, <2>3, <3>1, <3>2, <4>1, <4>3 DEF Terms
        <5> QED
          BY <5>1, <5>2, <5>3, <5>4, <5>5, <5>6
      <4> QED
        BY <2>3, <4>9, <4>4, BalancedIsNext
    <3> QED
      BY <1>4, <3>3, <3>4
  <2> QED
    BY <2>2, <2>3
<1> QED
  BY <1>5, <1>6, <1>7, <1>10, AllBalanced

LEMMA PopStep ==
  ASSUME IInv, NEW k \in Tasks, NEW w \in Writers, PopItem(k, w)
  PROVE  IInv'
<1> USE DEF IInv, poolVars
<1>1. /\ UNCHANGED <<pending, executing, finished, refused, pushed, signal, looping,
                     jobFor, looked, written, delivered, coalesced, missed, channels,
                     opened>>
      /\ k \in executing /\ held[k] = NoItem
  BY DEF PopItem, Popping
<1>2. PICK r \in Receivers : r = jobFor[k]
  BY <1>1 DEF JobsPlaced
<1>3. PICK s \in Seq(Items) : s = stream[r][w]
  BY DEF TypeOK
<1>4. /\ s # <<>>
      /\ held' = [held EXCEPT ![k] = Head(s)]
      /\ stream' = [stream EXCEPT ![r][w] = Tail(@)]
  BY <1>2, <1>3 DEF PopItem
<1>5. Once(s)
  BY <1>3 DEF ItemsOnce
<1>6. PICK x : x = Head(s)
  OBVIOUS
<1>7. /\ ToSet(Tail(s)) = ToSet(s) \ {x} /\ Once(Tail(s))
      /\ x \in ToSet(s) /\ Tail(s) \in Seq(Items)
  BY <1>4, <1>5, <1>6, Taken
<1>8. x \in Items /\ x # NoItem /\ x \in written
  BY <1>3, <1>7, ToSetIs, ChannelAssumption DEF ItemsOnce
<1>t. /\ stream \in [Receivers -> [Writers -> Seq(Items)]]
      /\ held \in [Tasks -> Items \cup {NoItem}]
  BY DEF TypeOK
<1>9. /\ stream' \in [Receivers -> [Writers -> Seq(Items)]]
      /\ stream'[r][w] = Tail(s)
      /\ \A q \in Receivers, v \in Writers :
           ~ (q = r /\ v = w) => stream'[q][v] = stream[q][v]
  <2>1. stream' = [stream EXCEPT ![r] = [stream[r] EXCEPT ![w] = Tail(s)]]
    BY <1>3, <1>4, <1>t
  <2>2. stream[r] \in [Writers -> Seq(Items)]
    BY <1>t
  <2>3. [stream[r] EXCEPT ![w] = Tail(s)] \in [Writers -> Seq(Items)]
    BY <1>7, <2>2
  <2> QED
    BY <1>t, <2>1, <2>2, <2>3
<1>10. /\ held' \in [Tasks -> Items \cup {NoItem}] /\ held'[k] = x
       /\ \A j \in Tasks : j # k => held'[j] = held[j]
  BY <1>4, <1>6, <1>8, <1>t
<1>11. TypeOK'
  BY <1>1, <1>9, <1>10 DEF TypeOK
<1>12. JobsPlaced'
  BY <1>1, <1>8, <1>10 DEF JobsPlaced, Submitted, Accepted
<1>13. \A q \in Receivers, v \in Writers :
         /\ ToSet(stream'[q][v]) =
              IF q = r /\ v = w THEN ToSet(s) \ {x} ELSE ToSet(stream[q][v])
         /\ Once(stream'[q][v])
  BY <1>7, <1>9 DEF ItemsOnce
<1>14. ItemsOnce'
  <2>1. \A q \in Receivers, v \in Writers :
          ToSet(stream'[q][v]) \subseteq ToSet(stream[q][v])
    BY <1>3, <1>13
  <2> QED
    BY <1>1, <1>13, <2>1 DEF ItemsOnce, In
<1>15. ASSUME NEW q \in Receivers PROVE Balanced(q)'
  <2>1. Triggering(q)' = Triggering(q) /\ Lost(q)' = Lost(q)
    BY <1>1 DEF Triggering, Lost
  <2>2. CASE q # r
    <3>1. Waiting(q)' = Waiting(q)
      BY <1>9, <2>2 DEF Waiting
    <3>2. Going(q)' = Going(q)
      BY <1>1, <1>2, <1>10, <2>2 DEF Going, JobsPlaced, Submitted
    <3> QED
      BY <1>1, <2>1, <3>1, <3>2, Same, AllBalanced
  <2>3. CASE q = r
    <3>1. Waiting(r)' = Waiting(r) \ {x} /\ x \in Waiting(r)
      <4>1. x \in Waiting(r)
        BY <1>3, <1>7 DEF Waiting
      <4>2. \A v \in Writers : v # w => x \notin ToSet(stream[r][v])
        BY <1>3, <1>7, <1>8 DEF ItemsOnce, In
      <4>3. \A y : y \in Waiting(r)' <=> \E v \in Writers : y \in ToSet(stream'[r][v])
        BY DEF Waiting
      <4>4. \A y : y \in Waiting(r) <=> \E v \in Writers : y \in ToSet(stream[r][v])
        BY DEF Waiting
      <4>5. \A y : y \in Waiting(r)' <=> y \in Waiting(r) /\ y # x
        BY <1>3, <1>13, <4>2, <4>3, <4>4
      <4> QED
        BY <4>1, <4>5
    <3>2. Going(r)' = Going(r) \ {k} /\ k \in Going(r)
      BY <1>1, <1>2, <1>8, <1>10 DEF Going, JobsPlaced, Submitted
    <3>3. Cardinality(Waiting(r)') = Cardinality(Waiting(r)) - 1
      BY <3>1, Finite, FS_RemoveElement
    <3>4. Cardinality(Going(r)') = Cardinality(Going(r)) - 1
      BY <3>2, Finite, FS_RemoveElement
    <3>5. PICK n1, n2, n3, n4, n5, n6, n7, n8 : Terms(r, n1, n2, n3, n4, n5, n6, n7, n8)
      BY SomeTerms, AllBalanced
    <3>8. n1 - 1 = n2 + n3 + n4 + (n5 - 1) + (n6 + n7 + n8)
      <4>1. /\ n1 \in Nat /\ n2 \in Nat /\ n3 \in Nat /\ n4 \in Nat
            /\ n5 \in Nat /\ n6 \in Nat /\ n7 \in Nat /\ n8 \in Nat
            /\ n1 = n2 + n3 + n4 + n5 + (n6 + n7 + n8)
        BY <3>5 DEF Terms
      <4> HIDE DEF IInv
      <4> QED
        BY <4>1
    <3>9. /\ Cardinality(Waiting(r)') = n1 - 1 /\ Cardinality(Triggering(r)') = n2
          /\ B(signal'[r]) = n3 /\ B(looping' = r) = n4
          /\ Cardinality(Going(r)') = n5 - 1 /\ coalesced'[r] = n6
          /\ Cardinality(Lost(r)') = n7 /\ missed'[r] = n8
      <4>1. Cardinality(Waiting(r)') = n1 - 1
        BY <1>1, <2>1, <2>3, <3>3, <3>4, <3>5 DEF Terms
      <4>2. Cardinality(Triggering(r)') = n2
        BY <1>1, <2>1, <2>3, <3>3, <3>4, <3>5 DEF Terms
      <4>3. B(signal'[r]) = n3 /\ B(looping' = r) = n4
        BY <1>1, <2>1, <2>3, <3>3, <3>4, <3>5 DEF Terms
      <4>4. Cardinality(Going(r)') = n5 - 1
        BY <1>1, <2>1, <2>3, <3>3, <3>4, <3>5 DEF Terms
      <4>5. Cardinality(Lost(r)') = n7
        BY <1>1, <2>1, <2>3, <3>3, <3>4, <3>5 DEF Terms
      <4>6. coalesced'[r] = n6 /\ missed'[r] = n8
        BY <1>1, <2>1, <2>3, <3>3, <3>4, <3>5 DEF Terms
      <4> QED
        BY <4>1, <4>2, <4>3, <4>4, <4>5, <4>6
    <3> QED
      BY <2>3, <3>8, <3>9, BalancedIsNext
  <2> QED
    BY <2>2, <2>3
<1> QED
  BY <1>11, <1>12, <1>14, <1>15, AllBalanced

LEMMA NothingStep ==
  ASSUME IInv, NEW k \in Tasks, PopNothing(k)
  PROVE  IInv'
<1> USE DEF IInv
<1>1. /\ UNCHANGED <<pending, refused, stream, pushed, signal, looping, jobFor, looked,
                     held, written, delivered, coalesced, channels, opened>>
      /\ k \in executing /\ held[k] = NoItem
      /\ executing' = executing \ {k} /\ finished' = finished \cup {k}
  BY DEF PopNothing, Finish, Popping
<1>2. PICK r \in Receivers : r = jobFor[k]
  BY <1>1 DEF JobsPlaced
<1>3. missed' = [missed EXCEPT ![r] = @ + 1]
  BY <1>2 DEF PopNothing
<1>t. missed \in [Receivers -> Nat] /\ k \notin pending
  BY <1>1 DEF TypeOK, JobsPlaced
<1>4. TypeOK'
  BY <1>1, <1>3 DEF TypeOK
<1>5. JobsPlaced'
  BY <1>1 DEF JobsPlaced, Submitted, Accepted
<1>6. ItemsOnce' /\ \A q \in Receivers : Waiting(q)' = Waiting(q)
  BY <1>1, SameStreams
<1>7. ASSUME NEW q \in Receivers PROVE Balanced(q)'
  <2>1. /\ Triggering(q)' = Triggering(q) /\ Lost(q)' = Lost(q)
        /\ Waiting(q)' = Waiting(q)
    BY <1>1, <1>6 DEF Triggering, Lost
  <2>2. CASE q # r
    <3>1. Going(q)' = Going(q)
      BY <1>1, <1>2, <2>2 DEF Going
    <3>2. missed'[q] = missed[q]
      BY <1>3, <1>t, <2>2
    <3> QED
      BY <1>1, <2>1, <3>1, <3>2, Same, AllBalanced
  <2>3. CASE q = r
    <3>1. Going(r)' = Going(r) \ {k} /\ k \in Going(r)
      BY <1>1, <1>2, <1>t DEF Going
    <3>2. Cardinality(Going(r)') = Cardinality(Going(r)) - 1
      BY <3>1, Finite, FS_RemoveElement
    <3>3. missed'[r] = missed[r] + 1
      BY <1>3, <1>t
    <3>5. PICK n1, n2, n3, n4, n5, n6, n7, n8 : Terms(r, n1, n2, n3, n4, n5, n6, n7, n8)
      BY SomeTerms, AllBalanced
    <3>8. n1 = n2 + n3 + n4 + (n5 - 1) + (n6 + n7 + (n8 + 1))
      <4>1. /\ n1 \in Nat /\ n2 \in Nat /\ n3 \in Nat /\ n4 \in Nat
            /\ n5 \in Nat /\ n6 \in Nat /\ n7 \in Nat /\ n8 \in Nat
            /\ n1 = n2 + n3 + n4 + n5 + (n6 + n7 + n8)
        BY <3>5 DEF Terms
      <4> HIDE DEF IInv
      <4> QED
        BY <4>1
    <3>9. /\ Cardinality(Waiting(r)') = n1 /\ Cardinality(Triggering(r)') = n2
          /\ B(signal'[r]) = n3 /\ B(looping' = r) = n4
          /\ Cardinality(Going(r)') = n5 - 1 /\ coalesced'[r] = n6
          /\ Cardinality(Lost(r)') = n7 /\ missed'[r] = n8 + 1
      <4>1. Cardinality(Waiting(r)') = n1
        BY <1>1, <2>1, <2>3, <3>2, <3>3, <3>5 DEF Terms
      <4>2. Cardinality(Triggering(r)') = n2
        BY <1>1, <2>1, <2>3, <3>2, <3>3, <3>5 DEF Terms
      <4>3. B(signal'[r]) = n3 /\ B(looping' = r) = n4
        BY <1>1, <2>1, <2>3, <3>2, <3>3, <3>5 DEF Terms
      <4>4. Cardinality(Going(r)') = n5 - 1
        BY <1>1, <2>1, <2>3, <3>2, <3>3, <3>5 DEF Terms
      <4>5. Cardinality(Lost(r)') = n7
        BY <1>1, <2>1, <2>3, <3>2, <3>3, <3>5 DEF Terms
      <4>6. coalesced'[r] = n6 /\ missed'[r] = n8 + 1
        BY <1>1, <2>1, <2>3, <3>2, <3>3, <3>5 DEF Terms
      <4> QED
        BY <4>1, <4>2, <4>3, <4>4, <4>5, <4>6
    <3> QED
      BY <2>3, <3>8, <3>9, BalancedIsNext
  <2> QED
    BY <2>2, <2>3
<1> QED
  BY <1>4, <1>5, <1>6, <1>7, AllBalanced

LEMMA CallStep ==
  ASSUME IInv, NEW k \in Tasks, CallReceiver(k)
  PROVE  IInv'
<1> USE DEF IInv
<1>1. /\ UNCHANGED <<pending, refused, stream, pushed, signal, looping, jobFor, looked,
                     held, written, coalesced, missed, channels, opened>>
      /\ k \in executing /\ held[k] # NoItem
      /\ executing' = executing \ {k} /\ finished' = finished \cup {k}
      /\ delivered' = delivered \cup {held[k]}
  BY DEF CallReceiver, Finish
<1>2. TypeOK'
  BY <1>1 DEF TypeOK, JobsPlaced
<1>3. JobsPlaced'
  BY <1>1 DEF JobsPlaced, Submitted, Accepted
<1>4. ItemsOnce' /\ \A q \in Receivers : Waiting(q)' = Waiting(q)
  BY <1>1, SameStreams
<1>5. Accounting'
  BY <1>1, <1>4, Same, AllBalanced DEF Triggering, Going, Lost
<1> QED
  BY <1>2, <1>3, <1>4, <1>5

LEMMA StutterStep ==
  ASSUME IInv, UNCHANGED vars
  PROVE  IInv'
<1> USE DEF IInv, vars, chanVars, poolVars
<1>1. TypeOK'
  BY DEF TypeOK
<1>2. JobsPlaced'
  BY DEF JobsPlaced, Submitted, Accepted
<1>3. ItemsOnce' /\ \A q \in Receivers : Waiting(q)' = Waiting(q)
  BY SameStreams
<1>4. Accounting'
  BY <1>3, Same, AllBalanced DEF Triggering, Going, Lost
<1> QED
  BY <1>1, <1>2, <1>3, <1>4

-------------------------------------------------------------------------------
(* IInv holds in every reachable state.                                    *)
THEOREM Invariance == Spec => []IInv
<1>1. IInv /\ [Next]_vars => IInv'
  <2> SUFFICES ASSUME IInv, [Next]_vars PROVE IInv'
    OBVIOUS
  <2>1. CASE \E n \in Names, r \in Receivers : ChannelOpen(n, r)
    BY <2>1, OpenStep
  <2>2. CASE \E w \in Writers, n \in Names, x \in Items : ChannelWrite(w, n, x)
    BY <2>2, WriteStep
  <2>3. CASE \E w \in Writers : Trigger(w)
    BY <2>3, TriggerStep
  <2>4. CASE LoopStep
    BY <2>4, CallbackStep, PeriodicStep DEF LoopStep
  <2>5. CASE \E k \in Tasks : JobStart(k)
    BY <2>5, StartStep
  <2>6. CASE \E k \in Tasks : JobStep(k)
    BY <2>6, PopStep, LookStep, NothingStep, CallStep DEF JobStep
  <2>7. CASE UNCHANGED vars
    BY <2>7, StutterStep
  <2> QED
    BY <2>1, <2>2, <2>3, <2>4, <2>5, <2>6, <2>7 DEF Next
<1> QED
  BY <1>1, InitInv, PTL DEF Spec

(* Every variable keeps its type, and nothing is delivered that was not    *)
(* written (channel_write, and the fc of channel_open).                    *)
THEOREM TypeCorrect == Spec => []TypeOK
<1>1. IInv => TypeOK
  BY DEF IInv
<1> QED
  BY <1>1, Invariance, PTL

(* Whatever the number of writers, receivers and jobs, the items in a      *)
(* receiver's queue are those that a send, a callback or a job is on its   *)
(* way for, one for one, and those left behind by sends merged into one    *)
(* callback, jobs the pool refused and jobs that missed (channel_write,    *)
(* uv_async_send, UVAsync::periodic and the fc of channel_open).           *)
THEOREM AccountIsKept == Spec => []Accounting
<1>1. IInv => Accounting
  BY DEF IInv
<1> QED
  BY <1>1, Invariance, PTL
===============================================================================
