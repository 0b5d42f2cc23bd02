--------------------------- MODULE MPMCQueueProofs ---------------------------
(***************************************************************************)
(* Proofs about MPMCQueue, for any number of threads and any size of at    *)
(* least two cells: each cell's data has one user at a time, and the queue *)
(* implements BoundedQueue.                                                *)
(*                                                                         *)
(* The state of a cell is told by the next position a push may claim in    *)
(* it, q, one of the QueueSize positions from m_enqueue_pos on: the cell   *)
(* is free for it (its sequence number is q), or holds what position       *)
(* q - QueueSize stored (one more than that), or is being written for      *)
(* that position (that position itself).                                   *)
(***************************************************************************)
EXTENDS MPMCQueue, TLAPS, FiniteSetTheorems

Storing(t) == at[t] \in {"push data", "push store"}
Taking(t) == at[t] \in {"pop data", "pop store"}

Typed ==
  /\ TypeOK
  /\ \A t \in Threads : at[t] \in PushAt => item[t] \in Items

Positions ==
  /\ Len(pushed) = m_enqueue_pos
  /\ m_dequeue_pos <= m_enqueue_pos
  /\ m_enqueue_pos <= m_dequeue_pos + QueueSize

FreeFor(q) ==
  /\ sequence[q % QueueSize] = q
  /\ q < m_dequeue_pos + QueueSize

StoredBefore(q) ==
  /\ sequence[q % QueueSize] = q - QueueSize + 1 /\ q >= QueueSize
  /\ \/ q >= m_dequeue_pos + QueueSize
     \/ \E t \in Threads : Taking(t) /\ pos[t] = q - QueueSize

WrittenBefore(q) ==
  /\ sequence[q % QueueSize] = q - QueueSize /\ q >= QueueSize
  /\ \E t \in Threads : Storing(t) /\ pos[t] = q - QueueSize

CellsTold ==
  \A q \in m_enqueue_pos .. m_enqueue_pos + QueueSize - 1 :
    FreeFor(q) \/ StoredBefore(q) \/ WrittenBefore(q)

(* A thread between its claim and its store has a position of the last     *)
(* round, and nobody else has it.                                          *)
OwnersPlaced ==
  \A t \in Threads :
    /\ Storing(t) => /\ m_dequeue_pos <= pos[t] /\ pos[t] < m_enqueue_pos
                     /\ sequence[Cell(t)] = pos[t]
    /\ Taking(t) => /\ m_enqueue_pos <= pos[t] + QueueSize
                    /\ pos[t] < m_dequeue_pos
                    /\ sequence[Cell(t)] = pos[t] + 1

OwnersDistinct ==
  \A t, u \in Threads : Owns(t) /\ Owns(u) /\ pos[t] = pos[u] => t = u

(* What a thread has read may be old, but if the position is still the     *)
(* current one the sequence number is what it was.                         *)
TriesCurrent ==
  \A t \in Threads :
    /\ at[t] \in {"push seq", "push cas"} => pos[t] <= m_enqueue_pos
    /\ at[t] = "push cas" /\ pos[t] = m_enqueue_pos => sequence[Cell(t)] = pos[t]
    /\ at[t] \in {"pop seq", "pop cas"} => pos[t] <= m_dequeue_pos
    /\ at[t] = "pop cas" /\ pos[t] = m_dequeue_pos =>
         sequence[Cell(t)] = pos[t] + 1

(* The sequence number of a cell has passed every position claimed in it.  *)
SequencePassed ==
  /\ \A p \in 0 .. m_enqueue_pos - 1 : sequence[p % QueueSize] >= p
  /\ \A p \in 0 .. m_dequeue_pos - 1 : sequence[p % QueueSize] >= p + 1

Inv ==
  /\ Typed /\ Positions /\ CellsTold
  /\ OwnersPlaced /\ OwnersDistinct /\ TriesCurrent /\ SequencePassed

(* Where the item of a position is, until a pop has returned it.           *)
Carried(t) ==
  /\ Storing(t) => item[t] = pushed[pos[t] + 1]
  /\ at[t] = "push store" => data[Cell(t)] = pushed[pos[t] + 1]
  /\ at[t] = "pop data" => data[Cell(t)] = pushed[pos[t] + 1]
  /\ at[t] = "pop store" => item[t] = pushed[pos[t] + 1]

Contents ==
  /\ \A t \in Threads : Carried(t)
  /\ \A p \in m_dequeue_pos .. m_enqueue_pos - 1 :
       sequence[p % QueueSize] = p + 1 => data[p % QueueSize] = pushed[p + 1]

Budget == m_enqueue_pos + Cardinality(Unclaimed) <= MaxPush

-------------------------------------------------------------------------------
(* Positions and cells.                                                    *)

LEMMA Size == QueueSize \in Nat /\ QueueSize > 1
BY MPMCQueueAssumption

LEMMA Quotient ==
  ASSUME NEW p \in Nat
  PROVE  /\ p = (QueueSize * (p \div QueueSize)) + (p % QueueSize)
         /\ p \div QueueSize \in Nat
         /\ p % QueueSize \in Cells
<1>1. QueueSize \in Nat \ {0}
  BY Size
<1>2. p = (QueueSize * (p \div QueueSize)) + (p % QueueSize)
  BY <1>1
<1>3. p \div QueueSize \in Nat
  BY <1>1
<1>4. p % QueueSize \in Cells
  BY <1>1 DEF Cells
<1> QED
  BY <1>2, <1>3, <1>4

LEMMA NextRound ==
  ASSUME NEW p \in Nat
  PROVE  (p + QueueSize) % QueueSize = p % QueueSize
<1> DEFINE a == p \div QueueSize
           r == p % QueueSize
           q == p + QueueSize
<1>1. QueueSize \in Nat \ {0}
  BY Size
<1>2. p = (QueueSize * a) + r /\ a \in Nat /\ r \in 0 .. QueueSize - 1
  BY Quotient DEF Cells
<1> HIDE DEF a, r
<1>3. q = (QueueSize * (a + 1)) + r /\ q \in Nat
  BY <1>1, <1>2
<1>4. a + 1 \in Int
  BY <1>2
<1> HIDE DEF q
<1>5. q % QueueSize = r
  BY <1>1, <1>2, <1>3, <1>4
<1> QED
  BY <1>5 DEF q, r

(* Less than a round apart, two positions of one cell are the same.        *)
LEMMA SameCell ==
  ASSUME NEW p \in Nat, NEW q \in Nat, p % QueueSize = q % QueueSize,
         p <= q, q < p + QueueSize
  PROVE  p = q
<1> DEFINE a == p \div QueueSize
           b == q \div QueueSize
           r == p % QueueSize
<1>1. QueueSize \in Nat \ {0}
  BY Size
<1>2. /\ p = (QueueSize * a) + r /\ q = (QueueSize * b) + r
      /\ a \in Nat /\ b \in Nat /\ r \in Nat
  BY Quotient, <1>1 DEF Cells
<1> HIDE DEF a, b, r
<1>3. QueueSize * (b - a) < QueueSize /\ QueueSize * (b - a) >= 0
  BY <1>1, <1>2
<1>4. b - a < 1
  BY <1>1, <1>2, <1>3
<1>5. b - a > -1
  BY <1>1, <1>2, <1>3
<1> QED
  BY <1>2, <1>4, <1>5

LEMMA TypeFacts ==
  ASSUME TypeOK
  PROVE  /\ m_enqueue_pos \in Nat /\ m_dequeue_pos \in Nat
         /\ QueueSize \in Nat /\ QueueSize > 1
         /\ \A t \in Threads : pos[t] \in Nat /\ Cell(t) \in Cells
         /\ \A p \in Nat : p % QueueSize \in Cells /\ sequence[p % QueueSize] \in Nat
<1>1. /\ m_enqueue_pos \in Nat /\ m_dequeue_pos \in Nat
      /\ \A t \in Threads : pos[t] \in Nat
  BY DEF TypeOK
<1>2. \A p \in Nat : p % QueueSize \in Cells
  BY Quotient
<1>3. \A p \in Nat : sequence[p % QueueSize] \in Nat
  BY <1>2 DEF TypeOK
<1>4. \A t \in Threads : Cell(t) \in Cells
  BY <1>1, <1>2 DEF Cell
<1> QED
  BY <1>1, <1>2, <1>3, <1>4, Size

-------------------------------------------------------------------------------
(* Init and types.                                                         *)

LEMMA InitInv == Init => Inv /\ Contents
<1> SUFFICES ASSUME Init PROVE Inv /\ Contents
  OBVIOUS
<1> USE DEF Init
<1>1. Typed
  BY DEF Typed, TypeOK, PushAt, PopAt, Cells
<1>2. Positions
  BY MPMCQueueAssumption DEF Positions
<1>3. ASSUME NEW q \in m_enqueue_pos .. m_enqueue_pos + QueueSize - 1
      PROVE  FreeFor(q)
  <2>1. q \in Nat /\ q < QueueSize /\ q \in Cells
    BY Size DEF Cells
  <2>2. q % QueueSize = q
    BY <2>1, Size
  <2>3. sequence[q] = q /\ m_dequeue_pos = 0
    BY <2>1
  <2> QED
    BY <2>1, <2>2, <2>3, Size DEF FreeFor
<1>4. CellsTold
  BY <1>3 DEF CellsTold
<1>5. OwnersPlaced /\ OwnersDistinct /\ TriesCurrent /\ SequencePassed /\ Contents
  BY DEF OwnersPlaced, OwnersDistinct, TriesCurrent, SequencePassed, Contents,
         Carried, Storing, Taking, Owns
<1> QED
  BY <1>1, <1>2, <1>4, <1>5 DEF Inv

LEMMA TypeStep == Typed /\ [Next]_vars => Typed'
<1> SUFFICES ASSUME Typed, [Next]_vars PROVE Typed'
  OBVIOUS
<1> USE DEF Typed, TypeOK, Goto, Return, cellVars, posVars
<1>1. ASSUME NEW t \in Threads, NEW x \in Items, CallPush(t, x) PROVE Typed'
  BY <1>1 DEF CallPush, PushAt, PopAt
<1>2. ASSUME NEW t \in Threads, LoadEnqueuePos(t) PROVE Typed'
  BY <1>2 DEF LoadEnqueuePos, PushAt, PopAt
<1>3. ASSUME NEW t \in Threads, LoadDequeuePos(t) PROVE Typed'
  BY <1>3 DEF LoadDequeuePos, PushAt, PopAt
<1>4. ASSUME NEW t \in Threads, LoadSequenceForPush(t) PROVE Typed'
  BY <1>4 DEF LoadSequenceForPush, PushAt, PopAt
<1>5. ASSUME NEW t \in Threads, LoadSequenceForPop(t) PROVE Typed'
  BY <1>5 DEF LoadSequenceForPop, PushAt, PopAt
<1>6. ASSUME NEW t \in Threads, PushFull(t) PROVE Typed'
  BY <1>6 DEF PushFull, PushAt, PopAt
<1>7. ASSUME NEW t \in Threads, PopEmpty(t) PROVE Typed'
  BY <1>7 DEF PopEmpty, PushAt, PopAt
<1>8. ASSUME NEW t \in Threads, ClaimForPush(t) PROVE Typed'
  <2>1. item[t] \in Items
    BY <1>8 DEF ClaimForPush, PushAt
  <2>2. m_enqueue_pos \in Nat /\ m_enqueue_pos' = m_enqueue_pos + 1
    BY <1>8 DEF ClaimForPush
  <2>3. m_enqueue_pos' \in Nat
    BY <2>2
  <2>4. pushed \in Seq(Items) /\ pushed' = Append(pushed, item[t])
    BY <1>8 DEF ClaimForPush
  <2>5. pushed' \in Seq(Items)
    BY <2>1, <2>4
  <2> QED
    BY <1>8, <2>1, <2>3, <2>5 DEF ClaimForPush, PushAt, PopAt
<1>9. ASSUME NEW t \in Threads, ClaimForPop(t) PROVE Typed'
  <2>1. m_dequeue_pos \in Nat /\ m_dequeue_pos' = m_dequeue_pos + 1
    BY <1>9 DEF ClaimForPop
  <2>2. m_dequeue_pos' \in Nat
    BY <2>1
  <2> QED
    BY <1>9, <2>2 DEF ClaimForPop, PushAt, PopAt
<1>10. ASSUME NEW t \in Threads, MissPush(t) \/ MissPop(t) PROVE Typed'
  <2>1. CASE MissPush(t)
    BY <2>1 DEF MissPush, PushAt, PopAt
  <2>2. CASE MissPop(t)
    BY <2>2 DEF MissPop, PushAt, PopAt
  <2> QED
    BY <1>10, <2>1, <2>2
<1>11. ASSUME NEW t \in Threads, WriteData(t) PROVE Typed'
  BY <1>11 DEF WriteData, PushAt, PopAt
<1>12. ASSUME NEW t \in Threads, StoreForPop(t) PROVE Typed'
  <2>1. pos[t] + 1 \in Nat
    OBVIOUS
  <2> QED
    BY <1>12, <2>1 DEF StoreForPop, PushAt, PopAt
<1>13. ASSUME NEW t \in Threads, CallPop(t) PROVE Typed'
  BY <1>13 DEF CallPop, PushAt, PopAt
<1>14. ASSUME NEW t \in Threads, MoveData(t) PROVE Typed'
  <2>1. data[Cell(t)] \in Items \cup {"none"}
    BY TypeFacts
  <2> QED
    BY <1>14, <2>1 DEF MoveData, PushAt, PopAt
<1>15. ASSUME NEW t \in Threads, StoreForPush(t) PROVE Typed'
  <2>1. pos[t] + QueueSize \in Nat
    BY Size
  <2> QED
    BY <1>15, <2>1 DEF StoreForPush, PushAt, PopAt
<1>16. CASE UNCHANGED vars
  BY <1>16 DEF vars
<1> QED
  BY <1>1, <1>2, <1>3, <1>4, <1>5, <1>6, <1>7, <1>8, <1>9, <1>10, <1>11,
     <1>12, <1>13, <1>14, <1>15, <1>16 DEF Next, Claim, Advance

-------------------------------------------------------------------------------
(* Steps.                                                                  *)

LEMMA OneCell ==
  ASSUME Inv, NEW t \in Threads, NEW u \in Threads, Owns(t), Owns(u),
         Cell(t) = Cell(u)
  PROVE  t = u
<1>0. /\ m_enqueue_pos \in Nat /\ m_dequeue_pos \in Nat
      /\ QueueSize \in Nat /\ QueueSize > 1
      /\ pos[t] \in Nat /\ pos[u] \in Nat
  BY TypeFacts DEF Inv, Typed
<1>1. ASSUME NEW v \in {t, u}
      PROVE  pos[v] < m_enqueue_pos /\ m_enqueue_pos <= pos[v] + QueueSize
  <2>1. Storing(v) \/ Taking(v)
    BY DEF Owns, Storing, Taking
  <2>2. CASE Storing(v)
    <3>1. /\ m_dequeue_pos <= pos[v] /\ pos[v] < m_enqueue_pos
          /\ m_enqueue_pos <= m_dequeue_pos + QueueSize
      BY <2>2 DEF Inv, OwnersPlaced, Positions
    <3>2. pos[v] \in Nat
      BY <1>0
    <3> QED
      BY <1>0, <3>1, <3>2
  <2>3. CASE Taking(v)
    <3>1. /\ m_enqueue_pos <= pos[v] + QueueSize /\ pos[v] < m_dequeue_pos
          /\ m_dequeue_pos <= m_enqueue_pos
      BY <2>3 DEF Inv, OwnersPlaced, Positions
    <3>2. pos[v] \in Nat
      BY <1>0
    <3> QED
      BY <1>0, <3>1, <3>2
  <2> QED
    BY <2>1, <2>2, <2>3
<1>2. pos[t] < pos[u] + QueueSize /\ pos[u] < pos[t] + QueueSize
  <2>1. /\ pos[t] < m_enqueue_pos /\ m_enqueue_pos <= pos[t] + QueueSize
        /\ pos[u] < m_enqueue_pos /\ m_enqueue_pos <= pos[u] + QueueSize
    BY <1>1
  <2> QED
    BY <1>0, <2>1
<1>3. pos[t] = pos[u]
  <2>1. CASE pos[t] <= pos[u]
    BY <1>0, <1>2, <2>1, SameCell DEF Cell
  <2>2. CASE pos[u] <= pos[t]
    BY <1>0, <1>2, <2>2, SameCell DEF Cell
  <2> QED
    BY <1>0, <2>1, <2>2
<1> QED
  BY <1>3 DEF Inv, OwnersDistinct

Elsewhere(t) ==
  \A u \in Threads \ {t} : at'[u] = at[u] /\ pos'[u] = pos[u] /\ item'[u] = item[u]

(* A step that claims nothing and stores nothing.                          *)
Quiet(t) ==
  /\ ~ Owns(t) /\ at'[t] \notin {"push data", "push store", "pop data", "pop store"}
  /\ Elsewhere(t)
  /\ UNCHANGED <<sequence, data, m_enqueue_pos, m_dequeue_pos, pushed>>

LEMMA QuietStep ==
  ASSUME Inv, NEW t \in Threads, Quiet(t)
  PROVE  /\ Positions' /\ CellsTold' /\ OwnersPlaced' /\ OwnersDistinct'
         /\ SequencePassed'
         /\ Contents => Contents'
<1>1. \A u \in Threads : /\ Storing(u)' <=> Storing(u)
                         /\ Taking(u)' <=> Taking(u)
                         /\ Owns(u)' <=> Owns(u)
                         /\ Storing(u) \/ Taking(u) \/ Owns(u) =>
                              /\ at'[u] = at[u] /\ pos'[u] = pos[u]
                              /\ item'[u] = item[u]
                              /\ Cell(u)' = Cell(u)
  BY DEF Quiet, Elsewhere, Storing, Taking, Owns, Cell
<1>2. Positions'
  BY DEF Inv, Positions, Quiet
<1>3. ASSUME NEW q \in m_enqueue_pos .. m_enqueue_pos + QueueSize - 1
      PROVE  (FreeFor(q) \/ StoredBefore(q) \/ WrittenBefore(q))'
  <2>1. FreeFor(q) \/ StoredBefore(q) \/ WrittenBefore(q)
    BY DEF Inv, CellsTold
  <2> QED
    BY <1>1, <2>1 DEF FreeFor, StoredBefore, WrittenBefore, Quiet
<1>4. CellsTold'
  BY <1>3 DEF CellsTold, Quiet
<1>5. OwnersPlaced' /\ OwnersDistinct'
  BY <1>1 DEF Inv, OwnersPlaced, OwnersDistinct, Quiet
<1>6. SequencePassed'
  BY DEF Inv, SequencePassed, Quiet
<1>7. ASSUME Contents PROVE Contents'
  <2>1. \A u \in Threads :
          /\ at'[u] = "push store" => Storing(u)
          /\ at'[u] \in {"pop data", "pop store"} => Taking(u)
    BY <1>1 DEF Storing, Taking
  <2> QED
    BY <1>1, <1>7, <2>1 DEF Contents, Carried, Quiet
<1> QED
  BY <1>2, <1>4, <1>5, <1>6, <1>7

(* A step of one thread that leaves the sequence numbers and the positions *)
(* alone and keeps the thread among the owners, at the same position.      *)
LEMMA QuietActions ==
  ASSUME Inv, NEW t \in Threads,
         \/ \E x \in Items : CallPush(t, x)
         \/ CallPop(t) \/ LoadEnqueuePos(t) \/ LoadDequeuePos(t)
         \/ LoadSequenceForPush(t) \/ LoadSequenceForPop(t)
         \/ PushFull(t) \/ PopEmpty(t) \/ MissPush(t) \/ MissPop(t)
  PROVE  Quiet(t) /\ TriesCurrent'
<1> USE DEF Goto, Return, cellVars, posVars, Elsewhere, Quiet, Owns
<1> TypeOK
  BY DEF Inv, Typed
<1> at \in [Threads -> {"idle"} \cup PushAt \cup PopAt] /\ pos \in [Threads -> Nat]
    /\ item \in [Threads -> Items \cup {"none"}]
  BY DEF TypeOK
<1> m_enqueue_pos \in Nat /\ m_dequeue_pos \in Nat
  BY DEF TypeOK
<1>1. Quiet(t)
  <2>1. CASE \E x \in Items : CallPush(t, x)
    BY <2>1 DEF CallPush
  <2>2. CASE CallPop(t) \/ LoadEnqueuePos(t) \/ LoadDequeuePos(t)
    BY <2>2 DEF CallPop, LoadEnqueuePos, LoadDequeuePos
  <2>3. CASE LoadSequenceForPush(t) \/ LoadSequenceForPop(t)
    BY <2>3 DEF LoadSequenceForPush, LoadSequenceForPop
  <2>4. CASE PushFull(t) \/ PopEmpty(t)
    BY <2>4 DEF PushFull, PopEmpty
  <2>5. CASE MissPush(t) \/ MissPop(t)
    BY <2>5 DEF MissPush, MissPop
  <2> QED
    BY <2>1, <2>2, <2>3, <2>4, <2>5
<1>0. m_enqueue_pos <= m_enqueue_pos /\ m_dequeue_pos <= m_dequeue_pos
  BY TypeFacts
<1>2. ASSUME NEW u \in Threads
      PROVE  /\ at'[u] \in {"push seq", "push cas"} => pos'[u] <= m_enqueue_pos
             /\ at'[u] = "push cas" /\ pos'[u] = m_enqueue_pos =>
                  sequence[pos'[u] % QueueSize] = pos'[u]
             /\ at'[u] \in {"pop seq", "pop cas"} => pos'[u] <= m_dequeue_pos
             /\ at'[u] = "pop cas" /\ pos'[u] = m_dequeue_pos =>
                  sequence[pos'[u] % QueueSize] = pos'[u] + 1
  <2>1. CASE u # t
    BY <1>1, <2>1 DEF Inv, TriesCurrent, Cell
  <2>2. CASE u = t
    <3>1. CASE \/ \E x \in Items : CallPush(t, x)
               \/ CallPop(t) \/ PushFull(t) \/ PopEmpty(t)
      BY <2>2, <3>1 DEF CallPush, CallPop, PushFull, PopEmpty
    <3>2. CASE LoadEnqueuePos(t)
      <4>1. at'[t] = "push seq" /\ pos'[t] = m_enqueue_pos
        BY <3>2 DEF LoadEnqueuePos
      <4> QED
        BY <1>0, <2>2, <4>1
    <3>6. CASE LoadDequeuePos(t)
      <4>1. at'[t] = "pop seq" /\ pos'[t] = m_dequeue_pos
        BY <3>6 DEF LoadDequeuePos
      <4> QED
        BY <1>0, <2>2, <4>1
    <3>3. CASE LoadSequenceForPush(t)
      BY <2>2, <3>3 DEF LoadSequenceForPush, Inv, TriesCurrent, Cell
    <3>4. CASE LoadSequenceForPop(t)
      BY <2>2, <3>4 DEF LoadSequenceForPop, Inv, TriesCurrent, Cell
    <3>5. CASE MissPush(t)
      <4>1. at'[t] = "push seq" /\ pos'[t] = m_enqueue_pos
        BY <3>5 DEF MissPush
      <4> QED
        BY <1>0, <2>2, <4>1
    <3>7. CASE MissPop(t)
      <4>1. at'[t] = "pop seq" /\ pos'[t] = m_dequeue_pos
        BY <3>7 DEF MissPop
      <4> QED
        BY <1>0, <2>2, <4>1
    <3> QED
      BY <3>1, <3>2, <3>3, <3>4, <3>5, <3>6, <3>7
  <2> QED
    BY <2>1, <2>2
<1>3. TriesCurrent'
  BY <1>1, <1>2 DEF TriesCurrent, Cell
<1> QED
  BY <1>1, <1>3

(* The data of a cell is no part of Inv.                                   *)
LEMMA DataStep ==
  ASSUME Inv, NEW t \in Threads, WriteData(t) \/ MoveData(t), Typed'
  PROVE  Inv'
<1>1. /\ UNCHANGED <<sequence, m_enqueue_pos, m_dequeue_pos, pos, pushed>>
      /\ \A u \in Threads \ {t} : at'[u] = at[u]
      /\ \/ at[t] = "push data" /\ at'[t] = "push store"
         \/ at[t] = "pop data" /\ at'[t] = "pop store"
  <2>1. DOMAIN at = Threads
    BY DEF Inv, Typed, TypeOK
  <2>2. CASE WriteData(t)
    BY <2>1, <2>2 DEF WriteData, Goto, posVars
  <2>3. CASE MoveData(t)
    BY <2>1, <2>3 DEF MoveData, Goto, posVars
  <2> QED
    BY <2>2, <2>3
<1>2. \A u \in Threads : /\ Storing(u)' <=> Storing(u)
                         /\ Taking(u)' <=> Taking(u)
                         /\ Owns(u)' <=> Owns(u)
                         /\ Cell(u)' = Cell(u)
  BY <1>1 DEF Storing, Taking, Owns, Cell
<1>3. Positions' /\ SequencePassed'
  BY <1>1 DEF Inv, Positions, SequencePassed
<1>4. ASSUME NEW q \in m_enqueue_pos .. m_enqueue_pos + QueueSize - 1
      PROVE  (FreeFor(q) \/ StoredBefore(q) \/ WrittenBefore(q))'
  <2>1. FreeFor(q) \/ StoredBefore(q) \/ WrittenBefore(q)
    BY DEF Inv, CellsTold
  <2> QED
    BY <1>1, <1>2, <2>1 DEF FreeFor, StoredBefore, WrittenBefore
<1>5. CellsTold'
  BY <1>1, <1>4 DEF CellsTold
<1>6. OwnersPlaced' /\ OwnersDistinct'
  BY <1>1, <1>2 DEF Inv, OwnersPlaced, OwnersDistinct
<1>7. TriesCurrent'
  BY <1>1, <1>2 DEF Inv, TriesCurrent
<1> QED
  BY <1>3, <1>5, <1>6, <1>7 DEF Inv

LEMMA ClaimPushStep ==
  ASSUME Inv, NEW t \in Threads, ClaimForPush(t), Typed'
  PROVE  /\ Inv'
         /\ FreeFor(m_enqueue_pos)
<1> DEFINE e == m_enqueue_pos
           d == m_dequeue_pos
<1>0. e \in Nat /\ d \in Nat /\ QueueSize \in Nat /\ QueueSize > 1
  BY TypeFacts DEF Inv, Typed
<1>a. m_enqueue_pos' = e + 1
  BY DEF ClaimForPush
<1>b. pushed' = Append(pushed, item[t]) /\ pushed \in Seq(Items) /\ item[t] \in Items
  BY DEF ClaimForPush, Inv, Typed, TypeOK, PushAt
<1>c. pos[t] = e
  BY DEF ClaimForPush
<1>1. /\ UNCHANGED <<sequence, data, m_dequeue_pos, pos, item>>
      /\ at[t] = "push cas" /\ at'[t] = "push data"
      /\ \A u \in Threads \ {t} : at'[u] = at[u]
  BY DEF ClaimForPush, Goto, cellVars, Inv, Typed, TypeOK
<1>2. sequence[e % QueueSize] = e
  BY <1>1, <1>c DEF Inv, TriesCurrent, Cell
<1>3. FreeFor(e)
  <2>1. e \in e .. e + QueueSize - 1
    BY <1>0
  <2>2. FreeFor(e) \/ StoredBefore(e) \/ WrittenBefore(e)
    BY <2>1 DEF Inv, CellsTold
  <2>3. ~ (e = e - QueueSize + 1) /\ ~ (e = e - QueueSize)
    BY <1>0
  <2> QED
    BY <1>2, <2>2, <2>3 DEF StoredBefore, WrittenBefore
<1>4. \A u \in Threads : /\ Storing(u)' <=> Storing(u) \/ u = t
                         /\ Taking(u)' <=> Taking(u)
                         /\ Owns(u)' <=> Owns(u) \/ u = t
                         /\ Cell(u)' = Cell(u)
  BY <1>1 DEF Storing, Taking, Owns, Cell
<1>5. ~ Storing(t) /\ ~ Taking(t) /\ ~ Owns(t)
  BY <1>1 DEF Storing, Taking, Owns
<1>6. \A u \in Threads : Owns(u) <=> Storing(u) \/ Taking(u)
  BY DEF Owns, Storing, Taking
<1>7. Positions'
  <2>1. Len(pushed') = Len(pushed) + 1
    BY <1>b
  <2>2. Len(pushed) = e /\ d <= e /\ e < d + QueueSize
    BY <1>3 DEF Inv, Positions, FreeFor
  <2>3. d <= e + 1 /\ e + 1 <= d + QueueSize
    BY <1>0, <2>2
  <2> QED
    BY <1>1, <1>a, <2>1, <2>2, <2>3 DEF Positions
<1>8. ASSUME NEW q \in e + 1 .. e + QueueSize
      PROVE  (FreeFor(q) \/ StoredBefore(q) \/ WrittenBefore(q))'
  <2>1. CASE q = e + QueueSize
    <3>1. q % QueueSize = e % QueueSize
      BY <1>0, <2>1, NextRound
    <3>2. q - QueueSize = e /\ q >= QueueSize
      BY <1>0, <2>1
    <3>3. sequence'[q % QueueSize] = e
      BY <1>1, <1>2, <3>1
    <3>4. Storing(t)' /\ pos'[t] = e
      BY <1>1, <1>4, <1>c
    <3> QED
      BY <3>2, <3>3, <3>4 DEF WrittenBefore
  <2>2. CASE q # e + QueueSize
    <3>1. q \in e .. e + QueueSize - 1
      BY <1>0, <2>2
    <3>2. FreeFor(q) \/ StoredBefore(q) \/ WrittenBefore(q)
      BY <3>1 DEF Inv, CellsTold
    <3> QED
      BY <1>1, <1>4, <3>2 DEF FreeFor, StoredBefore, WrittenBefore
  <2> QED
    BY <2>1, <2>2
<1>9. CellsTold'
  <2>1. (e + 1) + QueueSize - 1 = e + QueueSize
    BY <1>0
  <2> QED
    BY <1>8, <1>a, <2>1 DEF CellsTold
<1>10. ASSUME NEW u \in Threads, Owns(u) PROVE pos[u] < e /\ e < pos[u] + QueueSize
  <2>0. pos[u] \in Nat
    BY TypeFacts DEF Inv, Typed
  <2>1. /\ pos[u] < e
        /\ e <= pos[u] + QueueSize
        /\ sequence[Cell(u)] = pos[u] \/ sequence[Cell(u)] = pos[u] + 1
    <3>1. CASE Storing(u)
      BY <1>0, <2>0, <3>1 DEF Inv, OwnersPlaced, Positions
    <3>2. CASE Taking(u)
      BY <1>0, <2>0, <3>2 DEF Inv, OwnersPlaced, Positions
    <3> QED
      BY <1>6, <1>10, <3>1, <3>2
  <2>2. ASSUME e = pos[u] + QueueSize PROVE FALSE
    <3>1. Cell(u) = e % QueueSize
      BY <2>0, <2>2, NextRound DEF Cell
    <3> QED
      BY <1>0, <1>2, <2>0, <2>1, <2>2, <3>1
  <2> QED
    BY <1>0, <2>0, <2>1, <2>2
<1>11. OwnersPlaced'
  <2>1. ASSUME NEW u \in Threads, Storing(u)'
        PROVE  d <= pos[u] /\ pos[u] < e + 1 /\ sequence[Cell(u)] = pos[u]
    <3>0. pos[u] \in Nat
      BY TypeFacts DEF Inv, Typed
    <3>1. CASE u = t
      <4>1. d <= e /\ e < e + 1
        BY <1>0 DEF Inv, Positions
      <4> QED
        BY <1>2, <1>c, <3>1, <4>1 DEF Cell
    <3>2. CASE Storing(u)
      BY <1>0, <3>0, <3>2 DEF Inv, OwnersPlaced
    <3> QED
      BY <1>4, <2>1, <3>1, <3>2
  <2>2. ASSUME NEW u \in Threads, Taking(u)'
        PROVE  /\ e + 1 <= pos[u] + QueueSize /\ pos[u] < d
               /\ sequence[Cell(u)] = pos[u] + 1
    <3>0. pos[u] \in Nat
      BY TypeFacts DEF Inv, Typed
    <3>1. Taking(u)
      BY <1>4, <2>2
    <3>2. e < pos[u] + QueueSize
      BY <1>6, <1>10, <3>1
    <3> QED
      BY <1>0, <3>0, <3>1, <3>2 DEF Inv, OwnersPlaced
  <2> QED
    BY <1>1, <1>4, <1>a, <2>1, <2>2 DEF OwnersPlaced
<1>12. OwnersDistinct'
  <2>1. ASSUME NEW u \in Threads, Owns(u) PROVE pos[u] # e
    <3>1. pos[u] < e /\ pos[u] \in Nat
      BY <1>10, <2>1, TypeFacts DEF Inv, Typed
    <3> QED
      BY <1>0, <3>1
  <2> QED
    BY <1>1, <1>4, <1>c, <2>1 DEF Inv, OwnersDistinct
<1>13. TriesCurrent'
  <2>1. ASSUME NEW u \in Threads, at'[u] \in {"push seq", "push cas"}
        PROVE  pos[u] <= e + 1 /\ pos[u] # e + 1
    <3>1. at[u] = at'[u] /\ pos[u] \in Nat
      BY <1>1, <2>1, TypeFacts DEF Inv, Typed
    <3>2. pos[u] <= e
      BY <2>1, <3>1 DEF Inv, TriesCurrent
    <3> QED
      BY <1>0, <3>1, <3>2
  <2>2. ASSUME NEW u \in Threads, at'[u] \in {"pop seq", "pop cas"}
        PROVE  at[u] = at'[u]
    BY <1>1, <2>2
  <2> QED
    BY <1>1, <1>4, <1>a, <2>1, <2>2 DEF Inv, TriesCurrent
<1>14. SequencePassed'
  <2>1. ASSUME NEW p \in 0 .. e PROVE sequence[p % QueueSize] >= p
    BY <1>0, <1>2, <2>1 DEF Inv, SequencePassed
  <2>2. m_enqueue_pos' - 1 = e
    BY <1>0, <1>a
  <2> QED
    BY <1>1, <2>1, <2>2 DEF Inv, SequencePassed
<1> QED
  BY <1>3, <1>7, <1>9, <1>11, <1>12, <1>13, <1>14 DEF Inv

LEMMA ClaimPopStep ==
  ASSUME Inv, NEW t \in Threads, ClaimForPop(t), Typed'
  PROVE  /\ Inv'
         /\ m_dequeue_pos < m_enqueue_pos
         /\ sequence[m_dequeue_pos % QueueSize] = m_dequeue_pos + 1
<1> DEFINE e == m_enqueue_pos
           d == m_dequeue_pos
<1>0. e \in Nat /\ d \in Nat /\ QueueSize \in Nat /\ QueueSize > 1
  BY TypeFacts DEF Inv, Typed
<1>a. m_dequeue_pos' = d + 1
  BY DEF ClaimForPop
<1>c. pos[t] = d
  BY DEF ClaimForPop
<1>1. /\ UNCHANGED <<sequence, data, m_enqueue_pos, pos, item, pushed>>
      /\ at[t] = "pop cas" /\ at'[t] = "pop data"
      /\ \A u \in Threads \ {t} : at'[u] = at[u]
  BY DEF ClaimForPop, Goto, cellVars, Inv, Typed, TypeOK
<1>2. sequence[d % QueueSize] = d + 1
  BY <1>1, <1>c DEF Inv, TriesCurrent, Cell
<1>p. Len(pushed) = e /\ d <= e /\ e <= d + QueueSize
  BY DEF Inv, Positions
<1>3. d < e
  <2>1. ASSUME d = e PROVE FALSE
    <3>1. e \in e .. e + QueueSize - 1
      BY <1>0
    <3>2. FreeFor(e) \/ StoredBefore(e) \/ WrittenBefore(e)
      BY <3>1 DEF Inv, CellsTold
    <3>3. ~ (e + 1 = e) /\ ~ (e + 1 = e - QueueSize + 1) /\ ~ (e + 1 = e - QueueSize)
      BY <1>0
    <3> QED
      BY <1>2, <2>1, <3>2, <3>3 DEF FreeFor, StoredBefore, WrittenBefore
  <2> QED
    BY <1>0, <1>p, <2>1
<1>4. \A u \in Threads : /\ Storing(u)' <=> Storing(u)
                         /\ Taking(u)' <=> Taking(u) \/ u = t
                         /\ Owns(u)' <=> Owns(u) \/ u = t
                         /\ Cell(u)' = Cell(u)
  BY <1>1 DEF Storing, Taking, Owns, Cell
<1>5. ~ Storing(t) /\ ~ Taking(t) /\ ~ Owns(t)
  BY <1>1 DEF Storing, Taking, Owns
<1>6. \A u \in Threads : Owns(u) <=> Storing(u) \/ Taking(u)
  BY DEF Owns, Storing, Taking
<1>7. Positions'
  <2>1. d + 1 <= e /\ e <= d + 1 + QueueSize
    BY <1>0, <1>3, <1>p
  <2> QED
    BY <1>1, <1>a, <1>p, <2>1 DEF Positions
<1>8. ASSUME NEW q \in e .. e + QueueSize - 1
      PROVE  (FreeFor(q) \/ StoredBefore(q) \/ WrittenBefore(q))'
  <2>1. FreeFor(q) \/ StoredBefore(q) \/ WrittenBefore(q)
    BY DEF Inv, CellsTold
  <2>2. CASE FreeFor(q)
    <3>1. q < d + 1 + QueueSize
      BY <1>0, <2>2 DEF FreeFor
    <3> QED
      BY <1>1, <1>a, <2>2, <3>1 DEF FreeFor
  <2>3. CASE StoredBefore(q)
    <3>1. \/ q >= d + 1 + QueueSize
          \/ \E u \in Threads : Taking(u)' /\ pos'[u] = q - QueueSize
      <4>1. CASE q = d + QueueSize
        <5>1. q - QueueSize = d
          BY <1>0, <4>1
        <5> QED
          BY <1>1, <1>4, <1>c, <5>1
      <4>2. CASE q > d + QueueSize
        BY <1>0, <4>2
      <4>3. CASE \E u \in Threads : Taking(u) /\ pos[u] = q - QueueSize
        BY <1>1, <1>4, <4>3
      <4>4. q = d + QueueSize \/ q > d + QueueSize \/ ~ (q >= d + QueueSize)
        BY <1>0
      <4> QED
        BY <2>3, <4>1, <4>2, <4>3, <4>4 DEF StoredBefore
    <3> QED
      BY <1>1, <1>a, <2>3, <3>1 DEF StoredBefore
  <2>4. CASE WrittenBefore(q)
    BY <1>1, <1>4, <2>4 DEF WrittenBefore
  <2> QED
    BY <2>1, <2>2, <2>3, <2>4
<1>9. CellsTold'
  BY <1>1, <1>8 DEF CellsTold
<1>10. ASSUME NEW u \in Threads, Owns(u) PROVE pos[u] # d
  <2>1. CASE Storing(u)
    <3>1. sequence[Cell(u)] = pos[u]
      BY <2>1 DEF Inv, OwnersPlaced
    <3> QED
      BY <1>0, <1>2, <3>1 DEF Cell
  <2>2. CASE Taking(u)
    <3>1. pos[u] < d
      BY <2>2 DEF Inv, OwnersPlaced
    <3> QED
      BY <1>0, <3>1
  <2> QED
    BY <1>6, <1>10, <2>1, <2>2
<1>11. OwnersPlaced'
  <2>1. ASSUME NEW u \in Threads, Storing(u)'
        PROVE  d + 1 <= pos[u] /\ pos[u] < e /\ sequence[Cell(u)] = pos[u]
    <3>0. pos[u] \in Nat
      BY TypeFacts DEF Inv, Typed
    <3>1. Storing(u) /\ pos[u] # d
      BY <1>4, <1>6, <1>10, <2>1
    <3>2. d <= pos[u] /\ pos[u] < e /\ sequence[Cell(u)] = pos[u]
      BY <3>1 DEF Inv, OwnersPlaced
    <3> QED
      BY <1>0, <3>0, <3>1, <3>2
  <2>2. ASSUME NEW u \in Threads, Taking(u)'
        PROVE  /\ e <= pos[u] + QueueSize /\ pos[u] < d + 1
               /\ sequence[Cell(u)] = pos[u] + 1
    <3>1. CASE u = t
      <4>1. d < d + 1
        BY <1>0
      <4> QED
        BY <1>2, <1>c, <1>p, <3>1, <4>1 DEF Cell
    <3>2. CASE Taking(u)
      <4>1. /\ e <= pos[u] + QueueSize /\ pos[u] < d
            /\ sequence[Cell(u)] = pos[u] + 1
        BY <3>2 DEF Inv, OwnersPlaced
      <4>2. pos[u] \in Nat
        BY TypeFacts DEF Inv, Typed
      <4>3. pos[u] < d + 1
        BY <1>0, <4>1, <4>2
      <4> QED
        BY <4>1, <4>3
    <3> QED
      BY <1>4, <2>2, <3>1, <3>2
  <2> QED
    BY <1>1, <1>4, <1>a, <2>1, <2>2 DEF OwnersPlaced
<1>12. OwnersDistinct'
  BY <1>1, <1>4, <1>c, <1>10 DEF Inv, OwnersDistinct
<1>13. TriesCurrent'
  <2>1. ASSUME NEW u \in Threads, at'[u] \in {"pop seq", "pop cas"}
        PROVE  pos[u] <= d + 1 /\ pos[u] # d + 1
    <3>1. at[u] = at'[u] /\ pos[u] \in Nat
      BY <1>1, <2>1, TypeFacts DEF Inv, Typed
    <3>2. pos[u] <= d
      BY <2>1, <3>1 DEF Inv, TriesCurrent
    <3> QED
      BY <1>0, <3>1, <3>2
  <2>2. ASSUME NEW u \in Threads, at'[u] \in {"push seq", "push cas"}
        PROVE  at[u] = at'[u]
    BY <1>1, <2>2
  <2> QED
    BY <1>1, <1>4, <1>a, <2>1, <2>2 DEF Inv, TriesCurrent
<1>14. SequencePassed'
  <2>1. ASSUME NEW p \in 0 .. d PROVE sequence[p % QueueSize] >= p + 1
    <3>1. CASE p = d
      BY <1>0, <1>2, <3>1
    <3>2. CASE p # d
      <4>1. p \in 0 .. d - 1
        BY <1>0, <3>2
      <4> QED
        BY <4>1 DEF Inv, SequencePassed
    <3> QED
      BY <3>1, <3>2
  <2>2. m_dequeue_pos' - 1 = d
    BY <1>0, <1>a
  <2> QED
    BY <1>1, <2>1, <2>2 DEF Inv, SequencePassed
<1> QED
  BY <1>2, <1>3, <1>7, <1>9, <1>11, <1>12, <1>13, <1>14 DEF Inv

(* Both stores raise the sequence number of a cell their thread owns and   *)
(* give the cell up.                                                       *)
GivesUp(t, n) ==
  /\ Owns(t) /\ at'[t] = "idle"
  /\ Elsewhere(t)
  /\ sequence' = [sequence EXCEPT ![Cell(t)] = n]
  /\ UNCHANGED <<data, m_enqueue_pos, m_dequeue_pos, pushed>>

LEMMA GiveUpStep ==
  ASSUME Inv, NEW t \in Threads, NEW n \in Nat, n > sequence[Cell(t)],
         GivesUp(t, n), Typed',
         \/ Storing(t) /\ n = pos[t] + 1
         \/ Taking(t) /\ n = pos[t] + QueueSize
  PROVE  Inv'
<1> DEFINE e == m_enqueue_pos
           d == m_dequeue_pos
           c == Cell(t)
<1>0. /\ e \in Nat /\ d \in Nat /\ QueueSize \in Nat /\ QueueSize > 1
      /\ pos[t] \in Nat /\ c \in Cells /\ sequence \in [Cells -> Nat]
  BY TypeFacts DEF Inv, Typed, TypeOK
<1>p. Len(pushed) = e /\ d <= e /\ e <= d + QueueSize
  BY DEF Inv, Positions
<1>1. /\ UNCHANGED <<data, m_enqueue_pos, m_dequeue_pos, pushed>>
      /\ \A u \in Threads \ {t} : at'[u] = at[u] /\ pos'[u] = pos[u]
      /\ at'[t] = "idle" /\ Owns(t)
  BY DEF GivesUp, Elsewhere
<1>2. sequence'[c] = n /\ \A i \in Cells \ {c} : sequence'[i] = sequence[i]
  BY <1>0 DEF GivesUp
<1>3. \A i \in Cells : sequence'[i] >= sequence[i]
  BY <1>0, <1>2
<1>4. \A u \in Threads : /\ Storing(u)' <=> Storing(u) /\ u # t
                         /\ Taking(u)' <=> Taking(u) /\ u # t
                         /\ Owns(u)' <=> Owns(u) /\ u # t
                         /\ u # t => Cell(u)' = Cell(u)
  BY <1>1 DEF Storing, Taking, Owns, Cell
<1>6. \A u \in Threads : Owns(u) <=> Storing(u) \/ Taking(u)
  BY DEF Owns, Storing, Taking
<1>7. /\ pos[t] < e /\ e <= pos[t] + QueueSize
      /\ \/ Storing(t) /\ d <= pos[t] /\ sequence[c] = pos[t] /\ n = pos[t] + 1
         \/ Taking(t) /\ pos[t] < d /\ sequence[c] = pos[t] + 1 /\ n = pos[t] + QueueSize
  <2>1. CASE Storing(t) /\ n = pos[t] + 1
    <3>1. d <= pos[t] /\ pos[t] < e /\ sequence[c] = pos[t]
      BY <2>1 DEF Inv, OwnersPlaced
    <3>2. e <= pos[t] + QueueSize
      BY <1>0, <1>p, <3>1
    <3> QED
      BY <2>1, <3>1, <3>2
  <2>2. CASE Taking(t) /\ n = pos[t] + QueueSize
    <3>1. e <= pos[t] + QueueSize /\ pos[t] < d /\ sequence[c] = pos[t] + 1
      BY <2>2 DEF Inv, OwnersPlaced
    <3>2. pos[t] < e
      BY <1>0, <1>p, <3>1
    <3> QED
      BY <2>2, <3>1, <3>2
  <2> QED
    BY <2>1, <2>2
<1>8. ASSUME NEW q \in e .. e + QueueSize - 1
      PROVE  (FreeFor(q) \/ StoredBefore(q) \/ WrittenBefore(q))'
  <2>0. q \in Nat /\ q % QueueSize \in Cells
    BY <1>0, TypeFacts DEF Inv, Typed
  <2>1. CASE q = pos[t] + QueueSize
    <3>1. q % QueueSize = c
      BY <1>0, <2>1, NextRound DEF Cell
    <3>2. sequence'[q % QueueSize] = n
      BY <1>2, <3>1
    <3>3. CASE Storing(t) /\ d <= pos[t] /\ n = pos[t] + 1
      <4>1. n = q - QueueSize + 1 /\ q >= QueueSize /\ q >= d + QueueSize
        BY <1>0, <2>1, <3>3
      <4> QED
        BY <1>1, <3>2, <4>1 DEF StoredBefore
    <3>4. CASE Taking(t) /\ pos[t] < d /\ n = pos[t] + QueueSize
      <4>1. n = q /\ q < d + QueueSize
        BY <1>0, <2>1, <3>4
      <4> QED
        BY <1>1, <3>2, <4>1 DEF FreeFor
    <3> QED
      BY <1>7, <3>3, <3>4
  <2>2. CASE q # pos[t] + QueueSize
    <3>1. q % QueueSize # c
      <4>1. pos[t] + QueueSize \in e .. e + QueueSize - 1
        BY <1>0, <1>7
      <4>2. (pos[t] + QueueSize) % QueueSize = c /\ pos[t] + QueueSize \in Nat
        <5>1. pos[t] + QueueSize \in Nat
          BY <1>0
        <5>2. (pos[t] + QueueSize) % QueueSize = pos[t] % QueueSize
          BY <1>0, NextRound
        <5> QED
          BY <5>1, <5>2 DEF Cell
      <4>3. PICK r \in Nat : r = pos[t] + QueueSize
        BY <4>2
      <4>4. r < q + QueueSize /\ q < r + QueueSize /\ r # q
        BY <1>0, <2>0, <2>2, <4>1, <4>3
      <4>5. ASSUME q % QueueSize = r % QueueSize PROVE FALSE
        <5>1. CASE q <= r
          BY <2>0, <4>4, <4>5, <5>1, SameCell
        <5>2. CASE r <= q
          BY <2>0, <4>4, <4>5, <5>2, SameCell
        <5> QED
          BY <2>0, <5>1, <5>2
      <4> QED
        BY <4>2, <4>3, <4>5
    <3>2. sequence'[q % QueueSize] = sequence[q % QueueSize]
      BY <1>2, <2>0, <3>1
    <3>3. pos[t] # q - QueueSize
      BY <1>0, <2>0, <2>2
    <3>4. \A u \in Threads : pos[u] = q - QueueSize =>
            /\ Storing(u) => Storing(u)' /\ pos'[u] = pos[u]
            /\ Taking(u) => Taking(u)' /\ pos'[u] = pos[u]
      BY <1>1, <1>4, <3>3
    <3>5. FreeFor(q) \/ StoredBefore(q) \/ WrittenBefore(q)
      BY DEF Inv, CellsTold
    <3> QED
      BY <1>1, <3>2, <3>4, <3>5 DEF FreeFor, StoredBefore, WrittenBefore
  <2> QED
    BY <2>1, <2>2
<1>9. CellsTold'
  BY <1>1, <1>8 DEF CellsTold
<1>10. Positions'
  BY <1>1 DEF Inv, Positions
<1>11. OwnersPlaced'
  <2>1. ASSUME NEW u \in Threads, u # t, Owns(u)
        PROVE  sequence'[Cell(u)] = sequence[Cell(u)]
    <3>1. Cell(u) # c
      BY <1>1, <2>1, OneCell
    <3>2. Cell(u) \in Cells
      BY TypeFacts DEF Inv, Typed
    <3> QED
      BY <1>2, <3>1, <3>2
  <2> QED
    BY <1>1, <1>4, <1>6, <2>1 DEF Inv, OwnersPlaced
<1>12. OwnersDistinct'
  BY <1>1, <1>4 DEF Inv, OwnersDistinct
<1>13. TriesCurrent'
  <2>1. ASSUME NEW u \in Threads, u # t, at[u] = "push cas", pos[u] = e,
               sequence[Cell(u)] = pos[u]
        PROVE  Cell(u) # c
    <3>1. ASSUME Cell(u) = c PROVE FALSE
      <4>1. sequence[c] = e /\ pos[t] % QueueSize = e % QueueSize
        BY <2>1, <3>1 DEF Cell
      <4>2. Taking(t) /\ sequence[c] = pos[t] + 1
        BY <1>0, <1>7, <4>1
      <4>3. pos[t] <= e /\ e < pos[t] + QueueSize /\ pos[t] # e
        BY <1>0, <4>1, <4>2
      <4> QED
        BY <1>0, <4>1, <4>3, SameCell
    <3> QED
      BY <3>1
  <2>2. ASSUME NEW u \in Threads, u # t, at[u] = "pop cas", pos[u] = d,
               sequence[Cell(u)] = pos[u] + 1
        PROVE  Cell(u) # c
    <3>1. ASSUME Cell(u) = c PROVE FALSE
      <4>1. sequence[c] = d + 1 /\ pos[t] % QueueSize = d % QueueSize
        BY <2>2, <3>1 DEF Cell
      <4>2. Storing(t) /\ sequence[c] = pos[t]
        BY <1>0, <1>7, <4>1
      <4>3. d <= pos[t] /\ pos[t] < d + QueueSize /\ pos[t] # d
        BY <1>0, <4>1, <4>2
      <4> QED
        BY <1>0, <4>1, <4>3, SameCell
    <3> QED
      BY <3>1
  <2>3. \A u \in Threads : Cell(u) \in Cells
    BY TypeFacts DEF Inv, Typed
  <2>4. \A u \in Threads \ {t} :
          /\ at'[u] = at[u] /\ pos'[u] = pos[u] /\ Cell(u)' = Cell(u)
          /\ Cell(u) # c => sequence'[Cell(u)] = sequence[Cell(u)]
    BY <1>1, <1>2, <1>4, <2>3
  <2>5. ASSUME NEW u \in Threads, u # t
        PROVE  /\ at[u] \in {"push seq", "push cas"} => pos[u] <= e
               /\ at[u] = "push cas" /\ pos[u] = e =>
                    sequence'[Cell(u)] = pos[u]
               /\ at[u] \in {"pop seq", "pop cas"} => pos[u] <= d
               /\ at[u] = "pop cas" /\ pos[u] = d =>
                    sequence'[Cell(u)] = pos[u] + 1
    <3>1. /\ at[u] \in {"push seq", "push cas"} => pos[u] <= e
          /\ at[u] \in {"pop seq", "pop cas"} => pos[u] <= d
      BY DEF Inv, TriesCurrent
    <3>2. ASSUME at[u] = "push cas", pos[u] = e
          PROVE  sequence'[Cell(u)] = pos[u]
      <4>1. sequence[Cell(u)] = pos[u]
        BY <3>2 DEF Inv, TriesCurrent
      <4> QED
        BY <2>1, <2>4, <2>5, <3>2, <4>1
    <3>3. ASSUME at[u] = "pop cas", pos[u] = d
          PROVE  sequence'[Cell(u)] = pos[u] + 1
      <4>1. sequence[Cell(u)] = pos[u] + 1
        BY <3>3 DEF Inv, TriesCurrent
      <4> QED
        BY <2>2, <2>4, <2>5, <3>3, <4>1
    <3> QED
      BY <3>1, <3>2, <3>3
  <2>6. m_enqueue_pos' = e /\ m_dequeue_pos' = d /\ at'[t] = "idle"
    BY <1>1
  <2> HIDE DEF e, d, c
  <2> QED
    BY <2>4, <2>5, <2>6 DEF TriesCurrent
<1>14. SequencePassed'
  <2>1. ASSUME NEW p \in 0 .. e - 1 PROVE sequence'[p % QueueSize] >= p
    <3>0. p \in Nat /\ sequence[p % QueueSize] >= p
      BY <1>0 DEF Inv, SequencePassed
    <3>1. p % QueueSize \in Cells
      BY <3>0, TypeFacts DEF Inv, Typed
    <3>2. /\ sequence'[p % QueueSize] >= sequence[p % QueueSize]
          /\ sequence'[p % QueueSize] \in Nat /\ sequence[p % QueueSize] \in Nat
      BY <1>0, <1>2, <1>3, <3>1
    <3> QED
      BY <3>0, <3>2
  <2>2. ASSUME NEW p \in 0 .. d - 1 PROVE sequence'[p % QueueSize] >= p + 1
    <3>0. p \in Nat /\ sequence[p % QueueSize] >= p + 1
      <4>1. d \in Nat
        BY <1>0
      <4>2. p \in Nat
        BY <4>1
      <4> QED
        BY <4>2 DEF Inv, SequencePassed
    <3>1. p % QueueSize \in Cells
      BY <3>0, TypeFacts DEF Inv, Typed
    <3>2. /\ sequence'[p % QueueSize] >= sequence[p % QueueSize]
          /\ sequence'[p % QueueSize] \in Nat /\ sequence[p % QueueSize] \in Nat
      BY <1>0, <1>2, <1>3, <3>1
    <3> QED
      BY <3>0, <3>2
  <2> QED
    BY <1>1, <2>1, <2>2 DEF SequencePassed
<1> QED
  BY <1>9, <1>10, <1>11, <1>12, <1>13, <1>14 DEF Inv

LEMMA StoreStep ==
  ASSUME Inv, NEW t \in Threads, StoreForPop(t) \/ StoreForPush(t), Typed'
  PROVE  Inv'
<1>0. /\ QueueSize \in Nat /\ QueueSize > 1 /\ pos[t] \in Nat
      /\ at \in [Threads -> {"idle"} \cup PushAt \cup PopAt]
  BY TypeFacts DEF Inv, Typed, TypeOK
<1>a. DOMAIN at = Threads /\ DOMAIN pos = Threads /\ DOMAIN item = Threads
  BY DEF Inv, Typed, TypeOK
<1>1. CASE StoreForPop(t)
  <2>1. GivesUp(t, pos[t] + 1) /\ Storing(t)
    <3>1. Storing(t) /\ Owns(t)
      BY <1>1 DEF StoreForPop, Owns, Storing
    <3>2. at'[t] = "idle"
      BY <1>0, <1>1 DEF StoreForPop, Return
    <3>3. Elsewhere(t)
      BY <1>a, <1>1 DEF StoreForPop, Return, Elsewhere
    <3> QED
      BY <3>1, <3>2, <3>3, <1>1 DEF StoreForPop, GivesUp, posVars
  <2>2. sequence[Cell(t)] = pos[t]
    BY <2>1 DEF Inv, OwnersPlaced
  <2>3. PICK n \in Nat : n = pos[t] + 1
    BY <1>0
  <2>4. n > sequence[Cell(t)]
    BY <1>0, <2>2, <2>3
  <2> QED
    BY <2>1, <2>3, <2>4, GiveUpStep
<1>2. CASE StoreForPush(t)
  <2>1. GivesUp(t, pos[t] + QueueSize) /\ Taking(t)
    <3>1. Taking(t) /\ Owns(t)
      BY <1>2 DEF StoreForPush, Owns, Taking
    <3>2. at'[t] = "idle"
      BY <1>0, <1>2 DEF StoreForPush, Return
    <3>3. Elsewhere(t)
      BY <1>a, <1>2 DEF StoreForPush, Return, Elsewhere
    <3> QED
      BY <3>1, <3>2, <3>3, <1>2 DEF StoreForPush, GivesUp, posVars
  <2>2. sequence[Cell(t)] = pos[t] + 1
    BY <2>1 DEF Inv, OwnersPlaced
  <2>3. PICK n \in Nat : n = pos[t] + QueueSize
    BY <1>0
  <2>4. n > sequence[Cell(t)]
    BY <1>0, <2>2, <2>3
  <2> QED
    BY <2>1, <2>3, <2>4, GiveUpStep
<1> QED
  BY <1>1, <1>2

-------------------------------------------------------------------------------
(* The invariant.                                                          *)

LEMMA InvStep == Inv /\ [Next]_vars => Inv'
<1> SUFFICES ASSUME Inv, [Next]_vars PROVE Inv'
  OBVIOUS
<1>0. Typed'
  BY TypeStep DEF Inv
<1>1. ASSUME NEW t \in Threads,
             \/ \E x \in Items : CallPush(t, x)
             \/ CallPop(t) \/ LoadEnqueuePos(t) \/ LoadDequeuePos(t)
             \/ LoadSequenceForPush(t) \/ LoadSequenceForPop(t)
             \/ PushFull(t) \/ PopEmpty(t) \/ MissPush(t) \/ MissPop(t)
      PROVE  Inv'
  <2>1. Quiet(t) /\ TriesCurrent'
    BY <1>1, QuietActions
  <2> QED
    BY <1>0, <2>1, QuietStep DEF Inv
<1>2. ASSUME NEW t \in Threads, Claim(t) PROVE Inv'
  BY <1>0, <1>2, ClaimPushStep, ClaimPopStep DEF Claim
<1>3. ASSUME NEW t \in Threads, WriteData(t) \/ MoveData(t) PROVE Inv'
  BY <1>0, <1>3, DataStep
<1>4. ASSUME NEW t \in Threads, StoreForPop(t) \/ StoreForPush(t) PROVE Inv'
  BY <1>0, <1>4, StoreStep
<1>5. CASE UNCHANGED vars
  <2> USE <1>5 DEF vars, cellVars, posVars, Inv
  <2>1. Positions' /\ SequencePassed'
    BY DEF Positions, SequencePassed
  <2>2. CellsTold'
    BY DEF CellsTold, FreeFor, StoredBefore, WrittenBefore, Storing, Taking
  <2>3. OwnersPlaced'
    BY DEF OwnersPlaced, Storing, Taking, Cell
  <2>4. OwnersDistinct' /\ TriesCurrent'
    BY DEF OwnersDistinct, TriesCurrent, Owns, Cell
  <2> QED
    BY <1>0, <2>1, <2>2, <2>3, <2>4
<1> QED
  BY <1>1, <1>2, <1>3, <1>4, <1>5 DEF Next, Advance

THEOREM Invariance == Spec => []Inv
<1>1. Init => Inv
  BY InitInv
<1>2. Inv /\ [Next]_vars => Inv'
  BY InvStep
<1> QED
  BY <1>1, <1>2, PTL DEF Spec

(* Type correctness: in particular a push in progress has an item, and a   *)
(* pop that has moved one out has what the cell held.                      *)
THEOREM TypeCorrect == Spec => []TypeOK
<1>1. Inv => TypeOK
  BY DEF Inv, Typed
<1> QED
  BY <1>1, Invariance, PTL

(* However pushes and pops of any number of threads interleave, and however*)
(* old the position a thread holds is, a cell's data has one user.         *)
THEOREM DataHasOneOwner == Spec => []OneOwner
<1>1. Inv => OneOwner
  BY OneCell DEF OneOwner
<1> QED
  BY <1>1, Invariance, PTL

-------------------------------------------------------------------------------
(* Where the items are.                                                    *)

LEMMA ContentsStep == Inv /\ Contents /\ [Next]_vars => Contents'
<1> SUFFICES ASSUME Inv, Contents, [Next]_vars PROVE Contents'
  OBVIOUS
<1> DEFINE e == m_enqueue_pos
           d == m_dequeue_pos
<1>0. /\ e \in Nat /\ d \in Nat /\ QueueSize \in Nat /\ QueueSize > 1
      /\ \A u \in Threads : pos[u] \in Nat /\ Cell(u) \in Cells
      /\ \A p \in Nat : p % QueueSize \in Cells
  BY TypeFacts DEF Inv, Typed
<1>t. /\ sequence \in [Cells -> Nat] /\ data \in [Cells -> Items \cup {"none"}]
      /\ at \in [Threads -> {"idle"} \cup PushAt \cup PopAt]
      /\ item \in [Threads -> Items \cup {"none"}] /\ pushed \in Seq(Items)
      /\ pos \in [Threads -> Nat]
  BY DEF Inv, Typed, TypeOK
<1>p. Len(pushed) = e /\ d <= e /\ e <= d + QueueSize
  BY DEF Inv, Positions
<1>1. ASSUME NEW t \in Threads,
             \/ \E x \in Items : CallPush(t, x)
             \/ CallPop(t) \/ LoadEnqueuePos(t) \/ LoadDequeuePos(t)
             \/ LoadSequenceForPush(t) \/ LoadSequenceForPop(t)
             \/ PushFull(t) \/ PopEmpty(t) \/ MissPush(t) \/ MissPop(t)
      PROVE  Contents'
  BY <1>1, QuietActions, QuietStep
<1>2. ASSUME NEW t \in Threads, ClaimForPush(t) PROVE Contents'
  <2>1. /\ UNCHANGED <<sequence, data, m_dequeue_pos, pos, item>>
        /\ at' = [at EXCEPT ![t] = "push data"]
    BY <1>2 DEF ClaimForPush, Goto, cellVars
  <2>2. m_enqueue_pos' = e + 1 /\ pushed' = Append(pushed, item[t])
    BY <1>2 DEF ClaimForPush
  <2>3. pos[t] = e /\ at[t] = "push cas"
    BY <1>2 DEF ClaimForPush
  <2>4. item[t] \in Items
    BY <2>3 DEF Inv, Typed, PushAt
  <2>5. pushed'[e + 1] = item[t] /\ \A i \in 1 .. e : pushed'[i] = pushed[i]
    <3>1. Len(pushed) = e /\ pushed \in Seq(Items) /\ pushed' = Append(pushed, item[t])
      BY <1>t, <1>p, <2>2
    <3> QED
      BY <2>4, <3>1
  <2>6. ASSUME NEW u \in Threads, Owns(u) PROVE pos[u] + 1 \in 1 .. e
    <3>1. pos[u] < e
      <4>1. CASE Storing(u)
        BY <4>1 DEF Inv, OwnersPlaced
      <4>2. CASE Taking(u)
        <5>1. pos[u] < d
          BY <4>2 DEF Inv, OwnersPlaced
        <5>2. pos[u] \in Nat /\ d \in Nat /\ e \in Nat /\ d <= e
          BY <1>0, <1>p
        <5> QED
          BY <5>1, <5>2
      <4> QED
        BY <2>6, <4>1, <4>2 DEF Owns, Storing, Taking
    <3> QED
      BY <1>0, <3>1
  <2>7. ASSUME NEW u \in Threads
        PROVE  Carried(u)'
    <3>1. CASE u = t
      <4>1. at'[t] = "push data"
        BY <1>t, <2>1
      <4>2. item'[t] = item[t] /\ pos'[t] = pos[t]
        BY <2>1
      <4> QED
        BY <2>3, <2>5, <3>1, <4>1, <4>2 DEF Carried
    <3>2. CASE u # t
      <4>1. at'[u] = at[u] /\ (Storing(u)' <=> Storing(u)) /\ Cell(u)' = Cell(u)
        BY <1>t, <2>1, <3>2 DEF Storing, Cell
      <4>2. Owns(u) => pushed'[pos[u] + 1] = pushed[pos[u] + 1]
        BY <2>5, <2>6
      <4>3. /\ Storing(u) => Owns(u)
            /\ at[u] \in {"push store", "pop data", "pop store"} => Owns(u)
        BY DEF Owns, Storing
      <4> QED
        BY <2>1, <4>1, <4>2, <4>3 DEF Contents, Carried
    <3> QED
      BY <3>1, <3>2
  <2>8. ASSUME NEW p \in d .. e, sequence[p % QueueSize] = p + 1
        PROVE  data[p % QueueSize] = pushed'[p + 1]
    <3>1. p # e
      <4>1. sequence[e % QueueSize] = e
        BY <2>3 DEF Inv, TriesCurrent, Cell
      <4> QED
        BY <1>0, <2>8, <4>1
    <3>2. p \in d .. e - 1 /\ p + 1 \in 1 .. e
      BY <1>0, <3>1
    <3> QED
      BY <2>5, <2>8, <3>2 DEF Contents
  <2>9. m_enqueue_pos' - 1 = e
    BY <1>0, <2>2
  <2> QED
    BY <2>1, <2>7, <2>8, <2>9 DEF Contents
<1>3. ASSUME NEW t \in Threads, ClaimForPop(t) PROVE Contents'
  <2>1. /\ UNCHANGED <<sequence, data, m_enqueue_pos, pos, item, pushed>>
        /\ at' = [at EXCEPT ![t] = "pop data"]
    BY <1>3 DEF ClaimForPop, Goto, cellVars
  <2>2. m_dequeue_pos' = d + 1
    BY <1>3 DEF ClaimForPop
  <2>3. pos[t] = d
    BY <1>3 DEF ClaimForPop
  <2>4. d < e /\ sequence[d % QueueSize] = d + 1
    BY <1>3, ClaimPopStep, TypeStep DEF Inv
  <2>5. data[Cell(t)] = pushed[pos[t] + 1]
    <3>1. d \in d .. e - 1
      BY <1>0, <2>4
    <3> QED
      BY <2>3, <2>4, <3>1 DEF Contents, Cell
  <2>6. \A u \in Threads : /\ u # t => at'[u] = at[u]
                           /\ u = t => at'[u] = "pop data"
                           /\ Cell(u)' = Cell(u)
    BY <1>t, <2>1 DEF Cell
  <2>7. \A u \in Threads : Storing(u)' => Storing(u) /\ u # t
    BY <2>6 DEF Storing
  <2>8. \A p \in d + 1 .. e - 1 : p \in d .. e - 1
    BY <1>0
  <2>9. ASSUME NEW u \in Threads PROVE Carried(u)'
    <3>1. CASE u = t
      BY <2>1, <2>5, <2>6, <2>7, <3>1 DEF Carried
    <3>2. CASE u # t
      <4>1. Carried(u)
        BY DEF Contents
      <4>2. /\ at'[u] = at[u] /\ Cell(u)' = Cell(u) /\ (Storing(u)' => Storing(u))
            /\ data' = data /\ pos' = pos /\ item' = item /\ pushed' = pushed
        BY <2>1, <2>6, <2>7, <3>2
      <4> QED
        BY <4>1, <4>2 DEF Carried
    <3> QED
      BY <3>1, <3>2
  <2> QED
    BY <2>1, <2>2, <2>8, <2>9 DEF Contents
<1>4. ASSUME NEW t \in Threads, WriteData(t) PROVE Contents'
  <2>1. /\ UNCHANGED <<sequence, m_enqueue_pos, m_dequeue_pos, pos, item, pushed>>
        /\ at[t] = "push data" /\ at' = [at EXCEPT ![t] = "push store"]
        /\ data' = [data EXCEPT ![Cell(t)] = item[t]]
    BY <1>4 DEF WriteData, Goto, posVars
  <2>2. \A u \in Threads : /\ u # t => at'[u] = at[u]
                           /\ u = t => at'[u] = "push store"
                           /\ Cell(u)' = Cell(u)
                           /\ Storing(u)' <=> Storing(u)
    BY <1>t, <2>1 DEF Cell, Storing
  <2>3. Storing(t) /\ Owns(t)
    BY <2>1 DEF Storing, Owns
  <2>4. data'[Cell(t)] = pushed[pos[t] + 1]
    BY <1>0, <1>t, <2>1, <2>3 DEF Contents, Carried
  <2>5. ASSUME NEW u \in Threads, u # t, at[u] \in {"push store", "pop data"}
        PROVE  data'[Cell(u)] = data[Cell(u)]
    <3>1. Cell(u) # Cell(t)
      BY <2>3, <2>5, OneCell DEF Owns
    <3> QED
      BY <1>0, <1>t, <2>1, <3>1
  <2>6. ASSUME NEW p \in d .. e - 1, sequence[p % QueueSize] = p + 1
        PROVE  data'[p % QueueSize] = pushed[p + 1]
    <3>0. p \in Nat /\ p >= d /\ p < e
      BY <1>0
    <3>1. ASSUME p % QueueSize = Cell(t) PROVE FALSE
      <4>1. d <= pos[t] /\ pos[t] < e /\ sequence[Cell(t)] = pos[t]
        BY <2>3 DEF Inv, OwnersPlaced
      <4>2. pos[t] = p + 1
        BY <2>6, <3>1, <4>1
      <4>3. p <= pos[t] /\ pos[t] < p + QueueSize /\ pos[t] # p
        BY <1>0, <3>0, <4>2
      <4> QED
        BY <1>0, <3>0, <3>1, <4>3, SameCell DEF Cell
    <3>2. data'[p % QueueSize] = data[p % QueueSize]
      BY <1>0, <1>t, <2>1, <3>0, <3>1
    <3> QED
      BY <2>6, <3>2 DEF Contents
  <2>7. ASSUME NEW u \in Threads PROVE Carried(u)'
    <3>0. Carried(u)
      BY DEF Contents
    <3>1. CASE u = t
      BY <2>1, <2>2, <2>3, <2>4, <3>0, <3>1 DEF Carried
    <3>2. CASE u # t
      <4>1. /\ at'[u] = at[u] /\ Cell(u)' = Cell(u) /\ (Storing(u)' <=> Storing(u))
            /\ pos' = pos /\ item' = item /\ pushed' = pushed
        BY <2>1, <2>2, <3>2
      <4>2. at[u] \in {"push store", "pop data"} => data'[Cell(u)] = data[Cell(u)]
        BY <2>5, <3>2
      <4> QED
        BY <3>0, <4>1, <4>2 DEF Carried
    <3> QED
      BY <3>1, <3>2
  <2> QED
    BY <2>1, <2>6, <2>7 DEF Contents
<1>5. ASSUME NEW t \in Threads, MoveData(t) PROVE Contents'
  <2>1. /\ UNCHANGED <<sequence, m_enqueue_pos, m_dequeue_pos, pos, pushed>>
        /\ at[t] = "pop data" /\ at' = [at EXCEPT ![t] = "pop store"]
        /\ data' = [data EXCEPT ![Cell(t)] = "none"]
        /\ item' = [item EXCEPT ![t] = data[Cell(t)]]
    BY <1>5 DEF MoveData, Goto, posVars
  <2>2. \A u \in Threads : /\ u # t => at'[u] = at[u] /\ item'[u] = item[u]
                           /\ u = t => at'[u] = "pop store"
                           /\ Cell(u)' = Cell(u)
                           /\ Storing(u)' <=> Storing(u)
    BY <1>t, <2>1 DEF Cell, Storing
  <2>3. Taking(t) /\ Owns(t)
    BY <2>1 DEF Taking, Owns
  <2>4. item'[t] = pushed[pos[t] + 1]
    BY <1>t, <2>1 DEF Contents, Carried
  <2>5. ASSUME NEW u \in Threads, u # t, at[u] \in {"push store", "pop data"}
        PROVE  data'[Cell(u)] = data[Cell(u)]
    <3>1. Cell(u) # Cell(t)
      BY <2>3, <2>5, OneCell DEF Owns
    <3> QED
      BY <1>0, <1>t, <2>1, <3>1
  <2>6. ASSUME NEW p \in d .. e - 1, sequence[p % QueueSize] = p + 1
        PROVE  data'[p % QueueSize] = pushed[p + 1]
    <3>0. p \in Nat /\ p >= d /\ p < e
      BY <1>0
    <3>1. ASSUME p % QueueSize = Cell(t) PROVE FALSE
      <4>1. pos[t] < d /\ sequence[Cell(t)] = pos[t] + 1
        BY <2>3 DEF Inv, OwnersPlaced
      <4>2. p = pos[t]
        BY <1>0, <2>6, <3>0, <3>1, <4>1
      <4> QED
        BY <1>0, <3>0, <4>1, <4>2
    <3>2. data'[p % QueueSize] = data[p % QueueSize]
      BY <1>0, <1>t, <2>1, <3>0, <3>1
    <3> QED
      BY <2>6, <3>2 DEF Contents
  <2>7. ~ Storing(t)
    BY <2>1 DEF Storing
  <2>8. ASSUME NEW u \in Threads PROVE Carried(u)'
    <3>1. CASE u = t
      BY <2>1, <2>2, <2>4, <2>7, <3>1 DEF Carried
    <3>2. CASE u # t
      <4>1. /\ at'[u] = at[u] /\ item'[u] = item[u] /\ Cell(u)' = Cell(u)
            /\ pos'[u] = pos[u] /\ (Storing(u)' <=> Storing(u)) /\ pushed' = pushed
            /\ at[u] \in {"push store", "pop data"} => data'[Cell(u)] = data[Cell(u)]
        BY <2>1, <2>2, <2>5, <3>2
      <4> QED
        BY <4>1 DEF Contents, Carried
    <3> QED
      BY <3>1, <3>2
  <2> QED
    BY <2>1, <2>6, <2>8 DEF Contents
<1>6. ASSUME NEW t \in Threads, StoreForPop(t) \/ StoreForPush(t) PROVE Contents'
  <2>1. /\ UNCHANGED <<data, m_enqueue_pos, m_dequeue_pos, pushed>>
        /\ at'[t] = "idle"
        /\ \A u \in Threads \ {t} : at'[u] = at[u] /\ pos'[u] = pos[u] /\ item'[u] = item[u]
    BY <1>6, <1>t DEF StoreForPop, StoreForPush, Return, posVars
  <2>2. \A u \in Threads : /\ Storing(u)' => Storing(u) /\ u # t
                           /\ u # t => Cell(u)' = Cell(u)
    BY <2>1 DEF Storing, Cell
  <2>3. ASSUME NEW p \in d .. e - 1, sequence'[p % QueueSize] = p + 1
        PROVE  data[p % QueueSize] = pushed[p + 1]
    <3>0. p \in Nat /\ p >= d /\ p < e /\ p % QueueSize \in Cells
      BY <1>0
    <3>1. CASE sequence'[p % QueueSize] = sequence[p % QueueSize]
      BY <2>3, <3>1 DEF Contents
    <3>2. CASE StoreForPop(t) /\ p % QueueSize = Cell(t)
      <4>1. at[t] = "push store"
        BY <3>2 DEF StoreForPop
      <4>2. sequence'[Cell(t)] = pos[t] + 1
        BY <1>0, <1>t, <3>2 DEF StoreForPop
      <4>3. p = pos[t]
        BY <1>0, <2>3, <3>0, <3>2, <4>2
      <4> QED
        BY <3>2, <4>1, <4>3 DEF Contents, Carried
    <3>3. CASE StoreForPush(t) /\ p % QueueSize = Cell(t)
      <4>1. Taking(t)
        BY <3>3 DEF StoreForPush, Taking
      <4>2. sequence'[Cell(t)] = pos[t] + QueueSize
        BY <1>0, <1>t, <3>3 DEF StoreForPush
      <4>3. p + 1 = pos[t] + QueueSize
        BY <2>3, <3>3, <4>2
      <4>4. pos[t] < d
        BY <4>1 DEF Inv, OwnersPlaced
      <4>5. pos[t] <= p /\ p < pos[t] + QueueSize /\ pos[t] # p
        BY <1>0, <3>0, <4>3, <4>4
      <4> QED
        BY <1>0, <3>0, <3>3, <4>5, SameCell DEF Cell
    <3> QED
      BY <1>0, <1>6, <1>t, <3>0, <3>1, <3>2, <3>3 DEF StoreForPop, StoreForPush
  <2>4. ASSUME NEW u \in Threads PROVE Carried(u)'
    <3>1. CASE u = t
      BY <2>1, <2>2, <3>1 DEF Carried
    <3>2. CASE u # t
      <4>1. Carried(u)
        BY DEF Contents
      <4>2. /\ at'[u] = at[u] /\ pos'[u] = pos[u] /\ item'[u] = item[u]
            /\ Cell(u)' = Cell(u) /\ (Storing(u)' => Storing(u))
            /\ data' = data /\ pushed' = pushed
        BY <2>1, <2>2, <3>2
      <4> QED
        BY <4>1, <4>2 DEF Carried
    <3> QED
      BY <3>1, <3>2
  <2>5. m_enqueue_pos' - 1 = e - 1 /\ m_dequeue_pos' = d /\ data' = data /\ pushed' = pushed
    BY <2>1
  <2> QED
    BY <2>3, <2>4, <2>5 DEF Contents
<1>7. CASE UNCHANGED vars
  BY <1>7 DEF vars, cellVars, posVars, Contents, Carried, Storing, Cell
<1> QED
  BY <1>1, <1>2, <1>3, <1>4, <1>5, <1>6, <1>7 DEF Next, Advance, Claim

-------------------------------------------------------------------------------
(* The bound of the model leaves a position to every push under way.       *)

LEMMA UnclaimedFinite ==
  IsFiniteSet(Unclaimed) /\ Cardinality(Unclaimed) \in Nat
<1>1. Unclaimed \subseteq Threads /\ IsFiniteSet(Threads)
  BY MPMCQueueAssumption DEF Unclaimed
<1>2. IsFiniteSet(Unclaimed)
  BY <1>1, FS_Subset
<1> QED
  BY <1>2, FS_CardinalityType

LEMMA InitBudget == Init => Budget
<1> SUFFICES ASSUME Init PROVE Budget
  OBVIOUS
<1>1. Unclaimed = {}
  BY DEF Init, Unclaimed
<1>2. Cardinality(Unclaimed) = 0
  BY <1>1, FS_EmptySet
<1>3. m_enqueue_pos = 0
  BY DEF Init
<1> QED
  BY <1>2, <1>3, MPMCQueueAssumption DEF Budget

LEMMA BudgetStep == Typed /\ Budget /\ [Next]_vars => Budget'
<1> SUFFICES ASSUME Typed, Budget, [Next]_vars PROVE Budget'
  OBVIOUS
<1> DEFINE e == m_enqueue_pos
<1>0. /\ e \in Nat /\ MaxPush \in Nat
      /\ at \in [Threads -> {"idle"} \cup PushAt \cup PopAt]
  BY MPMCQueueAssumption DEF Typed, TypeOK
<1>b. /\ e + Cardinality(Unclaimed) <= MaxPush
      /\ Cardinality(Unclaimed) \in Nat /\ IsFiniteSet(Unclaimed)
  BY UnclaimedFinite DEF Budget
<1>1. ASSUME NEW t \in Threads, NEW x \in Items, CallPush(t, x) PROVE Budget'
  <2>1. Unclaimed' = Unclaimed \cup {t} /\ t \notin Unclaimed
    BY <1>0, <1>1 DEF CallPush, Goto, Unclaimed
  <2>2. Cardinality(Unclaimed') = Cardinality(Unclaimed) + 1
    BY <1>b, <2>1, FS_AddElement
  <2>3. e + Cardinality(Unclaimed) < MaxPush /\ m_enqueue_pos' = e
    BY <1>1 DEF CallPush, posVars
  <2>4. e + (Cardinality(Unclaimed) + 1) <= MaxPush
    BY <1>0, <1>b, <2>3
  <2> QED
    BY <2>2, <2>3, <2>4 DEF Budget
<1>2. ASSUME NEW t \in Threads, ClaimForPush(t) PROVE Budget'
  <2>1. Unclaimed' = Unclaimed \ {t} /\ t \in Unclaimed
    BY <1>0, <1>2 DEF ClaimForPush, Goto, Unclaimed
  <2>2. Cardinality(Unclaimed') = Cardinality(Unclaimed) - 1
    BY <1>b, <2>1, FS_RemoveElement
  <2>3. m_enqueue_pos' = e + 1
    BY <1>2 DEF ClaimForPush
  <2>4. (e + 1) + (Cardinality(Unclaimed) - 1) <= MaxPush
    BY <1>0, <1>b
  <2> QED
    BY <2>2, <2>3, <2>4 DEF Budget
<1>3. ASSUME m_enqueue_pos' = e, Unclaimed' \subseteq Unclaimed PROVE Budget'
  <2>1. /\ Cardinality(Unclaimed') <= Cardinality(Unclaimed)
        /\ IsFiniteSet(Unclaimed')
    BY <1>b, <1>3, FS_Subset
  <2>2. Cardinality(Unclaimed') \in Nat
    BY <2>1, FS_CardinalityType
  <2>3. e + Cardinality(Unclaimed') <= MaxPush
    BY <1>0, <1>b, <2>1, <2>2
  <2> QED
    BY <1>3, <2>3 DEF Budget
<1>4. ASSUME NEW t \in Threads, CallPop(t) \/ ClaimForPop(t) \/ Advance(t)
      PROVE  m_enqueue_pos' = e /\ Unclaimed' \subseteq Unclaimed
  <2> USE <1>0 DEF Goto, Return, posVars, Unclaimed
  <2>1. CASE CallPop(t) \/ ClaimForPop(t)
    BY <2>1 DEF CallPop, ClaimForPop
  <2>2. CASE LoadEnqueuePos(t) \/ LoadDequeuePos(t) \/ MissPush(t) \/ MissPop(t)
    BY <2>2 DEF LoadEnqueuePos, LoadDequeuePos, MissPush, MissPop
  <2>3. CASE LoadSequenceForPush(t) \/ LoadSequenceForPop(t)
    BY <2>3 DEF LoadSequenceForPush, LoadSequenceForPop
  <2>4. CASE PushFull(t) \/ PopEmpty(t) \/ StoreForPop(t) \/ StoreForPush(t)
    BY <2>4 DEF PushFull, PopEmpty, StoreForPop, StoreForPush
  <2>5. CASE WriteData(t) \/ MoveData(t)
    BY <2>5 DEF WriteData, MoveData
  <2> QED
    BY <1>4, <2>1, <2>2, <2>3, <2>4, <2>5 DEF Advance
<1>5. CASE UNCHANGED vars
  BY <1>5 DEF vars, posVars, Budget, Unclaimed
<1> QED
  BY <1>1, <1>2, <1>3, <1>4, <1>5 DEF Next, Claim

LEMMA PushHasRoom ==
  ASSUME Typed, Budget, NEW t \in Unclaimed
  PROVE  m_enqueue_pos < MaxPush
<1>2. Cardinality(Unclaimed) # 0
  BY UnclaimedFinite, FS_EmptySet
<1>3. m_enqueue_pos \in Nat /\ MaxPush \in Nat
  BY MPMCQueueAssumption DEF Typed, TypeOK
<1>4. m_enqueue_pos + Cardinality(Unclaimed) <= MaxPush
  BY DEF Budget
<1>5. PICK n \in Nat : n = Cardinality(Unclaimed)
  BY UnclaimedFinite
<1>6. n # 0 /\ m_enqueue_pos + n <= MaxPush
  BY <1>2, <1>4, <1>5
<1> QED
  BY <1>3, <1>6

-------------------------------------------------------------------------------
(* The queue implements BoundedQueue.                                      *)

StoringPlace == [t \in Threads |-> Place(t, {"push data", "push store"})]
TakingPlace == [t \in Threads |-> Place(t, {"pop data", "pop store"})]

LEMMA Places ==
  ASSUME NEW t \in Threads
  PROVE  /\ Storing(t) => StoringPlace[t] = pos[t] + 1
         /\ ~ Storing(t) => StoringPlace[t] = 0
         /\ Taking(t) => TakingPlace[t] = pos[t] + 1
         /\ ~ Taking(t) => TakingPlace[t] = 0
BY DEF StoringPlace, TakingPlace, Place, Storing, Taking

LEMMA PlacesNext ==
  ASSUME NEW t \in Threads
  PROVE  /\ Storing(t)' => StoringPlace'[t] = pos'[t] + 1
         /\ ~ Storing(t)' => StoringPlace'[t] = 0
         /\ Taking(t)' => TakingPlace'[t] = pos'[t] + 1
         /\ ~ Taking(t)' => TakingPlace'[t] = 0
BY DEF StoringPlace, TakingPlace, Place, Storing, Taking

(* A step that leaves the places of all owners alone.                      *)
LEMMA SamePlaces ==
  ASSUME \A t \in Threads : /\ Storing(t)' <=> Storing(t)
                            /\ Taking(t)' <=> Taking(t)
                            /\ Storing(t) \/ Taking(t) => pos'[t] = pos[t]
  PROVE  StoringPlace' = StoringPlace /\ TakingPlace' = TakingPlace
<1>1. \A t \in Threads : StoringPlace'[t] = StoringPlace[t] /\ TakingPlace'[t] = TakingPlace[t]
  BY Places, PlacesNext
<1> QED
  BY <1>1 DEF StoringPlace, TakingPlace

LEMMA QuietPlaces ==
  ASSUME NEW t \in Threads, Quiet(t)
  PROVE  StoringPlace' = StoringPlace /\ TakingPlace' = TakingPlace
<1>1. \A u \in Threads : /\ Storing(u)' <=> Storing(u)
                         /\ Taking(u)' <=> Taking(u)
                         /\ Storing(u) \/ Taking(u) => pos'[u] = pos[u]
  BY DEF Quiet, Elsewhere, Storing, Taking, Owns
<1> QED
  BY <1>1, SamePlaces

(* A position's cell is full for a push at the current position exactly    *)
(* when the sequence number is behind, and stored for a pop exactly when   *)
(* it is one ahead.                                                        *)
FullAt(p) == p > 0 /\ (p > m_dequeue_pos \/ \E t \in Threads : TakingPlace[t] = p)

LEMMA FullWhenBehind ==
  ASSUME Inv, NEW t \in Threads, pos[t] <= m_enqueue_pos,
         sequence[Cell(t)] < pos[t]
  PROVE  FullAt(m_enqueue_pos + 1 - QueueSize)
<1> DEFINE e == m_enqueue_pos
           d == m_dequeue_pos
<1>0. /\ e \in Nat /\ d \in Nat /\ QueueSize \in Nat /\ QueueSize > 1
      /\ pos[t] \in Nat
  BY TypeFacts DEF Inv, Typed
<1>s. PICK s \in Nat : s = sequence[Cell(t)]
  BY TypeFacts DEF Inv, Typed, Cell
<1>1. pos[t] = e
  <2>2. pos[t] \in 0 .. e - 1 => s >= pos[t]
    BY <1>s DEF Inv, SequencePassed, Cell
  <2>3. s < pos[t]
    BY <1>s
  <2> QED
    BY <1>0, <2>2, <2>3
<1>2. s < e /\ sequence[e % QueueSize] = s
  BY <1>1, <1>s DEF Cell
<1>3. e \in e .. e + QueueSize - 1
  BY <1>0
<1>4. StoredBefore(e) \/ WrittenBefore(e)
  <2>1. FreeFor(e) \/ StoredBefore(e) \/ WrittenBefore(e)
    BY <1>3 DEF Inv, CellsTold
  <2>2. ~ FreeFor(e)
    <3>1. s # e
      BY <1>0, <1>2
    <3> QED
      BY <1>2, <3>1 DEF FreeFor
  <2> QED
    BY <2>1, <2>2
<1>5. e >= QueueSize
  BY <1>4 DEF StoredBefore, WrittenBefore
<1>6. PICK p \in Nat : p = e + 1 - QueueSize
  BY <1>0, <1>5
<1>7. p > 0
  BY <1>0, <1>5, <1>6
<1>8. CASE e >= d + QueueSize
  <2>1. p > d
    BY <1>0, <1>6, <1>8
  <2> QED
    BY <1>6, <1>7, <2>1 DEF FullAt
<1>9. CASE \E u \in Threads : Taking(u) /\ pos[u] = e - QueueSize
  <2>1. PICK u \in Threads : Taking(u) /\ pos[u] = e - QueueSize
    BY <1>9
  <2>2. TakingPlace[u] = pos[u] + 1
    BY <2>1, Places
  <2>3. (e - QueueSize) + 1 = p
    BY <1>0, <1>6
  <2> QED
    BY <1>6, <1>7, <2>1, <2>2, <2>3 DEF FullAt
<1>10. CASE \E u \in Threads : Storing(u) /\ pos[u] = e - QueueSize
  <2>1. d <= e - QueueSize
    BY <1>10 DEF Inv, OwnersPlaced
  <2> QED
    BY <1>0, <1>8, <2>1
<1> QED
  BY <1>4, <1>8, <1>9, <1>10 DEF StoredBefore, WrittenBefore

LEMMA NotFullWhenFree ==
  ASSUME Inv, FreeFor(m_enqueue_pos)
  PROVE  ~ FullAt(m_enqueue_pos + 1 - QueueSize)
<1> DEFINE e == m_enqueue_pos
           d == m_dequeue_pos
<1>0. e \in Nat /\ d \in Nat /\ QueueSize \in Nat /\ QueueSize > 1
  BY TypeFacts DEF Inv, Typed
<1>1. e < d + QueueSize /\ sequence[e % QueueSize] = e
  BY DEF FreeFor
<1>2. PICK p \in Int : p = e + 1 - QueueSize
  BY <1>0
<1>3. ~ (p > d)
  BY <1>0, <1>1, <1>2
<1>4. ASSUME NEW u \in Threads, TakingPlace[u] = p, p > 0 PROVE FALSE
  <2>1. Taking(u) /\ p = pos[u] + 1
    BY <1>2, <1>4, Places
  <2>2. pos[u] \in Nat
    BY TypeFacts DEF Inv, Typed
  <2>3. e = pos[u] + QueueSize
    BY <1>0, <1>2, <2>1, <2>2
  <2>4. Cell(u) = e % QueueSize
    BY <2>2, <2>3, NextRound DEF Cell
  <2>5. sequence[Cell(u)] = pos[u] + 1
    BY <2>1 DEF Inv, OwnersPlaced
  <2>6. e = pos[u] + 1
    BY <1>1, <2>4, <2>5
  <2> QED
    BY <1>0, <2>2, <2>3, <2>6
<1> QED
  BY <1>2, <1>3, <1>4 DEF FullAt

ReadyNow ==
  /\ m_dequeue_pos < m_enqueue_pos
  /\ \A t \in Threads : StoringPlace[t] # m_dequeue_pos + 1

LEMMA NotReadyWhenBehind ==
  ASSUME Inv, NEW t \in Threads, pos[t] <= m_dequeue_pos,
         sequence[Cell(t)] < pos[t] + 1
  PROVE  ~ ReadyNow
<1> DEFINE e == m_enqueue_pos
           d == m_dequeue_pos
<1>0. /\ e \in Nat /\ d \in Nat /\ QueueSize \in Nat /\ QueueSize > 1
      /\ pos[t] \in Nat
  BY TypeFacts DEF Inv, Typed
<1>s. PICK s \in Nat : s = sequence[Cell(t)]
  BY TypeFacts DEF Inv, Typed, Cell
<1>p. e <= d + QueueSize
  BY DEF Inv, Positions
<1>1. pos[t] = d
  <2>2. pos[t] \in 0 .. d - 1 => s >= pos[t] + 1
    BY <1>s DEF Inv, SequencePassed, Cell
  <2>3. s < pos[t] + 1
    BY <1>s
  <2> QED
    BY <1>0, <2>2, <2>3
<1>3. s < d + 1
  BY <1>1, <1>s
<1>4. ASSUME d < e PROVE \E u \in Threads : StoringPlace[u] = d + 1
  <2>1. PICK q \in Nat : q = d + QueueSize
    BY <1>0
  <2>2. q \in e .. e + QueueSize - 1 /\ q - QueueSize = d
    BY <1>0, <1>4, <1>p, <2>1
  <2>3. q % QueueSize = Cell(t)
    BY <1>0, <1>1, <2>1, NextRound DEF Cell
  <2>4. FreeFor(q) \/ StoredBefore(q) \/ WrittenBefore(q)
    BY <2>2 DEF Inv, CellsTold
  <2>5. ~ FreeFor(q)
    <3>1. ~ (q < d + QueueSize)
      BY <1>0, <2>1
    <3> QED
      BY <3>1 DEF FreeFor
  <2>6. ~ StoredBefore(q)
    <3>1. s # q - QueueSize + 1
      BY <1>0, <1>3, <2>1
    <3> QED
      BY <1>s, <2>3, <3>1 DEF StoredBefore
  <2>7. PICK u \in Threads : Storing(u) /\ pos[u] = d
    BY <2>2, <2>4, <2>5, <2>6 DEF WrittenBefore
  <2> QED
    BY <2>7, Places
<1> QED
  BY <1>4 DEF ReadyNow

LEMMA ReadyWhenStored ==
  ASSUME Inv, m_dequeue_pos < m_enqueue_pos,
         sequence[m_dequeue_pos % QueueSize] = m_dequeue_pos + 1
  PROVE  ReadyNow
<1> DEFINE d == m_dequeue_pos
<1>0. d \in Nat
  BY TypeFacts DEF Inv, Typed
<1>1. ASSUME NEW u \in Threads, StoringPlace[u] = d + 1 PROVE FALSE
  <2>0. pos[u] \in Nat
    BY TypeFacts DEF Inv, Typed
  <2>1. Storing(u) /\ pos[u] + 1 = d + 1
    BY <1>0, <1>1, Places
  <2>2. pos[u] = d
    BY <1>0, <2>0, <2>1
  <2>3. sequence[d % QueueSize] = d
    BY <2>1, <2>2 DEF Inv, OwnersPlaced, Cell
  <2> QED
    BY <1>0, <2>3
<1> QED
  BY <1>1 DEF ReadyNow

LEMMA StepImplements ==
  Inv /\ Inv' /\ Contents /\ Budget /\ [Next]_vars =>
    [Abstract!QueueNext]_(Abstract!queueVars)
<1> SUFFICES ASSUME Inv, Inv', Contents, Budget, [Next]_vars
             PROVE  [Abstract!QueueNext]_(Abstract!queueVars)
  OBVIOUS
<1> DEFINE e == m_enqueue_pos
           d == m_dequeue_pos
<1>0. e \in Nat /\ d \in Nat /\ QueueSize \in Nat
  BY TypeFacts DEF Inv, Typed
<1>t. /\ at \in [Threads -> {"idle"} \cup PushAt \cup PopAt]
      /\ item \in [Threads -> Items \cup {"none"}] /\ pushed \in Seq(Items)
      /\ pos \in [Threads -> Nat]
      /\ outcome \in [Threads -> Items \cup {"none", "pushed", "full", "empty"}]
  BY DEF Inv, Typed, TypeOK
<1>p. Len(pushed) = e
  BY DEF Inv, Positions
<1>r. \A t \in Threads : ~ Owns(t) => Abstract!Resting(t)
  BY Places DEF Abstract!Resting, StoringPlace, TakingPlace, Owns, Storing, Taking
<1>f. Abstract!Full <=> FullAt(e + 1 - QueueSize)
  BY <1>p DEF Abstract!Full, FullAt, TakingPlace
<1>y. Abstract!Ready <=> ReadyNow
  BY <1>p DEF Abstract!Ready, ReadyNow, StoringPlace
<1>1. ASSUME NEW t \in Threads,
             \/ \E x \in Items : CallPush(t, x)
             \/ CallPop(t) \/ LoadEnqueuePos(t) \/ LoadDequeuePos(t)
             \/ LoadSequenceForPush(t) \/ LoadSequenceForPop(t)
             \/ MissPush(t) \/ MissPop(t)
      PROVE  UNCHANGED Abstract!queueVars
  <2>1. Quiet(t)
    BY <1>1, QuietActions
  <2>2. StoringPlace' = StoringPlace /\ TakingPlace' = TakingPlace
    BY <2>1, QuietPlaces
  <2>3. UNCHANGED <<pushed, m_dequeue_pos>>
    BY <2>1 DEF Quiet
  <2>4. outcome' = outcome
    BY <1>1 DEF CallPush, CallPop, LoadEnqueuePos, LoadDequeuePos, MissPush, MissPop,
           LoadSequenceForPush, LoadSequenceForPop
  <2> QED
    BY <2>2, <2>3, <2>4 DEF Abstract!queueVars, StoringPlace, TakingPlace
<1>2. ASSUME NEW t \in Threads, PushFull(t) PROVE Abstract!RefusedFull(t)
  <2>1. Quiet(t)
    BY <1>2, QuietActions
  <2>2. StoringPlace' = StoringPlace /\ TakingPlace' = TakingPlace
    BY <2>1, QuietPlaces
  <2>3. UNCHANGED <<pushed, m_dequeue_pos>> /\ ~ Owns(t)
    BY <2>1 DEF Quiet
  <2>4. outcome' = [outcome EXCEPT ![t] = "full"]
    BY <1>2 DEF PushFull, Return
  <2>5. at[t] = "push seq" /\ sequence[Cell(t)] < pos[t]
    BY <1>2 DEF PushFull
  <2>6. pos[t] <= m_enqueue_pos
    BY <2>5 DEF Inv, TriesCurrent
  <2>7. FullAt(e + 1 - QueueSize)
    BY <2>5, <2>6, FullWhenBehind
  <2> QED
    BY <1>f, <1>r, <2>2, <2>3, <2>4, <2>7
       DEF Abstract!RefusedFull, StoringPlace, TakingPlace
<1>3. ASSUME NEW t \in Threads, PopEmpty(t) PROVE Abstract!FoundEmpty(t)
  <2>1. Quiet(t)
    BY <1>3, QuietActions
  <2>2. StoringPlace' = StoringPlace /\ TakingPlace' = TakingPlace
    BY <2>1, QuietPlaces
  <2>3. UNCHANGED <<pushed, m_dequeue_pos>> /\ ~ Owns(t)
    BY <2>1 DEF Quiet
  <2>4. outcome' = [outcome EXCEPT ![t] = "empty"]
    BY <1>3 DEF PopEmpty, Return
  <2>5. at[t] = "pop seq" /\ sequence[Cell(t)] < pos[t] + 1
    BY <1>3 DEF PopEmpty
  <2>6. pos[t] <= m_dequeue_pos
    BY <2>5 DEF Inv, TriesCurrent
  <2>7. ~ ReadyNow
    BY <2>5, <2>6, NotReadyWhenBehind
  <2> QED
    BY <1>y, <1>r, <2>2, <2>3, <2>4, <2>7
       DEF Abstract!FoundEmpty, StoringPlace, TakingPlace
<1>4. ASSUME NEW t \in Threads, ClaimForPush(t)
      PROVE  \E x \in Items : Abstract!ClaimForPush(t, x)
  <2>1. FreeFor(e)
    BY <1>4, ClaimPushStep DEF Inv
  <2>2. ~ FullAt(e + 1 - QueueSize)
    BY <2>1, NotFullWhenFree
  <2>3. /\ UNCHANGED <<m_dequeue_pos, outcome, pos>> /\ pushed' = Append(pushed, item[t])
        /\ at[t] = "push cas" /\ at' = [at EXCEPT ![t] = "push data"]
    BY <1>4 DEF ClaimForPush, Goto
  <2>4. item[t] \in Items
    BY <2>3 DEF Inv, Typed, PushAt
  <2>5. t \in Unclaimed /\ ~ Owns(t)
    BY <2>3 DEF Unclaimed, Owns
  <2>6. Len(pushed) < MaxPush
    BY <1>p, <2>5, PushHasRoom DEF Inv
  <2>7. pos[t] = e
    BY <1>4 DEF ClaimForPush
  <2>8. \A u \in Threads : /\ Storing(u)' <=> Storing(u) \/ u = t
                           /\ Taking(u)' <=> Taking(u)
    BY <1>t, <2>3 DEF Storing, Taking
  <2>9. TakingPlace' = TakingPlace
    <3>1. \A u \in Threads : TakingPlace'[u] = TakingPlace[u]
      BY <2>3, <2>8, Places, PlacesNext
    <3> QED
      BY <3>1 DEF TakingPlace
  <2>10. StoringPlace' = [StoringPlace EXCEPT ![t] = Len(pushed) + 1]
    <3>1. \A u \in Threads :
            StoringPlace'[u] = IF u = t THEN Len(pushed) + 1 ELSE StoringPlace[u]
      BY <1>p, <2>3, <2>7, <2>8, Places, PlacesNext
    <3> QED
      BY <3>1 DEF StoringPlace
  <2>11. Abstract!ClaimForPush(t, item[t])
    BY <1>f, <1>r, <2>2, <2>3, <2>5, <2>6, <2>9, <2>10
       DEF Abstract!ClaimForPush, StoringPlace, TakingPlace
  <2> QED
    BY <2>4, <2>11
<1>5. ASSUME NEW t \in Threads, ClaimForPop(t) PROVE Abstract!ClaimForPop(t)
  <2>1. d < e /\ sequence[d % QueueSize] = d + 1
    BY <1>5, ClaimPopStep DEF Inv
  <2>2. ReadyNow
    BY <2>1, ReadyWhenStored
  <2>3. /\ UNCHANGED <<pushed, outcome, pos>>
        /\ at[t] = "pop cas" /\ at' = [at EXCEPT ![t] = "pop data"]
    BY <1>5 DEF ClaimForPop, Goto
  <2>4. m_dequeue_pos' = d + 1
    BY <1>5 DEF ClaimForPop
  <2>5. ~ Owns(t)
    BY <2>3 DEF Owns
  <2>7. pos[t] = d
    BY <1>5 DEF ClaimForPop
  <2>8. \A u \in Threads : /\ Storing(u)' <=> Storing(u)
                           /\ Taking(u)' <=> Taking(u) \/ u = t
    BY <1>t, <2>3 DEF Storing, Taking
  <2>9. StoringPlace' = StoringPlace
    <3>1. \A u \in Threads : StoringPlace'[u] = StoringPlace[u]
      BY <2>3, <2>8, Places, PlacesNext
    <3> QED
      BY <3>1 DEF StoringPlace
  <2>10. TakingPlace' = [TakingPlace EXCEPT ![t] = d + 1]
    <3>1. \A u \in Threads :
            TakingPlace'[u] = IF u = t THEN d + 1 ELSE TakingPlace[u]
      BY <2>3, <2>7, <2>8, Places, PlacesNext
    <3> QED
      BY <3>1 DEF TakingPlace
  <2> QED
    BY <1>y, <1>r, <2>2, <2>3, <2>4, <2>5, <2>9, <2>10
       DEF Abstract!ClaimForPop, StoringPlace, TakingPlace
<1>6. ASSUME NEW t \in Threads, WriteData(t) \/ MoveData(t)
      PROVE  UNCHANGED Abstract!queueVars
  <2>1. /\ UNCHANGED <<m_dequeue_pos, pos, pushed, outcome>>
        /\ \A u \in Threads : /\ Storing(u)' <=> Storing(u)
                              /\ Taking(u)' <=> Taking(u)
    BY <1>6, <1>t DEF WriteData, MoveData, Goto, posVars, Storing, Taking
  <2>2. StoringPlace' = StoringPlace /\ TakingPlace' = TakingPlace
    BY <2>1, SamePlaces
  <2> QED
    BY <2>1, <2>2 DEF Abstract!queueVars, StoringPlace, TakingPlace
<1>7. ASSUME NEW t \in Threads, StoreForPop(t) \/ StoreForPush(t)
      PROVE  Abstract!Pushed(t) \/ Abstract!Popped(t)
  <2>1. /\ UNCHANGED <<m_dequeue_pos, pushed>>
        /\ \A u \in Threads \ {t} : at'[u] = at[u] /\ pos'[u] = pos[u]
        /\ at'[t] = "idle"
    BY <1>7, <1>t DEF StoreForPop, StoreForPush, Return, posVars
  <2>2. \A u \in Threads : /\ Storing(u)' <=> Storing(u) /\ u # t
                           /\ Taking(u)' <=> Taking(u) /\ u # t
    BY <2>1 DEF Storing, Taking
  <2>3. /\ StoringPlace' = [StoringPlace EXCEPT ![t] = 0]
        /\ TakingPlace' = [TakingPlace EXCEPT ![t] = 0]
    <3>1. \A u \in Threads :
            /\ StoringPlace'[u] = IF u = t THEN 0 ELSE StoringPlace[u]
            /\ TakingPlace'[u] = IF u = t THEN 0 ELSE TakingPlace[u]
      BY <2>1, <2>2, Places, PlacesNext
    <3> QED
      BY <3>1 DEF StoringPlace, TakingPlace
  <2>4. pos[t] \in Nat /\ pos[t] + 1 # 0
    BY <1>t
  <2>5. CASE StoreForPop(t)
    <3>1. Storing(t) /\ ~ Taking(t) /\ outcome' = [outcome EXCEPT ![t] = "pushed"]
      BY <2>5 DEF StoreForPop, Return, Storing, Taking
    <3>2. StoringPlace[t] # 0 /\ TakingPlace' = TakingPlace
      BY <2>3, <2>4, <3>1, Places DEF TakingPlace
    <3> QED
      BY <2>1, <2>3, <3>1, <3>2 DEF Abstract!Pushed, StoringPlace, TakingPlace
  <2>6. CASE StoreForPush(t)
    <3>1. Taking(t) /\ ~ Storing(t) /\ outcome' = [outcome EXCEPT ![t] = item[t]]
      BY <2>6 DEF StoreForPush, Return, Storing, Taking
    <3>2. item[t] = pushed[pos[t] + 1]
      BY <2>6 DEF StoreForPush, Contents, Carried
    <3>3. TakingPlace[t] = pos[t] + 1 /\ StoringPlace' = StoringPlace
      BY <2>3, <3>1, Places DEF StoringPlace
    <3>4. TakingPlace[t] # 0 /\ outcome' = [outcome EXCEPT ![t] = pushed[TakingPlace[t]]]
      BY <2>4, <3>1, <3>2, <3>3
    <3> QED
      BY <2>1, <2>3, <3>3, <3>4 DEF Abstract!Popped, StoringPlace, TakingPlace
  <2> QED
    BY <1>7, <2>5, <2>6
<1>8. CASE UNCHANGED vars
  BY <1>8 DEF vars, cellVars, posVars, Abstract!queueVars, Place
<1> QED
  BY <1>1, <1>2, <1>3, <1>4, <1>5, <1>6, <1>7, <1>8
     DEF Next, Claim, Advance, Abstract!QueueNext

(* push and pop of any number of threads are steps of BoundedQueue: items  *)
(* come out once, in the order of the positions, a push is refused only    *)
(* when the item a round before has not left its cell, and a pop finds     *)
(* nothing only when the oldest item is not completely stored.             *)
THEOREM Implementation == Spec => ImplementsBoundedQueue
<1>1. Init => Abstract!QueueInit
  BY DEF Init, Abstract!QueueInit, Place
<1>2. Init => Inv /\ Contents /\ Budget
  BY InitInv, InitBudget
<1>3. Inv /\ Contents /\ Budget /\ [Next]_vars => (Inv /\ Contents /\ Budget)'
  BY InvStep, ContentsStep, BudgetStep DEF Inv
<1>4. Inv /\ Inv' /\ Contents /\ Budget /\ [Next]_vars =>
        [Abstract!QueueNext]_(Abstract!queueVars)
  BY StepImplements
<1> QED
  BY <1>1, <1>2, <1>3, <1>4, PTL DEF Spec, ImplementsBoundedQueue, Abstract!QueueSpec
===============================================================================
