------------------------------- MODULE MPMCQueue -------------------------------
(***************************************************************************)
(* tp::MPMCBoundedQueue (lib/include/thread_pool/mpmc_bounded_queue.hpp),  *)
(* one step per access to shared memory.  A cell's sequence number tells   *)
(* whose turn it is: pos for the push of position pos, pos + 1 for the pop *)
(* of position pos, pos + QueueSize for the push one round later.          *)
(*                                                                         *)
(* Positions are natural numbers: the size_t counters wrap after 2^64      *)
(* operations.  Memory is sequentially consistent.                         *)
(***************************************************************************)
EXTENDS Integers, Sequences, FiniteSets

CONSTANTS
  Threads,    \* producers and consumers: any thread may push and pop
  Items,
  QueueSize,  \* m_buffer_mask + 1
  MaxPush     \* bound of the model: how many pushes succeed

ASSUME MPMCQueueAssumption ==
  /\ QueueSize \in Nat \ {0, 1}
  /\ MaxPush \in Nat
  /\ IsFiniteSet(Threads)

VARIABLES
  sequence,       \* of each cell
  data,           \* of each cell
  m_enqueue_pos,
  m_dequeue_pos,
  at,             \* where in push or pop each thread is
  pos,            \* local variable of push and pop
  item,           \* the argument of push, the result of pop
  pushed,         \* history: the items of all successful pushes, by position
  outcome         \* history: what the last call of each thread has returned

cellVars == <<sequence, data>>
posVars == <<m_enqueue_pos, m_dequeue_pos>>
vars == <<cellVars, posVars, at, pos, item, pushed, outcome>>

Cells == 0 .. QueueSize - 1

PushAt == {"push", "push seq", "push cas", "push data", "push store"}
PopAt == {"pop", "pop seq", "pop cas", "pop data", "pop store"}

TypeOK ==
  /\ sequence \in [Cells -> Nat]
  /\ data \in [Cells -> Items \cup {"none"}]
  /\ m_enqueue_pos \in Nat /\ m_dequeue_pos \in Nat
  /\ at \in [Threads -> {"idle"} \cup PushAt \cup PopAt]
  /\ pos \in [Threads -> Nat]
  /\ item \in [Threads -> Items \cup {"none"}]
  /\ pushed \in Seq(Items)
  /\ outcome \in [Threads -> Items \cup {"none", "pushed", "full", "empty"}]

-------------------------------------------------------------------------------
Init ==
  /\ sequence = [i \in Cells |-> i]
  /\ data = [i \in Cells |-> "none"]
  /\ m_enqueue_pos = 0 /\ m_dequeue_pos = 0
  /\ at = [t \in Threads |-> "idle"]
  /\ pos = [t \in Threads |-> 0]
  /\ item = [t \in Threads |-> "none"]
  /\ pushed = <<>>
  /\ outcome = [t \in Threads |-> "none"]

(* pos & m_buffer_mask, the size being a power of two.                     *)
Cell(t) == pos[t] % QueueSize

Goto(t, a) == at' = [at EXCEPT ![t] = a]

Return(t, r) ==
  /\ outcome' = [outcome EXCEPT ![t] = r]
  /\ at' = [at EXCEPT ![t] = "idle"]
  /\ pos' = [pos EXCEPT ![t] = 0]
  /\ item' = [item EXCEPT ![t] = "none"]

-------------------------------------------------------------------------------
(* push.                                                                   *)

(* A push may begin while the bound leaves a position to every push that   *)
(* has not claimed one yet.                                                *)
Unclaimed == {t \in Threads : at[t] \in {"push", "push seq", "push cas"}}

CallPush(t, x) ==
  /\ at[t] = "idle" /\ m_enqueue_pos + Cardinality(Unclaimed) < MaxPush
  /\ item' = [item EXCEPT ![t] = x]
  /\ Goto(t, "push")
  /\ UNCHANGED <<cellVars, posVars, pos, pushed, outcome>>

LoadEnqueuePos(t) ==
  /\ at[t] = "push"
  /\ pos' = [pos EXCEPT ![t] = m_enqueue_pos]
  /\ Goto(t, "push seq")
  /\ UNCHANGED <<cellVars, posVars, item, pushed, outcome>>

(* Mutant: after another push has claimed the cell the position is kept.   *)
LoadSequenceNoReload(t) ==
  /\ at[t] = "push seq"
  /\ sequence[Cell(t)] >= pos[t]
  /\ Goto(t, IF sequence[Cell(t)] = pos[t] THEN "push cas" ELSE "push seq")
  /\ UNCHANGED <<cellVars, posVars, pos, item, pushed, outcome>>

(* The cell is free for this round: try to claim it.  Or a pop has not     *)
(* given it back: full.  Or another push has claimed it: look again.       *)
LoadSequenceForPush(t) ==
  /\ at[t] = "push seq"
  /\ sequence[Cell(t)] >= pos[t]
  /\ Goto(t, IF sequence[Cell(t)] = pos[t] THEN "push cas" ELSE "push")
  /\ UNCHANGED <<cellVars, posVars, pos, item, pushed, outcome>>

PushFull(t) ==
  /\ at[t] = "push seq"
  /\ sequence[Cell(t)] < pos[t]
  /\ Return(t, "full")
  /\ UNCHANGED <<cellVars, posVars, pushed>>

(* Mutant: the counter is stored, not compared and exchanged.              *)
StoreEnqueuePos(t) ==
  /\ at[t] = "push cas"
  /\ m_enqueue_pos' = pos[t] + 1
  /\ pushed' = Append(pushed, item[t])
  /\ Goto(t, "push data")
  /\ UNCHANGED <<cellVars, m_dequeue_pos, pos, item, outcome>>

ClaimForPush(t) ==
  /\ at[t] = "push cas"
  /\ m_enqueue_pos = pos[t]
  /\ m_enqueue_pos' = m_enqueue_pos + 1
  /\ pushed' = Append(pushed, item[t])
  /\ Goto(t, "push data")
  /\ UNCHANGED <<cellVars, m_dequeue_pos, pos, item, outcome>>

(* compare_exchange_weak fails, for no reason or because the counter has   *)
(* moved; it leaves the counter in pos.                                    *)
MissPush(t) ==
  /\ at[t] = "push cas"
  /\ pos' = [pos EXCEPT ![t] = m_enqueue_pos]
  /\ Goto(t, "push seq")
  /\ UNCHANGED <<cellVars, posVars, item, pushed, outcome>>

WriteData(t) ==
  /\ at[t] = "push data"
  /\ data' = [data EXCEPT ![Cell(t)] = item[t]]
  /\ Goto(t, "push store")
  /\ UNCHANGED <<sequence, posVars, pos, item, pushed, outcome>>

StoreForPop(t) ==
  /\ at[t] = "push store"
  /\ sequence' = [sequence EXCEPT ![Cell(t)] = pos[t] + 1]
  /\ Return(t, "pushed")
  /\ UNCHANGED <<data, posVars, pushed>>

-------------------------------------------------------------------------------
(* pop.                                                                    *)

CallPop(t) ==
  /\ at[t] = "idle"
  /\ Goto(t, "pop")
  /\ UNCHANGED <<cellVars, posVars, pos, item, pushed, outcome>>

LoadDequeuePos(t) ==
  /\ at[t] = "pop"
  /\ pos' = [pos EXCEPT ![t] = m_dequeue_pos]
  /\ Goto(t, "pop seq")
  /\ UNCHANGED <<cellVars, posVars, item, pushed, outcome>>

LoadSequenceForPop(t) ==
  /\ at[t] = "pop seq"
  /\ sequence[Cell(t)] >= pos[t] + 1
  /\ Goto(t, IF sequence[Cell(t)] = pos[t] + 1 THEN "pop cas" ELSE "pop")
  /\ UNCHANGED <<cellVars, posVars, pos, item, pushed, outcome>>

PopEmpty(t) ==
  /\ at[t] = "pop seq"
  /\ sequence[Cell(t)] < pos[t] + 1
  /\ Return(t, "empty")
  /\ UNCHANGED <<cellVars, posVars, pushed>>

ClaimForPop(t) ==
  /\ at[t] = "pop cas"
  /\ m_dequeue_pos = pos[t]
  /\ m_dequeue_pos' = m_dequeue_pos + 1
  /\ Goto(t, "pop data")
  /\ UNCHANGED <<cellVars, m_enqueue_pos, pos, item, pushed, outcome>>

MissPop(t) ==
  /\ at[t] = "pop cas"
  /\ pos' = [pos EXCEPT ![t] = m_dequeue_pos]
  /\ Goto(t, "pop seq")
  /\ UNCHANGED <<cellVars, posVars, item, pushed, outcome>>

(* data = std::move(cell->data): the cell is left without an item.         *)
MoveData(t) ==
  /\ at[t] = "pop data"
  /\ item' = [item EXCEPT ![t] = data[Cell(t)]]
  /\ data' = [data EXCEPT ![Cell(t)] = "none"]
  /\ Goto(t, "pop store")
  /\ UNCHANGED <<sequence, posVars, pos, pushed, outcome>>

(* Mutants: pos + m_buffer_mask, and pos - m_buffer_mask - 1.              *)
StoreForPushShort(t) ==
  /\ at[t] = "pop store"
  /\ sequence' = [sequence EXCEPT ![Cell(t)] = pos[t] + QueueSize - 1]
  /\ Return(t, item[t])
  /\ UNCHANGED <<data, posVars, pushed>>

StoreForPushBack(t) ==
  /\ at[t] = "pop store"
  /\ sequence' = [sequence EXCEPT ![Cell(t)] = pos[t] - QueueSize]
  /\ Return(t, item[t])
  /\ UNCHANGED <<data, posVars, pushed>>

StoreForPush(t) ==
  /\ at[t] = "pop store"
  /\ sequence' = [sequence EXCEPT ![Cell(t)] = pos[t] + QueueSize]
  /\ Return(t, item[t])
  /\ UNCHANGED <<data, posVars, pushed>>

-------------------------------------------------------------------------------
Claim(t) == ClaimForPush(t) \/ ClaimForPop(t)

Advance(t) ==
  \/ LoadEnqueuePos(t) \/ LoadSequenceForPush(t) \/ PushFull(t)
  \/ MissPush(t) \/ WriteData(t) \/ StoreForPop(t)
  \/ LoadDequeuePos(t) \/ LoadSequenceForPop(t) \/ PopEmpty(t)
  \/ MissPop(t) \/ MoveData(t) \/ StoreForPush(t)

Next ==
  \E t \in Threads :
    \/ \E x \in Items : CallPush(t, x)
    \/ CallPop(t)
    \/ Claim(t) \/ Advance(t)

Spec == Init /\ [][Next]_vars

(* Every thread runs, and compare_exchange_weak does not fail for ever     *)
(* when the counter has the expected value.  Nothing obliges a thread to   *)
(* begin a call.                                                           *)
FairSpec == Spec /\ \A t \in Threads : WF_vars(Advance(t)) /\ SF_vars(Claim(t))

-------------------------------------------------------------------------------
(* data is not atomic: no two threads use that of one cell at a time       *)
(* (mpmc_bounded_queue.hpp: a claim gives the cell to one thread until it   *)
(* stores the sequence number).                                            *)
Owns(t) == at[t] \in {"push data", "push store", "pop data", "pop store"}

OneOwner ==
  \A t, u \in Threads : Owns(t) /\ Owns(u) /\ Cell(t) = Cell(u) => t = u

(* push and pop return: a call goes round its loop only when another call  *)
(* has claimed a position, or compare_exchange_weak fails for no reason.   *)
CallsReturn == \A t \in Threads : at[t] # "idle" ~> at[t] = "idle"

(* The queue is BoundedQueue, whatever the interleaving: every item comes  *)
(* out once, in the order of the positions; push is refused and pop finds  *)
(* nothing only for the reasons stated there.                              *)
Place(t, steps) == IF at[t] \in steps THEN pos[t] + 1 ELSE 0

Abstract == INSTANCE BoundedQueue WITH
  taken <- m_dequeue_pos,
  storing <- [t \in Threads |-> Place(t, {"push data", "push store"})],
  taking <- [t \in Threads |-> Place(t, {"pop data", "pop store"})]

ImplementsBoundedQueue == Abstract!QueueSpec
===============================================================================
