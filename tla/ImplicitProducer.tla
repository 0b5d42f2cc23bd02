--------------------------- MODULE ImplicitProducer ---------------------------
(***************************************************************************)
(* The streams of a channel's queue (lib/include/concurrentqueue.h:        *)
(* ImplicitProducer, Block, requisition_block), one access to shared       *)
(* memory per step.  Each writing thread has a producer: counters, blocks  *)
(* of elements, and a ring of block index entries that doubles when it is  *)
(* full.  Any thread dequeues from any producer.  Emptied blocks go to the *)
(* queue's FreeList and from there to any producer.                        *)
(*                                                                         *)
(* Atomic accesses take effect in program order.  index_t is 64 bits wide  *)
(* and does not wrap.  An element is its writer and its index.             *)
(***************************************************************************)
EXTENDS FreeList, Sequences

CONSTANTS
  Writers, Readers,
  InitialBlockPool,            \* the blocks the constructor makes
  BLOCK_SIZE,
  IMPLICIT_INITIAL_INDEX_SIZE,
  Plans,                       \* bound: what each thread may do, and what fails
  INVALID_BLOCK_BASE, Unwritten, NoWriter, NoItem

ASSUME ImplicitProducerAssumption ==
  /\ Threads = Writers \cup Readers /\ Writers \cap Readers = {}
  /\ IsFiniteSet(Writers) /\ IsFiniteSet(Readers)
  /\ InitialBlockPool \subseteq Blocks
  /\ BLOCK_SIZE \in Nat \ {0, 1}
  /\ IMPLICIT_INITIAL_INDEX_SIZE \in Nat \ {0}
  /\ Plans \subseteq [calls : [Threads -> Nat], faults : Nat]
  /\ INVALID_BLOCK_BASE \notin Nat /\ Unwritten \notin Blocks \cup {NoBlock}
  /\ NoWriter \notin Writers /\ NoItem \notin Writers \X Nat

VARIABLES
  tailIndex, headIndex, dequeueOptimisticCount, dequeueOvercommit,
  tailBlock,    \* of each writer's producer
  blockIndex,   \* the index headers of a producer, the current one last
  entries,      \* its block index entries, in the order they were made
  element,      \* the slots of each block
  elementsCompletelyDequeued,
  unused,       \* blocks nobody has asked for: in the initial pool or not made
  enq,          \* where each writer is in enqueue, and its locals
  deq,          \* where each reader is in dequeue, and its locals
  found,        \* its locals from the lookup of the block on
  calls,        \* how many more calls each thread begins
  faults,       \* how many more allocations fail and copies throw
  took, failed, \* history: dequeueOptimisticCount as drawn by who went on to
                \* headIndex, and by who saw the element taken
  span          \* history: what each dequeue had before it and around it

countVars == <<tailIndex, headIndex, dequeueOptimisticCount, dequeueOvercommit>>
indexVars == <<tailBlock, blockIndex, entries>>
blockVars == <<element, elementsCompletelyDequeued, unused>>
readVars == <<deq, found>>
ghostVars == <<took, failed, span>>
vars == <<listVars, countVars, indexVars, blockVars, enq, deq, found, calls,
          faults, ghostVars>>

Item == Writers \X Nat
Header == [tail : Nat, index : Seq(Nat)]
Entry == [key : Nat \cup {INVALID_BLOCK_BASE},
          value : Blocks \cup {NoBlock, Unwritten}]

EnqLocal ==
  [at : {"idle", "grow", "key", "tail", "block", "get", "create", "fill",
         "value", "publish", "undo", "rewind", "give"},
   entry : Nat, block : Node]
DeqLocal ==
  [at : {"idle", "over", "count", "ticket", "recheck", "overcommit", "claim",
         "header", "tail", "key", "value", "move", "empty", "unlink", "free"},
   of : Writers \cup {NoWriter}, tail : Nat, over : Nat, my : Nat, index : Nat]
FoundLocal ==
  [header : Nat, tail : Nat, entry : Nat, block : Node \cup {Unwritten},
   item : Item \cup {NoItem}]

TypeOK ==
  /\ ListTypeOK
  /\ tailIndex \in [Writers -> Nat] /\ headIndex \in [Writers -> Nat]
  /\ dequeueOptimisticCount \in [Writers -> Nat]
  /\ dequeueOvercommit \in [Writers -> Nat]
  /\ tailBlock \in [Writers -> Node]
  /\ blockIndex \in [Writers -> Seq(Header)] /\ entries \in [Writers -> Seq(Entry)]
  /\ element \in [Blocks -> [0 .. BLOCK_SIZE - 1 -> Item \cup {NoItem}]]
  /\ elementsCompletelyDequeued \in [Blocks -> 0 .. BLOCK_SIZE]
  /\ unused \subseteq Blocks
  /\ enq \in [Writers -> EnqLocal] /\ deq \in [Readers -> DeqLocal]
  /\ found \in [Readers -> FoundLocal]
  /\ calls \in [Threads -> Nat] /\ faults \in Nat
  /\ took \in [Writers -> SUBSET Nat] /\ failed \in [Writers -> SUBSET Nat]
  /\ span \in [Readers -> [there : Nat, overlap : Nat]]

-------------------------------------------------------------------------------
EnqIdle == [at |-> "idle", entry |-> 0, block |-> NoBlock]
DeqIdle == [at |-> "idle", of |-> NoWriter, tail |-> 0, over |-> 0, my |-> 0,
            index |-> 0]
NotFound == [header |-> 0, tail |-> 0, entry |-> 0, block |-> NoBlock, item |-> NoItem]
NoSpan == [there |-> 0, overlap |-> 0]

FreshEntry == [key |-> INVALID_BLOCK_BASE, value |-> Unwritten]
FreshEntries(n) == [e \in 1 .. n |-> FreshEntry]

(* new_block_index, called by the constructor.                             *)
FirstHeader ==
  [tail |-> IMPLICIT_INITIAL_INDEX_SIZE - 1,
   index |-> [p \in 1 .. IMPLICIT_INITIAL_INDEX_SIZE |-> p]]

Init ==
  /\ ListInit
  /\ tailIndex = [w \in Writers |-> 0]
  /\ headIndex = [w \in Writers |-> 0]
  /\ dequeueOptimisticCount = [w \in Writers |-> 0]
  /\ dequeueOvercommit = [w \in Writers |-> 0]
  /\ tailBlock = [w \in Writers |-> NoBlock]
  /\ blockIndex = [w \in Writers |-> <<FirstHeader>>]
  /\ entries = [w \in Writers |-> FreshEntries(IMPLICIT_INITIAL_INDEX_SIZE)]
  /\ element = [b \in Blocks |-> [s \in 0 .. BLOCK_SIZE - 1 |-> NoItem]]
  /\ elementsCompletelyDequeued = [b \in Blocks |-> 0]
  /\ unused = Blocks
  /\ enq = [w \in Writers |-> EnqIdle]
  /\ deq = [r \in Readers |-> DeqIdle]
  /\ found = [r \in Readers |-> NotFound]
  /\ \E plan \in Plans : calls = plan.calls /\ faults = plan.faults
  /\ took = [w \in Writers |-> {}] /\ failed = [w \in Writers |-> {}]
  /\ span = [r \in Readers |-> NoSpan]

Slot(i) == i % BLOCK_SIZE
BlockBase(i) == i - Slot(i)
Capacity(h) == Len(h.index)
At(h, p) == h.index[(p % Capacity(h)) + 1]

Current(w) == Len(blockIndex[w])
CurrentHeader(w) == blockIndex[w][Current(w)]

Fault == faults > 0 /\ faults' = faults - 1

-------------------------------------------------------------------------------
(* enqueue.                                                                *)

Begins(t) == calls[t] > 0 /\ calls' = [calls EXCEPT ![t] = @ - 1]

(* insert_block_index_entry: the entry after the tail, if it is free.      *)
FindEntry(w) ==
  LET h == CurrentHeader(w)
      e == At(h, h.tail + 1)
  IN
  /\ enq[w].at = "idle" /\ Slot(tailIndex[w]) = 0
  /\ Begins(w)
  /\ enq' = IF \/ entries[w][e].key = INVALID_BLOCK_BASE
               \/ entries[w][e].value = NoBlock
              THEN [enq EXCEPT ![w].at = "key", ![w].entry = e]
              ELSE [enq EXCEPT ![w].at = "grow"]
  /\ UNCHANGED <<listVars, countVars, indexVars, blockVars, readVars, faults, ghostVars>>

(* Mutant: the old entries are copied as they lie, not from the oldest on. *)
NewBlockIndexUnturned(w) ==
  LET h == CurrentHeader(w)
      n == Capacity(h)
  IN
  /\ enq[w].at = "grow"
  /\ blockIndex' = [blockIndex EXCEPT ![w] = Append(@,
       [tail |-> n - 1, index |-> [p \in 1 .. 2 * n |-> IF p <= n THEN h.index[p] ELSE p]])]
  /\ entries' = [entries EXCEPT ![w] = @ \o FreshEntries(n)]
  /\ enq' = [enq EXCEPT ![w].at = "key", ![w].entry = n + 1]
  /\ UNCHANGED <<listVars, countVars, tailBlock, blockVars, readVars, calls, faults,
                 ghostVars>>

(* new_block_index: a ring of twice the size, the old entries first, from  *)
(* the oldest to the newest.                                               *)
NewBlockIndex(w) ==
  LET h == CurrentHeader(w)
      n == Capacity(h)
  IN
  /\ enq[w].at = "grow"
  /\ blockIndex' = [blockIndex EXCEPT ![w] = Append(@,
       [tail |-> n - 1,
        index |-> [p \in 1 .. 2 * n |-> IF p <= n THEN At(h, h.tail + p) ELSE p]])]
  /\ entries' = [entries EXCEPT ![w] = @ \o FreshEntries(n)]
  /\ enq' = [enq EXCEPT ![w].at = "key", ![w].entry = n + 1]
  /\ UNCHANGED <<listVars, countVars, tailBlock, blockVars, readVars, calls, faults,
                 ghostVars>>

NewBlockIndexFails(w) ==
  /\ enq[w].at = "grow" /\ Fault
  /\ enq' = [enq EXCEPT ![w] = EnqIdle]
  /\ UNCHANGED <<listVars, countVars, indexVars, blockVars, readVars, calls, ghostVars>>

WriteKey(w) ==
  /\ enq[w].at = "key"
  /\ entries' = [entries EXCEPT ![w][enq[w].entry].key = tailIndex[w]]
  /\ enq' = [enq EXCEPT ![w].at = "tail"]
  /\ UNCHANGED <<listVars, countVars, tailBlock, blockIndex, blockVars, readVars,
                 calls, faults, ghostVars>>

MoveTail(w, n) ==
  blockIndex' = [blockIndex EXCEPT ![w][Current(w)].tail = (@ + n) % Capacity(CurrentHeader(w))]

WriteTail(w) ==
  /\ enq[w].at = "tail"
  /\ MoveTail(w, 1)
  /\ enq' = [enq EXCEPT ![w].at = "block"]
  /\ UNCHANGED <<listVars, countVars, tailBlock, entries, blockVars, readVars, calls,
                 faults, ghostVars>>

(* requisition_block: the initial pool, the free list, a new block.        *)
FromInitialPool(w) ==
  /\ enq[w].at = "block"
  /\ \E b \in unused \cap InitialBlockPool :
       /\ unused' = unused \ {b}
       /\ enq' = [enq EXCEPT ![w].at = "fill", ![w].block = b]
  /\ UNCHANGED <<listVars, countVars, indexVars, element,
                 elementsCompletelyDequeued, readVars, calls, faults, ghostVars>>

FromFreeList(w) ==
  /\ enq[w].at = "block" /\ unused \cap InitialBlockPool = {}
  /\ CallTryGet(w)
  /\ enq' = [enq EXCEPT ![w].at = "get"]
  /\ UNCHANGED <<freeListHead, freeListNext, freeListRefs, countVars, indexVars,
                 blockVars, readVars, calls, faults, ghostVars>>

Got(w) ==
  /\ enq[w].at = "get" /\ Returned(w)
  /\ enq' = IF fl[w].node = NoBlock
              THEN [enq EXCEPT ![w].at = "create"]
              ELSE [enq EXCEPT ![w].at = "fill", ![w].block = fl[w].node]
  /\ fl' = [fl EXCEPT ![w] = Out]
  /\ UNCHANGED <<freeListHead, freeListNext, freeListRefs, countVars, indexVars,
                 blockVars, readVars, calls, faults, ghostVars>>

Create(w) ==
  /\ enq[w].at = "create"
  /\ \E b \in unused :
       /\ unused' = unused \ {b}
       /\ enq' = [enq EXCEPT ![w].at = "fill", ![w].block = b]
  /\ UNCHANGED <<listVars, countVars, indexVars, element,
                 elementsCompletelyDequeued, readVars, calls, faults, ghostVars>>

CreateFails(w) ==
  /\ enq[w].at = "create" /\ Fault
  /\ enq' = [enq EXCEPT ![w].at = "undo"]
  /\ UNCHANGED <<listVars, countVars, indexVars, blockVars, readVars, calls, ghostVars>>

Write(b, i, x) == element' = [element EXCEPT ![b][Slot(i)] = x]

(* Mutant: no reset_empty.                                                 *)
FillStale(w) ==
  LET b == enq[w].block IN
  /\ enq[w].at = "fill"
  /\ Write(b, tailIndex[w], <<w, tailIndex[w]>>)
  /\ enq' = [enq EXCEPT ![w].at = "value"]
  /\ UNCHANGED <<listVars, countVars, indexVars, elementsCompletelyDequeued,
                 unused, readVars, calls, faults, ghostVars>>

(* reset_empty, and the copy of the element into the block nobody sees.    *)
Fill(w) ==
  LET b == enq[w].block IN
  /\ enq[w].at = "fill"
  /\ elementsCompletelyDequeued' = [elementsCompletelyDequeued EXCEPT ![b] = 0]
  /\ Write(b, tailIndex[w], <<w, tailIndex[w]>>)
  /\ enq' = [enq EXCEPT ![w].at = "value"]
  /\ UNCHANGED <<listVars, countVars, indexVars, unused, readVars, calls, faults,
                 ghostVars>>

(* The copy throws.                                                        *)
FillThrows(w) ==
  LET b == enq[w].block IN
  /\ enq[w].at = "fill" /\ Fault
  /\ elementsCompletelyDequeued' = [elementsCompletelyDequeued EXCEPT ![b] = 0]
  /\ enq' = [enq EXCEPT ![w].at = "undo"]
  /\ UNCHANGED <<listVars, countVars, indexVars, element, unused, readVars, calls,
                 ghostVars>>

(* rewind_block_index_tail.                                                *)
RewindTail(w) ==
  /\ enq[w].at = "undo"
  /\ MoveTail(w, Capacity(CurrentHeader(w)) - 1)
  /\ enq' = [enq EXCEPT ![w].at = "rewind"]
  /\ UNCHANGED <<listVars, countVars, tailBlock, entries, blockVars, readVars, calls,
                 faults, ghostVars>>

ClearValue(w) ==
  /\ enq[w].at = "rewind"
  /\ entries' = [entries EXCEPT ![w][enq[w].entry].value = NoBlock]
  /\ IF enq[w].block = NoBlock
       THEN /\ enq' = [enq EXCEPT ![w] = EnqIdle]
            /\ UNCHANGED fl
       ELSE /\ enq' = [enq EXCEPT ![w].at = "give"]
            /\ CallAdd(w, enq[w].block)
  /\ UNCHANGED <<freeListHead, freeListNext, freeListRefs, countVars, tailBlock,
                 blockIndex, blockVars, readVars, calls, faults, ghostVars>>

GivenBack(w) ==
  /\ enq[w].at = "give" /\ Returned(w)
  /\ enq' = [enq EXCEPT ![w] = EnqIdle]
  /\ UNCHANGED <<listVars, countVars, indexVars, blockVars, readVars, calls, faults,
                 ghostVars>>

WriteValue(w) ==
  /\ enq[w].at = "value"
  /\ entries' = [entries EXCEPT ![w][enq[w].entry].value = enq[w].block]
  /\ tailBlock' = [tailBlock EXCEPT ![w] = enq[w].block]
  /\ enq' = [enq EXCEPT ![w].at = "publish"]
  /\ UNCHANGED <<listVars, countVars, blockIndex, blockVars, readVars, calls, faults,
                 ghostVars>>

(* In a block that is in use.  A copy that throws changes nothing.         *)
Construct(w) ==
  /\ enq[w].at = "idle" /\ Slot(tailIndex[w]) # 0
  /\ Begins(w)
  /\ Write(tailBlock[w], tailIndex[w], <<w, tailIndex[w]>>)
  /\ enq' = [enq EXCEPT ![w].at = "publish"]
  /\ UNCHANGED <<listVars, countVars, indexVars, elementsCompletelyDequeued,
                 unused, readVars, faults, ghostVars>>

Publish(w) ==
  /\ enq[w].at = "publish"
  /\ tailIndex' = [tailIndex EXCEPT ![w] = @ + 1]
  /\ enq' = [enq EXCEPT ![w] = EnqIdle]
  /\ UNCHANGED <<listVars, headIndex, dequeueOptimisticCount, dequeueOvercommit,
                 indexVars, blockVars, readVars, calls, faults, ghostVars>>

EnqueueStep(w) ==
  \/ FindEntry(w) \/ NewBlockIndex(w) \/ NewBlockIndexFails(w)
  \/ WriteKey(w) \/ WriteTail(w) \/ FromInitialPool(w) \/ FromFreeList(w)
  \/ Got(w) \/ Create(w) \/ CreateFails(w) \/ Fill(w) \/ FillThrows(w)
  \/ RewindTail(w) \/ ClearValue(w) \/ GivenBack(w) \/ WriteValue(w)
  \/ Construct(w) \/ Publish(w)

-------------------------------------------------------------------------------
(* dequeue.                                                                *)

Looking(r, w) == deq[r].of = w /\ deq[r].at \in
  {"over", "count", "ticket", "recheck", "overcommit", "claim"}
OthersLooking(r, w) == {q \in Readers \ {r} : Looking(q, w)}

DequeueStart(r, w) ==
  /\ deq[r].at = "idle"
  /\ Begins(r)
  /\ deq' = [deq EXCEPT ![r].at = "over", ![r].of = w, ![r].tail = tailIndex[w]]
  /\ span' = [q \in Readers |->
       IF q = r THEN [there |-> tailIndex[w] - headIndex[w],
                      overlap |-> Cardinality(OthersLooking(r, w))]
       ELSE IF Looking(q, w) THEN [span[q] EXCEPT !.overlap = @ + 1]
       ELSE span[q]]
  /\ UNCHANGED <<listVars, countVars, indexVars, blockVars, enq, found, faults, took,
                 failed>>

LoadOvercommit(r) ==
  /\ deq[r].at = "over"
  /\ deq' = [deq EXCEPT ![r].at = "count", ![r].over = dequeueOvercommit[deq[r].of]]
  /\ UNCHANGED <<listVars, countVars, indexVars, blockVars, enq, found, calls, faults,
                 ghostVars>>

(* Return false.                                                           *)
Missed(r) ==
  /\ deq' = [deq EXCEPT ![r] = DeqIdle]
  /\ span' = [span EXCEPT ![r] = NoSpan]

LoadOptimisticCount(r) ==
  /\ deq[r].at = "count"
  /\ IF dequeueOptimisticCount[deq[r].of] - deq[r].over < deq[r].tail
       THEN /\ deq' = [deq EXCEPT ![r].at = "ticket"]
            /\ UNCHANGED span
       ELSE Missed(r)
  /\ UNCHANGED <<listVars, countVars, indexVars, blockVars, enq, found, calls, faults,
                 took, failed>>

AddOptimisticCount(r) ==
  LET w == deq[r].of IN
  /\ deq[r].at = "ticket"
  /\ deq' = [deq EXCEPT ![r].at = "recheck", ![r].my = dequeueOptimisticCount[w]]
  /\ dequeueOptimisticCount' = [dequeueOptimisticCount EXCEPT ![w] = @ + 1]
  /\ UNCHANGED <<listVars, tailIndex, headIndex, dequeueOvercommit, indexVars,
                 blockVars, enq, found, calls, faults, ghostVars>>

(* Mutant: the tail is not looked at again.                                *)
RecheckNot(r) ==
  LET w == deq[r].of IN
  /\ deq[r].at = "recheck"
  /\ deq' = [deq EXCEPT ![r].at = "claim"]
  /\ took' = [took EXCEPT ![w] = @ \cup {deq[r].my}]
  /\ UNCHANGED <<listVars, countVars, indexVars, blockVars, enq, found, calls, faults,
                 failed, span>>

Recheck(r) ==
  LET w == deq[r].of IN
  /\ deq[r].at = "recheck"
  /\ IF deq[r].my - deq[r].over < tailIndex[w]
       THEN /\ deq' = [deq EXCEPT ![r].at = "claim", ![r].tail = tailIndex[w]]
            /\ took' = [took EXCEPT ![w] = @ \cup {deq[r].my}]
            /\ UNCHANGED failed
       ELSE /\ deq' = [deq EXCEPT ![r].at = "overcommit", ![r].tail = tailIndex[w]]
            /\ failed' = [failed EXCEPT ![w] = @ \cup {deq[r].my}]
            /\ UNCHANGED took
  /\ UNCHANGED <<listVars, countVars, indexVars, blockVars, enq, found, calls, faults,
                 span>>

(* Mutant: the count stays drawn for ever.                                 *)
AddOvercommitNot(r) ==
  /\ deq[r].at = "overcommit"
  /\ Missed(r)
  /\ UNCHANGED <<listVars, countVars, indexVars, blockVars, enq, found, calls,
                 faults, took, failed>>

AddOvercommit(r) ==
  /\ deq[r].at = "overcommit"
  /\ dequeueOvercommit' = [dequeueOvercommit EXCEPT ![deq[r].of] = @ + 1]
  /\ Missed(r)
  /\ UNCHANGED <<listVars, tailIndex, headIndex, dequeueOptimisticCount,
                 indexVars, blockVars, enq, found, calls, faults, took, failed>>

Claim(r) ==
  LET w == deq[r].of IN
  /\ deq[r].at = "claim"
  /\ deq' = [deq EXCEPT ![r] = [DeqIdle EXCEPT !.at = "header", !.of = w,
                                               !.index = headIndex[w]]]
  /\ headIndex' = [headIndex EXCEPT ![w] = @ + 1]
  /\ span' = [span EXCEPT ![r] = NoSpan]
  /\ UNCHANGED <<listVars, tailIndex, dequeueOptimisticCount, dequeueOvercommit,
                 indexVars, blockVars, enq, found, calls, faults, took, failed>>

-------------------------------------------------------------------------------
(* get_block_index_entry_for_index.                                        *)

LoadHeader(r) ==
  /\ deq[r].at = "header"
  /\ deq' = [deq EXCEPT ![r].at = "tail"]
  /\ found' = [found EXCEPT ![r].header = Current(deq[r].of)]
  /\ UNCHANGED <<listVars, countVars, indexVars, blockVars, enq, calls, faults,
                 ghostVars>>

LoadTail(r) ==
  /\ deq[r].at = "tail"
  /\ deq' = [deq EXCEPT ![r].at = "key"]
  /\ found' = [found EXCEPT ![r].tail = blockIndex[deq[r].of][found[r].header].tail]
  /\ UNCHANGED <<listVars, countVars, indexVars, blockVars, enq, calls, faults,
                 ghostVars>>

(* So many entries after the tail as there are blocks between the two;     *)
(* the difference is negative or 0.                                        *)
LoadKey(r) ==
  LET h == blockIndex[deq[r].of][found[r].header]
      base == entries[deq[r].of][At(h, found[r].tail)].key
      offset == (BlockBase(deq[r].index) - base) \div BLOCK_SIZE
  IN
  /\ deq[r].at = "key"
  /\ deq' = [deq EXCEPT ![r].at = "value"]
  /\ found' = [found EXCEPT ![r].entry = At(h, found[r].tail + offset)]
  /\ UNCHANGED <<listVars, countVars, indexVars, blockVars, enq, calls, faults,
                 ghostVars>>

LoadValue(r) ==
  /\ deq[r].at = "value"
  /\ deq' = [deq EXCEPT ![r].at = "move"]
  /\ found' = [found EXCEPT ![r].block = entries[deq[r].of][found[r].entry].value]
  /\ UNCHANGED <<listVars, countVars, indexVars, blockVars, enq, calls, faults,
                 ghostVars>>

(* The element is moved out and destroyed.                                 *)
Move(r) ==
  LET b == found[r].block IN
  /\ deq[r].at = "move"
  /\ deq' = [deq EXCEPT ![r].at = "empty"]
  /\ found' = [found EXCEPT ![r].item = element[b][Slot(deq[r].index)]]
  /\ Write(b, deq[r].index, NoItem)
  /\ UNCHANGED <<listVars, countVars, indexVars, elementsCompletelyDequeued,
                 unused, enq, calls, faults, ghostVars>>

(* Return true.                                                            *)
Dequeued(r) ==
  /\ deq' = [deq EXCEPT ![r] = DeqIdle]
  /\ found' = [found EXCEPT ![r] = NotFound]

SetEmpty(r) ==
  LET b == found[r].block IN
  /\ deq[r].at = "empty"
  /\ elementsCompletelyDequeued' = [elementsCompletelyDequeued EXCEPT ![b] = @ + 1]
  /\ IF elementsCompletelyDequeued[b] = BLOCK_SIZE - 1
       THEN /\ deq' = [deq EXCEPT ![r].at = "unlink"]
            /\ UNCHANGED found
       ELSE Dequeued(r)
  /\ UNCHANGED <<listVars, countVars, indexVars, element, unused, enq, calls,
                 faults, ghostVars>>

(* Out of the index, then into the free list.                              *)
Unlink(r) ==
  /\ deq[r].at = "unlink"
  /\ entries' = [entries EXCEPT ![deq[r].of][found[r].entry].value = NoBlock]
  /\ CallAdd(r, found[r].block)
  /\ deq' = [deq EXCEPT ![r].at = "free"]
  /\ UNCHANGED <<freeListHead, freeListNext, freeListRefs, countVars, tailBlock,
                 blockIndex, blockVars, enq, found, calls, faults, ghostVars>>

Freed(r) ==
  /\ deq[r].at = "free" /\ Returned(r)
  /\ Dequeued(r)
  /\ UNCHANGED <<listVars, countVars, indexVars, blockVars, enq, calls, faults,
                 ghostVars>>

DequeueStep(r) ==
  \/ \E w \in Writers : DequeueStart(r, w)
  \/ LoadOvercommit(r) \/ LoadOptimisticCount(r) \/ AddOptimisticCount(r)
  \/ Recheck(r) \/ AddOvercommit(r) \/ Claim(r) \/ LoadHeader(r) \/ LoadTail(r)
  \/ LoadKey(r) \/ LoadValue(r) \/ Move(r) \/ SetEmpty(r) \/ Unlink(r)
  \/ Freed(r)

InList(t) ==
  /\ ListStep(t)
  /\ UNCHANGED <<countVars, indexVars, blockVars, enq, readVars, calls, faults,
                 ghostVars>>

Next ==
  \/ \E w \in Writers : EnqueueStep(w)
  \/ \E r \in Readers : DequeueStep(r)
  \/ \E t \in Threads : InList(t)

Spec == Init /\ [][Next]_vars

-------------------------------------------------------------------------------
(* A dequeue that goes on to headIndex finds an element there for it and   *)
(* nobody else: the count, drawn before the second look at the tail, and   *)
(* the overcommit, read before the draw, never let in one too many         *)
(* (ExplicitProducer::dequeue, "rationale and explanation").               *)
NeverOverdrawn ==
  \A w \in Writers :
    headIndex[w] + Cardinality({r \in Readers : deq[r].of = w /\ deq[r].at = "claim"})
      <= tailIndex[w]

(* Who has an index finds the entry of its block and the block in it,      *)
(* whichever ring and tail it read on the way (the assertion of            *)
(* get_block_index_index_for_index).                                       *)
EntryFound ==
  \A r \in Readers :
    deq[r].at = "value" =>
      LET e == entries[deq[r].of][found[r].entry] IN
      e.key = BlockBase(deq[r].index) /\ e.value \in Blocks

(* A block serves one entry of one producer, or one writer about to put it *)
(* there, and then it is neither on the free list nor never handed out:    *)
(* the counts in freeListRefs keep try_get from swinging the head to a     *)
(* node that has left the list (FreeList; requisition_block).              *)
Users(b) ==
  (UNION {{<<w, e>> : e \in {i \in DOMAIN entries[w] : entries[w][i].value = b}} :
            w \in Writers})
    \cup {<<w, 0>> : w \in {v \in Writers :
            enq[v].block = b /\ enq[v].at \in {"fill", "value", "undo", "rewind"}}}

BlockInOnePlace ==
  \A b \in Blocks :
    /\ Cardinality(Users(b)) <= 1
    /\ Users(b) # {} => b \notin unused \cup OnList

(* The elements of a stream that nobody has claimed, the oldest first, and *)
(* the dequeue of each reader, as WriterStreams sees them.                 *)
Run(w, h, n) == [k \in 1 .. n |-> <<w, h + k - 1>>]
Untaken == [w \in Writers |-> Run(w, headIndex[w], tailIndex[w] - headIndex[w])]

ItemOf(r) ==
  IF deq[r].at \in {"header", "tail", "key", "value", "move"}
    THEN <<deq[r].of, deq[r].index>>
    ELSE found[r].item
Call ==
  [r \in Readers |-> [of |-> deq[r].of, there |-> span[r].there,
                      overlap |-> span[r].overlap, item |-> ItemOf(r)]]

Streams == INSTANCE WriterStreams WITH
  written <- tailIndex, stream <- Untaken, call <- Call

(* Every dequeue takes the oldest element, once, and gives what was put    *)
(* there; and it misses only if other dequeues around it could account for *)
(* all there was (try_dequeue: "appeared empty").                          *)
ImplementsStreams == Streams!Spec
===============================================================================
