---------------------- MODULE ImplicitProducerInvariants ----------------------
(***************************************************************************)
(* The inductive invariants of the queue of a channel, and the words its   *)
(* proofs (ImplicitProducerProofs) need: IInv is about the counters of a   *)
(* stream, BlockInv about the free list, the ring of the index and what a  *)
(* reader finds there, SlotInv about the elements in the blocks, CallInv   *)
(* about a dequeue that misses.                                            *)
(*                                                                         *)
(* The argument follows the tickets a dequeue draws from                   *)
(* dequeueOptimisticCount.  The overcommit a dequeue has read counts       *)
(* failed tickets older than its own, so that who goes on with ticket t    *)
(* has seen at least t + 1 elements less the failed tickets below t: as    *)
(* many as all tickets up to t that went on or still may.                  *)
(*                                                                         *)
(* From there: a block is in one place and a reader finds the one its      *)
(* index is in.  Every block gets a kind and an owner.  freeListRefs is    *)
(* the weight of the kind and the threads that hold the node, so a count   *)
(* of holders that is not 0 keeps a block on the list, or off it, while a  *)
(* thread pops or links.  A ring holds the blocks up to its tail, keyed in *)
(* order, and a block stays in it while it has indices to give out or      *)
(* readers on the way; that the taken elements of a block and the readers  *)
(* on the way are the indices given out lets only the last one remove it.  *)
(*                                                                         *)
(* Then the queue is WriterStreams.  An element is in the slot of its      *)
(* index until the one reader that has the index takes it.  A dequeue that *)
(* misses found no tail beyond the tickets in play less the overcommit it  *)
(* had read, and these are the elements taken before it began and the      *)
(* dequeues that it overlapped.                                            *)
(***************************************************************************)
EXTENDS ImplicitProducer

(* Readers of a stream at a place of dequeue, and tickets older than t.    *)
InAt(w, a) == {r \in Readers : deq[r].of = w /\ deq[r].at = a}
Below(S, t) == {x \in S : x < t}

CountType ==
  /\ tailIndex \in [Writers -> Nat] /\ headIndex \in [Writers -> Nat]
  /\ dequeueOptimisticCount \in [Writers -> Nat]
  /\ dequeueOvercommit \in [Writers -> Nat]
  /\ took \in [Writers -> SUBSET Nat] /\ failed \in [Writers -> SUBSET Nat]
  /\ deq \in [Readers -> DeqLocal]
  /\ \A r \in Readers : deq[r].at # "idle" => deq[r].of \in Writers

(* A ticket is drawn once and is decided once.                             *)
Drawn(w) ==
  /\ took[w] \cup failed[w] \subseteq 0 .. dequeueOptimisticCount[w] - 1
  /\ took[w] \cap failed[w] = {}
  /\ \A r \in InAt(w, "recheck") :
       /\ deq[r].my \in 0 .. dequeueOptimisticCount[w] - 1
       /\ deq[r].my \notin took[w] \cup failed[w]
       /\ \A q \in InAt(w, "recheck") \ {r} : deq[q].my # deq[r].my

(* Every decision is on its way to the counter it goes to, or there.       *)
Counted(w) ==
  /\ headIndex[w] + Cardinality(InAt(w, "claim")) = Cardinality(took[w])
  /\ dequeueOvercommit[w] + Cardinality(InAt(w, "overcommit"))
       = Cardinality(failed[w])

(* The overcommit a dequeue has read is made of tickets older than its own.*)
Older(w) ==
  /\ \A r \in InAt(w, "count") \cup InAt(w, "ticket") :
       deq[r].over <= Cardinality(failed[w])
  /\ \A r \in InAt(w, "recheck") :
       deq[r].over <= Cardinality(Below(failed[w], deq[r].my))

(* Who went on had seen enough elements.                                   *)
Enough(w) ==
  \A t \in took[w] : t + 1 <= tailIndex[w] + Cardinality(Below(failed[w], t))

Tickets(w) == Drawn(w) /\ Counted(w) /\ Older(w) /\ Enough(w)
IInv == CountType /\ \A w \in Writers : Tickets(w)

-------------------------------------------------------------------------------
(* Where the counters of a stream change.                                  *)

(* The places of dequeue that Tickets speaks of.                           *)
Marked == {"count", "ticket", "recheck", "overcommit", "claim"}

-------------------------------------------------------------------------------
(* A reader that goes on in its dequeue.                                   *)

(* A reader at a goes to d: the sets of readers, and how many are there.   *)
Walks(w, r, a, d) ==
  /\ deq'[r] = d
  /\ \A b : b # d.at /\ b # a => InAt(w, b)' = InAt(w, b)
  /\ \A b : \A q \in InAt(w, b)' : q # r => q \in InAt(w, b) /\ deq'[q] = deq[q]
  /\ \A b : b # d.at => r \notin InAt(w, b)'
  /\ r \in InAt(w, a)
  /\ Cardinality(InAt(w, a)') = Cardinality(InAt(w, a)) - 1
  /\ d.of = w => Cardinality(InAt(w, d.at)') = Cardinality(InAt(w, d.at)) + 1

-------------------------------------------------------------------------------
(* Blocks of indices: numbers, keys and remainders.                        *)

(* Indices come in blocks of BLOCK_SIZE: the number of the block of an     *)
(* index, and the first index of a block.                                  *)
Num(i) == i \div BLOCK_SIZE
Key(x) == x * BLOCK_SIZE

-------------------------------------------------------------------------------
(* The free list: where each block is, and what its freeListRefs counts.   *)

(* The threads inside try_get that have counted themselves in a node.      *)
Holds(d, b) == \/ d.at \in {"read", "pop"} /\ d.head = b
               \/ d.at = "drop" /\ d.node = b
Holding(b) == {t \in Threads : Holds(fl[t], b)}
Held(b) == Cardinality(Holding(b))

(* Where a block is: what it is used for and by whom.  A block that a      *)
(* thread has is "held" by it, on its way to the list in "link" and        *)
(* "swing", on its way from it "popped"; nobody has a "pending" one, which *)
(* its last holder is left to add.                                         *)
Kinds == {"unused", "entry", "held", "link", "swing", "pending", "listed", "popped"}
Weight(k) == IF k \in {"link", "pending"} THEN SHOULD_BE_ON_FREELIST
             ELSE IF k \in {"swing", "listed"} THEN 1
             ELSE IF k = "popped" THEN 2 ELSE 0

KindAt(a) == IF a \in {"link", "next", "refs"} THEN "link"
             ELSE IF a \in {"swing", "retry"} THEN "swing"
             ELSE IF a = "release" THEN "popped" ELSE "held"
Owning == {"out", "add", "link", "next", "refs", "swing", "retry", "release"}
Owns(d) == d.at \in Owning /\ d.node \in Blocks
WithBlock == {"fill", "value", "undo", "rewind"}

Owners == Threads \cup (Writers \X Nat) \cup {NoBlock}

Used(kind, who) ==
  /\ unused \subseteq Blocks
  /\ \A b \in unused : kind[b] = "unused"
  /\ \A w \in Writers : \A e \in 1 .. Len(entries[w]) :
       LET b == entries[w][e].value IN
       b \in Blocks => kind[b] = "entry" /\ who[b] = <<w, e>>
  /\ \A w \in Writers : LET b == enq[w].block IN
       enq[w].at \in WithBlock /\ b \in Blocks => kind[b] = "held" /\ who[b] = w
Owned(kind, who) ==
  \A t \in Threads :
    Owns(fl[t]) => /\ kind[fl[t].node] = KindAt(fl[t].at)
                   /\ who[fl[t].node] = t
Chained(kind) ==
  /\ freeListHead \in Blocks => kind[freeListHead] = "listed"
  /\ \A b \in Blocks :
       kind[b] = "listed" /\ freeListNext[b] \in Blocks =>
         /\ kind[freeListNext[b]] = "listed" /\ freeListNext[b] # freeListHead
         /\ \A c \in Blocks :
              kind[c] = "listed" /\ freeListNext[c] = freeListNext[b] => c = b
Weighed(kind) ==
  \A b \in Blocks :
    /\ freeListRefs[b] = Weight(kind[b]) + Held(b)
    /\ kind[b] = "link" => Held(b) = 0
    /\ kind[b] = "pending" => Held(b) # 0
Placement(kind, who) ==
  /\ kind \in [Blocks -> Kinds] /\ who \in [Blocks -> Owners]
  /\ Used(kind, who) /\ Owned(kind, who) /\ Chained(kind) /\ Weighed(kind)
Placed == \E kind, who : Placement(kind, who)

(* What a thread in the functions of the list has read is so still.        *)
ListLocal(t) ==
  /\ fl[t].at \in {"hold", "read", "pop"} => fl[t].head \in Blocks
  /\ fl[t].at \in (Owning \ {"out"}) \cup {"drop"} => fl[t].node \in Blocks
  /\ fl[t].at = "pop" => fl[t].next = freeListNext[fl[t].head]
  /\ fl[t].at \in {"refs", "swing"} => fl[t].next = freeListNext[fl[t].node]
  /\ fl[t].at = "hold" => Holders(fl[t].refs) # 0

(* Who calls which function of the list, and what it has left there.       *)
Adding == {"add", "link", "next", "refs", "swing", "retry"}
Outside(t) == fl[t].at = "out" /\ fl[t].node = NoBlock
InAdd(t) == \/ fl[t].at \in Adding /\ fl[t].then = "out"
            \/ Outside(t)
InTryGet(t) == /\ fl[t].at # "add"
               /\ fl[t].at \in Adding => fl[t].then = "test"
Calling ==
  /\ \A r \in Readers : IF deq[r].at = "free" THEN InAdd(r) ELSE Outside(r)
  /\ \A w \in Writers :
       /\ IF enq[w].at = "give" THEN InAdd(w)
          ELSE IF enq[w].at = "get" THEN InTryGet(w) ELSE Outside(w)
       /\ enq[w].at \in {"idle", "grow", "key", "tail", "block", "get", "create"} =>
            enq[w].block = NoBlock

ListInv == /\ ListTypeOK /\ Placed /\ Calling
           /\ \A t \in Threads : ListLocal(t)

InEntry(kind, who, w, e) ==
  kind[entries[w][e].value] = "entry" /\ who[entries[w][e].value] = <<w, e>>

-------------------------------------------------------------------------------
(* The ring of block index entries of a producer.                          *)

(* The index headers of a writer's producer: every one is a ring of        *)
(* entries, the current one holds each entry once.                         *)
Shape(w) ==
  /\ blockIndex[w] # <<>>
  /\ \A g \in 1 .. Current(w) :
       LET h == blockIndex[w][g] IN
       Capacity(h) > 0 /\ \A p \in 1 .. Capacity(h) : h.index[p] \in 1 .. Len(entries[w])
  /\ Capacity(CurrentHeader(w)) = Len(entries[w])
  /\ \A p, q \in 1 .. Len(entries[w]) :
       CurrentHeader(w).index[p] = CurrentHeader(w).index[q] => p = q

(* The number of the block at the tail of the ring, and of the last block  *)
(* that is in it.                                                          *)
Moved == {"block", "get", "create", "fill", "value", "undo"}
Top(w) ==
  Num(IF enq[w].at \in Moved \cup {"publish"} THEN tailIndex[w] ELSE tailIndex[w] - 1)
Written(w) == Num(IF enq[w].at = "publish" THEN tailIndex[w] ELSE tailIndex[w] - 1)

(* The entry of block x in the ring.                                       *)
RingAt(w, x) == At(CurrentHeader(w), CurrentHeader(w).tail + x - Top(w))
EntryOf(w, x) == entries[w][RingAt(w, x)]

(* A writer that enters or leaves an entry is at the first index of a      *)
(* block.                                                                  *)
Entering == Moved \cup {"grow", "key", "tail", "rewind"}
StartsBlock(w) == enq[w].at \in Entering => Slot(tailIndex[w]) = 0

-------------------------------------------------------------------------------
(* The tail of a ring that moves or is made anew.                          *)

(* The tail m places further in a ring, and the top m numbers higher, or   *)
(* less than that by a turn.                                               *)
SamePlace(n, a, m, d, x) ==
  /\ (((a + m) % n) + x - (d + m)) % n = (a + x - d) % n
  /\ (((a + m) % n) + x - (d + m - n)) % n = (a + x - d) % n

(* The index k unrolls a ring of n entries h from place t on, oldest entry *)
(* first, with n more entries after them; then the block that is d after   *)
(* the one at the tail has the entry it had.                               *)
Unrolls(k, h, n, t) ==
  /\ n > 0 /\ Capacity(h) = n /\ Capacity(k) = 2 * n
  /\ \A p \in 1 .. 2 * n : k.index[p] = IF p <= n THEN At(h, t + p) ELSE p
  /\ \A p, q \in 1 .. n : h.index[p] \in 1 .. n /\ (h.index[p] = h.index[q] => p = q)
SamePlaces(k, h, n, t) ==
  /\ \A d \in Int : 0 - n < d /\ d <= 0 => At(k, n - 1 + d) = At(h, t + d)
  /\ At(k, n - 1 + 1) = n + 1
  /\ \A d \in Int : 0 - 2 * n < d /\ d <= 0 - n => At(k, n - 1 + d) \in n + 1 .. 2 * n
  /\ \A p \in 1 .. 2 * n : k.index[p] \in 1 .. 2 * n
  /\ \A p, q \in 1 .. 2 * n : k.index[p] = k.index[q] => p = q

-------------------------------------------------------------------------------
(* The blocks in a ring, and the entry a writer fills.                     *)

(* Block x is in the ring, with the keys from there to the tail in order.  *)
Home(w, x) ==
  /\ x <= Top(w) /\ Top(w) < x + Len(entries[w])
  /\ EntryOf(w, x).value \in Blocks
  /\ \A y \in x .. Top(w) : EntryOf(w, y).key = Key(y)

(* A writer that starts a block has picked the entry after the tail, with  *)
(* no block in it; once it has a key an entry is no longer unwritten.      *)
Filling == Moved \cup {"tail", "rewind"}
Picked(w) ==
  /\ StartsBlock(w)
  /\ enq[w].at \in Filling \cup {"key"} =>
       /\ enq[w].entry = RingAt(w, Num(tailIndex[w]))
       /\ entries[w][enq[w].entry].value \notin Blocks
  /\ enq[w].at \in Filling => entries[w][enq[w].entry].key = tailIndex[w]
  /\ enq[w].at = "grow" => EntryOf(w, Num(tailIndex[w])).key # tailIndex[w]
  /\ enq[w].at \in {"fill", "value"} => enq[w].block \in Blocks
Fresh(w) ==
  \A e \in 1 .. Len(entries[w]) :
    /\ entries[w][e].key = INVALID_BLOCK_BASE => entries[w][e].value = Unwritten
    /\ entries[w][e].value = Unwritten =>
         \/ entries[w][e].key = INVALID_BLOCK_BASE
         \/ enq[w].at \in Filling /\ e = enq[w].entry
HeldHome(w) ==
  \A e \in 1 .. Len(entries[w]) :
    entries[w][e].value \in Blocks => \E x \in Nat : RingAt(w, x) = e /\ Home(w, x)
RingInv(w) == Shape(w) /\ Picked(w) /\ Fresh(w) /\ HeldHome(w)

(* The entry picked, in the ring of n entries: of block T, next to the     *)
(* tail.                                                                   *)
PickedAt(w, T, n, e) ==
  /\ T = Num(tailIndex[w]) /\ n = Len(entries[w]) /\ e = enq[w].entry
  /\ n > 0 /\ tailIndex[w] = Key(T)
  /\ e = RingAt(w, T) /\ e \in 1 .. n /\ RingAt(w, T - n) = e
  /\ enq[w].at \in Moved => Top(w) = T
  /\ enq[w].at \notin Moved => Top(w) = T - 1
  /\ \A y \in Int : T - n < y /\ y < T => RingAt(w, y) # e
  /\ \A y \in Int : RingAt(w, y) \in 1 .. n

-------------------------------------------------------------------------------
(* The entries after a step of a writer.                                   *)

(* What a step of a writer makes of the entries.                           *)
Remade(w, n, e) ==
  /\ ~ NewBlockIndex(w) => Len(entries'[w]) = n
  /\ NewBlockIndex(w) => /\ Len(entries'[w]) = 2 * n
                         /\ \A i \in n + 1 .. 2 * n : entries'[w][i] = FreshEntry
  /\ \A i \in 1 .. n :
       i # e \/ ~ (WriteKey(w) \/ ClearValue(w) \/ WriteValue(w)) =>
         entries'[w][i] = entries[w][i]
  /\ e \in 1 .. n =>
       /\ WriteKey(w) => /\ entries'[w][e].key = tailIndex[w]
                         /\ entries'[w][e].value = entries[w][e].value
       /\ ClearValue(w) => /\ entries'[w][e].key = entries[w][e].key
                           /\ entries'[w][e].value = NoBlock
       /\ WriteValue(w) => /\ entries'[w][e].key = entries[w][e].key
                           /\ entries'[w][e].value = enq[w].block

-------------------------------------------------------------------------------
(* Whose elements a block holds, and what a reader has found.              *)

(* The readers on their way to an element of block x, whether the block    *)
(* has elements to come, and how many indices in it have been given out.   *)
Flying == {"header", "tail", "key", "value", "move", "empty"}
InFlight(w, x) ==
  {r \in Readers : deq[r].of = w /\ deq[r].at \in Flying /\ Num(deq[r].index) = x}
Unfinished(w, x) == headIndex[w] < Key(x) + BLOCK_SIZE \/ InFlight(w, x) # {}
Claimed(w, x) ==
  IF headIndex[w] <= Key(x) THEN 0
  ELSE IF headIndex[w] >= Key(x) + BLOCK_SIZE THEN BLOCK_SIZE ELSE headIndex[w] - Key(x)

(* A block with elements to come is in the ring; what has been taken from  *)
(* it and what is about to be are the indices given out.                   *)
Live(w) == \A x \in Nat : x <= Written(w) /\ Unfinished(w, x) => Home(w, x)
Account(w) ==
  /\ \A x \in Nat : Home(w, x) =>
       elementsCompletelyDequeued[EntryOf(w, x).value] + Cardinality(InFlight(w, x))
         = Claimed(w, x)
  /\ enq[w].at = "value" => elementsCompletelyDequeued[enq[w].block] = 0

(* The tail t of the header g leads to block x: it is d entries after that *)
(* of x, and has the key of x + d.                                         *)
Leads(w, g, t, x) ==
  /\ g \in 1 .. Current(w)
  /\ \E d \in Nat :
       /\ x + d <= Num(tailIndex[w])
       /\ At(blockIndex[w][g], t - d) = RingAt(w, x)
       /\ At(blockIndex[w][g], t) = RingAt(w, x + d)
       /\ EntryOf(w, x + d).key = Key(x + d)

(* What a reader has found is right.                                       *)
ReaderOK(r) ==
  LET w == deq[r].of
      x == Num(deq[r].index)
      g == found[r].header
      a == deq[r].at
  IN
  /\ a \in Flying => deq[r].index < headIndex[w]
  /\ a = "tail" => /\ g \in 1 .. Current(w)
                   /\ g = Current(w) \/ Leads(w, g, blockIndex[w][g].tail, x)
  /\ a = "key" => Leads(w, g, found[r].tail, x)
  /\ a \in {"value", "move", "empty", "unlink"} => found[r].entry = RingAt(w, x)
  /\ a \in {"move", "empty", "unlink"} => found[r].block = EntryOf(w, x).value
  /\ a = "unlink" => Home(w, x) /\ elementsCompletelyDequeued[found[r].block] = BLOCK_SIZE

(* One reader takes a block out.                                           *)
Alone ==
  \A r, q \in Readers :
    r # q /\ deq[r].at = "unlink" /\ deq[q].at = "unlink" /\ deq[r].of = deq[q].of =>
      Num(deq[r].index) # Num(deq[q].index)

BlockInv ==
  /\ TypeOK /\ ListInv /\ Alone
  /\ \A w \in Writers : RingInv(w) /\ Live(w) /\ Account(w)
  /\ \A r \in Readers : ReaderOK(r)

(* What the invariant of the tickets says of the counters and the readers. *)
Served == \A w \in Writers : headIndex[w] <= tailIndex[w]
OfWriters == \A r \in Readers : deq[r].at # "idle" => deq[r].of \in Writers

-------------------------------------------------------------------------------
(* Steps that leave the index alone.                                       *)
IndexSame == UNCHANGED <<tailIndex, enq, blockIndex, entries>>

-------------------------------------------------------------------------------
(* The rest of a dequeue.                                                  *)

(* The steps of a dequeue before it has an index and after its block is    *)
(* gone.                                                                   *)
Looks(r) ==
  \/ \E w \in Writers : DequeueStart(r, w)
  \/ LoadOvercommit(r) \/ LoadOptimisticCount(r) \/ AddOptimisticCount(r)
  \/ Recheck(r) \/ AddOvercommit(r) \/ Freed(r)

-------------------------------------------------------------------------------
(* The steps of the lookup and the move.                                   *)
LooksUp(r) == LoadHeader(r) \/ LoadTail(r) \/ LoadKey(r) \/ LoadValue(r) \/ Move(r)

-------------------------------------------------------------------------------
(* An element less in a block; the last one takes the block out.           *)

(* What SetEmpty does, with its block and its count by name.               *)
Counts(r, b, c, v, i) ==
  /\ elementsCompletelyDequeued' = [elementsCompletelyDequeued EXCEPT ![b] = c + 1]
  /\ elementsCompletelyDequeued' \in [Blocks -> 0 .. BLOCK_SIZE]
  /\ deq' \in [Readers -> DeqLocal] /\ found' \in [Readers -> FoundLocal]
  /\ deq'[r].at \notin Flying /\ deq'[r].at \in {"idle", "unlink"}
  /\ deq'[r].at = "unlink" =>
       /\ c + 1 = BLOCK_SIZE /\ deq'[r].of = v
       /\ deq'[r].index = i /\ found'[r] = found[r]

(* A block is taken out of its entry.                                      *)
TakesOut(w, e) ==
  /\ UNCHANGED <<tailIndex, enq, blockIndex>>
  /\ entries' = [entries EXCEPT ![w][e].value = NoBlock]

(* The block a reader takes out has no elements to come and nobody else is *)
(* on the way to one.                                                      *)
Exhausted(r, v, x) ==
  /\ v \in Writers /\ x \in Nat /\ Home(v, x) /\ RingInv(v)
  /\ found[r].entry = RingAt(v, x) /\ RingAt(v, x) \in 1 .. Len(entries[v])
  /\ found[r].block = EntryOf(v, x).value /\ EntryOf(v, x).value \in Blocks
  /\ InFlight(v, x) = {} /\ ~ Unfinished(v, x)

-------------------------------------------------------------------------------
(* What the slots hold.                                                    *)

(* The elements put and not yet taken, and where they are.                 *)
Bound == {"header", "tail", "key", "value", "move"}
Pending(w, i) ==
  \/ headIndex[w] <= i /\ i < tailIndex[w]
  \/ enq[w].at = "publish" /\ i = tailIndex[w]
  \/ \E r \in Readers : deq[r].of = w /\ deq[r].at \in Bound /\ deq[r].index = i
Stored(b, w, i) == element[b][Slot(i)] = <<w, i>>

(* An element is in its slot from before it is published until the one     *)
(* reader that has its index takes it; the writer's block is that of the   *)
(* next index.                                                             *)
Contents(w) ==
  /\ \A i \in Nat : Pending(w, i) => Stored(EntryOf(w, Num(i)).value, w, i)
  /\ enq[w].at = "value" => Stored(enq[w].block, w, tailIndex[w])
Continues(w) == enq[w].at = "publish" \/ Slot(tailIndex[w]) # 0
TailHome(w) == Continues(w) => tailBlock[w] = EntryOf(w, Num(tailIndex[w])).value
Distinct ==
  \A r, q \in Readers :
    r # q /\ deq[r].of = deq[q].of /\ deq[r].at \in Bound /\ deq[q].at \in Bound =>
      deq[r].index # deq[q].index
SlotInv == Distinct /\ \A w \in Writers : Contents(w) /\ TailHome(w)

(* The block of such an element is in the ring and has more to come.       *)
InPlace(w, i) ==
  /\ Num(i) \in Nat /\ Num(i) <= Written(w) /\ Unfinished(w, Num(i)) /\ Home(w, Num(i))
  /\ EntryOf(w, Num(i)).value \in Blocks /\ Slot(i) \in 0 .. BLOCK_SIZE - 1

(* Who has an index after a step had it before or has just claimed it.     *)
Claims(r, w) ==
  /\ w \in Writers /\ deq[r].at = "claim" /\ headIndex' = [headIndex EXCEPT ![w] = @ + 1]
  /\ deq'[r].of = w /\ deq'[r].index = headIndex[w] /\ headIndex[w] < tailIndex[w]
KeepsIndex(r) ==
  deq[r].at \in Bound /\ deq'[r].of = deq[r].of /\ deq'[r].index = deq[r].index

-------------------------------------------------------------------------------
(* What a dequeue that misses has seen.                                    *)

Seeking == {"over", "count", "ticket", "recheck", "overcommit", "claim"}
Taken == {"empty", "unlink", "free"}

(* A dequeue between two calls has nothing, before the claim it has a      *)
(* span and no item, after the move the item of its index.                 *)
CallKept(r) ==
  /\ deq[r].at = "idle" => deq[r].of = NoWriter
  /\ deq[r].at \in Seeking \cup {"idle"} => found[r].item = NoItem
  /\ deq[r].at \notin Seeking => span[r] = NoSpan
  /\ deq[r].at \in Taken => found[r].item = <<deq[r].of, deq[r].index>>

(* Every ticket is decided or about to be.                                 *)
Exact(w) ==
  dequeueOptimisticCount[w] =
    Cardinality(took[w]) + Cardinality(failed[w]) + Cardinality(InAt(w, "recheck"))

(* The others that may still draw a ticket.                                *)
Undrawn == {"over", "count", "ticket"}
ToDraw(r, w) == {q \in Readers \ {r} : deq[q].of = w /\ deq[q].at \in Undrawn}

(* The tickets drawn or to be drawn, less those that failed before the     *)
(* dequeue looked, are of elements taken when it began or of dequeues      *)
(* around it.                                                              *)
Reckoned(r) == span[r].overlap + deq[r].tail - span[r].there
MissKept(r) ==
  LET w == deq[r].of
      a == deq[r].at
  IN
  /\ a \in Undrawn \cup {"recheck"} => deq[r].tail <= tailIndex[w]
  /\ a = "over" =>
       dequeueOptimisticCount[w] - dequeueOvercommit[w] + Cardinality(ToDraw(r, w))
         <= Reckoned(r)
  /\ a \in {"count", "ticket"} =>
       dequeueOptimisticCount[w] - deq[r].over + Cardinality(ToDraw(r, w)) <= Reckoned(r)
  /\ a = "recheck" => deq[r].my - deq[r].over <= Reckoned(r)
  /\ a = "overcommit" => span[r].there <= span[r].overlap

CallInv ==
  /\ \A w \in Writers : Exact(w)
  /\ \A r \in Readers : CallKept(r) /\ MissKept(r)

(* The places where a ticket is to be drawn, and its draw.                 *)
Starts(r) == /\ deq[r].at = "idle" /\ deq'[r].at = "over"
             /\ deq'[r].of \in Writers /\ DequeueStart(r, deq'[r].of)
             /\ UNCHANGED dequeueOptimisticCount
Draws(r) == /\ deq[r].at = "ticket" /\ deq'[r].at = "recheck" /\ deq'[r].of = deq[r].of
            /\ dequeueOptimisticCount' = [dequeueOptimisticCount EXCEPT ![deq[r].of] = @ + 1]
Rests(r) == /\ deq'[r].at \in Undrawn => deq[r].at \in Undrawn /\ deq'[r].of = deq[r].of
            /\ UNCHANGED dequeueOptimisticCount
            /\ deq[r].at # "idle"

(* The tickets drawn and to be drawn only grow by dequeues that begin.     *)
InPlay(q, v) == dequeueOptimisticCount[v] + Cardinality(ToDraw(q, v))

(* A miss has been accounted for.                                          *)
Accounted(r) == span[r].there <= span[r].overlap

-------------------------------------------------------------------------------
(* The streams of WriterStreams.                                           *)

(* What a dequeue has in hand: nothing before its claim, then the element  *)
(* of its index.                                                           *)
CallSeen(r) ==
  /\ deq[r].at \in Seeking \cup {"idle"} => ItemOf(r) = NoItem
  /\ deq[r].at \in Bound \cup Taken =>
       ItemOf(r) = <<deq[r].of, deq[r].index>> /\ ItemOf(r) # NoItem
  /\ deq[r].at = "idle" => Call[r] = Streams!Idle
  /\ \A w \in Writers : Streams!Looking(r, w) <=> Looking(r, w)

(* What the refinement reads: the invariants and what they say of calls.   *)
Mapped == Served /\ \A r \in Readers : CallSeen(r)
===============================================================================
