------------------------------- MODULE FreeList -------------------------------
(***************************************************************************)
(* The lock-free list of unused blocks of a channel's queue                *)
(* (lib/include/concurrentqueue.h: FreeListNode, FreeList), one access to  *)
(* memory per step.  A node's freeListRefs counts the list and the threads *)
(* inside try_get that hold the node; the flag SHOULD_BE_ON_FREELIST asks  *)
(* whoever lets go of the node last to put it on the list.                 *)
(***************************************************************************)
EXTENDS Integers, FiniteSets

CONSTANTS
  Threads,
  Blocks,                 \* the nodes
  SHOULD_BE_ON_FREELIST,  \* the flag, a number above every count of holders
  NoBlock                 \* nullptr

ASSUME FreeListAssumption ==
  /\ IsFiniteSet(Threads)
  /\ SHOULD_BE_ON_FREELIST \in Nat
  /\ SHOULD_BE_ON_FREELIST > Cardinality(Threads) + 1
  /\ NoBlock \notin Blocks

VARIABLES
  freeListHead, freeListNext, freeListRefs,
  fl   \* where each thread is in the list's functions, and its locals
listVars == <<freeListHead, freeListNext, freeListRefs, fl>>

Node == Blocks \cup {NoBlock}

Places == {"out", "add", "link", "next", "refs", "swing", "retry",
           "head", "test", "hold", "read", "pop", "release", "drop"}

(* node: the argument of add, the result of try_get, prevHead in between.  *)
(* then: where add_knowing_refcount_is_zero goes on when it is done.       *)
Local ==
  [at : Places, node : Node, head : Node, next : Node, refs : Nat,
   then : {"out", "test"}]

ListTypeOK ==
  /\ freeListHead \in Node
  /\ freeListNext \in [Blocks -> Node]
  /\ freeListRefs \in [Blocks -> Nat]
  /\ fl \in [Threads -> Local]

Out == [at |-> "out", node |-> NoBlock, head |-> NoBlock, next |-> NoBlock,
        refs |-> 0, then |-> "out"]

ListInit ==
  /\ freeListHead = NoBlock
  /\ freeListNext = [b \in Blocks |-> NoBlock]
  /\ freeListRefs = [b \in Blocks |-> 0]
  /\ fl = [t \in Threads |-> Out]

(* refs & REFS_MASK.                                                       *)
Holders(refs) == refs % SHOULD_BE_ON_FREELIST

CallAdd(t, b) == fl' = [fl EXCEPT ![t] = [Out EXCEPT !.at = "add", !.node = b]]
CallTryGet(t) == fl' = [fl EXCEPT ![t] = [Out EXCEPT !.at = "head"]]
Returned(t) == fl[t].at = "out"

-------------------------------------------------------------------------------
(* add.                                                                    *)
AddFlag(t) ==
  LET b == fl[t].node IN
  /\ fl[t].at = "add"
  /\ freeListRefs' = [freeListRefs EXCEPT ![b] = @ + SHOULD_BE_ON_FREELIST]
  /\ fl' = IF freeListRefs[b] = 0 THEN [fl EXCEPT ![t].at = "link"]
                                  ELSE [fl EXCEPT ![t] = Out]
  /\ UNCHANGED <<freeListHead, freeListNext>>

(* add_knowing_refcount_is_zero.                                           *)
LinkHead(t) ==
  /\ fl[t].at = "link"
  /\ fl' = [fl EXCEPT ![t].at = "next", ![t].next = freeListHead]
  /\ UNCHANGED <<freeListHead, freeListNext, freeListRefs>>

LinkNext(t) ==
  /\ fl[t].at = "next"
  /\ freeListNext' = [freeListNext EXCEPT ![fl[t].node] = fl[t].next]
  /\ fl' = [fl EXCEPT ![t].at = "refs"]
  /\ UNCHANGED <<freeListHead, freeListRefs>>

LinkRefs(t) ==
  /\ fl[t].at = "refs"
  /\ freeListRefs' = [freeListRefs EXCEPT ![fl[t].node] = 1]
  /\ fl' = [fl EXCEPT ![t].at = "swing"]
  /\ UNCHANGED <<freeListHead, freeListNext>>

(* Back to try_get with the head it has seen, or out.                      *)
Linked(t) ==
  IF fl[t].then = "test"
    THEN [Out EXCEPT !.at = "test", !.head = fl[t].head]
    ELSE Out

LinkSwing(t) ==
  /\ fl[t].at = "swing"
  /\ IF freeListHead = fl[t].next
       THEN /\ freeListHead' = fl[t].node
            /\ fl' = [fl EXCEPT ![t] = Linked(t)]
       ELSE /\ fl' = [fl EXCEPT ![t].at = "retry", ![t].next = freeListHead]
            /\ UNCHANGED freeListHead
  /\ UNCHANGED <<freeListNext, freeListRefs>>

(* The node goes back to "should be on the list"; another thread may hold  *)
(* it by now and is left to add it.                                        *)
LinkRetry(t) ==
  LET b == fl[t].node IN
  /\ fl[t].at = "retry"
  /\ freeListRefs' = [freeListRefs EXCEPT ![b] = @ + SHOULD_BE_ON_FREELIST - 1]
  /\ fl' = [fl EXCEPT ![t] = IF freeListRefs[b] = 1 THEN [@ EXCEPT !.at = "next"]
                                                    ELSE Linked(t)]
  /\ UNCHANGED <<freeListHead, freeListNext>>

-------------------------------------------------------------------------------
(* try_get.                                                                *)
GetHead(t) ==
  /\ fl[t].at = "head"
  /\ fl' = [fl EXCEPT ![t].at = "test", ![t].head = freeListHead]
  /\ UNCHANGED <<freeListHead, freeListNext, freeListRefs>>

GetNothing(t) ==
  /\ fl[t].at = "test" /\ fl[t].head = NoBlock
  /\ fl' = [fl EXCEPT ![t] = Out]
  /\ UNCHANGED <<freeListHead, freeListNext, freeListRefs>>

(* Mutant: a node that nobody and no list refers to is taken for a head.   *)
GetTestAny(t) ==
  /\ fl[t].at = "test" /\ fl[t].head # NoBlock
  /\ fl' = [fl EXCEPT ![t].at = "hold", ![t].refs = freeListRefs[fl[t].head]]
  /\ UNCHANGED <<freeListHead, freeListNext, freeListRefs>>

GetTest(t) ==
  LET refs == freeListRefs[fl[t].head] IN
  /\ fl[t].at = "test" /\ fl[t].head # NoBlock
  /\ fl' = IF Holders(refs) = 0
             THEN [fl EXCEPT ![t].at = "head"]
             ELSE [fl EXCEPT ![t].at = "hold", ![t].refs = refs]
  /\ UNCHANGED <<freeListHead, freeListNext, freeListRefs>>

GetHold(t) ==
  LET b == fl[t].head IN
  /\ fl[t].at = "hold"
  /\ IF freeListRefs[b] = fl[t].refs
       THEN /\ freeListRefs' = [freeListRefs EXCEPT ![b] = @ + 1]
            /\ fl' = [fl EXCEPT ![t] = [Out EXCEPT !.at = "read", !.head = b]]
       ELSE /\ fl' = [fl EXCEPT ![t] = [Out EXCEPT !.at = "head"]]
            /\ UNCHANGED freeListRefs
  /\ UNCHANGED <<freeListHead, freeListNext>>

GetNext(t) ==
  /\ fl[t].at = "read"
  /\ fl' = [fl EXCEPT ![t].at = "pop", ![t].next = freeListNext[fl[t].head]]
  /\ UNCHANGED <<freeListHead, freeListNext, freeListRefs>>

GetPop(t) ==
  /\ fl[t].at = "pop"
  /\ IF freeListHead = fl[t].head
       THEN /\ freeListHead' = fl[t].next
            /\ fl' = [fl EXCEPT ![t] = [Out EXCEPT !.at = "release", !.node = fl[t].head]]
       ELSE /\ fl' = [fl EXCEPT ![t] = [Out EXCEPT !.at = "drop", !.node = fl[t].head,
                                                   !.head = freeListHead]]
            /\ UNCHANGED freeListHead
  /\ UNCHANGED <<freeListNext, freeListRefs>>

(* One for this thread, one for the list.                                  *)
GetRelease(t) ==
  /\ fl[t].at = "release"
  /\ freeListRefs' = [freeListRefs EXCEPT ![fl[t].node] = @ - 2]
  /\ fl' = [fl EXCEPT ![t].at = "out"]
  /\ UNCHANGED <<freeListHead, freeListNext>>

(* The head has changed.  Who was the last to hold a node that should be   *)
(* on the list puts it there, then tries again.                            *)
GetDrop(t) ==
  LET b == fl[t].node IN
  /\ fl[t].at = "drop"
  /\ freeListRefs' = [freeListRefs EXCEPT ![b] = @ - 1]
  /\ fl' = IF freeListRefs[b] = SHOULD_BE_ON_FREELIST + 1
             THEN [fl EXCEPT ![t].at = "link", ![t].then = "test"]
             ELSE [fl EXCEPT ![t].at = "test", ![t].node = NoBlock]
  /\ UNCHANGED <<freeListHead, freeListNext>>

ListStep(t) ==
  \/ AddFlag(t)
  \/ LinkHead(t) \/ LinkNext(t) \/ LinkRefs(t) \/ LinkSwing(t) \/ LinkRetry(t)
  \/ GetHead(t) \/ GetNothing(t) \/ GetTest(t) \/ GetHold(t) \/ GetNext(t)
  \/ GetPop(t) \/ GetRelease(t) \/ GetDrop(t)

-------------------------------------------------------------------------------
(* The nodes on the list: those in every set that holds the head and, with *)
(* a node, the next one.                                                   *)
OnList ==
  {b \in Blocks : \A S \in SUBSET Blocks :
     ({freeListHead} \cup {freeListNext[c] : c \in S}) \ {NoBlock} \subseteq S => b \in S}
===============================================================================
