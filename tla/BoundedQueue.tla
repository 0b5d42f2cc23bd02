----------------------------- MODULE BoundedQueue -----------------------------
(***************************************************************************)
(* What tp::Worker relies on of its queue: a bounded queue whose cells are *)
(* used in turn.  A push claims the next cell and stores its item in it; a *)
(* pop claims the oldest claimed cell, takes the item out and gives the    *)
(* cell back.  Between the two steps of a slow thread the others go on:    *)
(* then a push may be refused although fewer than QueueSize items are in   *)
(* the queue, and a pop may find nothing although there are items behind.  *)
(*                                                                         *)
(* MPMCQueue implements this module; ThreadPool has one such queue per     *)
(* worker.                                                                 *)
(***************************************************************************)
EXTENDS Naturals, Sequences

CONSTANTS
  Threads,
  Items,
  QueueSize,  \* number of cells
  MaxPush     \* bound of the model: how many pushes claim a cell

VARIABLES
  pushed,     \* the items of all claimed cells so far, in their order
  taken,      \* how many of them a pop has claimed
  storing,    \* the place in pushed a thread is writing, 0 if none
  taking,     \* the place in pushed a thread is taking out, 0 if none
  outcome     \* what the last call of each thread has returned

queueVars == <<pushed, taken, storing, taking, outcome>>

QueueInit ==
  /\ pushed = <<>> /\ taken = 0
  /\ storing = [t \in Threads |-> 0]
  /\ taking = [t \in Threads |-> 0]
  /\ outcome = [t \in Threads |-> "none"]

Resting(t) == storing[t] = 0 /\ taking[t] = 0

(* The item pushed QueueSize places before the next has not left its cell. *)
Full ==
  LET p == Len(pushed) + 1 - QueueSize IN
  p > 0 /\ (p > taken \/ \E t \in Threads : taking[t] = p)

(* The oldest unclaimed item is completely stored.                         *)
Ready ==
  /\ taken < Len(pushed)
  /\ \A t \in Threads : storing[t] # taken + 1

ClaimForPush(t, x) ==
  /\ Resting(t) /\ ~Full /\ Len(pushed) < MaxPush
  /\ pushed' = Append(pushed, x)
  /\ storing' = [storing EXCEPT ![t] = Len(pushed) + 1]
  /\ UNCHANGED <<taken, taking, outcome>>

Pushed(t) ==
  /\ storing[t] # 0
  /\ storing' = [storing EXCEPT ![t] = 0]
  /\ outcome' = [outcome EXCEPT ![t] = "pushed"]
  /\ UNCHANGED <<pushed, taken, taking>>

RefusedFull(t) ==
  /\ Resting(t) /\ Full
  /\ outcome' = [outcome EXCEPT ![t] = "full"]
  /\ UNCHANGED <<pushed, taken, storing, taking>>

ClaimForPop(t) ==
  /\ Resting(t) /\ Ready
  /\ taken' = taken + 1
  /\ taking' = [taking EXCEPT ![t] = taken + 1]
  /\ UNCHANGED <<pushed, storing, outcome>>

Popped(t) ==
  /\ taking[t] # 0
  /\ taking' = [taking EXCEPT ![t] = 0]
  /\ outcome' = [outcome EXCEPT ![t] = pushed[taking[t]]]
  /\ UNCHANGED <<pushed, taken, storing>>

FoundEmpty(t) ==
  /\ Resting(t) /\ ~Ready
  /\ outcome' = [outcome EXCEPT ![t] = "empty"]
  /\ UNCHANGED <<pushed, taken, storing, taking>>

QueueNext ==
  \E t \in Threads :
    \/ \E x \in Items : ClaimForPush(t, x)
    \/ Pushed(t) \/ RefusedFull(t)
    \/ ClaimForPop(t) \/ Popped(t) \/ FoundEmpty(t)

QueueSpec == QueueInit /\ [][QueueNext]_queueVars
===============================================================================
