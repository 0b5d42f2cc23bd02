----------------------------- MODULE ProducerHash -----------------------------
(***************************************************************************)
(* How a thread that enqueues without a token finds its producer, the      *)
(* stream it writes (lib/include/concurrentqueue.h:                        *)
(* get_or_add_implicit_producer, recycle_or_create_producer, add_producer). *)
(* Producers are kept under the thread's number in an open-addressed hash  *)
(* table that is replaced by a larger one under use: the new table points  *)
(* to the old, and a thread copies its own entry when it next comes by.    *)
(* That a thread has one stream, which WriterStreams starts from, rests on *)
(* this table.                                                             *)
(*                                                                         *)
(* A step is one access to shared memory.  A compare-and-exchange on a key *)
(* is one step with the load before it: if it fails, the search goes on    *)
(* as it does after a load that finds the slot taken.  No producer becomes *)
(* inactive (there are no tokens, and thread_local is disabled), so none   *)
(* is recycled; a thread's number is not given to another.                 *)
(***************************************************************************)
EXTENDS Naturals, Sequences, FiniteSets

CONSTANTS
  Threads,
  Producers,   \* ImplicitProducer objects that can be made
  Hash,        \* hash_thread_id of each thread
  Initial,     \* INITIAL_IMPLICIT_PRODUCER_HASH_SIZE
  Capacities,  \* powers of two, from Initial on
  Failures,    \* bound: allocations that fail
  Nobody,      \* invalid_thread_id
  None         \* nullptr

ASSUME ProducerHashAssumption ==
  /\ Nobody \notin Threads /\ None \notin Producers
  /\ IsFiniteSet(Threads) /\ Hash \in [Threads -> Nat]
  /\ Capacities \subseteq Nat \ {0} /\ Initial \in Capacities
  /\ Failures \in Nat

VARIABLES
  tables,     \* every ImplicitProducerHash, in the order they were made
  main,       \* implicitProducerHash: the place of the current one
  count,      \* implicitProducerHashCount
  resizing,   \* implicitProducerHashResizeInProgress
  listed,     \* the producers in the list of producerListTail
  failed,     \* allocations that have failed
  at,         \* position in get_or_add_implicit_producer
  mainHash,   \* local: the table it works with
  hash,       \* local: the table it looks in
  off,        \* local: how far index is from where the search began
  claim,      \* newCount, until the count is given back; 0 if it has none
  producer,   \* local: the producer found or made
  mine        \* history: what the thread's calls have returned

sharedVars == <<tables, main, count, resizing>>
listVars == <<listed, failed>>
localVars == <<at, mainHash, hash, off, claim, producer>>
vars == <<sharedVars, listVars, localVars, mine>>

At == {"idle", "search", "copy", "count", "grow", "locked", "alloc", "unlock", "giveUp",
       "room", "place"}

Empty(c, p) ==
  [capacity |-> c, prev |-> p, key |-> [s \in 0 .. c - 1 |-> Nobody],
   value |-> [s \in 0 .. c - 1 |-> None]]

IsTable(h) == \E c \in Capacities :
  h \in [capacity : {c}, prev : Nat, key : [0 .. c - 1 -> Threads \cup {Nobody}],
         value : [0 .. c - 1 -> Producers \cup {None}]]

TypeOK ==
  /\ tables # <<>> /\ \A i \in DOMAIN tables : IsTable(tables[i])
  /\ main \in DOMAIN tables
  /\ count \in Nat /\ resizing \in BOOLEAN
  /\ listed \subseteq Producers
  /\ failed \in 0 .. Failures
  /\ at \in [Threads -> At]
  /\ mainHash \in [Threads -> DOMAIN tables] /\ hash \in [Threads -> DOMAIN tables]
  /\ off \in [Threads -> Nat] /\ claim \in [Threads -> Nat]
  /\ producer \in [Threads -> listed \cup {None}]
  /\ mine \in [Threads -> listed \cup {None}]

(* populate_initial_implicit_producer_hash, and an empty list.             *)
Init ==
  /\ tables = <<Empty(Initial, 0)>> /\ main = 1
  /\ count = 0 /\ resizing = FALSE
  /\ listed = {}
  /\ failed = 0
  /\ at = [t \in Threads |-> "idle"]
  /\ mainHash = [t \in Threads |-> 1] /\ hash = [t \in Threads |-> 1]
  /\ off = [t \in Threads |-> 0] /\ claim = [t \in Threads |-> 0]
  /\ producer = [t \in Threads |-> None] /\ mine = [t \in Threads |-> None]

-------------------------------------------------------------------------------
Goto(t, place) == at' = [at EXCEPT ![t] = place]

(* A loop over a table begins, at the slot of the thread's hash.           *)
Restart(t) == off' = [off EXCEPT ![t] = 0]

(* The locals of a call that is over keep no value.                        *)
Return(t) ==
  /\ Goto(t, "idle") /\ Restart(t)
  /\ mainHash' = [mainHash EXCEPT ![t] = 1]
  /\ hash' = [hash EXCEPT ![t] = 1]
  /\ producer' = [producer EXCEPT ![t] = None]

Slot(t, i) == (Hash[t] + off[t]) % tables[i].capacity
KeyAt(t, i) == tables[i].key[Slot(t, i)]
ValueAt(t, i) == tables[i].value[Slot(t, i)]

Begin(t) ==
  /\ at[t] = "idle"
  /\ Goto(t, "search") /\ Restart(t)
  /\ mainHash' = [mainHash EXCEPT ![t] = main]
  /\ hash' = [hash EXCEPT ![t] = main]
  /\ UNCHANGED <<sharedVars, listVars, claim, producer, mine>>

(* The thread's number is in the table it looks in: the current one as it  *)
(* knows it, or one behind, in which case the entry is copied.             *)
Find(t) ==
  /\ at[t] = "search" /\ KeyAt(t, hash[t]) = t
  /\ hash[t] = mainHash[t]
  /\ mine' = [mine EXCEPT ![t] = ValueAt(t, hash[t])]
  /\ Return(t)
  /\ UNCHANGED <<sharedVars, listVars, claim>>

FindBehind(t) ==
  /\ at[t] = "search" /\ KeyAt(t, hash[t]) = t
  /\ hash[t] # mainHash[t]
  /\ producer' = [producer EXCEPT ![t] = ValueAt(t, hash[t])]
  /\ Goto(t, "copy") /\ Restart(t)
  /\ UNCHANGED <<sharedVars, listVars, mainHash, hash, claim, mine>>

(* An empty slot: it is not in this table.                                 *)
LookBehind(t) ==
  /\ at[t] = "search" /\ KeyAt(t, hash[t]) = Nobody
  /\ tables[hash[t]].prev # 0
  /\ hash' = [hash EXCEPT ![t] = tables[hash[t]].prev]
  /\ Restart(t)
  /\ UNCHANGED <<sharedVars, listVars, at, mainHash, claim, producer, mine>>

NotFound(t) ==
  /\ at[t] = "search" /\ KeyAt(t, hash[t]) = Nobody
  /\ tables[hash[t]].prev = 0
  /\ Goto(t, "count") /\ Restart(t)
  /\ UNCHANGED <<sharedVars, listVars, mainHash, hash, claim, producer, mine>>

(* ++index, in each of the three loops.                                    *)
ProbeOn(t) ==
  /\ \/ at[t] = "search" /\ KeyAt(t, hash[t]) \notin {t, Nobody}
     \/ at[t] \in {"copy", "place"} /\ KeyAt(t, mainHash[t]) # Nobody
  /\ off' = [off EXCEPT ![t] = @ + 1]
  /\ UNCHANGED <<sharedVars, listVars, at, mainHash, hash, claim, producer, mine>>

Filled(h, s, t, p) ==
  [h EXCEPT !.key = [@ EXCEPT ![s] = t], !.value = [@ EXCEPT ![s] = p]]

(* The exchange of an empty key succeeds; only the thread itself ever      *)
(* reads the value.                                                        *)
Fill(t) ==
  LET i == mainHash[t] IN
  /\ at[t] \in {"copy", "place"} /\ KeyAt(t, i) = Nobody
  /\ tables' = [tables EXCEPT ![i] = Filled(@, Slot(t, i), t, producer[t])]
  /\ mine' = [mine EXCEPT ![t] = producer[t]]
  /\ Return(t)
  /\ UNCHANGED <<main, count, resizing, listVars, claim>>

-------------------------------------------------------------------------------
(* Making room.                                                            *)

CountIn(t) ==
  /\ at[t] = "count"
  /\ count' = count + 1
  /\ claim' = [claim EXCEPT ![t] = count + 1]
  /\ Goto(t, "grow")
  /\ UNCHANGED <<tables, main, resizing, listVars, mainHash, hash, off, producer,
                 mine>>

(* Mutant: the count is given back twice.                                  *)
CountOutTwice(t) ==
  /\ count' = count - 2
  /\ claim' = [claim EXCEPT ![t] = 0]

CountOut(t) ==
  /\ count' = count - 1
  /\ claim' = [claim EXCEPT ![t] = 0]

Crowded(n, i) == n >= tables[i].capacity \div 2

(* Mutant: as long as there is a slot.                                     *)
FitsAll(n, i) == n <= tables[i].capacity

(* Three quarters of the slots at most are given out.                      *)
Fits(n, i) == n < tables[i].capacity \div 2 + tables[i].capacity \div 4

(* test_and_set; only one thread gets the flag.                            *)
TakeFlag(t) ==
  /\ at[t] = "grow" /\ Crowded(claim[t], mainHash[t]) /\ ~resizing
  /\ resizing' = TRUE
  /\ Goto(t, "locked")
  /\ UNCHANGED <<tables, main, count, listVars, mainHash, hash, off, claim,
                 producer, mine>>

PassFlag(t) ==
  /\ at[t] = "grow" /\ (Crowded(claim[t], mainHash[t]) => resizing)
  /\ Goto(t, "room")
  /\ UNCHANGED <<sharedVars, listVars, mainHash, hash, off, claim, producer, mine>>

(* The capacity is doubled until the table is not crowded.                 *)
NewCapacity(c, n, i) ==
  /\ c \in Capacities /\ c > tables[i].capacity /\ n < c \div 2
  /\ \A d \in Capacities : d > tables[i].capacity /\ n < d \div 2 => c <= d

(* Mutant: it goes on with the table it loaded before it had the flag.     *)
ReloadStale(t) ==
  /\ at[t] = "locked"
  /\ Goto(t, "alloc")
  /\ UNCHANGED <<sharedVars, listVars, mainHash, hash, off, claim, producer, mine>>

(* The current table is loaded again: another thread may have grown it     *)
(* before this one had the flag.                                           *)
Reload(t) ==
  /\ at[t] = "locked"
  /\ mainHash' = [mainHash EXCEPT ![t] = main]
  /\ Goto(t, IF Crowded(claim[t], main) THEN "alloc" ELSE "unlock")
  /\ UNCHANGED <<sharedVars, listVars, hash, off, claim, producer, mine>>

(* A new table, with the one it replaces behind it.                        *)
Grow(t) ==
  /\ at[t] = "alloc"
  /\ \E c \in Capacities :
       /\ NewCapacity(c, claim[t], mainHash[t])
       /\ tables' = Append(tables, Empty(c, mainHash[t]))
  /\ main' = Len(tables) + 1
  /\ mainHash' = [mainHash EXCEPT ![t] = Len(tables) + 1]
  /\ Goto(t, "unlock")
  /\ UNCHANGED <<count, resizing, listVars, hash, off, claim, producer, mine>>

DropFlag(t) ==
  /\ at[t] = "unlock"
  /\ resizing' = FALSE
  /\ Goto(t, "room")
  /\ UNCHANGED <<tables, main, count, listVars, mainHash, hash, off, claim,
                 producer, mine>>

(* No memory for the table: the count is given back, then the flag, and    *)
(* the call returns nullptr.                                               *)
GrowFails(t) ==
  /\ at[t] = "alloc"
  /\ failed < Failures /\ failed' = failed + 1
  /\ CountOut(t)
  /\ Goto(t, "giveUp")
  /\ UNCHANGED <<tables, main, resizing, listed, mainHash, hash, off, producer, mine>>

(* Mutant: the flag stays.                                                 *)
GiveUpLocked(t) ==
  /\ at[t] = "giveUp"
  /\ Return(t)
  /\ UNCHANGED <<sharedVars, listVars, claim, mine>>

GiveUp(t) ==
  /\ at[t] = "giveUp"
  /\ resizing' = FALSE
  /\ Return(t)
  /\ UNCHANGED <<tables, main, count, listVars, claim, mine>>

(* Too full, and somebody else is making the next one: load it and see.    *)
WaitForTable(t) ==
  /\ at[t] = "room" /\ ~Fits(claim[t], mainHash[t])
  /\ mainHash' = [mainHash EXCEPT ![t] = main]
  /\ Goto(t, "grow")
  /\ UNCHANGED <<sharedVars, listVars, hash, off, claim, producer, mine>>

-------------------------------------------------------------------------------
(* The producer.                                                           *)

CreateFails(t) ==
  /\ at[t] = "room" /\ Fits(claim[t], mainHash[t])
  /\ failed < Failures /\ failed' = failed + 1
  /\ CountOut(t)
  /\ Return(t)
  /\ UNCHANGED <<tables, main, resizing, listed, mine>>

(* It is made and pushed to the list: one step, because a failed exchange  *)
(* of the list's begin is only tried again and nothing leaves the list.    *)
Create(t) ==
  /\ at[t] = "room" /\ Fits(claim[t], mainHash[t])
  /\ Producers \ listed # {}
  /\ LET p == CHOOSE q \in Producers : q \notin listed IN
       /\ listed' = listed \cup {p}
       /\ producer' = [producer EXCEPT ![t] = p]
  /\ Goto(t, "place") /\ Restart(t)
  /\ UNCHANGED <<sharedVars, failed, mainHash, hash, claim, mine>>

-------------------------------------------------------------------------------
Step(t) ==
  \/ Find(t) \/ FindBehind(t) \/ LookBehind(t) \/ NotFound(t) \/ ProbeOn(t)
  \/ Fill(t)
  \/ CountIn(t) \/ TakeFlag(t) \/ PassFlag(t)
  \/ Reload(t) \/ Grow(t) \/ DropFlag(t) \/ GrowFails(t) \/ GiveUp(t)
  \/ WaitForTable(t)
  \/ CreateFails(t) \/ Create(t)

Next == \E t \in Threads : Begin(t) \/ Step(t)

Spec == Init /\ [][Next]_vars

(* Every thread runs.  Nobody has to enqueue.                              *)
FairSpec == Spec /\ \A t \in Threads : WF_vars(Step(t))

-------------------------------------------------------------------------------
(* Every table keeps an empty slot, so that a search for a number that is  *)
(* not there ends ("Not an infinite loop because at least one slot is free *)
(* in the hash table"), although one count is kept for all tables, counts  *)
(* are given back and drawn again, and entries are copied later.           *)
HasRoom ==
  \A i \in DOMAIN tables : \E s \in DOMAIN tables[i].key : tables[i].key[s] = Nobody

(* A thread and the producers it has: what it was given, what it holds,    *)
(* what is under its number in some table.                                 *)
Belongs(t, p) ==
  \/ p = mine[t]
  \/ at[t] \in {"place", "copy"} /\ p = producer[t]
  \/ \E i \in DOMAIN tables : \E s \in DOMAIN tables[i].key :
       tables[i].key[s] = t /\ p = tables[i].value[s]

(* Whatever tables come and go under its calls, a thread has one producer, *)
(* the same in every call, and no two threads have the same: one stream    *)
(* per writer ("If it's not found, it must not be in there yet").          *)
OneProducerEach ==
  \A t, u \in Threads : \A p, q \in listed :
    Belongs(t, p) /\ Belongs(u, q) => (t = u <=> p = q)

(* A call returns, also when a thread that makes a table cannot and others *)
(* wait for it.                                                            *)
CallsReturn == \A t \in Threads : at[t] = "search" ~> at[t] = "idle"
===============================================================================
