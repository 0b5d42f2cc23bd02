-------------------------- MODULE ProducerHashProofs --------------------------
(***************************************************************************)
(* Theorems about ProducerHash for any number of threads, any hashes and   *)
(* any capacities: its types, an empty slot in every table, one producer   *)
(* for each thread.                                                        *)
(*                                                                         *)
(* The inductive invariant says where an entry can be: on a path without a *)
(* gap from its thread's hash (Entries), in none of the tables a search    *)
(* has left (ThreadOK).  There is room because who has an entry has a      *)
(* count smaller than the table, and no n+1 threads have counts up to n    *)
(* (Counts), although counts are drawn, given back and drawn again.        *)
(***************************************************************************)
EXTENDS ProducerHash, FiniteSetTheorems, TLAPS

Keys == UNION {[0 .. c - 1 -> Threads \cup {Nobody}] : c \in Capacities}
Values == UNION {[0 .. c - 1 -> Producers \cup {None}] : c \in Capacities}
Typed ==
  /\ TypeOK
  /\ tables \in Seq([capacity : Capacities, prev : Nat, key : Keys, value : Values])

(* Each table has the one it replaced behind it, which is no larger.       *)
Chain ==
  /\ main = Len(tables)
  /\ \A i \in DOMAIN tables : tables[i].prev = i - 1
  /\ \A i, j \in DOMAIN tables : i <= j => tables[i].capacity <= tables[j].capacity

(* The flag belongs to one thread, for which the current table stays.      *)
WithFlag == {"locked", "alloc", "unlock", "giveUp"}
Flagged ==
  /\ \A t \in Threads : at[t] \in WithFlag => resizing
  /\ \A t, u \in Threads : at[t] \in WithFlag /\ at[u] \in WithFlag => t = u
  /\ \A t \in Threads : at[t] = "alloc" => mainHash[t] = main

(* The count is the number of claims; no n+1 claims are n or less.         *)
Claimed == {t \in Threads : claim[t] # 0}
UpTo(n) == {t \in Threads : claim[t] # 0 /\ claim[t] <= n}
Counts ==
  /\ count = Cardinality(Claimed)
  /\ \A n \in Nat : Cardinality(UpTo(n)) <= n

(* Entries.                                                                *)
HasIn(t, i) == \E s \in DOMAIN tables[i].key : tables[i].key[s] = t
Has(t) == \E i \in DOMAIN tables : HasIn(t, i)
Probed(t, i, d) == (Hash[t] + d) % tables[i].capacity
Taken(t, i, n) == \A d \in Nat : d < n => tables[i].key[Probed(t, i, d)] # Nobody

EntryOK(i, s, t) ==
  /\ claim[t] # 0 /\ claim[t] < tables[i].capacity
  /\ tables[i].value[s] \in listed
  /\ \E d \in Nat : s = Probed(t, i, d) /\ Taken(t, i, d)
  /\ \A r \in DOMAIN tables[i].key : tables[i].key[r] = t => r = s

Entries ==
  \A i \in DOMAIN tables : \A s \in DOMAIN tables[i].key : \A t \in Threads :
    tables[i].key[s] = t => EntryOK(i, s, t)

(* What a thread knows.                                                    *)
Without == {"count", "grow", "locked", "alloc", "unlock", "giveUp", "room", "place"}
Claiming == {"grow", "locked", "alloc", "unlock", "room", "place"}

StageOK(t) ==
  /\ at[t] \in Without => ~Has(t)
  /\ at[t] \in {"count", "giveUp"} => claim[t] = 0
  /\ at[t] \in Claiming => claim[t] # 0
  /\ at[t] \in {"idle", "search"} /\ claim[t] # 0 => Has(t)
  /\ mine[t] # None => Has(t)

SearchOK(t) ==
  /\ at[t] \in {"search", "copy"} =>
       /\ hash[t] <= mainHash[t]
       /\ \A j \in DOMAIN tables : j > hash[t] => ~HasIn(t, j)
  /\ at[t] = "search" =>
       \A d \in Nat : d < off[t] =>
         tables[hash[t]].key[Probed(t, hash[t], d)] \notin {t, Nobody}

PlaceOK(t) ==
  /\ at[t] = "copy" => hash[t] < mainHash[t] /\ HasIn(t, hash[t])
  /\ at[t] = "place" => claim[t] < tables[mainHash[t]].capacity
  /\ at[t] \in {"copy", "place"} =>
       producer[t] \in listed /\ Taken(t, mainHash[t], off[t])

ThreadOK(t) == StageOK(t) /\ SearchOK(t) /\ PlaceOK(t)

IInv ==
  /\ Typed /\ Chain /\ Flagged /\ Counts /\ Entries
  /\ \A t \in Threads : ThreadOK(t)
  /\ OneProducerEach

-------------------------------------------------------------------------------
(* Tables.                                                                 *)

Shaped(h) ==
  /\ h.capacity \in Capacities /\ h.capacity \in Nat \ {0}
  /\ h.prev \in Nat
  /\ h.key \in [0 .. h.capacity - 1 -> Threads \cup {Nobody}]
  /\ h.value \in [0 .. h.capacity - 1 -> Producers \cup {None}]
  /\ DOMAIN h.key = 0 .. h.capacity - 1

LEMMA TableShaped ==
  ASSUME NEW h, IsTable(h)
  PROVE  Shaped(h)
<1>1. PICK c \in Capacities :
        h \in
          [capacity : {c}, prev : Nat, key : [0 .. c - 1 -> Threads \cup {Nobody}],
           value : [0 .. c - 1 -> Producers \cup {None}]]
  BY DEF IsTable
<1> QED
  BY <1>1, ProducerHashAssumption DEF Shaped

LEMMA Shapes ==
  ASSUME Typed
  PROVE  \A i \in DOMAIN tables : Shaped(tables[i])
BY TableShaped DEF Typed, TypeOK

LEMMA ShapesNext ==
  ASSUME Typed'
  PROVE  \A i \in DOMAIN tables' : Shaped(tables'[i])
BY TableShaped DEF Typed, TypeOK

LEMMA TablesInOrder ==
  ASSUME Typed
  PROVE  /\ Len(tables) \in Nat \ {0}
         /\ DOMAIN tables = 1 .. Len(tables)
BY DEF Typed, TypeOK

LEMMA ProbedInTable ==
  ASSUME Typed, NEW t \in Threads, NEW i \in DOMAIN tables, NEW d \in Nat
  PROVE  Probed(t, i, d) \in DOMAIN tables[i].key
<1>1. tables[i].capacity \in Nat \ {0} /\ DOMAIN tables[i].key = 0 .. tables[i].capacity - 1
  BY Shapes DEF Shaped
<1>2. Hash[t] + d \in Nat
  BY ProducerHashAssumption
<1> QED
  BY <1>1, <1>2 DEF Probed

(* What a thread does leaves the others' knowledge true: tables grow,      *)
(* filled slots stay filled, and nobody writes another's number.           *)
LEMMA Undisturbed ==
  ASSUME Typed, Typed', NEW u \in Threads, ThreadOK(u),
         at'[u] = at[u], mainHash'[u] = mainHash[u], hash'[u] = hash[u],
         off'[u] = off[u], claim'[u] = claim[u], producer'[u] = producer[u],
         mine'[u] = mine[u],
         listed \subseteq listed',
         DOMAIN tables \subseteq DOMAIN tables',
         \A i \in DOMAIN tables :
           /\ tables'[i].capacity = tables[i].capacity
           /\ \A s \in DOMAIN tables[i].key :
                /\ tables[i].key[s] # Nobody => tables'[i].key[s] # Nobody
                /\ tables'[i].key[s] = u <=> tables[i].key[s] = u,
         \A i \in DOMAIN tables' \ DOMAIN tables :
           \A s \in DOMAIN tables'[i].key : tables'[i].key[s] # u
  PROVE  ThreadOK(u)'
<1>1. \A i \in DOMAIN tables : DOMAIN tables'[i].key = DOMAIN tables[i].key
  BY Shapes, ShapesNext DEF Shaped
<1>2. \A i \in DOMAIN tables : HasIn(u, i)' <=> HasIn(u, i)
  BY <1>1 DEF HasIn
<1>3. \A i \in DOMAIN tables' \ DOMAIN tables : ~HasIn(u, i)'
  BY DEF HasIn
<1>4. Has(u)' <=> Has(u)
  BY <1>2, <1>3 DEF Has
<1>5. mainHash[u] \in DOMAIN tables /\ hash[u] \in DOMAIN tables
  BY DEF Typed, TypeOK
<1>6. \A i \in DOMAIN tables, d \in Nat :
        Probed(u, i, d)' = Probed(u, i, d) /\ Probed(u, i, d) \in DOMAIN tables[i].key
  BY ProbedInTable DEF Probed
<1>7. StageOK(u)'
  BY <1>4 DEF ThreadOK, StageOK
<1>8. SearchOK(u)'
  <2>1. at[u] \in {"search", "copy"} =>
          /\ hash'[u] <= mainHash'[u]
          /\ \A j \in DOMAIN tables' : j > hash'[u] => ~HasIn(u, j)'
    BY <1>2, <1>3 DEF ThreadOK, SearchOK
  <2>2. at[u] = "search" =>
          \A d \in Nat : d < off[u] =>
            tables'[hash[u]].key[Probed(u, hash[u], d)] \notin {u, Nobody}
    BY <1>5, <1>6 DEF ThreadOK, SearchOK
  <2> QED
    BY <2>1, <2>2, <1>5, <1>6 DEF SearchOK
<1>9. PlaceOK(u)'
  <2>1. \A i \in DOMAIN tables, n \in Nat : Taken(u, i, n) => Taken(u, i, n)'
    BY <1>6 DEF Taken
  <2>2. off[u] \in Nat
    BY DEF Typed, TypeOK
  <2> QED
    BY <2>1, <2>2, <1>2, <1>5 DEF ThreadOK, PlaceOK
<1> QED
  BY <1>7, <1>8, <1>9 DEF ThreadOK

-------------------------------------------------------------------------------
(* Types.                                                                  *)

LEMMA Looked ==
  ASSUME IInv, NEW t \in Threads, NEW i \in DOMAIN tables
  PROVE  /\ Slot(t, i) = Probed(t, i, off[t])
         /\ Slot(t, i) \in DOMAIN tables[i].key
         /\ KeyAt(t, i) = t => EntryOK(i, Slot(t, i), t) /\ ValueAt(t, i) \in listed
<1>1. Slot(t, i) = Probed(t, i, off[t])
  BY DEF Slot, Probed
<1>2. off[t] \in Nat
  BY DEF IInv, Typed, TypeOK
<1>3. Slot(t, i) \in DOMAIN tables[i].key
  BY <1>1, <1>2, ProbedInTable DEF IInv
<1>4. KeyAt(t, i) = t => EntryOK(i, Slot(t, i), t)
  BY <1>3 DEF KeyAt, IInv, Entries
<1> QED
  BY <1>1, <1>3, <1>4 DEF EntryOK, ValueAt

LEMMA ClaimedFinite ==
  /\ IsFiniteSet(Threads)
  /\ \A n : IsFiniteSet(UpTo(n))
  /\ IsFiniteSet(Claimed)
  /\ Cardinality(Claimed) \in Nat
  /\ \A n : Cardinality(UpTo(n)) \in Nat
<1>1. IsFiniteSet(Threads)
  BY ProducerHashAssumption
<1>2. IsFiniteSet(Claimed) /\ \A n : IsFiniteSet(UpTo(n))
  <2>1. Claimed \subseteq Threads /\ \A n : UpTo(n) \subseteq Threads
    BY DEF Claimed, UpTo
  <2> QED
    BY <1>1, <2>1, FS_Subset
<1> QED
  BY <1>1, <1>2, FS_CardinalityType

(* A count that is given back has been counted.                            *)
LEMMA CountPositive ==
  ASSUME IInv, NEW t \in Threads, claim[t] # 0
  PROVE  count \in Nat \ {0}
<1>1. t \in Claimed
  BY DEF Claimed
<1>2. Cardinality(Claimed) # 0
  BY <1>1, ClaimedFinite, FS_EmptySet
<1> QED
  BY <1>2, ClaimedFinite DEF IInv, Counts

LEMMA FilledShape ==
  ASSUME NEW h, IsTable(h), NEW s \in DOMAIN h.key, NEW t \in Threads,
         NEW p \in Producers \cup {None}
  PROVE  /\ IsTable(Filled(h, s, t, p))
         /\ Filled(h, s, t, p).capacity = h.capacity
         /\ Filled(h, s, t, p).prev = h.prev
         /\ Filled(h, s, t, p).key = [h.key EXCEPT ![s] = t]
         /\ Filled(h, s, t, p).value = [h.value EXCEPT ![s] = p]
<1>1. PICK c \in Capacities :
        h \in
          [capacity : {c}, prev : Nat, key : [0 .. c - 1 -> Threads \cup {Nobody}],
           value : [0 .. c - 1 -> Producers \cup {None}]]
  BY DEF IsTable
<1>2. /\ Filled(h, s, t, p).capacity = h.capacity
      /\ Filled(h, s, t, p).prev = h.prev
      /\ Filled(h, s, t, p).key = [h.key EXCEPT ![s] = t]
      /\ Filled(h, s, t, p).value = [h.value EXCEPT ![s] = p]
  BY <1>1 DEF Filled
<1>3. /\ [h.key EXCEPT ![s] = t] \in [0 .. c - 1 -> Threads \cup {Nobody}]
      /\ [h.value EXCEPT ![s] = p] \in [0 .. c - 1 -> Producers \cup {None}]
  BY <1>1
<1>4. Filled(h, s, t, p) \in
        [capacity : {c}, prev : Nat, key : [0 .. c - 1 -> Threads \cup {Nobody}],
         value : [0 .. c - 1 -> Producers \cup {None}]]
  BY <1>1, <1>3 DEF Filled
<1>5. IsTable(Filled(h, s, t, p))
  BY <1>4 DEF IsTable
<1> QED
  BY <1>2, <1>5

LEMMA EmptyShape ==
  ASSUME NEW c \in Capacities, NEW p \in Nat
  PROVE  /\ IsTable(Empty(c, p))
         /\ Empty(c, p).capacity = c /\ Empty(c, p).prev = p
         /\ DOMAIN Empty(c, p).key = 0 .. c - 1
         /\ \A s \in DOMAIN Empty(c, p).key : Empty(c, p).key[s] = Nobody
<1>1. /\ [s \in 0 .. c - 1 |-> Nobody] \in [0 .. c - 1 -> Threads \cup {Nobody}]
      /\ [s \in 0 .. c - 1 |-> None] \in [0 .. c - 1 -> Producers \cup {None}]
  OBVIOUS
<1>2. IsTable(Empty(c, p))
  BY <1>1 DEF IsTable, Empty
<1> QED
  BY <1>2 DEF Empty

LEMMA ShapedRecord ==
  ASSUME NEW h, IsTable(h)
  PROVE  h \in [capacity : Capacities, prev : Nat, key : Keys, value : Values]
BY DEF IsTable, Keys, Values

LEMMA ReturnTyped ==
  ASSUME Typed, NEW t \in Threads, Return(t),
         DOMAIN tables' = DOMAIN tables, listed' = listed
  PROVE  /\ at' \in [Threads -> At] /\ off' \in [Threads -> Nat]
         /\ mainHash' \in [Threads -> DOMAIN tables']
         /\ hash' \in [Threads -> DOMAIN tables']
         /\ producer' \in [Threads -> listed' \cup {None}]
<1>1. 1 \in DOMAIN tables
  BY TablesInOrder
<1> QED
  BY <1>1 DEF Typed, TypeOK, Return, Goto, Restart, At

LEMMA StepTyped ==
  ASSUME IInv, NEW t \in Threads, Begin(t) \/ Step(t)
  PROVE  Typed'
<1> USE DEF sharedVars, listVars, localVars, Goto, Restart, Return, At
<1>1. Typed
  BY DEF IInv
<1>2. mainHash[t] \in DOMAIN tables /\ hash[t] \in DOMAIN tables
  BY <1>1 DEF Typed, TypeOK
<1>3. DOMAIN tables = 1 .. Len(tables) /\ Len(tables) \in Nat \ {0}
  BY <1>1, TablesInOrder
<1>4. main = Len(tables) /\ main \in DOMAIN tables
  BY <1>3 DEF IInv, Chain
<1>5. CASE Begin(t)
  BY <1>1, <1>3, <1>4, <1>5 DEF Begin, Typed, TypeOK
<1>6. CASE Find(t)
  <2>1. ValueAt(t, hash[t]) \in listed
    BY <1>2, <1>6, Looked DEF Find
  <2> QED
    BY <1>1, <1>3, <1>6, <2>1 DEF Find, Typed, TypeOK
<1>7. CASE FindBehind(t)
  <2>1. ValueAt(t, hash[t]) \in listed
    BY <1>2, <1>7, Looked DEF FindBehind
  <2> QED
    BY <1>1, <1>7, <2>1 DEF FindBehind, Typed, TypeOK
<1>8. CASE LookBehind(t)
  <2>1. tables[hash[t]].prev = hash[t] - 1
    BY <1>2 DEF IInv, Chain
  <2>2. tables[hash[t]].prev \in DOMAIN tables
    BY <1>2, <1>3, <1>8, <2>1 DEF LookBehind
  <2> QED
    BY <1>1, <1>8, <2>2 DEF LookBehind, Typed, TypeOK
<1>9. CASE NotFound(t)
  BY <1>1, <1>9 DEF NotFound, Typed, TypeOK
<1>10. CASE ProbeOn(t)
  BY <1>1, <1>10 DEF ProbeOn, Typed, TypeOK
<1>11. CASE Fill(t)
  <2> DEFINE i == mainHash[t]
  <2>1. Slot(t, i) \in DOMAIN tables[i].key
    BY <1>2, Looked
  <2>2. producer[t] \in listed \cup {None} /\ producer[t] \in Producers \cup {None}
    BY <1>1 DEF Typed, TypeOK
  <2>3. IsTable(tables[i])
    BY <1>1, <1>2 DEF Typed, TypeOK
  <2>4. tables' = [tables EXCEPT ![i] = Filled(tables[i], Slot(t, i), t, producer[t])]
    BY <1>11 DEF Fill
  <2>5. IsTable(Filled(tables[i], Slot(t, i), t, producer[t]))
    BY <2>1, <2>2, <2>3, FilledShape
  <2>6. /\ Len(tables') = Len(tables) /\ DOMAIN tables' = DOMAIN tables
        /\ \A j \in DOMAIN tables' : IsTable(tables'[j])
        /\ tables' \in Seq([capacity : Capacities, prev : Nat, key : Keys, value : Values])
    <3>1. Filled(tables[i], Slot(t, i), t, producer[t])
            \in [capacity : Capacities, prev : Nat, key : Keys, value : Values]
      BY <2>5, ShapedRecord
    <3>2. \A j \in DOMAIN tables : IsTable(tables[j])
      BY <1>1 DEF Typed, TypeOK
    <3> QED
      BY <1>1, <1>2, <2>4, <2>5, <3>1, <3>2 DEF Typed
  <2>7. tables' # <<>>
    BY <1>3, <2>6
  <2>8. /\ Return(t)
        /\ mine' = [mine EXCEPT ![t] = producer[t]]
        /\ main' = main /\ count' = count /\ resizing' = resizing
        /\ listed' = listed /\ failed' = failed /\ claim' = claim
    BY <1>11 DEF Fill
  <2>9. /\ at' \in [Threads -> At] /\ off' \in [Threads -> Nat]
        /\ mainHash' \in [Threads -> DOMAIN tables']
        /\ hash' \in [Threads -> DOMAIN tables']
        /\ producer' \in [Threads -> listed' \cup {None}]
    BY <1>1, <2>6, <2>8, ReturnTyped
  <2> QED
    BY <1>1, <2>2, <2>6, <2>7, <2>8, <2>9 DEF Typed, TypeOK
<1>12. CASE CountIn(t)
  BY <1>1, <1>12 DEF CountIn, Typed, TypeOK
<1>13. CASE TakeFlag(t)
  BY <1>1, <1>13 DEF TakeFlag, Typed, TypeOK
<1>14. CASE PassFlag(t)
  BY <1>1, <1>14 DEF PassFlag, Typed, TypeOK
<1>15. CASE Reload(t)
  BY <1>1, <1>15 DEF Reload, Typed, TypeOK
<1>16. CASE Grow(t)
  <2>1. PICK c \in Capacities : tables' = Append(tables, Empty(c, mainHash[t]))
    BY <1>16 DEF Grow
  <2>2. mainHash[t] \in Nat
    BY <1>2, <1>3
  <2>3. IsTable(Empty(c, mainHash[t]))
    BY <2>2, EmptyShape
  <2>4. /\ Len(tables') = Len(tables) + 1 /\ DOMAIN tables' = 1 .. Len(tables) + 1
        /\ \A j \in DOMAIN tables' : IsTable(tables'[j])
        /\ tables' \in Seq([capacity : Capacities, prev : Nat, key : Keys, value : Values])
    <3>1. Empty(c, mainHash[t])
            \in [capacity : Capacities, prev : Nat, key : Keys, value : Values]
      BY <2>3, ShapedRecord
    <3>2. \A j \in DOMAIN tables : IsTable(tables[j])
      BY <1>1 DEF Typed, TypeOK
    <3> QED
      BY <1>1, <1>3, <2>1, <2>3, <3>1, <3>2 DEF Typed
  <2>5. tables' # <<>> /\ DOMAIN tables \subseteq DOMAIN tables' /\ Len(tables) + 1 \in DOMAIN tables'
    BY <1>3, <2>4
  <2>6. /\ main' = Len(tables) + 1
        /\ mainHash' = [mainHash EXCEPT ![t] = Len(tables) + 1]
        /\ at' = [at EXCEPT ![t] = "unlock"]
        /\ UNCHANGED <<count, resizing, listed, failed, hash, off, claim, producer, mine>>
    BY <1>16 DEF Grow
  <2> QED
    BY <1>1, <2>4, <2>5, <2>6 DEF Typed, TypeOK
<1>17. CASE DropFlag(t)
  BY <1>1, <1>17 DEF DropFlag, Typed, TypeOK
<1>18. CASE GrowFails(t)
  <2>1. claim[t] # 0
    BY <1>18 DEF GrowFails, IInv, ThreadOK, StageOK, Claiming
  <2>2. count - 1 \in Nat
    BY <2>1, CountPositive
  <2>3. failed + 1 \in 0 .. Failures
    BY <1>1, <1>18, ProducerHashAssumption DEF GrowFails, Typed, TypeOK
  <2> QED
    BY <1>1, <1>18, <2>2, <2>3 DEF GrowFails, CountOut, Typed, TypeOK
<1>19. CASE GiveUp(t)
  <2>1. /\ Return(t)
        /\ resizing' = FALSE
        /\ UNCHANGED <<tables, main, count, listed, failed, claim, mine>>
    BY <1>19 DEF GiveUp
  <2>2. /\ at' \in [Threads -> At] /\ off' \in [Threads -> Nat]
        /\ mainHash' \in [Threads -> DOMAIN tables']
        /\ hash' \in [Threads -> DOMAIN tables']
        /\ producer' \in [Threads -> listed' \cup {None}]
    BY <1>1, <2>1, ReturnTyped
  <2> QED
    BY <1>1, <2>1, <2>2 DEF Typed, TypeOK
<1>20. CASE WaitForTable(t)
  BY <1>1, <1>20 DEF WaitForTable, Typed, TypeOK
<1>21. CASE CreateFails(t)
  <2>1. claim[t] # 0
    BY <1>21 DEF CreateFails, IInv, ThreadOK, StageOK, Claiming
  <2>2. count - 1 \in Nat
    BY <2>1, CountPositive
  <2>3. failed + 1 \in 0 .. Failures
    BY <1>1, <1>21, ProducerHashAssumption DEF CreateFails, Typed, TypeOK
  <2> QED
    BY <1>1, <1>3, <1>21, <2>2, <2>3 DEF CreateFails, CountOut, Typed, TypeOK
<1>22. CASE Create(t)
  <2>1. PICK p \in Producers :
          listed' = listed \cup {p} /\ producer' = [producer EXCEPT ![t] = p]
    BY <1>22 DEF Create
  <2> QED
    BY <1>1, <1>22, <2>1 DEF Create, Typed, TypeOK
<1> QED
  BY <1>5, <1>6, <1>7, <1>8, <1>9, <1>10, <1>11, <1>12, <1>13, <1>14, <1>15, <1>16,
     <1>17, <1>18, <1>19, <1>20, <1>21, <1>22 DEF Step

-------------------------------------------------------------------------------
(* What happens to the tables.                                             *)

LEMMA TablesKept ==
  ASSUME NEW t \in Threads, Begin(t) \/ Step(t), ~Fill(t), ~Grow(t)
  PROVE  tables' = tables /\ main' = main
BY DEF Step, sharedVars, Begin, Find, FindBehind, LookBehind, NotFound, ProbeOn,
       CountIn, TakeFlag, PassFlag, Reload, DropFlag, GrowFails, GiveUp, WaitForTable,
       CreateFails, Create

LEMMA FillFacts ==
  ASSUME IInv, NEW t \in Threads, Fill(t)
  PROVE  LET i == mainHash[t]
             s == Slot(t, i)
         IN
         /\ i \in DOMAIN tables /\ s \in DOMAIN tables[i].key
         /\ tables[i].key[s] = Nobody
         /\ Len(tables') = Len(tables) /\ DOMAIN tables' = DOMAIN tables
         /\ \A j \in DOMAIN tables :
              /\ tables'[j].capacity = tables[j].capacity
              /\ tables'[j].prev = tables[j].prev
              /\ DOMAIN tables'[j].key = DOMAIN tables[j].key
              /\ \A r \in DOMAIN tables[j].key :
                   IF j = i /\ r = s
                     THEN tables'[j].key[r] = t /\ tables'[j].value[r] = producer[t]
                     ELSE /\ tables'[j].key[r] = tables[j].key[r]
                          /\ tables'[j].value[r] = tables[j].value[r]
<1> DEFINE i == mainHash[t]
           s == Slot(t, i)
           h == Filled(tables[i], s, t, producer[t])
<1>1. Typed
  BY DEF IInv
<1>2. i \in DOMAIN tables
  BY <1>1 DEF Typed, TypeOK
<1>3. s \in DOMAIN tables[i].key
  BY <1>2, Looked
<1>4. tables' = [tables EXCEPT ![i] = h] /\ tables[i].key[s] = Nobody
  BY DEF Fill, KeyAt
<1>5. IsTable(tables[i]) /\ producer[t] \in Producers \cup {None}
  BY <1>1, <1>2 DEF Typed, TypeOK
<1>6. /\ IsTable(h)
      /\ h.capacity = tables[i].capacity /\ h.prev = tables[i].prev
      /\ h.key = [tables[i].key EXCEPT ![s] = t]
      /\ h.value = [tables[i].value EXCEPT ![s] = producer[t]]
  BY <1>3, <1>5, FilledShape
<1>7. /\ DOMAIN tables[i].key = DOMAIN tables[i].value
      /\ DOMAIN tables[i].key = DOMAIN h.key
  BY <1>1, <1>2, <1>6, Shapes DEF Shaped
<1> HIDE DEF i, s, h
<1>8. Len(tables') = Len(tables) /\ DOMAIN tables' = DOMAIN tables
  BY <1>1, <1>2, <1>4, <1>6, ShapedRecord DEF Typed
<1>9. tables'[i] = h /\ \A j \in DOMAIN tables : j # i => tables'[j] = tables[j]
  BY <1>2, <1>4
<1>10. \A j \in DOMAIN tables :
         /\ tables'[j].capacity = tables[j].capacity
         /\ tables'[j].prev = tables[j].prev
         /\ DOMAIN tables'[j].key = DOMAIN tables[j].key
  BY <1>6, <1>7, <1>9
<1>11. \A j \in DOMAIN tables : \A r \in DOMAIN tables[j].key :
         IF j = i /\ r = s
           THEN tables'[j].key[r] = t /\ tables'[j].value[r] = producer[t]
           ELSE /\ tables'[j].key[r] = tables[j].key[r]
                /\ tables'[j].value[r] = tables[j].value[r]
  <2> TAKE j \in DOMAIN tables
  <2> TAKE r \in DOMAIN tables[j].key
  <2>1. CASE j # i
    BY <1>9, <2>1
  <2>2. CASE j = i
    <3>1. /\ DOMAIN tables[i].key = DOMAIN tables[i].value
          /\ r \in DOMAIN tables[i].key /\ tables'[i] = h
      BY <1>7, <1>9, <2>2
    <3>2. h.key[r] = IF r = s THEN t ELSE tables[i].key[r]
      BY <1>6, <3>1
    <3>3. h.value[r] = IF r = s THEN producer[t] ELSE tables[i].value[r]
      BY <1>6, <3>1
    <3> QED
      BY <2>2, <3>1, <3>2, <3>3
  <2> QED
    BY <2>1, <2>2
<1> QED
  BY <1>2, <1>3, <1>4, <1>8, <1>10, <1>11 DEF i, s

LEMMA GrowFacts ==
  ASSUME IInv, NEW t \in Threads, Grow(t)
  PROVE  /\ main = Len(tables) /\ mainHash[t] = main /\ Len(tables) \in Nat \ {0}
         /\ main' = Len(tables) + 1 /\ Len(tables') = Len(tables) + 1
         /\ DOMAIN tables = 1 .. Len(tables)
         /\ DOMAIN tables' = 1 .. Len(tables) + 1
         /\ \A j \in DOMAIN tables : tables'[j] = tables[j]
         /\ tables'[Len(tables) + 1].capacity > tables[main].capacity
         /\ tables'[Len(tables) + 1].prev = main
         /\ \A s \in DOMAIN tables'[Len(tables) + 1].key :
              tables'[Len(tables) + 1].key[s] = Nobody
<1>1. Typed
  BY DEF IInv
<1>2. /\ main = Len(tables) /\ Len(tables) \in Nat \ {0}
      /\ DOMAIN tables = 1 .. Len(tables)
  BY <1>1, TablesInOrder DEF IInv, Chain
<1>3. at[t] = "alloc" /\ mainHash[t] = main
  BY DEF Grow, IInv, Flagged
<1>4. PICK c \in Capacities :
        /\ NewCapacity(c, claim[t], mainHash[t])
        /\ tables' = Append(tables, Empty(c, mainHash[t]))
  BY DEF Grow
<1>5. /\ IsTable(Empty(c, mainHash[t]))
      /\ Empty(c, mainHash[t]).capacity = c /\ Empty(c, mainHash[t]).prev = main
      /\ \A s \in DOMAIN Empty(c, mainHash[t]).key : Empty(c, mainHash[t]).key[s] = Nobody
  BY <1>2, <1>3, EmptyShape
<1>6. /\ Len(tables') = Len(tables) + 1
      /\ DOMAIN tables' = 1 .. Len(tables) + 1
      /\ \A j \in DOMAIN tables : tables'[j] = tables[j]
      /\ tables'[Len(tables) + 1] = Empty(c, mainHash[t])
  BY <1>1, <1>2, <1>4, <1>5, ShapedRecord DEF Typed
<1>7. c > tables[main].capacity
  BY <1>3, <1>4 DEF NewCapacity
<1>8. main' = Len(tables) + 1
  BY DEF Grow
<1> QED
  BY <1>2, <1>3, <1>5, <1>6, <1>7, <1>8

LEMMA StepChain ==
  ASSUME IInv, NEW t \in Threads, Begin(t) \/ Step(t), Typed'
  PROVE  Chain'
<1>1. CASE ~Fill(t) /\ ~Grow(t)
  BY <1>1, TablesKept DEF IInv, Chain
<1>2. CASE Fill(t)
  <2>1. main' = main
    BY <1>2 DEF Fill
  <2>2. /\ Len(tables') = Len(tables) /\ DOMAIN tables' = DOMAIN tables
        /\ \A j \in DOMAIN tables :
             tables'[j].capacity = tables[j].capacity /\ tables'[j].prev = tables[j].prev
    BY <1>2, FillFacts
  <2> QED
    BY <2>1, <2>2 DEF IInv, Chain
<1>3. CASE Grow(t)
  <2>1. /\ main = Len(tables) /\ Len(tables) \in Nat \ {0}
        /\ main' = Len(tables) + 1 /\ Len(tables') = Len(tables) + 1
        /\ DOMAIN tables = 1 .. Len(tables)
        /\ DOMAIN tables' = 1 .. Len(tables) + 1
        /\ \A j \in DOMAIN tables : tables'[j] = tables[j]
        /\ tables'[Len(tables) + 1].capacity > tables[main].capacity
        /\ tables'[Len(tables) + 1].prev = main
    BY <1>3, GrowFacts
  <2>2. \A i \in DOMAIN tables' : tables'[i].prev = i - 1
    BY <2>1 DEF IInv, Chain
  <2>3. /\ \A i \in DOMAIN tables : tables[i].capacity \in Nat
        /\ \A i \in DOMAIN tables' : tables'[i].capacity \in Nat
    BY Shapes, ShapesNext DEF Shaped, IInv
  <2>4. \A i, j \in DOMAIN tables' : i <= j => tables'[i].capacity <= tables'[j].capacity
    <3>1. SUFFICES ASSUME NEW i \in 1 .. Len(tables) + 1, NEW j \in 1 .. Len(tables) + 1, i <= j
                   PROVE  tables'[i].capacity <= tables'[j].capacity
      BY <2>1
    <3>2. CASE j \in DOMAIN tables
      BY <3>1, <3>2, <2>1 DEF IInv, Chain
    <3>3. CASE i = Len(tables) + 1
      BY <3>1, <3>3, <2>1, <2>3
    <3>4. CASE j = Len(tables) + 1 /\ i \in DOMAIN tables
      <4>1. tables[i].capacity <= tables[main].capacity
        BY <3>4, <2>1 DEF IInv, Chain
      <4> QED
        BY <4>1, <3>4, <2>1, <2>3
    <3> QED
      BY <3>1, <3>2, <3>3, <3>4, <2>1
  <2> QED
    BY <2>1, <2>2, <2>4 DEF Chain
<1> QED
  BY <1>1, <1>2, <1>3

LEMMA StepFlagged ==
  ASSUME IInv, NEW t \in Threads, Begin(t) \/ Step(t)
  PROVE  Flagged'
<1> USE DEF IInv, Flagged, WithFlag, Typed, TypeOK, sharedVars, Goto, Return, Restart
<1>1. CASE Begin(t)
  BY <1>1 DEF Begin
<1>2. CASE Find(t)
  BY <1>2 DEF Find
<1>3. CASE FindBehind(t)
  BY <1>3 DEF FindBehind
<1>4. CASE LookBehind(t)
  BY <1>4 DEF LookBehind
<1>5. CASE NotFound(t)
  BY <1>5 DEF NotFound
<1>6. CASE ProbeOn(t)
  BY <1>6 DEF ProbeOn
<1>7. CASE Fill(t)
  BY <1>7 DEF Fill
<1>8. CASE CountIn(t)
  BY <1>8 DEF CountIn
<1>9. CASE TakeFlag(t)
  BY <1>9 DEF TakeFlag
<1>10. CASE PassFlag(t)
  BY <1>10 DEF PassFlag
<1>11. CASE Reload(t)
  BY <1>11 DEF Reload
<1>12. CASE Grow(t)
  BY <1>12 DEF Grow
<1>13. CASE DropFlag(t)
  BY <1>13 DEF DropFlag
<1>14. CASE GrowFails(t)
  BY <1>14 DEF GrowFails
<1>15. CASE GiveUp(t)
  BY <1>15 DEF GiveUp
<1>16. CASE WaitForTable(t)
  BY <1>16 DEF WaitForTable
<1>17. CASE CreateFails(t)
  BY <1>17 DEF CreateFails
<1>18. CASE Create(t)
  BY <1>18 DEF Create
<1> QED
  BY <1>1, <1>2, <1>3, <1>4, <1>5, <1>6, <1>7, <1>8, <1>9, <1>10, <1>11, <1>12, <1>13,
     <1>14, <1>15, <1>16, <1>17, <1>18 DEF Step

(* Counts: a claim is drawn above all others' number, or given back.       *)
LEMMA StepCounts ==
  ASSUME IInv, NEW t \in Threads, Begin(t) \/ Step(t)
  PROVE  Counts'
<1>1. /\ claim \in [Threads -> Nat] /\ count = Cardinality(Claimed)
      /\ \A n \in Nat : Cardinality(UpTo(n)) <= n
  BY DEF IInv, Typed, TypeOK, Counts
<1>2. CASE claim' = claim /\ count' = count
  BY <1>1, <1>2 DEF Counts, Claimed, UpTo
<1>3. CASE CountIn(t)
  <2>1. claim[t] = 0
    BY <1>3 DEF CountIn, IInv, ThreadOK, StageOK
  <2>2. count \in Nat
    BY <1>1, ClaimedFinite
  <2>3. claim' = [claim EXCEPT ![t] = count + 1] /\ count' = count + 1
    BY <1>3 DEF CountIn
  <2>4. Claimed' = Claimed \cup {t} /\ t \notin Claimed
    BY <1>1, <2>1, <2>2, <2>3 DEF Claimed
  <2>5. Cardinality(Claimed') = count + 1 /\ IsFiniteSet(Claimed')
    BY <1>1, <2>4, ClaimedFinite, FS_AddElement
  <2>6. \A n \in Nat : Cardinality(UpTo(n)') <= n
    <3>1. SUFFICES ASSUME NEW n \in Nat
                   PROVE  Cardinality(UpTo(n)') <= n
      OBVIOUS
    <3>2. CASE n >= count + 1
      <4>1. UpTo(n)' \subseteq Claimed'
        BY DEF UpTo, Claimed
      <4>2. Cardinality(UpTo(n)') <= count + 1 /\ IsFiniteSet(UpTo(n)')
        BY <4>1, <2>5, FS_Subset
      <4>3. Cardinality(UpTo(n)') \in Nat
        BY <4>2, FS_CardinalityType
      <4> QED
        BY <4>2, <4>3, <3>2, <2>2
    <3>3. CASE n < count + 1
      <4>1. UpTo(n)' = UpTo(n)
        BY <1>1, <2>1, <2>2, <2>3, <3>3 DEF UpTo
      <4> QED
        BY <4>1, <1>1
    <3> QED
      BY <3>2, <3>3, <2>2
  <2> QED
    BY <2>3, <2>5, <2>6 DEF Counts
<1>4. CASE GrowFails(t) \/ CreateFails(t)
  <2>1. claim[t] # 0
    BY <1>4 DEF GrowFails, CreateFails, IInv, ThreadOK, StageOK, Claiming
  <2>2. claim' = [claim EXCEPT ![t] = 0] /\ count' = count - 1
    BY <1>4 DEF GrowFails, CreateFails, CountOut
  <2>3. Claimed' = Claimed \ {t} /\ t \in Claimed
    BY <1>1, <2>1, <2>2 DEF Claimed
  <2>4. Cardinality(Claimed') = count - 1
    BY <1>1, <2>3, ClaimedFinite, FS_RemoveElement
  <2>5. \A n \in Nat : Cardinality(UpTo(n)') <= n
    <3>1. SUFFICES ASSUME NEW n \in Nat
                   PROVE  Cardinality(UpTo(n)') <= n
      OBVIOUS
    <3>2. UpTo(n)' \subseteq UpTo(n)
      BY <1>1, <2>2 DEF UpTo
    <3>3. Cardinality(UpTo(n)') <= Cardinality(UpTo(n)) /\ IsFiniteSet(UpTo(n)')
      BY <3>2, ClaimedFinite, FS_Subset
    <3>4. Cardinality(UpTo(n)') \in Nat /\ Cardinality(UpTo(n)) \in Nat
      BY <3>3, ClaimedFinite, FS_CardinalityType
    <3> QED
      BY <3>3, <3>4, <1>1
  <2> QED
    BY <2>2, <2>4, <2>5 DEF Counts
<1>5. (claim' = claim /\ count' = count) \/ CountIn(t) \/ GrowFails(t) \/ CreateFails(t)
  BY DEF Step, sharedVars, Begin, Find, FindBehind, LookBehind, NotFound, ProbeOn, Fill,
         TakeFlag, PassFlag, Reload, Grow, DropFlag, GiveUp, WaitForTable, Create
<1> QED
  BY <1>2, <1>3, <1>4, <1>5

-------------------------------------------------------------------------------
(* Entries.                                                                *)

(* A thread about to fill a slot has none in that table, has not skipped   *)
(* an empty slot, and has a count that the table has room for.             *)
LEMMA FillReady ==
  ASSUME IInv, NEW t \in Threads, Fill(t)
  PROVE  /\ claim[t] # 0 /\ claim[t] < tables[mainHash[t]].capacity
         /\ producer[t] \in listed
         /\ Taken(t, mainHash[t], off[t])
         /\ ~HasIn(t, mainHash[t])
<1>1. at[t] \in {"copy", "place"}
  BY DEF Fill
<1>2. Typed /\ ThreadOK(t)
  BY DEF IInv
<1>3. mainHash[t] \in DOMAIN tables /\ hash[t] \in DOMAIN tables
  BY <1>2 DEF Typed, TypeOK
<1>4. producer[t] \in listed /\ Taken(t, mainHash[t], off[t])
  BY <1>1, <1>2 DEF ThreadOK, PlaceOK
<1>5. CASE at[t] = "place"
  <2>1. claim[t] # 0 /\ claim[t] < tables[mainHash[t]].capacity /\ ~Has(t)
    BY <1>2, <1>5 DEF ThreadOK, StageOK, PlaceOK, Without, Claiming
  <2> QED
    BY <1>3, <1>4, <2>1 DEF Has
<1>6. CASE at[t] = "copy"
  <2>1. hash[t] < mainHash[t] /\ HasIn(t, hash[t])
    BY <1>2, <1>6 DEF ThreadOK, PlaceOK
  <2>2. ~HasIn(t, mainHash[t])
    BY <1>2, <1>3, <1>6, <2>1 DEF ThreadOK, SearchOK
  <2>3. claim[t] # 0 /\ claim[t] < tables[hash[t]].capacity
    BY <1>3, <2>1 DEF HasIn, IInv, Entries, EntryOK
  <2>4. tables[hash[t]].capacity <= tables[mainHash[t]].capacity
    <3>1. hash[t] \in Nat /\ mainHash[t] \in Nat
      BY <1>2, <1>3, TablesInOrder
    <3> QED
      BY <3>1, <1>3, <2>1 DEF IInv, Chain
  <2>5. /\ tables[hash[t]].capacity \in Nat /\ tables[mainHash[t]].capacity \in Nat
        /\ claim[t] \in Nat
    BY <1>2, <1>3, Shapes DEF Shaped, Typed, TypeOK
  <2> QED
    BY <1>4, <2>2, <2>3, <2>4, <2>5
<1> QED
  BY <1>1, <1>5, <1>6

LEMMA ListedGrows ==
  ASSUME IInv, NEW t \in Threads, Begin(t) \/ Step(t)
  PROVE  listed \subseteq listed'
BY DEF Step, listVars, Begin, Find, FindBehind, LookBehind, NotFound, ProbeOn, Fill,
       CountIn, TakeFlag, PassFlag, Reload, Grow, DropFlag, GrowFails, GiveUp,
       WaitForTable, CreateFails, Create

LEMMA OthersSame ==
  ASSUME IInv, NEW t \in Threads, Begin(t) \/ Step(t), NEW u \in Threads, u # t
  PROVE  /\ at'[u] = at[u] /\ mainHash'[u] = mainHash[u] /\ hash'[u] = hash[u]
         /\ off'[u] = off[u] /\ claim'[u] = claim[u] /\ producer'[u] = producer[u]
         /\ mine'[u] = mine[u]
<1>1. /\ at \in [Threads -> At]
      /\ mainHash \in [Threads -> DOMAIN tables] /\ hash \in [Threads -> DOMAIN tables]
      /\ off \in [Threads -> Nat] /\ claim \in [Threads -> Nat]
      /\ producer \in [Threads -> listed \cup {None}]
      /\ mine \in [Threads -> listed \cup {None}]
  BY DEF IInv, Typed, TypeOK
<1> QED
  BY <1>1 DEF Step, Begin, Find, FindBehind, LookBehind, NotFound, ProbeOn, Fill,
       CountIn, TakeFlag, PassFlag, Reload, Grow, DropFlag, GrowFails, GiveUp,
       WaitForTable, CreateFails, Create, CountOut, Goto, Restart, Return

(* Only a thread that has no entry draws a count or gives one back.        *)
LEMMA ClaimKept ==
  ASSUME IInv, NEW t \in Threads, Begin(t) \/ Step(t), NEW u \in Threads, Has(u)
  PROVE  claim'[u] = claim[u]
<1>1. CASE u # t
  BY <1>1, OthersSame
<1>2. CASE u = t
  <2>1. at[t] \notin Without
    BY <1>2 DEF IInv, ThreadOK, StageOK
  <2>2. claim' = claim
    BY <2>1 DEF Without, Step, Begin, Find, FindBehind, LookBehind, NotFound, ProbeOn,
         Fill, CountIn, TakeFlag, PassFlag, Reload, Grow, DropFlag, GrowFails, GiveUp,
         WaitForTable, CreateFails, Create
  <2> QED
    BY <1>2, <2>2
<1> QED
  BY <1>1, <1>2

LEMMA StepEntries ==
  ASSUME IInv, NEW t \in Threads, Begin(t) \/ Step(t)
  PROVE  Entries'
<1>1. Typed /\ Entries
  BY DEF IInv
<1>2. listed \subseteq listed'
  BY ListedGrows
<1>3. \A i \in DOMAIN tables : \A s \in DOMAIN tables[i].key : \A u \in Threads :
        tables[i].key[s] = u => EntryOK(i, s, u) /\ claim'[u] = claim[u]
  BY <1>1, ClaimKept DEF Entries, Has, HasIn
<1>4. CASE tables' = tables
  <2>1. SUFFICES ASSUME NEW i \in DOMAIN tables, NEW s \in DOMAIN tables[i].key,
                        NEW u \in Threads, tables[i].key[s] = u
                 PROVE  EntryOK(i, s, u)'
    BY <1>4 DEF Entries
  <2>2. EntryOK(i, s, u) /\ claim'[u] = claim[u]
    BY <1>3, <2>1
  <2> QED
    BY <1>2, <1>4, <2>2 DEF EntryOK, Probed, Taken
<1>5. CASE Grow(t)
  <2>1. SUFFICES ASSUME NEW i \in DOMAIN tables', NEW s \in DOMAIN tables'[i].key,
                        NEW u \in Threads, tables'[i].key[s] = u
                 PROVE  EntryOK(i, s, u)'
    BY DEF Entries
  <2>2. i \in DOMAIN tables /\ tables'[i] = tables[i]
    BY <1>5, <2>1, GrowFacts, ProducerHashAssumption
  <2>3. EntryOK(i, s, u) /\ claim'[u] = claim[u]
    BY <1>3, <2>1, <2>2
  <2> QED
    BY <1>2, <2>2, <2>3 DEF EntryOK, Probed, Taken
<1>6. CASE Fill(t)
  <2> DEFINE m == mainHash[t]
             p == Slot(t, m)
  <2>1. /\ m \in DOMAIN tables /\ p \in DOMAIN tables[m].key
        /\ tables[m].key[p] = Nobody
        /\ DOMAIN tables' = DOMAIN tables
        /\ \A j \in DOMAIN tables :
             /\ tables'[j].capacity = tables[j].capacity
             /\ DOMAIN tables'[j].key = DOMAIN tables[j].key
             /\ \A r \in DOMAIN tables[j].key :
                  IF j = m /\ r = p
                    THEN tables'[j].key[r] = t /\ tables'[j].value[r] = producer[t]
                    ELSE /\ tables'[j].key[r] = tables[j].key[r]
                         /\ tables'[j].value[r] = tables[j].value[r]
    BY <1>6, FillFacts
  <2>2. /\ claim[t] # 0 /\ claim[t] < tables[m].capacity
        /\ producer[t] \in listed
        /\ Taken(t, m, off[t])
        /\ ~HasIn(t, m)
    BY <1>6, FillReady
  <2>3. p = Probed(t, m, off[t]) /\ off[t] \in Nat
    BY <1>1, <2>1, Looked DEF Typed, TypeOK
  <2>4. claim' = claim
    BY <1>6 DEF Fill
  <2>5. \A v \in Threads, j \in DOMAIN tables, d \in Nat :
          Probed(v, j, d)' = Probed(v, j, d) /\ Probed(v, j, d) \in DOMAIN tables[j].key
    BY <1>1, <2>1, ProbedInTable DEF Probed
  <2> HIDE DEF m, p
  <2>6. \A v \in Threads, j \in DOMAIN tables, d \in Nat : Taken(v, j, d) => Taken(v, j, d)'
    BY <2>1, <2>5, ProducerHashAssumption DEF Taken
  <2>7. SUFFICES ASSUME NEW i \in DOMAIN tables, NEW s \in DOMAIN tables[i].key,
                        NEW u \in Threads, tables'[i].key[s] = u
                 PROVE  EntryOK(i, s, u)'
    BY <2>1 DEF Entries
  <2>8. CASE i = m /\ s = p
    <3>1. u = t /\ tables'[i].value[s] = producer[t]
      BY <2>1, <2>7, <2>8
    <3>2. claim'[u] # 0 /\ claim'[u] < tables'[i].capacity /\ tables'[i].value[s] \in listed'
      BY <1>2, <2>1, <2>2, <2>4, <2>8, <3>1
    <3>3. \E d \in Nat : s = Probed(u, i, d)' /\ Taken(u, i, d)'
      <4>1. PICK d \in Nat : d = off[t]
        BY <2>3
      <4>2. s = Probed(u, i, d) /\ Taken(u, i, d)
        BY <2>2, <2>3, <2>8, <3>1, <4>1
      <4> QED
        BY <2>5, <2>6, <4>2
    <3>4. \A r \in DOMAIN tables'[i].key : tables'[i].key[r] = u => r = s
      BY <2>1, <2>2, <2>8, <3>1 DEF HasIn
    <3> QED
      BY <3>2, <3>3, <3>4 DEF EntryOK
  <2>9. CASE ~(i = m /\ s = p)
    <3>1. tables[i].key[s] = u /\ tables'[i].value[s] = tables[i].value[s]
      BY <2>1, <2>7, <2>9
    <3>2. EntryOK(i, s, u)
      BY <1>3, <3>1
    <3>3. claim'[u] # 0 /\ claim'[u] < tables'[i].capacity /\ tables'[i].value[s] \in listed'
      BY <1>2, <2>1, <2>4, <3>1, <3>2 DEF EntryOK
    <3>4. \E d \in Nat : s = Probed(u, i, d)' /\ Taken(u, i, d)'
      BY <2>5, <2>6, <3>2 DEF EntryOK
    <3>5. i = m => u # t
      BY <2>2, <3>1 DEF HasIn
    <3>6. \A r \in DOMAIN tables'[i].key : tables'[i].key[r] = u => r = s
      BY <2>1, <3>2, <3>5 DEF EntryOK
    <3> QED
      BY <3>3, <3>4, <3>6 DEF EntryOK
  <2> QED
    BY <2>8, <2>9
<1> QED
  BY <1>4, <1>5, <1>6, TablesKept

-------------------------------------------------------------------------------
(* What threads know.                                                      *)

LEMMA StepOthers ==
  ASSUME IInv, NEW t \in Threads, Begin(t) \/ Step(t), Typed',
         NEW u \in Threads, u # t
  PROVE  ThreadOK(u)'
<1>1. Typed /\ ThreadOK(u) /\ listed \subseteq listed'
  BY ListedGrows DEF IInv
<1>2. /\ at'[u] = at[u] /\ mainHash'[u] = mainHash[u] /\ hash'[u] = hash[u]
      /\ off'[u] = off[u] /\ claim'[u] = claim[u] /\ producer'[u] = producer[u]
      /\ mine'[u] = mine[u]
  BY OthersSame
<1>3. /\ DOMAIN tables \subseteq DOMAIN tables'
      /\ \A i \in DOMAIN tables :
           /\ tables'[i].capacity = tables[i].capacity
           /\ \A s \in DOMAIN tables[i].key :
                /\ tables[i].key[s] # Nobody => tables'[i].key[s] # Nobody
                /\ tables'[i].key[s] = u <=> tables[i].key[s] = u
      /\ \A i \in DOMAIN tables' \ DOMAIN tables :
           \A s \in DOMAIN tables'[i].key : tables'[i].key[s] # u
  <2>1. CASE ~Fill(t) /\ ~Grow(t)
    BY <2>1, TablesKept
  <2>2. CASE Fill(t)
    BY <2>2, FillFacts, ProducerHashAssumption
  <2>3. CASE Grow(t)
    BY <2>3, GrowFacts, ProducerHashAssumption
  <2> QED
    BY <2>1, <2>2, <2>3
<1> QED
  BY <1>1, <1>2, <1>3, Undisturbed

(* A search that ends at an empty slot has shown that there is no entry in *)
(* the table: an entry lies on a path without a gap.                       *)
LEMMA NotHere ==
  ASSUME IInv, NEW t \in Threads, at[t] = "search", KeyAt(t, hash[t]) = Nobody
  PROVE  ~HasIn(t, hash[t])
<1> DEFINE i == hash[t]
<1>1. i \in DOMAIN tables /\ off[t] \in Nat
  BY DEF IInv, Typed, TypeOK
<1>2. tables[i].key[Probed(t, i, off[t])] = Nobody
  BY <1>1, Looked DEF KeyAt
<1>3. \A d \in Nat : d < off[t] => tables[i].key[Probed(t, i, d)] # t
  BY DEF IInv, ThreadOK, SearchOK
<1>4. SUFFICES ASSUME NEW s \in DOMAIN tables[i].key, tables[i].key[s] = t
               PROVE  FALSE
  BY DEF HasIn
<1>5. PICK d \in Nat : s = Probed(t, i, d) /\ Taken(t, i, d)
  BY <1>1, <1>4 DEF IInv, Entries, EntryOK
<1>6. CASE d < off[t]
  BY <1>3, <1>4, <1>5, <1>6
<1>7. CASE d = off[t]
  BY <1>2, <1>4, <1>5, <1>7, ProducerHashAssumption
<1>8. CASE d > off[t]
  BY <1>1, <1>2, <1>5, <1>8 DEF Taken
<1> QED
  BY <1>1, <1>5, <1>6, <1>7, <1>8

(* A search through all tables has shown that there is no entry anywhere.  *)
LEMMA NotAnywhere ==
  ASSUME IInv, NEW t \in Threads, NotFound(t)
  PROVE  ~Has(t)
<1>1. at[t] = "search" /\ KeyAt(t, hash[t]) = Nobody /\ tables[hash[t]].prev = 0
  BY DEF NotFound
<1>2. hash[t] \in DOMAIN tables /\ DOMAIN tables = 1 .. Len(tables) /\ Len(tables) \in Nat
  BY TablesInOrder DEF IInv, Typed, TypeOK
<1>3. hash[t] = 1
  BY <1>1, <1>2 DEF IInv, Chain
<1>4. ~HasIn(t, hash[t])
  BY <1>1, NotHere
<1>5. \A j \in DOMAIN tables : j > hash[t] => ~HasIn(t, j)
  BY <1>1 DEF IInv, ThreadOK, SearchOK
<1> QED
  BY <1>2, <1>3, <1>4, <1>5 DEF Has

(* A thread after its own step, when the tables stay.                      *)
LEMMA Locals ==
  ASSUME Typed
  PROVE  /\ at \in [Threads -> At]
         /\ mainHash \in [Threads -> DOMAIN tables] /\ hash \in [Threads -> DOMAIN tables]
         /\ off \in [Threads -> Nat] /\ claim \in [Threads -> Nat]
         /\ producer \in [Threads -> listed \cup {None}]
         /\ mine \in [Threads -> listed \cup {None}]
         /\ main \in DOMAIN tables /\ count \in Nat
BY DEF Typed, TypeOK

LEMMA SelfStage ==
  ASSUME IInv, NEW t \in Threads, Begin(t) \/ Step(t), ~Fill(t), ~Grow(t)
  PROVE  StageOK(t)'
<1>1. Has(t)' <=> Has(t)
  BY TablesKept DEF HasIn, Has
<1>2. /\ at[t] \in Without => ~Has(t)
      /\ at[t] \in {"count", "giveUp"} => claim[t] = 0
      /\ at[t] \in Claiming => claim[t] # 0
      /\ at[t] \in {"idle", "search"} /\ claim[t] # 0 => Has(t)
      /\ mine[t] # None => Has(t)
  BY DEF IInv, ThreadOK, StageOK
<1>3. at \in [Threads -> At] /\ claim \in [Threads -> Nat] /\ count \in Nat
  BY Locals DEF IInv
<1> USE <1>1, <1>2, <1>3 DEF StageOK, Without, Claiming, Goto, Return
<1>4. CASE Begin(t)
  BY <1>4 DEF Begin
<1>5. CASE Find(t)
  <2>1. hash[t] \in DOMAIN tables /\ Slot(t, hash[t]) \in DOMAIN tables[hash[t]].key
    BY Locals, Looked DEF IInv
  <2>2. Has(t)
    BY <1>5, <2>1 DEF Find, KeyAt, HasIn, Has
  <2> QED
    BY <1>5, <2>2 DEF Find
<1>6. CASE FindBehind(t)
  BY <1>6 DEF FindBehind
<1>7. CASE LookBehind(t)
  BY <1>7 DEF LookBehind
<1>8. CASE NotFound(t)
  <2>1. ~Has(t)
    BY <1>8, NotAnywhere
  <2> QED
    BY <1>8, <2>1 DEF NotFound
<1>9. CASE ProbeOn(t)
  BY <1>9 DEF ProbeOn
<1>10. CASE CountIn(t)
  BY <1>10 DEF CountIn
<1>11. CASE TakeFlag(t)
  BY <1>11 DEF TakeFlag
<1>12. CASE PassFlag(t)
  BY <1>12 DEF PassFlag
<1>13. CASE Reload(t)
  BY <1>13 DEF Reload
<1>14. CASE DropFlag(t)
  BY <1>14 DEF DropFlag
<1>15. CASE GrowFails(t)
  BY <1>15 DEF GrowFails, CountOut
<1>16. CASE GiveUp(t)
  BY <1>16 DEF GiveUp
<1>17. CASE WaitForTable(t)
  BY <1>17 DEF WaitForTable
<1>18. CASE CreateFails(t)
  BY <1>18 DEF CreateFails, CountOut
<1>19. CASE Create(t)
  BY <1>19 DEF Create
<1> QED
  BY <1>4, <1>5, <1>6, <1>7, <1>8, <1>9, <1>10, <1>11, <1>12, <1>13, <1>14, <1>15, <1>16,
     <1>17, <1>18, <1>19 DEF Step

(* Only the steps of a search lead to where the next two say something.    *)
LEMMA SelfElsewhere ==
  ASSUME IInv, NEW t \in Threads, Begin(t) \/ Step(t), ~Begin(t), ~FindBehind(t),
         ~LookBehind(t), ~ProbeOn(t)
  PROVE  /\ at'[t] \notin {"search", "copy"}
         /\ at'[t] = "place" => Create(t)
<1>1. at \in [Threads -> At]
  BY Locals DEF IInv
<1> QED
  BY <1>1 DEF Step, Find, NotFound, Fill, CountIn, TakeFlag, PassFlag, Reload, Grow,
     DropFlag, GrowFails, GiveUp, WaitForTable, CreateFails, Create, Goto, Return

LEMMA SelfSearch ==
  ASSUME IInv, NEW t \in Threads, Begin(t) \/ Step(t), ~Fill(t), ~Grow(t)
  PROVE  SearchOK(t)'
<1>1. Typed /\ SearchOK(t) /\ tables' = tables
  BY TablesKept DEF IInv, ThreadOK
<1>2. /\ \A i \in DOMAIN tables : HasIn(t, i)' <=> HasIn(t, i)
      /\ \A i \in DOMAIN tables, d \in Nat : Probed(t, i, d)' = Probed(t, i, d)
  BY <1>1 DEF HasIn, Probed
<1>3. /\ at \in [Threads -> At]
      /\ mainHash \in [Threads -> DOMAIN tables] /\ hash \in [Threads -> DOMAIN tables]
      /\ off \in [Threads -> Nat] /\ main \in DOMAIN tables
      /\ DOMAIN tables = 1 .. Len(tables) /\ Len(tables) \in Nat
      /\ main = Len(tables)
  BY <1>1, Locals, TablesInOrder DEF IInv, Chain
<1>4. CASE Begin(t)
  <2>1. at'[t] = "search" /\ off'[t] = 0 /\ hash'[t] = main /\ mainHash'[t] = main
    BY <1>3, <1>4 DEF Begin, Goto, Restart
  <2> QED
    BY <1>1, <1>3, <2>1 DEF SearchOK
<1>5. CASE FindBehind(t)
  <2>1. /\ at[t] = "search"
        /\ at'[t] = "copy" /\ hash'[t] = hash[t] /\ mainHash'[t] = mainHash[t]
    BY <1>3, <1>5 DEF FindBehind, Goto
  <2> QED
    BY <1>1, <1>2, <2>1 DEF SearchOK
<1>6. CASE LookBehind(t)
  <2>1. /\ at[t] = "search" /\ KeyAt(t, hash[t]) = Nobody /\ tables[hash[t]].prev # 0
        /\ at'[t] = "search" /\ hash'[t] = tables[hash[t]].prev
        /\ mainHash'[t] = mainHash[t] /\ off'[t] = 0
    BY <1>3, <1>6 DEF LookBehind, Restart
  <2>2. hash'[t] = hash[t] - 1 /\ hash[t] \in Nat /\ mainHash[t] \in Nat
    BY <1>3, <2>1 DEF IInv, Chain
  <2>3. ~HasIn(t, hash[t])
    BY <2>1, NotHere
  <2>4. hash[t] <= mainHash[t] /\ \A j \in DOMAIN tables : j > hash[t] => ~HasIn(t, j)
    BY <1>1, <2>1 DEF SearchOK
  <2>5. \A j \in DOMAIN tables : j > hash'[t] => j > hash[t] \/ j = hash[t]
    BY <1>3, <2>2
  <2>6. hash'[t] <= mainHash'[t] /\ \A j \in DOMAIN tables' : j > hash'[t] => ~HasIn(t, j)'
    BY <1>1, <1>2, <2>1, <2>2, <2>3, <2>4, <2>5
  <2>7. \A d \in Nat : ~(d < off'[t])
    BY <2>1
  <2> QED
    BY <2>6, <2>7 DEF SearchOK
<1>7. CASE ProbeOn(t)
  <2>1. /\ at'[t] = at[t] /\ hash'[t] = hash[t] /\ mainHash'[t] = mainHash[t]
        /\ off'[t] = off[t] + 1 /\ hash[t] \in DOMAIN tables /\ off[t] \in Nat
        /\ at[t] = "search" => KeyAt(t, hash[t]) \notin {t, Nobody}
    BY <1>3, <1>7 DEF ProbeOn
  <2>2. at[t] = "search" => tables[hash[t]].key[Probed(t, hash[t], off[t])] \notin {t, Nobody}
    BY <2>1, Looked DEF KeyAt
  <2>3. at[t] \in {"search", "copy"} =>
          /\ hash'[t] <= mainHash'[t]
          /\ \A j \in DOMAIN tables' : j > hash'[t] => ~HasIn(t, j)'
    BY <1>1, <1>2, <2>1 DEF SearchOK
  <2>4. \A d \in Nat : d < off'[t] => d < off[t] \/ d = off[t]
    BY <2>1
  <2>5. at[t] = "search" =>
          \A d \in Nat : d < off'[t] =>
            tables[hash[t]].key[Probed(t, hash[t], d)] \notin {t, Nobody}
    BY <1>1, <2>2, <2>4 DEF SearchOK
  <2> QED
    BY <1>1, <1>2, <2>1, <2>3, <2>5 DEF SearchOK
<1>8. CASE ~Begin(t) /\ ~FindBehind(t) /\ ~LookBehind(t) /\ ~ProbeOn(t)
  BY <1>8, SelfElsewhere DEF SearchOK
<1> QED
  BY <1>4, <1>5, <1>6, <1>7, <1>8

LEMMA SelfPlace ==
  ASSUME IInv, NEW t \in Threads, Begin(t) \/ Step(t), ~Fill(t), ~Grow(t)
  PROVE  PlaceOK(t)'
<1>1. Typed /\ PlaceOK(t) /\ tables' = tables /\ listed \subseteq listed'
  BY TablesKept, ListedGrows DEF IInv, ThreadOK
<1>2. /\ \A i \in DOMAIN tables : HasIn(t, i)' <=> HasIn(t, i)
      /\ \A i \in DOMAIN tables, d \in Nat : Probed(t, i, d)' = Probed(t, i, d)
  BY <1>1 DEF HasIn, Probed
<1>3. /\ at \in [Threads -> At]
      /\ mainHash \in [Threads -> DOMAIN tables] /\ hash \in [Threads -> DOMAIN tables]
      /\ off \in [Threads -> Nat] /\ main \in DOMAIN tables
      /\ claim \in [Threads -> Nat] /\ producer \in [Threads -> listed \cup {None}]
      /\ DOMAIN tables = 1 .. Len(tables) /\ Len(tables) \in Nat
  BY <1>1, Locals, TablesInOrder
<1>4. CASE Begin(t)
  BY <1>3, <1>4 DEF Begin, Goto, PlaceOK
<1>5. CASE LookBehind(t)
  BY <1>3, <1>5 DEF LookBehind, PlaceOK
<1>6. CASE FindBehind(t)
  <2>1. /\ at[t] = "search" /\ KeyAt(t, hash[t]) = t /\ hash[t] # mainHash[t]
        /\ producer'[t] = ValueAt(t, hash[t])
        /\ at'[t] = "copy" /\ hash'[t] = hash[t] /\ mainHash'[t] = mainHash[t]
        /\ off'[t] = 0 /\ hash[t] \in DOMAIN tables
    BY <1>3, <1>6 DEF FindBehind, Goto, Restart
  <2>2. ValueAt(t, hash[t]) \in listed /\ HasIn(t, hash[t])
    BY <2>1, Looked DEF KeyAt, HasIn
  <2>3. hash[t] < mainHash[t]
    BY <1>3, <2>1 DEF IInv, ThreadOK, SearchOK
  <2>4. \A d \in Nat : ~(d < off'[t])
    BY <2>1
  <2> QED
    BY <1>1, <1>2, <2>1, <2>2, <2>3, <2>4 DEF PlaceOK, Taken
<1>7. CASE ProbeOn(t)
  <2>1. /\ at'[t] = at[t] /\ hash'[t] = hash[t] /\ mainHash'[t] = mainHash[t]
        /\ off'[t] = off[t] + 1 /\ mainHash[t] \in DOMAIN tables /\ off[t] \in Nat
        /\ hash[t] \in DOMAIN tables
        /\ claim'[t] = claim[t] /\ producer'[t] = producer[t]
        /\ at[t] \in {"copy", "place"} => KeyAt(t, mainHash[t]) # Nobody
    BY <1>3, <1>7 DEF ProbeOn
  <2>2. at[t] \in {"copy", "place"} =>
          tables[mainHash[t]].key[Probed(t, mainHash[t], off[t])] # Nobody
    BY <2>1, Looked DEF KeyAt
  <2>3. \A d \in Nat : d < off'[t] => d < off[t] \/ d = off[t]
    BY <2>1
  <2>4. at[t] \in {"copy", "place"} =>
          \A d \in Nat : d < off'[t] =>
            tables[mainHash[t]].key[Probed(t, mainHash[t], d)] # Nobody
    BY <1>1, <2>2, <2>3 DEF PlaceOK, Taken
  <2>5. at[t] \in {"copy", "place"} => producer'[t] \in listed' /\ Taken(t, mainHash[t], off[t])
    BY <1>1, <2>1 DEF PlaceOK
  <2>6. /\ at'[t] = "copy" => hash'[t] < mainHash'[t] /\ HasIn(t, hash[t])'
        /\ at'[t] = "place" => claim'[t] < tables'[mainHash'[t]].capacity
    BY <1>1, <1>2, <2>1 DEF PlaceOK
  <2>7. at'[t] \in {"copy", "place"} =>
          \A d \in Nat : d < off'[t] =>
            tables'[mainHash'[t]].key[Probed(t, mainHash[t], d)'] # Nobody
    BY <1>1, <1>2, <2>1, <2>4
  <2> QED
    BY <1>1, <2>1, <2>5, <2>6, <2>7 DEF PlaceOK, Taken, HasIn, Probed
<1>8. CASE Create(t)
  <2> DEFINE c == tables[mainHash[t]].capacity
  <2>1. PICK p \in Producers :
          listed' = listed \cup {p} /\ producer' = [producer EXCEPT ![t] = p]
    BY <1>8 DEF Create
  <2>2. /\ at'[t] = "place" /\ mainHash'[t] = mainHash[t] /\ claim'[t] = claim[t]
        /\ off'[t] = 0 /\ producer'[t] \in listed'
    BY <1>3, <1>8, <2>1 DEF Create, Goto, Restart
  <2>3. claim[t] < c \div 2 + c \div 4
    BY <1>8 DEF Create, Fits
  <2>4. c \in Nat /\ claim[t] \in Nat
    BY <1>1, <1>3, Shapes DEF Shaped
  <2> HIDE DEF c
  <2>5. c \div 2 + c \div 4 <= c
    BY <2>4
  <2>6. claim[t] < c
    BY <2>3, <2>4, <2>5
  <2>7. \A d \in Nat : ~(d < off'[t])
    BY <2>2
  <2> QED
    BY <1>1, <2>2, <2>6, <2>7 DEF PlaceOK, Taken, c
<1>9. CASE ~Begin(t) /\ ~FindBehind(t) /\ ~LookBehind(t) /\ ~ProbeOn(t) /\ ~Create(t)
  BY <1>9, SelfElsewhere DEF PlaceOK
<1> QED
  BY <1>4, <1>5, <1>6, <1>7, <1>8, <1>9

LEMMA SelfGrow ==
  ASSUME IInv, NEW t \in Threads, Grow(t)
  PROVE  ThreadOK(t)'
<1>1. at \in [Threads -> At] /\ at[t] = "alloc"
  BY Locals DEF IInv, Grow
<1>2. at'[t] = "unlock" /\ claim' = claim /\ mine' = mine
  BY <1>1 DEF Grow, Goto
<1>3. ~Has(t) /\ claim[t] # 0 /\ mine[t] = None
  BY <1>1 DEF IInv, ThreadOK, StageOK, Without, Claiming
<1>4. ~Has(t)'
  BY <1>3, GrowFacts, ProducerHashAssumption DEF Has, HasIn
<1> QED
  BY <1>2, <1>3, <1>4 DEF ThreadOK, StageOK, SearchOK, PlaceOK, Without

LEMMA SelfFill ==
  ASSUME IInv, NEW t \in Threads, Fill(t)
  PROVE  ThreadOK(t)'
<1>1. at \in [Threads -> At]
  BY Locals DEF IInv
<1>2. at'[t] = "idle"
  BY <1>1 DEF Fill, Goto, Return
<1>3. Has(t)'
  BY FillFacts DEF Has, HasIn
<1> QED
  BY <1>2, <1>3 DEF ThreadOK, StageOK, SearchOK, PlaceOK, Without, Claiming

LEMMA StepThreads ==
  ASSUME IInv, NEW t \in Threads, Begin(t) \/ Step(t), Typed'
  PROVE  \A u \in Threads : ThreadOK(u)'
<1>1. ThreadOK(t)'
  BY SelfStage, SelfSearch, SelfPlace, SelfGrow, SelfFill DEF ThreadOK
<1> QED
  BY <1>1, StepOthers

-------------------------------------------------------------------------------
(* Producers.                                                              *)

LEMMA Narrowed ==
  ASSUME OneProducerEach, listed' = listed,
         \A u \in Threads : \A p \in listed : Belongs(u, p)' => Belongs(u, p)
  PROVE  OneProducerEach'
<1>1. SUFFICES ASSUME NEW u \in Threads, NEW v \in Threads, NEW p \in listed, NEW q \in listed,
                      Belongs(u, p)', Belongs(v, q)'
               PROVE  u = v <=> p = q
  BY DEF OneProducerEach
<1>2. Belongs(u, p) /\ Belongs(v, q)
  BY <1>1
<1> QED
  BY <1>2 DEF OneProducerEach

LEMMA ListedKept ==
  ASSUME NEW t \in Threads, Begin(t) \/ Step(t), ~Create(t)
  PROVE  listed' = listed
BY DEF Step, listVars, Begin, Find, FindBehind, LookBehind, NotFound, ProbeOn, Fill,
       CountIn, TakeFlag, PassFlag, Reload, Grow, DropFlag, GrowFails, GiveUp,
       WaitForTable, CreateFails

(* What a call returns and what is to be copied comes from an entry.       *)
LEMMA SelfOwner ==
  ASSUME IInv, NEW t \in Threads, Begin(t) \/ Step(t), ~Fill(t), ~Create(t)
  PROVE  /\ mine'[t] = mine[t] \/ (KeyAt(t, hash[t]) = t /\ mine'[t] = ValueAt(t, hash[t]))
         /\ at'[t] \in {"place", "copy"} =>
              \/ at[t] \in {"place", "copy"} /\ producer'[t] = producer[t]
              \/ KeyAt(t, hash[t]) = t /\ producer'[t] = ValueAt(t, hash[t])
<1>1. /\ at \in [Threads -> At] /\ mine \in [Threads -> listed \cup {None}]
      /\ producer \in [Threads -> listed \cup {None}]
  BY Locals DEF IInv
<1>2. mine'[t] = mine[t] \/ (KeyAt(t, hash[t]) = t /\ mine'[t] = ValueAt(t, hash[t]))
  <2>1. CASE Find(t)
    BY <1>1, <2>1 DEF Find
  <2>2. CASE ~Find(t)
    BY <1>1, <2>2 DEF Step, Begin, FindBehind, LookBehind, NotFound, ProbeOn, CountIn,
       TakeFlag, PassFlag, Reload, Grow, DropFlag, GrowFails, GiveUp, WaitForTable,
       CreateFails
  <2> QED
    BY <2>1, <2>2
<1>3. CASE FindBehind(t)
  BY <1>1, <1>2, <1>3 DEF FindBehind
<1>4. CASE ProbeOn(t)
  BY <1>1, <1>2, <1>4 DEF ProbeOn
<1>5. CASE ~FindBehind(t) /\ ~ProbeOn(t)
  <2>1. at'[t] \notin {"place", "copy"}
    BY <1>1, <1>5 DEF Step, Begin, Find, LookBehind, NotFound, CountIn, TakeFlag,
       PassFlag, Reload, Grow, DropFlag, GrowFails, GiveUp, WaitForTable, CreateFails,
       Goto, Return
  <2> QED
    BY <1>2, <2>1
<1> QED
  BY <1>3, <1>4, <1>5

LEMMA StepOwners ==
  ASSUME IInv, NEW t \in Threads, Begin(t) \/ Step(t)
  PROVE  OneProducerEach'
<1>1. Typed /\ Entries /\ OneProducerEach
  BY DEF IInv
<1>2. \A u \in Threads : u # t =>
        at'[u] = at[u] /\ mine'[u] = mine[u] /\ producer'[u] = producer[u]
  BY OthersSame
<1>3. /\ at \in [Threads -> At]
      /\ mainHash \in [Threads -> DOMAIN tables] /\ hash \in [Threads -> DOMAIN tables]
      /\ mine \in [Threads -> listed \cup {None}]
      /\ producer \in [Threads -> listed \cup {None}]
  BY <1>1, Locals
<1>4. \A i \in DOMAIN tables : \A s \in DOMAIN tables[i].key : \A u \in Threads :
        tables[i].key[s] = u => Belongs(u, tables[i].value[s]) /\ tables[i].value[s] \in listed
  BY <1>1 DEF Belongs, Entries, EntryOK
<1>5. CASE ~Fill(t) /\ ~Create(t)
  <2>1. listed' = listed
    BY <1>5, ListedKept
  <2>2. \A u \in Threads, p \in listed :
          (\E i \in DOMAIN tables' : \E s \in DOMAIN tables'[i].key :
             tables'[i].key[s] = u /\ p = tables'[i].value[s]) => Belongs(u, p)
    <3>1. CASE tables' = tables
      BY <3>1, <1>4
    <3>2. CASE Grow(t)
      BY <3>2, <1>4, GrowFacts, ProducerHashAssumption
    <3> QED
      BY <3>1, <3>2, <1>5, TablesKept
  <2>3. /\ hash[t] \in DOMAIN tables
        /\ Slot(t, hash[t]) \in DOMAIN tables[hash[t]].key
    BY <1>3, Looked
  <2>4. KeyAt(t, hash[t]) = t => Belongs(t, ValueAt(t, hash[t]))
    BY <1>4, <2>3 DEF KeyAt, ValueAt
  <2>5. /\ mine'[t] = mine[t] \/ (KeyAt(t, hash[t]) = t /\ mine'[t] = ValueAt(t, hash[t]))
        /\ at'[t] \in {"place", "copy"} =>
              \/ at[t] \in {"place", "copy"} /\ producer'[t] = producer[t]
              \/ KeyAt(t, hash[t]) = t /\ producer'[t] = ValueAt(t, hash[t])
    BY <1>5, SelfOwner
  <2>6. \A u \in Threads, p \in listed :
          (p = mine'[u] \/ (at'[u] \in {"place", "copy"} /\ p = producer'[u]))
            => Belongs(u, p)
    <3>1. SUFFICES ASSUME NEW u \in Threads, NEW p \in listed,
                          p = mine'[u] \/ (at'[u] \in {"place", "copy"} /\ p = producer'[u])
                   PROVE  Belongs(u, p)
      OBVIOUS
    <3>2. CASE u # t
      BY <3>1, <3>2, <1>2 DEF Belongs
    <3>3. CASE u = t
      <4>1. CASE p = mine[t] \/ (at[t] \in {"place", "copy"} /\ p = producer[t])
        BY <3>3, <4>1 DEF Belongs
      <4>2. CASE KeyAt(t, hash[t]) = t /\ p = ValueAt(t, hash[t])
        BY <3>3, <4>2, <2>4
      <4> QED
        BY <3>1, <3>3, <4>1, <4>2, <2>5
    <3> QED
      BY <3>2, <3>3
  <2>7. \A u \in Threads : \A p \in listed : Belongs(u, p)' => Belongs(u, p)
    BY <2>2, <2>6 DEF Belongs
  <2> QED
    BY <1>1, <2>1, <2>7, Narrowed
<1>6. CASE Fill(t)
  <2>1. listed' = listed
    BY <1>6 DEF Fill, listVars
  <2>2. /\ at[t] \in {"copy", "place"} /\ at'[t] = "idle" /\ mine'[t] = producer[t]
    BY <1>3, <1>6 DEF Fill, Goto, Return
  <2>3. Belongs(t, producer[t])
    BY <2>2 DEF Belongs
  <2>4. /\ DOMAIN tables' = DOMAIN tables
        /\ \A j \in DOMAIN tables :
             /\ DOMAIN tables'[j].key = DOMAIN tables[j].key
             /\ \A r \in DOMAIN tables[j].key :
                  \/ tables'[j].key[r] = t /\ tables'[j].value[r] = producer[t]
                  \/ /\ tables'[j].key[r] = tables[j].key[r]
                     /\ tables'[j].value[r] = tables[j].value[r]
    BY <1>6, FillFacts
  <2>5. \A u \in Threads, p \in listed :
          (\E i \in DOMAIN tables' : \E s \in DOMAIN tables'[i].key :
             tables'[i].key[s] = u /\ p = tables'[i].value[s]) => Belongs(u, p)
    BY <1>4, <2>3, <2>4
  <2>6. \A u \in Threads, p \in listed :
          (p = mine'[u] \/ (at'[u] \in {"place", "copy"} /\ p = producer'[u]))
            => Belongs(u, p)
    <3>1. SUFFICES ASSUME NEW u \in Threads, NEW p \in listed,
                          p = mine'[u] \/ (at'[u] \in {"place", "copy"} /\ p = producer'[u])
                   PROVE  Belongs(u, p)
      OBVIOUS
    <3>2. CASE u # t
      BY <3>1, <3>2, <1>2 DEF Belongs
    <3>3. CASE u = t
      BY <3>1, <3>3, <2>2, <2>3
    <3> QED
      BY <3>2, <3>3
  <2>7. \A u \in Threads : \A p \in listed : Belongs(u, p)' => Belongs(u, p)
    BY <2>5, <2>6 DEF Belongs
  <2> QED
    BY <1>1, <2>1, <2>7, Narrowed
<1>7. CASE Create(t)
  <2>1. PICK n \in Producers :
          n \notin listed /\ listed' = listed \cup {n} /\ producer' = [producer EXCEPT ![t] = n]
    <3>1. \E q \in Producers : q \notin listed
      BY <1>7 DEF Create
    <3> QED
      BY <1>7, <3>1 DEF Create
  <2>2. at[t] = "room" /\ tables' = tables /\ mine' = mine
    BY <1>7 DEF Create, sharedVars
  <2>3. ~Has(t) /\ mine[t] = None
    BY <2>2 DEF IInv, ThreadOK, StageOK, Without
  <2>4. \A p \in listed' : Belongs(t, p)' => p = n
    <3>1. SUFFICES ASSUME NEW p \in listed', Belongs(t, p)'
                   PROVE  p = n
      OBVIOUS
    <3>2. p # mine'[t]
      BY <1>1, <2>1, <2>2, <2>3, ProducerHashAssumption DEF Typed, TypeOK
    <3>3. ~\E i \in DOMAIN tables' : \E s \in DOMAIN tables'[i].key : tables'[i].key[s] = t
      BY <2>2, <2>3 DEF Has, HasIn
    <3>4. producer'[t] = n
      BY <1>3, <2>1
    <3> QED
      BY <3>1, <3>2, <3>3, <3>4 DEF Belongs
  <2>5. \A u \in Threads : \A p \in listed' :
          u # t /\ Belongs(u, p)' => p \in listed /\ Belongs(u, p)
    <3>1. SUFFICES ASSUME NEW u \in Threads, NEW p \in listed', u # t, Belongs(u, p)'
                   PROVE  p \in listed /\ Belongs(u, p)
      OBVIOUS
    <3>2. Belongs(u, p)
      BY <3>1, <1>2, <2>2 DEF Belongs
    <3>3. p # None
      BY <1>1, <2>1, ProducerHashAssumption DEF Typed, TypeOK
    <3>4. p \in listed
      BY <3>2, <3>3, <1>3, <1>4 DEF Belongs
    <3> QED
      BY <3>2, <3>4
  <2>6. SUFFICES ASSUME NEW u \in Threads, NEW v \in Threads, NEW p \in listed',
                        NEW q \in listed', Belongs(u, p)', Belongs(v, q)'
                 PROVE  u = v <=> p = q
    BY DEF OneProducerEach
  <2>7. CASE u = t /\ v = t
    BY <2>4, <2>6, <2>7
  <2>8. CASE u = t /\ v # t
    BY <2>1, <2>4, <2>5, <2>6, <2>8
  <2>9. CASE u # t /\ v = t
    BY <2>1, <2>4, <2>5, <2>6, <2>9
  <2>10. CASE u # t /\ v # t
    BY <1>1, <2>5, <2>6, <2>10 DEF OneProducerEach
  <2> QED
    BY <2>7, <2>8, <2>9, <2>10
<1> QED
  BY <1>5, <1>6, <1>7

-------------------------------------------------------------------------------
LEMMA InitInv == Init => IInv
<1> SUFFICES ASSUME Init PROVE IInv
  OBVIOUS
<1> DEFINE e == Empty(Initial, 0)
<1>1. /\ IsTable(e) /\ e.prev = 0 /\ e.capacity = Initial
      /\ \A s \in DOMAIN e.key : e.key[s] = Nobody
  BY EmptyShape, ProducerHashAssumption
<1>2. tables = <<e>> /\ main = 1
  BY DEF Init
<1>3. e \in [capacity : Capacities, prev : Nat, key : Keys, value : Values]
  BY <1>1, ShapedRecord
<1>4. Initial \in Nat
  BY ProducerHashAssumption
<1> HIDE DEF e
<1>5. /\ DOMAIN tables = {1} /\ Len(tables) = 1 /\ tables[1] = e
      /\ tables # <<>>
      /\ tables \in Seq([capacity : Capacities, prev : Nat, key : Keys, value : Values])
  BY <1>2, <1>3
<1>6. /\ count = 0 /\ resizing = FALSE /\ listed = {} /\ failed = 0
      /\ at = [t \in Threads |-> "idle"]
      /\ mainHash = [t \in Threads |-> 1] /\ hash = [t \in Threads |-> 1]
      /\ off = [t \in Threads |-> 0] /\ claim = [t \in Threads |-> 0]
      /\ producer = [t \in Threads |-> None] /\ mine = [t \in Threads |-> None]
  BY DEF Init
<1>7. Typed
  <2>1. /\ at \in [Threads -> At]
        /\ mainHash \in [Threads -> DOMAIN tables] /\ hash \in [Threads -> DOMAIN tables]
        /\ off \in [Threads -> Nat] /\ claim \in [Threads -> Nat]
        /\ producer \in [Threads -> listed \cup {None}]
        /\ mine \in [Threads -> listed \cup {None}]
    BY <1>5, <1>6 DEF At
  <2>2. /\ main \in DOMAIN tables /\ count \in Nat /\ resizing \in BOOLEAN
        /\ listed \subseteq Producers /\ failed \in 0 .. Failures
    <3>1. 0 \in 0 .. Failures
      BY ProducerHashAssumption
    <3> QED
      BY <1>2, <1>5, <1>6, <3>1
  <2>3. \A i \in DOMAIN tables : IsTable(tables[i])
    BY <1>1, <1>5
  <2> QED
    BY <1>5, <2>1, <2>2, <2>3 DEF Typed, TypeOK
<1>8. Chain
  BY <1>1, <1>2, <1>4, <1>5 DEF Chain
<1>9. Flagged
  BY <1>6 DEF Flagged, WithFlag
<1>10. Counts
  <2>1. Claimed = {} /\ \A n : UpTo(n) = {}
    BY <1>6 DEF Claimed, UpTo
  <2>2. Cardinality({}) = 0
    BY FS_EmptySet
  <2> QED
    BY <1>6, <2>1, <2>2 DEF Counts
<1>11. \A i \in DOMAIN tables : \A s \in DOMAIN tables[i].key : \A t \in Threads :
         tables[i].key[s] # t
  BY <1>1, <1>5, ProducerHashAssumption
<1>12. Entries
  BY <1>11 DEF Entries
<1>13. \A t \in Threads : ThreadOK(t)
  BY <1>6 DEF ThreadOK, StageOK, SearchOK, PlaceOK, Without, Claiming
<1>14. OneProducerEach
  BY <1>6 DEF OneProducerEach
<1> QED
  BY <1>7, <1>8, <1>9, <1>10, <1>12, <1>13, <1>14 DEF IInv

LEMMA StepInv ==
  ASSUME IInv, [Next]_vars
  PROVE  IInv'
<1>1. CASE Next
  <2>1. PICK t \in Threads : Begin(t) \/ Step(t)
    BY <1>1 DEF Next
  <2>2. Typed'
    BY <2>1, StepTyped
  <2> QED
    BY <2>1, <2>2, StepChain, StepFlagged, StepCounts, StepEntries, StepThreads,
       StepOwners DEF IInv
<1>2. CASE UNCHANGED vars
  <2> USE <1>2 DEF vars, sharedVars, listVars, localVars
  <2>1. Typed'
    BY DEF IInv, Typed, TypeOK
  <2>2. Chain' /\ Flagged' /\ Counts'
    BY DEF IInv, Chain, Flagged, Counts, Claimed, UpTo
  <2>3. Entries'
    BY DEF IInv, Entries, EntryOK, Probed, Taken
  <2>4. ASSUME NEW t \in Threads PROVE ThreadOK(t)'
    <3>1. StageOK(t) /\ SearchOK(t) /\ PlaceOK(t)
      BY DEF IInv, ThreadOK
    <3>2. StageOK(t)'
      BY <3>1 DEF StageOK, Has, HasIn
    <3>3. SearchOK(t)'
      BY <3>1 DEF SearchOK, HasIn, Probed
    <3>4. PlaceOK(t)'
      BY <3>1 DEF PlaceOK, HasIn, Probed, Taken
    <3> QED
      BY <3>2, <3>3, <3>4 DEF ThreadOK
  <2>5. OneProducerEach'
    BY DEF IInv, OneProducerEach, Belongs
  <2> QED
    BY <2>1, <2>2, <2>3, <2>4, <2>5 DEF IInv
<1> QED
  BY <1>1, <1>2

(* The inductive invariant holds in every state of the table of producers  *)
(* (get_or_add_implicit_producer), however calls interleave and whichever  *)
(* allocations fail.                                                       *)
THEOREM Invariance == Spec => []IInv
BY InitInv, StepInv, PTL DEF Spec

(* Type correctness: in particular a table's slots are read and written    *)
(* within its capacity, and the count is never negative                    *)
(* (implicitProducerHashCount).                                            *)
THEOREM TypeCorrect == Spec => []TypeOK
<1>1. IInv => TypeOK
  BY DEF IInv, Typed
<1> QED
  BY <1>1, Invariance, PTL

(* Every table keeps an empty slot, so that searches end ("Not an infinite *)
(* loop because at least one slot is free in the hash table"): otherwise   *)
(* as many threads as it has slots would have counts smaller than that.    *)
THEOREM RoomKept == Spec => []HasRoom
<1>1. IInv => HasRoom
  <2>1. SUFFICES ASSUME IInv, NEW i \in DOMAIN tables,
                        \A s \in DOMAIN tables[i].key : tables[i].key[s] # Nobody
                 PROVE  FALSE
    BY DEF HasRoom
  <2> DEFINE c == tables[i].capacity
             S == DOMAIN tables[i].key
             T == UpTo(c - 1)
  <2>2. /\ c \in Nat \ {0} /\ S = 0 .. c - 1
        /\ tables[i].key \in [0 .. c - 1 -> Threads \cup {Nobody}]
    BY <2>1, Shapes DEF Shaped, IInv
  <2>3. IsFiniteSet(S) /\ Cardinality(S) = c
    BY <2>2, FS_Interval
  <2>4. IsFiniteSet(T) /\ Cardinality(T) \in Nat /\ Cardinality(T) <= c - 1
    BY <2>2, ClaimedFinite, <2>1 DEF IInv, Counts
  <2>5. \A s \in S : tables[i].key[s] \in T
    <3>1. SUFFICES ASSUME NEW s \in S
                   PROVE  tables[i].key[s] \in T
      OBVIOUS
    <3>2. tables[i].key[s] \in Threads
      BY <2>1, <2>2
    <3>3. claim[tables[i].key[s]] # 0 /\ claim[tables[i].key[s]] < c
      BY <2>1, <3>2 DEF IInv, Entries, EntryOK
    <3>4. claim[tables[i].key[s]] \in Nat
      BY <3>2, Locals, <2>1 DEF IInv
    <3> QED
      BY <2>2, <3>2, <3>3, <3>4 DEF UpTo
  <2>6. \A r, s \in S : tables[i].key[r] = tables[i].key[s] => r = s
    BY <2>1, <2>5 DEF IInv, Entries, EntryOK, UpTo
  <2> DEFINE f == [s \in S |-> tables[i].key[s]]
  <2> HIDE DEF c, S, T
  <2>7. f \in [S -> T]
    BY <2>5
  <2>8. Cardinality(T) < Cardinality(S)
    BY <2>2, <2>3, <2>4
  <2> HIDE DEF f
  <2>9. \E r, s \in S : r # s /\ f[r] = f[s]
    BY <2>3, <2>4, <2>7, <2>8, FS_PigeonHole
  <2> QED
    BY <2>6, <2>9 DEF f
<1> QED
  BY <1>1, Invariance, PTL

(* A thread has one producer and its own, whatever tables come and go      *)
(* under its calls ("If it's not found, it must not be in there yet").     *)
THEOREM OneProducer == Spec => []OneProducerEach
<1>1. IInv => OneProducerEach
  BY DEF IInv
<1> QED
  BY <1>1, Invariance, PTL
===============================================================================
