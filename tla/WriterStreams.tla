----------------------------- MODULE WriterStreams -----------------------------
(***************************************************************************)
(* What a channel's queue (moodycamel::ConcurrentQueue) promises: every    *)
(* writing thread has a first-in first-out stream of its own; a dequeue    *)
(* takes the oldest item of the stream it tries, or misses.  It may miss   *)
(* although the stream is not empty, but only if there were no more items  *)
(* when it began than other dequeues that overlapped it before they took   *)
(* or missed.                                                              *)
(***************************************************************************)
EXTENDS Naturals, Sequences, FiniteSets

CONSTANTS Writers, Readers, NoWriter, NoItem

VARIABLES
  written,  \* how many items each writer has enqueued
  stream,   \* the items of each writer that nobody has taken
  call      \* the dequeue of each reader
vars == <<written, stream, call>>

Idle == [of |-> NoWriter, there |-> 0, overlap |-> 0, item |-> NoItem]

Looking(r, w) == call[r].of = w /\ call[r].item = NoItem
OthersLooking(r, w) == {q \in Readers \ {r} : Looking(q, w)}

Init ==
  /\ written = [w \in Writers |-> 0]
  /\ stream = [w \in Writers |-> <<>>]
  /\ call = [r \in Readers |-> Idle]

Enqueue(w) ==
  /\ written' = [written EXCEPT ![w] = @ + 1]
  /\ stream' = [stream EXCEPT ![w] = Append(@, <<w, written[w]>>)]
  /\ UNCHANGED call

Begin(r, w) ==
  /\ call[r] = Idle
  /\ call' = [q \in Readers |->
       IF q = r THEN [Idle EXCEPT !.of = w, !.there = Len(stream[w]),
                                  !.overlap = Cardinality(OthersLooking(r, w))]
       ELSE IF Looking(q, w) THEN [call[q] EXCEPT !.overlap = @ + 1]
       ELSE call[q]]
  /\ UNCHANGED <<written, stream>>

Take(r, w) ==
  /\ Looking(r, w) /\ stream[w] # <<>>
  /\ call' = [call EXCEPT ![r] = [Idle EXCEPT !.of = w, !.item = Head(stream[w])]]
  /\ stream' = [stream EXCEPT ![w] = Tail(@)]
  /\ UNCHANGED written

Miss(r, w) ==
  /\ Looking(r, w) /\ call[r].there <= call[r].overlap
  /\ call' = [call EXCEPT ![r] = Idle]
  /\ UNCHANGED <<written, stream>>

Return(r) ==
  /\ call[r].item # NoItem
  /\ call' = [call EXCEPT ![r] = Idle]
  /\ UNCHANGED <<written, stream>>

Next ==
  \/ \E w \in Writers : Enqueue(w)
  \/ \E r \in Readers :
       \/ \E w \in Writers : Begin(r, w) \/ Take(r, w) \/ Miss(r, w)
       \/ Return(r)

Spec == Init /\ [][Next]_vars
===============================================================================
