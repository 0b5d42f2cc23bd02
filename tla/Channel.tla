-------------------------------- MODULE Channel --------------------------------
(***************************************************************************)
(* Channels of mew::Mew (lib/include/mew.h: channel_open, channel_write;   *)
(* lib/include/uvasync.h, lib/src/uvasync.cc) over the task pool.  A write *)
(* puts the item into the receiver's queue and signals its async handle;   *)
(* the loop thread answers a signal with one job; the job takes at most    *)
(* one item out of the queue and calls the receiver with it.               *)
(*                                                                         *)
(* uv_async_send raises a flag and several sends before the loop looks are *)
(* one callback, so the jobs can be fewer than the items.                  *)
(*                                                                         *)
(* The queue is what WriterStreams says a moodycamel::ConcurrentQueue is:  *)
(* one stream per writing thread; try_dequeue looks at one stream after    *)
(* the other, and may find nothing in a stream where there is something    *)
(* while another job looks there.  A callback that writes counts as a      *)
(* writer of its own.  The typed variant of channel_open cannot be         *)
(* instantiated and is not modelled.                                       *)
(*                                                                         *)
(* The job takes the UVAsync for a UVPoller and calls UVPoller::exec: a    *)
(* std::function of another type, with an int read behind the object.      *)
(* That is undefined; the model has the outcome of the builds in use,      *)
(* where the two classes lay out their members alike and the function      *)
(* called ignores the int: the receiver's fc is called.  (UVAsync::exec,   *)
(* which says the same, is called by nothing.)                             *)
(***************************************************************************)
EXTENDS TaskPool, Sequences, SequencesExt

CONSTANTS
  Receivers,  \* ChannelReference objects
  Names,
  Writers,    \* threads that write to channels
  Items,      \* each written once
  NoReceiver, NoItem

ASSUME ChannelAssumption ==
  /\ NoReceiver \notin Receivers /\ NoItem \notin Items
  /\ IsFiniteSet(Tasks) /\ IsFiniteSet(Writers) /\ IsFiniteSet(Items)

VARIABLES
  channels,   \* _channels: the receiver of each name, NoReceiver if none
  opened,     \* the receivers that exist
  stream,     \* queue of each receiver: the items of each writer, in order
  pushed,     \* the receiver a writer has pushed to and not yet triggered
  signal,     \* the flag of each receiver's async handle
  looping,    \* the receiver whose callback the loop thread is in
  jobFor,     \* the receiver a job was made for, NoReceiver before
  looked,     \* the streams in which try_dequeue has missed, for each job
  held,       \* the item a job has taken out of the queue
  written,    \* history: items handed to channel_write for an open channel
  delivered,  \* history: items the receiver's function was called with
  coalesced,  \* history: sends that found the flag raised
  missed      \* history: jobs that missed in every stream in turn

chanVars == <<channels, opened, stream, pushed, signal, looping, jobFor,
              looked, held, written, delivered, coalesced, missed>>
vars == <<poolVars, chanVars>>

TypeOK ==
  /\ channels \in [Names -> Receivers \cup {NoReceiver}]
  /\ opened \subseteq Receivers
  /\ stream \in [Receivers -> [Writers -> Seq(Items)]]
  /\ pushed \in [Writers -> Receivers \cup {NoReceiver}]
  /\ signal \in [Receivers -> BOOLEAN]
  /\ looping \in Receivers \cup {NoReceiver}
  /\ jobFor \in [Tasks -> Receivers \cup {NoReceiver}]
  /\ looked \in [Tasks -> SUBSET Writers]
  /\ held \in [Tasks -> Items \cup {NoItem}]
  /\ written \subseteq Items /\ delivered \subseteq written
  /\ coalesced \in [Receivers -> Nat] /\ missed \in [Receivers -> Nat]

-------------------------------------------------------------------------------
Init ==
  /\ PoolInit
  /\ channels = [n \in Names |-> NoReceiver]
  /\ opened = {}
  /\ stream = [r \in Receivers |-> [w \in Writers |-> <<>>]]
  /\ pushed = [w \in Writers |-> NoReceiver]
  /\ signal = [r \in Receivers |-> FALSE]
  /\ looping = NoReceiver
  /\ jobFor = [k \in Tasks |-> NoReceiver]
  /\ looked = [k \in Tasks |-> {}]
  /\ held = [k \in Tasks |-> NoItem]
  /\ written = {} /\ delivered = {}
  /\ coalesced = [r \in Receivers |-> 0]
  /\ missed = [r \in Receivers |-> 0]

(* map::insert keeps the receiver a name already has: the new one is given *)
(* to the caller all the same and never receives.                          *)
ChannelOpen(n, r) ==
  /\ r \notin opened
  /\ opened' = opened \cup {r}
  /\ channels' = [channels EXCEPT ![n] = IF @ = NoReceiver THEN r ELSE @]
  /\ UNCHANGED <<poolVars, stream, pushed, signal, looping, jobFor, looked,
                 held, written, delivered, coalesced, missed>>

(* A name nobody has opened: the item is dropped, with a message.          *)
ChannelWrite(w, n, x) ==
  LET r == channels[n] IN
  /\ pushed[w] = NoReceiver /\ x \notin written
  /\ r # NoReceiver
  /\ stream' = [stream EXCEPT ![r][w] = Append(@, x)]
  /\ pushed' = [pushed EXCEPT ![w] = r]
  /\ written' = written \cup {x}
  /\ UNCHANGED <<poolVars, channels, opened, signal, looping, jobFor, looked,
                 held, delivered, coalesced, missed>>

(* async_ref->trigger().                                                   *)
Trigger(w) ==
  LET r == pushed[w] IN
  /\ r # NoReceiver
  /\ signal' = [signal EXCEPT ![r] = TRUE]
  /\ coalesced' = [coalesced EXCEPT ![r] = IF signal[r] THEN @ + 1 ELSE @]
  /\ pushed' = [pushed EXCEPT ![w] = NoReceiver]
  /\ UNCHANGED <<poolVars, channels, opened, stream, looping, jobFor, looked,
                 held, written, delivered, missed>>

-------------------------------------------------------------------------------
(* The loop thread lowers the flag, then calls UVAsync::periodic.          *)

(* Mutant: the flag stays up.                                              *)
AsyncCallbackAgain(r) ==
  /\ looping = NoReceiver /\ signal[r]
  /\ looping' = r
  /\ UNCHANGED <<poolVars, channels, opened, stream, pushed, signal, jobFor,
                 looked, held, written, delivered, coalesced, missed>>

AsyncCallback(r) ==
  /\ looping = NoReceiver /\ signal[r]
  /\ signal' = [signal EXCEPT ![r] = FALSE]
  /\ looping' = r
  /\ UNCHANGED <<poolVars, channels, opened, stream, pushed, jobFor, looked,
                 held, written, delivered, coalesced, missed>>

(* Mutant: periodic makes no job for the callback.                         *)
PeriodicIdle(k) ==
  /\ looping # NoReceiver
  /\ looping' = NoReceiver
  /\ UNCHANGED <<poolVars, channels, opened, stream, pushed, signal, jobFor,
                 looked, held, written, delivered, coalesced, missed>>

(* Nobody looks at what schedule returns.  The job carries "this" as a     *)
(* void*, from which it makes a UVPoller* (see above): it is for looping.  *)
Periodic(k) ==
  /\ looping # NoReceiver
  /\ Accept(k) \/ Refuse(k)
  /\ jobFor' = [jobFor EXCEPT ![k] = looping]
  /\ looping' = NoReceiver
  /\ UNCHANGED <<channels, opened, stream, pushed, signal, looked, held,
                 written, delivered, coalesced, missed>>

-------------------------------------------------------------------------------
(* A job: UVPoller::exec on the UVAsync, which comes to the receiver's fc. *)

JobStart(k) == Start(k) /\ UNCHANGED chanVars

Popping(k) == k \in executing /\ held[k] = NoItem

(* Mutant: the item is read and stays in the queue.                        *)
PopItemCopy(k, w) ==
  LET s == stream[jobFor[k]][w] IN
  /\ Popping(k) /\ w \notin looked[k]
  /\ s # <<>>
  /\ held' = [held EXCEPT ![k] = Head(s)]
  /\ UNCHANGED <<poolVars, channels, opened, stream, pushed, signal, looping,
                 jobFor, looked, written, delivered, coalesced, missed>>

PopItem(k, w) ==
  LET s == stream[jobFor[k]][w] IN
  /\ Popping(k) /\ w \notin looked[k]
  /\ s # <<>>
  /\ held' = [held EXCEPT ![k] = Head(s)]
  /\ stream' = [stream EXCEPT ![jobFor[k]][w] = Tail(@)]
  /\ UNCHANGED <<poolVars, channels, opened, pushed, signal, looping, jobFor,
                 looked, written, delivered, coalesced, missed>>

(* A miss: an empty stream, or other jobs for the receiver in their pops,  *)
(* whose draws count as taken until they give them back (WriterStreams).   *)
Overlapped(k) == \E j \in Tasks \ {k} : Popping(j) /\ jobFor[j] = jobFor[k]

PopLook(k, w) ==
  /\ Popping(k) /\ w \notin looked[k]
  /\ stream[jobFor[k]][w] = <<>> \/ Overlapped(k)
  /\ looked' = [looked EXCEPT ![k] = @ \cup {w}]
  /\ UNCHANGED <<poolVars, channels, opened, stream, pushed, signal, looping,
                 jobFor, held, written, delivered, coalesced, missed>>

PopNothing(k) ==
  /\ Popping(k) /\ looked[k] = Writers
  /\ missed' = [missed EXCEPT ![jobFor[k]] = @ + 1]
  /\ Finish(k)
  /\ UNCHANGED <<channels, opened, stream, pushed, signal, looping, jobFor,
                 looked, held, written, delivered, coalesced>>

(* Mutant: the receiver is called with what the job held at first.         *)
CallReceiverEmpty(k) ==
  /\ k \in executing /\ held[k] # NoItem
  /\ delivered' = delivered \cup {NoItem}
  /\ Finish(k)
  /\ UNCHANGED <<channels, opened, stream, pushed, signal, looping, jobFor,
                 looked, held, written, coalesced, missed>>

(* The receiver's function, which may throw: the item is gone either way.  *)
CallReceiver(k) ==
  /\ k \in executing /\ held[k] # NoItem
  /\ delivered' = delivered \cup {held[k]}
  /\ Finish(k)
  /\ UNCHANGED <<channels, opened, stream, pushed, signal, looping, jobFor,
                 looked, held, written, coalesced, missed>>

-------------------------------------------------------------------------------
LoopStep ==
  \/ \E r \in Receivers : AsyncCallback(r)
  \/ \E k \in Tasks : Periodic(k)

JobStep(k) ==
  \/ \E w \in Writers : PopItem(k, w) \/ PopLook(k, w)
  \/ PopNothing(k)
  \/ CallReceiver(k)

Next ==
  \/ \E n \in Names, r \in Receivers : ChannelOpen(n, r)
  \/ \E w \in Writers :
       \/ \E n \in Names, x \in Items : ChannelWrite(w, n, x)
       \/ Trigger(w)
  \/ LoopStep
  \/ \E k \in Tasks : JobStart(k) \/ JobStep(k)

Spec == Init /\ [][Next]_vars

(* Threads run, the loop is inside uv_run, the receivers' functions end    *)
(* (Endless = {} in the run), and then the pool starts pending jobs        *)
(* (TaskPool's promise).                                                   *)
Fairness ==
  /\ \A w \in Writers : WF_vars(Trigger(w))
  /\ WF_vars(LoopStep)
  /\ \A k \in Tasks : WF_vars(JobStart(k)) /\ WF_vars(JobStep(k))

FairSpec == Spec /\ Fairness

-------------------------------------------------------------------------------
B(p) == IF p THEN 1 ELSE 0

Backlog(r) ==
  Cardinality(UNION {ToSet(stream[r][w]) : w \in Writers})

(* What is on its way to take an item out of the queue of r.               *)
OnTheWay(r) ==
  Cardinality({w \in Writers : pushed[w] = r}) + B(signal[r]) + B(looping = r)
    + Cardinality({k \in pending \cup executing : jobFor[k] = r /\ held[k] = NoItem})

(* What should have been and is not: sends merged into one callback, jobs  *)
(* the pool refused, jobs that missed an item they raced with.             *)
LeftBehind(r) ==
  coalesced[r] + Cardinality({k \in refused : jobFor[k] = r}) + missed[r]

(* The items in a receiver's queue are those something is on its way for   *)
(* and those left behind, no more and no fewer (mew.h: channel_write and   *)
(* the fc of channel_open, whose "if" takes one item per job).             *)
Accounting == \A r \in Receivers : Backlog(r) = OnTheWay(r) + LeftBehind(r)

(* When the writers pause everything comes to rest with only the items     *)
(* left behind undelivered.  These leave when later writes bring jobs,     *)
(* each of which takes one item, not necessarily the one just written.     *)
Settled ==
  /\ \A r \in Receivers : Backlog(r) = LeftBehind(r)
  /\ written \ delivered =
       UNION {ToSet(stream[r][w]) : r \in Receivers, w \in Writers}

Delivery == []<>Settled
===============================================================================
