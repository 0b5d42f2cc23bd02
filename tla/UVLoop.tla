-------------------------------- MODULE UVLoop --------------------------------
(***************************************************************************)
(* Timers and polled descriptors (lib/include/uvtimer.h, uvpoller.h,       *)
(* lib/src/uvtimer.cc, uvpoller.cc) over the workers of the pool, with the *)
(* two callbacks the library's nodes give them: Clock::onTimer, which      *)
(* counts its ticks, and UDPSrc's loop, which reads a socket until it      *)
(* finds nothing and counts the bytes.  The loop thread makes one job per  *)
(* tick and one per turn that finds the socket readable, whether or not    *)
(* the jobs before have run.                                               *)
(*                                                                         *)
(* libuv and the kernel (external): a timer whose interval rounds to 0     *)
(* milliseconds is not armed again; polling is level-triggered;            *)
(* uv_poll_init makes the descriptor non-blocking; closing a descriptor    *)
(* takes it out of the poll set, and a new socket may get its number.      *)
(* Datagrams have one byte or none; one that finds the socket's buffer     *)
(* full is dropped.  They may go on coming for ever, and so may ticks.     *)
(* The node's port has been set before its context, so that there is a     *)
(* socket to poll.                                                         *)
(***************************************************************************)
EXTENDS Naturals, Sequences, SequencesExt

CONSTANTS
  NWorkers, QueueSize,
  Interval,      \* of the timer, in microseconds
  Buffer,        \* bound: datagrams the socket's buffer holds
  PortChanges,   \* bound: changes of the node's port
  Wrap           \* bound: the counters count modulo Wrap

ASSUME UVLoopAssumption ==
  /\ NWorkers \in Nat \ {0} /\ QueueSize \in Nat \ {0} /\ Wrap \in Nat \ {0}
  /\ {Interval, Buffer} \subseteq Nat /\ PortChanges \in {0, 1}

Worker == 0 .. NWorkers - 1
Kind == {"tick", "poll"}

VARIABLES
  queue,       \* the jobs waiting in each worker's queue, by kind
  span,        \* how many cells of a queue a worker's pop holds up, from the
               \* one it has claimed on, 0 if it is in no pop there
  target,      \* the worker the next post of the loop thread goes to
  running,     \* the kind of job a worker has taken, "none" between jobs
  step,        \* where in the pop or the callback the worker is
  loaded,      \* local: the counter's value as it was read
  counter,     \* _cpt of the Clock, _byteCpt of the UDPSrc
  armed,       \* the timer is due again some time
  unread,      \* datagrams in the socket's buffer, by their length
  watched,     \* the descriptor the poller was made for is still open
  reused,      \* a new socket has got the number of a closed one
  moved,       \* changes of the port so far
  total,       \* history: what has been added up in each counter
  overlapped   \* history: the kinds two workers have run at the same time

queueVars == <<queue, span, target>>
countVars == <<loaded, counter, total>>
socketVars == <<watched, reused, moved>>
vars == <<queueVars, running, step, countVars, armed, unread, socketVars,
          overlapped>>

TypeOK ==
  /\ queue \in [Worker -> Seq(Kind)]
  /\ span \in [Worker -> [Worker -> 0 .. QueueSize]]
  /\ \A v, w \in Worker : Len(queue[v]) + span[v][w] <= QueueSize
  /\ target \in Worker
  /\ running \in [Worker -> Kind \cup {"none"}]
  /\ step \in [Worker -> {"pop", "begin", "load", "store"}]
  /\ loaded \in [Worker -> 0 .. Wrap - 1]
  /\ counter \in [Kind -> 0 .. Wrap - 1] /\ total \in [Kind -> 0 .. Wrap - 1]
  /\ armed \in BOOLEAN /\ watched \in BOOLEAN /\ reused \in BOOLEAN
  /\ moved \in 0 .. PortChanges
  /\ unread \in Seq({0, 1}) /\ Len(unread) <= Buffer
  /\ overlapped \subseteq Kind

Init ==
  /\ queue = [w \in Worker |-> <<>>]
  /\ span = [v \in Worker |-> [w \in Worker |-> 0]]
  /\ target = 0
  /\ running = [w \in Worker |-> "none"]
  /\ step = [w \in Worker |-> "begin"]
  /\ loaded = [w \in Worker |-> 0]
  /\ counter = [k \in Kind |-> 0] /\ total = [k \in Kind |-> 0]
  /\ armed = TRUE
  /\ unread = <<>>
  /\ watched = TRUE /\ reused = FALSE /\ moved = 0
  /\ overlapped = {}

-------------------------------------------------------------------------------
(* The loop thread.                                                        *)

(* push finds the cell at its position given back: neither a waiting job   *)
(* nor a pop that is not complete, of that cell or of an earlier one, is   *)
(* in the way.                                                             *)
Room(w) == \A u \in Worker : Len(queue[w]) + span[w][u] < QueueSize

(* Mutant: the job is written over the cell of a pop that is not complete. *)
ScheduleOverPop(k) ==
  /\ queue' = IF Len(queue[target]) < QueueSize
               THEN [queue EXCEPT ![target] = Append(@, k)] ELSE queue
  /\ target' \in Worker
  /\ UNCHANGED span

(* schedule: the job goes to the queue of the worker whose turn it is, or  *)
(* is lost.  Other threads outside the pool move the round-robin counter,  *)
(* too.                                                                    *)
Schedule(k) ==
  /\ queue' = IF Room(target)
               THEN [queue EXCEPT ![target] = Append(@, k)] ELSE queue
  /\ target' \in Worker
  /\ UNCHANGED span

Milliseconds == Interval \div 1000

(* Mutant: the timer is started without a repeat.                          *)
TickOnce ==
  /\ armed
  /\ armed' = FALSE
  /\ Schedule("tick")
  /\ UNCHANGED <<running, step, countVars, unread, socketVars, overlapped>>

(* UVTimer::periodic.                                                      *)
Tick ==
  /\ armed
  /\ armed' = (Milliseconds # 0)
  /\ Schedule("tick")
  /\ UNCHANGED <<running, step, countVars, unread, socketVars, overlapped>>

(* Mutant: a job is made only for what arrives while no job is waiting.    *)
PollOnEdge ==
  /\ watched /\ Len(unread) = 1 /\ \A w \in Worker : running[w] # "poll"
  /\ Schedule("poll")
  /\ UNCHANGED <<running, step, countVars, armed, unread, socketVars,
                 overlapped>>

(* UVPoller::periodic, on every turn that finds something to read.         *)
Poll ==
  /\ watched /\ unread # <<>>
  /\ Schedule("poll")
  /\ UNCHANGED <<running, step, countVars, armed, unread, socketVars,
                 overlapped>>

-------------------------------------------------------------------------------
(* The workers.                                                            *)

Donor(w) == (w + 1) % NWorkers

(* A worker claims the oldest job of its own queue, or of its donor's when *)
(* its own is empty: one more cell to wait for, behind the pops under way. *)
Claimed(w, spans) ==
  [u \in Worker |-> IF u = w THEN 1
                    ELSE IF spans[u] = 0 THEN 0 ELSE spans[u] + 1]

Start(w) ==
  \E v \in {w, Donor(w)} :
    /\ running[w] = "none"
    /\ queue[v] # <<>> /\ (v # w => queue[w] = <<>>)
    /\ queue' = [queue EXCEPT ![v] = Tail(@)]
    /\ span' = [span EXCEPT ![v] = Claimed(w, span[v])]
    /\ running' = [running EXCEPT ![w] = Head(queue[v])]
    /\ step' = [step EXCEPT ![w] = "pop"]
    /\ UNCHANGED <<target, countVars, armed, unread, socketVars, overlapped>>

InCallback(w, k) == running[w] = k /\ step[w] # "pop"

(* A counter's value is followed, modulo Wrap, until two executions of its *)
(* callback have met.  After that it may be anything: 0 stands for it, and *)
(* no property looks at it.                                                *)
Followed(met, k, n) == IF k \in met THEN 0 ELSE n % Wrap

(* The cell is given back, and the callback begins.                        *)
Release(w) ==
  /\ step[w] = "pop"
  /\ span' = [v \in Worker |-> [span[v] EXCEPT ![w] = 0]]
  /\ step' = [step EXCEPT ![w] = "begin"]
  /\ overlapped' =
       overlapped \cup {k \in {running[w]} : \E u \in Worker : InCallback(u, k)}
  /\ counter' = [k \in Kind |-> Followed(overlapped', k, counter[k])]
  /\ total' = [k \in Kind |-> Followed(overlapped', k, total[k])]
  /\ loaded' = [u \in Worker |-> Followed(overlapped', running[u], loaded[u])]
  /\ UNCHANGED <<queue, target, running, armed, unread, socketVars>>

End(w) ==
  /\ running' = [running EXCEPT ![w] = "none"]
  /\ UNCHANGED <<queueVars, step, countVars, armed, unread, socketVars,
                 overlapped>>

Reading(w) == running[w] = "poll" /\ step[w] = "begin"

(* The number the callback was given means a socket: the one polled, or    *)
(* the one that took its place.                                            *)
Readable == watched \/ reused

(* read() returns a datagram's length; nothing else takes that datagram.   *)
ReadBytes(w) ==
  /\ Reading(w) /\ Readable /\ unread # <<>> /\ Head(unread) # 0
  /\ unread' = Tail(unread)
  /\ step' = [step EXCEPT ![w] = "load"]
  /\ UNCHANGED <<queueVars, running, countVars, armed, socketVars, overlapped>>

(* cc = 0 ends the loop like an error does.                                *)
ReadEmpty(w) ==
  /\ Reading(w) /\ Readable /\ unread # <<>> /\ Head(unread) = 0
  /\ unread' = Tail(unread)
  /\ running' = [running EXCEPT ![w] = "none"]
  /\ UNCHANGED <<queueVars, step, countVars, armed, socketVars, overlapped>>

(* Mutant: the loop goes on when there is nothing to read.                 *)
ReadAgain(w) ==
  /\ Reading(w)
  /\ \/ watched /\ unread = <<>>
     \/ ~Readable
  /\ UNCHANGED vars

(* EAGAIN of the non-blocking descriptor, EBADF of a closed one.  The new  *)
(* socket blocks: a read of it that finds nothing does not return.         *)
ReadFails(w) ==
  /\ Reading(w)
  /\ \/ watched /\ unread = <<>>
     \/ ~Readable
  /\ End(w)

(* _byteCpt += cc in UDPSrc's loop, _cpt++ at the start of the Clock's     *)
(* callback: a load and a store, with _execMtx not locked.                 *)
LoadCounter(w) ==
  /\ step[w] = IF running[w] = "tick" THEN "begin" ELSE "load"
  /\ running[w] # "none"
  /\ loaded' = [loaded EXCEPT ![w] =
                  Followed(overlapped, running[w], counter[running[w]])]
  /\ step' = [step EXCEPT ![w] = "store"]
  /\ UNCHANGED <<queueVars, running, counter, total, armed, unread,
                 socketVars, overlapped>>

(* Mutant: the number of bytes read is stored, not added.                  *)
StoreAmount(w) ==
  LET k == running[w] IN
  /\ step[w] = "store"
  /\ counter' = [counter EXCEPT ![k] = Followed(overlapped, k, 1)]
  /\ total' = [total EXCEPT ![k] = Followed(overlapped, k, @ + 1)]
  /\ step' = [step EXCEPT ![w] = "begin"]
  /\ loaded' = [loaded EXCEPT ![w] = 0]
  /\ running' = [running EXCEPT ![w] = IF k = "tick" THEN "none" ELSE @]
  /\ UNCHANGED <<queueVars, armed, unread, socketVars, overlapped>>

(* Then the Clock's callback is over, and UDPSrc's reads again.            *)
StoreCounter(w) ==
  LET k == running[w] IN
  /\ step[w] = "store"
  /\ counter' = [counter EXCEPT ![k] = Followed(overlapped, k, loaded[w] + 1)]
  /\ total' = [total EXCEPT ![k] = Followed(overlapped, k, @ + 1)]
  /\ step' = [step EXCEPT ![w] = "begin"]
  /\ loaded' = [loaded EXCEPT ![w] = 0]
  /\ running' = [running EXCEPT ![w] = IF k = "tick" THEN "none" ELSE @]
  /\ UNCHANGED <<queueVars, armed, unread, socketVars, overlapped>>

-------------------------------------------------------------------------------
(* A datagram comes in from the network.  What comes for a socket that is  *)
(* neither polled nor read is left out.                                    *)
Arrive(n) ==
  /\ Readable
  /\ Len(unread) < Buffer
  /\ unread' = Append(unread, n)
  /\ UNCHANGED <<queueVars, running, step, countVars, armed, socketVars,
                 overlapped>>

(* UDPSrc::init_udp_socket after a change of "port": the polled descriptor *)
(* is closed and another socket opened, which no poller watches.           *)
SetPort(same) ==
  /\ moved < PortChanges
  /\ moved' = moved + 1
  /\ watched' = FALSE
  /\ reused' = same
  /\ unread' = <<>>
  /\ UNCHANGED <<queueVars, running, step, countVars, armed, overlapped>>

WorkerStep(w) ==
  \/ Start(w) \/ Release(w)
  \/ ReadBytes(w) \/ ReadEmpty(w) \/ ReadFails(w)
  \/ LoadCounter(w) \/ StoreCounter(w)

Next ==
  \/ Tick \/ Poll
  \/ \E w \in Worker : WorkerStep(w)
  \/ \E n \in {0, 1} : Arrive(n)
  \/ \E same \in BOOLEAN : SetPort(same)

Spec == Init /\ [][Next]_vars

(* The loop thread looks at timers and descriptors in each of its turns,   *)
(* and every worker's thread runs.                                         *)
FairSpec ==
  /\ Spec
  /\ WF_vars(Tick) /\ WF_vars(Poll)
  /\ \A w \in Worker : WF_vars(WorkerStep(w))

-------------------------------------------------------------------------------
(* The counters are exact as long as no two executions of the callback     *)
(* have overlapped (clock.cc: _cpt++, udpsrc.cc: _byteCpt): the bytes of   *)
(* one job's loop are not counted twice or forgotten at its ends, and the  *)
(* two callbacks do not disturb each other.                                *)
Counted == \A k \in Kind \ overlapped : counter[k] = total[k]

(* A queue is full, and one of the jobs that fill it is of kind k.         *)
Filled(k) ==
  \E w \in Worker :
    /\ ~Room(w)
    /\ \/ k \in ToSet(queue[w])
       \/ \E u \in Worker : span[w][u] > 0 /\ running[u] = k

Read == \E w \in Worker : ReadBytes(w) \/ ReadEmpty(w)

(* What arrives on the polled socket is read (udpsrc.cc, uvpoller.h): the  *)
(* buffer is found empty, or datagrams are taken from it, again and again. *)
(* A refused job or a loop broken off by an empty datagram is made up for  *)
(* by a later turn's poll.  A change of the port ends this.  So may a      *)
(* timer that fires so fast that its jobs are in full queues again and     *)
(* again: every poll may then meet a full queue.                           *)
Drained ==
  \/ []<>(unread = <<>> \/ ~watched)
  \/ []<><<Read>>_vars
  \/ []<>Filled("tick")

(* The read loop of a job (udpsrc.cc) comes to its end, unless the number  *)
(* it reads belongs to a socket opened later, which blocks, or datagrams   *)
(* keep coming: as long as it does not end, it counts bytes it has read.   *)
LoopEnds ==
  \A w \in Worker : []<>(running[w] # "poll" \/ reused \/ step[w] = "store")

(* A timer of at least a millisecond keeps calling its callback (uvtimer.h:*)
(* "Repeat"), whatever jobs were refused, with two exceptions: polls come  *)
(* for ever, and are in full queues again and again or keep a worker in    *)
(* its loop for ever; or the loops of a queue's owner and of its thief do  *)
(* not end.                                                                *)
Stays(w) == <>[](running[w] = "poll")

Polled == \E w \in Worker : "poll" \in ToSet(queue[w])

KeepsTicking ==
  Milliseconds # 0 =>
    \/ []<>(\E w \in Worker : running[w] = "tick")
    \/ []<>Polled /\ ([]<>Filled("poll") \/ \E w \in Worker : Stays(w))
    \/ \E v \in Worker : \A w \in Worker : v \in {w, Donor(w)} => Stays(w)
===============================================================================
