--------------------------------- MODULE Dpc ---------------------------------
(* The deferred procedure call engine of src/src/dpc.c on its single core: a  *)
(* ring of Capacity slots under two free-running uint32_t indices, filled by  *)
(* interrupt handlers and by the thread, drained by the thread's main loop.   *)
(*                                                                            *)
(* An interrupt can be taken between any two steps of the thread while MIE is *)
(* set; the trap clears MIE, so a handler runs to its mret before the thread  *)
(* resumes.  The steps are the accesses to shared memory in program order,    *)
(* which the fences of dpc.c keep.                                            *)
EXTENDS Integers, Sequences

CONSTANTS Event,      \* dpc_event_t values: type, arguments and handler
          NoEvent,    \* a local dpc_event_t that holds nothing
          Isr,        \* the interrupt handlers that enqueue
          Thread,     \* the thread context: main loop, tasks and DPC handlers
          Capacity,   \* DPC_QUEUE_CAPACITY
          Wraps       \* 2^32 / DPC_QUEUE_CAPACITY

ASSUME CapacityAssumption == Capacity \in Nat \ {0}
ASSUME WrapsAssumption == Wraps \in Nat /\ Wraps >= 2
ASSUME ContextAssumption == Thread \notin Isr
ASSUME EventAssumption == NoEvent \notin Event

Context == Isr \cup {Thread}
Modulus == Capacity * Wraps          \* 2^32: the range of a uint32_t
Index   == 0 .. Modulus - 1
Slot    == 0 .. Capacity - 1

Successor_NoWrap(i) == i + 1                    \* mutant: a wider integer type

SlotOf(i)      == i % Capacity                  \* i & DPC_QUEUE_MASK
Successor(i)   == (i + 1) % Modulus             \* uint32_t increment
Distance(h, t) == (h - t) % Modulus             \* (uint32_t)(h - t)

VARIABLES
  head, tail,   \* free-running indices of dpc_queue_t
  events,       \* the ring: slot -> event (NoEvent: never written)
  drop_count,   \* refused events
  processed,    \* g_dpc_processed_count
  mie,          \* mstatus.MIE
  running,      \* the context that owns the core
  enq,          \* per context: the point reached in dpc_enqueue_event
  cons,         \* the point the thread reached in dpc_process
  copy          \* the consumer's local event (ev in dpc_process)

ring == <<head, tail, events, drop_count>>
vars == <<head, tail, events, drop_count, processed, mie, running, enq, cons, copy>>

(* enq[c]: where context c is in dpc_enqueue_event, the event it carries, its *)
(* saved mstatus.MIE and the head it read.                                    *)
Idle == [at |-> "idle", ev |-> NoEvent, prev |-> FALSE, head |-> 0]

EnqState ==
  [at : {"idle", "check", "store", "publish", "restore"},
   ev : Event \cup {NoEvent}, prev : BOOLEAN, head : Index]

Init ==
  /\ head = 0
  /\ tail = 0
  /\ events = [s \in Slot |-> NoEvent]
  /\ drop_count = 0
  /\ processed = 0
  /\ mie = TRUE
  /\ running = Thread
  /\ enq = [c \in Context |-> Idle]
  /\ cons = "poll"
  /\ copy = NoEvent
-----------------------------------------------------------------------------
(* Interrupt delivery: trap entry and mret. *)

TakeInterrupt(i, e) ==
  /\ mie
  /\ running = Thread
  /\ running' = i
  /\ mie' = FALSE
  /\ enq' = [enq EXCEPT ![i] = [at |-> "check", ev |-> e, prev |-> FALSE, head |-> 0]]
  /\ UNCHANGED <<ring, processed, cons, copy>>

ReturnFromInterrupt(i) ==
  /\ running = i
  /\ i # Thread
  /\ enq[i].at = "restore"
  /\ running' = Thread
  /\ mie' = TRUE
  /\ enq' = [enq EXCEPT ![i] = Idle]
  /\ UNCHANGED <<ring, processed, cons, copy>>
-----------------------------------------------------------------------------
(* dpc_enqueue_event: interrupts off, dpc_queue_enqueue, interrupts restored. *)

\* mutant: the guard against other producers is missing
SaveAndDisable_Unguarded(e) ==
  /\ running = Thread
  /\ enq[Thread].at = "idle"
  /\ cons \in {"poll", "handle"}
  /\ enq' = [enq EXCEPT ![Thread] = [at |-> "check", ev |-> e, prev |-> mie, head |-> 0]]
  /\ UNCHANGED <<ring, processed, mie, running, cons, copy>>

SaveAndDisable(e) ==
  /\ running = Thread
  /\ enq[Thread].at = "idle"
  /\ cons \in {"poll", "handle"}
  /\ enq' = [enq EXCEPT ![Thread] = [at |-> "check", ev |-> e, prev |-> mie, head |-> 0]]
  /\ mie' = FALSE
  /\ UNCHANGED <<ring, processed, running, cons, copy>>

IsFull_OffByOne == Distance(head, tail) > Capacity   \* mutant: > for >=
IsFull_Signed == head - tail >= Capacity             \* mutant: no modular difference

IsFull == Distance(head, tail) >= Capacity

CheckFull(c) ==
  /\ running = c
  /\ enq[c].at = "check"
  /\ IsFull
  /\ drop_count' = Successor(drop_count)
  /\ enq' = [enq EXCEPT ![c].at = "restore"]
  /\ UNCHANGED <<head, tail, events, processed, mie, running, cons, copy>>

CheckRoom(c) ==
  /\ running = c
  /\ enq[c].at = "check"
  /\ ~IsFull
  /\ enq' = [enq EXCEPT ![c].at = "store", ![c].head = head]
  /\ UNCHANGED <<ring, processed, mie, running, cons, copy>>

Store(c) ==
  /\ running = c
  /\ enq[c].at = "store"
  /\ events' = [events EXCEPT ![SlotOf(enq[c].head)] = enq[c].ev]
  /\ enq' = [enq EXCEPT ![c].at = "publish"]
  /\ UNCHANGED <<head, tail, drop_count, processed, mie, running, cons, copy>>

Publish(c) ==
  /\ running = c
  /\ enq[c].at = "publish"
  /\ head' = Successor(enq[c].head)
  /\ enq' = [enq EXCEPT ![c].at = "restore"]
  /\ UNCHANGED <<tail, events, drop_count, processed, mie, running, cons, copy>>

Restore ==
  /\ running = Thread
  /\ enq[Thread].at = "restore"
  /\ mie' = enq[Thread].prev
  /\ enq' = [enq EXCEPT ![Thread] = Idle]
  /\ UNCHANGED <<ring, processed, running, cons, copy>>
-----------------------------------------------------------------------------
(* dpc_process in the thread: dpc_queue_dequeue step by step, then the        *)
(* handler, which may enqueue again.  dpc_process_all calls it until empty.   *)

ThreadRuns == running = Thread /\ enq[Thread].at = "idle"

SeeEvent_KeepsOne ==                 \* mutant: the last event is left behind
  /\ ThreadRuns
  /\ cons = "poll"
  /\ Distance(head, tail) > 1
  /\ cons' = "load"
  /\ UNCHANGED <<ring, processed, mie, running, enq, copy>>

SeeEvent ==
  /\ ThreadRuns
  /\ cons = "poll"
  /\ tail # head
  /\ cons' = "load"
  /\ UNCHANGED <<ring, processed, mie, running, enq, copy>>

LoadSlot ==
  /\ ThreadRuns
  /\ cons = "load"
  /\ copy' = events[SlotOf(tail)]
  /\ cons' = "advance"
  /\ UNCHANGED <<ring, processed, mie, running, enq>>

Advance ==
  /\ ThreadRuns
  /\ cons = "advance"
  /\ tail' = Successor(tail)
  /\ cons' = "handle"
  /\ UNCHANGED <<head, events, drop_count, processed, mie, running, enq, copy>>

HandlerReturns ==
  /\ ThreadRuns
  /\ cons = "handle"
  /\ processed' = Successor(processed)
  /\ cons' = "poll"
  /\ copy' = NoEvent
  /\ UNCHANGED <<ring, mie, running, enq>>

Consume == SeeEvent \/ LoadSlot \/ Advance \/ HandlerReturns

EnqueueStep(c) == CheckFull(c) \/ CheckRoom(c) \/ Store(c) \/ Publish(c)

Next ==
  \/ \E i \in Isr, e \in Event : TakeInterrupt(i, e)
  \/ \E i \in Isr : ReturnFromInterrupt(i)
  \/ \E e \in Event : SaveAndDisable(e)
  \/ \E c \in Context : CheckFull(c) \/ CheckRoom(c) \/ Store(c) \/ Publish(c)
  \/ Restore
  \/ SeeEvent \/ LoadSlot \/ Advance \/ HandlerReturns

Spec == Init /\ [][Next]_vars

(* Interrupt handlers finish; the thread runs again and again between         *)
(* interrupts (the only enqueuing source, TIMG0, fires every few seconds), so *)
(* a thread step that is possible infinitely often is taken.                  *)
Fairness ==
  /\ WF_vars(\E c \in Context : EnqueueStep(c))
  /\ WF_vars(Restore)
  /\ \A i \in Isr : WF_vars(ReturnFromInterrupt(i))
  /\ SF_vars(SeeEvent) /\ SF_vars(LoadSlot) /\ SF_vars(Advance) /\ SF_vars(HandlerReturns)

LiveSpec == Spec /\ Fairness
-----------------------------------------------------------------------------
TypeOK ==
  /\ head \in Index /\ tail \in Index
  /\ events \in [Slot -> Event \cup {NoEvent}]
  /\ drop_count \in Index /\ processed \in Index
  /\ mie \in BOOLEAN
  /\ running \in Context
  /\ enq \in [Context -> EnqState]
  /\ cons \in {"poll", "load", "advance", "handle"}
  /\ copy \in Event \cup {NoEvent}

Used == Distance(head, tail)

(* The queued events, oldest first: what the ring holds from tail to head. *)
Position(t, i) == (t + i - 1) % Modulus
Queued == [i \in 1 .. Used |-> events[SlotOf(Position(tail, i))]]

Fifo == INSTANCE DpcFifo WITH
          queue <- Queued,
          current <- IF cons = "handle" THEN copy ELSE NoEvent,
          drops <- drop_count

(* However interrupts fall between the steps of the thread's dequeue and of   *)
(* its own enqueues, the ring behaves as the bounded FIFO of DpcFifo.         *)
ImplementsFifo == Fifo!Spec

(* No interleaving makes the indices claim more events than there are slots,  *)
(* also when head has wrapped past 2^32 and tail has not.                     *)
NeverOverfull == Used <= Capacity

(* While the consumer copies the slot at tail, no producer is between its     *)
(* full check and its publication of that same slot: dpc_queue_dequeue never  *)
(* reads a half-written event.                                                *)
NoTornRead ==
  cons \in {"load", "advance"} =>
    \A c \in Context : enq[c].at \in {"store", "publish"} =>
      SlotOf(enq[c].head) # SlotOf(tail)

(* One producer at a time is between its full check and its publication, with *)
(* interrupts off: the arbitration dpc_enqueue_event provides.                *)
SingleProducer ==
  \A c \in Context : enq[c].at \in {"check", "store", "publish"} =>
    /\ ~mie
    /\ \A d \in Context \ {c} : enq[d].at = "idle"

(* The inductive invariant.  A producer holds the core with interrupts off,   *)
(* what it read is still true when it acts on it, and what it stored is in    *)
(* place when it publishes.                                                   *)
ProducerInv ==
  /\ mie <=> (running = Thread /\ enq[Thread].at = "idle")
  /\ enq[Thread].at # "idle" => enq[Thread].prev = TRUE
  /\ running # Thread => enq[running].at # "idle"
  /\ \A c \in Context :
       /\ enq[c].at # "idle" => running = c /\ enq[c].ev \in Event
       /\ enq[c].at \in {"store", "publish"} => enq[c].head = head /\ Used < Capacity
       /\ enq[c].at = "publish" => events[SlotOf(head)] = enq[c].ev

(* The consumer's view stays true over every interrupt: there is an event at  *)
(* tail, and the copy taken is that event.                                    *)
ConsumerInv ==
  /\ cons \in {"load", "advance"} => Used >= 1 /\ enq[Thread].at = "idle"
  /\ cons = "advance" => copy = events[SlotOf(tail)]
  /\ cons = "handle" => copy \in Event

RingInv == Used <= Capacity /\ \A i \in 1 .. Used : Queued[i] \in Event

IInv == TypeOK /\ ProducerInv /\ ConsumerInv /\ RingInv

(* An event that was accepted is handed to its handler in the end, whatever   *)
(* further interrupts arrive meanwhile.                                       *)
AcceptedIsHandled ==
  \A e \in Event :
    (\E i \in 1 .. Used : Queued[i] = e) ~> (cons = "handle" /\ copy = e)
=============================================================================
