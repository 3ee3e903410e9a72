------------------------------- MODULE DpcFifo -------------------------------
(* What the DPC engine promises its users (src/src/dpc.h): a bounded FIFO of  *)
(* events.  An event offered to a queue with room is accepted and handed to   *)
(* its handler exactly once, in the order of acceptance; an event offered to  *)
(* a full queue is dropped and counted.  The counters are the code's uint32_t *)
(* telemetry, so they wrap.                                                   *)
EXTENDS Naturals, Sequences

CONSTANTS Event,      \* the dpc_event_t values the producers enqueue
          Capacity,   \* DPC_QUEUE_CAPACITY
          Modulus,    \* 2^32: the range of the uint32_t counters
          NoEvent     \* no event is being handled

VARIABLES queue,      \* the accepted events that no handler has been given yet
          current,    \* the event whose handler runs
          drops,      \* events refused since dpc_init
          processed   \* events whose handler has returned since dpc_init

vars == <<queue, current, drops, processed>>

Init ==
  /\ queue = <<>>
  /\ current = NoEvent
  /\ drops = 0
  /\ processed = 0

Accept(e) ==
  /\ Len(queue) < Capacity
  /\ queue' = Append(queue, e)
  /\ UNCHANGED <<current, drops, processed>>

Refuse ==
  /\ Len(queue) = Capacity
  /\ drops' = (drops + 1) % Modulus
  /\ UNCHANGED <<queue, current, processed>>

Begin ==
  /\ current = NoEvent
  /\ queue # <<>>
  /\ current' = Head(queue)
  /\ queue' = Tail(queue)
  /\ UNCHANGED <<drops, processed>>

Finish ==
  /\ current # NoEvent
  /\ current' = NoEvent
  /\ processed' = (processed + 1) % Modulus
  /\ UNCHANGED <<queue, drops>>

Next == (\E e \in Event : Accept(e)) \/ Refuse \/ Begin \/ Finish

Spec == Init /\ [][Next]_vars
=============================================================================
