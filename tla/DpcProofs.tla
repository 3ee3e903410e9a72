------------------------------ MODULE DpcProofs ------------------------------
(* Proofs about the DPC engine of module Dpc, for every capacity, index       *)
(* width, set of events and set of interrupt handlers.                        *)
EXTENDS Dpc, SequenceTheorems, TLAPS

USE DEF Context, Index, Slot

-----------------------------------------------------------------------------
(* Arithmetic of the free-running indices. *)

(* Dividing an integer leaves a remainder below the divisor. *)
LEMMA DivMod ==
  ASSUME NEW a \in Int, NEW n \in Nat \ {0}
  PROVE  /\ a = n * (a \div n) + (a % n)
         /\ a \div n \in Int
         /\ a % n \in 0 .. n - 1
  OBVIOUS

(* The index width is a positive multiple of the capacity, at least twice it. *)
LEMMA ModulusFacts ==
  /\ Modulus \in Nat \ {0}
  /\ Capacity \in Nat \ {0}
  /\ Capacity < Modulus
<1>1. Capacity \in Nat \ {0} /\ Wraps \in Nat /\ Wraps >= 2
  BY CapacityAssumption, WrapsAssumption
<1>2. Capacity * Wraps >= 2 * Capacity /\ Capacity * Wraps \in Nat
  BY <1>1
<1> QED
  BY <1>1, <1>2 DEF Modulus

(* Reduction of a number that is at most one index width out of range. *)
LEMMA ModCases ==
  ASSUME NEW a \in Int
  PROVE  /\ a \in Index => a % Modulus = a
         /\ (-Modulus <= a /\ a < 0) => a % Modulus = a + Modulus
         /\ (Modulus <= a /\ a < 2 * Modulus) => a % Modulus = a - Modulus
<1>1. Modulus \in Nat \ {0}
  BY ModulusFacts
<1>2. ASSUME a \in Index PROVE a % Modulus = a
  BY <1>1, <1>2
<1>3. ASSUME -Modulus <= a, a < 0 PROVE a % Modulus = a + Modulus
  BY <1>1, <1>3
<1>4. ASSUME Modulus <= a, a < 2 * Modulus PROVE a % Modulus = a - Modulus
  BY <1>1, <1>4
<1> QED
  BY <1>2, <1>3, <1>4

(* The unsigned difference, the increment and the i-th position written       *)
(* without a remainder.                                                       *)
LEMMA DistanceCases ==
  ASSUME NEW h \in Index, NEW t \in Index
  PROVE  /\ Distance(h, t) \in Index
         /\ Distance(h, t) = IF h >= t THEN h - t ELSE h - t + Modulus
<1>1. Modulus \in Nat \ {0}
  BY ModulusFacts
<1>2. CASE h >= t
  BY <1>1, <1>2, ModCases DEF Distance
<1>3. CASE h < t
  <2>1. -Modulus <= h - t /\ h - t < 0 /\ h - t \in Int
    BY <1>1, <1>3
  <2> QED
    BY <1>1, <1>3, <2>1, ModCases DEF Distance
<1> QED
  BY <1>1, <1>2, <1>3

LEMMA SuccessorCases ==
  ASSUME NEW i \in Index
  PROVE  /\ Successor(i) \in Index
         /\ Successor(i) = IF i + 1 = Modulus THEN 0 ELSE i + 1
<1>1. Modulus \in Nat \ {0} /\ i + 1 \in Int
  BY ModulusFacts
<1>2. CASE i + 1 = Modulus
  <2>1. (i + 1) % Modulus = i + 1 - Modulus
    BY <1>1, <1>2, ModCases
  <2> QED
    BY <1>1, <1>2, <2>1 DEF Successor
<1>3. CASE i + 1 # Modulus
  <2>1. i + 1 \in Index
    BY <1>1, <1>3
  <2>2. (i + 1) % Modulus = i + 1
    BY <2>1, ModCases
  <2> QED
    BY <1>3, <2>1, <2>2 DEF Successor
<1> QED
  BY <1>2, <1>3

LEMMA PositionCases ==
  ASSUME NEW t \in Index, NEW i \in 1 .. Modulus
  PROVE  /\ Position(t, i) \in Index
         /\ Position(t, i) = IF t + i - 1 < Modulus THEN t + i - 1 ELSE t + i - 1 - Modulus
<1>1. Modulus \in Nat \ {0} /\ t + i - 1 \in Int
  BY ModulusFacts
<1>2. CASE t + i - 1 < Modulus
  <2>1. t + i - 1 \in Index
    BY <1>1, <1>2
  <2>2. (t + i - 1) % Modulus = t + i - 1
    BY <2>1, ModCases
  <2> QED
    BY <1>2, <2>1, <2>2 DEF Position
<1>3. CASE t + i - 1 >= Modulus
  <2>1. Modulus <= t + i - 1 /\ t + i - 1 < 2 * Modulus
    BY <1>1, <1>3
  <2>2. (t + i - 1) % Modulus = t + i - 1 - Modulus
    BY <1>1, <2>1, ModCases
  <2> QED
    BY <1>1, <1>3, <2>1, <2>2 DEF Position
<1> QED
  BY <1>1, <1>2, <1>3

LEMMA SlotOfRange ==
  ASSUME NEW i \in Index
  PROVE  SlotOf(i) \in Slot
<1>1. Capacity \in Nat \ {0} /\ i \in Int
  BY ModulusFacts
<1> QED
  BY <1>1, DivMod DEF SlotOf

(* A multiple of the capacity is not strictly between zero and the capacity. *)
LEMMA NoMultipleBetween ==
  ASSUME NEW m \in Int
  PROVE  ~(0 < Capacity * m /\ Capacity * m < Capacity)
  BY ModulusFacts

(* Two indices less than a ring apart lie in different slots, also when the   *)
(* index width is crossed between them: the capacity divides the width.       *)
LEMMA DifferentSlots ==
  ASSUME NEW h \in Index, NEW t \in Index, h # t, Distance(h, t) < Capacity
  PROVE  SlotOf(h) # SlotOf(t)
<1> SUFFICES ASSUME h % Capacity = t % Capacity
             PROVE  FALSE
  BY DEF SlotOf
<1> DEFINE x == h \div Capacity
           y == t \div Capacity
           r == h % Capacity
<1>1. Capacity \in Nat \ {0} /\ Wraps \in Nat /\ h \in Int /\ t \in Int
  BY ModulusFacts, WrapsAssumption
<1>2. h = Capacity * x + r /\ t = Capacity * y + r /\ x \in Int /\ y \in Int /\ r \in Int
  <2>1. h = Capacity * (h \div Capacity) + (h % Capacity) /\ h \div Capacity \in Int
    BY <1>1, DivMod
  <2>2. t = Capacity * (t \div Capacity) + (t % Capacity) /\ t \div Capacity \in Int
    BY <1>1, DivMod
  <2>3. h % Capacity \in Int
    BY <1>1, DivMod
  <2> QED
    BY <2>1, <2>2, <2>3
<1>3. Distance(h, t) = IF h >= t THEN h - t ELSE h - t + Capacity * Wraps
  BY DistanceCases DEF Modulus
<1>4. 0 < Distance(h, t)
  <2>1. Distance(h, t) = IF h >= t THEN h - t ELSE h - t + Modulus
    BY DistanceCases
  <2>2. Modulus \in Nat /\ h < Modulus /\ t < Modulus /\ h >= 0 /\ t >= 0
    BY ModulusFacts
  <2> QED
    BY <1>1, <2>1, <2>2
<1> HIDE DEF x, y, r
<1>5. h - t = Capacity * (x - y)
  BY <1>1, <1>2
<1>6. h - t + Capacity * Wraps = Capacity * (x - y + Wraps)
  BY <1>1, <1>2, <1>5
<1>7. CASE h >= t
  BY <1>2, <1>3, <1>4, <1>5, <1>7, NoMultipleBetween
<1>8. CASE h < t
  <2>1. x - y + Wraps \in Int
    BY <1>1, <1>2
  <2>2. Distance(h, t) = Capacity * (x - y + Wraps)
    BY <1>1, <1>3, <1>6, <1>8
  <2> QED
    BY <1>4, <2>1, <2>2, NoMultipleBetween
<1> QED
  BY <1>1, <1>7, <1>8

(* The queued events lie in slots other than the one the producer stores to.  *)
LEMMA QueuedElsewhere ==
  ASSUME NEW h \in Index, NEW t \in Index, Distance(h, t) < Capacity,
         NEW i \in 1 .. Distance(h, t)
  PROVE  SlotOf(Position(t, i)) # SlotOf(h) /\ Position(t, i) \in Index
<1>1. i \in 1 .. Modulus
  BY DistanceCases, ModulusFacts
<1> DEFINE p == Position(t, i)
<1>2. p \in Index /\ p = IF t + i - 1 < Modulus THEN t + i - 1 ELSE t + i - 1 - Modulus
  BY <1>1, PositionCases
<1> HIDE DEF p
<1>3. h # p /\ Distance(h, p) < Capacity
  <2>1. Distance(h, t) = IF h >= t THEN h - t ELSE h - t + Modulus
    BY DistanceCases
  <2>2. Distance(h, p) = IF h >= p THEN h - p ELSE h - p + Modulus
    BY <1>2, DistanceCases
  <2>3. Modulus \in Nat /\ Capacity \in Nat /\ Capacity < Modulus
    BY ModulusFacts
  <2> HIDE DEF Distance
  <2> QED
    BY <1>1, <1>2, <2>1, <2>2, <2>3
<1> QED
  BY <1>2, <1>3, DifferentSlots DEF p

-----------------------------------------------------------------------------
(* What each step does to the queued events. *)

(* Publication appends the stored event to the queued ones. *)
LEMMA PublishAppends ==
  ASSUME NEW h \in Index, NEW t \in Index, Distance(h, t) < Capacity
  PROVE  /\ Distance(Successor(h), t) = Distance(h, t) + 1
         /\ Position(t, Distance(h, t) + 1) = h
<1> DEFINE d == Distance(h, t)
           s == Successor(h)
<1>1. d \in Index /\ d = IF h >= t THEN h - t ELSE h - t + Modulus
  BY DistanceCases
<1>2. s \in Index /\ s = IF h + 1 = Modulus THEN 0 ELSE h + 1
  BY SuccessorCases
<1>3. Distance(s, t) = IF s >= t THEN s - t ELSE s - t + Modulus
  BY <1>2, DistanceCases
<1>4. Modulus \in Nat /\ Capacity \in Nat /\ Capacity < Modulus
  BY ModulusFacts
<1>5. d + 1 \in 1 .. Modulus
  BY <1>1, <1>4
<1>6. Position(t, d + 1) = IF t + (d + 1) - 1 < Modulus THEN t + (d + 1) - 1
                                                        ELSE t + (d + 1) - 1 - Modulus
  BY <1>5, PositionCases
<1>7. d < Capacity
  OBVIOUS
<1> HIDE DEF d, s
<1>8. Distance(s, t) = d + 1
  BY <1>1, <1>2, <1>3, <1>4, <1>7
<1>9. Position(t, d + 1) = h
  BY <1>1, <1>4, <1>6, <1>7
<1> QED
  BY <1>8, <1>9 DEF d, s

(* Advancing the tail removes the oldest event and shifts the others. *)
LEMMA AdvanceShifts ==
  ASSUME NEW h \in Index, NEW t \in Index, Distance(h, t) >= 1
  PROVE  /\ Distance(h, Successor(t)) = Distance(h, t) - 1
         /\ Position(t, 1) = t
         /\ \A i \in 1 .. Distance(h, t) - 1 :
              Position(Successor(t), i) = Position(t, i + 1)
<1> DEFINE d == Distance(h, t)
           s == Successor(t)
<1>1. d \in Index /\ d = IF h >= t THEN h - t ELSE h - t + Modulus
  BY DistanceCases
<1>2. s \in Index /\ s = IF t + 1 = Modulus THEN 0 ELSE t + 1
  BY SuccessorCases
<1>3. Distance(h, s) = IF h >= s THEN h - s ELSE h - s + Modulus
  BY <1>2, DistanceCases
<1>4. Modulus \in Nat /\ 1 < Modulus
  BY ModulusFacts
<1>5. d >= 1
  OBVIOUS
<1>6. Position(t, 1) = IF t + 1 - 1 < Modulus THEN t + 1 - 1 ELSE t + 1 - 1 - Modulus
  BY <1>4, PositionCases
<1>7. ASSUME NEW i \in 1 .. d - 1
      PROVE  Position(s, i) = Position(t, i + 1)
  <2>1. i \in 1 .. Modulus /\ i + 1 \in 1 .. Modulus
    BY <1>1, <1>4
  <2>2. Position(s, i) = IF s + i - 1 < Modulus THEN s + i - 1 ELSE s + i - 1 - Modulus
    BY <1>2, <2>1, PositionCases
  <2>3. Position(t, i + 1) = IF t + (i + 1) - 1 < Modulus THEN t + (i + 1) - 1
                                                         ELSE t + (i + 1) - 1 - Modulus
    BY <2>1, PositionCases
  <2> HIDE DEF d, s
  <2> QED
    BY <1>1, <1>2, <1>4, <2>1, <2>2, <2>3
<1> HIDE DEF d, s
<1>8. Distance(h, s) = d - 1
  BY <1>1, <1>2, <1>3, <1>4, <1>5
<1>9. Position(t, 1) = t
  BY <1>4, <1>6
<1> QED
  BY <1>7, <1>8, <1>9 DEF d, s
-----------------------------------------------------------------------------
(* The inductive invariant. *)

LEMMA InitIInv == Init => IInv
<1> SUFFICES ASSUME Init PROVE IInv
  OBVIOUS
<1>1. 0 \in Index /\ Distance(0, 0) = 0
  BY DistanceCases, ModulusFacts
<1>2. TypeOK
  BY <1>1 DEF Init, TypeOK, EnqState, Idle
<1>3. ProducerInv
  BY ContextAssumption DEF Init, ProducerInv, Idle
<1>4. ConsumerInv /\ RingInv
  BY <1>1, ModulusFacts DEF Init, ConsumerInv, RingInv, Used
<1> QED
  BY <1>2, <1>3, <1>4 DEF IInv

(* The number of queued events is a number. *)
LEMMA UsedRange ==
  ASSUME TypeOK
  PROVE  Used \in Index /\ Used \in Nat
<1>1. head \in Index /\ tail \in Index
  BY DEF TypeOK
<1>2. Distance(head, tail) \in Index
  BY <1>1, DistanceCases
<1> QED
  BY <1>2, ModulusFacts DEF Used

(* A step that leaves the ring's memory alone keeps what the invariant says   *)
(* of the ring.                                                               *)
LEMMA RingUnchanged ==
  ASSUME UNCHANGED <<head, tail, events>>, RingInv
  PROVE  RingInv' /\ Used' = Used
  BY DEF RingInv, Used, Queued, Position

(* The states in which a context enters and leaves dpc_enqueue_event. *)
LEMMA EntryState ==
  ASSUME NEW e \in Event, NEW b \in BOOLEAN
  PROVE  /\ [at |-> "check", ev |-> e, prev |-> b, head |-> 0] \in EnqState
         /\ Idle \in EnqState
  BY ModulusFacts DEF EnqState, Idle

(* Trap entry and mret: the handler enters dpc_enqueue_event with an event    *)
(* and leaves it idle.                                                        *)
LEMMA InterruptStep ==
  ASSUME IInv, NEW i \in Isr,
         (\E e \in Event : TakeInterrupt(i, e)) \/ ReturnFromInterrupt(i)
  PROVE  IInv'
<1>1. i # Thread /\ i \in Context
  BY ContextAssumption
<1>2. UNCHANGED <<head, tail, events, cons, copy>>
  BY DEF TakeInterrupt, ReturnFromInterrupt, ring
<1>3. RingInv' /\ Used' = Used
  BY <1>2, RingUnchanged DEF IInv
<1>4. CASE \E e \in Event : TakeInterrupt(i, e)
  <2>1. PICK e \in Event : TakeInterrupt(i, e)
    BY <1>4
  <2>2. /\ mie /\ running = Thread /\ running' = i /\ mie' = FALSE
        /\ \A c \in Context : enq[c].at = "idle"
        /\ enq' = [enq EXCEPT ![i] =
                     [at |-> "check", ev |-> e, prev |-> FALSE, head |-> 0]]
    BY <2>1 DEF TakeInterrupt, IInv, ProducerInv
  <2>3. TypeOK'
    BY <1>1, <2>1, <2>2, EntryState DEF TakeInterrupt, IInv, TypeOK, ring
  <2>4. ProducerInv'
    BY <1>1, <1>2, <1>3, <2>2 DEF IInv, TypeOK, ProducerInv
  <2>5. ConsumerInv'
    BY <1>1, <1>2, <1>3, <2>2 DEF IInv, TypeOK, ConsumerInv
  <2> QED
    BY <1>3, <2>3, <2>4, <2>5 DEF IInv
<1>5. CASE ReturnFromInterrupt(i)
  <2>1. /\ running = i /\ running' = Thread /\ mie' = TRUE
        /\ enq' = [enq EXCEPT ![i] = Idle]
    BY <1>5 DEF ReturnFromInterrupt
  <2>2. \A c \in Context \ {i} : enq[c].at = "idle"
    BY <2>1 DEF IInv, ProducerInv
  <2>3. TypeOK'
    BY <1>1, <1>5, <2>1, ModulusFacts DEF ReturnFromInterrupt, IInv, TypeOK, EnqState, Idle, ring
  <2>4. ProducerInv'
    BY <1>1, <1>2, <1>3, <2>1, <2>2 DEF IInv, TypeOK, ProducerInv, Idle
  <2>5. ConsumerInv'
    BY <1>1, <1>2, <1>3, <2>1, <2>2 DEF IInv, TypeOK, ConsumerInv, Idle
  <2> QED
    BY <1>3, <2>3, <2>4, <2>5 DEF IInv
<1> QED
  BY <1>4, <1>5

(* The thread enters and leaves dpc_enqueue_event. *)
LEMMA ThreadEnqueueStep ==
  ASSUME IInv, (\E e \in Event : SaveAndDisable(e)) \/ Restore
  PROVE  IInv'
<1>1. UNCHANGED <<head, tail, events, cons, copy, running>> /\ running = Thread
  BY DEF SaveAndDisable, Restore, ring
<1>2. RingInv' /\ Used' = Used
  BY <1>1, RingUnchanged DEF IInv
<1>3. \A c \in Isr : enq[c].at = "idle" /\ c # Thread
  BY <1>1, ContextAssumption DEF IInv, ProducerInv
<1>4. CASE \E e \in Event : SaveAndDisable(e)
  <2>1. PICK e \in Event : SaveAndDisable(e)
    BY <1>4
  <2>2. /\ mie = TRUE /\ mie' = FALSE /\ cons \in {"poll", "handle"}
        /\ enq' = [enq EXCEPT ![Thread] =
                     [at |-> "check", ev |-> e, prev |-> mie, head |-> 0]]
    BY <2>1 DEF SaveAndDisable, IInv, ProducerInv, TypeOK
  <2>3. TypeOK'
    BY <1>1, <2>1, <2>2, EntryState DEF SaveAndDisable, IInv, TypeOK, ring
  <2>4. ProducerInv'
    BY <1>1, <1>2, <1>3, <2>2 DEF IInv, TypeOK, ProducerInv
  <2>5. ConsumerInv'
    BY <1>1, <1>2, <2>2 DEF IInv, TypeOK, ConsumerInv
  <2> QED
    BY <1>2, <2>3, <2>4, <2>5 DEF IInv
<1>5. CASE Restore
  <2>1. mie' = TRUE /\ enq' = [enq EXCEPT ![Thread] = Idle]
    BY <1>5 DEF Restore, IInv, ProducerInv
  <2>2. TypeOK'
    BY <1>1, <1>5, <2>1, ModulusFacts DEF Restore, IInv, TypeOK, EnqState, Idle, ring
  <2>3. ProducerInv'
    BY <1>1, <1>2, <1>3, <2>1 DEF IInv, TypeOK, ProducerInv, Idle
  <2>4. ConsumerInv'
    BY <1>1, <1>2, <2>1 DEF IInv, TypeOK, ConsumerInv, Idle
  <2> QED
    BY <1>2, <2>2, <2>3, <2>4 DEF IInv
<1> QED
  BY <1>4, <1>5

(* The context that is inside dpc_enqueue_event owns the core alone. *)
LEMMA EnqueuerAlone ==
  ASSUME IInv, NEW c \in Context, enq[c].at # "idle"
  PROVE  running = c /\ \A d \in Context \ {c} : enq[d].at = "idle"
  BY DEF IInv, ProducerInv

(* The full check: a refusal counts, room is remembered with the head read.   *)
LEMMA CheckStep ==
  ASSUME IInv, NEW c \in Context, CheckFull(c) \/ CheckRoom(c)
  PROVE  IInv'
<1>1. /\ UNCHANGED <<head, tail, events, cons, copy, running, mie, processed>>
      /\ running = c /\ enq[c].at = "check"
  BY DEF CheckFull, CheckRoom, ring
<1>2. RingInv' /\ Used' = Used
  BY <1>1, RingUnchanged DEF IInv
<1>3. \A d \in Context \ {c} : enq[d].at = "idle"
  BY <1>1, EnqueuerAlone
<1>4. CASE CheckFull(c)
  <2>1. enq' = [enq EXCEPT ![c].at = "restore"] /\ drop_count' = Successor(drop_count)
    BY <1>4 DEF CheckFull
  <2>2. TypeOK'
    BY <1>1, <2>1, SuccessorCases DEF IInv, TypeOK, EnqState
  <2>3. ProducerInv'
    BY <1>1, <1>2, <1>3, <2>1 DEF IInv, TypeOK, ProducerInv, EnqState
  <2>4. ConsumerInv'
    BY <1>1, <1>2, <2>1 DEF IInv, TypeOK, ConsumerInv, ProducerInv, EnqState
  <2> QED
    BY <1>2, <2>2, <2>3, <2>4 DEF IInv
<1>5. CASE CheckRoom(c)
  <2>1. /\ enq' = [enq EXCEPT ![c].at = "store", ![c].head = head]
        /\ UNCHANGED drop_count /\ ~(Used >= Capacity)
    BY <1>5 DEF CheckRoom, IsFull, Used, ring
  <2>2. Used < Capacity
    BY <2>1, ModulusFacts, DistanceCases DEF Used, IInv, TypeOK
  <2>3. TypeOK'
    BY <1>1, <2>1 DEF IInv, TypeOK, EnqState
  <2>4. ProducerInv'
    BY <1>1, <1>2, <1>3, <2>1, <2>2 DEF IInv, TypeOK, ProducerInv, EnqState
  <2>5. ConsumerInv'
    BY <1>1, <1>2, <2>1 DEF IInv, TypeOK, ConsumerInv, ProducerInv, EnqState
  <2> QED
    BY <1>2, <2>3, <2>4, <2>5 DEF IInv
<1> QED
  BY <1>4, <1>5

(* Storing touches no slot that holds a queued event. *)
LEMMA StoreKeepsQueue ==
  ASSUME IInv, NEW c \in Context, Store(c)
  PROVE  Queued' = Queued /\ Used' = Used
<1>1. head \in Index /\ tail \in Index /\ enq[c].head = head /\ Used < Capacity
  BY DEF IInv, TypeOK, ProducerInv, Store
<1>2. UNCHANGED <<head, tail>> /\ events' = [events EXCEPT ![SlotOf(head)] = enq[c].ev]
  BY <1>1 DEF Store
<1>3. Used' = Used
  BY <1>2 DEF Used
<1>4. ASSUME NEW i \in 1 .. Used
      PROVE  events'[SlotOf(Position(tail, i))] = events[SlotOf(Position(tail, i))]
  <2>1. SlotOf(Position(tail, i)) # SlotOf(head) /\ Position(tail, i) \in Index
    BY <1>1, QueuedElsewhere DEF Used
  <2>2. SlotOf(Position(tail, i)) \in Slot
    BY <2>1, SlotOfRange
  <2> QED
    BY <1>2, <2>1, <2>2 DEF IInv, TypeOK
<1>5. \A i \in 1 .. Used : Position(tail, i)' = Position(tail, i)
  BY <1>2 DEF Position
<1> QED
  BY <1>2, <1>3, <1>4 DEF Queued, Position

LEMMA StoreStep ==
  ASSUME IInv, NEW c \in Context, Store(c)
  PROVE  IInv'
<1>1. /\ UNCHANGED <<head, tail, cons, copy, running, mie, processed, drop_count>>
      /\ running = c /\ enq[c].at = "store"
      /\ events' = [events EXCEPT ![SlotOf(enq[c].head)] = enq[c].ev]
      /\ enq' = [enq EXCEPT ![c].at = "publish"]
  BY DEF Store
<1>2. \A d \in Context \ {c} : enq[d].at = "idle"
  BY <1>1, EnqueuerAlone
<1>3. Queued' = Queued /\ Used' = Used
  BY StoreKeepsQueue
<1>4. SlotOf(head) \in Slot /\ enq[c].head = head /\ Used < Capacity /\ enq[c].ev \in Event
  BY <1>1, SlotOfRange DEF IInv, TypeOK, ProducerInv
<1>5. TypeOK'
  BY <1>1, <1>4 DEF IInv, TypeOK, EnqState
<1>6. ProducerInv'
  BY <1>1, <1>2, <1>3, <1>4 DEF IInv, TypeOK, ProducerInv, EnqState
<1>7. RingInv'
  BY <1>3 DEF IInv, RingInv
<1>8. ConsumerInv'
  <2>1. CASE cons = "advance"
    <3>1. Used >= 1 /\ copy = events[SlotOf(tail)] /\ enq[Thread].at = "idle" /\ c # Thread
      BY <1>1, <2>1 DEF IInv, ConsumerInv
    <3>2. head # tail
      <4>1. head \in Index /\ tail \in Index
        BY DEF IInv, TypeOK
      <4>2. Distance(head, tail) = IF head >= tail THEN head - tail ELSE head - tail + Modulus
        BY <4>1, DistanceCases
      <4> QED
        BY <3>1, <4>1, <4>2, ModulusFacts DEF Used
    <3>3. SlotOf(head) # SlotOf(tail)
      BY <1>4, <3>2, DifferentSlots DEF IInv, TypeOK, Used
    <3>4. SlotOf(tail) \in Slot
      BY SlotOfRange DEF IInv, TypeOK
    <3>5. events'[SlotOf(tail)] = events[SlotOf(tail)]
      BY <1>1, <1>4, <3>3, <3>4 DEF IInv, TypeOK
    <3>6. enq'[Thread].at = "idle"
      BY <1>1, <3>1 DEF IInv, TypeOK
    <3> QED
      BY <1>1, <1>3, <2>1, <3>1, <3>5, <3>6 DEF ConsumerInv
  <2>2. CASE cons # "advance"
    BY <1>1, <1>3, <2>2 DEF IInv, TypeOK, ConsumerInv, EnqState
  <2> QED
    BY <2>1, <2>2
<1> QED
  BY <1>5, <1>6, <1>7, <1>8 DEF IInv

(* Publication: the queue grows by the stored event. *)
LEMMA PublishQueue ==
  ASSUME IInv, NEW c \in Context, Publish(c)
  PROVE  /\ Used < Capacity /\ enq[c].ev \in Event
         /\ Used' = Used + 1
         /\ Queued' = Append(Queued, enq[c].ev)
<1>1. /\ head \in Index /\ tail \in Index /\ enq[c].head = head /\ Used < Capacity
      /\ events[SlotOf(head)] = enq[c].ev /\ enq[c].ev \in Event
  BY DEF IInv, TypeOK, ProducerInv, Publish
<1>2. UNCHANGED <<tail, events>> /\ head' = Successor(head)
  BY <1>1 DEF Publish
<1>3. Used \in Nat
  BY UsedRange DEF IInv
<1>4. Distance(Successor(head), tail) = Distance(head, tail) + 1
  BY <1>1, PublishAppends DEF Used
<1>5. Position(tail, Distance(head, tail) + 1) = head
  BY <1>1, PublishAppends DEF Used
<1>6. Used' = Used + 1
  BY <1>2, <1>4 DEF Used
<1>7. \A i \in 1 .. Used : Queued[i] = events[SlotOf(Position(tail, i))]
  BY DEF Queued
<1>8. Queued' = [i \in 1 .. Used + 1 |-> events[SlotOf(Position(tail, i))]]
  BY <1>2, <1>6 DEF Queued, Position
<1>9. Queued = [i \in 1 .. Used |-> events[SlotOf(Position(tail, i))]]
  BY DEF Queued
<1>10. events[SlotOf(Position(tail, Used + 1))] = enq[c].ev
  BY <1>1, <1>5 DEF Used
<1>11. Append(Queued, enq[c].ev) =
         [i \in 1 .. Used + 1 |-> IF i <= Used THEN Queued[i] ELSE enq[c].ev]
  BY <1>3, <1>9
<1> QED
  BY <1>1, <1>3, <1>6, <1>7, <1>8, <1>10, <1>11

(* The queued events are a sequence of events. *)
LEMMA QueuedIsSeq ==
  ASSUME IInv
  PROVE  Queued \in Seq(Event) /\ Len(Queued) = Used /\ Used \in Nat
<1>1. Used \in Nat
  BY UsedRange DEF IInv
<1>2. \A i \in 1 .. Used : Queued[i] \in Event
  BY DEF IInv, RingInv
<1> QED
  BY <1>1, <1>2 DEF Queued

LEMMA PublishStep ==
  ASSUME IInv, NEW c \in Context, Publish(c)
  PROVE  IInv'
<1>1. /\ UNCHANGED <<tail, events, cons, copy, running, mie, processed, drop_count>>
      /\ running = c /\ enq[c].at = "publish" /\ enq[c].head = head
      /\ head' = Successor(head)
      /\ enq' = [enq EXCEPT ![c].at = "restore"]
  BY DEF Publish, IInv, ProducerInv
<1>2. \A d \in Context \ {c} : enq[d].at = "idle"
  BY <1>1, EnqueuerAlone
<1>3. /\ Used < Capacity /\ Used' = Used + 1 /\ enq[c].ev \in Event
      /\ Queued' = Append(Queued, enq[c].ev)
  BY PublishQueue
<1>4. Queued \in Seq(Event) /\ Len(Queued) = Used /\ Used \in Nat
  BY QueuedIsSeq
<1>5. TypeOK'
  BY <1>1, SuccessorCases DEF IInv, TypeOK, EnqState
<1>6. ProducerInv'
  BY <1>1, <1>2 DEF IInv, TypeOK, ProducerInv, EnqState
<1>7. ConsumerInv'
  BY <1>1, <1>3, <1>4 DEF IInv, TypeOK, ConsumerInv, EnqState
<1>8. RingInv'
  BY <1>3, <1>4, ModulusFacts DEF RingInv
<1> QED
  BY <1>5, <1>6, <1>7, <1>8 DEF IInv

(* Advancing the tail takes the event the consumer copied off the queue.      *)
LEMMA AdvanceQueue ==
  ASSUME IInv, Advance
  PROVE  /\ Used >= 1 /\ Queued # <<>> /\ copy = Head(Queued) /\ copy \in Event
         /\ Used' = Used - 1
         /\ Queued' = Tail(Queued)
<1>1. /\ head \in Index /\ tail \in Index /\ Used >= 1
      /\ copy = events[SlotOf(tail)]
  BY DEF IInv, TypeOK, ConsumerInv, Advance
<1>2. UNCHANGED <<head, events>> /\ tail' = Successor(tail)
  BY DEF Advance
<1>3. Queued \in Seq(Event) /\ Len(Queued) = Used /\ Used \in Nat
  BY QueuedIsSeq
<1>4. /\ Distance(head, Successor(tail)) = Distance(head, tail) - 1
      /\ Position(tail, 1) = tail
      /\ \A i \in 1 .. Distance(head, tail) - 1 :
           Position(Successor(tail), i) = Position(tail, i + 1)
  BY <1>1, AdvanceShifts DEF Used
<1>5. Used' = Used - 1
  BY <1>2, <1>4 DEF Used
<1>6. Queued' = [i \in 1 .. Used - 1 |-> events[SlotOf(Position(Successor(tail), i))]]
  BY <1>2, <1>5 DEF Queued, Position
<1>7. \A i \in 1 .. Used : Queued[i] = events[SlotOf(Position(tail, i))]
  BY DEF Queued
<1>8. \A i \in 1 .. Used - 1 : Queued'[i] = Queued[i + 1]
  BY <1>3, <1>4, <1>6, <1>7 DEF Used
<1>9. Queued # <<>>
  BY <1>1, <1>3
<1>10. /\ Head(Queued) = Queued[1]
       /\ Tail(Queued) \in Seq(Event) /\ Len(Tail(Queued)) = Used - 1
       /\ \A i \in 1 .. Used - 1 : Tail(Queued)[i] = Queued[i + 1]
  BY <1>3, <1>9, HeadTailProperties
<1>11. Queued' = Tail(Queued)
  <2>1. \A i \in 1 .. Used - 1 : Queued'[i] = Tail(Queued)[i]
    BY <1>8, <1>10
  <2>2. \A i \in 1 .. Used - 1 : Queued'[i] \in Event
    BY <1>1, <1>3, <1>8
  <2>3. Queued' \in Seq(Event) /\ Len(Queued') = Used - 1
    BY <1>1, <1>3, <1>6, <2>2
  <2> QED
    BY <1>10, <2>1, <2>3, SeqEqual
<1>12. Queued[1] = copy
  BY <1>1, <1>3, <1>4, <1>7
<1>13. copy \in Event
  BY <1>1, <1>3, <1>12
<1> QED
  BY <1>1, <1>5, <1>9, <1>10, <1>11, <1>12, <1>13

LEMMA AdvanceStep ==
  ASSUME IInv, Advance
  PROVE  IInv'
<1>1. /\ UNCHANGED <<head, events, copy, running, mie, enq, processed, drop_count>>
      /\ running = Thread /\ enq[Thread].at = "idle" /\ cons' = "handle"
      /\ tail' = Successor(tail)
  BY DEF Advance, ThreadRuns
<1>2. /\ Used >= 1 /\ Used' = Used - 1 /\ Queued' = Tail(Queued)
      /\ Queued # <<>> /\ copy \in Event
  BY AdvanceQueue
<1>3. Queued \in Seq(Event) /\ Len(Queued) = Used /\ Used \in Nat
  BY QueuedIsSeq
<1>4. TypeOK'
  BY <1>1, SuccessorCases DEF IInv, TypeOK, EnqState
<1>5. \A c \in Context : enq[c].at = "idle"
  BY <1>1 DEF IInv, ProducerInv
<1>6. ProducerInv'
  BY <1>1, <1>5 DEF IInv, ProducerInv
<1>7. ConsumerInv'
  BY <1>1, <1>2 DEF ConsumerInv
<1>8. RingInv'
  BY <1>2, <1>3, ModulusFacts DEF IInv, RingInv
<1> QED
  BY <1>4, <1>6, <1>7, <1>8 DEF IInv

(* The consumer's other steps change its own state only. *)
LEMMA ConsumerStep ==
  ASSUME IInv, SeeEvent \/ LoadSlot \/ HandlerReturns
  PROVE  IInv'
<1>1. /\ UNCHANGED <<head, tail, events, running, mie, enq, drop_count>>
      /\ running = Thread /\ enq[Thread].at = "idle"
  BY DEF SeeEvent, LoadSlot, HandlerReturns, ThreadRuns, ring
<1>2. RingInv' /\ Used' = Used
  BY <1>1, RingUnchanged DEF IInv
<1>3. ProducerInv'
  BY <1>1, <1>2 DEF IInv, ProducerInv
<1>4. head \in Index /\ tail \in Index /\ Used \in Nat
  BY UsedRange DEF IInv, TypeOK
<1>5. CASE SeeEvent
  <2>1. tail # head /\ cons' = "load" /\ UNCHANGED <<processed, copy>>
    BY <1>5 DEF SeeEvent
  <2>2. Used >= 1
    <3>1. Distance(head, tail) = IF head >= tail THEN head - tail ELSE head - tail + Modulus
      BY <1>4, DistanceCases
    <3> QED
      BY <1>4, <2>1, <3>1, ModulusFacts DEF Used
  <2> QED
    BY <1>1, <1>2, <1>3, <2>1, <2>2 DEF IInv, TypeOK, ConsumerInv
<1>6. CASE LoadSlot
  <2>1. /\ cons = "load" /\ cons' = "advance" /\ copy' = events[SlotOf(tail)]
        /\ UNCHANGED processed
    BY <1>6 DEF LoadSlot, ring
  <2>2. SlotOf(tail) \in Slot
    BY <1>4, SlotOfRange
  <2>3. TypeOK'
    BY <1>1, <2>1, <2>2 DEF IInv, TypeOK
  <2> QED
    BY <1>1, <1>2, <1>3, <2>1, <2>3 DEF IInv, ConsumerInv
<1>7. CASE HandlerReturns
  <2>1. cons' = "poll" /\ copy' = NoEvent /\ processed' = Successor(processed)
    BY <1>7 DEF HandlerReturns
  <2> QED
    BY <1>1, <1>2, <1>3, <2>1, SuccessorCases DEF IInv, TypeOK, ConsumerInv
<1> QED
  BY <1>5, <1>6, <1>7

LEMMA NextIInv == IInv /\ [Next]_vars => IInv'
<1> SUFFICES ASSUME IInv, [Next]_vars PROVE IInv'
  OBVIOUS
<1>1. CASE \E i \in Isr, e \in Event : TakeInterrupt(i, e)
  BY <1>1, InterruptStep
<1>2. CASE \E i \in Isr : ReturnFromInterrupt(i)
  BY <1>2, InterruptStep
<1>3. CASE (\E e \in Event : SaveAndDisable(e)) \/ Restore
  BY <1>3, ThreadEnqueueStep
<1>4. ASSUME NEW c \in Context, CheckFull(c) \/ CheckRoom(c) \/ Store(c) \/ Publish(c)
      PROVE  IInv'
  BY <1>4, CheckStep, StoreStep, PublishStep
<1>5. CASE SeeEvent \/ LoadSlot \/ HandlerReturns
  BY <1>5, ConsumerStep
<1>6. CASE Advance
  BY <1>6, AdvanceStep
<1>7. CASE UNCHANGED vars
  <2>1. UNCHANGED <<head, tail, events>>
    BY <1>7 DEF vars
  <2>2. RingInv' /\ Used' = Used
    BY <2>1, RingUnchanged DEF IInv
  <2> QED
    BY <1>7, <2>2 DEF vars, IInv, TypeOK, ProducerInv, ConsumerInv
<1> QED
  BY <1>1, <1>2, <1>3, <1>4, <1>5, <1>6, <1>7 DEF Next

(* The inductive invariant holds in every reachable state. *)
THEOREM Invariance == Spec => []IInv
  BY InitIInv, NextIInv, PTL DEF Spec

(* dpc.c never claims more queued events than DPC_QUEUE_CAPACITY slots, for   *)
(* any capacity and any index width that is a multiple of it.                 *)
THEOREM Capacitated == Spec => []NeverOverfull
<1>1. IInv => NeverOverfull
  BY DEF IInv, RingInv, NeverOverfull
<1> QED
  BY <1>1, Invariance, PTL

(* Every variable of the engine keeps its type. *)
THEOREM TypeCorrect == Spec => []TypeOK
<1>1. IInv => TypeOK
  BY DEF IInv
<1> QED
  BY <1>1, Invariance, PTL

(* One producer at a time, with interrupts off (dpc_enqueue_event).           *)
THEOREM Arbitration == Spec => []SingleProducer
<1>1. IInv => SingleProducer
  BY DEF IInv, ProducerInv, SingleProducer
<1> QED
  BY <1>1, Invariance, PTL

(* dpc_queue_dequeue never copies a slot that a producer is writing.          *)
THEOREM Untorn == Spec => []NoTornRead
<1>1. ASSUME IInv, cons \in {"load", "advance"},
             NEW c \in Context, enq[c].at \in {"store", "publish"}
      PROVE  SlotOf(enq[c].head) # SlotOf(tail)
  <2>1. /\ Used >= 1 /\ Used < Capacity /\ enq[c].head = head
        /\ head \in Index /\ tail \in Index
    BY <1>1 DEF IInv, TypeOK, ProducerInv, ConsumerInv
  <2>2. Distance(head, tail) = IF head >= tail THEN head - tail ELSE head - tail + Modulus
    BY <2>1, DistanceCases
  <2>3. head # tail
    BY <2>1, <2>2, ModulusFacts DEF Used
  <2> QED
    BY <2>1, <2>3, DifferentSlots DEF Used
<1>2. IInv => NoTornRead
  BY <1>1 DEF NoTornRead
<1> QED
  BY <1>2, Invariance, PTL
-----------------------------------------------------------------------------
(* The engine implements the bounded FIFO: publication is the acceptance,     *)
(* the full check the refusal, the advance of tail the hand-over.             *)

LEMMA InitRefines == Init => Fifo!Init
<1> SUFFICES ASSUME Init PROVE Fifo!Init
  OBVIOUS
<1>1. Distance(0, 0) = 0
  BY DistanceCases, ModulusFacts
<1>2. Used = 0 /\ Queued = <<>>
  BY <1>1 DEF Init, Used, Queued
<1> QED
  BY <1>2 DEF Init, Fifo!Init

(* Every step of the engine is a step of the FIFO or leaves it unchanged.     *)
LEMMA NextRefines == IInv /\ [Next]_vars => [Fifo!Next]_(Fifo!vars)
<1> SUFFICES ASSUME IInv, [Next]_vars PROVE [Fifo!Next]_(Fifo!vars)
  OBVIOUS
<1>1. ASSUME UNCHANGED <<head, tail, events, drop_count, processed, cons, copy>>
      PROVE  UNCHANGED Fifo!vars
  BY <1>1 DEF Fifo!vars, Queued, Used, Position
<1>2. CASE \E i \in Isr, e \in Event : TakeInterrupt(i, e)
  BY <1>1, <1>2 DEF TakeInterrupt, ring
<1>3. CASE \E i \in Isr : ReturnFromInterrupt(i)
  BY <1>1, <1>3 DEF ReturnFromInterrupt, ring
<1>4. CASE (\E e \in Event : SaveAndDisable(e)) \/ Restore
  BY <1>1, <1>4 DEF SaveAndDisable, Restore, ring
<1>5. ASSUME NEW c \in Context, CheckFull(c)
      PROVE  Fifo!Refuse
  <2>1. /\ UNCHANGED <<head, tail, events, processed, cons, copy>>
        /\ Distance(head, tail) >= Capacity /\ drop_count' = Successor(drop_count)
    BY <1>5 DEF CheckFull, IsFull
  <2>2. Queued' = Queued
    BY <2>1 DEF Queued, Used, Position
  <2>3. Len(Queued) = Used /\ Used \in Nat /\ Used <= Capacity
    BY QueuedIsSeq DEF IInv, RingInv
  <2>4. Len(Queued) = Capacity
    BY <2>1, <2>3, ModulusFacts DEF Used
  <2> QED
    BY <2>1, <2>2, <2>4 DEF Fifo!Refuse, Successor
<1>6. ASSUME NEW c \in Context, CheckRoom(c)
      PROVE  UNCHANGED Fifo!vars
  BY <1>1, <1>6 DEF CheckRoom, ring
<1>7. ASSUME NEW c \in Context, Store(c)
      PROVE  UNCHANGED Fifo!vars
  <2>1. Queued' = Queued
    BY <1>7, StoreKeepsQueue
  <2> QED
    BY <1>7, <2>1 DEF Store, Fifo!vars
<1>8. ASSUME NEW c \in Context, Publish(c)
      PROVE  Fifo!Accept(enq[c].ev) /\ enq[c].ev \in Event
  <2>1. Used < Capacity /\ enq[c].ev \in Event /\ Queued' = Append(Queued, enq[c].ev)
    BY <1>8, PublishQueue
  <2>2. Len(Queued) = Used
    BY QueuedIsSeq
  <2>3. UNCHANGED <<cons, copy, drop_count, processed>>
    BY <1>8 DEF Publish
  <2> QED
    BY <2>1, <2>2, <2>3 DEF Fifo!Accept
<1>9. CASE SeeEvent
  <2>1. Queued' = Queued
    BY <1>9 DEF SeeEvent, ring, Queued, Used, Position
  <2> QED
    BY <1>9, <2>1 DEF SeeEvent, ring, Fifo!vars
<1>10. CASE LoadSlot
  <2>1. Queued' = Queued
    BY <1>10 DEF LoadSlot, ring, Queued, Used, Position
  <2> QED
    BY <1>10, <2>1 DEF LoadSlot, ring, Fifo!vars
<1>11. CASE Advance
  <2>1. Queued # <<>> /\ copy = Head(Queued) /\ Queued' = Tail(Queued)
    BY <1>11, AdvanceQueue
  <2>2. /\ cons = "advance" /\ cons' = "handle"
        /\ UNCHANGED <<copy, drop_count, processed>>
    BY <1>11 DEF Advance
  <2>3. Fifo!Begin
    BY <2>1, <2>2 DEF Fifo!Begin
  <2> QED
    BY <2>3 DEF Fifo!Next
<1>12. CASE HandlerReturns
  <2>1. /\ cons = "handle" /\ cons' = "poll" /\ processed' = Successor(processed)
        /\ UNCHANGED <<head, tail, events, drop_count>>
    BY <1>12 DEF HandlerReturns, ring
  <2>2. Queued' = Queued
    BY <2>1 DEF Queued, Used, Position
  <2>3. copy # NoEvent
    BY <2>1, EventAssumption DEF IInv, ConsumerInv
  <2>4. Fifo!Finish
    BY <2>1, <2>2, <2>3 DEF Fifo!Finish, Successor
  <2> QED
    BY <2>4 DEF Fifo!Next
<1>13. CASE UNCHANGED vars
  BY <1>1, <1>13 DEF vars
<1>14. ASSUME NEW c \in Context, CheckFull(c) \/ CheckRoom(c) \/ Store(c) \/ Publish(c)
       PROVE  [Fifo!Next]_(Fifo!vars)
  BY <1>5, <1>6, <1>7, <1>8, <1>14 DEF Fifo!Next
<1> QED
  BY <1>2, <1>3, <1>4, <1>9, <1>10, <1>11, <1>12, <1>13, <1>14 DEF Next

(* For every capacity, index width, set of events and set of handlers, dpc.c  *)
(* under interrupts at any step is the bounded FIFO of DpcFifo.               *)
THEOREM Refinement == Spec => ImplementsFifo
  BY InitRefines, NextRefines, Invariance, PTL DEF Spec, ImplementsFifo, Fifo!Spec
=============================================================================
