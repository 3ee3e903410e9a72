------------------------------ MODULE TcpProofs ------------------------------
(* Proofs about the TCP engine of module Tcp, for every sequence space, every *)
(* segment and window size, every number of retries and every bound.          *)
EXTENDS Tcp, SequenceTheorems, WellFoundedInduction, TLAPS

-----------------------------------------------------------------------------
(* The inductive invariant. *)

Half     == SeqMod \div 2
Ahead(p) == SeqDist(p.nxt, p.una)           \* from the oldest byte to the next one to send
Span(p)  == SeqDist(p.max, p.una)           \* ... to the end of what was ever sent
FinLen(p) == IF p.fin_queued THEN 1 ELSE 0
FinDone(p) == p.fin_sent = TRUE /\ p.una = p.max     \* the FIN is acknowledged

Opening == {"SYN_SENT", "SYN_RECEIVED"}
Ending  == {"FIN_WAIT_1", "FIN_WAIT_2", "CLOSING", "LAST_ACK", "TIME_WAIT"}

(* Only the SYN is out.                                                       *)
OpeningInv(p) ==
  /\ p.max = Plus(p.una, 1) /\ p.nxt = p.max /\ p.buf = <<>>
  /\ p.fin_queued = FALSE /\ p.fin_sent = FALSE /\ p.tx_blocked = FALSE
  /\ p.timer # "off"

(* What is sent is in the buffer, or the FIN behind it; a FIN that counts as  *)
(* sent is the end of all that was sent.                                      *)
SpaceInv(p) ==
  /\ Ahead(p) <= Span(p) /\ Span(p) <= Len(p.buf) + FinLen(p)
  /\ p.fin_sent = TRUE => p.nxt = p.max /\ (Span(p) = Len(p.buf) + 1 \/ (Span(p) = 0 /\ Len(p.buf) = 0))
  /\ p.fin_sent = FALSE => Ahead(p) <= Len(p.buf)

(* The states in which a FIN is queued, and in which it is acknowledged.      *)
FinInv(p) ==
  /\ p.fin_queued = TRUE <=> p.state \in Ending
  /\ p.fin_sent = TRUE => p.fin_queued = TRUE
  /\ p.state \in {"FIN_WAIT_2", "TIME_WAIT"} => p.fin_sent = TRUE /\ p.una = p.max

Small(p) == Len(p.buf) + 2 < Half /\ Len(p.buf) <= MaxCwnd

(* A synchronized connection, also in the middle of a handler.                *)
Sync(p) ==
  /\ p \in Pcb /\ p.state \notin Opening \cup {"CLOSED"}
  /\ Small(p) /\ SpaceInv(p) /\ FinInv(p)
  /\ p.tx_blocked = TRUE => p.timer # "off"

Settled(p) == Outstanding(p) => p.timer # "off"

PcbInv(p) ==
  /\ p \in Pcb
  /\ p.state = "CLOSED" => p = FreeSlot
  /\ p.state \in Opening => OpeningInv(p)
  /\ p.state \notin Opening \cup {"CLOSED"} => Sync(p) /\ Settled(p)

Segments ==
  [flags : SUBSET {"SYN", "ACK", "FIN", "RST"}, seq : SeqNum, ack : SeqNum, data : Seq(Nat)]

Budget == [conns : Nat, refusals : Nat, resends : Nat, windows : SUBSET Nat]

Bounded ==
  /\ left \in Budget /\ opened \in [End -> Nat]
  /\ \A e \in End : opened[e] + left.conns <= Len(Isn[e])
  /\ written \in [End -> Nat]
  /\ \A e \in End : Len(pcb[e].buf) <= written[e] /\ written[e] <= MaxBytes[e]

IInv ==
  /\ pcb \in [End -> Pcb] /\ \A e \in End : PcbInv(pcb[e])
  /\ net \in [End -> SUBSET Segments]
  /\ outcome \in [End -> {"none", "ok", "error", "aborted", "unopened"}]
  /\ Bounded
-----------------------------------------------------------------------------
(* Induction, and functions defined along the natural numbers. *)

LEMMA NatMinimum ==
  ASSUME NEW T, T \subseteq Nat, T # {}
  PROVE  \E m \in T : \A n \in T : m <= n
<1> DEFINE R == OpToRel(<, Nat)
<1>1. IsWellFoundedOn(R, Nat)
  BY NatLessThanWellFounded
<1> HIDE DEF R
<1>2. PICK m \in T : \A n \in T : ~(<<n, m>> \in R)
  BY <1>1, WFMin
<1>3. R = {s \in Nat \X Nat : s[1] < s[2]}
  BY DEF R, OpToRel
<1>4. ASSUME NEW n \in T PROVE m <= n
  <2>1. m \in Nat /\ n \in Nat
    OBVIOUS
  <2>2. ~(n < m)
    BY <1>2, <1>3, <2>1
  <2> QED
    BY <2>1, <2>2
<1> QED
  BY <1>4

LEMMA Induction ==
  ASSUME NEW P, 0 \in P, \A n \in Nat : n \in P => n + 1 \in P
  PROVE  Nat \subseteq P
<1> SUFFICES ASSUME NEW k \in Nat, k \notin P PROVE FALSE
  OBVIOUS
<1>1. PICK m \in Nat \ P : \A n \in Nat \ P : m <= n
  BY NatMinimum
<1>2. m # 0 /\ m - 1 \in Nat /\ m - 1 \in P
  BY <1>1
<1> QED
  BY <1>1, <1>2

(* The turns of tcp_output's loop follow one another. *)
LEMMA TurnsFacts ==
  ASSUME NEW c, NEW probe, Len(c.p.buf) \in Nat
  PROVE  /\ Turns(c, probe)[0] = c
         /\ \A i \in 1 .. Len(c.p.buf) + 1 : Turns(c, probe)[i] = Turn(Turns(c, probe)[i - 1], probe)
<1> DEFINE Good(f, n) == f = [i \in 0 .. n |-> IF i = 0 THEN c ELSE Turn(f[i - 1], probe)]
           P == {n \in Nat : \E f : Good(f, n)}
           k == Len(c.p.buf) + 1
<1>1. 0 \in P
  <2>1. Good([i \in 0 .. 0 |-> c], 0)
    OBVIOUS
  <2> QED
    BY <2>1
<1>2. ASSUME NEW n \in Nat, n \in P PROVE n + 1 \in P
  <2>1. PICK f : Good(f, n)
    BY <1>2
  <2> DEFINE g == [i \in 0 .. n + 1 |-> IF i <= n THEN f[i] ELSE Turn(f[n], probe)]
  <2>2. ASSUME NEW i \in 0 .. n + 1 PROVE g[i] = IF i = 0 THEN c ELSE Turn(g[i - 1], probe)
    <3>1. CASE i = 0
      BY <2>1, <3>1
    <3>2. CASE i \in 1 .. n
      <4>1. f[i] = Turn(f[i - 1], probe)
        BY <2>1, <3>2
      <4> QED
        BY <3>2, <4>1
    <3>3. CASE i = n + 1
      BY <3>3
    <3> QED
      BY <3>1, <3>2, <3>3
  <2>3. Good(g, n + 1)
    BY <2>2
  <2> HIDE DEF g, Good
  <2>4. \E h : Good(h, n + 1)
    BY <2>3
  <2> QED
    BY <2>4
<1>3. k \in P
  <2> HIDE DEF P
  <2>1. k \in Nat
    OBVIOUS
  <2> QED
    BY <1>1, <1>2, <2>1, Induction
<1>4. PICK f : Good(f, k)
  BY <1>3
<1>5. Turns(c, probe) = CHOOSE g : Good(g, k)
  BY DEF Turns
<1>6. Good(Turns(c, probe), k)
  <2> HIDE DEF Good
  <2> QED
    BY <1>4, <1>5
<1> HIDE DEF k
<1>7. k \in Nat
  BY DEF k
<1>8. PICK t : t = Turns(c, probe)
  OBVIOUS
<1>9. t = [i \in 0 .. k |-> IF i = 0 THEN c ELSE Turn(t[i - 1], probe)]
  BY <1>6, <1>8
<1>10. t[0] = c /\ \A i \in 1 .. k : t[i] = Turn(t[i - 1], probe)
  BY <1>7, <1>9
<1> QED
  BY <1>8, <1>10 DEF k
-----------------------------------------------------------------------------
(* Sequence numbers, in the linear arithmetic the provers do. *)

LEMMA SeqModFacts ==
  SeqMod \in Nat /\ Half \in Nat /\ SeqMod = 2 * Half /\ 2 < Half
<1>1. SeqMod \in Nat \ {0} /\ SeqMod % 2 = 0
  BY SeqAssumption
<1>2. Half \in Nat /\ SeqMod = 2 * Half
  BY <1>1 DEF Half
<1>3. MaxBytes["client"] \in Nat /\ MaxBytes["client"] + 2 < Half
  BY BytesAssumption, SeqAssumption DEF End, Half
<1> QED
  BY <1>1, <1>2, <1>3

LEMMA ModCases ==
  ASSUME NEW a \in Int
  PROVE  /\ a \in SeqNum => a % SeqMod = a
         /\ (-SeqMod <= a /\ a < 0) => a % SeqMod = a + SeqMod
         /\ (SeqMod <= a /\ a < 2 * SeqMod) => a % SeqMod = a - SeqMod
<1>1. SeqMod \in Nat \ {0}
  BY SeqAssumption
<1>2. ASSUME a \in SeqNum PROVE a % SeqMod = a
  BY <1>1, <1>2 DEF SeqNum
<1>3. ASSUME -SeqMod <= a, a < 0 PROVE a % SeqMod = a + SeqMod
  BY <1>1, <1>3
<1>4. ASSUME SeqMod <= a, a < 2 * SeqMod PROVE a % SeqMod = a - SeqMod
  BY <1>1, <1>4
<1> QED
  BY <1>2, <1>3, <1>4

LEMMA DistCases ==
  ASSUME NEW a \in SeqNum, NEW b \in SeqNum
  PROVE  /\ SeqDist(a, b) = IF a >= b THEN a - b ELSE a - b + SeqMod
         /\ SeqDist(a, b) \in SeqNum
         /\ SeqLt(a, b) <=> SeqDist(a, b) >= Half
<1>1. SeqMod \in Nat
  BY SeqAssumption
<1>2. a \in Int /\ b \in Int /\ a - b \in Int /\ 0 <= a /\ a < SeqMod /\ 0 <= b /\ b < SeqMod
  BY <1>1 DEF SeqNum
<1>3. CASE a >= b
  <2>1. a - b \in SeqNum
    BY <1>1, <1>2, <1>3 DEF SeqNum
  <2> QED
    BY <1>2, <1>3, <2>1, ModCases DEF SeqDist, SeqLt, Half
<1>4. CASE a < b
  <2>1. (a - b) % SeqMod = a - b + SeqMod
    BY <1>1, <1>2, <1>4, ModCases
  <2> QED
    BY <1>1, <1>2, <1>4, <2>1 DEF SeqDist, SeqLt, Half, SeqNum
<1> QED
  BY <1>2, <1>3, <1>4

LEMMA PlusCases ==
  ASSUME NEW a \in SeqNum, NEW n \in Nat, n < SeqMod
  PROVE  /\ Plus(a, n) = IF a + n < SeqMod THEN a + n ELSE a + n - SeqMod
         /\ Plus(a, n) \in SeqNum
<1>1. SeqMod \in Nat
  BY SeqAssumption
<1>2. a \in Int /\ a + n \in Int /\ 0 <= a /\ a < SeqMod
  BY <1>1 DEF SeqNum
<1>3. CASE a + n < SeqMod
  <2>1. a + n \in SeqNum
    BY <1>1, <1>2, <1>3 DEF SeqNum
  <2> QED
    BY <1>2, <1>3, <2>1, ModCases DEF Plus
<1>4. CASE a + n >= SeqMod
  <2>1. (a + n) % SeqMod = a + n - SeqMod
    BY <1>1, <1>2, <1>4, ModCases
  <2> QED
    BY <1>1, <1>2, <1>4, <2>1 DEF Plus, SeqNum
<1> QED
  BY <1>1, <1>2, <1>3, <1>4

LEMMA SelfDist ==
  ASSUME NEW a, NEW b, a = b, a \in SeqNum
  PROVE  SeqDist(a, b) = 0
<1>1. a - b = 0 /\ 0 \in SeqNum
  BY SeqModFacts DEF SeqNum
<1>2. 0 % SeqMod = 0
  BY <1>1, ModCases
<1> QED
  BY <1>1, <1>2 DEF SeqDist

(* In a window of less than half the space, order is the order of distances.  *)
LEMMA OrderFacts ==
  ASSUME NEW u \in SeqNum, NEW a \in SeqNum, NEW b \in SeqNum,
         SeqDist(a, u) < Half, SeqDist(b, u) < Half
  PROVE  /\ SeqLt(a, b) <=> SeqDist(a, u) < SeqDist(b, u)
         /\ a = b <=> SeqDist(a, u) = SeqDist(b, u)
         /\ SeqDist(a, u) >= SeqDist(b, u) => SeqDist(a, b) = SeqDist(a, u) - SeqDist(b, u)
<1>1. PICK da \in SeqNum, db \in SeqNum, dd \in SeqNum :
         da = SeqDist(a, u) /\ db = SeqDist(b, u) /\ dd = SeqDist(a, b)
  BY DistCases
<1>2. /\ da = IF a >= u THEN a - u ELSE a - u + SeqMod
      /\ db = IF b >= u THEN b - u ELSE b - u + SeqMod
      /\ dd = IF a >= b THEN a - b ELSE a - b + SeqMod
      /\ SeqLt(a, b) <=> dd >= Half
  BY <1>1, DistCases
<1>3. da < Half /\ db < Half
  BY <1>1
<1>4. dd >= Half <=> da < db
  BY <1>2, <1>3, SeqModFacts DEF SeqNum
<1>5. a = b <=> da = db
  BY <1>2, <1>3, SeqModFacts DEF SeqNum
<1>6. da >= db => dd = da - db
  BY <1>2, <1>3, SeqModFacts DEF SeqNum
<1> QED
  BY <1>1, <1>2, <1>4, <1>5, <1>6

LEMMA AdvanceFacts ==
  ASSUME NEW u \in SeqNum, NEW a \in SeqNum, NEW n \in Nat, SeqDist(a, u) + n < Half
  PROVE  Plus(a, n) \in SeqNum /\ SeqDist(Plus(a, n), u) = SeqDist(a, u) + n
<1>1. PICK d : d = SeqDist(a, u)
  OBVIOUS
<1>2. d \in SeqNum /\ d = IF a >= u THEN a - u ELSE a - u + SeqMod
  BY <1>1, DistCases
<1>3. n < SeqMod
  BY <1>1, <1>2, SeqModFacts DEF SeqNum
<1>4. PICK b \in SeqNum : b = Plus(a, n) /\ b = IF a + n < SeqMod THEN a + n ELSE a + n - SeqMod
  BY <1>3, PlusCases
<1>5. SeqDist(b, u) = IF b >= u THEN b - u ELSE b - u + SeqMod
  BY DistCases
<1> QED
  BY <1>1, <1>2, <1>4, <1>5, SeqModFacts DEF SeqNum

(* An acknowledgment that is taken lies in what was sent. *)
LEMMA AckFacts ==
  ASSUME NEW p, p.una \in SeqNum, p.max \in SeqNum, Span(p) < Half,
         NEW ack \in SeqNum, ~AckOutside(p, ack)
  PROVE  SeqDist(ack, p.una) <= Span(p) /\ SeqDist(p.max, ack) = Span(p) - SeqDist(ack, p.una)
<1>1. PICK u \in SeqNum, m \in SeqNum : u = p.una /\ m = p.max
  OBVIOUS
<1>2. ~SeqLt(ack, u) /\ ~SeqLt(m, ack) /\ SeqDist(m, u) < Half
  BY <1>1 DEF AckOutside, Span
<1>3. SeqDist(ack, u) < Half
  BY <1>2, DistCases, SeqModFacts DEF SeqNum
<1>4. SeqDist(ack, u) <= SeqDist(m, u)
  BY <1>2, <1>3, OrderFacts, DistCases, SeqModFacts DEF SeqNum
<1>5. SeqDist(m, ack) = SeqDist(m, u) - SeqDist(ack, u)
  BY <1>2, <1>3, <1>4, OrderFacts, DistCases, SeqModFacts DEF SeqNum
<1> QED
  BY <1>1, <1>4, <1>5 DEF Span
-----------------------------------------------------------------------------
(* Sending. *)

WorkType == [p : Pcb, sent : SUBSET Segments, room : Nat, refused : BOOLEAN, ackDue : BOOLEAN]

LEMMA WorkFacts ==
  ASSUME NEW p \in Pcb, NEW room \in Nat
  PROVE  Work(p, room) \in WorkType /\ Work(p, room).p = p /\ Work(p, room).sent = {}
  BY DEF Work, WorkType

LEMMA SendFacts ==
  ASSUME NEW c \in WorkType, NEW flags \in SUBSET {"SYN", "ACK", "FIN", "RST"}, NEW seq \in SeqNum,
         NEW data \in Seq(Nat)
  PROVE  Send(c, flags, seq, data) \in WorkType /\ Send(c, flags, seq, data).p = c.p
<1>1. c.p \in Pcb /\ c.sent \in SUBSET Segments /\ c.room \in Nat /\ c.refused \in BOOLEAN
      /\ c.ackDue \in BOOLEAN
  BY DEF WorkType
<1>2. 0 \in SeqNum /\ c.p.rcv \in SeqNum
  <2>1. 0 \in SeqNum
    BY SeqModFacts DEF SeqNum
  <2> QED
    BY <1>1, <2>1 DEF Pcb
<1>3. PICK s : s = Segment(c.p, flags, seq, data)
  OBVIOUS
<1>4. s \in Segments
  BY <1>2, <1>3 DEF Segment, Segments
<1> DEFINE out == IF c.room > 0 THEN c.sent \cup {s} ELSE c.sent
           room == IF c.room > 0 THEN c.room - 1 ELSE 0
           refused == c.refused \/ c.room = 0
           due == c.ackDue /\ "ACK" \notin flags
<1>5. out \in SUBSET Segments /\ room \in Nat /\ refused \in BOOLEAN /\ due \in BOOLEAN
  BY <1>1, <1>4
<1>6. Send(c, flags, seq, data) = [c EXCEPT !.sent = out, !.room = room, !.refused = refused, !.ackDue = due]
  BY <1>3 DEF Send
<1> HIDE DEF out, room, refused, due
<1> QED
  BY <1>1, <1>5, <1>6 DEF WorkType

(* What the calls that send leave alone of a PCB. *)
SameQueue(a, b) ==
  /\ a.state = b.state /\ a.una = b.una /\ a.buf = b.buf /\ a.fin_queued = b.fin_queued
  /\ a.rcv = b.rcv /\ a.wnd = b.wnd

LEMMA PcbFields ==
  ASSUME NEW p \in Pcb
  PROVE  /\ p.state \in State /\ p.una \in SeqNum /\ p.nxt \in SeqNum /\ p.max \in SeqNum
         /\ p.wnd \in Nat /\ p.cwnd \in 0 .. MaxCwnd /\ p.rcv \in SeqNum
         /\ p.buf \in Seq(Nat) /\ Len(p.buf) \in Nat
         /\ p.fin_queued \in BOOLEAN /\ p.fin_sent \in BOOLEAN /\ p.tx_blocked \in BOOLEAN
         /\ p.timer \in {"off", "rto", "retry"} /\ p.blocked \in 0 .. MaxBlocked
         /\ p.retries \in 0 .. MaxRetries
         /\ Ahead(p) \in Nat /\ Span(p) \in Nat /\ FinLen(p) \in {0, 1}
<1>1. /\ p.state \in State /\ p.una \in SeqNum /\ p.nxt \in SeqNum /\ p.max \in SeqNum
      /\ p.wnd \in Nat /\ p.cwnd \in 0 .. MaxCwnd /\ p.rcv \in SeqNum
      /\ p.buf \in Seq(Nat)
      /\ p.fin_queued \in BOOLEAN /\ p.fin_sent \in BOOLEAN /\ p.tx_blocked \in BOOLEAN
      /\ p.timer \in {"off", "rto", "retry"} /\ p.blocked \in 0 .. MaxBlocked
      /\ p.retries \in 0 .. MaxRetries
  BY DEF Pcb
<1>2. Ahead(p) \in SeqNum /\ Span(p) \in SeqNum
  BY <1>1, DistCases DEF Ahead, Span
<1> QED
  BY <1>1, <1>2, SeqModFacts DEF SeqNum, FinLen

LEMMA SizeFacts ==
  /\ Mss \in Nat /\ 0 < Mss /\ MaxCwnd \in Nat /\ Mss <= MaxCwnd
  /\ InitialCwnd \in Nat /\ InitialCwnd <= MaxCwnd
  /\ MaxRetries \in Nat /\ MaxBlocked \in Nat
  BY SizeAssumption

Moved(p, k, fin, counted) == [p EXCEPT !.nxt = Plus(p.nxt, k), !.fin_sent = fin, !.blocked = counted]

\* the step from p to q sends n bytes, or the FIN
Sends(p, q, n, fin) == q.fin_sent = TRUE \/ (fin = FALSE /\ Ahead(q) = Ahead(p) + n)

(* The bytes and FIN behind Ahead count as sent. *)
LEMMA NotedFacts ==
  ASSUME NEW p, Sync(p), p.fin_sent = FALSE, NEW n \in Nat, NEW fin, fin \in BOOLEAN,
         fin = TRUE <=> (p.fin_queued = TRUE /\ Ahead(p) + n = Len(p.buf)),
         Ahead(p) + n <= Len(p.buf), NEW counted \in 0 .. MaxBlocked,
         NEW k, k = n + (IF fin = TRUE THEN 1 ELSE 0)
  PROVE  LET q == NoteSent(Moved(p, k, fin, counted))
         IN /\ Sync(q) /\ SameQueue(q, p)
            /\ Sends(p, q, n, fin)
            /\ q.tx_blocked = p.tx_blocked /\ q.timer = p.timer
            /\ q.cwnd = p.cwnd /\ q.retries = p.retries
<1> DEFINE x == Plus(p.nxt, k)
           moved == Moved(p, k, fin, counted)
<1>1. p \in Pcb /\ Small(p) /\ SpaceInv(p) /\ FinInv(p)
  BY DEF Sync
<1>2. p.una \in SeqNum /\ p.nxt \in SeqNum /\ p.max \in SeqNum /\ Len(p.buf) \in Nat
      /\ Ahead(p) \in Nat /\ Span(p) \in Nat /\ FinLen(p) \in {0, 1}
  BY <1>1, PcbFields
<1>3. k \in Nat /\ Ahead(p) + k <= Len(p.buf) + FinLen(p) /\ Len(p.buf) + 2 < Half
      /\ (fin = TRUE => Ahead(p) + k = Len(p.buf) + 1)
      /\ (fin = FALSE => k = n)
  <2>1. Len(p.buf) + 2 < Half
    BY <1>1 DEF Small
  <2>2. CASE fin = TRUE
    <3>1. p.fin_queued = TRUE /\ Ahead(p) + n = Len(p.buf)
      BY <2>2
    <3>2. k = n + 1 /\ FinLen(p) = 1
      BY <2>2, <3>1 DEF FinLen
    <3> QED
      BY <1>2, <2>1, <2>2, <3>1, <3>2
  <2>3. CASE fin = FALSE
    <3>1. k = n
      BY <2>3
    <3> QED
      BY <1>2, <2>1, <2>3, <3>1
  <2> QED
    BY <2>2, <2>3
<1>4. x \in SeqNum /\ SeqDist(x, p.una) = Ahead(p) + k
  <2>1. SeqDist(p.nxt, p.una) + k < Half
    BY SMTT(30), <1>2, <1>3, SeqModFacts DEF Ahead
  <2> QED
    BY <1>2, <1>3, <2>1, AdvanceFacts DEF Ahead
<1>e. moved = [p EXCEPT !.nxt = x, !.fin_sent = fin, !.blocked = counted]
  BY DEF Moved
<1> HIDE DEF x, moved
<1>5. /\ moved \in Pcb /\ moved.nxt = x /\ moved.fin_sent = fin /\ moved.max = p.max
      /\ SameQueue(moved, p) /\ moved.tx_blocked = p.tx_blocked /\ moved.timer = p.timer
      /\ moved.cwnd = p.cwnd /\ moved.retries = p.retries
  BY <1>1, <1>4, <1>e DEF Pcb, SameQueue
<1> DEFINE q == NoteSent(moved)
<1>6. SeqLt(p.max, x) <=> Span(p) < Ahead(p) + k
  <2>1. SeqDist(p.max, p.una) < Half /\ SeqDist(x, p.una) < Half
    BY <1>1, <1>2, <1>3, <1>4, SeqModFacts DEF SpaceInv, Span
  <2> QED
    BY <1>2, <1>4, <2>1, OrderFacts DEF Span
<1>7. /\ q \in Pcb /\ q.nxt = x /\ q.fin_sent = fin
      /\ SameQueue(q, p) /\ q.tx_blocked = p.tx_blocked /\ q.timer = p.timer
      /\ q.cwnd = p.cwnd /\ q.retries = p.retries
      /\ q.max = IF Span(p) < Ahead(p) + k THEN x ELSE p.max
  <2>1. q = IF Span(p) < Ahead(p) + k THEN [moved EXCEPT !.max = x] ELSE moved
    BY <1>5, <1>6 DEF NoteSent
  <2> HIDE DEF q
  <2>2. CASE Span(p) < Ahead(p) + k
    BY <1>4, <1>5, <2>1, <2>2 DEF Pcb, SameQueue
  <2>3. CASE ~(Span(p) < Ahead(p) + k)
    BY <1>5, <2>1, <2>3
  <2> QED
    BY <2>2, <2>3
<1> HIDE DEF q
<1>8. Ahead(q) = Ahead(p) + k
  BY <1>4, <1>7 DEF Ahead, SameQueue
<1>9. Span(q) = IF Span(p) < Ahead(p) + k THEN Ahead(p) + k ELSE Span(p)
  BY <1>4, <1>7 DEF Span, SameQueue
<1>10. FinLen(q) = FinLen(p) /\ q.buf = p.buf
  BY <1>7 DEF FinLen, SameQueue
<1>11. SpaceInv(q)
  <2>1. Ahead(q) <= Span(q) /\ Span(q) <= Len(q.buf) + FinLen(q)
    BY <1>1, <1>2, <1>3, <1>8, <1>9, <1>10 DEF SpaceInv
  <2>2. fin = TRUE => Span(q) = Len(q.buf) + 1 /\ Ahead(q) = Span(q)
    BY <1>1, <1>2, <1>3, <1>8, <1>9, <1>10 DEF SpaceInv
  <2>3. fin = TRUE => q.nxt = q.max
    <3>1. q.nxt \in SeqNum /\ q.max \in SeqNum /\ q.una \in SeqNum
      BY <1>7, PcbFields
    <3>2. Span(q) < Half /\ Ahead(q) < Half
      BY <1>2, <1>3, <1>10, <2>1, SeqModFacts, <1>8, <1>9
    <3> QED
      BY <2>2, <3>1, <3>2, OrderFacts DEF Span, Ahead
  <2>4. fin = FALSE => Ahead(q) <= Len(q.buf)
    BY <1>2, <1>3, <1>8, <1>10
  <2> QED
    BY <1>7, <2>1, <2>2, <2>3, <2>4 DEF SpaceInv
<1>12. FinInv(q)
  <2>1. p.state \notin {"FIN_WAIT_2", "TIME_WAIT"}
    BY <1>1 DEF FinInv
  <2> QED
    BY <1>1, <1>7, <2>1 DEF FinInv, SameQueue
<1>13. Sync(q)
  BY <1>1, <1>7, <1>10, <1>11, <1>12 DEF Sync, Small, SameQueue
<1>14. q.fin_sent = TRUE \/ (fin = FALSE /\ Ahead(q) = Ahead(p) + n)
  <2>1. CASE fin = TRUE
    BY <1>7, <2>1
  <2>2. CASE fin = FALSE
    <3>1. k = n
      BY <1>3, <2>2
    <3> QED
      BY <1>8, <2>2, <3>1
  <2> QED
    BY <2>1, <2>2
<1> QED
  BY <1>7, <1>13, <1>14 DEF q, moved, Sends

LEMMA ArmFacts ==
  ASSUME NEW p \in Pcb
  PROVE  /\ Arm(p) \in Pcb /\ SameQueue(Arm(p), p) /\ Arm(p).timer = "rto"
         /\ Arm(p).nxt = p.nxt /\ Arm(p).max = p.max /\ Arm(p).fin_sent = p.fin_sent
         /\ Arm(p).tx_blocked = p.tx_blocked /\ Arm(p).cwnd = p.cwnd
         /\ ArmIfOff(p) \in {p, Arm(p)} /\ ArmIfOff(p).timer # "off"
         /\ p.timer # "off" => ArmIfOff(p) = p
  BY DEF Arm, ArmIfOff, Pcb, SameQueue

LEMMA SyncKept ==
  ASSUME NEW p, Sync(p), NEW q \in Pcb, SameQueue(q, p), q.nxt = p.nxt, q.max = p.max,
         q.fin_sent = p.fin_sent, q.tx_blocked = TRUE => q.timer # "off"
  PROVE  Sync(q)
<1>1. Ahead(q) = Ahead(p) /\ Span(q) = Span(p) /\ FinLen(q) = FinLen(p) /\ q.buf = p.buf
  BY DEF Ahead, Span, FinLen, SameQueue
<1> QED
  BY <1>1 DEF Sync, Small, SpaceInv, FinInv, SameQueue

LEMMA ArmSync ==
  ASSUME NEW p, Sync(p)
  PROVE  /\ Sync(Arm(p)) /\ SameQueue(Arm(p), p) /\ Arm(p).timer # "off"
         /\ Sync(ArmIfOff(p)) /\ SameQueue(ArmIfOff(p), p) /\ ArmIfOff(p).timer # "off"
         /\ ArmIfOff(p).fin_sent = p.fin_sent /\ ArmIfOff(p).tx_blocked = p.tx_blocked
         /\ ArmIfOff(p).nxt = p.nxt /\ ArmIfOff(p).cwnd = p.cwnd
<1>1. p \in Pcb /\ SameQueue(p, p)
  BY DEF Sync, SameQueue
<1>2. Arm(p) \in Pcb /\ SameQueue(Arm(p), p) /\ Arm(p).timer = "rto"
      /\ Arm(p).nxt = p.nxt /\ Arm(p).max = p.max /\ Arm(p).fin_sent = p.fin_sent
      /\ Arm(p).tx_blocked = p.tx_blocked /\ Arm(p).cwnd = p.cwnd
  BY <1>1, ArmFacts
<1>3. ArmIfOff(p) \in {p, Arm(p)} /\ ArmIfOff(p).timer # "off"
  BY <1>1, ArmFacts
<1>4. Sync(Arm(p))
  BY <1>2, SyncKept
<1> QED
  BY <1>1, <1>2, <1>3, <1>4

(* Nothing more to send for now. *)
Quiet(p, probe) ==
  \/ ~CanSendData(p.state) \/ p.fin_sent = TRUE \/ p.tx_blocked = TRUE
  \/ Ahead(p) < Len(p.buf) /\ Ahead(p) >= Limit(p, probe, Ahead(p)) /\ p.timer # "off"
  \/ Ahead(p) >= Len(p.buf) /\ p.fin_queued = FALSE

LEMMA BlockFacts ==
  ASSUME NEW p, Sync(p), p.blocked < MaxBlocked
  PROVE  Sync(Block(p)) /\ SameQueue(Block(p), p) /\ Block(p).tx_blocked = TRUE
<1>1. p \in Pcb
  BY DEF Sync
<1>2. p.blocked \in Int /\ 0 <= p.blocked /\ MaxBlocked \in Nat
  BY <1>1, PcbFields, SizeFacts
<1>3. p.blocked + 1 \in 0 .. MaxBlocked
  BY <1>2
<1>4. PICK b \in 0 .. MaxBlocked : b = p.blocked + 1
  BY <1>3
<1>5. Block(p) = [p EXCEPT !.tx_blocked = TRUE, !.blocked = b, !.timer = "retry"]
  BY <1>4 DEF Block
<1>6. /\ Block(p) \in Pcb /\ SameQueue(Block(p), p) /\ Block(p).tx_blocked = TRUE
      /\ Block(p).nxt = p.nxt /\ Block(p).max = p.max /\ Block(p).fin_sent = p.fin_sent
      /\ Block(p).timer # "off"
  BY ZenonT(30), <1>1, <1>5 DEF Pcb, SameQueue
<1> QED
  BY <1>6, SyncKept

LEMMA EmitFacts ==
  ASSUME NEW c \in WorkType, Sync(c.p), c.p.fin_sent = FALSE, NEW n \in Nat, NEW fin \in BOOLEAN,
         fin = TRUE <=> (c.p.fin_queued = TRUE /\ Ahead(c.p) + n = Len(c.p.buf)),
         Ahead(c.p) + n <= Len(c.p.buf)
  PROVE  LET d == Emit(c, Ahead(c.p), n, fin)
         IN /\ d \in WorkType /\ Sync(d.p) /\ SameQueue(d.p, c.p) /\ d.p.timer # "off"
            /\ d.p.tx_blocked = TRUE \/ Sends(c.p, d.p, n, fin)
<1> DEFINE sent    == Ahead(c.p)
           flags   == {"ACK"} \cup (IF fin THEN {"FIN"} ELSE {})
           data    == SubSeq(c.p.buf, sent + 1, sent + n)
           tried   == Send(c, flags, c.p.nxt, data)
           refused == IF Accepted(c) THEN 0 ELSE c.p.blocked
           counted == IF Accepted(c) \/ refused >= MaxBlocked THEN 0 ELSE c.p.blocked
           moved   == [tried.p EXCEPT !.nxt = Plus(@, n + (IF fin THEN 1 ELSE 0)),
                                      !.fin_sent = fin, !.blocked = counted]
           d       == Emit(c, sent, n, fin)
<1>1. d = IF ~Accepted(c) /\ refused < MaxBlocked
          THEN [tried EXCEPT !.p = Block(@)]
          ELSE [tried EXCEPT !.p = ArmIfOff(NoteSent(moved))]
  BY DEF Emit
<1>2. c.p \in Pcb
  BY DEF Sync
<1>3. /\ c.p.nxt \in SeqNum /\ c.p.buf \in Seq(Nat) /\ sent \in Nat /\ Len(c.p.buf) \in Nat
      /\ c.p.blocked \in 0 .. MaxBlocked
  BY <1>2, PcbFields
<1>4. data \in Seq(Nat)
  <2>1. ASSUME NEW i \in sent + 1 .. sent + n PROVE c.p.buf[i] \in Nat
    <3>1. i \in 1 .. Len(c.p.buf)
      BY <1>3
    <3> QED
      BY SMTT(30), <1>3, <3>1
  <2> QED
    BY <1>3, <2>1, SubSeqProperties
<1>5. flags \in SUBSET {"SYN", "ACK", "FIN", "RST"}
  OBVIOUS
<1>6. tried \in WorkType /\ tried.p = c.p
  BY <1>3, <1>4, <1>5, SendFacts
<1>7. counted \in 0 .. MaxBlocked
  BY <1>3, SizeFacts
<1>8. moved = [c.p EXCEPT !.nxt = Plus(c.p.nxt, n + (IF fin THEN 1 ELSE 0)), !.fin_sent = fin, !.blocked = counted]
  BY <1>6
<1> HIDE DEF d, tried, moved, counted, data, flags, sent
<1>9. CASE ~Accepted(c) /\ refused < MaxBlocked
  <2>1. d = [tried EXCEPT !.p = Block(c.p)]
    BY <1>1, <1>6, <1>9
  <2>2. c.p.blocked < MaxBlocked
    BY <1>9
  <2>3. Sync(Block(c.p)) /\ SameQueue(Block(c.p), c.p) /\ Block(c.p).tx_blocked = TRUE
    BY <2>2, BlockFacts
  <2>4. Block(c.p) \in Pcb /\ Block(c.p).timer # "off"
    BY <2>3 DEF Sync
  <2>5. d \in WorkType /\ d.p = Block(c.p)
    BY <1>6, <2>1, <2>4 DEF WorkType
  <2> QED
    BY <2>3, <2>4, <2>5 DEF d, sent
<1>10. CASE ~(~Accepted(c) /\ refused < MaxBlocked)
  <2>1. PICK q : q = NoteSent(moved)
    OBVIOUS
  <2>2. /\ Sync(q) /\ SameQueue(q, c.p)
        /\ q.fin_sent = TRUE \/ (fin = FALSE /\ Ahead(q) = sent + n)
    <3>1. PICK p : p = c.p
      OBVIOUS
    <3>2. Sync(p) /\ p.fin_sent = FALSE /\ Ahead(p) + n <= Len(p.buf)
      BY <3>1
    <3>3. fin = TRUE <=> (p.fin_queued = TRUE /\ Ahead(p) + n = Len(p.buf))
      BY <3>1
    <3>4. PICK k : k = n + (IF fin = TRUE THEN 1 ELSE 0)
      OBVIOUS
    <3>5. moved = Moved(p, k, fin, counted)
      BY <1>8, <3>1, <3>4 DEF Moved
    <3>6. q = NoteSent(Moved(p, k, fin, counted))
      BY <2>1, <3>5
    <3>7. /\ Sync(NoteSent(Moved(p, k, fin, counted)))
          /\ SameQueue(NoteSent(Moved(p, k, fin, counted)), p)
          /\ Sends(p, NoteSent(Moved(p, k, fin, counted)), n, fin)
      BY <1>7, <3>2, <3>3, <3>4, NotedFacts
    <3> QED
      BY <3>1, <3>6, <3>7 DEF sent, Sends
  <2>3. /\ Sync(ArmIfOff(q)) /\ SameQueue(ArmIfOff(q), q) /\ ArmIfOff(q).timer # "off"
        /\ ArmIfOff(q).fin_sent = q.fin_sent /\ ArmIfOff(q).nxt = q.nxt
    BY <2>2, ArmSync
  <2>4. d = [tried EXCEPT !.p = ArmIfOff(q)]
    BY <1>1, <1>10, <2>1
  <2>5. ArmIfOff(q) \in Pcb
    BY <2>3 DEF Sync
  <2>6. d \in WorkType /\ d.p = ArmIfOff(q)
    BY <1>6, <2>4, <2>5 DEF WorkType
  <2>7. Ahead(d.p) = Ahead(q) /\ SameQueue(d.p, c.p)
    BY <2>2, <2>3, <2>6 DEF Ahead, SameQueue
  <2> QED
    BY <2>2, <2>3, <2>6, <2>7 DEF d, sent, Sends
<1> QED
  BY <1>9, <1>10

(* A turn of the loop sends at least a byte or the FIN, or nothing is left    *)
(* for it to do; what it does leaves a timer running.                         *)
LEMMA TurnFacts ==
  ASSUME NEW c \in WorkType, Sync(c.p), NEW probe \in BOOLEAN
  PROVE  LET d == Turn(c, probe)
         IN /\ d \in WorkType /\ Sync(d.p) /\ SameQueue(d.p, c.p)
            /\ d = c \/ d.p.timer # "off"
            /\ Quiet(c.p, probe) => d = c
            /\ Quiet(d.p, probe) \/ Ahead(d.p) >= Ahead(c.p) + 1
<1> DEFINE p == c.p
           sent == Ahead(p)
           limit == Limit(p, probe, sent)
           n == Smaller(Smaller(Len(p.buf) - sent, Mss), limit - sent)
           fin == p.fin_queued /\ sent + n = Len(p.buf)
           d == Turn(c, probe)
<1>1. d = IF ~CanSendData(p.state) \/ p.fin_sent \/ p.tx_blocked THEN c
          ELSE IF sent < Len(p.buf)
               THEN IF sent >= limit THEN [c EXCEPT !.p = ArmIfOff(@)] ELSE Emit(c, sent, n, fin)
               ELSE IF sent = Len(p.buf) /\ p.fin_queued THEN Emit(c, sent, 0, TRUE) ELSE c
  BY DEF Turn, Ahead
<1>2. p \in Pcb
  BY DEF Sync
<1>3. /\ p.wnd \in Nat /\ p.cwnd \in Nat /\ sent \in Nat /\ Len(p.buf) \in Nat
      /\ p.fin_sent \in BOOLEAN /\ p.tx_blocked \in BOOLEAN /\ p.fin_queued \in BOOLEAN
  BY <1>2, PcbFields
<1>4. limit \in Nat
  BY <1>3 DEF Limit, Smaller
<1>5. SameQueue(p, p)
  BY DEF SameQueue
<1>6. CASE ~CanSendData(p.state) \/ p.fin_sent \/ p.tx_blocked
  <2>1. d = c
    BY <1>1, <1>6
  <2>2. Quiet(p, probe)
    BY <1>3, <1>6 DEF Quiet
  <2> HIDE DEF d
  <2> QED
    BY <1>5, <2>1, <2>2 DEF d
<1>7. CASE ~(~CanSendData(p.state) \/ p.fin_sent \/ p.tx_blocked)
  <2>1. p.fin_sent = FALSE /\ p.tx_blocked = FALSE /\ CanSendData(p.state)
    BY <1>3, <1>7
  <2>2. sent <= Len(p.buf)
    BY <2>1 DEF Sync, SpaceInv
  <2>3. CASE sent < Len(p.buf) /\ sent >= limit
    <3>1. d = [c EXCEPT !.p = ArmIfOff(p)]
      BY <1>1, <1>3, <1>4, <1>7, <2>3
    <3>2. Sync(ArmIfOff(p)) /\ SameQueue(ArmIfOff(p), p) /\ ArmIfOff(p).timer # "off"
          /\ ArmIfOff(p).nxt = p.nxt /\ ArmIfOff(p).cwnd = p.cwnd
      BY ArmSync
    <3>3. ArmIfOff(p) \in Pcb
      BY <3>2 DEF Sync
    <3>4. PICK q : q = ArmIfOff(p)
      OBVIOUS
    <3>5. d \in WorkType /\ d.p = q
      BY <3>1, <3>3, <3>4 DEF WorkType
    <3>6. Ahead(q) = sent /\ q.buf = p.buf /\ Limit(q, probe, sent) = limit
      BY <3>2, <3>4 DEF Ahead, SameQueue, Limit
    <3>7. Quiet(q, probe)
      BY <2>3, <3>2, <3>4, <3>6 DEF Quiet
    <3>8. p.timer # "off" => d = c
      <4>1. ASSUME p.timer # "off" PROVE q = p
        BY <1>2, <3>4, <4>1, ArmFacts
      <4> QED
        BY <3>1, <3>4, <4>1 DEF WorkType
    <3>9. Quiet(p, probe) => p.timer # "off"
      BY <1>3, <1>4, <2>1, <2>2, <2>3 DEF Quiet
    <3> HIDE DEF d
    <3> QED
      BY <3>2, <3>4, <3>5, <3>7, <3>8, <3>9 DEF d
  <2>4. CASE sent < Len(p.buf) /\ sent < limit
    <3>1. d = Emit(c, sent, n, fin)
      BY <1>1, <1>3, <1>4, <1>7, <2>4
    <3>2. n \in Nat /\ n >= 1 /\ sent + n <= Len(p.buf)
      BY SMTT(30), <1>3, <1>4, <2>4, SizeFacts DEF Smaller
    <3>3. fin \in BOOLEAN /\ (fin = TRUE <=> (p.fin_queued = TRUE /\ sent + n = Len(p.buf)))
      BY <1>3
    <3>4. ~Quiet(p, probe)
      BY <1>3, <1>4, <2>1, <2>4 DEF Quiet
    <3> HIDE DEF n, fin, d
    <3>5. /\ d \in WorkType /\ Sync(d.p) /\ SameQueue(d.p, c.p) /\ d.p.timer # "off"
          /\ d.p.tx_blocked = TRUE \/ Sends(c.p, d.p, n, fin)
      BY <2>1, <3>1, <3>2, <3>3, EmitFacts
    <3>6. Quiet(d.p, probe) \/ Ahead(d.p) >= Ahead(c.p) + 1
      BY <1>3, <3>2, <3>5 DEF Sends, Quiet
    <3> QED
      BY <3>4, <3>5, <3>6 DEF d
  <2>5. CASE sent = Len(p.buf) /\ p.fin_queued
    <3>0. ~(sent < Len(p.buf))
      BY <1>3, <2>5
    <3>1. d = Emit(c, sent, 0, TRUE)
      BY Zenon, <1>1, <1>7, <2>5, <3>0
    <3>2. ~Quiet(p, probe)
      BY <1>3, <2>1, <2>5 DEF Quiet
    <3>3. PICK m, f : m = 0 /\ f = TRUE
      OBVIOUS
    <3>4. m \in Nat /\ f \in BOOLEAN /\ sent + m <= Len(p.buf)
          /\ (f = TRUE <=> (p.fin_queued = TRUE /\ sent + m = Len(p.buf)))
      BY <1>3, <2>5, <3>3
    <3>d. d = Emit(c, sent, m, f)
      BY <3>1, <3>3
    <3> HIDE DEF d
    <3>5. /\ d \in WorkType /\ Sync(d.p) /\ SameQueue(d.p, c.p) /\ d.p.timer # "off"
          /\ d.p.tx_blocked = TRUE \/ Sends(c.p, d.p, m, f)
      BY <2>1, <3>4, <3>d, EmitFacts
    <3>6. Quiet(d.p, probe)
      BY <3>3, <3>5 DEF Sends, Quiet
    <3> QED
      BY <3>2, <3>5, <3>6 DEF d
  <2>6. CASE sent = Len(p.buf) /\ ~p.fin_queued
    <3>1. d = c
      BY <1>1, <1>3, <1>7, <2>6
    <3>2. Quiet(p, probe)
      BY <1>3, <2>6 DEF Quiet
    <3> HIDE DEF d
    <3> QED
      BY <1>5, <3>1, <3>2 DEF d
  <2> QED
    BY <1>3, <1>4, <2>2, <2>3, <2>4, <2>5, <2>6
<1> QED
  BY <1>6, <1>7

LEMMA OutputFacts ==
  ASSUME NEW c \in WorkType, Sync(c.p), NEW probe \in BOOLEAN
  PROVE  LET d == Output(c, probe)
         IN /\ d \in WorkType /\ Sync(d.p) /\ SameQueue(d.p, c.p)
            /\ d.p.timer # "off" \/ (d = c /\ Quiet(c.p, probe))
<1> DEFINE turn == Turns(c, probe)
           k == Len(c.p.buf) + 1
           Good(d) == /\ d \in WorkType /\ Sync(d.p) /\ SameQueue(d.p, c.p)
                      /\ d = c \/ d.p.timer # "off"
           P == {i \in Nat : i <= k => Good(turn[i]) /\ (Quiet(turn[i].p, probe) \/ Ahead(turn[i].p) >= i)}
<1>1. Len(c.p.buf) \in Nat /\ Ahead(c.p) \in Nat
  BY PcbFields DEF Sync
<1>2. turn[0] = c /\ \A i \in 1 .. k : turn[i] = Turn(turn[i - 1], probe)
  BY <1>1, TurnsFacts
<1> HIDE DEF turn
<1>3. 0 \in P
  BY <1>1, <1>2 DEF SameQueue
<1>4. ASSUME NEW i \in Nat, i \in P, i + 1 <= k PROVE i + 1 \in P
  <2>1. PICK b, d : b = turn[i] /\ d = turn[i + 1]
    OBVIOUS
  <2>2. Good(b) /\ (Quiet(b.p, probe) \/ Ahead(b.p) >= i)
    BY <1>1, <1>4, <2>1
  <2>3. d = Turn(b, probe)
    BY <1>1, <1>2, <1>4, <2>1
  <2>4. /\ d \in WorkType /\ Sync(d.p) /\ SameQueue(d.p, b.p)
        /\ d = b \/ d.p.timer # "off"
        /\ Quiet(b.p, probe) => d = b
        /\ Quiet(d.p, probe) \/ Ahead(d.p) >= Ahead(b.p) + 1
    BY <2>2, <2>3, TurnFacts
  <2>5. Good(d)
    BY <2>2, <2>4 DEF SameQueue
  <2>6. Ahead(b.p) \in Nat /\ Ahead(d.p) \in Nat
    BY <2>2, <2>4, PcbFields DEF Sync
  <2>7. Quiet(d.p, probe) \/ Ahead(d.p) >= i + 1
    BY <2>2, <2>4, <2>6
  <2> QED
    BY <2>1, <2>5, <2>7
<1>5. ASSUME NEW i \in Nat, i \in P PROVE i + 1 \in P
  BY <1>1, <1>4, <1>5
<1>6. k \in P
  <2> HIDE DEF P
  <2>1. Nat \subseteq P
    BY <1>3, <1>5, Induction
  <2> QED
    BY <1>1, <2>1
<1>7. PICK d : d = turn[k]
  OBVIOUS
<1>8. Good(d) /\ (Quiet(d.p, probe) \/ Ahead(d.p) >= k)
  BY <1>1, <1>6, <1>7
<1>9. Quiet(d.p, probe)
  <2>1. d.p.fin_sent \in BOOLEAN /\ Ahead(d.p) \in Nat
    BY <1>8, PcbFields DEF Sync
  <2>2. Len(d.p.buf) = Len(c.p.buf)
    BY <1>8 DEF SameQueue
  <2>3. d.p.fin_sent = FALSE => Ahead(d.p) <= Len(d.p.buf)
    BY <1>8 DEF Sync, SpaceInv
  <2>4. CASE d.p.fin_sent = TRUE
    BY <2>4 DEF Quiet
  <2>5. CASE d.p.fin_sent = FALSE
    BY <1>1, <1>8, <2>1, <2>2, <2>3, <2>5
  <2> QED
    BY <2>1, <2>4, <2>5
<1>10. Output(c, probe) = d
  BY <1>7 DEF Output, turn
<1> QED
  BY <1>8, <1>9, <1>10

(* With nothing in flight and nothing left to do, nothing is outstanding.     *)
LEMMA QuietFacts ==
  ASSUME NEW p, Sync(p), NEW probe, Quiet(p, probe), p.timer = "off", p.una = p.max
  PROVE  ~Outstanding(p)
<1>1. /\ p.una \in SeqNum /\ p.state \in State /\ Ahead(p) \in Nat /\ p.buf \in Seq(Nat)
      /\ p.fin_sent \in BOOLEAN /\ p.fin_queued \in BOOLEAN /\ Len(p.buf) \in Nat
  BY PcbFields DEF Sync
<1>2. Span(p) = 0
  <2>1. p.max \in SeqNum
    BY PcbFields DEF Sync
  <2> QED
    BY <2>1, SelfDist DEF Span
<1>3. Ahead(p) = 0
  BY <1>1, <1>2 DEF Sync, SpaceInv
<1>4. p.tx_blocked # TRUE
  BY DEF Sync
<1>5. ASSUME p.fin_sent = TRUE PROVE ~Outstanding(p)
  <2>1. Len(p.buf) = 0
    BY <1>1, <1>2, <1>5 DEF Sync, SpaceInv
  <2>2. p.buf = <<>>
    BY <1>1, <2>1
  <2> QED
    BY <1>5, <2>2 DEF Outstanding
<1>6. ASSUME Ahead(p) >= Len(p.buf), p.fin_queued = FALSE PROVE ~Outstanding(p)
  <2>1. Len(p.buf) = 0
    BY <1>1, <1>3, <1>6
  <2>2. p.buf = <<>>
    BY <1>1, <2>1
  <2> QED
    BY <1>6, <2>2 DEF Outstanding
<1>7. ASSUME ~CanSendData(p.state) PROVE p.fin_sent = TRUE
  <2>1. p.state \in {"FIN_WAIT_2", "TIME_WAIT"}
    BY <1>1, <1>7 DEF CanSendData, Sync, State, Opening
  <2> QED
    BY <2>1 DEF Sync, FinInv
<1> QED
  BY <1>4, <1>5, <1>6, <1>7 DEF Quiet

(* tcp_output leaves a connection settled when a timer runs for what is in    *)
(* flight.                                                                    *)
LEMMA OutputSettles ==
  ASSUME NEW c \in WorkType, Sync(c.p), NEW probe \in BOOLEAN, c.p.una # c.p.max => c.p.timer # "off"
  PROVE  Settled(Output(c, probe).p)
<1>1. PICK d : d = Output(c, probe)
  OBVIOUS
<1>2. d.p.timer # "off" \/ (d = c /\ Quiet(c.p, probe))
  BY <1>1, OutputFacts
<1>3. CASE d.p.timer # "off"
  BY <1>1, <1>3 DEF Settled
<1>4. CASE d.p.timer = "off"
  <2>1. ~Outstanding(c.p)
    BY <1>2, <1>4, QuietFacts
  <2> QED
    BY <1>1, <1>2, <1>4, <2>1 DEF Settled
<1> QED
  BY <1>3, <1>4
-----------------------------------------------------------------------------
(* Acknowledgments. *)

Claims(p) == p.una # p.max => p.timer # "off"

LEMMA ProcessAckFacts ==
  ASSUME NEW p, Sync(p), Claims(p), NEW ack \in SeqNum, NEW wnd \in Nat
  PROVE  LET q == ProcessAck(p, ack, wnd)
         IN /\ Sync(q) /\ Claims(q) /\ q.state = p.state /\ q.rcv = p.rcv
            /\ q.fin_queued = p.fin_queued /\ Len(q.buf) <= Len(p.buf)
<1> DEFINE acked == SeqDist(ack, p.una)
           fin   == p.fin_queued /\ acked > Len(p.buf)
           from  == Smaller(acked, Len(p.buf))
           rest  == SubSeq(p.buf, from + 1, Len(p.buf))
           nxt   == IF SeqLt(p.nxt, ack) THEN ack ELSE p.nxt
           grown == GrownCwnd(p)
           timer == AckTimer(p, ack)
           q     == ProcessAck(p, ack, wnd)
<1>1. /\ p \in Pcb /\ p.state \in State /\ p.una \in SeqNum /\ p.nxt \in SeqNum /\ p.max \in SeqNum
      /\ p.cwnd \in 0 .. MaxCwnd /\ p.buf \in Seq(Nat) /\ Len(p.buf) \in Nat
      /\ p.fin_queued \in BOOLEAN /\ p.fin_sent \in BOOLEAN /\ p.tx_blocked \in BOOLEAN
      /\ p.timer \in {"off", "rto", "retry"}
      /\ Ahead(p) \in Nat /\ Span(p) \in Nat /\ FinLen(p) \in {0, 1}
  BY PcbFields DEF Sync
<1>2. /\ Len(p.buf) + 2 < Half /\ Len(p.buf) <= MaxCwnd
      /\ Ahead(p) <= Span(p) /\ Span(p) <= Len(p.buf) + FinLen(p)
      /\ p.fin_sent = TRUE => p.nxt = p.max /\ (Span(p) = Len(p.buf) + 1 \/ (Span(p) = 0 /\ Len(p.buf) = 0))
      /\ p.fin_sent = FALSE => Ahead(p) <= Len(p.buf)
  BY DEF Sync, Small, SpaceInv
<1>3. CASE AckOutside(p, ack)
  <2>1. q = p
    BY <1>3 DEF ProcessAck
  <2> QED
    BY <1>1, <2>1
<1>4. CASE ~AckOutside(p, ack) /\ ack = p.una
  <2>1. q = [p EXCEPT !.wnd = wnd]
    BY <1>4 DEF ProcessAck
  <2>2. /\ q \in Pcb /\ q.state = p.state /\ q.rcv = p.rcv /\ q.una = p.una /\ q.nxt = p.nxt
        /\ q.max = p.max /\ q.buf = p.buf /\ q.fin_queued = p.fin_queued /\ q.fin_sent = p.fin_sent
        /\ q.timer = p.timer /\ q.tx_blocked = p.tx_blocked
    BY <1>1, <2>1 DEF Pcb
  <2> HIDE DEF q
  <2>3. Sync(q) /\ Claims(q)
    BY <2>2 DEF Sync, Claims, Small, SpaceInv, FinInv, Ahead, Span, FinLen
  <2> QED
    BY <1>1, <2>2, <2>3 DEF q
<1>5. CASE ~AckOutside(p, ack) /\ ack # p.una
  <2>1. q = [p EXCEPT !.wnd = wnd, !.buf = rest, !.una = ack, !.nxt = nxt, !.fin_sent = @ \/ fin,
                      !.retries = 0, !.cwnd = grown, !.timer = timer]
    BY <1>5 DEF ProcessAck
  <2>2. Span(p) < Half /\ Ahead(p) < Half
    BY <1>1, <1>2, SeqModFacts
  <2>3. acked \in Nat /\ acked <= Span(p) /\ SeqDist(p.max, ack) = Span(p) - acked
    <3>1. acked \in SeqNum
      BY <1>1, DistCases
    <3> QED
      BY <1>1, <1>5, <2>2, <3>1, AckFacts, SeqModFacts DEF SeqNum
  <2>4. acked > 0
    <3>1. SeqDist(p.una, p.una) = 0
      BY <1>1, SelfDist
    <3>2. acked # 0
      BY <1>1, <1>5, <2>2, <2>3, <3>1, OrderFacts, SeqModFacts
    <3> QED
      BY <2>3, <3>2
  <2>5. from \in Nat /\ from <= Len(p.buf) /\ rest \in Seq(Nat) /\ Len(rest) = Len(p.buf) - from
    <3>1. from \in Nat /\ from <= Len(p.buf)
      BY <1>1, <2>3 DEF Smaller
    <3> HIDE DEF from
    <3>2. ASSUME NEW i \in from + 1 .. Len(p.buf) PROVE p.buf[i] \in Nat
      <4>1. i \in 1 .. Len(p.buf)
        BY <1>1, <3>1
      <4> QED
        BY <1>1, <4>1
    <3> QED
      BY <1>1, <3>1, <3>2, SubSeqProperties
  <2>6. nxt \in SeqNum /\ SeqDist(nxt, ack) = IF Ahead(p) < acked THEN 0 ELSE Ahead(p) - acked
    <3>a. PICK u \in SeqNum, x \in SeqNum : u = p.una /\ x = p.nxt
      BY <1>1
    <3>b. SeqDist(ack, u) < Half /\ SeqDist(x, u) < Half
      BY <1>1, <2>2, <2>3, <3>a, SeqModFacts DEF Ahead
    <3>1. SeqLt(p.nxt, ack) <=> Ahead(p) < acked
      BY <3>a, <3>b, OrderFacts DEF Ahead
    <3>2. SeqDist(ack, ack) = 0
      BY SelfDist
    <3>3. Ahead(p) >= acked => SeqDist(p.nxt, ack) = Ahead(p) - acked
      BY <3>a, <3>b, OrderFacts DEF Ahead
    <3> QED
      BY <1>1, <2>3, <3>1, <3>2, <3>3
  <2>7. grown \in 0 .. MaxCwnd
    BY <1>1, SizeFacts DEF GrownCwnd, Smaller
  <2>8. timer \in {"off", "rto", "retry"} /\ (p.tx_blocked = TRUE => timer = p.timer)
        /\ (p.tx_blocked = FALSE /\ ack # p.max => timer # "off")
    BY <1>1 DEF AckTimer
  <2>9. PICK f \in BOOLEAN : f = (p.fin_sent \/ fin)
    OBVIOUS
  <2>10. (f = TRUE) <=> (p.fin_sent = TRUE \/ (p.fin_queued = TRUE /\ acked > Len(p.buf)))
    BY <1>1, <2>9
  <2> HIDE DEF acked, fin, from, rest, nxt, grown, timer, q
  <2>11. /\ q \in Pcb /\ q.state = p.state /\ q.rcv = p.rcv /\ q.una = ack /\ q.nxt = nxt /\ q.max = p.max
         /\ q.buf = rest /\ q.fin_queued = p.fin_queued /\ q.fin_sent = f
         /\ q.timer = timer /\ q.tx_blocked = p.tx_blocked
    <3>1. q = [p EXCEPT !.wnd = wnd, !.buf = rest, !.una = ack, !.nxt = nxt, !.fin_sent = f,
                        !.retries = 0, !.cwnd = grown, !.timer = timer]
      BY <2>1, <2>9
    <3>2. 0 \in 0 .. MaxRetries
      BY SizeFacts
    <3> QED
      BY <1>1, <2>5, <2>6, <2>7, <2>8, <3>1, <3>2 DEF Pcb
  <2>12. /\ Ahead(q) = IF Ahead(p) < acked THEN 0 ELSE Ahead(p) - acked
         /\ Span(q) = Span(p) - acked /\ FinLen(q) = FinLen(p)
         /\ Len(q.buf) = Len(p.buf) - from
    BY <2>3, <2>5, <2>6, <2>11 DEF Ahead, Span, FinLen
  <2>13. from = IF acked < Len(p.buf) THEN acked ELSE Len(p.buf)
    BY DEF from, Smaller
  <2>14. FinLen(p) = 1 <=> p.fin_queued = TRUE
    BY DEF FinLen
  <2>a. PICK L \in Nat, A \in Nat, S \in Nat, k \in Nat, F \in {0, 1} :
          L = Len(p.buf) /\ A = Ahead(p) /\ S = Span(p) /\ k = acked /\ F = FinLen(p)
    BY <1>1, <2>3
  <2>b. PICK M, B, T :
          M = Len(q.buf) /\ B = Ahead(q) /\ T = Span(q)
    OBVIOUS
  <2>c. /\ M = (IF k < L THEN L - k ELSE 0) /\ B = (IF A < k THEN 0 ELSE A - k) /\ T = S - k
        /\ A <= S /\ S <= L + F /\ k <= S /\ 0 < k /\ FinLen(q) = F
    BY SMTT(30), <1>2, <2>3, <2>4, <2>12, <2>13, <2>a, <2>b
  <2>15. SpaceInv(q)
    <3>1. Ahead(q) <= Span(q) /\ Span(q) <= Len(q.buf) + FinLen(q)
      BY SMTT(30), <2>a, <2>b, <2>c
    <3>2. ASSUME f = TRUE PROVE q.nxt = q.max /\ (Span(q) = Len(q.buf) + 1 \/ (Span(q) = 0 /\ Len(q.buf) = 0))
      <4>1. Ahead(q) = Span(q)
        <5>1. CASE p.fin_sent = TRUE
          <6>1. Ahead(p) = Span(p)
            BY <1>2, <5>1 DEF Ahead, Span
          <6> QED
            BY <1>1, <2>3, <2>12, <6>1
        <5>2. CASE p.fin_queued = TRUE /\ acked > Len(p.buf)
          BY <1>1, <1>2, <2>3, <2>12, <2>14, <5>2
        <5> QED
          BY <2>10, <3>2, <5>1, <5>2
      <4>2. q.nxt = q.max
        <5>1. SeqDist(q.nxt, q.una) = SeqDist(q.max, q.una) /\ SeqDist(q.max, q.una) < Half
          BY <1>1, <2>2, <2>3, <2>12, <4>1, SeqModFacts DEF Ahead, Span
        <5>2. q.nxt \in SeqNum /\ q.max \in SeqNum /\ q.una \in SeqNum
          BY <2>11, PcbFields
        <5> QED
          BY <5>1, <5>2, OrderFacts
      <4>3. Span(q) = Len(q.buf) + 1 \/ (Span(q) = 0 /\ Len(q.buf) = 0)
        <5>1. CASE p.fin_sent = TRUE
          <6>1. S = L + 1
            BY <1>2, <2>a, <2>c, <5>1
          <6> QED
            BY <2>a, <2>b, <2>c, <6>1
        <5>2. CASE p.fin_queued = TRUE /\ acked > Len(p.buf)
          <6>1. k > L
            BY <2>a, <5>2
          <6> QED
            BY <2>a, <2>b, <2>c, <6>1
        <5> QED
          BY <2>10, <3>2, <5>1, <5>2
      <4> QED
        BY <4>2, <4>3
    <3>3. ASSUME f = FALSE PROVE Ahead(q) <= Len(q.buf)
      <4>1. p.fin_sent = FALSE
        BY <1>1, <2>10, <3>3
      <4>2. Ahead(p) <= Len(p.buf)
        BY <1>2, <4>1
      <4> QED
        BY SMTT(30), <2>a, <2>b, <2>c, <4>2
    <3> QED
      BY <2>11, <3>1, <3>2, <3>3 DEF SpaceInv
  <2>16. FinInv(q)
    <3>1. p.state \notin {"FIN_WAIT_2", "TIME_WAIT"}
      <4>1. SUFFICES ASSUME p.una = p.max PROVE FALSE
        BY DEF Sync, FinInv
      <4>2. Span(p) = 0
        BY <1>1, <4>1, SelfDist DEF Span
      <4> QED
        BY <2>3, <2>4, <4>2
    <3>2. f = TRUE => p.fin_queued = TRUE
      BY <2>10 DEF Sync, FinInv
    <3> QED
      BY <2>11, <3>1, <3>2 DEF Sync, FinInv
  <2>17. Small(q)
    BY SMTT(30), <1>2, <2>a, <2>b, <2>c, SeqModFacts, SizeFacts DEF Small
  <2>18. q.tx_blocked = TRUE => q.timer # "off"
    BY <2>8, <2>11 DEF Sync
  <2>19. Claims(q)
    BY <1>1, <2>8, <2>11, <2>18 DEF Claims
  <2>20. Sync(q)
    BY <2>11, <2>15, <2>16, <2>17, <2>18 DEF Sync
  <2>21. Len(q.buf) <= Len(p.buf)
    BY <1>1, <2>5, <2>12
  <2> QED
    BY <2>11, <2>19, <2>20, <2>21 DEF q
<1> QED
  BY <1>3, <1>4, <1>5

(* A state that the acknowledgment of the FIN moves on. *)
LEMMA AckedFacts ==
  ASSUME NEW p, Sync(p), Claims(p), NEW s \in Segments, NEW wnd \in Nat
  PROVE  LET q == Acked(p, s, wnd)
         IN /\ q.state # "CLOSED" => Sync(q) /\ Claims(q)
            /\ Len(q.buf) <= Len(p.buf)
<1> DEFINE a == ProcessAck(p, s.ack, wnd)
           st == CASE FinAcked(a, s.ack) /\ a.state = "FIN_WAIT_1" -> "FIN_WAIT_2"
                   [] FinAcked(a, s.ack) /\ a.state = "CLOSING"    -> "TIME_WAIT"
                   [] FinAcked(a, s.ack) /\ a.state = "LAST_ACK"   -> "CLOSED"
                   [] OTHER -> a.state
           q  == Acked(p, s, wnd)
<1>1. s.ack \in SeqNum
  BY DEF Segments
<1>2. /\ Sync(a) /\ Claims(a) /\ a.state = p.state
      /\ a.fin_queued = p.fin_queued /\ Len(a.buf) <= Len(p.buf)
  BY <1>1, ProcessAckFacts
<1>3. q = IF "ACK" \notin s.flags THEN p ELSE [a EXCEPT !.state = st]
  BY DEF Acked
<1>4. Len(p.buf) <= Len(p.buf)
  BY PcbFields DEF Sync
<1>5. CASE "ACK" \notin s.flags
  BY <1>3, <1>4, <1>5
<1>6. CASE "ACK" \in s.flags
  <2>1. FinAcked(a, s.ack) => a.fin_sent = TRUE /\ a.una = a.max /\ a.fin_queued = TRUE
    <3>1. a.fin_sent \in BOOLEAN /\ a.fin_queued \in BOOLEAN
      BY <1>2, PcbFields DEF Sync
    <3> QED
      BY <3>1 DEF FinAcked
  <2>2. st \in State
        /\ (st = a.state \/ (FinAcked(a, s.ack) /\ a.state \in Ending /\ st \in {"FIN_WAIT_2", "TIME_WAIT", "CLOSED"}))
    <3>1. a.state \in State
      BY <1>2, PcbFields DEF Sync
    <3> QED
      BY <3>1 DEF State, Ending
  <2> HIDE DEF a, st
  <2>3. q = [a EXCEPT !.state = st]
    BY <1>3, <1>6
  <2>4. a \in Pcb
    BY <1>2 DEF Sync
  <2> HIDE DEF q
  <2>5. /\ q \in Pcb /\ q.state = st /\ q.una = a.una /\ q.nxt = a.nxt /\ q.max = a.max /\ q.buf = a.buf
        /\ q.fin_queued = a.fin_queued /\ q.fin_sent = a.fin_sent /\ q.timer = a.timer
        /\ q.tx_blocked = a.tx_blocked
    BY <2>2, <2>3, <2>4 DEF Pcb
  <2>6. ASSUME st # "CLOSED" PROVE Sync(q) /\ Claims(q)
    <3>1. SpaceInv(q) /\ Small(q) /\ Claims(q) /\ (q.tx_blocked = TRUE => q.timer # "off")
      BY <1>2, <2>5 DEF Sync, SpaceInv, Small, Claims, Ahead, Span, FinLen
    <3>2. FinInv(q) /\ q.state \notin Opening \cup {"CLOSED"}
      <4>1. CASE st = a.state
        BY <1>2, <2>5, <4>1 DEF Sync, FinInv
      <4>2. CASE FinAcked(a, s.ack) /\ a.state \in Ending /\ st \in {"FIN_WAIT_2", "TIME_WAIT", "CLOSED"}
        BY <1>2, <2>1, <2>5, <2>6, <4>2 DEF Sync, FinInv, Ending, Opening
      <4> QED
        BY <2>2, <4>1, <4>2
    <3> QED
      BY <2>5, <3>1, <3>2 DEF Sync
  <2> QED
    BY <1>2, <2>5, <2>6 DEF q
<1> QED
  BY <1>5, <1>6
-----------------------------------------------------------------------------
(* Receiving. *)

LEMMA ReceivedFacts ==
  ASSUME NEW p, Sync(p), Claims(p), CanTakeData(p.state), NEW s \in Segments, NEW n \in Nat
  PROVE  LET q == Received(p, s, n)
         IN Sync(q) /\ Claims(q) /\ q.buf = p.buf
<1> DEFINE st == IF "FIN" \in s.flags THEN AfterFin(p) ELSE p.state
           rcv == Plus(p.rcv, n + (IF "FIN" \in s.flags THEN 1 ELSE 0))
           q == Received(p, s, n)
<1>1. /\ p \in Pcb /\ p.state \in State /\ p.rcv \in SeqNum /\ p.fin_sent \in BOOLEAN
  BY PcbFields DEF Sync
<1>2. rcv \in SeqNum
  <2>1. p.rcv + (n + (IF "FIN" \in s.flags THEN 1 ELSE 0)) \in Int
    BY <1>1, SeqModFacts DEF SeqNum
  <2> QED
    BY <2>1, SeqModFacts DEF Plus, SeqNum
<1>3. /\ st \in State /\ st \notin Opening \cup {"CLOSED"}
      /\ st \in Ending <=> p.state \in Ending
      /\ st \in {"FIN_WAIT_2", "TIME_WAIT"} => p.fin_sent = TRUE /\ p.una = p.max
  <2>1. p.state \in {"ESTABLISHED", "FIN_WAIT_1", "FIN_WAIT_2"}
    BY DEF CanTakeData
  <2>2. p.state = "FIN_WAIT_2" => p.fin_sent = TRUE /\ p.una = p.max
    BY DEF Sync, FinInv
  <2> QED
    BY <1>1, <2>1, <2>2 DEF AfterFin, State, Opening, Ending
<1>4. q = [p EXCEPT !.rcv = rcv, !.state = st]
  BY DEF Received
<1> HIDE DEF st, rcv, q
<1>5. /\ q \in Pcb /\ q.state = st /\ q.una = p.una /\ q.nxt = p.nxt /\ q.max = p.max /\ q.buf = p.buf
      /\ q.fin_queued = p.fin_queued /\ q.fin_sent = p.fin_sent /\ q.timer = p.timer
      /\ q.tx_blocked = p.tx_blocked
  BY <1>1, <1>2, <1>3, <1>4 DEF Pcb
<1>6. SpaceInv(q) /\ Small(q) /\ Claims(q) /\ (q.tx_blocked = TRUE => q.timer # "off")
  BY <1>5 DEF Sync, SpaceInv, Small, Claims, Ahead, Span, FinLen
<1>7. FinInv(q)
  BY <1>3, <1>5 DEF Sync, FinInv
<1> QED
  BY <1>3, <1>5, <1>6, <1>7 DEF Sync, q

Longer(p, more, st, fin) == [p EXCEPT !.buf = p.buf \o more, !.state = st, !.fin_queued = fin]

\* there is room for the bytes, in the buffer and in the sequence space
Fits(p, more) == Len(p.buf) + Len(more) <= MaxCwnd /\ Len(p.buf) + Len(more) + 2 < Half

\* the states in which the application may write, and in which a FIN is queued then
FinQueued(st, fin) ==
  \/ st \in {"ESTABLISHED", "CLOSE_WAIT"} /\ fin = FALSE
  \/ st \in {"FIN_WAIT_1", "LAST_ACK"} /\ fin = TRUE

CanQueue(p, more, st, fin) ==
  /\ Sync(p) /\ Claims(p) /\ p.fin_queued = FALSE /\ more \in Seq(Nat)
  /\ Fits(p, more) /\ FinQueued(st, fin)

Lengthened(p, more, st, q) ==
  /\ Sync(q) /\ Claims(q) /\ q.buf = p.buf \o more /\ q.state = st
  /\ q.fin_sent = FALSE /\ Len(q.buf) = Len(p.buf) + Len(more)

(* More bytes in the send buffer, and the FIN behind them or not. *)
LEMMA QueueFacts ==
  ASSUME NEW p, NEW more, NEW st, NEW fin, CanQueue(p, more, st, fin)
  PROVE  Lengthened(p, more, st, Longer(p, more, st, fin))
<1> USE DEF CanQueue
<1> DEFINE q == Longer(p, more, st, fin)
<1> HIDE DEF q
<1>0. /\ Len(p.buf) + Len(more) <= MaxCwnd /\ Len(p.buf) + Len(more) + 2 < Half
      /\ st \in State /\ fin \in BOOLEAN
      /\ st \notin Opening \cup {"CLOSED", "FIN_WAIT_2", "TIME_WAIT"} /\ (fin = TRUE <=> st \in Ending)
  BY DEF Fits, FinQueued, State, Opening, Ending
<1>1. /\ p \in Pcb /\ p.buf \in Seq(Nat) /\ Len(p.buf) \in Nat /\ p.fin_sent \in BOOLEAN
      /\ Ahead(p) \in Nat /\ Span(p) \in Nat /\ FinLen(p) \in {0, 1}
  BY PcbFields DEF Sync
<1>2. p.fin_sent = FALSE
  BY <1>1 DEF Sync, FinInv
<1>3. Len(more) \in Nat
  OBVIOUS
<1>4. PICK buf : buf = p.buf \o more
  OBVIOUS
<1>5. buf \in Seq(Nat) /\ Len(buf) = Len(p.buf) + Len(more)
  BY <1>1, <1>4
<1>6. /\ q \in Pcb /\ q.state = st /\ q.una = p.una /\ q.nxt = p.nxt /\ q.max = p.max /\ q.buf = buf
      /\ q.fin_queued = fin /\ q.fin_sent = p.fin_sent /\ q.timer = p.timer
      /\ q.tx_blocked = p.tx_blocked
  BY <1>0, <1>1, <1>4, <1>5 DEF Pcb, Longer, q
<1>7. Small(q)
  BY <1>0, <1>1, <1>3, <1>5, <1>6 DEF Small
<1>8. Ahead(q) = Ahead(p) /\ Span(q) = Span(p) /\ FinLen(q) \in Nat
  BY <1>6 DEF Ahead, Span, FinLen
<1>9. Ahead(p) <= Span(p) /\ Span(p) <= Len(p.buf) /\ Ahead(p) <= Len(p.buf)
  <2>1. FinLen(p) = 0
    BY DEF FinLen
  <2> QED
    BY <1>1, <2>1 DEF Sync, SpaceInv
<1>10. SpaceInv(q)
  BY <1>1, <1>2, <1>3, <1>5, <1>6, <1>8, <1>9 DEF SpaceInv
<1>11. FinInv(q)
  BY <1>0, <1>2, <1>6 DEF FinInv
<1>12. Claims(q) /\ (q.tx_blocked = TRUE => q.timer # "off")
  BY <1>6 DEF Claims, Sync
<1> QED
  BY <1>0, <1>2, <1>4, <1>5, <1>6, <1>7, <1>10, <1>11, <1>12 DEF Sync, Lengthened, q

\* the bytes an application that has written w before queues next
Fresh(w, n) == [i \in 1 .. n |-> w + i]

LEMMA FreshFacts ==
  ASSUME NEW w \in Nat, NEW n \in Nat
  PROVE  Fresh(w, n) \in Seq(Nat) /\ Len(Fresh(w, n)) = n
<1>1. Fresh(w, n) \in [1 .. n -> Nat]
  BY DEF Fresh
<1> QED
  BY <1>1
-----------------------------------------------------------------------------
(* The end of a handler. *)

LEMMA PeerFacts ==
  ASSUME NEW e \in End
  PROVE  Peer(e) \in End /\ Peer(e) # e
  BY DEF End, Peer

LEMMA CommitFacts ==
  ASSUME IInv, NEW e \in End, NEW c \in WorkType, Commit(e, c)
  PROVE  pcb' = [pcb EXCEPT ![e] = c.p] /\ net' \in [End -> SUBSET Segments]
<1> DEFINE gone(p, x) == ~InUse(p) /\ (left.conns = 0 \/ (~listening[x] /\ opened[x] > 0))
           mine == IF gone(c.p, e) THEN {} ELSE net[e]
           far  == IF gone(pcb[Peer(e)], Peer(e)) THEN {} ELSE net[Peer(e)] \cup c.sent
<1>1. pcb' = [pcb EXCEPT ![e] = c.p] /\ net' = [net EXCEPT ![e] = mine, ![Peer(e)] = far]
  BY PeerFacts DEF Commit
<1>2. net \in [End -> SUBSET Segments] /\ c.sent \in SUBSET Segments
  BY DEF IInv, WorkType
<1>3. mine \in SUBSET Segments /\ far \in SUBSET Segments
  BY <1>2, PeerFacts
<1> HIDE DEF mine, far
<1> QED
  BY <1>1, <1>2, <1>3, PeerFacts

LEMMA FreeFacts ==
  FreeSlot \in Pcb /\ FreeSlot.state = "CLOSED" /\ FreeSlot.buf = <<>> /\ PcbInv(FreeSlot)
<1>1. 0 \in SeqNum /\ InitialCwnd \in 0 .. MaxCwnd /\ 0 \in 0 .. MaxBlocked /\ 0 \in 0 .. MaxRetries
      /\ InitialCwnd \in Nat
  BY SeqModFacts, SizeFacts DEF SeqNum
<1>2. <<>> \in Seq(Nat) /\ "CLOSED" \in State
  BY DEF State
<1>3. FreeSlot \in Pcb /\ FreeSlot.state = "CLOSED" /\ FreeSlot.buf = <<>>
  BY <1>1, <1>2 DEF FreeSlot, Claimed, Pcb
<1> QED
  BY <1>3 DEF PcbInv, Opening

LEMMA ReleaseFacts ==
  ASSUME IInv, NEW e \in End, NEW c \in WorkType, NEW how \in {"ok", "error", "aborted", "unopened"},
         Release(e, c, how)
  PROVE  /\ pcb' = [pcb EXCEPT ![e] = FreeSlot] /\ net' \in [End -> SUBSET Segments]
         /\ outcome' \in [End -> {"none", "ok", "error", "aborted", "unopened"}]
<1>1. PICK d : d = [c EXCEPT !.p = FreeSlot]
  OBVIOUS
<1>2. d \in WorkType /\ d.p = FreeSlot
  BY <1>1, FreeFacts DEF WorkType
<1>3. Commit(e, d) /\ outcome' = [outcome EXCEPT ![e] = how]
  BY <1>1 DEF Release
<1>4. pcb' = [pcb EXCEPT ![e] = FreeSlot] /\ net' \in [End -> SUBSET Segments]
  BY <1>2, <1>3, CommitFacts
<1>5. outcome \in [End -> {"none", "ok", "error", "aborted", "unopened"}]
  BY DEF IInv
<1> QED
  BY <1>3, <1>4, <1>5

\* the budget after a handler that opens n connections
Spent(n) == left' \in Budget /\ left'.conns = left.conns - n

LEMMA SpendFacts ==
  ASSUME left \in Budget, NEW a \in {0, 1}, NEW b \in {0, 1}, Spend([refusals |-> a, resends |-> b])
  PROVE  Spent(0)
<1> DEFINE cost == [refusals |-> a, resends |-> b]
<1>1. DOMAIN left = {"conns", "refusals", "resends", "windows"} /\ DOMAIN cost = {"refusals", "resends"}
      /\ cost.refusals = a /\ cost.resends = b
  BY DEF Budget
<1>2. left.conns \in Nat /\ left.refusals \in Nat /\ left.resends \in Nat /\ left.windows \in SUBSET Nat
  BY DEF Budget
<1> HIDE DEF cost
<1>3. left.refusals >= a /\ left.resends >= b
  BY <1>1 DEF Spend, cost
<1>4. left' = [k \in DOMAIN left |-> IF k \in DOMAIN cost THEN left[k] - cost[k] ELSE left[k]]
  BY DEF Spend, cost
<1>5. left' = [conns |-> left.conns, refusals |-> left.refusals - a, resends |-> left.resends - b,
               windows |-> left.windows]
  BY <1>1, <1>4
<1>6. left.refusals - a \in Nat /\ left.resends - b \in Nat
  BY <1>2, <1>3
<1> QED
  BY <1>2, <1>5, <1>6 DEF Spent, Budget

LEMMA DriverFacts ==
  ASSUME IInv, NEW room, NEW c \in WorkType, NEW resends \in {0, 1}, Driver(room, c, resends)
  PROVE  Spent(0)
<1>1. PICK a \in {0, 1} : a = IF c.refused THEN 1 ELSE 0
  OBVIOUS
<1>2. Spend([refusals |-> a, resends |-> resends])
  BY <1>1 DEF Driver
<1>3. left \in Budget
  BY DEF IInv, Bounded
<1> QED
  BY <1>2, <1>3, SpendFacts

LEMMA RoomFacts ==
  ASSUME NEW room \in Room
  PROVE  room \in Nat
  BY SeqModFacts DEF Room, Ample

\* the handler of e ends with its PCB equal to q
Lands(e, q) == pcb' = [pcb EXCEPT ![e] = q] /\ PcbInv(q) /\ net' \in [End -> SUBSET Segments]

LEMMA SyncLands ==
  ASSUME NEW q, Sync(q), Settled(q)
  PROVE  PcbInv(q)
  BY DEF Sync, PcbInv

LEMMA FlushFacts ==
  ASSUME IInv, NEW e \in End, NEW p, Sync(p), Claims(p), NEW ackDue \in BOOLEAN, Flush(e, p, ackDue)
  PROVE  Spent(0) /\ \E q : Lands(e, q) /\ q.buf = p.buf
<1>1. PICK room \in Room :
        LET c == Output([Work(p, room) EXCEPT !.ackDue = ackDue], FALSE)
        IN /\ Driver(room, c, 0)
           /\ Commit(e, IF c.ackDue THEN SendCtl(c, {"ACK"}) ELSE c)
  BY DEF Flush
<1>2. PICK w : w = [Work(p, room) EXCEPT !.ackDue = ackDue]
  OBVIOUS
<1>3. PICK c : c = Output(w, FALSE)
  OBVIOUS
<1>4. p \in Pcb
  BY DEF Sync
<1>5. w \in WorkType /\ w.p = p
  BY <1>2, <1>4, RoomFacts, WorkFacts DEF WorkType
<1>6. c \in WorkType /\ Sync(c.p) /\ SameQueue(c.p, p)
  BY <1>3, <1>5, OutputFacts
<1>7. Settled(c.p)
  BY <1>3, <1>5, OutputSettles DEF Claims
<1>8. PICK d : d = IF c.ackDue THEN SendCtl(c, {"ACK"}) ELSE c
  OBVIOUS
<1>9. Driver(room, c, 0) /\ Commit(e, d)
  BY <1>1, <1>2, <1>3, <1>8
<1>10. d \in WorkType /\ d.p = c.p
  <2>1. c.p.nxt \in SeqNum /\ <<>> \in Seq(Nat) /\ {"ACK"} \in SUBSET {"SYN", "ACK", "FIN", "RST"}
    BY <1>6, PcbFields DEF Sync
  <2>2. SendCtl(c, {"ACK"}) \in WorkType /\ SendCtl(c, {"ACK"}).p = c.p
    BY <1>6, <2>1, SendFacts DEF SendCtl
  <2> QED
    BY <1>6, <1>8, <2>2
<1>11. pcb' = [pcb EXCEPT ![e] = c.p] /\ net' \in [End -> SUBSET Segments]
  BY <1>9, <1>10, CommitFacts
<1>12. PcbInv(c.p)
  BY <1>6, <1>7, SyncLands
<1>13. Spent(0)
  BY <1>6, <1>9, DriverFacts
<1>14. Lands(e, c.p) /\ c.p.buf = p.buf
  BY <1>6, <1>11, <1>12 DEF Lands, SameQueue
<1> QED
  BY <1>13, <1>14
-----------------------------------------------------------------------------
(* Every step keeps the invariant. *)

LEMMA StepKept ==
  ASSUME IInv, NEW e \in End, NEW q, Lands(e, q),
         outcome' \in [End -> {"none", "ok", "error", "aborted", "unopened"}],
         left' \in Budget, opened' \in [End -> Nat],
         \A x \in End : opened'[x] + left'.conns <= Len(Isn[x]),
         written' \in [End -> Nat],
         \A x \in End : written[x] <= written'[x] /\ written'[x] <= MaxBytes[x],
         Len(q.buf) <= written'[e]
  PROVE  IInv'
<1>1. pcb \in [End -> Pcb] /\ q \in Pcb /\ pcb' = [pcb EXCEPT ![e] = q]
  BY DEF IInv, Lands, PcbInv
<1>2. pcb' \in [End -> Pcb]
  BY <1>1
<1>3. ASSUME NEW x \in End PROVE PcbInv(pcb'[x]) /\ Len(pcb'[x].buf) <= written'[x]
  <2>1. CASE x = e
    BY <1>1, <2>1 DEF Lands
  <2>2. CASE x # e
    <3>1. pcb'[x] = pcb[x]
      BY <1>1, <2>2
    <3>2. PcbInv(pcb[x]) /\ Len(pcb[x].buf) <= written[x] /\ pcb[x] \in Pcb
      BY DEF IInv, Bounded
    <3>3. Len(pcb[x].buf) \in Nat
      BY <3>2, PcbFields
    <3>4. written[x] \in Nat /\ written'[x] \in Nat
      BY DEF IInv, Bounded
    <3>5. Len(pcb[x].buf) <= written'[x]
      BY <3>2, <3>3, <3>4
    <3> QED
      BY <3>1, <3>2, <3>5
  <2> QED
    BY <2>1, <2>2
<1>4. net' \in [End -> SUBSET Segments]
  BY DEF Lands
<1>5. Bounded'
  BY <1>3 DEF Bounded
<1>6. \A x \in End : PcbInv(pcb[x])'
  BY <1>3
<1> QED
  BY <1>2, <1>4, <1>5, <1>6 DEF IInv

(* A handler that opens no connection and queues no byte.                     *)
LEMMA QuietStepKept ==
  ASSUME IInv, NEW e \in End, NEW q, Lands(e, q), Len(q.buf) <= Len(pcb[e].buf),
         outcome' \in [End -> {"none", "ok", "error", "aborted", "unopened"}],
         Spent(0) \/ left' = left, opened' = opened, written' = written
  PROVE  IInv'
<1>1. /\ left \in Budget /\ opened \in [End -> Nat] /\ written \in [End -> Nat]
      /\ \A x \in End : opened[x] + left.conns <= Len(Isn[x])
      /\ \A x \in End : Len(pcb[x].buf) <= written[x] /\ written[x] <= MaxBytes[x]
  BY DEF IInv, Bounded
<1>2. left' \in Budget /\ left'.conns = left.conns
  BY <1>1 DEF Spent, Budget
<1>3. \A x \in End : opened'[x] + left'.conns <= Len(Isn[x])
  BY <1>1, <1>2
<1>4. \A x \in End : written[x] <= written'[x] /\ written'[x] <= MaxBytes[x]
  BY <1>1
<1>5. Len(q.buf) <= written'[e]
  <2>1. Len(pcb[e].buf) \in Nat /\ Len(q.buf) \in Nat
    BY PcbFields DEF Lands, PcbInv, IInv
  <2>2. written[e] \in Nat /\ Len(pcb[e].buf) <= written[e]
    BY <1>1
  <2> QED
    BY <2>1, <2>2
<1> QED
  BY <1>1, <1>2, <1>3, <1>4, <1>5, StepKept

LEMMA ReleaseStep ==
  ASSUME IInv, NEW e \in End, NEW c \in WorkType, NEW how \in {"ok", "error", "aborted", "unopened"},
         Release(e, c, how), left' = left, opened' = opened, written' = written
  PROVE  IInv'
<1>1. /\ pcb' = [pcb EXCEPT ![e] = FreeSlot] /\ net' \in [End -> SUBSET Segments]
      /\ outcome' \in [End -> {"none", "ok", "error", "aborted", "unopened"}]
  BY ReleaseFacts
<1>2. Lands(e, FreeSlot)
  BY <1>1, FreeFacts DEF Lands
<1>3. Len(FreeSlot.buf) = 0 /\ Len(pcb[e].buf) \in Nat
  BY FreeFacts, PcbFields DEF IInv
<1>4. Len(FreeSlot.buf) <= Len(pcb[e].buf)
  BY <1>3
<1> HIDE DEF FreeSlot
<1> QED
  BY <1>1, <1>2, <1>4, QuietStepKept

LEMMA FlushStep ==
  ASSUME IInv, NEW e \in End, NEW p, Sync(p), Claims(p), NEW ackDue \in BOOLEAN, Flush(e, p, ackDue),
         Len(p.buf) <= Len(pcb[e].buf), UNCHANGED <<opened, written, outcome>>
  PROVE  IInv'
<1>1. Spent(0) /\ \E q : Lands(e, q) /\ q.buf = p.buf
  BY FlushFacts
<1>2. PICK q : Lands(e, q) /\ q.buf = p.buf
  BY <1>1
<1>3. Len(q.buf) <= Len(pcb[e].buf)
  BY <1>2
<1>4. outcome' \in [End -> {"none", "ok", "error", "aborted", "unopened"}]
  BY DEF IInv
<1> QED
  BY <1>1, <1>2, <1>3, <1>4, QuietStepKept

LEMMA StateFacts ==
  ASSUME IInv, NEW e \in End
  PROVE  /\ pcb[e] \in Pcb /\ PcbInv(pcb[e]) /\ Len(pcb[e].buf) \in Nat
         /\ pcb[e].state \notin Opening \cup {"CLOSED"} => Sync(pcb[e]) /\ Settled(pcb[e]) /\ Claims(pcb[e])
         /\ \A s \in net[e] : s \in Segments
         /\ written[e] \in Nat /\ Len(pcb[e].buf) <= written[e]
<1>1. pcb[e] \in Pcb /\ PcbInv(pcb[e])
  BY DEF IInv
<1>2. pcb[e].state \notin Opening \cup {"CLOSED"} => Sync(pcb[e]) /\ Settled(pcb[e]) /\ Claims(pcb[e])
  BY <1>1 DEF PcbInv, Settled, Outstanding, Claims
<1>3. \A s \in net[e] : s \in Segments
  BY DEF IInv
<1> QED
  BY <1>1, <1>2, <1>3, PcbFields DEF IInv, Bounded

LEMMA WindowFacts ==
  ASSUME IInv, NEW e \in End, NEW wnd \in Windows(e)
  PROVE  wnd \in Nat
<1>1. left.windows \subseteq Nat /\ MaxCwnd \in Nat
  BY SizeFacts DEF IInv, Bounded, Budget
<1> QED
  BY <1>1 DEF Windows
-----------------------------------------------------------------------------
(* Opening. *)

(* What Send adds to the segments.                                            *)
LEMMA SendSent ==
  ASSUME NEW c \in WorkType, NEW flags, NEW seq, NEW data
  PROVE  \A s \in Send(c, flags, seq, data).sent :
           \/ s \in c.sent
           \/ /\ s.flags = flags /\ s.seq = seq /\ s.data = data
              /\ "ACK" \in flags => s.ack = c.p.rcv
<1>1. PICK x : x = Segment(c.p, flags, seq, data)
  OBVIOUS
<1>2. x.flags = flags /\ x.seq = seq /\ x.data = data /\ ("ACK" \in flags => x.ack = c.p.rcv)
  BY <1>1 DEF Segment
<1>3. Send(c, flags, seq, data).sent = IF c.room > 0 THEN c.sent \cup {x} ELSE c.sent
  BY <1>1 DEF Send, WorkType
<1> QED
  BY <1>2, <1>3

\* the connection number o of e, opened in state st by a segment with these flags
Fresher(e, o, c, st, rcv, flags) ==
  /\ c \in WorkType /\ c.p.state = st /\ c.p.una = Isn[e][o] /\ c.p.rcv = rcv
  /\ PcbInv(c.p) /\ c.p.buf = <<>>
  /\ \A s \in c.sent : /\ s.flags = flags /\ s.seq = Isn[e][o] /\ s.data = <<>>
                       /\ "ACK" \in flags => s.ack = rcv

(* What the first Send of a handler sends.                                    *)
LEMMA FirstSent ==
  ASSUME NEW w \in WorkType, w.sent = {}, NEW flags, NEW seq, NEW data, NEW out, out = Send(w, flags, seq, data)
  PROVE  \A s \in out.sent : /\ s.flags = flags /\ s.seq = seq /\ s.data = data
                             /\ "ACK" \in flags => s.ack = w.p.rcv
<1>1. \A s \in Send(w, flags, seq, data).sent :
        \/ s \in w.sent
        \/ /\ s.flags = flags /\ s.seq = seq /\ s.data = data
           /\ "ACK" \in flags => s.ack = w.p.rcv
  BY SendSent
<1> QED
  BY <1>1

\* the PCB of a connection that opens
NewPcb(e, st, rcv, wnd) == [Claimed(NewIsn(e)) EXCEPT !.state = st, !.rcv = rcv, !.wnd = wnd]

(* A connection takes one of the budget. *)
LEMMA OpenSpends ==
  ASSUME IInv, NEW e, NEW p, NEW flags, Open(e, p, flags)
  PROVE  left.conns \in Nat /\ left.conns >= 1 /\ Spent(1)
<1>1. left \in Budget /\ Spend([conns |-> 1])
  BY DEF IInv, Bounded, Open
<1> DEFINE cost == [conns |-> 1]
<1>2. DOMAIN left = {"conns", "refusals", "resends", "windows"} /\ DOMAIN cost = {"conns"}
      /\ cost.conns = 1
  BY <1>1 DEF Budget
<1>3. left.conns \in Nat /\ left.refusals \in Nat /\ left.resends \in Nat /\ left.windows \in SUBSET Nat
  BY <1>1 DEF Budget
<1> HIDE DEF cost
<1>4. left.conns >= 1
  BY <1>1, <1>2 DEF Spend, cost
<1>5. left' = [k \in DOMAIN left |-> IF k \in DOMAIN cost THEN left[k] - cost[k] ELSE left[k]]
  BY <1>1 DEF Spend, cost
<1>6. left' = [conns |-> left.conns - 1, refusals |-> left.refusals, resends |-> left.resends,
               windows |-> left.windows]
  BY <1>2, <1>5
<1> QED
  BY <1>3, <1>4, <1>6 DEF Spent, Budget

(* tcp_pcb_claim and the SYN of the new connection.                           *)
LEMMA OpenFacts ==
  ASSUME IInv, NEW e \in End, NEW st \in Opening, NEW rcv \in SeqNum, NEW wnd \in Nat,
         NEW flags \in SUBSET {"SYN", "ACK", "FIN", "RST"},
         NEW p, p = NewPcb(e, st, rcv, wnd), Open(e, p, flags)
  PROVE  \E c : Fresher(e, opened[e] + 1, c, st, rcv, flags) /\ Commit(e, c)
<1> DEFINE isn == NewIsn(e)
<1>1. /\ left \in Budget /\ opened \in [End -> Nat]
      /\ \A x \in End : opened[x] + left.conns <= Len(Isn[x])
  BY DEF IInv, Bounded
<1>3. left.conns \in Nat /\ left.conns >= 1
  BY OpenSpends
<1>4. isn \in SeqNum /\ isn = Isn[e][opened[e] + 1]
  <2>1. Isn[e] \in Seq(SeqNum) /\ Len(Isn[e]) \in Nat /\ opened[e] \in Nat
    BY <1>1, IsnAssumption
  <2>2. opened[e] + 1 \in 1 .. Len(Isn[e])
    BY <1>1, <1>3, <2>1
  <2> QED
    BY <2>1, <2>2 DEF NewIsn
<1> HIDE DEF isn
<1>5. /\ p \in Pcb /\ p.state = st /\ p.una = isn /\ p.nxt = isn /\ p.max = isn /\ p.rcv = rcv
      /\ p.buf = <<>> /\ p.fin_queued = FALSE /\ p.fin_sent = FALSE /\ p.tx_blocked = FALSE
  <2>1. InitialCwnd \in 0 .. MaxCwnd /\ 0 \in 0 .. MaxBlocked /\ 0 \in 0 .. MaxRetries
    BY SizeFacts
  <2>2. <<>> \in Seq(Nat) /\ st \in State
    BY DEF State, Opening
  <2>3. p = [Claimed(isn) EXCEPT !.state = st, !.rcv = rcv, !.wnd = wnd]
    BY DEF isn, NewPcb
  <2>4. PICK z : z = Claimed(isn)
    OBVIOUS
  <2>5. /\ z \in Pcb /\ z.una = isn /\ z.nxt = isn /\ z.max = isn /\ z.buf = <<>>
        /\ z.fin_queued = FALSE /\ z.fin_sent = FALSE /\ z.tx_blocked = FALSE
    <3>1. 0 \in SeqNum /\ InitialCwnd \in Nat /\ "CLOSED" \in State
      BY SeqModFacts, SizeFacts DEF SeqNum, State
    <3> QED
      BY <1>4, <2>1, <2>2, <2>4, <3>1 DEF Claimed, Pcb
  <2>6. p = [z EXCEPT !.state = st, !.rcv = rcv, !.wnd = wnd]
    BY <2>3, <2>4
  <2> QED
    BY ZenonT(30), <2>2, <2>5, <2>6 DEF Pcb
<1>6. PICK w : w = Work(p, Ample)
  OBVIOUS
<1>7. w \in WorkType /\ w.p = p /\ w.sent = {}
  <2>1. Ample \in Nat
    BY SeqModFacts DEF Ample
  <2> QED
    BY <1>5, <1>6, <2>1, WorkFacts
<1>8. PICK out : out = SendCtl(w, flags)
  OBVIOUS
<1>9. /\ out \in WorkType /\ out.p = p
      /\ \A s \in out.sent : /\ s.flags = flags /\ s.seq = isn /\ s.data = <<>>
                             /\ "ACK" \in flags => s.ack = rcv
  <2>1. PICK seq \in SeqNum : seq = w.p.nxt /\ seq = isn
    BY <1>4, <1>5, <1>7
  <2>b. <<>> \in Seq(Nat)
    OBVIOUS
  <2>d. PICK data \in Seq(Nat) : data = <<>>
    BY <2>b
  <2>2. out = Send(w, flags, seq, data)
    BY <1>8, <2>1, <2>d DEF SendCtl
  <2>3. out \in WorkType /\ out.p = p
    BY <1>7, <2>2, SendFacts
  <2>4. \A s \in out.sent : /\ s.flags = flags /\ s.seq = seq /\ s.data = data
                            /\ "ACK" \in flags => s.ack = w.p.rcv
    BY <1>7, <2>2, FirstSent
  <2> QED
    BY <1>5, <1>7, <2>1, <2>3, <2>4, <2>d
<1>10. PICK nxt \in SeqNum : nxt = Plus(isn, 1)
  BY <1>4, SeqModFacts, PlusCases
<1>11. PICK m : m = [p EXCEPT !.nxt = nxt]
  OBVIOUS
<1>12. PICK q : q = [m EXCEPT !.max = nxt, !.timer = "rto"]
  OBVIOUS
<1>13. q = Arm(NoteSent(m))
  <2>1. m.max = isn /\ m.nxt = nxt
    BY <1>5, <1>11 DEF Pcb
  <2>2. SeqLt(isn, nxt)
    <3>1. nxt = IF isn + 1 < SeqMod THEN isn + 1 ELSE isn + 1 - SeqMod
      BY <1>4, <1>10, SeqModFacts, PlusCases
    <3>2. SeqDist(isn, nxt) = IF isn >= nxt THEN isn - nxt ELSE isn - nxt + SeqMod
      BY <1>4, DistCases
    <3>3. SeqDist(isn, nxt) >= Half
      BY <1>4, <3>1, <3>2, SeqModFacts DEF SeqNum
    <3> QED
      BY <1>4, <3>3, DistCases
  <2>3. NoteSent(m) = [m EXCEPT !.max = nxt]
    BY <2>1, <2>2 DEF NoteSent
  <2> QED
    BY <1>12, <2>3 DEF Arm
<1>14. /\ q \in Pcb /\ q.state = st /\ q.una = isn /\ q.rcv = rcv /\ q.nxt = nxt /\ q.max = nxt /\ q.buf = <<>>
       /\ q.fin_queued = FALSE /\ q.fin_sent = FALSE /\ q.tx_blocked = FALSE /\ q.timer = "rto"
  <2>1. /\ m \in Pcb /\ m.state = st /\ m.una = isn /\ m.rcv = rcv /\ m.nxt = nxt /\ m.buf = <<>>
        /\ m.fin_queued = FALSE /\ m.fin_sent = FALSE /\ m.tx_blocked = FALSE
    BY <1>5, <1>11 DEF Pcb
  <2> QED
    BY <1>12, <2>1 DEF Pcb
<1>15. PcbInv(q)
  BY <1>10, <1>14 DEF PcbInv, OpeningInv, Opening
<1>16. PICK d : d = [out EXCEPT !.p = q]
  OBVIOUS
<1>17. d \in WorkType /\ d.p = q /\ d.sent = out.sent
  BY <1>9, <1>14, <1>16 DEF WorkType
<1>18. Commit(e, d)
  <2>1. Commit(e, [out EXCEPT !.p = Arm(NoteSent([out.p EXCEPT !.nxt = Plus(@, 1)]))])
    BY <1>6, <1>8 DEF Open
  <2>2. [out.p EXCEPT !.nxt = Plus(@, 1)] = m
    BY <1>5, <1>9, <1>10, <1>11
  <2>3. Commit(e, [out EXCEPT !.p = Arm(NoteSent(m))])
    BY <2>1, <2>2
  <2>4. [out EXCEPT !.p = Arm(NoteSent(m))] = d
    BY <1>13, <1>16
  <2> QED
    BY <2>3, <2>4
<1>19. Fresher(e, opened[e] + 1, d, st, rcv, flags)
  BY <1>4, <1>9, <1>14, <1>15, <1>17 DEF Fresher
<1> QED
  BY <1>18, <1>19

LEMMA OpenStep ==
  ASSUME IInv, NEW e \in End, NEW st \in Opening, NEW rcv \in SeqNum, NEW wnd \in Nat,
         NEW flags \in SUBSET {"SYN", "ACK", "FIN", "RST"}, UNCHANGED hist,
         NEW p, p = NewPcb(e, st, rcv, wnd), Open(e, p, flags)
  PROVE  IInv'
<1>1. /\ left \in Budget /\ opened \in [End -> Nat] /\ written \in [End -> Nat]
      /\ \A x \in End : opened[x] + left.conns <= Len(Isn[x])
      /\ \A x \in End : Len(pcb[x].buf) <= written[x] /\ written[x] <= MaxBytes[x]
  BY DEF IInv, Bounded
<1>2. opened' = [opened EXCEPT ![e] = @ + 1]
  BY DEF Open
<1>3. left.conns \in Nat /\ left.conns >= 1 /\ Spent(1)
  BY OpenSpends
<1>4. PICK c : Fresher(e, opened[e] + 1, c, st, rcv, flags) /\ Commit(e, c)
  BY OpenFacts
<1>5. PICK q : q = c.p
  OBVIOUS
<1>6. c \in WorkType /\ PcbInv(q) /\ q.buf = <<>>
  BY <1>4, <1>5 DEF Fresher
<1>7. pcb' = [pcb EXCEPT ![e] = q] /\ net' \in [End -> SUBSET Segments]
  BY <1>4, <1>5, <1>6, CommitFacts
<1>8. Lands(e, q)
  <2>1. q \in Pcb
    BY <1>5, <1>6 DEF WorkType
  <2> QED
    BY <1>6, <1>7, <2>1 DEF Lands
<1>9. opened' \in [End -> Nat] /\ \A x \in End : opened'[x] + left'.conns <= Len(Isn[x])
  <2>1. opened' \in [End -> Nat]
    BY <1>1, <1>2
  <2>2. ASSUME NEW x \in End PROVE opened'[x] + left'.conns <= Len(Isn[x])
    <3>1. Len(Isn[x]) \in Nat /\ opened[x] \in Nat /\ opened[x] + left.conns <= Len(Isn[x])
      BY <1>1, IsnAssumption
    <3>2. opened'[x] \in {opened[x], opened[x] + 1}
      BY <1>1, <1>2
    <3>3. left'.conns = left.conns - 1
      BY <1>3 DEF Spent
    <3> QED
      BY <1>3, <3>1, <3>2, <3>3
  <2> QED
    BY <2>1, <2>2
<1>10. /\ written' = written
       /\ outcome' \in [End -> {"none", "ok", "error", "aborted", "unopened"}]
  BY DEF hist, IInv
<1>11. \A x \in End : written[x] <= written'[x] /\ written'[x] <= MaxBytes[x]
  BY <1>1, <1>10
<1>12. Len(q.buf) <= written'[e] /\ left' \in Budget
  BY <1>1, <1>3, <1>6, <1>10 DEF Spent
<1> QED
  BY <1>1, <1>8, <1>9, <1>10, <1>11, <1>12, StepKept

LEMMA ConnectKept ==
  ASSUME IInv, NEW e \in End, Connect(e)
  PROVE  IInv'
<1>1. 0 \in SeqNum /\ InitialCwnd \in Nat
  BY SeqModFacts, SizeFacts DEF SeqNum
<1>2. PICK z : z = Claimed(NewIsn(e))
  OBVIOUS
<1>3. [z EXCEPT !.state = "SYN_SENT"] = [z EXCEPT !.state = "SYN_SENT", !.rcv = 0, !.wnd = InitialCwnd]
  <2>1. /\ z = [k \in DOMAIN z |-> z[k]] /\ z["rcv"] = 0 /\ z["wnd"] = InitialCwnd
        /\ {"state", "rcv", "wnd"} \subseteq DOMAIN z
    BY <1>2 DEF Claimed
  <2>2. PICK y : y = [z EXCEPT !.state = "SYN_SENT"]
    OBVIOUS
  <2>3. /\ y = [k \in DOMAIN y |-> y[k]] /\ y["rcv"] = 0 /\ y["wnd"] = InitialCwnd
        /\ {"rcv", "wnd"} \subseteq DOMAIN y
    BY <2>1, <2>2
  <2>4. [y EXCEPT !.rcv = 0, !.wnd = InitialCwnd] = y
    BY <2>3
  <2> QED
    BY <2>2, <2>4
<1>4. PICK p : p = NewPcb(e, "SYN_SENT", 0, InitialCwnd)
  OBVIOUS
<1>5. Open(e, p, {"SYN"})
  BY <1>2, <1>3, <1>4 DEF Connect, NewPcb
<1>6. UNCHANGED hist /\ "SYN_SENT" \in Opening /\ {"SYN"} \in SUBSET {"SYN", "ACK", "FIN", "RST"}
  BY DEF Connect, Opening
<1>7. PICK st \in Opening, flags \in SUBSET {"SYN", "ACK", "FIN", "RST"} : st = "SYN_SENT" /\ flags = {"SYN"}
  BY <1>6
<1> QED
  BY <1>1, <1>4, <1>5, <1>6, <1>7, OpenStep

LEMMA RecvSynKept ==
  ASSUME IInv, NEW e \in End, NEW s \in net[e], RecvSyn(e, s)
  PROVE  IInv'
<1>1. s \in Segments
  BY StateFacts
<1>2. PICK rcv \in SeqNum : rcv = Plus(s.seq, 1)
  BY <1>1, SeqModFacts, PlusCases DEF Segments
<1>3. PICK wnd \in Windows(e) :
        Open(e, [Claimed(NewIsn(e)) EXCEPT !.state = "SYN_RECEIVED", !.rcv = rcv, !.wnd = wnd], {"SYN", "ACK"})
  BY <1>2 DEF RecvSyn
<1>4. wnd \in Nat
  BY WindowFacts
<1>5. UNCHANGED hist
  BY DEF RecvSyn
<1>6. PICK st \in Opening, flags \in SUBSET {"SYN", "ACK", "FIN", "RST"} :
        st = "SYN_RECEIVED" /\ flags = {"SYN", "ACK"}
  BY DEF Opening
<1>7. PICK p : p = NewPcb(e, st, rcv, wnd)
  OBVIOUS
<1>8. Open(e, p, flags)
  BY <1>3, <1>6, <1>7 DEF NewPcb
<1> QED
  BY <1>4, <1>5, <1>7, <1>8, OpenStep

LEMMA NoWork ==
  ASSUME IInv, NEW e \in End
  PROVE  Work(pcb[e], 0) \in WorkType
  BY StateFacts, WorkFacts

LEMMA RecvRstKept ==
  ASSUME IInv, NEW e \in End, NEW s \in net[e], RecvRst(e, s)
  PROVE  IInv'
<1>1. Release(e, Work(pcb[e], 0), "error") /\ UNCHANGED <<bounds, written>>
  BY DEF RecvRst
<1> QED
  BY <1>1, NoWork, ReleaseStep DEF bounds

LEMMA ExpireKept ==
  ASSUME IInv, NEW e \in End, Expire(e)
  PROVE  IInv'
<1>1. PICK how \in {"ok", "error", "aborted", "unopened"} : Release(e, Work(pcb[e], 0), how)
  BY DEF Expire
<1>2. UNCHANGED <<bounds, written>>
  BY DEF Expire
<1> QED
  BY <1>1, <1>2, NoWork, ReleaseStep DEF bounds

\* a control segment from any PCB
LEMMA CtlFacts ==
  ASSUME NEW p \in Pcb, NEW flags \in SUBSET {"SYN", "ACK", "FIN", "RST"}, NEW room \in Nat,
         NEW seq \in SeqNum
  PROVE  /\ SendCtl(Work(p, room), flags) \in WorkType /\ SendCtl(Work(p, room), flags).p = p
         /\ Send(Work(p, room), flags, seq, <<>>) \in WorkType
         /\ Send(Work(p, room), flags, seq, <<>>).p = p
<1>1. Work(p, room) \in WorkType /\ Work(p, room).p = p
  BY WorkFacts
<1>2. <<>> \in Seq(Nat)
  OBVIOUS
<1>3. PICK data \in Seq(Nat) : data = <<>>
  BY <1>2
<1>4. PICK now \in SeqNum : now = p.nxt
  BY PcbFields
<1>5. PICK c \in WorkType : c = Work(p, room) /\ c.p = p
  BY <1>1
<1>6. Send(c, flags, seq, data) \in WorkType /\ Send(c, flags, seq, data).p = p
  BY <1>5, SendFacts
<1>7. Send(c, flags, now, data) \in WorkType /\ Send(c, flags, now, data).p = p
  BY <1>5, SendFacts
<1>8. SendCtl(c, flags) = Send(c, flags, now, data)
  BY <1>3, <1>4, <1>5 DEF SendCtl
<1> QED
  BY <1>3, <1>5, <1>6, <1>7, <1>8

LEMMA AbortKept ==
  ASSUME IInv, NEW e \in End, Abort(e)
  PROVE  IInv'
<1>1. Release(e, SendCtl(Work(pcb[e], Ample), {"RST", "ACK"}), "aborted") /\ UNCHANGED <<bounds, written>>
  BY DEF Abort
<1>2. pcb[e] \in Pcb /\ Ample \in Nat /\ {"RST", "ACK"} \in SUBSET {"SYN", "ACK", "FIN", "RST"} /\ 0 \in SeqNum
  BY StateFacts, SeqModFacts DEF Ample, SeqNum
<1>3. SendCtl(Work(pcb[e], Ample), {"RST", "ACK"}) \in WorkType
  BY <1>2, CtlFacts
<1> QED
  BY <1>1, <1>3, ReleaseStep DEF bounds

LEMMA RecvSynAgainKept ==
  ASSUME IInv, NEW e \in End, NEW s \in net[e], RecvSynAgain(e, s)
  PROVE  IInv'
<1>1. pcb[e] \in Pcb /\ PcbInv(pcb[e]) /\ Ample \in Nat /\ Len(pcb[e].buf) \in Nat
  BY StateFacts, SeqModFacts DEF Ample
<1>2. PICK una \in SeqNum : una = pcb[e].una
  BY <1>1, PcbFields
<1>3. PICK flags \in SUBSET {"SYN", "ACK", "FIN", "RST"} : flags = {"SYN", "ACK"}
  OBVIOUS
<1>4. PICK c : c = Send(Work(pcb[e], Ample), flags, una, <<>>)
  OBVIOUS
<1>5. c \in WorkType /\ c.p = pcb[e]
  BY <1>1, <1>4, CtlFacts
<1>6. Commit(e, c) /\ UNCHANGED <<bounds, hist>>
  BY <1>2, <1>3, <1>4 DEF RecvSynAgain
<1>7. Lands(e, pcb[e])
  BY <1>1, <1>5, <1>6, CommitFacts DEF Lands
<1>8. outcome' \in [End -> {"none", "ok", "error", "aborted", "unopened"}]
  BY <1>6 DEF IInv, hist
<1>9. Len(pcb[e].buf) <= Len(pcb[e].buf)
  BY <1>1
<1>10. left' = left /\ opened' = opened /\ written' = written
  BY <1>6 DEF bounds, hist
<1> QED
  BY <1>7, <1>8, <1>9, <1>10, QuietStepKept

(* The connection that its SYN's acknowledgment opens.                        *)
LEMMA EstablishedFacts ==
  ASSUME NEW p \in Pcb, p.state \in Opening, OpeningInv(p), NEW wnd \in Nat
  PROVE  LET q == Established(p, p.max, wnd)
         IN /\ Sync(q) /\ Claims(q) /\ Settled(q) /\ q.buf = <<>> /\ q.state = "ESTABLISHED"
<1> DEFINE q == Established(p, p.max, wnd)
<1>1. /\ p.una \in SeqNum /\ p.max \in SeqNum /\ 0 \in 0 .. MaxRetries /\ "ESTABLISHED" \in State
  BY PcbFields, SizeFacts DEF State
<1>2. PICK m \in SeqNum : m = p.max
  BY <1>1
<1>3. q = [p EXCEPT !.state = "ESTABLISHED", !.una = m, !.wnd = wnd, !.retries = 0, !.timer = "off"]
  BY <1>2 DEF Established
<1> HIDE DEF q
<1>4. /\ q \in Pcb /\ q.state = "ESTABLISHED" /\ q.una = m /\ q.nxt = m /\ q.max = m /\ q.buf = <<>>
      /\ q.fin_queued = FALSE /\ q.fin_sent = FALSE /\ q.timer = "off" /\ q.tx_blocked = FALSE
  BY <1>1, <1>2, <1>3 DEF Pcb, OpeningInv
<1>5. Ahead(q) = 0 /\ Span(q) = 0 /\ FinLen(q) = 0 /\ Len(q.buf) = 0
  BY <1>4, SelfDist DEF Ahead, Span, FinLen
<1>6. SpaceInv(q)
  BY <1>4, <1>5 DEF SpaceInv
<1>7. Small(q) /\ FinInv(q)
  BY <1>4, <1>5, SeqModFacts, SizeFacts DEF Small, FinInv, Ending
<1>8. Sync(q)
  BY <1>4, <1>6, <1>7 DEF Sync, Opening
<1> QED
  BY <1>4, <1>8 DEF Claims, Settled, Outstanding, q

LEMMA RecvSynSentKept ==
  ASSUME IInv, NEW e \in End, NEW s \in net[e], RecvSynSent(e, s)
  PROVE  IInv'
<1>1. pcb[e] \in Pcb /\ PcbInv(pcb[e]) /\ Ample \in Nat /\ s \in Segments /\ Len(pcb[e].buf) \in Nat
  BY StateFacts, SeqModFacts DEF Ample
<1>2. pcb[e].state = "SYN_SENT" /\ OpeningInv(pcb[e]) /\ s.ack = pcb[e].max
  BY <1>1 DEF RecvSynSent, PcbInv, Opening
<1>3. PICK rcv \in SeqNum : rcv = Plus(s.seq, 1)
  BY <1>1, SeqModFacts, PlusCases DEF Segments
<1>4. PICK wnd \in Windows(e) :
        Commit(e, SendCtl(Work([Established(pcb[e], pcb[e].max, wnd) EXCEPT !.rcv = rcv], Ample), {"ACK"}))
  BY <1>2, <1>3 DEF RecvSynSent
<1>5. PICK q : q = Established(pcb[e], pcb[e].max, wnd)
  OBVIOUS
<1>6. Sync(q) /\ Claims(q) /\ Settled(q) /\ q.buf = <<>>
  BY <1>1, <1>2, <1>5, WindowFacts, EstablishedFacts DEF Opening
<1>7. PICK p : p = [q EXCEPT !.rcv = rcv]
  OBVIOUS
<1>8. /\ p \in Pcb /\ p.state = q.state /\ p.una = q.una /\ p.nxt = q.nxt /\ p.max = q.max /\ p.buf = q.buf
      /\ p.fin_queued = q.fin_queued /\ p.fin_sent = q.fin_sent /\ p.timer = q.timer
      /\ p.tx_blocked = q.tx_blocked
  BY <1>6, <1>7 DEF Pcb, Sync
<1>9. PcbInv(p)
  <2>1. Sync(p)
    BY <1>6, <1>8 DEF Sync, SpaceInv, FinInv, Small, Ahead, Span, FinLen
  <2>2. Settled(p)
    BY <1>6, <1>8 DEF Settled, Outstanding
  <2> QED
    BY <2>1, <2>2, SyncLands
<1>10. PICK flags \in SUBSET {"SYN", "ACK", "FIN", "RST"} : flags = {"ACK"}
  OBVIOUS
<1>11. PICK c : c = SendCtl(Work(p, Ample), flags)
  OBVIOUS
<1>12. Commit(e, c)
  BY <1>4, <1>5, <1>7, <1>10, <1>11
<1>13. c \in WorkType /\ c.p = p
  BY <1>1, <1>3, <1>8, <1>11, CtlFacts
<1>14. Lands(e, p)
  BY <1>9, <1>12, <1>13, CommitFacts DEF Lands
<1>15. left' = left /\ opened' = opened /\ written' = written /\ outcome' = outcome
  BY DEF RecvSynSent, bounds, hist
<1>16. Len(p.buf) <= Len(pcb[e].buf)
  BY <1>1, <1>6, <1>8
<1> QED
  BY <1>14, <1>15, <1>16, QuietStepKept DEF IInv

(* tcp_output at the end of a call of the application, or of a timer.         *)
LEMMA CallFacts ==
  ASSUME IInv, NEW e \in End, NEW p, Sync(p), Claims(p), NEW room \in Room, NEW c,
         c = Output(Work(p, room), FALSE), Driver(room, c, 0), Commit(e, c)
  PROVE  Spent(0) /\ Lands(e, c.p) /\ c.p.buf = p.buf
<1>1. PICK w : w = Work(p, room)
  OBVIOUS
<1>2. w \in WorkType /\ w.p = p
  BY <1>1, RoomFacts, WorkFacts DEF Sync
<1>3. c \in WorkType /\ Sync(c.p) /\ SameQueue(c.p, p)
  BY <1>1, <1>2, OutputFacts
<1>4. Settled(c.p)
  BY <1>1, <1>2, OutputSettles DEF Claims
<1>5. PcbInv(c.p)
  BY <1>3, <1>4, SyncLands
<1>6. Lands(e, c.p)
  BY <1>3, <1>5, CommitFacts DEF Lands
<1> QED
  BY <1>3, <1>6, DriverFacts DEF SameQueue

(* A handler that queues n bytes. *)
LEMMA QueueStep ==
  ASSUME IInv, NEW e \in End, NEW q, Lands(e, q), Spent(0), opened' = opened, outcome' = outcome,
         NEW n \in Nat, written' = [written EXCEPT ![e] = @ + n], written[e] + n <= MaxBytes[e],
         Len(q.buf) <= written[e] + n
  PROVE  IInv'
<1>1. /\ left \in Budget /\ opened \in [End -> Nat] /\ written \in [End -> Nat]
      /\ \A x \in End : opened[x] + left.conns <= Len(Isn[x])
      /\ \A x \in End : Len(pcb[x].buf) <= written[x] /\ written[x] <= MaxBytes[x]
  BY DEF IInv, Bounded
<1>2. left' \in Budget /\ left'.conns = left.conns
  BY <1>1 DEF Spent, Budget
<1>3. \A x \in End : opened'[x] + left'.conns <= Len(Isn[x])
  BY <1>1, <1>2
<1>4. written' \in [End -> Nat] /\ written'[e] = written[e] + n
  BY <1>1
<1>5. ASSUME NEW x \in End PROVE written[x] <= written'[x] /\ written'[x] <= MaxBytes[x]
  <2>1. written[x] \in Nat /\ written[x] <= MaxBytes[x]
    BY <1>1
  <2>2. CASE x = e
    BY <1>4, <2>1, <2>2
  <2>3. CASE x # e
    <3>1. written'[x] = written[x]
      BY <1>1, <2>3
    <3> QED
      BY <2>1, <3>1
  <2> QED
    BY <2>2, <2>3
<1>6. Len(q.buf) <= written'[e]
  BY <1>4
<1>7. outcome' \in [End -> {"none", "ok", "error", "aborted", "unopened"}]
  BY DEF IInv
<1> QED
  BY <1>1, <1>2, <1>3, <1>4, <1>5, <1>6, <1>7, StepKept

(* The bytes a call queues fit, in the buffer and in the sequence space.      *)
LEMMA RoomForBytes ==
  ASSUME IInv, NEW e \in End, NEW p, Sync(p), Len(p.buf) <= Len(pcb[e].buf), NEW n \in Nat,
         Len(p.buf) + n <= MaxCwnd, written[e] + n <= MaxBytes[e]
  PROVE  Len(p.buf) + n + 2 < Half /\ Len(p.buf) + n <= written[e] + n
<1>1. Len(p.buf) \in Nat /\ Len(pcb[e].buf) \in Nat /\ written[e] \in Nat /\ Len(pcb[e].buf) <= written[e]
  BY StateFacts, PcbFields DEF Sync
<1>2. MaxBytes[e] \in Nat /\ MaxBytes[e] + 2 < Half
  BY BytesAssumption, SeqAssumption DEF Half
<1> QED
  BY SMTT(30), <1>1, <1>2, SeqModFacts

LEMMA WriteKept ==
  ASSUME IInv, NEW e \in End, NEW n \in 1 .. MaxBytes[e], Write(e, n)
  PROVE  IInv'
<1>1. n \in Nat
  BY BytesAssumption
<1>2. PICK p : p = pcb[e]
  OBVIOUS
<1>3. /\ p.state \in {"ESTABLISHED", "CLOSE_WAIT"} /\ p.fin_queued = FALSE
      /\ Len(p.buf) + n <= MaxCwnd /\ written[e] + n <= MaxBytes[e]
      /\ written' = [written EXCEPT ![e] = @ + n] /\ opened' = opened /\ outcome' = outcome
  <2>1. p \in Pcb
    BY <1>2, StateFacts
  <2>2. p.fin_queued \in BOOLEAN
    BY <2>1, PcbFields
  <2> QED
    BY <1>2, <2>2 DEF Write
<1>4. Sync(p) /\ Claims(p) /\ p \in Pcb
  BY <1>2, <1>3, StateFacts DEF Opening
<1>5. written[e] \in Nat /\ Len(p.buf) \in Nat /\ Len(p.buf) <= Len(pcb[e].buf)
  BY <1>2, StateFacts
<1>6. PICK more \in Seq(Nat) : more = Queued(e, n) /\ Len(more) = n
  BY ZenonT(30), <1>1, <1>5, FreshFacts DEF Queued, Fresh
<1>7. Len(p.buf) + n + 2 < Half /\ Len(p.buf) + n <= written[e] + n
  BY <1>1, <1>3, <1>4, <1>5, RoomForBytes
<1>8. PICK q : q = [p EXCEPT !.buf = p.buf \o more, !.state = p.state, !.fin_queued = FALSE]
  OBVIOUS
<1>9. Sync(q) /\ Claims(q) /\ Len(q.buf) = Len(p.buf) + n
  <2>1. Fits(p, more)
    BY <1>3, <1>6, <1>7 DEF Fits
  <2> QED
    <3>1. PICK st, fin : st = p.state /\ fin = FALSE
      OBVIOUS
    <3>2. q = Longer(p, more, st, fin)
      BY <1>8, <3>1 DEF Longer
    <3>3. FinQueued(st, fin)
      BY <1>3, <3>1 DEF FinQueued
    <3>4. CanQueue(p, more, st, fin)
      BY <1>3, <1>4, <1>6, <2>1, <3>3 DEF CanQueue
    <3>5. Sync(q) /\ Claims(q) /\ Len(q.buf) = Len(p.buf) + Len(more)
      <4>1. Lengthened(p, more, st, Longer(p, more, st, fin))
        BY <3>4, QueueFacts
      <4>2. Lengthened(p, more, st, q)
        BY <3>2, <4>1
      <4> QED
        BY <4>2 DEF Lengthened
    <3> QED
      BY <1>6, <3>5
<1>10. q = [p EXCEPT !.buf = @ \o Queued(e, n)]
  <2>1. p = [k \in DOMAIN p |-> p[k]] /\ {"buf", "state", "fin_queued"} \subseteq DOMAIN p
        /\ p["fin_queued"] = FALSE
    BY <1>3, <1>4 DEF Pcb
  <2>2. PICK r : r = [p EXCEPT !.buf = p.buf \o more]
    OBVIOUS
  <2>3. r = [k \in DOMAIN r |-> r[k]] /\ {"state", "fin_queued"} \subseteq DOMAIN r
        /\ r["fin_queued"] = FALSE /\ r["state"] = p.state
    BY <2>1, <2>2
  <2>4. [r EXCEPT !.state = p.state, !.fin_queued = FALSE] = r
    BY <2>3
  <2> QED
    BY <1>6, <1>8, <2>2, <2>4
<1>11. PICK room, c :
         /\ room \in Room /\ c = Output(Work(q, room), FALSE)
         /\ Driver(room, c, 0) /\ Commit(e, c)
  BY <1>2, <1>10 DEF Write
<1>12. Spent(0) /\ Lands(e, c.p) /\ c.p.buf = q.buf
  BY ZenonT(30), <1>9, <1>11, CallFacts
<1>13. Len(c.p.buf) <= written[e] + n
  BY <1>7, <1>9, <1>12
<1> QED
  BY <1>1, <1>3, <1>12, <1>13, QueueStep

LEMMA CloseKept ==
  ASSUME IInv, NEW e \in End, Close(e)
  PROVE  IInv'
<1>1. opened' = opened /\ written' = written
  BY DEF Close
<1>2. CASE pcb[e].state \in {"SYN_SENT", "SYN_RECEIVED"}
  <2>1. Release(e, Work(pcb[e], 0), "unopened") /\ left' = left
    BY <1>2 DEF Close
  <2> QED
    BY <1>1, <2>1, NoWork, ReleaseStep
<1>3. CASE pcb[e].state \notin {"SYN_SENT", "SYN_RECEIVED"}
  <2>1. PICK p : p = pcb[e]
    OBVIOUS
  <2>2. p.state \in {"ESTABLISHED", "CLOSE_WAIT"} /\ outcome' = outcome
    BY <1>3, <2>1 DEF Close
  <2>3. Sync(p) /\ Claims(p) /\ p \in Pcb /\ Len(p.buf) \in Nat /\ p.buf \in Seq(Nat)
    BY <2>1, <2>2, StateFacts, PcbFields DEF Opening
  <2>4. PICK st \in {"FIN_WAIT_1", "LAST_ACK"} : st = IF p.state = "ESTABLISHED" THEN "FIN_WAIT_1" ELSE "LAST_ACK"
    OBVIOUS
  <2>5. PICK q : q = [p EXCEPT !.state = st, !.fin_queued = TRUE]
    OBVIOUS
  <2>6. Sync(q) /\ Claims(q) /\ q.buf = p.buf
    <3>1. p.fin_queued = FALSE /\ p.fin_sent = FALSE
      <4>1. p.fin_queued \in BOOLEAN /\ p.fin_sent \in BOOLEAN
        BY <2>3, PcbFields
      <4> QED
        BY <2>2, <2>3, <4>1 DEF Sync, FinInv, Ending
    <3>2. PICK more \in Seq(Nat) : more = <<>> /\ Len(more) = 0
      <4>1. <<>> \in Seq(Nat) /\ Len(<<>>) = 0
        OBVIOUS
      <4> QED
        BY <4>1
    <3>3. p.buf \o more = p.buf
      BY <2>3, <3>2
    <3>4. q = [p EXCEPT !.buf = p.buf \o more, !.state = st, !.fin_queued = TRUE]
      <4>1. p = [k \in DOMAIN p |-> p[k]] /\ "buf" \in DOMAIN p
        BY <2>3 DEF Pcb
      <4>2. [p EXCEPT !.buf = p.buf] = p
        BY <4>1
      <4> QED
        BY <2>5, <3>3, <4>2
    <3>5. Fits(p, more)
      BY <2>3, <3>2 DEF Sync, Small, Fits
    <3> QED
      <4>1. PICK x, fin : x = st /\ fin = TRUE
        OBVIOUS
      <4>2. q = Longer(p, more, x, fin)
        BY <3>4, <4>1 DEF Longer
      <4>3. FinQueued(x, fin)
        BY <4>1 DEF FinQueued
      <4>4. Sync(q) /\ Claims(q) /\ q.buf = p.buf \o more
        <5>1. CanQueue(p, more, x, fin)
          BY <2>3, <3>1, <3>2, <3>5, <4>3 DEF CanQueue
        <5> QED
          <6>1. Lengthened(p, more, x, Longer(p, more, x, fin))
            BY <5>1, QueueFacts
          <6>2. Lengthened(p, more, x, q)
            BY <4>2, <6>1
          <6> QED
            BY <6>2 DEF Lengthened
      <4> QED
        BY <3>3, <4>4
  <2>7. PICK room, c :
          /\ room \in Room /\ c = Output(Work(q, room), FALSE)
          /\ Driver(room, c, 0) /\ Commit(e, c)
    BY <1>3, <2>1, <2>4, <2>5 DEF Close
  <2>8. Spent(0) /\ Lands(e, c.p) /\ c.p.buf = p.buf
    BY ZenonT(30), <2>6, <2>7, CallFacts
  <2>9. Len(c.p.buf) <= Len(pcb[e].buf) /\ outcome' \in [End -> {"none", "ok", "error", "aborted", "unopened"}]
    BY <2>1, <2>2, <2>3, <2>8 DEF IInv
  <2> QED
    BY <1>1, <2>8, <2>9, QuietStepKept
<1> QED
  BY <1>2, <1>3

(* recv_cb takes the bytes, answers and closes, aborts, or refuses them.      *)
LEMMA DeliverKept ==
  ASSUME IInv, NEW e \in End, NEW p, Sync(p), Claims(p), Len(p.buf) <= Len(pcb[e].buf),
         NEW s \in Segments, Takes(p, s), NEW data, Len(data) \in Nat, Deliver(e, p, s, data),
         opened' = opened
  PROVE  IInv'
<1>1. CanTakeData(p.state) /\ p \in Pcb /\ Len(p.buf) \in Nat
  BY PcbFields DEF Takes, Sync
<1>2. CASE Flush(e, Received(p, s, Len(data)), TRUE) /\ UNCHANGED <<written, outcome>>
  <2>1. PICK q : q = Received(p, s, Len(data))
    OBVIOUS
  <2>2. Sync(q) /\ Claims(q) /\ q.buf = p.buf
    BY <1>1, <2>1, ReceivedFacts
  <2>3. Flush(e, q, TRUE) /\ Len(q.buf) <= Len(pcb[e].buf)
    BY <1>2, <2>1, <2>2
  <2> QED
    BY <1>2, <2>2, <2>3, FlushStep
<1>3. CASE /\ p.state = "ESTABLISHED" /\ UNCHANGED outcome
           /\ \E n \in {0, 1} :
                /\ Len(p.buf) + n <= MaxCwnd /\ written[e] + n <= MaxBytes[e]
                /\ Flush(e, Received(Reply(e, p, n), s, Len(data)), TRUE)
                /\ written' = [written EXCEPT ![e] = @ + n]
  <2>1. PICK n \in {0, 1} :
          /\ Len(p.buf) + n <= MaxCwnd /\ written[e] + n <= MaxBytes[e]
          /\ Flush(e, Received(Reply(e, p, n), s, Len(data)), TRUE)
          /\ written' = [written EXCEPT ![e] = @ + n]
    BY <1>3
  <2>2. n \in Nat /\ written[e] \in Nat
    BY StateFacts
  <2>3. PICK more \in Seq(Nat) : more = Fresh(written[e], n) /\ Len(more) = n
    BY <2>2, FreshFacts
  <2>4. Len(p.buf) + n + 2 < Half /\ Len(p.buf) + n <= written[e] + n
    BY <2>1, <2>2, RoomForBytes
  <2>5. p.fin_queued = FALSE
    <3>1. p.fin_queued \in BOOLEAN
      BY <1>1, PcbFields
    <3> QED
      BY <1>3, <3>1 DEF Sync, FinInv, Ending
  <2>6. PICK st, fin : st = "FIN_WAIT_1" /\ fin = TRUE
    OBVIOUS
  <2>7. CanQueue(p, more, st, fin)
    BY <2>1, <2>3, <2>4, <2>5, <2>6 DEF CanQueue, Fits, FinQueued
  <2>8. PICK r : r = Longer(p, more, st, fin)
    OBVIOUS
  <2>9. Lengthened(p, more, st, r)
    <3>1. Lengthened(p, more, st, Longer(p, more, st, fin))
      BY <2>7, QueueFacts
    <3> QED
      BY <2>8, <3>1
  <2>10. Sync(r) /\ Claims(r) /\ CanTakeData(r.state) /\ Len(r.buf) = Len(p.buf) + n
    BY <2>3, <2>6, <2>9 DEF Lengthened, CanTakeData
  <2>11. Reply(e, p, n) = r
    BY <1>3, <2>3, <2>6, <2>8 DEF Reply, Longer, Fresh
  <2>12. PICK q : q = Received(r, s, Len(data))
    OBVIOUS
  <2>13. Sync(q) /\ Claims(q) /\ q.buf = r.buf
    BY <2>10, <2>12, ReceivedFacts
  <2>14. Flush(e, q, TRUE)
    BY <2>1, <2>11, <2>12
  <2>15. Spent(0) /\ \E x : Lands(e, x) /\ x.buf = q.buf
    BY <2>13, <2>14, FlushFacts
  <2>16. PICK x : Lands(e, x) /\ x.buf = q.buf
    BY <2>15
  <2>17. Len(x.buf) <= written[e] + n
    BY <2>4, <2>10, <2>13, <2>16
  <2> QED
    BY <1>3, <2>1, <2>2, <2>15, <2>16, <2>17, QueueStep
<1>4. CASE /\ Release(e, SendCtl(Work([p EXCEPT !.rcv = Plus(@, Len(data))], Ample), {"RST", "ACK"}), "aborted")
           /\ UNCHANGED <<written, left>>
  <2>1. p.rcv \in SeqNum
    BY <1>1, PcbFields
  <2>2. PICK rcv \in SeqNum : rcv = Plus(p.rcv, Len(data))
    <3>1. p.rcv + Len(data) \in Int
      BY <2>1, SeqModFacts DEF SeqNum
    <3>2. Plus(p.rcv, Len(data)) \in SeqNum
      BY <3>1, SeqModFacts DEF Plus, SeqNum
    <3> QED
      BY <3>2
  <2>3. PICK q : q = [p EXCEPT !.rcv = rcv]
    OBVIOUS
  <2>4. q \in Pcb
    BY <1>1, <2>3 DEF Pcb
  <2>5. Ample \in Nat /\ {"RST", "ACK"} \in SUBSET {"SYN", "ACK", "FIN", "RST"} /\ 0 \in SeqNum
    BY SeqModFacts DEF Ample, SeqNum
  <2>6. PICK c : c = SendCtl(Work(q, Ample), {"RST", "ACK"})
    OBVIOUS
  <2>7. c \in WorkType
    BY <2>4, <2>5, <2>6, CtlFacts
  <2>8. Release(e, c, "aborted")
    BY <1>4, <2>2, <2>3, <2>6
  <2> QED
    BY <1>4, <2>7, <2>8, ReleaseStep
<1>5. CASE Flush(e, p, FALSE) /\ UNCHANGED hist
  <2>1. UNCHANGED <<opened, written, outcome>>
    BY <1>5 DEF hist
  <2>2. PICK no \in BOOLEAN : no = FALSE
    OBVIOUS
  <2>3. Flush(e, p, no)
    BY <1>5, <2>2
  <2> QED
    BY <2>1, <2>3, FlushStep
<1> QED
  BY <1>2, <1>3, <1>4, <1>5 DEF Deliver

LEMMA RecvSegmentKept ==
  ASSUME IInv, NEW e \in End, NEW s \in net[e], RecvSegment(e, s)
  PROVE  IInv'
<1>1. /\ pcb[e] \in Pcb /\ PcbInv(pcb[e]) /\ s \in Segments /\ Len(pcb[e].buf) \in Nat
      /\ pcb[e].state \notin Opening \cup {"CLOSED"} => Sync(pcb[e]) /\ Settled(pcb[e]) /\ Claims(pcb[e])
  BY StateFacts
<1>2. opened' = opened
  BY DEF RecvSegment
<1>3. PICK wnd, p0, p, data :
        /\ wnd \in Windows(e)
        /\ p0 = IF pcb[e].state = "SYN_RECEIVED" THEN Established(pcb[e], s.ack, wnd) ELSE pcb[e]
        /\ p = Acked(p0, s, wnd)
        /\ data = IF Takes(p, s) THEN NewBytes(p, s) ELSE <<>>
        /\ \/ /\ p.state = "CLOSED"
              /\ Release(e, Work(p, 0), "ok") /\ UNCHANGED <<written, delivered, left>>
           \/ p.state # "CLOSED" /\ data # <<>> /\ Deliver(e, p, s, data)
           \/ /\ p.state # "CLOSED"
              /\ Flush(e, IF Takes(p, s) THEN Received(p, s, 0) ELSE p, Carries(s)) /\ UNCHANGED hist
  BY DEF RecvSegment
<1>4. wnd \in Nat
  BY <1>3, WindowFacts
<1>5. Sync(p0) /\ Claims(p0) /\ Len(p0.buf) <= Len(pcb[e].buf)
  <2>1. CASE pcb[e].state = "SYN_RECEIVED"
    <3>1. s.ack = pcb[e].max /\ OpeningInv(pcb[e]) /\ pcb[e].state \in Opening
      BY <1>1, <2>1 DEF RecvSegment, PcbInv, Opening
    <3>2. p0 = Established(pcb[e], pcb[e].max, wnd)
      BY <1>3, <2>1, <3>1
    <3>3. Sync(p0) /\ Claims(p0) /\ p0.buf = <<>>
      BY <1>1, <1>4, <3>1, <3>2, EstablishedFacts
    <3> QED
      BY <1>1, <3>3
  <2>2. CASE pcb[e].state # "SYN_RECEIVED"
    <3>1. pcb[e].state \notin Opening \cup {"CLOSED"}
      BY <2>2 DEF RecvSegment, Opening
    <3> QED
      BY <1>1, <1>3, <2>2, <3>1
  <2> QED
    BY <2>1, <2>2
<1>6. (p.state # "CLOSED" => Sync(p) /\ Claims(p)) /\ Len(p.buf) <= Len(p0.buf)
  BY <1>1, <1>3, <1>4, <1>5, AckedFacts
<1>7. CASE /\ p.state = "CLOSED"
           /\ Release(e, Work(p, 0), "ok") /\ UNCHANGED <<written, delivered, left>>
  <2>1. Release(e, Work(pcb[e], 0), "ok")
    BY <1>7 DEF Release, Work, Commit
  <2> QED
    BY <1>2, <1>7, <2>1, NoWork, ReleaseStep
<1>8. ASSUME p.state # "CLOSED" PROVE Sync(p) /\ Claims(p) /\ Len(p.buf) <= Len(pcb[e].buf) /\ p \in Pcb
  <2>1. Sync(p) /\ Claims(p) /\ p \in Pcb
    BY <1>6, <1>8 DEF Sync
  <2>2. Len(p.buf) \in Nat /\ Len(p0.buf) \in Nat
    BY <1>5, <2>1, PcbFields DEF Sync
  <2>3. Len(p.buf) <= Len(pcb[e].buf)
    BY <1>1, <1>5, <1>6, <2>2
  <2> QED
    BY <2>1, <2>3
<1>9. CASE p.state # "CLOSED" /\ data # <<>> /\ Deliver(e, p, s, data)
  <2>1. Takes(p, s) /\ data = NewBytes(p, s)
    BY <1>3, <1>9
  <2>2. Len(data) \in Nat
    <3>1. s.data \in Seq(Nat) /\ Len(s.data) \in Nat /\ s.seq \in SeqNum /\ p.rcv \in SeqNum
      BY <1>1, <1>8, <1>9, PcbFields DEF Segments
    <3>2. PICK d \in Nat : d = SeqDist(p.rcv, s.seq)
      <4>1. SeqDist(p.rcv, s.seq) \in SeqNum
        BY <3>1, DistCases
      <4> QED
        BY <4>1, SeqModFacts DEF SeqNum
    <3>3. data = SubSeq(s.data, d + 1, Len(s.data))
      BY <2>1, <3>2 DEF NewBytes
    <3>4. ASSUME NEW i \in d + 1 .. Len(s.data) PROVE s.data[i] \in Nat
      <4>1. i \in 1 .. Len(s.data)
        BY <3>1, <3>2
      <4> QED
        BY <3>1, <4>1
    <3> QED
      BY <3>1, <3>2, <3>3, <3>4, SubSeqProperties
  <2> QED
    BY <1>1, <1>2, <1>8, <1>9, <2>1, <2>2, DeliverKept
<1>10. CASE /\ p.state # "CLOSED"
            /\ Flush(e, IF Takes(p, s) THEN Received(p, s, 0) ELSE p, Carries(s)) /\ UNCHANGED hist
  <2>0. Carries(s) \in BOOLEAN
    BY DEF Carries
  <2>d. PICK due \in BOOLEAN : due = Carries(s)
    BY <2>0
  <2>1. PICK q : q = IF Takes(p, s) THEN Received(p, s, 0) ELSE p
    OBVIOUS
  <2>2. Flush(e, q, due) /\ UNCHANGED <<opened, written, outcome>>
    BY <1>2, <1>10, <2>1, <2>d DEF hist
  <2>3. Sync(q) /\ Claims(q) /\ q.buf = p.buf
    <3>1. CASE Takes(p, s)
      <4>1. CanTakeData(p.state)
        BY <3>1 DEF Takes
      <4>2. Sync(Received(p, s, 0)) /\ Claims(Received(p, s, 0)) /\ Received(p, s, 0).buf = p.buf
        BY <1>1, <1>8, <1>10, <4>1, ReceivedFacts
      <4> QED
        BY <2>1, <3>1, <4>2
    <3>2. CASE ~Takes(p, s)
      BY <1>8, <1>10, <2>1, <3>2
    <3> QED
      BY <3>1, <3>2
  <2>4. Len(q.buf) <= Len(pcb[e].buf)
    BY <1>8, <1>10, <2>3
  <2> QED
    BY <2>2, <2>3, <2>4, FlushStep
<1> QED
  BY <1>3, <1>7, <1>9, <1>10

(* The retry of a refused frame. *)
LEMMA TxRetryKept ==
  ASSUME IInv, NEW e \in End, TxRetry(e)
  PROVE  IInv'
<1>1. PICK p : p = pcb[e]
  OBVIOUS
<1>2. p \in Pcb /\ PcbInv(p) /\ p.tx_blocked = TRUE
  <2>1. p \in Pcb /\ PcbInv(p)
    BY <1>1, StateFacts
  <2>2. p.tx_blocked \in BOOLEAN
    BY <2>1, PcbFields
  <2> QED
    BY <1>1, <2>1, <2>2 DEF TxRetry
<1>3. Sync(p)
  <2>1. p.state \notin Opening
    BY <1>2 DEF PcbInv, OpeningInv
  <2>2. p.state # "CLOSED"
    <3>1. FreeSlot.tx_blocked = FALSE
      BY DEF FreeSlot, Claimed
    <3> QED
      BY <1>2, <3>1 DEF PcbInv
  <2> QED
    BY <1>2, <2>1, <2>2 DEF PcbInv
<1>4. PICK q : q = [p EXCEPT !.tx_blocked = FALSE, !.timer = "off"]
  OBVIOUS
<1>5. /\ q \in Pcb /\ SameQueue(q, p) /\ q.nxt = p.nxt /\ q.max = p.max /\ q.fin_sent = p.fin_sent
      /\ q.tx_blocked = FALSE
  BY <1>2, <1>4 DEF Pcb, SameQueue
<1>6. Sync(q)
  BY <1>3, <1>5, SyncKept
<1>7. PICK room, c :
        /\ room \in Room /\ c = Output(Work(q, room), FALSE)
        /\ Driver(room, c, 0)
        /\ Commit(e, IF c.p.una # c.p.max THEN [c EXCEPT !.p = ArmIfOff(@)] ELSE c)
  BY <1>1, <1>4 DEF TxRetry
<1>8. PICK w : w = Work(q, room)
  OBVIOUS
<1>9. w \in WorkType /\ w.p = q
  BY <1>5, <1>7, <1>8, RoomFacts, WorkFacts
<1>10. /\ c \in WorkType /\ Sync(c.p) /\ SameQueue(c.p, q)
       /\ c.p.timer # "off" \/ (c = w /\ Quiet(w.p, FALSE))
  BY <1>6, <1>7, <1>8, <1>9, OutputFacts
<1>11. PICK d : d = IF c.p.una # c.p.max THEN [c EXCEPT !.p = ArmIfOff(@)] ELSE c
  OBVIOUS
<1>12. d \in WorkType /\ Sync(d.p) /\ Settled(d.p) /\ d.p.buf = p.buf
  <2>1. CASE c.p.una # c.p.max
    <3>1. Sync(ArmIfOff(c.p)) /\ SameQueue(ArmIfOff(c.p), c.p) /\ ArmIfOff(c.p).timer # "off"
      BY <1>10, ArmSync
    <3>2. PICK x : x = ArmIfOff(c.p)
      OBVIOUS
    <3>3. x \in Pcb /\ d = [c EXCEPT !.p = x]
      BY <1>11, <2>1, <3>1, <3>2 DEF Sync
    <3>4. d \in WorkType /\ d.p = x
      BY <1>10, <3>3 DEF WorkType
    <3> QED
      BY <1>5, <1>10, <3>1, <3>2, <3>4 DEF SameQueue, Settled
  <2>2. CASE c.p.una = c.p.max
    <3>1. d = c
      BY <1>11, <2>2
    <3>2. ASSUME c.p.timer = "off" PROVE ~Outstanding(c.p)
      <4>1. Quiet(c.p, FALSE)
        BY <1>9, <1>10, <3>2
      <4> QED
        BY <1>10, <2>2, <3>2, <4>1, QuietFacts
    <3> QED
      BY <1>5, <1>10, <3>1, <3>2 DEF SameQueue, Settled
  <2> QED
    BY <2>1, <2>2
<1>13. Commit(e, d)
  BY <1>7, <1>11
<1>14. PcbInv(d.p)
  BY <1>12, SyncLands
<1>15. Lands(e, d.p)
  BY <1>12, <1>13, <1>14, CommitFacts DEF Lands
<1>16. Spent(0)
  BY <1>7, <1>10, DriverFacts
<1>17. opened' = opened /\ written' = written /\ outcome' = outcome
  BY DEF TxRetry, hist
<1>18. Len(d.p.buf) <= Len(pcb[e].buf)
  BY <1>1, <1>12, StateFacts
<1> QED
  BY <1>15, <1>16, <1>17, <1>18, QuietStepKept DEF IInv

\* the two halves of tcp_on_rto
BackedOff(p) == [p EXCEPT !.retries = @ + 1, !.cwnd = Mss]
Rewound(q)   == [q EXCEPT !.timer = "off", !.nxt = q.una, !.fin_sent = @ /\ q.una = q.max]

(* tcp_on_rto rewinds, but does not take back a FIN that is acknowledged.     *)
LEMMA RewindFacts ==
  ASSUME NEW p, Sync(p), p.tx_blocked = FALSE, p.retries + 1 <= MaxRetries,
         NEW q, q = BackedOff(p), NEW r, r = Rewound(q)
  PROVE  Sync(r) /\ SameQueue(r, p) /\ (FinDone(r) <=> FinDone(p))
<1>1. p \in Pcb /\ p.state \in State /\ p.retries \in 0 .. MaxRetries /\ p.una \in SeqNum
      /\ p.fin_sent \in BOOLEAN /\ Len(p.buf) \in Nat
  BY PcbFields DEF Sync
<1>2. PICK retries \in 0 .. MaxRetries : retries = p.retries + 1
  BY <1>1, SizeFacts
<1>3. /\ q \in Pcb /\ SameQueue(q, p) /\ q.nxt = p.nxt /\ q.max = p.max /\ q.fin_sent = p.fin_sent
      /\ q.tx_blocked = FALSE
  <2>1. q = [p EXCEPT !.retries = retries, !.cwnd = Mss]
    BY <1>2 DEF BackedOff
  <2>2. Mss \in 0 .. MaxCwnd
    BY SizeFacts
  <2> QED
    BY <1>1, <2>1, <2>2 DEF Pcb, SameQueue
<1>4. PICK again \in BOOLEAN : again = (q.fin_sent /\ q.una = q.max)
  OBVIOUS
<1>5. r = [q EXCEPT !.timer = "off", !.nxt = q.una, !.fin_sent = again]
  BY <1>4 DEF Rewound
<1>6. again = TRUE <=> (p.fin_sent = TRUE /\ p.una = p.max)
  BY <1>1, <1>3, <1>4 DEF SameQueue
<1>7. /\ r \in Pcb /\ SameQueue(r, p) /\ r.nxt = p.una /\ r.max = p.max /\ r.fin_sent = again
      /\ r.tx_blocked = FALSE
  BY <1>1, <1>3, <1>5 DEF Pcb, SameQueue
<1>8. Ahead(r) = 0 /\ Span(r) = Span(p) /\ FinLen(r) = FinLen(p) /\ r.buf = p.buf /\ r.una = p.una
  <2>1. r.una = p.una
    BY <1>7 DEF SameQueue
  <2>2. SeqDist(r.nxt, r.una) = 0
    BY <1>1, <1>7, <2>1, SelfDist
  <2> QED
    BY <1>7, <2>1, <2>2 DEF Ahead, Span, FinLen, SameQueue
<1>9. SpaceInv(r)
  <2>1. Span(p) \in Nat /\ FinLen(p) \in {0, 1}
    BY <1>1, PcbFields
  <2>2. Ahead(r) <= Span(r) /\ Span(r) <= Len(r.buf) + FinLen(r)
    BY <1>8, <2>1 DEF Sync, SpaceInv
  <2>3. ASSUME again = TRUE PROVE r.nxt = r.max /\ Span(r) = 0 /\ Len(r.buf) = 0
    <3>1. p.fin_sent = TRUE /\ p.una = p.max
      BY <1>6, <2>3
    <3>2. Span(p) = 0
      BY <1>1, <3>1, SelfDist DEF Span
    <3>3. Len(p.buf) = 0
      BY <1>1, <3>1, <3>2 DEF Sync, SpaceInv
    <3> QED
      BY <1>7, <1>8, <3>1, <3>2, <3>3
  <2>4. Ahead(r) <= Len(r.buf)
    BY <1>1, <1>8
  <2> QED
    BY <1>7, <2>2, <2>3, <2>4 DEF SpaceInv
<1>10. FinInv(r)
  BY <1>6, <1>7 DEF Sync, FinInv, SameQueue
<1>11. Sync(r)
  BY <1>7, <1>8, <1>9, <1>10 DEF Sync, Small, SameQueue
<1>12. FinDone(r) <=> FinDone(p)
  BY <1>6, <1>7, <1>8 DEF FinDone
<1> QED
  BY <1>7, <1>11, <1>12

(* tcp_on_rto rewinds to the oldest byte and sends again. *)
LEMMA ResentFacts ==
  ASSUME NEW p, PcbInv(p), p.state # "CLOSED", p.tx_blocked = FALSE, p.retries + 1 <= MaxRetries,
         NEW room \in Nat, NEW d, d = Resent(p, room)
  PROVE  d \in WorkType /\ PcbInv(d.p) /\ d.p.buf = p.buf
<1>1. p \in Pcb /\ p.state \in State /\ p.retries \in 0 .. MaxRetries /\ p.una \in SeqNum
      /\ p.fin_sent \in BOOLEAN /\ Len(p.buf) \in Nat
  BY PcbFields DEF PcbInv
<1>2. PICK retries \in 0 .. MaxRetries : retries = p.retries + 1
  BY <1>1, SizeFacts
<1>3. PICK q : q = BackedOff(p)
  OBVIOUS
<1>4. /\ q \in Pcb /\ SameQueue(q, p) /\ q.nxt = p.nxt /\ q.max = p.max /\ q.fin_sent = p.fin_sent
      /\ q.tx_blocked = FALSE /\ q.timer = p.timer
  <2>1. q = [p EXCEPT !.retries = retries, !.cwnd = Mss]
    BY <1>2, <1>3 DEF BackedOff
  <2>2. Mss \in 0 .. MaxCwnd
    BY SizeFacts
  <2> QED
    BY <1>1, <2>1, <2>2 DEF Pcb, SameQueue
<1>6. PICK r : r = Rewound(q)
  OBVIOUS
<1>7. PICK probe \in BOOLEAN : probe = (q.wnd = 0)
  OBVIOUS
<1>8. PICK c :
        c = CASE p.state = "SYN_SENT"     -> Send(Work(q, room), {"SYN"}, q.una, <<>>)
              [] p.state = "SYN_RECEIVED" -> Send(Work(q, room), {"SYN", "ACK"}, q.una, <<>>)
              [] OTHER -> Output(Work(r, room), probe)
  OBVIOUS
<1>9. d = [c EXCEPT !.p = Arm(c.p)]
  BY <1>3, <1>6, <1>7, <1>8 DEF Resent, BackedOff, Rewound
<1>10. CASE p.state \in Opening
  <2>1. PICK flags \in SUBSET {"SYN", "ACK", "FIN", "RST"} : c = Send(Work(q, room), flags, q.una, <<>>)
    BY <1>8, <1>10 DEF Opening
  <2>2. q.una \in SeqNum
    BY <1>4, PcbFields
  <2>3. c \in WorkType /\ c.p = q
    BY <1>4, <2>1, <2>2, CtlFacts
  <2>4. PICK x : x = Arm(q)
    OBVIOUS
  <2>5. /\ x \in Pcb /\ SameQueue(x, q) /\ x.timer = "rto" /\ x.nxt = q.nxt /\ x.max = q.max
        /\ x.fin_sent = q.fin_sent /\ x.tx_blocked = q.tx_blocked
    BY <1>4, <2>4, ArmFacts
  <2>6. d \in WorkType /\ d.p = x
    BY <1>9, <2>3, <2>4, <2>5 DEF WorkType
  <2>7. OpeningInv(p)
    BY <1>10 DEF PcbInv
  <2>8. OpeningInv(x) /\ x.state = p.state
    BY <1>4, <2>5, <2>7 DEF OpeningInv, SameQueue
  <2>9. PcbInv(x) /\ x.buf = p.buf
    BY <1>4, <1>10, <2>5, <2>8 DEF PcbInv, SameQueue, Opening
  <2> QED
    BY <2>6, <2>9
<1>11. CASE p.state \notin Opening
  <2>1. Sync(p)
    BY <1>11 DEF PcbInv
  <2>2. c = Output(Work(r, room), probe)
    BY <1>8, <1>11 DEF Opening
  <2>8. Sync(r) /\ SameQueue(r, p) /\ r \in Pcb
    <3>1. Sync(r) /\ SameQueue(r, p)
      BY <1>3, <1>6, <2>1, RewindFacts
    <3> QED
      BY <3>1 DEF Sync
  <2>9. PICK w : w = Work(r, room)
    OBVIOUS
  <2>10. w \in WorkType /\ w.p = r
    BY <2>8, <2>9, WorkFacts
  <2>11. c \in WorkType /\ Sync(c.p) /\ SameQueue(c.p, r)
    BY <2>2, <2>8, <2>9, <2>10, OutputFacts
  <2>12. PICK x : x = Arm(c.p)
    OBVIOUS
  <2>13. Sync(x) /\ SameQueue(x, c.p) /\ x.timer # "off"
    BY <2>11, <2>12, ArmSync
  <2>14. d \in WorkType /\ d.p = x
    BY <1>9, <2>11, <2>12, <2>13 DEF WorkType, Sync
  <2>15. PcbInv(x)
    BY <2>13, SyncLands DEF Settled
  <2> QED
    BY <2>8, <2>11, <2>13, <2>14, <2>15 DEF SameQueue
<1> QED
  BY <1>10, <1>11

LEMMA TimeoutKept ==
  ASSUME IInv, NEW e \in End, Timeout(e)
  PROVE  IInv'
<1>1. PICK p : p = pcb[e]
  OBVIOUS
<1>2. p \in Pcb /\ PcbInv(p) /\ p.tx_blocked = FALSE /\ Len(p.buf) \in Nat
  <2>1. p \in Pcb /\ PcbInv(p)
    BY <1>1, StateFacts
  <2>2. p.tx_blocked \in BOOLEAN /\ Len(p.buf) \in Nat
    BY <2>1, PcbFields
  <2> QED
    BY <1>1, <2>1, <2>2 DEF Timeout
<1>3. p.state # "CLOSED"
  <2>1. FreeSlot.timer = "off"
    BY DEF FreeSlot, Claimed
  <2> QED
    BY <1>1, <1>2, <2>1 DEF PcbInv, Timeout
<1>4. opened' = opened /\ written' = written
  BY DEF Timeout
<1>5. \/ /\ ~Outstanding(p)
         /\ Commit(e, Work([p EXCEPT !.timer = "off"], 0)) /\ UNCHANGED <<outcome, left>>
      \/ Outstanding(p) /\ Release(e, Work(p, 0), "error") /\ left' = left
      \/ /\ p.retries + 1 <= MaxRetries /\ UNCHANGED outcome
         /\ \E room \in Room : Driver(room, Resent(p, room), 1) /\ Commit(e, Resent(p, room))
  <2>1. p.retries \in Int /\ MaxRetries \in Int
    BY <1>2, PcbFields, SizeFacts
  <2> QED
    BY <1>1, <2>1 DEF Timeout
<1>6. CASE /\ ~Outstanding(p)
           /\ Commit(e, Work([p EXCEPT !.timer = "off"], 0)) /\ UNCHANGED <<outcome, left>>
  <2>1. p.state \notin Opening
    <3>1. SUFFICES ASSUME p.state \in Opening PROVE FALSE
      OBVIOUS
    <3>2. p.max = Plus(p.una, 1) /\ p.una \in SeqNum
      BY <1>2, <3>1, PcbFields DEF PcbInv, OpeningInv
    <3>3. p.una = p.max
      BY <1>6 DEF Outstanding
    <3>4. Plus(p.una, 1) = IF p.una + 1 < SeqMod THEN p.una + 1 ELSE p.una + 1 - SeqMod
      BY <3>2, SeqModFacts, PlusCases
    <3> QED
      BY <3>2, <3>3, <3>4, SeqModFacts DEF SeqNum
  <2>2. Sync(p)
    BY <1>2, <1>3, <2>1 DEF PcbInv
  <2>3. PICK q : q = [p EXCEPT !.timer = "off"]
    OBVIOUS
  <2>4. /\ q \in Pcb /\ SameQueue(q, p) /\ q.nxt = p.nxt /\ q.max = p.max /\ q.fin_sent = p.fin_sent
        /\ q.tx_blocked = FALSE
    BY <1>2, <2>3 DEF Pcb, SameQueue
  <2>5. Sync(q)
    BY <2>2, <2>4, SyncKept
  <2>6. Settled(q)
    BY <1>6, <2>4 DEF Settled, Outstanding, SameQueue
  <2>7. PcbInv(q)
    BY <2>5, <2>6, SyncLands
  <2>8. PICK w : w = Work(q, 0)
    OBVIOUS
  <2>9. w \in WorkType /\ w.p = q
    BY <2>4, <2>8, WorkFacts
  <2>10. Commit(e, w)
    BY <1>6, <2>3, <2>8
  <2>11. Lands(e, q)
    BY <2>7, <2>9, <2>10, CommitFacts DEF Lands
  <2>12. Len(q.buf) <= Len(pcb[e].buf)
    BY <1>1, <1>2, <2>4 DEF SameQueue
  <2> QED
    BY <1>4, <1>6, <2>11, <2>12, QuietStepKept DEF IInv
<1>7. CASE Outstanding(p) /\ Release(e, Work(p, 0), "error") /\ left' = left
  BY <1>1, <1>4, <1>7, NoWork, ReleaseStep
<1>8. CASE /\ p.retries + 1 <= MaxRetries /\ UNCHANGED outcome
           /\ \E room \in Room : Driver(room, Resent(p, room), 1) /\ Commit(e, Resent(p, room))
  <2>1. PICK room, d : room \in Room /\ d = Resent(p, room) /\ Driver(room, d, 1) /\ Commit(e, d)
    BY <1>8
  <2>2. d \in WorkType /\ PcbInv(d.p) /\ d.p.buf = p.buf
    BY <1>2, <1>3, <1>8, <2>1, RoomFacts, ResentFacts
  <2>3. Lands(e, d.p)
    BY <2>1, <2>2, CommitFacts DEF Lands
  <2>4. Spent(0)
    BY <2>1, <2>2, DriverFacts
  <2>5. Len(d.p.buf) <= Len(pcb[e].buf)
    BY <1>1, <1>2, <2>2
  <2> QED
    BY <1>4, <1>8, <2>3, <2>4, <2>5, QuietStepKept DEF IInv
<1> QED
  BY <1>5, <1>6, <1>7, <1>8
-----------------------------------------------------------------------------
LEMMA InitOK ==
  Init => IInv
<1> SUFFICES ASSUME Init PROVE IInv
  OBVIOUS
<1>1. pcb = [e \in End |-> FreeSlot] /\ net = [e \in End |-> {}] /\ left \in Budgets
      /\ opened = [e \in End |-> 0] /\ written = [e \in End |-> 0] /\ outcome = [e \in End |-> "none"]
  BY DEF Init
<1>2. pcb \in [End -> Pcb] /\ \A e \in End : PcbInv(pcb[e]) /\ pcb[e].buf = <<>>
  BY <1>1, FreeFacts
<1>3. left \in Budget
  BY <1>1, SizeAssumption DEF Budget
<1>4. ASSUME NEW e \in End
      PROVE  /\ opened[e] + left.conns <= Len(Isn[e])
             /\ Len(pcb[e].buf) <= written[e] /\ written[e] <= MaxBytes[e]
  <2>1. left.conns <= Len(Isn[e]) /\ left.conns \in Nat
    BY <1>1, <1>3, IsnAssumption DEF Budget
  <2>2. MaxBytes[e] \in Nat
    BY BytesAssumption
  <2> QED
    BY <1>1, <1>2, <2>1, <2>2
<1>5. Bounded
  BY <1>1, <1>3, <1>4 DEF Bounded
<1>6. net \in [End -> SUBSET Segments] /\ outcome \in [End -> {"none", "ok", "error", "aborted", "unopened"}]
  BY <1>1
<1> QED
  BY <1>2, <1>5, <1>6 DEF IInv

LEMMA StepOK ==
  IInv /\ [Next]_vars => IInv'
<1> SUFFICES ASSUME IInv, [Next]_vars PROVE IInv'
  OBVIOUS
<1>1. CASE UNCHANGED vars
  BY <1>1 DEF vars, hist, bounds, IInv, Bounded
<1>2. ASSUME NEW e \in End, Connect(e) PROVE IInv'
  BY <1>2, ConnectKept
<1>3. ASSUME NEW e \in End, Close(e) PROVE IInv'
  BY <1>3, CloseKept
<1>4. ASSUME NEW e \in End, Abort(e) PROVE IInv'
  BY <1>4, AbortKept
<1>5. ASSUME NEW e \in End, NEW n \in 1 .. MaxBytes[e], Write(e, n) PROVE IInv'
  BY <1>5, WriteKept
<1>6. ASSUME NEW e \in End, NEW s \in net[e], RecvSyn(e, s) PROVE IInv'
  BY <1>6, RecvSynKept
<1>7. ASSUME NEW e \in End, NEW s \in net[e], RecvRst(e, s) PROVE IInv'
  BY <1>7, RecvRstKept
<1>8. ASSUME NEW e \in End, NEW s \in net[e], RecvSynSent(e, s) PROVE IInv'
  BY <1>8, RecvSynSentKept
<1>9. ASSUME NEW e \in End, NEW s \in net[e], RecvSynAgain(e, s) PROVE IInv'
  BY <1>9, RecvSynAgainKept
<1>10. ASSUME NEW e \in End, NEW s \in net[e], RecvSegment(e, s) PROVE IInv'
  BY <1>10, RecvSegmentKept
<1>11. ASSUME NEW e \in End, TxRetry(e) PROVE IInv'
  BY <1>11, TxRetryKept
<1>12. ASSUME NEW e \in End, Timeout(e) PROVE IInv'
  BY <1>12, TimeoutKept
<1>13. ASSUME NEW e \in End, Expire(e) PROVE IInv'
  BY <1>13, ExpireKept
<1> QED
  BY <1>1, <1>2, <1>3, <1>4, <1>5, <1>6, <1>7, <1>8, <1>9, <1>10, <1>11, <1>12, <1>13 DEF Next, Receive

(* The invariant holds in every reachable state: PCBs are well formed and     *)
(* what they keep agrees with their state, between any two calls of tcp.c.    *)
THEOREM Invariance == Spec => []IInv
<1>1. Init => IInv
  BY InitOK
<1>2. IInv /\ [Next]_vars => IInv'
  BY StepOK
<1> QED
  BY <1>1, <1>2, PTL DEF Spec

(* The types hold: above all, no call of tcp_write, tcp_output or tcp_on_rto  *)
(* takes the send buffer, the congestion window, the retries or the count of  *)
(* refusals past its limit.                                                   *)
THEOREM TypeCorrect == Spec => []TypeOK
<1>1. IInv => TypeOK
  <2> SUFFICES ASSUME IInv PROVE TypeOK
    OBVIOUS
  <2>1. ASSUME NEW e \in End PROVE Len(pcb[e].buf) <= MaxCwnd
    <3>1. PcbInv(pcb[e]) /\ pcb[e] \in Pcb
      BY DEF IInv
    <3>2. CASE pcb[e].state \in Opening \cup {"CLOSED"}
      <4>1. pcb[e].buf = <<>>
        BY <3>1, <3>2, FreeFacts DEF PcbInv, OpeningInv
      <4> QED
        BY <4>1, SizeFacts
    <3>3. CASE pcb[e].state \notin Opening \cup {"CLOSED"}
      BY <3>1, <3>3 DEF PcbInv, Sync, Small
    <3> QED
      BY <3>2, <3>3
  <2> QED
    BY <2>1 DEF IInv, TypeOK
<1> QED
  BY <1>1, Invariance, PTL

(* Whatever is sent and not acknowledged, or still to be sent, has a timer    *)
(* running for it between handlers: no order of acknowledgments, refusals of  *)
(* the driver, retries and calls leaves a connection waiting for nothing.     *)
THEOREM Timed == Spec => []OutstandingIsTimed
<1>1. IInv => OutstandingIsTimed
  <2> SUFFICES ASSUME IInv, NEW e \in End, InUse(pcb[e]), Outstanding(pcb[e]) PROVE pcb[e].timer # "off"
    BY DEF OutstandingIsTimed
  <2>1. PcbInv(pcb[e]) /\ pcb[e].state # "CLOSED"
    BY DEF IInv, InUse
  <2>2. CASE pcb[e].state \in Opening
    BY <2>1, <2>2 DEF PcbInv, OpeningInv
  <2>3. CASE pcb[e].state \notin Opening
    BY <2>1, <2>3 DEF PcbInv, Settled
  <2> QED
    BY <2>2, <2>3
<1> QED
  BY <1>1, Invariance, PTL

(* snd_una, snd_nxt and snd_max keep their order, across the wrap, and stay   *)
(* inside the send buffer and its FIN: every byte sent can be sent again.     *)
THEOREM Ordered == Spec => []SendSpaceOrdered
<1>1. IInv => SendSpaceOrdered
  <2> SUFFICES ASSUME IInv PROVE SendSpaceOrdered
    OBVIOUS
  <2>1. ASSUME NEW e \in End
        PROVE  LET p   == pcb[e]
                   syn == IF p.state \in {"SYN_SENT", "SYN_RECEIVED"} THEN 1 ELSE 0
                   fin == IF p.fin_queued THEN 1 ELSE 0
               IN /\ SeqDist(p.nxt, p.una) <= SeqDist(p.max, p.una)
                  /\ SeqDist(p.max, p.una) <= Len(p.buf) + syn + fin
                  /\ p.fin_sent => p.fin_queued /\ p.nxt = p.max
    <3>1. PICK p : p = pcb[e]
      OBVIOUS
    <3>2. p \in Pcb /\ PcbInv(p)
      BY <3>1 DEF IInv
    <3>3. /\ p.fin_queued \in BOOLEAN /\ p.fin_sent \in BOOLEAN /\ p.una \in SeqNum
          /\ Ahead(p) \in Nat /\ Span(p) \in Nat /\ Len(p.buf) \in Nat /\ FinLen(p) \in {0, 1}
      BY <3>2, PcbFields
    <3>4. FinLen(p) = IF p.fin_queued THEN 1 ELSE 0
      BY <3>3 DEF FinLen
    <3>s. PICK syn \in {0, 1} : syn = IF p.state \in {"SYN_SENT", "SYN_RECEIVED"} THEN 1 ELSE 0
      OBVIOUS
    <3>n. Ahead(p) \in Nat /\ Span(p) \in Nat /\ Len(p.buf) \in Nat /\ FinLen(p) \in Nat /\ syn \in Nat
      BY <3>3, <3>s
    <3> DEFINE Goal == /\ Ahead(p) <= Span(p) /\ Span(p) <= Len(p.buf) + syn + FinLen(p)
                       /\ p.fin_sent = TRUE => p.fin_queued = TRUE /\ p.nxt = p.max
    <3>5. ASSUME p.state = "CLOSED" PROVE Goal
      <4>1. p.una = 0 /\ p.nxt = 0 /\ p.max = 0 /\ p.fin_sent = FALSE
        BY <3>2, <3>5 DEF PcbInv, FreeSlot, Claimed
      <4>2. Ahead(p) = 0 /\ Span(p) = 0
        BY <3>3, <4>1, SelfDist DEF Ahead, Span
      <4>3. p.fin_sent = TRUE => p.fin_queued = TRUE /\ p.nxt = p.max
        BY <4>1
      <4>4. Ahead(p) <= Span(p) /\ Span(p) <= Len(p.buf) + syn + FinLen(p)
        BY <3>n, <4>2
      <4> QED
        BY <4>3, <4>4
    <3>6. ASSUME p.state \in Opening PROVE Goal
      <4>1. OpeningInv(p)
        BY <3>2, <3>6 DEF PcbInv
      <4>2. SeqDist(p.una, p.una) + 1 < Half
        BY <3>3, SelfDist, SeqModFacts
      <4>3. Span(p) = 1 /\ Ahead(p) = Span(p)
        <5>1. SeqDist(Plus(p.una, 1), p.una) = SeqDist(p.una, p.una) + 1
          BY <3>3, <4>2, AdvanceFacts
        <5> QED
          BY <3>3, <4>1, <5>1, SelfDist DEF OpeningInv, Span, Ahead
      <4> QED
        BY <3>3, <3>6, <3>s, <4>1, <4>3 DEF OpeningInv, Opening
    <3>7. ASSUME p.state \notin Opening \cup {"CLOSED"} PROVE Goal
      <4>1. Sync(p)
        BY <3>2, <3>7 DEF PcbInv
      <4>2. /\ Ahead(p) <= Span(p) /\ Span(p) <= Len(p.buf) + FinLen(p)
            /\ p.fin_sent = TRUE => p.fin_queued = TRUE /\ p.nxt = p.max
        BY <4>1 DEF Sync, SpaceInv, FinInv
      <4> QED
        <5>1. Span(p) <= Len(p.buf) + syn + FinLen(p)
          BY <3>n, <4>2
        <5> QED
          BY <4>2, <5>1
    <3>8. Goal
      BY <3>5, <3>6, <3>7
    <3> HIDE DEF Goal
    <3>9. /\ SeqDist(p.nxt, p.una) <= SeqDist(p.max, p.una)
          /\ SeqDist(p.max, p.una) <= Len(p.buf) + syn + FinLen(p)
          /\ p.fin_sent = TRUE => p.fin_queued = TRUE /\ p.nxt = p.max
      BY <3>8 DEF Goal, Ahead, Span
    <3> QED
      BY <3>1, <3>3, <3>4, <3>9, <3>s
  <2> QED
    BY <2>1 DEF SendSpaceOrdered
<1> QED
  BY <1>1, Invariance, PTL
-----------------------------------------------------------------------------
(* The two streams of a connection.  The numbers of one connection's bytes    *)
(* count from its ISN; half the sequence space holds them all.                *)

(* Fewer than half the numbers ahead, the distance is the number of steps.    *)
LEMMA PlusDist ==
  ASSUME NEW a \in SeqNum, NEW n \in Nat, n < Half
  PROVE  Plus(a, n) \in SeqNum /\ SeqDist(Plus(a, n), a) = n
<1>1. SeqDist(a, a) = 0
  BY SelfDist
<1>2. Plus(a, n) \in SeqNum /\ SeqDist(Plus(a, n), a) = SeqDist(a, a) + n
  BY <1>1, AdvanceFacts
<1> QED
  BY <1>1, <1>2

(* A number is its distance from another one, added to that.                  *)
LEMMA DistPlus ==
  ASSUME NEW a \in SeqNum, NEW b \in SeqNum
  PROVE  Plus(b, SeqDist(a, b)) = a
<1>1. PICK d \in SeqNum : d = SeqDist(a, b)
  BY DistCases
<1>2. d = IF a >= b THEN a - b ELSE a - b + SeqMod
  BY <1>1, DistCases
<1>3. d \in Nat /\ d < SeqMod
  BY SeqModFacts DEF SeqNum
<1>4. Plus(b, d) = IF b + d < SeqMod THEN b + d ELSE b + d - SeqMod
  BY <1>3, PlusCases
<1> QED
  BY <1>1, <1>2, <1>4, SeqModFacts DEF SeqNum

(* Two advances in a row.                                                     *)
LEMMA PlusPlus ==
  ASSUME NEW a \in SeqNum, NEW m \in Nat, NEW n \in Nat, m + n < Half
  PROVE  Plus(Plus(a, m), n) = Plus(a, m + n)
<1>1. m < SeqMod /\ n < SeqMod /\ m + n < SeqMod /\ m + n \in Nat
  BY SeqModFacts
<1>2. PICK x \in SeqNum : x = Plus(a, m) /\ x = IF a + m < SeqMod THEN a + m ELSE a + m - SeqMod
  BY <1>1, PlusCases
<1>3. Plus(x, n) = IF x + n < SeqMod THEN x + n ELSE x + n - SeqMod
  BY <1>1, PlusCases
<1>4. Plus(a, m + n) = IF a + (m + n) < SeqMod THEN a + (m + n) ELSE a + (m + n) - SeqMod
  BY <1>1, PlusCases
<1> QED
  BY <1>1, <1>2, <1>3, <1>4, SeqModFacts DEF SeqNum

(* No advance.                                                                *)
LEMMA PlusNone ==
  ASSUME NEW a \in SeqNum
  PROVE  Plus(a, 0) = a
<1>1. 0 < SeqMod /\ a + 0 < SeqMod /\ a + 0 = a
  BY SeqModFacts DEF SeqNum
<1> QED
  BY <1>1, PlusCases

(* Counted from one number, the modular order is that of the naturals.        *)
LEMMA PlusOrder ==
  ASSUME NEW a \in SeqNum, NEW m \in Nat, NEW n \in Nat, m < Half, n < Half
  PROVE  /\ Plus(a, m) = Plus(a, n) => m = n
         /\ SeqLt(Plus(a, m), Plus(a, n)) <=> m < n
         /\ m >= n => SeqDist(Plus(a, m), Plus(a, n)) = m - n
<1>1. PICK x \in SeqNum, y \in SeqNum : x = Plus(a, m) /\ y = Plus(a, n)
  BY PlusDist
<1>2. SeqDist(x, a) = m /\ SeqDist(y, a) = n
  BY <1>1, PlusDist
<1>3. /\ SeqLt(x, y) <=> SeqDist(x, a) < SeqDist(y, a)
      /\ x = y <=> SeqDist(x, a) = SeqDist(y, a)
      /\ SeqDist(x, a) >= SeqDist(y, a) => SeqDist(x, y) = SeqDist(x, a) - SeqDist(y, a)
  BY <1>2, OrderFacts
<1> QED
  BY <1>1, <1>2, <1>3
-----------------------------------------------------------------------------
(* What one side of a connection sends: the number of the stream's first      *)
(* byte, how much its application wrote, how much the peer's took, and        *)
(* whether no byte can follow.                                                *)
Streams == [base : SeqNum, written : Nat, read : Nat, final : BOOLEAN]

Sane(t) == t \in Streams /\ t.read <= t.written /\ t.written + 2 < Half

(* The first a bytes, the FIN among them, may count as acknowledged.          *)
AckOK(t, a) == a \in Nat /\ (a <= t.read \/ (a = t.read + 1 /\ t.final = TRUE /\ t.read = t.written))

AckNum(t, n) == \E a \in Nat : AckOK(t, a) /\ n = Plus(t.base, a)

(* The send buffer holds the stream from behind its first n bytes.            *)
Holds(t, p, n) ==
  /\ p.una = Plus(t.base, n) /\ AckOK(t, n)
  /\ FinDone(p) => n = t.written + 1
  /\ ~FinDone(p) => n + Len(p.buf) = t.written
  /\ \A i \in 1 .. Len(p.buf) : p.buf[i] = n + i

SendOK(t, p) == \E n \in Nat : Holds(t, p, n)

(* The next number expected is that of the first byte not taken yet, or the   *)
(* one behind the FIN.                                                        *)
RecvOK(t, p) ==
  \/ CanTakeData(p.state) /\ p.rcv = Plus(t.base, t.read)
  \/ ~CanTakeData(p.state) /\ p.rcv = Plus(t.base, t.read + 1) /\ t.final = TRUE /\ t.read = t.written

(* The segment's data and FIN are the stream's, from behind its first n bytes. *)
Cut(t, s, n) ==
  /\ s.seq = Plus(t.base, n) /\ n + Len(s.data) <= t.written
  /\ \A i \in 1 .. Len(s.data) : s.data[i] = n + i
  /\ "FIN" \in s.flags => n + Len(s.data) = t.written /\ t.final = TRUE

(* A segment of stream t that acknowledges stream u.                          *)
DataOK(t, u, s) ==
  /\ "SYN" \notin s.flags /\ "ACK" \in s.flags /\ AckNum(u, s.ack)
  /\ Carries(s) => \E n \in Nat : Cut(t, s, n)

(* How a stream goes on.                                                      *)
Grows(t, u) ==
  /\ u.base = t.base /\ t.read <= u.read /\ t.written <= u.written
  /\ t.final = TRUE => u.final = TRUE /\ u.written = t.written

(* What counts as acknowledged does so as the stream goes on.                 *)
LEMMA AckKept ==
  ASSUME NEW t, Sane(t), NEW u, Sane(u), Grows(t, u), NEW a, AckOK(t, a)
  PROVE  AckOK(u, a)
  BY DEF Sane, Streams, Grows, AckOK

(* An acknowledgment names at most the number behind the FIN.                 *)
LEMMA AckBound ==
  ASSUME NEW t, Sane(t), NEW a, AckOK(t, a)
  PROVE  a \in Nat /\ a <= t.written + 1 /\ a < Half /\ t.base \in SeqNum /\ Plus(t.base, a) \in SeqNum
<1>1. a \in Nat /\ a <= t.written + 1 /\ a < Half /\ t.base \in SeqNum
  BY SeqModFacts DEF Sane, Streams, AckOK
<1> QED
  BY <1>1, PlusDist

(* A segment in flight stays a segment of its streams as they go on.          *)
LEMMA DataKept ==
  ASSUME NEW t, Sane(t), NEW tt, Sane(tt), Grows(t, tt), NEW u, Sane(u), NEW uu, Sane(uu), Grows(u, uu),
         NEW s \in Segments, DataOK(t, u, s)
  PROVE  DataOK(tt, uu, s)
<1>1. AckNum(uu, s.ack)
  <2>1. PICK a \in Nat : AckOK(u, a) /\ s.ack = Plus(u.base, a)
    BY DEF DataOK, AckNum
  <2>2. AckOK(uu, a) /\ uu.base = u.base
    BY <2>1, AckKept DEF Grows
  <2> QED
    BY <2>1, <2>2 DEF AckNum
<1>2. ASSUME Carries(s) PROVE \E n \in Nat : Cut(tt, s, n)
  <2>1. PICK n \in Nat : Cut(t, s, n)
    BY <1>2 DEF DataOK
  <2>2. Len(s.data) \in Nat /\ t.written \in Nat /\ tt.written \in Nat
    BY DEF Segments, Sane, Streams
  <2>3. n + Len(s.data) <= tt.written
    BY <2>1, <2>2 DEF Cut, Grows
  <2>4. "FIN" \in s.flags => n + Len(s.data) = tt.written /\ tt.final = TRUE
    BY <2>1 DEF Cut, Grows
  <2> QED
    BY <2>1, <2>3, <2>4 DEF Cut, Grows
<1> QED
  BY <1>1, <1>2 DEF DataOK
-----------------------------------------------------------------------------
(* What tcp_output sends is a piece of the send buffer, or its FIN.           *)

(* A piece of a sequence.                                                     *)
LEMMA PieceFacts ==
  ASSUME NEW q \in Seq(Nat), NEW a \in Nat, NEW n \in Nat, a + n <= Len(q)
  PROVE  /\ SubSeq(q, a + 1, a + n) \in Seq(Nat) /\ Len(SubSeq(q, a + 1, a + n)) = n
         /\ \A i \in 1 .. n : SubSeq(q, a + 1, a + n)[i] = q[a + i]
<1>1. PICK x \in Int, y \in Int : x = a + 1 /\ y = a + n
  OBVIOUS
<1>2. Len(q) \in Nat
  OBVIOUS
<1>3. ASSUME NEW i \in x .. y PROVE q[i] \in Nat
  <2>1. i \in 1 .. Len(q)
    BY <1>1, <1>2
  <2> QED
    BY <2>1
<1>4. y - x + 1 = n /\ (x <= y <=> n > 0)
  BY <1>1
<1> DEFINE d == SubSeq(q, x, y)
<1>5. /\ d \in Seq(Nat) /\ Len(d) = IF x <= y THEN y - x + 1 ELSE 0
      /\ \A i \in 1 .. y - x + 1 : d[i] = q[x + i - 1]
  BY <1>3, SubSeqProperties
<1> HIDE DEF d
<1>6. Len(d) = n
  BY <1>4, <1>5
<1>7. ASSUME NEW i \in 1 .. n PROVE d[i] = q[a + i]
  <2>1. d[i] = q[x + i - 1] /\ x + i - 1 = a + i
    BY <1>1, <1>4, <1>5
  <2> QED
    BY <2>1
<1> QED
  BY <1>1, <1>5, <1>6, <1>7 DEF d

\* the segment's data is the buffer's behind its first n bytes, with the FIN only at its end
Piece(p, s, n) ==
  /\ s.seq = Plus(p.una, n) /\ n + Len(s.data) <= Len(p.buf)
  /\ \A i \in 1 .. Len(s.data) : s.data[i] = p.buf[n + i]
  /\ "FIN" \in s.flags => p.fin_queued = TRUE /\ n + Len(s.data) = Len(p.buf)

FromBuf(p, s) ==
  /\ s.flags \in {{"ACK"}, {"ACK", "FIN"}} /\ s.ack = p.rcv
  /\ ~FinDone(p) /\ \E n \in Nat : Piece(p, s, n)

(* From c to d, segments of the buffer are sent and the FIN does not become   *)
(* acknowledged.                                                              *)
SendsBuf(c, d) ==
  /\ \A s \in d.sent : s \in c.sent \/ FromBuf(c.p, s)
  /\ FinDone(d.p) <=> FinDone(c.p)

(* The same queue, acknowledged as far, makes the same segments.              *)
LEMMA FromBufKept ==
  ASSUME NEW p, NEW q, SameQueue(q, p), FinDone(q) <=> FinDone(p), NEW s, FromBuf(q, s)
  PROVE  FromBuf(p, s)
<1>1. PICK n \in Nat : Piece(q, s, n)
  BY DEF FromBuf
<1>2. Piece(p, s, n)
  BY <1>1 DEF Piece, SameQueue
<1> QED
  BY <1>2 DEF FromBuf, SameQueue

(* The timer has no part in the FIN.                                          *)
LEMMA ArmDone ==
  ASSUME NEW p \in Pcb
  PROVE  /\ FinDone(ArmIfOff(p)) <=> FinDone(p)
         /\ FinDone(Arm(p)) <=> FinDone(p)
<1>1. /\ Arm(p).max = p.max /\ Arm(p).fin_sent = p.fin_sent /\ Arm(p).una = p.una
      /\ ArmIfOff(p) \in {p, Arm(p)}
  BY ArmFacts DEF SameQueue
<1> QED
  BY <1>1 DEF FinDone

(* tcp_send_segment cuts its segment out of the send buffer.                  *)
LEMMA EmitSends ==
  ASSUME NEW c \in WorkType, Sync(c.p), c.p.fin_sent = FALSE, NEW n \in Nat, NEW fin \in BOOLEAN,
         fin = TRUE <=> (c.p.fin_queued = TRUE /\ Ahead(c.p) + n = Len(c.p.buf)),
         Ahead(c.p) + n <= Len(c.p.buf)
  PROVE  SendsBuf(c, Emit(c, Ahead(c.p), n, fin))
<1> DEFINE p       == c.p
           sent    == Ahead(c.p)
           flags   == {"ACK"} \cup (IF fin THEN {"FIN"} ELSE {})
           data    == SubSeq(c.p.buf, sent + 1, sent + n)
           tried   == Send(c, flags, c.p.nxt, data)
           refused == IF Accepted(c) THEN 0 ELSE c.p.blocked
           counted == IF Accepted(c) \/ refused >= MaxBlocked THEN 0 ELSE c.p.blocked
           k       == n + (IF fin THEN 1 ELSE 0)
           moved   == [tried.p EXCEPT !.nxt = Plus(@, k), !.fin_sent = fin, !.blocked = counted]
           d       == Emit(c, sent, n, fin)
<1>1. d = IF ~Accepted(c) /\ refused < MaxBlocked
          THEN [tried EXCEPT !.p = Block(@)]
          ELSE [tried EXCEPT !.p = ArmIfOff(NoteSent(moved))]
  BY DEF Emit
<1>2. p \in Pcb
  BY DEF Sync
<1>3. /\ p.una \in SeqNum /\ p.nxt \in SeqNum /\ p.buf \in Seq(Nat) /\ sent \in Nat /\ Len(p.buf) \in Nat
      /\ p.max \in SeqNum /\ p.blocked \in 0 .. MaxBlocked /\ p.rcv \in SeqNum
  BY <1>2, PcbFields
<1>4. data \in Seq(Nat) /\ Len(data) = n /\ \A i \in 1 .. n : data[i] = p.buf[sent + i]
  BY <1>3, PieceFacts
<1>5. flags \in SUBSET {"SYN", "ACK", "FIN", "RST"} /\ "ACK" \in flags /\ flags \in {{"ACK"}, {"ACK", "FIN"}}
      /\ ("FIN" \in flags <=> fin = TRUE)
  OBVIOUS
<1> HIDE DEF data, flags
<1>6. tried \in WorkType /\ tried.p = p
  BY <1>3, <1>4, <1>5, SendFacts
<1>7. \A s \in tried.sent :
        s \in c.sent \/ (s.flags = flags /\ s.seq = p.nxt /\ s.ack = p.rcv /\ s.data = data)
  BY <1>5, SendSent
<1>8. p.nxt = Plus(p.una, sent)
  BY <1>3, DistPlus DEF Ahead
<1>9. ~FinDone(p)
  BY DEF FinDone
<1>10. d.sent = tried.sent
  BY <1>1, <1>6 DEF WorkType
<1> HIDE DEF tried, d
<1>11. ASSUME NEW s \in d.sent PROVE s \in c.sent \/ FromBuf(p, s)
  <2>1. CASE s.flags = flags /\ s.seq = p.nxt /\ s.ack = p.rcv /\ s.data = data
    <3>1. Piece(p, s, sent)
      BY <1>3, <1>4, <1>5, <1>8, <2>1 DEF Piece
    <3> QED
      BY <1>3, <1>5, <1>9, <2>1, <3>1 DEF FromBuf
  <2> QED
    BY <1>7, <1>10, <2>1
<1>12. ~FinDone(d.p)
  <2>1. CASE ~Accepted(c) /\ refused < MaxBlocked
    <3>1. d.p = Block(p)
      BY <1>1, <1>6, <2>1 DEF WorkType
    <3>2. Block(p).fin_sent = FALSE
      BY <1>2 DEF Block, Pcb
    <3> QED
      BY <3>1, <3>2 DEF FinDone
  <2>2. CASE ~(~Accepted(c) /\ refused < MaxBlocked)
    <3>1. d.p = ArmIfOff(NoteSent(moved))
      BY <1>1, <1>6, <2>2 DEF WorkType
    <3>2. moved = Moved(p, k, fin, counted) /\ counted \in 0 .. MaxBlocked
      BY <1>3, <1>6, SizeFacts DEF Moved
    <3>3. k \in Nat /\ k = n + (IF fin = TRUE THEN 1 ELSE 0)
      OBVIOUS
    <3> HIDE DEF k, counted, moved
    <3>4. Sync(NoteSent(Moved(p, k, fin, counted)))
      BY <3>2, <3>3, NotedFacts
    <3>5. PICK q : q = NoteSent(moved)
      OBVIOUS
    <3>6. q \in Pcb /\ Sync(q) /\ d.p = ArmIfOff(q)
      BY <3>1, <3>2, <3>4, <3>5 DEF Sync
    <3>7. q.nxt = Plus(p.nxt, k) /\ q.fin_sent = fin /\ q.una = p.una
      BY <1>2, <3>2, <3>5 DEF NoteSent, Moved, Pcb
    <3>8. ASSUME FinDone(q) PROVE FALSE
      <4>1. fin = TRUE /\ q.nxt = p.una
        BY <3>6, <3>7, <3>8 DEF Sync, SpaceInv, FinDone
      <4>2. k >= 1 /\ sent + k <= Len(p.buf) + 1 /\ Len(p.buf) + 2 < Half
        BY <1>3, <3>3, <4>1 DEF Sync, Small
      <4>3. sent + k < Half /\ sent + k > 0 /\ sent + k \in Nat /\ 0 < Half
        BY <1>3, <3>3, <4>2, SeqModFacts
      <4>4. q.nxt = Plus(p.una, sent + k)
        BY <1>3, <1>8, <3>3, <3>7, <4>3, PlusPlus
      <4>5. Plus(p.una, 0) = p.una
        BY <1>3, PlusNone
      <4>6. sent + k = 0
        BY <1>3, <4>1, <4>3, <4>4, <4>5, PlusOrder
      <4> QED
        BY <4>3, <4>6
    <3> QED
      BY <3>6, <3>8, ArmDone
  <2> QED
    BY <2>1, <2>2
<1> QED
  BY <1>9, <1>11, <1>12 DEF SendsBuf, d

(* So does every turn of the loop of tcp_output.                              *)
LEMMA TurnSends ==
  ASSUME NEW c \in WorkType, Sync(c.p), NEW probe \in BOOLEAN
  PROVE  SendsBuf(c, Turn(c, probe))
<1> DEFINE p == c.p
           sent == Ahead(p)
           limit == Limit(p, probe, sent)
           n == Smaller(Smaller(Len(p.buf) - sent, Mss), limit - sent)
           fin == p.fin_queued /\ sent + n = Len(p.buf)
           d == Turn(c, probe)
<1>1. d = IF ~CanSendData(p.state) \/ p.fin_sent \/ p.tx_blocked THEN c
          ELSE IF sent < Len(p.buf)
               THEN IF sent >= limit THEN [c EXCEPT !.p = ArmIfOff(@)] ELSE Emit(c, sent, n, fin)
               ELSE IF sent = Len(p.buf) /\ p.fin_queued THEN Emit(c, sent, 0, TRUE) ELSE c
  BY DEF Turn, Ahead
<1>2. p \in Pcb
  BY DEF Sync
<1>3. /\ p.wnd \in Nat /\ p.cwnd \in Nat /\ sent \in Nat /\ Len(p.buf) \in Nat
      /\ p.fin_sent \in BOOLEAN /\ p.tx_blocked \in BOOLEAN /\ p.fin_queued \in BOOLEAN
  BY <1>2, PcbFields
<1>4. limit \in Nat
  BY <1>3 DEF Limit, Smaller
<1>5. SendsBuf(c, c)
  BY DEF SendsBuf
<1>6. ASSUME sent < Len(p.buf), ~(sent >= limit), p.fin_sent = FALSE PROVE SendsBuf(c, Emit(c, sent, n, fin))
  <2>1. n \in Nat /\ sent + n <= Len(p.buf)
    BY SMTT(30), <1>3, <1>4, <1>6, SizeFacts DEF Smaller
  <2>2. fin \in BOOLEAN /\ (fin = TRUE <=> (p.fin_queued = TRUE /\ sent + n = Len(p.buf)))
    BY <1>3
  <2> HIDE DEF n, fin
  <2> QED
    BY <1>6, <2>1, <2>2, EmitSends
<1>7. ASSUME sent = Len(p.buf), p.fin_queued = TRUE, p.fin_sent = FALSE PROVE SendsBuf(c, Emit(c, sent, 0, TRUE))
  <2>1. PICK m, f : m = 0 /\ f = TRUE
    OBVIOUS
  <2>2. m \in Nat /\ f \in BOOLEAN /\ sent + m <= Len(p.buf)
        /\ (f = TRUE <=> (p.fin_queued = TRUE /\ sent + m = Len(p.buf)))
    BY <1>3, <1>7, <2>1
  <2>3. SendsBuf(c, Emit(c, sent, m, f))
    BY <1>7, <2>2, EmitSends
  <2> QED
    BY <2>1, <2>3
<1>8. SendsBuf(c, [c EXCEPT !.p = ArmIfOff(@)])
  <2>1. PICK x : x = [c EXCEPT !.p = ArmIfOff(@)]
    OBVIOUS
  <2>2. x.p = ArmIfOff(p) /\ x.sent = c.sent
    BY <2>1 DEF WorkType
  <2> QED
    BY <1>2, <2>1, <2>2, ArmDone DEF SendsBuf
<1> HIDE DEF n, fin, limit, d
<1> QED
  BY <1>1, <1>3, <1>5, <1>6, <1>7, <1>8 DEF d

(* And so does tcp_output as a whole.                                         *)
LEMMA OutputSends ==
  ASSUME NEW c \in WorkType, Sync(c.p), NEW probe \in BOOLEAN
  PROVE  SendsBuf(c, Output(c, probe))
<1> DEFINE turn == Turns(c, probe)
           k == Len(c.p.buf) + 1
           Good(d) == d \in WorkType /\ Sync(d.p) /\ SameQueue(d.p, c.p) /\ SendsBuf(c, d)
           P == {i \in Nat : i <= k => Good(turn[i])}
<1>1. Len(c.p.buf) \in Nat
  BY PcbFields DEF Sync
<1>2. turn[0] = c /\ \A i \in 1 .. k : turn[i] = Turn(turn[i - 1], probe)
  BY <1>1, TurnsFacts
<1> HIDE DEF turn
<1>3. 0 \in P
  BY <1>2 DEF SameQueue, SendsBuf
<1>4. ASSUME NEW i \in Nat, i \in P, i + 1 <= k PROVE i + 1 \in P
  <2>1. PICK b, d : b = turn[i] /\ d = turn[i + 1]
    OBVIOUS
  <2>2. Good(b)
    BY <1>1, <1>4, <2>1
  <2>3. d = Turn(b, probe)
    BY <1>1, <1>2, <1>4, <2>1
  <2>4. d \in WorkType /\ Sync(d.p) /\ SameQueue(d.p, b.p)
    BY <2>2, <2>3, TurnFacts
  <2>5. SendsBuf(b, d)
    BY <2>2, <2>3, TurnSends
  <2>6. ASSUME NEW s \in d.sent PROVE s \in c.sent \/ FromBuf(c.p, s)
    BY <2>2, <2>5, FromBufKept DEF SendsBuf
  <2>7. SendsBuf(c, d)
    BY <2>2, <2>5, <2>6 DEF SendsBuf
  <2>8. Good(d)
    BY <2>2, <2>4, <2>7 DEF SameQueue
  <2> QED
    BY <2>1, <2>8
<1>5. ASSUME NEW i \in Nat, i \in P PROVE i + 1 \in P
  BY <1>1, <1>4, <1>5
<1>6. k \in P
  <2> HIDE DEF P
  <2>1. Nat \subseteq P
    BY <1>3, <1>5, Induction
  <2> QED
    BY <1>1, <2>1
<1>7. Good(turn[k])
  BY <1>1, <1>6
<1> QED
  BY <1>7 DEF Output, turn
-----------------------------------------------------------------------------
(* What a handler does to the two streams. *)

(* Only the queue counts for what is sent.                                    *)
LEMMA SendSame ==
  ASSUME NEW t, NEW p, SendOK(t, p), NEW q, q.una = p.una, q.buf = p.buf, FinDone(q) <=> FinDone(p)
  PROVE  SendOK(t, q)
<1>1. PICK n \in Nat : Holds(t, p, n)
  BY DEF SendOK
<1>2. Holds(t, q, n)
  BY <1>1 DEF Holds
<1> QED
  BY <1>2 DEF SendOK

(* The send buffer stays right while the peer reads on.                       *)
LEMMA SendKept ==
  ASSUME NEW t, Sane(t), NEW u, Sane(u), Grows(t, u), u.written = t.written, NEW p, SendOK(t, p)
  PROVE  SendOK(u, p)
<1>1. PICK n \in Nat : Holds(t, p, n)
  BY DEF SendOK
<1>2. AckOK(t, n) /\ u.base = t.base
  BY <1>1 DEF Holds, Grows
<1>3. AckOK(u, n)
  BY <1>2, AckKept
<1>4. Holds(u, p, n)
  BY <1>1, <1>2, <1>3 DEF Holds
<1> QED
  BY <1>4 DEF SendOK

(* An acknowledged FIN was taken, and so was all before it.                   *)
LEMMA DoneRead ==
  ASSUME NEW t, Sane(t), NEW p, SendOK(t, p), FinDone(p)
  PROVE  t.read = t.written
<1>1. PICK n \in Nat : AckOK(t, n) /\ n = t.written + 1
  BY DEF SendOK, Holds
<1>2. t.read \in Nat /\ t.written \in Nat /\ t.read <= t.written
  BY DEF Sane, Streams
<1> QED
  BY <1>1, <1>2 DEF AckOK

(* The next number expected is an acknowledgment the stream allows.           *)
LEMMA RecvAck ==
  ASSUME NEW t, Sane(t), NEW p, RecvOK(t, p)
  PROVE  AckNum(t, p.rcv)
<1>1. t.read \in Nat /\ t.read + 1 \in Nat
  BY DEF Sane, Streams
<1>2. AckOK(t, t.read)
  BY <1>1 DEF AckOK
<1>3. t.final = TRUE /\ t.read = t.written => AckOK(t, t.read + 1)
  BY <1>1 DEF AckOK
<1> QED
  BY <1>1, <1>2, <1>3 DEF RecvOK, AckNum

(* An acknowledgment that is taken acknowledges a part of the stream.         *)
LEMMA AckInside ==
  ASSUME NEW t, Sane(t), NEW p, Sync(p), NEW n \in Nat, Holds(t, p, n),
         NEW ack \in SeqNum, ~AckOutside(p, ack)
  PROVE  LET d == SeqDist(ack, p.una)
         IN /\ d \in Nat /\ d <= Span(p) /\ SeqDist(p.max, ack) = Span(p) - d
            /\ ack = Plus(t.base, n + d) /\ n + d <= t.written + 1
<1>1. /\ p.una \in SeqNum /\ p.max \in SeqNum /\ Len(p.buf) \in Nat /\ Span(p) \in Nat /\ FinLen(p) \in {0, 1}
      /\ p.fin_sent \in BOOLEAN
  BY PcbFields DEF Sync
<1>2. Len(p.buf) + 2 < Half /\ Span(p) <= Len(p.buf) + FinLen(p)
  BY DEF Sync, Small, SpaceInv
<1>3. Span(p) < Half
  BY <1>1, <1>2, SeqModFacts
<1>4. PICK d \in Nat : d = SeqDist(ack, p.una) /\ d <= Span(p) /\ SeqDist(p.max, ack) = Span(p) - d
  <2>1. SeqDist(ack, p.una) \in Nat
    <3>1. SeqDist(ack, p.una) \in SeqNum
      BY <1>1, DistCases
    <3> QED
      BY <3>1, SeqModFacts DEF SeqNum
  <2> QED
    BY <1>1, <1>3, <2>1, AckFacts
<1>5. t.written \in Nat /\ t.written + 2 < Half /\ t.base \in SeqNum
  BY DEF Sane, Streams
<1>6. n + d <= t.written + 1
  <2>1. CASE FinDone(p)
    <3>1. Span(p) = 0 /\ n = t.written + 1
      BY <1>1, <2>1, SelfDist DEF FinDone, Span, Holds
    <3> QED
      BY <1>4, <1>5, <3>1
  <2>2. CASE ~FinDone(p)
    <3>1. n + Len(p.buf) = t.written
      BY <2>2 DEF Holds
    <3> QED
      BY <1>1, <1>2, <1>4, <1>5, <3>1
  <2> QED
    BY <2>1, <2>2
<1>7. ack = Plus(p.una, d)
  BY <1>1, <1>4, DistPlus
<1>8. n + d < Half /\ p.una = Plus(t.base, n)
  BY <1>4, <1>5, <1>6, SeqModFacts DEF Holds
<1>9. ack = Plus(t.base, n + d)
  BY <1>4, <1>5, <1>7, <1>8, PlusPlus
<1> QED
  BY <1>4, <1>6, <1>9

(* tcp_process_ack takes from the send buffer what the peer has taken.        *)
LEMMA AckSend ==
  ASSUME NEW t, Sane(t), NEW p, Sync(p), SendOK(t, p), NEW ack \in SeqNum, NEW wnd \in Nat,
         AckOutside(p, ack) \/ AckNum(t, ack)
  PROVE  SendOK(t, ProcessAck(p, ack, wnd))
<1> DEFINE fin   == p.fin_queued /\ SeqDist(ack, p.una) > Len(p.buf)
           rest  == SubSeq(p.buf, Smaller(SeqDist(ack, p.una), Len(p.buf)) + 1, Len(p.buf))
           q     == ProcessAck(p, ack, wnd)
<1>1. /\ p \in Pcb /\ p.una \in SeqNum /\ p.max \in SeqNum /\ p.buf \in Seq(Nat) /\ Len(p.buf) \in Nat
      /\ p.fin_queued \in BOOLEAN /\ p.fin_sent \in BOOLEAN /\ Span(p) \in Nat /\ FinLen(p) \in {0, 1}
  BY PcbFields DEF Sync
<1>2. CASE AckOutside(p, ack)
  BY <1>2 DEF ProcessAck
<1>3. CASE ~AckOutside(p, ack) /\ ack = p.una
  <2>1. q = [p EXCEPT !.wnd = wnd]
    BY <1>3 DEF ProcessAck
  <2>2. q.una = p.una /\ q.buf = p.buf /\ q.max = p.max /\ q.fin_sent = p.fin_sent
    BY <1>1, <2>1 DEF Pcb
  <2> HIDE DEF q
  <2> QED
    BY <2>2, SendSame DEF FinDone, q
<1>4. CASE ~AckOutside(p, ack) /\ ack # p.una
  <2>1. PICK n \in Nat : Holds(t, p, n)
    BY DEF SendOK
  <2>2. PICK d \in Nat :
          /\ d = SeqDist(ack, p.una) /\ d <= Span(p) /\ SeqDist(p.max, ack) = Span(p) - d
          /\ ack = Plus(t.base, n + d) /\ n + d <= t.written + 1
    BY <1>4, <2>1, AckInside
  <2>3. /\ q.una = ack /\ q.buf = rest /\ q.max = p.max
        /\ (q.fin_sent = TRUE <=> p.fin_sent = TRUE \/ (p.fin_queued = TRUE /\ d > Len(p.buf)))
    <3>1. PICK nxt, grown, timer :
            q = [p EXCEPT !.wnd = wnd, !.buf = rest, !.una = ack, !.nxt = nxt, !.fin_sent = @ \/ fin,
                          !.retries = 0, !.cwnd = grown, !.timer = timer]
      BY <1>4 DEF ProcessAck
    <3>2. q.una = ack /\ q.buf = rest /\ q.max = p.max /\ q.fin_sent = (p.fin_sent \/ fin)
      BY <1>1, <3>1 DEF Pcb
    <3> HIDE DEF q, rest
    <3> QED
      BY <1>1, <2>2, <3>2
  <2>4. d > 0
    <3>1. d = 0 => ack = p.una
      BY <1>1, <2>2, DistPlus, PlusNone
    <3> QED
      BY <1>4, <2>2, <3>1
  <2>5. /\ t.written \in Nat /\ t.base \in SeqNum /\ t.written + 2 < Half
        /\ Span(p) <= Len(p.buf) + FinLen(p)
        /\ p.fin_sent = TRUE => Span(p) = Len(p.buf) + 1 \/ (Span(p) = 0 /\ Len(p.buf) = 0)
    BY DEF Sane, Streams, Sync, SpaceInv
  <2>6. n + Len(p.buf) = t.written
    <3>1. ~FinDone(p)
      <4>1. FinDone(p) => Span(p) = 0
        BY <1>1, SelfDist DEF FinDone, Span
      <4> QED
        BY <1>1, <2>2, <2>4, <4>1
    <3> QED
      BY <2>1, <3>1 DEF Holds
  <2>7. AckOK(t, n + d)
    <3>1. PICK a \in Nat : AckOK(t, a) /\ ack = Plus(t.base, a)
      BY <1>4 DEF AckNum
    <3>2. a < Half
      BY <3>1, AckBound
    <3>3. PICK m \in Nat : m = n + d /\ m < Half
      BY <2>2, <2>5, SeqModFacts
    <3>5. ack = Plus(t.base, m)
      BY <2>2, <3>3
    <3>4. a = m
      <4>1. PICK b \in SeqNum : b = t.base
        BY <2>5
      <4>2. Plus(b, a) = Plus(b, m)
        BY <3>1, <3>5, <4>1
      <4> QED
        BY <3>2, <3>3, <4>2, PlusOrder
    <3> QED
      BY <3>1, <3>3, <3>4
  <2>8. ack = p.max <=> d = Span(p)
    <3>1. ack = p.max => SeqDist(p.max, ack) = 0
      BY <1>1, SelfDist
    <3>2. SeqDist(p.max, ack) = 0 => p.max = ack
      BY <1>1, DistPlus, PlusNone
    <3> QED
      BY <1>1, <2>2, <3>1, <3>2
  <2>9. FinLen(p) = 1 => p.fin_queued = TRUE
    BY DEF FinLen
  <2>10. CASE d <= Len(p.buf)
    <3>2. PICK m \in Nat : m = Len(p.buf) - d /\ Len(p.buf) = d + m
      <4>1. PICK len \in Nat : len = Len(p.buf)
        BY <1>1
      <4>2. len - d \in Nat /\ len = d + (len - d)
        BY <2>10, <4>1
      <4> QED
        BY <4>1, <4>2
    <3>1. rest = SubSeq(p.buf, d + 1, d + m)
      <4>1. Smaller(d, Len(p.buf)) = d
        BY <1>1, <2>10 DEF Smaller
      <4> QED
        BY <2>2, <3>2, <4>1
    <3>3. Len(rest) = m /\ \A i \in 1 .. m : rest[i] = p.buf[d + i]
      <4> HIDE DEF rest
      <4> QED
        BY <1>1, <2>10, <3>1, <3>2, PieceFacts
    <3>4. ~FinDone(q)
      <4> HIDE DEF q
      <4>1. SUFFICES ASSUME FinDone(q) PROVE FALSE
        OBVIOUS
      <4>2. p.fin_sent = TRUE /\ d = Span(p)
        BY <1>1, <2>2, <2>3, <2>8, <2>10, <4>1 DEF FinDone
      <4> QED
        BY <1>1, <2>4, <2>5, <2>10, <4>2
    <3> HIDE DEF rest, q
    <3>5. ASSUME NEW i \in 1 .. m PROVE rest[i] = n + d + i
      <4>1. d + i \in 1 .. Len(p.buf) /\ rest[i] = p.buf[d + i]
        BY <1>1, <2>10, <3>2, <3>3
      <4>2. p.buf[d + i] = n + (d + i)
        BY <2>1, <4>1 DEF Holds
      <4> QED
        BY <4>1, <4>2
    <3>6. n + d + m = t.written
      <4>1. PICK l \in Nat : l = Len(p.buf)
        BY <1>1
      <4>2. l = d + m /\ n + l = t.written
        BY <2>6, <3>2, <4>1
      <4> QED
        BY <4>2
    <3>7. Holds(t, q, n + d)
      BY <2>2, <2>3, <2>7, <3>3, <3>4, <3>5, <3>6 DEF Holds
    <3> QED
      BY <3>7 DEF SendOK, q
  <2>11. CASE d > Len(p.buf)
    <3>1. d = Len(p.buf) + 1 /\ d = Span(p) /\ p.fin_queued = TRUE
      BY <1>1, <2>2, <2>5, <2>9, <2>11
    <3>2. rest = <<>>
      BY <1>1, <2>2, <2>11, SubSeqEmpty DEF Smaller
    <3> HIDE DEF rest, q
    <3>3. FinDone(q)
      BY <2>3, <2>8, <2>11, <3>1 DEF FinDone
    <3>4. n + d = t.written + 1
      BY <1>1, <2>5, <2>6, <3>1
    <3>5. Len(q.buf) = 0
      BY <2>3, <3>2
    <3>6. Holds(t, q, n + d)
      BY <2>2, <2>3, <2>7, <3>3, <3>4, <3>5 DEF Holds
    <3> QED
      BY <3>6 DEF SendOK, q
  <2> QED
    BY <1>1, <2>2, <2>10, <2>11
<1> QED
  BY <1>2, <1>3, <1>4

(* An acknowledgment keeps the PCB in step; LAST_ACK ends once all is read.   *)
LEMMA AckedStream ==
  ASSUME NEW t, Sane(t), NEW u, Sane(u), NEW p, Sync(p), Claims(p), SendOK(t, p), RecvOK(u, p),
         NEW s \in Segments, NEW wnd \in Nat, "ACK" \in s.flags => AckOutside(p, s.ack) \/ AckNum(t, s.ack)
  PROVE  LET q == Acked(p, s, wnd)
         IN /\ SendOK(t, q) /\ RecvOK(u, q) /\ q.fin_queued = p.fin_queued /\ q.rcv = p.rcv
            /\ q.state = "CLOSED" => t.read = t.written
<1> DEFINE a == ProcessAck(p, s.ack, wnd)
           st == CASE FinAcked(a, s.ack) /\ a.state = "FIN_WAIT_1" -> "FIN_WAIT_2"
                   [] FinAcked(a, s.ack) /\ a.state = "CLOSING"    -> "TIME_WAIT"
                   [] FinAcked(a, s.ack) /\ a.state = "LAST_ACK"   -> "CLOSED"
                   [] OTHER -> a.state
           q  == Acked(p, s, wnd)
<1>1. s.ack \in SeqNum
  BY DEF Segments
<1>2. p \in Pcb /\ p.state \notin Opening \cup {"CLOSED"} /\ p.state \in State
  BY PcbFields DEF Sync
<1>3. CASE "ACK" \notin s.flags
  <2>1. q = p
    BY <1>3 DEF Acked
  <2> HIDE DEF q
  <2> QED
    BY <1>2, <2>1 DEF q
<1>4. CASE "ACK" \in s.flags
  <2>1. q = [a EXCEPT !.state = st]
    BY <1>4 DEF Acked
  <2>2. SendOK(t, a)
    BY <1>1, <1>4, AckSend
  <2>3. a.state = p.state /\ a.rcv = p.rcv /\ a.fin_queued = p.fin_queued /\ a \in Pcb
    <3> HIDE DEF a
    <3>1. Sync(a) /\ a.state = p.state /\ a.rcv = p.rcv /\ a.fin_queued = p.fin_queued
      BY <1>1, ProcessAckFacts DEF a
    <3> QED
      BY <3>1 DEF Sync
  <2> HIDE DEF a
  <2>4. /\ q.una = a.una /\ q.buf = a.buf /\ q.fin_sent = a.fin_sent /\ q.max = a.max /\ q.rcv = a.rcv
        /\ q.fin_queued = a.fin_queued /\ q.state = st
    BY <1>2, <2>1, <2>3 DEF Pcb
  <2>5. SendOK(t, q)
    BY <2>2, <2>4, SendSame DEF FinDone
  <2>6. CanTakeData(st) <=> CanTakeData(a.state)
    BY DEF CanTakeData
  <2>7. RecvOK(u, q)
    BY <2>3, <2>4, <2>6 DEF RecvOK
  <2>8. st = "CLOSED" => t.read = t.written
    <3>1. SUFFICES ASSUME st = "CLOSED" PROVE t.read = t.written
      OBVIOUS
    <3>2. a.state # "CLOSED"
      BY <1>2, <2>3
    <3>3. FinDone(a)
      <4>1. a.fin_sent /\ a.una = a.max
        BY <3>1, <3>2 DEF FinAcked
      <4> QED
        BY <4>1 DEF FinDone
    <3> QED
      BY <2>2, <3>3, DoneRead
  <2> HIDE DEF st, q
  <2> QED
    BY <2>3, <2>4, <2>5, <2>7, <2>8 DEF q
<1> QED
  BY <1>3, <1>4

\* the stream after n more bytes of it are taken
Taken(t, n) == [t EXCEPT !.read = t.read + n]

(* What a segment holds of the stream's next bytes. *)
LEMMA NewBytesFacts ==
  ASSUME NEW u, Sane(u), NEW p, Sync(p), RecvOK(u, p), NEW s \in Segments, Takes(p, s), NEW n \in Nat, Cut(u, s, n)
  PROVE  LET data == NewBytes(p, s)
         IN /\ data \in Seq(Nat) /\ u.read + Len(data) = n + Len(s.data)
            /\ u.read + Len(data) <= u.written
            /\ \A i \in 1 .. Len(data) : data[i] = u.read + i
<1>1. s.data \in Seq(Nat) /\ Len(s.data) \in Nat
  BY DEF Segments
<1>2. u.base \in SeqNum /\ u.read \in Nat /\ u.written \in Nat /\ u.read <= u.written /\ u.written + 2 < Half
  BY DEF Sane, Streams
<1>3. PICK b \in SeqNum, r \in Nat, w \in Nat, l \in Nat :
        b = u.base /\ r = u.read /\ w = u.written /\ l = Len(s.data)
  BY <1>1, <1>2
<1>4. r <= w /\ w + 2 < Half /\ n + l <= w /\ s.seq = Plus(b, n)
  BY <1>2, <1>3 DEF Cut
<1>5. n < Half /\ r < Half /\ n + l < Half /\ n + l \in Nat
  BY <1>3, <1>4, SeqModFacts
<1>6. p.rcv = Plus(b, r)
  BY <1>3 DEF RecvOK, Takes
<1>7. Plus(s.seq, l) = Plus(b, n + l)
  BY <1>4, <1>5, PlusPlus
<1>8. n <= r /\ r <= n + l
  <2>1. CASE s.seq = p.rcv
    <3>1. n = r
      BY <1>4, <1>5, <1>6, <2>1, PlusOrder
    <3> QED
      BY <3>1
  <2>2. CASE SeqLt(s.seq, p.rcv) /\ SeqLt(p.rcv, Plus(s.seq, Len(s.data)))
    <3>1. SeqLt(Plus(b, n), Plus(b, r)) /\ SeqLt(Plus(b, r), Plus(b, n + l))
      BY <1>3, <1>4, <1>6, <1>7, <2>2
    <3>2. n < r
      BY <1>5, <3>1, PlusOrder
    <3>3. PICK m \in Nat : m = n + l
      BY <1>5
    <3>4. r < m
      BY <1>5, <3>1, <3>3, PlusOrder
    <3> QED
      BY <3>2, <3>3, <3>4
  <2> QED
    BY <2>1, <2>2 DEF Takes, InOrder
<1>9. PICK d \in Nat, m \in Nat : d = r - n /\ l = d + m /\ r + m = n + l /\ n + d = r
  <2>1. r - n \in Nat /\ (n + l) - r \in Nat
    BY <1>8
  <2>2. PICK d \in Nat, m \in Nat : d = r - n /\ m = (n + l) - r
    BY <2>1
  <2>3. l = d + m /\ r + m = n + l /\ n + d = r
    BY <1>8, <2>2
  <2> QED
    BY <2>2, <2>3
<1>10. SeqDist(p.rcv, s.seq) = d
  BY <1>4, <1>5, <1>6, <1>8, <1>9, PlusOrder
<1>11. NewBytes(p, s) = SubSeq(s.data, d + 1, d + m)
  BY <1>3, <1>9, <1>10 DEF NewBytes
<1>12. PICK data : data = NewBytes(p, s)
  OBVIOUS
<1>13. data \in Seq(Nat) /\ Len(data) = m /\ \A i \in 1 .. m : data[i] = s.data[d + i]
  <2>1. PICK v \in Seq(Nat) : v = s.data
    BY <1>1
  <2>2. d + m <= Len(v)
    <3>1. Len(v) = l
      BY <1>3, <2>1
    <3>2. l = d + m
      BY <1>9
    <3>3. d + m <= l
      BY <3>2
    <3> QED
      BY <3>1, <3>3
  <2>4. data = SubSeq(v, d + 1, d + m)
    BY <1>11, <1>12, <2>1
  <2>3. data \in Seq(Nat) /\ Len(data) = m /\ \A i \in 1 .. m : data[i] = v[d + i]
    BY <2>2, <2>4, PieceFacts
  <2> QED
    BY <2>1, <2>3
<1>14. ASSUME NEW i \in 1 .. m PROVE data[i] = r + i
  <2>1. d + i \in 1 .. l /\ data[i] = s.data[d + i]
    BY <1>9, <1>13
  <2>2. s.data[d + i] = n + (d + i)
    BY <1>3, <2>1 DEF Cut
  <2>3. n + (d + i) = r + i
    BY <1>9
  <2> QED
    BY <2>1, <2>2, <2>3
<1>15. r + m <= w
  BY <1>4, <1>9
<1> QED
  BY <1>3, <1>9, <1>12, <1>13, <1>14, <1>15

(* A stream that is read on.                                                  *)
LEMMA TakenFacts ==
  ASSUME NEW u, Sane(u), NEW n \in Nat, u.read + n <= u.written
  PROVE  /\ Sane(Taken(u, n)) /\ Grows(u, Taken(u, n)) /\ Taken(u, n).read = u.read + n
         /\ Taken(u, n).written = u.written /\ Taken(u, n).final = u.final /\ Taken(u, n).base = u.base
<1>1. u \in Streams /\ u.read \in Nat /\ u.written \in Nat
  BY DEF Sane, Streams
<1>2. PICK r \in Nat : r = u.read + n
  BY <1>1
<1>3. PICK v : v = Taken(u, n)
  OBVIOUS
<1>4. v = [u EXCEPT !.read = r]
  BY <1>2, <1>3 DEF Taken
<1>5. v \in Streams /\ v.read = r /\ v.written = u.written /\ v.final = u.final /\ v.base = u.base
  BY <1>1, <1>4 DEF Streams
<1>6. u.read <= r /\ r <= u.written
  BY <1>1, <1>2
<1> QED
  BY <1>1, <1>2, <1>3, <1>5, <1>6 DEF Sane, Grows

(* Data or a FIN in order moves the next number expected on as far.           *)
LEMMA ReceivedStream ==
  ASSUME NEW u, Sane(u), NEW p, Sync(p), RecvOK(u, p), NEW s \in Segments, Takes(p, s), NEW n \in Nat, Cut(u, s, n),
         NEW r \in Pcb, r.rcv = p.rcv, CanTakeData(r.state)
  PROVE  LET q == Received(r, s, Len(NewBytes(p, s)))
         IN /\ RecvOK(Taken(u, Len(NewBytes(p, s))), q)
            /\ q.una = r.una /\ q.buf = r.buf /\ q.fin_queued = r.fin_queued
            /\ FinDone(q) <=> FinDone(r)
<1>1. PICK m : m = Len(NewBytes(p, s))
  OBVIOUS
<1>2. PICK q : q = Received(r, s, m)
  OBVIOUS
<1>3. m \in Nat /\ u.read + m = n + Len(s.data) /\ u.read + m <= u.written
  <2>1. /\ NewBytes(p, s) \in Seq(Nat) /\ u.read + Len(NewBytes(p, s)) = n + Len(s.data)
        /\ u.read + Len(NewBytes(p, s)) <= u.written
    BY NewBytesFacts
  <2> QED
    BY <1>1, <2>1
<1>4. PICK v : v = Taken(u, m)
  OBVIOUS
<1>5. v.read = u.read + m /\ v.written = u.written /\ v.final = u.final /\ v.base = u.base
  BY <1>3, <1>4, TakenFacts
<1>6. /\ q.rcv = Plus(r.rcv, m + (IF "FIN" \in s.flags THEN 1 ELSE 0))
      /\ q.state = (IF "FIN" \in s.flags THEN AfterFin(r) ELSE r.state)
      /\ q.una = r.una /\ q.buf = r.buf /\ q.fin_queued = r.fin_queued
      /\ q.fin_sent = r.fin_sent /\ q.max = r.max
  BY <1>2 DEF Received, Pcb
<1>7. u.base \in SeqNum /\ u.read \in Nat /\ u.written \in Nat /\ u.written + 2 < Half
  BY DEF Sane, Streams
<1>8. r.rcv = Plus(u.base, u.read)
  BY DEF RecvOK, Takes
<1>9. CASE "FIN" \notin s.flags
  <2>1. q.rcv = Plus(r.rcv, m) /\ q.state = r.state
    BY <1>3, <1>6, <1>9
  <2>2. Plus(r.rcv, m) = Plus(u.base, u.read + m)
    BY <1>3, <1>7, <1>8, SeqModFacts, PlusPlus
  <2>3. RecvOK(v, q)
    BY <1>5, <2>1, <2>2 DEF RecvOK
  <2> QED
    BY <1>1, <1>2, <1>4, <1>6, <2>3 DEF FinDone
<1>10. CASE "FIN" \in s.flags
  <2>1. q.rcv = Plus(r.rcv, m + 1) /\ q.state = AfterFin(r)
    BY <1>3, <1>6, <1>10
  <2>2. ~CanTakeData(AfterFin(r))
    BY DEF AfterFin, CanTakeData
  <2>3. v.final = TRUE /\ v.read = v.written
    BY <1>3, <1>5, <1>10 DEF Cut
  <2>4. PICK k \in Nat : k = m + 1
    BY <1>3
  <2>5. u.read + k < Half /\ u.read + k = v.read + 1
    BY <1>3, <1>5, <1>7, <2>4, SeqModFacts
  <2>6. Plus(r.rcv, k) = Plus(u.base, u.read + k)
    BY <1>7, <1>8, <2>5, PlusPlus
  <2>7. RecvOK(v, q)
    BY <1>5, <2>1, <2>2, <2>3, <2>4, <2>5, <2>6 DEF RecvOK
  <2> QED
    BY <1>1, <1>2, <1>4, <1>6, <2>7 DEF FinDone
<1> QED
  BY <1>9, <1>10

\* the stream after n more bytes are written, and final or not
Lengthens(t, n, fin) == [t EXCEPT !.written = t.written + n, !.final = fin]

(* More written, and a FIN perhaps: stream and send buffer grow alike.        *)
LEMMA LongerStream ==
  ASSUME NEW t, Sane(t), t.final = FALSE, NEW p \in Pcb, p.fin_sent = FALSE, SendOK(t, p), NEW n \in Nat,
         t.written + n + 2 < Half, NEW st, NEW fin \in BOOLEAN
  PROVE  LET tt == Lengthens(t, n, fin)
             q  == Longer(p, Fresh(t.written, n), st, fin)
         IN /\ Sane(tt) /\ Grows(t, tt) /\ SendOK(tt, q)
            /\ tt.base = t.base /\ tt.written = t.written + n /\ tt.read = t.read /\ tt.final = fin
<1>1. PICK more : more = Fresh(t.written, n)
  OBVIOUS
<1>2. PICK q : q = Longer(p, more, st, fin)
  OBVIOUS
<1>3. t \in Streams /\ t.written \in Nat /\ t.read \in Nat /\ t.read <= t.written
  BY DEF Sane, Streams
<1>4. more \in Seq(Nat) /\ Len(more) = n /\ \A i \in 1 .. n : more[i] = t.written + i
  BY <1>1, <1>3, FreshFacts DEF Fresh
<1>5. PICK w \in Nat : w = t.written + n
  BY <1>3
<1>6. PICK tt : tt = [t EXCEPT !.written = w, !.final = fin]
  OBVIOUS
<1>7. tt = Lengthens(t, n, fin)
  BY <1>5, <1>6 DEF Lengthens
<1>8. tt \in Streams /\ tt.base = t.base /\ tt.written = w /\ tt.read = t.read /\ tt.final = fin
  BY <1>3, <1>6 DEF Streams
<1>9. t.written <= w /\ t.read <= w /\ w + 2 < Half
  BY <1>3, <1>5
<1>10. Sane(tt) /\ Grows(t, tt)
  BY <1>3, <1>8, <1>9 DEF Sane, Grows
<1>11. PICK m \in Nat : Holds(t, p, m)
  BY DEF SendOK
<1>12. p.buf \in Seq(Nat) /\ Len(p.buf) \in Nat /\ m + Len(p.buf) = t.written
  BY <1>11, PcbFields DEF Holds, FinDone
<1>13. q.una = p.una /\ q.buf = p.buf \o more /\ q.fin_sent = FALSE
  BY <1>2 DEF Longer, Pcb
<1>14. Len(q.buf) = Len(p.buf) + n /\ m + Len(q.buf) = w
  <2>1. Len(q.buf) = Len(p.buf) + n
    <3>1. PICK b \in Seq(Nat) : b = p.buf
      BY <1>12
    <3>2. Len(b \o more) = Len(b) + Len(more)
      <4>1. PICK x \in Seq(Nat) : x = more
        BY <1>4
      <4>2. Len(b \o x) = Len(b) + Len(x)
        OBVIOUS
      <4> QED
        BY <4>1, <4>2
    <3> QED
      BY <1>4, <1>13, <3>1, <3>2
  <2> QED
    BY <1>3, <1>5, <1>12, <2>1
<1>15. ASSUME NEW i \in 1 .. Len(q.buf) PROVE q.buf[i] = m + i
  <2>1. CASE i <= Len(p.buf)
    <3>1. q.buf[i] = p.buf[i] /\ i \in 1 .. Len(p.buf)
      BY <1>4, <1>12, <1>13, <1>14, <2>1
    <3> QED
      BY <1>11, <3>1 DEF Holds
  <2>2. CASE i > Len(p.buf)
    <3>1. PICK j \in 1 .. n : i = Len(p.buf) + j
      <4>1. i - Len(p.buf) \in 1 .. n
        BY <1>12, <1>14, <2>2
      <4>2. i = Len(p.buf) + (i - Len(p.buf))
        BY <1>12
      <4> QED
        BY <4>1, <4>2
    <3>2. q.buf[i] = more[j]
      BY <1>4, <1>12, <1>13, <1>14, <3>1
    <3>3. more[j] = t.written + j
      BY <1>4
    <3>4. t.written + j = m + i
      BY <1>3, <1>12, <3>1
    <3> QED
      BY <3>2, <3>3, <3>4
  <2> QED
    BY <1>12, <1>14, <2>1, <2>2
<1>16. AckOK(tt, m)
  BY <1>10, <1>11, AckKept DEF Holds
<1>17. Holds(tt, q, m)
  BY <1>8, <1>11, <1>13, <1>14, <1>15, <1>16 DEF Holds, FinDone
<1> QED
  BY <1>1, <1>2, <1>5, <1>7, <1>8, <1>10, <1>17 DEF SendOK

(* All that tcp_output sends is of the stream, and acknowledges what was taken *)
(* of the other.                                                              *)
LEMMA OutputStream ==
  ASSUME NEW t, Sane(t), NEW u, Sane(u), NEW c \in WorkType, Sync(c.p), c.sent = {}, NEW probe \in BOOLEAN,
         SendOK(t, c.p), RecvOK(u, c.p), c.p.fin_queued = TRUE => t.final = TRUE,
         NEW d, d = Output(c, probe)
  PROVE  SendOK(t, d.p) /\ RecvOK(u, d.p) /\ \A s \in d.sent : DataOK(t, u, s)
<1>1. PICK p : p = c.p
  OBVIOUS
<1>2. SameQueue(d.p, p) /\ SendsBuf(c, d) /\ p.buf \in Seq(Nat) /\ Len(p.buf) \in Nat
  BY <1>1, OutputFacts, OutputSends, PcbFields DEF Sync
<1>3. SendOK(t, d.p)
  BY <1>1, <1>2, SendSame DEF SameQueue, SendsBuf
<1>4. RecvOK(u, d.p)
  BY <1>1, <1>2 DEF SameQueue, RecvOK
<1>5. ASSUME NEW s \in d.sent PROVE DataOK(t, u, s)
  <2>1. FromBuf(p, s)
    BY <1>1, <1>2 DEF SendsBuf
  <2>2. s.flags \in {{"ACK"}, {"ACK", "FIN"}} /\ s.ack = p.rcv /\ ~FinDone(p)
    BY <2>1 DEF FromBuf
  <2>3. AckNum(u, s.ack)
    BY <1>1, <2>2, RecvAck
  <2>4. PICK o \in Nat : Piece(p, s, o)
    BY <2>1 DEF FromBuf
  <2>5. PICK n \in Nat : Holds(t, p, n)
    BY <1>1 DEF SendOK
  <2>6. n + Len(p.buf) = t.written /\ t.written + 2 < Half /\ t.written \in Nat /\ t.base \in SeqNum
    BY <2>2, <2>5 DEF Holds, Sane, Streams
  <2>7. Len(s.data) \in Nat
    <3>1. d \in WorkType
      BY OutputFacts
    <3>2. s \in Segments
      BY <3>1 DEF WorkType
    <3> QED
      BY <3>2 DEF Segments
  <2>8. o + Len(s.data) <= Len(p.buf) /\ s.seq = Plus(p.una, o) /\ p.una = Plus(t.base, n)
    BY <2>4, <2>5 DEF Piece, Holds
  <2>9. PICK l \in Nat, b \in Nat : l = Len(s.data) /\ b = Len(p.buf)
    BY <1>2, <2>7
  <2>w. PICK w \in Nat : w = t.written /\ n + b = w /\ o + l <= b /\ w + 2 < Half
    BY <2>6, <2>8, <2>9
  <2>10. PICK m \in Nat : m = n + o /\ m + l <= w /\ m < Half
    BY <2>w, SeqModFacts
  <2>11. s.seq = Plus(t.base, m)
    BY <2>6, <2>8, <2>10, PlusPlus
  <2>12. ASSUME NEW i \in 1 .. l PROVE s.data[i] = m + i
    <3>1. s.data[i] = p.buf[o + i] /\ o + i \in 1 .. b
      BY <2>4, <2>8, <2>9 DEF Piece
    <3>2. p.buf[o + i] = n + (o + i)
      BY <2>5, <2>9, <3>1 DEF Holds
    <3>3. n + (o + i) = m + i
      BY <2>10
    <3> QED
      BY <3>1, <3>2, <3>3
  <2>13. ASSUME "FIN" \in s.flags PROVE m + l = t.written /\ t.final = TRUE
    <3>1. p.fin_queued = TRUE /\ o + l = b
      BY <2>4, <2>9, <2>13 DEF Piece
    <3> QED
      BY <1>1, <2>w, <2>10, <3>1
  <2>14. Cut(t, s, m)
    BY <2>w, <2>9, <2>10, <2>11, <2>12, <2>13 DEF Cut
  <2> QED
    BY <2>2, <2>3, <2>14 DEF DataOK
<1> QED
  BY <1>3, <1>4, <1>5
-----------------------------------------------------------------------------
(* The connection.  The client opens one at most; the server opens one for    *)
(* every SYN it takes for a new one, and the client's SYN-ACK singles out one *)
(* of those, its k-th.                                                        *)

\* the number of the first byte of e's i-th connection, and of the one the ends share
FirstByte(e, i) == Plus(Isn[e][i], 1)
Real(e, k)      == IF e = "client" THEN 1 ELSE k          \* the number of the connection at e
Base(e, k)      == FirstByte(e, Real(e, k))
Idle            == Opening \cup {"CLOSED"}

\* e has that connection open; it is over at e; e will write no more on it
Live(e, k)  == opened[e] = Real(e, k) /\ pcb[e].state \notin Idle
Past(e, k)  == opened[e] > Real(e, k) \/ (opened[e] = Real(e, k) /\ pcb[e].state = "CLOSED")
Final(e, k) == Past(e, k) \/ (Live(e, k) /\ pcb[e].fin_queued = TRUE)

\* what e sends on that connection
Flow(base, w, r, final) == [base |-> base, written |-> w, read |-> r, final |-> final]
Stream(e, k) == Flow(Base(e, k), written[e], Len(delivered[Peer(e)]), Final(e, k))

(* A SYN or SYN-ACK of x: of one of its connections, and for one of the       *)
(* other's.                                                                   *)
SynOK(x, s) ==
  /\ "SYN" \in s.flags /\ "FIN" \notin s.flags /\ s.data = <<>>
  /\ \E j \in 1 .. opened[x] :
       /\ s.seq = Isn[x][j]
       /\ "ACK" \in s.flags =>
            /\ \E i \in 1 .. opened[Peer(x)] : s.ack = FirstByte(Peer(x), i)
            /\ (j = opened[x] /\ pcb[x].state = "SYN_RECEIVED") => s.ack = pcb[x].rcv

(* What holds with a connection or without.                                   *)
Common ==
  /\ listening = [e \in End |-> e = "server"]
  /\ delivered \in [End -> Seq(Nat)]
  /\ \A e \in End : Len(delivered[e]) <= written[Peer(e)]
  /\ \A e \in End : \A i \in 1 .. Len(delivered[e]) : delivered[e][i] = i
  /\ \A e \in End : pcb[e].state \in Opening => opened[e] >= 1 /\ pcb[e].una = Isn[e][opened[e]]
  /\ \A e \in End : pcb[e].state = "SYN_SENT" => e = "client" /\ opened[e] = 1
  /\ \A e \in End : pcb[e].state = "SYN_RECEIVED" =>
       \E i \in 1 .. opened[Peer(e)] : pcb[e].rcv = FirstByte(Peer(e), i)

(* No SYN-ACK has opened the client's connection.                             *)
Unbound ==
  /\ \A e \in End : pcb[e].state \in Idle /\ written[e] = 0 /\ delivered[e] = <<>> /\ outcome[e] # "ok"
  /\ \A e \in End : \A s \in net[Peer(e)] : "RST" \in s.flags \/ SynOK(e, s)

(* The client's connection is the server's k-th.                              *)
Bound(k) ==
  /\ k \in 1 .. opened["server"] /\ opened["client"] >= 1
  /\ \A e \in End : opened[e] > Real(e, k) => pcb[e].state \in Idle
  /\ opened["client"] = 1 => pcb["client"].state \notin Opening
  /\ (opened["server"] = k /\ pcb["server"].state = "SYN_RECEIVED")
        => /\ pcb["server"].rcv = Base("client", k)
           /\ written["server"] = 0 /\ delivered["server"] = <<>>
  /\ \A e \in End : Live(e, k) => SendOK(Stream(e, k), pcb[e]) /\ RecvOK(Stream(Peer(e), k), pcb[e])
  /\ \A e \in End : \A s \in net[Peer(e)] :
       "RST" \in s.flags \/ SynOK(e, s) \/ DataOK(Stream(e, k), Stream(Peer(e), k), s)
  /\ \A e \in End : outcome[e] = "ok" => Past(e, k) /\ Len(delivered[Peer(e)]) = written[e]

(* The invariant: the two ends share no connection yet, or one.              *)
StreamInv == Common /\ (Unbound \/ \E k \in Nat : Bound(k))

(* The two ends.                                                              *)
LEMMA EndFacts ==
  /\ End = {"client", "server"} /\ Peer("client") = "server" /\ Peer("server") = "client"
  /\ \A e \in End : Peer(e) \in End /\ Peer(e) # e /\ Peer(Peer(e)) = e
  /\ \A e \in End : \A x \in End : x = e \/ x = Peer(e)
  BY DEF End, Peer

(* A stream put together.                                                     *)
LEMMA FlowFacts ==
  ASSUME NEW b \in SeqNum, NEW w \in Nat, NEW r \in Nat, NEW f \in BOOLEAN, r <= w, w + 2 < Half
  PROVE  /\ Sane(Flow(b, w, r, f))
         /\ Flow(b, w, r, f).base = b /\ Flow(b, w, r, f).written = w /\ Flow(b, w, r, f).read = r
         /\ Flow(b, w, r, f).final = f
  BY DEF Flow, Sane, Streams

(* An ISN and the number behind it.                                           *)
LEMMA IsnFacts ==
  ASSUME NEW e \in End, NEW i \in DOMAIN Isn[e]
  PROVE  Isn[e][i] \in SeqNum /\ FirstByte(e, i) \in SeqNum
<1>1. Isn[e] \in Seq(SeqNum)
  BY IsnAssumption
<1>2. Isn[e][i] \in SeqNum
  BY <1>1
<1> QED
  BY <1>2, SeqModFacts, PlusCases DEF FirstByte

(* Every connection opened has its ISN.                                       *)
LEMMA OpenedFacts ==
  ASSUME IInv, NEW e \in End
  PROVE  opened[e] \in Nat /\ \A i \in 1 .. opened[e] : i \in DOMAIN Isn[e] /\ Isn[e][i] \in SeqNum
                                                        /\ FirstByte(e, i) \in SeqNum
<1>1. opened[e] \in Nat /\ left.conns \in Nat /\ opened[e] + left.conns <= Len(Isn[e])
  BY DEF IInv, Bounded, Budget
<1>2. Isn[e] \in Seq(SeqNum)
  BY IsnAssumption
<1>3. DOMAIN Isn[e] = 1 .. Len(Isn[e]) /\ Len(Isn[e]) \in Nat
  BY <1>2
<1>4. \A i \in 1 .. opened[e] : i \in DOMAIN Isn[e]
  BY <1>1, <1>3
<1> QED
  BY <1>1, <1>4, IsnFacts

(* The connection the two ends share was opened at both.                      *)
LEMMA BoundFacts ==
  ASSUME IInv, NEW k \in Nat, k \in 1 .. opened["server"], opened["client"] >= 1, NEW e \in End
  PROVE  /\ Real(e, k) \in 1 .. opened[e] /\ Base(e, k) \in SeqNum /\ opened[e] \in Nat
         /\ Real(e, k) \in Nat
<1>1. opened[e] \in Nat
  BY OpenedFacts
<1>2. Real(e, k) \in 1 .. opened[e]
  BY <1>1, EndFacts DEF Real
<1> QED
  BY <1>1, <1>2, OpenedFacts DEF Base

(* The streams of that connection.                                            *)
LEMMA StreamFacts ==
  ASSUME IInv, Common, NEW k \in Nat, k \in 1 .. opened["server"], opened["client"] >= 1, NEW e \in End
  PROVE  /\ Sane(Stream(e, k)) /\ Stream(e, k).base = Base(e, k) /\ Stream(e, k).written = written[e]
         /\ Stream(e, k).read = Len(delivered[Peer(e)]) /\ Stream(e, k).final = Final(e, k)
         /\ written[e] \in Nat /\ written[e] + 2 < Half /\ written[e] <= MaxBytes[e]
         /\ Len(delivered[Peer(e)]) \in Nat /\ Len(delivered[Peer(e)]) <= written[e]
<1>1. PICK f \in BOOLEAN : f = Final(e, k)
  BY DEF Final
<1>2. written[e] \in Nat /\ written[e] <= MaxBytes[e] /\ MaxBytes[e] \in Nat /\ MaxBytes[e] + 2 < Half
  BY BytesAssumption, SeqAssumption DEF IInv, Bounded, Half
<1>3. written[e] + 2 < Half
  BY <1>2, SeqModFacts
<1>4. Len(delivered[Peer(e)]) \in Nat /\ Len(delivered[Peer(e)]) <= written[e]
  BY EndFacts DEF Common
<1>5. Base(e, k) \in SeqNum
  BY BoundFacts
<1>6. Stream(e, k) = Flow(Base(e, k), written[e], Len(delivered[Peer(e)]), f)
  BY <1>1 DEF Stream
<1> QED
  BY <1>1, <1>2, <1>3, <1>4, <1>5, <1>6, FlowFacts
-----------------------------------------------------------------------------
(* A step of endpoint e: its PCB is q afterwards, o connections were opened,  *)
(* w bytes written and d delivered, and the segments of sent are on the air.  *)
Step(e, q, o, w, d, h, sent) ==
  /\ pcb' = [pcb EXCEPT ![e] = q] /\ opened' = [opened EXCEPT ![e] = o]
  /\ written' = [written EXCEPT ![e] = w] /\ delivered' = [delivered EXCEPT ![e] = d]
  /\ outcome' = [outcome EXCEPT ![e] = h] /\ listening' = listening
  /\ \A x \in End : \A s \in net'[Peer(x)] : s \in net[Peer(x)] \/ (x = e /\ s \in sent)

(* What a step of e changes, and what it leaves.                              *)
LEMMA StepFacts ==
  ASSUME IInv, Common, NEW e \in End, NEW q, NEW o, NEW w, NEW d, NEW h, NEW sent,
         Step(e, q, o, w, d, h, sent)
  PROVE  /\ pcb'[e] = q /\ opened'[e] = o /\ written'[e] = w /\ delivered'[e] = d /\ outcome'[e] = h
         /\ \A x \in End : x # e => /\ pcb'[x] = pcb[x] /\ opened'[x] = opened[x] /\ written'[x] = written[x]
                                    /\ delivered'[x] = delivered[x] /\ outcome'[x] = outcome[x]
  BY DEF Step, IInv, Common, Bounded

(* An old connection's SYN stays what it is.                                  *)
LEMMA SynKept ==
  ASSUME IInv, Common, NEW e \in End, NEW q, NEW o, NEW w, NEW d, NEW h, NEW sent,
         Step(e, q, o, w, d, h, sent), o \in {opened[e], opened[e] + 1},
         o = opened[e] /\ q.state = "SYN_RECEIVED" => pcb[e].state = "SYN_RECEIVED" /\ q.rcv = pcb[e].rcv,
         NEW x \in End, NEW s, SynOK(x, s)
  PROVE  SynOK(x, s)'
<1>1. /\ pcb'[e] = q /\ opened'[e] = o
      /\ \A y \in End : y # e => pcb'[y] = pcb[y] /\ opened'[y] = opened[y]
  BY StepFacts
<1>2. PICK j \in 1 .. opened[x] :
        /\ s.seq = Isn[x][j]
        /\ "ACK" \in s.flags =>
             /\ \E i \in 1 .. opened[Peer(x)] : s.ack = FirstByte(Peer(x), i)
             /\ (j = opened[x] /\ pcb[x].state = "SYN_RECEIVED") => s.ack = pcb[x].rcv
  BY DEF SynOK
<1>3. \A y \in End : opened[y] \in Nat /\ opened'[y] \in Nat /\ opened[y] <= opened'[y]
  <2>1. \A y \in End : opened[y] \in Nat
    BY OpenedFacts
  <2> QED
    BY <1>1, <2>1
<1>4. j \in 1 .. opened'[x] /\ Peer(x) \in End
  BY <1>3, EndFacts
<1>5. ASSUME NEW i \in 1 .. opened[Peer(x)] PROVE i \in 1 .. opened'[Peer(x)]
  BY <1>3, <1>4
<1>6. (j = opened'[x] /\ pcb'[x].state = "SYN_RECEIVED") => j = opened[x] /\ pcb[x].state = "SYN_RECEIVED"
                                                            /\ pcb'[x].rcv = pcb[x].rcv
  <2>1. CASE x # e
    BY <1>1, <2>1
  <2>2. CASE x = e
    BY <1>1, <1>2, <1>3, <2>2
  <2> QED
    BY <2>1, <2>2
<1>7. \E i \in 1 .. opened'[x] :
        /\ s.seq = Isn[x][i]
        /\ "ACK" \in s.flags =>
             /\ \E l \in 1 .. opened'[Peer(x)] : s.ack = FirstByte(Peer(x), l)
             /\ (i = opened'[x] /\ pcb'[x].state = "SYN_RECEIVED") => s.ack = pcb'[x].rcv
  BY <1>2, <1>4, <1>5, <1>6
<1>8. "SYN" \in s.flags /\ "FIN" \notin s.flags /\ s.data = <<>>
  BY DEF SynOK
<1> QED
  BY <1>7, <1>8 DEF SynOK, FirstByte

(* The part of the invariant that no connection is needed for.                *)
LEMMA CommonStep ==
  ASSUME IInv, IInv', Common, NEW e \in End, NEW q, NEW o, NEW w, NEW d, NEW h, NEW sent,
         Step(e, q, o, w, d, h, sent), o \in {opened[e], opened[e] + 1},
         written[e] <= w, d \in Seq(Nat), Len(d) <= written[Peer(e)], \A i \in 1 .. Len(d) : d[i] = i,
         q.state \in Opening => o >= 1 /\ q.una = Isn[e][o],
         q.state = "SYN_SENT" => e = "client" /\ o = 1,
         q.state = "SYN_RECEIVED" => \E i \in 1 .. opened[Peer(e)] : q.rcv = FirstByte(Peer(e), i)
  PROVE  Common'
<1>1. /\ pcb'[e] = q /\ opened'[e] = o /\ written'[e] = w /\ delivered'[e] = d
      /\ \A x \in End : x # e => /\ pcb'[x] = pcb[x] /\ opened'[x] = opened[x] /\ written'[x] = written[x]
                                 /\ delivered'[x] = delivered[x]
  BY StepFacts
<1>2. \A y \in End : opened[y] \in Nat /\ opened'[y] \in Nat /\ opened[y] <= opened'[y]
  <2>1. \A y \in End : opened[y] \in Nat
    BY OpenedFacts
  <2> QED
    BY <1>1, <2>1
<1>3. \A y \in End : written[y] \in Nat /\ written'[y] \in Nat /\ written[y] <= written'[y]
  <2>1. \A y \in End : written[y] \in Nat /\ written'[y] \in Nat
    BY DEF IInv, Bounded
  <2> QED
    BY <1>1, <2>1
<1>4. listening' = [x \in End |-> x = "server"] /\ delivered' \in [End -> Seq(Nat)]
  BY DEF Common, Step
<1>5. ASSUME NEW x \in End
      PROVE  Len(delivered'[x]) <= written'[Peer(x)] /\ \A i \in 1 .. Len(delivered'[x]) : delivered'[x][i] = i
  <2>1. Peer(x) \in End
    BY EndFacts
  <2>2. PICK v \in Nat, u \in Nat : v = written[Peer(x)] /\ u = written'[Peer(x)] /\ v <= u
    BY <1>3, <2>1
  <2>3. CASE x = e
    <3>1. Len(d) <= v /\ Len(d) \in Nat
      BY <2>2, <2>3
    <3> QED
      BY <1>1, <2>2, <2>3, <3>1
  <2>4. CASE x # e
    <3>1. /\ delivered'[x] = delivered[x] /\ Len(delivered[x]) <= v /\ Len(delivered[x]) \in Nat
          /\ \A i \in 1 .. Len(delivered[x]) : delivered[x][i] = i
      BY <1>1, <2>2, <2>4 DEF Common
    <3> QED
      BY <2>2, <3>1
  <2> QED
    BY <2>3, <2>4
<1>6. ASSUME NEW x \in End
      PROVE  /\ pcb'[x].state \in Opening => opened'[x] >= 1 /\ pcb'[x].una = Isn[x][opened'[x]]
             /\ pcb'[x].state = "SYN_SENT" => x = "client" /\ opened'[x] = 1
  <2>1. CASE x = e
    BY <1>1, <2>1
  <2>2. CASE x # e
    BY <1>1, <2>2 DEF Common
  <2> QED
    BY <2>1, <2>2
<1>7. ASSUME NEW x \in End, pcb'[x].state = "SYN_RECEIVED"
      PROVE  \E i \in 1 .. opened'[Peer(x)] : pcb'[x].rcv = FirstByte(Peer(x), i)
  <2>1. PICK i \in 1 .. opened[Peer(x)] : pcb'[x].rcv = FirstByte(Peer(x), i)
    <3>1. CASE x = e
      BY <1>1, <1>7, <3>1
    <3>2. CASE x # e
      <4>1. pcb[x].state = "SYN_RECEIVED" => \E i \in 1 .. opened[Peer(x)] : pcb[x].rcv = FirstByte(Peer(x), i)
        BY DEF Common
      <4>2. pcb'[x] = pcb[x]
        BY <1>1, <3>2
      <4> QED
        BY <1>7, <4>1, <4>2
    <3> QED
      BY <3>1, <3>2
  <2>2. i \in 1 .. opened'[Peer(x)]
    <3>1. Peer(x) \in End
      BY EndFacts
    <3> QED
      BY <1>2, <3>1
  <2> QED
    BY <2>1, <2>2
<1> QED
  BY <1>4, <1>5, <1>6, <1>7 DEF Common, FirstByte

(* Written on, a stream is expected at the same number.                       *)
LEMMA RecvKept ==
  ASSUME NEW t, NEW u, Grows(t, u), u.read = t.read, NEW p, RecvOK(t, p)
  PROVE  RecvOK(u, p)
  BY DEF Grows, RecvOK

\* what a step of e does to the streams: its own may become longer or final, the other one is read
Flows(e, k, w, d) ==
  /\ written[e] <= w /\ (Final(e, k) => Final(e, k)' /\ w = written[e])
  /\ d \in Seq(Nat) /\ Len(delivered[e]) <= Len(d) /\ Len(d) <= written[Peer(e)]

(* The two streams over a step of e.                                          *)
LEMMA StreamStep ==
  ASSUME IInv, IInv', Common, NEW k \in Nat, k \in 1 .. opened["server"], opened["client"] >= 1,
         NEW e \in End, NEW q, NEW o, NEW w, NEW d, NEW h, NEW sent,
         Step(e, q, o, w, d, h, sent), Flows(e, k, w, d)
  PROVE  /\ Sane(Stream(e, k)') /\ Grows(Stream(e, k), Stream(e, k)')
         /\ Stream(e, k)'.read = Stream(e, k).read /\ Stream(e, k)'.written = w
         /\ Stream(e, k)'.final = Final(e, k)' /\ Stream(e, k)'.base = Base(e, k)
         /\ Sane(Stream(Peer(e), k)') /\ Grows(Stream(Peer(e), k), Stream(Peer(e), k)')
         /\ Stream(Peer(e), k)'.written = Stream(Peer(e), k).written
         /\ Stream(Peer(e), k)'.read = Len(d)
         /\ Stream(Peer(e), k)'.final = Stream(Peer(e), k).final
         /\ Stream(Peer(e), k)'.base = Base(Peer(e), k)
<1>1. PICK y \in End : y = Peer(e) /\ Peer(y) = e /\ y # e
  BY EndFacts
<1>2. /\ pcb'[e] = q /\ opened'[e] = o /\ written'[e] = w /\ delivered'[e] = d
      /\ pcb'[y] = pcb[y] /\ opened'[y] = opened[y] /\ written'[y] = written[y]
      /\ delivered'[y] = delivered[y]
  BY <1>1, StepFacts
<1>3. PICK t, u : t = Stream(e, k) /\ u = Stream(y, k)
  OBVIOUS
<1>4. /\ Sane(t) /\ t.base = Base(e, k) /\ t.written = written[e] /\ t.read = Len(delivered[y]) /\ t.final = Final(e, k)
      /\ Sane(u) /\ u.base = Base(y, k) /\ u.written = written[y] /\ u.read = Len(delivered[e]) /\ u.final = Final(y, k)
  BY <1>1, <1>3, StreamFacts
<1>5. PICK f \in BOOLEAN, g \in BOOLEAN : f = Final(e, k)' /\ g = Final(y, k)
  BY DEF Final
<1>6. Final(y, k)' = g
  BY <1>2, <1>5 DEF Final, Past, Live, Real, Idle
<1>7. PICK b \in SeqNum, c \in SeqNum : b = Base(e, k) /\ c = Base(y, k)
  BY BoundFacts
<1>8. Stream(e, k)' = Flow(b, w, Len(delivered[y]), f)
  BY <1>1, <1>2, <1>5, <1>7 DEF Stream, Base, FirstByte, Real
<1>9. Stream(y, k)' = Flow(c, written[y], Len(d), g)
  BY <1>1, <1>2, <1>6, <1>7 DEF Stream, Base, FirstByte, Real
<1>10. w \in Nat /\ w <= MaxBytes[e] /\ MaxBytes[e] \in Nat /\ MaxBytes[e] + 2 < Half
  <2>1. MaxBytes[e] \in Nat /\ MaxBytes[e] + 2 < Half
    BY BytesAssumption, SeqAssumption DEF Half
  <2>2. written'[e] \in Nat /\ written'[e] <= MaxBytes[e]
    BY DEF IInv, Bounded
  <2> QED
    BY <1>2, <2>1, <2>2
<1>11. w + 2 < Half
  BY <1>10, SeqModFacts
<1>12. /\ Len(delivered[y]) \in Nat /\ Len(delivered[y]) <= written[e] /\ written[e] \in Nat
       /\ Len(delivered[e]) \in Nat /\ Len(delivered[e]) <= written[y] /\ written[y] \in Nat
       /\ written[y] + 2 < Half
  BY <1>1, StreamFacts
<1>13. PICK r \in Nat, v \in Nat, z \in Nat :
         r = Len(delivered[y]) /\ v = written[e] /\ z = written[y] /\ r <= v /\ z + 2 < Half
  BY <1>12
<1>14. PICK l \in Nat : l = Len(d) /\ l <= z /\ Len(delivered[e]) <= l
  BY <1>1, <1>13 DEF Flows
<1>z. PICK z0 \in BOOLEAN : z0 = Final(e, k)
  BY DEF Final
<1>15. v <= w /\ r <= w /\ (z0 = TRUE => f = TRUE /\ w = v)
  <2>1. v <= w /\ (z0 = TRUE => f = TRUE /\ w = v)
    BY <1>5, <1>13, <1>z DEF Flows
  <2> QED
    BY <1>10, <1>13, <2>1
<1>16. PICK tt, uu : tt = Stream(e, k)' /\ uu = Stream(y, k)'
  OBVIOUS
<1>17. Sane(tt) /\ tt.base = b /\ tt.written = w /\ tt.read = r /\ tt.final = f
  <2>1. tt = Flow(b, w, r, f)
    BY <1>8, <1>13, <1>16
  <2>2. w \in Nat /\ r <= w /\ w + 2 < Half
    BY <1>10, <1>11, <1>15
  <2> QED
    BY <2>1, <2>2, FlowFacts
<1>18. Sane(uu) /\ uu.base = c /\ uu.written = z /\ uu.read = l /\ uu.final = g
  BY <1>9, <1>13, <1>14, <1>16, FlowFacts
<1>19. Grows(t, tt)
  BY <1>4, <1>7, <1>13, <1>15, <1>17, <1>z DEF Grows
<1>20. Grows(u, uu)
  BY <1>4, <1>5, <1>7, <1>13, <1>14, <1>18 DEF Grows
<1> QED
  BY <1>1, <1>3, <1>4, <1>5, <1>7, <1>13, <1>14, <1>16, <1>17, <1>18, <1>19, <1>20

(* The PCB of e after the step: the client's or the server's k-th connection  *)
(* in step with the streams, or none of theirs.                               *)
Fitting(e, k, q, o, w, d) ==
  /\ o > Real(e, k) => q.state \in Idle
  /\ e = "client" /\ o = 1 => q.state \notin Opening
  /\ e = "server" /\ o = k /\ q.state = "SYN_RECEIVED" => q.rcv = Base("client", k) /\ w = 0 /\ d = <<>>
  /\ o = Real(e, k) /\ q.state \notin Idle => SendOK(Stream(e, k)', q) /\ RecvOK(Stream(Peer(e), k)', q)

(* The connection over a step of e.                                           *)
LEMMA BoundStep ==
  ASSUME IInv, IInv', Common, NEW k \in Nat, Bound(k),
         NEW e \in End, NEW q, NEW o, NEW w, NEW d, NEW h, NEW sent,
         Step(e, q, o, w, d, h, sent), Flows(e, k, w, d), o \in {opened[e], opened[e] + 1},
         o = opened[e] /\ q.state = "SYN_RECEIVED" => pcb[e].state = "SYN_RECEIVED" /\ q.rcv = pcb[e].rcv,
         Fitting(e, k, q, o, w, d),
         h = "ok" => (o > Real(e, k) \/ q.state = "CLOSED") /\ Len(delivered[Peer(e)]) = w,
         \A s \in sent : "RST" \in s.flags \/ SynOK(e, s)' \/ DataOK(Stream(e, k)', Stream(Peer(e), k)', s)
  PROVE  Bound(k)'
<1>1. PICK y \in End : y = Peer(e) /\ Peer(y) = e /\ y # e
  BY EndFacts
<1>2. /\ pcb'[e] = q /\ opened'[e] = o /\ written'[e] = w /\ delivered'[e] = d /\ outcome'[e] = h
      /\ pcb'[y] = pcb[y] /\ opened'[y] = opened[y] /\ written'[y] = written[y]
      /\ delivered'[y] = delivered[y] /\ outcome'[y] = outcome[y]
  BY <1>1, StepFacts
<1>3. k \in 1 .. opened["server"] /\ opened["client"] >= 1
  BY DEF Bound
<1>4. PICK t, u, tt, uu : t = Stream(e, k) /\ u = Stream(y, k) /\ tt = Stream(e, k)' /\ uu = Stream(y, k)'
  OBVIOUS
<1>5. /\ Sane(t) /\ Sane(u) /\ Sane(tt) /\ Sane(uu) /\ Grows(t, tt) /\ Grows(u, uu)
      /\ tt.read = t.read /\ uu.written = u.written
  BY <1>1, <1>3, <1>4, StreamFacts, StreamStep
<1>6. \A x \in End : opened[x] \in Nat /\ opened'[x] \in Nat /\ opened[x] <= opened'[x]
  <2>1. \A x \in End : opened[x] \in Nat
    BY OpenedFacts
  <2> QED
    BY <1>1, <1>2, <2>1, EndFacts
<1>7. k \in 1 .. opened'["server"] /\ opened'["client"] >= 1
  <2>1. "server" \in End /\ "client" \in End
    BY EndFacts
  <2> QED
    BY <1>3, <1>6, <2>1
<1>8. \A x \in End : Real(x, k) \in Nat /\ Real(x, k) <= opened[x]
  <2>1. ASSUME NEW x \in End PROVE Real(x, k) \in Nat /\ Real(x, k) <= opened[x]
    BY <1>3, BoundFacts
  <2> QED
    BY <2>1
<1>9. ASSUME NEW x \in End PROVE opened'[x] > Real(x, k) => pcb'[x].state \in Idle
  <2>1. CASE x = e
    BY <1>2, <2>1 DEF Fitting
  <2>2. CASE x = y
    BY <1>2, <2>2 DEF Bound
  <2> QED
    BY <1>1, <2>1, <2>2, EndFacts
<1>10. opened'["client"] = 1 => pcb'["client"].state \notin Opening
  <2>1. CASE e = "client"
    BY <1>2, <2>1 DEF Fitting
  <2>2. CASE y = "client"
    BY <1>2, <2>2 DEF Bound
  <2> QED
    BY <1>1, <2>1, <2>2, EndFacts
<1>11. ASSUME opened'["server"] = k, pcb'["server"].state = "SYN_RECEIVED"
       PROVE  /\ pcb'["server"].rcv = Base("client", k)
              /\ written'["server"] = 0 /\ delivered'["server"] = <<>>
  <2>1. CASE e = "server"
    BY <1>2, <1>11, <2>1 DEF Fitting
  <2>2. CASE y = "server"
    BY <1>2, <1>11, <2>2 DEF Bound
  <2> QED
    BY <1>1, <2>1, <2>2, EndFacts
<1>12. ASSUME NEW x \in End, Live(x, k)'
       PROVE  SendOK(Stream(x, k)', pcb'[x]) /\ RecvOK(Stream(Peer(x), k)', pcb'[x])
  <2>0. opened'[x] = Real(x, k) /\ pcb'[x].state \notin Idle
    BY <1>12 DEF Live, Real, Idle
  <2>1. CASE x = e
    BY <1>1, <1>2, <2>0, <2>1 DEF Fitting
  <2>2. CASE x = y
    <3>1. Live(y, k)
      BY <1>2, <2>0, <2>2 DEF Live
    <3>2. SendOK(u, pcb[y]) /\ RecvOK(t, pcb[y])
      BY <1>1, <1>4, <3>1 DEF Bound
    <3>3. SendOK(uu, pcb[y]) /\ RecvOK(tt, pcb[y])
      BY <1>5, <3>2, SendKept, RecvKept
    <3> QED
      BY <1>1, <1>2, <1>4, <2>2, <3>3
  <2> QED
    BY <1>1, <2>1, <2>2, EndFacts
<1>13. ASSUME NEW x \in End, NEW s \in net'[Peer(x)]
       PROVE  "RST" \in s.flags \/ SynOK(x, s)' \/ DataOK(Stream(x, k)', Stream(Peer(x), k)', s)
  <2>1. CASE x = e /\ s \in sent
    BY <2>1
  <2>2. CASE s \in net[Peer(x)]
    <3>1. "RST" \in s.flags \/ SynOK(x, s) \/ DataOK(Stream(x, k), Stream(Peer(x), k), s)
      BY <2>2 DEF Bound
    <3>2. ASSUME SynOK(x, s) PROVE SynOK(x, s)'
      BY <3>2, SynKept
    <3>3. ASSUME DataOK(Stream(x, k), Stream(Peer(x), k), s)
          PROVE  DataOK(Stream(x, k)', Stream(Peer(x), k)', s)
      <4>0. s \in Segments
        BY <2>2, EndFacts DEF IInv
      <4>1. CASE x = e
        BY <1>1, <1>4, <1>5, <3>3, <4>0, <4>1, DataKept
      <4>2. CASE x = y
        BY <1>1, <1>4, <1>5, <3>3, <4>0, <4>2, DataKept
      <4> QED
        BY <1>1, <4>1, <4>2, EndFacts
    <3> QED
      BY <3>1, <3>2, <3>3
  <2> QED
    BY <2>1, <2>2 DEF Step
<1>14. ASSUME NEW x \in End, outcome'[x] = "ok"
       PROVE  Past(x, k)' /\ Len(delivered'[Peer(x)]) = written'[x]
  <2>1. CASE x = e
    <3>1. (o > Real(e, k) \/ q.state = "CLOSED") /\ Len(delivered[y]) = w
      BY <1>1, <1>2, <1>14, <2>1
    <3>2. o >= Real(e, k) /\ o \in Nat /\ Real(e, k) \in Nat
      BY <1>2, <1>6, <1>8
    <3>3. opened'[e] > Real(e, k) \/ (opened'[e] = Real(e, k) /\ pcb'[e].state = "CLOSED")
      BY <1>2, <3>1, <3>2
    <3> QED
      BY <1>1, <1>2, <2>1, <3>1, <3>3 DEF Past, Real
  <2>2. CASE x = y
    <3>1. Past(y, k) /\ Len(delivered[e]) = written[y]
      BY <1>1, <1>2, <1>14, <2>2 DEF Bound
    <3>2. Past(y, k)'
      BY <1>2, <3>1 DEF Past, Real
    <3>3. Len(d) = written[y]
      <4>1. written[y] \in Nat
        BY <1>1, <1>3, StreamFacts
      <4> QED
        BY <1>1, <3>1, <4>1 DEF Flows
    <3> QED
      BY <1>1, <1>2, <2>2, <3>2, <3>3
  <2> QED
    BY <1>1, <2>1, <2>2, EndFacts
<1>15. Base("client", k)' = Base("client", k)
  BY DEF Base, FirstByte, Real
<1> QED
  BY <1>7, <1>9, <1>10, <1>11, <1>12, <1>13, <1>14, <1>15 DEF Bound, Real, Idle, Opening, Base, FirstByte
-----------------------------------------------------------------------------
(* What a handler of e leaves: its PCB, and its segments on the air.          *)
Puts(e, q, sent) ==
  /\ pcb' = [pcb EXCEPT ![e] = q]
  /\ \A x \in End : \A s \in net'[Peer(x)] : s \in net[Peer(x)] \/ (x = e /\ s \in sent)

(* A handler that commits.                                                    *)
LEMMA CommitPuts ==
  ASSUME IInv, NEW e \in End, NEW c \in WorkType, Commit(e, c)
  PROVE  Puts(e, c.p, c.sent)
<1> DEFINE gone(p, x) == ~InUse(p) /\ (left.conns = 0 \/ (~listening[x] /\ opened[x] > 0))
           mine == IF gone(c.p, e) THEN {} ELSE net[e]
           far  == IF gone(pcb[Peer(e)], Peer(e)) THEN {} ELSE net[Peer(e)] \cup c.sent
<1>1. pcb' = [pcb EXCEPT ![e] = c.p] /\ net' = [net EXCEPT ![e] = mine, ![Peer(e)] = far]
  BY PeerFacts DEF Commit
<1>2. mine \subseteq net[e] /\ far \subseteq net[Peer(e)] \cup c.sent
  OBVIOUS
<1> HIDE DEF mine, far
<1>3. net'[e] = mine /\ net'[Peer(e)] = far
  BY <1>1, PeerFacts DEF IInv
<1>4. ASSUME NEW x \in End, NEW s \in net'[Peer(x)]
      PROVE  s \in net[Peer(x)] \/ (x = e /\ s \in c.sent)
  <2>1. CASE x = e
    BY <1>2, <1>3, <1>4, <2>1
  <2>2. CASE x = Peer(e)
    <3>1. Peer(x) = e
      BY <2>2, EndFacts
    <3> QED
      BY <1>2, <1>3, <1>4, <3>1
  <2> QED
    BY <2>1, <2>2, EndFacts
<1> QED
  BY <1>1, <1>4 DEF Puts

(* A handler that frees the slot.                                             *)
LEMMA ReleasePuts ==
  ASSUME IInv, NEW e \in End, NEW c \in WorkType, NEW how, Release(e, c, how)
  PROVE  Puts(e, FreeSlot, c.sent) /\ outcome' = [outcome EXCEPT ![e] = how]
<1>1. PICK d : d = [c EXCEPT !.p = FreeSlot]
  OBVIOUS
<1>2. d \in WorkType /\ d.p = FreeSlot /\ d.sent = c.sent
  BY <1>1, FreeFacts DEF WorkType
<1>3. Commit(e, d) /\ outcome' = [outcome EXCEPT ![e] = how]
  BY <1>1 DEF Release
<1> QED
  BY <1>2, <1>3, CommitPuts

\* a handler that opens no connection, and the three histories
LEMMA PutsStep ==
  ASSUME IInv, Common, NEW e \in End, NEW q, NEW sent, Puts(e, q, sent), listening' = listening, opened' = opened,
         NEW w, written' = [written EXCEPT ![e] = w] \/ (written' = written /\ w = written[e]),
         NEW d, delivered' = [delivered EXCEPT ![e] = d] \/ (delivered' = delivered /\ d = delivered[e]),
         NEW h, outcome' = [outcome EXCEPT ![e] = h] \/ (outcome' = outcome /\ h = outcome[e])
  PROVE  Step(e, q, opened[e], w, d, h, sent)
<1>1. /\ written \in [End -> Nat] /\ opened \in [End -> Nat] /\ delivered \in [End -> Seq(Nat)]
      /\ outcome \in [End -> {"none", "ok", "error", "aborted", "unopened"}]
  BY DEF IInv, Bounded, Common
<1>2. written' = [written EXCEPT ![e] = w]
  BY <1>1
<1>3. delivered' = [delivered EXCEPT ![e] = d]
  BY <1>1
<1>4. outcome' = [outcome EXCEPT ![e] = h]
  BY <1>1
<1>5. opened' = [opened EXCEPT ![e] = opened[e]]
  BY <1>1
<1> QED
  BY <1>2, <1>3, <1>4, <1>5 DEF Puts, Step
-----------------------------------------------------------------------------
(* The steps of a connection that is open. *)

\* what e sends and what it receives, after a step in which it wrote up to w and took d
Own(e, k, w, fin) == Flow(Base(e, k), w, Len(delivered[Peer(e)]), fin)
Far(e, k, d)      == Flow(Base(Peer(e), k), written[Peer(e)], Len(d), Final(Peer(e), k))

(* A PCB in step with the streams t, which it sends, and u, which it receives. *)
InStep(t, u, p) ==
  /\ Sane(t) /\ Sane(u) /\ Sync(p) /\ SendOK(t, p) /\ RecvOK(u, p)
  /\ p.fin_queued = TRUE => t.final = TRUE

\* e goes on with PCB q and the segments of sent, w bytes written and d taken in all
Onward(e, k, q, w, d, sent, t, u) ==
  /\ t = Own(e, k, w, q.fin_queued) /\ u = Far(e, k, d) /\ InStep(t, u, q) /\ \A s \in sent : DataOK(t, u, s)
  /\ pcb[e].fin_queued = TRUE => q.fin_queued = TRUE /\ w = written[e]
  /\ written[e] <= w
  /\ d \in Seq(Nat) /\ Len(delivered[e]) <= Len(d) /\ Len(d) <= written[Peer(e)]
  /\ \A i \in 1 .. Len(d) : d[i] = i

(* A step of an open connection that leaves it open.                          *)
LEMMA SyncStep ==
  ASSUME IInv, IInv', Common, NEW k \in Nat, Bound(k), NEW e \in End,
         opened[e] = Real(e, k), pcb[e].state # "CLOSED",
         NEW q, NEW w, NEW d, NEW sent, Step(e, q, opened[e], w, d, outcome[e], sent),
         NEW t, NEW u, Onward(e, k, q, w, d, sent, t, u)
  PROVE  StreamInv'
<1>0. /\ Sync(q) /\ written[e] <= w
      /\ pcb[e].fin_queued = TRUE => q.fin_queued = TRUE /\ w = written[e]
      /\ d \in Seq(Nat) /\ Len(delivered[e]) <= Len(d) /\ Len(d) <= written[Peer(e)]
      /\ \A i \in 1 .. Len(d) : d[i] = i
      /\ SendOK(t, q) /\ RecvOK(u, q) /\ t = Own(e, k, w, q.fin_queued) /\ u = Far(e, k, d)
      /\ \A s \in sent : DataOK(t, u, s)
  BY DEF Onward, InStep
<1>1. q.state \notin Idle /\ q.fin_queued \in BOOLEAN
  BY <1>0, PcbFields DEF Sync, Idle
<1>2. opened[e] \in {opened[e], opened[e] + 1}
  OBVIOUS
<1>3. Common'
  BY <1>0, <1>1, <1>2, CommonStep DEF Idle, Opening
<1>4. PICK y \in End : y = Peer(e) /\ Peer(y) = e /\ y # e
  BY EndFacts
<1>5. /\ pcb'[e] = q /\ opened'[e] = opened[e] /\ written'[e] = w /\ delivered'[e] = d
      /\ pcb'[y] = pcb[y] /\ opened'[y] = opened[y] /\ written'[y] = written[y] /\ delivered'[y] = delivered[y]
  BY <1>4, StepFacts
<1>6. opened[e] \in Nat
  BY OpenedFacts
<1>7. ~Past(e, k) /\ ~(opened[e] > Real(e, k))
  BY <1>6 DEF Past
<1>8. Final(e, k)' = q.fin_queued
  <2>1. opened'[e] = Real(e, k) /\ pcb'[e].state # "CLOSED" /\ ~(opened'[e] > Real(e, k))
    BY <1>1, <1>5, <1>7 DEF Idle
  <2>2. Past(e, k)' = FALSE
    BY <2>1 DEF Past, Real
  <2>3. Live(e, k)' = TRUE
    BY <1>1, <1>5 DEF Live, Real, Idle
  <2> QED
    BY <1>1, <1>5, <2>2, <2>3 DEF Final
<1>9. Final(e, k) => Final(e, k)' /\ w = written[e]
  <2>1. Final(e, k) => pcb[e].fin_queued = TRUE
    BY <1>7 DEF Final
  <2> QED
    BY <1>0, <1>8, <2>1
<1>10. Flows(e, k, w, d)
  BY <1>0, <1>9 DEF Flows
<1>11. Final(y, k)' = Final(y, k)
  BY <1>5 DEF Final, Past, Live, Real, Idle
<1>12. Stream(e, k)' = t
  BY <1>0, <1>4, <1>5, <1>8 DEF Stream, Own, Base, FirstByte, Real
<1>13. Stream(y, k)' = u
  BY <1>0, <1>4, <1>5, <1>11 DEF Stream, Far, Base, FirstByte, Real
<1>14. Fitting(e, k, q, opened[e], w, d)
  BY <1>0, <1>1, <1>4, <1>7, <1>12, <1>13 DEF Fitting, Idle, Opening
<1>15. outcome[e] # "ok"
  BY <1>7 DEF Bound
<1>16. \A s \in sent : "RST" \in s.flags \/ SynOK(e, s)' \/ DataOK(Stream(e, k)', Stream(Peer(e), k)', s)
  BY <1>0, <1>4, <1>12, <1>13
<1>17. opened[e] = opened[e] /\ q.state = "SYN_RECEIVED" => pcb[e].state = "SYN_RECEIVED" /\ q.rcv = pcb[e].rcv
  BY <1>1 DEF Idle, Opening
<1>18. Bound(k)'
  BY <1>2, <1>10, <1>14, <1>15, <1>16, <1>17, BoundStep
<1> QED
  BY <1>3, <1>18 DEF StreamInv
-----------------------------------------------------------------------------

(* tcp_output in the middle of a handler.                                     *)
LEMMA OutputInStep ==
  ASSUME NEW t, NEW u, NEW p, InStep(t, u, p), NEW c \in WorkType, c.p = p, c.sent = {},
         NEW probe \in BOOLEAN, NEW d, d = Output(c, probe)
  PROVE  /\ d \in WorkType /\ InStep(t, u, d.p) /\ d.p.fin_queued = p.fin_queued
         /\ \A s \in d.sent : DataOK(t, u, s)
<1>1. /\ Sane(t) /\ Sane(u) /\ Sync(c.p) /\ SendOK(t, c.p) /\ RecvOK(u, c.p)
      /\ c.p.fin_queued = TRUE => t.final = TRUE
  BY DEF InStep
<1>2. d \in WorkType /\ Sync(d.p) /\ SameQueue(d.p, c.p)
  BY <1>1, OutputFacts
<1>3. SendOK(t, d.p) /\ RecvOK(u, d.p) /\ \A s \in d.sent : DataOK(t, u, s)
  BY <1>1, OutputStream
<1> QED
  BY <1>1, <1>2, <1>3 DEF InStep, SameQueue

(* The timer may be armed.                                                    *)
LEMMA ArmInStep ==
  ASSUME NEW t, NEW u, NEW p, InStep(t, u, p), NEW q \in {p, Arm(p), ArmIfOff(p)}
  PROVE  InStep(t, u, q) /\ q.fin_queued = p.fin_queued
<1>1. p \in Pcb /\ Sync(p)
  BY DEF InStep, Sync
<1>2. Sync(q) /\ SameQueue(q, p)
  BY <1>1, ArmSync DEF SameQueue
<1>3. FinDone(q) <=> FinDone(p)
  BY <1>1, ArmDone
<1>4. SendOK(t, q)
  BY <1>2, <1>3, SendSame DEF InStep, SameQueue
<1> QED
  BY <1>2, <1>4 DEF InStep, SameQueue, RecvOK

(* The end of tcp_input, as a step.                                           *)
LEMMA FlushInStep ==
  ASSUME IInv, NEW e \in End, NEW t, NEW u, NEW p, InStep(t, u, p), NEW ackDue \in BOOLEAN, Flush(e, p, ackDue)
  PROVE  \E q, sent : /\ Puts(e, q, sent) /\ InStep(t, u, q) /\ q.fin_queued = p.fin_queued
                      /\ \A s \in sent : DataOK(t, u, s)
<1>1. PICK room \in Room :
        LET c == Output([Work(p, room) EXCEPT !.ackDue = ackDue], FALSE)
        IN /\ Driver(room, c, 0)
           /\ Commit(e, IF c.ackDue THEN SendCtl(c, {"ACK"}) ELSE c)
  BY DEF Flush
<1>2. PICK w : w = [Work(p, room) EXCEPT !.ackDue = ackDue]
  OBVIOUS
<1>n. PICK no \in BOOLEAN : no = FALSE
  OBVIOUS
<1>3. PICK c : c = Output(w, no)
  OBVIOUS
<1>4. p \in Pcb
  BY DEF InStep, Sync
<1>5. w \in WorkType /\ w.p = p /\ w.sent = {}
  <2>1. Work(p, room) \in WorkType /\ Work(p, room).p = p /\ Work(p, room).sent = {}
    BY <1>4, RoomFacts, WorkFacts
  <2> QED
    BY <1>2, <2>1 DEF WorkType
<1>6. /\ c \in WorkType /\ InStep(t, u, c.p) /\ c.p.fin_queued = p.fin_queued
      /\ \A s \in c.sent : DataOK(t, u, s)
  BY <1>3, <1>5, OutputInStep
<1>7. PICK d : d = IF c.ackDue THEN SendCtl(c, {"ACK"}) ELSE c
  OBVIOUS
<1>8. Commit(e, d)
  BY <1>1, <1>2, <1>3, <1>7, <1>n
<1>9. PICK nxt \in SeqNum : nxt = c.p.nxt
  BY <1>6, PcbFields DEF InStep, Sync
<1>10. PICK x : x = Send(c, {"ACK"}, nxt, <<>>)
  OBVIOUS
<1>11. d \in {c, x}
  BY <1>7, <1>9, <1>10 DEF SendCtl
<1>12. x \in WorkType /\ x.p = c.p
  <2>1. <<>> \in Seq(Nat) /\ {"ACK"} \in SUBSET {"SYN", "ACK", "FIN", "RST"}
    OBVIOUS
  <2> QED
    BY <1>6, <1>10, <2>1, SendFacts
<1>13. ASSUME NEW s \in x.sent PROVE DataOK(t, u, s)
  <2>1. s \in c.sent \/ (s.flags = {"ACK"} /\ s.ack = c.p.rcv /\ s.data = <<>>)
    BY <1>6, <1>10, <1>13, SendSent
  <2>2. CASE s \in c.sent
    BY <1>6, <2>2
  <2>3. CASE s.flags = {"ACK"} /\ s.ack = c.p.rcv /\ s.data = <<>>
    <3>1. AckNum(u, s.ack)
      BY <1>6, <2>3, RecvAck DEF InStep
    <3> QED
      BY <2>3, <3>1 DEF DataOK, Carries
  <2> QED
    BY <2>1, <2>2, <2>3
<1>14. d \in WorkType /\ d.p = c.p /\ \A s \in d.sent : DataOK(t, u, s)
  BY <1>6, <1>11, <1>12, <1>13
<1>15. Puts(e, c.p, d.sent)
  BY <1>8, <1>14, CommitPuts
<1> QED
  BY <1>6, <1>14, <1>15

(* A connection that is open, and the streams it carries.                     *)
Carried(e, k, t, u) ==
  /\ Bound(k) /\ opened[e] = Real(e, k) /\ t = Own(e, k, written[e], pcb[e].fin_queued)
  /\ u = Far(e, k, delivered[e]) /\ InStep(t, u, pcb[e])
  /\ t.written = written[e] /\ t.read = Len(delivered[Peer(e)]) /\ t.final = pcb[e].fin_queued
  /\ t.base = Base(e, k)
  /\ u.written = written[Peer(e)] /\ u.read = Len(delivered[e]) /\ u.base = Base(Peer(e), k)
  /\ t = Stream(e, k) /\ u = Stream(Peer(e), k)

(* The streams as one end sees them.                                          *)
LEMMA SideFacts ==
  ASSUME IInv, Common, NEW k \in Nat, k \in 1 .. opened["server"], opened["client"] >= 1, NEW e \in End,
         NEW w \in Nat, Len(delivered[Peer(e)]) <= w, w <= MaxBytes[e], NEW fin \in BOOLEAN,
         NEW d \in Seq(Nat), Len(d) <= written[Peer(e)],
         NEW t, t = Own(e, k, w, fin), NEW u, u = Far(e, k, d)
  PROVE  /\ Sane(t) /\ t.written = w /\ t.read = Len(delivered[Peer(e)]) /\ t.final = fin /\ t.base = Base(e, k)
         /\ Sane(u) /\ u.written = written[Peer(e)] /\ u.read = Len(d) /\ u.base = Base(Peer(e), k)
         /\ u.final = Final(Peer(e), k)
<1>1. PICK y \in End : y = Peer(e) /\ Peer(y) = e
  BY EndFacts
<1>2. /\ Base(e, k) \in SeqNum /\ Base(y, k) \in SeqNum
  BY BoundFacts
<1>3. PICK r \in Nat : r = Len(delivered[y]) /\ r <= w
  BY <1>1 DEF Common
<1>4. w + 2 < Half
  <2>1. MaxBytes[e] \in Nat /\ MaxBytes[e] + 2 < Half
    BY BytesAssumption, SeqAssumption DEF Half
  <2> QED
    BY <2>1, SeqModFacts
<1>5. PICK v \in Nat : v = written[y] /\ v + 2 < Half
  BY <1>1, StreamFacts
<1>6. PICK l \in Nat : l = Len(d) /\ l <= v
  BY <1>1, <1>5
<1>7. PICK g \in BOOLEAN : g = Final(y, k)
  BY DEF Final
<1>8. t = Flow(Base(e, k), w, r, fin) /\ u = Flow(Base(y, k), v, l, g)
  BY <1>1, <1>3, <1>5, <1>6, <1>7 DEF Own, Far
<1>9. Sane(t) /\ t.base = Base(e, k) /\ t.written = w /\ t.read = r /\ t.final = fin
  BY <1>2, <1>3, <1>4, <1>8, FlowFacts
<1>10. Sane(u) /\ u.base = Base(y, k) /\ u.written = v /\ u.read = l /\ u.final = g
  BY <1>2, <1>5, <1>6, <1>8, FlowFacts
<1> QED
  BY <1>1, <1>3, <1>5, <1>6, <1>7, <1>9, <1>10

(* An open PCB belongs to the connection the two ends share.                  *)
LEMMA LiveFacts ==
  ASSUME IInv, StreamInv, NEW e \in End, pcb[e].state \notin Idle
  PROVE  \E k \in Nat : \E t, u : Carried(e, k, t, u)
<1>1. Common
  BY DEF StreamInv
<1>2. PICK k \in Nat : Bound(k)
  BY DEF StreamInv, Unbound
<1>3. k \in 1 .. opened["server"] /\ opened["client"] >= 1
  BY <1>2 DEF Bound
<1>4. Real(e, k) \in 1 .. opened[e] /\ opened[e] \in Nat /\ Real(e, k) \in Nat
  BY <1>2, <1>3, BoundFacts
<1>5. ~(opened[e] > Real(e, k))
  BY <1>2 DEF Bound
<1>6. opened[e] = Real(e, k)
  BY <1>4, <1>5
<1>7. Live(e, k) /\ ~Past(e, k)
  BY <1>5, <1>6 DEF Live, Past, Idle
<1>8. pcb[e] \in Pcb /\ Sync(pcb[e]) /\ pcb[e].fin_queued \in BOOLEAN
  <2>1. pcb[e] \in Pcb /\ Sync(pcb[e])
    BY StateFacts DEF Idle
  <2> QED
    BY <2>1, PcbFields
<1>9. Final(e, k) = pcb[e].fin_queued
  BY <1>7, <1>8 DEF Final
<1>10. PICK t, u : t = Own(e, k, written[e], pcb[e].fin_queued) /\ u = Far(e, k, delivered[e])
  OBVIOUS
<1>11. t = Stream(e, k) /\ u = Stream(Peer(e), k)
  BY <1>9, <1>10, EndFacts DEF Own, Far, Stream
<1>12. SendOK(t, pcb[e]) /\ RecvOK(u, pcb[e])
  BY <1>2, <1>7, <1>11 DEF Bound
<1>13. /\ written[e] \in Nat /\ Len(delivered[Peer(e)]) <= written[e] /\ written[e] <= MaxBytes[e]
  BY <1>1, <1>3, StreamFacts
<1>14. delivered[e] \in Seq(Nat) /\ Len(delivered[e]) <= written[Peer(e)]
  BY <1>1 DEF Common
<1>15. /\ Sane(t) /\ t.written = written[e] /\ t.read = Len(delivered[Peer(e)]) /\ t.final = pcb[e].fin_queued
       /\ t.base = Base(e, k)
       /\ Sane(u) /\ u.written = written[Peer(e)] /\ u.read = Len(delivered[e]) /\ u.base = Base(Peer(e), k)
  BY <1>1, <1>3, <1>8, <1>10, <1>13, <1>14, SideFacts
<1>16. InStep(t, u, pcb[e])
  BY <1>8, <1>12, <1>15 DEF InStep
<1> QED
  BY <1>2, <1>6, <1>10, <1>11, <1>15, <1>16 DEF Carried

(* SyncStep, for a handler that commits.                                      *)
LEMMA SideStep ==
  ASSUME IInv, IInv', Common, NEW k \in Nat, Bound(k), NEW e \in End,
         opened[e] = Real(e, k), pcb[e].state # "CLOSED",
         NEW q, NEW w, NEW d, NEW sent, Puts(e, q, sent), listening' = listening, opened' = opened, outcome' = outcome,
         written' = [written EXCEPT ![e] = w] \/ (written' = written /\ w = written[e]),
         delivered' = [delivered EXCEPT ![e] = d] \/ (delivered' = delivered /\ d = delivered[e]),
         NEW t, NEW u, Onward(e, k, q, w, d, sent, t, u)
  PROVE  StreamInv'
<1>1. Step(e, q, opened[e], w, d, outcome[e], sent)
  BY PutsStep
<1> QED
  BY <1>1, SyncStep

(* The fields of a stream.                                                    *)
LEMMA FlowFields ==
  ASSUME NEW b, NEW w, NEW r, NEW f
  PROVE  Flow(b, w, r, f).base = b /\ Flow(b, w, r, f).written = w /\ Flow(b, w, r, f).read = r
  BY DEF Flow

(* A stream grows by its bytes.                                               *)
LEMMA FlowLonger ==
  ASSUME NEW b \in SeqNum, NEW w \in Nat, NEW r \in Nat, NEW f \in BOOLEAN, NEW n \in Nat, NEW g \in BOOLEAN
  PROVE  Lengthens(Flow(b, w, r, f), n, g) = Flow(b, w + n, r, g)
<1>1. PICK x \in Nat : x = w + n
  OBVIOUS
<1>2. Flow(b, w, r, f) \in Streams
  BY DEF Flow, Streams
<1>3. PICK t \in Streams : t = [Flow(b, w, r, f) EXCEPT !.written = x, !.final = g]
  BY <1>2 DEF Flow, Streams
<1>4. PICK u \in Streams : u = Flow(b, x, r, g)
  BY DEF Flow, Streams
<1>5. t.base = u.base /\ t.written = u.written /\ t.read = u.read /\ t.final = u.final
  BY <1>2, <1>3, <1>4 DEF Flow, Streams
<1>6. t = u
  BY <1>5 DEF Streams
<1>7. t = Lengthens(Flow(b, w, r, f), n, g)
  <2>1. Flow(b, w, r, f).written + n = x
    BY <1>1 DEF Flow
  <2> QED
    BY <1>3, <2>1 DEF Lengthens
<1> QED
  BY <1>1, <1>4, <1>6, <1>7

(* So does the one e sends.                                                   *)
LEMMA OwnLonger ==
  ASSUME NEW e, NEW k, NEW w \in Nat, NEW no \in BOOLEAN, Sane(Own(e, k, w, no)), NEW n \in Nat, NEW fin \in BOOLEAN
  PROVE  Own(e, k, w + n, fin) = Lengthens(Own(e, k, w, no), n, fin)
<1>1. PICK b, r : b = Base(e, k) /\ r = Len(delivered[Peer(e)])
  OBVIOUS
<1>2. Own(e, k, w, no) = Flow(b, w, r, no) /\ Own(e, k, w + n, fin) = Flow(b, w + n, r, fin)
  BY <1>1 DEF Own
<1>3. Flow(b, w, r, no).base = b /\ Flow(b, w, r, no).read = r
  BY FlowFields
<1>4. b \in SeqNum /\ r \in Nat
  BY <1>2, <1>3 DEF Sane, Streams
<1>5. Lengthens(Flow(b, w, r, no), n, fin) = Flow(b, w + n, r, fin)
  BY <1>4, FlowLonger
<1> QED
  BY <1>2, <1>5

(* The application's bytes and its FIN lengthen the stream and the buffer.    *)
\* p, in step with t and u, may queue n bytes more behind the w written, and then a FIN or none
Appends(e, w, t, u, p, n, st, fin) ==
  /\ InStep(t, u, p) /\ Claims(p) /\ t.written = w /\ t.final = FALSE /\ p.fin_queued = FALSE
  /\ w + n <= MaxBytes[e] /\ Len(p.buf) + n <= MaxCwnd
  /\ FinQueued(st, fin) /\ (CanTakeData(st) <=> CanTakeData(p.state))

(* tcp_write and tcp_close in the middle of a handler.                        *)
LEMMA LongerInStep ==
  ASSUME NEW e \in End, NEW k, NEW w \in Nat, NEW no \in BOOLEAN, NEW t, t = Own(e, k, w, no), NEW u, NEW p,
         NEW n \in Nat, NEW st, NEW fin, Appends(e, w, t, u, p, n, st, fin),
         NEW q, q = Longer(p, Fresh(w, n), st, fin), NEW tt, tt = Own(e, k, w + n, fin)
  PROVE  InStep(tt, u, q) /\ q.fin_queued = fin /\ Claims(q) /\ q.rcv = p.rcv /\ q.state = st
<1>0. /\ InStep(t, u, p) /\ Claims(p) /\ t.written = w /\ t.final = FALSE /\ p.fin_queued = FALSE
      /\ w + n <= MaxBytes[e] /\ Len(p.buf) + n <= MaxCwnd
      /\ FinQueued(st, fin) /\ (CanTakeData(st) <=> CanTakeData(p.state))
  BY DEF Appends
<1>1. /\ Sane(t) /\ Sane(u) /\ Sync(p) /\ SendOK(t, p) /\ RecvOK(u, p)
  BY <1>0 DEF InStep
<1>2. p \in Pcb /\ p.fin_sent = FALSE /\ Len(p.buf) \in Nat /\ p.buf \in Seq(Nat) /\ fin \in BOOLEAN /\ st \in State
  <2>1. p \in Pcb /\ p.fin_sent \in BOOLEAN
    BY <1>0, <1>1, PcbFields DEF Sync
  <2> QED
    BY <1>0, <1>1, <2>1, PcbFields DEF Sync, FinInv, FinQueued, State
<1>3. w + n + 2 < Half
  <2>1. MaxBytes[e] \in Nat /\ MaxBytes[e] + 2 < Half
    BY <1>0, BytesAssumption, SeqAssumption DEF Half
  <2> QED
    BY <1>0, <2>1, SeqModFacts
<1>4. Len(p.buf) <= w
  <2>1. PICK m \in Nat : Holds(t, p, m)
    BY <1>0, <1>1 DEF SendOK
  <2>2. m + Len(p.buf) = w
    BY <1>0, <1>2, <2>1 DEF Holds, FinDone
  <2> QED
    BY <1>0, <1>2, <2>2
<1>5. Len(p.buf) + n + 2 < Half
  <2>1. PICK b \in Nat : b = Len(p.buf) /\ b <= w
    BY <1>0, <1>2, <1>4
  <2>2. b + n + 2 < Half
    BY <1>0, <1>3, <2>1, SeqModFacts
  <2> QED
    BY <1>0, <2>1, <2>2
<1>6. PICK more \in Seq(Nat) : more = Fresh(w, n) /\ Len(more) = n
  BY <1>0, FreshFacts
<1>7. CanQueue(p, more, st, fin)
  BY <1>0, <1>1, <1>5, <1>6 DEF CanQueue, Fits
<1>8. Lengthened(p, more, st, q)
  <2>1. Lengthened(p, more, st, Longer(p, more, st, fin))
    BY <1>0, <1>7, QueueFacts
  <2> QED
    BY <1>0, <1>6, <2>1
<1>9. q.fin_queued = fin /\ q.rcv = p.rcv /\ q.state = st
  BY <1>0, <1>2 DEF Longer, Pcb
<1>10. tt = Lengthens(t, n, fin)
  <2>1. Sane(Own(e, k, w, no)) /\ fin \in BOOLEAN
    BY <1>0, <1>1, <1>2
  <2>2. Own(e, k, w + n, fin) = Lengthens(Own(e, k, w, no), n, fin)
    BY <1>0, <2>1, OwnLonger
  <2> QED
    BY <1>0, <2>2
<1>11. Sane(tt) /\ SendOK(tt, q) /\ tt.final = fin
  <2>1. t.written + n + 2 < Half
    BY <1>0, <1>3
  <2> QED
    <3>1. PICK v : v = t.written /\ v = w
      BY <1>0
    <3>2. q = Longer(p, Fresh(t.written, n), st, fin)
      BY <1>0, <3>1
    <3> QED
      <4>1. t.final = FALSE /\ t.written + n + 2 < Half /\ p.fin_sent = FALSE /\ p \in Pcb /\ fin \in BOOLEAN
        BY <1>0, <1>2, <2>1
      <4>2. /\ Sane(Lengthens(t, n, fin)) /\ Lengthens(t, n, fin).final = fin
            /\ SendOK(Lengthens(t, n, fin), Longer(p, Fresh(t.written, n), st, fin))
        BY <1>0, <1>1, <4>1, LongerStream
      <4> QED
        BY <1>0, <1>10, <3>2, <4>2
<1>12. RecvOK(u, q)
  BY <1>0, <1>1, <1>9 DEF RecvOK
<1> QED
  BY <1>0, <1>1, <1>8, <1>9, <1>11, <1>12 DEF InStep, Lengthened

\* the timer is armed behind tcp_output, or it is not
ThenArms(d, c) == c = d \/ c = [d EXCEPT !.p = Arm(d.p)] \/ c = [d EXCEPT !.p = ArmIfOff(d.p)]

(* A call, or a timer, that ends in tcp_output. *)
LEMMA CallStep ==
  ASSUME IInv, IInv', Common, NEW k \in Nat, NEW e \in End, NEW t0, NEW u, Carried(e, k, t0, u),
         NEW n \in Nat, NEW p, NEW t, t = Own(e, k, written[e] + n, p.fin_queued), InStep(t, u, p),
         pcb[e].fin_queued = TRUE => p.fin_queued = TRUE /\ n = 0,
         NEW room \in Nat, NEW probe \in BOOLEAN, NEW d, d = Output(Work(p, room), probe),
         NEW c, ThenArms(d, c),
         Commit(e, c), listening' = listening, opened' = opened, outcome' = outcome, delivered' = delivered,
         written' = [written EXCEPT ![e] = @ + n] \/ (written' = written /\ n = 0)
  PROVE  StreamInv'
<1>1. PICK w : w = Work(p, room)
  OBVIOUS
<1>2. p \in Pcb
  BY DEF InStep, Sync
<1>3. w \in WorkType /\ w.p = p /\ w.sent = {}
  BY <1>1, <1>2, WorkFacts
<1>4. /\ d \in WorkType /\ InStep(t, u, d.p) /\ d.p.fin_queued = p.fin_queued
      /\ \A s \in d.sent : DataOK(t, u, s)
  BY <1>1, <1>3, OutputInStep
<1>5. PICK q : q \in {d.p, Arm(d.p), ArmIfOff(d.p)} /\ ((c = d /\ q = d.p) \/ c = [d EXCEPT !.p = q])
  BY DEF ThenArms
<1>6. InStep(t, u, q) /\ q.fin_queued = p.fin_queued
  BY <1>4, <1>5, ArmInStep
<1>7. c \in WorkType /\ c.p = q /\ c.sent = d.sent
  <2>1. q \in Pcb
    BY <1>6 DEF InStep, Sync
  <2> QED
    BY <1>4, <1>5, <2>1 DEF WorkType
<1>8. Puts(e, q, d.sent)
  BY <1>7, CommitPuts
<1>9. /\ Bound(k) /\ opened[e] = Real(e, k) /\ pcb[e].state # "CLOSED" /\ u = Far(e, k, delivered[e])
  BY DEF Carried, InStep, Sync
<1>10. written[e] \in Nat /\ delivered[e] \in Seq(Nat) /\ Len(delivered[e]) \in Nat
  BY StateFacts DEF Common
<1>11. /\ Len(delivered[e]) <= written[Peer(e)] /\ \A i \in 1 .. Len(delivered[e]) : delivered[e][i] = i
       /\ Len(delivered[e]) <= Len(delivered[e])
  BY <1>10 DEF Common
<1>12. PICK x \in Nat : x = written[e] + n
  BY <1>10
<1>13. /\ written' = [written EXCEPT ![e] = x] \/ (written' = written /\ x = written[e])
       /\ written[e] <= x /\ (n = 0 => x = written[e])
  BY <1>10, <1>12
<1>14. t = Own(e, k, x, q.fin_queued)
  BY <1>6, <1>12
<1>15. Onward(e, k, q, x, delivered[e], d.sent, t, u)
  BY <1>4, <1>6, <1>9, <1>10, <1>11, <1>13, <1>14 DEF Onward
<1> QED
  BY <1>8, <1>9, <1>13, <1>15, SideStep
-----------------------------------------------------------------------------
(* The calls and the timers of a connection that is open.                     *)
LEMMA WriteStream ==
  ASSUME IInv, IInv', StreamInv, NEW e \in End, NEW n \in 1 .. MaxBytes[e], Write(e, n)
  PROVE  StreamInv'
<1>1. n \in Nat /\ Common
  BY BytesAssumption DEF StreamInv
<1>p. PICK p : p = pcb[e]
  OBVIOUS
<1>n. PICK no \in BOOLEAN : no = FALSE
  OBVIOUS
<1>2. p = pcb[e] /\ no = FALSE
  BY <1>p, <1>n
<1>3. /\ p.state \in {"ESTABLISHED", "CLOSE_WAIT"} /\ p.fin_queued = no
      /\ Len(p.buf) + n <= MaxCwnd /\ written[e] + n <= MaxBytes[e]
      /\ written' = [written EXCEPT ![e] = @ + n] /\ opened' = opened /\ outcome' = outcome
      /\ listening' = listening /\ delivered' = delivered
  <2>1. p \in Pcb
    BY <1>2, StateFacts
  <2>2. p.fin_queued \in BOOLEAN
    BY <2>1, PcbFields
  <2> QED
    BY <1>2, <2>2 DEF Write
<1>4. p.state \notin Idle /\ p \in Pcb /\ Claims(p) /\ written[e] \in Nat /\ p.buf \in Seq(Nat)
  <2>1. p.state \notin Idle
    BY <1>3 DEF Idle, Opening
  <2> QED
    BY <1>2, <2>1, StateFacts, PcbFields DEF Idle
<1>k. PICK k \in Nat : \E t, u : Carried(e, k, t, u)
  BY <1>2, <1>4, LiveFacts
<1>5. PICK t, u : Carried(e, k, t, u)
  BY <1>k
<1>6. PICK q : q = Longer(p, Fresh(written[e], n), p.state, no)
  OBVIOUS
<1>7. PICK tt : tt = Own(e, k, written[e] + n, no)
  OBVIOUS
<1>8. InStep(tt, u, q) /\ q.fin_queued = no
  <2>1. FinQueued(p.state, no)
    BY <1>2, <1>3 DEF FinQueued
  <2>2. /\ t = Own(e, k, written[e], no) /\ InStep(t, u, p) /\ t.written = written[e]
        /\ t.final = FALSE /\ p.fin_queued = FALSE
    BY <1>2, <1>3, <1>5 DEF Carried
  <2>3. Appends(e, written[e], t, u, p, n, p.state, no)
    BY <1>3, <1>4, <2>1, <2>2 DEF Appends
  <2> QED
    BY <1>1, <1>4, <1>6, <1>7, <2>2, <2>3, LongerInStep
<1>9. q = [p EXCEPT !.buf = @ \o Queued(e, n)]
  <2>1. p = [x \in DOMAIN p |-> p[x]] /\ {"buf", "state", "fin_queued"} \subseteq DOMAIN p
        /\ p["fin_queued"] = no
    BY <1>3, <1>4 DEF Pcb
  <2>2. PICK more : more = Fresh(written[e], n) /\ more = Queued(e, n)
    BY ZenonT(30) DEF Queued, Fresh
  <2>3. PICK r : r = [p EXCEPT !.buf = p.buf \o more]
    OBVIOUS
  <2>4. r = [x \in DOMAIN r |-> r[x]] /\ {"state", "fin_queued"} \subseteq DOMAIN r
        /\ r["fin_queued"] = no /\ r["state"] = p.state
    BY <2>1, <2>3
  <2>5. [r EXCEPT !.state = p.state, !.fin_queued = no] = r
    BY <2>4
  <2> QED
    BY <1>6, <2>2, <2>3, <2>5 DEF Longer
<1>10. PICK room, c :
         /\ room \in Room /\ c = Output(Work(q, room), FALSE)
         /\ Driver(room, c, 0) /\ Commit(e, c)
  BY <1>2, <1>9 DEF Write
<1>11. room \in Nat
  BY <1>10, RoomFacts
<1>12. pcb[e].fin_queued = FALSE
  BY <1>2, <1>3
<1>13. ThenArms(c, c)
  BY DEF ThenArms
<1> QED
  BY <1>1, <1>2, <1>3, <1>5, <1>7, <1>8, <1>10, <1>11, <1>12, <1>13, CallStep

(* tcp_close of an open connection.                                           *)
LEMMA CloseStream ==
  ASSUME IInv, IInv', StreamInv, NEW e \in End, Close(e), pcb[e].state \notin Opening
  PROVE  StreamInv'
<1>1. Common
  BY DEF StreamInv
<1>p. PICK p : p = pcb[e]
  OBVIOUS
<1>n. PICK no \in BOOLEAN, fin \in BOOLEAN : no = FALSE /\ fin = TRUE
  OBVIOUS
<1>2. p = pcb[e] /\ no = FALSE /\ fin = TRUE
  BY <1>p, <1>n
<1>3. /\ p.state \in {"ESTABLISHED", "CLOSE_WAIT"} /\ written' = written /\ opened' = opened /\ outcome' = outcome
      /\ listening' = listening /\ delivered' = delivered
  BY <1>2 DEF Close, Opening
<1>4. p.state \notin Idle /\ p \in Pcb /\ Claims(p) /\ Sync(p) /\ written[e] \in Nat /\ p.buf \in Seq(Nat)
      /\ Len(p.buf) \in Nat
  <2>1. p.state \notin Idle
    BY <1>3 DEF Idle, Opening
  <2> QED
    BY <1>2, <2>1, StateFacts, PcbFields DEF Idle
<1>5. p.fin_queued = no
  <2>1. p.fin_queued \in BOOLEAN
    BY <1>4, PcbFields
  <2> QED
    BY <1>2, <1>3, <1>4, <2>1 DEF Sync, FinInv, Ending
<1>k. PICK k \in Nat : \E t, u : Carried(e, k, t, u)
  BY <1>2, <1>4, LiveFacts
<1>6. PICK t, u : Carried(e, k, t, u)
  BY <1>k
<1>7. PICK st \in {"FIN_WAIT_1", "LAST_ACK"} : st = IF p.state = "ESTABLISHED" THEN "FIN_WAIT_1" ELSE "LAST_ACK"
  OBVIOUS
<1>8. PICK q : q = Longer(p, Fresh(written[e], 0), st, fin)
  OBVIOUS
<1>9. PICK tt : tt = Own(e, k, written[e] + 0, fin)
  OBVIOUS
<1>10. InStep(tt, u, q) /\ q.fin_queued = fin
  <2>1. FinQueued(st, fin)
    BY <1>2, <1>7 DEF FinQueued
  <2>2. /\ t = Own(e, k, written[e], no) /\ InStep(t, u, p) /\ t.written = written[e]
        /\ t.final = FALSE /\ p.fin_queued = FALSE
    BY <1>2, <1>5, <1>6 DEF Carried
  <2>3. CanTakeData(st) <=> CanTakeData(p.state)
    BY <1>3, <1>7 DEF CanTakeData
  <2>4. PICK n \in Nat : n = 0
    OBVIOUS
  <2>5. written[e] + n <= MaxBytes[e] /\ Len(p.buf) + n <= MaxCwnd
    <3>1. written[e] <= MaxBytes[e] /\ Len(p.buf) <= MaxCwnd
      BY <1>4 DEF IInv, Bounded, Sync, Small
    <3> QED
      BY <1>4, <2>4, <3>1
  <2>6. q = Longer(p, Fresh(written[e], n), st, fin) /\ tt = Own(e, k, written[e] + n, fin)
    BY <1>8, <1>9, <2>4
  <2>7. Appends(e, written[e], t, u, p, n, st, fin)
    BY <1>4, <2>1, <2>2, <2>3, <2>5 DEF Appends
  <2> QED
    BY <1>4, <2>2, <2>6, <2>7, LongerInStep
<1>11. q = [p EXCEPT !.state = st, !.fin_queued = TRUE]
  <2>1. PICK more : more = Fresh(written[e], 0)
    OBVIOUS
  <2>2. more \in Seq(Nat) /\ Len(more) = 0
    BY <1>4, <2>1, FreshFacts
  <2>3. p.buf \o more = p.buf
    <3>1. more = <<>>
      BY <2>2
    <3> QED
      BY <1>4, <3>1
  <2>4. p = [x \in DOMAIN p |-> p[x]] /\ "buf" \in DOMAIN p
    BY <1>4 DEF Pcb
  <2>5. [p EXCEPT !.buf = p.buf] = p
    BY <2>4
  <2> QED
    BY <1>2, <1>8, <2>1, <2>3, <2>5 DEF Longer
<1>12. PICK room, c :
         /\ room \in Room /\ c = Output(Work(q, room), FALSE)
         /\ Driver(room, c, 0) /\ Commit(e, c)
  BY <1>2, <1>3, <1>7, <1>11 DEF Close
<1>13. room \in Nat
  BY <1>12, RoomFacts
<1>14. PICK n \in Nat : n = 0
  OBVIOUS
<1>15. tt = Own(e, k, written[e] + n, q.fin_queued) /\ pcb[e].fin_queued = FALSE
  BY <1>2, <1>5, <1>9, <1>10, <1>14
<1>16. ThenArms(c, c)
  BY DEF ThenArms
<1> QED
  BY <1>1, <1>2, <1>3, <1>6, <1>10, <1>12, <1>13, <1>14, <1>15, <1>16, CallStep

(* A PCB with the same queue is in step as well.                              *)
LEMMA SameInStep ==
  ASSUME NEW t, NEW u, NEW p, InStep(t, u, p), NEW q, Sync(q), SameQueue(q, p), FinDone(q) <=> FinDone(p)
  PROVE  InStep(t, u, q) /\ q.fin_queued = p.fin_queued
<1>1. SendOK(t, q)
  BY SendSame DEF InStep, SameQueue
<1> QED
  BY <1>1 DEF InStep, SameQueue, RecvOK

(* The retry of a refused frame sends the stream, from where it was.          *)
LEMMA TxRetryStream ==
  ASSUME IInv, IInv', StreamInv, NEW e \in End, TxRetry(e)
  PROVE  StreamInv'
<1>1. Common
  BY DEF StreamInv
<1>2. PICK p : p = pcb[e]
  OBVIOUS
<1>3. p \in Pcb /\ PcbInv(p) /\ p.tx_blocked = TRUE
  <2>1. p \in Pcb /\ PcbInv(p)
    BY <1>2, StateFacts
  <2>2. p.tx_blocked \in BOOLEAN
    BY <2>1, PcbFields
  <2> QED
    BY <1>2, <2>1, <2>2 DEF TxRetry
<1>4. p.state \notin Idle /\ Sync(p)
  <2>1. p.state \notin Opening
    BY <1>3 DEF PcbInv, OpeningInv
  <2>2. p.state # "CLOSED"
    <3>1. FreeSlot.tx_blocked = FALSE
      BY DEF FreeSlot, Claimed
    <3> QED
      BY <1>3, <3>1 DEF PcbInv
  <2> QED
    BY <1>3, <2>1, <2>2 DEF PcbInv, Idle
<1>k. PICK k \in Nat : \E t, u : Carried(e, k, t, u)
  BY <1>2, <1>4, LiveFacts
<1>5. PICK t, u : Carried(e, k, t, u)
  BY <1>k
<1>6. PICK q : q = [p EXCEPT !.tx_blocked = FALSE, !.timer = "off"]
  OBVIOUS
<1>7. /\ q \in Pcb /\ SameQueue(q, p) /\ q.nxt = p.nxt /\ q.max = p.max /\ q.fin_sent = p.fin_sent
      /\ q.tx_blocked = FALSE
  BY <1>3, <1>6 DEF Pcb, SameQueue
<1>8. Sync(q)
  BY <1>4, <1>7, SyncKept
<1>9. InStep(t, u, q) /\ q.fin_queued = p.fin_queued
  <2>1. FinDone(q) <=> FinDone(p)
    BY <1>7 DEF FinDone, SameQueue
  <2>2. InStep(t, u, p)
    BY <1>2, <1>5 DEF Carried
  <2> QED
    BY <1>7, <1>8, <2>1, <2>2, SameInStep
<1>10. PICK room, d :
        /\ room \in Room /\ d = Output(Work(q, room), FALSE)
        /\ Commit(e, IF d.p.una # d.p.max THEN [d EXCEPT !.p = ArmIfOff(@)] ELSE d)
  BY <1>2, <1>6 DEF TxRetry
<1>11. PICK c : c = IF d.p.una # d.p.max THEN [d EXCEPT !.p = ArmIfOff(d.p)] ELSE d
  OBVIOUS
<1>12. Commit(e, c) /\ ThenArms(d, c)
  BY <1>10, <1>11 DEF ThenArms
<1>13. room \in Nat
  BY <1>10, RoomFacts
<1>14. PICK n \in Nat, no \in BOOLEAN : n = 0 /\ no = FALSE
  OBVIOUS
<1>15. t = Own(e, k, written[e] + n, q.fin_queued) /\ (pcb[e].fin_queued = TRUE => q.fin_queued = TRUE /\ n = 0)
  <2>1. written[e] \in Nat
    BY StateFacts
  <2>2. written[e] + n = written[e]
    BY <1>14, <2>1
  <2> QED
    BY <1>2, <1>5, <1>9, <1>14, <2>2 DEF Carried
<1>16. listening' = listening /\ opened' = opened /\ outcome' = outcome /\ delivered' = delivered /\ written' = written
  BY DEF TxRetry, hist
<1>17. d = Output(Work(q, room), no)
  BY <1>10, <1>14
<1> QED
  BY <1>1, <1>5, <1>9, <1>12, <1>13, <1>14, <1>15, <1>16, <1>17, CallStep

(* The timeout of an open connection sends the same bytes again.              *)
LEMMA TimeoutStream ==
  ASSUME IInv, IInv', StreamInv, NEW e \in End, Timeout(e), pcb[e].state \notin Opening,
         ~Release(e, Work(pcb[e], 0), "error")
  PROVE  StreamInv'
<1>1. Common
  BY DEF StreamInv
<1>2. PICK p : p = pcb[e]
  OBVIOUS
<1>3. p \in Pcb /\ PcbInv(p) /\ p.tx_blocked = FALSE /\ written[e] \in Nat /\ p.timer # "off"
  <2>1. p \in Pcb /\ PcbInv(p) /\ written[e] \in Nat
    BY <1>2, StateFacts
  <2>2. p.tx_blocked \in BOOLEAN
    BY <2>1, PcbFields
  <2> QED
    BY <1>2, <2>1, <2>2 DEF Timeout
<1>4. p.state \notin Idle /\ Sync(p)
  <2>1. p.state # "CLOSED"
    <3>1. FreeSlot.timer = "off"
      BY DEF FreeSlot, Claimed
    <3> QED
      BY <1>3, <3>1 DEF PcbInv
  <2> QED
    BY <1>2, <1>3, <2>1 DEF PcbInv, Idle
<1>k. PICK k \in Nat : \E t, u : Carried(e, k, t, u)
  BY <1>2, <1>4, LiveFacts
<1>5. PICK t, u : Carried(e, k, t, u)
  BY <1>k
<1>6. InStep(t, u, p)
  BY <1>2, <1>5 DEF Carried
<1>7. listening' = listening /\ opened' = opened /\ delivered' = delivered /\ written' = written
      /\ outcome' = outcome
  BY DEF Timeout
<1>8. \/ Commit(e, Work([p EXCEPT !.timer = "off"], 0))
      \/ Release(e, Work(p, 0), "error")
      \/ p.retries + 1 <= MaxRetries /\ \E room \in Room : Commit(e, Resent(p, room))
  <2>1. p.retries \in Int /\ MaxRetries \in Int
    BY <1>3, PcbFields, SizeFacts
  <2> QED
    BY <1>2, <2>1 DEF Timeout
<1>9. CASE Commit(e, Work([p EXCEPT !.timer = "off"], 0))
  <2>1. PICK q : q = [p EXCEPT !.timer = "off"]
    OBVIOUS
  <2>2. /\ q \in Pcb /\ SameQueue(q, p) /\ q.nxt = p.nxt /\ q.max = p.max /\ q.fin_sent = p.fin_sent
        /\ q.tx_blocked = FALSE
    BY <1>3, <2>1 DEF Pcb, SameQueue
  <2>3. Sync(q)
    BY <1>4, <2>2, SyncKept
  <2>4. FinDone(q) <=> FinDone(p)
    BY <2>2 DEF FinDone, SameQueue
  <2>5. InStep(t, u, q) /\ q.fin_queued = p.fin_queued
    BY <1>6, <2>2, <2>3, <2>4, SameInStep
  <2>6. PICK w : w = Work(q, 0)
    OBVIOUS
  <2>7. w \in WorkType /\ w.p = q /\ w.sent = {}
    BY <2>2, <2>6, WorkFacts
  <2>8. Puts(e, q, {})
    <3>1. Commit(e, w)
      BY <1>9, <2>1, <2>6
    <3> QED
      BY <2>7, <3>1, CommitPuts
  <2>9. /\ Bound(k) /\ opened[e] = Real(e, k) /\ pcb[e].state # "CLOSED"
        /\ t = Own(e, k, written[e], q.fin_queued) /\ u = Far(e, k, delivered[e])
    BY <1>2, <1>4, <1>5, <2>5 DEF Carried, Idle
  <2>10. Onward(e, k, q, written[e], delivered[e], {}, t, u)
    <3>1. delivered[e] \in Seq(Nat) /\ Len(delivered[e]) \in Nat /\ Len(delivered[e]) <= written[Peer(e)]
          /\ \A i \in 1 .. Len(delivered[e]) : delivered[e][i] = i
      BY <1>1 DEF Common
    <3> QED
      BY <1>2, <1>3, <2>5, <2>9, <3>1 DEF Onward
  <2> QED
    BY <1>1, <1>7, <2>8, <2>9, <2>10, SideStep
<1>10. CASE p.retries + 1 <= MaxRetries /\ \E room \in Room : Commit(e, Resent(p, room))
  <2>1. PICK room : room \in Room /\ Commit(e, Resent(p, room))
    BY <1>10
  <2>2. PICK q : q = BackedOff(p)
    OBVIOUS
  <2>3. PICK r : r = Rewound(q)
    OBVIOUS
  <2>4. Sync(r) /\ SameQueue(r, p) /\ (FinDone(r) <=> FinDone(p))
    BY <1>3, <1>4, <1>10, <2>2, <2>3, RewindFacts
  <2>5. InStep(t, u, r) /\ r.fin_queued = p.fin_queued
    BY <1>6, <2>4, SameInStep
  <2>6. PICK probe \in BOOLEAN : probe = (q.wnd = 0)
    OBVIOUS
  <2>7. PICK d : d = Output(Work(r, room), probe)
    OBVIOUS
  <2>8. Resent(p, room) = [d EXCEPT !.p = Arm(d.p)]
    <3>1. p.state # "SYN_SENT" /\ p.state # "SYN_RECEIVED"
      BY <1>4 DEF Idle, Opening
    <3> QED
      BY <2>2, <2>3, <2>6, <2>7, <3>1 DEF Resent, BackedOff, Rewound
  <2>9. PICK c : c = [d EXCEPT !.p = Arm(d.p)]
    OBVIOUS
  <2>10. Commit(e, c) /\ room \in Nat
    BY <2>1, <2>8, <2>9, RoomFacts
  <2>a. ThenArms(d, c)
    BY <2>9 DEF ThenArms
  <2>11. PICK n \in Nat : n = 0
    OBVIOUS
  <2>12. t = Own(e, k, written[e] + n, r.fin_queued) /\ (pcb[e].fin_queued = TRUE => r.fin_queued = TRUE /\ n = 0)
    <3>1. written[e] + n = written[e]
      BY <1>3, <2>11
    <3> QED
      BY <1>2, <1>5, <2>5, <2>11, <3>1 DEF Carried
  <2> QED
    BY <1>1, <1>5, <1>7, <2>5, <2>7, <2>9, <2>10, <2>11, <2>12, <2>a, CallStep
<1> QED
  BY <1>2, <1>8, <1>9, <1>10
-----------------------------------------------------------------------------
(* The steps behind which e has no open connection: it opens one, goes on     *)
(* opening it, or has none any more.                                          *)
Opens(e, q, o, d, h, sent) ==
  /\ o \in {opened[e], opened[e] + 1} /\ q.state \in Idle
  /\ o = opened[e] /\ q.state = "SYN_RECEIVED" => pcb[e].state = "SYN_RECEIVED" /\ q.rcv = pcb[e].rcv
  /\ pcb[e].state \notin Opening => o = opened[e] + 1 \/ q.state = "CLOSED"
  /\ d \in Seq(Nat) /\ Len(delivered[e]) <= Len(d) /\ Len(d) <= written[Peer(e)]
  /\ \A i \in 1 .. Len(d) : d[i] = i
  /\ q.state \in Opening \/ Unbound => d = delivered[e]
  /\ q.state \in Opening => o >= 1 /\ q.una = Isn[e][o]
  /\ q.state = "SYN_SENT" => e = "client" /\ o = 1
  /\ q.state = "SYN_RECEIVED" => \E i \in 1 .. opened[Peer(e)] : q.rcv = FirstByte(Peer(e), i)
  /\ h = "ok" => outcome[e] = "ok" \/ (~Unbound /\ q.state = "CLOSED" /\ Len(delivered[Peer(e)]) = written[e])
  /\ \A s \in sent : "RST" \in s.flags \/ SynOK(e, s)'

(* A step after which e has no open connection.                               *)
LEMMA IdleStep ==
  ASSUME IInv, IInv', StreamInv, NEW e \in End, NEW q, NEW o, NEW d, NEW h, NEW sent,
         Step(e, q, o, written[e], d, h, sent), Opens(e, q, o, d, h, sent)
  PROVE  StreamInv'
<1>0. Common
  BY DEF StreamInv
<1>1. /\ o \in {opened[e], opened[e] + 1} /\ q.state \in Idle
      /\ o = opened[e] /\ q.state = "SYN_RECEIVED" => pcb[e].state = "SYN_RECEIVED" /\ q.rcv = pcb[e].rcv
      /\ pcb[e].state \notin Opening => o = opened[e] + 1 \/ q.state = "CLOSED"
      /\ d \in Seq(Nat) /\ Len(delivered[e]) <= Len(d) /\ Len(d) <= written[Peer(e)]
      /\ \A i \in 1 .. Len(d) : d[i] = i
      /\ q.state \in Opening \/ Unbound => d = delivered[e]
  BY DEF Opens
<1>2. /\ q.state \in Opening => o >= 1 /\ q.una = Isn[e][o]
      /\ q.state = "SYN_SENT" => e = "client" /\ o = 1
      /\ q.state = "SYN_RECEIVED" => \E i \in 1 .. opened[Peer(e)] : q.rcv = FirstByte(Peer(e), i)
      /\ h = "ok" => outcome[e] = "ok" \/ (~Unbound /\ q.state = "CLOSED" /\ Len(delivered[Peer(e)]) = written[e])
      /\ \A s \in sent : "RST" \in s.flags \/ SynOK(e, s)'
  BY DEF Opens
<1>3. PICK w \in Nat : w = written[e] /\ w <= w /\ written[e] <= w
  <2>1. written[e] \in Nat
    BY StateFacts
  <2> QED
    BY <2>1
<1>4. Step(e, q, o, w, d, h, sent)
  BY <1>3
<1>5. Common'
  BY <1>0, <1>1, <1>2, <1>3, <1>4, CommonStep
<1>6. PICK y \in End : y = Peer(e) /\ Peer(y) = e /\ y # e
  BY EndFacts
<1>7. /\ pcb'[e] = q /\ opened'[e] = o /\ written'[e] = written[e] /\ delivered'[e] = d /\ outcome'[e] = h
      /\ pcb'[y] = pcb[y] /\ opened'[y] = opened[y] /\ written'[y] = written[y]
      /\ delivered'[y] = delivered[y] /\ outcome'[y] = outcome[y]
  BY <1>0, <1>6, StepFacts
<1>8. CASE Unbound
  <2>1. ASSUME NEW x \in End
        PROVE  pcb'[x].state \in Idle /\ written'[x] = 0 /\ delivered'[x] = <<>> /\ outcome'[x] # "ok"
    <3>1. CASE x = e
      <4>1. written[e] = 0 /\ delivered[e] = <<>> /\ outcome[e] # "ok"
        BY <1>8 DEF Unbound
      <4> QED
        BY <1>1, <1>2, <1>7, <1>8, <3>1, <4>1
    <3>2. CASE x = y
      <4>1. pcb[y].state \in Idle /\ written[y] = 0 /\ delivered[y] = <<>> /\ outcome[y] # "ok"
        BY <1>8 DEF Unbound
      <4> QED
        BY <1>7, <3>2, <4>1
    <3> QED
      BY <1>6, <3>1, <3>2, EndFacts
  <2>2. ASSUME NEW x \in End, NEW s \in net'[Peer(x)] PROVE "RST" \in s.flags \/ SynOK(x, s)'
    <3>1. CASE x = e /\ s \in sent
      BY <1>2, <3>1
    <3>2. CASE s \in net[Peer(x)]
      <4>1. "RST" \in s.flags \/ SynOK(x, s)
        BY <1>8, <3>2 DEF Unbound
      <4>2. ASSUME SynOK(x, s) PROVE SynOK(x, s)'
        BY <1>0, <1>1, <1>4, <4>2, SynKept
      <4> QED
        BY <4>1, <4>2
    <3> QED
      BY <1>4, <3>1, <3>2 DEF Step
  <2>3. Unbound'
    BY <2>1, <2>2 DEF Unbound, Idle, Opening
  <2> QED
    BY <1>5, <2>3 DEF StreamInv
<1>9. ASSUME ~Unbound PROVE StreamInv'
  <2>1. PICK k \in Nat : Bound(k)
    BY <1>9 DEF StreamInv
  <2>2. k \in 1 .. opened["server"] /\ opened["client"] >= 1
    BY <2>1 DEF Bound
  <2>3. PICK r \in Nat, n \in Nat : r = Real(e, k) /\ n = opened[e] /\ r <= n
    <3>1. Real(e, k) \in Nat /\ opened[e] \in Nat /\ Real(e, k) \in 1 .. opened[e]
      BY <2>2, BoundFacts
    <3> QED
      BY <3>1
  <2>4. o \in {n, n + 1} /\ o \in Nat
    BY <1>1, <2>3
  <2>5. Final(e, k) => Final(e, k)'
    <3>1. SUFFICES ASSUME Final(e, k) PROVE Past(e, k)'
      BY DEF Final
    <3>2. pcb[e].state \notin Opening \/ n > r
      BY <2>3, <3>1 DEF Final, Past, Live, Idle, Opening
    <3>3. o > r \/ (o = r /\ q.state = "CLOSED")
      BY <1>1, <2>3, <2>4, <3>2
    <3> QED
      BY <1>7, <2>3, <3>3 DEF Past, Real
  <2>6. Flows(e, k, w, d)
    BY <1>1, <1>3, <2>5 DEF Flows
  <2>7. Fitting(e, k, q, o, w, d)
    <3>1. ASSUME e = "client", o = 1 PROVE q.state \notin Opening
      <4>1. opened[e] = 1
        BY <2>2, <2>3, <2>4, <3>1
      <4>2. pcb[e].state \notin Opening
        BY <2>1, <3>1, <4>1 DEF Bound
      <4> QED
        BY <1>1, <2>3, <2>4, <3>1, <4>1, <4>2 DEF Opening
    <3>2. ASSUME e = "server", o = k, q.state = "SYN_RECEIVED" PROVE q.rcv = Base("client", k) /\ w = 0 /\ d = <<>>
      <4>1. r = k /\ n = k /\ opened[e] = k /\ o = opened[e]
        BY <2>3, <2>4, <3>2 DEF Real
      <4>2. pcb[e].state = "SYN_RECEIVED" /\ q.rcv = pcb[e].rcv /\ d = delivered[e]
        BY <1>1, <3>2, <4>1 DEF Opening
      <4>3. pcb[e].rcv = Base("client", k) /\ written[e] = 0 /\ delivered[e] = <<>>
        BY <2>1, <3>2, <4>1, <4>2 DEF Bound
      <4> QED
        BY <1>3, <4>2, <4>3
    <3> QED
      BY <1>1, <3>1, <3>2 DEF Fitting
  <2>8. ASSUME h = "ok" PROVE (o > Real(e, k) \/ q.state = "CLOSED") /\ Len(delivered[Peer(e)]) = w
    <3>1. CASE outcome[e] = "ok"
      <4>1. Past(e, k) /\ Len(delivered[Peer(e)]) = written[e]
        BY <2>1, <3>1 DEF Bound
      <4>2. pcb[e].state \notin Opening \/ n > r
        BY <2>3, <4>1 DEF Past, Opening
      <4>3. o > r \/ (o = r /\ q.state = "CLOSED")
        BY <1>1, <2>3, <2>4, <4>2
      <4> QED
        BY <1>3, <2>3, <4>1, <4>3
    <3>2. CASE outcome[e] # "ok"
      BY <1>2, <1>3, <2>8, <3>2
    <3> QED
      BY <3>1, <3>2
  <2>9. \A s \in sent : "RST" \in s.flags \/ SynOK(e, s)' \/ DataOK(Stream(e, k)', Stream(Peer(e), k)', s)
    BY <1>2
  <2>10. Bound(k)'
    BY <1>0, <1>1, <1>4, <2>1, <2>6, <2>7, <2>8, <2>9, BoundStep
  <2> QED
    BY <1>5, <2>10 DEF StreamInv
<1> QED
  BY <1>8, <1>9
-----------------------------------------------------------------------------
\* e takes d in all and ends its connection, telling how; the segments of sent are resets
Ends(e, d, how, sent) ==
  /\ d \in Seq(Nat) /\ Len(delivered[e]) <= Len(d) /\ Len(d) <= written[Peer(e)]
  /\ \A i \in 1 .. Len(d) : d[i] = i
  /\ Unbound => d = delivered[e]
  /\ how = "ok" => ~Unbound /\ Len(delivered[Peer(e)]) = written[e]
  /\ \A s \in sent : "RST" \in s.flags

(* A slot is freed.                                                           *)
LEMMA ReleaseStream ==
  ASSUME IInv, IInv', StreamInv, NEW e \in End, NEW c \in WorkType, NEW how, Release(e, c, how),
         listening' = listening, opened' = opened, written' = written,
         NEW d, delivered' = [delivered EXCEPT ![e] = d] \/ (delivered' = delivered /\ d = delivered[e]),
         Ends(e, d, how, c.sent)
  PROVE  StreamInv'
<1>1. Puts(e, FreeSlot, c.sent) /\ outcome' = [outcome EXCEPT ![e] = how]
  BY ReleasePuts
<1>2. Common
  BY DEF StreamInv
<1>3. Step(e, FreeSlot, opened[e], written[e], d, how, c.sent)
  BY <1>1, <1>2, PutsStep
<1>4. FreeSlot.state = "CLOSED"
  BY FreeFacts
<1>5. Opens(e, FreeSlot, opened[e], d, how, c.sent)
  BY <1>4 DEF Opens, Ends, Idle, Opening
<1> QED
  BY <1>3, <1>5, IdleStep

\* nothing more is taken
LEMMA EndsFacts ==
  ASSUME Common, NEW e \in End, NEW how, how = "ok" => ~Unbound /\ Len(delivered[Peer(e)]) = written[e],
         NEW sent, \A s \in sent : "RST" \in s.flags
  PROVE  Ends(e, delivered[e], how, sent)
<1>1. delivered[e] \in Seq(Nat) /\ Len(delivered[e]) \in Nat
  BY DEF Common
<1>2. /\ Len(delivered[e]) <= written[Peer(e)] /\ \A i \in 1 .. Len(delivered[e]) : delivered[e][i] = i
  BY DEF Common
<1> QED
  BY <1>1, <1>2 DEF Ends

(* A slot is freed without a word.                                            *)
LEMMA DropStream ==
  ASSUME IInv, IInv', StreamInv, NEW e \in End, NEW how, Release(e, Work(pcb[e], 0), how),
         how = "ok" => ~Unbound /\ Len(delivered[Peer(e)]) = written[e],
         listening' = listening, opened' = opened, written' = written, delivered' = delivered
  PROVE  StreamInv'
<1>1. PICK c : c = Work(pcb[e], 0)
  OBVIOUS
<1>2. c \in WorkType /\ c.sent = {}
  BY <1>1, NoWork, StateFacts, WorkFacts DEF Work
<1>3. Ends(e, delivered[e], how, c.sent)
  BY <1>2, EndsFacts DEF StreamInv
<1>4. Release(e, c, how)
  BY <1>1
<1> QED
  BY <1>2, <1>3, <1>4, ReleaseStream

(* A RST frees the slot.                                                      *)
LEMMA RecvRstStream ==
  ASSUME IInv, IInv', StreamInv, NEW e \in End, NEW s \in net[e], RecvRst(e, s)
  PROVE  StreamInv'
<1>1. PICK how : how = "error"
  OBVIOUS
<1>2. Release(e, Work(pcb[e], 0), how) /\ UNCHANGED <<listening, bounds, written, delivered>>
  BY <1>1 DEF RecvRst
<1> QED
  BY <1>1, <1>2, DropStream DEF bounds

(* tcp_abort sends a RST, which says nothing of the streams.                  *)
LEMMA AbortStream ==
  ASSUME IInv, IInv', StreamInv, NEW e \in End, Abort(e)
  PROVE  StreamInv'
<1>1. PICK how : how = "aborted"
  OBVIOUS
<1>2. PICK c : c = SendCtl(Work(pcb[e], Ample), {"RST", "ACK"})
  OBVIOUS
<1>3. Release(e, c, how) /\ UNCHANGED <<listening, bounds, written, delivered>>
  BY <1>1, <1>2 DEF Abort
<1>4. pcb[e] \in Pcb /\ Ample \in Nat /\ {"RST", "ACK"} \in SUBSET {"SYN", "ACK", "FIN", "RST"} /\ 0 \in SeqNum
  BY StateFacts, SeqModFacts DEF Ample, SeqNum
<1>5. c \in WorkType
  BY <1>2, <1>4, CtlFacts
<1>6. ASSUME NEW s \in c.sent PROVE "RST" \in s.flags
  <2>1. PICK w : w = Work(pcb[e], Ample)
    OBVIOUS
  <2>2. w \in WorkType /\ w.sent = {}
    BY <1>4, <2>1, WorkFacts
  <2>3. c = Send(w, {"RST", "ACK"}, w.p.nxt, <<>>)
    BY <1>2, <2>1 DEF SendCtl
  <2> QED
    BY <2>2, <2>3, SendSent
<1>7. Ends(e, delivered[e], how, c.sent)
  BY <1>1, <1>6, EndsFacts DEF StreamInv
<1> QED
  BY <1>3, <1>5, <1>7, ReleaseStream DEF bounds

(* A connection is dropped quietly behind its FIN, which the peer has         *)
(* acknowledged.                                                              *)
LEMMA DoneFacts ==
  ASSUME IInv, StreamInv, NEW e \in End, pcb[e].state \in {"FIN_WAIT_2", "TIME_WAIT"}
  PROVE  ~Unbound /\ Len(delivered[Peer(e)]) = written[e]
<1>1. pcb[e].state \notin Idle
  BY DEF Idle, Opening
<1>k. PICK k \in Nat : \E t, u : Carried(e, k, t, u)
  BY <1>1, LiveFacts
<1>2. PICK t, u : Carried(e, k, t, u)
  BY <1>k
<1>3. Sane(t) /\ SendOK(t, pcb[e]) /\ Sync(pcb[e]) /\ t.written = written[e] /\ t.read = Len(delivered[Peer(e)])
  BY <1>2 DEF Carried, InStep
<1>4. FinDone(pcb[e])
  BY <1>3 DEF Sync, FinInv, FinDone
<1>5. t.read = t.written
  BY <1>3, <1>4, DoneRead
<1> QED
  BY <1>1, <1>3, <1>5 DEF Unbound

(* A connection that has been quiet is dropped.                               *)
LEMMA ExpireStream ==
  ASSUME IInv, IInv', StreamInv, NEW e \in End, Expire(e)
  PROVE  StreamInv'
<1>1. PICK how : how = IF pcb[e].state \in {"TIME_WAIT", "FIN_WAIT_2"} THEN "ok" ELSE "error"
  OBVIOUS
<1>2. Release(e, Work(pcb[e], 0), how) /\ UNCHANGED <<listening, bounds, written, delivered>>
  BY <1>1 DEF Expire
<1>3. how = "ok" => ~Unbound /\ Len(delivered[Peer(e)]) = written[e]
  BY <1>1, DoneFacts
<1> QED
  BY <1>2, <1>3, DropStream DEF bounds
-----------------------------------------------------------------------------
(* Opening. *)

\* e's o-th connection is being opened: its PCB and its SYNs
Syns(e, o, c) ==
  /\ c.p.state \in Opening /\ o >= 1 /\ c.p.una = Isn[e][o]
  /\ o = opened[e] => c.p.state = pcb[e].state /\ c.p.rcv = pcb[e].rcv
  /\ pcb[e].state \notin Opening => o = opened[e] + 1
  /\ c.p.state = "SYN_SENT" => e = "client" /\ o = 1
  /\ c.p.state = "SYN_RECEIVED" => \E i \in 1 .. opened[Peer(e)] : c.p.rcv = FirstByte(Peer(e), i)
  /\ \A s \in c.sent : /\ "SYN" \in s.flags /\ "FIN" \notin s.flags /\ s.data = <<>> /\ s.seq = Isn[e][o]
                       /\ "ACK" \in s.flags => c.p.state = "SYN_RECEIVED" /\ s.ack = c.p.rcv

(* A step of a connection that is being opened.                               *)
LEMMA SynStep ==
  ASSUME IInv, IInv', StreamInv, NEW e \in End, NEW c \in WorkType, Commit(e, c),
         NEW o \in {opened[e], opened[e] + 1}, opened' = [opened EXCEPT ![e] = o], listening' = listening,
         UNCHANGED hist, Syns(e, o, c)
  PROVE  StreamInv'
<1>1. Common /\ opened[e] \in Nat /\ o \in Nat
  BY OpenedFacts DEF StreamInv
<1>2. PICK q, sent : q = c.p /\ sent = c.sent
  OBVIOUS
<1>3. Puts(e, q, sent)
  BY <1>2, CommitPuts
<1>4. Step(e, q, o, written[e], delivered[e], outcome[e], sent)
  <2>1. /\ written \in [End -> Nat] /\ delivered \in [End -> Seq(Nat)]
        /\ outcome \in [End -> {"none", "ok", "error", "aborted", "unopened"}]
    BY <1>1 DEF IInv, Bounded, Common
  <2>2. written' = [written EXCEPT ![e] = written[e]]
    BY <2>1 DEF hist
  <2>3. delivered' = [delivered EXCEPT ![e] = delivered[e]]
    BY <2>1 DEF hist
  <2>4. outcome' = [outcome EXCEPT ![e] = outcome[e]]
    BY <2>1 DEF hist
  <2> QED
    BY <1>3, <2>2, <2>3, <2>4 DEF Puts, Step
<1>5. PICK y \in End : y = Peer(e) /\ Peer(y) = e /\ y # e
  BY EndFacts
<1>6. pcb'[e] = q /\ opened'[e] = o /\ opened'[y] = opened[y]
  BY <1>1, <1>4, <1>5, StepFacts
<1>7. /\ q.state \in Opening /\ o >= 1 /\ q.una = Isn[e][o]
      /\ o = opened[e] => q.state = pcb[e].state /\ q.rcv = pcb[e].rcv
      /\ pcb[e].state \notin Opening => o = opened[e] + 1
      /\ q.state = "SYN_SENT" => e = "client" /\ o = 1
      /\ q.state = "SYN_RECEIVED" => \E i \in 1 .. opened[y] : q.rcv = FirstByte(y, i)
  BY <1>2, <1>5 DEF Syns
<1>8. ASSUME NEW s \in sent PROVE SynOK(e, s)'
  <2>1. /\ "SYN" \in s.flags /\ "FIN" \notin s.flags /\ s.data = <<>> /\ s.seq = Isn[e][o]
        /\ "ACK" \in s.flags => q.state = "SYN_RECEIVED" /\ s.ack = q.rcv
    BY <1>2 DEF Syns
  <2>2. "ACK" \in s.flags => /\ \E i \in 1 .. opened[y] : s.ack = FirstByte(y, i)
                             /\ s.ack = q.rcv
    BY <1>7, <2>1
  <2>3. o \in 1 .. o
    BY <1>1, <1>7
  <2>4. \E j \in 1 .. o : /\ s.seq = Isn[e][j]
                          /\ "ACK" \in s.flags => /\ \E i \in 1 .. opened[y] : s.ack = FirstByte(y, i)
                                                  /\ s.ack = q.rcv
    BY <2>1, <2>2, <2>3
  <2> QED
    BY <1>5, <1>6, <2>1, <2>4 DEF SynOK, FirstByte
<1>9. /\ delivered[e] \in Seq(Nat) /\ Len(delivered[e]) \in Nat /\ Len(delivered[e]) <= written[Peer(e)]
      /\ \A i \in 1 .. Len(delivered[e]) : delivered[e][i] = i
  BY <1>1 DEF Common
<1>10. Len(delivered[e]) <= Len(delivered[e])
  BY <1>9
<1>11. Opens(e, q, o, delivered[e], outcome[e], sent)
  BY <1>5, <1>7, <1>8, <1>9, <1>10 DEF Opens, Idle
<1> QED
  BY <1>4, <1>11, IdleStep

(* Every SYN around is one of the peer's connections'.                        *)
LEMMA SynFacts ==
  ASSUME IInv, StreamInv, NEW e \in End, NEW s \in net[e], "SYN" \in s.flags, "RST" \notin s.flags
  PROVE  SynOK(Peer(e), s)
<1>1. PICK y \in End : y = Peer(e) /\ Peer(y) = e
  BY EndFacts
<1>2. ASSUME NEW k \in Nat, Bound(k) PROVE SynOK(y, s)
  <2>1. SynOK(y, s) \/ DataOK(Stream(y, k), Stream(e, k), s)
    BY <1>1, <1>2 DEF Bound
  <2> QED
    BY <2>1 DEF DataOK
<1>3. ASSUME Unbound PROVE SynOK(y, s)
  BY <1>1, <1>3 DEF Unbound
<1> QED
  BY <1>1, <1>2, <1>3 DEF StreamInv

(* A SYN opens the next connection of the server.                             *)
LEMMA RecvSynStream ==
  ASSUME IInv, IInv', StreamInv, NEW e \in End, NEW s \in net[e], RecvSyn(e, s)
  PROVE  StreamInv'
<1>1. s \in Segments /\ "SYN" \in s.flags /\ "RST" \notin s.flags /\ pcb[e].state \notin Opening
  BY StateFacts DEF RecvSyn, Opening, InUse
<1>2. PICK rcv \in SeqNum : rcv = Plus(s.seq, 1)
  BY <1>1, SeqModFacts, PlusCases DEF Segments
<1>3. PICK wnd \in Windows(e) :
        Open(e, [Claimed(NewIsn(e)) EXCEPT !.state = "SYN_RECEIVED", !.rcv = rcv, !.wnd = wnd], {"SYN", "ACK"})
  BY <1>2 DEF RecvSyn
<1>4. wnd \in Nat
  BY WindowFacts
<1>5. UNCHANGED hist /\ listening' = listening
  BY DEF RecvSyn
<1>6. PICK st \in Opening, flags \in SUBSET {"SYN", "ACK", "FIN", "RST"} :
        st = "SYN_RECEIVED" /\ flags = {"SYN", "ACK"}
  BY DEF Opening
<1>7. PICK p : p = NewPcb(e, st, rcv, wnd)
  OBVIOUS
<1>8. Open(e, p, flags)
  BY <1>3, <1>6, <1>7 DEF NewPcb
<1>9. PICK c : Fresher(e, opened[e] + 1, c, st, rcv, flags) /\ Commit(e, c)
  BY <1>4, <1>7, <1>8, OpenFacts
<1>10. \E i \in 1 .. opened[Peer(e)] : rcv = FirstByte(Peer(e), i)
  <2>1. SynOK(Peer(e), s)
    BY <1>1, SynFacts
  <2> QED
    BY <1>2, <2>1 DEF SynOK, FirstByte
<1>11. PICK o : o = opened[e] + 1
  OBVIOUS
<1>12. opened[e] \in Nat /\ o >= 1 /\ o # opened[e] /\ o \in {opened[e], opened[e] + 1}
  BY <1>11, OpenedFacts
<1>13. opened' = [opened EXCEPT ![e] = o]
  BY <1>8, <1>11 DEF Open
<1>14. Syns(e, o, c)
  <2>1. /\ c.p.state = "SYN_RECEIVED" /\ c.p.una = Isn[e][o] /\ c.p.rcv = rcv
        /\ \A x \in c.sent : x.flags = {"SYN", "ACK"} /\ x.seq = Isn[e][o] /\ x.data = <<>> /\ x.ack = rcv
    BY <1>6, <1>9, <1>11 DEF Fresher
  <2> QED
    BY <1>1, <1>10, <1>11, <1>12, <2>1 DEF Syns, Opening
<1> QED
  BY <1>5, <1>9, <1>12, <1>13, <1>14, SynStep DEF Fresher

(* tcp_connect opens the client's connection.                                 *)
LEMMA ConnectStream ==
  ASSUME IInv, IInv', StreamInv, NEW e \in End, Connect(e)
  PROVE  StreamInv'
<1>1. /\ e = "client" /\ opened[e] = 0 /\ UNCHANGED hist /\ listening' = listening
  BY EndFacts DEF Connect, StreamInv, Common
<1>2. pcb[e].state \notin Opening
  BY <1>1 DEF StreamInv, Common
<1>3. 0 \in SeqNum /\ InitialCwnd \in Nat
  BY SeqModFacts, SizeFacts DEF SeqNum
<1>4. PICK z : z = Claimed(NewIsn(e))
  OBVIOUS
<1>5. [z EXCEPT !.state = "SYN_SENT"] = [z EXCEPT !.state = "SYN_SENT", !.rcv = 0, !.wnd = InitialCwnd]
  <2>1. /\ z = [k \in DOMAIN z |-> z[k]] /\ z["rcv"] = 0 /\ z["wnd"] = InitialCwnd
        /\ {"state", "rcv", "wnd"} \subseteq DOMAIN z
    BY <1>4 DEF Claimed
  <2>2. PICK y : y = [z EXCEPT !.state = "SYN_SENT"]
    OBVIOUS
  <2>3. /\ y = [k \in DOMAIN y |-> y[k]] /\ y["rcv"] = 0 /\ y["wnd"] = InitialCwnd
        /\ {"rcv", "wnd"} \subseteq DOMAIN y
    BY <2>1, <2>2
  <2>4. [y EXCEPT !.rcv = 0, !.wnd = InitialCwnd] = y
    BY <2>3
  <2> QED
    BY <2>2, <2>4
<1>6. PICK st \in Opening, flags \in SUBSET {"SYN", "ACK", "FIN", "RST"} : st = "SYN_SENT" /\ flags = {"SYN"}
  BY DEF Opening
<1>7. PICK rcv \in SeqNum : rcv = 0
  BY <1>3
<1>8. PICK p : p = NewPcb(e, st, rcv, InitialCwnd)
  OBVIOUS
<1>9. Open(e, p, flags)
  BY <1>4, <1>5, <1>6, <1>7, <1>8 DEF Connect, NewPcb
<1>10. PICK c : Fresher(e, opened[e] + 1, c, st, rcv, flags) /\ Commit(e, c)
  BY <1>3, <1>8, <1>9, OpenFacts
<1>11. PICK o \in Nat : o = opened[e] + 1 /\ o = 1
  BY <1>1
<1>12. opened' = [opened EXCEPT ![e] = o] /\ o \in {opened[e], opened[e] + 1} /\ o # opened[e]
  BY <1>1, <1>9, <1>11 DEF Open
<1>13. Syns(e, o, c)
  <2>1. /\ c.p.state = "SYN_SENT" /\ c.p.una = Isn[e][o]
        /\ \A x \in c.sent : x.flags = {"SYN"} /\ x.seq = Isn[e][o] /\ x.data = <<>>
    BY <1>6, <1>10, <1>11 DEF Fresher
  <2> QED
    BY <1>1, <1>2, <1>11, <1>12, <2>1 DEF Syns, Opening
<1> QED
  BY <1>1, <1>10, <1>12, <1>13, SynStep DEF Fresher

(* A SYN that is sent again. *)
LEMMA AgainStream ==
  ASSUME IInv, IInv', StreamInv, NEW e \in End, pcb[e].state \in Opening,
         NEW q, q = pcb[e] \/ q = BackedOff(pcb[e]), NEW r, r = q \/ r = Arm(q), r \in Pcb, q \in Pcb,
         NEW room \in Nat, NEW flags,
         flags = IF pcb[e].state = "SYN_SENT" THEN {"SYN"} ELSE {"SYN", "ACK"},
         NEW c, c = Send(Work(q, room), flags, q.una, <<>>), NEW d, (d = c /\ r = q) \/ d = [c EXCEPT !.p = r],
         Commit(e, d), UNCHANGED <<listening, opened, hist>>
  PROVE  StreamInv'
<1>1. Common /\ pcb[e] \in Pcb
  BY StateFacts DEF StreamInv
<1>2. PICK fl \in SUBSET {"SYN", "ACK", "FIN", "RST"} : fl = flags
  BY Zenon
<1>3. /\ q.state = pcb[e].state /\ q.una = pcb[e].una /\ q.rcv = pcb[e].rcv
      /\ r.state = q.state /\ r.una = q.una /\ r.rcv = q.rcv
  <2>1. q.state = pcb[e].state /\ q.una = pcb[e].una /\ q.rcv = pcb[e].rcv
    BY <1>1 DEF BackedOff, Pcb
  <2>2. r.state = q.state /\ r.una = q.una /\ r.rcv = q.rcv
    BY DEF Arm, Pcb
  <2> QED
    BY <2>1, <2>2
<1>4. PICK una \in SeqNum : una = q.una
  BY PcbFields
<1>5. PICK w : w = Work(q, room)
  OBVIOUS
<1>6. w \in WorkType /\ w.p = q /\ w.sent = {}
  BY <1>5, WorkFacts
<1>7. c \in WorkType /\ c.p = q
  BY <1>2, <1>4, CtlFacts
<1>8. \A s \in c.sent : s.flags = flags /\ s.seq = una /\ s.data = <<>> /\ ("ACK" \in flags => s.ack = q.rcv)
  BY <1>4, <1>5, <1>6, SendSent
<1>9. d \in WorkType /\ d.p = r /\ d.sent = c.sent
  BY <1>7 DEF WorkType
<1>10. PICK o : o = opened[e]
  OBVIOUS
<1>11. opened[e] \in Nat /\ opened' = [opened EXCEPT ![e] = o] /\ o # opened[e] + 1
  BY <1>10 DEF IInv, Bounded
<1>12. o >= 1 /\ una = Isn[e][o] /\ (pcb[e].state = "SYN_SENT" => e = "client" /\ o = 1)
  BY <1>1, <1>3, <1>4, <1>10 DEF Common
<1>13. pcb[e].state = "SYN_RECEIVED" => \E i \in 1 .. opened[Peer(e)] : pcb[e].rcv = FirstByte(Peer(e), i)
  BY <1>1 DEF Common
<1>14. Syns(e, o, d)
  <2>1. /\ d.p.state = pcb[e].state /\ d.p.una = Isn[e][o] /\ d.p.rcv = pcb[e].rcv
        /\ \A s \in d.sent : /\ s.flags = flags /\ s.seq = Isn[e][o] /\ s.data = <<>>
                             /\ "ACK" \in flags => s.ack = pcb[e].rcv
    BY <1>3, <1>4, <1>8, <1>9, <1>12
  <2>2. "SYN" \in flags /\ "FIN" \notin flags /\ ("ACK" \in flags => pcb[e].state = "SYN_RECEIVED")
    BY DEF Opening
  <2> QED
    BY <1>10, <1>12, <1>13, <2>1, <2>2 DEF Syns
<1> QED
  BY <1>9, <1>10, <1>11, <1>14, SynStep

(* A repeated SYN is answered again.                                          *)
LEMMA RecvSynAgainStream ==
  ASSUME IInv, IInv', StreamInv, NEW e \in End, NEW s \in net[e], RecvSynAgain(e, s)
  PROVE  StreamInv'
<1>1. pcb[e] \in Pcb /\ Ample \in Nat /\ pcb[e].state = "SYN_RECEIVED"
  BY StateFacts, SeqModFacts DEF Ample, RecvSynAgain
<1>2. PICK q : q = pcb[e]
  OBVIOUS
<1>3. PICK flags : flags = {"SYN", "ACK"}
  OBVIOUS
<1>4. PICK c : c = Send(Work(q, Ample), flags, q.una, <<>>)
  OBVIOUS
<1>5. Commit(e, c) /\ UNCHANGED <<listening, opened, hist>>
  BY <1>2, <1>3, <1>4 DEF RecvSynAgain, bounds
<1> QED
  BY <1>1, <1>2, <1>3, <1>4, <1>5, AgainStream DEF Opening

(* tcp_close, in every state.                                                 *)
LEMMA CloseAllStream ==
  ASSUME IInv, IInv', StreamInv, NEW e \in End, Close(e)
  PROVE  StreamInv'
<1>1. CASE pcb[e].state \in Opening
  <2>1. PICK how : how = "unopened"
    OBVIOUS
  <2>2. /\ Release(e, Work(pcb[e], 0), how) /\ listening' = listening /\ opened' = opened
        /\ written' = written /\ delivered' = delivered
    BY <1>1, <2>1 DEF Close, Opening
  <2> QED
    BY <2>1, <2>2, DropStream
<1>2. CASE pcb[e].state \notin Opening
  BY <1>2, CloseStream
<1> QED
  BY <1>1, <1>2

(* The timeout, in every state.                                               *)
LEMMA TimeoutAllStream ==
  ASSUME IInv, IInv', StreamInv, NEW e \in End, Timeout(e)
  PROVE  StreamInv'
<1>1. /\ listening' = listening /\ opened' = opened /\ delivered' = delivered /\ written' = written
  BY DEF Timeout
<1>2. CASE Release(e, Work(pcb[e], 0), "error")
  <2>1. PICK how : how = "error"
    OBVIOUS
  <2>2. Release(e, Work(pcb[e], 0), how)
    BY <1>2, <2>1
  <2> QED
    BY <1>1, <2>1, <2>2, DropStream
<1>3. CASE pcb[e].state \in Opening /\ ~Release(e, Work(pcb[e], 0), "error")
  <2>1. PICK p : p = pcb[e]
    OBVIOUS
  <2>2. p \in Pcb /\ PcbInv(p) /\ p.state \in Opening
    BY <1>3, <2>1, StateFacts
  <2>3. Outstanding(p)
    <3>1. SUFFICES ASSUME p.una = p.max PROVE FALSE
      BY DEF Outstanding
    <3>2. p.max = Plus(p.una, 1) /\ p.una \in SeqNum
      BY <2>2, PcbFields DEF PcbInv, OpeningInv
    <3>4. Plus(p.una, 1) = IF p.una + 1 < SeqMod THEN p.una + 1 ELSE p.una + 1 - SeqMod
      BY <3>2, SeqModFacts, PlusCases
    <3> QED
      BY <3>1, <3>2, <3>4, SeqModFacts DEF SeqNum
  <2>4. PICK room \in Room : Commit(e, Resent(p, room)) /\ outcome' = outcome /\ p.retries + 1 <= MaxRetries
    <3>1. p.retries \in Int /\ MaxRetries \in Int
      BY <2>2, PcbFields, SizeFacts
    <3> QED
      BY <1>3, <2>1, <2>3, <3>1 DEF Timeout
  <2>5. PICK q : q = BackedOff(p)
    OBVIOUS
  <2>6. q \in Pcb
    <3>1. PICK retries \in 0 .. MaxRetries : retries = p.retries + 1
      <4>1. p.retries \in 0 .. MaxRetries
        BY <2>2, PcbFields
      <4> QED
        BY <2>4, <4>1, SizeFacts
    <3>2. q = [p EXCEPT !.retries = retries, !.cwnd = Mss]
      BY <2>5, <3>1 DEF BackedOff
    <3>3. Mss \in 0 .. MaxCwnd
      BY SizeFacts
    <3> QED
      BY <2>2, <3>2, <3>3 DEF Pcb
  <2>7. PICK flags : flags = IF p.state = "SYN_SENT" THEN {"SYN"} ELSE {"SYN", "ACK"}
    OBVIOUS
  <2>8. PICK c : c = Send(Work(q, room), flags, q.una, <<>>)
    OBVIOUS
  <2>9. PICK r : r = Arm(q)
    OBVIOUS
  <2>10. PICK d : d = [c EXCEPT !.p = r]
    OBVIOUS
  <2>11. r \in Pcb /\ room \in Nat
    BY <2>6, <2>9, ArmFacts, RoomFacts
  <2>12. Resent(p, room) = d
    <3>1. c \in WorkType /\ c.p = q
      <4>1. PICK fl \in SUBSET {"SYN", "ACK", "FIN", "RST"} : fl = flags
        BY <2>7, Zenon
      <4>2. q.una \in SeqNum
        BY <2>6, PcbFields
      <4> QED
        BY <2>6, <2>8, <2>11, <4>1, <4>2, CtlFacts
    <3>2. CASE p.state = "SYN_SENT"
      <4>1. Resent(p, room) = [Send(Work(q, room), {"SYN"}, q.una, <<>>) EXCEPT !.p = Arm(@)]
        BY <2>5, <3>2 DEF Resent, BackedOff
      <4>2. c = Send(Work(q, room), {"SYN"}, q.una, <<>>)
        BY <2>7, <2>8, <3>2
      <4> QED
        BY <2>9, <2>10, <3>1, <4>1, <4>2
    <3>3. CASE p.state = "SYN_RECEIVED"
      <4>1. Resent(p, room) = [Send(Work(q, room), {"SYN", "ACK"}, q.una, <<>>) EXCEPT !.p = Arm(@)]
        BY <2>5, <3>3 DEF Resent, BackedOff
      <4>2. c = Send(Work(q, room), {"SYN", "ACK"}, q.una, <<>>)
        BY <2>7, <2>8, <3>3
      <4> QED
        BY <2>9, <2>10, <3>1, <4>1, <4>2
    <3> QED
      BY <2>2, <3>2, <3>3 DEF Opening
  <2>13. Commit(e, d) /\ UNCHANGED <<listening, opened, hist>>
    BY <1>1, <2>4, <2>12 DEF hist
  <2> QED
    BY <2>1, <2>2, <2>5, <2>6, <2>7, <2>8, <2>9, <2>10, <2>11, <2>13, AgainStream
<1>4. CASE pcb[e].state \notin Opening /\ ~Release(e, Work(pcb[e], 0), "error")
  BY <1>4, TimeoutStream
<1> QED
  BY <1>2, <1>3, <1>4
-----------------------------------------------------------------------------
(* The segments that open the connection. *)
LEMMA EstFields ==
  ASSUME NEW p \in Pcb, p.state \in Opening, OpeningInv(p), NEW wnd \in Nat,
         NEW q, q = Established(p, p.max, wnd)
  PROVE  /\ q \in Pcb /\ Sync(q) /\ Claims(q) /\ q.state = "ESTABLISHED" /\ q.una = p.max /\ q.buf = <<>>
         /\ q.fin_queued = FALSE /\ q.fin_sent = FALSE /\ q.rcv = p.rcv
<1>1. /\ p.una \in SeqNum /\ p.max \in SeqNum /\ 0 \in 0 .. MaxRetries /\ "ESTABLISHED" \in State
  BY PcbFields, SizeFacts DEF State
<1>2. PICK m \in SeqNum : m = p.max
  BY <1>1
<1>3. q = [p EXCEPT !.state = "ESTABLISHED", !.una = m, !.wnd = wnd, !.retries = 0, !.timer = "off"]
  BY <1>2 DEF Established
<1>4. /\ q \in Pcb /\ q.state = "ESTABLISHED" /\ q.una = m /\ q.buf = <<>>
      /\ q.fin_queued = FALSE /\ q.fin_sent = FALSE /\ q.rcv = p.rcv
  BY <1>1, <1>2, <1>3 DEF Pcb, OpeningInv
<1>5. Sync(q) /\ Claims(q)
  BY EstablishedFacts
<1> QED
  BY <1>2, <1>4, <1>5

(* A connection that has just been opened is in step with its streams.        *)
LEMMA OpenInStep ==
  ASSUME NEW t, Sane(t), t.written = 0, NEW u, Sane(u), u.read = 0, NEW q \in Pcb,
         q.state = "ESTABLISHED", q.una = t.base, q.buf = <<>>, q.fin_sent = FALSE, q.rcv = u.base
  PROVE  SendOK(t, q) /\ RecvOK(u, q)
<1>1. t.base \in SeqNum /\ u.base \in SeqNum /\ t.read \in Nat /\ t.read = 0
  BY DEF Sane, Streams
<1>2. PICK n \in Nat : n = 0
  OBVIOUS
<1>3. q.una = Plus(t.base, n) /\ q.rcv = Plus(u.base, u.read)
  BY <1>1, <1>2, PlusNone
<1>4. AckOK(t, n)
  BY <1>1, <1>2 DEF AckOK
<1>5. ~FinDone(q) /\ Len(q.buf) = 0 /\ n + Len(q.buf) = t.written
  BY <1>2 DEF FinDone
<1>6. Holds(t, q, n)
  BY <1>3, <1>4, <1>5 DEF Holds
<1>7. SendOK(t, q)
  BY <1>6 DEF SendOK
<1>8. RecvOK(u, q)
  BY <1>3 DEF RecvOK, CanTakeData
<1> QED
  BY <1>7, <1>8

(* The SYN-ACK that singles out the server's connection.                      *)
LEMMA RecvSynSentStream ==
  ASSUME IInv, IInv', StreamInv, NEW e \in End, NEW s \in net[e], RecvSynSent(e, s)
  PROVE  StreamInv'
<1>1. /\ Common /\ pcb[e] \in Pcb /\ PcbInv(pcb[e]) /\ Ample \in Nat /\ s \in Segments
      /\ pcb[e].state = "SYN_SENT" /\ "RST" \notin s.flags /\ "SYN" \in s.flags /\ "ACK" \in s.flags
      /\ s.ack = pcb[e].max
  BY StateFacts, SeqModFacts DEF Ample, StreamInv, RecvSynSent
<1>2. OpeningInv(pcb[e]) /\ pcb[e].state \in Opening
  BY <1>1 DEF PcbInv, Opening
<1>3. PICK y \in End : y = Peer(e) /\ Peer(y) = e /\ y # e
  BY EndFacts
<1>4. e = "client" /\ y = "server" /\ opened[e] = 1 /\ pcb[e].una = Isn[e][opened[e]]
  BY <1>1, <1>2, <1>3, EndFacts DEF Common
<1>5. Unbound
  BY <1>2, <1>4 DEF StreamInv, Bound
<1>6. SynOK(y, s)
  BY <1>1, <1>3, SynFacts
<1>7. PICK j \in 1 .. opened[y] :
        s.seq = Isn[y][j] /\ ((j = opened[y] /\ pcb[y].state = "SYN_RECEIVED") => s.ack = pcb[y].rcv)
  BY <1>1, <1>6 DEF SynOK
<1>8. PICK rcv \in SeqNum : rcv = Plus(s.seq, 1)
  BY <1>1, SeqModFacts, PlusCases DEF Segments
<1>9. PICK wnd \in Windows(e) :
        Commit(e, SendCtl(Work([Established(pcb[e], pcb[e].max, wnd) EXCEPT !.rcv = rcv], Ample), {"ACK"}))
  BY <1>1, <1>8 DEF RecvSynSent
<1>10. PICK z : z = Established(pcb[e], pcb[e].max, wnd)
  OBVIOUS
<1>11. /\ z \in Pcb /\ z.state = "ESTABLISHED" /\ z.una = pcb[e].max /\ z.buf = <<>>
       /\ z.fin_queued = FALSE /\ z.fin_sent = FALSE
  <2>1. wnd \in Nat
    BY WindowFacts
  <2> QED
    <3>1. PICK p : p = pcb[e]
      OBVIOUS
    <3>2. p \in Pcb /\ p.state \in Opening /\ OpeningInv(p) /\ z = Established(p, p.max, wnd)
      BY <1>1, <1>2, <1>10, <3>1
    <3> QED
      BY <2>1, <3>1, <3>2, EstFields
<1>12. PICK q : q = [z EXCEPT !.rcv = rcv]
  OBVIOUS
<1>13. /\ q \in Pcb /\ q.state = "ESTABLISHED" /\ q.una = pcb[e].max /\ q.buf = <<>>
       /\ q.fin_queued = FALSE /\ q.fin_sent = FALSE /\ q.rcv = rcv
  BY <1>11, <1>12 DEF Pcb
<1>14. PICK flags \in SUBSET {"SYN", "ACK", "FIN", "RST"} : flags = {"ACK"}
  OBVIOUS
<1>15. PICK w : w = Work(q, Ample)
  OBVIOUS
<1>16. w \in WorkType /\ w.p = q /\ w.sent = {}
  BY <1>1, <1>13, <1>15, WorkFacts
<1>17. PICK nxt, data : nxt = q.nxt /\ data = <<>>
  OBVIOUS
<1>18. PICK c : c = Send(w, flags, nxt, data)
  OBVIOUS
<1>19. c = SendCtl(Work(q, Ample), flags) /\ Commit(e, c)
  BY <1>9, <1>10, <1>12, <1>14, <1>15, <1>16, <1>17, <1>18 DEF SendCtl
<1>20. c \in WorkType /\ c.p = q
  <2>1. SendCtl(Work(q, Ample), flags) \in WorkType /\ SendCtl(Work(q, Ample), flags).p = q
    <3>1. q \in Pcb /\ Ample \in Nat /\ flags \in SUBSET {"SYN", "ACK", "FIN", "RST"}
      BY <1>1, <1>13, <1>14
    <3> QED
      BY <1>8, <3>1, CtlFacts
  <2> QED
    BY <1>19, <2>1
<1>21. \A x \in c.sent : x.flags = flags /\ x.data = data /\ x.ack = rcv
  <2>1. \A x \in c.sent : /\ x.flags = flags /\ x.seq = nxt /\ x.data = data
                          /\ "ACK" \in flags => x.ack = w.p.rcv
    BY <1>16, <1>18, FirstSent
  <2> QED
    BY <1>13, <1>14, <1>16, <2>1
<1>22. PICK sent : sent = c.sent
  OBVIOUS
<1>23. Puts(e, q, sent)
  BY <1>19, <1>20, <1>22, CommitPuts
<1>24. listening' = listening /\ opened' = opened /\ written' = written /\ delivered' = delivered /\ outcome' = outcome
  BY DEF RecvSynSent, bounds, hist
<1>25. Step(e, q, opened[e], written[e], delivered[e], outcome[e], sent)
  BY <1>1, <1>23, <1>24, PutsStep
<1>26. /\ pcb'[e] = q /\ pcb'[y] = pcb[y]
  BY <1>1, <1>3, <1>25, StepFacts
<1>27. \A x \in End : written[x] = 0 /\ delivered[x] = <<>> /\ outcome[x] # "ok" /\ pcb[x].state \in Idle
  BY <1>5 DEF Unbound
<1>28. Common'
  <2>1. PICK o, v, d : o = opened[e] /\ v = written[e] /\ d = delivered[e]
    OBVIOUS
  <2>2. /\ d \in Seq(Nat) /\ Len(d) <= written[Peer(e)] /\ \A i \in 1 .. Len(d) : d[i] = i
        /\ v \in Nat /\ v <= v
    <3>1. written[e] \in Nat
      BY StateFacts
    <3> QED
      BY <1>1, <2>1, <3>1 DEF Common
  <2>3. q.state \notin Opening /\ q.state # "SYN_SENT" /\ q.state # "SYN_RECEIVED"
    BY <1>13 DEF Opening
  <2>4. o \in {opened[e], opened[e] + 1} /\ Step(e, q, o, v, d, outcome[e], sent) /\ written[e] <= v
    BY <1>25, <2>1, <2>2
  <2> QED
    BY <1>1, <2>2, <2>3, <2>4, CommonStep
<1>29. opened[y] \in Nat /\ j \in Nat /\ opened["client"] >= 1 /\ j \in 1 .. opened["server"]
  BY <1>4, <1>7, OpenedFacts
<1>30. /\ Base(e, j) \in SeqNum /\ Base(y, j) \in SeqNum
       /\ Base(e, j) = pcb[e].max /\ Base(y, j) = rcv /\ Real(e, j) = 1 /\ Real(y, j) = j
  <2>1. Base(e, j) \in SeqNum /\ Base(y, j) \in SeqNum
    BY <1>29, BoundFacts
  <2>2. Real(e, j) = 1 /\ Real(y, j) = j
    BY <1>4 DEF Real
  <2> QED
    BY <1>2, <1>4, <1>7, <1>8, <2>1, <2>2 DEF Base, FirstByte, OpeningInv
<1>31. PICK f \in BOOLEAN, g \in BOOLEAN : f = Final(e, j)' /\ g = Final(y, j)'
  BY DEF Final
<1>32. PICK no \in Nat : no = 0 /\ no <= no /\ no + 2 < Half
  BY <1>1, <1>4, <1>27, <1>29, StreamFacts
<1>33. PICK t, u : t = Stream(e, j)' /\ u = Stream(y, j)'
  OBVIOUS
<1>34. t = Flow(Base(e, j), no, no, f) /\ u = Flow(Base(y, j), no, no, g)
  <2>1. \A x \in End : written'[x] = no /\ Len(delivered'[x]) = no
    BY <1>24, <1>27, <1>32
  <2> QED
    BY <1>3, <1>31, <1>33, <2>1 DEF Stream, Base, FirstByte, Real
<1>35. Sane(t) /\ t.base = Base(e, j) /\ t.written = no /\ Sane(u) /\ u.base = Base(y, j) /\ u.read = no
  BY <1>30, <1>31, <1>32, <1>34, FlowFacts
<1>36. SendOK(t, q) /\ RecvOK(u, q)
  <2>1. q.una = t.base /\ q.rcv = u.base /\ t.written = 0 /\ u.read = 0
    BY <1>13, <1>30, <1>32, <1>35
  <2> QED
    BY <1>13, <1>35, <2>1, OpenInStep
<1>37. ASSUME NEW x \in End, NEW m \in net'[Peer(x)]
       PROVE  "RST" \in m.flags \/ SynOK(x, m)' \/ DataOK(Stream(x, j)', Stream(Peer(x), j)', m)
  <2>1. CASE m \in net[Peer(x)]
    <3>1. "RST" \in m.flags \/ SynOK(x, m)
      BY <1>5, <2>1 DEF Unbound
    <3>2. ASSUME SynOK(x, m) PROVE SynOK(x, m)'
      BY <1>1, <1>13, <1>25, <3>2, SynKept
    <3> QED
      BY <3>1, <3>2
  <2>2. CASE x = e /\ m \in sent
    <3>1. m.flags = {"ACK"} /\ m.data = <<>> /\ m.ack = q.rcv
      BY <1>13, <1>14, <1>17, <1>21, <1>22, <2>2
    <3>2. AckNum(u, m.ack)
      BY <1>35, <1>36, <3>1, RecvAck
    <3>3. DataOK(t, u, m)
      BY <3>1, <3>2 DEF DataOK, Carries
    <3> QED
      BY <1>3, <1>33, <2>2, <3>3
  <2> QED
    BY <1>25, <2>1, <2>2 DEF Step
<1>38. ASSUME NEW x \in End, Live(x, j)' PROVE SendOK(Stream(x, j)', pcb'[x]) /\ RecvOK(Stream(Peer(x), j)', pcb'[x])
  <2>1. CASE x = e
    BY <1>3, <1>26, <1>33, <1>36, <2>1
  <2>2. CASE x = y
    <3>1. pcb'[y].state \in Idle
      BY <1>26, <1>27
    <3> QED
      BY <1>38, <2>2, <3>1 DEF Live, Idle
  <2> QED
    BY <1>3, <2>1, <2>2, EndFacts
<1>39. ASSUME NEW x \in End PROVE opened'[x] > Real(x, j) => pcb'[x].state \in Idle
  <2>1. CASE x = e
    BY <1>4, <1>24, <1>30, <2>1
  <2>2. CASE x = y
    BY <1>26, <1>27, <2>2
  <2> QED
    BY <1>3, <2>1, <2>2, EndFacts
<1>40. pcb'["client"].state \notin Opening
  BY <1>4, <1>13, <1>26 DEF Opening
<1>41. ASSUME opened'["server"] = j, pcb'["server"].state = "SYN_RECEIVED"
       PROVE  /\ pcb'["server"].rcv = Base("client", j)
              /\ written'["server"] = 0 /\ delivered'["server"] = <<>>
  BY <1>1, <1>4, <1>7, <1>24, <1>26, <1>27, <1>30, <1>41
<1>42. \A x \in End : outcome'[x] # "ok"
  BY <1>24, <1>27
<1>43. Bound(j)'
  <2>1. Base("client", j)' = Base("client", j)
    BY DEF Base, FirstByte, Real
  <2>2. j \in 1 .. opened'["server"] /\ opened'["client"] >= 1
    BY <1>24, <1>29
  <2> QED
    BY <1>37, <1>38, <1>39, <1>40, <1>41, <1>42, <2>1, <2>2 DEF Bound, Real, Idle, Opening, Base, FirstByte
<1> QED
  BY <1>28, <1>29, <1>43 DEF StreamInv
-----------------------------------------------------------------------------
(* A segment for an open connection. *)

(* Of the connections that e opens, one alone has this number among its own.  *)
LEMMA ApartFacts ==
  ASSUME Apart, NEW e \in End, NEW i \in DOMAIN Isn[e], NEW r \in DOMAIN Isn[e],
         NEW m \in Nat, m <= MaxBytes[e] + 1, FirstByte(e, i) = Plus(FirstByte(e, r), m)
  PROVE  i = r
<1>1. PICK a \in SeqNum, b \in SeqNum : a = Isn[e][i] /\ b = Isn[e][r]
  BY IsnFacts
<1>2. MaxBytes[e] \in Nat /\ MaxBytes[e] + 2 < Half
  BY BytesAssumption, SeqAssumption DEF Half
<1>3. PICK max \in Nat : max = MaxBytes[e] /\ max + 2 < Half /\ m <= max + 1
  BY <1>2
<1>4. m + 1 < Half /\ m < Half /\ 1 + m < Half /\ m + 1 = 1 + m
  BY <1>3, SeqModFacts
<1>5. PICK c \in SeqNum : c = Plus(b, m) /\ SeqDist(c, b) = m
  BY <1>1, <1>4, PlusDist
<1>6. Plus(c, 1) = Plus(Plus(b, 1), m)
  <2>1. Plus(Plus(b, m), 1) = Plus(b, m + 1)
    BY <1>4, PlusPlus
  <2>2. Plus(Plus(b, 1), m) = Plus(b, 1 + m)
    BY <1>4, PlusPlus
  <2> QED
    BY <1>4, <1>5, <2>1, <2>2
<1>7. Plus(a, 1) = Plus(c, 1)
  BY <1>1, <1>6 DEF FirstByte
<1>8. a = c
  <2>1. /\ Plus(a, 1) = IF a + 1 < SeqMod THEN a + 1 ELSE a + 1 - SeqMod
        /\ Plus(c, 1) = IF c + 1 < SeqMod THEN c + 1 ELSE c + 1 - SeqMod
    BY SeqModFacts, PlusCases
  <2> QED
    BY <1>7, <2>1, SeqModFacts DEF SeqNum
<1>9. SeqDist(Isn[e][i], Isn[e][r]) = m
  BY <1>1, <1>5, <1>8
<1>10. ~(m > max + 1)
  BY <1>3
<1> QED
  BY <1>3, <1>9, <1>10 DEF Apart

(* A connection that is open, p its PCB in the middle of a handler, and the   *)
(* streams it carries.                                                        *)
Served(e, k, t, u, p) ==
  /\ Bound(k) /\ ~Unbound /\ opened[e] = Real(e, k) /\ pcb[e].state # "CLOSED"
  /\ t = Own(e, k, written[e], p.fin_queued) /\ u = Far(e, k, delivered[e])
  /\ Sane(t) /\ Sane(u) /\ SendOK(t, p) /\ RecvOK(u, p)
  /\ t.written = written[e] /\ t.read = Len(delivered[Peer(e)]) /\ t.final = p.fin_queued
  /\ u.written = written[Peer(e)] /\ u.read = Len(delivered[e])
  /\ pcb[e].fin_queued = TRUE => p.fin_queued = TRUE

\* what the segment says of the streams, once the handler has made p of the PCB
Says(t, u, p, s) ==
  /\ "ACK" \in s.flags => AckOutside(p, s.ack) \/ AckNum(t, s.ack)
  /\ Carries(s) => \E n \in Nat : Cut(u, s, n)

(* An old SYN-ACK acknowledges another connection, or nothing new of this.    *)
LEMMA OldAck ==
  ASSUME IInv, Common, Apart, NEW k \in Nat, NEW e \in End, NEW t, NEW u, Carried(e, k, t, u),
         NEW p, p = pcb[e], NEW i \in 1 .. opened[e], NEW ack, ack = FirstByte(e, i)
  PROVE  AckOutside(p, ack) \/ AckNum(t, ack)
<1>1. SUFFICES ASSUME ~AckOutside(p, ack) PROVE AckNum(t, ack)
  OBVIOUS
<1>2. /\ Sane(t) /\ Sync(p) /\ SendOK(t, p) /\ t.base = Base(e, k) /\ t.written = written[e]
      /\ Bound(k) /\ opened[e] = Real(e, k)
  BY DEF Carried, InStep
<1>3. /\ i \in DOMAIN Isn[e] /\ opened[e] \in DOMAIN Isn[e] /\ ack \in SeqNum
  <2>1. opened[e] \in Nat /\ \A j \in 1 .. opened[e] : j \in DOMAIN Isn[e] /\ FirstByte(e, j) \in SeqNum
    BY OpenedFacts
  <2>2. opened[e] \in 1 .. opened[e]
    BY <2>1
  <2> QED
    BY <2>1, <2>2
<1>4. PICK n \in Nat : Holds(t, p, n)
  BY <1>2 DEF SendOK
<1>5. PICK d \in Nat : ack = Plus(t.base, n + d) /\ n + d <= t.written + 1
  BY <1>1, <1>2, <1>3, <1>4, AckInside
<1>6. PICK m \in Nat : m = n + d
  OBVIOUS
<1>7. m <= MaxBytes[e] + 1
  <2>1. written[e] \in Nat /\ MaxBytes[e] \in Nat /\ written[e] <= MaxBytes[e]
    BY BytesAssumption DEF IInv, Bounded
  <2> QED
    BY <1>2, <1>5, <1>6, <2>1
<1>8. FirstByte(e, i) = Plus(FirstByte(e, opened[e]), m)
  BY <1>2, <1>5, <1>6 DEF Base
<1>9. i = opened[e]
  BY <1>3, <1>7, <1>8, ApartFacts
<1>10. ack = t.base /\ t.base \in SeqNum /\ t.read \in Nat
  BY <1>2, <1>9 DEF Base, Sane, Streams
<1>11. PICK z \in Nat : z = 0
  OBVIOUS
<1>12. AckOK(t, z) /\ ack = Plus(t.base, z)
  BY <1>10, <1>11, PlusNone DEF AckOK
<1> QED
  BY <1>12 DEF AckNum

(* What a segment says to an open connection.                                 *)
LEMMA LiveSays ==
  ASSUME IInv, StreamInv, Apart, NEW e \in End, NEW s \in net[e], "RST" \notin s.flags, pcb[e].state \notin Idle,
         NEW p, p = pcb[e]
  PROVE  \E k \in Nat : \E t, u : Served(e, k, t, u, p) /\ Says(t, u, p, s)
<1>k. PICK k \in Nat : \E t, u : Carried(e, k, t, u)
  BY LiveFacts
<1>1. PICK t, u : Carried(e, k, t, u)
  BY <1>k
<1>2. PICK y \in End : y = Peer(e) /\ Peer(y) = e
  BY EndFacts
<1>3. Bound(k) /\ Common /\ t = Stream(e, k) /\ u = Stream(y, k)
  BY <1>1, <1>2 DEF Carried, StreamInv
<1>4. SynOK(y, s) \/ DataOK(u, t, s)
  BY <1>2, <1>3 DEF Bound
<1>5. Says(t, u, p, s)
  <2>1. CASE DataOK(u, t, s)
    BY <2>1 DEF DataOK, Says
  <2>2. CASE SynOK(y, s)
    <3>1. ~Carries(s)
      BY <2>2 DEF SynOK, Carries
    <3>2. ASSUME "ACK" \in s.flags PROVE AckOutside(p, s.ack) \/ AckNum(t, s.ack)
      <4>1. PICK i \in 1 .. opened[e] : s.ack = FirstByte(e, i)
        BY <1>2, <2>2, <3>2 DEF SynOK
      <4> QED
        BY <1>1, <1>3, <4>1, OldAck
    <3> QED
      BY <3>1, <3>2 DEF Says
  <2> QED
    BY <1>4, <2>1, <2>2
<1>6. ~Unbound /\ pcb[e].state # "CLOSED"
  BY DEF Unbound, Idle
<1>7. Served(e, k, t, u, p)
  BY <1>1, <1>6 DEF Served, Carried, InStep
<1> QED
  BY <1>5, <1>7

\* p is q when its SYN's acknowledgment has come
Welcome(q, wnd, p) == p = Established(q, q.max, wnd)

\* what it has become
JustOpen(q, p) ==
  /\ p \in Pcb /\ Sync(p) /\ Claims(p) /\ p.state = "ESTABLISHED" /\ p.una = q.max /\ p.buf = <<>>
  /\ p.fin_queued = FALSE /\ p.fin_sent = FALSE /\ p.rcv = q.rcv

(* The PCB behind the handshake.                                              *)
LEMMA WelcomeFacts ==
  ASSUME NEW q \in Pcb, q.state \in Opening, OpeningInv(q), NEW wnd \in Nat, NEW p, Welcome(q, wnd, p)
  PROVE  JustOpen(q, p)
<1>1. PICK z : z = Established(q, q.max, wnd)
  OBVIOUS
<1>2. p = z
  BY <1>1 DEF Welcome
<1>3. /\ z \in Pcb /\ Sync(z) /\ Claims(z) /\ z.state = "ESTABLISHED" /\ z.una = q.max /\ z.buf = <<>>
      /\ z.fin_queued = FALSE /\ z.fin_sent = FALSE /\ z.rcv = q.rcv
  BY <1>1, EstFields
<1> QED
  BY <1>2, <1>3 DEF JustOpen

(* What the ACK that completes the passive open says: with the ISNs apart, it *)
(* is of the connection whose SYN-ACK the client took.                        *)
LEMMA PassiveSays ==
  ASSUME IInv, StreamInv, Apart, NEW e \in End, NEW s \in net[e], "RST" \notin s.flags, "SYN" \notin s.flags,
         pcb[e].state = "SYN_RECEIVED", s.ack = pcb[e].max, NEW wnd \in Nat,
         NEW p, Welcome(pcb[e], wnd, p)
  PROVE  \E k \in Nat : \E t, u : Served(e, k, t, u, p) /\ Says(t, u, p, s)
<1>1. Common
  BY DEF StreamInv
<1>2. PICK y \in End : y = Peer(e) /\ Peer(y) = e
  BY EndFacts
<1>3. ~Unbound
  BY <1>2 DEF Unbound, SynOK
<1>4. PICK k \in Nat : Bound(k)
  BY <1>3 DEF StreamInv
<1>5. PICK t, u : t = Stream(e, k) /\ u = Stream(y, k)
  OBVIOUS
<1>6. DataOK(u, t, s)
  <2>1. SynOK(y, s) \/ DataOK(u, t, s)
    BY <1>2, <1>4, <1>5 DEF Bound
  <2> QED
    BY <2>1 DEF SynOK
<1>7. k \in 1 .. opened["server"] /\ opened["client"] >= 1
  BY <1>4 DEF Bound
<1>8. /\ Sane(t) /\ t.base = Base(e, k) /\ t.written = written[e] /\ t.read = Len(delivered[y])
      /\ Sane(u) /\ u.base = Base(y, k) /\ u.written = written[y] /\ u.read = Len(delivered[e])
  BY <1>1, <1>2, <1>5, <1>7, StreamFacts
<1>9. /\ pcb[e] \in Pcb /\ OpeningInv(pcb[e]) /\ pcb[e].state \in Opening /\ written[e] \in Nat
  BY StateFacts DEF PcbInv, Opening
<1>10. s.ack = FirstByte(e, opened[e])
  BY <1>1, <1>9 DEF OpeningInv, Common, FirstByte
<1>11. opened[e] = Real(e, k)
  <2>1. PICK a \in Nat : AckOK(t, a) /\ s.ack = Plus(t.base, a)
    BY <1>6 DEF DataOK, AckNum, AckOK
  <2>2. a <= t.written + 1
    BY <1>8, <2>1, AckBound
  <2>3. written[e] \in Nat /\ MaxBytes[e] \in Nat /\ written[e] <= MaxBytes[e]
    BY BytesAssumption DEF IInv, Bounded
  <2>4. a <= MaxBytes[e] + 1
    BY <1>8, <2>2, <2>3
  <2>5. FirstByte(e, opened[e]) = Plus(FirstByte(e, Real(e, k)), a)
    BY <1>8, <1>10, <2>1 DEF Base
  <2>6. opened[e] \in DOMAIN Isn[e] /\ Real(e, k) \in DOMAIN Isn[e]
    <3>1. opened[e] \in Nat /\ \A j \in 1 .. opened[e] : j \in DOMAIN Isn[e]
      BY OpenedFacts
    <3>2. Real(e, k) \in 1 .. opened[e]
      BY <1>7, BoundFacts
    <3>3. opened[e] \in 1 .. opened[e]
      BY <3>1, <3>2
    <3> QED
      BY <3>1, <3>2, <3>3
  <2> QED
    BY <2>4, <2>5, <2>6, ApartFacts
<1>12. e = "server" /\ opened["server"] = k /\ y = "client"
  <2>1. e # "client"
    BY <1>4, <1>9, <1>11 DEF Bound, Real
  <2> QED
    BY <1>2, <1>11, <2>1, EndFacts DEF Real
<1>13. pcb[e].rcv = Base(y, k) /\ written[e] = 0 /\ delivered[e] = <<>>
  BY <1>4, <1>12 DEF Bound
<1>14. JustOpen(pcb[e], p)
  BY <1>9, WelcomeFacts
<1>j. /\ p \in Pcb /\ Sync(p) /\ p.state = "ESTABLISHED" /\ p.una = pcb[e].max /\ p.buf = <<>>
      /\ p.fin_queued = FALSE /\ p.fin_sent = FALSE /\ p.rcv = pcb[e].rcv
  BY <1>14 DEF JustOpen
<1>15. SendOK(t, p) /\ RecvOK(u, p)
  <2>1. p.una = t.base /\ p.rcv = u.base /\ t.written = 0 /\ u.read = 0
    BY <1>8, <1>10, <1>11, <1>13, <1>j DEF Base
  <2> QED
    BY <1>8, <1>j, <2>1, OpenInStep
<1>16. PICK no \in BOOLEAN : no = FALSE
  OBVIOUS
<1>17. t = Own(e, k, written[e], no) /\ t.final = no
  <2>1. Final(e, k) = no
    <3>1. opened[e] \in Nat
      BY OpenedFacts
    <3> QED
      BY <1>9, <1>11, <1>16, <3>1 DEF Final, Past, Live, Idle, Opening
  <2>2. t.final = Final(e, k)
    BY <1>1, <1>5, <1>7, StreamFacts
  <2> QED
    BY <1>2, <1>5, <2>1, <2>2 DEF Own, Stream
<1>18. u = Far(e, k, delivered[e])
  BY <1>2, <1>5 DEF Far, Stream
<1>19. pcb[e].fin_queued # TRUE /\ pcb[e].state # "CLOSED"
  BY <1>9 DEF OpeningInv
<1>20. Served(e, k, t, u, p)
  BY <1>2, <1>3, <1>4, <1>8, <1>11, <1>j, <1>15, <1>16, <1>17, <1>18, <1>19 DEF Served
<1>21. Says(t, u, p, s)
  BY <1>6 DEF DataOK, Says
<1> QED
  BY <1>20, <1>21

(* A handler that has taken the acknowledgment of a segment, p of the PCB.    *)
Midway(e, k, t, u, p) ==
  /\ Bound(k) /\ ~Unbound /\ opened[e] = Real(e, k) /\ pcb[e].state # "CLOSED"
  /\ InStep(t, u, p) /\ Claims(p) /\ t = Own(e, k, written[e], p.fin_queued) /\ u = Far(e, k, delivered[e])
  /\ t.written = written[e] /\ t.final = p.fin_queued
  /\ u.written = written[Peer(e)] /\ u.read = Len(delivered[e])
  /\ pcb[e].fin_queued = TRUE => p.fin_queued = TRUE

\* the len bytes of data are the next of stream u
Follows(u, data, len) ==
  /\ data \in Seq(Nat) /\ len = Len(data) /\ u.read + len <= u.written
  /\ \A i \in 1 .. len : data[i] = u.read + i

\* d is what e has delivered, with more of the stream behind it
More(e, d) ==
  /\ d \in Seq(Nat) /\ Len(delivered[e]) <= Len(d) /\ Len(d) <= written[Peer(e)]
  /\ \A i \in 1 .. Len(d) : d[i] = i

(* recv_cb took the data, and perhaps replied: the PCB is in step with what   *)
(* was read.                                                                  *)
LEMMA ReceivedInStep ==
  ASSUME NEW t, NEW u, NEW p, InStep(t, u, p), NEW s \in Segments, Takes(p, s), NEW n \in Nat, Cut(u, s, n),
         NEW tt, NEW r, InStep(tt, u, r), Claims(r), CanTakeData(r.state), r.rcv = p.rcv,
         NEW len, len = Len(NewBytes(p, s)), NEW q, q = Received(r, s, len), NEW uu, uu = Taken(u, len)
  PROVE  InStep(tt, uu, q) /\ q.fin_queued = r.fin_queued
<1>1. /\ Sane(t) /\ Sane(u) /\ Sync(p) /\ RecvOK(u, p) /\ Sane(tt) /\ Sync(r) /\ SendOK(tt, r)
      /\ (r.fin_queued = TRUE => tt.final = TRUE) /\ r \in Pcb
  BY DEF InStep, Sync
<1>2. PICK data : data = NewBytes(p, s)
  OBVIOUS
<1>3. data \in Seq(Nat) /\ u.read + Len(data) <= u.written
  BY <1>1, <1>2, NewBytesFacts
<1>4. len \in Nat /\ len = Len(data) /\ u.read + len <= u.written
  BY <1>2, <1>3
<1>5. Sane(uu)
  BY <1>1, <1>4, TakenFacts
<1>6. PICK x : x = Received(r, s, Len(NewBytes(p, s)))
  OBVIOUS
<1>7. x = q
  BY <1>6
<1>8. /\ RecvOK(Taken(u, Len(NewBytes(p, s))), x) /\ x.una = r.una /\ x.buf = r.buf
      /\ x.fin_queued = r.fin_queued /\ (FinDone(x) <=> FinDone(r))
  BY <1>1, <1>6, ReceivedStream
<1>9. /\ RecvOK(uu, q) /\ q.una = r.una /\ q.buf = r.buf
      /\ q.fin_queued = r.fin_queued /\ (FinDone(q) <=> FinDone(r))
  BY <1>7, <1>8
<1>10. Sync(q)
  BY <1>1, <1>4, ReceivedFacts
<1>11. SendOK(tt, q)
  BY <1>1, <1>9, SendSame
<1> QED
  BY <1>1, <1>5, <1>9, <1>10, <1>11 DEF InStep

(* A stream is read on by its bytes.                                          *)
LEMMA FlowTaken ==
  ASSUME NEW b \in SeqNum, NEW w \in Nat, NEW r \in Nat, NEW f \in BOOLEAN, NEW n \in Nat
  PROVE  Taken(Flow(b, w, r, f), n) = Flow(b, w, r + n, f)
<1>1. PICK x \in Nat : x = r + n
  OBVIOUS
<1>2. Flow(b, w, r, f) \in Streams
  BY DEF Flow, Streams
<1>3. PICK t \in Streams : t = [Flow(b, w, r, f) EXCEPT !.read = x]
  BY <1>2 DEF Flow, Streams
<1>4. PICK u \in Streams : u = Flow(b, w, x, f)
  BY DEF Flow, Streams
<1>5. t.base = u.base /\ t.written = u.written /\ t.read = u.read /\ t.final = u.final
  BY <1>2, <1>3, <1>4 DEF Flow, Streams
<1>6. t = u
  BY <1>5 DEF Streams
<1>7. t = Taken(Flow(b, w, r, f), n)
  <2>1. Flow(b, w, r, f).read + n = x
    BY <1>1 DEF Flow
  <2> QED
    BY <1>3, <2>1 DEF Taken
<1> QED
  BY <1>1, <1>4, <1>6, <1>7

\* what e has delivered with data behind it
Appended(e, data) == delivered[e] \o data

(* The same, of a stream known to be sane.                                    *)
LEMMA SaneTaken ==
  ASSUME NEW b, NEW w \in Nat, NEW r \in Nat, NEW f, NEW n \in Nat, NEW u, Sane(u), u = Flow(b, w, r, f),
         NEW x \in Nat, x = r + n, NEW v, v = Flow(b, w, x, f)
  PROVE  Taken(u, n) = v
<1>1. u.base = b /\ u.final = f
  BY DEF Flow
<1>2. b \in SeqNum /\ f \in BOOLEAN
  BY <1>1 DEF Sane, Streams
<1> QED
  BY <1>2, FlowTaken

(* What recv_cb takes goes behind what was delivered.                         *)
LEMMA AppendFacts ==
  ASSUME IInv, Common, NEW k, NEW e \in End, NEW t, NEW u, NEW p, Midway(e, k, t, u, p),
         NEW data, NEW len \in Nat, Follows(u, data, len),
         NEW d, d = Appended(e, data)
  PROVE  More(e, d) /\ Taken(u, len) = Far(e, k, d)
<1>s. /\ Sane(u) /\ u = Far(e, k, delivered[e]) /\ u.read = Len(delivered[e]) /\ u.written = written[Peer(e)]
  BY DEF Midway, InStep
<1>0. /\ data \in Seq(Nat) /\ len = Len(data) /\ u.read + len <= u.written
      /\ \A i \in 1 .. len : data[i] = u.read + i
  BY DEF Follows
<1>1. delivered[e] \in Seq(Nat) /\ \A i \in 1 .. Len(delivered[e]) : delivered[e][i] = i
  BY DEF Common
<1>o. PICK old \in Seq(Nat) : old = delivered[e]
  BY <1>1
<1>m. PICK m \in Nat : m = Len(old)
  OBVIOUS
<1>2. old \in Seq(Nat) /\ m \in Nat /\ old = delivered[e] /\ m = Len(old)
  BY <1>o, <1>m
<1>3. PICK w \in Nat : w = written[Peer(e)] /\ m + len <= w
  <2>1. written[Peer(e)] \in Nat
    BY StateFacts, EndFacts
  <2> QED
    BY <1>0, <1>2, <1>s, <2>1
<1>d. d = old \o data
  BY <1>2 DEF Appended
<1>4. d \in Seq(Nat) /\ Len(d) = m + len
  BY <1>0, <1>2, <1>d
<1>5. ASSUME NEW i \in 1 .. m + len PROVE d[i] = i
  <2>1. CASE i <= m
    BY <1>0, <1>1, <1>2, <1>d, <2>1
  <2>2. CASE ~(i <= m)
    <3>1. PICK j \in 1 .. len : i = m + j
      <4>1. i - m \in 1 .. len /\ i = m + (i - m)
        BY <2>2
      <4> QED
        BY <4>1
    <3>2. d[i] = data[j]
      BY <1>0, <1>2, <1>d, <3>1
    <3> QED
      BY <1>0, <1>2, <1>s, <3>1, <3>2
  <2> QED
    BY <2>1, <2>2
<1>6. More(e, d)
  <2>1. Len(delivered[e]) <= Len(d) /\ Len(d) <= written[Peer(e)]
    BY <1>2, <1>3, <1>4
  <2> QED
    BY <1>4, <1>5, <2>1 DEF More
<1>7. Taken(u, len) = Far(e, k, d)
  <2>1. PICK b, f : b = Base(Peer(e), k) /\ f = Final(Peer(e), k)
    OBVIOUS
  <2>2. PICK v : v = Far(e, k, d)
    OBVIOUS
  <2>x. PICK x \in Nat : x = m + len
    BY <1>2
  <2>3. u = Flow(b, w, m, f) /\ v = Flow(b, w, x, f)
    BY <1>2, <1>3, <1>4, <1>s, <2>1, <2>2, <2>x DEF Far
  <2>s. Sane(u) /\ w \in Nat /\ m \in Nat
    BY <1>s, <1>2, <1>3
  <2>4. Taken(u, len) = v
    BY <2>s, <2>x, <2>3, SaneTaken
  <2> QED
    BY <2>2, <2>4
<1> QED
  BY <1>6, <1>7

(* The end of tcp_input, in terms of the streams.                             *)
LEMMA FlushStream ==
  ASSUME IInv, IInv', Common, NEW k \in Nat, Bound(k), NEW e \in End,
         opened[e] = Real(e, k), pcb[e].state # "CLOSED",
         NEW t, NEW u, NEW q, InStep(t, u, q), NEW w, t = Own(e, k, w, q.fin_queued), written[e] <= w,
         pcb[e].fin_queued = TRUE => q.fin_queued = TRUE /\ w = written[e],
         NEW d, u = Far(e, k, d), More(e, d), NEW due \in BOOLEAN, Flush(e, q, due),
         listening' = listening, opened' = opened, outcome' = outcome,
         written' = [written EXCEPT ![e] = w] \/ (written' = written /\ w = written[e]),
         delivered' = [delivered EXCEPT ![e] = d] \/ (delivered' = delivered /\ d = delivered[e])
  PROVE  StreamInv'
<1>1. PICK x, sent : /\ Puts(e, x, sent) /\ InStep(t, u, x) /\ x.fin_queued = q.fin_queued
                     /\ \A s \in sent : DataOK(t, u, s)
  BY FlushInStep
<1>2. Onward(e, k, x, w, d, sent, t, u)
  BY <1>1 DEF Onward, More
<1> QED
  BY <1>1, <1>2, SideStep

(* The end of tcp_input, when nothing was taken.                              *)
LEMMA QuietFlush ==
  ASSUME IInv, IInv', Common, NEW k \in Nat, NEW e \in End, NEW t, NEW u, NEW p, Midway(e, k, t, u, p),
         NEW q, InStep(t, u, q), q.fin_queued = p.fin_queued, NEW due \in BOOLEAN, Flush(e, q, due),
         listening' = listening, opened' = opened, UNCHANGED hist
  PROVE  StreamInv'
<1>1. /\ Bound(k) /\ opened[e] = Real(e, k) /\ pcb[e].state # "CLOSED"
      /\ t = Own(e, k, written[e], q.fin_queued) /\ u = Far(e, k, delivered[e])
      /\ u.written = written[Peer(e)] /\ u.read = Len(delivered[e])
      /\ pcb[e].fin_queued = TRUE => q.fin_queued = TRUE
  BY DEF Midway
<1>2. written' = written /\ outcome' = outcome /\ delivered' = delivered
  BY DEF hist
<1>3. PICK w, d : w = written[e] /\ d = delivered[e]
  OBVIOUS
<1>4. More(e, d)
  <2>1. delivered[e] \in Seq(Nat) /\ Len(delivered[e]) \in Nat
    BY DEF Common
  <2> QED
    BY <1>1, <1>3, <2>1 DEF Common, More
<1>5. /\ t = Own(e, k, w, q.fin_queued) /\ written[e] <= w /\ u = Far(e, k, d)
      /\ (pcb[e].fin_queued = TRUE => q.fin_queued = TRUE /\ w = written[e])
  BY <1>1, <1>3, StateFacts
<1>6. PICK x, sent : /\ Puts(e, x, sent) /\ InStep(t, u, x) /\ x.fin_queued = q.fin_queued
                     /\ \A s \in sent : DataOK(t, u, s)
  BY FlushInStep
<1>7. Onward(e, k, x, w, d, sent, t, u)
  BY <1>4, <1>5, <1>6 DEF Onward, More
<1> QED
  BY <1>1, <1>2, <1>3, <1>6, <1>7, SideStep

(* recv_cb takes the bytes, answers and closes, aborts, or refuses them.      *)
LEMMA DeliverStream ==
  ASSUME IInv, IInv', StreamInv, NEW k \in Nat, NEW e \in End, NEW t, NEW u, NEW p, Midway(e, k, t, u, p),
         NEW s \in Segments, Takes(p, s), NEW n \in Nat, Cut(u, s, n), NEW data, data = NewBytes(p, s),
         Deliver(e, p, s, data), opened' = opened, listening' = listening
  PROVE  StreamInv'
<1>1. /\ Common /\ Bound(k) /\ ~Unbound /\ opened[e] = Real(e, k) /\ pcb[e].state # "CLOSED"
      /\ InStep(t, u, p) /\ Claims(p) /\ t = Own(e, k, written[e], p.fin_queued) /\ u = Far(e, k, delivered[e])
      /\ t.written = written[e] /\ t.final = p.fin_queued
      /\ u.written = written[Peer(e)] /\ u.read = Len(delivered[e])
      /\ Sane(t) /\ Sane(u) /\ Sync(p) /\ RecvOK(u, p) /\ p \in Pcb
      /\ CanTakeData(p.state)
  BY DEF Midway, StreamInv, InStep, Sync, Takes
<1>f. pcb[e].fin_queued = TRUE => p.fin_queued = TRUE
  BY DEF Midway
<1>2. /\ data \in Seq(Nat) /\ u.read + Len(data) <= u.written
      /\ \A i \in 1 .. Len(data) : data[i] = u.read + i
  BY <1>1, NewBytesFacts
<1>3. PICK len \in Nat : len = Len(data)
  BY <1>2
<1>4. PICK d : d = Appended(e, data)
  OBVIOUS
<1>5. More(e, d) /\ Taken(u, len) = Far(e, k, d)
  <2>1. Follows(u, data, len)
    BY <1>2, <1>3 DEF Follows
  <2>2. Common
    BY <1>1
  <2>3. len \in Nat
    OBVIOUS
  <2> QED
    BY <1>4, <2>1, <2>2, <2>3, AppendFacts
<1>6. PICK uu : uu = Taken(u, len)
  OBVIOUS
<1>7. PICK yes \in BOOLEAN, no \in BOOLEAN : yes = TRUE /\ no = FALSE
  OBVIOUS
<1>8. written[e] \in Nat
  BY StateFacts
<1>9. CASE /\ Flush(e, Received(p, s, Len(data)), TRUE) /\ UNCHANGED <<written, outcome>>
           /\ delivered' = [delivered EXCEPT ![e] = @ \o data]
  <2>1. PICK q : q = Received(p, s, len)
    OBVIOUS
  <2>2. InStep(t, uu, q) /\ q.fin_queued = p.fin_queued
    BY <1>1, <1>3, <1>6, <2>1, ReceivedInStep
  <2>3. Flush(e, q, yes)
    BY <1>3, <1>7, <1>9, <2>1
  <2>4. PICK w : w = written[e]
    OBVIOUS
  <2>5. /\ t = Own(e, k, w, q.fin_queued) /\ written[e] <= w /\ uu = Far(e, k, d)
        /\ (pcb[e].fin_queued = TRUE => q.fin_queued = TRUE /\ w = written[e])
    BY <1>1, <1>5, <1>6, <1>8, <1>f, <2>2, <2>4
  <2>6. written' = written /\ w = written[e] /\ outcome' = outcome /\ delivered' = [delivered EXCEPT ![e] = d]
    BY <1>4, <1>9, <2>4 DEF Appended
  <2> QED
    BY <1>1, <1>5, <1>7, <2>2, <2>3, <2>5, <2>6, FlushStream
<1>10. CASE /\ p.state = "ESTABLISHED" /\ UNCHANGED outcome
            /\ \E m \in {0, 1} :
                 /\ Len(p.buf) + m <= MaxCwnd /\ written[e] + m <= MaxBytes[e]
                 /\ Flush(e, Received(Reply(e, p, m), s, Len(data)), TRUE)
                 /\ written' = [written EXCEPT ![e] = @ + m]
            /\ delivered' = [delivered EXCEPT ![e] = @ \o data]
  <2>1. PICK m \in {0, 1} :
          /\ Len(p.buf) + m <= MaxCwnd /\ written[e] + m <= MaxBytes[e]
          /\ Flush(e, Received(Reply(e, p, m), s, Len(data)), TRUE)
          /\ written' = [written EXCEPT ![e] = @ + m]
    BY <1>10
  <2>2. m \in Nat
    OBVIOUS
  <2>3. p.fin_queued = no
    <3>1. p.fin_queued \in BOOLEAN
      BY <1>1, PcbFields
    <3> QED
      BY <1>1, <1>7, <1>10, <3>1 DEF Sync, FinInv, Ending
  <2>4. PICK st : st = "FIN_WAIT_1"
    OBVIOUS
  <2>5. PICK w \in Nat : w = written[e] + m
    BY <1>8, <2>2
  <2>6. PICK tt : tt = Own(e, k, w, yes)
    OBVIOUS
  <2>7. PICK r : r = Longer(p, Fresh(written[e], m), st, yes)
    OBVIOUS
  <2>8. /\ InStep(tt, u, r) /\ r.fin_queued = yes /\ Claims(r) /\ r.rcv = p.rcv /\ r.state = st
    <3>1. FinQueued(st, yes) /\ (CanTakeData(st) <=> CanTakeData(p.state))
      BY <1>1, <1>7, <2>4 DEF FinQueued, CanTakeData
    <3>2. Appends(e, written[e], t, u, p, m, st, yes)
      BY <1>1, <1>7, <2>1, <2>3, <3>1 DEF Appends
    <3>3. t = Own(e, k, written[e], no) /\ tt = Own(e, k, written[e] + m, yes)
      BY <1>1, <2>3, <2>5, <2>6
    <3> QED
      BY <1>8, <2>2, <2>7, <3>2, <3>3, LongerInStep
  <2>9. Reply(e, p, m) = r
    BY <1>7, <1>10, <2>4, <2>7 DEF Reply, Longer, Fresh
  <2>10. CanTakeData(r.state)
    BY <2>4, <2>8 DEF CanTakeData
  <2>11. PICK q : q = Received(r, s, len)
    OBVIOUS
  <2>12. InStep(tt, uu, q) /\ q.fin_queued = r.fin_queued
    BY <1>1, <1>3, <1>6, <2>8, <2>10, <2>11, ReceivedInStep
  <2>13. Flush(e, q, yes)
    BY <1>3, <1>7, <2>1, <2>9, <2>11
  <2>14. pcb[e].fin_queued # TRUE
    BY <1>7, <1>f, <2>3
  <2>15. /\ tt = Own(e, k, w, q.fin_queued) /\ written[e] <= w /\ uu = Far(e, k, d)
         /\ (pcb[e].fin_queued = TRUE => q.fin_queued = TRUE /\ w = written[e])
    <3>1. written[e] <= w
      BY <1>8, <2>2, <2>5
    <3> QED
      BY <1>5, <1>6, <2>6, <2>8, <2>12, <2>14, <3>1
  <2>16. /\ written' = [written EXCEPT ![e] = w] /\ outcome' = outcome
         /\ delivered' = [delivered EXCEPT ![e] = d]
    BY <1>4, <1>10, <2>1, <2>5 DEF Appended
  <2> QED
    BY <1>1, <1>5, <1>7, <2>12, <2>13, <2>15, <2>16, FlushStream
<1>11. CASE /\ Release(e, SendCtl(Work([p EXCEPT !.rcv = Plus(@, Len(data))], Ample), {"RST", "ACK"}), "aborted")
            /\ UNCHANGED <<written, left>>
            /\ delivered' = [delivered EXCEPT ![e] = @ \o data]
  <2>1. p.rcv \in SeqNum
    BY <1>1, PcbFields
  <2>2. PICK rcv \in SeqNum : rcv = Plus(p.rcv, Len(data))
    <3>1. p.rcv + len \in Int
      BY <2>1, SeqModFacts DEF SeqNum
    <3>2. Plus(p.rcv, len) \in SeqNum
      BY <3>1, SeqModFacts DEF Plus, SeqNum
    <3> QED
      BY <1>3, <3>2
  <2>3. PICK q : q = [p EXCEPT !.rcv = rcv]
    OBVIOUS
  <2>4. q \in Pcb
    BY <1>1, <2>3 DEF Pcb
  <2>5. Ample \in Nat /\ {"RST", "ACK"} \in SUBSET {"SYN", "ACK", "FIN", "RST"} /\ 0 \in SeqNum
    BY SeqModFacts DEF Ample, SeqNum
  <2>6. PICK c : c = SendCtl(Work(q, Ample), {"RST", "ACK"})
    OBVIOUS
  <2>7. c \in WorkType
    BY <2>4, <2>5, <2>6, CtlFacts
  <2>8. PICK how : how = "aborted"
    OBVIOUS
  <2>9. Release(e, c, how)
    BY <1>11, <2>2, <2>3, <2>6, <2>8
  <2>10. ASSUME NEW x \in c.sent PROVE "RST" \in x.flags
    <3>1. PICK z : z = Work(q, Ample)
      OBVIOUS
    <3>2. z \in WorkType /\ z.sent = {}
      BY <2>4, <2>5, <3>1, WorkFacts
    <3>3. c = Send(z, {"RST", "ACK"}, z.p.nxt, <<>>)
      BY <2>6, <3>1 DEF SendCtl
    <3> QED
      BY <3>2, <3>3, SendSent
  <2>11. Ends(e, d, how, c.sent)
    BY <1>1, <1>5, <2>8, <2>10 DEF Ends, More
  <2>12. delivered' = [delivered EXCEPT ![e] = d] /\ written' = written
    BY <1>4, <1>11 DEF Appended
  <2> QED
    BY <2>7, <2>9, <2>11, <2>12, ReleaseStream
<1>12. CASE Flush(e, p, FALSE) /\ UNCHANGED hist
  <2>1. Flush(e, p, no) /\ UNCHANGED hist
    BY <1>7, <1>12
  <2> QED
    BY <1>1, <1>7, <2>1, QuietFlush
<1> QED
  BY <1>9, <1>10, <1>11, <1>12 DEF Deliver

(* A segment for an open connection, from its acknowledgment to the flush.    *)
LEMMA RecvSegmentStream ==
  ASSUME IInv, IInv', StreamInv, Apart, NEW e \in End, NEW s \in net[e], RecvSegment(e, s)
  PROVE  StreamInv'
<1>1. /\ pcb[e] \in Pcb /\ PcbInv(pcb[e]) /\ s \in Segments /\ Common
      /\ pcb[e].state \notin Idle => Sync(pcb[e]) /\ Claims(pcb[e])
      /\ "RST" \notin s.flags
  BY StateFacts DEF StreamInv, Idle, RecvSegment
<1>2. opened' = opened /\ listening' = listening
  BY DEF RecvSegment
<1>3. PICK wnd, p0, p, data :
        /\ wnd \in Windows(e)
        /\ p0 = IF pcb[e].state = "SYN_RECEIVED" THEN Established(pcb[e], s.ack, wnd) ELSE pcb[e]
        /\ p = Acked(p0, s, wnd)
        /\ data = IF Takes(p, s) THEN NewBytes(p, s) ELSE <<>>
        /\ \/ /\ p.state = "CLOSED"
              /\ Release(e, Work(p, 0), "ok") /\ UNCHANGED <<written, delivered, left>>
           \/ p.state # "CLOSED" /\ data # <<>> /\ Deliver(e, p, s, data)
           \/ /\ p.state # "CLOSED" /\ data = <<>>
              /\ Flush(e, IF Takes(p, s) THEN Received(p, s, 0) ELSE p, Carries(s)) /\ UNCHANGED hist
  BY DEF RecvSegment
<1>4. wnd \in Nat
  BY <1>3, WindowFacts
<1>5. Sync(p0) /\ Claims(p0) /\ \E k \in Nat : \E t, u : Served(e, k, t, u, p0) /\ Says(t, u, p0, s)
  <2>1. CASE pcb[e].state = "SYN_RECEIVED"
    <3>1. s.ack = pcb[e].max /\ OpeningInv(pcb[e]) /\ pcb[e].state \in Opening /\ "SYN" \notin s.flags
      BY <1>1, <2>1 DEF RecvSegment, PcbInv, Opening
    <3>2. Welcome(pcb[e], wnd, p0)
      BY <1>3, <2>1, <3>1 DEF Welcome
    <3>3. JustOpen(pcb[e], p0)
      BY <1>1, <1>4, <3>1, <3>2, WelcomeFacts
    <3>4. Sync(p0) /\ Claims(p0)
      BY <3>3 DEF JustOpen
    <3>5. \E k \in Nat : \E t, u : Served(e, k, t, u, p0) /\ Says(t, u, p0, s)
      BY <1>1, <1>4, <2>1, <3>1, <3>2, PassiveSays
    <3> QED
      BY <3>4, <3>5
  <2>2. CASE pcb[e].state # "SYN_RECEIVED"
    <3>1. pcb[e].state \notin Idle
      BY <2>2 DEF RecvSegment, Idle, Opening
    <3>2. p0 = pcb[e]
      BY <1>3, <2>2
    <3>3. Sync(p0) /\ Claims(p0)
      BY <1>1, <3>1, <3>2
    <3>4. \E k \in Nat : \E t, u : Served(e, k, t, u, p0) /\ Says(t, u, p0, s)
      BY <1>1, <3>1, <3>2, LiveSays
    <3> QED
      BY <3>3, <3>4
  <2> QED
    BY <2>1, <2>2
<1>k. PICK k \in Nat : \E t, u : Served(e, k, t, u, p0) /\ Says(t, u, p0, s)
  BY <1>5
<1>6. PICK t, u : Served(e, k, t, u, p0) /\ Says(t, u, p0, s)
  BY <1>k
<1>7. /\ Sane(t) /\ Sane(u) /\ SendOK(t, p0) /\ RecvOK(u, p0)
      /\ "ACK" \in s.flags => AckOutside(p0, s.ack) \/ AckNum(t, s.ack)
      /\ Carries(s) => \E n \in Nat : Cut(u, s, n)
  BY <1>6 DEF Served, Says
<1>8. /\ SendOK(t, p) /\ RecvOK(u, p) /\ p.fin_queued = p0.fin_queued
      /\ p.state = "CLOSED" => t.read = t.written
  BY <1>1, <1>3, <1>4, <1>5, <1>7, AckedStream
<1>9. p.state # "CLOSED" => Sync(p) /\ Claims(p)
  BY <1>1, <1>3, <1>4, <1>5, AckedFacts
<1>10. CASE /\ p.state = "CLOSED"
            /\ Release(e, Work(p, 0), "ok") /\ UNCHANGED <<written, delivered, left>>
  <2>1. PICK how : how = "ok"
    OBVIOUS
  <2>2. Release(e, Work(pcb[e], 0), how)
    BY <1>10, <2>1 DEF Release, Work, Commit
  <2>3. ~Unbound /\ Len(delivered[Peer(e)]) = written[e]
    BY <1>6, <1>8, <1>10 DEF Served
  <2> QED
    BY <1>2, <1>10, <2>2, <2>3, DropStream
<1>11. ASSUME p.state # "CLOSED" PROVE Midway(e, k, t, u, p)
  <2>1. InStep(t, u, p)
    BY <1>6, <1>7, <1>8, <1>9, <1>11 DEF InStep, Served
  <2> QED
    BY <1>6, <1>8, <1>9, <1>11, <2>1 DEF Served, Midway
<1>12. CASE p.state # "CLOSED" /\ data # <<>> /\ Deliver(e, p, s, data)
  <2>1. Takes(p, s) /\ data = NewBytes(p, s)
    BY <1>3, <1>12
  <2>2. PICK n \in Nat : Cut(u, s, n)
    BY <1>7, <2>1 DEF Takes
  <2>3. Midway(e, k, t, u, p)
    BY <1>11, <1>12
  <2> QED
    BY <1>1, <1>2, <1>12, <2>1, <2>2, <2>3, DeliverStream
<1>13. CASE /\ p.state # "CLOSED" /\ data = <<>>
            /\ Flush(e, IF Takes(p, s) THEN Received(p, s, 0) ELSE p, Carries(s)) /\ UNCHANGED hist
  <2>1. Midway(e, k, t, u, p)
    BY <1>11, <1>13
  <2>2. /\ Bound(k) /\ opened[e] = Real(e, k) /\ pcb[e].state # "CLOSED" /\ InStep(t, u, p) /\ Claims(p)
        /\ t = Own(e, k, written[e], p.fin_queued) /\ u = Far(e, k, delivered[e])
        /\ pcb[e].fin_queued = TRUE => p.fin_queued = TRUE
    BY <2>1 DEF Midway
  <2>3. PICK len, none : len = 0 /\ none = <<>>
    OBVIOUS
  <2>4. PICK d : d = Appended(e, none)
    OBVIOUS
  <2>5. d = delivered[e]
    <3>1. delivered[e] \in Seq(Nat)
      BY <1>1 DEF Common
    <3> QED
      BY <2>3, <2>4, <3>1 DEF Appended
  <2>6. More(e, d) /\ Taken(u, len) = u
    <3>1. Follows(u, none, len)
      <4>1. u.read \in Nat /\ u.written \in Nat /\ u.read <= u.written
        BY <1>7 DEF Sane, Streams
      <4> QED
        BY <2>3, <4>1 DEF Follows
    <3>2. More(e, d) /\ Taken(u, len) = Far(e, k, d)
      BY <1>1, <2>1, <2>3, <2>4, <3>1, AppendFacts
    <3> QED
      BY <2>2, <2>5, <3>2
  <2>7. PICK due \in BOOLEAN : due = Carries(s)
    <3>1. Carries(s) \in BOOLEAN
      BY DEF Carries
    <3> QED
      BY <3>1
  <2>8. PICK q : q = IF Takes(p, s) THEN Received(p, s, 0) ELSE p
    OBVIOUS
  <2>9. Flush(e, q, due) /\ UNCHANGED hist
    BY <1>13, <2>7, <2>8
  <2>10. InStep(t, u, q) /\ q.fin_queued = p.fin_queued
    <3>1. CASE Takes(p, s)
      <4>1. PICK n \in Nat : Cut(u, s, n)
        BY <1>7, <3>1 DEF Takes
      <4>2. len = Len(NewBytes(p, s))
        BY <1>3, <1>13, <2>3, <3>1
      <4>3. q = Received(p, s, len) /\ CanTakeData(p.state)
        BY <2>3, <2>8, <3>1 DEF Takes
      <4>4. PICK uu : uu = Taken(u, len)
        OBVIOUS
      <4>5. InStep(t, uu, q) /\ q.fin_queued = p.fin_queued
        BY <1>1, <2>2, <3>1, <4>1, <4>2, <4>3, <4>4, ReceivedInStep
      <4> QED
        BY <2>6, <4>4, <4>5
    <3>2. CASE ~Takes(p, s)
      BY <2>2, <2>8, <3>2
    <3> QED
      BY <3>1, <3>2
  <2>11. Common
    BY <1>1
  <2> QED
    BY <1>2, <2>1, <2>7, <2>9, <2>10, <2>11, QuietFlush
<1> QED
  BY <1>3, <1>10, <1>12, <1>13

(* At first there is no connection.                                           *)
LEMMA StreamInit ==
  Init => StreamInv
<1> SUFFICES ASSUME Init PROVE StreamInv
  OBVIOUS
<1>1. /\ pcb = [e \in End |-> FreeSlot] /\ net = [e \in End |-> {}]
      /\ listening = [e \in End |-> e = "server"] /\ opened = [e \in End |-> 0]
      /\ written = [e \in End |-> 0] /\ delivered = [e \in End |-> <<>>] /\ outcome = [e \in End |-> "none"]
  BY DEF Init
<1>2. FreeSlot.state = "CLOSED"
  BY FreeFacts
<1>3. ASSUME NEW e \in End
      PROVE  /\ pcb[e].state = "CLOSED" /\ net[Peer(e)] = {} /\ written[e] = 0 /\ written[Peer(e)] = 0
             /\ delivered[e] = <<>> /\ Len(delivered[e]) = 0 /\ outcome[e] = "none"
  <2>1. Peer(e) \in End
    BY EndFacts
  <2> QED
    BY <1>1, <1>2, <2>1
<1>4. delivered \in [End -> Seq(Nat)]
  BY <1>1
<1>5. Common
  <2>1. ASSUME NEW e \in End
        PROVE  /\ pcb[e].state \notin Opening /\ Len(delivered[e]) <= written[Peer(e)]
               /\ \A i \in 1 .. Len(delivered[e]) : delivered[e][i] = i
    BY <1>3 DEF Opening
  <2> QED
    BY <1>1, <1>4, <2>1 DEF Common, Opening
<1>6. Unbound
  BY <1>3 DEF Unbound, Idle
<1> QED
  BY <1>5, <1>6 DEF StreamInv

(* Every step keeps the invariant.                                            *)
LEMMA StreamOK ==
  ASSUME Apart
  PROVE  IInv /\ IInv' /\ StreamInv /\ [Next]_vars => StreamInv'
<1> SUFFICES ASSUME IInv, IInv', StreamInv, [Next]_vars PROVE StreamInv'
  OBVIOUS
<1>1. CASE UNCHANGED vars
  <2>1. /\ pcb' = pcb /\ net' = net /\ listening' = listening /\ opened' = opened
        /\ written' = written /\ delivered' = delivered /\ outcome' = outcome
    BY <1>1 DEF vars, hist, bounds
  <2>2. Common'
    BY <2>1 DEF StreamInv, Common, FirstByte
  <2>3. CASE Unbound
    <3>1. Unbound'
      BY <2>1, <2>3 DEF Unbound, SynOK, FirstByte
    <3> QED
      BY <2>2, <3>1 DEF StreamInv
  <2>4. CASE \E k \in Nat : Bound(k)
    <3>1. PICK k \in Nat : Bound(k)
      BY <2>4
    <3>2. Bound(k)'
      BY <2>1, <3>1 DEF Bound, Real, Base, FirstByte, Live, Past, Stream, Final, SynOK
    <3> QED
      BY <2>2, <3>2 DEF StreamInv
  <2> QED
    BY <2>3, <2>4 DEF StreamInv
<1>2. ASSUME NEW e \in End, Connect(e) PROVE StreamInv'
  BY <1>2, ConnectStream
<1>3. ASSUME NEW e \in End, Close(e) PROVE StreamInv'
  BY <1>3, CloseAllStream
<1>4. ASSUME NEW e \in End, Abort(e) PROVE StreamInv'
  BY <1>4, AbortStream
<1>5. ASSUME NEW e \in End, NEW n \in 1 .. MaxBytes[e], Write(e, n) PROVE StreamInv'
  BY <1>5, WriteStream
<1>6. ASSUME NEW e \in End, NEW s \in net[e], RecvSyn(e, s) PROVE StreamInv'
  BY <1>6, RecvSynStream
<1>7. ASSUME NEW e \in End, NEW s \in net[e], RecvRst(e, s) PROVE StreamInv'
  BY <1>7, RecvRstStream
<1>8. ASSUME NEW e \in End, NEW s \in net[e], RecvSynSent(e, s) PROVE StreamInv'
  BY <1>8, RecvSynSentStream
<1>9. ASSUME NEW e \in End, NEW s \in net[e], RecvSynAgain(e, s) PROVE StreamInv'
  BY <1>9, RecvSynAgainStream
<1>10. ASSUME NEW e \in End, NEW s \in net[e], RecvSegment(e, s) PROVE StreamInv'
  BY <1>10, RecvSegmentStream
<1>11. ASSUME NEW e \in End, TxRetry(e) PROVE StreamInv'
  BY <1>11, TxRetryStream
<1>12. ASSUME NEW e \in End, Timeout(e) PROVE StreamInv'
  BY <1>12, TimeoutAllStream
<1>13. ASSUME NEW e \in End, Expire(e) PROVE StreamInv'
  BY <1>13, ExpireStream
<1> QED
  BY <1>1, <1>2, <1>3, <1>4, <1>5, <1>6, <1>7, <1>8, <1>9, <1>10, <1>11, <1>12, <1>13 DEF Next, Receive

(* The invariant behind the two theorems below.  Until a SYN-ACK opens the    *)
(* client's connection nothing but SYNs is around; from then on one of the    *)
(* server's connections is its partner, the send buffers hold the two streams *)
(* from the last acknowledgment on, each receiver expects the first byte it   *)
(* has not taken, and every segment that may still arrive is a piece of them. *)
THEOREM Streaming == ASSUME Apart PROVE Spec => []StreamInv
<1>1. Init => IInv /\ StreamInv
  BY InitOK, StreamInit
<1>2. (IInv /\ StreamInv) /\ [Next]_vars => (IInv /\ StreamInv)'
  BY StepOK, StreamOK
<1> QED
  BY <1>1, <1>2, PTL DEF Spec

(* Each application takes the front part of what the other one wrote, once    *)
(* and in order, for any loss, repetition and reordering of segments, any     *)
(* cutting into segments, refusals and retries, provided that an endpoint's   *)
(* ISNs lie further apart than a connection's bytes.                          *)
THEOREM Intact == ASSUME Apart PROVE Spec => []StreamIntact
<1>1. StreamInv => StreamIntact
  BY DEF StreamInv, Common, StreamIntact
<1> QED
  BY <1>1, Streaming, PTL

(* Under the same condition a connection that ends quietly (LAST_ACK and the  *)
(* last ACK, or out of FIN_WAIT_2 or TIME_WAIT) has delivered all it wrote:   *)
(* the peer acknowledges our FIN only behind every byte before it.            *)
THEOREM QuietEnd == ASSUME Apart PROVE Spec => []QuietEndMeansDelivered
<1>1. IInv /\ StreamInv => QuietEndMeansDelivered
  <2> SUFFICES ASSUME IInv, StreamInv, NEW e \in End,
                      outcome[e] = "ok" \/ pcb[e].state \in {"FIN_WAIT_2", "TIME_WAIT"}
               PROVE  Len(delivered[Peer(e)]) = written[e]
    BY DEF QuietEndMeansDelivered
  <2>1. CASE outcome[e] = "ok"
    BY <2>1 DEF StreamInv, Unbound, Bound
  <2>2. CASE pcb[e].state \in {"FIN_WAIT_2", "TIME_WAIT"}
    BY <2>2, DoneFacts
  <2> QED
    BY <2>1, <2>2
<1> QED
  BY <1>1, Invariance, Streaming, PTL
=============================================================================
