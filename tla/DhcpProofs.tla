------------------------------ MODULE DhcpProofs ------------------------------
(* Proofs about the DHCP client of module Dhcp, for every set of addresses    *)
(* and options, every lease time, back-off and number of messages.            *)
EXTENDS Dhcp, FiniteSetTheorems, TLAPS

-----------------------------------------------------------------------------
(* The inductive invariant. *)

Backoff == BackoffInitial .. BackoffMax

ClientType ==
  [state : State, ip : Addr \cup {NoAddr}, lease_valid : BOOLEAN,
   t1 : 0 .. Lease, t2 : 0 .. Lease, end : 0 .. Lease, age : 0 .. Lease, next : Nat,
   tries : 0 .. MaxTries, req_backoff : Backoff, disc_backoff : Backoff]

InOrder(s) == s.lease_valid => s.t1 <= s.t2 /\ s.t2 <= s.end

MessageType ==
  [type : {"DISCOVER", "OFFER", "REQUEST", "ACK", "NAK"}, ip : Addr \cup {NoAddr},
   option : Options \cup {<<0, 0>>}, current : BOOLEAN]

(* What the server grants is one of its addresses. *)
Proper(m) ==
  /\ m \in MessageType
  /\ m.type \in {"OFFER", "ACK"} => m.ip \in Addr
  /\ m.type = "ACK" => m.option \in Options

WireOK(w) == IsFiniteSet(w) /\ Cardinality(w) <= MaxWire /\ \A m \in w : Proper(m)

Types ==
  /\ c \in ClientType /\ InOrder(c)
  /\ net \in Addr \cup {NoAddr, ApAddr}
  /\ linked \in BOOLEAN /\ setup \in BOOLEAN /\ leaving \in BOOLEAN
  /\ retry \in BOOLEAN /\ ticked \in BOOLEAN
  /\ WireOK(wire)
  /\ owner \in [Addr -> {"none", "client", "other"}] /\ left \in [Addr -> 0 .. Lease]

(* Without a link the client is stopped, in setup mode there is no link and   *)
(* nothing to join, and without a loss an unlinked board has no address.      *)
LinkInv ==
  /\ ~linked => c.state = "IDLE"
  /\ setup => ~linked /\ ~leaving /\ ~retry /\ net = ApAddr
  /\ ~linked /\ ~setup /\ ~leaving /\ ~retry => net = NoAddr

(* What is current in the messages belongs to this exchange: none of them     *)
(* asks or grants before the first REQUEST, and an ACK is younger than that.  *)
Covers(a, n) == owner[a] = "client" /\ n <= left[a]

ExchangeInv ==
  /\ c.state = "DISCOVERING" => \A m \in wire : m.current => m.type \notin {"REQUEST", "ACK"}
  /\ c.state \in Requesting =>
       \A m \in wire : m.current /\ m.type = "ACK" =>
         c.age = Lease \/ Covers(m.ip, Lease - c.age)

(* An address in use has a lease that ends before the server's, or it is left *)
(* over from a lost link, and the client is asking on the next one.           *)
Using == {"BOUND", "RENEWING", "REBINDING"}

UseInv ==
  linked /\ ~leaving /\ net \in Addr =>
    \/ /\ c.lease_valid /\ c.state \in Using
       /\ Covers(net, c.end) \/ (~ticked /\ c.end = 0)
    \/ retry /\ c.state \notin Using

IInv == Types /\ LinkInv /\ ExchangeInv /\ UseInv
-----------------------------------------------------------------------------
(* Numbers, messages and what dhcp_client_transmit does. *)

LEMMA Numbers ==
  /\ Lease \in Nat /\ BackoffInitial \in Nat /\ BackoffMax \in Nat /\ Jitter \in Nat
  /\ RenewMin \in Nat /\ MaxTries \in Nat /\ MaxWire \in Nat
  /\ Lease >= 2 /\ BackoffInitial >= 1 /\ Jitter <= BackoffInitial
  /\ BackoffInitial <= BackoffMax
  /\ BackoffInitial \in Backoff /\ 0 \in 0 .. Lease /\ 0 \in 0 .. MaxTries
  /\ \A b \in Backoff : b \in Nat /\ b >= Jitter
  BY NumberAssumption DEF Backoff

LEMMA Backoffs ==
  ASSUME NEW b \in Backoff
  PROVE  NextBackoff(b) \in Backoff /\ \A w \in Jittered(b) : w \in Nat
  BY Numbers DEF Backoff, NextBackoff, Least, Jittered

LEMMA Points ==
  ASSUME NEW opt \in Options
  PROVE  T1(opt) \in Nat /\ T2(opt) \in Nat /\ T1(opt) <= T2(opt) /\ T2(opt) <= Lease
<1>1. opt[1] \in Nat /\ opt[2] \in Nat
  BY NumberAssumption
<1>2. (Lease * 7) \div 8 \in Nat /\ (Lease * 7) \div 8 <= Lease /\ Lease \div 2 \in Nat
  BY Numbers
<1>3. T2(opt) \in Nat /\ T2(opt) <= Lease
  BY <1>1, <1>2, Numbers DEF T2
<1>4. T1(opt) \in Nat /\ T1(opt) <= T2(opt)
  BY <1>1, <1>2, <1>3 DEF T1, Least
<1> QED
  BY <1>3, <1>4

LEMMA Aged ==
  ASSUME NEW w, WireOK(w)
  PROVE  WireOK(NewXid(w)) /\ \A m \in NewXid(w) : m.current = FALSE
<1> DEFINE old(m) == [m EXCEPT !.current = FALSE]
           f == [m \in w |-> old(m)]
<1>1. NewXid(w) = {old(m) : m \in w}
  BY DEF NewXid
<1>2. \A m \in w : Proper(m) /\ m \in MessageType
  BY DEF WireOK, Proper
<1>3. \A m \in w : /\ old(m) \in MessageType /\ old(m).type = m.type /\ old(m).ip = m.ip
                   /\ old(m).option = m.option /\ old(m).current = FALSE
  BY <1>2 DEF MessageType
<1> HIDE DEF old
<1>4. \A m \in NewXid(w) : Proper(m) /\ m.current = FALSE
  BY <1>1, <1>2, <1>3 DEF Proper
<1>5. f \in Surjection(w, NewXid(w))
  BY <1>1 DEF Surjection
<1>6. IsFiniteSet(NewXid(w)) /\ Cardinality(NewXid(w)) <= Cardinality(w)
  BY <1>5, FS_Surjection DEF WireOK
<1>7. Cardinality(w) \in Nat /\ Cardinality(NewXid(w)) \in Nat
  BY <1>6, FS_CardinalityType DEF WireOK
<1>8. Cardinality(NewXid(w)) <= MaxWire
  BY <1>6, <1>7, Numbers DEF WireOK
<1> QED
  BY <1>4, <1>6, <1>8 DEF WireOK

LEMMA Fewer ==
  ASSUME NEW w, WireOK(w), NEW m
  PROVE  WireOK(w \ {m})
<1>1. w \ {m} \in SUBSET w
  OBVIOUS
<1>2. IsFiniteSet(w \ {m}) /\ Cardinality(w \ {m}) <= Cardinality(w)
  BY <1>1, FS_Subset DEF WireOK
<1>3. Cardinality(w) \in Nat /\ Cardinality(w \ {m}) \in Nat
  BY <1>2, FS_CardinalityType DEF WireOK
<1>4. Cardinality(w \ {m}) <= MaxWire
  BY <1>2, <1>3, Numbers DEF WireOK
<1> QED
  BY <1>2, <1>4 DEF WireOK

LEMMA More ==
  ASSUME NEW w, WireOK(w), Cardinality(w) < MaxWire, NEW m, Proper(m)
  PROVE  WireOK(w \cup {m})
<1>1. Cardinality(w) \in Nat
  BY FS_CardinalityType DEF WireOK
<1>2. /\ IsFiniteSet(w \cup {m})
      /\ Cardinality(w \cup {m}) = IF m \in w THEN Cardinality(w) ELSE Cardinality(w) + 1
  BY FS_AddElement DEF WireOK
<1>3. Cardinality(w \cup {m}) <= MaxWire
  BY <1>1, <1>2, Numbers
<1> QED
  BY <1>2, <1>3 DEF WireOK

LEMMA MessageFacts ==
  ASSUME NEW s \in ClientType
  PROVE  /\ Proper(Message(s))
         /\ Message(s).type = IF s.state = "DISCOVERING" THEN "DISCOVER" ELSE "REQUEST"
  BY DEF Message, Query, Proper, MessageType, ClientType

LEMMA Transmitted ==
  ASSUME NEW s \in ClientType, InOrder(s), s.state \notin {"IDLE", "BOUND"},
         NEW w, WireOK(w), Transmit(s, w)
  PROVE  /\ c' \in ClientType /\ c'.state = s.state /\ c'.lease_valid = s.lease_valid
         /\ c'.t1 = s.t1 /\ c'.t2 = s.t2 /\ c'.end = s.end /\ c'.age = s.age
         /\ InOrder(c)'
         /\ WireOK(wire)'
         /\ \A m \in wire' : m \in w \/ m = Message(s)
<1>1. /\ s.state \in State /\ s.req_backoff \in Backoff /\ s.disc_backoff \in Backoff
      /\ s.t2 \in Nat /\ s.end \in Nat /\ s.tries \in 0 .. MaxTries
  BY Numbers DEF ClientType
<1> DEFINE waits == CASE s.state = "DISCOVERING"                -> Jittered(s.disc_backoff)
                      [] s.state \in {"REQUESTING", "REBOOTING"} -> Jittered(s.req_backoff)
                      [] s.state = "RENEWING"                   -> {RenewRetry(s.t2)}
                      [] s.state = "REBINDING"                  -> {RenewRetry(s.end)}
           disc == IF s.state = "DISCOVERING" THEN NextBackoff(s.disc_backoff) ELSE s.disc_backoff
           req == IF s.state \in {"REQUESTING", "REBOOTING"} THEN NextBackoff(s.req_backoff)
                  ELSE s.req_backoff
<1>2. \A n \in Nat : RenewRetry(n) \in Nat
  BY Numbers DEF RenewRetry
<1>3. \A n \in waits : n \in Nat
  <2>1. s.state \in {"DISCOVERING", "REQUESTING", "REBOOTING", "RENEWING", "REBINDING"}
    BY <1>1 DEF State
  <2>2. CASE s.state = "DISCOVERING"
    BY <1>1, <2>2, Backoffs
  <2>3. CASE s.state \in {"REQUESTING", "REBOOTING"}
    BY <1>1, <2>3, Backoffs
  <2>4. CASE s.state = "RENEWING"
    BY <1>1, <1>2, <2>4
  <2>5. CASE s.state = "REBINDING"
    BY <1>1, <1>2, <2>5
  <2> QED
    BY <2>1, <2>2, <2>3, <2>4, <2>5
<1>4. disc \in Backoff /\ req \in Backoff
  BY <1>1, Backoffs
<1>5. PICK wait \in waits :
        c' = [s EXCEPT !.next = wait, !.tries = Least(s.tries + 1, MaxTries),
                       !.disc_backoff = disc, !.req_backoff = req]
  BY DEF Transmit
<1>6. Least(s.tries + 1, MaxTries) \in 0 .. MaxTries
  BY <1>1, Numbers DEF Least
<1>7. wait \in Nat
  BY <1>3
<1> HIDE DEF waits, disc, req
<1>8. /\ c' \in ClientType /\ c'.state = s.state /\ c'.lease_valid = s.lease_valid
      /\ c'.t1 = s.t1 /\ c'.t2 = s.t2 /\ c'.end = s.end /\ c'.age = s.age
  BY <1>4, <1>5, <1>6, <1>7 DEF ClientType
<1>9. InOrder(c)'
  BY <1>8 DEF InOrder
<1>10. wire' = w \/ (Cardinality(w) < MaxWire /\ wire' = w \cup {Message(s)})
  BY DEF Transmit
<1>11. WireOK(wire)'
  BY <1>10, MessageFacts, More
<1> QED
  BY <1>8, <1>9, <1>10, <1>11

LEMMA Started ==
  ASSUME NEW s \in ClientType, InOrder(s), NEW state \in Requesting, NEW w, WireOK(w),
         StartRequest(s, state, w)
  PROVE  /\ c' \in ClientType /\ c'.state = state /\ c'.lease_valid = s.lease_valid
         /\ c'.end = s.end /\ c'.age = 0 /\ InOrder(c)' /\ WireOK(wire)'
         /\ \A m \in wire' : m \in w \/ m.type = "REQUEST"
<1> DEFINE r == [s EXCEPT !.state = state, !.tries = 0, !.req_backoff = BackoffInitial, !.age = 0]
<1>1. state \in State /\ state \notin {"IDLE", "BOUND", "DISCOVERING"}
  BY DEF State, Requesting
<1>2. /\ r \in ClientType /\ r.state = state /\ r.lease_valid = s.lease_valid
      /\ r.t1 = s.t1 /\ r.t2 = s.t2 /\ r.end = s.end /\ r.age = 0
  BY <1>1, Numbers DEF ClientType
<1>3. InOrder(r)
  BY <1>2 DEF InOrder
<1>4. Transmit(r, w)
  BY DEF StartRequest
<1> HIDE DEF r
<1>5. Message(r).type = "REQUEST"
  BY <1>1, <1>2, MessageFacts
<1> QED
  BY <1>1, <1>2, <1>3, <1>4, <1>5, Transmitted

LEMMA DiscoveringFacts ==
  ASSUME NEW s \in ClientType, InOrder(s), NEW delay \in Nat
  PROVE  /\ Discovering(s, delay) \in ClientType /\ InOrder(Discovering(s, delay))
         /\ Discovering(s, delay).state = "DISCOVERING"
         /\ Discovering(s, delay).disc_backoff = s.disc_backoff
         /\ Discovering(s, delay).lease_valid = s.lease_valid
<1> DEFINE d == Discovering(s, delay)
<1>1. /\ d \in ClientType /\ d.state = "DISCOVERING" /\ d.lease_valid = s.lease_valid
      /\ d.t1 = s.t1 /\ d.t2 = s.t2 /\ d.end = s.end /\ d.disc_backoff = s.disc_backoff
  BY Numbers DEF Discovering, ClientType, State
<1> QED
  BY <1>1 DEF InOrder

LEMMA DroppedFacts ==
  ASSUME NEW s \in ClientType
  PROVE  /\ Dropped(s) \in ClientType /\ InOrder(Dropped(s))
         /\ Dropped(s).state = s.state /\ Dropped(s).lease_valid = FALSE
         /\ Dropped(s).disc_backoff = s.disc_backoff
<1>1. /\ Dropped(s) \in ClientType /\ Dropped(s).state = s.state
      /\ Dropped(s).lease_valid = FALSE /\ Dropped(s).disc_backoff = s.disc_backoff
  BY Numbers DEF Dropped, ClientType
<1> QED
  BY <1>1 DEF InOrder

LEMMA StoppedFacts ==
  ASSUME NEW s \in ClientType
  PROVE  /\ Stopped(s) \in ClientType /\ InOrder(Stopped(s))
         /\ Stopped(s).state = "IDLE"
<1>1. Stopped(s) \in ClientType
  BY Numbers DEF Stopped, ClientType, State
<1>2. /\ Stopped(s).state = "IDLE" /\ Stopped(s).t1 = 0 /\ Stopped(s).t2 = 0
      /\ Stopped(s).end = s.end
  BY DEF Stopped, ClientType
<1>3. s.end \in Nat
  BY Numbers DEF ClientType
<1> QED
  BY <1>1, <1>2, <1>3 DEF InOrder

LEMMA StartFacts ==
  ASSUME NEW s \in ClientType, InOrder(s), WireOK(wire), Start(s)
  PROVE  /\ c' \in ClientType /\ InOrder(c)' /\ WireOK(wire)'
         /\ \/ c'.state = "REBOOTING" /\ \A m \in wire' : m.current => m.type = "REQUEST"
            \/ c'.state = "DISCOVERING" /\ \A m \in wire' : m.current => m.type = "DISCOVER"
<1> DEFINE fresh == [s EXCEPT !.disc_backoff = BackoffInitial]
           d == [fresh EXCEPT !.lease_valid = FALSE, !.state = "DISCOVERING", !.tries = 0]
<1>1. /\ fresh \in ClientType /\ fresh.lease_valid = s.lease_valid
      /\ fresh.t1 = s.t1 /\ fresh.t2 = s.t2 /\ fresh.end = s.end
  BY Numbers DEF ClientType
<1>2. InOrder(fresh)
  BY <1>1 DEF InOrder
<1>3. d \in ClientType /\ d.lease_valid = FALSE /\ d.state = "DISCOVERING"
  BY <1>1, Numbers DEF ClientType, State
<1>4. InOrder(d)
  BY <1>3 DEF InOrder
<1>5. WireOK(NewXid(wire)) /\ \A m \in NewXid(wire) : m.current = FALSE
  BY Aged
<1>6. CASE StartsReboot(s)
  <2>1. StartRequest(fresh, "REBOOTING", NewXid(wire))
    BY <1>6 DEF Start
  <2>2. "REBOOTING" \in Requesting
    BY DEF Requesting
  <2> HIDE DEF fresh
  <2> QED
    BY <1>1, <1>2, <1>5, <2>1, <2>2, Started
<1>7. CASE ~StartsReboot(s)
  <2>1. Transmit(d, NewXid(wire))
    BY <1>7 DEF Start
  <2> HIDE DEF fresh, d
  <2>2. Message(d).type = "DISCOVER"
    BY <1>3, MessageFacts
  <2> QED
    BY <1>3, <1>4, <1>5, <2>1, <2>2, Transmitted
<1> QED
  BY <1>6, <1>7
-----------------------------------------------------------------------------
(* Every step preserves the invariant. *)

LEMMA Addresses == NoAddr \notin Addr /\ ApAddr \notin Addr /\ NoAddr # ApAddr
  BY AddrAssumption

LEMMA InitHolds == Init => IInv
<1> SUFFICES ASSUME Init PROVE IInv
  OBVIOUS
<1>1. c \in ClientType /\ InOrder(c)
  BY Numbers DEF Init, ClientType, State, InOrder
<1>2. WireOK(wire)
  BY FS_EmptySet, Numbers DEF Init, WireOK
<1>3. /\ owner \in [Addr -> {"none", "client", "other"}] /\ left \in [Addr -> 0 .. Lease]
  BY Numbers DEF Init
<1>4. Types
  BY <1>1, <1>2, <1>3 DEF Init, Types
<1> QED
  BY <1>4 DEF IInv, Init, LinkInv, ExchangeInv, UseInv, Requesting

LEMMA TickExpiredStep == ASSUME IInv, TickExpired PROVE IInv'
<1>a. Types /\ LinkInv /\ ExchangeInv /\ UseInv
  BY DEF IInv
<1>b. /\ net' = NetAfterDrop(c, net) /\ ticked' = TRUE
      /\ UNCHANGED <<linked, setup, leaving, retry, owner, left>>
  BY DEF TickExpired, link, server
<1>c. c \in ClientType /\ InOrder(c) /\ WireOK(wire) /\ net \in Addr \cup {NoAddr, ApAddr}
  BY <1>a DEF Types
<1>d. /\ Dropped(c) \in ClientType /\ InOrder(Dropped(c)) /\ Dropped(c).state = c.state
  BY <1>c, DroppedFacts
<1>1. CASE c.state = "IDLE"
  <2>1. c' = Dropped(c) /\ wire' = wire /\ net' = net
    BY <1>1, <1>b DEF TickExpired, NetAfterDrop
  <2>2. Types'
    BY <1>a, <1>b, <1>d, <2>1 DEF Types, InOrder
  <2>3. LinkInv' /\ ExchangeInv' /\ UseInv'
    BY <1>1, <1>a, <1>b, <1>d, <2>1 DEF LinkInv, ExchangeInv, UseInv, Requesting, Using
  <2> QED
    BY <2>2, <2>3 DEF IInv
<1>2. CASE c.state # "IDLE"
  <2> DEFINE s == Discovering(Dropped(c), 0)
  <2>1. Transmit(s, NewXid(wire))
    BY <1>2 DEF TickExpired
  <2>2. s \in ClientType /\ InOrder(s) /\ s.state = "DISCOVERING"
    BY <1>d, DiscoveringFacts
  <2>3. WireOK(NewXid(wire)) /\ \A m \in NewXid(wire) : m.current = FALSE
    BY <1>c, Aged
  <2> HIDE DEF s
  <2>4. Message(s).type = "DISCOVER"
    BY <2>2, MessageFacts
  <2>5. /\ c' \in ClientType /\ c'.state = "DISCOVERING" /\ InOrder(c)' /\ WireOK(wire)'
        /\ \A m \in wire' : m \in NewXid(wire) \/ m = Message(s)
    BY <2>1, <2>2, <2>3, Transmitted
  <2>6. linked /\ ~setup
    BY <1>2, <1>a DEF LinkInv
  <2>7. net' \in Addr \cup {NoAddr, ApAddr}
    BY <1>b, <1>c DEF NetAfterDrop
  <2>8. Types'
    BY <1>a, <1>b, <2>5, <2>7 DEF Types
  <2>9. LinkInv'
    BY <1>a, <1>b, <2>6 DEF LinkInv
  <2>10. ExchangeInv'
    BY <2>3, <2>4, <2>5 DEF ExchangeInv, Requesting
  <2>11. UseInv'
    <3>1. linked /\ ~leaving /\ net' \in Addr => retry
      BY <1>a, <1>b, Addresses DEF NetAfterDrop, UseInv, Using
    <3> QED
      BY <1>b, <2>5, <3>1 DEF UseInv, Using
  <2> QED
    BY <2>8, <2>9, <2>10, <2>11 DEF IInv
<1> QED
  BY <1>1, <1>2

LEMMA TickDueStep == ASSUME IInv, TickDue PROVE IInv'
<1>a. Types /\ LinkInv /\ ExchangeInv /\ UseInv
  BY DEF IInv
<1>b. /\ ~Expired /\ Due /\ ticked' = TRUE
      /\ UNCHANGED <<net, linked, setup, leaving, retry, owner, left>>
  BY DEF TickDue, link, server
<1>c. c \in ClientType /\ InOrder(c) /\ WireOK(wire) /\ c.state \in State
  BY <1>a DEF Types, ClientType
<1>d. c.state # "IDLE"
  BY <1>b DEF Due
<1>e. linked /\ ~leaving /\ net \in Addr =>
        \/ c.lease_valid /\ c.state \in Using /\ Covers(net, c.end)
        \/ retry /\ c.state \notin Using
  BY <1>a, <1>b DEF UseInv, Expired
<1>f. WireOK(NewXid(wire)) /\ \A m \in NewXid(wire) : m.current = FALSE
  BY <1>c, Aged
<1>1. CASE c.state = "BOUND"
  <2>1. StartRequest(c, "RENEWING", NewXid(wire))
    BY <1>1 DEF TickDue
  <2>2. /\ c' \in ClientType /\ c'.state = "RENEWING" /\ c'.lease_valid = c.lease_valid
        /\ c'.end = c.end /\ InOrder(c)' /\ WireOK(wire)'
        /\ \A m \in wire' : m \in NewXid(wire) \/ m.type = "REQUEST"
    <3>1. "RENEWING" \in Requesting
      BY DEF Requesting
    <3> QED
      BY <1>c, <1>f, <2>1, <3>1, Started
  <2>3. Types'
    BY <1>a, <1>b, <2>2 DEF Types
  <2>4. LinkInv' /\ ExchangeInv'
    BY <1>a, <1>b, <1>d, <1>f, <2>2 DEF LinkInv, ExchangeInv
  <2>5. UseInv'
    BY <1>1, <1>b, <1>e, <2>2 DEF UseInv, Using, Covers
  <2> QED
    BY <2>3, <2>4, <2>5 DEF IInv
<1>2. CASE c.state # "BOUND"
  <2> DEFINE late == c.state = "RENEWING" /\ c.t2 = 0
             s == IF late THEN [c EXCEPT !.state = "REBINDING"] ELSE c
  <2>1. Transmit(s, wire)
    BY <1>2 DEF TickDue
  <2>2. /\ s \in ClientType /\ s.lease_valid = c.lease_valid /\ s.end = c.end /\ s.age = c.age
        /\ s.t1 = c.t1 /\ s.t2 = c.t2
        /\ s.state = IF late THEN "REBINDING" ELSE c.state
    BY <1>c DEF ClientType, State
  <2>3. InOrder(s)
    BY <1>c, <2>2 DEF InOrder
  <2>4. s.state \notin {"IDLE", "BOUND"} /\ (s.state \in Requesting <=> c.state \in Requesting)
        /\ (s.state = "DISCOVERING" <=> c.state = "DISCOVERING")
        /\ (c.state \in Using <=> s.state \in Using)
    BY <1>2, <1>d, <2>2 DEF Requesting, Using
  <2> HIDE DEF s, late
  <2>5. /\ c' \in ClientType /\ c'.state = s.state /\ c'.lease_valid = c.lease_valid
        /\ c'.end = c.end /\ c'.age = c.age /\ InOrder(c)' /\ WireOK(wire)'
        /\ \A m \in wire' : m \in wire \/ m = Message(s)
    BY <1>c, <2>1, <2>2, <2>3, <2>4, Transmitted
  <2>6. Message(s).type = IF s.state = "DISCOVERING" THEN "DISCOVER" ELSE "REQUEST"
    BY <2>2, MessageFacts
  <2>7. Types'
    BY <1>a, <1>b, <2>5 DEF Types
  <2>8. LinkInv'
    BY <1>a, <1>b, <1>d DEF LinkInv
  <2>9. ExchangeInv'
    <3>1. CASE c.state = "DISCOVERING"
      BY <1>a, <2>4, <2>5, <2>6, <3>1 DEF ExchangeInv, Requesting
    <3>2. CASE c.state # "DISCOVERING"
      BY <1>a, <1>b, <2>4, <2>5, <2>6, <3>2 DEF ExchangeInv, Covers
    <3> QED
      BY <3>1, <3>2
  <2>10. UseInv'
    BY <1>2, <1>b, <1>e, <2>4, <2>5 DEF UseInv, Covers
  <2> QED
    BY <2>7, <2>8, <2>9, <2>10 DEF IInv
<1> QED
  BY <1>1, <1>2

LEMMA TickGivesUpStep == ASSUME IInv, TickGivesUp PROVE IInv'
<1>a. Types /\ LinkInv /\ ExchangeInv /\ UseInv
  BY DEF IInv
<1> DEFINE s == IF c.state = "REBOOTING" THEN Dropped(c) ELSE c
           d == Discovering(s, 0)
<1>b. /\ ~Expired /\ c.state \in {"REQUESTING", "REBOOTING"} /\ ticked' = TRUE
      /\ net' = IF c.state = "REBOOTING" THEN NetAfterDrop(c, net) ELSE net
      /\ Transmit(d, NewXid(wire))
      /\ UNCHANGED <<linked, setup, leaving, retry, owner, left>>
  BY DEF TickGivesUp, GivesUp, link, server
<1>c. c \in ClientType /\ InOrder(c) /\ WireOK(wire) /\ net \in Addr \cup {NoAddr, ApAddr}
  BY <1>a DEF Types
<1>1. s \in ClientType /\ InOrder(s)
  BY <1>c, DroppedFacts
<1> HIDE DEF s
<1>2. d \in ClientType /\ InOrder(d) /\ d.state = "DISCOVERING"
  BY <1>1, DiscoveringFacts
<1>3. WireOK(NewXid(wire)) /\ \A m \in NewXid(wire) : m.current = FALSE
  BY <1>c, Aged
<1> HIDE DEF d
<1>4. Message(d).type = "DISCOVER"
  BY <1>2, MessageFacts
<1>5. /\ c' \in ClientType /\ c'.state = "DISCOVERING" /\ InOrder(c)' /\ WireOK(wire)'
      /\ \A m \in wire' : m \in NewXid(wire) \/ m = Message(d)
  BY <1>2, <1>3, <1>b, Transmitted
<1>6. linked /\ ~setup
  BY <1>a, <1>b DEF LinkInv
<1>7. net' \in {net, NoAddr}
  BY <1>b DEF NetAfterDrop
<1>8. Types'
  BY <1>5, <1>7, <1>a, <1>b, <1>c DEF Types
<1>9. LinkInv' /\ ExchangeInv'
  BY <1>3, <1>4, <1>5, <1>6, <1>a, <1>b DEF LinkInv, ExchangeInv, Requesting
<1>10. UseInv'
  <2>1. linked /\ ~leaving /\ net' \in Addr => retry
    BY <1>7, <1>a, <1>b, Addresses DEF UseInv, Using
  <2> QED
    BY <1>5, <1>b, <2>1 DEF UseInv, Using
<1> QED
  BY <1>8, <1>9, <1>10 DEF IInv

LEMMA TickIdleStep == ASSUME IInv, TickIdle PROVE IInv'
<1>a. Types /\ LinkInv /\ ExchangeInv /\ UseInv
  BY DEF IInv
<1>b. /\ ~Expired /\ ticked' = TRUE
      /\ UNCHANGED <<c, net, linked, setup, leaving, retry, wire, owner, left>>
  BY DEF TickIdle, client, link, server
<1>1. Types' /\ LinkInv' /\ ExchangeInv'
  BY <1>a, <1>b DEF Types, LinkInv, ExchangeInv, Covers, InOrder, WireOK
<1>2. UseInv'
  BY <1>a, <1>b DEF UseInv, Covers, Expired
<1> QED
  BY <1>1, <1>2 DEF IInv

LEMMA RestFacts ==
  ASSUME WireOK(wire), NEW m, NEW again \in BOOLEAN
  PROVE  WireOK(Rest(m, again)) /\ \A x \in Rest(m, again) : x \in wire
  BY Fewer DEF Rest

LEMMA RxOfferStep == ASSUME IInv, NEW m \in wire, RxOffer(m) PROVE IInv'
<1>a. Types /\ LinkInv /\ ExchangeInv /\ UseInv
  BY DEF IInv
<1>b. /\ linked /\ m.type = "OFFER" /\ c.state = "DISCOVERING"
      /\ UNCHANGED <<net, linked, setup, leaving, retry, ticked, owner, left>>
  BY DEF RxOffer, Takes, link, server
<1> DEFINE s == [c EXCEPT !.ip = m.ip]
<1>c. PICK again \in BOOLEAN : StartRequest(s, "REQUESTING", Rest(m, again))
  BY DEF RxOffer
<1>d. c \in ClientType /\ InOrder(c) /\ WireOK(wire) /\ m.ip \in Addr
  BY <1>a, <1>b DEF Types, WireOK, Proper
<1>1. /\ s \in ClientType /\ s.lease_valid = c.lease_valid /\ s.t1 = c.t1 /\ s.t2 = c.t2
      /\ s.end = c.end
  BY <1>d DEF ClientType
<1>2. InOrder(s)
  BY <1>1, <1>d DEF InOrder
<1>3. WireOK(Rest(m, again)) /\ \A x \in Rest(m, again) : x \in wire
  BY <1>d, RestFacts
<1> HIDE DEF s
<1>4. "REQUESTING" \in Requesting
  BY DEF Requesting
<1>5. /\ c' \in ClientType /\ c'.state = "REQUESTING" /\ InOrder(c)' /\ WireOK(wire)'
      /\ \A x \in wire' : x \in Rest(m, again) \/ x.type = "REQUEST"
  BY <1>1, <1>2, <1>3, <1>4, <1>c, Started
<1>6. Types'
  BY <1>5, <1>a, <1>b DEF Types
<1>7. LinkInv'
  BY <1>a, <1>b DEF LinkInv
<1>8. ExchangeInv'
  BY <1>3, <1>5, <1>a, <1>b DEF ExchangeInv
<1>9. UseInv'
  BY <1>5, <1>a, <1>b DEF UseInv, Using
<1> QED
  BY <1>6, <1>7, <1>8, <1>9 DEF IInv

LEMMA RxAckStep == ASSUME IInv, NEW m \in wire, RxAck(m) PROVE IInv'
<1>a. Types /\ LinkInv /\ ExchangeInv /\ UseInv
  BY DEF IInv
<1>b. /\ linked /\ m.type = "ACK" /\ m.current /\ c.state \in Requesting
      /\ c' = Bound(c, m) /\ net' = m.ip /\ ticked' = FALSE
      /\ UNCHANGED <<linked, setup, leaving, retry, owner, left>>
  BY DEF RxAck, Takes, link, server
<1>c. PICK again \in BOOLEAN : wire' = Rest(m, again)
  BY DEF RxAck
<1>d. c \in ClientType /\ WireOK(wire) /\ m.ip \in Addr /\ m.option \in Options
  BY <1>a, <1>b DEF Types, WireOK, Proper
<1>e. c.age \in Nat /\ c.age <= Lease /\ Lease \in Nat
  BY <1>d, Numbers DEF ClientType
<1> DEFINE a == T1(m.option)
           b == T2(m.option)
<1>1. a \in Nat /\ b \in Nat /\ a <= b /\ b <= Lease
  BY <1>d, Points
<1> HIDE DEF a, b
<1>2. /\ Point(c, a) \in 0 .. Lease /\ Point(c, b) \in 0 .. Lease /\ Point(c, Lease) \in 0 .. Lease
      /\ Point(c, a) <= Point(c, b) /\ Point(c, b) <= Point(c, Lease)
      /\ Point(c, Lease) = Lease - c.age
  BY <1>1, <1>e DEF Point
<1>3. c' = [c EXCEPT !.ip = m.ip, !.state = "BOUND", !.lease_valid = TRUE, !.tries = 0,
                     !.next = 0, !.age = 0,
                     !.disc_backoff = BackoffInitial, !.req_backoff = BackoffInitial,
                     !.t1 = Point(c, a), !.t2 = Point(c, b), !.end = Point(c, Lease)]
  BY <1>b DEF Bound, a, b
<1>4. /\ c' \in ClientType /\ c'.state = "BOUND" /\ c'.lease_valid = TRUE
      /\ c'.t1 = Point(c, a) /\ c'.t2 = Point(c, b) /\ c'.end = Point(c, Lease)
  BY <1>2, <1>3, <1>d, Numbers DEF ClientType, State
<1>5. InOrder(c)'
  BY <1>2, <1>4 DEF InOrder
<1>6. WireOK(wire)'
  BY <1>c, <1>d, RestFacts
<1>7. Types'
  BY <1>4, <1>5, <1>6, <1>a, <1>b, <1>d DEF Types
<1>8. LinkInv' /\ ExchangeInv'
  BY <1>4, <1>a, <1>b DEF LinkInv, ExchangeInv, Requesting
<1>9. UseInv'
  <2>1. c.age = Lease \/ Covers(m.ip, Lease - c.age)
    BY <1>a, <1>b DEF ExchangeInv
  <2>2. CASE c.age = Lease
    BY <1>2, <1>4, <1>b, <1>e, <2>2 DEF UseInv, Using
  <2>3. CASE Covers(m.ip, Lease - c.age)
    BY <1>2, <1>4, <1>b, <2>3 DEF UseInv, Using, Covers
  <2> QED
    BY <2>1, <2>2, <2>3
<1> QED
  BY <1>7, <1>8, <1>9 DEF IInv

LEMMA RxNakStep == ASSUME IInv, NEW m \in wire, RxNak(m) PROVE IInv'
<1>a. Types /\ LinkInv /\ ExchangeInv /\ UseInv
  BY DEF IInv
<1>b. /\ linked /\ c.state \in Requesting /\ net' = NetAfterDrop(c, net)
      /\ UNCHANGED <<linked, setup, leaving, retry, ticked, owner, left>>
  BY DEF RxNak, Takes, link, server
<1>c. PICK delay \in Jittered(c.disc_backoff) :
        c' = [Discovering(Dropped(c), delay) EXCEPT
                !.disc_backoff = NextBackoff(Discovering(Dropped(c), delay).disc_backoff)]
  BY DEF RxNak
<1>d. PICK again \in BOOLEAN : wire' = NewXid(Rest(m, again))
  BY DEF RxNak
<1>e. /\ c \in ClientType /\ WireOK(wire) /\ net \in Addr \cup {NoAddr, ApAddr}
      /\ c.disc_backoff \in Backoff
  BY <1>a DEF Types, ClientType
<1>f. delay \in Nat /\ NextBackoff(c.disc_backoff) \in Backoff
  BY <1>c, <1>e, Backoffs
<1> DEFINE d == Discovering(Dropped(c), delay)
<1>1. d \in ClientType /\ InOrder(d) /\ d.state = "DISCOVERING" /\ d.disc_backoff = c.disc_backoff
  BY <1>e, <1>f, DroppedFacts, DiscoveringFacts
<1>2. c' = [d EXCEPT !.disc_backoff = NextBackoff(c.disc_backoff)]
  BY <1>c, <1>1
<1> HIDE DEF d
<1>3. /\ c' \in ClientType /\ c'.state = "DISCOVERING" /\ c'.lease_valid = d.lease_valid
      /\ c'.t1 = d.t1 /\ c'.t2 = d.t2 /\ c'.end = d.end
  BY <1>1, <1>2, <1>f DEF ClientType
<1>4. InOrder(c)'
  BY <1>1, <1>3 DEF InOrder
<1>5. WireOK(wire)' /\ \A x \in wire' : x.current = FALSE
  <2>1. WireOK(Rest(m, again))
    BY <1>e, RestFacts
  <2> QED
    BY <1>d, <2>1, Aged
<1>6. net' \in Addr \cup {NoAddr, ApAddr}
  BY <1>b, <1>e DEF NetAfterDrop
<1>7. Types'
  BY <1>3, <1>4, <1>5, <1>6, <1>a, <1>b DEF Types
<1>8. LinkInv' /\ ExchangeInv'
  BY <1>3, <1>5, <1>a, <1>b DEF LinkInv, ExchangeInv, Requesting
<1>9. UseInv'
  <2>1. linked /\ ~leaving /\ net' \in Addr => retry
    BY <1>a, <1>b, Addresses DEF NetAfterDrop, UseInv, Using
  <2> QED
    BY <1>3, <1>b, <2>1 DEF UseInv, Using
<1> QED
  BY <1>7, <1>8, <1>9 DEF IInv

LEMMA DropStep == ASSUME IInv, NEW m \in wire, Drop(m) PROVE IInv'
<1>a. Types /\ LinkInv /\ ExchangeInv /\ UseInv
  BY DEF IInv
<1>b. /\ wire' = wire \ {m}
      /\ UNCHANGED <<c, net, linked, setup, leaving, retry, ticked, owner, left>>
  BY DEF Drop, client, link, server
<1>1. WireOK(wire)'
  BY <1>a, <1>b, Fewer DEF Types
<1>2. Types'
  BY <1>1, <1>a, <1>b DEF Types, InOrder
<1>3. LinkInv' /\ ExchangeInv' /\ UseInv'
  BY <1>a, <1>b DEF LinkInv, ExchangeInv, UseInv, Covers
<1> QED
  BY <1>2, <1>3 DEF IInv

(* The client is stopped, and the station is not linked. *)
LEMMA Unlinked ==
  ASSUME IInv, c' = Stopped(c), linked' = FALSE, leaving' \in BOOLEAN, retry' \in BOOLEAN,
         setup' \in BOOLEAN, net' \in Addr \cup {NoAddr, ApAddr}, ticked' = ticked,
         wire' = wire, owner' = owner, left' = left,
         setup' => ~leaving' /\ ~retry' /\ net' = ApAddr,
         ~setup' /\ ~leaving' /\ ~retry' => net' = NoAddr
  PROVE  IInv'
<1>a. Types /\ LinkInv /\ ExchangeInv /\ UseInv
  BY DEF IInv
<1>1. c' \in ClientType /\ InOrder(c)' /\ c'.state = "IDLE"
  BY <1>a, StoppedFacts DEF Types
<1>2. Types'
  BY <1>1, <1>a DEF Types, WireOK
<1>3. LinkInv' /\ ExchangeInv' /\ UseInv'
  BY <1>1 DEF LinkInv, ExchangeInv, UseInv, Requesting
<1> QED
  BY <1>2, <1>3 DEF IInv

LEMMA LinkDownStep == ASSUME IInv, LinkDown PROVE IInv'
<1>1. /\ linked' = FALSE /\ retry' = TRUE /\ c' = Stopped(c) /\ linked
      /\ UNCHANGED <<net, setup, leaving, ticked, wire, owner, left>>
  BY DEF LinkDown, server
<1>2. net \in Addr \cup {NoAddr, ApAddr} /\ leaving \in BOOLEAN /\ setup \in BOOLEAN /\ ~setup
  BY <1>1 DEF IInv, LinkInv, Types
<1> QED
  BY <1>1, <1>2, Unlinked

LEMMA RejoinStep == ASSUME IInv, Rejoin PROVE IInv'
<1>1. /\ linked' = FALSE /\ leaving' = FALSE /\ retry' = FALSE /\ c' = Stopped(c)
      /\ leaving \/ retry
      /\ net' = NoAddr /\ UNCHANGED <<setup, ticked, wire, owner, left>>
  BY DEF Rejoin, server
<1>2. setup \in BOOLEAN /\ ~setup
  BY <1>1 DEF IInv, LinkInv, Types
<1> QED
  BY <1>1, <1>2, Unlinked

LEMMA SetupOpenStep == ASSUME IInv, SetupOpen PROVE IInv'
<1>1. /\ linked' = FALSE /\ leaving' = FALSE /\ retry' = FALSE /\ c' = Stopped(c)
      /\ setup' = TRUE /\ net' = ApAddr
      /\ UNCHANGED <<ticked, wire, owner, left>>
  BY DEF SetupOpen, server
<1> QED
  BY <1>1, Unlinked

LEMMA SetupCloseStep == ASSUME IInv, SetupClose PROVE IInv'
<1>a. Types /\ LinkInv /\ ExchangeInv /\ UseInv
  BY DEF IInv
<1>b. /\ setup /\ setup' = FALSE /\ net' = NoAddr /\ retry' = TRUE
      /\ UNCHANGED <<c, linked, leaving, ticked, wire, owner, left>>
  BY DEF SetupClose, server
<1>1. ~linked /\ ~leaving /\ c.state = "IDLE"
  BY <1>a, <1>b DEF LinkInv
<1>2. Types'
  BY <1>a, <1>b DEF Types, InOrder, WireOK
<1>3. LinkInv' /\ ExchangeInv' /\ UseInv'
  BY <1>1, <1>b DEF LinkInv, ExchangeInv, UseInv, Requesting
<1> QED
  BY <1>2, <1>3 DEF IInv

(* The client starts on a link that has just come up. *)
LEMMA Linked ==
  ASSUME IInv, NEW s \in ClientType, InOrder(s), Start(s), linked' = TRUE,
         setup' = FALSE, net' \in Addr \cup {NoAddr, ApAddr},
         leaving' \/ retry' \/ net' = NoAddr, UNCHANGED <<leaving, retry, ticked, owner, left>>
  PROVE  IInv'
<1>a. Types
  BY DEF IInv
<1>1. /\ c' \in ClientType /\ InOrder(c)' /\ WireOK(wire)'
      /\ \/ c'.state = "REBOOTING" /\ \A m \in wire' : m.current => m.type = "REQUEST"
         \/ c'.state = "DISCOVERING" /\ \A m \in wire' : m.current => m.type = "DISCOVER"
  BY <1>a, StartFacts DEF Types
<1>2. Types'
  BY <1>1, <1>a DEF Types
<1>3. LinkInv' /\ ExchangeInv'
  BY <1>1 DEF LinkInv, ExchangeInv, Requesting
<1>4. UseInv'
  BY <1>1, Addresses DEF UseInv, Using
<1> QED
  BY <1>2, <1>3, <1>4 DEF IInv

LEMMA LinkUpStep == ASSUME IInv, LinkUp PROVE IInv'
<1>1. /\ Start(c) /\ linked' = TRUE /\ net' = net /\ setup' = FALSE
      /\ leaving \/ retry \/ net = NoAddr
      /\ net \in Addr \cup {NoAddr, ApAddr} /\ UNCHANGED <<leaving, retry, ticked, owner, left>>
  BY DEF LinkUp, server, IInv, LinkInv, Types
<1>2. c \in ClientType /\ InOrder(c)
  BY DEF IInv, Types
<1> QED
  BY <1>1, <1>2, Linked

LEMMA ForgottenFacts ==
  ASSUME NEW s \in ClientType
  PROVE  Forgotten(s) \in ClientType /\ InOrder(Forgotten(s)) /\ Forgotten(s).state = s.state
<1>1. /\ Forgotten(s) \in ClientType /\ Forgotten(s).lease_valid = FALSE
      /\ Forgotten(s).state = s.state
  BY Numbers DEF Forgotten, ClientType
<1> QED
  BY <1>1 DEF InOrder

LEMMA PortalJoinStep == ASSUME IInv, PortalJoin PROVE IInv'
<1>1. /\ Start(Stopped(Forgotten(c))) /\ linked' = TRUE /\ net' = NoAddr
      /\ setup' = FALSE /\ UNCHANGED <<leaving, retry, ticked, owner, left>>
  BY DEF PortalJoin, server, IInv, LinkInv, Types
<1>2. Stopped(Forgotten(c)) \in ClientType /\ InOrder(Stopped(Forgotten(c)))
  BY ForgottenFacts, StoppedFacts DEF IInv, Types
<1> QED
  BY <1>1, <1>2, Linked

LEMMA RequestJoinStep == ASSUME IInv, RequestJoin PROVE IInv'
<1>a. Types /\ LinkInv /\ ExchangeInv /\ UseInv
  BY DEF IInv
<1>b. /\ linked /\ leaving' = TRUE /\ c' = Forgotten(c)
      /\ UNCHANGED <<net, linked, setup, retry, ticked, wire, owner, left>>
  BY DEF RequestJoin, server
<1>1. c' \in ClientType /\ InOrder(c)' /\ c'.state = c.state
  BY <1>a, <1>b, ForgottenFacts DEF Types
<1>2. c'.age = c.age
  BY <1>a, <1>b DEF Forgotten, Types, ClientType
<1>3. Types'
  BY <1>1, <1>a, <1>b DEF Types, WireOK
<1>4. LinkInv' /\ ExchangeInv' /\ UseInv'
  BY <1>1, <1>2, <1>a, <1>b DEF LinkInv, ExchangeInv, UseInv, Covers
<1> QED
  BY <1>3, <1>4 DEF IInv

LEMMA ClockStep == ASSUME IInv, Clock PROVE IInv'
<1>a. Types /\ LinkInv /\ ExchangeInv /\ UseInv
  BY DEF IInv
<1> DEFINE age == IF c.state \in Requesting THEN Least(c.age + 1, Lease) ELSE 0
<1>b. /\ ticked /\ ~leaving /\ ticked' = FALSE
      /\ c' = [c EXCEPT !.t1 = Less(c.t1), !.t2 = Less(c.t2), !.end = Less(c.end),
                        !.next = Less(c.next), !.age = age]
      /\ left' = [a \in Addr |-> Less(left[a])]
      /\ owner' = [a \in Addr |-> IF left[a] <= 1 THEN "none" ELSE owner[a]]
      /\ UNCHANGED <<net, linked, setup, leaving, retry, wire>>
  BY DEF Clock, link
<1>c. /\ c \in ClientType /\ WireOK(wire) /\ InOrder(c)
      /\ owner \in [Addr -> {"none", "client", "other"}] /\ left \in [Addr -> 0 .. Lease]
  BY <1>a DEF Types
<1>d. /\ c.t1 \in 0 .. Lease /\ c.t2 \in 0 .. Lease /\ c.end \in 0 .. Lease /\ c.next \in Nat
      /\ c.age \in 0 .. Lease
  BY <1>c DEF ClientType
<1>1. /\ Less(c.t1) \in 0 .. Lease /\ Less(c.t2) \in 0 .. Lease /\ Less(c.end) \in 0 .. Lease
      /\ Less(c.next) \in Nat /\ age \in 0 .. Lease
      /\ c.state \in Requesting => age = Lease \/ (age = c.age + 1 /\ age < Lease)
  BY <1>d, Numbers DEF Less, Least
<1> HIDE DEF age
<1>2. /\ c' \in ClientType /\ c'.state = c.state /\ c'.lease_valid = c.lease_valid
      /\ c'.t1 = Less(c.t1) /\ c'.t2 = Less(c.t2) /\ c'.end = Less(c.end) /\ c'.age = age
  BY <1>1, <1>b, <1>c DEF ClientType
<1>3. InOrder(c)'
  BY <1>2, <1>c, <1>d, Numbers DEF InOrder, Less
<1>4. /\ owner' \in [Addr -> {"none", "client", "other"}] /\ left' \in [Addr -> 0 .. Lease]
  BY <1>b, <1>c, Numbers DEF Less
<1>5. Types'
  BY <1>2, <1>3, <1>4, <1>a, <1>b DEF Types, WireOK
<1>6. LinkInv'
  BY <1>2, <1>a, <1>b DEF LinkInv
\* a lease that covers two units covers one of them a unit later
<1>7. ASSUME NEW a \in Addr, NEW n \in Nat, n >= 1, Covers(a, n + 1)
      PROVE  owner'[a] = "client" /\ n <= left'[a]
  BY <1>7, <1>b, <1>c, Numbers DEF Covers, Less
<1>8. ExchangeInv'
  <2> SUFFICES ASSUME c.state \in Requesting, NEW m \in wire, m.current, m.type = "ACK"
               PROVE  \/ age = Lease
                      \/ owner'[m.ip] = "client" /\ Lease - age <= left'[m.ip]
    BY <1>2, <1>a, <1>b DEF ExchangeInv, Requesting, Covers
  <2>1. m.ip \in Addr
    BY <1>c DEF WireOK, Proper
  <2>2. CASE age = c.age + 1 /\ age < Lease
    <3>1. Lease - age \in Nat /\ Lease - age >= 1 /\ (Lease - age) + 1 = Lease - c.age
          /\ c.age # Lease
      BY <1>1, <1>d, <2>2, Numbers
    <3>2. Covers(m.ip, (Lease - age) + 1)
      BY <1>a, <3>1 DEF ExchangeInv
    <3> QED
      BY <1>7, <2>1, <3>1, <3>2
  <2> QED
    BY <1>1, <2>2
<1>9. UseInv'
  <2> SUFFICES ASSUME linked, net \in Addr PROVE UseInv'
    BY <1>b DEF UseInv
  <2> SUFFICES ASSUME ~(retry /\ c.state \notin Using) PROVE UseInv'
    BY <1>2, <1>b DEF UseInv
  <2>1. c.lease_valid /\ c.state \in Using /\ Covers(net, c.end)
    BY <1>a, <1>b DEF UseInv
  <2>2. CASE c.end <= 1
    <3>1. Less(c.end) = 0
      BY <1>d, <2>2 DEF Less
    <3> QED
      BY <1>2, <1>b, <2>1, <3>1 DEF UseInv
  <2>3. CASE c.end > 1
    <3>1. Less(c.end) \in Nat /\ Less(c.end) >= 1 /\ Less(c.end) + 1 = c.end
      BY <1>d, <2>3 DEF Less
    <3>2. owner'[net] = "client" /\ Less(c.end) <= left'[net]
      BY <1>b, <1>c, <1>d, <2>1, <2>3, Numbers DEF Covers, Less
    <3>3. Covers(net, c.end)'
      BY <1>2, <1>b, <3>2 DEF Covers
    <3> QED
      BY <1>2, <1>b, <2>1, <3>3 DEF UseInv
  <2> QED
    BY <1>d, <2>2, <2>3
<1> QED
  BY <1>5, <1>6, <1>8, <1>9 DEF IInv

(* The server answers. *)
LEMMA ReplyFacts ==
  ASSUME WireOK(wire), NEW q \in wire, NEW type \in {"OFFER", "ACK", "NAK"},
         NEW ip \in Addr \cup {NoAddr}, type # "NAK" => ip \in Addr,
         NEW opt \in Options \cup {<<0, 0>>}, type = "ACK" => opt \in Options,
         Reply(q, wire \ {q}, type, ip, opt)
  PROVE  /\ WireOK(wire)'
         /\ \A m \in wire' :
              m \in wire \/ (m.type = type /\ m.ip = ip /\ m.current = q.current)
<1> DEFINE a == Answer(q, type, ip, opt)
<1>1. WireOK(wire \ {q})
  BY Fewer
<1>2. q.current \in BOOLEAN
  BY DEF WireOK, Proper, MessageType
<1>3. Proper(a) /\ a.type = type /\ a.ip = ip /\ a.current = q.current
  BY <1>2 DEF Answer, Proper, MessageType
<1>4. wire' = wire \ {q} \/ (Cardinality(wire \ {q}) < MaxWire /\ wire' = (wire \ {q}) \cup {a})
  BY DEF Reply
<1> HIDE DEF a
<1>5. WireOK(wire)'
  BY <1>1, <1>3, <1>4, More
<1> QED
  BY <1>3, <1>4, <1>5

LEMMA ServerOffersStep == ASSUME IInv, NEW q \in wire, ServerOffers(q) PROVE IInv'
<1>a. Types /\ LinkInv /\ ExchangeInv /\ UseInv
  BY DEF IInv
<1>b. UNCHANGED <<c, net, linked, setup, leaving, retry, ticked, owner, left>>
  BY DEF ServerOffers, client, link, server
<1>c. PICK a \in Offered : Reply(q, wire \ {q}, "OFFER", a, <<0, 0>>)
  BY DEF ServerOffers
<1>d. a \in Addr
  BY DEF Offered
<1>1. WireOK(wire)' /\ \A m \in wire' : m \in wire \/ m.type = "OFFER"
  BY <1>a, <1>c, <1>d, ReplyFacts DEF Types
<1>2. Types'
  BY <1>1, <1>a, <1>b DEF Types, InOrder
<1>3. LinkInv' /\ ExchangeInv' /\ UseInv'
  BY <1>1, <1>a, <1>b DEF LinkInv, ExchangeInv, UseInv, Covers
<1> QED
  BY <1>2, <1>3 DEF IInv

LEMMA ServerRulesStep == ASSUME IInv, NEW q \in wire, ServerRules(q) PROVE IInv'
<1>a. Types /\ LinkInv /\ ExchangeInv /\ UseInv
  BY DEF IInv
<1>b. /\ q.type = "REQUEST"
      /\ UNCHANGED <<c, net, linked, setup, leaving, retry, ticked>>
  BY DEF ServerRules, client, link
<1>c. /\ c \in ClientType /\ WireOK(wire)
      /\ owner \in [Addr -> {"none", "client", "other"}] /\ left \in [Addr -> 0 .. Lease]
      /\ c.age \in 0 .. Lease /\ c.end \in 0 .. Lease
  BY <1>a DEF Types, ClientType
<1>1. CASE q.ip \in Addr /\ owner[q.ip] \in {"none", "client"}
  <2>1. /\ owner' = [owner EXCEPT ![q.ip] = "client"] /\ left' = [left EXCEPT ![q.ip] = Lease]
    BY <1>1 DEF ServerRules
  <2>2. PICK opt \in Options : Reply(q, wire \ {q}, "ACK", q.ip, opt)
    BY <1>1 DEF ServerRules
  <2>3. /\ WireOK(wire)'
        /\ \A m \in wire' :
             m \in wire \/ (m.type = "ACK" /\ m.ip = q.ip /\ m.current = q.current)
    BY <1>1, <1>c, <2>2, ReplyFacts
  <2>4. /\ owner' \in [Addr -> {"none", "client", "other"}] /\ left' \in [Addr -> 0 .. Lease]
    <3>1. Lease \in 0 .. Lease
      BY Numbers
    <3> QED
      BY <1>c, <2>1, <3>1
  <2>5. Types'
    BY <1>a, <1>b, <2>3, <2>4 DEF Types, InOrder
  \* a lease that is given anew covers everything, the others are as before
  <2>6. \A n \in 0 .. Lease : owner'[q.ip] = "client" /\ n <= left'[q.ip]
    <3>1. owner'[q.ip] = "client" /\ left'[q.ip] = Lease
      BY <1>1, <1>c, <2>1
    <3> QED
      BY <3>1, Numbers
  <2>7. \A a \in Addr : a # q.ip => owner'[a] = owner[a] /\ left'[a] = left[a]
    BY <1>c, <2>1
  <2>8. LinkInv'
    BY <1>a, <1>b DEF LinkInv
  <2>9. ExchangeInv'
    <3>1. CASE c.state = "DISCOVERING"
      <4>1. ~q.current
        BY <1>a, <1>b, <3>1 DEF ExchangeInv
      <4> QED
        BY <1>a, <1>b, <2>3, <3>1, <4>1 DEF ExchangeInv, Requesting
    <3>2. CASE c.state \in Requesting
      <4> SUFFICES ASSUME NEW m \in wire', m.current, m.type = "ACK"
                   PROVE  \/ c.age = Lease
                          \/ owner'[m.ip] = "client" /\ Lease - c.age <= left'[m.ip]
        BY <1>b, <3>2 DEF ExchangeInv, Covers, Requesting
      <4>1. Lease - c.age \in 0 .. Lease
        BY <1>c, Numbers
      <4>2. m.ip \in Addr
        BY <2>3 DEF WireOK, Proper
      <4>3. CASE m.ip = q.ip
        BY <2>6, <4>1, <4>3
      <4>4. CASE m.ip # q.ip
        BY <1>a, <2>3, <2>7, <3>2, <4>2, <4>4 DEF ExchangeInv, Covers
      <4> QED
        BY <4>3, <4>4
    <3>3. CASE c.state # "DISCOVERING" /\ c.state \notin Requesting
      BY <1>b, <3>3 DEF ExchangeInv
    <3> QED
      BY <3>1, <3>2, <3>3
  <2>10. UseInv'
    <3> SUFFICES ASSUME linked, ~leaving, net \in Addr
                 PROVE  UseInv'
      BY <1>b DEF UseInv
    <3>1. \/ /\ c.lease_valid /\ c.state \in Using
             /\ Covers(net, c.end) \/ (~ticked /\ c.end = 0)
          \/ retry /\ c.state \notin Using
      BY <1>a DEF UseInv
    <3>2. CASE net = q.ip
      <4>1. owner'[net'] = "client" /\ c'.end <= left'[net']
        BY <1>b, <1>c, <2>6, <3>2
      <4> QED
        BY <1>b, <3>1, <4>1 DEF UseInv, Covers
    <3>3. CASE net # q.ip
      <4>1. owner'[net'] = owner[net] /\ left'[net'] = left[net]
        BY <1>b, <2>7, <3>3
      <4> QED
        BY <1>b, <3>1, <4>1 DEF UseInv, Covers
    <3> QED
      BY <3>2, <3>3
  <2> QED
    BY <2>5, <2>8, <2>9, <2>10 DEF IInv
<1>2. CASE ~(q.ip \in Addr /\ owner[q.ip] \in {"none", "client"})
  <2>1. Reply(q, wire \ {q}, "NAK", NoAddr, <<0, 0>>) /\ owner' = owner /\ left' = left
    BY <1>2 DEF ServerRules, server
  <2>2. WireOK(wire)' /\ \A m \in wire' : m \in wire \/ m.type = "NAK"
    BY <1>c, <2>1, ReplyFacts
  <2>3. Types'
    BY <1>a, <1>b, <2>1, <2>2 DEF Types, InOrder
  <2>4. LinkInv' /\ ExchangeInv' /\ UseInv'
    BY <1>a, <1>b, <2>1, <2>2 DEF LinkInv, ExchangeInv, UseInv, Covers
  <2> QED
    BY <2>3, <2>4 DEF IInv
<1> QED
  BY <1>1, <1>2

LEMMA OtherHostStep == ASSUME IInv, OtherHost PROVE IInv'
<1>a. Types /\ LinkInv /\ ExchangeInv /\ UseInv
  BY DEF IInv
<1>b. UNCHANGED <<c, net, linked, setup, leaving, retry, ticked, wire>>
  BY DEF OtherHost, client, link
<1>c. PICK a \in Addr : /\ owner[a] = "none"
                        /\ owner' = [owner EXCEPT ![a] = "other"]
                        /\ left' = [left EXCEPT ![a] = Lease]
  BY DEF OtherHost
<1>1. owner \in [Addr -> {"none", "client", "other"}] /\ left \in [Addr -> 0 .. Lease]
  BY <1>a DEF Types
<1>2. owner' \in [Addr -> {"none", "client", "other"}] /\ left' \in [Addr -> 0 .. Lease]
  BY <1>1, <1>c, Numbers
<1>3. Types'
  BY <1>2, <1>a, <1>b DEF Types, InOrder, WireOK
<1>4. \A b \in Addr : owner[b] = "client" => owner'[b] = "client" /\ left'[b] = left[b]
  BY <1>1, <1>c
<1>5. LinkInv'
  BY <1>a, <1>b DEF LinkInv
<1>6. ExchangeInv'
  <2>1. \A m \in wire : m.type = "ACK" => m.ip \in Addr
    BY <1>a DEF Types, WireOK, Proper
  <2> QED
    BY <1>4, <1>a, <1>b, <2>1 DEF ExchangeInv, Covers
<1>7. UseInv'
  BY <1>4, <1>a, <1>b DEF UseInv, Covers
<1> QED
  BY <1>3, <1>5, <1>6, <1>7 DEF IInv

LEMMA RoamStep == ASSUME IInv, Roam PROVE IInv'
<1>a. Types /\ LinkInv /\ ExchangeInv /\ UseInv
  BY DEF IInv
<1>b. /\ ~linked /\ wire' = {}
      /\ owner' = [a \in Addr |-> "none"] /\ left' = [a \in Addr |-> 0]
      /\ UNCHANGED <<c, net, linked, setup, leaving, retry, ticked>>
  BY DEF Roam, client, link
<1>1. owner' \in [Addr -> {"none", "client", "other"}] /\ left' \in [Addr -> 0 .. Lease]
  BY <1>b, Numbers
<1>2. WireOK(wire)'
  BY <1>b, FS_EmptySet, Numbers DEF WireOK
<1>3. Types'
  BY <1>1, <1>2, <1>a, <1>b DEF Types, InOrder
<1>4. LinkInv' /\ ExchangeInv' /\ UseInv'
  BY <1>a, <1>b DEF LinkInv, ExchangeInv, UseInv
<1> QED
  BY <1>3, <1>4 DEF IInv

LEMMA StutterStep == ASSUME IInv, UNCHANGED vars PROVE IInv'
<1>1. UNCHANGED <<c, net, linked, setup, leaving, retry, ticked, wire, owner, left>>
  BY DEF vars, client, link, server
<1>2. Types' /\ LinkInv' /\ ExchangeInv' /\ UseInv'
  BY <1>1 DEF IInv, Types, LinkInv, ExchangeInv, UseInv, Covers, InOrder, WireOK
<1> QED
  BY <1>2 DEF IInv
-----------------------------------------------------------------------------
(* The theorems. *)

(* The invariant holds in every reachable state of dhcp.c, its link and the   *)
(* server, whatever is lost, delayed or repeated.                             *)
THEOREM Invariance == Spec => []IInv
<1>1. Init => IInv
  BY InitHolds
<1>2. IInv /\ [Next]_vars => IInv'
  <2> SUFFICES ASSUME IInv, [Next]_vars PROVE IInv'
    OBVIOUS
  <2>1. CASE Tick
    BY <2>1, TickExpiredStep, TickDueStep, TickGivesUpStep, TickIdleStep DEF Tick
  <2>2. CASE \E m \in wire : RxOffer(m) \/ RxAck(m) \/ RxNak(m) \/ Drop(m)
    BY <2>2, RxOfferStep, RxAckStep, RxNakStep, DropStep
  <2>3. CASE LinkUp \/ LinkDown \/ RequestJoin \/ Rejoin
    BY <2>3, LinkUpStep, LinkDownStep, RequestJoinStep, RejoinStep
  <2>4. CASE SetupOpen \/ SetupClose \/ PortalJoin
    BY <2>4, SetupOpenStep, SetupCloseStep, PortalJoinStep
  <2>5. CASE Clock
    BY <2>5, ClockStep
  <2>6. CASE \E m \in wire : ServerOffers(m) \/ ServerRules(m)
    BY <2>6, ServerOffersStep, ServerRulesStep
  <2>7. CASE OtherHost \/ Roam
    BY <2>7, OtherHostStep, RoamStep
  <2>8. CASE UNCHANGED vars
    BY <2>8, StutterStep
  <2> QED
    BY <2>1, <2>2, <2>3, <2>4, <2>5, <2>6, <2>7, <2>8 DEF Next
<1> QED
  BY <1>1, <1>2, PTL DEF Spec

(* The lease and exchange variables of dhcp.c keep their types, and T1, T2    *)
(* and the end of a lease their order, whatever T1 and T2 the server sends.   *)
THEOREM TypeCorrect == Spec => []TypeOK
<1>1. IInv => TypeOK
  <2> SUFFICES ASSUME IInv PROVE TypeOK
    OBVIOUS
  <2>1. Types
    BY DEF IInv
  <2>2. \A b \in Backoff : b \in 1 .. BackoffMax
    BY Numbers DEF Backoff
  <2>3. c \in [state : State, ip : Addr \cup {NoAddr}, lease_valid : BOOLEAN,
            t1 : 0 .. Lease, t2 : 0 .. Lease, end : 0 .. Lease, age : 0 .. Lease, next : Nat,
            tries : 0 .. MaxTries, req_backoff : 1 .. BackoffMax, disc_backoff : 1 .. BackoffMax]
    BY <2>1, <2>2 DEF Types, ClientType
  <2>4. {linked, setup, leaving, retry, ticked} \subseteq BOOLEAN
    BY <2>1 DEF Types
  <2> QED
    BY <2>1, <2>3, <2>4 DEF Types, InOrder, WireOK, TypeOK
<1> QED
  BY <1>1, Invariance, PTL

(* The end of a lease, a NAK or a silent server never clears the address that *)
(* the board has as a SoftAP: dhcp_client_drop_lease only takes its own.      *)
THEOREM SoftApKept == Spec => []ApAddressStays
<1>1. IInv => ApAddressStays
  BY DEF IInv, LinkInv, ApAddressStays
<1> QED
  BY <1>1, Invariance, PTL

(* An associated station uses an address only while the server's lease for it *)
(* runs, until the next turn of the main loop after its end: an ACK counts    *)
(* from the first REQUEST of its exchange, however late it is.                *)
THEOREM LeaseHeld == Spec => []AddressIsLeased
<1>1. IInv => AddressIsLeased
  BY DEF IInv, UseInv, Using, Covers, AddressIsLeased
<1> QED
  BY <1>1, Invariance, PTL
=============================================================================
