----------------------------- MODULE SlotsProofs -----------------------------
(* Proofs about the table of connection slots of module Slots, for a table,   *)
(* request slots and a send buffer of every size and any peers.               *)
EXTENDS Slots, Integers, FiniteSetTheorems, SequenceTheorems, WellFoundedInduction, TLAPS

-----------------------------------------------------------------------------
(* The inductive invariant.  A world is what a handler works on.              *)

World == [pcb : [Pcbs -> Connection], used : Nat, mqtt : Session]

(* A request slot; one that is free is empty. *)
RequestSlot ==
  {s \in [pcb : Pcbs \cup {0}, buf : Seq(Nat), foreign : BOOLEAN] : s.pcb = 0 => s = EmptySlot}

(* Slot p is in use for the MQTT client m, and an error of it would be told.  *)
Held(c) == c.user = "mqtt" /\ c.cb

(* The connection c of slot p, when the MQTT client is m: a slot knows whose  *)
(* it is, what the client still holds is what it points at, and the request   *)
(* of an HTTP client has been answered when its connection closes.            *)
ConnectionOK(c, p, m) ==
  /\ c.state = "UNUSED" \/ c.user = "none" => c = Unused
  /\ c.user = "http" => c.port = HttpPort /\ ~c.never
  /\ c.state \in {"LISTEN", "SYN_RECEIVED"} => c.user = "http"
  /\ c.state = "SYN_RECEIVED" => c.req = NoRequest
  /\ c.state = "SYN_SENT" => c.user = "mqtt"
  /\ c.user = "mqtt" /\ c.state \in {"SYN_SENT", "ESTABLISHED"} => c.cb
  /\ Held(c) => p = m.pcb /\ c.port = m.port /\ c.remote = m.host
  /\ c.req.applied = 0 \/ (c.user = "http" /\ c.state = "ESTABLISHED")
  /\ c.user = "http" /\ c.state = "ESTABLISHED" => c.req.taken < c.req.parts
  /\ c.user = "http" /\ c.state = "FIN_WAIT" => c.req.served = "once, whole"

WorldOK(w) ==
  /\ w \in World
  /\ w.used <= Pool /\ w.used = Cardinality(Units(w.pcb))
  /\ \A p \in Pcbs : ConnectionOK(w.pcb[p], p, w.mqtt)
  /\ w.mqtt.state \in {"OFF", "WAITING"} => w.mqtt.pcb = 0

(* The request slot of an HTTP connection that waits for the rest of its      *)
(* request: there is one, unless nothing was taken, and it holds what was     *)
(* taken and nothing else; and the request has not been applied.              *)
Upto(n) == [k \in 1 .. n |-> k]

RequestOK(c, p, s) ==
  c.user = "http" /\ c.state = "ESTABLISHED" =>
    /\ c.req.applied = 0
    /\ \A i \in ReqSlots : s[i].pcb = p => ~s[i].foreign /\ s[i].buf = Upto(c.req.taken)
    /\ c.req.taken = 0 \/ \E i \in ReqSlots : s[i].pcb = p
    /\ \A i, j \in ReqSlots : s[i].pcb = p /\ s[j].pcb = p => i = j

HttpOK ==
  /\ listener \in Pcbs \cup {0} /\ slot \in [ReqSlots -> RequestSlot]
  /\ \A p \in Pcbs : pcb[p].state = "LISTEN" <=> listener = p
  /\ \A p \in Pcbs : RequestOK(pcb[p], p, slot)

IInv == WorldOK(Now) /\ HttpOK
-----------------------------------------------------------------------------
(* Numbers, and the units of the pool. *)

LEMMA Numbers ==
  /\ NumPcbs \in Nat /\ NumPcbs >= 1 /\ NumReqs \in Nat /\ NumReqs >= 1
  /\ Pool \in Nat /\ PcbMax \in Nat /\ PcbMax >= 2
  /\ HttpPort = 80 /\ 0 \notin Ports /\ 80 \notin Ports
  /\ 0 \notin Pcbs /\ 1 \in Pcbs /\ Pcbs \subseteq Nat /\ ReqSlots \subseteq Nat
  BY TableAssumption, BoundAssumption, PeerAssumption DEF Pcbs, ReqSlots, HttpPort

(* The least of some numbers is one of them. *)
LEMMA LeastFacts == ASSUME NEW S \in SUBSET Nat, S # {} PROVE Least(S) \in S
<1> DEFINE R == {ss \in Nat \X Nat : ss[1] < ss[2]}
<1>1. IsWellFoundedOn(R, Nat)
  BY NatLessThanWellFounded DEF OpToRel
<1> HIDE DEF R
<1>2. PICK x \in S : \A y \in S : ~(<<y, x>> \in R)
  BY <1>1, WFMin
<1>3. ASSUME NEW y \in S PROVE x <= y
  <2>1. x \in Nat /\ y \in Nat /\ <<y, x>> \notin R
    BY <1>2
  <2>2. <<y, x>> \in Nat \X Nat => ~(<<y, x>>[1] < <<y, x>>[2])
    BY <2>1 DEF R
  <2>3. ~(y < x)
    BY <2>1, <2>2
  <2> QED
    BY <2>1, <2>3
<1> QED
  BY <1>3 DEF Least

LEMMA ConnectionFacts ==
  ASSUME NEW c \in Connection
  PROVE  /\ c.state \in Connected \cup {"UNUSED", "LISTEN"} /\ c.user \in {"none", "http", "mqtt"}
         /\ c.buf \in 0 .. PcbMax /\ c.port \in Ports \cup {0, HttpPort}
         /\ c.req.taken \in Nat /\ c.req.parts \in Nat /\ c.req.applied \in Nat
  BY DEF Connection

(* One connection holds as many units as its buffer says.                     *)
LEMMA UnitsOf ==
  ASSUME NEW t \in [Pcbs -> Connection], NEW p \in Pcbs
  PROVE  LET rest == {u \in Units(t) : u[1] # p}
         IN /\ IsFiniteSet(Units(t))
            /\ Cardinality(rest) \in Nat
            /\ Cardinality(Units(t)) = Cardinality(rest) + t[p].buf
<1> DEFINE rest == {u \in Units(t) : u[1] # p}
           own  == {p} \X (1 .. t[p].buf)
<1>1. t[p].buf \in Nat /\ t[p].buf <= PcbMax
  BY Numbers, ConnectionFacts
<1>2. IsFiniteSet(Pcbs) /\ IsFiniteSet(1 .. PcbMax)
  BY Numbers, FS_Interval DEF Pcbs
<1>3. IsFiniteSet(Pcbs \X (1 .. PcbMax))
  BY <1>2, FS_Product
<1>4. IsFiniteSet(Units(t)) /\ IsFiniteSet(rest)
  BY <1>3, FS_Subset DEF Units
<1>5. IsFiniteSet({p}) /\ Cardinality({p}) = 1
  BY FS_Singleton
<1>6. IsFiniteSet(1 .. t[p].buf) /\ Cardinality(1 .. t[p].buf) = t[p].buf
  BY SMTT(30), <1>1, FS_Interval
<1>7. IsFiniteSet(own) /\ Cardinality(own) = t[p].buf
  <2>1. IsFiniteSet(own) /\ Cardinality(own) = Cardinality({p}) * Cardinality(1 .. t[p].buf)
    BY <1>5, <1>6, FS_Product
  <2>2. Cardinality(own) = 1 * t[p].buf
    BY <1>5, <1>6, <2>1
  <2> QED
    BY <1>1, <2>1, <2>2
<1>8. Units(t) = rest \cup own /\ rest \cap own = {}
  BY <1>1, Numbers DEF Units
<1>9. Cardinality(rest) \in Nat /\ Cardinality({}) = 0
  BY <1>4, FS_CardinalityType, FS_EmptySet
<1>10. Cardinality(rest \cup own) = Cardinality(rest) + Cardinality(own) - Cardinality(rest \cap own)
  BY <1>4, <1>7, FS_Union
<1> HIDE DEF rest, own
<1>11. Cardinality(Units(t)) = Cardinality(rest) + t[p].buf
  <2>1. Cardinality(rest \cap own) = 0
    BY <1>8, <1>9
  <2>2. Cardinality(rest \cup own) = Cardinality(Units(t))
    BY <1>8
  <2> QED
    BY <1>1, <1>7, <1>9, <1>10, <2>1, <2>2
<1> QED
  BY <1>4, <1>9, <1>11 DEF rest

(* Changing one connection changes the count by what its buffer changes.      *)
LEMMA UnitsChanged ==
  ASSUME NEW t \in [Pcbs -> Connection], NEW p \in Pcbs, NEW c \in Connection
  PROVE  /\ [t EXCEPT ![p] = c] \in [Pcbs -> Connection]
         /\ Cardinality(Units([t EXCEPT ![p] = c])) = Cardinality(Units(t)) - t[p].buf + c.buf
         /\ Cardinality(Units(t)) \in Nat /\ t[p].buf <= Cardinality(Units(t))
<1> DEFINE n == [t EXCEPT ![p] = c]
           rest(f) == {u \in Units(f) : u[1] # p}
<1>1. n \in [Pcbs -> Connection] /\ n[p] = c /\ \A q \in Pcbs : q # p => n[q] = t[q]
  OBVIOUS
<1>2. c.buf \in Nat /\ t[p].buf \in Nat
  BY Numbers, ConnectionFacts
<1> HIDE DEF n
<1>3. rest(n) = rest(t)
  BY <1>1 DEF Units
<1>4. /\ Cardinality(Units(t)) = Cardinality(rest(t)) + t[p].buf
      /\ Cardinality(rest(t)) \in Nat
  BY UnitsOf
<1>5. Cardinality(Units(n)) = Cardinality(rest(n)) + n[p].buf
  BY <1>1, UnitsOf
<1> HIDE DEF rest
<1>6. Cardinality(Units(n)) = Cardinality(Units(t)) - t[p].buf + c.buf
  BY <1>1, <1>2, <1>3, <1>4, <1>5
<1>7. Cardinality(Units(t)) \in Nat /\ t[p].buf <= Cardinality(Units(t))
  BY <1>2, <1>4
<1> QED
  BY <1>1, <1>6, <1>7 DEF n
-----------------------------------------------------------------------------
(* What the handlers do to a world. *)

(* The world w with the connection c in slot p, u units in use, client m.     *)
Turned(w, p, c, u, m) == [pcb |-> [w.pcb EXCEPT ![p] = c], used |-> u, mqtt |-> m]

(* Only slot p is touched. *)
Spares(w, v, p) == \A q \in Pcbs : q # p => v.pcb[q] = w.pcb[q]

LEMMA WorldFacts ==
  ASSUME NEW w, WorldOK(w)
  PROVE  /\ w = [pcb |-> w.pcb, used |-> w.used, mqtt |-> w.mqtt]
         /\ w.pcb \in [Pcbs -> Connection] /\ w.used \in Nat /\ w.mqtt \in Session
         /\ \A p \in Pcbs : w.pcb[p] \in Connection /\ w.pcb[p].buf \in Nat /\ w.pcb[p].buf <= w.used
<1>1. w \in World /\ w.used = Cardinality(Units(w.pcb))
  BY DEF WorldOK
<1>2. /\ w = [pcb |-> w.pcb, used |-> w.used, mqtt |-> w.mqtt]
      /\ w.pcb \in [Pcbs -> Connection] /\ w.used \in Nat /\ w.mqtt \in Session
  BY <1>1 DEF World
<1>3. ASSUME NEW p \in Pcbs
      PROVE  w.pcb[p] \in Connection /\ w.pcb[p].buf \in Nat /\ w.pcb[p].buf <= w.used
  <2>1. w.pcb[p] \in Connection
    BY <1>2
  <2>2. w.pcb[p].buf \in Nat
    BY <2>1, Numbers, ConnectionFacts
  <2>3. w.pcb[p].buf <= Cardinality(Units(w.pcb))
    BY <1>2, <2>1, UnitsChanged
  <2> QED
    BY <1>1, <2>1, <2>2, <2>3
<1> QED
  BY <1>2, <1>3

(* A handler that touches one connection, and the client at most where no     *)
(* other slot is held.                                                        *)
LEMMA TurnedOK ==
  ASSUME NEW w, WorldOK(w), NEW p \in Pcbs, NEW c \in Connection, NEW m \in Session,
         NEW u, u = w.used - w.pcb[p].buf + c.buf, u <= Pool,
         ConnectionOK(c, p, m),
         \A q \in Pcbs : q # p /\ Held(w.pcb[q]) =>
            m.pcb = w.mqtt.pcb /\ m.port = w.mqtt.port /\ m.host = w.mqtt.host,
         m.state \in {"OFF", "WAITING"} => m.pcb = 0
  PROVE  /\ WorldOK(Turned(w, p, c, u, m))
         /\ Turned(w, p, c, u, m).pcb[p] = c /\ Turned(w, p, c, u, m).mqtt = m
         /\ Spares(w, Turned(w, p, c, u, m), p)
<1> DEFINE v == Turned(w, p, c, u, m)
<1>1. /\ w.pcb \in [Pcbs -> Connection] /\ w.used \in Nat /\ w.mqtt \in Session
      /\ w.pcb[p].buf \in Nat /\ w.pcb[p].buf <= w.used /\ c.buf \in Nat
  BY WorldFacts, Numbers, ConnectionFacts
<1>2. /\ v.pcb = [w.pcb EXCEPT ![p] = c] /\ v.used = u /\ v.mqtt = m
      /\ v = [pcb |-> v.pcb, used |-> v.used, mqtt |-> v.mqtt]
  BY DEF Turned
<1>3. v.pcb[p] = c /\ \A q \in Pcbs : q # p => v.pcb[q] = w.pcb[q]
  BY <1>1, <1>2
<1>4. /\ v.pcb \in [Pcbs -> Connection]
      /\ Cardinality(Units(v.pcb)) = Cardinality(Units(w.pcb)) - w.pcb[p].buf + c.buf
  BY <1>1, <1>2, UnitsChanged
<1>5. u \in Nat
  BY <1>1
<1> HIDE DEF v
<1>6. v \in World
  BY <1>2, <1>4, <1>5 DEF World
<1>7. v.used = Cardinality(Units(v.pcb)) /\ v.used <= Pool
  BY <1>2, <1>4 DEF WorldOK
<1>8. ASSUME NEW q \in Pcbs PROVE ConnectionOK(v.pcb[q], q, v.mqtt)
  <2>1. CASE q = p
    BY <1>2, <1>3, <2>1
  <2>2. CASE q # p
    <3>1. v.pcb[q] = w.pcb[q] /\ ConnectionOK(w.pcb[q], q, w.mqtt)
      BY <1>3, <2>2 DEF WorldOK
    <3>2. Held(w.pcb[q]) =>
            v.mqtt.pcb = w.mqtt.pcb /\ v.mqtt.port = w.mqtt.port /\ v.mqtt.host = w.mqtt.host
      BY <1>2, <2>2
    <3> QED
      BY ZenonT(30), <3>1, <3>2 DEF ConnectionOK
  <2> QED
    BY <2>1, <2>2
<1>9. WorldOK(v)
  BY <1>2, <1>6, <1>7, <1>8 DEF WorldOK
<1> QED
  BY <1>2, <1>3, <1>9 DEF v, Spares

LEMMA UnusedFacts ==
  /\ Unused \in Connection /\ Unused.buf = 0 /\ Unused.state = "UNUSED" /\ Unused.user = "none"
  /\ \A p, m : ConnectionOK(Unused, p, m)
<1>1. NoRequest \in [kind : {"get", "post"}, parts : Nat, taken : Nat, applied : Nat,
                     served : {"no", "once, whole", "wrong"}]
  BY DEF NoRequest
<1>2. 0 \in 0 .. PcbMax
  BY Numbers
<1>3. Unused \in Connection
  BY <1>1, <1>2 DEF Unused, Connection
<1> QED
  BY <1>3 DEF Unused, ConnectionOK, Held, NoRequest

(* tcp_sndbuf_release_all *)
LEMMA ReleasedFacts ==
  ASSUME NEW w, WorldOK(w), NEW p \in Pcbs
  PROVE  /\ WorldOK(Released(w, p)) /\ Spares(w, Released(w, p), p)
         /\ Released(w, p).pcb[p] = [w.pcb[p] EXCEPT !.buf = 0]
         /\ Released(w, p).mqtt = w.mqtt
         /\ Released(w, p).used = w.used - w.pcb[p].buf
<1> DEFINE c == [w.pcb[p] EXCEPT !.buf = 0]
           u == w.used - w.pcb[p].buf
<1>1. /\ w = [pcb |-> w.pcb, used |-> w.used, mqtt |-> w.mqtt]
      /\ w.pcb \in [Pcbs -> Connection] /\ w.used \in Nat /\ w.mqtt \in Session
      /\ w.pcb[p] \in Connection /\ w.pcb[p].buf \in Nat /\ w.pcb[p].buf <= w.used
  BY WorldFacts
<1>2. c \in Connection /\ c.buf = 0
  <2>1. 0 \in 0 .. PcbMax
    BY Numbers
  <2> QED
    BY <1>1, <2>1 DEF Connection
<1>3. /\ ConnectionOK(w.pcb[p], p, w.mqtt) /\ w.used <= Pool
      /\ w.mqtt.state \in {"OFF", "WAITING"} => w.mqtt.pcb = 0
  BY DEF WorldOK
<1>4. ConnectionOK(c, p, w.mqtt)
  <2>1. /\ c.state = w.pcb[p].state /\ c.user = w.pcb[p].user /\ c.cb = w.pcb[p].cb
        /\ c.never = w.pcb[p].never /\ c.port = w.pcb[p].port /\ c.remote = w.pcb[p].remote
        /\ c.req = w.pcb[p].req
    BY <1>1 DEF Connection
  <2>2. w.pcb[p].buf = 0 => c = w.pcb[p]
    BY <1>1 DEF Connection
  <2>3. w.pcb[p] = Unused => c = Unused
    BY <2>2, UnusedFacts
  <2> HIDE DEF c
  <2> QED
    BY <1>3, <2>1, <2>3 DEF ConnectionOK, Held
<1>5. Released(w, p) = Turned(w, p, c, u, w.mqtt)
  <2>1. Released(w, p) = [w EXCEPT !.used = u, !.pcb = [w.pcb EXCEPT ![p] = c]]
    BY <1>1 DEF Released, World
  <2> QED
    BY <1>1, <2>1 DEF Turned, World
<1>6. u = w.used - w.pcb[p].buf + c.buf /\ u <= Pool
  BY <1>1, <1>2, <1>3, Numbers
<1>7. Turned(w, p, c, u, w.mqtt).used = u
  BY DEF Turned
<1> HIDE DEF c, u
<1>8. /\ WorldOK(Turned(w, p, c, u, w.mqtt)) /\ Spares(w, Turned(w, p, c, u, w.mqtt), p)
      /\ Turned(w, p, c, u, w.mqtt).pcb[p] = c /\ Turned(w, p, c, u, w.mqtt).mqtt = w.mqtt
  BY <1>1, <1>2, <1>3, <1>4, <1>6, TurnedOK
<1> QED
  BY <1>5, <1>7, <1>8 DEF c, u

LEMMA SessionFacts ==
  ASSUME NEW m \in Session
  PROVE  /\ ErrCb(m) \in Session /\ ErrCb(m).pcb = 0
         /\ ErrCb(m).state = m.state /\ ErrCb(m).host = m.host
         /\ m.pcb \in Pcbs \cup {0} /\ m.port \in Ports \cup {0} /\ m.host \in Brokers \cup {None}
  BY DEF Session, ErrCb

(* At most one connection is held by the MQTT client. *)
LEMMA HeldFacts ==
  ASSUME NEW w, WorldOK(w), NEW p \in Pcbs, Held(w.pcb[p])
  PROVE  /\ w.mqtt.pcb = p /\ w.pcb[p].port = w.mqtt.port /\ w.pcb[p].remote = w.mqtt.host
         /\ \A q \in Pcbs : q # p => ~Held(w.pcb[q])
  BY DEF WorldOK, ConnectionOK

(* tcp_pcb_free *)
LEMMA FreedFacts ==
  ASSUME NEW w, WorldOK(w), NEW p \in Pcbs, NEW ok \in BOOLEAN
  PROVE  /\ WorldOK(Freed(w, p, ok)) /\ Spares(w, Freed(w, p, ok), p)
         /\ Freed(w, p, ok).pcb[p] = Unused
         /\ Freed(w, p, ok).mqtt \in {w.mqtt, ErrCb(w.mqtt)}
         /\ ok => Freed(w, p, ok).mqtt = w.mqtt
<1> DEFINE r == Released(w, p)
           told == ok = FALSE /\ w.pcb[p].user = "mqtt" /\ w.pcb[p].cb
           m == IF told THEN ErrCb(w.mqtt) ELSE w.mqtt
           v == Turned(r, p, Unused, r.used, m)
<1>1. /\ WorldOK(r) /\ Spares(w, r, p) /\ r.mqtt = w.mqtt
      /\ r.pcb[p] = [w.pcb[p] EXCEPT !.buf = 0]
  BY ReleasedFacts
<1>2. /\ r = [pcb |-> r.pcb, used |-> r.used, mqtt |-> r.mqtt]
      /\ r.pcb \in [Pcbs -> Connection] /\ r.used \in Nat /\ r.mqtt \in Session
      /\ w.pcb[p] \in Connection
  BY <1>1, WorldFacts
<1>3. r.pcb[p].buf = 0 /\ r.used <= Pool
  BY <1>1, <1>2 DEF Connection, WorldOK
<1>4. m \in Session /\ m.state = w.mqtt.state
  BY <1>1, <1>2, SessionFacts
<1>5. m.state \in {"OFF", "WAITING"} => m.pcb = 0
  BY <1>4, <1>2, <1>1, SessionFacts DEF WorldOK
<1>6. ASSUME NEW q \in Pcbs, q # p, Held(r.pcb[q])
      PROVE  m.pcb = r.mqtt.pcb /\ m.port = r.mqtt.port /\ m.host = r.mqtt.host
  <2>1. Held(w.pcb[q])
    BY <1>1, <1>6 DEF Spares
  <2>2. ~Held(w.pcb[p])
    BY <1>6, <2>1, HeldFacts
  <2> QED
    BY <1>1, <2>2 DEF Held
<1>7. Freed(w, p, ok) = v
  <2> HIDE DEF r
  <2>1. Freed(w, p, ok) = [r EXCEPT !.pcb = [r.pcb EXCEPT ![p] = Unused], !.mqtt = m]
    BY <1>1, <1>2 DEF Freed, r
  <2> HIDE DEF m
  <2> QED
    BY <1>2, <2>1 DEF Turned
<1>8. ConnectionOK(Unused, p, m) /\ Unused \in Connection /\ Unused.buf = 0
  BY UnusedFacts
<1>9. r.used = r.used - r.pcb[p].buf + Unused.buf
  BY <1>2, <1>3, <1>8
<1>10. m \in {w.mqtt, ErrCb(w.mqtt)} /\ (ok => m = w.mqtt)
  OBVIOUS
<1> HIDE DEF r, m
<1>11. /\ WorldOK(v) /\ v.pcb[p] = Unused /\ v.mqtt = m /\ Spares(r, v, p)
  <2>1. WorldOK(r) /\ m \in Session /\ r.used <= Pool
    BY <1>1, <1>3, <1>4
  <2>2. \A q \in Pcbs : q # p /\ Held(r.pcb[q]) =>
           m.pcb = r.mqtt.pcb /\ m.port = r.mqtt.port /\ m.host = r.mqtt.host
    BY <1>6
  <2> QED
    BY <2>1, <2>2, <1>5, <1>8, <1>9, TurnedOK
<1>12. Spares(w, v, p)
  BY <1>1, <1>11 DEF Spares
<1> QED
  BY <1>7, <1>10, <1>11, <1>12

(* A slot's connection is replaced by one with the same buffer. *)
LEMMA PlacedFacts ==
  ASSUME NEW w, WorldOK(w), NEW p \in Pcbs, NEW c \in Connection,
         c.buf = w.pcb[p].buf, ConnectionOK(c, p, w.mqtt)
  PROVE  /\ WorldOK(Placed(w, p, c)) /\ Spares(w, Placed(w, p, c), p)
         /\ Placed(w, p, c).pcb[p] = c /\ Placed(w, p, c).mqtt = w.mqtt
<1>1. /\ w = [pcb |-> w.pcb, used |-> w.used, mqtt |-> w.mqtt]
      /\ w.pcb \in [Pcbs -> Connection] /\ w.used \in Nat /\ w.mqtt \in Session
      /\ w.pcb[p].buf \in Nat
  BY WorldFacts
<1>2. w.used = w.used - w.pcb[p].buf + c.buf /\ w.used <= Pool
  BY <1>1 DEF WorldOK
<1>3. w.mqtt.state \in {"OFF", "WAITING"} => w.mqtt.pcb = 0
  BY DEF WorldOK
<1>4. Placed(w, p, c) = Turned(w, p, c, w.used, w.mqtt)
  <2>1. Placed(w, p, c) = [w EXCEPT !.pcb = [w.pcb EXCEPT ![p] = c]]
    BY <1>1 DEF Placed
  <2> QED
    BY <1>1, <2>1 DEF Turned
<1> QED
  BY <1>1, <1>2, <1>3, <1>4, TurnedOK

(* tcp_new: the slot it returns is no listener's, and unused. *)
LEMMA NewFacts ==
  ASSUME NEW w, WorldOK(w), NEW r \in New(w)
  PROVE  /\ r.p \in Pcbs \cup {0} /\ WorldOK(r.w)
         /\ r.w.mqtt \in {w.mqtt, ErrCb(w.mqtt)}
         /\ r.p = 0 => r.w = w
         /\ r.p # 0 => /\ Spares(w, r.w, r.p) /\ r.w.pcb[r.p] = Unused
                       /\ w.pcb[r.p].state # "LISTEN"
<1> DEFINE free == {p \in Pcbs : w.pcb[p].state = "UNUSED"}
           done == {p \in Pcbs : w.pcb[p].state = "TIME_WAIT"}
           idle == {p \in Pcbs : w.pcb[p].state # "LISTEN" /\ ~w.pcb[p].never}
<1>1. free \in SUBSET Nat /\ done \in SUBSET Nat
  BY Numbers
<1>2. CASE free # {}
  <2>1. New(w) = {[w |-> w, p |-> Least(free)]}
    BY <1>2 DEF New
  <2>2. Least(free) \in free
    BY <1>1, <1>2, LeastFacts
  <2>3. r.w = w /\ r.p = Least(free)
    BY <2>1
  <2>4. w.pcb[r.p] = Unused
    <3>1. r.p \in Pcbs /\ w.pcb[r.p].state = "UNUSED"
      BY <2>2, <2>3
    <3>2. ConnectionOK(w.pcb[r.p], r.p, w.mqtt)
      BY <3>1 DEF WorldOK
    <3> QED
      BY <3>1, <3>2 DEF ConnectionOK
  <2> QED
    BY <2>2, <2>3, <2>4, Numbers, UnusedFacts DEF Spares
<1>3. CASE free = {} /\ done # {}
  <2>1. New(w) = {[w |-> Freed(w, Least(done), TRUE), p |-> Least(done)]}
    BY <1>3 DEF New
  <2>2. Least(done) \in done
    BY <1>1, <1>3, LeastFacts
  <2> DEFINE v == Freed(w, Least(done), TRUE)
             p == Least(done)
  <2>3. WorldOK(v) /\ Spares(w, v, p) /\ v.pcb[p] = Unused /\ v.mqtt = w.mqtt
    BY <2>2, FreedFacts
  <2>4. r = [w |-> v, p |-> p]
    BY <2>1
  <2>5. p \in Pcbs /\ w.pcb[p].state = "TIME_WAIT"
    BY <2>2
  <2> HIDE DEF v, p
  <2>6. r.w = v /\ r.p = p
    BY <2>4
  <2> QED
    BY <2>3, <2>5, <2>6, Numbers
<1>4. CASE free = {} /\ done = {}
  <2>1. New(w) = {[w |-> Freed(w, p, FALSE), p |-> p] : p \in idle} \cup {[w |-> w, p |-> 0]}
    BY <1>4 DEF New
  <2>2. CASE r = [w |-> w, p |-> 0]
    BY <2>2
  <2>3. CASE \E p \in idle : r = [w |-> Freed(w, p, FALSE), p |-> p]
    <3>1. PICK p \in idle : r = [w |-> Freed(w, p, FALSE), p |-> p]
      BY <2>3
    <3> DEFINE v == Freed(w, p, FALSE)
    <3>3. WorldOK(v) /\ Spares(w, v, p) /\ v.pcb[p] = Unused /\ v.mqtt \in {w.mqtt, ErrCb(w.mqtt)}
      BY FreedFacts
    <3> HIDE DEF v
    <3>4. r.w = v /\ r.p = p
      BY <3>1 DEF v
    <3> QED
      BY <3>3, <3>4, Numbers
  <2> QED
    BY <2>1, <2>2, <2>3
<1> QED
  BY <1>2, <1>3, <1>4

(* The send buffer of a connection may change without anything else.          *)
LEMMA BufferFacts ==
  ASSUME NEW c \in Connection, NEW p, NEW m, ConnectionOK(c, p, m), c.state # "UNUSED",
         NEW n \in 0 .. PcbMax
  PROVE  /\ [c EXCEPT !.buf = n] \in Connection /\ [c EXCEPT !.buf = n].buf = n
         /\ ConnectionOK([c EXCEPT !.buf = n], p, m)
         /\ [c EXCEPT !.buf = n].state = c.state /\ [c EXCEPT !.buf = n].user = c.user
         /\ [c EXCEPT !.buf = n].req = c.req
<1> DEFINE d == [c EXCEPT !.buf = n]
<1>1. d \in Connection /\ d.buf = n
  BY DEF Connection
<1>2. /\ d.state = c.state /\ d.user = c.user /\ d.cb = c.cb /\ d.never = c.never
      /\ d.port = c.port /\ d.remote = c.remote /\ d.req = c.req
  BY DEF Connection
<1>3. c.user # "none"
  BY UnusedFacts DEF ConnectionOK
<1> HIDE DEF d
<1>4. ConnectionOK(d, p, m)
  BY <1>2, <1>3 DEF ConnectionOK, Held
<1> QED
  BY <1>1, <1>2, <1>4 DEF d

(* tcp_write *)
LEMMA WrittenFacts ==
  ASSUME NEW w, WorldOK(w), NEW p \in Pcbs, NEW n \in Nat, Room(w, p, n),
         w.pcb[p].state # "UNUSED"
  PROVE  /\ WorldOK(Written(w, p, n)) /\ Spares(w, Written(w, p, n), p)
         /\ Written(w, p, n).pcb[p] = [w.pcb[p] EXCEPT !.buf = w.pcb[p].buf + n]
         /\ Written(w, p, n).mqtt = w.mqtt
<1> DEFINE b == w.pcb[p].buf + n
           c == [w.pcb[p] EXCEPT !.buf = b]
           u == w.used + n
<1>1. /\ w = [pcb |-> w.pcb, used |-> w.used, mqtt |-> w.mqtt]
      /\ w.pcb \in [Pcbs -> Connection] /\ w.used \in Nat /\ w.mqtt \in Session
      /\ w.pcb[p] \in Connection /\ w.pcb[p].buf \in Nat
  BY WorldFacts
<1>2. b \in 0 .. PcbMax /\ u <= Pool
  BY <1>1, Numbers DEF Room
<1>3. /\ ConnectionOK(w.pcb[p], p, w.mqtt)
      /\ w.mqtt.state \in {"OFF", "WAITING"} => w.mqtt.pcb = 0
  BY DEF WorldOK
<1>4. c \in Connection /\ c.buf = b /\ ConnectionOK(c, p, w.mqtt)
  BY <1>1, <1>2, <1>3, BufferFacts
<1>5. u = w.used - w.pcb[p].buf + c.buf
  BY <1>1, <1>4
<1>6. Written(w, p, n) = Turned(w, p, c, u, w.mqtt)
  <2>1. Written(w, p, n) = [w EXCEPT !.pcb = [w.pcb EXCEPT ![p] = c], !.used = u]
    BY <1>1 DEF Written
  <2> QED
    BY <1>1, <2>1 DEF Turned
<1> HIDE DEF c, u
<1>7. /\ WorldOK(Turned(w, p, c, u, w.mqtt)) /\ Spares(w, Turned(w, p, c, u, w.mqtt), p)
      /\ Turned(w, p, c, u, w.mqtt).pcb[p] = c /\ Turned(w, p, c, u, w.mqtt).mqtt = w.mqtt
  BY <1>1, <1>2, <1>3, <1>4, <1>5, TurnedOK
<1> QED
  BY <1>6, <1>7 DEF c

(* The MQTT client may change where what it points at is not held.            *)
LEMMA ClientFacts ==
  ASSUME NEW w, WorldOK(w), NEW m \in Session,
         \A q \in Pcbs : Held(w.pcb[q]) =>
           m.pcb = w.mqtt.pcb /\ m.port = w.mqtt.port /\ m.host = w.mqtt.host,
         m.state \in {"OFF", "WAITING"} => m.pcb = 0
  PROVE  /\ WorldOK([w EXCEPT !.mqtt = m])
         /\ [w EXCEPT !.mqtt = m].pcb = w.pcb /\ [w EXCEPT !.mqtt = m].mqtt = m
<1>1. /\ w = [pcb |-> w.pcb, used |-> w.used, mqtt |-> w.mqtt]
      /\ w.pcb \in [Pcbs -> Connection] /\ w.used \in Nat /\ 1 \in Pcbs
      /\ w.pcb[1] \in Connection /\ w.pcb[1].buf \in Nat
  BY WorldFacts, Numbers
<1>2. ConnectionOK(w.pcb[1], 1, m)
  <2>1. ConnectionOK(w.pcb[1], 1, w.mqtt)
    BY <1>1 DEF WorldOK
  <2> QED
    BY <1>1, <2>1 DEF ConnectionOK
<1>3. w.used = w.used - w.pcb[1].buf + w.pcb[1].buf /\ w.used <= Pool
  BY <1>1 DEF WorldOK
<1>4. WorldOK(Turned(w, 1, w.pcb[1], w.used, m))
  BY <1>1, <1>2, <1>3, TurnedOK
<1>5. Turned(w, 1, w.pcb[1], w.used, m) = [w EXCEPT !.mqtt = m]
  BY <1>1 DEF Turned
<1>6. [w EXCEPT !.mqtt = m].pcb = w.pcb /\ [w EXCEPT !.mqtt = m].mqtt = m
  BY <1>1
<1> QED
  BY <1>4, <1>5, <1>6

(* s_pcb = NULL, when no slot is held *)
LEMMA NoPcbFacts ==
  ASSUME NEW w, WorldOK(w), \A q \in Pcbs : ~Held(w.pcb[q])
  PROVE  /\ WorldOK(NoPcb(w)) /\ NoPcb(w).pcb = w.pcb
         /\ NoPcb(w).mqtt \in Session /\ NoPcb(w).mqtt.pcb = 0
         /\ NoPcb(w).mqtt.state = w.mqtt.state /\ NoPcb(w).mqtt.host = w.mqtt.host
<1> DEFINE m == [w.mqtt EXCEPT !.pcb = 0, !.port = 0]
<1>1. w.mqtt \in Session /\ w = [pcb |-> w.pcb, used |-> w.used, mqtt |-> w.mqtt]
  BY WorldFacts
<1>2. m \in Session /\ m.pcb = 0 /\ m.state = w.mqtt.state /\ m.host = w.mqtt.host
  BY <1>1 DEF Session
<1>3. NoPcb(w) = [w EXCEPT !.mqtt = m]
  BY <1>1 DEF NoPcb
<1> HIDE DEF m
<1> QED
  BY <1>2, <1>3, ClientFacts

(* mqtt_pcb_owned is right: what is held is owned, and what is owned is a     *)
(* connection of the MQTT client that is not unused.                          *)
LEMMA OwnedFacts ==
  ASSUME NEW w, WorldOK(w)
  PROVE  /\ Owned(w) => /\ w.mqtt.pcb \in Pcbs /\ w.pcb[w.mqtt.pcb].user = "mqtt"
                        /\ w.pcb[w.mqtt.pcb].state \notin {"UNUSED", "LISTEN", "SYN_RECEIVED"}
                        /\ \A q \in Pcbs : q # w.mqtt.pcb => ~Held(w.pcb[q])
         /\ ~Owned(w) => \A q \in Pcbs : ~Held(w.pcb[q])
<1>1. w.mqtt \in Session /\ w.pcb \in [Pcbs -> Connection] /\ w.mqtt.pcb \in Pcbs \cup {0}
      /\ w.mqtt.port \in Ports \cup {0}
  BY WorldFacts, SessionFacts
<1>2. ASSUME Owned(w)
      PROVE  /\ w.mqtt.pcb \in Pcbs /\ w.pcb[w.mqtt.pcb].user = "mqtt"
             /\ w.pcb[w.mqtt.pcb].state \notin {"UNUSED", "LISTEN", "SYN_RECEIVED"}
             /\ \A q \in Pcbs : q # w.mqtt.pcb => ~Held(w.pcb[q])
  <2> DEFINE p == w.mqtt.pcb
  <2>1. /\ p \in Pcbs /\ w.pcb[p].state # "UNUSED" /\ w.pcb[p].port = w.mqtt.port
    BY <1>1, <1>2 DEF Owned
  <2>2. ConnectionOK(w.pcb[p], p, w.mqtt) /\ w.pcb[p].user \in {"none", "http", "mqtt"}
    BY <1>1, <2>1, ConnectionFacts DEF WorldOK
  <2>3. w.pcb[p].user # "none"
    BY <2>1, <2>2, UnusedFacts DEF ConnectionOK
  <2>4. w.pcb[p].user # "http"
    <3>1. w.mqtt.port # HttpPort
      BY <1>1, Numbers
    <3>2. w.pcb[p].user = "http" => w.pcb[p].port = HttpPort
      BY <2>2 DEF ConnectionOK
    <3> QED
      BY <2>1, <3>1, <3>2
  <2>5. w.pcb[p].state \notin {"LISTEN", "SYN_RECEIVED"}
    BY <2>2, <2>4 DEF ConnectionOK
  <2>6. \A q \in Pcbs : q # p => ~Held(w.pcb[q])
    BY HeldFacts
  <2> QED
    BY <2>1, <2>2, <2>3, <2>4, <2>5, <2>6
<1>3. ASSUME ~Owned(w), NEW q \in Pcbs, Held(w.pcb[q]) PROVE FALSE
  <2>1. w.mqtt.pcb = q /\ w.pcb[q].port = w.mqtt.port /\ w.pcb[q].remote = w.mqtt.host
    BY <1>3, HeldFacts
  <2>2. w.pcb[q].state # "UNUSED"
    BY <1>3, UnusedFacts DEF WorldOK, ConnectionOK, Held
  <2> QED
    BY <1>3, <2>1, <2>2, Numbers DEF Owned
<1> QED
  BY <1>2, <1>3

(* What an operation of the MQTT client does to w, when v is the outcome: it  *)
(* spares the HTTP server and keeps the settings.                             *)
Tame(w, v) ==
  /\ WorldOK(v)
  /\ \A q \in Pcbs : v.pcb[q] = w.pcb[q] \/ (w.pcb[q].user # "http" /\ v.pcb[q].user # "http")
  /\ v.mqtt.host = w.mqtt.host

(* mqtt_drop_pcb *)
LEMMA DropFacts ==
  ASSUME NEW w, WorldOK(w)
  PROVE  /\ Tame(w, DropPcb(w)) /\ DropPcb(w).mqtt \in Session /\ DropPcb(w).mqtt.pcb = 0
         /\ DropPcb(w).mqtt.state = w.mqtt.state
         /\ \A q \in Pcbs : ~Held(DropPcb(w).pcb[q])
<1> DEFINE d == IF Owned(w) THEN Freed(w, w.mqtt.pcb, TRUE) ELSE w
           n == NoPcb(d)
           m == [n.mqtt EXCEPT !.failed = FALSE]
<1>1. WorldOK(d) /\ d.mqtt = w.mqtt /\ Tame(w, d) /\ \A q \in Pcbs : ~Held(d.pcb[q])
  <2>1. CASE Owned(w)
    <3> DEFINE p == w.mqtt.pcb
               f == Freed(w, p, TRUE)
    <3>1. p \in Pcbs /\ w.pcb[p].user = "mqtt" /\ \A q \in Pcbs : q # p => ~Held(w.pcb[q])
      BY <2>1, OwnedFacts
    <3>2. WorldOK(f) /\ Spares(w, f, p) /\ f.pcb[p] = Unused /\ f.mqtt = w.mqtt
      BY <3>1, FreedFacts
    <3> HIDE DEF f
    <3>3. Tame(w, f)
      BY <3>1, <3>2, UnusedFacts DEF Tame, Spares
    <3>4. \A q \in Pcbs : ~Held(f.pcb[q])
      BY <3>1, <3>2, UnusedFacts DEF Spares, Held
    <3>5. d = f
      BY <2>1 DEF f
    <3> QED
      BY <3>2, <3>3, <3>4, <3>5
  <2>2. CASE ~Owned(w)
    BY <2>2, OwnedFacts DEF Tame
  <2> QED
    BY <2>1, <2>2
<1> HIDE DEF d
<1>2. /\ WorldOK(n) /\ n.pcb = d.pcb /\ n.mqtt \in Session /\ n.mqtt.pcb = 0
      /\ n.mqtt.state = d.mqtt.state /\ n.mqtt.host = d.mqtt.host
  BY <1>1, NoPcbFacts
<1>3. DropPcb(w) = [n EXCEPT !.mqtt = m]
  <2>1. n = [pcb |-> n.pcb, used |-> n.used, mqtt |-> n.mqtt]
    BY <1>2, WorldFacts
  <2> QED
    BY <2>1 DEF DropPcb, d
<1> HIDE DEF n
<1>4. /\ m \in Session /\ m.pcb = 0 /\ m.port = n.mqtt.port
      /\ m.state = n.mqtt.state /\ m.host = n.mqtt.host
  BY <1>2 DEF Session
<1> HIDE DEF m
<1>5. /\ WorldOK([n EXCEPT !.mqtt = m]) /\ [n EXCEPT !.mqtt = m].pcb = n.pcb
      /\ [n EXCEPT !.mqtt = m].mqtt = m
  BY <1>1, <1>2, <1>4, ClientFacts
<1>6. Tame(w, [n EXCEPT !.mqtt = m])
  BY <1>1, <1>2, <1>4, <1>5 DEF Tame
<1> QED
  BY <1>1, <1>2, <1>3, <1>4, <1>5, <1>6

(* mqtt_fail *)
LEMMA FailFacts ==
  ASSUME NEW w, WorldOK(w)
  PROVE  /\ Tame(w, Fail(w)) /\ Fail(w).mqtt \in Session /\ Fail(w).mqtt.pcb = 0
         /\ \A q \in Pcbs : ~Held(Fail(w).pcb[q])
<1> DEFINE d == DropPcb(w)
           m == [d.mqtt EXCEPT !.state = "WAITING"]
<1>1. /\ WorldOK(d) /\ Tame(w, d) /\ d.mqtt \in Session /\ d.mqtt.pcb = 0
      /\ \A q \in Pcbs : ~Held(d.pcb[q])
  BY DropFacts DEF Tame
<1>2. Fail(w) = [d EXCEPT !.mqtt = m]
  <2>1. d = [pcb |-> d.pcb, used |-> d.used, mqtt |-> d.mqtt]
    BY <1>1, WorldFacts
  <2> QED
    BY <2>1 DEF Fail
<1> HIDE DEF d
<1>3. m \in Session /\ m.pcb = 0 /\ m.host = d.mqtt.host
  BY <1>1 DEF Session
<1> HIDE DEF m
<1>4. /\ WorldOK([d EXCEPT !.mqtt = m]) /\ [d EXCEPT !.mqtt = m].pcb = d.pcb
      /\ [d EXCEPT !.mqtt = m].mqtt = m
  BY <1>1, <1>3, ClientFacts
<1>5. Tame(w, [d EXCEPT !.mqtt = m])
  BY <1>1, <1>3, <1>4 DEF Tame
<1> QED
  BY <1>1, <1>2, <1>3, <1>4, <1>5

(* mqtt_disconnect_gracefully *)
LEMMA DisconnectedFacts ==
  ASSUME NEW w, WorldOK(w)
  PROVE  /\ Tame(w, Disconnected(w)) /\ Disconnected(w).mqtt \in Session
         /\ Disconnected(w).mqtt.pcb = 0
         /\ \A q \in Pcbs : ~Held(Disconnected(w).pcb[q])
<1>1. CASE w.mqtt.state = "ONLINE" /\ Owned(w)
  <2> DEFINE p == w.mqtt.pcb
             d == IF Room(w, p, 1) THEN Written(w, p, 1) ELSE w
             c == [d.pcb[p] EXCEPT !.cb = FALSE, !.state = "FIN_WAIT"]
             e == Placed(d, p, c)
  <2>1. /\ p \in Pcbs /\ w.pcb[p].user = "mqtt" /\ w.pcb[p].state # "UNUSED"
        /\ \A q \in Pcbs : q # p => ~Held(w.pcb[q])
    BY <1>1, OwnedFacts
  <2>2. WorldOK(d) /\ Spares(w, d, p) /\ d.mqtt = w.mqtt /\ d.pcb[p].user = "mqtt"
    <3>1. CASE Room(w, p, 1)
      <4>1. /\ WorldOK(Written(w, p, 1)) /\ Spares(w, Written(w, p, 1), p)
            /\ Written(w, p, 1).pcb[p] = [w.pcb[p] EXCEPT !.buf = w.pcb[p].buf + 1]
            /\ Written(w, p, 1).mqtt = w.mqtt
        BY <2>1, <3>1, WrittenFacts
      <4>2. Written(w, p, 1).pcb[p].user = "mqtt"
        <5>1. w.pcb[p] \in Connection
          BY <2>1, WorldFacts
        <5> QED
          BY <2>1, <4>1, <5>1 DEF Connection
      <4> QED
        BY <3>1, <4>1, <4>2
    <3>2. CASE ~Room(w, p, 1)
      BY <2>1, <3>2 DEF Spares
    <3> QED
      BY <3>1, <3>2
  <2> HIDE DEF d
  <2>3. /\ d = [pcb |-> d.pcb, used |-> d.used, mqtt |-> d.mqtt] /\ d.pcb[p] \in Connection
        /\ d.pcb \in [Pcbs -> Connection]
        /\ ConnectionOK(d.pcb[p], p, d.mqtt)
    BY <2>1, <2>2, WorldFacts DEF WorldOK
  <2>4. /\ c \in Connection /\ c.user = "mqtt" /\ c.cb = FALSE /\ c.state = "FIN_WAIT"
        /\ c.buf = d.pcb[p].buf /\ c.req = d.pcb[p].req
    BY <2>2, <2>3 DEF Connection, Connected
  <2>5. NoPcb(e) = Disconnected(w)
    <3>1. Closed([d EXCEPT !.pcb[p].cb = FALSE], p) = e
      <4>1. [d EXCEPT !.pcb[p].cb = FALSE] =
              [d EXCEPT !.pcb = [d.pcb EXCEPT ![p] = [d.pcb[p] EXCEPT !.cb = FALSE]]]
        BY <2>3
      <4> DEFINE x == [d.pcb[p] EXCEPT !.cb = FALSE]
                 f == [d EXCEPT !.pcb = [d.pcb EXCEPT ![p] = x]]
      <4>2. f.pcb = [d.pcb EXCEPT ![p] = x] /\ f.pcb[p] = x
        BY <2>1, <2>3
      <4>3. c = [x EXCEPT !.state = "FIN_WAIT"]
        BY <2>3 DEF Connection
      <4> HIDE DEF x, c
      <4>4. Closed(f, p) = [d EXCEPT !.pcb = [d.pcb EXCEPT ![p] = c]]
        BY <2>1, <2>3, <4>2, <4>3 DEF Closed
      <4>5. e = [d EXCEPT !.pcb = [d.pcb EXCEPT ![p] = c]]
        BY <2>3 DEF Placed
      <4> QED
        BY <4>1, <4>4, <4>5 DEF x
    <3> HIDE DEF e
    <3> QED
      BY <1>1, <3>1 DEF Disconnected, d
  <2> HIDE DEF c
  <2>6. ConnectionOK(c, p, d.mqtt)
    BY <2>2, <2>3, <2>4 DEF ConnectionOK, Held
  <2>7. WorldOK(e) /\ Spares(d, e, p) /\ e.pcb[p] = c /\ e.mqtt = d.mqtt
    BY <2>1, <2>2, <2>4, <2>6, PlacedFacts
  <2> HIDE DEF e
  <2>8. \A q \in Pcbs : ~Held(e.pcb[q])
    BY <2>1, <2>2, <2>4, <2>7 DEF Spares, Held
  <2>9. /\ WorldOK(NoPcb(e)) /\ NoPcb(e).pcb = e.pcb
        /\ NoPcb(e).mqtt \in Session /\ NoPcb(e).mqtt.pcb = 0 /\ NoPcb(e).mqtt.host = e.mqtt.host
    BY <2>7, <2>8, NoPcbFacts
  <2>10. Tame(w, NoPcb(e))
    BY <2>1, <2>2, <2>4, <2>7, <2>9 DEF Tame, Spares
  <2> QED
    BY <2>5, <2>8, <2>9, <2>10
<1>2. CASE ~(w.mqtt.state = "ONLINE" /\ Owned(w))
  <2>1. Disconnected(w) = DropPcb(w)
    BY <1>2 DEF Disconnected
  <2> QED
    BY <2>1, DropFacts
<1> QED
  BY <1>1, <1>2

-----------------------------------------------------------------------------
(* How a step keeps the invariant. *)

LEMMA NowFacts ==
  /\ Now.pcb = pcb /\ Now.used = used /\ Now.mqtt = mqtt
  /\ \A w : WorldOK(w) /\ Becomes(w) => WorldOK(Now)'
<1>1. Now.pcb = pcb /\ Now.used = used /\ Now.mqtt = mqtt
  BY DEF Now
<1>2. ASSUME NEW w, WorldOK(w), Becomes(w) PROVE WorldOK(Now)'
  <2>1. w = [pcb |-> w.pcb, used |-> w.used, mqtt |-> w.mqtt]
    BY <1>2, WorldFacts
  <2>2. Now' = w
    BY <1>2, <2>1 DEF Becomes, Now
  <2> QED
    BY <1>2, <2>2 DEF WorldOK
<1> QED
  BY <1>1, <1>2

LEMMA Advance ==
  ASSUME NEW w, WorldOK(w), Becomes(w),
         listener' \in Pcbs \cup {0}, slot' \in [ReqSlots -> RequestSlot],
         \A q \in Pcbs : w.pcb[q].state = "LISTEN" <=> listener' = q,
         \A q \in Pcbs : RequestOK(w.pcb[q], q, slot')
  PROVE  IInv'
<1>1. WorldOK(Now)' /\ pcb' = w.pcb
  BY NowFacts DEF Becomes
<1>2. HttpOK'
  BY <1>1 DEF HttpOK
<1> QED
  BY <1>1, <1>2 DEF IInv

(* The invariant, as the handlers meet it. *)
LEMMA IInvFacts ==
  ASSUME IInv
  PROVE  /\ WorldOK(Now) /\ pcb \in [Pcbs -> Connection] /\ used \in Nat /\ mqtt \in Session
         /\ listener \in Pcbs \cup {0} /\ slot \in [ReqSlots -> RequestSlot]
         /\ \A p \in Pcbs : /\ pcb[p] \in Connection /\ ConnectionOK(pcb[p], p, mqtt)
                            /\ pcb[p].state = "LISTEN" <=> listener = p
                            /\ RequestOK(pcb[p], p, slot)
<1>1. WorldOK(Now) /\ HttpOK
  BY DEF IInv
<1>2. pcb \in [Pcbs -> Connection] /\ used \in Nat /\ mqtt \in Session
  BY <1>1, NowFacts, WorldFacts
<1>3. \A p \in Pcbs : ConnectionOK(pcb[p], p, mqtt)
  BY <1>1, NowFacts DEF WorldOK
<1> QED
  BY <1>1, <1>2, <1>3 DEF HttpOK

(* A step of the MQTT client. *)
LEMMA TameStep ==
  ASSUME IInv, NEW w, WorldOK(w), Becomes(w), UNCHANGED http,
         \A q \in Pcbs : w.pcb[q] = pcb[q] \/ (pcb[q].user # "http" /\ w.pcb[q].user # "http")
  PROVE  IInv'
<1>1. listener' \in Pcbs \cup {0} /\ slot' \in [ReqSlots -> RequestSlot] /\ listener' = listener /\ slot' = slot
  BY IInvFacts DEF http
<1>2. ASSUME NEW q \in Pcbs
      PROVE  (w.pcb[q].state = "LISTEN" <=> listener' = q) /\ RequestOK(w.pcb[q], q, slot')
  <2>1. ConnectionOK(pcb[q], q, mqtt) /\ ConnectionOK(w.pcb[q], q, w.mqtt)
    BY IInvFacts DEF WorldOK
  <2>2. (pcb[q].state = "LISTEN" <=> listener = q) /\ RequestOK(pcb[q], q, slot)
    BY IInvFacts
  <2>3. CASE w.pcb[q] = pcb[q]
    BY <1>1, <2>2, <2>3
  <2>4. CASE pcb[q].user # "http" /\ w.pcb[q].user # "http"
    BY <1>1, <2>1, <2>2, <2>4 DEF ConnectionOK, RequestOK
  <2> QED
    BY <2>3, <2>4
<1> QED
  BY <1>1, <1>2, Advance

(* A step of one connection that is no listener. *)
LEMMA OneStep ==
  ASSUME IInv, NEW w, WorldOK(w), Becomes(w), UNCHANGED http,
         NEW p \in Pcbs, Spares(Now, w, p),
         pcb[p].state # "LISTEN", w.pcb[p].state # "LISTEN", RequestOK(w.pcb[p], p, slot)
  PROVE  IInv'
<1>1. listener' \in Pcbs \cup {0} /\ slot' \in [ReqSlots -> RequestSlot] /\ listener' = listener /\ slot' = slot
  BY IInvFacts DEF http
<1>2. ASSUME NEW q \in Pcbs
      PROVE  (w.pcb[q].state = "LISTEN" <=> listener' = q) /\ RequestOK(w.pcb[q], q, slot')
  <2>1. (pcb[q].state = "LISTEN" <=> listener = q) /\ RequestOK(pcb[q], q, slot)
    BY IInvFacts
  <2>2. q # p => w.pcb[q] = pcb[q]
    BY NowFacts DEF Spares
  <2> QED
    BY <1>1, <2>1, <2>2
<1> QED
  BY <1>1, <1>2, Advance

(* Request slots of other connections than p keep what they have. *)
LEMMA KeptFacts ==
  ASSUME NEW c, NEW q, NEW s, NEW t, RequestOK(c, q, s),
         \A i \in ReqSlots : s[i].pcb = q \/ t[i].pcb = q => t[i] = s[i]
  PROVE  RequestOK(c, q, t)
  BY DEF RequestOK

LEMMA RequestSlotFacts ==
  /\ EmptySlot \in RequestSlot /\ EmptySlot.pcb = 0 /\ EmptySlot.buf = <<>>
  /\ EmptySlot.foreign = FALSE
<1>1. <<>> \in Seq(Nat)
  BY EmptySeq
<1> QED
  BY <1>1 DEF EmptySlot, RequestSlot

LEMMA AgedFacts ==
  ASSUME NEW s \in [ReqSlots -> RequestSlot], NEW p \in Pcbs
  PROVE  /\ Aged(s, p) \in [ReqSlots -> RequestSlot]
         /\ \A i \in ReqSlots : Aged(s, p)[i].pcb = s[i].pcb /\ (s[i].pcb # p => Aged(s, p)[i] = s[i])
<1>1. ASSUME NEW i \in ReqSlots
      PROVE  /\ Aged(s, p)[i] \in RequestSlot /\ Aged(s, p)[i].pcb = s[i].pcb
             /\ s[i].pcb # p => Aged(s, p)[i] = s[i]
  <2>1. s[i] \in RequestSlot
    OBVIOUS
  <2>2. Aged(s, p)[i] = IF s[i].pcb = p THEN [s[i] EXCEPT !.foreign = TRUE] ELSE s[i]
    BY DEF Aged
  <2>3. s[i].pcb = p => [s[i] EXCEPT !.foreign = TRUE] \in RequestSlot
    BY <2>1, Numbers DEF RequestSlot
  <2> QED
    BY <2>1, <2>2, <2>3 DEF RequestSlot
<1>2. Aged(s, p) = [i \in ReqSlots |-> Aged(s, p)[i]]
  BY DEF Aged
<1> QED
  BY <1>1, <1>2

LEMMA WithoutFacts ==
  ASSUME NEW s \in [ReqSlots -> RequestSlot], NEW p \in Pcbs
  PROVE  /\ Without(s, p) \in [ReqSlots -> RequestSlot]
         /\ \A i \in ReqSlots : /\ s[i].pcb # p => Without(s, p)[i] = s[i]
                                /\ s[i].pcb = p => Without(s, p)[i].pcb = 0
                                /\ Without(s, p)[i].pcb # p
  BY RequestSlotFacts, Numbers DEF Without

(* A new connection in slot p, whose bytes no request slot has yet.           *)
LEMMA EnterStep ==
  ASSUME IInv, NEW w, WorldOK(w), Becomes(w), NEW p \in Pcbs, Spares(Now, w, p),
         pcb[p].state # "LISTEN", w.pcb[p].state # "ESTABLISHED", slot' = Aged(slot, p),
         listener' \in Pcbs \cup {0},
         w.pcb[p].state = "LISTEN" <=> listener' = p,
         \A q \in Pcbs : q # p => (listener' = q <=> listener = q)
  PROVE  IInv'
<1>1. /\ slot' \in [ReqSlots -> RequestSlot]
      /\ \A i \in ReqSlots : slot'[i].pcb = slot[i].pcb /\ (slot[i].pcb # p => slot'[i] = slot[i])
  BY IInvFacts, AgedFacts
<1>2. ASSUME NEW q \in Pcbs
      PROVE  (w.pcb[q].state = "LISTEN" <=> listener' = q) /\ RequestOK(w.pcb[q], q, slot')
  <2>1. CASE q = p
    BY <2>1 DEF RequestOK
  <2>2. CASE q # p
    <3>1. w.pcb[q] = pcb[q]
      BY <2>2, NowFacts DEF Spares
    <3>2. (pcb[q].state = "LISTEN" <=> listener = q) /\ RequestOK(pcb[q], q, slot)
      BY IInvFacts
    <3>3. RequestOK(pcb[q], q, slot')
      BY <1>1, <2>2, <3>2, KeptFacts
    <3> QED
      BY <2>2, <3>1, <3>2, <3>3
  <2> QED
    BY <2>1, <2>2
<1> QED
  BY <1>1, <1>2, Advance

LEMMA SynReceivedFacts ==
  ASSUME NEW client \in Clients
  PROVE  LET c == SynReceived(client)
         IN /\ c \in Connection /\ c.buf = 0 /\ c.state = "SYN_RECEIVED"
            /\ \A p, m : ConnectionOK(c, p, m)
<1> DEFINE c == SynReceived(client)
<1>1. /\ c.state = "SYN_RECEIVED" /\ c.user = "http" /\ c.port = HttpPort /\ c.buf = 0
      /\ c.cb = FALSE /\ c.never = FALSE /\ c.req = NoRequest
  BY DEF SynReceived, Unused
<1>2. c \in Connection
  BY UnusedFacts DEF SynReceived, Connection, Connected
<1>3. NoRequest.applied = 0
  BY DEF NoRequest
<1> HIDE DEF c
<1>4. \A p, m : ConnectionOK(c, p, m)
  BY <1>1, <1>3 DEF ConnectionOK, Held
<1> QED
  BY <1>1, <1>2, <1>4 DEF c

LEMMA RxSynStep == ASSUME IInv, NEW client \in Clients, RxSyn(client) PROVE IInv'
<1> DEFINE c == SynReceived(client)
<1>1. WorldOK(Now) /\ listener \in Pcbs \cup {0} /\ \A p \in Pcbs : pcb[p].state = "LISTEN" <=> listener = p
  BY IInvFacts
<1>2. c \in Connection /\ c.buf = 0 /\ c.state = "SYN_RECEIVED" /\ \A p, m : ConnectionOK(c, p, m)
  BY SynReceivedFacts
<1> HIDE DEF c
<1>3. PICK p \in Pcbs :
        /\ \/ \E r \in New(Now) : r.p = p /\ Becomes(Placed(r.w, p, c))
           \/ pcb[p].state = "TIME_WAIT" /\ Becomes(Placed(Freed(Now, p, TRUE), p, c))
        /\ slot' = Aged(slot, p) /\ listener' = listener
  BY DEF RxSyn, c
<1>4. ASSUME NEW v, WorldOK(v), Spares(Now, v, p), v.pcb[p] = Unused, pcb[p].state # "LISTEN",
             Becomes(Placed(v, p, c))
      PROVE  IInv'
  <2> DEFINE w == Placed(v, p, c)
  <2>1. WorldOK(w) /\ Spares(v, w, p) /\ w.pcb[p] = c
    BY <1>2, <1>4, PlacedFacts, UnusedFacts
  <2> HIDE DEF w
  <2>2. Spares(Now, w, p)
    BY <1>4, <2>1 DEF Spares
  <2>3. Becomes(w)
    BY <1>4 DEF w
  <2> QED
    BY <1>1, <1>2, <1>3, <1>4, <2>1, <2>2, <2>3, EnterStep
<1>5. CASE \E r \in New(Now) : r.p = p /\ Becomes(Placed(r.w, p, c))
  <2>1. PICK r \in New(Now) : r.p = p /\ Becomes(Placed(r.w, p, c))
    BY <1>5
  <2>2. WorldOK(r.w) /\ Spares(Now, r.w, p) /\ r.w.pcb[p] = Unused /\ pcb[p].state # "LISTEN"
    BY <1>1, <2>1, NewFacts, NowFacts, Numbers
  <2> QED
    BY <1>4, <2>1, <2>2
<1>6. CASE pcb[p].state = "TIME_WAIT" /\ Becomes(Placed(Freed(Now, p, TRUE), p, c))
  <2> DEFINE v == Freed(Now, p, TRUE)
  <2>1. WorldOK(v) /\ Spares(Now, v, p) /\ v.pcb[p] = Unused
    BY <1>1, FreedFacts
  <2>2. pcb[p].state # "LISTEN" /\ Becomes(Placed(v, p, c))
    BY <1>6
  <2> HIDE DEF v
  <2> QED
    BY <1>4, <2>1, <2>2
<1> QED
  BY <1>3, <1>5, <1>6

LEMMA AcceptedFacts ==
  ASSUME NEW c \in Connection, NEW p, NEW m, ConnectionOK(c, p, m), c.state = "SYN_RECEIVED",
         NEW r \in Requests
  PROVE  LET d == Accepted(c, r)
         IN /\ d \in Connection /\ d.buf = c.buf /\ d.state = "ESTABLISHED" /\ d.user = "http"
            /\ d.req.taken = 0 /\ d.req.applied = 0 /\ ConnectionOK(d, p, m)
<1> DEFINE d == Accepted(c, r)
<1>1. c.user = "http" /\ c.req = NoRequest /\ c.port = HttpPort /\ c.never = FALSE
  <2>1. c.never \in BOOLEAN /\ c.user = "http" /\ c.req = NoRequest /\ c.port = HttpPort /\ ~c.never
    BY DEF Connection, ConnectionOK
  <2> QED
    BY <2>1
<1>2. r.kind \in {"get", "post"} /\ r.parts \in Nat /\ r.parts > 0
  BY RequestAssumption
<1>3. /\ d.state = "ESTABLISHED" /\ d.user = c.user /\ d.port = c.port /\ d.never = c.never
      /\ d.buf = c.buf /\ d.req = [c.req EXCEPT !.kind = r.kind, !.parts = r.parts]
  BY DEF Accepted, Connection
<1>4. d.req.taken = 0 /\ d.req.applied = 0 /\ d.req.parts = r.parts
  BY <1>1, <1>3 DEF NoRequest
<1>5. d \in Connection
  BY <1>2 DEF Accepted, Connection, Connected
<1> HIDE DEF d
<1>6. ConnectionOK(d, p, m)
  BY <1>1, <1>2, <1>3, <1>4 DEF ConnectionOK, Held
<1> QED
  BY <1>1, <1>3, <1>4, <1>5, <1>6 DEF d

(* A state that is set in place. *)
LEMMA StateFacts ==
  ASSUME NEW w, WorldOK(w), NEW p \in Pcbs, NEW s \in Connected, s # "SYN_RECEIVED", s # "SYN_SENT",
         LET c == w.pcb[p] IN
           /\ c.state # "UNUSED"
           /\ c.user = "http" => c.state # "ESTABLISHED" /\ s \notin {"ESTABLISHED", "FIN_WAIT"}
           /\ c.user = "mqtt" /\ s = "ESTABLISHED" => c.cb
  PROVE  LET v == [w EXCEPT !.pcb[p].state = s]
         IN /\ WorldOK(v) /\ Spares(w, v, p) /\ v.mqtt = w.mqtt
            /\ v.pcb[p].state = s /\ v.pcb[p].user = w.pcb[p].user /\ v.pcb[p].req = w.pcb[p].req
<1> DEFINE c == w.pcb[p]
           d == [c EXCEPT !.state = s]
           v == [w EXCEPT !.pcb[p].state = s]
<1>1. /\ w = [pcb |-> w.pcb, used |-> w.used, mqtt |-> w.mqtt]
      /\ w.pcb \in [Pcbs -> Connection] /\ c \in Connection /\ ConnectionOK(c, p, w.mqtt)
  BY WorldFacts DEF WorldOK
<1>2. d \in Connection
  BY <1>1 DEF Connection
<1>3. /\ d.state = s /\ d.user = c.user /\ d.cb = c.cb /\ d.never = c.never /\ d.port = c.port
      /\ d.remote = c.remote /\ d.buf = c.buf /\ d.req = c.req
  BY <1>1 DEF Connection
<1>4. c.user # "none"
  BY <1>1, UnusedFacts DEF ConnectionOK
<1>5. s # "UNUSED" /\ s # "LISTEN"
  BY DEF Connected
<1>6. v = Placed(w, p, d)
  BY <1>1 DEF Placed
<1> HIDE DEF c, d
<1>7. ConnectionOK(d, p, w.mqtt)
  BY <1>1, <1>3, <1>4, <1>5 DEF ConnectionOK, Held, c
<1>8. /\ WorldOK(Placed(w, p, d)) /\ Spares(w, Placed(w, p, d), p)
      /\ Placed(w, p, d).pcb[p] = d /\ Placed(w, p, d).mqtt = w.mqtt
  BY <1>2, <1>3, <1>7, PlacedFacts DEF c
<1> QED
  BY <1>3, <1>6, <1>8 DEF c

LEMMA RxHandshakeStep == ASSUME IInv, NEW p \in Pcbs, RxHandshake(p) PROVE IInv'
<1>1. /\ WorldOK(Now) /\ pcb[p] \in Connection /\ ConnectionOK(pcb[p], p, mqtt)
      /\ listener \in Pcbs \cup {0} /\ slot \in [ReqSlots -> RequestSlot]
      /\ \A q \in Pcbs : /\ pcb[q].state = "LISTEN" <=> listener = q
                         /\ RequestOK(pcb[q], q, slot)
  BY IInvFacts
<1>2. CASE /\ pcb[p].state = "SYN_RECEIVED"
           /\ \E r \in Requests : Becomes(Placed(Now, p, Accepted(pcb[p], r)))
           /\ slot' = SlotsAfterAccept(p) /\ listener' = listener
  <2>1. PICK r \in Requests : Becomes(Placed(Now, p, Accepted(pcb[p], r)))
    BY <1>2
  <2> DEFINE d == Accepted(pcb[p], r)
             w == Placed(Now, p, d)
  <2>2. /\ d \in Connection /\ d.buf = pcb[p].buf /\ d.state = "ESTABLISHED" /\ d.req.taken = 0
        /\ d.req.applied = 0 /\ ConnectionOK(d, p, mqtt)
    BY <1>1, <1>2, AcceptedFacts
  <2>3. Becomes(w)
    BY <2>1
  <2> HIDE DEF d
  <2>4. WorldOK(w) /\ Spares(Now, w, p) /\ w.pcb[p] = d
    BY <1>1, <2>2, NowFacts, PlacedFacts
  <2> HIDE DEF w
  <2>5. slot' = Without(slot, p)
    BY <1>2 DEF SlotsAfterAccept
  <2>6. /\ slot' \in [ReqSlots -> RequestSlot]
        /\ \A i \in ReqSlots : /\ slot[i].pcb # p => slot'[i] = slot[i]
                               /\ slot[i].pcb = p => slot'[i].pcb = 0
                               /\ slot'[i].pcb # p
    BY <1>1, <2>5, WithoutFacts
  <2>7. ASSUME NEW q \in Pcbs
        PROVE  (w.pcb[q].state = "LISTEN" <=> listener' = q) /\ RequestOK(w.pcb[q], q, slot')
    <3>1. CASE q = p
      BY <1>1, <1>2, <2>2, <2>4, <2>6, <3>1 DEF RequestOK
    <3>2. CASE q # p
      <4>1. w.pcb[q] = pcb[q]
        BY <2>4, <3>2, NowFacts DEF Spares
      <4>2. RequestOK(pcb[q], q, slot')
        <5>1. \A i \in ReqSlots : slot[i].pcb = q \/ slot'[i].pcb = q => slot'[i] = slot[i]
          BY <2>6, <3>2, Numbers
        <5> QED
          BY <1>1, <5>1, KeptFacts
      <4> QED
        BY <1>1, <1>2, <4>1, <4>2
    <3> QED
      BY <3>1, <3>2
  <2> QED
    BY <1>1, <1>2, <2>3, <2>4, <2>6, <2>7, Advance
<1>3. CASE /\ pcb[p].state = "SYN_SENT"
           /\ Becomes([Now EXCEPT !.pcb[p].state = "ESTABLISHED"])
           /\ UNCHANGED http
  <2> DEFINE w == [Now EXCEPT !.pcb[p].state = "ESTABLISHED"]
  <2>1. pcb[p].user = "mqtt" /\ pcb[p].cb
    BY <1>1, <1>3 DEF ConnectionOK
  <2>2. "ESTABLISHED" \in Connected
    BY DEF Connected
  <2>3. WorldOK(w) /\ Spares(Now, w, p) /\ w.pcb[p].state = "ESTABLISHED" /\ w.pcb[p].user = "mqtt"
    BY <1>1, <1>3, <2>1, <2>2, NowFacts, StateFacts
  <2>4. Becomes(w)
    BY <1>3
  <2> HIDE DEF w
  <2>5. RequestOK(w.pcb[p], p, slot)
    BY <2>3 DEF RequestOK
  <2> QED
    BY <1>3, <2>3, <2>4, <2>5, OneStep
<1> QED
  BY <1>2, <1>3 DEF RxHandshake

LEMMA RequestSame ==
  ASSUME NEW c, NEW d, NEW p, NEW s, RequestOK(c, p, s),
         d.user = c.user, d.state = c.state, d.req = c.req
  PROVE  RequestOK(d, p, s)
  BY DEF RequestOK

(* A connection that ends, by whatever way. *)
LEMMA FreedStep ==
  ASSUME IInv, NEW p \in Pcbs, pcb[p].state # "LISTEN", NEW ok \in BOOLEAN,
         Becomes(Freed(Now, p, ok)), UNCHANGED http
  PROVE  IInv'
<1> DEFINE w == Freed(Now, p, ok)
<1>1. WorldOK(w) /\ Spares(Now, w, p) /\ w.pcb[p] = Unused
  BY IInvFacts, FreedFacts
<1>2. Becomes(w)
  OBVIOUS
<1> HIDE DEF w
<1>3. w.pcb[p].state # "LISTEN" /\ RequestOK(w.pcb[p], p, slot)
  BY <1>1, UnusedFacts DEF RequestOK
<1> QED
  BY <1>1, <1>2, <1>3, OneStep

LEMMA RxAckStep == ASSUME IInv, NEW p \in Pcbs, RxAck(p) PROVE IInv'
<1> DEFINE r == Released(Now, p)
<1>1. /\ WorldOK(Now) /\ pcb[p] \in Connection /\ ConnectionOK(pcb[p], p, mqtt) /\ RequestOK(pcb[p], p, slot)
  BY IInvFacts
<1>2. pcb[p].state \in Connected /\ pcb[p].state # "LISTEN" /\ UNCHANGED http
  BY DEF RxAck, Open, Connected
<1>3. WorldOK(r) /\ Spares(Now, r, p) /\ r.pcb[p] = [pcb[p] EXCEPT !.buf = 0]
  BY <1>1, NowFacts, ReleasedFacts
<1>4. r.pcb[p].state = pcb[p].state /\ r.pcb[p].user = pcb[p].user /\ r.pcb[p].req = pcb[p].req
  BY <1>1, <1>3 DEF Connection
<1>5. CASE Becomes(r)
  <2> HIDE DEF r
  <2>1. RequestOK(r.pcb[p], p, slot)
    BY <1>1, <1>4, RequestSame
  <2> QED
    BY <1>2, <1>3, <1>4, <1>5, <2>1, OneStep
<1>6. CASE pcb[p].state = "FIN_WAIT" /\ Becomes([r EXCEPT !.pcb[p].state = "TIME_WAIT"])
  <2> DEFINE w == [r EXCEPT !.pcb[p].state = "TIME_WAIT"]
  <2>1. "TIME_WAIT" \in Connected
    BY DEF Connected
  <2>a. WorldOK(r) /\ r.pcb[p].state = "FIN_WAIT"
    BY <1>3, <1>4, <1>6
  <2> HIDE DEF r
  <2>2. WorldOK(w) /\ Spares(r, w, p) /\ w.pcb[p].state = "TIME_WAIT"
    BY <2>1, <2>a, StateFacts
  <2>3. Becomes(w)
    BY <1>6
  <2> HIDE DEF w
  <2>4. Spares(Now, w, p) /\ RequestOK(w.pcb[p], p, slot)
    BY <1>3, <2>2 DEF Spares, RequestOK
  <2> QED
    BY <1>2, <2>2, <2>3, <2>4, OneStep
<1>7. CASE Becomes(Freed(Now, p, TRUE))
  BY <1>2, <1>7, FreedStep
<1> QED
  BY <1>5, <1>6, <1>7 DEF RxAck

LEMMA RxFinStep == ASSUME IInv, NEW p \in Pcbs, RxFin(p) PROVE IInv'
<1> DEFINE d == [pcb[p] EXCEPT !.state = "CLOSE_WAIT", !.req = NoRequest]
           w == Placed(Now, p, d)
<1>1. /\ WorldOK(Now) /\ pcb[p] \in Connection /\ ConnectionOK(pcb[p], p, mqtt)
      /\ pcb \in [Pcbs -> Connection]
  BY IInvFacts
<1>2. pcb[p].state = "ESTABLISHED" /\ UNCHANGED http
  BY DEF RxFin
<1>3. w = [Now EXCEPT !.pcb[p].state = "CLOSE_WAIT", !.pcb[p].req = NoRequest]
  <2>1. [pcb EXCEPT ![p].state = "CLOSE_WAIT", ![p].req = NoRequest] = [pcb EXCEPT ![p] = d]
    BY <1>1 DEF Connection
  <2> QED
    BY <2>1 DEF Placed, Now
<1>4. Becomes(w)
  BY <1>3 DEF RxFin
<1>5. /\ d.state = "CLOSE_WAIT" /\ d.user = pcb[p].user /\ d.cb = pcb[p].cb
      /\ d.never = pcb[p].never /\ d.port = pcb[p].port /\ d.remote = pcb[p].remote
      /\ d.buf = pcb[p].buf /\ d.req = NoRequest
  BY <1>1 DEF Connection
<1>6. d \in Connection
  <2>1. NoRequest \in [kind : {"get", "post"}, parts : Nat, taken : Nat, applied : Nat,
                       served : {"no", "once, whole", "wrong"}]
    BY DEF NoRequest
  <2> QED
    BY <1>1, <2>1 DEF Connection, Connected
<1> HIDE DEF d
<1>7. pcb[p].user # "none" /\ NoRequest.applied = 0
  BY <1>1, <1>2, UnusedFacts DEF ConnectionOK, NoRequest
<1>8. ConnectionOK(d, p, mqtt)
  BY <1>1, <1>5, <1>7 DEF ConnectionOK, Held
<1>9. WorldOK(w) /\ Spares(Now, w, p) /\ w.pcb[p] = d
  BY <1>1, <1>5, <1>6, <1>8, NowFacts, PlacedFacts
<1> HIDE DEF w
<1>10. RequestOK(w.pcb[p], p, slot)
  BY <1>5, <1>9 DEF RequestOK
<1> QED
  BY <1>2, <1>4, <1>5, <1>9, <1>10, OneStep

LEMMA RxRstStep == ASSUME IInv, NEW p \in Pcbs, RxRst(p) PROVE IInv'
  BY FreedStep DEF RxRst, Open, Connected

LEMMA TimesOutStep == ASSUME IInv, NEW p \in Pcbs, TimesOut(p) PROVE IInv'
<1> DEFINE ok == pcb[p].state = "TIME_WAIT"
<1>1. pcb[p].state # "LISTEN" /\ Becomes(Freed(Now, p, ok)) /\ UNCHANGED http /\ ok \in BOOLEAN
  BY DEF TimesOut, Open, Connected
<1> HIDE DEF ok
<1> QED
  BY <1>1, FreedStep

-----------------------------------------------------------------------------
(* The HTTP server's steps. *)

LEMMA UptoFacts ==
  ASSUME NEW n \in Nat
  PROVE  /\ Upto(n) \in Seq(Nat) /\ Append(Upto(n), n + 1) = Upto(n + 1)
         /\ Upto(0) = <<>> /\ (Upto(n) = <<>> => n = 0)
<1>1. ASSUME NEW k \in Nat PROVE Upto(k) \in Seq(Nat) /\ Len(Upto(k)) = k
  <2>1. Upto(k) \in [1 .. k -> Nat]
    BY DEF Upto
  <2> QED
    BY <2>1
<1>2. \A k \in Nat : \A i \in 1 .. k : Upto(k)[i] = i
  BY DEF Upto
<1> DEFINE s == Append(Upto(n), n + 1)
<1>3. /\ s \in Seq(Nat) /\ Len(s) = n + 1 /\ s[n + 1] = n + 1
      /\ \A i \in 1 .. n : s[i] = Upto(n)[i]
  <2>1. Upto(n) \in Seq(Nat) /\ Len(Upto(n)) = n /\ n + 1 \in Nat
    BY <1>1
  <2> DEFINE u == Upto(n)
  <2> HIDE DEF u
  <2>2. /\ Append(u, n + 1) \in Seq(Nat) /\ Len(Append(u, n + 1)) = Len(u) + 1
        /\ Append(u, n + 1)[Len(u) + 1] = n + 1
        /\ \A i \in 1 .. Len(u) : Append(u, n + 1)[i] = u[i]
    BY <2>1, AppendProperties DEF u
  <2> QED
    BY <2>1, <2>2 DEF u
<1>4. n + 1 \in Nat
  OBVIOUS
<1>5. Upto(n + 1) \in Seq(Nat) /\ Len(Upto(n + 1)) = n + 1
  BY <1>1, <1>4
<1> HIDE DEF s
<1>6. \A i \in 1 .. n + 1 : s[i] = Upto(n + 1)[i]
  <2> SUFFICES ASSUME NEW i \in 1 .. n + 1 PROVE s[i] = i
    BY <1>2, <1>4
  <2>1. CASE i \in 1 .. n
    BY <1>2, <1>3, <2>1
  <2>2. CASE i = n + 1
    BY <1>3, <2>2
  <2> QED
    BY <2>1, <2>2
<1>7. s = Upto(n + 1)
  BY <1>3, <1>5, <1>6, SeqEqual
<1>8. Len(<<>>) = 0 /\ <<>> \in Seq(Nat)
  BY EmptySeq
<1>9. Upto(0) = <<>>
  BY <1>1, EmptySeq
<1> QED
  BY <1>1, <1>7, <1>8, <1>9 DEF s

(* http_req_slot_get gives the connection's own slot or a free one; the slots *)
(* of other connections that wait for their request stay as they are.         *)
LEMMA GetFacts ==
  ASSUME IInv, NEW p \in Pcbs, Receives(p)
  PROVE  LET i == Least(Gettable(p))
         IN /\ i \in ReqSlots /\ Swept(p) \in [ReqSlots -> RequestSlot]
            /\ Swept(p)[i].pcb \in {p, 0} /\ Swept(p)[i].foreign = FALSE
            /\ Swept(p)[i].buf = Upto(pcb[p].req.taken)
            /\ \A j \in ReqSlots : j # i => Swept(p)[j].pcb # p
            /\ \A q \in Pcbs : q # p /\ pcb[q].state = "ESTABLISHED" =>
                 \A j \in ReqSlots :
                   /\ slot[j].pcb = q \/ Swept(p)[j].pcb = q => Swept(p)[j] = slot[j]
                   /\ slot[j].pcb = q => j # i
<1> DEFINE i == Least(Gettable(p))
<1>1. /\ slot \in [ReqSlots -> RequestSlot] /\ RequestOK(pcb[p], p, slot)
      /\ pcb[p].state = "ESTABLISHED" /\ pcb[p].user = "http" /\ Gettable(p) # {}
      /\ pcb[p].req.taken \in Nat
  BY IInvFacts, ConnectionFacts DEF Receives
<1>2. i \in Gettable(p)
  <2>1. Gettable(p) \in SUBSET Nat
    BY Numbers DEF Gettable, Own
  <2> QED
    BY <1>1, <2>1, LeastFacts
<1> HIDE DEF i
<1>3. i \in ReqSlots
  BY <1>2 DEF Gettable, Own
<1>4. ASSUME NEW j \in ReqSlots
      PROVE  /\ slot[j] \in RequestSlot
             /\ Swept(p)[j] \in {slot[j], EmptySlot}
             /\ ~Dead(slot[j]) => Swept(p)[j] = slot[j]
             /\ Swept(p)[j] = EmptySlot \/ Swept(p)[j] = slot[j]
  BY <1>1 DEF Swept
<1>5. Swept(p) \in [ReqSlots -> RequestSlot]
  <2>1. \A j \in ReqSlots : Swept(p)[j] \in RequestSlot
    BY <1>4, RequestSlotFacts
  <2>2. Swept(p) = [j \in ReqSlots |-> Swept(p)[j]]
    BY DEF Swept
  <2> QED
    BY <2>1, <2>2
<1>6. \A j \in ReqSlots : \A q \in Pcbs :
        slot[j].pcb = q /\ pcb[q].state = "ESTABLISHED" => ~Dead(slot[j])
  BY Numbers DEF Dead
<1>7. \A j \in ReqSlots : Swept(p)[j].pcb = p => slot[j].pcb = p
  BY <1>4, RequestSlotFacts, Numbers
<1>8. CASE Own(p) # {}
  <2>1. slot[i].pcb = p /\ Swept(p)[i] = slot[i]
    BY <1>1, <1>2, <1>3, <1>4, <1>6, <1>8 DEF Gettable, Own
  <2>2. slot[i].foreign \in BOOLEAN
    BY <1>3, <1>4 DEF RequestSlot
  <2>3. slot[i].foreign = FALSE /\ slot[i].buf = Upto(pcb[p].req.taken)
    BY <1>1, <1>3, <2>1, <2>2 DEF RequestOK
  <2>4. \A j \in ReqSlots : j # i => Swept(p)[j].pcb # p
    BY <1>1, <1>3, <1>7, <2>1 DEF RequestOK
  <2>5. ASSUME NEW q \in Pcbs, q # p, pcb[q].state = "ESTABLISHED", NEW j \in ReqSlots
        PROVE  /\ slot[j].pcb = q \/ Swept(p)[j].pcb = q => Swept(p)[j] = slot[j]
               /\ slot[j].pcb = q => j # i
    BY <1>4, <1>6, <2>1, <2>5, RequestSlotFacts, Numbers
  <2> QED
    BY <1>3, <1>5, <2>1, <2>3, <2>4, <2>5 DEF i
<1>9. CASE Own(p) = {}
  <2>1. Swept(p)[i].pcb = 0
    BY <1>2, <1>9 DEF Gettable
  <2>2. Swept(p)[i] = EmptySlot
    BY <1>3, <1>5, <2>1 DEF RequestSlot
  <2>3. pcb[p].req.taken = 0 /\ \A j \in ReqSlots : slot[j].pcb # p
    BY <1>1, <1>9 DEF RequestOK, Own
  <2>4. Swept(p)[i].buf = Upto(pcb[p].req.taken) /\ Swept(p)[i].foreign = FALSE
    BY <1>1, <2>2, <2>3, UptoFacts, RequestSlotFacts
  <2>5. ASSUME NEW q \in Pcbs, q # p, pcb[q].state = "ESTABLISHED", NEW j \in ReqSlots
        PROVE  /\ slot[j].pcb = q \/ Swept(p)[j].pcb = q => Swept(p)[j] = slot[j]
               /\ slot[j].pcb = q => j # i
    BY <1>4, <1>6, <2>1, <2>5, RequestSlotFacts, Numbers
  <2> QED
    BY <1>3, <1>5, <1>7, <2>1, <2>3, <2>4, <2>5 DEF i
<1> QED
  BY <1>8, <1>9

(* A segment kept in request slot i, with what was there before. *)
LEMMA FilledFacts ==
  ASSUME IInv, NEW p \in Pcbs, Receives(p)
  PROVE  LET f == Filled(p, Least(Gettable(p)))
         IN /\ f \in RequestSlot /\ f.pcb = p /\ f.foreign = FALSE
            /\ f.buf = Upto(pcb[p].req.taken + 1)
<1> DEFINE i == Least(Gettable(p))
           old == Swept(p)[i]
           n == pcb[p].req.taken
<1>1. old \in RequestSlot /\ old.foreign = FALSE /\ old.buf = Upto(n)
  BY ZenonT(30), GetFacts
<1>2. n \in Nat
  BY IInvFacts, ConnectionFacts
<1>3. Filled(p, i) = [old EXCEPT !.pcb = p, !.buf = Append(old.buf, n + 1)]
  BY <1>1 DEF Filled, RequestSlot
<1> HIDE DEF old, n
<1>4. Append(old.buf, n + 1) = Upto(n + 1) /\ Upto(n + 1) \in Seq(Nat)
  <2>1. Append(Upto(n), n + 1) = Upto(n + 1)
    BY <1>2, UptoFacts
  <2>2. n + 1 \in Nat
    BY <1>2
  <2>3. Upto(n + 1) \in Seq(Nat)
    BY <2>2, UptoFacts
  <2> QED
    BY <1>1, <2>1, <2>3, Zenon
<1>5. /\ Filled(p, i).pcb = p /\ Filled(p, i).buf = Upto(n + 1) /\ Filled(p, i).foreign = FALSE
      /\ Filled(p, i) \in [pcb : Pcbs \cup {0}, buf : Seq(Nat), foreign : BOOLEAN]
  BY <1>1, <1>3, <1>4 DEF RequestSlot
<1>6. Filled(p, i) \in RequestSlot
  BY <1>5, Numbers DEF RequestSlot
<1> QED
  BY <1>5, <1>6 DEF n

LEMMA RxPartStep == ASSUME IInv, NEW p \in Pcbs, RxPart(p) PROVE IInv'
<1> DEFINE i == Least(Gettable(p))
           f == Filled(p, i)
           n == pcb[p].req.taken
           r == [pcb[p].req EXCEPT !.taken = n + 1]
           c == [pcb[p] EXCEPT !.req = r]
           w == Placed(Now, p, c)
           t == [Swept(p) EXCEPT ![i] = f]
<1>1. /\ WorldOK(Now) /\ pcb[p] \in Connection /\ ConnectionOK(pcb[p], p, mqtt)
      /\ pcb \in [Pcbs -> Connection] /\ listener \in Pcbs \cup {0}
      /\ \A q \in Pcbs : (pcb[q].state = "LISTEN" <=> listener = q) /\ RequestOK(pcb[q], q, slot)
  BY IInvFacts
<1>2. Receives(p) /\ n + 1 < pcb[p].req.parts /\ slot' = t /\ listener' = listener
  BY DEF RxPart
<1>3. Becomes(w)
  <2>1. w = [Now EXCEPT !.pcb[p].req.taken = @ + 1]
    BY <1>1 DEF Placed, Now
  <2> QED
    BY <2>1 DEF RxPart
<1>4. n \in Nat /\ pcb[p].req.parts \in Nat
  BY <1>1, ConnectionFacts
<1>5. /\ r.taken = n + 1 /\ r.parts = pcb[p].req.parts /\ r.applied = pcb[p].req.applied
      /\ r \in [kind : {"get", "post"}, parts : Nat, taken : Nat, applied : Nat,
                served : {"no", "once, whole", "wrong"}]
  <2>1. n + 1 \in Nat
    BY <1>4
  <2> HIDE DEF n
  <2> QED
    BY <1>1, <2>1 DEF Connection
<1>6. /\ c.req = r /\ c.state = pcb[p].state /\ c.user = pcb[p].user /\ c.cb = pcb[p].cb
      /\ c.never = pcb[p].never /\ c.port = pcb[p].port /\ c.remote = pcb[p].remote
      /\ c.buf = pcb[p].buf
  BY <1>1 DEF Connection
<1>7. c \in Connection
  BY <1>1, <1>5 DEF Connection
<1>8. pcb[p].state = "ESTABLISHED" /\ pcb[p].user = "http"
  BY <1>2 DEF Receives
<1>9. /\ i \in ReqSlots /\ Swept(p) \in [ReqSlots -> RequestSlot]
      /\ \A j \in ReqSlots : j # i => Swept(p)[j].pcb # p
      /\ \A q \in Pcbs : q # p /\ pcb[q].state = "ESTABLISHED" =>
           \A j \in ReqSlots :
             /\ slot[j].pcb = q \/ Swept(p)[j].pcb = q => Swept(p)[j] = slot[j]
             /\ slot[j].pcb = q => j # i
  BY <1>2, GetFacts
<1>10. f \in RequestSlot /\ f.pcb = p /\ f.foreign = FALSE /\ f.buf = Upto(n + 1)
  BY <1>2, FilledFacts
<1> HIDE DEF i, f, n, r, c
<1>11. ConnectionOK(c, p, mqtt)
  BY <1>1, <1>2, <1>4, <1>5, <1>6, <1>8 DEF ConnectionOK, Held
<1>12. WorldOK(w) /\ Spares(Now, w, p) /\ w.pcb[p] = c
  BY <1>1, <1>6, <1>7, <1>11, NowFacts, PlacedFacts
<1> HIDE DEF w
<1>13. t \in [ReqSlots -> RequestSlot] /\ t[i] = f /\ \A j \in ReqSlots : j # i => t[j] = Swept(p)[j]
  BY <1>9, <1>10
<1> HIDE DEF t
<1>14. ASSUME NEW q \in Pcbs
       PROVE  (w.pcb[q].state = "LISTEN" <=> listener' = q) /\ RequestOK(w.pcb[q], q, slot')
  <2>1. CASE q = p
    <3>1. w.pcb[q].state = "LISTEN" <=> listener' = q
      BY <1>1, <1>2, <1>6, <1>8, <1>12, <2>1
    <3>2. pcb[p].req.applied = 0
      BY <1>1, <1>8 DEF RequestOK
    <3>3. RequestOK(c, p, t)
      <4>1. \A j \in ReqSlots : t[j].pcb = p => j = i
        BY <1>9, <1>13
      <4>2. t[i].pcb = p /\ ~t[i].foreign /\ t[i].buf = Upto(c.req.taken)
        BY <1>5, <1>6, <1>10, <1>13
      <4>3. c.req.applied = 0
        BY <1>5, <1>6, <3>2
      <4> QED
        BY <1>9, <4>1, <4>2, <4>3 DEF RequestOK
    <3> QED
      BY <1>2, <1>12, <2>1, <3>1, <3>3
  <2>2. CASE q # p
    <3>1. w.pcb[q] = pcb[q]
      BY <1>12, <2>2, NowFacts DEF Spares
    <3>2. CASE pcb[q].state = "ESTABLISHED"
      <4>1. \A j \in ReqSlots : slot[j].pcb = q \/ t[j].pcb = q => t[j] = slot[j]
        BY <1>9, <1>10, <1>13, <2>2, <3>2
      <4>2. RequestOK(pcb[q], q, t)
        BY <1>1, <4>1, KeptFacts
      <4> QED
        BY <1>1, <1>2, <3>1, <4>2
    <3>3. CASE pcb[q].state # "ESTABLISHED"
      BY <1>1, <1>2, <3>1, <3>3 DEF RequestOK
    <3> QED
      BY <3>2, <3>3
  <2> QED
    BY <2>1, <2>2
<1> QED
  BY <1>1, <1>2, <1>3, <1>12, <1>13, <1>14, Advance

(* http_process_request: the connection itself is only counted at. *)
LEMMA ProcessedFacts ==
  ASSUME IInv, NEW p \in Pcbs, pcb[p].state = "ESTABLISHED", pcb[p].user = "http",
         NEW w \in Processed(p)
  PROVE  /\ WorldOK(w) /\ Spares(Now, w, p)
         /\ w.pcb[p].state = "ESTABLISHED" /\ w.pcb[p].user = "http"
         /\ w.pcb[p].req.parts = pcb[p].req.parts /\ w.pcb[p].req.applied <= 1
         /\ pcb[p].req.kind = "get" => w = Now
<1>1. /\ WorldOK(Now) /\ pcb[p] \in Connection /\ ConnectionOK(pcb[p], p, mqtt)
      /\ pcb \in [Pcbs -> Connection] /\ RequestOK(pcb[p], p, slot) /\ mqtt \in Session
  BY IInvFacts
<1>2. pcb[p].req.applied = 0
  BY <1>1 DEF RequestOK
<1>3. CASE pcb[p].req.kind = "get"
  <2>1. w = Now
    BY <1>3 DEF Processed
  <2> QED
    BY <1>1, <1>2, <2>1, NowFacts DEF Spares
<1>4. CASE pcb[p].req.kind # "get"
  <2> DEFINE r == [pcb[p].req EXCEPT !.applied = 1]
             c == [pcb[p] EXCEPT !.req = r]
             v == Placed(Now, p, c)
  <2>1. v = [Now EXCEPT !.pcb[p].req.applied = @ + 1]
    BY <1>1, <1>2 DEF Placed, Now
  <2>2. /\ r.taken = pcb[p].req.taken /\ r.parts = pcb[p].req.parts /\ r.applied = 1
        /\ r \in [kind : {"get", "post"}, parts : Nat, taken : Nat, applied : Nat,
                  served : {"no", "once, whole", "wrong"}]
    BY <1>1 DEF Connection
  <2>3. /\ c.req = r /\ c.state = pcb[p].state /\ c.user = pcb[p].user /\ c.cb = pcb[p].cb
        /\ c.never = pcb[p].never /\ c.port = pcb[p].port /\ c.remote = pcb[p].remote
        /\ c.buf = pcb[p].buf /\ c \in Connection
    BY <1>1, <2>2 DEF Connection
  <2> HIDE DEF r, c
  <2>4. ConnectionOK(c, p, mqtt)
    BY <1>1, <2>2, <2>3 DEF ConnectionOK, Held
  <2>5. WorldOK(v) /\ Spares(Now, v, p) /\ v.pcb[p] = c /\ v.mqtt = mqtt
    BY <1>1, <2>3, <2>4, NowFacts, PlacedFacts
  <2>6. w = v \/ \E h \in Brokers \cup {None} : w = [v EXCEPT !.mqtt.next = <<h>>]
    BY ZenonT(30), <1>4, <2>1 DEF Processed
  <2> HIDE DEF v
  <2>7. WorldOK(w) /\ w.pcb = v.pcb
    <3>1. CASE w = v
      BY <2>5, <3>1
    <3>2. CASE \E h \in Brokers \cup {None} : w = [v EXCEPT !.mqtt.next = <<h>>]
      <4>1. PICK h \in Brokers \cup {None} : w = [v EXCEPT !.mqtt.next = <<h>>]
        BY <3>2
      <4> DEFINE m == [mqtt EXCEPT !.next = <<h>>]
      <4>2. v = [pcb |-> v.pcb, used |-> v.used, mqtt |-> v.mqtt]
        BY <2>5, WorldFacts
      <4>3. w = [v EXCEPT !.mqtt = m]
        BY <2>5, <4>1, <4>2
      <4>4. /\ m \in Session /\ m.pcb = mqtt.pcb /\ m.port = mqtt.port /\ m.host = mqtt.host
            /\ m.state = mqtt.state
        <5>1. <<h>> \in Seq(Brokers \cup {None})
          OBVIOUS
        <5> QED
          BY <1>1, <5>1 DEF Session
      <4>5. m.state \in {"OFF", "WAITING"} => m.pcb = 0
        BY <1>1, <4>4, NowFacts DEF WorldOK
      <4> HIDE DEF m
      <4> QED
        BY <2>5, <4>3, <4>4, <4>5, ClientFacts
    <3> QED
      BY <2>6, <3>1, <3>2
  <2> QED
    <3>1. w.pcb[p] = c /\ Spares(Now, w, p)
      BY <2>5, <2>7 DEF Spares
    <3> QED
      <4>1. w.pcb[p].state = "ESTABLISHED" /\ w.pcb[p].user = "http"
        BY <2>3, <3>1
      <4>2. w.pcb[p].req.parts = pcb[p].req.parts /\ w.pcb[p].req.applied = 1
        BY <2>2, <2>3, <3>1
      <4> QED
        BY <1>4, <2>7, <3>1, <4>1, <4>2
<1> QED
  BY <1>3, <1>4

(* A response written and the connection closed: it was served as it should.  *)
LEMMA AnsweredFacts ==
  ASSUME NEW w, WorldOK(w), NEW p \in Pcbs, NEW n \in 1 .. 2, Room(w, p, n),
         w.pcb[p].state = "ESTABLISHED", w.pcb[p].user = "http", w.pcb[p].req.applied <= 1,
         NEW s, s.foreign = FALSE, s.buf = Upto(w.pcb[p].req.parts)
  PROVE  LET v == Answered(w, p, s, n)
         IN WorldOK(v) /\ Spares(w, v, p) /\ v.pcb[p].state = "FIN_WAIT"
<1> DEFINE c == w.pcb[p]
           d == Written(w, p, n)
           x == d.pcb[p]
           r == [NoRequest EXCEPT !.served = "once, whole"]
           e == [x EXCEPT !.req = r, !.state = "FIN_WAIT"]
           v == Placed(d, p, e)
<1>1. c \in Connection /\ ConnectionOK(c, p, w.mqtt)
  BY WorldFacts DEF WorldOK
<1>2. WorldOK(d) /\ Spares(w, d, p) /\ x = [c EXCEPT !.buf = c.buf + n] /\ d.mqtt = w.mqtt
  BY WrittenFacts
<1>3. /\ x.req = c.req /\ x.user = "http" /\ x.cb = c.cb /\ x.never = c.never
      /\ x.port = c.port /\ x.remote = c.remote
  BY <1>1, <1>2 DEF Connection
<1>4. Served(x.req, s) = r
  <2>1. s.buf = [k \in 1 .. x.req.parts |-> k] /\ x.req.applied <= 1
    BY <1>3 DEF Upto
  <2> QED
    BY <2>1 DEF Served
<1>5. /\ d = [pcb |-> d.pcb, used |-> d.used, mqtt |-> d.mqtt] /\ x \in Connection
      /\ d.pcb \in [Pcbs -> Connection]
  BY <1>2, WorldFacts
<1>6. Answered(w, p, s, n) = v
  <2> HIDE DEF d, r
  <2> DEFINE f == [d EXCEPT !.pcb[p].req = Served(@, s)]
             g == [d.pcb EXCEPT ![p] = [x EXCEPT !.req = r]]
  <2>1. f = [d EXCEPT !.pcb = g]
    BY <1>4, <1>5
  <2>2. f.pcb = g /\ g[p] = [x EXCEPT !.req = r] /\ Closed(f, p) = [f EXCEPT !.pcb[p].state = "FIN_WAIT"]
    BY <1>5, <2>1 DEF Closed
  <2>3. [g EXCEPT ![p].state = "FIN_WAIT"] = [d.pcb EXCEPT ![p] = e]
    BY <1>5, <2>2 DEF Connection
  <2> HIDE DEF g, e
  <2>4. Closed(f, p) = v
    BY <1>5, <2>1, <2>2, <2>3 DEF Placed
  <2> QED
    BY <2>4 DEF Answered, d
<1>7. /\ r.applied = 0 /\ r.served = "once, whole"
      /\ r \in [kind : {"get", "post"}, parts : Nat, taken : Nat, applied : Nat,
                served : {"no", "once, whole", "wrong"}]
  BY DEF NoRequest
<1> HIDE DEF d, r
<1>8. /\ e.req = r /\ e.state = "FIN_WAIT" /\ e.user = "http" /\ e.never = c.never
      /\ e.port = c.port /\ e.buf = x.buf /\ e \in Connection
  BY <1>3, <1>5, <1>7 DEF Connection, Connected
<1> HIDE DEF e
<1>9. ConnectionOK(e, p, d.mqtt)
  BY <1>1, <1>7, <1>8 DEF ConnectionOK, Held
<1>10. WorldOK(v) /\ Spares(d, v, p) /\ v.pcb[p] = e
  <2>1. WorldOK(d) /\ e \in Connection /\ e.buf = d.pcb[p].buf
    BY <1>2, <1>8
  <2> QED
    BY <1>9, <2>1, PlacedFacts
<1> HIDE DEF v
<1>11. Spares(w, v, p)
  BY <1>2, <1>10 DEF Spares
<1> QED
  BY <1>6, <1>8, <1>10, <1>11

(* The request is over: its connection is not open any more and has no        *)
(* request slot.                                                              *)
LEMMA DoneStep ==
  ASSUME IInv, NEW p \in Pcbs, Receives(p), NEW v, WorldOK(v), Spares(Now, v, p),
         v.pcb[p].state \in {"FIN_WAIT", "UNUSED"}, Becomes(v),
         slot' = Without(Swept(p), p), UNCHANGED listener
  PROVE  IInv'
<1> DEFINE i == Least(Gettable(p))
<1>1. /\ listener \in Pcbs \cup {0}
      /\ \A q \in Pcbs : (pcb[q].state = "LISTEN" <=> listener = q) /\ RequestOK(pcb[q], q, slot)
  BY IInvFacts
<1>2. /\ Swept(p) \in [ReqSlots -> RequestSlot]
      /\ \A q \in Pcbs : q # p /\ pcb[q].state = "ESTABLISHED" =>
           \A j \in ReqSlots : slot[j].pcb = q \/ Swept(p)[j].pcb = q => Swept(p)[j] = slot[j]
  <2> HIDE DEF i
  <2>1. /\ Swept(p) \in [ReqSlots -> RequestSlot]
        /\ \A q \in Pcbs : q # p /\ pcb[q].state = "ESTABLISHED" =>
             \A j \in ReqSlots :
               /\ slot[j].pcb = q \/ Swept(p)[j].pcb = q => Swept(p)[j] = slot[j]
               /\ slot[j].pcb = q => j # i
    BY GetFacts DEF i
  <2> QED
    BY <2>1
<1>3. /\ slot' \in [ReqSlots -> RequestSlot]
      /\ \A j \in ReqSlots : /\ Swept(p)[j].pcb # p => slot'[j] = Swept(p)[j]
                             /\ Swept(p)[j].pcb = p => slot'[j].pcb = 0
  BY <1>2, WithoutFacts
<1>4. pcb[p].state = "ESTABLISHED"
  BY DEF Receives
<1>5. ASSUME NEW q \in Pcbs
      PROVE  (v.pcb[q].state = "LISTEN" <=> listener' = q) /\ RequestOK(v.pcb[q], q, slot')
  <2>1. CASE q = p
    BY <1>1, <1>4, <2>1 DEF RequestOK
  <2>2. CASE q # p
    <3>1. v.pcb[q] = pcb[q]
      BY <2>2, NowFacts DEF Spares
    <3>2. CASE pcb[q].state = "ESTABLISHED"
      <4>1. \A j \in ReqSlots : slot[j].pcb = q \/ slot'[j].pcb = q => slot'[j] = slot[j]
        BY <1>2, <1>3, <2>2, <3>2, Numbers
      <4>2. RequestOK(pcb[q], q, slot')
        BY <1>1, <4>1, KeptFacts
      <4> QED
        BY <1>1, <3>1, <4>2
    <3>3. CASE pcb[q].state # "ESTABLISHED"
      BY <1>1, <3>1, <3>3 DEF RequestOK
    <3> QED
      BY <3>2, <3>3
  <2> QED
    BY <2>1, <2>2
<1> QED
  BY <1>1, <1>3, <1>5, Advance

LEMMA RxLastStep == ASSUME IInv, NEW p \in Pcbs, RxLast(p) PROVE IInv'
<1> DEFINE i == Least(Gettable(p))
           f == Filled(p, i)
           n == pcb[p].req.taken
<1>1. /\ WorldOK(Now) /\ listener \in Pcbs \cup {0}
      /\ \A q \in Pcbs : (pcb[q].state = "LISTEN" <=> listener = q) /\ RequestOK(pcb[q], q, slot)
      /\ n \in Nat
  BY IInvFacts, ConnectionFacts
<1>2. Receives(p) /\ n + 1 = pcb[p].req.parts /\ UNCHANGED listener
  BY DEF RxLast
<1>3. PICK w \in Processed(p), size \in 1 .. 2 :
        \/ /\ Room(w, p, size) /\ Becomes(Answered(w, p, f, size))
           /\ slot' = Without(Swept(p), p)
        \/ /\ Repeatable(p) /\ Becomes(w)
           /\ slot' = Deferred(Swept(p), i)
        \/ /\ Room(w, p, 1) /\ Becomes(Answered(w, p, f, 1))
           /\ slot' = Without(Swept(p), p)
        \/ /\ Becomes(Freed(w, p, TRUE))
           /\ slot' = Without(Swept(p), p)
  BY DEF RxLast
<1>4. pcb[p].state = "ESTABLISHED" /\ pcb[p].user = "http"
  BY <1>2 DEF Receives
<1>5. f.foreign = FALSE /\ f.buf = Upto(pcb[p].req.parts)
  BY <1>2, FilledFacts
<1>6. /\ WorldOK(w) /\ Spares(Now, w, p)
      /\ w.pcb[p].state = "ESTABLISHED" /\ w.pcb[p].user = "http"
      /\ w.pcb[p].req.parts = pcb[p].req.parts /\ w.pcb[p].req.applied <= 1
      /\ pcb[p].req.kind = "get" => w = Now
  BY <1>4, ProcessedFacts
<1> HIDE DEF f
<1>7. ASSUME NEW k \in 1 .. 2, Room(w, p, k), Becomes(Answered(w, p, f, k)),
             slot' = Without(Swept(p), p)
      PROVE  IInv'
  <2> DEFINE v == Answered(w, p, f, k)
  <2>1. WorldOK(v) /\ Spares(w, v, p) /\ v.pcb[p].state = "FIN_WAIT"
    BY <1>5, <1>6, <1>7, AnsweredFacts
  <2>2. Becomes(v)
    BY <1>7
  <2> HIDE DEF v
  <2>3. Spares(Now, v, p)
    BY <1>6, <2>1 DEF Spares
  <2> QED
    BY <1>2, <1>7, <2>1, <2>2, <2>3, DoneStep
<1>8. CASE Becomes(Freed(w, p, TRUE)) /\ slot' = Without(Swept(p), p)
  <2> DEFINE v == Freed(w, p, TRUE)
  <2>1. WorldOK(v) /\ Spares(w, v, p) /\ v.pcb[p] = Unused
    BY <1>6, FreedFacts
  <2>2. Becomes(v)
    BY <1>8
  <2> HIDE DEF v
  <2>3. Spares(Now, v, p) /\ v.pcb[p].state = "UNUSED"
    BY <1>6, <2>1, UnusedFacts DEF Spares
  <2> QED
    BY <1>2, <1>8, <2>1, <2>2, <2>3, DoneStep
<1>9. CASE Repeatable(p) /\ Becomes(w) /\ slot' = Deferred(Swept(p), i)
  <2> DEFINE t == Deferred(Swept(p), i)
  <2>1. w = Now /\ Becomes(Now) /\ w.pcb = pcb
    BY <1>6, <1>9, NowFacts DEF Repeatable
  <2>2. /\ i \in ReqSlots /\ Swept(p) \in [ReqSlots -> RequestSlot]
        /\ Swept(p)[i].pcb \in {p, 0} /\ Swept(p)[i].foreign = FALSE
        /\ Swept(p)[i].buf = Upto(n)
        /\ \A j \in ReqSlots : j # i => Swept(p)[j].pcb # p
        /\ \A q \in Pcbs : q # p /\ pcb[q].state = "ESTABLISHED" =>
             \A j \in ReqSlots :
               /\ slot[j].pcb = q \/ Swept(p)[j].pcb = q => Swept(p)[j] = slot[j]
               /\ slot[j].pcb = q => j # i
    BY <1>2, GetFacts
  <2> HIDE DEF i, n
  <2>3. /\ t[i] = IF Swept(p)[i].buf = <<>> THEN EmptySlot ELSE Swept(p)[i]
        /\ \A j \in ReqSlots : j # i => t[j] = Swept(p)[j]
        /\ t \in [ReqSlots -> RequestSlot]
    BY <2>2, RequestSlotFacts DEF Deferred
  <2> HIDE DEF t
  <2>4. RequestOK(pcb[p], p, t)
    <3>1. pcb[p].req.applied = 0 /\ pcb[p].req.taken = n
      BY <1>1, <1>4 DEF RequestOK, n
    <3>2. CASE Swept(p)[i].buf = <<>>
      <4>1. n = 0
        BY <1>1, <2>2, <3>2, UptoFacts
      <4>2. \A j \in ReqSlots : t[j].pcb # p
        BY <2>2, <2>3, <3>2, RequestSlotFacts, Numbers
      <4> QED
        BY <3>1, <4>1, <4>2 DEF RequestOK
    <3>3. CASE Swept(p)[i].buf # <<>>
      <4>1. Swept(p)[i] \in RequestSlot
        BY <2>2
      <4>2. Swept(p)[i].pcb = p
        BY <2>2, <3>3, <4>1, RequestSlotFacts DEF RequestSlot
      <4>3. t[i] = Swept(p)[i] /\ \A j \in ReqSlots : t[j].pcb = p => j = i
        BY <2>2, <2>3, <3>3
      <4> QED
        BY <2>2, <3>1, <4>2, <4>3 DEF RequestOK
    <3> QED
      BY <3>2, <3>3
  <2>5. ASSUME NEW q \in Pcbs PROVE RequestOK(pcb[q], q, t)
    <3>1. CASE q = p
      BY <2>4, <3>1
    <3>2. CASE q # p /\ pcb[q].state = "ESTABLISHED"
      <4>1. \A j \in ReqSlots : slot[j].pcb = q \/ t[j].pcb = q => t[j] = slot[j]
        BY <2>2, <2>3, <3>2, RequestSlotFacts, Numbers
      <4> QED
        BY <1>1, <4>1, KeptFacts
    <3>3. CASE pcb[q].state # "ESTABLISHED"
      BY <3>3 DEF RequestOK
    <3> QED
      BY <3>1, <3>2, <3>3
  <2>6. slot' = t
    BY <1>9 DEF t
  <2>7. \A q \in Pcbs : (w.pcb[q].state = "LISTEN" <=> listener' = q) /\ RequestOK(w.pcb[q], q, slot')
    BY <1>1, <1>2, <2>1, <2>5, <2>6
  <2> QED
    BY <1>1, <1>2, <1>6, <1>9, <2>3, <2>6, <2>7, Advance
<1>10. 1 \in 1 .. 2
  OBVIOUS
<1> QED
  BY <1>3, <1>7, <1>8, <1>9, <1>10

LEMMA HttpStopStep == ASSUME IInv, HttpStop PROVE IInv'
<1> DEFINE w == Freed(Now, listener, TRUE)
<1>1. /\ WorldOK(Now) /\ listener \in Pcbs \cup {0} /\ slot \in [ReqSlots -> RequestSlot]
      /\ \A q \in Pcbs : (pcb[q].state = "LISTEN" <=> listener = q) /\ RequestOK(pcb[q], q, slot)
  BY IInvFacts
<1>2. listener \in Pcbs /\ listener' = 0 /\ slot' = slot /\ Becomes(w)
  BY <1>1 DEF HttpStop
<1>3. WorldOK(w) /\ Spares(Now, w, listener) /\ w.pcb[listener] = Unused
  BY <1>1, <1>2, FreedFacts
<1> HIDE DEF w
<1>4. ASSUME NEW q \in Pcbs
      PROVE  (w.pcb[q].state = "LISTEN" <=> listener' = q) /\ RequestOK(w.pcb[q], q, slot')
  <2>1. CASE q = listener
    BY <1>2, <1>3, <2>1, UnusedFacts, Numbers DEF RequestOK
  <2>2. CASE q # listener
    <3>1. w.pcb[q] = pcb[q]
      BY <1>3, <2>2, NowFacts DEF Spares
    <3> QED
      BY <1>1, <1>2, <2>2, <3>1, Numbers
  <2> QED
    BY <2>1, <2>2
<1> QED
  BY <1>1, <1>2, <1>3, <1>4, Advance

LEMMA ListeningFacts ==
  /\ Listening \in Connection /\ Listening.buf = 0 /\ Listening.state = "LISTEN"
  /\ \A p, m : ConnectionOK(Listening, p, m)
<1>1. /\ Listening.state = "LISTEN" /\ Listening.user = "http" /\ Listening.port = HttpPort
      /\ Listening.never = FALSE /\ Listening.req = NoRequest /\ Listening.buf = 0
      /\ NoRequest.applied = 0
  BY DEF Listening, Unused, NoRequest
<1>2. Listening \in Connection
  BY UnusedFacts DEF Listening, Connection
<1>3. \A p, m : ConnectionOK(Listening, p, m)
  BY <1>1 DEF ConnectionOK, Held
<1> QED
  BY <1>1, <1>2, <1>3

LEMMA HttpStartStep == ASSUME IInv, HttpStart PROVE IInv'
<1>1. WorldOK(Now) /\ listener = 0
  BY IInvFacts DEF HttpStart
<1>2. PICK r \in New(Now) :
        /\ r.p # 0 /\ Becomes(Placed(r.w, r.p, Listening)) /\ listener' = r.p
        /\ slot' = Aged(slot, r.p)
  BY DEF HttpStart
<1> DEFINE p == r.p
           v == r.w
           w == Placed(v, p, Listening)
<1>3. p \in Pcbs /\ WorldOK(v) /\ Spares(Now, v, p) /\ v.pcb[p] = Unused /\ pcb[p].state # "LISTEN"
  BY <1>1, <1>2, NewFacts, NowFacts
<1>4. Becomes(w) /\ listener' = p /\ slot' = Aged(slot, p)
  BY <1>2
<1> HIDE DEF p, v
<1>5. WorldOK(w) /\ Spares(v, w, p) /\ w.pcb[p] = Listening
  BY <1>3, PlacedFacts, UnusedFacts, ListeningFacts
<1> HIDE DEF w
<1>6. Spares(Now, w, p)
  BY <1>3, <1>5 DEF Spares
<1>7. \A q \in Pcbs : q # p => (listener' = q <=> listener = q)
  BY <1>1, <1>4, Numbers
<1> QED
  BY <1>3, <1>4, <1>5, <1>6, <1>7, ListeningFacts, EnterStep

(* The table after tcp_init and http_server_start. *)
LEMMA FreshFacts ==
  ASSUME NEW m \in Session, m.state \in {"OFF", "WAITING"} => m.pcb = 0
  PROVE  LET t == [p \in Pcbs |-> IF p = Least(Pcbs) THEN Listening ELSE Unused]
         IN /\ WorldOK([pcb |-> t, used |-> 0, mqtt |-> m])
            /\ Least(Pcbs) \in Pcbs
<1> DEFINE t == [p \in Pcbs |-> IF p = Least(Pcbs) THEN Listening ELSE Unused]
           w == [pcb |-> t, used |-> 0, mqtt |-> m]
<1>1. Least(Pcbs) \in Pcbs
  BY Numbers, LeastFacts
<1>2. \A p \in Pcbs : t[p] \in Connection /\ t[p].buf = 0 /\ ConnectionOK(t[p], p, m)
  BY ListeningFacts, UnusedFacts
<1>3. t \in [Pcbs -> Connection]
  BY <1>2
<1> HIDE DEF t
<1>4. Units(t) = {}
  <2>1. ASSUME NEW u \in Pcbs \X (1 .. PcbMax), u[2] <= t[u[1]].buf PROVE FALSE
    <3>1. u[1] \in Pcbs /\ u[2] \in Nat /\ u[2] >= 1
      BY Numbers
    <3>2. t[u[1]].buf = 0
      BY <1>2, <3>1
    <3> QED
      BY <2>1, <3>1, <3>2
  <2> QED
    BY <2>1 DEF Units
<1>5. Cardinality(Units(t)) = 0
  BY <1>4, FS_EmptySet
<1>6. w \in World /\ w.pcb = t /\ w.used = 0 /\ w.mqtt = m
  BY <1>3 DEF World
<1> HIDE DEF w
<1>7. WorldOK(w)
  <2>1. w.used = Cardinality(Units(w.pcb)) /\ w.used <= Pool
    BY <1>5, <1>6, Numbers
  <2>2. \A p \in Pcbs : ConnectionOK(w.pcb[p], p, w.mqtt)
    BY <1>2, <1>6
  <2> QED
    BY <1>6, <2>1, <2>2 DEF WorldOK
<1> QED
  BY <1>1, <1>7 DEF w, t

LEMMA FreshRequests ==
  ASSUME NEW s
  PROVE  LET t == [p \in Pcbs |-> IF p = Least(Pcbs) THEN Listening ELSE Unused]
         IN \A q \in Pcbs : (t[q].state = "LISTEN" <=> Least(Pcbs) = q) /\ RequestOK(t[q], q, s)
  BY ListeningFacts, UnusedFacts DEF RequestOK

LEMMA SelfTestStep == ASSUME IInv, SelfTest PROVE IInv'
<1> DEFINE t == [p \in Pcbs |-> IF p = Least(Pcbs) THEN Listening ELSE Unused]
           w == [pcb |-> t, used |-> 0, mqtt |-> mqtt]
<1>1. mqtt \in Session /\ slot \in [ReqSlots -> RequestSlot] /\ WorldOK(Now)
  BY IInvFacts
<1>2. mqtt.state \in {"OFF", "WAITING"} => mqtt.pcb = 0
  BY <1>1, NowFacts DEF WorldOK
<1>3. WorldOK(w) /\ Least(Pcbs) \in Pcbs
  BY <1>1, <1>2, FreshFacts
<1>4. pcb' = t /\ used' = 0 /\ mqtt' = mqtt /\ listener' = Least(Pcbs) /\ slot' = Aged(slot, Least(Pcbs))
  BY DEF SelfTest
<1>5. \A q \in Pcbs : (t[q].state = "LISTEN" <=> Least(Pcbs) = q) /\ RequestOK(t[q], q, slot')
  BY FreshRequests
<1> HIDE DEF t
<1>6. Becomes(w) /\ w.pcb = t
  BY <1>4 DEF Becomes
<1>7. slot' \in [ReqSlots -> RequestSlot]
  BY <1>1, <1>3, <1>4, AgedFacts
<1> HIDE DEF w
<1> QED
  BY <1>3, <1>4, <1>5, <1>6, <1>7, Advance

-----------------------------------------------------------------------------
(* The MQTT client's steps. *)

(* When no slot is held the client may be anything that points at nothing.    *)
LEMMA UnheldStep ==
  ASSUME IInv, NEW w, Tame(Now, w), \A q \in Pcbs : ~Held(w.pcb[q]),
         NEW m \in Session, m.pcb = 0, Becomes([w EXCEPT !.mqtt = m]), UNCHANGED http
  PROVE  IInv'
<1> DEFINE v == [w EXCEPT !.mqtt = m]
<1>1. WorldOK(w)
  BY DEF Tame
<1>2. WorldOK(v) /\ v.pcb = w.pcb
  BY <1>1, ClientFacts
<1>3. Becomes(v)
  OBVIOUS
<1> HIDE DEF v
<1>4. \A q \in Pcbs : v.pcb[q] = pcb[q] \/ (pcb[q].user # "http" /\ v.pcb[q].user # "http")
  BY <1>2, NowFacts DEF Tame
<1> QED
  BY <1>2, <1>3, <1>4, TameStep

(* mqtt_fail, perhaps after the client noticed that its slot was lost.        *)
LEMMA FailStep ==
  ASSUME IInv, NEW w \in {Now, NoPcb(Now)}, w = Now \/ ~Owned(Now),
         Becomes(Fail(w)), UNCHANGED http
  PROVE  IInv'
<1>1. WorldOK(Now)
  BY IInvFacts
<1>2. WorldOK(w) /\ w.pcb = pcb
  BY <1>1, OwnedFacts, NoPcbFacts, NowFacts
<1>3. Tame(w, Fail(w))
  BY <1>2, FailFacts
<1> DEFINE v == Fail(w)
<1>4. WorldOK(v) /\ \A q \in Pcbs : v.pcb[q] = pcb[q] \/ (pcb[q].user # "http" /\ v.pcb[q].user # "http")
  BY <1>2, <1>3 DEF Tame
<1>5. Becomes(v)
  OBVIOUS
<1> HIDE DEF v
<1> QED
  BY <1>4, <1>5, TameStep

(* A packet is written, and the session goes on.                              *)
LEMMA SendStep ==
  ASSUME IInv, NEW p \in Pcbs, pcb[p].user = "mqtt", pcb[p].state # "UNUSED", Room(Now, p, 1),
         NEW s \in {mqtt.state, "CONNACK", "ONLINE"},
         Becomes([Written(Now, p, 1) EXCEPT !.mqtt.state = s]), UNCHANGED http
  PROVE  IInv'
<1> DEFINE d == Written(Now, p, 1)
           m == [mqtt EXCEPT !.state = s]
           v == [d EXCEPT !.mqtt = m]
<1>1. WorldOK(Now) /\ mqtt \in Session /\ pcb[p] \in Connection
  BY IInvFacts
<1>2. WorldOK(d) /\ Spares(Now, d, p) /\ d.pcb[p] = [pcb[p] EXCEPT !.buf = pcb[p].buf + 1] /\ d.mqtt = mqtt
  BY <1>1, NowFacts, WrittenFacts
<1>3. d.pcb[p].user = "mqtt"
  BY <1>1, <1>2 DEF Connection
<1>4. d = [pcb |-> d.pcb, used |-> d.used, mqtt |-> d.mqtt]
  BY <1>2, WorldFacts
<1>5. [d EXCEPT !.mqtt.state = s] = v
  BY <1>2, <1>4
<1>6. Becomes(v)
  BY <1>5
<1> HIDE DEF d
<1>7. /\ m \in Session /\ m.pcb = mqtt.pcb /\ m.port = mqtt.port /\ m.host = mqtt.host /\ m.state = s
  BY <1>1 DEF Session
<1>8. mqtt.state \in {"OFF", "WAITING"} => mqtt.pcb = 0
  BY <1>1, NowFacts DEF WorldOK
<1> HIDE DEF m
<1>9. WorldOK(v) /\ v.pcb = d.pcb
  BY <1>2, <1>7, <1>8, ClientFacts
<1> HIDE DEF v
<1>10. \A q \in Pcbs : v.pcb[q] = pcb[q] \/ (pcb[q].user # "http" /\ v.pcb[q].user # "http")
  BY <1>2, <1>3, <1>9, NowFacts DEF Spares
<1> QED
  BY <1>6, <1>9, <1>10, TameStep

LEMMA TickSettingsStep == ASSUME IInv, TickSettings PROVE IInv'
<1> DEFINE d == Disconnected(Now)
           h == mqtt.next[1]
           s == IF h = None THEN "OFF" ELSE "WAITING"
           m == [d.mqtt EXCEPT !.host = h, !.next = <<>>, !.pending = FALSE, !.state = s]
           v == [d EXCEPT !.mqtt = m]
<1>1. WorldOK(Now) /\ mqtt \in Session
  BY IInvFacts
<1>2. /\ Tame(Now, d) /\ d.mqtt \in Session /\ d.mqtt.pcb = 0
      /\ \A q \in Pcbs : ~Held(d.pcb[q])
  BY <1>1, DisconnectedFacts
<1>3. h \in Brokers \cup {None}
  <2>1. mqtt.next \in Seq(Brokers \cup {None}) /\ mqtt.next # <<>>
    BY <1>1 DEF TickSettings, Quiet, Session
  <2> QED
    BY <2>1, EmptySeq
<1>4. d = [pcb |-> d.pcb, used |-> d.used, mqtt |-> d.mqtt]
  BY <1>2, WorldFacts DEF Tame
<1>5. Becomes([d EXCEPT !.mqtt.host = h, !.mqtt.next = <<>>, !.mqtt.pending = FALSE, !.mqtt.state = s])
  BY DEF TickSettings
<1> HIDE DEF d, h
<1>6. <<>> \in Seq(Brokers \cup {None})
  BY EmptySeq
<1>7. m \in Session /\ m.pcb = 0
  BY <1>2, <1>3, <1>6 DEF Session
<1>8. Becomes(v)
  BY <1>4, <1>5
<1> HIDE DEF m
<1>9. UNCHANGED http
  BY DEF TickSettings
<1> QED
  BY <1>2, <1>7, <1>8, <1>9, UnheldStep

LEMMA TickTroubledStep == ASSUME IInv, TickTroubled PROVE IInv'
<1> DEFINE d == Fail(Now)
           m == [d.mqtt EXCEPT !.pending = FALSE]
<1>1. WorldOK(Now)
  BY IInvFacts
<1>2. /\ Tame(Now, d) /\ d.mqtt \in Session /\ d.mqtt.pcb = 0
      /\ \A q \in Pcbs : ~Held(d.pcb[q])
  BY <1>1, FailFacts
<1>3. d = [pcb |-> d.pcb, used |-> d.used, mqtt |-> d.mqtt]
  BY <1>2, WorldFacts DEF Tame
<1>4. Becomes([d EXCEPT !.mqtt.pending = FALSE]) /\ UNCHANGED http
  BY DEF TickTroubled
<1> HIDE DEF d
<1>5. m \in Session /\ m.pcb = 0
  BY <1>2 DEF Session
<1>6. Becomes([d EXCEPT !.mqtt = m])
  BY <1>3, <1>4
<1> HIDE DEF m
<1> QED
  BY <1>2, <1>4, <1>5, <1>6, UnheldStep

LEMMA TickConnectStep == ASSUME IInv, TickConnect PROVE IInv'
<1>1. WorldOK(Now) /\ UNCHANGED http
  BY IInvFacts DEF TickConnect
<1>2. CASE ~Owned(Now) /\ Becomes(Fail(NoPcb(Now)))
  BY <1>1, <1>2, FailStep
<1>3. CASE /\ Owned(Now) /\ Room(Now, mqtt.pcb, 1)
           /\ Becomes([Written(Now, mqtt.pcb, 1) EXCEPT !.mqtt.state = "CONNACK"])
  <2>1. mqtt.pcb \in Pcbs /\ pcb[mqtt.pcb].user = "mqtt" /\ pcb[mqtt.pcb].state # "UNUSED"
    BY <1>1, <1>3, OwnedFacts, NowFacts
  <2> QED
    BY <1>1, <1>3, <2>1, SendStep
<1>4. CASE Becomes(Fail(Now))
  BY <1>1, <1>4, FailStep
<1> QED
  BY <1>2, <1>3, <1>4 DEF TickConnect

LEMMA TickConnackStep == ASSUME IInv, TickConnack PROVE IInv'
<1>1. UNCHANGED http /\ Becomes(Fail(IF Owned(Now) THEN Now ELSE NoPcb(Now)))
  BY DEF TickConnack
<1> DEFINE w == IF Owned(Now) THEN Now ELSE NoPcb(Now)
<1>2. w \in {Now, NoPcb(Now)} /\ (w = Now \/ ~Owned(Now)) /\ Becomes(Fail(w))
  BY <1>1
<1> HIDE DEF w
<1> QED
  BY <1>1, <1>2, FailStep

LEMMA TickOnlineStep == ASSUME IInv, TickOnline PROVE IInv'
<1>1. WorldOK(Now) /\ UNCHANGED http /\ mqtt \in Session
  BY IInvFacts DEF TickOnline
<1>2. CASE Becomes(Fail(Now))
  BY <1>1, <1>2, FailStep
<1>3. CASE Owned(Now) /\ Room(Now, mqtt.pcb, 1) /\ Becomes(Written(Now, mqtt.pcb, 1))
  <2> DEFINE p == mqtt.pcb
             d == Written(Now, p, 1)
  <2>1. p \in Pcbs /\ pcb[p].user = "mqtt" /\ pcb[p].state # "UNUSED"
    BY <1>1, <1>3, OwnedFacts, NowFacts
  <2>a. Room(Now, p, 1) /\ Becomes(d)
    BY <1>3
  <2> HIDE DEF p
  <2>2. /\ WorldOK(d) /\ d.mqtt = mqtt
    BY ZenonT(30), <1>1, <2>1, <2>a, NowFacts, WrittenFacts
  <2>3. d = [d EXCEPT !.mqtt.state = mqtt.state]
    <3>1. d = [pcb |-> d.pcb, used |-> d.used, mqtt |-> mqtt]
      BY <2>2, WorldFacts
    <3>2. [mqtt EXCEPT !.state = mqtt.state] = mqtt
      BY <1>1 DEF Session
    <3> HIDE DEF d
    <3> QED
      BY <3>1, <3>2
  <2>4. Becomes([d EXCEPT !.mqtt.state = mqtt.state])
    BY <2>3, <2>a
  <2> QED
    BY <1>1, <2>1, <2>a, <2>4, SendStep
<1> QED
  BY <1>2, <1>3 DEF TickOnline

LEMMA SynSentFacts ==
  ASSUME NEW port \in Ports, mqtt \in Session
  PROVE  LET c == SynSent(port)
         IN /\ c \in Connection /\ c.buf = 0 /\ c.state = "SYN_SENT" /\ c.user = "mqtt"
            /\ c.port = port /\ c.remote = mqtt.host /\ c.req = NoRequest
<1> DEFINE c == SynSent(port)
<1>1. /\ c.state = "SYN_SENT" /\ c.user = "mqtt" /\ c.port = port /\ c.buf = 0
      /\ c.remote = mqtt.host /\ c.req = NoRequest
  BY DEF SynSent, Unused
<1>2. c \in Connection
  BY UnusedFacts, SessionFacts DEF SynSent, Connection, Connected
<1> QED
  BY <1>1, <1>2

LEMMA TickStartTcpStep == ASSUME IInv, TickStartTcp PROVE IInv'
<1>1. /\ WorldOK(Now) /\ mqtt \in Session /\ listener \in Pcbs \cup {0}
      /\ \A q \in Pcbs : pcb[q].state = "LISTEN" <=> listener = q
      /\ mqtt.state = "WAITING" /\ listener' = listener
  BY IInvFacts DEF TickStartTcp, Ready
<1>2. mqtt.pcb = 0
  BY <1>1, NowFacts DEF WorldOK
<1>3. PICK r \in New(Now) :
        \/ r.p = 0 /\ Becomes(Fail(r.w)) /\ slot' = slot
        \/ /\ r.p # 0 /\ slot' = Aged(slot, r.p)
           /\ \E port \in Ports : Becomes(Connecting(r.w, r.p, port))
  BY DEF TickStartTcp
<1>4. CASE r.p = 0 /\ Becomes(Fail(r.w)) /\ slot' = slot
  <2>1. r.w = Now
    BY <1>1, <1>4, NewFacts
  <2>2. Becomes(Fail(Now)) /\ UNCHANGED http
    BY <1>1, <1>4, <2>1 DEF http
  <2> QED
    BY <2>2, FailStep
<1>5. CASE /\ r.p # 0 /\ slot' = Aged(slot, r.p)
           /\ \E port \in Ports : Becomes(Connecting(r.w, r.p, port))
  <2> DEFINE p == r.p
             w == r.w
  <2>1. PICK port \in Ports : Becomes(Connecting(w, p, port))
    BY <1>5
  <2>2. /\ p \in Pcbs /\ WorldOK(w) /\ Spares(Now, w, p) /\ w.pcb[p] = Unused /\ pcb[p].state # "LISTEN"
        /\ w.mqtt \in {mqtt, ErrCb(mqtt)} /\ slot' = Aged(slot, p)
    BY <1>1, <1>5, NewFacts, NowFacts
  <2> HIDE DEF p, w
  <2>3. \A q \in Pcbs : ~Held(w.pcb[q])
    <3>1. w.mqtt.pcb = 0
      BY <1>1, <1>2, <2>2, SessionFacts
    <3> QED
      BY <2>2, <3>1, HeldFacts, Numbers
  <2> DEFINE c == SynSent(port)
             m == [w.mqtt EXCEPT !.pcb = p, !.port = port, !.failed = FALSE, !.state = "TCP"]
             v == Turned(w, p, c, w.used, m)
  <2>4. /\ c \in Connection /\ c.buf = 0 /\ c.state = "SYN_SENT" /\ c.user = "mqtt"
        /\ c.port = port /\ c.remote = mqtt.host /\ c.req = NoRequest /\ c.cb = TRUE
    <3>1. c.cb = TRUE
      BY DEF SynSent, Unused
    <3> QED
      BY <1>1, <3>1, SynSentFacts
  <2>5. /\ w = [pcb |-> w.pcb, used |-> w.used, mqtt |-> w.mqtt] /\ w.used \in Nat
        /\ w.pcb \in [Pcbs -> Connection] /\ w.mqtt \in Session /\ w.used <= Pool
    BY <2>2, WorldFacts DEF WorldOK
  <2>6. /\ m \in Session /\ m.pcb = p /\ m.port = port /\ m.host = mqtt.host /\ m.state = "TCP"
    <3>1. w.mqtt.host = mqtt.host
      BY <1>1, <2>2, SessionFacts
    <3> QED
      BY <2>2, <2>5, <3>1 DEF Session
  <2>7. Connecting(w, p, port) = v
    <3> HIDE DEF c
    <3>1. Placed(w, p, c) = [w EXCEPT !.pcb = [w.pcb EXCEPT ![p] = c]]
      BY <2>5 DEF Placed
    <3> DEFINE g == [w.pcb EXCEPT ![p] = c]
    <3> HIDE DEF g
    <3>2. Placed(w, p, c) = [pcb |-> g, used |-> w.used, mqtt |-> w.mqtt]
      BY <2>5, <3>1 DEF g
    <3> DEFINE x == Placed(w, p, c)
    <3>a. x = [pcb |-> g, used |-> w.used, mqtt |-> w.mqtt] /\ x.mqtt = w.mqtt
      BY <3>2
    <3>b. Connecting(w, p, port) = [x EXCEPT !.mqtt.pcb = p, !.mqtt.port = port,
                                             !.mqtt.failed = FALSE, !.mqtt.state = "TCP"]
      BY DEF Connecting, c
    <3> HIDE DEF x
    <3>3. Connecting(w, p, port) = [x EXCEPT !.mqtt = m]
      BY <3>a, <3>b
    <3> HIDE DEF m
    <3>4. Connecting(w, p, port) = [pcb |-> g, used |-> w.used, mqtt |-> m]
      BY <3>a, <3>3
    <3> QED
      BY <3>4 DEF Turned, g
  <2> HIDE DEF c, m
  <2>8. ConnectionOK(c, p, m)
    <3>1. NoRequest.applied = 0
      BY DEF NoRequest
    <3> QED
      BY <2>4, <2>6, <3>1 DEF ConnectionOK, Held
  <2>9. w.used = w.used - w.pcb[p].buf + c.buf
    BY <2>2, <2>4, <2>5, UnusedFacts
  <2>10. WorldOK(v) /\ v.pcb[p] = c /\ Spares(w, v, p)
    <3>1. m.state \in {"OFF", "WAITING"} => m.pcb = 0
      BY <2>6
    <3> QED
      BY <2>2, <2>3, <2>4, <2>5, <2>6, <2>8, <2>9, <3>1, TurnedOK
  <2>11. Becomes(v)
    BY <2>1, <2>7
  <2> HIDE DEF v
  <2>12. Spares(Now, v, p)
    BY <2>2, <2>10 DEF Spares
  <2> QED
    BY <1>1, <2>2, <2>4, <2>10, <2>11, <2>12, EnterStep
<1> QED
  BY <1>3, <1>4, <1>5

LEMMA RxMqttStep == ASSUME IInv, NEW p \in Pcbs, RxMqtt(p) PROVE IInv'
<1>1. /\ WorldOK(Now) /\ mqtt \in Session /\ UNCHANGED http
      /\ pcb[p].state = "ESTABLISHED" /\ pcb[p].user = "mqtt"
  BY IInvFacts DEF RxMqtt
<1>2. ASSUME NEW m \in Session, m.pcb = mqtt.pcb, m.port = mqtt.port, m.host = mqtt.host,
             m.state \in {mqtt.state, "ONLINE"}, Becomes([Now EXCEPT !.mqtt = m])
      PROVE  IInv'
  <2> DEFINE v == [Now EXCEPT !.mqtt = m]
  <2>1. m.state \in {"OFF", "WAITING"} => m.pcb = 0
    BY <1>1, <1>2, NowFacts DEF WorldOK
  <2>2. WorldOK(v) /\ v.pcb = pcb
    BY <1>1, <1>2, <2>1, ClientFacts, NowFacts
  <2>3. Becomes(v)
    BY <1>2
  <2> HIDE DEF v
  <2> QED
    BY <1>1, <2>2, <2>3, TameStep
<1>3. CASE Room(Now, p, 1) /\ Becomes([Written(Now, p, 1) EXCEPT !.mqtt.state = "ONLINE"])
  BY <1>1, <1>3, SendStep
<1>4. CASE Becomes([Now EXCEPT !.mqtt.state = "ONLINE", !.mqtt.pending = TRUE])
  <2> DEFINE m == [mqtt EXCEPT !.state = "ONLINE", !.pending = TRUE]
  <2>1. [Now EXCEPT !.mqtt.state = "ONLINE", !.mqtt.pending = TRUE] = [Now EXCEPT !.mqtt = m]
    BY DEF Now
  <2>2. m \in Session /\ m.pcb = mqtt.pcb /\ m.port = mqtt.port /\ m.host = mqtt.host /\ m.state = "ONLINE"
    BY <1>1 DEF Session
  <2>3. Becomes([Now EXCEPT !.mqtt = m])
    BY <1>4, <2>1
  <2> HIDE DEF m
  <2> QED
    BY <1>2, <2>2, <2>3
<1>5. CASE Becomes([Now EXCEPT !.mqtt.pending = TRUE])
  <2> DEFINE m == [mqtt EXCEPT !.pending = TRUE]
  <2>1. [Now EXCEPT !.mqtt.pending = TRUE] = [Now EXCEPT !.mqtt = m]
    BY DEF Now
  <2>2. m \in Session /\ m.pcb = mqtt.pcb /\ m.port = mqtt.port /\ m.host = mqtt.host /\ m.state = mqtt.state
    BY <1>1 DEF Session
  <2>3. Becomes([Now EXCEPT !.mqtt = m])
    BY <1>5, <2>1
  <2> HIDE DEF m
  <2> QED
    BY <1>2, <2>2, <2>3
<1>6. CASE mqtt.state = "ONLINE" /\ Room(Now, p, 1) /\ Becomes(Written(Now, p, 1))
  <2> DEFINE d == Written(Now, p, 1)
  <2>1. WorldOK(d) /\ d.mqtt = mqtt
    <3>1. Room(Now, p, 1) /\ 1 \in Nat /\ pcb[p].state # "UNUSED"
      BY <1>1, <1>6
    <3> QED
      BY ZenonT(30), <1>1, <3>1, NowFacts, WrittenFacts
  <2>2. d = [d EXCEPT !.mqtt.state = "ONLINE"]
    <3>1. d = [pcb |-> d.pcb, used |-> d.used, mqtt |-> mqtt]
      BY <2>1, WorldFacts
    <3>2. [mqtt EXCEPT !.state = "ONLINE"] = mqtt
      BY <1>1, <1>6 DEF Session
    <3> HIDE DEF d
    <3> QED
      BY <3>1, <3>2
  <2>3. Becomes([d EXCEPT !.mqtt.state = "ONLINE"])
    BY <1>6, <2>2
  <2> QED
    BY <1>1, <1>6, <2>3, SendStep
<1> QED
  BY <1>3, <1>4, <1>5, <1>6 DEF RxMqtt
-----------------------------------------------------------------------------
(* The invariant holds at the start and is kept by every step. *)

LEMMA InitOK == Init => IInv
<1> SUFFICES ASSUME Init PROVE IInv
  OBVIOUS
<1> DEFINE t == [p \in Pcbs |-> IF p = Least(Pcbs) THEN Listening ELSE Unused]
<1>1. pcb = t /\ used = 0 /\ listener = Least(Pcbs) /\ slot = [i \in ReqSlots |-> EmptySlot]
  BY DEF Init
<1>2. mqtt \in Session /\ mqtt.pcb = 0
  <2>1. <<>> \in Seq(Brokers \cup {None})
    BY EmptySeq
  <2>2. PICK h \in Brokers \cup {None} :
          mqtt = [state |-> IF h = None THEN "OFF" ELSE "WAITING", pcb |-> 0, port |-> 0,
                  failed |-> FALSE, pending |-> FALSE, host |-> h, next |-> <<>>]
    BY DEF Init
  <2> QED
    BY <2>1, <2>2 DEF Session
<1>3. WorldOK([pcb |-> t, used |-> 0, mqtt |-> mqtt]) /\ Least(Pcbs) \in Pcbs
  BY <1>2, FreshFacts
<1>4. \A q \in Pcbs : (t[q].state = "LISTEN" <=> Least(Pcbs) = q) /\ RequestOK(t[q], q, slot)
  BY FreshRequests
<1>5. slot \in [ReqSlots -> RequestSlot]
  <2>1. EmptySlot \in RequestSlot
    <3>1. <<>> \in Seq(Nat)
      BY EmptySeq
    <3> QED
      BY <3>1 DEF EmptySlot, RequestSlot
  <2> QED
    BY <1>1, <2>1
<1> HIDE DEF t
<1>6. WorldOK(Now)
  BY <1>1, <1>3 DEF Now
<1>7. HttpOK
  BY <1>1, <1>3, <1>4, <1>5 DEF HttpOK
<1> QED
  BY <1>6, <1>7 DEF IInv

LEMMA StutterStep == ASSUME IInv, UNCHANGED vars PROVE IInv'
<1>1. WorldOK(Now) /\ Becomes(Now) /\ UNCHANGED http
  BY IInvFacts, NowFacts DEF Becomes, vars
<1> QED
  BY <1>1, NowFacts, TameStep

LEMMA Step == IInv /\ [Next]_vars => IInv'
<1> SUFFICES ASSUME IInv, [Next]_vars PROVE IInv'
  OBVIOUS
<1>1. CASE UNCHANGED vars
  BY <1>1, StutterStep
<1>2. CASE \E client \in Clients : RxSyn(client)
  BY <1>2, RxSynStep
<1>3. CASE \E p \in Pcbs : \/ RxHandshake(p) \/ RxAck(p) \/ RxFin(p) \/ RxRst(p) \/ TimesOut(p)
                           \/ RxPart(p) \/ RxLast(p) \/ RxMqtt(p)
  BY <1>3, RxHandshakeStep, RxAckStep, RxFinStep, RxRstStep, TimesOutStep, RxPartStep, RxLastStep,
     RxMqttStep
<1>4. CASE HttpStop \/ HttpStart \/ SelfTest
  BY <1>4, HttpStopStep, HttpStartStep, SelfTestStep
<1>5. CASE Tick
  BY <1>5, TickSettingsStep, TickTroubledStep, TickStartTcpStep, TickConnectStep, TickConnackStep,
     TickOnlineStep DEF Tick
<1> QED
  BY <1>1, <1>2, <1>3, <1>4, <1>5 DEF Next

(* The table, the MQTT client's pointer and the request slots always fit      *)
(* together as the invariant says.                                            *)
THEOREM Invariance == Spec => []IInv
  BY InitOK, Step, PTL DEF Spec

-----------------------------------------------------------------------------
(* What the invariant gives. *)

LEMMA TypesFollow == IInv => TypeOK
<1> SUFFICES ASSUME IInv PROVE TypeOK
  OBVIOUS
<1>1. used <= Pool /\ used = Cardinality(Units(pcb))
  BY IInvFacts, NowFacts DEF WorldOK
<1>2. slot \in [ReqSlots -> [pcb : Pcbs \cup {0}, buf : Seq(Nat), foreign : BOOLEAN]]
  BY IInvFacts DEF RequestSlot
<1> QED
  BY <1>1, <1>2, IInvFacts DEF TypeOK

LEMMA ServiceFollows == IInv => ServedOnceFromItsOwn
<1> SUFFICES ASSUME IInv, NEW p \in Pcbs
             PROVE  /\ pcb[p].user = "http" /\ pcb[p].state = "FIN_WAIT"
                         => pcb[p].req.served = "once, whole"
                    /\ pcb[p].req.applied <= 1
  BY DEF ServedOnceFromItsOwn
<1>1. ConnectionOK(pcb[p], p, mqtt) /\ RequestOK(pcb[p], p, slot)
  BY IInvFacts
<1>2. pcb[p].req.applied = 0
  BY <1>1 DEF ConnectionOK, RequestOK
<1>3. pcb[p].user = "http" /\ pcb[p].state = "FIN_WAIT" => pcb[p].req.served = "once, whole"
  BY <1>1 DEF ConnectionOK
<1>4. pcb[p].req.applied <= 1
  BY <1>2
<1> QED
  BY <1>3, <1>4

LEMMA OwnersFollow == IInv => LastingSlotsAreOwned
<1> SUFFICES ASSUME IInv, NEW p \in Pcbs
             PROVE  /\ pcb[p].state = "LISTEN" <=> (listener # 0 /\ listener = p)
                    /\ pcb[p].never /\ pcb[p].state \in {"SYN_SENT", "ESTABLISHED"} => mqtt.pcb = p
  BY DEF LastingSlotsAreOwned
<1>1. /\ pcb[p].state = "LISTEN" <=> listener = p
      /\ ConnectionOK(pcb[p], p, mqtt) /\ pcb[p] \in Connection /\ p # 0
  BY IInvFacts, Numbers
<1>2. ASSUME pcb[p].never, pcb[p].state \in {"SYN_SENT", "ESTABLISHED"} PROVE mqtt.pcb = p
  <2>1. pcb[p].user # "http"
    BY <1>1, <1>2 DEF ConnectionOK
  <2>2. pcb[p].user # "none"
    <3>1. pcb[p].user = "none" => pcb[p] = Unused
      BY <1>1 DEF ConnectionOK
    <3> QED
      BY <1>2, <3>1, UnusedFacts
  <2>3. pcb[p].user = "mqtt"
    BY <1>1, <2>1, <2>2, ConnectionFacts
  <2> QED
    BY <1>1, <1>2, <2>3 DEF ConnectionOK, Held
<1> QED
  BY <1>1, <1>2

(* Every unit of the pool in use is in the send buffer of one connection, for *)
(* every table and pool: what ends a connection (tcp_pcb_free, from a reset,  *)
(* a timer, tcp_new or its owner) gives back exactly what it held.            *)
THEOREM TypeCorrect == Spec => []TypeOK
  BY Invariance, TypesFollow, PTL

(* The answer of http_tcp_recv_cb comes from the whole of the connection's    *)
(* own request, once, however connection and request slots are reused and     *)
(* however often a segment is deferred for want of room.                      *)
THEOREM ServedRight == Spec => []ServedOnceFromItsOwn
  BY Invariance, ServiceFollows, PTL

(* No slot without a timer is lost: a listening slot is the running server's  *)
(* and an open one with TCP_IDLE_TIMEOUT_NEVER is where s_pcb of the MQTT     *)
(* client points, whatever tcp_new recycles and whenever a callback is lost.  *)
THEOREM SlotsOwned == Spec => []LastingSlotsAreOwned
  BY Invariance, OwnersFollow, PTL
=============================================================================
