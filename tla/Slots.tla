-------------------------------- MODULE Slots --------------------------------
(* The table of connection slots of src/src/tcp.c and the two applications    *)
(* that point into it: the HTTP server with its request slots, and the MQTT   *)
(* client, which keeps one connection for as long as it can.  Sequence        *)
(* numbers and retransmission are in Tcp; here a peer's segment is taken,     *)
(* deferred or lost, and every timer may fire whenever it runs.  Send buffers *)
(* are counted in units of which a response needs one or two.                 *)
EXTENDS Naturals, Sequences, FiniteSets

CONSTANTS NumPcbs,    \* TCP_MAX_PCBS
          NumReqs,    \* HTTP_REQUEST_SLOTS
          Clients,    \* HTTP clients: an address and a port each
          Brokers,    \* addresses of MQTT brokers
          None,       \* no address: MQTT is not configured
          Ports,      \* ephemeral ports
          Pool,       \* TCP_SNDBUF_CHUNKS, in units
          PcbMax,     \* TCP_SNDBUF_PCB_MAX_BYTES, in units
          Requests    \* what a client may send: a GET or a POST in so many segments

ASSUME TableAssumption == {NumPcbs, NumReqs} \subseteq Nat \ {0}
ASSUME PeerAssumption ==
  /\ None \notin Clients \cup Brokers /\ Clients \cap Brokers = {}
  /\ Ports \cap {0, 80} = {}
ASSUME BoundAssumption == {Pool, PcbMax} \subseteq Nat /\ PcbMax >= 2
ASSUME RequestAssumption == Requests \subseteq [kind : {"get", "post"}, parts : Nat \ {0}]

VARIABLES pcb,       \* s_tcp_pcbs
          used,      \* units of the pool in use
          mqtt,      \* the MQTT client
          listener,  \* s_http_listener_pcb while the server runs, else 0
          slot       \* s_http_req_slots

http == <<listener, slot>>
vars == <<pcb, used, mqtt, http>>

(* FIN_WAIT stands for FIN_WAIT_1, FIN_WAIT_2, CLOSING and LAST_ACK: our side *)
(* is closed and the two FINs are on their way (see Tcp).                     *)
Connected == {"SYN_SENT", "SYN_RECEIVED", "ESTABLISHED", "CLOSE_WAIT", "FIN_WAIT", "TIME_WAIT"}
Pcbs     == 1 .. NumPcbs
ReqSlots == 1 .. NumReqs
HttpPort == 80

Least(S) == CHOOSE x \in S : \A y \in S : x <= y

(* An HTTP connection as its client sees it: the request it sends and the     *)
(* segments taken; and as history how often it was applied, then, when the    *)
(* server closes, only how it was served.                                     *)
NoRequest == [kind |-> "get", parts |-> 0, taken |-> 0, applied |-> 0, served |-> "no"]

(* cb: recv_cb and err_cb are set; never: TCP_IDLE_TIMEOUT_NEVER; buf: units  *)
(* of the pool in the send buffer.                                            *)
Unused == [state |-> "UNUSED", user |-> "none", cb |-> FALSE, never |-> FALSE,
           port |-> 0, remote |-> None, buf |-> 0, req |-> NoRequest]

(* foreign: bytes in it came over an earlier connection of the slot it names. *)
EmptySlot == [pcb |-> 0, buf |-> <<>>, foreign |-> FALSE]
Aged(s, p) == [i \in ReqSlots |-> IF s[i].pcb = p THEN [s[i] EXCEPT !.foreign = TRUE] ELSE s[i]]
-----------------------------------------------------------------------------
(* The table.  A handler works on [pcb, used, mqtt], as the error callback of *)
(* a slot belongs to the MQTT client.                                         *)

Now == [pcb |-> pcb, used |-> used, mqtt |-> mqtt]
Becomes(w) == pcb' = w.pcb /\ used' = w.used /\ mqtt' = w.mqtt

\* mutant: the send buffer of a connection that ends is not given back
Released_Kept(w, p) == w

(* tcp_sndbuf_release_all *)
Released(w, p) == [w EXCEPT !.used = @ - w.pcb[p].buf, !.pcb[p].buf = 0]

(* mqtt_tcp_err *)
ErrCb(m) == [m EXCEPT !.pcb = 0, !.port = 0, !.failed = TRUE]

(* tcp_pcb_free *)
Freed(w, p, ok) ==
  LET r == Released(w, p)
  IN [r EXCEPT !.pcb[p] = Unused,
               !.mqtt = IF ~ok /\ w.pcb[p].user = "mqtt" /\ w.pcb[p].cb THEN ErrCb(@) ELSE @]

(* tcp_new: a free slot, else one in TIME_WAIT, else a stale one.             *)
New(w) ==
  LET free == {p \in Pcbs : w.pcb[p].state = "UNUSED"}
      done == {p \in Pcbs : w.pcb[p].state = "TIME_WAIT"}
      idle == {p \in Pcbs : w.pcb[p].state # "LISTEN" /\ ~w.pcb[p].never}
  IN CASE free # {} -> {[w |-> w, p |-> Least(free)]}
       [] free = {} /\ done # {} -> {[w |-> Freed(w, Least(done), TRUE), p |-> Least(done)]}
       [] OTHER -> {[w |-> Freed(w, p, FALSE), p |-> p] : p \in idle} \cup {[w |-> w, p |-> 0]}

Placed(w, p, c) == [w EXCEPT !.pcb[p] = c]

Room(w, p, n) == w.pcb[p].buf + n <= PcbMax /\ w.used + n <= Pool      \* tcp_sndbuf_space

(* tcp_write of n units, when there is room *)
Written(w, p, n) == [w EXCEPT !.pcb[p].buf = @ + n, !.used = @ + n]

(* tcp_close of an open connection *)
Closed(w, p) == [w EXCEPT !.pcb[p].state = "FIN_WAIT"]

-----------------------------------------------------------------------------
(* Segments without data, and timers. *)

Open(p) == pcb[p].state \in Connected

Matches(p, client) == pcb[p].remote = client /\ Open(p)

SynReceived(client) ==
  [Unused EXCEPT !.state = "SYN_RECEIVED", !.user = "http", !.port = HttpPort, !.remote = client]

(* A SYN to the HTTP port opens a connection, in the slot of the one before   *)
(* when that is in TIME_WAIT.                                                 *)
RxSyn(client) ==
  \E p \in Pcbs :
    /\ \/ /\ listener # 0 /\ \A q \in Pcbs : ~Matches(q, client)
          /\ \E r \in New(Now) : r.p = p /\ Becomes(Placed(r.w, p, SynReceived(client)))
       \/ /\ Matches(p, client) /\ pcb[p].state = "TIME_WAIT"
          /\ Becomes(Placed(Freed(Now, p, TRUE), p, SynReceived(client)))
    /\ slot' = Aged(slot, p)
    /\ UNCHANGED listener

\* mutant: a new connection finds the request of the slot's last one
SlotsAfterAccept_Kept(p) == slot

(* http_req_slot_release, and http_tcp_accept_cb, which calls it *)
Without(s, p) == [i \in ReqSlots |-> IF s[i].pcb = p THEN EmptySlot ELSE s[i]]
SlotsAfterAccept(p) == Without(slot, p)

Accepted(c, r) ==
  [c EXCEPT !.state = "ESTABLISHED", !.cb = TRUE, !.req.kind = r.kind, !.req.parts = r.parts]

RxHandshake(p) ==
  \/ /\ pcb[p].state = "SYN_RECEIVED"
     /\ \E r \in Requests : Becomes(Placed(Now, p, Accepted(pcb[p], r)))
     /\ slot' = SlotsAfterAccept(p)
     /\ UNCHANGED listener
  \/ /\ pcb[p].state = "SYN_SENT"
     /\ Becomes([Now EXCEPT !.pcb[p].state = "ESTABLISHED"])
     /\ UNCHANGED http

(* An ACK frees what it acknowledges; with both FINs acknowledged the         *)
(* connection is over.                                                        *)
RxAck(p) ==
  /\ Open(p)
  /\ \/ pcb[p].buf > 0 /\ Becomes(Released(Now, p))
     \/ /\ pcb[p].state = "FIN_WAIT"
        /\ \/ Becomes([Released(Now, p) EXCEPT !.pcb[p].state = "TIME_WAIT"])
           \/ Becomes(Freed(Now, p, TRUE))
  /\ UNCHANGED http

(* The peer's FIN is taken; what is left of its request does not come.        *)
RxFin(p) ==
  /\ pcb[p].state = "ESTABLISHED"
  /\ Becomes([Now EXCEPT !.pcb[p].state = "CLOSE_WAIT", !.pcb[p].req = NoRequest])
  /\ UNCHANGED http

RxRst(p) == Open(p) /\ Becomes(Freed(Now, p, FALSE)) /\ UNCHANGED http

(* tcp_tick: retransmission gives up, or a connection with nothing in flight  *)
(* was idle too long.                                                         *)
Lasts(p) == pcb[p].never /\ pcb[p].state = "ESTABLISHED" /\ pcb[p].buf = 0

TimesOut(p) ==
  /\ Open(p) /\ ~Lasts(p)
  /\ Becomes(Freed(Now, p, pcb[p].state = "TIME_WAIT"))
  /\ UNCHANGED http
-----------------------------------------------------------------------------
(* The HTTP server. *)

(* http_req_slot_get: its slot, or a free one; on the way, slots of closed    *)
(* connections are reclaimed.                                                 *)
Own(p)     == {i \in ReqSlots : slot[i].pcb = p}
Dead(s)    == s.pcb # 0 /\ pcb[s.pcb].state # "ESTABLISHED"
Swept(p)   == [i \in ReqSlots |-> IF Dead(slot[i]) /\ \A j \in Own(p) : i < j THEN EmptySlot ELSE slot[i]]
Gettable(p) == IF Own(p) # {} THEN Own(p) ELSE {i \in ReqSlots : Swept(p)[i].pcb = 0}

\* mutant: a response that does not fit is tried again whatever the request
Repeatable_Any(p) == TRUE

(* Only a GET may be processed again when its segment is.                     *)
Repeatable(p) == pcb[p].req.kind = "get"

(* s: the request slot with the whole request.                                *)
Served(r, s) ==
  [NoRequest EXCEPT !.served = IF ~s.foreign /\ s.buf = [i \in 1 .. r.parts |-> i] /\ r.applied <= 1
                               THEN "once, whole" ELSE "wrong"]

(* http_process_request: how often a POST was applied is counted.  A POST may *)
(* store new MQTT settings (mqtt_set_config).                                 *)
Processed(p) ==
  IF pcb[p].req.kind = "get" THEN {Now}
  ELSE LET w == [Now EXCEPT !.pcb[p].req.applied = @ + 1]
       IN {w} \cup {[w EXCEPT !.mqtt.next = <<h>>] : h \in Brokers \cup {None}}

(* http_tcp_recv_cb.  While no request slot is free it takes nothing, and the *)
(* client sends again; a segment that does not complete the request is kept.  *)
(* The next segment goes to the end of the slot.                              *)
Filled(p, i) ==
  [Swept(p)[i] EXCEPT !.pcb = p, !.buf = Append(@, pcb[p].req.taken + 1)]
Receives(p) == pcb[p].state = "ESTABLISHED" /\ pcb[p].user = "http" /\ Gettable(p) # {}

RxPart(p) ==
  /\ Receives(p) /\ pcb[p].req.taken + 1 < pcb[p].req.parts
  /\ LET i == Least(Gettable(p))
     IN slot' = [Swept(p) EXCEPT ![i] = Filled(p, i)]
  /\ Becomes([Now EXCEPT !.pcb[p].req.taken = @ + 1])
  /\ UNCHANGED listener

(* ... that completes it: the response is written, or the segment of a GET is *)
(* left to be sent again, or a 503 is written, or the connection is aborted.  *)
Answered(w, p, s, n) == Closed([Written(w, p, n) EXCEPT !.pcb[p].req = Served(@, s)], p)
Deferred(s, i) == [s EXCEPT ![i] = IF @.buf = <<>> THEN EmptySlot ELSE @]

RxLast(p) ==
  /\ Receives(p) /\ pcb[p].req.taken + 1 = pcb[p].req.parts
  /\ LET i == Least(Gettable(p))
     IN \E w \in Processed(p), size \in 1 .. 2 :
          \/ /\ Room(w, p, size) /\ Becomes(Answered(w, p, Filled(p, i), size))
             /\ slot' = Without(Swept(p), p)
          \/ /\ ~Room(w, p, size) /\ Repeatable(p) /\ Becomes(w)
             /\ slot' = Deferred(Swept(p), i)
          \/ /\ ~Room(w, p, size) /\ ~Repeatable(p) /\ Room(w, p, 1) /\ Becomes(Answered(w, p, Filled(p, i), 1))
             /\ slot' = Without(Swept(p), p)
          \/ /\ ~Room(w, p, size) /\ ~Repeatable(p) /\ ~Room(w, p, 1) /\ Becomes(Freed(w, p, TRUE))
             /\ slot' = Without(Swept(p), p)
  /\ UNCHANGED listener

(* http_server_stop and http_server_start *)
HttpStop ==
  /\ listener # 0 /\ listener' = 0
  /\ Becomes(Freed(Now, listener, TRUE))
  /\ UNCHANGED slot

Listening == [Unused EXCEPT !.state = "LISTEN", !.user = "http", !.cb = TRUE, !.port = HttpPort]

HttpStart ==
  /\ listener = 0
  /\ \E r \in New(Now) :
       /\ r.p # 0 /\ Becomes(Placed(r.w, r.p, Listening)) /\ listener' = r.p
       /\ slot' = Aged(slot, r.p)

(* The self-test initialises the stack and the server again (tcp_init,        *)
(* http_server_init, http_server_start); nobody is told.                      *)
SelfTest ==
  /\ pcb' = [p \in Pcbs |-> IF p = Least(Pcbs) THEN Listening ELSE Unused]
  /\ used' = 0 /\ listener' = Least(Pcbs)
  /\ slot' = Aged(slot, Least(Pcbs))
  /\ UNCHANGED mqtt
-----------------------------------------------------------------------------
(* The MQTT client.  WAITING stands for MQTT_ST_BACKOFF, WAIT_LINK and ARP,   *)
(* in which it has no connection.                                             *)

\* mutant: any connection in the slot passes for the client's
Owned_InUse(w) == w.mqtt.pcb # 0 /\ w.pcb[w.mqtt.pcb].state # "UNUSED"

(* mqtt_pcb_owned *)
Owned(w) ==
  /\ w.mqtt.pcb # 0 /\ w.pcb[w.mqtt.pcb].state # "UNUSED"
  /\ w.pcb[w.mqtt.pcb].port = w.mqtt.port /\ w.pcb[w.mqtt.pcb].remote = w.mqtt.host

(* s_pcb = NULL; the port is not read without it.                             *)
NoPcb(w) == [w EXCEPT !.mqtt.pcb = 0, !.mqtt.port = 0]

(* mqtt_drop_pcb *)
DropPcb(w) ==
  LET d == IF Owned(w) THEN Freed(w, w.mqtt.pcb, TRUE) ELSE w
  IN [NoPcb(d) EXCEPT !.mqtt.failed = FALSE]

(* mqtt_fail *)
Fail(w) == [DropPcb(w) EXCEPT !.mqtt.state = "WAITING"]

(* mqtt_disconnect_gracefully: "offline" and DISCONNECT as far as they fit.   *)
Disconnected(w) ==
  IF w.mqtt.state = "ONLINE" /\ Owned(w)
  THEN LET p == w.mqtt.pcb
           d == IF Room(w, p, 1) THEN Written(w, p, 1) ELSE w
       IN NoPcb(Closed([d EXCEPT !.pcb[p].cb = FALSE], p))
  ELSE DropPcb(w)

(* mqtt_tick: new settings first, then errors of the callbacks, then the      *)
(* state.                                                                     *)
Quiet == mqtt.next = <<>>

TickSettings ==
  /\ ~Quiet
  /\ LET d == Disconnected(Now)
     IN Becomes([d EXCEPT !.mqtt.host = mqtt.next[1], !.mqtt.next = <<>>, !.mqtt.pending = FALSE,
                          !.mqtt.state = IF mqtt.next[1] = None THEN "OFF" ELSE "WAITING"])
  /\ UNCHANGED http

Troubled == mqtt.pending \/ (mqtt.failed /\ mqtt.state \in {"TCP", "CONNACK", "ONLINE"})

TickTroubled ==
  /\ Quiet /\ mqtt.host # None /\ Troubled
  /\ Becomes([Fail(Now) EXCEPT !.mqtt.pending = FALSE])
  /\ UNCHANGED http

Ready(states) == Quiet /\ mqtt.host # None /\ ~Troubled /\ mqtt.state \in states

SynSent(port) ==
  [Unused EXCEPT !.state = "SYN_SENT", !.user = "mqtt", !.cb = TRUE, !.never = TRUE,
                 !.port = port, !.remote = mqtt.host]

(* mqtt_start_tcp, when the back-off is over, the link up and the next hop    *)
(* resolved; until then the client stays WAITING.                             *)
Connecting(w, p, port) ==
  [Placed(w, p, SynSent(port)) EXCEPT !.mqtt.pcb = p, !.mqtt.port = port,
                                      !.mqtt.failed = FALSE, !.mqtt.state = "TCP"]

TickStartTcp ==
  /\ Ready({"WAITING"})
  /\ \E r \in New(Now) :
       \/ r.p = 0 /\ Becomes(Fail(r.w)) /\ slot' = slot
       \/ /\ r.p # 0
          /\ \E port \in Ports \ {r.w.pcb[p].port : p \in Pcbs} :
               Becomes(Connecting(r.w, r.p, port))
          /\ slot' = Aged(slot, r.p)
  /\ UNCHANGED listener

TickConnect ==
  /\ Ready({"TCP"})
  /\ \/ ~Owned(Now) /\ Becomes(Fail(NoPcb(Now)))
     \/ /\ Owned(Now) /\ pcb[mqtt.pcb].state = "ESTABLISHED"
        /\ Becomes(IF Room(Now, mqtt.pcb, 1)
                   THEN [Written(Now, mqtt.pcb, 1) EXCEPT !.mqtt.state = "CONNACK"]
                   ELSE Fail(Now))
  /\ UNCHANGED http

(* No CONNACK in time. *)
TickConnack ==
  /\ Ready({"CONNACK"})
  /\ Becomes(Fail(IF Owned(Now) THEN Now ELSE NoPcb(Now)))
  /\ UNCHANGED http

(* Online: our address changed, the peer closed, no PINGRESP in time; else a  *)
(* report or a PINGREQ, if it fits.                                           *)
TickOnline ==
  /\ Ready({"ONLINE"})
  /\ \/ Becomes(Fail(Now))
     \/ /\ Owned(Now) /\ pcb[mqtt.pcb].state = "ESTABLISHED"
        /\ Room(Now, mqtt.pcb, 1) /\ Becomes(Written(Now, mqtt.pcb, 1))
  /\ UNCHANGED http

(* mqtt_tcp_recv: a CONNACK starts the session, which publishes at once;      *)
(* a PUBLISH is acknowledged; anything else unexpected ends the session at    *)
(* the next tick.                                                             *)
RxMqtt(p) ==
  /\ pcb[p].state = "ESTABLISHED" /\ pcb[p].user = "mqtt" /\ pcb[p].cb /\ p = mqtt.pcb
  /\ \/ /\ mqtt.state = "CONNACK"
        /\ Becomes(IF Owned(Now) /\ Room(Now, p, 1)
                   THEN [Written(Now, p, 1) EXCEPT !.mqtt.state = "ONLINE"]
                   ELSE [Now EXCEPT !.mqtt.state = "ONLINE", !.mqtt.pending = TRUE])
     \/ mqtt.state = "ONLINE" /\ Owned(Now) /\ Room(Now, p, 1) /\ Becomes(Written(Now, p, 1))
     \/ Becomes([Now EXCEPT !.mqtt.pending = TRUE])
  /\ UNCHANGED http
-----------------------------------------------------------------------------
Init ==
  /\ pcb = [p \in Pcbs |-> IF p = Least(Pcbs) THEN Listening ELSE Unused]
  /\ used = 0 /\ listener = Least(Pcbs)
  /\ \E h \in Brokers \cup {None} :
       mqtt = [state |-> IF h = None THEN "OFF" ELSE "WAITING", pcb |-> 0, port |-> 0,
               failed |-> FALSE, pending |-> FALSE, host |-> h, next |-> <<>>]
  /\ slot = [i \in ReqSlots |-> EmptySlot]

Tick == TickSettings \/ TickTroubled \/ TickStartTcp \/ TickConnect \/ TickConnack \/ TickOnline

Next ==
  \/ \E client \in Clients : RxSyn(client)
  \/ \E p \in Pcbs : \/ RxHandshake(p) \/ RxAck(p) \/ RxFin(p) \/ RxRst(p) \/ TimesOut(p)
                     \/ RxPart(p) \/ RxLast(p) \/ RxMqtt(p)
  \/ HttpStop \/ HttpStart \/ SelfTest
  \/ Tick

Spec == Init /\ [][Next]_vars
-----------------------------------------------------------------------------
Connection ==
  [state : Connected \cup {"UNUSED", "LISTEN"}, user : {"none", "http", "mqtt"},
   cb : BOOLEAN, never : BOOLEAN, port : Ports \cup {0, HttpPort},
   remote : Clients \cup Brokers \cup {None}, buf : 0 .. PcbMax,
   req : [kind : {"get", "post"}, parts : Nat, taken : Nat, applied : Nat,
          served : {"no", "once, whole", "wrong"}]]

Session ==
  [state : {"OFF", "WAITING", "TCP", "CONNACK", "ONLINE"}, pcb : Pcbs \cup {0},
   port : Ports \cup {0}, failed : BOOLEAN, pending : BOOLEAN,
   host : Brokers \cup {None}, next : Seq(Brokers \cup {None})]

(* The units in the send buffers of a table, each named by its connection and *)
(* its place there.                                                           *)
Units(table) == {u \in Pcbs \X (1 .. PcbMax) : u[2] <= table[u[1]].buf}

(* Every unit of the pool in use belongs to a connection, and no connection   *)
(* has more than its share: what ends, by whatever way, gives its units back. *)
TypeOK ==
  /\ pcb \in [Pcbs -> Connection]
  /\ used <= Pool /\ used = Cardinality(Units(pcb))
  /\ mqtt \in Session /\ listener \in Pcbs \cup {0}
  /\ slot \in [ReqSlots -> [pcb : Pcbs \cup {0}, buf : Seq(Nat), foreign : BOOLEAN]]

(* A connection the server closes has been answered from all of its own       *)
(* request and from nothing else, whatever connection had its slots before    *)
(* and however often a segment was deferred; a POST is applied once (REV-13). *)
ServedOnceFromItsOwn ==
  \A p \in Pcbs :
    /\ pcb[p].user = "http" /\ pcb[p].state = "FIN_WAIT" => pcb[p].req.served = "once, whole"
    /\ pcb[p].req.applied <= 1

(* A slot that no timer frees has an owner that points at it: the listener of *)
(* the running server, and the open connection of the MQTT client ("a slot    *)
(* that is no longer ours must never be written, closed or aborted").         *)
LastingSlotsAreOwned ==
  /\ \A p \in Pcbs : pcb[p].state = "LISTEN" <=> (listener # 0 /\ listener = p)
  /\ \A p \in Pcbs : (pcb[p].never /\ pcb[p].state \in {"SYN_SENT", "ESTABLISHED"}) => mqtt.pcb = p
=============================================================================
