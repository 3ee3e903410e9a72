--------------------------------- MODULE Dhcp ---------------------------------
(* The DHCP client of src/src/dhcp.c with a server of the network, a network  *)
(* that loses, delays, repeats and reorders, the Wi-Fi link underneath and    *)
(* the setup mode that takes the address away.  Times are what is left of     *)
(* them, in clock units, and zero where no code reads them.                   *)
EXTENDS Naturals, FiniteSets

CONSTANTS Addr,        \* the server's addresses
          NoAddr,      \* 0.0.0.0
          ApAddr,      \* NET_DEFAULT_IP, the address of the setup SoftAP
          Lease,       \* the lease time
          Options,     \* pairs of T1 and T2 the server sends, 0 for none
          BackoffInitial, BackoffMax, Jitter,   \* DHCP_CLIENT_BACKOFF_*_US
          RenewMin,    \* DHCP_CLIENT_RENEW_MIN_RETRY_US
          MaxTries,    \* DHCP_CLIENT_REQUEST_MAX_TRIES
          MaxWire      \* bound: messages under way

ASSUME AddrAssumption == NoAddr \notin Addr /\ ApAddr \notin Addr /\ NoAddr # ApAddr
ASSUME NumberAssumption ==
  /\ {Lease, BackoffInitial, BackoffMax, Jitter, RenewMin, MaxTries, MaxWire} \subseteq Nat
  /\ Lease >= 2 /\ BackoffInitial >= 1
  /\ Jitter <= BackoffInitial /\ BackoffInitial <= BackoffMax
  /\ Options \subseteq Nat \X Nat

VARIABLES
  c,       \* s_dhcp_client_telem and the lease and exchange variables
  net,     \* s_net_config.ip
  linked,  \* the station is associated
  setup,   \* setup mode: the SoftAP is up, the station paused
  leaving, \* a request to join again is not served yet
  retry,   \* the link was lost, and the board has not joined again since
  ticked,  \* dhcp_client_tick has run since the clock moved, or a lease began
  wire,    \* the messages under way
  owner, left  \* the server's leases: whose each address is, and for how long

client == <<c, net>>
link   == <<linked, setup, leaving, retry>>
server == <<owner, left>>
vars   == <<client, link, ticked, wire, server>>

State == {"IDLE", "DISCOVERING", "REQUESTING", "BOUND", "REBOOTING", "RENEWING", "REBINDING"}
Requesting == {"REQUESTING", "REBOOTING", "RENEWING", "REBINDING"}

(* Every message carries an xid; current: that of the client's exchange.      *)
Query(type, ip)          == [type |-> type, ip |-> ip, option |-> <<0, 0>>, current |-> TRUE]
Answer(q, type, ip, opt) == [type |-> type, ip |-> ip, option |-> opt, current |-> q.current]

\* mutant: an exchange keeps the transaction number of the last one
NewXid_Same(w) == w

(* dhcp_client_new_xid: whatever is under way belongs to an older exchange.   *)
NewXid(w) == {[m EXCEPT !.current = FALSE] : m \in w}
-----------------------------------------------------------------------------
(* Timers. *)

Less(n) == IF n = 0 THEN 0 ELSE n - 1
Least(m, n) == IF m < n THEN m ELSE n

Jittered(d) == (d - Jitter) .. (d + Jitter)
NextBackoff(d) == Least(2 * d, BackoffMax)
RenewRetry(remaining) == IF remaining \div 2 < RenewMin THEN RenewMin ELSE remaining \div 2

(* T1 and T2 of an ACK: the server's only when they are in order.             *)
T2(opt) == IF opt[2] # 0 /\ opt[2] < Lease THEN opt[2] ELSE (Lease * 7) \div 8

\* mutant: T1 is the server's even when it is after T2
T1_AsSent(opt) == IF opt[1] # 0 THEN opt[1] ELSE Least(Lease \div 2, T2(opt))

T1(opt) == IF opt[1] # 0 /\ opt[1] < T2(opt) THEN opt[1] ELSE Least(Lease \div 2, T2(opt))

\* mutant: a lease counts from its ACK
Point_FromAck(s, n) == n

(* dhcp_client_lease_point_us: a lease counts from the first REQUEST.         *)
Point(s, n) == IF s.age >= n THEN 0 ELSE n - s.age
-----------------------------------------------------------------------------
(* dhcp_client_transmit for the state in s, over the messages w: the message  *)
(* gets on its way or not (refused by the driver, or lost).                   *)
Message(s) ==
  IF s.state = "DISCOVERING" THEN Query("DISCOVER", NoAddr) ELSE Query("REQUEST", s.ip)

Transmit(s, w) ==
  /\ \E wait \in CASE s.state = "DISCOVERING"                -> Jittered(s.disc_backoff)
                   [] s.state \in {"REQUESTING", "REBOOTING"} -> Jittered(s.req_backoff)
                   [] s.state = "RENEWING"                   -> {RenewRetry(s.t2)}
                   [] s.state = "REBINDING"                  -> {RenewRetry(s.end)} :
       c' = [s EXCEPT !.next = wait,
               !.tries = Least(@ + 1, MaxTries),
               !.disc_backoff = IF s.state = "DISCOVERING" THEN NextBackoff(@) ELSE @,
               !.req_backoff = IF s.state \in {"REQUESTING", "REBOOTING"} THEN NextBackoff(@) ELSE @]
  /\ \/ wire' = w
     \/ Cardinality(w) < MaxWire /\ wire' = w \cup {Message(s)}

(* dhcp_client_start_request *)
StartRequest(s, state, w) ==
  Transmit([s EXCEPT !.state = state, !.tries = 0, !.req_backoff = BackoffInitial, !.age = 0], w)

(* dhcp_client_enter_init *)
Discovering(s, delay) ==
  [s EXCEPT !.state = "DISCOVERING", !.tries = 0, !.next = delay, !.age = 0,
            !.req_backoff = BackoffInitial]

\* mutant: giving the lease up clears whatever address the board has
NetAfterDrop_Always(s, n) == NoAddr

(* dhcp_client_drop_lease: the lease, and the address if it is in use.        *)
Dropped(s) == [s EXCEPT !.lease_valid = FALSE, !.ip = NoAddr, !.t1 = 0, !.t2 = 0, !.end = 0]
NetAfterDrop(s, n) ==
  IF s.state \in {"BOUND", "RENEWING", "REBINDING", "REBOOTING"} THEN NoAddr ELSE n

(* dhcp_client_bind *)
Bound(s, m) ==
  [s EXCEPT !.ip = m.ip, !.state = "BOUND", !.lease_valid = TRUE, !.tries = 0, !.next = 0, !.age = 0,
            !.disc_backoff = BackoffInitial, !.req_backoff = BackoffInitial,
            !.t1 = Point(s, T1(m.option)), !.t2 = Point(s, T2(m.option)), !.end = Point(s, Lease)]
-----------------------------------------------------------------------------
(* dhcp_client_tick *)

Expired == c.lease_valid /\ c.end = 0

TickExpired ==
  /\ ~ticked /\ Expired
  /\ net' = NetAfterDrop(c, net)
  /\ IF c.state = "IDLE" THEN c' = Dropped(c) /\ wire' = wire
     ELSE Transmit(Discovering(Dropped(c), 0), NewXid(wire))
  /\ ticked' = TRUE
  /\ UNCHANGED <<link, server>>

Due ==
  CASE c.state = "IDLE"  -> FALSE
    [] c.state = "BOUND" -> c.t1 = 0
    [] c.state = "RENEWING" -> c.next = 0 \/ c.t2 = 0
    [] OTHER             -> c.next = 0

\* mutant: only an INIT-REBOOT is given up
GivesUp_OnlyReboot == c.state = "REBOOTING" /\ c.tries >= MaxTries

GivesUp == c.state \in {"REQUESTING", "REBOOTING"} /\ c.tries >= MaxTries

TickDue ==
  /\ ~ticked /\ ~Expired /\ Due /\ ~GivesUp
  /\ CASE c.state = "BOUND" -> StartRequest(c, "RENEWING", NewXid(wire))
       [] c.state = "RENEWING" /\ c.t2 = 0 -> Transmit([c EXCEPT !.state = "REBINDING"], wire)
       [] OTHER -> Transmit(c, wire)
  /\ ticked' = TRUE
  /\ UNCHANGED <<net, link, server>>

(* Back to DISCOVER; an unanswered INIT-REBOOT does not keep the old address. *)
TickGivesUp ==
  /\ ~ticked /\ ~Expired /\ Due /\ GivesUp
  /\ LET s == IF c.state = "REBOOTING" THEN Dropped(c) ELSE c
     IN Transmit(Discovering(s, 0), NewXid(wire))
  /\ net' = IF c.state = "REBOOTING" THEN NetAfterDrop(c, net) ELSE net
  /\ ticked' = TRUE
  /\ UNCHANGED <<link, server>>

TickIdle ==
  /\ ~ticked /\ ~Expired /\ ~Due
  /\ ticked' = TRUE
  /\ UNCHANGED <<client, link, wire, server>>
-----------------------------------------------------------------------------
(* dhcp_client_process_packet.  A message may arrive again.                   *)

Takes(m) == linked /\ m \in wire

Rest(m, again) == IF again THEN wire ELSE wire \ {m}

RxOffer(m) ==
  /\ Takes(m) /\ m.type = "OFFER" /\ m.current /\ c.state = "DISCOVERING"
  /\ \E again \in BOOLEAN : StartRequest([c EXCEPT !.ip = m.ip], "REQUESTING", Rest(m, again))
  /\ UNCHANGED <<net, link, ticked, server>>

RxAck(m) ==
  /\ Takes(m) /\ m.type = "ACK" /\ m.current /\ c.state \in Requesting
  /\ c' = Bound(c, m) /\ net' = m.ip /\ ticked' = FALSE
  /\ \E again \in BOOLEAN : wire' = Rest(m, again)
  /\ UNCHANGED <<link, server>>

RxNak(m) ==
  /\ Takes(m) /\ m.type = "NAK" /\ m.current /\ c.state \in Requesting
  /\ \E delay \in Jittered(c.disc_backoff) :
       c' = [Discovering(Dropped(c), delay) EXCEPT !.disc_backoff = NextBackoff(@)]
  /\ net' = NetAfterDrop(c, net)
  /\ \E again \in BOOLEAN : wire' = NewXid(Rest(m, again))
  /\ UNCHANGED <<link, ticked, server>>

(* A message is lost, or one to the client is of no use to it. *)
Drop(m) ==
  /\ m \in wire /\ wire' = wire \ {m}
  /\ UNCHANGED <<client, link, ticked, server>>
-----------------------------------------------------------------------------
(* The link and its users. *)

Stopped(s) ==                                               \* dhcp_client_stop
  [s EXCEPT !.state = "IDLE", !.t1 = 0, !.t2 = 0, !.next = 0, !.age = 0, !.tries = 0,
            !.req_backoff = BackoffInitial, !.disc_backoff = BackoffInitial]

StartsReboot(s) == s.lease_valid /\ s.end > 0

(* dhcp_client_start, from WIFI_EVENT_STA_CONNECTED or the hand-over.         *)
Start(s) ==
  LET fresh == [s EXCEPT !.disc_backoff = BackoffInitial]
  IN IF StartsReboot(s) THEN StartRequest(fresh, "REBOOTING", NewXid(wire))
     ELSE Transmit([fresh EXCEPT !.lease_valid = FALSE, !.state = "DISCOVERING", !.tries = 0],
                   NewXid(wire))

(* WIFI_EVENT_STA_CONNECTED: after a join of the board, or because the        *)
(* library associates again by itself while the board waits to join.          *)
LinkUp ==
  /\ ~linked /\ ~setup
  /\ Start(c)
  /\ linked' = TRUE
  /\ UNCHANGED <<net, setup, leaving, retry, ticked, server>>

(* WIFI_EVENT_STA_DISCONNECTED; provisioning will join again.                 *)
LinkDown ==
  /\ linked /\ linked' = FALSE /\ retry' = TRUE
  /\ c' = Stopped(c)
  /\ UNCHANGED <<net, setup, leaving, ticked, wire, server>>

(* provisioning_request_join over the LAN calls dhcp_client_forget; the next  *)
(* provisioning_tick leaves the network and joins again.                      *)
Forgotten(s) == [s EXCEPT !.lease_valid = FALSE, !.end = 0, !.ip = IF s.state = "IDLE" THEN NoAddr ELSE @]

RequestJoin ==
  /\ linked /\ ~leaving /\ leaving' = TRUE
  /\ c' = Forgotten(c)
  /\ UNCHANGED <<net, linked, setup, retry, ticked, wire, server>>

(* prov_join_begin, in the next turn of the main loop after a request, or     *)
(* after the wait after a loss: wpa2_client_join leaves the network, clears   *)
(* the address and stops the client.                                          *)
Rejoin ==
  /\ leaving \/ retry
  /\ leaving' = FALSE /\ retry' = FALSE /\ linked' = FALSE
  /\ c' = Stopped(c) /\ net' = NoAddr
  /\ UNCHANGED <<setup, ticked, wire, server>>

(* Setup mode: the station is paused and the board has the SoftAP's address.  *)
SetupOpen ==
  /\ ~setup /\ setup' = TRUE /\ linked' = FALSE /\ leaving' = FALSE /\ retry' = FALSE
  /\ c' = Stopped(c) /\ net' = ApAddr
  /\ UNCHANGED <<ticked, wire, server>>

SetupClose ==
  /\ setup /\ setup' = FALSE /\ net' = NoAddr /\ retry' = TRUE
  /\ UNCHANGED <<c, linked, leaving, ticked, wire, server>>

(* New credentials over the portal: forgotten, joined beside the SoftAP, and  *)
(* handed over by wifi_sta_take_over.                                         *)
PortalJoin ==
  /\ setup /\ setup' = FALSE /\ linked' = TRUE /\ net' = NoAddr
  /\ Start(Stopped(Forgotten(c)))
  /\ UNCHANGED <<leaving, retry, ticked, server>>

(* The main loop turns many times in a unit.                                  *)
Clock ==
  /\ ticked /\ ~leaving /\ ticked' = FALSE
  /\ c' = [c EXCEPT !.t1 = Less(@), !.t2 = Less(@), !.end = Less(@), !.next = Less(@),
                    !.age = IF c.state \in Requesting THEN Least(@ + 1, Lease) ELSE 0]
  /\ left' = [a \in Addr |-> Less(left[a])]
  /\ owner' = [a \in Addr |-> IF left[a] <= 1 THEN "none" ELSE owner[a]]
  /\ UNCHANGED <<net, link, wire>>
-----------------------------------------------------------------------------
(* The server (external) keeps its word: an address has one owner until its   *)
(* lease ends.                                                                *)

Reply(q, w, type, ip, opt) ==
  \/ wire' = w
  \/ Cardinality(w) < MaxWire /\ wire' = w \cup {Answer(q, type, ip, opt)}

Offered == IF \E a \in Addr : owner[a] = "client" THEN {a \in Addr : owner[a] = "client"}
           ELSE {a \in Addr : owner[a] = "none"}

ServerOffers(m) ==
  /\ m \in wire /\ m.type = "DISCOVER"
  /\ \E a \in Offered : Reply(m, wire \ {m}, "OFFER", a, <<0, 0>>)
  /\ UNCHANGED <<client, link, ticked, server>>

ServerRules(m) ==
  /\ m \in wire /\ m.type = "REQUEST"
  /\ IF m.ip \in Addr /\ owner[m.ip] \in {"none", "client"}
     THEN /\ owner' = [owner EXCEPT ![m.ip] = "client"] /\ left' = [left EXCEPT ![m.ip] = Lease]
          /\ \E opt \in Options : Reply(m, wire \ {m}, "ACK", m.ip, opt)
     ELSE Reply(m, wire \ {m}, "NAK", NoAddr, <<0, 0>>) /\ UNCHANGED server
  /\ UNCHANGED <<client, link, ticked>>

(* Another host gets a free address; the station comes to another network.    *)
OtherHost ==
  /\ \E a \in Addr : /\ owner[a] = "none"
                     /\ \A b \in Addr : owner[b] # "other"
                     /\ owner' = [owner EXCEPT ![a] = "other"]
                     /\ left' = [left EXCEPT ![a] = Lease]
  /\ UNCHANGED <<client, link, ticked, wire>>

Roam ==
  /\ ~linked
  /\ owner' = [a \in Addr |-> "none"] /\ left' = [a \in Addr |-> 0] /\ wire' = {}
  /\ UNCHANGED <<client, link, ticked>>
-----------------------------------------------------------------------------
Init ==
  /\ c = [state |-> "IDLE", ip |-> NoAddr, lease_valid |-> FALSE, t1 |-> 0, t2 |-> 0, end |-> 0,
          age |-> 0, next |-> 0, tries |-> 0,
          req_backoff |-> BackoffInitial, disc_backoff |-> BackoffInitial]
  /\ net = NoAddr /\ linked = FALSE /\ setup = FALSE /\ leaving = FALSE /\ retry = FALSE
  /\ ticked = TRUE
  /\ wire = {}
  /\ owner = [a \in Addr |-> "none"] /\ left = [a \in Addr |-> 0]

Tick == TickExpired \/ TickDue \/ TickGivesUp \/ TickIdle

Next ==
  \/ Tick
  \/ \E m \in wire : RxOffer(m) \/ RxAck(m) \/ RxNak(m) \/ Drop(m)
  \/ LinkUp \/ LinkDown \/ RequestJoin \/ Rejoin
  \/ SetupOpen \/ SetupClose \/ PortalJoin
  \/ Clock
  \/ \E m \in wire : ServerOffers(m) \/ ServerRules(m)
  \/ OtherHost \/ Roam

(* The main loop keeps turning, and so does the clock. *)
Fairness == WF_vars(Tick) /\ WF_vars(Rejoin) /\ WF_vars(Clock)

Spec == Init /\ [][Next]_vars /\ Fairness
-----------------------------------------------------------------------------
(* A lease is renewed, then rebound, then over, in this order, also when the  *)
(* server's T1 and T2 make no sense (RFC 2131 4.4.5, dhcp_client_bind).       *)
TypeOK ==
  /\ c \in [state : State, ip : Addr \cup {NoAddr}, lease_valid : BOOLEAN,
            t1 : 0 .. Lease, t2 : 0 .. Lease, end : 0 .. Lease, age : 0 .. Lease, next : Nat,
            tries : 0 .. MaxTries, req_backoff : 1 .. BackoffMax, disc_backoff : 1 .. BackoffMax]
  /\ c.lease_valid => c.t1 <= c.t2 /\ c.t2 <= c.end
  /\ net \in Addr \cup {NoAddr, ApAddr}
  /\ {linked, setup, leaving, retry, ticked} \subseteq BOOLEAN
  /\ Cardinality(wire) <= MaxWire
  /\ owner \in [Addr -> {"none", "client", "other"}] /\ left \in [Addr -> 0 .. Lease]

(* "The address must not be used any more" once the lease is over             *)
(* (dhcp_client_tick): an associated station that has an address holds the    *)
(* server's lease for it, whatever was delayed, repeated or lost, from the    *)
(* tick of a unit to the next turn of the clock; a station about to leave has *)
(* one more turn of the main loop.  The code leaves one window, and this is   *)
(* all of it: after a loss (retry) the old address stays until the board      *)
(* joins again, and if the library associates by itself before that, it is    *)
(* used without a lease until the client is bound, or the join clears it.     *)
AddressIsLeased ==
  (linked /\ ~leaving /\ net \in Addr) =>
    \/ owner[net] = "client"
    \/ ~ticked /\ c.end = 0
    \/ retry /\ c.state \notin {"BOUND", "RENEWING", "REBINDING"}

(* The end of a lease never takes away the address of the setup SoftAP.       *)
ApAddressStays == setup => net = ApAddr

(* A client that asks for an address nobody answers for does not ask for ever:*)
(* it goes back to DISCOVER by its tries or by the end of the lease, however  *)
(* the server answers or keeps silent.                                        *)
ExchangeEnds == (c.state \in Requesting) ~> (c.state \notin Requesting)
=============================================================================
