--------------------------------- MODULE Tcp ---------------------------------
(* The TCP engine of src/src/tcp.c: two endpoints run it, a client and a      *)
(* server, over a network that loses, repeats and reorders segments.  Every   *)
(* handler (tcp_input, tcp_tick, the calls of the application) is one action; *)
(* time is abstract, so that a timer that runs may fire at any moment.        *)
EXTENDS Integers, Sequences, FiniteSets

CONSTANTS
  MaxBytes,      \* bound: endpoint -> the bytes its application writes at most
  SeqMod,        \* sequence numbers are modulo SeqMod (2^32 in the code)
  Isn,           \* endpoint -> the initial sequence numbers of its connections, in order
  Mss,           \* TCP_DEFAULT_SEGMENT_MSS, in bytes of the model
  InitialCwnd,   \* TCP_INITIAL_CWND_BYTES
  MaxCwnd,       \* TCP_CWND_MAX_BYTES, also TCP_SNDBUF_PCB_MAX_BYTES
  MaxRetries,    \* TCP_MAX_RETRIES, TCP_SYN_MAX_RETRIES and TCP_SYNACK_MAX_RETRIES
  MaxBlocked,    \* TCP_TX_BLOCKED_MAX
  Aborters,      \* bound: the endpoints whose application may abort at any moment
  Budgets        \* bounds, one taken per behaviour: connections opened, handlers in which
                 \* the driver refuses a frame, timeouts that send again, and the windows
                 \* the client's peer advertises

End     == {"client", "server"}
Peer(e) == IF e = "client" THEN "server" ELSE "client"
SeqNum  == 0 .. SeqMod - 1

ASSUME BytesAssumption == MaxBytes \in [End -> Nat]
ASSUME SeqAssumption ==
  /\ SeqMod \in Nat \ {0} /\ SeqMod % 2 = 0
  /\ \A e \in End : MaxBytes[e] + 2 < SeqMod \div 2
ASSUME SizeAssumption ==
  /\ {Mss, InitialCwnd, MaxCwnd} \subseteq Nat \ {0} /\ Mss <= MaxCwnd /\ InitialCwnd <= MaxCwnd
  /\ {MaxRetries, MaxBlocked} \subseteq Nat
  /\ Aborters \subseteq End /\ Budgets \subseteq [conns : Nat, refusals : Nat, resends : Nat, windows : SUBSET Nat]
ASSUME IsnAssumption ==
  /\ Isn \in [End -> Seq(SeqNum)]
  /\ \A e \in End, budget \in Budgets : budget.conns <= Len(Isn[e])

VARIABLES
  pcb,        \* endpoint -> its tcp_pcb_t; [state |-> "CLOSED", ...] is a free slot
  listening,  \* endpoint -> a listening PCB exists
  net,        \* endpoint -> the segments ever sent to it: each may arrive now, again or never
  opened,     \* endpoint -> connections opened so far, which numbers the ISNs
  left,       \* what is left of the budget
  written,    \* history: endpoint -> bytes tcp_write accepted
  delivered,  \* history: endpoint -> the bytes its recv_cb took, in order
  outcome     \* history: endpoint -> how its last connection ended

hist   == <<written, delivered, outcome>>
bounds == <<opened, left>>
vars   == <<pcb, listening, net, bounds, hist>>

State == {"CLOSED", "SYN_SENT", "SYN_RECEIVED", "ESTABLISHED", "FIN_WAIT_1", "FIN_WAIT_2",
          "CLOSE_WAIT", "CLOSING", "LAST_ACK", "TIME_WAIT"}

Smaller(a, b) == IF a < b THEN a ELSE b

\* mutant: an unsigned comparison, which breaks where the numbers wrap
SeqLt_Unsigned(a, b) == a < b

(* TCP_SEQ_LT: the sign bit of the difference. *)
SeqLt(a, b) == (a - b) % SeqMod >= SeqMod \div 2
SeqDist(a, b) == (a - b) % SeqMod        \* a - b as an unsigned number
Plus(a, n) == (a + n) % SeqMod

(* An endpoint's ISNs lie further apart than a connection's bytes, SYN and    *)
(* FIN reach.  They are random (tcp.c:496), so this is likely and not sure:   *)
(* nothing here assumes it, and what needs it says so.                        *)
Apart ==
  \A e \in End : \A i, j \in DOMAIN Isn[e] : i # j => SeqDist(Isn[e][i], Isn[e][j]) > MaxBytes[e] + 1
-----------------------------------------------------------------------------
(* tcp_pcb_claim, and the free slot it starts from. *)
Claimed(isn) ==
  [state |-> "CLOSED", una |-> isn, nxt |-> isn, max |-> isn,  \* snd_una, snd_nxt, snd_max
   wnd |-> InitialCwnd, cwnd |-> InitialCwnd,                  \* snd_wnd, cwnd
   rcv |-> 0,                                                  \* rcv_nxt
   buf |-> <<>>,                                               \* the send buffer's bytes
   fin_queued |-> FALSE, fin_sent |-> FALSE,
   timer |-> "off",     \* rtx_armed, and what the deadline was set for: "rto" or "retry"
   tx_blocked |-> FALSE, blocked |-> 0,                        \* tx_blocked_count
   retries |-> 0]

FreeSlot == Claimed(0)

InUse(p) == p.state # "CLOSED"

(* A handler's working state: the PCB, the segments the driver took, how many *)
(* more it will take, whether it refused one, and ack_pending.                *)
Work(p, room) == [p |-> p, sent |-> {}, room |-> room, refused |-> FALSE, ackDue |-> FALSE]

Ample == 3 + SeqMod      \* more than any handler sends

Segment(p, flags, seq, data) ==
  [flags |-> flags, seq |-> seq, ack |-> IF "ACK" \in flags THEN p.rcv ELSE 0, data |-> data]

(* tcp_send_segment: wifi_tx_packet may refuse the frame, and the pending ACK *)
(* counts as sent all the same.                                               *)
Send(c, flags, seq, data) ==
  [c EXCEPT !.sent   = IF c.room > 0 THEN @ \cup {Segment(c.p, flags, seq, data)} ELSE @,
            !.room   = IF @ > 0 THEN @ - 1 ELSE 0,
            !.refused = @ \/ c.room = 0,
            !.ackDue = @ /\ "ACK" \notin flags]

SendCtl(c, flags) == Send(c, flags, c.p.nxt, <<>>)
Accepted(c)       == c.room > 0         \* the next Send succeeds

NoteSent(p) == IF SeqLt(p.max, p.nxt) THEN [p EXCEPT !.max = p.nxt] ELSE p

Arm(p) == [p EXCEPT !.timer = "rto"]
ArmIfOff(p) == IF p.timer = "off" THEN Arm(p) ELSE p
-----------------------------------------------------------------------------
(* tcp_output. *)

CanSendData(st) == st \in {"ESTABLISHED", "CLOSE_WAIT", "FIN_WAIT_1", "CLOSING", "LAST_ACK"}

(* tcp_tx_blocked, while it returns true. *)
Block(p) == [p EXCEPT !.tx_blocked = TRUE, !.blocked = @ + 1, !.timer = "retry"]

(* One segment of n bytes behind the sent ones, with the FIN if it is due.    *)
(* Refused by the driver once too often, it counts as sent and lost.          *)
Emit(c, sent, n, fin) ==
  LET flags   == {"ACK"} \cup (IF fin THEN {"FIN"} ELSE {})
      data    == SubSeq(c.p.buf, sent + 1, sent + n)
      tried   == Send(c, flags, c.p.nxt, data)
      refused == IF Accepted(c) THEN 0 ELSE c.p.blocked
      counted == IF Accepted(c) \/ refused >= MaxBlocked THEN 0 ELSE c.p.blocked
      moved   == [tried.p EXCEPT !.nxt = Plus(@, n + (IF fin THEN 1 ELSE 0)),
                                 !.fin_sent = fin, !.blocked = counted]
  IN IF ~Accepted(c) /\ refused < MaxBlocked
     THEN [tried EXCEPT !.p = Block(@)]
     ELSE [tried EXCEPT !.p = ArmIfOff(NoteSent(moved))]

Limit(p, probe, sent) ==
  LET limit == Smaller(p.wnd, p.cwnd)
  IN IF probe /\ limit = 0 /\ sent = 0 THEN 1 ELSE limit

(* One turn of the loop: a data segment, then the FIN alone, or nothing.      *)
Turn(c, probe) ==
  LET p    == c.p
      sent == SeqDist(p.nxt, p.una)
      n    == Smaller(Smaller(Len(p.buf) - sent, Mss), Limit(p, probe, sent) - sent)
      fin  == p.fin_queued /\ sent + n = Len(p.buf)
  IN IF ~CanSendData(p.state) \/ p.fin_sent \/ p.tx_blocked THEN c
     ELSE IF sent < Len(p.buf)
          THEN IF sent >= Limit(p, probe, sent) THEN [c EXCEPT !.p = ArmIfOff(@)] ELSE Emit(c, sent, n, fin)
          ELSE IF sent = Len(p.buf) /\ p.fin_queued THEN Emit(c, sent, 0, TRUE) ELSE c

(* Every turn that sends data sends a byte at least, so that one more than    *)
(* the buffer has bytes are enough: further turns change nothing.             *)
Turns(c, probe) ==
  LET turn[i \in 0 .. Len(c.p.buf) + 1] == IF i = 0 THEN c ELSE Turn(turn[i - 1], probe)
  IN turn

Output(c, probe) == Turns(c, probe)[Len(c.p.buf) + 1]
-----------------------------------------------------------------------------
(* tcp_process_ack: the PCB afterwards. *)

\* mutant: an old ACK is taken for a new one
AckOutside_NoLower(p, ack) == SeqLt(p.max, ack)

AckOutside(p, ack) == SeqLt(ack, p.una) \/ SeqLt(p.max, ack)

\* mutant: the timer stops although the ACK was partial
AckTimer_Off(p, ack) == "off"

AckTimer(p, ack) ==
  IF p.tx_blocked THEN p.timer          \* keep the short local-TX retry timer
  ELSE IF ack = p.max THEN "off" ELSE "rto"

\* mutant: the congestion window grows without its cap
GrownCwnd_Uncapped(p) == p.cwnd + Mss

GrownCwnd(p) == Smaller(p.cwnd + Mss, MaxCwnd)

ProcessAck(p, ack, wnd) ==
  LET acked == SeqDist(ack, p.una)
      fin   == p.fin_queued /\ acked > Len(p.buf)
      rest  == SubSeq(p.buf, Smaller(acked, Len(p.buf)) + 1, Len(p.buf))
  IN CASE AckOutside(p, ack) -> p
       [] ~AckOutside(p, ack) /\ ack = p.una -> [p EXCEPT !.wnd = wnd]
       [] OTHER -> [p EXCEPT !.wnd = wnd, !.buf = rest, !.una = ack,
                             !.nxt = IF SeqLt(@, ack) THEN ack ELSE @,
                             !.fin_sent = @ \/ fin,
                             !.retries = 0,
                             !.cwnd = GrownCwnd(p),
                             !.timer = AckTimer(p, ack)]

FinAcked(p, ack) ==
  ~AckOutside(p, ack) /\ p.fin_queued /\ p.fin_sent /\ p.una = p.max
-----------------------------------------------------------------------------
(* tcp_receive.  The part of the payload that is new, when the segment covers *)
(* rcv_nxt, and whether its FIN is in order.                                  *)

\* mutant: an overlapping segment is delivered whole
NewBytes_Whole(p, s) == s.data

NewBytes(p, s) == SubSeq(s.data, SeqDist(p.rcv, s.seq) + 1, Len(s.data))

InOrder(p, s) ==
  \/ s.seq = p.rcv
  \/ SeqLt(s.seq, p.rcv) /\ SeqLt(p.rcv, Plus(s.seq, Len(s.data)))

Carries(s) == s.data # <<>> \/ "FIN" \in s.flags

CanTakeData(st) == st \in {"ESTABLISHED", "FIN_WAIT_1", "FIN_WAIT_2"}

Takes(p, s) == Carries(s) /\ InOrder(p, s) /\ CanTakeData(p.state)

(* The peer's FIN moves the connection on; ours may have been acknowledged.   *)
AfterFin(p) ==
  CASE p.state = "ESTABLISHED" -> "CLOSE_WAIT"
    [] p.state = "FIN_WAIT_1"  -> IF p.fin_sent /\ p.una = p.max THEN "TIME_WAIT" ELSE "CLOSING"
    [] OTHER                   -> "TIME_WAIT"

(* tcp_close as the application may call it inside recv_cb, having written n  *)
(* more bytes first; tcp_input flushes afterwards.                            *)
Reply(e, p, n) ==
  IF p.state = "ESTABLISHED"
  THEN [p EXCEPT !.buf = @ \o [i \in 1 .. n |-> written[e] + i],
                 !.state = "FIN_WAIT_1", !.fin_queued = TRUE]
  ELSE p
-----------------------------------------------------------------------------
Init ==
  /\ pcb = [e \in End |-> FreeSlot]
  /\ listening = [e \in End |-> e = "server"]
  /\ net = [e \in End |-> {}]
  /\ opened = [e \in End |-> 0] /\ left \in Budgets
  /\ written = [e \in End |-> 0]
  /\ delivered = [e \in End |-> <<>>]
  /\ outcome = [e \in End |-> "none"]

(* The end of a handler: the PCB and the segments on the air.  A segment for  *)
(* an endpoint that will open no connection any more meets no PCB, and is not *)
(* kept.                                                                      *)
Commit(e, c) ==
  LET gone(p, x) == ~InUse(p) /\ (left.conns = 0 \/ (~listening[x] /\ opened[x] > 0))
  IN /\ pcb' = [pcb EXCEPT ![e] = c.p]
     /\ net' = [net EXCEPT ![e] = IF gone(c.p, e) THEN {} ELSE @,
                           ![Peer(e)] = IF gone(pcb[Peer(e)], Peer(e)) THEN {} ELSE @ \cup c.sent]

(* tcp_pcb_free; how tells the application (err_cb) or the reader.            *)
Release(e, c, how) ==
  /\ Commit(e, [c EXCEPT !.p = FreeSlot])
  /\ outcome' = [outcome EXCEPT ![e] = how]

(* cost: a record of some of the budget's fields. *)
Spend(cost) ==
  /\ \A k \in DOMAIN cost : left[k] >= cost[k]
  /\ left' = [k \in DOMAIN left |-> IF k \in DOMAIN cost THEN left[k] - cost[k] ELSE left[k]]

Windows(e) == IF listening[e] THEN {MaxCwnd} ELSE left.windows

(* The frames the driver takes from tcp_output in one handler.  A control     *)
(* segment it refuses is the same as a lost one, which net covers.            *)
Room == {Ample} \cup IF left.refusals > 0 THEN {0, 1} ELSE {}
Driver(room, c, resends) ==
  /\ c.refused <=> room # Ample
  /\ Spend([refusals |-> IF c.refused THEN 1 ELSE 0, resends |-> resends])

NewIsn(e) == Isn[e][opened[e] + 1]

(* The SYN or SYN-ACK of a new connection: sent from snd_nxt, then counted.   *)
Open(e, p, flags) ==
  LET out     == SendCtl(Work(p, Ample), flags)
      counted == [out.p EXCEPT !.nxt = Plus(@, 1)]
  IN /\ Spend([conns |-> 1])
     /\ opened' = [opened EXCEPT ![e] = @ + 1]
     /\ Commit(e, [out EXCEPT !.p = Arm(NoteSent(counted))])

(* tcp_new and tcp_connect. *)
Connect(e) ==
  /\ ~listening[e] /\ opened[e] = 0
  /\ Open(e, [Claimed(NewIsn(e)) EXCEPT !.state = "SYN_SENT"], {"SYN"})
  /\ UNCHANGED <<listening, hist>>

(* A SYN for the listener, or for a slot in TIME_WAIT, which is used again:    *)
(* the server's or, by an old SYN-ACK, the client's.                          *)
RecvSyn(e, s) ==
  /\ "SYN" \in s.flags /\ "RST" \notin s.flags
  /\ \/ listening[e] /\ ~InUse(pcb[e])
     \/ pcb[e].state = "TIME_WAIT"
  /\ \E wnd \in Windows(e) :
       Open(e, [Claimed(NewIsn(e)) EXCEPT !.state = "SYN_RECEIVED", !.rcv = Plus(s.seq, 1), !.wnd = wnd],
            {"SYN", "ACK"})
  /\ UNCHANGED <<listening, hist>>

RecvRst(e, s) ==
  /\ "RST" \in s.flags
  /\ InUse(pcb[e])
  /\ Release(e, Work(pcb[e], 0), "error")
  /\ UNCHANGED <<listening, bounds, written, delivered>>

(* tcp_set_established. *)
Established(p, ack, wnd) ==
  [p EXCEPT !.state = "ESTABLISHED", !.una = ack, !.wnd = wnd, !.retries = 0, !.timer = "off"]

RecvSynSent(e, s) ==
  /\ pcb[e].state = "SYN_SENT"
  /\ "RST" \notin s.flags
  /\ {"SYN", "ACK"} \subseteq s.flags /\ s.ack = pcb[e].max
  /\ \E wnd \in Windows(e) :
       LET p == [Established(pcb[e], s.ack, wnd) EXCEPT !.rcv = Plus(s.seq, 1)]
       IN Commit(e, SendCtl(Work(p, Ample), {"ACK"}))
  /\ UNCHANGED <<listening, bounds, hist>>

(* A repeated SYN: our SYN-ACK was lost. *)
RecvSynAgain(e, s) ==
  /\ pcb[e].state = "SYN_RECEIVED"
  /\ "SYN" \in s.flags /\ "RST" \notin s.flags
  /\ Commit(e, Send(Work(pcb[e], Ample), {"SYN", "ACK"}, pcb[e].una, <<>>))
  /\ UNCHANGED <<listening, bounds, hist>>

(* The ACK of a segment, and what it does to the state; LAST_ACK ends there.  *)
Acked(p, s, wnd) ==
  LET q == ProcessAck(p, s.ack, wnd)
  IN IF "ACK" \notin s.flags THEN p
     ELSE [q EXCEPT !.state = CASE FinAcked(q, s.ack) /\ @ = "FIN_WAIT_1" -> "FIN_WAIT_2"
                                [] FinAcked(q, s.ack) /\ @ = "CLOSING"    -> "TIME_WAIT"
                                [] FinAcked(q, s.ack) /\ @ = "LAST_ACK"   -> "CLOSED"
                                [] OTHER -> @]

(* The data and FIN of a segment, unless recv_cb refused them. *)
Received(p, s, n) ==
  [p EXCEPT !.rcv = Plus(@, n + (IF "FIN" \in s.flags THEN 1 ELSE 0)),
            !.state = IF "FIN" \in s.flags THEN AfterFin(p) ELSE @]

(* The end of tcp_input: flush, then the ACK that is still due.               *)
Flush(e, p, ackDue) ==
  \E room \in Room :
    LET c == Output([Work(p, room) EXCEPT !.ackDue = ackDue], FALSE)
    IN /\ Driver(room, c, 0)
       /\ Commit(e, IF c.ackDue THEN SendCtl(c, {"ACK"}) ELSE c)

(* recv_cb with new data. *)
Deliver(e, p, s, data) ==
  \/ /\ \/ /\ Flush(e, Received(p, s, Len(data)), TRUE)           \* taken
          /\ UNCHANGED <<written, outcome>>
       \/ /\ p.state = "ESTABLISHED"                              \* answered
          /\ \E n \in {0, 1} :
               /\ Len(p.buf) + n <= MaxCwnd /\ written[e] + n <= MaxBytes[e]
               /\ Flush(e, Received(Reply(e, p, n), s, Len(data)), TRUE)
               /\ written' = [written EXCEPT ![e] = @ + n]
          /\ UNCHANGED outcome
       \/ /\ Release(e, SendCtl(Work([p EXCEPT !.rcv = Plus(@, Len(data))], Ample), {"RST", "ACK"}),
                      "aborted")
          /\ UNCHANGED <<written, left>>
     /\ delivered' = [delivered EXCEPT ![e] = @ \o data]
  \/ Flush(e, p, FALSE) /\ UNCHANGED hist                        \* NET_ERR_BUSY

(* A segment for a synchronized connection, or the ACK that completes the     *)
(* passive open.                                                              *)
RecvSegment(e, s) ==
  /\ "RST" \notin s.flags
  /\ pcb[e].state \notin {"CLOSED", "SYN_SENT"}
  /\ pcb[e].state = "SYN_RECEIVED" => "SYN" \notin s.flags /\ "ACK" \in s.flags /\ s.ack = pcb[e].max
  /\ ~(pcb[e].state = "TIME_WAIT" /\ "SYN" \in s.flags)
  /\ \E wnd \in Windows(e) :
       LET p0   == IF pcb[e].state = "SYN_RECEIVED" THEN Established(pcb[e], s.ack, wnd) ELSE pcb[e]
           p    == Acked(p0, s, wnd)
           data == IF Takes(p, s) THEN NewBytes(p, s) ELSE <<>>
       IN CASE p.state = "CLOSED" ->
                 Release(e, Work(p, 0), "ok") /\ UNCHANGED <<written, delivered, left>>
            [] p.state # "CLOSED" /\ data # <<>> -> Deliver(e, p, s, data)
            [] OTHER -> Flush(e, IF Takes(p, s) THEN Received(p, s, 0) ELSE p, Carries(s)) /\ UNCHANGED hist
  /\ UNCHANGED <<listening, opened>>
-----------------------------------------------------------------------------
Queued(e, n) == [i \in 1 .. n |-> written[e] + i]

Write(e, n) ==
  /\ pcb[e].state \in {"ESTABLISHED", "CLOSE_WAIT"}
  /\ ~pcb[e].fin_queued
  /\ Len(pcb[e].buf) + n <= MaxCwnd                      \* tcp_sndbuf_space
  /\ written[e] + n <= MaxBytes[e]
  /\ \E room \in Room :
       LET c == Output(Work([pcb[e] EXCEPT !.buf = @ \o Queued(e, n)], room), FALSE)
       IN Driver(room, c, 0) /\ Commit(e, c)
  /\ written' = [written EXCEPT ![e] = @ + n]
  /\ UNCHANGED <<listening, opened, delivered, outcome>>

Close(e) ==
  /\ IF pcb[e].state \in {"SYN_SENT", "SYN_RECEIVED"}
     THEN Release(e, Work(pcb[e], 0), "unopened") /\ UNCHANGED left
     ELSE /\ pcb[e].state \in {"ESTABLISHED", "CLOSE_WAIT"}
          /\ \E room \in Room :
               LET next == IF pcb[e].state = "ESTABLISHED" THEN "FIN_WAIT_1" ELSE "LAST_ACK"
                   c    == Output(Work([pcb[e] EXCEPT !.state = next, !.fin_queued = TRUE], room), FALSE)
               IN Driver(room, c, 0) /\ Commit(e, c)
          /\ UNCHANGED outcome
  /\ UNCHANGED <<listening, opened, written, delivered>>

Abort(e) ==
  /\ e \in Aborters
  /\ InUse(pcb[e])
  /\ Release(e, SendCtl(Work(pcb[e], Ample), {"RST", "ACK"}), "aborted")
  /\ UNCHANGED <<listening, bounds, written, delivered>>

(* tcp_tick, the retry of a frame the driver refused: the timer is cleared,   *)
(* and armed again if anything is still in flight.                            *)
TxRetry(e) ==
  /\ pcb[e].timer # "off"
  /\ pcb[e].tx_blocked
  /\ \E room \in Room :
       LET c == Output(Work([pcb[e] EXCEPT !.tx_blocked = FALSE, !.timer = "off"], room), FALSE)
       IN /\ Driver(room, c, 0)
          /\ Commit(e, IF c.p.una # c.p.max THEN [c EXCEPT !.p = ArmIfOff(@)] ELSE c)
  /\ UNCHANGED <<listening, opened, hist>>

Outstanding(p) == p.una # p.max \/ p.buf # <<>> \/ (p.fin_queued /\ ~p.fin_sent)

(* tcp_on_rto: back off, rewind and send the oldest segment again. *)
Resent(p, room) ==
  LET q == [p EXCEPT !.retries = @ + 1, !.cwnd = Mss]
      c == CASE p.state = "SYN_SENT"     -> Send(Work(q, room), {"SYN"}, q.una, <<>>)
             [] p.state = "SYN_RECEIVED" -> Send(Work(q, room), {"SYN", "ACK"}, q.una, <<>>)
             [] OTHER -> Output(Work([q EXCEPT !.timer = "off", !.nxt = q.una,
                                               !.fin_sent = @ /\ q.una = q.max], room), q.wnd = 0)
  IN [c EXCEPT !.p = Arm(@)]

Timeout(e) ==
  /\ pcb[e].timer # "off" /\ ~pcb[e].tx_blocked
  /\ CASE ~Outstanding(pcb[e]) ->
            /\ Commit(e, Work([pcb[e] EXCEPT !.timer = "off"], 0))
            /\ UNCHANGED <<outcome, left>>
       [] Outstanding(pcb[e]) /\ pcb[e].retries + 1 > MaxRetries ->
            Release(e, Work(pcb[e], 0), "error") /\ UNCHANGED left
       [] OTHER ->
            /\ \E room \in Room :
                 LET c == Resent(pcb[e], room)
                 IN Driver(room, c, 1) /\ Commit(e, c)
            /\ UNCHANGED outcome
  /\ UNCHANGED <<listening, opened, written, delivered>>

(* tcp_tick with no timer running: a connection that has been quiet for its   *)
(* state's time is dropped.                                                   *)
Expire(e) ==
  /\ pcb[e].state \in {"TIME_WAIT", "FIN_WAIT_2", "CLOSE_WAIT", "ESTABLISHED"}
  /\ pcb[e].timer = "off"
  /\ Release(e, Work(pcb[e], 0),
             IF pcb[e].state \in {"TIME_WAIT", "FIN_WAIT_2"} THEN "ok" ELSE "error")
  /\ UNCHANGED <<listening, bounds, written, delivered>>

Receive(e) ==
  \E s \in net[e] :
    \/ RecvSyn(e, s) \/ RecvRst(e, s) \/ RecvSynSent(e, s)
    \/ RecvSynAgain(e, s) \/ RecvSegment(e, s)

Next ==
  \E e \in End :
    \/ Connect(e) \/ Close(e) \/ Abort(e)
    \/ \E n \in 1 .. MaxBytes[e] : Write(e, n)
    \/ Receive(e)
    \/ TxRetry(e) \/ Timeout(e) \/ Expire(e)

Spec == Init /\ [][Next]_vars
-----------------------------------------------------------------------------
Pcb ==
  [state : State, una : SeqNum, nxt : SeqNum, max : SeqNum, wnd : Nat, cwnd : 0 .. MaxCwnd,
   rcv : SeqNum, buf : Seq(Nat), fin_queued : BOOLEAN, fin_sent : BOOLEAN,
   timer : {"off", "rto", "retry"}, tx_blocked : BOOLEAN, blocked : 0 .. MaxBlocked,
   retries : 0 .. MaxRetries]

TypeOK ==
  /\ pcb \in [End -> Pcb]
  /\ \A e \in End : Len(pcb[e].buf) <= MaxCwnd
  /\ outcome \in [End -> {"none", "ok", "error", "aborted", "unopened"}]

(* What one application takes is the front part of what the other wrote,      *)
(* each byte once and in order, whatever is lost, repeated, resent in other   *)
(* pieces or refused for now by recv_cb.                                      *)
StreamIntact ==
  \A e \in End :
    /\ Len(delivered[e]) <= written[Peer(e)]
    /\ \A i \in 1 .. Len(delivered[e]) : delivered[e][i] = i

(* A connection that ends without an error has delivered everything: a slot   *)
(* is freed quietly only after the peer's application took all that was       *)
(* written here.                                                              *)
QuietEndMeansDelivered ==
  \A e \in End :
    (outcome[e] = "ok" \/ pcb[e].state \in {"FIN_WAIT_2", "TIME_WAIT"})
      => Len(delivered[Peer(e)]) = written[e]

(* Between handlers, data or a FIN that the peer has not acknowledged has a   *)
(* timer running for it: no connection waits for an event nobody causes.      *)
OutstandingIsTimed ==
  \A e \in End : InUse(pcb[e]) /\ Outstanding(pcb[e]) => pcb[e].timer # "off"

(* snd_una, snd_nxt and snd_max stay in order and inside the send buffer and  *)
(* its FIN, so that every byte sent can be sent again.                        *)
SendSpaceOrdered ==
  \A e \in End :
    LET p   == pcb[e]
        syn == IF p.state \in {"SYN_SENT", "SYN_RECEIVED"} THEN 1 ELSE 0
        fin == IF p.fin_queued THEN 1 ELSE 0
    IN /\ SeqDist(p.nxt, p.una) <= SeqDist(p.max, p.una)
       /\ SeqDist(p.max, p.una) <= Len(p.buf) + syn + fin
       /\ p.fin_sent => p.fin_queued /\ p.nxt = p.max
=============================================================================
