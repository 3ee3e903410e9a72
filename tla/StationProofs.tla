---------------------------- MODULE StationProofs ----------------------------
(* Proofs about the join state machine of module Station, for every set of    *)
(* credentials, every back-off, and every number of troubles.                 *)
EXTENDS Station, TLAPS

-----------------------------------------------------------------------------
(* The inductive invariant, on the pair of board and radio the handlers work  *)
(* on.                                                                        *)

Pair == [b : Board, r : Radio]

(* What the driver's variables tell of the radio. *)
DriverInv(c) ==
  /\ c.b.ap_running = c.r.ap
  /\ c.b.wifi = "AP_ACTIVE" => c.r.ap = TRUE
  /\ c.b.sta_connected = TRUE <=> c.r.assoc # NoCred
  /\ c.b.wifi = "CONNECTED" => c.b.sta_connected = TRUE
  /\ c.r.trying # NoCred => c.r.assoc = NoCred
  /\ c.r.leaving = TRUE => c.r.assoc = NoCred /\ c.r.trying = NoCred

OnItsWay == {"PENDING", "JOINING", "HANDOVER", "ONLINE", "RETRY_WAIT"}

(* What the state of the join tells of them.  While the board is on its way,  *)
(* the SoftAP is up exactly for a portal join.                                *)
JoinInv(c) ==
  /\ c.b.state \in OnItsWay => c.b.creds # NoCred /\ c.b.keep_ap = c.r.ap
  /\ c.b.state \in {"ONLINE", "RETRY_WAIT"} => c.b.keep_ap = FALSE
  /\ c.b.state = "HANDOVER" => c.b.keep_ap = TRUE
  /\ c.b.state \in {"JOINING", "HANDOVER"} /\ c.b.keep_ap = TRUE => c.b.sta_keep_ap = TRUE
  /\ c.b.state \in {"HANDOVER", "ONLINE"} /\ c.r.assoc = NoCred => c.b.lost = TRUE
  /\ c.b.state = "ONLINE" /\ c.b.lost = FALSE => c.b.dhcp = TRUE
  /\ c.b.state = "JOINING" /\ c.b.keep_ap = FALSE /\ c.r.assoc # NoCred => c.b.dhcp = TRUE
  /\ c.b.state \in {"IDLE", "FAILED"} /\ c.b.creds # NoCred => c.r.ap = TRUE
  /\ c.b.state = "IDLE" /\ c.b.creds # NoCred => c.b.setup = TRUE

(* In the setup mode of a provisioned board, what a portal join leaves behind *)
(* without being unproven has worked, or is from before.  B: Worked.          *)
WorkedInv(c, B) ==
  /\ c.b.setup = TRUE /\ c.b.prev # NoCred
  /\ \/ c.b.state = "FAILED"
     \/ c.b.keep_ap = TRUE /\ c.b.unproven = FALSE /\ c.b.state \in {"PENDING", "JOINING", "HANDOVER"}
  => c.b.creds \in {c.b.prev} \cup B

(* A join asks for the credentials of the board, unless it began over a live  *)
(* association, or has associated.                                            *)
AimInv(c, B) ==
  c.b.state = "JOINING" =>
    c.b.creds \in B \/ (c.r.assoc = NoCred /\ c.r.trying \in {NoCred, c.b.creds})

Driven(c)   == c \in Pair /\ DriverInv(c)
Sound(c, B) == Driven(c) /\ JoinInv(c) /\ WorkedInv(c, B) /\ AimInv(c, B)

Histories ==
  /\ stored \in Cred \cup {NoCred}
  /\ overdue \in BOOLEAN /\ trouble \in 0 .. MaxTrouble
  /\ tested \subseteq Cred /\ overlaid \subseteq Cred

Worked == tested \cup overlaid

IInv == Histories /\ Sound(Here, Worked)
-----------------------------------------------------------------------------
(* The driver's calls. *)

(* What they leave alone of the board: the variables of provisioning.c and of *)
(* wifi_link.c, and NVS.                                                      *)
SameJoin(a, b) ==
  /\ a.creds = b.creds /\ a.kept = b.kept /\ a.state = b.state /\ a.keep_ap = b.keep_ap
  /\ a.unproven = b.unproven /\ a.fast_path = b.fast_path /\ a.backoff = b.backoff
  /\ a.setup = b.setup /\ a.prev = b.prev /\ a.cached = b.cached
  /\ a.fast_failures = b.fast_failures

LEMMA PairFacts ==
  ASSUME NEW c \in Pair
  PROVE  c.b \in Board /\ c.r \in Radio /\ c = [b |-> c.b, r |-> c.r]
  BY DEF Pair

LEMMA StaDisconnectedFacts ==
  ASSUME NEW b \in Board
  PROVE  LET n == StaDisconnected(b)
         IN /\ n \in Board /\ SameJoin(n, b)
            /\ n.sta_connected = FALSE /\ n.lost = TRUE /\ n.dhcp = FALSE
            /\ n.wifi = (IF b.ap_running THEN "AP_ACTIVE" ELSE "ACTIVE")
            /\ n.ap_running = b.ap_running /\ n.sta_started = b.sta_started
            /\ n.sta_keep_ap = b.sta_keep_ap /\ n.wpa_fail = b.wpa_fail
  BY ZenonT(30) DEF StaDisconnected, SameJoin, Board

LEMMA StaStopFacts ==
  ASSUME NEW b \in Board
  PROVE  LET n == StaStop(b)
         IN /\ n \in Board /\ SameJoin(n, b)
            /\ n.sta_connected = FALSE /\ n.sta_started = FALSE /\ n.wifi = "IDLE"
            /\ n.ap_running = b.ap_running /\ n.sta_keep_ap = b.sta_keep_ap
            /\ n.lost = b.lost /\ n.dhcp = b.dhcp /\ n.wpa_fail = b.wpa_fail
  BY DEF StaStop, SameJoin, Board

LEMMA ApStopFacts ==
  ASSUME NEW b \in Board
  PROVE  LET n == ApStop(b)
         IN /\ n \in Board /\ SameJoin(n, b)
            /\ n.ap_running = FALSE /\ n.wifi = "IDLE"
            /\ n.sta_connected = b.sta_connected /\ n.sta_started = b.sta_started
            /\ n.sta_keep_ap = b.sta_keep_ap
            /\ n.lost = b.lost /\ n.dhcp = b.dhcp /\ n.wpa_fail = b.wpa_fail
  BY DEF ApStop, SameJoin, Board

LEMMA RadioStopFacts ==
  ASSUME NEW c \in Pair
  PROVE  LET n == RadioStop(c)
         IN /\ Driven(n) /\ SameJoin(n.b, c.b)
            /\ n.r.ap = FALSE /\ n.r.assoc = NoCred /\ n.r.trying = NoCred /\ n.r.leaving = FALSE
            /\ n.b.wifi = "IDLE" /\ n.b.sta_keep_ap = c.b.sta_keep_ap
<1> DEFINE a == IF c.r.assoc # NoCred THEN StaDisconnected(c.b) ELSE c.b
           s == StaStop(a)
           p == ApStop(s)
           q == [c.r EXCEPT !.ap = FALSE, !.assoc = NoCred, !.trying = NoCred, !.leaving = FALSE]
<1>1. c.b \in Board /\ c.r \in Radio
  BY PairFacts
<1>2. a \in Board /\ SameJoin(a, c.b) /\ a.sta_keep_ap = c.b.sta_keep_ap
  BY <1>1, StaDisconnectedFacts DEF SameJoin
<1> HIDE DEF a
<1>3. /\ s \in Board /\ SameJoin(s, a) /\ s.sta_connected = FALSE /\ s.sta_keep_ap = a.sta_keep_ap
  BY <1>2, StaStopFacts
<1> HIDE DEF s
<1>4. /\ p \in Board /\ SameJoin(p, s) /\ p.sta_connected = FALSE /\ p.sta_keep_ap = s.sta_keep_ap
      /\ p.ap_running = FALSE /\ p.wifi = "IDLE"
  BY <1>3, ApStopFacts
<1> HIDE DEF p
<1>5. /\ q \in Radio
      /\ q.ap = FALSE /\ q.assoc = NoCred /\ q.trying = NoCred /\ q.leaving = FALSE
  BY <1>1 DEF Radio
<1> HIDE DEF q
<1>6. RadioStop(c) = [b |-> p, r |-> q]
  BY DEF RadioStop, p, q, s, a
<1>7. [b |-> p, r |-> q] \in Pair /\ DriverInv([b |-> p, r |-> q])
  BY <1>4, <1>5 DEF Pair, DriverInv
<1>8. SameJoin(p, c.b) /\ p.sta_keep_ap = c.b.sta_keep_ap
  BY <1>2, <1>3, <1>4 DEF SameJoin
<1> QED
  BY <1>4, <1>5, <1>6, <1>7, <1>8 DEF Driven

LEMMA StartApFacts ==
  ASSUME NEW c \in Pair
  PROVE  LET n == StartAp(c)
         IN /\ Driven(n) /\ SameJoin(n.b, c.b) /\ n.r.ap = TRUE /\ n.r.assoc = NoCred
            /\ n.r.trying = NoCred /\ n.r.leaving = FALSE
<1> DEFINE d == RadioStop(c)
<1>1. /\ Driven(d) /\ SameJoin(d.b, c.b)
      /\ d.r.ap = FALSE /\ d.r.assoc = NoCred /\ d.r.trying = NoCred /\ d.r.leaving = FALSE
  BY RadioStopFacts
<1>2. StartAp(c) = [d EXCEPT !.b.ap_running = TRUE, !.b.wifi = "AP_ACTIVE", !.b.sta_keep_ap = FALSE,
                             !.r.ap = TRUE]
  BY DEF StartAp
<1> HIDE DEF d
<1>3. d.b \in Board /\ d.r \in Radio /\ d = [b |-> d.b, r |-> d.r] /\ DriverInv(d)
  BY <1>1, PairFacts DEF Driven
<1> DEFINE x == [d.b EXCEPT !.ap_running = TRUE, !.wifi = "AP_ACTIVE", !.sta_keep_ap = FALSE]
           y == [d.r EXCEPT !.ap = TRUE]
<1>4. /\ x \in Board /\ SameJoin(x, d.b) /\ x.ap_running = TRUE /\ x.wifi = "AP_ACTIVE"
      /\ x.sta_connected = d.b.sta_connected
  BY <1>3 DEF Board, SameJoin
<1>5. /\ y \in Radio /\ y.ap = TRUE /\ y.assoc = NoCred /\ y.trying = NoCred /\ y.leaving = FALSE
  BY <1>1, <1>3 DEF Radio
<1>6. StartAp(c) = [b |-> x, r |-> y]
  BY <1>2, <1>3
<1> HIDE DEF x, y
<1>7. [b |-> x, r |-> y] \in Pair /\ DriverInv([b |-> x, r |-> y])
  BY <1>1, <1>3, <1>4, <1>5 DEF Pair, DriverInv
<1> QED
  BY <1>1, <1>4, <1>5, <1>6, <1>7 DEF Driven, SameJoin

LEMMA StopApFacts ==
  ASSUME NEW c \in Pair
  PROVE  LET n == StopAp(c)
         IN /\ Driven(n) /\ SameJoin(n.b, c.b)
            /\ n.r.ap = FALSE /\ n.r.assoc = NoCred /\ n.r.trying = NoCred /\ n.r.leaving = FALSE
<1> DEFINE d == RadioStop(c)
<1>1. /\ Driven(d) /\ SameJoin(d.b, c.b)
      /\ d.r.ap = FALSE /\ d.r.assoc = NoCred /\ d.r.trying = NoCred /\ d.r.leaving = FALSE
  BY RadioStopFacts
<1>2. StopAp(c) = [d EXCEPT !.b.sta_keep_ap = FALSE]
  BY DEF StopAp
<1> HIDE DEF d
<1>3. d.b \in Board /\ d.r \in Radio /\ d = [b |-> d.b, r |-> d.r] /\ DriverInv(d)
  BY <1>1, PairFacts DEF Driven
<1> DEFINE x == [d.b EXCEPT !.sta_keep_ap = FALSE]
<1>4. /\ x \in Board /\ SameJoin(x, d.b) /\ x.sta_connected = d.b.sta_connected
      /\ x.ap_running = d.b.ap_running /\ x.wifi = d.b.wifi
  BY <1>3 DEF Board, SameJoin
<1>5. StopAp(c) = [b |-> x, r |-> d.r]
  BY <1>2, <1>3
<1> HIDE DEF x
<1>6. [b |-> x, r |-> d.r] \in Pair /\ DriverInv([b |-> x, r |-> d.r])
  BY <1>3, <1>4 DEF Pair, DriverInv
<1> QED
  BY <1>1, <1>4, <1>5, <1>6 DEF Driven, SameJoin

LEMMA RadioLeaveFacts ==
  ASSUME NEW c \in Pair
  PROVE  LET n == RadioLeave(c)
         IN /\ n \in Pair /\ n.b = c.b /\ n = [b |-> c.b, r |-> n.r]
            /\ n.r.ap = c.r.ap /\ n.r.assoc = NoCred /\ n.r.trying = NoCred
            /\ n.r.moved = c.r.moved
<1> DEFINE l == c.r.leaving \/ c.r.assoc # NoCred \/ c.r.trying # NoCred
           q == [c.r EXCEPT !.leaving = l, !.assoc = NoCred, !.trying = NoCred]
<1>1. c.b \in Board /\ c.r \in Radio /\ c = [b |-> c.b, r |-> c.r]
  BY PairFacts
<1>2. l \in BOOLEAN
  BY <1>1 DEF Radio
<1>a. RadioLeave(c) = [c EXCEPT !.r.leaving = l, !.r.assoc = NoCred, !.r.trying = NoCred]
  BY DEF RadioLeave
<1> HIDE DEF l
<1>3. RadioLeave(c) = [b |-> c.b, r |-> q]
  BY <1>1, <1>a
<1>4. q \in Radio /\ q.ap = c.r.ap /\ q.assoc = NoCred /\ q.trying = NoCred /\ q.moved = c.r.moved
  BY <1>1, <1>2 DEF Radio
<1> HIDE DEF q
<1>5. [b |-> c.b, r |-> q] \in Pair
  BY <1>1, <1>4 DEF Pair
<1> QED
  BY <1>3, <1>4, <1>5

LEMMA LeaveCurrentFacts ==
  ASSUME NEW c, Driven(c)
  PROVE  LET n == LeaveCurrent(c)
         IN /\ Driven(n) /\ SameJoin(n.b, c.b)
            /\ n.r.ap = c.r.ap /\ n.r.assoc = NoCred /\ n.r.leaving = FALSE
<1> DEFINE x == StaDisconnected(c.b)
           y == [RadioLeave(c).r EXCEPT !.leaving = FALSE]
<1>1. c \in Pair /\ DriverInv(c) /\ c.b \in Board /\ c.r \in Radio
  BY PairFacts DEF Driven
<1>2. /\ x \in Board /\ SameJoin(x, c.b) /\ x.sta_connected = FALSE
      /\ x.wifi = (IF c.b.ap_running THEN "AP_ACTIVE" ELSE "ACTIVE") /\ x.ap_running = c.b.ap_running
  BY <1>1, StaDisconnectedFacts
<1>3. /\ RadioLeave(c).r \in Radio /\ RadioLeave(c).r.ap = c.r.ap /\ RadioLeave(c).r.assoc = NoCred
      /\ RadioLeave(c).r.trying = NoCred
  BY <1>1, RadioLeaveFacts, PairFacts
<1>4. y \in Radio /\ y.ap = c.r.ap /\ y.assoc = NoCred /\ y.trying = NoCred /\ y.leaving = FALSE
  BY <1>3 DEF Radio
<1>5. LeaveCurrent(c) = [b |-> x, r |-> y]
  BY DEF LeaveCurrent
<1> HIDE DEF x, y
<1>6. [b |-> x, r |-> y] \in Pair /\ DriverInv([b |-> x, r |-> y])
  BY <1>1, <1>2, <1>4 DEF Pair, DriverInv
<1> QED
  BY <1>2, <1>4, <1>5, <1>6 DEF Driven

LEMMA ConnectedFacts ==
  ASSUME NEW c, Driven(c)
  PROVE  /\ ApActive(c.b) = c.r.ap
         /\ StaConnected(c.b) <=> c.r.assoc # NoCred
<1>1. DriverInv(c) /\ c.b \in Board /\ c.r \in Radio
  BY PairFacts DEF Driven
<1>2. c.b.ap_running \in BOOLEAN /\ c.r.ap \in BOOLEAN /\ c.b.sta_connected \in BOOLEAN
  BY <1>1 DEF Board, Radio
<1> QED
  BY <1>1, <1>2 DEF DriverInv, ApActive, StaConnected

(* wifi_sta_begin *)
LEMMA StaBeginFacts ==
  ASSUME NEW c, Driven(c), c.r.leaving = FALSE, c.b.creds \in Cred, NEW ask \in BOOLEAN
  PROVE  LET n == StaBegin(c, ask)
         IN /\ Driven(n) /\ SameJoin(n.b, c.b)
            /\ n.r.ap = (ask /\ c.r.ap) /\ n.b.sta_keep_ap = (ask /\ c.r.ap)
            /\ ask = FALSE => n.r.assoc = NoCred
            /\ n.r.assoc = NoCred => n.r.trying = c.b.creds
<1> DEFINE keep    == ask /\ c.b.ap_running
           alone   == IF c.b.ap_running /\ ~keep THEN StopAp(c) ELSE c
           free    == IF ~keep /\ StaConnected(alone.b) THEN LeaveCurrent(alone) ELSE alone
           running == IF keep THEN free.b.sta_started ELSE free.b.wifi \in {"ACTIVE", "CONNECTED"}
           w       == IF running THEN free.b.wifi ELSE "ACTIVE"
           started == [free EXCEPT !.b.sta_keep_ap = keep, !.b.sta_started = TRUE, !.b.wifi = w]
           last    == [started EXCEPT !.r.trying = c.b.creds, !.b.sta_connected = FALSE]
<1>1. c \in Pair /\ DriverInv(c) /\ c.b \in Board /\ c.r \in Radio
  BY PairFacts DEF Driven
<1>2. keep = (ask /\ c.r.ap) /\ keep \in BOOLEAN /\ c.b.ap_running = c.r.ap /\ c.r.ap \in BOOLEAN
  BY <1>1 DEF DriverInv, Radio
<1>3. StaBegin(c, ask) = IF started.r.assoc # NoCred THEN started ELSE last
  BY DEF StaBegin
<1> HIDE DEF keep
<1>4. /\ Driven(alone) /\ SameJoin(alone.b, c.b) /\ alone.r.ap = keep /\ alone.r.leaving = FALSE
  BY <1>1, <1>2, StopApFacts DEF SameJoin
<1> HIDE DEF alone
<1>5. /\ Driven(free) /\ SameJoin(free.b, c.b) /\ free.r.ap = keep /\ free.r.leaving = FALSE
      /\ keep = FALSE => free.r.assoc = NoCred
  <2>1. CASE ~keep /\ StaConnected(alone.b)
    <3>1. free = LeaveCurrent(alone)
      BY <2>1
    <3> HIDE DEF free
    <3> QED
      BY ZenonT(30), <1>4, <3>1, LeaveCurrentFacts DEF SameJoin
  <2>2. CASE ~(~keep /\ StaConnected(alone.b))
    <3>1. free = alone
      BY <2>2
    <3>2. keep = FALSE => alone.r.assoc = NoCred
      BY <1>4, <2>2, ConnectedFacts
    <3> HIDE DEF free
    <3> QED
      BY <1>4, <3>1, <3>2
  <2> QED
    BY <2>1, <2>2
<1> HIDE DEF free
<1>6. PICK fb \in Board, fr \in Radio : free = [b |-> fb, r |-> fr]
  BY <1>5, PairFacts DEF Driven
<1>7. w \in {fb.wifi, "ACTIVE"}
  BY <1>6
<1> HIDE DEF running, w
<1> DEFINE x == [fb EXCEPT !.sta_keep_ap = keep, !.sta_started = TRUE, !.wifi = w]
<1>8. /\ x \in Board /\ SameJoin(x, fb) /\ x.sta_keep_ap = keep
      /\ x.wifi = w /\ x.ap_running = fb.ap_running /\ x.sta_connected = fb.sta_connected
  BY ZenonT(30), <1>2, <1>7 DEF Board, SameJoin
<1>9. started = [b |-> x, r |-> fr]
  <2>1. started = [free EXCEPT !.b.sta_keep_ap = keep, !.b.sta_started = TRUE, !.b.wifi = w]
    OBVIOUS
  <2> HIDE DEF started
  <2> QED
    BY <1>6, <2>1
<1>a. DriverInv(free) /\ free.b = fb /\ free.r = fr
  BY <1>5, <1>6 DEF Driven
<1> HIDE DEF x
<1>10. started \in Pair /\ DriverInv(started)
  <2> HIDE DEF started
  <2>1. started \in Pair
    BY <1>8, <1>9 DEF Pair
  <2>2. DriverInv(started)
    BY <1>7, <1>8, <1>9, <1>a DEF DriverInv
  <2> QED
    BY <2>1, <2>2
<1>11. SameJoin(x, c.b)
  BY <1>5, <1>8, <1>a DEF SameJoin
<1>12. CASE fr.assoc # NoCred
  <2>1. StaBegin(c, ask) = [b |-> x, r |-> fr]
    <3>1. started.r = fr
      BY <1>9
    <3> HIDE DEF started, last
    <3> QED
      BY <1>3, <1>9, <1>12, <3>1
  <2> HIDE DEF started, last
  <2> QED
    BY <1>2, <1>5, <1>8, <1>9, <1>a, <1>10, <1>11, <1>12, <2>1 DEF Driven
<1>13. CASE fr.assoc = NoCred
  <2> DEFINE y == [x EXCEPT !.sta_connected = FALSE]
             z == [fr EXCEPT !.trying = c.b.creds]
  <2>1. StaBegin(c, ask) = [b |-> y, r |-> z]
    <3>1. started.r = fr
      BY <1>9
    <3>2. last = [b |-> y, r |-> z]
      <4>1. last = [started EXCEPT !.r.trying = c.b.creds, !.b.sta_connected = FALSE]
        OBVIOUS
      <4> HIDE DEF started, last
      <4> QED
        BY <1>9, <4>1
    <3> HIDE DEF started, last
    <3> QED
      BY <1>3, <1>13, <3>1, <3>2
  <2>2. /\ y \in Board /\ SameJoin(y, x) /\ y.sta_connected = FALSE /\ y.sta_keep_ap = x.sta_keep_ap
        /\ y.wifi = x.wifi /\ y.ap_running = x.ap_running
    BY <1>8 DEF Board, SameJoin
  <2>3. /\ z \in Radio /\ z.ap = fr.ap /\ z.assoc = fr.assoc /\ z.leaving = fr.leaving
        /\ z.trying = c.b.creds
    BY <1>1 DEF Radio
  <2> HIDE DEF y, z, started, last
  <2>4. [b |-> y, r |-> z] \in Pair
    BY <2>2, <2>3 DEF Pair
  <2>5. DriverInv([b |-> y, r |-> z])
    BY <1>5, <1>7, <1>8, <1>a, <1>13, <2>2, <2>3 DEF DriverInv
  <2>6. SameJoin(y, c.b)
    BY <1>11, <2>2 DEF SameJoin
  <2> QED
    BY <1>2, <1>5, <1>8, <1>a, <1>13, <2>1, <2>2, <2>3, <2>4, <2>5, <2>6 DEF Driven
<1> QED
  BY <1>12, <1>13

(* wpa2_client_join *)
LEMMA Wpa2JoinFacts ==
  ASSUME NEW c, Driven(c), c.r.leaving = FALSE, c.b.creds \in Cred
  PROVE  LET n == Wpa2Join(c)
         IN /\ Driven(n) /\ SameJoin(n.b, c.b)
            /\ n.r.ap = (c.b.keep_ap /\ c.r.ap) /\ n.b.sta_keep_ap = (c.b.keep_ap /\ c.r.ap)
            /\ c.b.keep_ap = FALSE => n.r.assoc = NoCred
            /\ n.r.assoc = NoCred => n.r.trying = c.b.creds
<1> DEFINE conf == [c EXCEPT !.b.wpa_fail = FALSE, !.b.dhcp = FALSE]
           d    == IF ~c.b.keep_ap /\ ApActive(c.b) THEN StopAp(conf) ELSE conf
<1>1. PICK cb \in Board, cr \in Radio : c = [b |-> cb, r |-> cr]
  BY PairFacts DEF Driven
<1>2. DriverInv(c) /\ c.b = cb /\ c.r = cr /\ cb.keep_ap \in BOOLEAN /\ ApActive(cb) = cr.ap /\ cr.ap \in BOOLEAN
  BY <1>1, ConnectedFacts DEF Driven, Board, Radio
<1> DEFINE x == [cb EXCEPT !.wpa_fail = FALSE, !.dhcp = FALSE]
<1>3. /\ x \in Board /\ SameJoin(x, cb) /\ x.wifi = cb.wifi /\ x.ap_running = cb.ap_running
      /\ x.sta_connected = cb.sta_connected
  BY DEF Board, SameJoin
<1>4. conf = [b |-> x, r |-> cr]
  <2>1. conf = [c EXCEPT !.b.wpa_fail = FALSE, !.b.dhcp = FALSE]
    OBVIOUS
  <2> HIDE DEF conf
  <2> QED
    BY <1>1, <2>1
<1>5. Wpa2Join(c) = StaBegin(d, cb.keep_ap)
  BY <1>2 DEF Wpa2Join
<1> HIDE DEF x, conf
<1>6. Driven(conf) /\ SameJoin(conf.b, cb) /\ conf.r = cr
  BY <1>2, <1>3, <1>4 DEF Pair, DriverInv, Driven
<1>7. /\ Driven(d) /\ SameJoin(d.b, cb) /\ d.r.leaving = FALSE
      /\ (cb.keep_ap /\ d.r.ap) = (cb.keep_ap /\ cr.ap)
  <2>1. CASE ~cb.keep_ap /\ cr.ap
    <3>1. d = StopAp(conf) /\ conf \in Pair
      BY <1>2, <1>6, <2>1 DEF Driven
    <3> HIDE DEF d
    <3>2. Driven(d) /\ SameJoin(d.b, conf.b) /\ d.r.leaving = FALSE
      BY <3>1, StopApFacts
    <3> QED
      BY <1>6, <2>1, <3>2 DEF SameJoin
  <2>2. CASE ~(~cb.keep_ap /\ cr.ap)
    <3>1. d = conf
      BY <1>2, <2>2
    <3> HIDE DEF d
    <3> QED
      BY <1>2, <1>6, <3>1
  <2> QED
    BY <2>1, <2>2
<1> HIDE DEF d
<1>8. d.b.creds \in Cred
  BY <1>2, <1>7 DEF SameJoin
<1> DEFINE n == StaBegin(d, cb.keep_ap)
<1>9. /\ Driven(n) /\ SameJoin(n.b, d.b)
      /\ n.r.ap = (cb.keep_ap /\ d.r.ap) /\ n.b.sta_keep_ap = (cb.keep_ap /\ d.r.ap)
      /\ cb.keep_ap = FALSE => n.r.assoc = NoCred
      /\ n.r.assoc = NoCred => n.r.trying = d.b.creds
  BY <1>2, <1>7, <1>8, StaBeginFacts
<1> HIDE DEF n
<1>10. SameJoin(n.b, cb)
  BY <1>7, <1>9 DEF SameJoin
<1>11. n.r.ap = (cb.keep_ap /\ cr.ap) /\ n.b.sta_keep_ap = (cb.keep_ap /\ cr.ap)
  BY <1>7, <1>9
<1>12. d.b.creds = cb.creds
  BY <1>7 DEF SameJoin
<1> QED
  BY <1>2, <1>5, <1>9, <1>10, <1>11, <1>12 DEF n

(* wifi_sta_end_attempt *)
LEMMA EndAttemptFacts ==
  ASSUME NEW c, Driven(c)
  PROVE  LET n == EndAttempt(c)
         IN Driven(n) /\ SameJoin(n.b, c.b) /\ n.r.ap = c.r.ap
<1>1. PICK cb \in Board, cr \in Radio : c = [b |-> cb, r |-> cr]
  BY PairFacts DEF Driven
<1>2. DriverInv(c) /\ c.b = cb /\ c.r = cr /\ c \in Pair
  BY <1>1 DEF Driven
<1> DEFINE w == IF cb.wifi # "CONNECTED" THEN cb.wifi ELSE IF cb.ap_running THEN "AP_ACTIVE" ELSE "ACTIVE"
           x == [cb EXCEPT !.sta_connected = FALSE, !.wifi = w]
<1>3. PICK l \in Pair, lr \in Radio :
        /\ l = RadioLeave(c) /\ l = [b |-> cb, r |-> lr]
        /\ lr.ap = cr.ap /\ lr.assoc = NoCred /\ lr.trying = NoCred
  BY <1>2, RadioLeaveFacts, PairFacts
<1>4. /\ w \in {"IDLE", "ACTIVE", "CONNECTED", "AP_ACTIVE"} /\ w # "CONNECTED"
      /\ w = "AP_ACTIVE" => cr.ap = TRUE
  BY <1>2 DEF Board, DriverInv
<1>5. EndAttempt(c) = [l EXCEPT !.b.sta_connected = FALSE, !.b.wifi = w]
  <2>1. [l EXCEPT !.b.sta_connected = FALSE].b.wifi = cb.wifi
    BY <1>3 DEF Board
  <2> QED
    BY <1>2, <1>3, <2>1 DEF EndAttempt
<1> HIDE DEF w
<1>6. /\ x \in Board /\ SameJoin(x, cb) /\ x.wifi = w /\ x.ap_running = cb.ap_running
      /\ x.sta_connected = FALSE
  BY <1>4 DEF Board, SameJoin
<1>7. EndAttempt(c) = [b |-> x, r |-> lr]
  <2>1. l = [b |-> cb, r |-> lr]
    BY <1>3
  <2> QED
    BY <1>5, <2>1
<1> HIDE DEF x
<1>8. [b |-> x, r |-> lr] \in Pair /\ DriverInv([b |-> x, r |-> lr])
  BY <1>2, <1>3, <1>4, <1>6 DEF Pair, DriverInv
<1> QED
  BY <1>2, <1>3, <1>6, <1>7, <1>8 DEF Driven

(* wifi_sta_abort_keep_ap, while the SoftAP is up *)
LEMMA AbortKeepApFacts ==
  ASSUME NEW c, Driven(c), c.r.ap = TRUE
  PROVE  LET n == AbortKeepAp(c)
         IN Driven(n) /\ SameJoin(n.b, c.b) /\ n.r.ap = TRUE
<1>1. PICK cb \in Board, cr \in Radio : c = [b |-> cb, r |-> cr]
  BY PairFacts DEF Driven
<1>2. DriverInv(c) /\ c.b = cb /\ c.r = cr /\ c \in Pair
  BY <1>1 DEF Driven
<1> DEFINE x == [cb EXCEPT !.sta_keep_ap = FALSE, !.sta_connected = FALSE]
           y == StaStop(x)
           z == [y EXCEPT !.wifi = "AP_ACTIVE"]
<1>3. PICK l \in Pair, lr \in Radio :
        /\ l = RadioLeave(c) /\ l = [b |-> cb, r |-> lr]
        /\ lr.ap = cr.ap /\ lr.assoc = NoCred /\ lr.trying = NoCred
  BY <1>2, RadioLeaveFacts, PairFacts
<1> DEFINE left == [l EXCEPT !.b.sta_keep_ap = FALSE, !.b.sta_connected = FALSE]
<1>4. left = [b |-> x, r |-> lr]
  <2>1. left = [l EXCEPT !.b.sta_keep_ap = FALSE, !.b.sta_connected = FALSE]
    OBVIOUS
  <2>2. l = [b |-> cb, r |-> lr]
    BY <1>3
  <2> HIDE DEF left
  <2> QED
    BY <2>1, <2>2
<1>5. cb.ap_running = TRUE
  BY <1>2 DEF DriverInv
<1>6. AbortKeepAp(c) = [left EXCEPT !.b = [StaStop(left.b) EXCEPT !.wifi = "AP_ACTIVE"]]
  BY <1>2, <1>3, <1>5 DEF AbortKeepAp
<1> HIDE DEF left
<1>7. AbortKeepAp(c) = [b |-> z, r |-> lr]
  BY <1>4, <1>6
<1>8. x \in Board /\ SameJoin(x, cb) /\ x.ap_running = cb.ap_running
  BY DEF Board, SameJoin
<1> HIDE DEF x
<1>9. y \in Board /\ SameJoin(y, x) /\ y.ap_running = x.ap_running /\ y.sta_connected = FALSE
  BY <1>8, StaStopFacts
<1> HIDE DEF y
<1>10. /\ z \in Board /\ SameJoin(z, y) /\ z.ap_running = y.ap_running /\ z.sta_connected = FALSE
       /\ z.wifi = "AP_ACTIVE"
  BY <1>9 DEF Board, SameJoin
<1> HIDE DEF z
<1>11. [b |-> z, r |-> lr] \in Pair /\ DriverInv([b |-> z, r |-> lr])
  BY <1>2, <1>3, <1>5, <1>8, <1>9, <1>10 DEF Pair, DriverInv
<1>12. SameJoin(z, cb)
  BY <1>8, <1>9, <1>10 DEF SameJoin
<1> QED
  BY <1>2, <1>3, <1>7, <1>11, <1>12 DEF Driven

(* wifi_sta_take_over, of a portal join *)
LEMMA TakeOverFacts ==
  ASSUME NEW c, Driven(c), c.b.sta_keep_ap = TRUE
  PROVE  LET n == TakeOver(c)
         IN /\ Driven(n.c) /\ SameJoin(n.c.b, c.b) /\ n.c.r.ap = FALSE
            /\ n.ok <=> c.r.assoc # NoCred
            /\ n.ok => n.c.b.dhcp = TRUE /\ n.c.r.assoc = c.r.assoc
<1>1. PICK cb \in Board, cr \in Radio : c = [b |-> cb, r |-> cr]
  BY PairFacts DEF Driven
<1>2. DriverInv(c) /\ c.b = cb /\ c.r = cr /\ cb.sta_keep_ap = TRUE
  BY <1>1 DEF Driven
<1> DEFINE x == [cb EXCEPT !.sta_keep_ap = FALSE]
           y == ApStop(x)
           z == [y EXCEPT !.wifi = "CONNECTED", !.dhcp = TRUE]
           q == [cr EXCEPT !.ap = FALSE]
           alone == [c EXCEPT !.b = ApStop([c.b EXCEPT !.sta_keep_ap = FALSE]), !.r.ap = FALSE]
           last == [alone EXCEPT !.b.wifi = "CONNECTED", !.b.dhcp = TRUE]
<1>3. x \in Board /\ SameJoin(x, cb) /\ x.sta_connected = cb.sta_connected
  BY DEF Board, SameJoin
<1>4. alone = [b |-> y, r |-> q]
  <2>1. alone = [c EXCEPT !.b = y, !.r.ap = FALSE]
    BY <1>2
  <2>2. c = [b |-> cb, r |-> cr]
    BY <1>1
  <2> HIDE DEF alone, y
  <2> QED
    BY <2>1, <2>2
<1>5. TakeOver(c) = IF ~StaConnected(alone.b) THEN [ok |-> FALSE, c |-> alone]
                    ELSE [ok |-> TRUE, c |-> last]
  BY <1>2 DEF TakeOver
<1>6. last = [b |-> z, r |-> q]
  <2>1. last = [alone EXCEPT !.b.wifi = "CONNECTED", !.b.dhcp = TRUE]
    OBVIOUS
  <2> HIDE DEF last, alone, y, q
  <2> QED
    BY <1>4, <2>1
<1> HIDE DEF x, alone, last
<1>7. /\ y \in Board /\ SameJoin(y, x) /\ y.ap_running = FALSE /\ y.wifi = "IDLE"
      /\ y.sta_connected = x.sta_connected
  BY <1>3, ApStopFacts
<1> HIDE DEF y
<1>8. /\ z \in Board /\ SameJoin(z, y) /\ z.ap_running = FALSE /\ z.wifi = "CONNECTED"
      /\ z.sta_connected = y.sta_connected /\ z.dhcp = TRUE
  BY <1>7 DEF Board, SameJoin
<1> HIDE DEF z
<1>9. /\ q \in Radio /\ q.ap = FALSE /\ q.assoc = cr.assoc /\ q.trying = cr.trying
      /\ q.leaving = cr.leaving
  BY DEF Radio
<1> HIDE DEF q
<1>10. Driven(alone) /\ alone.r.ap = FALSE /\ SameJoin(alone.b, cb)
  BY ZenonT(30), <1>2, <1>3, <1>4, <1>7, <1>9 DEF Driven, Pair, DriverInv, SameJoin
<1>11. StaConnected(alone.b) <=> cr.assoc # NoCred
  BY <1>4, <1>9, <1>10, ConnectedFacts
<1>12. CASE cr.assoc # NoCred
  <2>1. TakeOver(c) = [ok |-> TRUE, c |-> last]
    BY <1>5, <1>11, <1>12
  <2>2. Driven(last)
    BY <1>2, <1>3, <1>6, <1>7, <1>8, <1>9, <1>12 DEF Driven, Pair, DriverInv
  <2>3. SameJoin(last.b, cb)
    BY <1>3, <1>6, <1>7, <1>8 DEF SameJoin
  <2> QED
    BY <1>2, <1>6, <1>8, <1>9, <1>12, <2>1, <2>2, <2>3
<1>13. CASE cr.assoc = NoCred
  <2>1. TakeOver(c) = [ok |-> FALSE, c |-> alone]
    BY <1>5, <1>11, <1>13
  <2> QED
    BY <1>2, <1>10, <1>13, <2>1
<1> QED
  BY <1>12, <1>13
-----------------------------------------------------------------------------
(* Joining. *)

(* What the driver's invariant is about is as before. *)
LEMMA KeptDriver ==
  ASSUME NEW c, Driven(c), NEW b \in Board, b.ap_running = c.b.ap_running, b.wifi = c.b.wifi,
         b.sta_connected = c.b.sta_connected
  PROVE  Driven([b |-> b, r |-> c.r])
<1>1. c \in Pair /\ DriverInv(c) /\ c.r \in Radio
  BY PairFacts DEF Driven
<1> QED
  BY <1>1 DEF Driven, Pair, DriverInv

(* prov_join_begin, of credentials there are *)
LEMMA JoinBeginFacts ==
  ASSUME NEW c, Driven(c), c.b.creds # NoCred, NEW keep \in BOOLEAN
  PROVE  LET n == JoinBegin(c, keep)
         IN /\ Driven(n) /\ n.r = c.r /\ n.b.state = "PENDING" /\ n.b.keep_ap = (keep /\ c.r.ap)
            /\ n.b.unproven = FALSE /\ n.b.creds = c.b.creds /\ n.b.setup = c.b.setup
            /\ n.b.prev = c.b.prev /\ n.b.kept = c.b.kept
<1>1. PICK cb \in Board, cr \in Radio : c = [b |-> cb, r |-> cr]
  BY PairFacts DEF Driven
<1> DEFINE k == keep /\ ApActive(cb)
           x == [cb EXCEPT !.state = "PENDING", !.keep_ap = k, !.unproven = FALSE,
                           !.backoff = 0, !.fast_path = FALSE]
           n == JoinBegin(c, keep)
<1>2. c.b = cb /\ c.r = cr /\ k = (keep /\ cr.ap) /\ k \in BOOLEAN
  BY <1>1, ConnectedFacts
<1>3. n = [c EXCEPT !.b.state = "PENDING", !.b.keep_ap = k, !.b.unproven = FALSE,
                    !.b.backoff = 0, !.b.fast_path = FALSE]
  BY <1>1 DEF JoinBegin
<1> HIDE DEF k, n
<1>4. n = [b |-> x, r |-> cr]
  BY <1>1, <1>3
<1>5. 0 \in 0 .. MaxBackoff /\ "PENDING" \in JoinState
  BY NumberAssumption DEF JoinState
<1>6. /\ x \in Board /\ x.state = "PENDING" /\ x.keep_ap = k /\ x.unproven = FALSE
      /\ x.creds = cb.creds /\ x.setup = cb.setup /\ x.prev = cb.prev /\ x.kept = cb.kept
      /\ x.ap_running = cb.ap_running /\ x.wifi = cb.wifi /\ x.sta_connected = cb.sta_connected
  BY ZenonT(30), <1>2, <1>5 DEF Board
<1> HIDE DEF x
<1>7. Driven(n)
  BY <1>2, <1>4, <1>6, KeptDriver
<1> QED
  BY <1>2, <1>4, <1>6, <1>7 DEF n

LEMMA PendingSound ==
  ASSUME NEW n, Driven(n), n.b.state = "PENDING", n.b.creds # NoCred, n.b.keep_ap = n.r.ap
  PROVE  JoinInv(n)
  BY DEF JoinInv

(* provisioning_request_join *)
LEMMA RequestJoinFacts ==
  ASSUME NEW c, Driven(c), c.b.creds # NoCred, NEW keep \in BOOLEAN
  PROVE  LET n == RequestJoin(c, keep)
         IN /\ Driven(n) /\ n.r = c.r /\ n.b.state = "PENDING" /\ n.b.keep_ap = (keep /\ c.r.ap)
            /\ n.b.unproven = FALSE /\ n.b.creds = c.b.creds /\ n.b.setup = c.b.setup
            /\ n.b.prev = c.b.prev
<1>1. PICK d : d = JoinBegin(c, keep)
  OBVIOUS
<1>2. /\ Driven(d) /\ d.r = c.r /\ d.b.state = "PENDING" /\ d.b.keep_ap = (keep /\ c.r.ap)
      /\ d.b.unproven = FALSE /\ d.b.creds = c.b.creds /\ d.b.setup = c.b.setup
      /\ d.b.prev = c.b.prev
  BY <1>1, JoinBeginFacts
<1>3. PICK db \in Board, dr \in Radio : d = [b |-> db, r |-> dr]
  BY <1>2, PairFacts DEF Driven
<1> DEFINE x == [db EXCEPT !.cached = FALSE, !.fast_failures = 0]
           n == RequestJoin(c, keep)
<1>4. n = [d EXCEPT !.b.cached = FALSE, !.b.fast_failures = 0]
  BY <1>1 DEF RequestJoin
<1> HIDE DEF n
<1>5. n = [b |-> x, r |-> dr]
  BY <1>3, <1>4
<1>6. 0 \in 0 .. FastAttempts
  BY NumberAssumption
<1>7. /\ x \in Board /\ x.state = db.state /\ x.keep_ap = db.keep_ap /\ x.unproven = db.unproven
      /\ x.creds = db.creds /\ x.setup = db.setup /\ x.prev = db.prev
      /\ x.ap_running = db.ap_running /\ x.wifi = db.wifi /\ x.sta_connected = db.sta_connected
  BY <1>6 DEF Board
<1> HIDE DEF x
<1>8. d.b = db /\ d.r = dr
  BY <1>3
<1>9. Driven(n)
  BY <1>2, <1>5, <1>7, <1>8, KeptDriver
<1> QED
  BY <1>2, <1>5, <1>7, <1>8, <1>9 DEF n

(* provisioning_setup_close: the join starts over without the SoftAP. *)
LEMMA SetupEndFacts ==
  ASSUME NEW c, Driven(c)
  PROVE  LET n == SetupEnd(c)
         IN /\ Driven(n) /\ n.r = c.r /\ n.b.setup = FALSE /\ n.b.state = c.b.state
            /\ n.b.creds = c.b.creds /\ n.b.keep_ap = c.b.keep_ap /\ n.b.lost = c.b.lost
            /\ n.b.dhcp = c.b.dhcp /\ n.b.sta_keep_ap = c.b.sta_keep_ap
<1>1. PICK cb \in Board, cr \in Radio : c = [b |-> cb, r |-> cr]
  BY PairFacts DEF Driven
<1> DEFINE x == [cb EXCEPT !.setup = FALSE, !.prev = NoCred]
           n == SetupEnd(c)
<1>2. n = [c EXCEPT !.b.setup = FALSE, !.b.prev = NoCred]
  BY DEF SetupEnd
<1> HIDE DEF n
<1>3. n = [b |-> x, r |-> cr]
  BY <1>1, <1>2
<1>4. /\ x \in Board /\ x.setup = FALSE /\ x.state = cb.state /\ x.creds = cb.creds
      /\ x.keep_ap = cb.keep_ap /\ x.lost = cb.lost /\ x.dhcp = cb.dhcp
      /\ x.sta_keep_ap = cb.sta_keep_ap
      /\ x.ap_running = cb.ap_running /\ x.wifi = cb.wifi /\ x.sta_connected = cb.sta_connected
  BY DEF Board
<1> HIDE DEF x
<1>5. c.b = cb /\ c.r = cr
  BY <1>1
<1>6. Driven(n)
  BY <1>3, <1>4, <1>5, KeptDriver
<1> QED
  BY <1>3, <1>4, <1>5, <1>6 DEF n

LEMMA SetupCloseFacts ==
  ASSUME NEW c, NEW B, Driven(c), JoinInv(c)
  PROVE  Sound(SetupClose(c), B)
<1> DEFINE ended == SetupEnd(c)
           alone == IF ApActive(ended.b) THEN StopAp(ended) ELSE ended
           n     == JoinBegin(alone, FALSE)
<1>1. SetupClose(c) = n
  BY DEF SetupClose
<1>2. /\ Driven(ended) /\ ended.b.setup = FALSE /\ ended.b.state = c.b.state
      /\ ended.b.creds = c.b.creds /\ ended \in Pair
  BY SetupEndFacts DEF Driven
<1> HIDE DEF ended
<1>3. /\ Driven(alone) /\ alone.r.ap = FALSE /\ alone.b.setup = FALSE
      /\ alone.b.state = c.b.state /\ alone.b.creds = c.b.creds
  <2>1. CASE ended.r.ap = TRUE
    <3>1. alone = StopAp(ended)
      BY <1>2, <2>1, ConnectedFacts
    <3> HIDE DEF alone
    <3> QED
      BY <1>2, <3>1, StopApFacts DEF SameJoin
  <2>2. CASE ended.r.ap = FALSE
    <3>1. alone = ended
      BY <1>2, <2>2, ConnectedFacts
    <3> HIDE DEF alone
    <3> QED
      BY <1>2, <2>2, <3>1
  <2>3. ended.r.ap \in BOOLEAN
    BY <1>2, PairFacts DEF Radio
  <2> QED
    BY <2>1, <2>2, <2>3
<1> HIDE DEF alone
<1>4. CASE c.b.creds # NoCred
  <2>1. /\ Driven(n) /\ n.r = alone.r /\ n.b.state = "PENDING" /\ n.b.keep_ap = (FALSE /\ alone.r.ap)
        /\ n.b.creds = c.b.creds /\ n.b.setup = FALSE
    BY <1>3, <1>4, JoinBeginFacts
  <2> HIDE DEF n
  <2>2. JoinInv(n)
    BY <1>3, <1>4, <2>1, PendingSound
  <2> QED
    BY <1>1, <2>1, <2>2 DEF Sound, WorkedInv, AimInv
<1>5. CASE c.b.creds = NoCred
  <2>1. n = alone
    BY <1>3, <1>5 DEF JoinBegin
  <2>2. JoinInv(alone) /\ AimInv(alone, B)
    BY <1>3, <1>5 DEF JoinInv, OnItsWay, AimInv
  <2> HIDE DEF n
  <2> QED
    BY <1>1, <1>3, <2>1, <2>2 DEF Sound, WorkedInv, AimInv
<1> QED
  BY <1>4, <1>5

(* prov_setup_tick *)
LEMMA SetupTickFacts ==
  ASSUME NEW c, NEW B, Sound(c, B), NEW d \in SetupTick(c)
  PROVE  Sound(d, B)
<1>1. Driven(c) /\ JoinInv(c)
  BY DEF Sound
<1>2. \/ d = c
      \/ d = SetupClose(c)
      \/ d = SetupEnd(c) /\ c.b.state = "ONLINE"
  BY DEF SetupTick
<1>3. CASE d = SetupEnd(c) /\ c.b.state = "ONLINE"
  <2>1. /\ Driven(d) /\ d.r = c.r /\ d.b.setup = FALSE /\ d.b.state = "ONLINE"
        /\ d.b.creds = c.b.creds /\ d.b.keep_ap = c.b.keep_ap /\ d.b.lost = c.b.lost
        /\ d.b.dhcp = c.b.dhcp
    BY <1>1, <1>3, SetupEndFacts
  <2>2. JoinInv(d)
    <3>1. c.b.state = "ONLINE"
      BY <1>3
    <3> QED
      BY <1>1, <2>1, <3>1 DEF JoinInv, OnItsWay
  <2> QED
    BY <2>1, <2>2 DEF Sound, WorkedInv, AimInv
<1> QED
  BY <1>1, <1>2, <1>3, SetupCloseFacts

(* prov_join_attempt_failed: what portal credentials that did not join give   *)
(* way to.                                                                    *)
LEMMA ForgetFacts ==
  ASSUME NEW b \in Board
  PROVE  LET n == Forget(b)
         IN /\ n \in Board /\ n.creds = (IF b.unproven = TRUE THEN (IF b.setup = TRUE THEN b.prev ELSE NoCred)
                                         ELSE b.creds)
            /\ n.setup = b.setup /\ n.prev = b.prev /\ n.state = b.state /\ n.keep_ap = b.keep_ap
            /\ n.ap_running = b.ap_running /\ n.wifi = b.wifi /\ n.sta_connected = b.sta_connected
<1> DEFINE back == IF b.unproven = TRUE THEN (IF b.setup = TRUE THEN b.prev ELSE NoCred) ELSE b.creds
           k == IF b.unproven = TRUE THEN back ELSE b.kept
           x == [b EXCEPT !.creds = back, !.kept = k, !.unproven = FALSE]
<1>1. back \in Cred \cup {NoCred} /\ k \in Cred \cup {NoCred}
  BY DEF Board
<1>2. b.unproven \in BOOLEAN /\ b.setup \in BOOLEAN
  BY DEF Board
<1>3. Forget(b) = x
  BY <1>2 DEF Forget
<1> HIDE DEF back, k
<1>4. /\ x \in Board /\ x.creds = back
      /\ x.setup = b.setup /\ x.prev = b.prev /\ x.state = b.state /\ x.keep_ap = b.keep_ap
      /\ x.ap_running = b.ap_running /\ x.wifi = b.wifi /\ x.sta_connected = b.sta_connected
  BY <1>1 DEF Board
<1> HIDE DEF x
<1> QED
  BY <1>3, <1>4 DEF back

LEMMA CountFacts ==
  ASSUME NEW b \in Board
  PROVE  NextBackoff(b.backoff) \in 0 .. MaxBackoff /\ FailedFast(b) \in 0 .. FastAttempts
<1>1. b.backoff \in 0 .. MaxBackoff /\ b.fast_failures \in 0 .. FastAttempts
  BY DEF Board
<1>2. NextBackoff(b.backoff) \in 0 .. MaxBackoff
  BY <1>1, NumberAssumption DEF NextBackoff
<1>3. FailedFast(b) \in 0 .. FastAttempts
  BY <1>1, NumberAssumption DEF FailedFast
<1> QED
  BY <1>2, <1>3

LEMMA RetryFacts ==
  ASSUME NEW b \in Board
  PROVE  LET n == ScheduleRetry(b)
         IN /\ n \in Board /\ n.state = "RETRY_WAIT" /\ n.keep_ap = b.keep_ap /\ n.creds = b.creds
            /\ n.setup = b.setup /\ n.prev = b.prev
            /\ n.ap_running = b.ap_running /\ n.wifi = b.wifi /\ n.sta_connected = b.sta_connected
<1> DEFINE k == NextBackoff(b.backoff)
<1>1. k \in 0 .. MaxBackoff /\ "RETRY_WAIT" \in JoinState
  BY CountFacts DEF JoinState
<1>2. ScheduleRetry(b) = [b EXCEPT !.state = "RETRY_WAIT", !.backoff = k]
  BY DEF ScheduleRetry
<1> HIDE DEF k
<1> QED
  BY ZenonT(30), <1>1, <1>2 DEF Board

LEMMA AttemptFailedFacts ==
  ASSUME NEW c, NEW B, Driven(c), c.b.creds # NoCred, c.b.keep_ap = c.r.ap,
         c.b.state \in {"JOINING", "HANDOVER"}, WorkedInv(c, B)
  PROVE  Sound(AttemptFailed(c), B)
<1>1. PICK cb \in Board, cr \in Radio : c = [b |-> cb, r |-> cr]
  BY PairFacts DEF Driven
<1>2. c.b = cb /\ c.r = cr /\ cb.keep_ap \in BOOLEAN /\ cb.keep_ap = cr.ap
  BY <1>1 DEF Board
<1>3. CASE cb.keep_ap = TRUE
  <2>1. PICK d : d = AbortKeepAp(c)
    OBVIOUS
  <2>2. Driven(d) /\ SameJoin(d.b, cb) /\ d.r.ap = TRUE
    BY <1>2, <1>3, <2>1, AbortKeepApFacts
  <2>3. PICK db \in Board, dr \in Radio : d = [b |-> db, r |-> dr]
    BY <2>2, PairFacts DEF Driven
  <2>4. SameJoin(db, cb) /\ dr.ap = TRUE
    BY <2>2, <2>3
  <2> DEFINE y == Forget(db)
             x == [y EXCEPT !.state = "FAILED"]
             n == AttemptFailed(c)
  <2>5. n = [d EXCEPT !.b = x]
    BY <1>2, <1>3, <2>1, <2>3 DEF AttemptFailed
  <2>6. /\ y \in Board
        /\ y.creds = (IF db.unproven = TRUE THEN (IF db.setup = TRUE THEN db.prev ELSE NoCred) ELSE db.creds)
        /\ y.setup = db.setup /\ y.prev = db.prev
        /\ y.ap_running = db.ap_running /\ y.wifi = db.wifi /\ y.sta_connected = db.sta_connected
    BY ForgetFacts
  <2> HIDE DEF y, n
  <2>7. /\ x \in Board /\ x.creds = y.creds /\ x.setup = y.setup /\ x.prev = y.prev /\ x.state = "FAILED"
        /\ x.ap_running = y.ap_running /\ x.wifi = y.wifi /\ x.sta_connected = y.sta_connected
    BY <2>6 DEF Board, JoinState
  <2> HIDE DEF x
  <2>8. n = [b |-> x, r |-> dr]
    BY <2>3, <2>5
  <2>9. Driven(n)
    BY <2>2, <2>3, <2>6, <2>7, <2>8, KeptDriver
  <2>10. JoinInv(n)
    BY <2>4, <2>7, <2>8 DEF JoinInv, OnItsWay
  <2>11. WorkedInv(n, B) /\ AimInv(n, B)
    <3>1. /\ y.creds = (IF cb.unproven = TRUE THEN (IF cb.setup = TRUE THEN cb.prev ELSE NoCred) ELSE cb.creds)
          /\ x.creds = y.creds /\ x.setup = cb.setup /\ x.prev = cb.prev /\ cb.unproven \in BOOLEAN
      BY <2>4, <2>6, <2>7 DEF SameJoin, Board
    <3>2. ASSUME cb.setup = TRUE, cb.prev # NoCred, cb.unproven = FALSE
          PROVE  cb.creds \in {cb.prev} \cup B
      BY <1>2, <1>3, <3>2 DEF WorkedInv
    <3>3. x.setup = TRUE /\ x.prev # NoCred => x.creds \in {x.prev} \cup B
      BY <3>1, <3>2
    <3> QED
      BY <2>7, <2>8, <3>3 DEF WorkedInv, AimInv
  <2> QED
    BY <2>9, <2>10, <2>11 DEF Sound, n
<1>4. CASE cb.keep_ap = FALSE
  <2>1. PICK d : d = EndAttempt(c)
    OBVIOUS
  <2>2. Driven(d) /\ SameJoin(d.b, cb) /\ d.r.ap = FALSE
    BY <1>2, <1>4, <2>1, EndAttemptFacts
  <2>3. PICK db \in Board, dr \in Radio : d = [b |-> db, r |-> dr]
    BY <2>2, PairFacts DEF Driven
  <2>4. SameJoin(db, cb) /\ dr.ap = FALSE
    BY <2>2, <2>3
  <2> DEFINE y == ScheduleRetry(db)
             k == FailedFast(cb)
             x == [y EXCEPT !.fast_failures = k]
             n == AttemptFailed(c)
  <2>5. n = [d EXCEPT !.b = x]
    BY <1>2, <1>4, <2>1, <2>3 DEF AttemptFailed
  <2>6. /\ y \in Board /\ y.state = "RETRY_WAIT" /\ y.keep_ap = db.keep_ap /\ y.creds = db.creds
        /\ y.setup = db.setup /\ y.prev = db.prev
        /\ y.ap_running = db.ap_running /\ y.wifi = db.wifi /\ y.sta_connected = db.sta_connected
    BY RetryFacts
  <2>7. k \in 0 .. FastAttempts
    BY CountFacts
  <2> HIDE DEF y, n, k
  <2>8. /\ x \in Board /\ x.creds = y.creds /\ x.state = "RETRY_WAIT" /\ x.keep_ap = y.keep_ap
        /\ x.ap_running = y.ap_running /\ x.wifi = y.wifi /\ x.sta_connected = y.sta_connected
    BY <2>6, <2>7 DEF Board
  <2> HIDE DEF x
  <2>9. n = [b |-> x, r |-> dr]
    BY <2>3, <2>5
  <2>10. Driven(n)
    BY <2>2, <2>3, <2>6, <2>8, <2>9, KeptDriver
  <2>11. x.keep_ap = FALSE /\ x.creds # NoCred
    BY <1>2, <1>4, <2>4, <2>6, <2>8 DEF SameJoin
  <2>12. JoinInv(n)
    BY <2>4, <2>8, <2>9, <2>11 DEF JoinInv, OnItsWay
  <2>13. WorkedInv(n, B) /\ AimInv(n, B)
    BY <2>8, <2>9 DEF WorkedInv, AimInv
  <2> QED
    BY <2>10, <2>12, <2>13 DEF Sound, n
<1> QED
  BY <1>2, <1>3, <1>4
-----------------------------------------------------------------------------
(* One lemma for each step of the tick. *)

LEMMA HereFacts ==
  ASSUME IInv
  PROVE  /\ Sound(Here, Worked) /\ Driven(Here) /\ JoinInv(Here) /\ WorkedInv(Here, Worked)
         /\ AimInv(Here, Worked) /\ Here.b = board /\ Here.r = radio /\ board \in Board /\ radio \in Radio /\ Histories
  BY DEF IInv, Sound, Driven, Here, Pair

(* A step ends in the pair d. *)
LEMMA Landing ==
  ASSUME NEW d, Sound(d, Worked'), board' = d.b, radio' = d.r, Histories'
  PROVE  IInv'
<1>1. d = [b |-> board', r |-> radio']
  BY PairFacts DEF Sound, Driven
<1>2. Here' = d
  BY <1>1 DEF Here
<1>3. Sound(Here, Worked)'
  BY <1>2 DEF Sound, Driven, JoinInv, WorkedInv, DriverInv
<1> QED
  BY <1>3 DEF IInv

LEMMA EndTickStep ==
  ASSUME NEW c, Sound(c, Worked'), EndTick(c), Histories'
  PROVE  IInv'
<1>1. PICK d \in SetupTick(c) : board' = d.b /\ radio' = d.r
  BY DEF EndTick
<1>2. Sound(d, Worked')
  BY SetupTickFacts
<1> QED
  BY <1>1, <1>2, Landing

LEMMA TickPendingStep == ASSUME IInv, TickPending PROVE IInv'
<1> DEFINE fast  == ~board.keep_ap /\ board.cached /\ board.fast_failures < FastAttempts
           begun == [Here EXCEPT !.b.state = "JOINING", !.b.fast_path = fast]
           x     == [board EXCEPT !.state = "JOINING", !.fast_path = fast]
<1>1. /\ Driven(Here) /\ JoinInv(Here) /\ WorkedInv(Here, Worked) /\ Here.b = board /\ Here.r = radio
      /\ board \in Board /\ radio \in Radio /\ Histories
  BY HereFacts
<1>2. /\ board.state = "PENDING" /\ radio.leaving = FALSE /\ board.creds \in Cred
      /\ board.keep_ap = radio.ap /\ board.keep_ap \in BOOLEAN
  BY <1>1 DEF TickPending, JoinInv, OnItsWay, Board, Radio
<1> DEFINE over == IF Wpa2Join(begun).r.assoc = NoCred THEN overlaid ELSE overlaid \cup {board.creds}
<1>3. /\ stored' = stored /\ overdue' = overdue /\ trouble' = trouble /\ tested' = tested
      /\ IF board.creds \in Open
         THEN EndTick(AttemptFailed([begun EXCEPT !.b.lost = FALSE])) /\ overlaid' = overlaid
         ELSE EndTick([Wpa2Join(begun) EXCEPT !.b.lost = FALSE]) /\ overlaid' = over
  BY DEF TickPending
<1> HIDE DEF over
<1>4. begun = [b |-> x, r |-> radio]
  <2>1. begun = [Here EXCEPT !.b.state = "JOINING", !.b.fast_path = fast]
    OBVIOUS
  <2>2. Here = [b |-> board, r |-> radio]
    BY DEF Here
  <2> HIDE DEF begun, fast
  <2> QED
    BY <2>1, <2>2
<1>5. fast \in BOOLEAN
  OBVIOUS
<1> HIDE DEF begun, fast
<1>6. /\ x \in Board /\ x.state = "JOINING" /\ x.keep_ap = board.keep_ap /\ x.creds = board.creds
      /\ x.setup = board.setup /\ x.prev = board.prev /\ x.unproven = board.unproven
      /\ x.ap_running = board.ap_running /\ x.wifi = board.wifi
      /\ x.sta_connected = board.sta_connected
  BY ZenonT(30), <1>1, <1>5 DEF Board, JoinState
<1> HIDE DEF x
<1>7. Driven(begun) /\ begun.b = x /\ begun.r = radio
  BY <1>1, <1>4, <1>6, KeptDriver
<1>8. /\ overlaid \subseteq overlaid' /\ overlaid' \subseteq overlaid \cup {board.creds}
      /\ Worked \subseteq Worked' /\ Histories'
  <2>1. over \in {overlaid, overlaid \cup {board.creds}}
    BY DEF over
  <2>2. overlaid \subseteq overlaid' /\ overlaid' \subseteq overlaid \cup {board.creds}
    BY <1>3, <2>1
  <2>3. Worked \subseteq Worked'
    BY <1>3, <2>2 DEF Worked
  <2> QED
    BY <1>1, <1>2, <1>3, <2>2, <2>3 DEF Histories
<1>9. board.creds # NoCred /\ radio.ap \in BOOLEAN
  BY <1>1, <1>2, CredAssumption DEF Radio
<1>10. CASE board.creds \in Open
  <2>1. PICK e : e = [begun EXCEPT !.b.lost = FALSE]
    OBVIOUS
  <2> DEFINE y == [x EXCEPT !.lost = FALSE]
  <2>2. e = [b |-> y, r |-> radio]
    BY <1>4, <2>1
  <2>3. /\ y \in Board /\ y.state = "JOINING" /\ y.keep_ap = x.keep_ap /\ y.creds = x.creds
        /\ y.setup = x.setup /\ y.prev = x.prev /\ y.unproven = x.unproven
        /\ y.ap_running = x.ap_running /\ y.wifi = x.wifi
        /\ y.sta_connected = x.sta_connected
    BY <1>6 DEF Board
  <2> HIDE DEF y
  <2>4. Driven(e) /\ e.b = y /\ e.r = radio
    BY <1>7, <2>2, <2>3, KeptDriver
  <2>5. WorkedInv(e, Worked')
    BY <1>1, <1>2, <1>6, <1>8, <2>3, <2>4 DEF WorkedInv
  <2>6. Sound(AttemptFailed(e), Worked')
    BY <1>2, <1>6, <1>9, <2>3, <2>4, <2>5, AttemptFailedFacts
  <2>7. EndTick(AttemptFailed(e))
    BY <1>3, <1>10, <2>1
  <2> QED
    BY <1>8, <2>6, <2>7, EndTickStep
<1>11. CASE board.creds \notin Open
  <2>1. PICK d : d = Wpa2Join(begun)
    OBVIOUS
  <2>2. /\ Driven(d) /\ SameJoin(d.b, x)
        /\ d.r.ap = (x.keep_ap /\ radio.ap) /\ d.b.sta_keep_ap = (x.keep_ap /\ radio.ap)
        /\ x.keep_ap = FALSE => d.r.assoc = NoCred
        /\ d.r.assoc = NoCred => d.r.trying = board.creds
    BY <1>2, <1>6, <1>7, <2>1, Wpa2JoinFacts
  <2>3. PICK db \in Board, dr \in Radio : d = [b |-> db, r |-> dr]
    BY <2>2, PairFacts DEF Driven
  <2>4. PICK e : e = [d EXCEPT !.b.lost = FALSE]
    OBVIOUS
  <2> DEFINE y == [db EXCEPT !.lost = FALSE]
  <2>5. e = [b |-> y, r |-> dr]
    BY <2>3, <2>4
  <2>6. /\ y \in Board /\ SameJoin(y, db) /\ y.sta_keep_ap = db.sta_keep_ap
        /\ y.ap_running = db.ap_running /\ y.wifi = db.wifi
        /\ y.sta_connected = db.sta_connected
    BY DEF Board, SameJoin
  <2> HIDE DEF y
  <2>7. d.b = db /\ d.r = dr
    BY <2>3
  <2>8. Driven(e) /\ e.b = y /\ e.r = dr
    BY <2>2, <2>5, <2>6, <2>7, KeptDriver
  <2>9. SameJoin(y, x)
    BY <2>2, <2>6, <2>7 DEF SameJoin
  <2>10. dr.ap = radio.ap /\ y.sta_keep_ap = radio.ap
    BY <1>2, <1>6, <1>9, <2>2, <2>6, <2>7
  <2>11. JoinInv(e)
    BY <1>2, <1>6, <1>9, <2>2, <2>7, <2>8, <2>9, <2>10 DEF JoinInv, SameJoin, OnItsWay
  <2>a. y.state = "JOINING" /\ y.creds = board.creds
    BY <1>6, <2>9 DEF SameJoin
  <2>b. WorkedInv(e, Worked')
    BY <1>1, <1>2, <1>6, <1>8, <2>8, <2>9 DEF WorkedInv, SameJoin
  <2>c. dr.assoc # NoCred => board.creds \in Worked'
    BY <1>3, <1>11, <2>1, <2>7 DEF over, Worked
  <2>12. WorkedInv(e, Worked') /\ AimInv(e, Worked')
    BY <2>2, <2>7, <2>8, <2>a, <2>b, <2>c DEF AimInv
  <2>13. EndTick(e)
    BY <1>3, <1>11, <2>1, <2>4
  <2> QED
    BY <1>8, <2>8, <2>11, <2>12, <2>13, EndTickStep DEF Sound
<1> QED
  BY <1>10, <1>11

LEMMA JoinSucceededFacts ==
  ASSUME NEW c, NEW B, Driven(c), JoinInv(c), c.b.creds \in B, c.b.state = "JOINING",
         c.r.assoc # NoCred, c.b.lost = FALSE
  PROVE  Sound(JoinSucceeded(c), B)
<1>1. PICK cb \in Board, cr \in Radio : c = [b |-> cb, r |-> cr]
  BY PairFacts DEF Driven
<1>2. c.b = cb /\ c.r = cr /\ cb.keep_ap \in BOOLEAN
  BY <1>1 DEF Board
<1> DEFINE s == IF cb.keep_ap THEN "HANDOVER" ELSE "ONLINE"
           x == [cb EXCEPT !.cached = TRUE, !.fast_failures = 0, !.unproven = FALSE, !.backoff = 0,
                           !.state = s]
           q == [cr EXCEPT !.moved = FALSE]
           n == JoinSucceeded(c)
<1>3. n = [c EXCEPT !.b.cached = TRUE, !.b.fast_failures = 0, !.b.unproven = FALSE, !.b.backoff = 0,
                    !.b.state = s, !.r.moved = FALSE]
  BY <1>1 DEF JoinSucceeded
<1>4. /\ s \in JoinState /\ s \in {"HANDOVER", "ONLINE"}
      /\ s = "HANDOVER" <=> cb.keep_ap = TRUE
  BY <1>2 DEF JoinState
<1> HIDE DEF n, s
<1>5. n = [b |-> x, r |-> q]
  BY <1>1, <1>3
<1>6. 0 \in 0 .. MaxBackoff /\ 0 \in 0 .. FastAttempts
  BY NumberAssumption
<1>7. /\ x \in Board /\ x.state = s /\ x.creds = cb.creds /\ x.keep_ap = cb.keep_ap
      /\ x.setup = cb.setup /\ x.prev = cb.prev /\ x.dhcp = cb.dhcp /\ x.lost = cb.lost
      /\ x.sta_keep_ap = cb.sta_keep_ap
      /\ x.ap_running = cb.ap_running /\ x.wifi = cb.wifi /\ x.sta_connected = cb.sta_connected
  BY <1>4, <1>6 DEF Board
<1>8. /\ q \in Radio /\ q.ap = cr.ap /\ q.assoc = cr.assoc /\ q.trying = cr.trying
      /\ q.leaving = cr.leaving
  BY DEF Radio
<1> HIDE DEF x, q
<1>9. Driven(n)
  BY <1>2, <1>5, <1>7, <1>8 DEF Driven, Pair, DriverInv
<1>10. JoinInv(n)
  BY <1>2, <1>4, <1>5, <1>7, <1>8 DEF JoinInv, OnItsWay
<1>11. WorkedInv(n, B) /\ AimInv(n, B)
  BY <1>2, <1>5, <1>7 DEF WorkedInv, AimInv
<1> QED
  BY <1>9, <1>10, <1>11 DEF Sound, n

LEMMA TickJoinedStep == ASSUME IInv, TickJoined PROVE IInv'
<1>1. /\ Driven(Here) /\ JoinInv(Here) /\ AimInv(Here, Worked) /\ Here.b = board /\ Here.r = radio
      /\ board \in Board /\ Histories
  BY HereFacts
<1>2. /\ board.state = "JOINING" /\ Joined /\ EndTick(JoinSucceeded(Here))
      /\ UNCHANGED <<stored, overdue, trouble, hist>>
  BY DEF TickJoined
<1>3. radio.assoc # NoCred /\ board.lost = FALSE
  BY <1>1, <1>2, ConnectedFacts DEF Joined, Board
<1>4. board.creds \in Cred
  BY <1>1, <1>2 DEF JoinInv, OnItsWay, Board
<1>5. Histories' /\ Worked' = Worked
  BY <1>1, <1>2 DEF Histories, hist, Worked
<1>6. board.creds \in Worked'
  BY <1>1, <1>2, <1>3, <1>5 DEF AimInv
<1>7. Sound(JoinSucceeded(Here), Worked')
  BY <1>1, <1>2, <1>3, <1>6, JoinSucceededFacts
<1> QED
  BY <1>2, <1>5, <1>7, EndTickStep

LEMMA FailingStep ==
  ASSUME IInv, board.state \in {"JOINING", "HANDOVER"}, EndTick(AttemptFailed(Here)), Histories',
         Worked' = Worked
  PROVE  IInv'
<1>1. /\ Driven(Here) /\ JoinInv(Here) /\ WorkedInv(Here, Worked) /\ AimInv(Here, Worked)
      /\ Here.b = board /\ Here.r = radio
  BY HereFacts
<1>2. board.creds # NoCred /\ board.keep_ap = radio.ap
  BY <1>1 DEF JoinInv, OnItsWay
<1>3. Sound(AttemptFailed(Here), Worked)
  BY <1>1, <1>2, AttemptFailedFacts
<1> QED
  BY <1>3, EndTickStep

LEMMA TickJoinFailedStep == ASSUME IInv, TickJoinFailed PROVE IInv'
<1>1. Histories' /\ Worked' = Worked
  BY HereFacts DEF TickJoinFailed, Histories, hist, Worked
<1> QED
  BY <1>1, FailingStep DEF TickJoinFailed

(* wifi_sta_take_over succeeds, or the attempt failed after all. *)
LEMMA TakenOver ==
  ASSUME NEW c, NEW B, Driven(c), c.b.state = "HANDOVER", c.b.sta_keep_ap = TRUE,
         c.b.creds # NoCred
  PROVE  /\ TakeOver(c).ok => Sound([TakeOver(c).c EXCEPT !.b.state = "ONLINE", !.b.keep_ap = FALSE], B)
         /\ ~TakeOver(c).ok => Sound(AttemptFailed([TakeOver(c).c EXCEPT !.b.keep_ap = FALSE]), B)
<1>1. PICK n : n = TakeOver(c)
  OBVIOUS
<1>2. /\ Driven(n.c) /\ SameJoin(n.c.b, c.b) /\ n.c.r.ap = FALSE
      /\ n.ok <=> c.r.assoc # NoCred
      /\ n.ok => n.c.b.dhcp = TRUE /\ n.c.r.assoc = c.r.assoc
  BY <1>1, TakeOverFacts
<1>3. PICK d : d = n.c
  OBVIOUS
<1>4. PICK db \in Board, dr \in Radio : d = [b |-> db, r |-> dr]
  BY <1>2, <1>3, PairFacts DEF Driven
<1>5. d.b = db /\ d.r = dr /\ Driven(d) /\ SameJoin(db, c.b) /\ dr.ap = FALSE
  BY <1>2, <1>3, <1>4
<1>6. ASSUME n.ok
      PROVE  Sound([d EXCEPT !.b.state = "ONLINE", !.b.keep_ap = FALSE], B)
  <2> DEFINE x == [db EXCEPT !.state = "ONLINE", !.keep_ap = FALSE]
  <2>1. PICK e : e = [d EXCEPT !.b.state = "ONLINE", !.b.keep_ap = FALSE]
    OBVIOUS
  <2>2. e = [b |-> x, r |-> dr]
    BY <1>4, <2>1
  <2>3. /\ x \in Board /\ x.state = "ONLINE" /\ x.keep_ap = FALSE /\ x.creds = db.creds
        /\ x.dhcp = db.dhcp
        /\ x.ap_running = db.ap_running /\ x.wifi = db.wifi /\ x.sta_connected = db.sta_connected
    BY DEF Board, JoinState
  <2> HIDE DEF x
  <2>4. Driven(e)
    BY <1>5, <2>2, <2>3, KeptDriver
  <2>5. x.creds # NoCred /\ dr.assoc # NoCred /\ x.dhcp = TRUE
    BY <1>2, <1>3, <1>5, <1>6, <2>3 DEF SameJoin
  <2>6. JoinInv(e)
    BY <1>5, <2>2, <2>3, <2>5 DEF JoinInv, OnItsWay
  <2>7. WorkedInv(e, B) /\ AimInv(e, B)
    BY <2>2, <2>3 DEF WorkedInv, AimInv
  <2> QED
    BY <2>1, <2>4, <2>6, <2>7 DEF Sound
<1>7. Sound(AttemptFailed([d EXCEPT !.b.keep_ap = FALSE]), B)
  <2> DEFINE x == [db EXCEPT !.keep_ap = FALSE]
  <2>1. PICK e : e = [d EXCEPT !.b.keep_ap = FALSE]
    OBVIOUS
  <2>2. e = [b |-> x, r |-> dr]
    BY <1>4, <2>1
  <2>3. /\ x \in Board /\ x.state = db.state /\ x.keep_ap = FALSE /\ x.creds = db.creds
        /\ x.ap_running = db.ap_running /\ x.wifi = db.wifi /\ x.sta_connected = db.sta_connected
    BY DEF Board
  <2> HIDE DEF x
  <2>4. Driven(e) /\ e.b = x /\ e.r = dr
    BY <1>5, <2>2, <2>3, KeptDriver
  <2>5. x.creds # NoCred /\ x.state = "HANDOVER"
    BY <1>5, <2>3 DEF SameJoin
  <2>6. WorkedInv(e, B) /\ AimInv(e, B)
    BY <2>3, <2>4, <2>5 DEF WorkedInv, AimInv
  <2>7. Sound(AttemptFailed(e), B)
    BY <1>5, <2>3, <2>4, <2>5, <2>6, AttemptFailedFacts
  <2> QED
    BY <2>1, <2>7
<1> QED
  BY <1>1, <1>3, <1>6, <1>7

(* The link is gone: what StaDisconnected and the radio make of a pair.       *)
LEMMA LostFacts ==
  ASSUME NEW c, Driven(c), NEW q \in Radio, q.ap = c.r.ap, q.assoc = NoCred,
         q.leaving = TRUE => q.trying = NoCred
  PROVE  Driven([b |-> StaDisconnected(c.b), r |-> q])
<1>1. c.b \in Board /\ DriverInv(c)
  BY PairFacts DEF Driven
<1>2. PICK n : n = StaDisconnected(c.b)
  OBVIOUS
<1>3. /\ n \in Board /\ n.sta_connected = FALSE /\ n.ap_running = c.b.ap_running
      /\ n.wifi = (IF c.b.ap_running THEN "AP_ACTIVE" ELSE "ACTIVE")
  BY <1>1, <1>2, StaDisconnectedFacts
<1>4. c.b.ap_running \in BOOLEAN
  BY <1>1 DEF Board
<1>5. Driven([b |-> n, r |-> q])
  BY <1>1, <1>3, <1>4 DEF Driven, Pair, DriverInv
<1> QED
  BY <1>2, <1>5

LEMMA TickHandoverStep == ASSUME IInv, TickHandover PROVE IInv'
<1> DEFINE after(c) == IF TakeOver(c).ok
                       THEN [TakeOver(c).c EXCEPT !.b.state = "ONLINE", !.b.keep_ap = FALSE]
                       ELSE AttemptFailed([TakeOver(c).c EXCEPT !.b.keep_ap = FALSE])
           q == [radio EXCEPT !.assoc = NoCred]
           l == [b |-> StaDisconnected(board), r |-> q]
<1>1. /\ Driven(Here) /\ JoinInv(Here) /\ WorkedInv(Here, Worked)
      /\ Here.b = board /\ Here.r = radio /\ board \in Board /\ radio \in Radio /\ Histories
  BY HereFacts
<1>2. /\ board.state = "HANDOVER" /\ UNCHANGED <<stored, overdue, hist>>
      /\ \/ EndTick(AttemptFailed(Here)) /\ UNCHANGED trouble
         \/ EndTick(after(Here)) /\ UNCHANGED trouble
         \/ trouble > 0 /\ trouble' = trouble - 1 /\ EndTick(after(l))
  BY DEF TickHandover
<1> HIDE DEF after, l
<1>3. Histories' /\ Worked' = Worked
  BY <1>1, <1>2, NumberAssumption DEF Histories, hist, Worked
<1>4. board.sta_keep_ap = TRUE /\ board.creds # NoCred
  BY <1>1, <1>2 DEF JoinInv, OnItsWay
<1>5. ASSUME NEW c, Driven(c), c.b.state = "HANDOVER", c.b.sta_keep_ap = TRUE,
             c.b.creds # NoCred, EndTick(after(c))
      PROVE  IInv'
  <2>1. Sound(after(c), Worked)
    <3>1. TakeOver(c).ok => Sound([TakeOver(c).c EXCEPT !.b.state = "ONLINE", !.b.keep_ap = FALSE], Worked)
      BY <1>5, TakenOver
    <3>2. ~TakeOver(c).ok => Sound(AttemptFailed([TakeOver(c).c EXCEPT !.b.keep_ap = FALSE]), Worked)
      BY <1>5, TakenOver
    <3> QED
      BY <3>1, <3>2 DEF after
  <2> QED
    BY <1>3, <1>5, <2>1, EndTickStep
<1>6. Driven(l) /\ l.b.state = "HANDOVER" /\ l.b.sta_keep_ap = TRUE /\ l.b.creds # NoCred
  <2>1. /\ q \in Radio /\ q.ap = radio.ap /\ q.assoc = NoCred
        /\ q.leaving = TRUE => q.trying = NoCred
    <3>1. radio.leaving = TRUE => radio.trying = NoCred
      BY <1>1 DEF Driven, DriverInv
    <3> QED
      BY <1>1, <3>1 DEF Radio
  <2> HIDE DEF q
  <2>2. Driven([b |-> StaDisconnected(Here.b), r |-> q])
    BY <1>1, <2>1, LostFacts
  <2>3. SameJoin(StaDisconnected(board), board) /\ StaDisconnected(board).sta_keep_ap = board.sta_keep_ap
    BY <1>1, StaDisconnectedFacts
  <2> QED
    BY <1>1, <1>2, <1>4, <2>2, <2>3 DEF l, SameJoin
<1>7. CASE EndTick(AttemptFailed(Here))
  BY <1>2, <1>3, <1>7, FailingStep
<1>8. CASE EndTick(after(Here))
  BY <1>1, <1>2, <1>4, <1>5, <1>8
<1>9. CASE EndTick(after(l))
  BY <1>5, <1>6, <1>9
<1> QED
  BY <1>2, <1>7, <1>8, <1>9

LEMMA TickOnlineStep == ASSUME IInv, TickOnline PROVE IInv'
<1>1. /\ Driven(Here) /\ JoinInv(Here) /\ Here.b = board /\ Here.r = radio /\ board \in Board /\ Histories
  BY HereFacts
<1> DEFINE y == ScheduleRetry(board)
           x == [y EXCEPT !.lost = FALSE]
           e == [b |-> x, r |-> radio]
<1>2. board.state = "ONLINE" /\ UNCHANGED <<stored, overdue, trouble, hist>>
  BY DEF TickOnline
<1>3. EndTick(e)
  <2>1. PICK h : h = Here
    OBVIOUS
  <2>2. EndTick([h EXCEPT !.b = [ScheduleRetry(board) EXCEPT !.lost = FALSE]])
    BY <1>1, <2>1 DEF TickOnline
  <2>3. h = [b |-> board, r |-> radio]
    BY <2>1 DEF Here
  <2>4. [h EXCEPT !.b = x] = e
    <3> HIDE DEF x
    <3> QED
      BY <2>3
  <2> QED
    BY <2>2, <2>4
<1>4. /\ y \in Board /\ y.state = "RETRY_WAIT" /\ y.keep_ap = board.keep_ap /\ y.creds = board.creds
      /\ y.ap_running = board.ap_running /\ y.wifi = board.wifi
      /\ y.sta_connected = board.sta_connected
  BY <1>1, RetryFacts
<1> HIDE DEF y
<1>5. /\ x \in Board /\ x.state = "RETRY_WAIT" /\ x.keep_ap = board.keep_ap /\ x.creds = board.creds
      /\ x.ap_running = board.ap_running /\ x.wifi = board.wifi
      /\ x.sta_connected = board.sta_connected
  BY <1>4 DEF Board
<1> HIDE DEF x
<1>6. Driven(e) /\ e.b = x /\ e.r = radio
  BY <1>1, <1>5, KeptDriver
<1> HIDE DEF e
<1>7. Sound(e, Worked)
  <2>1. JoinInv(e)
    BY <1>1, <1>2, <1>5, <1>6 DEF JoinInv, OnItsWay
  <2>2. WorkedInv(e, Worked) /\ AimInv(e, Worked)
    BY <1>5, <1>6 DEF WorkedInv, AimInv
  <2> QED
    BY <1>6, <2>1, <2>2 DEF Sound
<1>8. Histories' /\ Worked' = Worked
  BY <1>1, <1>2 DEF Histories, hist, Worked
<1> QED
  BY <1>3, <1>7, <1>8, EndTickStep

LEMMA TickRetryWaitStep == ASSUME IInv, TickRetryWait PROVE IInv'
<1>1. /\ Driven(Here) /\ JoinInv(Here) /\ Here.b = board /\ Here.r = radio /\ board \in Board /\ Histories
  BY HereFacts
<1> DEFINE x == [board EXCEPT !.state = "PENDING"]
           e == [b |-> x, r |-> radio]
<1>2. board.state = "RETRY_WAIT" /\ UNCHANGED <<stored, overdue, trouble, hist>>
  BY DEF TickRetryWait
<1>3. EndTick(e)
  <2>1. PICK h : h = Here
    OBVIOUS
  <2>2. EndTick([h EXCEPT !.b.state = "PENDING"])
    BY <2>1 DEF TickRetryWait
  <2>3. h = [b |-> board, r |-> radio]
    BY <2>1 DEF Here
  <2>4. PICK g : g = [h EXCEPT !.b.state = "PENDING"]
    OBVIOUS
  <2>5. g = e
    BY <2>3, <2>4
  <2> QED
    BY <2>2, <2>4, <2>5
<1>4. /\ x \in Board /\ x.state = "PENDING" /\ x.keep_ap = board.keep_ap /\ x.creds = board.creds
      /\ x.ap_running = board.ap_running /\ x.wifi = board.wifi
      /\ x.sta_connected = board.sta_connected
  BY <1>1 DEF Board, JoinState
<1> HIDE DEF x
<1>5. Driven(e) /\ e.b = x /\ e.r = radio
  BY <1>1, <1>4, KeptDriver
<1> HIDE DEF e
<1>6. board.keep_ap = FALSE /\ radio.ap = FALSE /\ board.creds # NoCred
  BY <1>1, <1>2 DEF JoinInv, OnItsWay
<1>7. Sound(e, Worked)
  <2>1. JoinInv(e)
    BY <1>4, <1>5, <1>6, PendingSound
  <2>2. WorkedInv(e, Worked) /\ AimInv(e, Worked)
    BY <1>4, <1>5, <1>6 DEF WorkedInv, AimInv
  <2> QED
    BY <1>5, <2>1, <2>2 DEF Sound
<1>8. Histories' /\ Worked' = Worked
  BY <1>1, <1>2 DEF Histories, hist, Worked
<1> QED
  BY <1>3, <1>7, <1>8, EndTickStep

LEMMA TickSetupStep == ASSUME IInv, TickSetup PROVE IInv'
<1>1. Histories' /\ Worked' = Worked /\ Sound(Here, Worked) /\ EndTick(Here)
  BY HereFacts DEF TickSetup, Histories, hist, Worked
<1> QED
  BY <1>1, EndTickStep
-----------------------------------------------------------------------------
(* The portal, the button, the store. *)

LEMMA AgedFacts == ASSUME IInv PROVE Aged \in BOOLEAN
  BY HereFacts DEF Aged, Histories

LEMMA ConfigureStep == ASSUME IInv, NEW k \in Cred, Configure(k) PROVE IInv'
<1>1. Driven(Here) /\ Here.b = board /\ Here.r = radio /\ board \in Board /\ Histories
  BY HereFacts
<1>2. PICK h : h = [Here EXCEPT !.b = SetCredentials(board, k)]
  OBVIOUS
<1> DEFINE x == [board EXCEPT !.creds = k, !.kept = k]
<1>3. h = [b |-> x, r |-> radio]
  <2>1. SetCredentials(board, k) = x
    BY DEF SetCredentials
  <2> HIDE DEF x
  <2> QED
    BY <1>2, <2>1 DEF Here
<1>4. /\ x \in Board /\ x.creds = k
      /\ x.ap_running = board.ap_running /\ x.wifi = board.wifi
      /\ x.sta_connected = board.sta_connected
  BY <1>1 DEF Board
<1> HIDE DEF x
<1>5. Driven(h) /\ h.b.creds # NoCred /\ h.r = radio
  BY <1>1, <1>3, <1>4, KeptDriver, CredAssumption
<1>6. PICK d : d = RequestJoin(h, TRUE)
  OBVIOUS
<1>7. /\ Driven(d) /\ d.r = radio /\ d.b.state = "PENDING" /\ d.b.keep_ap = (TRUE /\ radio.ap)
      /\ d.b.creds = h.b.creds
  BY <1>5, <1>6, RequestJoinFacts
<1>8. PICK db \in Board, dr \in Radio : d = [b |-> db, r |-> dr]
  BY <1>7, PairFacts DEF Driven
<1>9. d.b = db /\ d.r = dr
  BY <1>8
<1>10. PICK n : n = [d EXCEPT !.b.unproven = TRUE]
  OBVIOUS
<1> DEFINE y == [db EXCEPT !.unproven = TRUE]
<1>11. n = [b |-> y, r |-> dr]
  BY <1>8, <1>10
<1>12. /\ y \in Board /\ y.state = db.state /\ y.keep_ap = db.keep_ap /\ y.creds = db.creds
       /\ y.unproven = TRUE
       /\ y.ap_running = db.ap_running /\ y.wifi = db.wifi /\ y.sta_connected = db.sta_connected
  BY DEF Board
<1> HIDE DEF y
<1>13. Driven(n) /\ n.b = y /\ n.r = dr
  BY <1>7, <1>9, <1>11, <1>12, KeptDriver
<1>14. dr.ap \in BOOLEAN
  BY DEF Radio
<1>15. JoinInv(n)
  BY <1>5, <1>7, <1>9, <1>12, <1>13, <1>14, PendingSound
<1>16. WorkedInv(n, Worked) /\ AimInv(n, Worked)
  BY <1>7, <1>9, <1>12, <1>13 DEF WorkedInv, AimInv
<1>17. board' = n.b /\ radio' = n.r
  <2>1. Configured(Here, k) = n
    BY <1>1, <1>2, <1>6, <1>10 DEF Configured
  <2> QED
    BY <2>1 DEF Configure
<1>18. Histories' /\ Worked' = Worked
  BY <1>1, AgedFacts DEF Configure, Histories, hist, Worked
<1> QED
  BY <1>13, <1>15, <1>16, <1>17, <1>18, Landing DEF Sound

(* Only variables that the invariant does not speak of change. *)
LEMMA QuietStep ==
  ASSUME IInv, radio' = radio, board' \in Board, Histories', Worked' = Worked,
         board'.creds = board.creds, board'.state = board.state, board'.keep_ap = board.keep_ap,
         board'.unproven = board.unproven, board'.setup = board.setup, board'.prev = board.prev,
         board'.lost = board.lost, board'.dhcp = board.dhcp, board'.sta_keep_ap = board.sta_keep_ap,
         board'.ap_running = board.ap_running, board'.wifi = board.wifi,
         board'.sta_connected = board.sta_connected
  PROVE  IInv'
<1> DEFINE n == [b |-> board', r |-> radio]
<1>1. /\ Driven(Here) /\ JoinInv(Here) /\ WorkedInv(Here, Worked) /\ AimInv(Here, Worked)
      /\ Here.b = board /\ Here.r = radio
  BY HereFacts
<1>2. Driven(n) /\ n.b = board' /\ n.r = radio
  BY <1>1, KeptDriver
<1> HIDE DEF n
<1>3. JoinInv(n)
  BY <1>1, <1>2 DEF JoinInv
<1>4. WorkedInv(n, Worked) /\ AimInv(n, Worked)
  BY <1>1, <1>2 DEF WorkedInv, AimInv
<1> QED
  BY <1>2, <1>3, <1>4, Landing DEF Sound

LEMMA ConfigureFailsStep == ASSUME IInv, NEW k \in Cred, ConfigureFails(k) PROVE IInv'
<1>1. board \in Board /\ Histories
  BY HereFacts
<1>2. /\ board' = [board EXCEPT !.kept = Stripped[k]] /\ radio' = radio
      /\ trouble > 0 /\ trouble' = trouble - 1 /\ UNCHANGED <<stored, overdue, hist>>
  BY DEF ConfigureFails
<1>3. Stripped[k] \in Cred
  BY CredAssumption
<1>4. Histories' /\ Worked' = Worked
  BY <1>1, <1>2, NumberAssumption DEF Histories, hist, Worked
<1>5. /\ board' \in Board
      /\ board'.creds = board.creds /\ board'.state = board.state /\ board'.keep_ap = board.keep_ap
      /\ board'.unproven = board.unproven /\ board'.setup = board.setup /\ board'.prev = board.prev
      /\ board'.lost = board.lost /\ board'.dhcp = board.dhcp
      /\ board'.sta_keep_ap = board.sta_keep_ap
      /\ board'.ap_running = board.ap_running /\ board'.wifi = board.wifi
      /\ board'.sta_connected = board.sta_connected
  BY <1>1, <1>2, <1>3 DEF Board
<1> QED
  BY <1>2, <1>4, <1>5, QuietStep

LEMMA SetupOpenFacts ==
  ASSUME NEW c, NEW B, Driven(c)
  PROVE  Sound(SetupOpen(c), B)
<1>1. PICK cb \in Board, cr \in Radio : c = [b |-> cb, r |-> cr]
  BY PairFacts DEF Driven
<1> DEFINE x == [cb EXCEPT !.setup = TRUE, !.prev = cb.creds, !.state = "IDLE", !.keep_ap = FALSE,
                           !.unproven = FALSE, !.dhcp = FALSE]
<1>2. PICK e : e = [c EXCEPT !.b.setup = TRUE, !.b.prev = c.b.creds, !.b.state = "IDLE",
                             !.b.keep_ap = FALSE, !.b.unproven = FALSE, !.b.dhcp = FALSE]
  OBVIOUS
<1>3. c.b.creds = cb.creds
  BY <1>1
<1>4. e = [b |-> x, r |-> cr]
  BY <1>1, <1>2, <1>3
<1>5. x \in Board /\ x.state = "IDLE" /\ x.setup = TRUE /\ x.keep_ap = FALSE
  BY ZenonT(30) DEF Board, JoinState
<1> HIDE DEF x
<1>6. e \in Pair /\ e.b = x
  BY <1>4, <1>5 DEF Pair
<1>7. PICK n : n = StartAp(e)
  OBVIOUS
<1>8. Driven(n) /\ SameJoin(n.b, e.b) /\ n.r.ap = TRUE
  BY <1>6, <1>7, StartApFacts
<1>9. n.b.state = "IDLE" /\ n.b.setup = TRUE /\ n.b.keep_ap = FALSE
  BY <1>5, <1>6, <1>8 DEF SameJoin
<1>10. JoinInv(n)
  BY <1>8, <1>9 DEF JoinInv, OnItsWay
<1>11. WorkedInv(n, B) /\ AimInv(n, B)
  BY <1>9 DEF WorkedInv, AimInv
<1>12. SetupOpen(c) = n
  BY <1>2, <1>7 DEF SetupOpen
<1> QED
  BY <1>8, <1>10, <1>11, <1>12 DEF Sound

LEMMA SetupButtonStep == ASSUME IInv, SetupButton PROVE IInv'
<1> DEFINE after == IF board.setup THEN SetupClose(Here)
                    ELSE IF ApActive(board) THEN Here ELSE SetupOpen(Here)
<1>1. Sound(Here, Worked) /\ Driven(Here) /\ JoinInv(Here) /\ Histories
  BY HereFacts
<1>2. Sound(after, Worked)
  BY <1>1, SetupCloseFacts, SetupOpenFacts
<1>3. board' = after.b /\ radio' = after.r
  BY DEF SetupButton
<1>4. Histories' /\ Worked' = Worked
  BY <1>1, AgedFacts DEF SetupButton, Histories, hist, Worked
<1> HIDE DEF after
<1> QED
  BY <1>2, <1>3, <1>4, Landing

LEMMA CommitStep == ASSUME IInv, Commit PROVE IInv'
<1>1. board \in Board /\ Histories
  BY HereFacts
<1>2. board' = board /\ radio' = radio /\ Worked' = Worked
  BY DEF Commit, hist, Worked
<1>3. Histories'
  BY <1>1 DEF Commit, Histories, hist, Board
<1> QED
  BY <1>1, <1>2, <1>3, QuietStep
-----------------------------------------------------------------------------
(* The library and the air. *)

LEMMA AssociateStep == ASSUME IInv, Associate PROVE IInv'
<1> DEFINE n == [b |-> board', r |-> radio']
<1>1. /\ Driven(Here) /\ JoinInv(Here) /\ WorkedInv(Here, Worked) /\ AimInv(Here, Worked)
      /\ Here.b = board /\ Here.r = radio /\ board \in Board /\ radio \in Radio /\ Histories
  BY HereFacts
<1>2. /\ radio.trying \in Cred /\ radio.trying # NoCred
      /\ radio' = [radio EXCEPT !.assoc = radio.trying, !.trying = NoCred]
      /\ board' = StaConnectedEvent(board)
      /\ tested' = tested \cup {radio.trying} /\ UNCHANGED <<stored, overdue, trouble, overlaid>>
  BY CredAssumption DEF Associate
<1>3. Histories' /\ Worked \subseteq Worked' /\ radio.trying \in Worked'
  BY <1>1, <1>2 DEF Histories, Worked
<1>4. radio.leaving = FALSE
  BY <1>1, <1>2 DEF Driven, DriverInv, Radio
<1>5. /\ radio' \in Radio /\ radio'.ap = radio.ap /\ radio'.assoc # NoCred /\ radio'.trying = NoCred
      /\ radio'.leaving = FALSE
  BY <1>1, <1>2, <1>4 DEF Radio
<1>6. PICK d \in BOOLEAN : d = (board.dhcp \/ ~(board.sta_keep_ap /\ board.ap_running))
  OBVIOUS
<1>7. board' = [board EXCEPT !.sta_connected = TRUE, !.wifi = "CONNECTED", !.wpa_fail = FALSE, !.dhcp = d]
  BY <1>1, <1>2, <1>6 DEF StaConnectedEvent, Board
<1>8. /\ board' \in Board /\ SameJoin(board', board) /\ board'.sta_connected = TRUE
      /\ board'.wifi = "CONNECTED" /\ board'.dhcp = d
      /\ board'.ap_running = board.ap_running /\ board'.sta_keep_ap = board.sta_keep_ap
      /\ board'.lost = board.lost
  BY ZenonT(30), <1>1, <1>7 DEF Board, SameJoin
<1>9. Driven(n)
  BY <1>1, <1>5, <1>8 DEF Driven, Pair, DriverInv
<1>10. board.dhcp = TRUE => d = TRUE
  BY <1>6
<1>11. radio.ap = FALSE => d = TRUE
  BY <1>1, <1>6 DEF Driven, DriverInv
<1>12. JoinInv(n)
  BY <1>1, <1>5, <1>8, <1>10, <1>11 DEF JoinInv, SameJoin, OnItsWay
<1>13. WorkedInv(n, Worked')
  BY <1>1, <1>3, <1>8 DEF WorkedInv, SameJoin
<1>14. AimInv(n, Worked')
  BY <1>1, <1>2, <1>3, <1>8 DEF AimInv, SameJoin
<1> QED
  BY <1>3, <1>9, <1>12, <1>13, <1>14, Landing DEF Sound

(* Whatever takes the link away posts STA_DISCONNECTED.                       *)
LEMMA LosingStep ==
  ASSUME IInv, radio' \in Radio, radio'.ap = radio.ap, radio'.assoc = NoCred,
         radio'.leaving = TRUE => radio'.trying = NoCred,
         radio.assoc # NoCred \/ radio'.trying \in {NoCred, radio.trying},
         board' \in Board, SameJoin(board', board), board'.sta_connected = FALSE,
         board'.lost = TRUE, board'.wifi = (IF board.ap_running THEN "AP_ACTIVE" ELSE "ACTIVE"),
         board'.ap_running = board.ap_running, board'.sta_keep_ap = board.sta_keep_ap,
         Histories', Worked' = Worked
  PROVE  IInv'
<1> DEFINE n == [b |-> board', r |-> radio']
<1>1. /\ Driven(Here) /\ JoinInv(Here) /\ WorkedInv(Here, Worked) /\ AimInv(Here, Worked)
      /\ Here.b = board /\ Here.r = radio /\ board.ap_running \in BOOLEAN
  BY HereFacts DEF Board
<1>2. Driven(n)
  BY <1>1 DEF Driven, Pair, DriverInv
<1>3. JoinInv(n)
  BY <1>1 DEF JoinInv, SameJoin, OnItsWay
<1>4. WorkedInv(n, Worked) /\ AimInv(n, Worked)
  BY <1>1 DEF WorkedInv, AimInv, SameJoin
<1> QED
  BY <1>2, <1>3, <1>4, Landing DEF Sound

LEMMA TroubleHistories ==
  ASSUME Histories, UNCHANGED <<stored, overdue, hist>>,
         trouble' = trouble \/ (trouble > 0 /\ trouble' = trouble - 1)
  PROVE  Histories' /\ Worked' = Worked
  BY NumberAssumption DEF Histories, hist, Worked

LEMMA RefuseStep == ASSUME IInv, Refuse PROVE IInv'
<1>1. Driven(Here) /\ Here.b = board /\ Here.r = radio /\ board \in Board /\ radio \in Radio /\ Histories
  BY HereFacts
<1>2. Histories' /\ Worked' = Worked
  <2>1. UNCHANGED <<stored, overdue, hist>> /\ (trouble' = trouble \/ (trouble > 0 /\ trouble' = trouble - 1))
    <3>1. CASE Hopeless
      BY <3>1 DEF Refuse
    <3>2. CASE ~Hopeless
      BY <3>2 DEF Refuse, Trouble
    <3> QED
      BY <3>1, <3>2
  <2> QED
    BY <1>1, <2>1, TroubleHistories
<1>3. radio.assoc = NoCred /\ radio.leaving = FALSE
  BY <1>1 DEF Refuse, Driven, DriverInv, Radio
<1>4. PICK again \in {NoCred, radio.trying} : radio' = [radio EXCEPT !.trying = again]
  BY <1>1 DEF Refuse
<1>5. /\ radio' \in Radio /\ radio'.ap = radio.ap /\ radio'.assoc = NoCred /\ radio'.leaving = FALSE
      /\ radio'.trying = again
  BY <1>1, <1>3, <1>4 DEF Radio
<1>6. PICK m2_sent \in BOOLEAN : board' = [StaDisconnected(board) EXCEPT !.wpa_fail = @ \/ m2_sent]
  BY DEF Refuse
<1>7. PICK d : d = StaDisconnected(board)
  OBVIOUS
<1>8. /\ d \in Board /\ SameJoin(d, board) /\ d.sta_connected = FALSE /\ d.lost = TRUE
      /\ d.wifi = (IF board.ap_running THEN "AP_ACTIVE" ELSE "ACTIVE")
      /\ d.ap_running = board.ap_running /\ d.sta_keep_ap = board.sta_keep_ap
  BY <1>1, <1>7, StaDisconnectedFacts
<1>9. PICK f \in BOOLEAN : board' = [d EXCEPT !.wpa_fail = f]
  <2>1. board' = [d EXCEPT !.wpa_fail = (d.wpa_fail \/ m2_sent)]
    BY <1>6, <1>7
  <2> QED
    BY <2>1
<1>10. /\ board' \in Board /\ SameJoin(board', d) /\ board'.sta_connected = FALSE /\ board'.lost = TRUE
       /\ board'.wifi = d.wifi /\ board'.ap_running = d.ap_running
       /\ board'.sta_keep_ap = d.sta_keep_ap
  BY <1>8, <1>9 DEF Board, SameJoin
<1>11. SameJoin(board', board)
  BY <1>8, <1>10 DEF SameJoin
<1> QED
  BY <1>2, <1>5, <1>8, <1>10, <1>11, LosingStep

LEMMA SupplicantFailsStep == ASSUME IInv, SupplicantFails PROVE IInv'
<1>1. board \in Board /\ Histories
  BY HereFacts
<1>2. Histories' /\ Worked' = Worked
  <2>1. UNCHANGED <<stored, overdue, hist>> /\ (trouble' = trouble \/ (trouble > 0 /\ trouble' = trouble - 1))
    <3>1. CASE Hopeless
      BY <3>1 DEF SupplicantFails
    <3>2. CASE ~Hopeless
      BY <3>2 DEF SupplicantFails, Trouble
    <3> QED
      BY <3>1, <3>2
  <2> QED
    BY <1>1, <2>1, TroubleHistories
<1>3. board' = [board EXCEPT !.wpa_fail = TRUE] /\ radio' = radio
  BY DEF SupplicantFails
<1>4. /\ board' \in Board
      /\ board'.creds = board.creds /\ board'.state = board.state /\ board'.keep_ap = board.keep_ap
      /\ board'.unproven = board.unproven /\ board'.setup = board.setup /\ board'.prev = board.prev
      /\ board'.lost = board.lost /\ board'.dhcp = board.dhcp
      /\ board'.sta_keep_ap = board.sta_keep_ap
      /\ board'.ap_running = board.ap_running /\ board'.wifi = board.wifi
      /\ board'.sta_connected = board.sta_connected
  BY <1>1, <1>3 DEF Board
<1> QED
  BY <1>2, <1>3, <1>4, QuietStep

LEMMA LinkLostStep == ASSUME IInv, LinkLost PROVE IInv'
<1>1. Driven(Here) /\ Here.b = board /\ Here.r = radio /\ board \in Board /\ radio \in Radio /\ Histories
  BY HereFacts
<1>2. Histories' /\ Worked' = Worked
  BY <1>1, TroubleHistories DEF LinkLost, Trouble
<1>3. radio.leaving = FALSE
  BY <1>1 DEF LinkLost, Driven, DriverInv, Radio
<1>a. radio.assoc # NoCred
  BY DEF LinkLost
<1>4. PICK moved \in BOOLEAN, again \in {NoCred, radio.assoc} :
        radio' = [radio EXCEPT !.assoc = NoCred, !.trying = again, !.moved = @ \/ moved]
  BY DEF LinkLost
<1>5. /\ radio' \in Radio /\ radio'.ap = radio.ap /\ radio'.assoc = NoCred /\ radio'.leaving = FALSE
  BY <1>1, <1>3, <1>4 DEF Radio
<1>6. board' = StaDisconnected(board)
  BY DEF LinkLost
<1> QED
  BY <1>1, <1>2, <1>a, <1>5, <1>6, LosingStep, StaDisconnectedFacts

LEMMA LeaveReportedStep == ASSUME IInv, LeaveReported PROVE IInv'
<1>1. Driven(Here) /\ Here.b = board /\ Here.r = radio /\ board \in Board /\ radio \in Radio /\ Histories
  BY HereFacts
<1>2. Histories' /\ Worked' = Worked
  BY <1>1 DEF LeaveReported, Histories, hist, Worked
<1>3. radio.assoc = NoCred
  BY <1>1 DEF LeaveReported, Driven, DriverInv, Radio
<1>4. radio' = [radio EXCEPT !.leaving = FALSE] /\ board' = StaDisconnected(board)
  BY DEF LeaveReported
<1>5. /\ radio' \in Radio /\ radio'.ap = radio.ap /\ radio'.assoc = NoCred /\ radio'.leaving = FALSE
      /\ radio'.trying = radio.trying
  BY <1>1, <1>3, <1>4 DEF Radio
<1> QED
  BY <1>1, <1>2, <1>4, <1>5, LosingStep, StaDisconnectedFacts

(* provisioning_boot *)
LEMMA BootedSound ==
  ASSUME NEW k \in Cred \cup {NoCred}, NEW B
  PROVE  Sound(Booted(k), B)
<1> DEFINE x == FreshBoard(k)
           c == [b |-> x, r |-> SilentRadio]
<1>1. 0 \in 0 .. MaxBackoff /\ 0 \in 0 .. FastAttempts
  BY NumberAssumption
<1>2. "IDLE" \in JoinState
  BY DEF JoinState
<1>3. /\ x \in Board /\ x.creds = k /\ x.state = "IDLE" /\ x.setup = FALSE /\ x.prev = NoCred
      /\ x.keep_ap = FALSE
      /\ x.ap_running = FALSE /\ x.wifi = "IDLE" /\ x.sta_connected = FALSE
  BY <1>1, <1>2 DEF FreshBoard, Board
<1> HIDE DEF x
<1>4. /\ SilentRadio \in Radio /\ SilentRadio.ap = FALSE /\ SilentRadio.assoc = NoCred
      /\ SilentRadio.trying = NoCred /\ SilentRadio.leaving = FALSE
  BY DEF SilentRadio, Radio
<1>5. Driven(c) /\ c.b = x /\ c.r = SilentRadio
  BY <1>3, <1>4 DEF Driven, Pair, DriverInv
<1>6. Booted(k) = IF k # NoCred THEN RequestJoin(c, FALSE) ELSE StartAp(c)
  BY DEF Booted, x
<1> HIDE DEF c
<1>7. CASE k # NoCred
  <2>1. PICK n : n = RequestJoin(c, FALSE)
    OBVIOUS
  <2>2. /\ Driven(n) /\ n.r = c.r /\ n.b.state = "PENDING" /\ n.b.keep_ap = (FALSE /\ c.r.ap)
        /\ n.b.creds = c.b.creds /\ n.b.setup = c.b.setup
    BY <1>3, <1>5, <1>7, <2>1, RequestJoinFacts
  <2>3. JoinInv(n)
    BY <1>3, <1>4, <1>5, <1>7, <2>2, PendingSound
  <2>4. WorkedInv(n, B) /\ AimInv(n, B)
    BY <1>3, <1>5, <2>2 DEF WorkedInv, AimInv
  <2> QED
    BY <1>6, <1>7, <2>1, <2>2, <2>3, <2>4 DEF Sound
<1>8. CASE k = NoCred
  <2>1. PICK n : n = StartAp(c)
    OBVIOUS
  <2>2. Driven(n) /\ SameJoin(n.b, x)
    BY <1>5, <2>1, StartApFacts DEF Driven
  <2>3. n.b.state = "IDLE" /\ n.b.creds = NoCred /\ n.b.setup = FALSE
    BY <1>3, <1>8, <2>2 DEF SameJoin
  <2>4. JoinInv(n)
    BY <2>3 DEF JoinInv, OnItsWay
  <2>5. WorkedInv(n, B) /\ AimInv(n, B)
    BY <2>3 DEF WorkedInv, AimInv
  <2> QED
    BY <1>6, <1>8, <2>1, <2>2, <2>4, <2>5 DEF Sound
<1> QED
  BY <1>7, <1>8

LEMMA ResetStep == ASSUME IInv, Reset PROVE IInv'
<1>1. Histories
  BY HereFacts
<1>2. Histories' /\ Worked' = Worked
  <2>1. /\ trouble > 0 /\ trouble' = trouble - 1 /\ overdue' = FALSE
        /\ stored' = stored /\ tested' = tested /\ overlaid' = overlaid
    BY DEF Reset, Trouble, hist
  <2>2. trouble' \in 0 .. MaxTrouble
    BY <1>1, <2>1, NumberAssumption DEF Histories
  <2>3. overdue' \in BOOLEAN
    BY <2>1
  <2> QED
    BY <1>1, <2>1, <2>2, <2>3 DEF Histories, Worked
<1>3. Sound(Booted(stored), Worked')
  BY <1>1, BootedSound DEF Histories
<1>4. board' = Booted(stored).b /\ radio' = Booted(stored).r
  BY DEF Reset
<1> QED
  BY <1>2, <1>3, <1>4, Landing

LEMMA StutterStep == ASSUME IInv, UNCHANGED vars PROVE IInv'
  BY DEF IInv, Histories, Here, vars, hist, Worked

LEMMA TickStep == ASSUME IInv, Tick PROVE IInv'
  BY TickPendingStep, TickJoinedStep, TickJoinFailedStep, TickHandoverStep, TickOnlineStep,
     TickRetryWaitStep, TickSetupStep DEF Tick

LEMMA InitOK == Init => IInv
<1> SUFFICES ASSUME Init PROVE IInv
  OBVIOUS
<1>1. stored \in Cred \cup {NoCred}
  BY CredAssumption DEF Init
<1>2. Histories
  <2>1. MaxTrouble \in 0 .. MaxTrouble
    BY NumberAssumption
  <2>2. /\ overdue = FALSE /\ trouble = MaxTrouble
        /\ tested = {stored} \ {NoCred} /\ overlaid = {}
    BY DEF Init
  <2> QED
    BY <1>1, <2>1, <2>2 DEF Histories
<1>3. PICK d : d = Booted(stored)
  OBVIOUS
<1>4. Sound(d, Worked)
  BY <1>1, <1>3, BootedSound
<1>5. d = Here
  BY <1>3, <1>4, PairFacts DEF Init, Here, Sound, Driven
<1> QED
  BY <1>2, <1>4, <1>5 DEF IInv

LEMMA Step == IInv /\ [Next]_vars => IInv'
<1> SUFFICES ASSUME IInv, [Next]_vars PROVE IInv'
  OBVIOUS
<1>1. CASE Tick
  BY <1>1, TickStep
<1>2. CASE \E k \in Cred : Configure(k)
  BY <1>2, ConfigureStep
<1>3. CASE \E k \in Cred : ConfigureFails(k)
  BY <1>3, ConfigureFailsStep
<1>4. CASE SetupButton
  BY <1>4, SetupButtonStep
<1>5. CASE Commit
  BY <1>5, CommitStep
<1>6. CASE Associate
  BY <1>6, AssociateStep
<1>7. CASE Refuse
  BY <1>7, RefuseStep
<1>8. CASE SupplicantFails
  BY <1>8, SupplicantFailsStep
<1>9. CASE LinkLost
  BY <1>9, LinkLostStep
<1>10. CASE LeaveReported
  BY <1>10, LeaveReportedStep
<1>11. CASE Reset
  BY <1>11, ResetStep
<1>12. CASE UNCHANGED vars
  BY <1>12, StutterStep
<1> QED
  BY <1>1, <1>2, <1>3, <1>4, <1>5, <1>6, <1>7, <1>8, <1>9, <1>10, <1>11, <1>12 DEF Next
-----------------------------------------------------------------------------
(* The inductive invariant holds in every state of the join machine.          *)
THEOREM Invariance == Spec => []IInv
<1>1. Init => IInv
  BY InitOK
<1>2. IInv /\ [Next]_vars => IInv'
  BY Step
<1> QED
  BY <1>1, <1>2, PTL DEF Spec

(* The variables of the board and of the radio keep their types: the backoff  *)
(* and the failures of the fast path stay within their limits.                *)
THEOREM TypeCorrect == Spec => []TypeOK
<1>1. IInv => TypeOK
  BY HereFacts DEF Histories, TypeOK
<1> QED
  BY <1>1, Invariance, PTL

(* A board with credentials is on its way to a network or has its SoftAP up,  *)
(* whatever the order of button presses, portal requests, failures, losses    *)
(* and resets.                                                                *)
THEOREM Reachable == Spec => []NeverStranded
<1>1. IInv => NeverStranded
  <2> SUFFICES ASSUME IInv PROVE NeverStranded
    OBVIOUS
  <2>1. JoinInv(Here) /\ Here.b = board /\ Here.r = radio /\ board \in Board
    BY HereFacts
  <2>2. board.state \in JoinState
    BY <2>1 DEF Board
  <2> QED
    BY <2>1, <2>2 DEF JoinInv, JoinState, NeverStranded
<1> QED
  BY <1>1, Invariance, PTL

(* The SoftAP of a provisioned board is up only in setup mode, for a portal   *)
(* join, or after one that failed.                                            *)
THEOREM SoftApJustified == Spec => []ApHasReason
<1>1. IInv => ApHasReason
  <2> SUFFICES ASSUME IInv PROVE ApHasReason
    OBVIOUS
  <2>1. JoinInv(Here) /\ Here.b = board /\ Here.r = radio /\ board \in Board
    BY HereFacts
  <2>2. board.state \in JoinState
    BY <2>1 DEF Board
  <2> QED
    BY <2>1, <2>2 DEF JoinInv, JoinState, OnItsWay, PortalJoin, JoinBusy, ApHasReason
<1> QED
  BY <1>1, Invariance, PTL

(* A portal join that fails in the setup mode of a provisioned board leaves   *)
(* the credentials from before, or some the library has associated with; or,  *)
(* after a join that began over a live association, the credentials of that   *)
(* join.                                                                      *)
THEOREM FailureRestores == Spec => []FailedKeepsWhatWorked
<1>1. IInv => FailedKeepsWhatWorked
  BY HereFacts DEF WorkedInv, FailedKeepsWhatWorked, Worked
<1> QED
  BY <1>1, Invariance, PTL

(* No disconnect is lost on a board that takes itself for connected: the next *)
(* tick compares the count and sees it.                                       *)
THEOREM LossSeen == Spec => []LossIsNoticed
<1>1. IInv => LossIsNoticed
  BY HereFacts DEF JoinInv, LossIsNoticed
<1> QED
  BY <1>1, Invariance, PTL

(* Online, the DHCP client runs and the SoftAP is down, by either way of      *)
(* joining, until the loss of the link is noticed.                            *)
THEOREM Addressed == Spec => []OnlineHasAddress
<1>1. IInv => OnlineHasAddress
  <2> SUFFICES ASSUME IInv PROVE OnlineHasAddress
    OBVIOUS
  <2>1. JoinInv(Here) /\ Here.b = board /\ Here.r = radio /\ board \in Board
    BY HereFacts
  <2>2. board.lost \in BOOLEAN
    BY <2>1 DEF Board
  <2> QED
    BY <2>1, <2>2 DEF JoinInv, OnItsWay, OnlineHasAddress
<1> QED
  BY <1>1, Invariance, PTL
=============================================================================
