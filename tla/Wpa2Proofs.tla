------------------------------ MODULE Wpa2Proofs ------------------------------
(* Proofs about the handshakes of module Wpa2, for every number of nonces,    *)
(* group keys, retransmissions and losses.                                    *)
EXTENDS Wpa2, SequenceTheorems, TLAPS

-----------------------------------------------------------------------------
(* The inductive invariant. *)

In(q) == {q[i] : i \in 1 .. Len(q)}

FrameType  == [type : {"M1", "M3", "G1", "DEAUTH"}, rc : Nat, anonce : 0 .. MaxNonce,
               key : Key \cup {NoKey}, gtk : 0 .. MaxGtk, honest : BOOLEAN]
ReplyType  == [type : {"M2", "M4", "G2"}, rc : Nat, key : Key]
ReportType == [type : {"M2", "M4", "G2"}, ok : BOOLEAN, old : BOOLEAN]
LogType    == [key : Key, over : BOOLEAN]

QueuesOK == down \in Seq(FrameType) /\ up \in Seq(ReplyType) /\ reports \in Seq(ReportType)

Ordered(q) ==
  \A i, j \in 1 .. Len(q) : i < j =>
    /\ q[i].type = "M3" => q[j].type # "M1"
    /\ q[i].type = "G1" => q[j].type # "M3"

(* The frames to the station belong to the access point's current exchange;   *)
(* an M1 never follows an M3, nor an M3 a group message.                      *)
FramesInv ==
  /\ \A f \in In(down) : f.type # "DEAUTH" => f.anonce = ap.anonce /\ f.rc \in 1 .. ap.rc
  /\ \A f \in In(down) :
       f.type = "M3" => f.key \in Key /\ f.key[2] = f.anonce /\ f.honest = ap.honest
  /\ Ordered(down)
  /\ ap.phase = "idle" => \A f \in In(down) : f.type = "DEAUTH"
  /\ ap.phase = "M1" => \A f \in In(down) : f.type \in {"M1", "DEAUTH"}
  /\ ap.phase = "M3" => \A f \in In(down) : f.type # "G1" /\ (f.type = "M3" => f.gtk = ap.gtk)
  /\ ap.phase \in {"M3", "G1", "done"} => ap.ptk \in Key /\ ap.ptk[2] = ap.anonce
  /\ ap.phase # "idle" => ap.anonce # 0 /\ ap.first \in 1 .. ap.rc
  /\ \A m \in In(up) : m.rc <= ap.rc

NoM1 == \A f \in In(down) : f.type # "M1"
NoM4 == /\ \A m \in In(up) : m.type # "M4"
        /\ \A r \in In(reports) : r.type = "M4" => r.old

(* Between two associations nothing of the last one is left, but for reports. *)
IdleInv ==
  ap.phase = "idle" /\ down = <<>> =>
    /\ up = <<>> /\ ~over /\ sta.ptk = NoKey /\ sta.tptk = NoKey
    /\ \A r \in In(reports) : r.old

(* The pairwise keys that have been in use, and the one about to be.          *)
Logged == {driver.log[i].key : i \in 1 .. Len(driver.log)}
Used == Logged \cup ({sta.ptk} \ {NoKey})

(* A key that is still to be confirmed is newer than all those, because the   *)
(* access point's nonce is.                                                   *)
KeysInv ==
  /\ \A k \in Used : k[2] <= ap.anonce
  /\ ap.phase = "M1" \/ ~NoM1 =>
       /\ \A k \in Used : k[2] < ap.anonce
       /\ sta.snonce_valid \/ sta.snonce < ap.anonce
       /\ NoM4
  /\ sta.snonce <= ap.anonce
  /\ sta.snonce_valid => sta.snonce # 0
  /\ sta.tptk # NoKey =>
       /\ sta.tptk[2] = sta.anonce /\ sta.anonce <= ap.anonce
       /\ \A k \in Used : k[2] < sta.anonce
       /\ NoM4
  /\ sta.install_pending /\ ~over => sta.ptk \notin Logged
  /\ \A i, j \in 1 .. Len(driver.log) :
       i < j /\ driver.log[i].key = driver.log[j].key => driver.log[j].over

(* What the state of the station says. *)
StateInv ==
  /\ sta.state = "CONNECTING" /\ ~over => sta.ptk = NoKey
  /\ sta.state \in {"M1_RECEIVED", "M2_SENT"} /\ sta.ptk # NoKey => sta.ptk[2] < sta.anonce
  /\ sta.state \in {"M3_RECEIVED", "M4_SENT"} => sta.install_pending
  /\ sta.state = "AUTHENTICATED" =>
       /\ sta.ptk # NoKey
       /\ driver.tk = sta.ptk \/ "tk" \in driver.refused \/ driver.stale
       /\ sta.tptk # NoKey => "tk" \in driver.refused \/ driver.stale
       /\ driver.group = sta.gtk \/ "group" \in driver.refused

(* An M4 under way, and its report, are about the station's key. *)
ConfirmInv ==
  /\ ~ap.honest => NoM4
  /\ sta.ptk = NoKey => NoM4
  /\ \A m \in In(up) : m.type = "M4" => m.key = sta.ptk
  /\ \A r \in In(reports) : r.type = "M4" /\ r.ok /\ ~r.old => sta.ptk \in acked
  /\ driver.tk # NoKey => driver.tk \in acked \/ driver.stale

(* The two sides agree as far as the access point has come. *)
AgreeInv ==
  /\ ap.phase \in {"G1", "done"} =>
       sta.ptk = ap.ptk /\ ap.tk = ap.ptk /\ NoM1 /\ sta.tptk = NoKey
  /\ ap.phase \in {"M1", "M3"} /\ sta.ptk # NoKey => sta.gtk = ap.gtk
  /\ ap.phase = "done" =>
       /\ sta.gtk = ap.gtk
       /\ \A f \in In(down) : f.type = "M3" => f.gtk = ap.gtk
       /\ \A f \in In(down) : f.type = "G1" /\ Fresh(sta, f) => f.gtk = ap.gtk
  /\ ap.phase = "G1" =>
       /\ \A f \in In(down) : f.type = "G1" /\ f.rc >= ap.first => f.gtk = ap.gtk
       /\ (\E m \in In(up) : m.type = "G2" /\ m.rc >= ap.first) =>
            /\ sta.gtk = ap.gtk /\ sta.replay >= ap.first
            /\ \A f \in In(down) : f.type # "M3"

IInv ==
  /\ TypeOK /\ QueuesOK /\ FramesInv /\ IdleInv /\ KeysInv
  /\ StateInv /\ ConfirmInv /\ AgreeInv
-----------------------------------------------------------------------------
(* Queues and keys. *)

LEMMA Numbers ==
  /\ MaxNonce \in Nat \ {0} /\ MaxGtk \in Nat \ {0}
  /\ MaxTries \in Nat \ {0} /\ MaxTrouble \in Nat \ {0}
  BY BoundAssumption

LEMMA KeyFacts ==
  /\ NoKey \notin Key
  /\ \A k \in Key : k[2] \in 1 .. MaxNonce /\ k[2] \in Nat
<1>1. \A k \in Key : k[2] \in 1 .. MaxNonce
  BY DEF Key
<1>2. ASSUME NoKey \in Key PROVE FALSE
  <2>1. PICK a \in BOOLEAN, b \in 1 .. MaxNonce, c \in 1 .. MaxNonce : NoKey = <<a, b, c>>
    BY <1>2 DEF Key
  <2>2. Len(NoKey) = 0 /\ Len(<<a, b, c>>) = 3
    BY DEF NoKey
  <2> QED
    BY <2>1, <2>2
<1> QED
  BY <1>1, <1>2, Numbers

LEMMA Pop ==
  ASSUME NEW S, NEW q \in Seq(S), q # <<>>
  PROVE  /\ Head(q) \in In(q) /\ Head(q) \in S
         /\ Tail(q) \in Seq(S) /\ In(Tail(q)) \subseteq In(q)
         /\ Len(q) \in Nat \ {0} /\ Len(Tail(q)) = Len(q) - 1 /\ Head(q) = q[1]
         /\ \A i \in 1 .. Len(Tail(q)) : Tail(q)[i] = q[i + 1]
<1>1. /\ Head(q) \in S /\ Tail(q) \in Seq(S) /\ Head(q) = q[1] /\ Len(Tail(q)) = Len(q) - 1
      /\ \A i \in 1 .. Len(Tail(q)) : Tail(q)[i] = q[i + 1]
  BY HeadTailProperties
<1>2. Len(q) \in Nat \ {0}
  BY EmptySeq, LenProperties
<1>3. In(Tail(q)) \subseteq In(q)
  BY <1>1, <1>2 DEF In
<1>4. Head(q) \in In(q)
  BY <1>1, <1>2 DEF In
<1> QED
  BY <1>1, <1>2, <1>3, <1>4

LEMMA Push ==
  ASSUME NEW S, NEW q \in Seq(S), NEW x \in S
  PROVE  /\ Append(q, x) \in Seq(S) /\ In(Append(q, x)) = In(q) \cup {x}
         /\ Len(q) \in Nat /\ Len(Append(q, x)) = Len(q) + 1
         /\ \A i \in 1 .. Len(q) : Append(q, x)[i] = q[i]
         /\ Append(q, x)[Len(q) + 1] = x /\ Append(q, x) # <<>>
<1>1. /\ Append(q, x) \in Seq(S) /\ Len(Append(q, x)) = Len(q) + 1
      /\ \A i \in 1 .. Len(q) : Append(q, x)[i] = q[i]
      /\ Append(q, x)[Len(q) + 1] = x
  BY AppendProperties
<1>2. Len(q) \in Nat
  BY LenProperties
<1>3. In(Append(q, x)) = In(q) \cup {x}
  <2>1. \A y \in In(Append(q, x)) : y \in In(q) \cup {x}
    BY <1>1, <1>2 DEF In
  <2>2. \A y \in In(q) : y \in In(Append(q, x))
    BY <1>1, <1>2 DEF In
  <2>3. x \in In(Append(q, x))
    BY <1>1, <1>2 DEF In
  <2> QED
    BY <2>1, <2>2, <2>3
<1>4. Append(q, x) # <<>>
  BY <1>1, <1>2, EmptySeq
<1> QED
  BY <1>1, <1>2, <1>3, <1>4

LEMMA Empty == ASSUME NEW S PROVE <<>> \in Seq(S) /\ In(<<>>) = {} /\ Ordered(<<>>)
<1>1. <<>> \in Seq(S) /\ Len(<<>>) = 0
  BY EmptySeq
<1>2. 1 .. Len(<<>>) = {}
  BY <1>1
<1> QED
  BY <1>1, <1>2 DEF In, Ordered

LEMMA Single ==
  ASSUME NEW S, NEW x \in S
  PROVE  <<x>> \in Seq(S) /\ In(<<x>>) = {x} /\ Ordered(<<x>>) /\ <<x>> # <<>>
<1>1. <<x>> \in Seq(S) /\ Len(<<x>>) = 1 /\ <<x>>[1] = x
  OBVIOUS
<1>2. 1 .. Len(<<x>>) = {1}
  BY <1>1
<1>3. <<x>> # <<>>
  BY <1>1, EmptySeq
<1> QED
  BY <1>1, <1>2, <1>3 DEF In, Ordered

LEMMA OrderedPop ==
  ASSUME NEW S, NEW q \in Seq(S), q # <<>>, Ordered(q)
  PROVE  /\ Ordered(Tail(q))
         /\ Head(q).type = "M3" => \A f \in In(Tail(q)) : f.type # "M1"
         /\ Head(q).type = "G1" => \A f \in In(Tail(q)) : f.type # "M3"
<1> DEFINE n == Len(q)
<1>1. /\ n \in Nat \ {0} /\ Len(Tail(q)) = n - 1 /\ Head(q) = q[1]
      /\ \A i \in 1 .. n - 1 : Tail(q)[i] = q[i + 1]
  BY Pop
<1>2. \A i, j \in 1 .. n : i < j => /\ q[i].type = "M3" => q[j].type # "M1"
                                    /\ q[i].type = "G1" => q[j].type # "M3"
  BY DEF Ordered
<1> HIDE DEF n
<1>3. Ordered(Tail(q))
  <2> SUFFICES ASSUME NEW i \in 1 .. n - 1, NEW j \in 1 .. n - 1, i < j
               PROVE  /\ Tail(q)[i].type = "M3" => Tail(q)[j].type # "M1"
                      /\ Tail(q)[i].type = "G1" => Tail(q)[j].type # "M3"
    BY <1>1 DEF Ordered
  <2>1. i + 1 \in 1 .. n /\ j + 1 \in 1 .. n /\ i + 1 < j + 1
    BY <1>1
  <2> QED
    BY <1>1, <1>2, <2>1
<1>4. \A f \in In(Tail(q)) : \E j \in 1 .. n : 1 < j /\ f = q[j]
  BY <1>1 DEF In
<1>5. 1 \in 1 .. n
  BY <1>1
<1> QED
  BY <1>1, <1>2, <1>3, <1>4, <1>5

LEMMA OrderedPush ==
  ASSUME NEW S, NEW q \in Seq(S), Ordered(q), NEW x \in S,
         x.type = "M1" => \A f \in In(q) : f.type # "M3",
         x.type = "M3" => \A f \in In(q) : f.type # "G1"
  PROVE  Ordered(Append(q, x))
<1> DEFINE n == Len(q)
           a == Append(q, x)
<1>1. n \in Nat /\ Len(a) = n + 1 /\ a[n + 1] = x /\ \A i \in 1 .. n : a[i] = q[i]
  BY Push
<1>2. \A i \in 1 .. n : q[i] \in In(q)
  BY DEF In
<1>3. \A i, j \in 1 .. n : i < j => /\ q[i].type = "M3" => q[j].type # "M1"
                                    /\ q[i].type = "G1" => q[j].type # "M3"
  BY DEF Ordered
<1> HIDE DEF n, a
<1> SUFFICES ASSUME NEW i \in 1 .. n + 1, NEW j \in 1 .. n + 1, i < j
             PROVE  /\ a[i].type = "M3" => a[j].type # "M1"
                    /\ a[i].type = "G1" => a[j].type # "M3"
  BY <1>1 DEF Ordered, a
<1>4. i \in 1 .. n /\ (j \in 1 .. n \/ j = n + 1)
  BY <1>1
<1> QED
  BY <1>1, <1>2, <1>3, <1>4

StaType ==
  [state : State, right : BOOLEAN, last_fail : Fail, snonce : 0 .. MaxNonce,
   snonce_valid : BOOLEAN, anonce : 0 .. MaxNonce, tptk : Key \cup {NoKey},
   ptk : Key \cup {NoKey}, replay : Nat, m4_pending : BOOLEAN,
   install_pending : BOOLEAN, gtk : 0 .. MaxGtk]
DriverType ==
  [tk : Key \cup {NoKey}, stale : BOOLEAN, log : Seq(LogType), group : 0 .. MaxGtk,
   refused : SUBSET {"tk", "group"}]
ApType ==
  [phase : {"idle", "M1", "M3", "G1", "done", "gone"}, anonce : 0 .. MaxNonce,
   rc : Nat, first : Nat, tries : 0 .. MaxTries, honest : BOOLEAN,
   ptk : Key \cup {NoKey}, tk : Key \cup {NoKey}, gtk : 1 .. MaxGtk]

LEMMA Types ==
  TypeOK <=> /\ sta \in StaType /\ driver \in DriverType /\ ap \in ApType
             /\ trouble \in 0 .. MaxTrouble /\ acked \subseteq Key /\ over \in BOOLEAN
             /\ sta.install_pending => sta.ptk # NoKey
  BY DEF TypeOK, StaType, DriverType, ApType, LogType

LEMMA Fields ==
  ASSUME TypeOK
  PROVE  /\ sta = [state |-> sta.state, right |-> sta.right, last_fail |-> sta.last_fail,
                   snonce |-> sta.snonce, snonce_valid |-> sta.snonce_valid,
                   anonce |-> sta.anonce, tptk |-> sta.tptk, ptk |-> sta.ptk,
                   replay |-> sta.replay, m4_pending |-> sta.m4_pending,
                   install_pending |-> sta.install_pending, gtk |-> sta.gtk]
         /\ ap = [phase |-> ap.phase, anonce |-> ap.anonce, rc |-> ap.rc, first |-> ap.first,
                  tries |-> ap.tries, honest |-> ap.honest, ptk |-> ap.ptk, tk |-> ap.tk,
                  gtk |-> ap.gtk]
         /\ sta.state \in State /\ sta.last_fail \in Fail
         /\ sta.snonce \in Nat /\ sta.snonce <= MaxNonce /\ sta.anonce \in Nat
         /\ sta.tptk \in Key \cup {NoKey} /\ sta.ptk \in Key \cup {NoKey}
         /\ sta.replay \in Nat /\ sta.gtk \in 0 .. MaxGtk
         /\ driver.log \in Seq(LogType) /\ driver.tk \in Key \cup {NoKey}
         /\ driver.group \in 0 .. MaxGtk /\ driver.stale \in BOOLEAN
         /\ driver.refused \subseteq {"tk", "group"} /\ over \in BOOLEAN
         /\ ap.anonce \in 0 .. MaxNonce /\ ap.anonce \in Nat
         /\ ap.rc \in Nat /\ ap.first \in Nat /\ ap.tries \in 0 .. MaxTries
         /\ ap.ptk \in Key \cup {NoKey} /\ ap.tk \in Key \cup {NoKey}
         /\ ap.gtk \in 1 .. MaxGtk /\ ap.gtk \in 0 .. MaxGtk
         /\ ap.phase \in {"idle", "M1", "M3", "G1", "done", "gone"}
         /\ trouble \in 0 .. MaxTrouble /\ acked \subseteq Key
<1>1. /\ sta \in StaType
      /\ driver \in DriverType
      /\ ap \in ApType
      /\ trouble \in 0 .. MaxTrouble /\ acked \subseteq Key /\ over \in BOOLEAN
  BY Types
<1> QED
  BY <1>1, Numbers DEF StaType, DriverType, ApType

(* The history of the keys set. *)
LEMMA LogFacts ==
  ASSUME TypeOK
  PROVE  /\ Logged \subseteq Key
         /\ \A k \in Logged : k \in Key /\ k[2] \in Nat
         /\ \A i \in 1 .. Len(driver.log) : driver.log[i].key \in Logged
<1>1. driver.log \in Seq(LogType)
  BY Fields
<1>2. \A i \in 1 .. Len(driver.log) : driver.log[i] \in LogType
  BY <1>1
<1>3. Logged \subseteq Key
  BY <1>2 DEF Logged, LogType
<1> QED
  BY <1>3, KeyFacts DEF Logged

LEMMA InitHolds == Init => IInv
<1> SUFFICES ASSUME Init PROVE IInv
  OBVIOUS
<1>1. TypeOK
  <2>1. <<>> \in Seq(LogType)
    BY EmptySeq
  <2>2. sta \in StaType /\ ap \in ApType /\ ~sta.install_pending
    BY Numbers DEF Init, StaType, ApType, State, Fail
  <2>3. driver \in DriverType
    BY <2>1, Numbers DEF Init, DriverType
  <2>4. trouble \in 0 .. MaxTrouble
    BY Numbers DEF Init
  <2>5. acked \subseteq Key /\ over \in BOOLEAN
    BY DEF Init
  <2> QED
    BY <2>2, <2>3, <2>4, <2>5 DEF TypeOK, StaType, ApType, DriverType, LogType
<1>2. QueuesOK /\ In(down) = {} /\ In(up) = {} /\ In(reports) = {} /\ Ordered(down)
  BY Empty DEF Init, QueuesOK
<1>3. Logged = {} /\ 1 .. Len(driver.log) = {}
  <2>1. driver.log = <<>>
    BY DEF Init
  <2>2. 1 .. Len(<<>>) = {}
    BY EmptySeq
  <2> QED
    BY <2>1, <2>2 DEF Logged
<1>4. FramesInv /\ IdleInv
  BY <1>2 DEF Init, FramesInv, IdleInv
<1>5. NoM1 /\ NoM4
  BY <1>2 DEF NoM1, NoM4
<1>6. KeysInv
  BY <1>3, <1>5 DEF Init, KeysInv, Used
<1>7. StateInv
  BY DEF Init, StateInv
<1>8. ConfirmInv
  BY <1>2, <1>5 DEF Init, ConfirmInv
<1>9. AgreeInv
  BY <1>2 DEF Init, AgreeInv
<1> QED
  BY <1>1, <1>2, <1>4, <1>6, <1>7, <1>8, <1>9 DEF IInv
-----------------------------------------------------------------------------
(* Every step preserves it. *)

(* A frame is taken from the queue; its counter and an error may be kept. *)
LEMMA Popped ==
  ASSUME IInv, down # <<>>, Head(down).type # "DEAUTH", down' = Tail(down),
         NEW n \in Nat, n >= sta.replay, NEW e \in Fail,
         sta' = [sta EXCEPT !.replay = n, !.last_fail = e],
         UNCHANGED <<driver, ap, up, reports, acked, over>>, trouble' \in 0 .. MaxTrouble
  PROVE  IInv'
<1>a. /\ TypeOK /\ QueuesOK /\ FramesInv /\ IdleInv /\ KeysInv
      /\ StateInv /\ ConfirmInv /\ AgreeInv
  BY DEF IInv
<1>1. /\ sta'.state = sta.state /\ sta'.snonce = sta.snonce /\ sta'.anonce = sta.anonce
      /\ sta'.snonce_valid = sta.snonce_valid /\ sta'.tptk = sta.tptk /\ sta'.ptk = sta.ptk
      /\ sta'.replay = n /\ sta'.gtk = sta.gtk /\ sta'.install_pending = sta.install_pending
      /\ sta'.m4_pending = sta.m4_pending
  BY <1>a, Fields
<1>2. In(down') \subseteq In(down) /\ down' \in Seq(FrameType) /\ Ordered(down)'
  <2>1. Ordered(down)
    BY <1>a DEF FramesInv
  <2> QED
    BY <1>a, <2>1, Pop, OrderedPop DEF QueuesOK
<1>3. TypeOK'
  BY <1>a, <1>1 DEF TypeOK
<1>4. QueuesOK'
  BY <1>a, <1>2 DEF QueuesOK
<1>5. FramesInv' /\ IdleInv'
  <2>1. Head(down) \in In(down)
    BY <1>a, Pop DEF QueuesOK
  <2>2. ap'.phase # "idle"
    BY <1>a, <2>1 DEF FramesInv
  <2> QED
    BY <1>a, <1>1, <1>2, <2>2 DEF FramesInv, IdleInv
<1>6. NoM4' = NoM4 /\ Used' = Used /\ Logged' = Logged /\ (NoM1 => NoM1')
  BY <1>1, <1>2 DEF NoM4, Used, Logged, NoM1
<1>7. KeysInv'
  BY <1>a, <1>1, <1>6 DEF KeysInv
<1>8. StateInv' /\ ConfirmInv'
  BY <1>a, <1>1, <1>6 DEF StateInv, ConfirmInv
<1>9. AgreeInv'
  <2>1. \A f \in In(down') : Fresh(sta, f)' => Fresh(sta, f)
    <3> SUFFICES ASSUME NEW f \in In(down'), Fresh(sta, f)' PROVE Fresh(sta, f)
      OBVIOUS
    <3>1. f \in FrameType
      BY <1>2 DEF In
    <3>2. f.rc \in Nat
      BY <3>1 DEF FrameType
    <3> QED
      BY SMTT(30), <1>a, <1>1, <3>2, Fields DEF Fresh
  <2>2. ap.first \in Nat /\ sta.replay \in Nat
    BY <1>a, Fields
  <2>3. sta.replay >= ap.first => sta'.replay >= ap'.first
    BY <1>1, <2>2
  <2>4. ap' = ap /\ In(up') = In(up) /\ \A f \in In(down') : f \in In(down)
    BY <1>2
  <2> QED
    BY <1>a, <1>1, <1>6, <2>1, <2>3, <2>4 DEF AgreeInv
<1> QED
  BY <1>3, <1>4, <1>5, <1>7, <1>8, <1>9 DEF IInv

LEMMA RxRefusedStep == ASSUME IInv, RxRefused PROVE IInv'
<1>1. /\ TypeOK /\ QueuesOK /\ down # <<>> /\ sta.replay \in Nat /\ sta.last_fail \in Fail
      /\ trouble' \in 0 .. MaxTrouble
  BY Fields DEF IInv, RxRefused
<1>2. Head(down).rc \in Nat
  <2>1. Head(down) \in FrameType
    BY <1>1, Pop DEF QueuesOK
  <2> QED
    BY <2>1 DEF FrameType
<1>3. CASE sta' = sta
  <2>1. sta' = [sta EXCEPT !.replay = sta.replay, !.last_fail = sta.last_fail]
    BY <1>1, <1>3, Types DEF StaType
  <2>2. sta.replay >= sta.replay
    BY <1>1
  <2> QED
    BY <1>1, <2>1, <2>2, Popped DEF RxRefused
<1>4. CASE Fresh(sta, Head(down)) /\ sta' = [sta EXCEPT !.replay = Head(down).rc]
  <2>1. sta' = [sta EXCEPT !.replay = Head(down).rc, !.last_fail = sta.last_fail]
    BY <1>1, <1>4, Types DEF StaType
  <2>2. Head(down).rc >= sta.replay
    BY <1>1, <1>2, <1>4 DEF Fresh
  <2> QED
    BY <1>1, <1>2, <2>1, <2>2, Popped DEF RxRefused
<1> QED
  BY <1>3, <1>4 DEF RxRefused

LEMMA LoseStep == ASSUME IInv, Lose PROVE IInv'
<1>1. TypeOK /\ sta.replay \in Nat /\ sta.last_fail \in Fail /\ trouble \in 0 .. MaxTrouble
  BY Fields DEF IInv
<1>2. trouble' \in 0 .. MaxTrouble
  BY <1>1, Numbers DEF Lose
<1>3. sta' = [sta EXCEPT !.replay = sta.replay, !.last_fail = sta.last_fail]
  BY <1>1, Types DEF Lose, StaType
<1>4. sta.replay >= sta.replay
  BY <1>1
<1> QED
  BY <1>1, <1>2, <1>3, <1>4, Popped DEF Lose

LEMMA JoinStep == ASSUME IInv, Join PROVE IInv'
<1>a. /\ TypeOK /\ QueuesOK /\ FramesInv /\ IdleInv /\ KeysInv
      /\ StateInv /\ ConfirmInv /\ AgreeInv
  BY DEF IInv
<1>b. PICK right \in BOOLEAN :
        sta' = [sta EXCEPT !.right = right, !.last_fail = "NONE", !.state = "CONNECTING"]
  BY DEF Join
<1>1. /\ sta'.state = "CONNECTING" /\ sta'.snonce = sta.snonce
      /\ sta'.anonce = sta.anonce
      /\ sta'.snonce_valid = sta.snonce_valid /\ sta'.tptk = sta.tptk /\ sta'.ptk = sta.ptk
      /\ sta'.replay = sta.replay /\ sta'.gtk = sta.gtk
      /\ sta'.install_pending = sta.install_pending
      /\ UNCHANGED <<driver, ap, down, up, reports, acked>>
  BY <1>a, <1>b, Fields DEF Join, air
<1>2. /\ trouble' \in 0 .. MaxTrouble /\ over' \in BOOLEAN /\ (over => over')
      /\ ap.phase = "idle" /\ down = <<>> => over' = over
      /\ ~(ap.phase = "idle" /\ down = <<>>) => over'
  <2>1. trouble \in 0 .. MaxTrouble /\ over \in BOOLEAN
    BY <1>a, Types
  <2>2. trouble' = trouble \/ (trouble > 0 /\ trouble' = trouble - 1)
    BY DEF Join
  <2>3. trouble' \in 0 .. MaxTrouble
    BY <2>1, <2>2, Numbers
  <2> QED
    BY <2>1, <2>3 DEF Join
<1>3. TypeOK'
  <2>1. sta \in StaType /\ driver \in DriverType /\ ap \in ApType /\ acked \subseteq Key
    BY <1>a, Types
  <2>2. sta' \in StaType
    BY <1>b, <2>1 DEF StaType, State, Fail
  <2>3. sta'.install_pending => sta'.ptk # NoKey
    BY <1>1, <1>a DEF TypeOK
  <2> QED
    BY <1>1, <1>2, <2>1, <2>2, <2>3 DEF TypeOK, StaType, ApType, DriverType, LogType
<1>4. QueuesOK' /\ FramesInv' /\ IdleInv'
  BY <1>a, <1>1, <1>2 DEF QueuesOK, FramesInv, IdleInv
<1>5. NoM4' = NoM4 /\ Used' = Used /\ Logged' = Logged /\ NoM1' = NoM1
  BY <1>1 DEF NoM4, Used, Logged, NoM1
<1>6. KeysInv'
  BY <1>a, <1>1, <1>2, <1>5 DEF KeysInv
<1>7. StateInv' /\ ConfirmInv'
  BY <1>a, <1>1, <1>2, <1>5 DEF StateInv, ConfirmInv, IdleInv
<1>8. AgreeInv'
  BY <1>a, <1>1, <1>5 DEF AgreeInv, Fresh
<1> QED
  BY <1>3, <1>4, <1>6, <1>7, <1>8 DEF IInv

(* What the access point sends. *)
LEMMA Sent ==
  ASSUME NEW type \in {"M1", "M3", "G1"}, NEW a, a.rc \in Nat, a.anonce \in 0 .. MaxNonce,
         a.ptk \in Key \cup {NoKey}, a.gtk \in 0 .. MaxGtk, a.honest \in BOOLEAN
  PROVE  /\ ApSends(a, type) \in FrameType /\ ApSends(a, type).type = type
         /\ ApSends(a, type).rc = a.rc + 1 /\ ApSends(a, type).anonce = a.anonce
         /\ ApSends(a, type).gtk = a.gtk /\ ApSends(a, type).honest = a.honest
         /\ type # "M1" => ApSends(a, type).key = a.ptk
  BY DEF ApSends, Frame, FrameType

LEMMA DeauthFacts == Deauth \in FrameType /\ Deauth.type = "DEAUTH"
  BY Numbers DEF Deauth, Frame, FrameType

(* A session that begins anew. *)
LEMMA Reset ==
  ASSUME TypeOK
  PROVE  /\ ResetSession(sta).snonce = sta.snonce /\ ResetSession(sta).anonce = sta.anonce
         /\ ResetSession(sta).snonce_valid = FALSE /\ ResetSession(sta).tptk = NoKey
         /\ ResetSession(sta).ptk = NoKey /\ ResetSession(sta).replay = 0
         /\ ResetSession(sta).gtk = 0 /\ ResetSession(sta).install_pending = FALSE
         /\ ResetSession(sta) \in StaType
<1>1. sta \in StaType /\ 0 \in 0 .. MaxGtk /\ 0 \in Nat /\ NoKey \in Key \cup {NoKey}
  BY Types, Numbers
<1>2. ResetSession(sta) \in StaType
  BY <1>1 DEF ResetSession, StaType
<1> QED
  BY <1>1, <1>2 DEF ResetSession, StaType

LEMMA AssociateStep == ASSUME IInv, Associate PROVE IInv'
<1>a. /\ TypeOK /\ QueuesOK /\ FramesInv /\ IdleInv /\ KeysInv
      /\ StateInv /\ ConfirmInv /\ AgreeInv
  BY DEF IInv
<1>b. /\ ap.phase = "idle" /\ down = <<>> /\ ap.anonce < MaxNonce
      /\ sta' = [ResetSession(sta) EXCEPT !.state = "CONNECTING"]
      /\ UNCHANGED <<driver, up, reports, acked, over, trouble>>
  BY DEF Associate
<1> DEFINE A(h) == [ap EXCEPT !.anonce = @ + 1, !.rc = 0, !.honest = h, !.ptk = NoKey]
<1>c. PICK h \in BOOLEAN : ap' = Begun(A(h), "M1") /\ down' = <<ApSends(A(h), "M1")>>
  BY DEF Associate
<1>d. /\ sta.snonce \in Nat /\ ap.anonce \in Nat /\ ap.gtk \in 0 .. MaxGtk
      /\ ap.tk \in Key \cup {NoKey}
  BY <1>a, Fields
<1>e. /\ ap.anonce + 1 \in 0 .. MaxNonce /\ 0 \in Nat /\ 1 \in Nat /\ 0 + 1 = 1
      /\ 1 \in 0 .. MaxTries
  BY <1>b, <1>d, Numbers
<1>g. /\ A(h) \in ApType /\ A(h).anonce = ap.anonce + 1 /\ A(h).rc = 0 /\ A(h).honest = h
      /\ A(h).ptk = NoKey /\ A(h).gtk = ap.gtk
  BY <1>a, <1>e, Types DEF ApType
<1>h. ap' = [A(h) EXCEPT !.phase = "M1", !.first = 1, !.rc = 1, !.tries = 1]
  BY <1>c, <1>e, <1>g DEF Begun
<1>1. /\ sta'.state = "CONNECTING" /\ sta'.snonce = sta.snonce /\ sta'.anonce = sta.anonce
      /\ sta'.snonce_valid = FALSE /\ sta'.tptk = NoKey /\ sta'.ptk = NoKey /\ sta'.replay = 0
      /\ sta'.gtk = 0 /\ sta'.install_pending = FALSE
  BY <1>a, <1>b, Reset DEF StaType
<1>2. /\ ap'.phase = "M1" /\ ap'.anonce = ap.anonce + 1 /\ ap'.rc = 1 /\ ap'.first = 1
      /\ ap'.honest = h /\ ap'.ptk = NoKey /\ ap'.gtk = ap.gtk
  <2> HIDE DEF A
  <2> QED
    BY <1>g, <1>h DEF ApType
<1>3. TypeOK'
  <2>1. sta' \in StaType
    BY <1>a, <1>b, Reset DEF StaType, State
  <2>2. ap' \in ApType
    <3> HIDE DEF A
    <3> QED
      BY <1>e, <1>g, <1>h DEF ApType
  <2>3. sta'.install_pending => sta'.ptk # NoKey
    BY <1>1
  <2>4. /\ driver' \in DriverType /\ trouble' \in 0 .. MaxTrouble /\ acked' \subseteq Key
        /\ over' \in BOOLEAN
    BY <1>a, <1>b, Types
  <2> QED
    BY <2>1, <2>2, <2>3, <2>4 DEF TypeOK, StaType, ApType, DriverType, LogType
<1> DEFINE f == ApSends(A(h), "M1")
<1>f. ApSends(A(h), "M1") = f
  OBVIOUS
<1>4. f \in FrameType /\ f.type = "M1" /\ f.rc = 1 /\ f.anonce = ap.anonce + 1
  <2> HIDE DEF A
  <2>1. A(h).anonce \in 0 .. MaxNonce /\ A(h).rc \in Nat /\ A(h).gtk \in 0 .. MaxGtk
    BY <1>d, <1>e, <1>g
  <2>2. A(h).honest \in BOOLEAN /\ A(h).ptk \in Key \cup {NoKey}
    BY <1>g
  <2>3. f = ApSends(A(h), "M1")
    OBVIOUS
  <2> HIDE DEF f
  <2> QED
    BY <1>e, <1>g, <2>1, <2>2, <2>3, Sent
<1> HIDE DEF A, f
<1>5. /\ down' = <<f>> /\ down' \in Seq(FrameType) /\ In(down') = {f} /\ Ordered(down)'
  BY <1>4, <1>c, <1>f, Single
<1>6. In(up') = {} /\ \A r \in In(reports') : r.old
  BY <1>a, <1>b, Empty DEF IdleInv
<1>7. QueuesOK'
  BY <1>a, <1>b, <1>5 DEF QueuesOK
<1>8. FramesInv' /\ IdleInv'
  BY <1>1, <1>2, <1>4, <1>5, <1>6, <1>d DEF FramesInv, IdleInv
<1>9. NoM4' /\ Used' = Logged /\ Logged' = Logged /\ Logged \subseteq Used
  BY <1>1, <1>6, <1>b DEF NoM4, Used, Logged
<1>10. KeysInv'
  <2>1. \A k \in Used' : k[2] \in Nat /\ k[2] <= ap.anonce
    <3>1. \A k \in Logged : k \in Key
      BY <1>a, LogFacts
    <3> QED
      BY <1>9, <1>a, <3>1, KeyFacts DEF KeysInv
  <2>2. sta.snonce <= ap.anonce
    BY <1>a DEF KeysInv
  <2> QED
    BY <1>1, <1>2, <1>9, <1>a, <1>b, <1>d, <2>1, <2>2 DEF KeysInv
<1>11. StateInv' /\ ConfirmInv' /\ AgreeInv'
  BY <1>1, <1>2, <1>6, <1>9, <1>a, <1>b DEF StateInv, ConfirmInv, AgreeInv
<1> QED
  BY <1>3, <1>7, <1>8, <1>10, <1>11 DEF IInv

(* The reports of an earlier handshake. *)
LEMMA AgedFacts ==
  ASSUME reports \in Seq(ReportType)
  PROVE  /\ Aged \in Seq(ReportType) /\ \A r \in In(Aged) : r.old
         /\ (\E r \in In(Aged) : r.type = "M4") => \E r \in In(reports) : r.type = "M4"
<1> DEFINE n == Len(reports)
<1>1. n \in Nat /\ DOMAIN reports = 1 .. n /\ \A i \in 1 .. n : reports[i] \in ReportType
  BY LenProperties
<1>2. \A i \in 1 .. n : /\ Aged[i] \in ReportType /\ Aged[i].old
                        /\ Aged[i].type = reports[i].type
  BY <1>1 DEF Aged, ReportType
<1>3. Aged \in [1 .. n -> ReportType]
  BY <1>1, <1>2 DEF Aged
<1> HIDE DEF n
<1>4. Aged \in Seq(ReportType) /\ Len(Aged) = n
  BY <1>1, <1>3, SeqDef, LenProperties
<1> QED
  BY <1>2, <1>4 DEF In, n

LEMMA DisconnectedStep == ASSUME IInv, Disconnected PROVE IInv'
<1>a. /\ TypeOK /\ QueuesOK /\ FramesInv /\ IdleInv /\ KeysInv
      /\ StateInv /\ ConfirmInv /\ AgreeInv
  BY DEF IInv
<1>b. /\ sta' = [ResetSession(sta) EXCEPT !.state = "DISCONNECTED",
                   !.last_fail = IF sta.state = "M2_SENT" THEN "NO_M3" ELSE @]
      /\ driver' = [driver EXCEPT !.tk = NoKey, !.group = 0, !.refused = {}, !.stale = FALSE]
      /\ ap' = [ap EXCEPT !.phase = "idle", !.tk = NoKey]
      /\ down' = <<>> /\ up' = <<>> /\ over' = FALSE /\ reports' = Aged
      /\ UNCHANGED <<acked, trouble>>
  BY DEF Disconnected
<1>1. /\ sta'.state = "DISCONNECTED" /\ sta'.snonce = sta.snonce /\ sta'.snonce_valid = FALSE
      /\ sta'.tptk = NoKey /\ sta'.ptk = NoKey /\ sta'.install_pending = FALSE
  BY <1>a, <1>b, Reset DEF StaType
<1>2. /\ ap'.phase = "idle" /\ ap'.anonce = ap.anonce
      /\ driver'.tk = NoKey /\ driver'.log = driver.log
  BY <1>a, <1>b, Fields DEF TypeOK
<1>3. TypeOK'
  <2>1. sta' \in StaType
    <3>1. ResetSession(sta) \in StaType /\ ResetSession(sta).last_fail \in Fail
      BY <1>a, Reset DEF StaType
    <3> QED
      BY <1>b, <3>1 DEF StaType, State, Fail
  <2>2. driver' \in DriverType /\ ap' \in ApType
    <3>1. driver \in DriverType /\ ap \in ApType /\ 0 \in 0 .. MaxGtk
      BY <1>a, Types, Numbers
    <3>2. driver' \in DriverType
      BY <1>b, <3>1 DEF DriverType
    <3>3. ap' \in ApType
      BY <1>b, <3>1 DEF ApType
    <3> QED
      BY <3>2, <3>3
  <2>3. trouble' \in 0 .. MaxTrouble /\ acked' \subseteq Key /\ over' \in BOOLEAN
    BY <1>a, <1>b, Types
  <2>4. sta'.install_pending => sta'.ptk # NoKey
    BY <1>1
  <2> QED
    BY <2>1, <2>2, <2>3, <2>4 DEF TypeOK, StaType, ApType, DriverType, LogType
<1>4. /\ QueuesOK' /\ In(down') = {} /\ In(up') = {} /\ Ordered(down)'
      /\ \A r \in In(reports') : r.old
  <2>1. reports \in Seq(ReportType)
    BY <1>a DEF QueuesOK
  <2> QED
    BY <1>b, <2>1, AgedFacts, Empty DEF QueuesOK
<1>5. FramesInv' /\ IdleInv' /\ NoM1' /\ NoM4'
  BY <1>1, <1>2, <1>4, <1>b DEF FramesInv, IdleInv, NoM1, NoM4
<1>6. KeysInv'
  <2>1. Used' \subseteq Used /\ Logged' = Logged
    BY <1>1, <1>2 DEF Used, Logged
  <2> QED
    BY <1>1, <1>2, <1>5, <1>a, <2>1 DEF KeysInv
<1>7. StateInv' /\ ConfirmInv' /\ AgreeInv'
  BY <1>1, <1>2, <1>4, <1>5, <1>a DEF StateInv, ConfirmInv, AgreeInv
<1> QED
  BY <1>3, <1>4, <1>5, <1>6, <1>7 DEF IInv

LEMMA LinkLostStep == ASSUME IInv, LinkLost PROVE IInv'
<1>a. /\ TypeOK /\ QueuesOK /\ FramesInv /\ IdleInv /\ KeysInv
      /\ StateInv /\ ConfirmInv /\ AgreeInv
  BY DEF IInv
<1>b. /\ ap' = [ap EXCEPT !.phase = "idle"]
      /\ down' = <<Deauth>> /\ up' = <<>>
      /\ UNCHANGED <<sta, driver, reports, acked, over, trouble>>
  BY DEF LinkLost
<1>1. ap'.phase = "idle" /\ ap'.anonce = ap.anonce /\ ap'.honest = ap.honest
  BY <1>a, <1>b, Fields
<1>2. TypeOK'
  <2>1. ap' \in ApType
    BY <1>a, <1>b, Types DEF ApType
  <2> QED
    BY <1>a, <1>b, <2>1 DEF TypeOK, ApType
<1>3. /\ QueuesOK' /\ In(down') = {Deauth} /\ In(up') = {}
      /\ Ordered(down)' /\ down' # <<>>
  BY <1>a, <1>b, Empty, Single, DeauthFacts DEF QueuesOK
<1>4. FramesInv' /\ IdleInv' /\ NoM1' /\ (NoM4 => NoM4')
  BY <1>1, <1>3, <1>b, DeauthFacts DEF FramesInv, IdleInv, NoM1, NoM4
<1>5. KeysInv'
  <2>1. Used' = Used /\ Logged' = Logged
    BY <1>b DEF Used, Logged
  <2> QED
    BY <1>1, <1>4, <1>a, <1>b, <2>1 DEF KeysInv
<1>6. StateInv' /\ ConfirmInv' /\ AgreeInv'
  BY <1>1, <1>3, <1>4, <1>a, <1>b DEF StateInv, ConfirmInv, AgreeInv
<1> QED
  BY <1>2, <1>3, <1>4, <1>5, <1>6 DEF IInv

LEMMA ApTimeoutStep == ASSUME IInv, ApTimeout PROVE IInv'
<1>a. /\ TypeOK /\ QueuesOK /\ FramesInv /\ IdleInv /\ KeysInv
      /\ StateInv /\ ConfirmInv /\ AgreeInv
  BY DEF IInv
<1>b. /\ ap.phase \in {"M1", "M3", "G1"}
      /\ Quiet \/ trouble > 0
      /\ trouble' = IF Quiet THEN trouble ELSE trouble - 1
      /\ UNCHANGED <<sta, driver, up, reports, acked, over>>
  BY DEF ApTimeout
<1>c. ap \in ApType /\ sta \in StaType /\ driver \in DriverType /\ trouble' \in 0 .. MaxTrouble
  <2>1. ap \in ApType /\ sta \in StaType /\ driver \in DriverType /\ trouble \in 0 .. MaxTrouble
    BY <1>a, Types
  <2> QED
    BY <1>b, <2>1, Numbers
<1>d. /\ ap.rc \in Nat /\ ap.first \in Nat /\ ap.anonce \in 0 .. MaxNonce /\ ap.honest \in BOOLEAN
      /\ ap.gtk \in 0 .. MaxGtk /\ ap.ptk \in Key \cup {NoKey}
  BY <1>c, Numbers DEF ApType
<1>1. CASE ap.tries < MaxTries
  <2> DEFINE f == ApSends(ap, ap.phase)
  <2>a. /\ ap' = [ap EXCEPT !.rc = ap.rc + 1, !.tries = ap.tries + 1]
        /\ down' = Append(down, ApSends(ap, ap.phase))
    BY <1>1 DEF ApTimeout
  <2>1. /\ f \in FrameType /\ f.type = ap.phase /\ f.rc = ap.rc + 1 /\ f.anonce = ap.anonce
        /\ f.gtk = ap.gtk /\ f.honest = ap.honest /\ (f.type # "M1" => f.key = ap.ptk)
    BY <1>b, <1>d, Sent
  <2>2. down' = Append(down, f)
    BY <2>a
  <2> HIDE DEF f
  <2>3. /\ ap'.phase = ap.phase /\ ap'.anonce = ap.anonce /\ ap'.rc = ap.rc + 1
        /\ ap'.first = ap.first /\ ap'.honest = ap.honest /\ ap'.ptk = ap.ptk
        /\ ap'.tk = ap.tk /\ ap'.gtk = ap.gtk
    BY <1>c, <2>a DEF ApType
  <2>4. TypeOK'
    <3>1. ap.tries + 1 \in 0 .. MaxTries /\ ap.rc + 1 \in Nat
      BY <1>1, <1>c, Numbers DEF ApType
    <3>2. ap' \in ApType
      BY <1>c, <2>a, <3>1 DEF ApType
    <3> QED
      BY <1>a, <1>b, <1>c, <3>2 DEF TypeOK, ApType
  <2>5. down' \in Seq(FrameType) /\ In(down') = In(down) \cup {f}
    BY <1>a, <2>1, <2>2, Push DEF QueuesOK
  <2>6. Ordered(down)'
    <3>1. Ordered(down) /\ down \in Seq(FrameType)
      BY <1>a DEF FramesInv, QueuesOK
    <3>2. f.type = "M1" => \A g \in In(down) : g.type # "M3"
      BY <1>a, <2>1 DEF FramesInv
    <3>3. f.type = "M3" => \A g \in In(down) : g.type # "G1"
      BY <1>a, <2>1 DEF FramesInv
    <3> QED
      BY <2>1, <2>2, <3>1, <3>2, <3>3, OrderedPush
  <2>7. QueuesOK'
    BY <1>a, <1>b, <2>5 DEF QueuesOK
  <2>i. IdleInv'
    BY <1>b, <2>3 DEF IdleInv
  <2>8. FramesInv'
    <3>1. \A g \in In(down) \cup {f} : g.type # "DEAUTH" =>
             g.anonce = ap.anonce /\ g.rc \in 1 .. ap.rc + 1
      BY <1>a, <1>d, <2>1 DEF FramesInv
    <3>2. \A g \in In(down) \cup {f} : g.type = "M3" =>
             g.key \in Key /\ g.key[2] = g.anonce /\ g.honest = ap.honest
      BY <1>a, <2>1 DEF FramesInv
    <3>3. ap.first \in 1 .. ap.rc + 1 /\ ap.anonce # 0
      BY <1>a, <1>b, <1>d DEF FramesInv
    <3>4. \A m \in In(up) : m.rc <= ap.rc + 1
      <4>1. \A m \in In(up) : m \in ReplyType
        BY <1>a DEF QueuesOK, In
      <4>2. \A m \in In(up) : m.rc \in Nat /\ m.rc <= ap.rc
        BY <1>a, <4>1 DEF FramesInv, ReplyType
      <4> QED
        BY <1>d, <4>2
    <3> QED
      BY <1>a, <1>b, <2>1, <2>3, <2>5, <2>6, <3>1, <3>2, <3>3, <3>4 DEF FramesInv
  <2>9. NoM4' = NoM4 /\ Used' = Used /\ Logged' = Logged
    BY <1>b DEF NoM4, Used, Logged
  <2>10. ~NoM1' => ap.phase = "M1" \/ ~NoM1
    BY <2>1, <2>5 DEF NoM1
  <2>11. KeysInv'
    BY <1>a, <1>b, <2>3, <2>9, <2>10 DEF KeysInv
  <2>12. StateInv' /\ ConfirmInv'
    BY <1>a, <1>b, <2>3, <2>9 DEF StateInv, ConfirmInv
  <2>13. AgreeInv'
    <3>1. CASE ap.phase = "G1"
      BY <1>a, <1>b, <2>1, <2>3, <2>5, <2>10, <3>1 DEF AgreeInv
    <3>2. CASE ap.phase # "G1"
      BY <1>a, <1>b, <2>3, <3>2 DEF AgreeInv
    <3> QED
      BY <3>1, <3>2
  <2> QED
    BY <2>4, <2>7, <2>8, <2>i, <2>11, <2>12, <2>13 DEF IInv
<1>2. CASE ~(ap.tries < MaxTries)
  <2>a. ap' = [ap EXCEPT !.phase = "gone"] /\ down' = Append(down, Deauth)
    BY <1>2 DEF ApTimeout
  <2>3. /\ ap'.phase = "gone" /\ ap'.anonce = ap.anonce /\ ap'.rc = ap.rc
        /\ ap'.first = ap.first /\ ap'.honest = ap.honest /\ ap'.ptk = ap.ptk
        /\ ap'.tk = ap.tk /\ ap'.gtk = ap.gtk
    BY <1>c, <2>a DEF ApType
  <2>4. TypeOK'
    <3>1. ap' \in ApType
      BY <1>c, <2>a DEF ApType
    <3> QED
      BY <1>a, <1>b, <1>c, <3>1 DEF TypeOK, ApType
  <2>5. down' \in Seq(FrameType) /\ In(down') = In(down) \cup {Deauth}
    BY <1>a, <2>a, Push, DeauthFacts DEF QueuesOK
  <2>6. Ordered(down)'
    <3>1. Ordered(down) /\ down \in Seq(FrameType)
      BY <1>a DEF FramesInv, QueuesOK
    <3> QED
      BY <2>a, <3>1, DeauthFacts, OrderedPush
  <2>7. QueuesOK'
    BY <1>a, <1>b, <2>5 DEF QueuesOK
  <2>8. FramesInv' /\ IdleInv'
    BY <1>a, <1>b, <2>3, <2>5, <2>6, DeauthFacts DEF FramesInv, IdleInv
  <2>9. NoM4' = NoM4 /\ Used' = Used /\ Logged' = Logged
    BY <1>b DEF NoM4, Used, Logged
  <2>10. NoM1 => NoM1'
    BY <2>5, DeauthFacts DEF NoM1
  <2>11. KeysInv'
    BY <1>a, <1>b, <2>3, <2>9, <2>10 DEF KeysInv
  <2>12. StateInv' /\ ConfirmInv' /\ AgreeInv'
    BY <1>a, <1>b, <2>3, <2>9 DEF StateInv, ConfirmInv, AgreeInv
  <2> QED
    BY <2>4, <2>7, <2>8, <2>11, <2>12 DEF IInv
<1> QED
  BY <1>1, <1>2

LEMMA ApRekeysStep == ASSUME IInv, ApRekeys PROVE IInv'
<1>a. /\ TypeOK /\ QueuesOK /\ FramesInv /\ IdleInv /\ KeysInv
      /\ StateInv /\ ConfirmInv /\ AgreeInv
  BY DEF IInv
<1> DEFINE A == [ap EXCEPT !.anonce = ap.anonce + 1]
           f == ApSends(A, "M1")
<1>b. /\ ap.phase = "done" /\ down = <<>> /\ up = <<>> /\ ap.anonce < MaxNonce
      /\ ap' = Begun(A, "M1") /\ down' = <<f>> /\ reports' = Aged
      /\ UNCHANGED <<sta, driver, up, acked, over, trouble>>
  BY DEF ApRekeys
<1>c. ap \in ApType /\ sta \in StaType /\ driver \in DriverType /\ trouble \in 0 .. MaxTrouble
  BY <1>a, Types
<1>d. /\ ap.rc \in Nat /\ ap.rc + 1 \in Nat /\ ap.anonce \in Nat
      /\ ap.anonce + 1 \in 0 .. MaxNonce /\ 1 \in 0 .. MaxTries /\ ap.gtk \in 0 .. MaxGtk
  BY <1>b, <1>c, Numbers DEF ApType
<1>1. /\ A \in ApType /\ A.anonce = ap.anonce + 1 /\ A.rc = ap.rc /\ A.gtk = ap.gtk
      /\ A.honest = ap.honest /\ A.ptk = ap.ptk
  BY <1>c, <1>d DEF ApType
<1>2. /\ f \in FrameType /\ f.type = "M1" /\ f.rc = ap.rc + 1 /\ f.anonce = ap.anonce + 1
  <2> HIDE DEF A
  <2>1. A.honest \in BOOLEAN /\ A.ptk \in Key \cup {NoKey}
    BY <1>1 DEF ApType
  <2> QED
    BY <1>1, <1>d, <2>1, Sent
<1>3. ap' = [A EXCEPT !.phase = "M1", !.first = ap.rc + 1, !.rc = ap.rc + 1, !.tries = 1]
  BY <1>1, <1>b DEF Begun
<1> HIDE DEF A, f
<1>4. /\ ap'.phase = "M1" /\ ap'.anonce = ap.anonce + 1 /\ ap'.rc = ap.rc + 1
      /\ ap'.first = ap.rc + 1 /\ ap'.honest = ap.honest /\ ap'.gtk = ap.gtk
  BY <1>1, <1>3 DEF ApType
<1>5. TypeOK'
  <2>1. ap' \in ApType
    BY <1>1, <1>3, <1>d DEF ApType
  <2> QED
    BY <1>a, <1>b, <1>c, <2>1 DEF TypeOK, ApType
<1>6. reports' \in Seq(ReportType) /\ \A r \in In(reports') : r.old
  BY <1>a, <1>b, AgedFacts DEF QueuesOK
<1>7. /\ down' \in Seq(FrameType) /\ In(down') = {f} /\ Ordered(down)' /\ In(up') = {}
  BY <1>2, <1>b, Single, Empty
<1>8. QueuesOK'
  BY <1>6, <1>7, <1>a, <1>b DEF QueuesOK
<1>9. FramesInv' /\ IdleInv'
  BY <1>2, <1>4, <1>7, <1>d DEF FramesInv, IdleInv
<1>10. NoM4' /\ Used' = Used /\ Logged' = Logged
  BY <1>6, <1>7, <1>b DEF NoM4, Used, Logged
<1>11. KeysInv'
  <2>1. \A k \in Used : k[2] \in Nat /\ k[2] <= ap.anonce
    <3>1. \A k \in Used : k \in Key
      BY <1>a, Fields, LogFacts DEF Used
    <3> QED
      BY <1>a, <3>1, KeyFacts DEF KeysInv
  <2>2. sta.snonce \in Nat /\ sta.snonce <= ap.anonce /\ sta.tptk = NoKey
    BY <1>a, <1>b, Fields DEF KeysInv, AgreeInv
  <2>3. /\ sta.snonce < ap'.anonce /\ sta.snonce <= ap'.anonce
        /\ \A k \in Used' : k[2] < ap'.anonce /\ k[2] <= ap'.anonce
    BY <1>10, <1>4, <1>d, <2>1, <2>2
  <2> QED
    BY <1>10, <1>a, <1>b, <2>2, <2>3 DEF KeysInv
<1>12. StateInv' /\ AgreeInv'
  BY <1>4, <1>a, <1>b DEF StateInv, AgreeInv
<1>13. ConfirmInv'
  BY <1>10, <1>6, <1>7, <1>a, <1>b DEF ConfirmInv
<1> QED
  BY <1>5, <1>8, <1>9, <1>11, <1>12, <1>13 DEF IInv

LEMMA ApRekeysGroupStep == ASSUME IInv, ApRekeysGroup PROVE IInv'
<1>a. /\ TypeOK /\ QueuesOK /\ FramesInv /\ IdleInv /\ KeysInv
      /\ StateInv /\ ConfirmInv /\ AgreeInv
  BY DEF IInv
<1> DEFINE A == [ap EXCEPT !.gtk = ap.gtk + 1]
           f == ApSends(A, "G1")
<1>b. /\ ap.phase = "done" /\ ap.gtk < MaxGtk
      /\ Quiet \/ trouble > 0
      /\ trouble' = IF Quiet THEN trouble ELSE trouble - 1
      /\ ap' = Begun(A, "G1") /\ down' = Append(down, f)
      /\ UNCHANGED <<sta, driver, up, reports, acked, over>>
  BY DEF ApRekeysGroup
<1>c. ap \in ApType /\ sta \in StaType /\ driver \in DriverType /\ trouble' \in 0 .. MaxTrouble
  <2>1. ap \in ApType /\ sta \in StaType /\ driver \in DriverType /\ trouble \in 0 .. MaxTrouble
    BY <1>a, Types
  <2> QED
    BY <1>b, <2>1, Numbers
<1>d. /\ ap.rc \in Nat /\ ap.rc + 1 \in Nat /\ ap.anonce \in 0 .. MaxNonce
      /\ ap.gtk + 1 \in 1 .. MaxGtk /\ ap.gtk + 1 \in 0 .. MaxGtk /\ 1 \in 0 .. MaxTries
  BY SMTT(30), <1>b, <1>c, Numbers DEF ApType
<1>1. /\ A \in ApType /\ A.anonce = ap.anonce /\ A.rc = ap.rc /\ A.gtk = ap.gtk + 1
      /\ A.honest = ap.honest /\ A.ptk = ap.ptk /\ A.tk = ap.tk
  BY <1>c, <1>d DEF ApType
<1>2. /\ f \in FrameType /\ f.type = "G1" /\ f.rc = ap.rc + 1 /\ f.anonce = ap.anonce
      /\ f.gtk = ap.gtk + 1
  <2> HIDE DEF A
  <2>1. A.honest \in BOOLEAN /\ A.ptk \in Key \cup {NoKey}
    BY <1>1 DEF ApType
  <2> QED
    BY <1>1, <1>d, <2>1, Sent
<1>3. ap' = [A EXCEPT !.phase = "G1", !.first = ap.rc + 1, !.rc = ap.rc + 1, !.tries = 1]
  BY <1>1, <1>b DEF Begun
<1> HIDE DEF A, f
<1>4. /\ ap'.phase = "G1" /\ ap'.anonce = ap.anonce /\ ap'.rc = ap.rc + 1
      /\ ap'.first = ap.rc + 1 /\ ap'.honest = ap.honest /\ ap'.gtk = ap.gtk + 1
      /\ ap'.ptk = ap.ptk /\ ap'.tk = ap.tk
  BY <1>1, <1>3 DEF ApType
<1>5. TypeOK'
  <2>1. ap' \in ApType
    BY <1>1, <1>3, <1>d DEF ApType
  <2> QED
    BY <1>a, <1>b, <1>c, <2>1 DEF TypeOK, ApType
<1>6. down' \in Seq(FrameType) /\ In(down') = In(down) \cup {f} /\ Ordered(down)'
  BY <1>2, <1>a, <1>b, Push, OrderedPush DEF QueuesOK, FramesInv
<1>7. QueuesOK'
  BY <1>6, <1>a, <1>b DEF QueuesOK
<1>8. \A g \in In(down) : g.type # "DEAUTH" => g.rc \in Nat /\ g.rc \in 1 .. ap.rc
  BY <1>a, <1>d DEF FramesInv
<1>9. \A m \in In(up) : m.rc \in Nat /\ m.rc <= ap.rc
  <2>1. \A m \in In(up) : m \in ReplyType
    BY <1>a DEF QueuesOK, In
  <2> QED
    BY <1>a, <2>1 DEF FramesInv, ReplyType
<1>i. IdleInv'
  BY <1>4 DEF IdleInv
<1>10. FramesInv'
  <2>1. \A g \in In(down') : g.type # "DEAUTH" => g.anonce = ap.anonce /\ g.rc \in 1 .. ap.rc + 1
    BY <1>2, <1>6, <1>8, <1>a, <1>d DEF FramesInv
  <2>2. \A m \in In(up) : m.rc <= ap.rc + 1
    BY <1>9, <1>d
  <2>3. ap.rc + 1 \in 1 .. ap.rc + 1
    BY <1>d
  <2> QED
    BY <1>2, <1>4, <1>6, <1>a, <1>b, <2>1, <2>2, <2>3 DEF FramesInv
<1>11. NoM4' = NoM4 /\ Used' = Used /\ Logged' = Logged /\ NoM1' = NoM1
  BY <1>2, <1>6, <1>b DEF NoM4, Used, Logged, NoM1
<1>12. KeysInv'
  BY <1>11, <1>4, <1>a, <1>b DEF KeysInv
<1>13. StateInv' /\ ConfirmInv'
  BY <1>11, <1>4, <1>a, <1>b DEF StateInv, ConfirmInv
<1>14. AgreeInv'
  <2>1. \A g \in In(down') : g.type = "G1" /\ g.rc >= ap.rc + 1 => g.gtk = ap.gtk + 1
    BY <1>2, <1>6, <1>8, <1>d
  <2>2. \A m \in In(up) : ~(m.rc >= ap.rc + 1)
    BY <1>9, <1>d
  <2> QED
    BY <1>11, <1>4, <1>a, <1>b, <2>1, <2>2 DEF AgreeInv
<1> QED
  BY <1>5, <1>7, <1>10, <1>i, <1>12, <1>13, <1>14 DEF IInv

(* What is known of the frame at the head of the queue. *)
LEMMA HeadFacts ==
  ASSUME IInv, down # <<>>, Head(down).type # "DEAUTH"
  PROVE  /\ Head(down) \in In(down) /\ Head(down) \in FrameType
         /\ Head(down).anonce = ap.anonce /\ Head(down).rc \in 1 .. ap.rc
         /\ Head(down).rc \in Nat \ {0} /\ ap.rc \in Nat
         /\ Head(down).gtk \in 0 .. MaxGtk /\ Head(down).honest \in BOOLEAN
         /\ ap.phase # "idle" /\ ap.anonce \in 1 .. MaxNonce /\ ap.anonce \in Nat
         /\ Tail(down) \in Seq(FrameType) /\ Ordered(Tail(down))
         /\ \A f \in In(Tail(down)) : f \in In(down)
         /\ Head(down).type = "M3" => \A f \in In(Tail(down)) : f.type # "M1"
         /\ Head(down).type = "G1" => \A f \in In(Tail(down)) : f.type # "M3"
<1>1. TypeOK /\ down \in Seq(FrameType) /\ FramesInv /\ Ordered(down)
  BY DEF IInv, QueuesOK, FramesInv
<1>2. /\ Head(down) \in In(down) /\ Head(down) \in FrameType
      /\ Tail(down) \in Seq(FrameType) /\ In(Tail(down)) \subseteq In(down)
  BY <1>1, Pop
<1>3. /\ Ordered(Tail(down))
      /\ Head(down).type = "M3" => \A f \in In(Tail(down)) : f.type # "M1"
      /\ Head(down).type = "G1" => \A f \in In(Tail(down)) : f.type # "M3"
  BY <1>1, OrderedPop
<1>4. /\ Head(down).anonce = ap.anonce /\ Head(down).rc \in 1 .. ap.rc /\ ap.phase # "idle"
      /\ ap.anonce # 0
  BY <1>1, <1>2 DEF FramesInv
<1>5. ap.rc \in Nat /\ ap.anonce \in 0 .. MaxNonce
  BY <1>1, Fields
<1>6. Head(down).gtk \in 0 .. MaxGtk /\ Head(down).honest \in BOOLEAN
  BY <1>2 DEF FrameType
<1>7. Head(down).rc \in Nat \ {0} /\ ap.anonce \in 1 .. MaxNonce /\ ap.anonce \in Nat
  BY <1>4, <1>5, Numbers
<1> QED
  BY <1>2, <1>3, <1>4, <1>5, <1>6, <1>7

(* The answer is sent, or there is trouble. *)
LEMMA SendsFacts ==
  ASSUME IInv, NEW r \in ReplyType, NEW sent \in IF trouble = 0 THEN {TRUE} ELSE BOOLEAN,
         Sends(sent, r)
  PROVE  /\ up' \in Seq(ReplyType) /\ In(up') \subseteq In(up) \cup {r}
         /\ trouble' \in 0 .. MaxTrouble
<1>1. trouble \in 0 .. MaxTrouble /\ up \in Seq(ReplyType)
  BY Types DEF IInv, QueuesOK
<1>2. CASE sent = TRUE
  BY <1>1, <1>2, Push DEF Sends
<1>3. CASE sent = FALSE
  <2>1. trouble # 0 /\ up' = up /\ trouble' = trouble - 1
    BY <1>3 DEF Sends
  <2>2. trouble' \in 0 .. MaxTrouble
    BY <1>1, <2>1, Numbers
  <2> QED
    BY <1>1, <2>1, <2>2
<1>4. sent = TRUE \/ sent = FALSE
  OBVIOUS
<1> QED
  BY <1>2, <1>3, <1>4

LEMMA RxM1Step == ASSUME IInv, RxM1 PROVE IInv'
<1>a. /\ TypeOK /\ QueuesOK /\ FramesInv /\ IdleInv /\ KeysInv
      /\ StateInv /\ ConfirmInv /\ AgreeInv
  BY DEF IInv
<1> DEFINE m == Head(down)
<1>b. /\ down # <<>> /\ m.type = "M1" /\ Awaits(sta) /\ down' = Tail(down)
      /\ UNCHANGED <<driver, ap, reports, acked, over>>
  BY DEF RxM1, Passes
<1>c. PICK sent \in IF trouble = 0 THEN {TRUE} ELSE BOOLEAN :
        /\ sta' = ProcessM1(sta, m, sent)
        /\ Sends(sent, Reply("M2", m.rc, sta'.tptk))
  BY DEF RxM1
<1>d. /\ m \in In(down) /\ m.anonce = ap.anonce /\ m.rc \in 1 .. ap.rc /\ m.rc \in Nat
      /\ ap.rc \in Nat
      /\ ap.phase # "idle" /\ ap.anonce \in 1 .. MaxNonce /\ ap.anonce \in Nat
      /\ Tail(down) \in Seq(FrameType) /\ Ordered(Tail(down))
      /\ \A f \in In(Tail(down)) : f \in In(down)
  BY <1>b, HeadFacts
<1> HIDE DEF m
<1>1. ~NoM1
  BY <1>b, <1>d DEF NoM1
<1>2. /\ \A k \in Used : k[2] < ap.anonce
      /\ sta.snonce_valid \/ sta.snonce < ap.anonce
      /\ sta.snonce <= ap.anonce
      /\ sta.snonce_valid => sta.snonce # 0
      /\ NoM4
  BY <1>1, <1>a DEF KeysInv
<1> DEFINE n == IF sta.snonce_valid THEN sta.snonce ELSE sta.snonce + 1
<1>3. n \in 1 .. MaxNonce /\ n <= ap.anonce /\ n \in 0 .. MaxNonce
  <2>1. sta.snonce \in Nat
    BY <1>a, Fields
  <2>2. CASE sta.snonce_valid
    BY <1>2, <1>d, <2>1, <2>2, Numbers
  <2>3. CASE ~sta.snonce_valid
    BY <1>2, <1>d, <2>1, <2>3, Numbers
  <2> QED
    BY <2>2, <2>3
<1>4. sta' = [sta EXCEPT !.state = IF sent THEN "M2_SENT" ELSE "M1_RECEIVED",
               !.snonce = n, !.snonce_valid = TRUE, !.anonce = m.anonce,
               !.tptk = <<sta.right, m.anonce, n>>]
  BY <1>c DEF ProcessM1
<1> HIDE DEF n
<1>5. sta \in StaType /\ sta.right \in BOOLEAN
  BY <1>a, Types DEF StaType
<1> DEFINE k0 == <<sta.right, m.anonce, n>>
<1>6. k0 \in Key /\ k0[2] = ap.anonce
  BY <1>3, <1>5, <1>d DEF Key
<1> HIDE DEF k0
<1>7. sta' = [sta EXCEPT !.state = IF sent THEN "M2_SENT" ELSE "M1_RECEIVED",
               !.snonce = n, !.snonce_valid = TRUE, !.anonce = m.anonce, !.tptk = k0]
  BY <1>4 DEF k0
<1>8. /\ sta'.state \in {"M1_RECEIVED", "M2_SENT"} /\ sta'.snonce = n
      /\ sta'.snonce_valid = TRUE /\ sta'.anonce = ap.anonce /\ sta'.tptk = k0
      /\ sta'.ptk = sta.ptk /\ sta'.replay = sta.replay /\ sta'.gtk = sta.gtk
      /\ sta'.install_pending = sta.install_pending
  BY <1>5, <1>7, <1>d DEF StaType
<1> DEFINE r == Reply("M2", m.rc, k0)
<1>9. r \in ReplyType /\ r.type = "M2" /\ r.rc = m.rc
  BY <1>6, <1>d DEF Reply, ReplyType
<1>10. Sends(sent, r)
  BY <1>c, <1>8
<1> HIDE DEF r
<1>11. /\ up' \in Seq(ReplyType) /\ In(up') \subseteq In(up) \cup {r}
       /\ trouble' \in 0 .. MaxTrouble
  BY <1>9, <1>10, SendsFacts
<1>12. TypeOK'
  <2>1. m.anonce \in 0 .. MaxNonce
    BY <1>d, Numbers
  <2>2. sta' \in StaType
    BY <1>3, <1>5, <1>6, <1>7, <2>1 DEF StaType, State
  <2>3. driver \in DriverType /\ ap \in ApType /\ acked \subseteq Key /\ over \in BOOLEAN
    BY <1>a, Types
  <2>4. sta'.install_pending => sta'.ptk # NoKey
    BY <1>8, <1>a DEF TypeOK
  <2> QED
    BY <1>11, <1>b, <2>2, <2>3, <2>4 DEF TypeOK, StaType, DriverType, ApType, LogType
<1>13. QueuesOK'
  BY <1>11, <1>a, <1>b, <1>d DEF QueuesOK
<1>14. FramesInv' /\ IdleInv'
  <2>1. \A x \in In(up') : x.rc <= ap.rc
    BY <1>11, <1>9, <1>a, <1>d DEF FramesInv
  <2> QED
    BY <1>a, <1>b, <1>d, <2>1 DEF FramesInv, IdleInv
<1>15. NoM4' /\ Used' = Used /\ Logged' = Logged
  BY <1>2, <1>8, <1>9, <1>11, <1>b DEF NoM4, Used, Logged
<1>16. KeysInv'
  <2>1. \A k \in Used : k[2] < ap.anonce
    BY <1>2
  <2>2. n # 0 /\ n <= ap.anonce /\ ap.anonce <= ap.anonce
    BY <1>3, <1>d
  <2>3. /\ \A k \in Used : k[2] <= ap.anonce
        /\ sta.install_pending /\ ~over => sta.ptk \notin Logged
        /\ \A i, j \in 1 .. Len(driver.log) :
             i < j /\ driver.log[i].key = driver.log[j].key => driver.log[j].over
    BY <1>a DEF KeysInv
  <2> QED
    BY <1>6, <1>8, <1>15, <1>b, <2>1, <2>2, <2>3 DEF KeysInv
<1>17. StateInv'
  <2>1. sta.ptk # NoKey => sta.ptk[2] < ap.anonce
    BY <1>2 DEF Used
  <2> QED
    BY <1>8, <1>a, <1>b, <2>1 DEF StateInv
<1>18. ConfirmInv'
  BY <1>8, <1>15, <1>a, <1>b DEF ConfirmInv, NoM4
<1>19. AgreeInv'
  BY <1>1, <1>8, <1>a, <1>b DEF AgreeInv
<1> QED
  BY <1>12, <1>13, <1>14, <1>16, <1>17, <1>18, <1>19 DEF IInv

LEMMA RxM3Step == ASSUME IInv, RxM3 PROVE IInv'
<1>a. /\ TypeOK /\ QueuesOK /\ FramesInv /\ IdleInv /\ KeysInv
      /\ StateInv /\ ConfirmInv /\ AgreeInv
  BY DEF IInv
<1> DEFINE m == Head(down)
           s == Verified(sta, m)
<1>b. /\ down # <<>> /\ m.type = "M3" /\ Awaits(sta) /\ Fresh(sta, m) /\ MicGood(sta, m)
      /\ UNCHANGED <<driver, reports, acked, over>>
  BY DEF RxM3, Passes
<1>c. PICK sent \in IF trouble = 0 THEN {TRUE} ELSE BOOLEAN :
        /\ sta' = ProcessM3(s, m, sent)
        /\ IF m.anonce = s.anonce /\ m.honest
           THEN /\ Sends(sent, Reply("M4", m.rc, s.ptk))
                /\ down' = Tail(down) /\ ap' = ap
           ELSE /\ sent /\ UNCHANGED <<up, trouble>>
                /\ IF sta'.state = "FAILED"
                   THEN down' = <<Deauth>> /\ ap' = [ap EXCEPT !.phase = "idle"]
                   ELSE down' = Tail(down) /\ ap' = ap
  BY DEF RxM3
<1>d. /\ m \in In(down) /\ m.anonce = ap.anonce /\ m.rc \in 1 .. ap.rc /\ m.rc \in Nat \ {0}
      /\ ap.rc \in Nat /\ m.gtk \in 0 .. MaxGtk /\ m.honest \in BOOLEAN
      /\ ap.phase # "idle" /\ ap.anonce \in Nat
      /\ Tail(down) \in Seq(FrameType) /\ Ordered(Tail(down))
      /\ \A f \in In(Tail(down)) : f \in In(down) /\ f.type # "M1"
  BY <1>b, HeadFacts
<1>h. Head(down).type # "DEAUTH"
  BY <1>b
<1> HIDE DEF m
<1>e. /\ m.key \in Key /\ m.key[2] = ap.anonce /\ m.honest = ap.honest /\ ap.phase # "M1"
  BY <1>a, <1>b, <1>d DEF FramesInv
<1>f. /\ sta \in StaType /\ driver \in DriverType /\ ap \in ApType /\ acked \subseteq Key
      /\ trouble \in 0 .. MaxTrouble /\ over \in BOOLEAN
      /\ sta.state \in State /\ sta.anonce \in Nat /\ sta.replay \in Nat
      /\ sta.tptk \in Key \cup {NoKey} /\ sta.ptk \in Key \cup {NoKey}
  BY <1>a, Types, Fields
<1>g. \A k \in Logged : k \in Key /\ k[2] \in Nat
  BY <1>a, LogFacts
<1>1. m.rc >= sta.replay
  BY <1>b, <1>d, <1>f DEF Fresh
<1>2. /\ s \in StaType /\ s.state = sta.state /\ s.anonce = sta.anonce /\ s.replay = m.rc
      /\ s.snonce = sta.snonce /\ s.snonce_valid = sta.snonce_valid /\ s.gtk = sta.gtk
      /\ s.install_pending = sta.install_pending
  BY <1>d, <1>f DEF Verified, StaType
<1>3. /\ FirstUse(sta, m) => s.ptk = sta.tptk /\ s.tptk = NoKey /\ sta.tptk # NoKey
                             /\ m.key = sta.tptk
      /\ ~FirstUse(sta, m) => s.ptk = sta.ptk /\ s.tptk = sta.tptk /\ sta.ptk # NoKey
                              /\ m.key = sta.ptk
  BY <1>b, <1>d, <1>f DEF Verified, StaType, FirstUse, MicGood
\* the key of the M3 is the station's from now on, and it has not been set
<1>4. s.ptk = m.key /\ s.ptk \in Key /\ s.ptk # NoKey
  BY <1>3, <1>e, KeyFacts
<1>5. CASE m.anonce # s.anonce
  <2>1. ~FirstUse(sta, m)
    BY <1>2, <1>3, <1>5, <1>a, <1>d, <1>e DEF KeysInv
  <2>2. s = [sta EXCEPT !.replay = m.rc]
    BY <1>f, <2>1 DEF Verified, StaType
  <2>3. sta' = [s EXCEPT !.last_fail = "ANONCE_MISMATCH"]
    BY <1>5, <1>c DEF ProcessM3
  <2>4. sta' = [sta EXCEPT !.replay = m.rc, !.last_fail = "ANONCE_MISMATCH"]
    BY <1>f, <2>2, <2>3 DEF StaType
  <2>5. sta'.state # "FAILED"
    BY <1>2, <1>b, <2>3 DEF Awaits, StaType
  <2>6. down' = Tail(down) /\ ap' = ap /\ UNCHANGED <<up, trouble>>
    BY <1>5, <1>c, <2>5
  <2>7. "ANONCE_MISMATCH" \in Fail
    BY DEF Fail
  <2> QED
    BY <1>1, <1>b, <1>d, <1>f, <1>h, <2>4, <2>6, <2>7, Popped
<1>6. ASSUME m.anonce = s.anonce
      PROVE  /\ s.tptk = NoKey
             /\ FirstUse(sta, m) => NoM4
             /\ s.ptk \notin Logged \/ (~FirstUse(sta, m) /\ ~sta.install_pending) \/ over
             /\ \A k \in Used : k[2] <= ap.anonce
             /\ sta.state \in {"M1_RECEIVED", "M2_SENT"} => FirstUse(sta, m)
             /\ sta.state = "CONNECTING" => FirstUse(sta, m) \/ over
  <2>1. sta.anonce = ap.anonce
    BY <1>2, <1>6, <1>d
  <2>2. \A k \in Used : k[2] <= ap.anonce
    BY <1>a DEF KeysInv
  <2>3. CASE FirstUse(sta, m)
    <3>1. (\A k \in Used : k[2] < ap.anonce) /\ NoM4
      BY <1>3, <1>a, <2>1, <2>3 DEF KeysInv
    <3>2. s.ptk \notin Logged
      BY <1>4, <1>d, <1>e, <3>1 DEF Used
    <3> QED
      BY <1>3, <2>2, <2>3, <3>1, <3>2
  <2>4. CASE ~FirstUse(sta, m)
    <3>1. sta.ptk \in Used /\ sta.ptk[2] = sta.anonce /\ sta.ptk # NoKey
      BY <1>3, <1>e, <2>1, <2>4 DEF Used
    <3>2. sta.tptk = NoKey
      BY <1>a, <1>f, <3>1 DEF KeysInv
    <3>3. sta.state \notin {"M1_RECEIVED", "M2_SENT"} /\ (sta.state = "CONNECTING" => over)
      BY <1>a, <1>f, <3>1 DEF StateInv
    <3>4. sta.install_pending /\ ~over => sta.ptk \notin Logged
      BY <1>a DEF KeysInv
    <3> QED
      BY <1>3, <2>2, <2>4, <3>2, <3>3, <3>4
  <2> QED
    BY <2>3, <2>4
<1>7. CASE m.anonce = s.anonce /\ m.honest = FALSE
  <2>1. sta' = [s EXCEPT !.state = "FAILED", !.last_fail = "IE_MISMATCH"]
    BY <1>7, <1>c DEF ProcessM3
  <2>2. /\ sta'.state = "FAILED" /\ sta'.snonce = sta.snonce
        /\ sta'.snonce_valid = sta.snonce_valid /\ sta'.tptk = NoKey /\ sta'.ptk = s.ptk
        /\ sta'.install_pending = sta.install_pending
    BY <1>2, <1>6, <1>7, <2>1 DEF StaType
  <2>3. down' = <<Deauth>> /\ ap' = [ap EXCEPT !.phase = "idle"] /\ UNCHANGED <<up, trouble>>
    BY <1>7, <1>c, <2>2
  <2>4. ap'.phase = "idle" /\ ap'.anonce = ap.anonce /\ ap'.honest = FALSE /\ ap'.rc = ap.rc
    BY <1>7, <1>e, <1>f, <2>3 DEF ApType
  <2>5. TypeOK'
    <3>1. sta' \in StaType
      BY <1>2, <2>1 DEF StaType, State, Fail
    <3>2. ap' \in ApType
      BY <1>f, <2>3 DEF ApType
    <3>3. sta'.ptk # NoKey
      BY <1>4, <2>2
    <3> QED
      BY <1>b, <1>f, <2>3, <3>1, <3>2, <3>3 DEF TypeOK, StaType, ApType, DriverType, LogType
  <2>6. /\ QueuesOK' /\ In(down') = {Deauth} /\ Ordered(down)'
    BY <1>a, <1>b, <2>3, Single, DeauthFacts DEF QueuesOK
  <2>7. NoM1' /\ NoM4'
    <3>1. NoM4
      BY <1>7, <1>a, <1>e DEF ConfirmInv
    <3> QED
      BY <1>b, <2>3, <2>6, <3>1, DeauthFacts DEF NoM1, NoM4
  <2>8. FramesInv' /\ IdleInv'
    <3>1. down' # <<>>
      BY <2>3, Single, DeauthFacts
    <3> QED
      BY <1>a, <2>2, <2>3, <2>4, <2>6, <3>1, DeauthFacts DEF FramesInv, IdleInv
  <2>9. KeysInv'
    <3>1. \A k \in Used' : k[2] <= ap.anonce
      <4>1. Used' \subseteq Used \cup {s.ptk}
        BY <1>b, <2>2 DEF Used, Logged
      <4>2. s.ptk[2] <= ap.anonce
        BY <1>4, <1>d, <1>e
      <4> QED
        BY <1>6, <1>7, <4>1, <4>2
    <3>2. sta'.install_pending /\ ~over' => sta'.ptk \notin Logged'
      <4>1. Logged' = Logged /\ over' = over
        BY <1>b DEF Logged
      <4>2. ~FirstUse(sta, m) => sta'.ptk = sta.ptk
        BY <1>3, <2>2
      <4>3. sta.install_pending /\ ~over => sta.ptk \notin Logged
        BY <1>a DEF KeysInv
      <4> QED
        BY <1>6, <1>7, <2>2, <4>1, <4>2, <4>3
    <3> QED
      BY <1>a, <1>b, <2>2, <2>4, <2>7, <3>1, <3>2 DEF KeysInv
  <2>10. StateInv' /\ AgreeInv'
    BY <2>2, <2>4 DEF StateInv, AgreeInv
  <2>11. ConfirmInv'
    BY <1>a, <1>b, <2>7 DEF ConfirmInv, NoM4
  <2> QED
    BY <2>5, <2>6, <2>8, <2>9, <2>10, <2>11 DEF IInv
<1>8. CASE m.anonce = s.anonce /\ m.honest = TRUE
  <2> DEFINE r == Reply("M4", m.rc, s.ptk)
  <2>1. Sends(sent, r) /\ down' = Tail(down) /\ ap' = ap
    BY <1>8, <1>c
  <2>2. r \in ReplyType /\ r.type = "M4" /\ r.rc = m.rc /\ r.key = s.ptk
    BY <1>4, <1>d DEF Reply, ReplyType
  <2> HIDE DEF r
  <2>3. /\ up' \in Seq(ReplyType) /\ In(up') \subseteq In(up) \cup {r}
        /\ trouble' \in 0 .. MaxTrouble
    BY <2>1, <2>2, SendsFacts
  <2>4. \/ /\ s.state = "AUTHENTICATED"
           /\ sta' = [s EXCEPT !.m4_pending = sent]
        \/ /\ s.state # "AUTHENTICATED"
           /\ sta' = [s EXCEPT !.gtk = m.gtk, !.install_pending = TRUE, !.m4_pending = sent,
                               !.state = IF sent THEN "M4_SENT" ELSE "M3_RECEIVED"]
    BY <1>8, <1>c DEF ProcessM3
  <2>5. /\ sta' \in StaType /\ sta'.snonce = sta.snonce /\ sta'.snonce_valid = sta.snonce_valid
        /\ sta'.anonce = sta.anonce /\ sta'.tptk = NoKey /\ sta'.ptk = s.ptk
        /\ sta'.replay = m.rc
    <3>1. sent \in BOOLEAN
      OBVIOUS
    <3>2. (IF sent THEN "M4_SENT" ELSE "M3_RECEIVED") \in State
      BY DEF State
    <3>3. s.tptk = NoKey
      BY <1>6, <1>8
    <3> HIDE DEF s
    <3> QED
      BY ZenonT(30), <1>2, <1>d, <2>4, <3>1, <3>2, <3>3 DEF StaType
  <2>6. \/ /\ sta.state = "AUTHENTICATED" /\ sta'.state = "AUTHENTICATED"
           /\ sta'.gtk = sta.gtk /\ sta'.install_pending = sta.install_pending
        \/ /\ sta.state # "AUTHENTICATED" /\ sta'.state \in {"M4_SENT", "M3_RECEIVED"}
           /\ sta'.gtk = m.gtk /\ sta'.install_pending = TRUE
    <3> HIDE DEF s
    <3> QED
      BY <1>2, <2>4 DEF StaType
  <2>7. TypeOK'
    <3>1. sta'.ptk # NoKey
      BY <1>4, <2>5
    <3> QED
      BY <1>b, <1>f, <2>1, <2>3, <2>5, <3>1 DEF TypeOK, StaType, ApType, DriverType, LogType
  <2>8. QueuesOK'
    BY <1>a, <1>b, <1>d, <2>1, <2>3 DEF QueuesOK
  <2>9. FramesInv' /\ IdleInv'
    <3>1. \A x \in In(up') : x.rc <= ap.rc
      BY <1>a, <1>d, <2>2, <2>3 DEF FramesInv
    <3> QED
      BY <1>a, <1>d, <2>1, <3>1 DEF FramesInv, IdleInv
  <2>10. NoM1' /\ (FirstUse(sta, m) => NoM4)
    BY <1>6, <1>8, <1>d, <2>1 DEF NoM1
  \* in state AUTHENTICATED, M3_RECEIVED or M4_SENT it was the station's before
  <2>11. sta'.ptk # NoKey /\ (~FirstUse(sta, m) => sta'.ptk = sta.ptk)
    BY <1>3, <1>4, <2>5
  <2>12. /\ Logged' = Logged /\ over' = over
         /\ sta.state = "AUTHENTICATED" /\ FirstUse(sta, m) =>
              "tk" \in driver.refused \/ driver.stale
    BY <1>a, <1>b, <1>3 DEF StateInv, Logged
  <2>13. KeysInv'
    <3>1. \A k \in Used' : k[2] <= ap.anonce
      <4>1. Used' \subseteq Used \cup {s.ptk}
        BY <1>b, <2>5 DEF Used, Logged
      <4>2. s.ptk[2] <= ap.anonce
        BY <1>4, <1>d, <1>e
      <4> QED
        BY <1>6, <1>8, <4>1, <4>2
    <3>2. sta'.install_pending /\ ~over => sta'.ptk \notin Logged
      <4>1. CASE FirstUse(sta, m)
        BY <1>6, <1>8, <2>5, <4>1
      <4>2. CASE sta.state = "AUTHENTICATED" /\ ~FirstUse(sta, m)
        BY <1>a, <2>6, <2>11, <4>2 DEF KeysInv
      <4>3. CASE sta.state # "AUTHENTICATED" /\ ~FirstUse(sta, m) /\ ~over
        <5>1. sta.state \in {"M3_RECEIVED", "M4_SENT"}
          BY <1>6, <1>8, <1>b, <1>f, <4>3 DEF Awaits, State
        <5>2. sta.install_pending
          BY <1>a, <5>1 DEF StateInv
        <5> QED
          BY <1>6, <1>8, <2>5, <4>3, <5>2
      <4> QED
        BY <4>1, <4>2, <4>3
    <3> QED
      BY <1>a, <1>b, <1>e, <2>1, <2>5, <2>10, <2>12, <3>1, <3>2 DEF KeysInv
  <2>14. StateInv'
    BY <1>a, <1>b, <2>1, <2>5, <2>6, <2>11, <2>12 DEF StateInv
  <2>15. ConfirmInv'
    <3>1. \A x \in In(up') : x.type = "M4" => x.key = sta'.ptk
      <4>1. \A x \in In(up) : x.type = "M4" => x.key = sta'.ptk
        BY <1>a, <2>10, <2>11 DEF ConfirmInv, NoM4
      <4> QED
        BY <2>2, <2>3, <2>5, <4>1
    <3>2. \A x \in In(reports') : x.type = "M4" /\ x.ok /\ ~x.old => sta'.ptk \in acked
      BY <1>a, <1>b, <2>10, <2>11 DEF ConfirmInv, NoM4
    <3>3. ap'.honest = TRUE
      BY <1>8, <1>e, <2>1
    <3> QED
      BY <1>a, <1>b, <2>11, <3>1, <3>2, <3>3 DEF ConfirmInv
  <2>16. AgreeInv'
    <3>1. ap.phase = "M3" => m.gtk = ap.gtk
      BY <1>a, <1>b, <1>d DEF FramesInv
    <3>2. ap.phase = "done" => m.gtk = ap.gtk
      BY <1>a, <1>b, <1>d DEF AgreeInv
    <3>3. ap.phase \in {"G1", "done"} => sta'.ptk = sta.ptk
      BY <1>3, <1>a, <2>11 DEF AgreeInv
    <3>4. ap.phase \in {"M1", "M3"} => sta'.gtk = ap.gtk
      <4>1. CASE sta.state = "AUTHENTICATED"
        <5>1. sta.ptk # NoKey
          BY <1>a, <4>1 DEF StateInv
        <5> QED
          BY <1>a, <2>6, <4>1, <5>1 DEF AgreeInv
      <4>2. CASE sta.state # "AUTHENTICATED"
        BY <1>e, <2>6, <3>1, <4>2
      <4> QED
        BY <4>1, <4>2
    <3>5. ap.phase = "done" => sta'.gtk = ap.gtk
      BY <1>a, <2>6, <3>2 DEF AgreeInv
    <3>6. \A f \in In(down') : f \in In(down) /\ (Fresh(sta', f) => Fresh(sta, f))
      <4>1. \A f \in In(down') : f \in In(down) /\ f.rc \in Nat
        <5>1. \A f \in In(down) : f \in FrameType
          BY <1>a DEF QueuesOK, In
        <5> QED
          BY <1>d, <2>1, <5>1 DEF FrameType
      <4> QED
        BY <1>1, <1>d, <1>f, <2>5, <4>1 DEF Fresh
    <3>7. ap.phase = "G1" => \A x \in In(up') : ~(x.type = "G2" /\ x.rc >= ap.first)
      BY <1>a, <1>b, <1>d, <2>2, <2>3 DEF AgreeInv
    <3> QED
      BY <1>a, <2>1, <2>5, <2>10, <3>3, <3>4, <3>5, <3>6, <3>7 DEF AgreeInv
  <2> QED
    BY <2>7, <2>8, <2>9, <2>13, <2>14, <2>15, <2>16 DEF IInv
<1> QED
  BY <1>5, <1>7, <1>8, <1>d

LEMMA RxG1Step == ASSUME IInv, RxG1 PROVE IInv'
<1>a. /\ TypeOK /\ QueuesOK /\ FramesInv /\ IdleInv /\ KeysInv
      /\ StateInv /\ ConfirmInv /\ AgreeInv
  BY DEF IInv
<1> DEFINE m == Head(down)
           s == Verified(sta, m)
<1>b. /\ down # <<>> /\ m.type = "G1" /\ Fresh(sta, m) /\ MicGood(sta, m)
      /\ sta.state = "AUTHENTICATED"
      /\ sta' = [s EXCEPT !.gtk = m.gtk]
      /\ down' = Tail(down)
      /\ UNCHANGED <<ap, reports, acked, over>>
  BY DEF RxG1, Passes
<1>c. PICK sent \in IF trouble = 0 THEN {TRUE} ELSE BOOLEAN :
        Sends(sent, Reply("G2", m.rc, s.ptk))
  BY DEF RxG1
<1>e. PICK taken \in BOOLEAN : driver' = InstallGroup(driver, s, m, taken)
  BY DEF RxG1
<1>d. /\ m \in In(down) /\ m.rc \in 1 .. ap.rc /\ m.rc \in Nat \ {0}
      /\ ap.rc \in Nat /\ m.gtk \in 0 .. MaxGtk /\ ap.phase # "idle"
      /\ Tail(down) \in Seq(FrameType) /\ Ordered(Tail(down))
      /\ \A f \in In(Tail(down)) : f \in In(down) /\ f.type # "M3"
  BY <1>b, HeadFacts
<1> HIDE DEF m
<1>f. /\ sta \in StaType /\ driver \in DriverType /\ ap \in ApType /\ acked \subseteq Key
      /\ over \in BOOLEAN
      /\ sta.replay \in Nat /\ ap.first \in Nat
      /\ sta.ptk \in Key \cup {NoKey}
  BY <1>a, Types, Fields
<1>1. s = [sta EXCEPT !.replay = m.rc] /\ sta.ptk \in Key
  BY <1>b, <1>f DEF Verified, FirstUse, MicGood, StaType
<1>2. /\ s.ptk = sta.ptk /\ s.gtk = sta.gtk /\ s \in StaType
  BY <1>1, <1>d, <1>f DEF StaType
<1>3. /\ sta' \in StaType /\ sta'.state = "AUTHENTICATED" /\ sta'.snonce = sta.snonce
      /\ sta'.snonce_valid = sta.snonce_valid /\ sta'.anonce = sta.anonce
      /\ sta'.tptk = sta.tptk /\ sta'.ptk = sta.ptk /\ sta'.replay = m.rc /\ sta'.gtk = m.gtk
      /\ sta'.install_pending = sta.install_pending
  <2>1. sta' = [sta EXCEPT !.replay = m.rc, !.gtk = m.gtk]
    BY <1>1, <1>b, <1>f DEF StaType
  <2> QED
    BY <1>b, <1>d, <1>f, <2>1 DEF StaType
<1>4. /\ driver' \in DriverType /\ driver'.tk = driver.tk /\ driver'.log = driver.log
      /\ driver'.stale = driver.stale
      /\ "tk" \in driver'.refused <=> "tk" \in driver.refused
      /\ driver'.group = m.gtk \/ "group" \in driver'.refused
  <2>1. driver.group = sta.gtk \/ "group" \in driver.refused
    BY <1>a, <1>b DEF StateInv
  <2>2. CASE m.gtk = s.gtk
    BY <1>2, <1>e, <1>f, <2>1, <2>2 DEF InstallGroup
  <2>3. CASE m.gtk # s.gtk /\ taken
    <3>1. driver' = [driver EXCEPT !.group = m.gtk, !.refused = @ \ {"group"}]
      BY <1>e, <2>3 DEF InstallGroup
    <3> QED
      BY <1>d, <1>f, <3>1 DEF DriverType
  <2>4. CASE m.gtk # s.gtk /\ ~taken
    <3>1. driver' = [driver EXCEPT !.refused = @ \cup {"group"}]
      BY <1>e, <2>4 DEF InstallGroup
    <3> QED
      BY <1>f, <3>1 DEF DriverType
  <2> QED
    BY <2>2, <2>3, <2>4
<1> DEFINE r == Reply("G2", m.rc, s.ptk)
<1>5. r \in ReplyType /\ r.type = "G2" /\ r.rc = m.rc
  BY <1>1, <1>2, <1>d DEF Reply, ReplyType
<1>6. Sends(sent, r)
  BY <1>c
<1> HIDE DEF s, r
<1>7. /\ up' \in Seq(ReplyType) /\ In(up') \subseteq In(up) \cup {r}
      /\ trouble' \in 0 .. MaxTrouble
  BY <1>5, <1>6, SendsFacts
<1>8. TypeOK'
  <2>1. sta'.install_pending => sta'.ptk # NoKey
    BY <1>3, <1>a DEF TypeOK
  <2> QED
    BY <1>3, <1>4, <1>7, <1>b, <1>f, <2>1 DEF TypeOK, StaType, ApType, DriverType, LogType
<1>9. QueuesOK'
  BY <1>7, <1>a, <1>b, <1>d DEF QueuesOK
<1>10. FramesInv' /\ IdleInv'
  <2>1. \A x \in In(up') : x.rc <= ap.rc
    BY <1>5, <1>7, <1>a, <1>d DEF FramesInv
  <2> QED
    BY <1>a, <1>b, <1>d, <2>1 DEF FramesInv, IdleInv
<1>11. Used' = Used /\ Logged' = Logged /\ (NoM4 => NoM4') /\ (NoM1 => NoM1')
  BY <1>3, <1>4, <1>5, <1>7, <1>b, <1>d DEF Used, Logged, NoM4, NoM1
<1>12. KeysInv'
  BY <1>3, <1>4, <1>11, <1>a, <1>b DEF KeysInv
<1>13. StateInv'
  BY <1>3, <1>4, <1>a, <1>b DEF StateInv
<1>14. ConfirmInv'
  BY <1>3, <1>4, <1>5, <1>7, <1>11, <1>a, <1>b DEF ConfirmInv
<1>15. AgreeInv'
  <2>1. ap.phase \notin {"M1", "M3"}
    BY <1>a, <1>b, <1>d DEF FramesInv
  <2>2. ap.phase = "done" => m.gtk = ap.gtk
    BY <1>a, <1>b, <1>d DEF AgreeInv
  <2>3. \A f \in In(down') : f \in In(down) /\ (Fresh(sta', f) => Fresh(sta, f))
    <3>1. \A f \in In(down') : f \in In(down) /\ f.rc \in Nat
      <4>1. \A f \in In(down) : f \in FrameType
        BY <1>a DEF QueuesOK, In
      <4> QED
        BY <1>b, <1>d, <4>1 DEF FrameType
    <3> QED
      BY <1>3, <1>b, <1>d, <1>f, <3>1 DEF Fresh
  <2>4. CASE ap.phase = "G1"
    <3>1. \A f \in In(down') : f.type = "G1" /\ f.rc >= ap.first => f.gtk = ap.gtk
      BY <1>a, <2>3, <2>4 DEF AgreeInv
    <3>2. m.rc >= ap.first => m.gtk = ap.gtk
      BY <1>a, <1>b, <1>d, <2>4 DEF AgreeInv
    <3>3. ASSUME NEW x \in In(up'), x.type = "G2", x.rc >= ap.first
          PROVE  m.rc >= ap.first
      <4>1. CASE x = r
        BY <1>5, <3>3, <4>1
      <4>2. CASE x \in In(up)
        <5>1. sta.replay >= ap.first /\ ap.first \in 1 .. ap.rc
          BY <1>a, <2>4, <3>3, <4>2 DEF AgreeInv, FramesInv
        <5> QED
          BY <1>b, <1>d, <1>f, <5>1 DEF Fresh
      <4> QED
        BY <1>7, <4>1, <4>2
    <3> QED
      BY <1>3, <1>11, <1>a, <1>b, <1>d, <2>4, <3>1, <3>2, <3>3 DEF AgreeInv
  <2>5. CASE ap.phase # "G1"
    BY <1>3, <1>11, <1>a, <1>b, <2>1, <2>2, <2>3, <2>5 DEF AgreeInv
  <2> QED
    BY <2>4, <2>5
<1> QED
  BY <1>8, <1>9, <1>10, <1>12, <1>13, <1>14, <1>15 DEF IInv

LEMMA TxReportStep == ASSUME IInv, TxReport PROVE IInv'
<1>a. /\ TypeOK /\ QueuesOK /\ FramesInv /\ IdleInv /\ KeysInv
      /\ StateInv /\ ConfirmInv /\ AgreeInv
  BY DEF IInv
<1> DEFINE r == Head(reports)
<1>b. /\ reports # <<>> /\ sta' = TxDone(sta, r)
      /\ reports' = Tail(reports)
      /\ UNCHANGED <<ap, down, up, acked, over, trouble>>
      /\ ~Completes(sta, r) => driver' = driver
      /\ Completes(sta, r) =>
           \E refused \in SUBSET {"tk", "group"} :
             driver' = Installed(driver, sta, refused, r.old, over)
  BY DEF TxReport
<1>c. /\ r \in In(reports) /\ r \in ReportType /\ reports' \in Seq(ReportType)
      /\ In(reports') \subseteq In(reports)
  BY <1>a, <1>b, Pop DEF QueuesOK
<1> HIDE DEF r
<1>f. /\ sta \in StaType /\ driver \in DriverType /\ ap \in ApType /\ acked \subseteq Key
      /\ trouble \in 0 .. MaxTrouble /\ over \in BOOLEAN
      /\ driver.log \in Seq(LogType) /\ sta.ptk \in Key \cup {NoKey}
  BY <1>a, Types, Fields
<1>1. QueuesOK'
  BY <1>a, <1>b, <1>c DEF QueuesOK
<1>2. NoM1' = NoM1 /\ (NoM4 => NoM4')
  BY <1>b, <1>c DEF NoM1, NoM4
<1>3. CASE ~Completes(sta, r)
  <2>1. /\ sta' \in StaType /\ sta'.state = sta.state /\ sta'.snonce = sta.snonce
        /\ sta'.snonce_valid = sta.snonce_valid /\ sta'.anonce = sta.anonce
        /\ sta'.tptk = sta.tptk /\ sta'.ptk = sta.ptk /\ sta'.replay = sta.replay
        /\ sta'.gtk = sta.gtk /\ sta'.install_pending = sta.install_pending
    <3>1. CASE sta' = sta
      BY <1>f, <3>1
    <3>2. CASE sta' = [sta EXCEPT !.m4_pending = FALSE,
                         !.last_fail = IF r.ok THEN sta.last_fail ELSE "M4_TX"]
      <4>1. (IF r.ok THEN sta.last_fail ELSE "M4_TX") \in Fail
        BY <1>f DEF StaType, Fail
      <4> QED
        BY <1>f, <3>2, <4>1 DEF StaType
    <3>3. CASE ~sta.m4_pending \/ r.type # "M4"
      <4>1. sta' = sta
        BY <1>3, <1>b, <3>3 DEF TxDone
      <4> QED
        BY <3>1, <4>1
    <3>4. CASE ~(~sta.m4_pending \/ r.type # "M4")
      <4>1. sta' = [sta EXCEPT !.m4_pending = FALSE,
                      !.last_fail = IF r.ok THEN @ ELSE "M4_TX"]
        BY <1>3, <1>b, <3>4 DEF TxDone
      <4> QED
        BY <3>2, <4>1
    <3> QED
      BY <3>3, <3>4
  <2>2. driver' = driver
    BY <1>3, <1>b
  <2>3. TypeOK'
    BY <1>a, <1>b, <1>f, <2>1, <2>2 DEF TypeOK, StaType, ApType, DriverType, LogType
  <2>4. FramesInv' /\ IdleInv'
    BY <1>a, <1>b, <1>c, <2>1 DEF FramesInv, IdleInv
  <2>5. Used' = Used /\ Logged' = Logged
    BY <2>1, <2>2 DEF Used, Logged
  <2>6. KeysInv'
    BY <1>2, <1>a, <1>b, <2>1, <2>2, <2>5 DEF KeysInv
  <2>7. StateInv'
    BY <1>a, <1>b, <2>1, <2>2 DEF StateInv
  <2>8. ConfirmInv'
    BY <1>2, <1>a, <1>b, <1>c, <2>1, <2>2 DEF ConfirmInv
  <2>9. AgreeInv'
    BY <1>2, <1>a, <1>b, <2>1 DEF AgreeInv, Fresh
  <2> QED
    BY <1>1, <2>3, <2>4, <2>6, <2>7, <2>8, <2>9 DEF IInv
<1>4. CASE Completes(sta, r)
  <2>a. sta.m4_pending /\ r.type = "M4" /\ r.ok /\ sta.install_pending
    BY <1>4 DEF Completes
  <2>b. PICK refused \in SUBSET {"tk", "group"} :
          driver' = Installed(driver, sta, refused, r.old, over)
    BY <1>4, <1>b
  <2>1. sta.ptk \in Key /\ sta.ptk # NoKey /\ sta.gtk \in 0 .. MaxGtk /\ r.old \in BOOLEAN
    BY <1>a, <1>c, <1>f, <2>a DEF TypeOK, StaType, ReportType
  \* a report of this handshake confirms the key
  <2>2. /\ ~r.old => ~NoM4 /\ sta.ptk \in acked /\ sta.tptk = NoKey
        /\ ~over => sta.ptk \notin Logged
    <3>1. ~r.old => ~NoM4
      BY <1>c, <2>a DEF NoM4
    <3> QED
      BY <1>a, <1>c, <2>a, <3>1 DEF ConfirmInv, KeysInv
  <2>3. sta' = [sta EXCEPT !.m4_pending = FALSE, !.install_pending = FALSE,
                  !.state = "AUTHENTICATED", !.last_fail = "NONE"]
    BY <1>4, <1>b, <2>a DEF TxDone
  <2>4. /\ sta' \in StaType /\ sta'.state = "AUTHENTICATED" /\ sta'.snonce = sta.snonce
        /\ sta'.snonce_valid = sta.snonce_valid /\ sta'.anonce = sta.anonce
        /\ sta'.tptk = sta.tptk /\ sta'.ptk = sta.ptk /\ sta'.replay = sta.replay
        /\ sta'.gtk = sta.gtk /\ sta'.install_pending = FALSE
    BY <1>f, <2>3 DEF StaType, State, Fail
  <2> DEFINE e == [key |-> sta.ptk, over |-> over]
             n == Len(driver.log)
  <2>5. e \in LogType /\ e.key = sta.ptk /\ e.over = over /\ n \in Nat
    BY <1>f, <2>1, LenProperties DEF LogType
  <2>6. /\ driver'.refused = refused
        /\ driver'.group = sta.gtk \/ "group" \in driver'.refused
        /\ driver'.group \in 0 .. MaxGtk
        /\ "tk" \in refused => /\ driver'.tk = driver.tk /\ driver'.stale = driver.stale
                              /\ driver'.log = driver.log
        /\ "tk" \notin refused => /\ driver'.tk = sta.ptk /\ driver'.stale = r.old
                                 /\ driver'.log = Append(driver.log, e)
    BY <1>f, <2>1, <2>b DEF Installed, DriverType
  <2> HIDE DEF e
  <2>7. \/ driver'.log = driver.log
        \/ /\ Len(driver'.log) = n + 1 /\ driver'.log[n + 1] = e
           /\ \A i \in 1 .. n : driver'.log[i] = driver.log[i]
    BY <1>f, <2>5, <2>6, Push
  <2>8. driver' \in DriverType
    <3>1. driver'.log \in Seq(LogType)
      <4>1. CASE "tk" \in refused
        BY <1>f, <2>6, <4>1
      <4>2. CASE "tk" \notin refused
        <5>1. Append(driver.log, e) \in Seq(LogType)
          BY <1>f, <2>5, Push
        <5> QED
          BY <2>6, <4>2, <5>1
      <4> QED
        BY <4>1, <4>2
    <3>2. driver' = [tk |-> driver'.tk, stale |-> driver'.stale, log |-> driver'.log,
                     group |-> driver'.group, refused |-> driver'.refused]
      BY <2>b DEF Installed
    <3>3. driver'.tk \in Key \cup {NoKey} /\ driver'.stale \in BOOLEAN
      BY <1>f, <2>1, <2>6 DEF DriverType
    <3> QED
      BY <2>6, <3>1, <3>2, <3>3 DEF DriverType
  <2>9. TypeOK'
    <3>1. sta'.install_pending => sta'.ptk # NoKey
      BY <2>4
    <3> QED
      BY <1>b, <1>f, <2>4, <2>8, <3>1 DEF TypeOK, StaType, ApType, DriverType, LogType
  <2>10. FramesInv' /\ IdleInv'
    BY <1>a, <1>b, <1>c, <2>1, <2>4 DEF FramesInv, IdleInv
  <2> HIDE DEF n
  <2>11. Logged \subseteq Logged' /\ Logged' \subseteq Logged \cup {sta.ptk} /\ Used' = Used
    <3>1. CASE driver'.log = driver.log
      BY <2>4, <3>1 DEF Logged, Used
    <3>2. CASE /\ Len(driver'.log) = n + 1 /\ driver'.log[n + 1] = e
               /\ \A i \in 1 .. n : driver'.log[i] = driver.log[i]
      <4>1. Logged' = {driver'.log[i].key : i \in 1 .. n + 1}
        BY <3>2 DEF Logged
      <4>2. Logged = {driver.log[i].key : i \in 1 .. n}
        BY DEF Logged, n
      <4>3. 1 .. n + 1 = (1 .. n) \cup {n + 1}
        BY <2>5
      <4>4. Logged' = Logged \cup {sta.ptk}
        BY <2>5, <3>2, <4>1, <4>2, <4>3
      <4> QED
        BY <2>1, <2>4, <4>4 DEF Used
    <3> QED
      BY <2>7, <3>1, <3>2
  <2>12. \A i, j \in 1 .. Len(driver'.log) :
           i < j /\ driver'.log[i].key = driver'.log[j].key => driver'.log[j].over
    <3>1. \A i \in 1 .. n : driver.log[i].key \in Logged
      BY DEF Logged, n
    <3>2. \A i, j \in 1 .. n :
            i < j /\ driver.log[i].key = driver.log[j].key => driver.log[j].over
      BY <1>a DEF KeysInv, n
    <3>3. CASE driver'.log = driver.log
      BY <3>2, <3>3 DEF n
    <3>4. CASE /\ Len(driver'.log) = n + 1 /\ driver'.log[n + 1] = e
               /\ \A i \in 1 .. n : driver'.log[i] = driver.log[i]
      <4> SUFFICES ASSUME NEW i \in 1 .. n + 1, NEW j \in 1 .. n + 1, i < j,
                          driver'.log[i].key = driver'.log[j].key
                   PROVE  driver'.log[j].over
        BY <3>4
      <4>1. i \in 1 .. n /\ (j \in 1 .. n \/ j = n + 1)
        BY <2>5
      <4>2. CASE j \in 1 .. n
        BY <3>2, <3>4, <4>1, <4>2
      <4>3. CASE j = n + 1
        <5>1. sta.ptk \in Logged
          BY <2>5, <3>1, <3>4, <4>1, <4>3
        <5> QED
          BY <1>f, <2>2, <2>5, <3>4, <4>3, <5>1
      <4> QED
        BY <4>1, <4>2, <4>3
    <3> QED
      BY <2>7, <3>3, <3>4
  <2>13. KeysInv'
    BY <1>2, <1>a, <1>b, <2>4, <2>11, <2>12 DEF KeysInv
  <2>14. StateInv'
    BY <2>1, <2>2, <2>4, <2>6 DEF StateInv
  <2>15. ConfirmInv'
    <3>1. driver'.tk # NoKey => driver'.tk \in acked \/ driver'.stale
      BY <1>a, <2>2, <2>6 DEF ConfirmInv
    <3> QED
      BY <1>2, <1>a, <1>b, <1>c, <2>4, <3>1 DEF ConfirmInv
  <2>16. AgreeInv'
    BY <1>2, <1>a, <1>b, <2>4 DEF AgreeInv, Fresh
  <2> QED
    BY <1>1, <2>9, <2>10, <2>13, <2>14, <2>15, <2>16 DEF IInv
<1> QED
  BY <1>3, <1>4

LEMMA TransmitStep == ASSUME IInv, Transmit PROVE IInv'
<1>a. /\ TypeOK /\ QueuesOK /\ FramesInv /\ IdleInv /\ KeysInv
      /\ StateInv /\ ConfirmInv /\ AgreeInv
  BY DEF IInv
<1> DEFINE m == Head(up)
<1>b. /\ up # <<>> /\ up' = Tail(up) /\ UNCHANGED <<sta, driver, over>>
  BY DEF Transmit
<1>c. PICK arrives \in BOOLEAN, ok \in BOOLEAN :
        /\ trouble' = IF arrives /\ ok THEN trouble ELSE trouble - 1
        /\ (arrives /\ ok) \/ trouble > 0
        /\ reports' = Append(reports, [type |-> m.type, ok |-> ok, old |-> FALSE])
        /\ acked' = IF m.type = "M4" /\ (ok \/ arrives) THEN acked \cup {m.key} ELSE acked
        /\ ap' = IF arrives THEN ApAfter(ap, m) ELSE ap
        /\ down' = IF arrives /\ GoodM2(ap, m)
                   THEN Append(down, ApSends([ap EXCEPT !.ptk = m.key], "M3")) ELSE down
  BY DEF Transmit
<1>d. /\ m \in In(up) /\ m \in ReplyType /\ up' \in Seq(ReplyType) /\ In(up') \subseteq In(up)
  BY <1>a, <1>b, Pop DEF QueuesOK
<1> HIDE DEF m
<1>e. m.key \in Key /\ m.rc \in Nat /\ m.type \in {"M2", "M4", "G2"}
  BY <1>d DEF ReplyType
<1>f. /\ sta \in StaType /\ driver \in DriverType /\ ap \in ApType /\ acked \subseteq Key
      /\ trouble \in 0 .. MaxTrouble /\ over \in BOOLEAN
      /\ ap.rc \in Nat /\ ap.first \in Nat /\ sta.replay \in Nat
  BY <1>a, Types, Fields
<1> DEFINE r == [type |-> m.type, ok |-> ok, old |-> FALSE]
<1>1. r \in ReportType /\ r.type = m.type /\ r.ok = ok /\ r.old = FALSE
  BY <1>e DEF ReportType
<1>2. reports' = Append(reports, r)
  BY <1>c
<1> HIDE DEF r
<1>3. reports' \in Seq(ReportType) /\ In(reports') = In(reports) \cup {r}
  BY <1>1, <1>2, <1>a, Push DEF QueuesOK
<1>4. trouble' \in 0 .. MaxTrouble /\ acked \subseteq acked' /\ acked' \subseteq Key
  BY <1>c, <1>e, <1>f, Numbers
<1>5. m.type = "M4" /\ ok => m.key \in acked'
  BY <1>c
<1>6. NoM4 => NoM4' /\ m.type # "M4"
  BY <1>1, <1>3, <1>d DEF NoM4
<1>7. Used' = Used /\ Logged' = Logged
  BY <1>b DEF Used, Logged
\* with frames still to be sent the association has not ended
<1>8. ~(ap.phase = "idle" /\ down = <<>>)
  BY <1>a, <1>b DEF IdleInv
<1>9. StateInv'
  <2>1. ap'.honest = ap.honest
    BY <1>c, <1>f DEF ApAfter, Begun, ApType
  <2> QED
    BY <1>a, <1>b, <2>1 DEF StateInv
<1>10. ConfirmInv'
  <2>1. ap'.honest = ap.honest
    BY <1>c, <1>f DEF ApAfter, Begun, ApType
  <2>2. \A x \in In(reports') : x.type = "M4" /\ x.ok /\ ~x.old => sta.ptk \in acked'
    <3>1. m.type = "M4" /\ ok => sta.ptk \in acked'
      BY <1>5, <1>a, <1>d DEF ConfirmInv
    <3> QED
      BY <1>1, <1>3, <1>4, <1>a, <3>1 DEF ConfirmInv
  <2>3. \A x \in In(up') : x.type = "M4" => x.key = sta.ptk
    BY <1>a, <1>d DEF ConfirmInv
  <2> QED
    BY <1>4, <1>6, <1>a, <1>b, <2>1, <2>2, <2>3 DEF ConfirmInv
<1>11. CASE ap' = ap /\ down' = down
  <2>1. TypeOK'
    BY <1>4, <1>a, <1>b, <1>f, <1>11 DEF TypeOK, StaType, ApType, DriverType, LogType
  <2>2. QueuesOK' /\ NoM1' = NoM1
    BY <1>3, <1>a, <1>d, <1>11 DEF QueuesOK, NoM1
  <2>3. FramesInv' /\ IdleInv'
    BY <1>8, <1>a, <1>b, <1>d, <1>11 DEF FramesInv, IdleInv
  <2>4. KeysInv'
    BY <1>6, <1>7, <1>a, <1>b, <1>11, <2>2 DEF KeysInv
  <2>5. AgreeInv'
    BY <1>a, <1>b, <1>d, <1>11, <2>2 DEF AgreeInv
  <2> QED
    BY <1>9, <1>10, <2>1, <2>2, <2>3, <2>4, <2>5 DEF IInv
<1>12. CASE arrives /\ GoodM2(ap, m)
  <2> DEFINE A == [ap EXCEPT !.ptk = m.key]
             f == ApSends(A, "M3")
  <2>a. /\ m.type = "M2" /\ ap.phase = "M1" /\ m.key[2] = ap.anonce
    BY <1>12 DEF GoodM2, Answers
  <2>b. ap' = Begun(A, "M3") /\ down' = Append(down, f)
    <3>1. ~Answers(ap, m, "M4") /\ ~Answers(ap, m, "G2")
      BY <2>a DEF Answers
    <3>2. arrives = TRUE /\ GoodM2(ap, m) = TRUE
      BY <1>12 DEF GoodM2, Answers
    <3>3. ap' = ApAfter(ap, m) /\ down' = Append(down, f)
      BY <1>c, <3>2
    <3>4. ApAfter(ap, m) = Begun(A, "M3")
      BY <3>1, <3>2 DEF ApAfter
    <3> QED
      BY <3>3, <3>4
  <2>1. /\ A \in ApType /\ A.ptk = m.key /\ A.anonce = ap.anonce /\ A.rc = ap.rc
        /\ A.gtk = ap.gtk /\ A.honest = ap.honest
    BY <1>e, <1>f DEF ApType
  <2>2. /\ f \in FrameType /\ f.type = "M3" /\ f.rc = ap.rc + 1 /\ f.anonce = ap.anonce
        /\ f.gtk = ap.gtk /\ f.honest = ap.honest /\ f.key = m.key
    <3> HIDE DEF A
    <3>1. /\ A.rc \in Nat /\ A.anonce \in 0 .. MaxNonce /\ A.ptk \in Key \cup {NoKey}
          /\ A.gtk \in 0 .. MaxGtk /\ A.honest \in BOOLEAN
      BY <2>1, Numbers DEF ApType
    <3> QED
      BY <2>1, <3>1, Sent
  <2>3. ap' = [A EXCEPT !.phase = "M3", !.first = ap.rc + 1, !.rc = ap.rc + 1, !.tries = 1]
    BY <2>1, <2>b DEF Begun
  <2> HIDE DEF A, f
  <2>4. /\ ap'.phase = "M3" /\ ap'.anonce = ap.anonce /\ ap'.rc = ap.rc + 1
        /\ ap'.first = ap.rc + 1 /\ ap'.honest = ap.honest /\ ap'.ptk = m.key
        /\ ap'.gtk = ap.gtk
    BY <2>1, <2>3 DEF ApType
  <2>5. TypeOK'
    <3>1. ap' \in ApType
      <4>1. ap.rc + 1 \in Nat /\ 1 \in 0 .. MaxTries
        BY <1>f, Numbers
      <4> QED
        BY <2>1, <2>3, <4>1 DEF ApType
    <3> QED
      BY <1>4, <1>a, <1>b, <1>f, <3>1 DEF TypeOK, StaType, ApType, DriverType, LogType
  <2>6. \A g \in In(down) : g.type \in {"M1", "DEAUTH"}
    BY <1>a, <2>a DEF FramesInv
  <2>7. down' \in Seq(FrameType) /\ In(down') = In(down) \cup {f} /\ Ordered(down)'
    <3>1. down \in Seq(FrameType) /\ Ordered(down)
      BY <1>a DEF QueuesOK, FramesInv
    <3> QED
      BY <2>2, <2>6, <2>b, <3>1, Push, OrderedPush
  <2>8. QueuesOK' /\ NoM1' = NoM1
    BY <1>3, <1>d, <2>2, <2>7 DEF QueuesOK, NoM1
  <2>i. IdleInv'
    BY <2>4 DEF IdleInv
  <2>9. FramesInv'
    <3>1. \A g \in In(down') : g.type # "DEAUTH" =>
             g.anonce = ap.anonce /\ g.rc \in 1 .. ap.rc + 1
      BY <1>a, <1>f, <2>2, <2>7 DEF FramesInv
    <3>2. ap.rc + 1 \in 1 .. ap.rc + 1 /\ ap.anonce # 0
      BY <1>a, <1>f, <2>a DEF FramesInv
    <3>3. \A x \in In(up') : x.rc <= ap.rc + 1
      <4>1. \A x \in In(up) : x.rc \in Nat /\ x.rc <= ap.rc
        <5>1. \A x \in In(up) : x \in ReplyType
          BY <1>a DEF QueuesOK, In
        <5> QED
          BY <1>a, <5>1 DEF FramesInv, ReplyType
      <4> QED
        BY <1>d, <1>f, <4>1
    <3> QED
      BY <1>e, <2>2, <2>4, <2>6, <2>7, <2>a, <3>1, <3>2, <3>3 DEF FramesInv
  <2>10. KeysInv'
    BY <1>6, <1>7, <1>a, <1>b, <2>4, <2>8, <2>a DEF KeysInv
  <2>11. AgreeInv'
    <3>1. sta.ptk # NoKey => sta.gtk = ap.gtk
      BY <1>a, <2>a DEF AgreeInv
    <3> QED
      BY <1>b, <2>4, <3>1 DEF AgreeInv
  <2> QED
    BY <1>9, <1>10, <2>5, <2>8, <2>i, <2>9, <2>10, <2>11 DEF IInv
<1>13. CASE arrives /\ Answers(ap, m, "M4") /\ m.key = ap.ptk
  <2>a. m.type = "M4" /\ ap.phase = "M3" /\ ~GoodM2(ap, m)
    BY <1>13 DEF GoodM2, Answers
  <2>b. ap' = [ap EXCEPT !.phase = "done", !.tk = ap.ptk] /\ down' = down
    BY <1>13, <1>c, <2>a DEF ApAfter, Answers
  <2>1. /\ ap'.phase = "done" /\ ap'.anonce = ap.anonce /\ ap'.rc = ap.rc
        /\ ap'.first = ap.first /\ ap'.honest = ap.honest /\ ap'.ptk = ap.ptk
        /\ ap'.tk = ap.ptk /\ ap'.gtk = ap.gtk
    BY <1>f, <2>b DEF ApType
  <2>2. ap' \in ApType
    BY <1>f, <2>b DEF ApType
  <2>3. TypeOK'
    BY <1>4, <1>a, <1>b, <1>f, <2>2 DEF TypeOK, StaType, ApType, DriverType, LogType
  <2>4. QueuesOK' /\ NoM1' = NoM1
    BY <1>3, <1>a, <1>d, <2>b DEF QueuesOK, NoM1
  <2>5. FramesInv' /\ IdleInv'
    BY <1>a, <1>b, <1>d, <2>1, <2>a, <2>b DEF FramesInv, IdleInv
  <2>6. KeysInv'
    BY <1>6, <1>7, <1>a, <1>b, <2>1, <2>4 DEF KeysInv
  <2>7. AgreeInv'
    <3>1. sta.ptk = ap.ptk
      BY <1>13, <1>a, <1>d, <2>a DEF ConfirmInv
    <3>2. NoM1 /\ sta.tptk = NoKey
      BY <1>6, <1>a, <2>a DEF KeysInv
    <3>3. sta.gtk = ap.gtk
      <4>1. sta.ptk # NoKey
        BY <1>13, <1>e, <3>1, KeyFacts
      <4> QED
        BY <1>a, <2>a, <4>1 DEF AgreeInv
    <3>4. \A g \in In(down) : g.type # "G1" /\ (g.type = "M3" => g.gtk = ap.gtk)
      BY <1>a, <2>a DEF FramesInv
    <3> QED
      BY <1>b, <2>1, <2>4, <2>b, <3>1, <3>2, <3>3, <3>4 DEF AgreeInv
  <2> QED
    BY <1>9, <1>10, <2>3, <2>4, <2>5, <2>6, <2>7 DEF IInv
<1>14. CASE arrives /\ Answers(ap, m, "G2") /\ m.key = ap.ptk
  <2>a. m.type = "G2" /\ ap.phase = "G1" /\ m.rc >= ap.first /\ ~GoodM2(ap, m)
    BY <1>14, <1>e, <1>f DEF GoodM2, Answers
  <2>b. ap' = [ap EXCEPT !.phase = "done"] /\ down' = down
    BY <1>14, <1>c, <2>a DEF ApAfter, Answers
  <2>1. /\ ap'.phase = "done" /\ ap'.anonce = ap.anonce /\ ap'.rc = ap.rc
        /\ ap'.first = ap.first /\ ap'.honest = ap.honest /\ ap'.ptk = ap.ptk
        /\ ap'.tk = ap.tk /\ ap'.gtk = ap.gtk
    BY <1>f, <2>b DEF ApType
  <2>2. ap' \in ApType
    BY <1>f, <2>b DEF ApType
  <2>3. TypeOK'
    BY <1>4, <1>a, <1>b, <1>f, <2>2 DEF TypeOK, StaType, ApType, DriverType, LogType
  <2>4. QueuesOK' /\ NoM1' = NoM1
    BY <1>3, <1>a, <1>d, <2>b DEF QueuesOK, NoM1
  <2>5. FramesInv' /\ IdleInv'
    BY <1>a, <1>b, <1>d, <2>1, <2>a, <2>b DEF FramesInv, IdleInv
  <2>6. KeysInv'
    BY <1>6, <1>7, <1>a, <1>b, <2>1, <2>4 DEF KeysInv
  <2>7. AgreeInv'
    <3>1. /\ sta.gtk = ap.gtk /\ sta.replay >= ap.first /\ ap.first \in 1 .. ap.rc
          /\ \A g \in In(down) : g.type # "M3"
      BY <1>a, <1>d, <2>a DEF AgreeInv, FramesInv
    <3>2. \A g \in In(down) : g.type = "G1" /\ Fresh(sta, g) => g.gtk = ap.gtk
      <4>1. \A g \in In(down) : g.rc \in Nat
        <5>1. \A g \in In(down) : g \in FrameType
          BY <1>a DEF QueuesOK, In
        <5> QED
          BY <5>1 DEF FrameType
      <4>2. \A g \in In(down) : Fresh(sta, g) => g.rc >= ap.first
        BY <1>f, <3>1, <4>1 DEF Fresh
      <4> QED
        BY <1>a, <2>a, <4>2 DEF AgreeInv
    <3> QED
      BY <1>a, <1>b, <2>1, <2>4, <2>a, <2>b, <3>1, <3>2 DEF AgreeInv, Fresh
  <2> QED
    BY <1>9, <1>10, <2>3, <2>4, <2>5, <2>6, <2>7 DEF IInv
<1> QED
  <2>1. \/ ap' = ap /\ down' = down
        \/ arrives /\ GoodM2(ap, m)
        \/ arrives /\ Answers(ap, m, "M4") /\ m.key = ap.ptk
        \/ arrives /\ Answers(ap, m, "G2") /\ m.key = ap.ptk
    BY <1>c DEF ApAfter
  <2> QED
    BY <1>11, <1>12, <1>13, <1>14, <2>1

LEMMA StutterStep == ASSUME IInv, UNCHANGED vars PROVE IInv'
<1>1. UNCHANGED <<sta, driver, ap, down, up, reports, acked, over, trouble>>
  BY DEF vars, air
<1>2. /\ TypeOK' = TypeOK /\ QueuesOK' = QueuesOK /\ NoM1' = NoM1 /\ NoM4' = NoM4
      /\ Used' = Used /\ Logged' = Logged
  BY <1>1 DEF TypeOK, QueuesOK, NoM1, NoM4, Used, Logged
<1>3. /\ FramesInv' = FramesInv /\ IdleInv' = IdleInv /\ KeysInv' = KeysInv
      /\ StateInv' = StateInv
  BY <1>1, <1>2 DEF FramesInv, IdleInv, KeysInv, StateInv
<1>4. ConfirmInv' = ConfirmInv /\ AgreeInv' = AgreeInv
  BY <1>1, <1>2 DEF ConfirmInv, AgreeInv, Fresh
<1> QED
  BY <1>2, <1>3, <1>4 DEF IInv
-----------------------------------------------------------------------------
(* The theorems. *)

(* The invariant holds in every reachable state of wpa2_client.c, the access  *)
(* point and the air between them.                                            *)
THEOREM Invariance == Spec => []IInv
<1>1. Init => IInv
  BY InitHolds
<1>2. IInv /\ [Next]_vars => IInv'
  <2> SUFFICES ASSUME IInv, [Next]_vars PROVE IInv'
    OBVIOUS
  <2>1. CASE Join
    BY <2>1, JoinStep
  <2>2. CASE Associate
    BY <2>2, AssociateStep
  <2>3. CASE RxRefused
    BY <2>3, RxRefusedStep
  <2>4. CASE RxM1
    BY <2>4, RxM1Step
  <2>5. CASE RxM3
    BY <2>5, RxM3Step
  <2>6. CASE RxG1
    BY <2>6, RxG1Step
  <2>7. CASE Disconnected
    BY <2>7, DisconnectedStep
  <2>8. CASE TxReport
    BY <2>8, TxReportStep
  <2>9. CASE Transmit
    BY <2>9, TransmitStep
  <2>10. CASE Lose
    BY <2>10, LoseStep
  <2>11. CASE ApTimeout
    BY <2>11, ApTimeoutStep
  <2>12. CASE ApRekeys
    BY <2>12, ApRekeysStep
  <2>13. CASE ApRekeysGroup
    BY <2>13, ApRekeysGroupStep
  <2>14. CASE LinkLost
    BY <2>14, LinkLostStep
  <2>15. CASE UNCHANGED vars
    BY <2>15, StutterStep
  <2> QED
    BY <2>1, <2>2, <2>3, <2>4, <2>5, <2>6, <2>7, <2>8, <2>9, <2>10, <2>11, <2>12, <2>13,
       <2>14, <2>15 DEF Next
<1> QED
  BY <1>1, <1>2, PTL DEF Spec

(* The static variables of wpa2_client.c keep their types, and an installation *)
(* is pending only for a key that exists.                                     *)
THEOREM TypeCorrect == Spec => []TypeOK
<1>1. IInv => TypeOK
  BY DEF IInv
<1> QED
  BY <1>1, Invariance, PTL

(* wpa2_install_ptk never sets a pairwise key again, however often M1, M3 and *)
(* the reports of M4 are repeated, lost or late, and whatever the driver      *)
(* refused before, except after a join over the association.                  *)
THEOREM NoReinstallation == Spec => []NoKeyReinstalled
<1>1. IInv => NoKeyReinstalled
  <2> SUFFICES ASSUME IInv PROVE NoKeyReinstalled
    OBVIOUS
  <2>1. driver.log \in Seq(LogType) /\ KeysInv
    BY Fields DEF IInv
  <2>2. DOMAIN driver.log = 1 .. Len(driver.log)
    BY <2>1, LenProperties
  <2> QED
    BY <2>1, <2>2 DEF NoKeyReinstalled, KeysInv
<1> QED
  BY <1>1, Invariance, PTL

(* The key that the driver uses is one whose M4 has reached the access point: *)
(* m4_pending and install_pending let no report count but those of M4s, and   *)
(* of M4s for another key only those of an earlier handshake.                 *)
THEOREM ConfirmedKeys == Spec => []KeysFollowM4
<1>1. IInv => KeysFollowM4
  BY DEF IInv, ConfirmInv, KeysFollowM4
<1> QED
  BY <1>1, Invariance, PTL

(* In state AUTHENTICATED, with nothing under way and the access point        *)
(* content, both sides use the same pairwise and group keys, but for keys     *)
(* refused by the driver or set on an earlier handshake's report.             *)
THEOREM Agreement == Spec => []AuthenticatedMeansAgreed
<1>1. IInv => AuthenticatedMeansAgreed
  BY DEF IInv, StateInv, AgreeInv, AuthenticatedMeansAgreed
<1> QED
  BY <1>1, Invariance, PTL
-----------------------------------------------------------------------------
(* The counting argument for TroubleIsTolerated.                              *)

Sorted(q) ==
  \A i, j \in 1 .. Len(q) :
    i < j /\ q[i].type # "DEAUTH" /\ q[j].type # "DEAUTH" => q[i].rc < q[j].rc

Beyond(q, n) == \A f \in In(q) : f.type # "DEAUTH" => n < f.rc

(* Frames reach the station in the order of their replay counters, all of     *)
(* them ahead of its own.                                                     *)
CounterInv ==
  /\ Beyond(down, sta.replay) /\ Sorted(down)
  /\ ap.phase # "idle" => sta.replay <= ap.rc

(* What is under way in an exchange is accepted when it arrives: the two      *)
(* sides mean the same keys, and the access point counts the answer.          *)
PathInv ==
  /\ ap.phase # "idle" => sta.state \notin {"DISCONNECTED", "FAILED"}
  /\ sta.tptk # NoKey => sta.snonce_valid /\ sta.tptk = <<sta.right, sta.anonce, sta.snonce>>
  /\ sta.state \in {"M1_RECEIVED", "M2_SENT"} => sta.tptk # NoKey
  /\ ap.phase = "M1" =>
       /\ \A f \in In(down) : f.type = "M1" => f.rc >= ap.first
       /\ \A m \in In(up) : m.type = "M2" => m.key = sta.tptk /\ m.key[2] = ap.anonce /\ m.rc >= ap.first
  /\ ap.phase = "M3" =>
       /\ sta.anonce = ap.anonce /\ (sta.ptk = ap.ptk \/ sta.tptk = ap.ptk)
       /\ \A f \in In(down) : f.type = "M3" => f.rc >= ap.first
       /\ \A m \in In(up) : m.type = "M4" => m.rc >= ap.first
  /\ ap.phase \in {"M1", "M3"} => \A m \in In(up) : m.type # "G2"
  /\ ap.phase \in {"M3", "G1", "done"} =>
       \A f \in In(down) : f.type \in {"M3", "G1"} => f.key = ap.ptk
  /\ ap.phase \in {"G1", "done"} => \A m \in In(up) : m.type = "G2" => m.key = ap.ptk

Answer(phase) == CASE phase = "M1" -> "M2" [] phase = "M3" -> "M4" [] OTHER -> "G2"

(* The current message, or an answer to it, is still under way.               *)
Alive ==
  \/ \E f \in In(down) : f.type = ap.phase /\ f.rc >= ap.first
  \/ \E m \in In(up) : m.type = Answer(ap.phase) /\ m.rc >= ap.first

(* Something of the four-way handshake is, from which the station may still   *)
(* learn that its M4 has arrived.                                             *)
M3Left ==
  \/ \E f \in In(down) : f.type = "M3"
  \/ \E m \in In(up) : m.type = "M4"
  \/ \E r \in In(reports) : r.type = "M4"

Spent == MaxTrouble - trouble

(* Every transmission but one that is alive has cost a trouble.               *)
Counted == ap.tries <= Spent + 1 /\ (ap.tries <= Spent \/ Alive)

(* Only a station that waits for the report of its M4 does not answer a group *)
(* message, and by the time that has cost no trouble no report is to come.    *)
CountInv ==
  sta.right =>
    /\ ap.phase \in {"M1", "M3"} \/ (ap.phase = "G1" /\ sta.state = "AUTHENTICATED") => Counted
    /\ ap.phase = "G1" /\ M3Left => ap.tries <= Spent
    /\ ap.phase = "gone" =>
         ap.tk = ap.ptk /\ sta.state \in {"M3_RECEIVED", "M4_SENT"} /\ ~M3Left /\ NoM1

(* None of it holds after a join over the association.                        *)
Count == ~over /\ CounterInv /\ PathInv /\ CountInv

LEMMA SortedPop ==
  ASSUME NEW q \in Seq(FrameType), q # <<>>, Sorted(q)
  PROVE  /\ Sorted(Tail(q))
         /\ Head(q).type # "DEAUTH" => Beyond(Tail(q), Head(q).rc)
<1> DEFINE n == Len(q)
<1>1. /\ n \in Nat \ {0} /\ Len(Tail(q)) = n - 1 /\ Head(q) = q[1]
      /\ \A i \in 1 .. n - 1 : Tail(q)[i] = q[i + 1]
  BY Pop
<1>2. \A i, j \in 1 .. n :
        i < j /\ q[i].type # "DEAUTH" /\ q[j].type # "DEAUTH" => q[i].rc < q[j].rc
  BY DEF Sorted
<1> HIDE DEF n
<1>3. Sorted(Tail(q))
  <2> SUFFICES ASSUME NEW i \in 1 .. n - 1, NEW j \in 1 .. n - 1, i < j,
                      Tail(q)[i].type # "DEAUTH", Tail(q)[j].type # "DEAUTH"
               PROVE  Tail(q)[i].rc < Tail(q)[j].rc
    BY <1>1 DEF Sorted
  <2>1. i + 1 \in 1 .. n /\ j + 1 \in 1 .. n /\ i + 1 < j + 1
    BY <1>1
  <2> QED
    BY <1>1, <1>2, <2>1
<1>4. \A f \in In(Tail(q)) : \E j \in 1 .. n : 1 < j /\ f = q[j]
  BY <1>1 DEF In
<1>5. 1 \in 1 .. n
  BY <1>1
<1> QED
  BY <1>1, <1>2, <1>3, <1>4, <1>5 DEF Beyond

LEMMA SortedPush ==
  ASSUME NEW q \in Seq(FrameType), Sorted(q), NEW x \in FrameType,
         x.type = "DEAUTH" \/ \A f \in In(q) : f.type # "DEAUTH" => f.rc < x.rc
  PROVE  Sorted(Append(q, x))
<1> DEFINE n == Len(q)
           a == Append(q, x)
<1>1. n \in Nat /\ Len(a) = n + 1 /\ a[n + 1] = x /\ \A i \in 1 .. n : a[i] = q[i]
  BY Push
<1>2. \A i \in 1 .. n : q[i] \in In(q)
  BY DEF In
<1>3. \A i, j \in 1 .. n :
        i < j /\ q[i].type # "DEAUTH" /\ q[j].type # "DEAUTH" => q[i].rc < q[j].rc
  BY DEF Sorted
<1> HIDE DEF n, a
<1> SUFFICES ASSUME NEW i \in 1 .. n + 1, NEW j \in 1 .. n + 1, i < j,
                    a[i].type # "DEAUTH", a[j].type # "DEAUTH"
             PROVE  a[i].rc < a[j].rc
  BY <1>1 DEF Sorted, a
<1>4. i \in 1 .. n /\ (j \in 1 .. n \/ j = n + 1)
  BY <1>1
<1> QED
  BY <1>1, <1>2, <1>3, <1>4

(* The frame at the head is taken, and its counter may be kept.               *)
LEMMA CounterPop ==
  ASSUME IInv, CounterInv, down # <<>>, down' = Tail(down), ap' = ap,
         \/ sta'.replay = sta.replay
         \/ Head(down).type # "DEAUTH" /\ sta'.replay = Head(down).rc
  PROVE  CounterInv'
<1>1. down \in Seq(FrameType) /\ TypeOK
  BY DEF IInv, QueuesOK
<1>2. Sorted(down') /\ (Head(down).type # "DEAUTH" => Beyond(down', Head(down).rc))
  BY <1>1, SortedPop DEF CounterInv
<1>3. In(down') \subseteq In(down)
  BY <1>1, Pop
<1>4. CASE sta'.replay = sta.replay
  BY <1>2, <1>3, <1>4 DEF CounterInv, Beyond, Sorted
<1>5. CASE Head(down).type # "DEAUTH" /\ sta'.replay = Head(down).rc
  <2>1. Head(down).rc <= ap.rc
    BY <1>5, HeadFacts
  <2> QED
    BY <1>2, <1>5, <2>1 DEF CounterInv, Beyond, Sorted
<1> QED
  BY <1>4, <1>5

(* A frame is sent behind the others.                                         *)
LEMMA CounterPush ==
  ASSUME IInv, CounterInv, ap.phase # "idle", NEW f \in FrameType,
         f.type = "DEAUTH" \/ f.rc > ap.rc, down' = Append(down, f), sta' = sta,
         ap'.rc \in Nat, ap'.rc >= ap.rc
  PROVE  CounterInv'
<1>1. down \in Seq(FrameType) /\ ap.rc \in Nat /\ sta.replay \in Nat /\ f.rc \in Nat
  BY Fields DEF IInv, QueuesOK, FrameType
<1>2. \A g \in In(down) : g.type # "DEAUTH" => g.rc \in 1 .. ap.rc
  BY DEF IInv, FramesInv
<1>3. f.type = "DEAUTH" \/ \A g \in In(down) : g.type # "DEAUTH" => g.rc < f.rc
  BY <1>1, <1>2
<1>4. Sorted(down')
  BY <1>1, <1>3, SortedPush DEF CounterInv
<1>5. In(down') = In(down) \cup {f}
  BY <1>1, Push
<1>6. f.type = "DEAUTH" \/ sta.replay < f.rc
  BY <1>1 DEF CounterInv
<1>7. Beyond(down', sta.replay)
  BY <1>5, <1>6 DEF CounterInv, Beyond
<1>8. sta.replay <= ap'.rc
  BY <1>1 DEF CounterInv
<1> QED
  BY <1>4, <1>7, <1>8 DEF CounterInv, Beyond, Sorted

(* A single frame.                                                            *)
LEMMA SingleFacts ==
  ASSUME NEW x \in FrameType
  PROVE  Sorted(<<x>>) /\ In(<<x>>) = {x} /\ \A n : (x.type = "DEAUTH" \/ n < x.rc) => Beyond(<<x>>, n)
<1>1. In(<<x>>) = {x}
  BY Single
<1>2. 1 .. Len(<<x>>) = {1}
  OBVIOUS
<1> QED
  BY <1>1, <1>2 DEF Sorted, Beyond

LEMMA Minus ==
  \A m, t, u \in Nat : t <= m /\ u <= t =>
    m - t \in Nat /\ m - u \in Nat /\ m - u >= m - t /\ (u < t => m - u >= m - t + 1)
  OBVIOUS

LEMMA SpentFacts ==
  ASSUME TypeOK
  PROVE  /\ trouble \in Nat /\ trouble <= MaxTrouble /\ MaxTrouble \in Nat /\ MaxTries \in Nat
         /\ Spent \in Nat /\ ap.tries \in Nat /\ ap.tries <= MaxTries
<1>1. trouble \in 0 .. MaxTrouble /\ ap.tries \in 0 .. MaxTries
  BY Fields
<1> QED
  BY <1>1, Numbers DEF Spent

LEMMA PopSplit ==
  ASSUME NEW S, NEW q \in Seq(S), q # <<>>
  PROVE  In(q) \subseteq {Head(q)} \cup In(Tail(q))
<1>1. /\ Len(q) \in Nat \ {0} /\ Len(Tail(q)) = Len(q) - 1 /\ Head(q) = q[1]
      /\ \A i \in 1 .. Len(Tail(q)) : Tail(q)[i] = q[i + 1]
  BY Pop
<1> SUFFICES ASSUME NEW i \in 1 .. Len(q), i # 1 PROVE q[i] \in In(Tail(q))
  BY <1>1 DEF In
<1>2. i - 1 \in 1 .. Len(Tail(q)) /\ Tail(q)[i - 1] = q[i]
  BY <1>1
<1> QED
  BY <1>2 DEF In

(* Without an exchange nothing is to be counted.                              *)
LEMMA IdlePath ==
  ASSUME ap'.phase = "idle", sta'.tptk = NoKey, sta'.state \notin {"M1_RECEIVED", "M2_SENT"}
  PROVE  PathInv' /\ CountInv'
  BY DEF PathInv, CountInv

LEMMA InitCounts == Init => Count
<1> SUFFICES ASSUME Init PROVE Count
  OBVIOUS
<1>1. In(down) = {} /\ Len(down) = 0
  BY Empty, EmptySeq DEF Init
<1>2. CounterInv
  BY <1>1 DEF Init, CounterInv, Sorted, Beyond
<1>3. PathInv /\ CountInv
  BY DEF Init, PathInv, CountInv
<1>4. ~over
  BY DEF Init
<1> QED
  BY <1>2, <1>3, <1>4 DEF Count

LEMMA StutterCount == ASSUME Count, UNCHANGED vars PROVE Count'
<1>1. UNCHANGED <<sta, driver, ap, down, up, reports, acked, over, trouble>>
  BY DEF vars, air
<1>2. CounterInv' = CounterInv /\ PathInv' = PathInv
  BY <1>1 DEF CounterInv, Sorted, Beyond, PathInv
<1>3. Alive' = Alive /\ M3Left' = M3Left /\ Spent' = Spent /\ NoM1' = NoM1
  BY <1>1 DEF Alive, M3Left, NoM1, Spent
<1>4. CountInv' = CountInv
  BY <1>1, <1>3 DEF CountInv, Counted
<1> QED
  BY <1>1, <1>2, <1>4 DEF Count

LEMMA JoinCount == ASSUME IInv, IInv', Count, Join, ~over' PROVE Count'
<1>1. /\ ap.phase = "idle" /\ down = <<>> /\ TypeOK /\ IdleInv
      /\ UNCHANGED <<driver, ap, down, up, reports, acked, over, trouble>>
  BY DEF Join, air, IInv
<1>2. PICK right \in BOOLEAN :
        sta' = [sta EXCEPT !.right = right, !.last_fail = "NONE", !.state = "CONNECTING"]
  BY DEF Join
<1>3. sta'.replay = sta.replay /\ sta'.tptk = sta.tptk /\ sta'.state = "CONNECTING"
  BY <1>1, <1>2, Fields
<1>4. sta'.tptk = NoKey
  BY <1>1, <1>3 DEF IdleInv
<1>5. CounterInv'
  BY <1>1, <1>3 DEF Count, CounterInv, Sorted, Beyond
<1> QED
  BY <1>1, <1>3, <1>4, <1>5, IdlePath DEF Count

LEMMA LinkLostCount == ASSUME IInv, IInv', Count, LinkLost PROVE Count'
<1>1. /\ ap' = [ap EXCEPT !.phase = "idle"] /\ down' = <<Deauth>> /\ up' = <<>> 
      /\ sta' = sta /\ over' = over /\ TypeOK
  BY DEF LinkLost, IInv
<1>2. ap'.phase = "idle"
  BY <1>1, Fields
<1>3. CounterInv'
  BY <1>1, <1>2, SingleFacts, DeauthFacts DEF CounterInv
<1>4. PathInv' /\ CountInv'
  BY <1>1, <1>2 DEF Count, PathInv, CountInv
<1> QED
  BY <1>1, <1>3, <1>4 DEF Count

LEMMA DisconnectedCount == ASSUME IInv, IInv', Disconnected PROVE Count'
<1>1. /\ sta' = [ResetSession(sta) EXCEPT !.state = "DISCONNECTED",
               !.last_fail = IF sta.state = "M2_SENT" THEN "NO_M3" ELSE @]
      /\ ap' = [ap EXCEPT !.phase = "idle", !.tk = NoKey] /\ down' = <<>>
      /\ over' = FALSE /\ TypeOK
  BY DEF Disconnected, IInv
<1>2. ap'.phase = "idle"
  BY <1>1, Fields
<1>3. sta'.tptk = NoKey /\ sta'.state = "DISCONNECTED"
  BY <1>1, Reset DEF StaType
<1>4. CounterInv'
  <2>1. In(down') = {} /\ Len(down') = 0
    BY <1>1, Empty, EmptySeq
  <2> QED
    BY <1>2, <2>1 DEF CounterInv, Sorted, Beyond
<1> QED
  BY <1>1, <1>2, <1>3, <1>4, IdlePath DEF Count

(* An exchange that begins: its first frame is alive, and the only one sent.  *)
LEMMA BegunCounts ==
  ASSUME TypeOK', ap'.phase \in {"M1", "M3", "G1"}, ap'.tries = 1,
         NEW f \in In(down'), f.type = ap'.phase, f.rc = ap'.first, f.rc \in Nat,
         ap'.phase = "G1" => ~M3Left' \/ Spent' >= 1
  PROVE  CountInv'
<1>1. Spent' \in Nat
  <2>1. trouble' \in Nat /\ trouble' <= MaxTrouble /\ trouble' <= trouble'
    BY Numbers DEF TypeOK
  <2> QED
    BY <2>1, Numbers, Minus DEF Spent
<1>2. Alive'
  BY DEF Alive
<1>3. Counted'
  <2>1. \A n \in Nat : 1 <= n + 1
    OBVIOUS
  <2>2. 1 <= Spent' + 1
    BY ONLY <1>1, <2>1
  <2> QED
    BY <1>2, <2>2 DEF Counted
<1> QED
  BY <1>1, <1>3 DEF CountInv

LEMMA AssociateCount == ASSUME IInv, IInv', Count, Associate PROVE Count'
<1>a. TypeOK /\ TypeOK' /\ QueuesOK /\ IdleInv
  BY DEF IInv
<1>b. /\ ap.phase = "idle" /\ down = <<>> /\ ap.anonce < MaxNonce
      /\ sta' = [ResetSession(sta) EXCEPT !.state = "CONNECTING"]
      /\ UNCHANGED <<driver, up, reports, acked, over, trouble>>
  BY DEF Associate
<1> DEFINE A(h) == [ap EXCEPT !.anonce = @ + 1, !.rc = 0, !.honest = h, !.ptk = NoKey]
<1>c. PICK h \in BOOLEAN : ap' = Begun(A(h), "M1") /\ down' = <<ApSends(A(h), "M1")>>
  BY DEF Associate
<1> DEFINE f == ApSends(A(h), "M1")
<1>e. ap.anonce \in Nat /\ ap \in ApType
  BY <1>a, Fields, Types
<1>0. ap.anonce + 1 \in 0 .. MaxNonce /\ ap \in ApType
  BY <1>b, <1>e, Numbers
<1>1. /\ A(h).rc = 0 /\ A(h).anonce = ap.anonce + 1 /\ A(h).anonce \in 0 .. MaxNonce
      /\ A(h).ptk \in Key \cup {NoKey} /\ A(h).gtk \in 0 .. MaxGtk /\ A(h).honest \in BOOLEAN
  BY <1>0, Numbers DEF ApType
<1>2. f \in FrameType /\ f.type = "M1" /\ f.rc = 1
  <2> HIDE DEF A
  <2>1. A(h).rc \in Nat
    BY <1>1
  <2> QED
    BY <1>1, <2>1, Sent
<1>3. ap'.phase = "M1" /\ ap'.first = 1 /\ ap'.rc = 1 /\ ap'.tries = 1
  BY <1>a, <1>c, Fields DEF Begun
<1>4. sta'.state = "CONNECTING" /\ sta'.tptk = NoKey /\ sta'.replay = 0
  BY <1>a, <1>b, Reset DEF StaType
<1>5. down' = <<f>>
  BY <1>c
<1> HIDE DEF f, A
<1>6. In(down') = {f} /\ In(up') = {}
  BY <1>2, <1>5, <1>a, <1>b, Single, Empty DEF IdleInv
<1>7. CounterInv'
  BY <1>2, <1>3, <1>4, <1>5, SingleFacts DEF CounterInv
<1>8. PathInv'
  BY <1>2, <1>3, <1>4, <1>6 DEF PathInv
<1>9. CountInv'
  BY <1>2, <1>3, <1>6, <1>a, BegunCounts
<1> QED
  BY <1>b, <1>7, <1>8, <1>9 DEF Count

(* A frame is taken from the queue, and the station's keys stay.              *)
LEMMA PathPop ==
  ASSUME IInv, PathInv, down # <<>>, down' = Tail(down), ap' = ap, up' = up,
         sta'.state = sta.state, sta'.tptk = sta.tptk, sta'.ptk = sta.ptk, sta'.anonce = sta.anonce,
         sta'.snonce = sta.snonce, sta'.snonce_valid = sta.snonce_valid, sta'.right = sta.right
  PROVE  PathInv'
<1>1. In(down') \subseteq In(down)
  BY Pop DEF IInv, QueuesOK
<1> QED
  BY <1>1 DEF PathInv

(* Either that has cost a trouble, or it was not the message that counts.     *)
LEMMA CountPop ==
  ASSUME IInv, CountInv, down # <<>>, down' = Tail(down), UNCHANGED <<ap, up, reports>>,
         sta'.state = sta.state, sta'.right = sta.right, trouble' \in Nat, trouble' <= trouble,
         \/ trouble' < trouble
         \/ ~(Head(down).type = ap.phase /\ Head(down).rc >= ap.first)
         \/ ap.phase = "G1" /\ sta.state # "AUTHENTICATED"
         \/ sta.right = FALSE
  PROVE  CountInv'
<1>1. /\ down \in Seq(FrameType) /\ TypeOK /\ trouble \in Nat /\ MaxTrouble \in Nat
      /\ ap.tries \in Nat /\ Spent \in Nat
  BY SpentFacts DEF IInv, QueuesOK
<1>2. In(down') \subseteq In(down) /\ In(down) \subseteq {Head(down)} \cup In(down')
  BY <1>1, Pop, PopSplit
<1>3. Spent' >= Spent /\ (trouble' < trouble => Spent' >= Spent + 1) /\ Spent' \in Int
  <2>1. /\ trouble \in Nat /\ trouble <= MaxTrouble /\ MaxTrouble \in Nat
        /\ trouble' \in Nat /\ trouble' <= trouble
    BY SpentFacts DEF IInv
  <2>2. /\ MaxTrouble - trouble' \in Nat /\ MaxTrouble - trouble' >= MaxTrouble - trouble
        /\ trouble' < trouble => MaxTrouble - trouble' >= MaxTrouble - trouble + 1
    BY ONLY <2>1, Minus
  <2> QED
    BY <2>2 DEF Spent
<1>4. (M3Left' => M3Left) /\ (NoM1 => NoM1')
  BY <1>2 DEF M3Left, NoM1
<1>5. ~(Head(down).type = ap.phase /\ Head(down).rc >= ap.first) => Alive' = Alive
  BY <1>2 DEF Alive
<1>6. Counted => ap'.tries <= Spent' + 1
  BY <1>1, <1>3 DEF Counted
<1>7. Counted /\ trouble' < trouble => ap'.tries <= Spent'
  BY <1>1, <1>3 DEF Counted
<1>8. ap.tries <= Spent => ap'.tries <= Spent'
  BY <1>1, <1>3
<1>9. Counted /\ (trouble' < trouble \/ ~(Head(down).type = ap.phase /\ Head(down).rc >= ap.first))
        => Counted'
  BY <1>5, <1>6, <1>7, <1>8 DEF Counted
<1> QED
  BY <1>4, <1>8, <1>9 DEF CountInv

LEMMA LoseCount == ASSUME IInv, IInv', Count, Lose PROVE Count'
<1>1. /\ down # <<>> /\ down' = Tail(down) /\ trouble > 0 /\ trouble' = trouble - 1
      /\ UNCHANGED <<sta, driver, ap, up, reports, acked, over>>
  BY DEF Lose
<1>2. trouble \in Nat
  BY SpentFacts DEF IInv
<1>3. CounterInv'
  BY <1>1, CounterPop DEF Count
<1>4. PathInv'
  BY <1>1, PathPop DEF Count, PathInv
<1>5. trouble' \in Nat /\ trouble' < trouble
  BY <1>1, <1>2
<1>6. CountInv'
  BY <1>1, <1>2, <1>5, CountPop DEF Count
<1> QED
  BY <1>1, <1>3, <1>4, <1>6 DEF Count

(* The message that counts passes the checks of wpa2_client_rx_eapol.         *)
LEMMA CurrentPasses ==
  ASSUME IInv, Count, down # <<>>, Head(down).type = ap.phase, ap.phase \in {"M1", "M3", "G1"},
         ap.phase = "G1" => sta.state = "AUTHENTICATED"
  PROVE  Passes(Head(down))
<1>1. Head(down).type # "DEAUTH"
  OBVIOUS
<1>2. Head(down) \in In(down) /\ ap.phase # "idle"
  BY <1>1, HeadFacts
<1>3. Awaits(sta)
  BY <1>2 DEF Count, PathInv, Awaits
<1>4. Fresh(sta, Head(down))
  <2>1. sta.replay < Head(down).rc
    BY <1>1, <1>2 DEF Count, CounterInv, Beyond
  <2> QED
    BY <2>1 DEF Fresh
<1>5. CASE ap.phase = "M3"
  <2>1. ap.ptk \in Key /\ NoKey \notin Key
    BY <1>5, KeyFacts DEF IInv, FramesInv
  <2>2. Head(down).key = ap.ptk
    BY <1>2, <1>5 DEF Count, PathInv
  <2>3. sta.ptk = ap.ptk \/ sta.tptk = ap.ptk
    BY <1>5 DEF Count, PathInv
  <2> QED
    BY <1>3, <1>4, <1>5, <2>1, <2>2, <2>3 DEF Passes, MicGood, FirstUse
<1>6. CASE ap.phase = "G1"
  <2>1. ap.ptk \in Key /\ NoKey \notin Key
    BY <1>6, KeyFacts DEF IInv, FramesInv
  <2>2. Head(down).key = ap.ptk
    BY <1>2, <1>6 DEF Count, PathInv
  <2>3. sta.ptk = ap.ptk
    BY <1>6 DEF IInv, AgreeInv
  <2> QED
    BY <1>3, <1>4, <1>6, <2>1, <2>2, <2>3 DEF Passes, MicGood
<1> QED
  BY <1>3, <1>4, <1>5, <1>6 DEF Passes

LEMMA RxRefusedCount == ASSUME IInv, IInv', Count, RxRefused PROVE Count'
<1>1. /\ down # <<>> /\ down' = Tail(down) /\ Head(down).type # "DEAUTH" /\ ~Passes(Head(down))
      /\ sta' = sta \/ sta' = [sta EXCEPT !.replay = Head(down).rc]
      /\ UNCHANGED <<driver, ap, up, reports, acked, over, trouble>>
  BY DEF RxRefused
<1>2. trouble \in Nat /\ TypeOK
  BY SpentFacts DEF IInv
<1>3. /\ sta'.replay = sta.replay \/ sta'.replay = Head(down).rc
      /\ sta'.tptk = sta.tptk /\ sta'.ptk = sta.ptk /\ sta'.anonce = sta.anonce
      /\ sta'.snonce = sta.snonce /\ sta'.snonce_valid = sta.snonce_valid
      /\ sta'.right = sta.right /\ sta'.state = sta.state
  BY <1>1, <1>2, Fields
<1>4. CounterInv'
  BY <1>1, <1>3, CounterPop DEF Count
<1>5. PathInv'
  BY <1>1, <1>3, PathPop DEF Count, PathInv
<1>6. Head(down).type \in {"M1", "M3", "G1"}
  BY <1>1, HeadFacts DEF FrameType
<1>7. \/ Head(down).type # ap.phase
      \/ ap.phase = "G1" /\ sta.state # "AUTHENTICATED"
  BY <1>1, <1>6, CurrentPasses
<1>8. trouble' \in Nat /\ trouble' <= trouble
  BY <1>1, <1>2
<1>9. CountInv'
  BY <1>1, <1>3, <1>7, <1>8, CountPop DEF Count
<1> QED
  BY <1>1, <1>4, <1>5, <1>9 DEF Count

(* The answer joins the others, or the refusal has cost a trouble.            *)
LEMMA AnswerFacts ==
  ASSUME IInv, NEW r \in ReplyType, NEW sent \in IF trouble = 0 THEN {TRUE} ELSE BOOLEAN,
         Sends(sent, r)
  PROVE  /\ In(up) \subseteq In(up') /\ In(up') \subseteq In(up) \cup {r}
         /\ Spent \in Nat /\ Spent' \in Nat /\ ap.tries \in Nat /\ Spent' >= Spent
         /\ r \in In(up') \/ Spent' = Spent + 1
<1>1. /\ trouble \in Nat /\ trouble <= MaxTrouble /\ MaxTrouble \in Nat /\ up \in Seq(ReplyType)
      /\ ap.tries \in Nat /\ Spent \in Nat
  BY SpentFacts DEF IInv, QueuesOK
<1>2. CASE sent = TRUE
  <2>1. up' = Append(up, r) /\ trouble' = trouble
    BY <1>2 DEF Sends
  <2>2. In(up') = In(up) \cup {r}
    BY <1>1, <2>1, Push
  <2> QED
    BY <1>1, <2>1, <2>2 DEF Spent
<1>3. CASE sent = FALSE
  <2>1. trouble # 0 /\ up' = up /\ trouble' = trouble - 1
    BY <1>3 DEF Sends
  <2> QED
    BY <1>1, <2>1 DEF Spent
<1> QED
  BY <1>2, <1>3

(* The count when the head of the queue is answered or was not the current    *)
(* message.                                                                   *)
LEMMA CountAnswered ==
  ASSUME IInv, Counted, down # <<>>, down' = Tail(down), ap' = ap,
         NEW r \in ReplyType, NEW sent \in IF trouble = 0 THEN {TRUE} ELSE BOOLEAN,
         Sends(sent, r),
         \/ Head(down).type # ap.phase \/ ~(Head(down).rc >= ap.first)
         \/ r.type = Answer(ap.phase) /\ r.rc >= ap.first
  PROVE  Counted'
<1>1. /\ In(up) \subseteq In(up') /\ In(up') \subseteq In(up) \cup {r}
      /\ Spent \in Nat /\ Spent' \in Nat /\ ap.tries \in Nat /\ Spent' >= Spent
      /\ r \in In(up') \/ Spent' = Spent + 1
  BY AnswerFacts
<1>2. In(down) \subseteq {Head(down)} \cup In(down')
  BY PopSplit DEF IInv, QueuesOK
<1>3. Spent' = Spent + 1 \/ (Alive => Alive')
  <2> SUFFICES ASSUME r \in In(up'), Alive PROVE Alive'
    BY <1>1
  <2>1. CASE \E m \in In(up) : m.type = Answer(ap.phase) /\ m.rc >= ap.first
    BY <1>1, <2>1 DEF Alive
  <2>2. CASE r.type = Answer(ap.phase) /\ r.rc >= ap.first
    BY <2>2 DEF Alive
  <2>3. CASE \E f \in In(down') : f.type = ap.phase /\ f.rc >= ap.first
    BY <2>3 DEF Alive
  <2> QED
    BY <1>2, <2>1, <2>2, <2>3 DEF Alive
<1>4. ap.tries <= Spent' + 1 /\ (Spent' = Spent + 1 => ap.tries <= Spent')
      /\ (ap.tries <= Spent => ap.tries <= Spent')
  BY <1>1 DEF Counted
<1> QED
  BY <1>3, <1>4 DEF Counted

LEMMA RxM1Count == ASSUME IInv, IInv', Count, RxM1 PROVE Count'
<1>a. TypeOK /\ QueuesOK /\ FramesInv /\ KeysInv /\ StateInv /\ ConfirmInv /\ AgreeInv
  BY DEF IInv
<1> DEFINE m == Head(down)
           k0 == sta'.tptk
           r  == Reply("M2", m.rc, k0)
<1>b. /\ down # <<>> /\ m.type = "M1" /\ down' = Tail(down)
      /\ UNCHANGED <<driver, ap, reports, acked, over>>
  BY DEF RxM1
<1>c. PICK sent \in IF trouble = 0 THEN {TRUE} ELSE BOOLEAN :
        sta' = ProcessM1(sta, m, sent) /\ Sends(sent, r)
  BY DEF RxM1
<1>d. /\ m \in In(down) /\ m.anonce = ap.anonce /\ m.rc \in Nat /\ ap.phase # "idle"
      /\ \A f \in In(Tail(down)) : f \in In(down)
  BY <1>b, HeadFacts
<1> DEFINE n == IF sta.snonce_valid THEN sta.snonce ELSE sta.snonce + 1
<1>1. /\ sta'.state \in {"M1_RECEIVED", "M2_SENT"} /\ sta'.snonce_valid = TRUE
      /\ sta'.anonce = ap.anonce /\ sta'.ptk = sta.ptk /\ sta'.replay = sta.replay
      /\ sta'.right = sta.right /\ sta'.tptk = <<sta.right, ap.anonce, n>> /\ sta'.snonce = n
  <2>1. sta \in StaType
    BY <1>a, Types
  <2> QED
    BY <1>c, <1>d, <2>1 DEF ProcessM1, StaType
<1>2. k0 \in Key /\ k0[2] = ap.anonce
  <2>1. k0 # NoKey
    <3>1. Len(<<sta.right, ap.anonce, n>>) = 3
      OBVIOUS
    <3> QED
      BY <1>1, <3>1 DEF NoKey
  <2>2. k0 \in Key \cup {NoKey}
    BY DEF IInv, TypeOK
  <2> QED
    BY <1>1, <2>1, <2>2
<1>3. r \in ReplyType /\ r.type = "M2" /\ r.rc = m.rc /\ r.key = k0
  BY <1>2, <1>d DEF Reply, ReplyType
<1> HIDE DEF m, k0, r
<1>4. In(up) \subseteq In(up') /\ In(up') \subseteq In(up) \cup {r}
  BY <1>3, <1>c, AnswerFacts
\* while an M1 is under way, no key with this nonce is in use
<1>5. /\ ~NoM1 /\ ap.phase \notin {"G1", "done"} /\ \A k \in Used : k[2] < ap.anonce
      /\ NoM4
  <2>1. ~NoM1
    BY <1>b, <1>d DEF NoM1
  <2> QED
    BY <1>a, <2>1 DEF KeysInv, AgreeInv
\* the temporary key stays when the access point repeats itself
<1>6. sta.tptk # NoKey /\ sta.anonce = ap.anonce => k0 = sta.tptk
  BY <1>1 DEF Count, PathInv, k0
<1>7. CounterInv'
  BY <1>1, <1>b, CounterPop DEF Count
<1>8. PathInv'
  <2>0. k0 # NoKey
    BY <1>2, KeyFacts
  <2>1. CASE ap.phase = "M1"
    <3>1. \A f \in In(down') : f.type = "M1" => f.rc >= ap.first
      BY <1>b, <1>d, <2>1 DEF Count, PathInv
    <3>2. m.rc >= ap.first
      BY <1>b, <1>d, <2>1 DEF Count, PathInv
    <3>3. ASSUME NEW x \in In(up), x.type = "M2"
          PROVE  x.key = k0 /\ x.key[2] = ap.anonce /\ x.rc >= ap.first
      <4>1. x.key = sta.tptk /\ x.key[2] = ap.anonce /\ x.rc >= ap.first
        BY <2>1, <3>3 DEF Count, PathInv
      <4>2. x.key \in Key
        <5>1. up \in Seq(ReplyType)
          BY <1>a DEF QueuesOK
        <5>2. x \in ReplyType
          BY <5>1 DEF In
        <5> QED
          BY <5>2 DEF ReplyType
      <4>3. sta.tptk # NoKey /\ sta.tptk[2] = sta.anonce
        BY <4>1, <4>2, <1>a, KeyFacts DEF KeysInv
      <4> QED
        BY <1>6, <4>1, <4>3
    <3>4. \A x \in In(up') : x.type # "G2"
      BY <1>3, <1>4, <2>1 DEF Count, PathInv
    <3> QED
      BY <1>1, <1>2, <1>3, <1>4, <1>b, <2>0, <2>1, <3>1, <3>2, <3>3, <3>4 DEF PathInv, k0
  <2>2. CASE ap.phase = "M3"
    <3>1. ap.ptk \in Key /\ ap.ptk[2] = ap.anonce /\ ap.ptk # NoKey
      BY <1>a, <2>2, KeyFacts DEF FramesInv
    <3>2. sta.ptk # ap.ptk
      <4>1. sta.ptk = ap.ptk => sta.ptk \in Used
        BY <3>1 DEF Used
      <4>2. ap.anonce \in Nat
        BY <1>a, Fields
      <4> QED
        BY <1>5, <3>1, <4>1, <4>2
    <3>3. sta.tptk = ap.ptk /\ sta.anonce = ap.anonce
      BY <2>2, <3>2 DEF Count, PathInv
    <3>4. k0 = ap.ptk
      BY <1>6, <3>1, <3>3
    <3>5. \A x \in In(up') : x.type # "M4" /\ x.type # "G2"
      BY <1>3, <1>4, <1>5, <2>2 DEF NoM4, Count, PathInv
    <3>6. \A f \in In(down') : f \in In(down)
      BY <1>b, <1>d
    <3>7. /\ \A f \in In(down) : f.type = "M3" => f.rc >= ap.first
          /\ \A f \in In(down) : f.type \in {"M3", "G1"} => f.key = ap.ptk
      BY <2>2 DEF Count, PathInv
    <3> QED
      BY <1>1, <1>b, <2>0, <2>2, <3>4, <3>5, <3>6, <3>7 DEF PathInv, k0
  <2>3. CASE ap.phase = "gone"
    BY <1>1, <1>b, <2>0, <2>3 DEF PathInv, k0
  <2>4. ap.phase \in {"M1", "M3", "gone"}
    BY <1>5, <1>d, <1>a, Fields
  <2> QED
    BY <2>1, <2>2, <2>3, <2>4
<1>9. CountInv'
  <2> SUFFICES ASSUME sta.right PROVE CountInv'
    BY <1>1 DEF CountInv
  <2>1. ap.phase \in {"M1", "M3"}
    <3>1. ap.phase # "gone"
      BY <1>5 DEF Count, CountInv
    <3> QED
      BY <3>1, <1>5, <1>d, <1>a, Fields
  <2>2. Counted
    BY <2>1 DEF Count, CountInv
  <2>3. ap.phase = "M1" => m.rc >= ap.first
    BY <1>b, <1>d DEF Count, PathInv
  <2>4. Counted'
    BY <1>3, <1>b, <1>c, <2>1, <2>2, <2>3, CountAnswered DEF Answer, m
  <2> QED
    BY <1>b, <2>1, <2>4 DEF CountInv
<1> QED
  BY <1>b, <1>7, <1>8, <1>9 DEF Count

LEMMA RxM3Count == ASSUME IInv, IInv', Count, RxM3 PROVE Count'
<1>a. TypeOK /\ QueuesOK /\ FramesInv /\ KeysInv /\ StateInv /\ ConfirmInv /\ AgreeInv
  BY DEF IInv
<1> DEFINE m == Head(down)
           s == Verified(sta, m)
<1>b. /\ down # <<>> /\ m.type = "M3" /\ Awaits(sta) /\ MicGood(sta, m)
      /\ UNCHANGED <<driver, reports, acked, over>>
  BY DEF RxM3, Passes
<1>c. PICK sent \in IF trouble = 0 THEN {TRUE} ELSE BOOLEAN :
        /\ sta' = ProcessM3(s, m, sent)
        /\ IF m.anonce = s.anonce /\ m.honest
           THEN /\ Sends(sent, Reply("M4", m.rc, s.ptk))
                /\ down' = Tail(down) /\ ap' = ap
           ELSE /\ sent /\ UNCHANGED <<up, trouble>>
                /\ IF sta'.state = "FAILED"
                   THEN down' = <<Deauth>> /\ ap' = [ap EXCEPT !.phase = "idle"]
                   ELSE down' = Tail(down) /\ ap' = ap
  BY DEF RxM3
<1>d. /\ m \in In(down) /\ m.anonce = ap.anonce /\ m.rc \in Nat /\ m.honest \in BOOLEAN
      /\ ap.phase # "idle" /\ \A f \in In(Tail(down)) : f \in In(down)
  BY <1>b, HeadFacts
<1>e. m.key \in Key /\ ap.phase # "M1" /\ M3Left
  BY <1>a, <1>b, <1>d DEF FramesInv, M3Left
<1>f. sta \in StaType /\ ap \in ApType /\ trouble \in Nat
  BY <1>a, Types, SpentFacts
<1>1. /\ s \in StaType /\ s.state = sta.state /\ s.anonce = sta.anonce /\ s.replay = m.rc
      /\ s.snonce = sta.snonce /\ s.snonce_valid = sta.snonce_valid /\ s.right = sta.right
      /\ s.ptk = m.key
  <2>1. s.ptk = m.key
    BY <1>b, <1>d, <1>f DEF Verified, StaType, FirstUse, MicGood
  <2> QED
    BY <2>1, <1>d, <1>f DEF Verified, StaType
\* a frame of the station's own session that is not a first use leaves no key to be confirmed
<1>h. s.anonce = ap.anonce => s.tptk = NoKey
  <2>1. CASE FirstUse(sta, m)
    BY <1>f, <2>1 DEF Verified, StaType
  <2>2. CASE ~FirstUse(sta, m)
    <3>1. s.tptk = sta.tptk /\ s.anonce = sta.anonce
      BY <1>f, <2>2 DEF Verified, StaType
    <3>2. sta.ptk = m.key /\ sta.ptk \in Used
      BY <1>b, <1>e, <2>2, KeyFacts DEF MicGood, Used
    <3>3. m.key[2] = ap.anonce
      BY <1>a, <1>b, <1>d DEF FramesInv
    <3>4. sta.tptk # NoKey => sta.ptk[2] < sta.anonce
      BY <1>a, <3>2 DEF KeysInv
    <3>5. ap.anonce \in Nat
      BY <1>a, Fields
    <3> QED
      BY <3>1, <3>2, <3>3, <3>4, <3>5
  <2> QED
    BY <2>1, <2>2
<1> HIDE DEF m
<1>2. CASE m.anonce # s.anonce
  <2>1. sta.anonce # ap.anonce
    BY <1>1, <1>2, <1>d
  <2>2. ~FirstUse(sta, m)
    <3>1. m.key[2] = ap.anonce
      BY <1>a, <1>b, <1>d DEF FramesInv
    <3> QED
      BY <2>1, <3>1, <1>a DEF FirstUse, KeysInv
  <2>3. s = [sta EXCEPT !.replay = m.rc]
    BY <1>f, <2>2 DEF Verified, StaType
  <2>4. sta' = [s EXCEPT !.last_fail = "ANONCE_MISMATCH"]
    BY <1>2, <1>c DEF ProcessM3
  <2>5. /\ sta'.state = sta.state /\ sta'.tptk = sta.tptk /\ sta'.ptk = sta.ptk
        /\ sta'.anonce = sta.anonce /\ sta'.snonce = sta.snonce
        /\ sta'.snonce_valid = sta.snonce_valid /\ sta'.right = sta.right /\ sta'.replay = m.rc
    BY <1>f, <1>d, <2>3, <2>4 DEF StaType
  <2>6. down' = Tail(down) /\ ap' = ap /\ UNCHANGED <<up, trouble>>
    BY <1>2, <1>b, <1>c, <2>5 DEF Awaits
  <2>7. CounterInv'
    BY <1>b, <2>5, <2>6, CounterPop DEF Count, m
  <2>8. PathInv'
    BY <1>b, <2>5, <2>6, PathPop DEF Count
  <2>9. ap.phase # "M3"
    BY <2>1 DEF Count, PathInv
  <2>10. trouble' \in Nat /\ trouble' <= trouble
    BY <1>f, <2>6
  <2>11. CountInv'
    BY <1>b, <2>5, <2>6, <2>9, <2>10, CountPop DEF Count, m
  <2> QED
    BY <1>b, <2>7, <2>8, <2>11 DEF Count
<1>3. CASE m.anonce = s.anonce /\ m.honest = FALSE
  <2>1. sta' = [s EXCEPT !.state = "FAILED", !.last_fail = "IE_MISMATCH"]
    BY <1>3, <1>c DEF ProcessM3
  <2>2. sta'.state = "FAILED"
    <3> HIDE DEF s
    <3> QED
      BY <1>1, <2>1 DEF StaType
  <2>3. down' = <<Deauth>> /\ ap' = [ap EXCEPT !.phase = "idle"]
    BY <1>3, <1>c, <2>2
  <2>4. ap'.phase = "idle"
    BY <1>f, <2>3 DEF ApType
  <2>5. sta'.tptk = NoKey
    <3>1. s.tptk = NoKey
      BY <1>3, <1>d, <1>h
    <3> HIDE DEF s
    <3> QED
      BY <1>1, <2>1, <3>1 DEF StaType
  <2>6. CounterInv'
    BY <2>3, <2>4, SingleFacts, DeauthFacts DEF CounterInv
  <2> QED
    BY <1>b, <2>2, <2>4, <2>5, <2>6, IdlePath DEF Count
<1>4. CASE m.anonce = s.anonce /\ m.honest = TRUE
  <2> DEFINE r == Reply("M4", m.rc, s.ptk)
  <2>1. Sends(sent, r) /\ down' = Tail(down) /\ ap' = ap
    BY <1>4, <1>c
  <2>2. r \in ReplyType /\ r.type = "M4" /\ r.rc = m.rc
    BY <1>1, <1>d, <1>e DEF Reply, ReplyType
  <2> HIDE DEF r
  <2>3. \/ /\ s.state = "AUTHENTICATED"
           /\ sta' = [s EXCEPT !.m4_pending = sent]
        \/ /\ s.state # "AUTHENTICATED"
           /\ sta' = [s EXCEPT !.gtk = m.gtk, !.install_pending = TRUE, !.m4_pending = sent,
                               !.state = IF sent THEN "M4_SENT" ELSE "M3_RECEIVED"]
    BY <1>4, <1>c DEF ProcessM3
  <2>4. /\ sta'.anonce = ap.anonce /\ sta'.ptk = m.key /\ sta'.replay = m.rc
        /\ sta'.right = sta.right
        /\ \/ sta.state = "AUTHENTICATED" /\ sta'.state = "AUTHENTICATED"
           \/ sta'.state \in {"M4_SENT", "M3_RECEIVED"}
    <3>1. s.anonce = ap.anonce
      BY <1>4, <1>d
    <3> HIDE DEF s
    <3> QED
      BY <1>1, <2>3, <3>1 DEF StaType
  <2>5. sta'.tptk = NoKey
    <3>1. s.tptk = NoKey
      BY <1>4, <1>d, <1>h
    <3> HIDE DEF s
    <3> QED
      BY <1>1, <2>3, <3>1 DEF StaType
  <2>6. /\ In(up') \subseteq In(up) \cup {r} /\ Spent \in Nat /\ Spent' \in Nat
        /\ ap.tries \in Nat /\ Spent' >= Spent
    BY <2>1, <2>2, AnswerFacts
  <2>7. CounterInv'
    BY <1>b, <2>1, <2>4, CounterPop DEF Count, m
  <2>8. ap.phase = "M3" => m.rc >= ap.first /\ m.key = ap.ptk
    BY <1>b, <1>d DEF Count, PathInv
  <2>9. PathInv'
    <3>1. \A f \in In(down') : f \in In(down)
      BY <2>1, <1>d
    <3>2. ap.phase = "M3" =>
            /\ \A x \in In(up') : x.type = "M4" => x.rc >= ap.first
            /\ \A x \in In(up') : x.type # "G2"
      BY <2>2, <2>6, <2>8 DEF Count, PathInv
    <3>3. ap.phase \in {"G1", "done"} => \A x \in In(up') : x.type = "G2" => x.key = ap.ptk
      BY <2>2, <2>6 DEF Count, PathInv
    <3>4. /\ ap.phase = "M3" => \A f \in In(down) : f.type = "M3" => f.rc >= ap.first
          /\ ap.phase \in {"M3", "G1", "done"} =>
               \A f \in In(down) : f.type \in {"M3", "G1"} => f.key = ap.ptk
      BY DEF Count, PathInv
    <3> QED
      BY <1>e, <2>1, <2>4, <2>5, <2>8, <3>1, <3>2, <3>3, <3>4 DEF PathInv
  <2>10. CountInv'
    <3> SUFFICES ASSUME sta.right PROVE CountInv'
      BY <2>4 DEF CountInv
    <3>1. ap.phase # "gone"
      BY <1>e DEF Count, CountInv
    <3>2. ap.phase = "G1" => ap.tries <= Spent'
      <4>1. ap.phase = "G1" => ap.tries <= Spent
        BY <1>e DEF Count, CountInv
      <4> QED
        BY <2>6, <4>1
    <3>3. ap.phase = "M3" \/ (ap.phase = "G1" /\ sta'.state = "AUTHENTICATED") => Counted'
      <4>1. CASE ap.phase = "M3"
        <5>1. Counted
          BY <4>1 DEF Count, CountInv
        <5> QED
          BY <4>1, <5>1, <1>b, <2>1, <2>2, <2>8, CountAnswered DEF Answer
      <4>2. CASE ap.phase = "G1" /\ sta'.state = "AUTHENTICATED"
        <5>1. Counted
          BY <4>2, <2>4 DEF Count, CountInv
        <5>2. Head(down).type # ap.phase
          BY <4>2, <1>b DEF m
        <5> QED
          BY <5>1, <5>2, <1>b, <2>1, <2>2, CountAnswered
      <4> QED
        BY <4>1, <4>2
    <3> QED
      BY <1>e, <2>1, <3>1, <3>2, <3>3 DEF CountInv
  <2> QED
    BY <1>b, <2>7, <2>9, <2>10 DEF Count
<1> QED
  BY <1>2, <1>3, <1>4, <1>d

LEMMA RxG1Count == ASSUME IInv, IInv', Count, RxG1 PROVE Count'
<1>a. TypeOK /\ QueuesOK /\ FramesInv /\ KeysInv /\ StateInv /\ ConfirmInv /\ AgreeInv
  BY DEF IInv
<1> DEFINE m == Head(down)
           s == Verified(sta, m)
<1>b. /\ down # <<>> /\ m.type = "G1" /\ MicGood(sta, m)
      /\ sta.state = "AUTHENTICATED" /\ sta' = [s EXCEPT !.gtk = m.gtk]
      /\ down' = Tail(down)
      /\ UNCHANGED <<ap, reports, acked, over>>
  BY DEF RxG1, Passes
<1>c. PICK sent \in IF trouble = 0 THEN {TRUE} ELSE BOOLEAN :
        Sends(sent, Reply("G2", m.rc, s.ptk))
  BY DEF RxG1
<1>d. /\ m \in In(down) /\ m.rc \in Nat /\ ap.phase # "idle"
      /\ \A f \in In(Tail(down)) : f \in In(down)
  BY <1>b, HeadFacts
<1>e. ap.phase \in {"G1", "done", "gone"}
  <2>1. ap.phase \notin {"M1", "M3"}
    BY <1>a, <1>b, <1>d DEF FramesInv
  <2> QED
    BY <2>1, <1>a, <1>d, Fields
<1> HIDE DEF m
<1>f. sta \in StaType
  BY <1>a, Types
<1>1. s = [sta EXCEPT !.replay = m.rc] /\ sta.ptk \in Key
  BY <1>b, <1>f DEF Verified, FirstUse, MicGood, StaType
<1>2. /\ sta'.state = "AUTHENTICATED" /\ sta'.snonce = sta.snonce
      /\ sta'.snonce_valid = sta.snonce_valid /\ sta'.anonce = sta.anonce
      /\ sta'.tptk = sta.tptk /\ sta'.ptk = sta.ptk /\ sta'.replay = m.rc
      /\ sta'.right = sta.right /\ s.ptk = sta.ptk
  BY <1>1, <1>b, <1>f DEF StaType
<1> DEFINE r == Reply("G2", m.rc, s.ptk)
<1>3. r \in ReplyType /\ r.type = "G2" /\ r.rc = m.rc /\ r.key = sta.ptk
  BY <1>1, <1>2, <1>d DEF Reply, ReplyType
<1>4. Sends(sent, r)
  BY <1>c
<1> HIDE DEF s, r
<1>5. /\ In(up') \subseteq In(up) \cup {r} /\ Spent \in Nat /\ Spent' \in Nat
      /\ ap.tries \in Nat /\ Spent' >= Spent
  BY <1>3, <1>4, AnswerFacts
<1>6. CounterInv'
  BY <1>b, <1>2, CounterPop DEF Count, m
<1>7. PathInv'
  <2>1. \A f \in In(down') : f \in In(down)
    BY <1>b, <1>d
  <2>2. ap.phase \in {"G1", "done"} => \A x \in In(up') : x.type = "G2" => x.key = ap.ptk
    <3>1. ap.phase \in {"G1", "done"} => sta.ptk = ap.ptk
      BY <1>a DEF AgreeInv
    <3> QED
      BY <1>3, <1>5, <3>1 DEF Count, PathInv
  <2>3. /\ ap.phase \in {"G1", "done"} =>
               \A f \in In(down) : f.type \in {"M3", "G1"} => f.key = ap.ptk
        /\ sta.tptk # NoKey => sta.snonce_valid /\ sta.tptk = <<sta.right, sta.anonce, sta.snonce>>
    BY DEF Count, PathInv
  <2> QED
    BY <1>b, <1>e, <1>2, <2>1, <2>2, <2>3 DEF PathInv
<1>8. CountInv'
  <2> SUFFICES ASSUME sta.right PROVE CountInv'
    BY <1>2 DEF CountInv
  <2>1. ap.phase # "gone"
    BY <1>b DEF Count, CountInv
  <2>2. ap.phase = "G1" /\ M3Left' => ap.tries <= Spent'
    <3>1. M3Left' => M3Left
      BY <1>3, <1>5, <1>b, <1>d DEF M3Left
    <3>2. ap.phase = "G1" /\ M3Left => ap.tries <= Spent
      BY DEF Count, CountInv
    <3> QED
      BY <1>5, <3>1, <3>2
  <2>3. ap.phase = "G1" => Counted'
    <3> SUFFICES ASSUME ap.phase = "G1" PROVE Counted'
      OBVIOUS
    <3>1. Counted
      BY <1>b DEF Count, CountInv
    <3>2. ~(Head(down).rc >= ap.first) \/ (r.type = Answer(ap.phase) /\ r.rc >= ap.first)
      BY <1>3 DEF Answer, m
    <3> QED
      BY <1>3, <1>4, <1>b, <3>1, <3>2, CountAnswered
  <2> QED
    BY <1>b, <1>e, <2>1, <2>2, <2>3 DEF CountInv
<1> QED
  BY <1>b, <1>6, <1>7, <1>8 DEF Count

LEMMA TxReportCount == ASSUME IInv, IInv', Count, TxReport PROVE Count'
<1>a. TypeOK /\ QueuesOK
  BY DEF IInv
<1> DEFINE r == Head(reports)
<1>b. /\ reports # <<>> /\ sta' = TxDone(sta, r) /\ reports' = Tail(reports)
      /\ UNCHANGED <<ap, down, up, acked, over, trouble>>
  BY DEF TxReport
<1>c. r \in In(reports) /\ In(reports') \subseteq In(reports)
  BY <1>a, <1>b, Pop DEF QueuesOK
<1> HIDE DEF r
<1>f. sta \in StaType
  BY <1>a, Types
<1>1. /\ sta'.snonce = sta.snonce /\ sta'.snonce_valid = sta.snonce_valid
      /\ sta'.anonce = sta.anonce /\ sta'.tptk = sta.tptk /\ sta'.ptk = sta.ptk
      /\ sta'.replay = sta.replay /\ sta'.right = sta.right
      /\ sta'.state = sta.state \/ (sta'.state = "AUTHENTICATED" /\ r.type = "M4")
      /\ r.type # "M4" => sta' = sta
  <2>1. CASE ~sta.m4_pending \/ r.type # "M4"
    <3>1. sta' = sta
      BY <1>b, <2>1 DEF TxDone, Completes
    <3> QED
      BY <3>1
  <2>2. CASE Completes(sta, r)
    <3>1. sta' = [sta EXCEPT !.m4_pending = FALSE, !.install_pending = FALSE,
                    !.state = "AUTHENTICATED", !.last_fail = "NONE"]
      BY <1>b, <2>2 DEF TxDone, Completes
    <3>2. r.type = "M4"
      BY <2>2 DEF Completes
    <3> QED
      BY <1>f, <3>1, <3>2 DEF StaType
  <2>3. CASE ~(~sta.m4_pending \/ r.type # "M4") /\ ~Completes(sta, r)
    <3>1. sta' = [sta EXCEPT !.m4_pending = FALSE, !.last_fail = IF r.ok THEN @ ELSE "M4_TX"]
      BY <1>b, <2>3 DEF TxDone
    <3> QED
      BY <1>f, <2>3, <3>1 DEF StaType
  <2> QED
    BY <2>1, <2>2, <2>3
<1>2. CounterInv'
  BY <1>1, <1>b DEF Count, CounterInv, Sorted, Beyond
<1>3. PathInv'
  BY <1>1, <1>b DEF Count, PathInv
<1>4. /\ M3Left' => M3Left
      /\ r.type = "M4" => M3Left
      /\ NoM1' = NoM1 /\ Spent' = Spent /\ Alive' = Alive
  BY <1>b, <1>c DEF M3Left, NoM1, Spent, Alive
<1>5. CountInv'
  <2> SUFFICES ASSUME sta.right PROVE CountInv'
    BY <1>1 DEF CountInv
  <2>1. ap.phase \in {"M1", "M3"} => Counted
    BY DEF Count, CountInv
  <2>2. ap.phase = "G1" /\ sta'.state = "AUTHENTICATED" => Counted
    <3>1. CASE sta.state = "AUTHENTICATED"
      BY <3>1 DEF Count, CountInv
    <3>2. CASE r.type = "M4"
      <4>1. ap.phase = "G1" => ap.tries <= Spent
        BY <1>4, <3>2 DEF Count, CountInv
      <4>2. ap.tries \in Nat /\ Spent \in Nat
        BY <1>a, SpentFacts
      <4> QED
        BY <4>1, <4>2 DEF Counted
    <3> QED
      BY <1>1, <3>1, <3>2
  <2>3. Counted' = Counted
    BY <1>4, <1>b DEF Counted
  <2>4. ap.phase = "G1" /\ M3Left' => ap.tries <= Spent
    BY <1>4 DEF Count, CountInv
  <2>5. ap.phase = "gone" =>
          ap.tk = ap.ptk /\ sta'.state \in {"M3_RECEIVED", "M4_SENT"} /\ ~M3Left' /\ NoM1
    BY <1>1, <1>4 DEF Count, CountInv
  <2> QED
    BY <1>1, <1>4, <1>b, <2>1, <2>2, <2>3, <2>4, <2>5 DEF CountInv
<1> QED
  BY <1>b, <1>2, <1>3, <1>5 DEF Count

(* One trouble more, or none.                                                 *)
LEMMA SpentStep ==
  ASSUME TypeOK
  PROVE  /\ trouble' = trouble => Spent' = Spent
         /\ trouble > 0 /\ trouble' = trouble - 1 => Spent' = Spent + 1 /\ Spent < MaxTrouble
         /\ Spent \in Nat /\ Spent <= MaxTrouble
<1>1. trouble \in Nat /\ MaxTrouble \in Nat /\ trouble <= MaxTrouble
  BY SpentFacts
<1> QED
  BY <1>1 DEF Spent

LEMMA TransmitCount == ASSUME IInv, IInv', Count, Transmit PROVE Count'
<1>a. TypeOK /\ QueuesOK /\ FramesInv /\ KeysInv /\ StateInv /\ ConfirmInv /\ AgreeInv
  BY DEF IInv
<1> DEFINE m == Head(up)
<1>b. /\ up # <<>> /\ up' = Tail(up) /\ UNCHANGED <<sta, driver, over>>
  BY DEF Transmit
<1>c. PICK arrives \in BOOLEAN, ok \in BOOLEAN :
        /\ trouble' = IF arrives /\ ok THEN trouble ELSE trouble - 1
        /\ (arrives /\ ok) \/ trouble > 0
        /\ reports' = Append(reports, [type |-> m.type, ok |-> ok, old |-> FALSE])
        /\ ap' = IF arrives THEN ApAfter(ap, m) ELSE ap
        /\ down' = IF arrives /\ GoodM2(ap, m)
                   THEN Append(down, ApSends([ap EXCEPT !.ptk = m.key], "M3")) ELSE down
  BY DEF Transmit
<1>d. /\ m \in In(up) /\ m \in ReplyType /\ In(up') \subseteq In(up)
      /\ In(up) \subseteq {m} \cup In(up')
  BY <1>a, <1>b, Pop, PopSplit DEF QueuesOK
<1> HIDE DEF m
<1>e. m.key \in Key /\ m.rc \in Nat /\ m.type \in {"M2", "M4", "G2"}
  BY <1>d DEF ReplyType
<1>f. /\ ap \in ApType /\ ap.rc \in Nat /\ ap.first \in Nat /\ ap.tries \in Nat
      /\ m.rc <= ap.rc
  <2>1. ap.tries \in Nat
    BY <1>a, SpentFacts
  <2> QED
    BY <1>a, <1>d, <2>1, Types, Fields DEF FramesInv
<1> DEFINE A == [ap EXCEPT !.ptk = m.key]
           f == ApSends(A, "M3")
\* the M2 that counts: its key is the station's temporary key
<1>1. CASE arrives /\ GoodM2(ap, m)
  <2>a. /\ m.type = "M2" /\ ap.phase = "M1" /\ m.key[2] = ap.anonce
    BY <1>1 DEF GoodM2, Answers
  <2>b. ap' = Begun(A, "M3") /\ down' = Append(down, f)
    <3>1. arrives = TRUE /\ GoodM2(ap, m) = TRUE
      BY <1>1 DEF GoodM2, Answers
    <3>2. ap' = ApAfter(ap, m) /\ down' = Append(down, f)
      BY <1>c, <3>1
    <3>3. ~Answers(ap, m, "M4") /\ ~Answers(ap, m, "G2")
      BY <2>a DEF Answers
    <3>4. ApAfter(ap, m) = Begun(A, "M3")
      BY <3>1, <3>3 DEF ApAfter
    <3> QED
      BY <3>2, <3>4
  <2>1. /\ A \in ApType /\ A.ptk = m.key /\ A.anonce = ap.anonce /\ A.rc = ap.rc
    BY <1>e, <1>f DEF ApType
  <2>2. f \in FrameType /\ f.type = "M3" /\ f.rc = ap.rc + 1 /\ f.key = m.key
    <3> HIDE DEF A
    <3>1. /\ A.rc \in Nat /\ A.anonce \in 0 .. MaxNonce /\ A.ptk \in Key \cup {NoKey}
          /\ A.gtk \in 0 .. MaxGtk /\ A.honest \in BOOLEAN
      BY <2>1, Numbers DEF ApType
    <3> QED
      BY <2>1, <3>1, Sent
  <2>3. ap' = [A EXCEPT !.phase = "M3", !.first = ap.rc + 1, !.rc = ap.rc + 1, !.tries = 1]
    BY <2>1, <2>b DEF Begun
  <2> HIDE DEF A, f
  <2>4. /\ ap'.phase = "M3" /\ ap'.anonce = ap.anonce /\ ap'.rc = ap.rc + 1
        /\ ap'.first = ap.rc + 1 /\ ap'.ptk = m.key /\ ap'.tries = 1
    BY <2>1, <2>3 DEF ApType
  <2>5. ap.rc + 1 \in Nat /\ ap.rc + 1 > ap.rc /\ ap.rc + 1 >= ap.rc + 1
    BY <1>f
  <2>6. In(down') = In(down) \cup {f}
    <3>1. down \in Seq(FrameType)
      BY <1>a DEF QueuesOK
    <3> QED
      BY <2>2, <2>b, <3>1, Push
  <2>7. CounterInv'
    <3>1. ap.phase # "idle" /\ f.rc > ap.rc /\ ap'.rc \in Nat /\ ap'.rc >= ap.rc
      BY <2>2, <2>4, <2>5, <2>a, <1>f
    <3> QED
      BY <1>b, <2>2, <2>b, <3>1, CounterPush DEF Count
  <2>8. PathInv'
    <3>1. \A g \in In(down) : g.type \in {"M1", "DEAUTH"}
      BY <1>a, <2>a DEF FramesInv
    <3>2. m.key = sta.tptk
      BY <1>d, <2>a DEF Count, PathInv
    <3>3. sta.tptk # NoKey /\ sta.anonce = ap.anonce
      <4>1. sta.tptk # NoKey
        BY <3>2, <1>e, KeyFacts
      <4> QED
        BY <1>a, <2>a, <3>2, <4>1 DEF KeysInv
    <3>4. \A x \in In(up') : x.type # "M4" /\ x.type # "G2"
      <4>1. NoM4
        BY <1>a, <2>a DEF KeysInv
      <4> QED
        BY <1>d, <2>a, <4>1 DEF NoM4, Count, PathInv
    <3>5. /\ sta.state \notin {"DISCONNECTED", "FAILED"}
          /\ sta.tptk # NoKey => sta.snonce_valid /\ sta.tptk = <<sta.right, sta.anonce, sta.snonce>>
          /\ sta.state \in {"M1_RECEIVED", "M2_SENT"} => sta.tptk # NoKey
      BY <2>a DEF Count, PathInv
    <3>6. \A g \in In(down') :
            /\ g.type = "M3" => g.rc >= ap'.first
            /\ g.type \in {"M3", "G1"} => g.key = ap'.ptk
      BY <2>2, <2>4, <2>5, <2>6, <3>1
    <3> QED
      BY <1>b, <2>4, <3>2, <3>3, <3>4, <3>5, <3>6 DEF PathInv
  <2>9. CountInv'
    <3>1. f \in In(down') /\ f.type = ap'.phase /\ f.rc = ap'.first /\ f.rc \in Nat
          /\ ap'.phase \in {"M1", "M3", "G1"} /\ ap'.phase # "G1" /\ TypeOK'
      BY <2>2, <2>4, <2>5, <2>6 DEF IInv
    <3> QED
      BY <2>4, <3>1, BegunCounts
  <2> QED
    BY <1>b, <2>7, <2>8, <2>9 DEF Count
<1> HIDE DEF A, f
\* an M4 or a G2 that counts ends the exchange
<1>2. CASE /\ arrives /\ ~GoodM2(ap, m)
           /\ \/ Answers(ap, m, "M4") /\ m.key = ap.ptk
              \/ Answers(ap, m, "G2") /\ m.key = ap.ptk
  <2>1. /\ ap.phase \in {"M3", "G1"} /\ ap.phase # "idle"
    BY <1>2 DEF Answers
  <2>2. \/ ap' = [ap EXCEPT !.phase = "done", !.tk = ap.ptk]
        \/ ap' = [ap EXCEPT !.phase = "done"]
    <3>1. arrives = TRUE /\ GoodM2(ap, m) = FALSE
      BY <1>2 DEF GoodM2, Answers
    <3>2. ap' = ApAfter(ap, m)
      BY <1>c, <3>1
    <3> QED
      BY <1>2, <3>1, <3>2 DEF ApAfter
  <2>3. down' = down
    BY <1>2, <1>c
  <2>4. ap'.phase = "done" /\ ap'.ptk = ap.ptk /\ ap'.rc = ap.rc
    BY <1>f, <2>2 DEF ApType
  <2>5. CounterInv'
    BY <1>b, <2>1, <2>3, <2>4 DEF Count, CounterInv, Sorted, Beyond
  <2>6. PathInv'
    BY <1>b, <1>d, <2>1, <2>3, <2>4 DEF Count, PathInv
  <2>7. CountInv'
    BY <2>4 DEF CountInv
  <2> QED
    BY <1>b, <2>5, <2>6, <2>7 DEF Count
\* it is lost, or it was not the one that counts
<1>3. CASE ~arrives \/ (/\ ~GoodM2(ap, m) /\ ~(Answers(ap, m, "M4") /\ m.key = ap.ptk)
                        /\ ~(Answers(ap, m, "G2") /\ m.key = ap.ptk))
  <2>1. ap' = ap /\ down' = down
    BY <1>3, <1>c DEF ApAfter
  <2>2. CounterInv'
    BY <1>b, <2>1 DEF Count, CounterInv, Sorted, Beyond
  <2>3. PathInv'
    BY <1>b, <1>d, <2>1 DEF Count, PathInv
  <2>4. /\ (arrives /\ ok) => Spent' = Spent
        /\ ~(arrives /\ ok) => Spent' = Spent + 1
        /\ Spent \in Nat
    BY <1>a, <1>c, SpentStep
  <2>5. In(reports') \subseteq In(reports) \cup {x \in ReportType : x.type = m.type}
    <3> DEFINE r == [type |-> m.type, ok |-> ok, old |-> FALSE]
    <3>1. r \in ReportType /\ r.type = m.type
      BY <1>e DEF ReportType
    <3>2. reports' = Append(reports, r)
      BY <1>c
    <3> HIDE DEF r
    <3>3. In(reports') = In(reports) \cup {r}
      BY <1>a, <3>1, <3>2, Push DEF QueuesOK
    <3> QED
      BY <3>1, <3>3
  <2>6. NoM1' = NoM1 /\ (M3Left' => M3Left)
    BY <1>d, <2>1, <2>5 DEF NoM1, M3Left
  <2>7. CountInv'
    <3> SUFFICES ASSUME sta.right PROVE CountInv'
      BY <1>b DEF CountInv
    <3>1. ASSUME arrives /\ ok, ap.phase \in {"M1", "M3", "G1"}
          PROVE  ~(m.type = Answer(ap.phase) /\ m.rc >= ap.first)
      <4> SUFFICES ASSUME m.type = Answer(ap.phase), m.rc >= ap.first PROVE FALSE
        OBVIOUS
      <4>1. m.rc \in ap.first .. ap.rc
        BY <1>e, <1>f
      <4>2. CASE ap.phase = "M1"
        <5>1. m.type = "M2"
          BY <4>2 DEF Answer
        <5>2. m.key = sta.tptk /\ m.key[2] = ap.anonce
          BY <1>d, <4>2, <5>1 DEF Count, PathInv
        <5>3. m.key[1]
          <6>1. sta.tptk # NoKey
            BY <5>2, <1>e, KeyFacts
          <6>2. sta.tptk = <<sta.right, sta.anonce, sta.snonce>>
            BY <6>1 DEF Count, PathInv
          <6> QED
            BY <5>2, <6>2
        <5>4. GoodM2(ap, m)
          BY <4>1, <4>2, <5>1, <5>2, <5>3 DEF GoodM2, Answers
        <5> QED
          BY <1>3, <3>1, <5>4
      <4>3. CASE ap.phase = "M3"
        <5>1. m.type = "M4"
          BY <4>3 DEF Answer
        <5>2. m.key = sta.ptk /\ ~NoM4
          BY <1>a, <1>d, <5>1 DEF ConfirmInv, NoM4
        <5>3. sta.tptk = NoKey
          BY <1>a, <5>2 DEF KeysInv
        <5>4. ap.ptk # NoKey
          BY <1>a, <4>3, KeyFacts DEF FramesInv
        <5>5. sta.ptk = ap.ptk
          BY <4>3, <5>3, <5>4 DEF Count, PathInv
        <5>6. Answers(ap, m, "M4") /\ m.key = ap.ptk
          BY <4>1, <4>3, <5>1, <5>2, <5>5 DEF Answers
        <5> QED
          BY <1>3, <3>1, <5>6
      <4>4. CASE ap.phase = "G1"
        <5>1. m.type = "G2"
          BY <4>4 DEF Answer
        <5>2. m.key = ap.ptk
          BY <1>d, <4>4, <5>1 DEF Count, PathInv
        <5>3. Answers(ap, m, "G2") /\ m.key = ap.ptk
          BY <4>1, <4>4, <5>1, <5>2 DEF Answers
        <5> QED
          BY <1>3, <3>1, <5>3
      <4> QED
        BY <3>1, <4>2, <4>3, <4>4
    <3>2. Counted /\ ap.phase \in {"M1", "M3", "G1"} => Counted'
      <4> SUFFICES ASSUME Counted, ap.phase \in {"M1", "M3", "G1"} PROVE Counted'
        OBVIOUS
      <4>1. CASE arrives /\ ok
        <5>1. Alive => Alive'
          BY <1>d, <2>1, <3>1, <4>1 DEF Alive
        <5>2. Spent' = Spent
          BY <2>4, <4>1
        <5> QED
          BY <2>1, <5>1, <5>2 DEF Counted
      <4>2. CASE ~(arrives /\ ok)
        <5>1. ap.tries <= Spent + 1 /\ Spent' = Spent + 1 /\ ap.tries <= Spent + 1 + 1
          BY <1>f, <2>4, <4>2 DEF Counted
        <5> QED
          BY <2>1, <5>1 DEF Counted
      <4> QED
        BY <4>1, <4>2
    <3>3. ap.phase = "G1" /\ M3Left' => ap.tries <= Spent'
      <4>1. ap.phase = "G1" /\ M3Left' => ap.tries <= Spent
        BY <2>6 DEF Count, CountInv
      <4> QED
        BY <1>f, <2>4, <4>1
    <3>4. /\ ap.phase \in {"M1", "M3"} \/ (ap.phase = "G1" /\ sta.state = "AUTHENTICATED") => Counted
          /\ ap.phase = "gone" =>
               ap.tk = ap.ptk /\ sta.state \in {"M3_RECEIVED", "M4_SENT"} /\ ~M3Left /\ NoM1
      BY DEF Count, CountInv
    <3> QED
      BY <1>b, <2>1, <2>6, <3>2, <3>3, <3>4 DEF CountInv
  <2> QED
    BY <1>b, <2>2, <2>3, <2>7 DEF Count
<1> QED
  BY <1>1, <1>2, <1>3

LEMMA ApTimeoutCount ==
  ASSUME IInv, IInv', Count, ApTimeout, MaxTrouble < MaxTries
  PROVE  Count'
<1>a. TypeOK /\ QueuesOK /\ FramesInv /\ KeysInv /\ StateInv /\ ConfirmInv /\ AgreeInv
  BY DEF IInv
<1>b. /\ ap.phase \in {"M1", "M3", "G1"}
      /\ Quiet \/ trouble > 0
      /\ trouble' = IF Quiet THEN trouble ELSE trouble - 1
      /\ UNCHANGED <<sta, driver, up, reports, acked, over>>
  BY DEF ApTimeout
<1>c. /\ ap \in ApType /\ ap.tries \in Nat /\ ap.tries <= MaxTries /\ MaxTries \in Nat
      /\ MaxTrouble \in Nat /\ ap.rc \in Nat /\ ap.first \in Nat /\ ap.honest \in BOOLEAN
      /\ ap.anonce \in 0 .. MaxNonce /\ ap.gtk \in 0 .. MaxGtk /\ ap.ptk \in Key \cup {NoKey}
      /\ down \in Seq(FrameType)
  <2>1. ap \in ApType /\ down \in Seq(FrameType)
    BY <1>a, Types DEF QueuesOK
  <2>2. /\ ap.tries \in Nat /\ ap.tries <= MaxTries /\ MaxTries \in Nat /\ MaxTrouble \in Nat
    BY <1>a, SpentFacts
  <2> QED
    BY <1>a, <2>1, <2>2, Fields DEF ApType
<1>d. /\ Quiet => Spent' = Spent /\ ~Alive /\ ~M3Left
      /\ ~Quiet => Spent' = Spent + 1 /\ Spent < MaxTrouble
      /\ Spent \in Nat /\ Spent <= MaxTrouble
  <2>1. Quiet => In(down) = {} /\ In(up) = {} /\ In(reports) = {}
    BY Empty DEF Quiet
  <2>2. Quiet => ~Alive /\ ~M3Left
    BY <2>1 DEF Alive, M3Left
  <2> QED
    BY <1>a, <1>b, <2>2, SpentStep
<1>e. ap.phase # "idle" /\ ap.first <= ap.rc
  BY <1>a, <1>b, <1>c DEF FramesInv
<1>g. /\ sta.state \notin {"DISCONNECTED", "FAILED"}
      /\ sta.tptk # NoKey => sta.snonce_valid /\ sta.tptk = <<sta.right, sta.anonce, sta.snonce>>
      /\ sta.state \in {"M1_RECEIVED", "M2_SENT"} => sta.tptk # NoKey
  BY <1>e DEF Count, PathInv
\* what the count says of the exchange so far
<1>1. ASSUME sta.right, ap.phase \in {"M1", "M3"} \/ (ap.phase = "G1" /\ sta.state = "AUTHENTICATED")
      PROVE  IF Quiet THEN ap.tries <= Spent ELSE ap.tries <= Spent + 1
  <2>1. Counted
    BY <1>1 DEF Count, CountInv
  <2> QED
    BY <1>d, <2>1 DEF Counted
<1>2. sta.right /\ ap.phase = "G1" /\ M3Left => ~Quiet /\ ap.tries <= Spent
  BY <1>d DEF Count, CountInv
<1>3. CASE ap.tries < MaxTries
  <2> DEFINE f == ApSends(ap, ap.phase)
  <2>a. /\ ap' = [ap EXCEPT !.rc = ap.rc + 1, !.tries = ap.tries + 1]
        /\ down' = Append(down, f)
    BY <1>3 DEF ApTimeout
  <2>1. f \in FrameType /\ f.type = ap.phase /\ f.rc = ap.rc + 1 /\ (f.type # "M1" => f.key = ap.ptk)
    BY <1>b, <1>c, Sent
  <2> HIDE DEF f
  <2>2. /\ ap'.phase = ap.phase /\ ap'.anonce = ap.anonce /\ ap'.rc = ap.rc + 1
        /\ ap'.first = ap.first /\ ap'.ptk = ap.ptk /\ ap'.tries = ap.tries + 1
    BY <1>c, <2>a DEF ApType
  <2>3. In(down') = In(down) \cup {f}
    BY <1>c, <2>1, <2>a, Push
  <2>4. f.rc >= ap.first /\ f.rc > ap.rc /\ ap.rc + 1 >= ap.rc /\ ap.rc + 1 \in Nat
    BY <1>c, <1>e, <2>1
  <2>5. CounterInv'
    BY <1>b, <1>e, <2>1, <2>2, <2>4, <2>a, CounterPush DEF Count
  <2>6. PathInv'
    <3>1. CASE ap.phase = "M1"
      BY <1>b, <1>g, <2>1, <2>2, <2>3, <2>4, <3>1 DEF Count, PathInv
    <3>2. CASE ap.phase = "M3"
      BY <1>b, <1>g, <2>1, <2>2, <2>3, <2>4, <3>2 DEF Count, PathInv
    <3>3. CASE ap.phase = "G1"
      BY <1>b, <1>g, <2>1, <2>2, <2>3, <2>4, <3>3 DEF Count, PathInv
    <3> QED
      BY <1>b, <3>1, <3>2, <3>3
  <2>7. CountInv'
    <3> SUFFICES ASSUME sta.right PROVE CountInv'
      BY <1>b DEF CountInv
    <3>1. ASSUME ap.phase \in {"M1", "M3"} \/ (ap.phase = "G1" /\ sta.state = "AUTHENTICATED")
          PROVE  Counted'
      <4>1. IF Quiet THEN ap.tries <= Spent ELSE ap.tries <= Spent + 1
        BY <1>1, <3>1
      <4>2. ap'.tries <= Spent' + 1
        <5>1. CASE Quiet
          BY <1>c, <1>d, <2>2, <4>1, <5>1
        <5>2. CASE ~Quiet
          BY <1>c, <1>d, <2>2, <4>1, <5>2
        <5> QED
          BY <5>1, <5>2
      <4>3. Alive'
        BY <2>1, <2>2, <2>3, <2>4 DEF Alive
      <4> QED
        BY <4>2, <4>3 DEF Counted
    <3>2. ap.phase = "G1" /\ M3Left' => ap'.tries <= Spent'
      <4>1. ap.phase = "G1" /\ M3Left' => M3Left
        BY <1>b, <2>1, <2>3 DEF M3Left
      <4> QED
        BY <1>2, <1>c, <1>d, <2>2, <4>1
    <3> QED
      BY <1>b, <2>2, <3>1, <3>2 DEF CountInv
  <2> QED
    BY <1>b, <2>5, <2>6, <2>7 DEF Count
\* it gives up, after more transmissions than there can be troubles
<1>4. CASE ~(ap.tries < MaxTries)
  <2>a. ap' = [ap EXCEPT !.phase = "gone"] /\ down' = Append(down, Deauth)
    BY <1>4 DEF ApTimeout
  <2>1. ap'.phase = "gone" /\ ap'.ptk = ap.ptk /\ ap'.tk = ap.tk /\ ap'.rc = ap.rc
    BY <1>c, <2>a DEF ApType
  <2>2. In(down') = In(down) \cup {Deauth} /\ Deauth \in FrameType /\ Deauth.type = "DEAUTH"
    BY <1>c, <2>a, DeauthFacts, Push
  <2>3. CounterInv'
    <3>1. ap'.rc \in Nat /\ ap'.rc >= ap.rc
      BY <1>c, <2>1
    <3> QED
      BY <1>b, <1>e, <2>2, <2>a, <3>1, CounterPush DEF Count
  <2>4. PathInv'
    BY <1>b, <1>g, <2>1 DEF PathInv
  <2>5. ap.tries > MaxTrouble
    BY <1>4, <1>c
  <2>6. CountInv'
    <3> SUFFICES ASSUME sta.right PROVE CountInv'
      BY <1>b DEF CountInv
    <3>1. ap.phase = "G1" /\ sta.state # "AUTHENTICATED"
      <4>1. (IF Quiet THEN ap.tries <= Spent ELSE ap.tries <= Spent + 1) => FALSE
        BY <1>c, <1>d, <2>5
      <4> QED
        BY <1>1, <1>b, <4>1
    <3>2. ~M3Left
      BY <1>2, <1>c, <1>d, <2>5, <3>1
    <3>3. /\ sta.ptk = ap.ptk /\ ap.tk = ap.ptk /\ NoM1 /\ sta.tptk = NoKey /\ ap.ptk # NoKey
      BY <1>a, <3>1, KeyFacts DEF AgreeInv, FramesInv
    <3>4. sta.state \in {"M3_RECEIVED", "M4_SENT"}
      <4>1. sta.state \in State
        BY <1>a, Fields
      <4> QED
        BY <1>a, <1>g, <3>1, <3>3, <4>1 DEF State, StateInv, Count
    <3>5. ~M3Left' /\ NoM1'
      BY <1>b, <2>2, <3>2, <3>3 DEF M3Left, NoM1
    <3> QED
      BY <1>b, <2>1, <3>3, <3>4, <3>5 DEF CountInv
  <2> QED
    BY <1>b, <2>3, <2>4, <2>6 DEF Count
<1> QED
  BY <1>3, <1>4

LEMMA ApRekeysCount == ASSUME IInv, IInv', Count, ApRekeys PROVE Count'
<1>a. TypeOK /\ TypeOK' /\ QueuesOK
  BY DEF IInv
<1> DEFINE A == [ap EXCEPT !.anonce = ap.anonce + 1]
           f == ApSends(A, "M1")
<1>b. /\ ap.phase = "done" /\ down = <<>> /\ up = <<>> /\ ap.anonce < MaxNonce
      /\ ap' = Begun(A, "M1") /\ down' = <<f>>
      /\ UNCHANGED <<sta, driver, up, acked, over, trouble>>
  BY DEF ApRekeys
<1>c. ap \in ApType /\ down \in Seq(FrameType)
  BY <1>a, Types DEF QueuesOK
<1>d. /\ ap.rc \in Nat /\ ap.rc + 1 \in Nat /\ ap.rc + 1 > ap.rc /\ ap.rc + 1 >= ap.rc
      /\ ap.anonce + 1 \in 0 .. MaxNonce /\ ap.gtk \in 0 .. MaxGtk /\ ap.rc + 1 >= ap.rc + 1
  BY <1>b, <1>c, Numbers DEF ApType
<1>1. /\ A \in ApType /\ A.anonce = ap.anonce + 1 /\ A.rc = ap.rc /\ A.gtk = ap.gtk
      /\ A.honest = ap.honest /\ A.ptk = ap.ptk
  BY <1>c, <1>d DEF ApType
<1>2. f \in FrameType /\ f.type = "M1" /\ f.rc = ap.rc + 1
  <2> HIDE DEF A
  <2>1. A.honest \in BOOLEAN /\ A.ptk \in Key \cup {NoKey}
    BY <1>1 DEF ApType
  <2> QED
    BY <1>1, <1>d, <2>1, Sent
<1>3. ap' = [A EXCEPT !.phase = "M1", !.first = ap.rc + 1, !.rc = ap.rc + 1, !.tries = 1]
  BY <1>1, <1>b DEF Begun
<1> HIDE DEF A, f
<1>4. ap'.phase = "M1" /\ ap'.rc = ap.rc + 1 /\ ap'.first = ap.rc + 1 /\ ap'.tries = 1
  BY <1>1, <1>3 DEF ApType
<1>5. In(down') = {f} /\ In(up') = {}
  BY <1>2, <1>b, Single, Empty
<1>6. CounterInv'
  <2>1. sta.replay <= ap.rc /\ sta.replay \in Nat
    BY <1>a, <1>b, Fields DEF Count, CounterInv
  <2>2. sta.replay < ap.rc + 1 /\ sta.replay <= ap.rc + 1
    BY <1>d, <2>1
  <2>3. Beyond(down', sta.replay) /\ Sorted(down')
    BY <1>2, <1>b, <2>2, SingleFacts
  <2> QED
    BY <1>4, <1>b, <2>2, <2>3 DEF CounterInv, Beyond, Sorted
<1>7. PathInv'
  BY <1>2, <1>4, <1>5, <1>b, <1>d DEF Count, PathInv
<1>8. CountInv'
  BY <1>2, <1>4, <1>5, <1>a, <1>d, BegunCounts
<1> QED
  BY <1>b, <1>6, <1>7, <1>8 DEF Count

LEMMA ApRekeysGroupCount == ASSUME IInv, IInv', Count, ApRekeysGroup PROVE Count'
<1>a. TypeOK /\ TypeOK' /\ QueuesOK
  BY DEF IInv
<1> DEFINE A == [ap EXCEPT !.gtk = ap.gtk + 1]
           f == ApSends(A, "G1")
<1>b. /\ ap.phase = "done" /\ ap.gtk < MaxGtk
      /\ Quiet \/ trouble > 0
      /\ trouble' = IF Quiet THEN trouble ELSE trouble - 1
      /\ ap' = Begun(A, "G1") /\ down' = Append(down, f)
      /\ UNCHANGED <<sta, driver, up, reports, acked, over>>
  BY DEF ApRekeysGroup
<1>c. ap \in ApType /\ down \in Seq(FrameType)
  BY <1>a, Types DEF QueuesOK
<1>d. /\ ap.rc \in Nat /\ ap.rc + 1 \in Nat /\ ap.rc + 1 > ap.rc /\ ap.rc + 1 >= ap.rc
      /\ ap.anonce \in 0 .. MaxNonce /\ ap.gtk + 1 \in 1 .. MaxGtk /\ ap.gtk + 1 \in 0 .. MaxGtk
  BY SMTT(30), <1>b, <1>c, Numbers DEF ApType
<1>1. /\ A \in ApType /\ A.anonce = ap.anonce /\ A.rc = ap.rc /\ A.gtk = ap.gtk + 1
      /\ A.honest = ap.honest /\ A.ptk = ap.ptk
  BY <1>c, <1>d DEF ApType
<1>2. f \in FrameType /\ f.type = "G1" /\ f.rc = ap.rc + 1 /\ f.key = ap.ptk
  <2> HIDE DEF A
  <2>1. A.honest \in BOOLEAN /\ A.ptk \in Key \cup {NoKey}
    BY <1>1 DEF ApType
  <2> QED
    BY <1>1, <1>d, <2>1, Sent
<1>3. ap' = [A EXCEPT !.phase = "G1", !.first = ap.rc + 1, !.rc = ap.rc + 1, !.tries = 1]
  BY <1>1, <1>b DEF Begun
<1> HIDE DEF A, f
<1>4. /\ ap'.phase = "G1" /\ ap'.rc = ap.rc + 1 /\ ap'.first = ap.rc + 1 /\ ap'.tries = 1
      /\ ap'.ptk = ap.ptk
  BY <1>1, <1>3 DEF ApType
<1>5. In(down') = In(down) \cup {f}
  BY <1>2, <1>b, <1>c, Push
<1>6. CounterInv'
  BY <1>2, <1>4, <1>b, <1>d, CounterPush DEF Count
<1>7. PathInv'
  BY <1>2, <1>4, <1>5, <1>b, <1>d DEF Count, PathInv
<1>8. ~M3Left' \/ Spent' >= 1
  <2>1. CASE Quiet
    <3>1. In(down) = {} /\ In(up) = {} /\ In(reports) = {}
      BY <2>1, Empty DEF Quiet
    <3> QED
      BY <1>2, <1>5, <1>b, <3>1 DEF M3Left
  <2>2. CASE ~Quiet
    <3>1. Spent' = Spent + 1 /\ Spent \in Nat
      BY <1>a, <1>b, <2>2, SpentStep
    <3> QED
      BY <3>1
  <2> QED
    BY <2>1, <2>2
<1>9. CountInv'
  BY <1>2, <1>4, <1>5, <1>8, <1>a, <1>d, BegunCounts
<1> QED
  BY <1>b, <1>6, <1>7, <1>9 DEF Count

(* The end of an association is the end of what a join over it has done.      *)
LEMMA OverStays == ASSUME [Next]_vars, ~over' PROVE ~over \/ Disconnected
<1> SUFFICES ASSUME ~Disconnected, over PROVE FALSE
  OBVIOUS
<1>1. CASE Join
  BY <1>1 DEF Join
<1>2. CASE UNCHANGED vars
  BY <1>2 DEF vars
<1> QED
  BY <1>1, <1>2 DEF Next, Associate, RxRefused, RxM1, RxM3, RxG1, TxReport, Transmit, Lose,
                    ApTimeout, ApRekeys, ApRekeysGroup, LinkLost

(* When the access point sends each message more often than there are         *)
(* troubles at all, however it repeats itself too early and whatever is lost  *)
(* in which order: unless a join came over the association, it gives up on a  *)
(* station with the right passphrase only when it had accepted the M4 and the *)
(* station never saw the M4 reported (wpa2_client_rx_eapol,                   *)
(* wpa2_client_eapol_txdone).                                                 *)
THEOREM Tolerance == ASSUME MaxTrouble < MaxTries PROVE Spec => []TroubleIsTolerated
<1>1. Init => IInv /\ (over \/ Count)
  BY InitHolds, InitCounts
<1>2. IInv /\ IInv' /\ (over \/ Count) /\ [Next]_vars => over' \/ Count'
  <2> SUFFICES ASSUME IInv, IInv', over \/ Count, [Next]_vars, ~over' PROVE Count'
    OBVIOUS
  <2>0. CASE Disconnected
    BY <2>0, DisconnectedCount
  <2> SUFFICES ASSUME Count PROVE Count'
    BY <2>0, OverStays
  <2>1. CASE Join
    BY <2>1, JoinCount
  <2>2. CASE Associate
    BY <2>2, AssociateCount
  <2>3. CASE RxRefused
    BY <2>3, RxRefusedCount
  <2>4. CASE RxM1
    BY <2>4, RxM1Count
  <2>5. CASE RxM3
    BY <2>5, RxM3Count
  <2>6. CASE RxG1
    BY <2>6, RxG1Count
  <2>7. CASE TxReport
    BY <2>7, TxReportCount
  <2>8. CASE Transmit
    BY <2>8, TransmitCount
  <2>9. CASE Lose
    BY <2>9, LoseCount
  <2>10. CASE ApTimeout
    BY <2>10, ApTimeoutCount
  <2>11. CASE ApRekeys
    BY <2>11, ApRekeysCount
  <2>12. CASE ApRekeysGroup
    BY <2>12, ApRekeysGroupCount
  <2>13. CASE LinkLost
    BY <2>13, LinkLostCount
  <2>14. CASE UNCHANGED vars
    BY <2>14, StutterCount
  <2> QED
    BY <2>0, <2>1, <2>2, <2>3, <2>4, <2>5, <2>6, <2>7, <2>8, <2>9, <2>10, <2>11, <2>12,
       <2>13, <2>14 DEF Next
<1>3. over \/ Count => TroubleIsTolerated
  BY DEF Count, CountInv, TroubleIsTolerated
<1> QED
  BY <1>1, <1>2, <1>3, Invariance, PTL DEF Spec
=============================================================================
