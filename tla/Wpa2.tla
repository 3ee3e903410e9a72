--------------------------------- MODULE Wpa2 ---------------------------------
(* The supplicant of src/src/wpa2_client.c in the four-way and the group key  *)
(* handshake, with the access point it talks to, the air in between, and the  *)
(* radio's TX-done reports, which arrive when the vendor library gets round   *)
(* to them.  Cryptography is ideal: a key is the tuple of what it is derived  *)
(* from, and a MIC is the key it was made with.                               *)
EXTENDS Naturals, Sequences

CONSTANTS MaxNonce,   \* bound: nonces of the access point (sessions and pairwise rekeys)
          MaxGtk,     \* bound: group keys
          MaxTries,   \* the access point's transmissions of one message (external)
          MaxTrouble  \* bound: frames lost, refused or repeated too early, false reports,
                      \* joins over an association

ASSUME BoundAssumption == {MaxNonce, MaxGtk, MaxTries, MaxTrouble} \subseteq Nat \ {0}

VARIABLES
  sta,      \* the static variables of wpa2_client.c
  driver,   \* the keys set with wpa_drv_set_sta_key, every pairwise key ever set, what it refused
  ap,       \* the access point
  down, up, \* frames to the station; frames from it, which its radio has not sent yet
  reports,  \* TX-done reports on their way
  acked,    \* history: the keys of the M4s the access point's radio acknowledged
  over,     \* history: a join came before the association had ended
  trouble   \* what is left of the bound

air  == <<down, up, reports>>
vars == <<sta, driver, ap, air, acked, over, trouble>>

State == {"DISCONNECTED", "CONNECTING", "M1_RECEIVED", "M2_SENT", "M3_RECEIVED", "M4_SENT",
          "AUTHENTICATED", "FAILED"}
Fail  == {"NONE", "NO_M3", "ANONCE_MISMATCH", "IE_MISMATCH", "M4_TX"}

(* PTK: whether the PMK is the network's, the ANonce and the SNonce. *)
Key    == BOOLEAN \X (1 .. MaxNonce) \X (1 .. MaxNonce)
NoKey  == <<>>

(* rc: the replay counter; key: what the MIC is made with; gtk and honest are *)
(* the key data, honest when its RSN element is the one the beacons show.     *)
Frame(type, rc, anonce, key, gtk, honest) ==
  [type |-> type, rc |-> rc, anonce |-> anonce, key |-> key, gtk |-> gtk, honest |-> honest]

Reply(type, rc, key) == [type |-> type, rc |-> rc, key |-> key]

Deauth == Frame("DEAUTH", 0, 0, NoKey, 0, TRUE)
-----------------------------------------------------------------------------
(* The station. *)

\* mutant: the M4 of an earlier session can still be reported
ResetSession_KeepsPending(s) ==
  [s EXCEPT !.replay = 0, !.snonce_valid = FALSE, !.tptk = NoKey, !.ptk = NoKey, !.gtk = 0]

ResetSession(s) ==                                          \* wpa2_reset_session
  [s EXCEPT !.replay = 0, !.snonce_valid = FALSE, !.tptk = NoKey, !.ptk = NoKey,
            !.m4_pending = FALSE, !.install_pending = FALSE, !.gtk = 0]

\* mutant: nothing is expected once the keys are in
Awaits_NotAfterwards(s) == s.state \notin {"DISCONNECTED", "FAILED", "AUTHENTICATED"}

(* wpa2_client_rx_eapol: what is looked at before the message's own handler.  *)
Awaits(s) == s.state \notin {"DISCONNECTED", "FAILED"}

Fresh(s, m) == s.replay = 0 \/ m.rc > s.replay              \* 0: s_replay_set is false

(* A verified M3 makes the temporary key the key. *)
FirstUse(s, m) == m.type = "M3" /\ s.tptk # NoKey /\ m.key = s.tptk

MicGood(s, m) == FirstUse(s, m) \/ (s.ptk # NoKey /\ m.key = s.ptk)

Verified(s, m) ==
  [s EXCEPT !.replay = m.rc,
            !.ptk  = IF FirstUse(s, m) THEN s.tptk ELSE @,
            !.tptk = IF FirstUse(s, m) THEN NoKey ELSE @]

(* wpa2_process_m1; the SNonce is drawn once per session. *)
ProcessM1(s, m, sent) ==
  LET snonce == IF s.snonce_valid THEN s.snonce ELSE s.snonce + 1
  IN [s EXCEPT !.state = IF sent THEN "M2_SENT" ELSE "M1_RECEIVED",
               !.snonce = snonce, !.snonce_valid = TRUE, !.anonce = m.anonce,
               !.tptk = <<s.right, m.anonce, snonce>>]

\* mutant: a repeated M3 has the keys installed again
ProcessM3_Reinstalls(s, m, sent) ==
  IF ~m.honest THEN [s EXCEPT !.state = "FAILED", !.last_fail = "IE_MISMATCH"]
  ELSE [s EXCEPT !.gtk = m.gtk, !.install_pending = TRUE, !.m4_pending = sent,
                 !.state = IF sent THEN "M4_SENT" ELSE "M3_RECEIVED"]

(* wpa2_process_m3, its M4 sent or refused by the driver. *)
ProcessM3(s, m, sent) ==
  CASE m.anonce # s.anonce -> [s EXCEPT !.last_fail = "ANONCE_MISMATCH"]
    [] m.anonce = s.anonce /\ ~m.honest ->
         [s EXCEPT !.state = "FAILED", !.last_fail = "IE_MISMATCH"]
    [] m.anonce = s.anonce /\ m.honest /\ s.state = "AUTHENTICATED" ->
         [s EXCEPT !.m4_pending = sent]
    [] OTHER ->
         [s EXCEPT !.gtk = m.gtk, !.install_pending = TRUE, !.m4_pending = sent,
                   !.state = IF sent THEN "M4_SENT" ELSE "M3_RECEIVED"]

\* mutant: the new group key is stored and not installed
InstallGroup_StoreOnly(d, s, m, taken) == d

(* A group key other than the stored one is stored, and set, unless the       *)
(* driver refuses it: wpa2_install_gtk then only writes a line to the log.    *)
InstallGroup(d, s, m, taken) ==
  CASE m.gtk = s.gtk           -> d
    [] m.gtk # s.gtk /\ taken  -> [d EXCEPT !.group = m.gtk, !.refused = @ \ {"group"}]
    [] m.gtk # s.gtk /\ ~taken -> [d EXCEPT !.refused = @ \cup {"group"}]

\* mutant: the report is taken for a success whatever it says
Completes_Blind(s, r) == s.m4_pending /\ r.type = "M4" /\ s.install_pending

(* wpa2_client_eapol_txdone for a report that finishes the handshake. *)
Completes(s, r) == s.m4_pending /\ r.type = "M4" /\ r.ok /\ s.install_pending

TxDone(s, r) ==
  CASE ~s.m4_pending \/ r.type # "M4" -> s
    [] Completes(s, r) ->
         [s EXCEPT !.m4_pending = FALSE, !.install_pending = FALSE,
                   !.state = "AUTHENTICATED", !.last_fail = "NONE"]
    [] OTHER ->
         [s EXCEPT !.m4_pending = FALSE, !.last_fail = IF r.ok THEN @ ELSE "M4_TX"]

(* wpa2_install_ptk and wpa2_install_gtk, after which the state is            *)
(* AUTHENTICATED whichever of the two the driver refused.  The histories: the *)
(* report was that of an earlier handshake's M4; a join came in between.      *)
Installed(d, s, refused, old, joined) ==
  [tk      |-> IF "tk" \in refused THEN d.tk ELSE s.ptk,
   stale   |-> IF "tk" \in refused THEN d.stale ELSE old,
   log     |-> IF "tk" \in refused THEN d.log ELSE Append(d.log, [key |-> s.ptk, over |-> joined]),
   group   |-> IF "group" \in refused THEN d.group ELSE s.gtk,
   refused |-> refused]
-----------------------------------------------------------------------------
(* The access point (external): it repeats what is not answered, and gives up *)
(* after MaxTries transmissions.                                              *)

ApSends(a, type) ==
  Frame(type, a.rc + 1, a.anonce, IF type = "M1" THEN NoKey ELSE a.ptk, a.gtk, a.honest)

Begun(a, phase) == [a EXCEPT !.phase = phase, !.first = a.rc + 1, !.rc = a.rc + 1, !.tries = 1]

(* An answer to any transmission of the current message counts. *)
Answers(a, m, type) ==
  /\ m.type = type /\ m.rc \in a.first .. a.rc
  /\ a.phase = CASE type = "M2" -> "M1" [] type = "M4" -> "M3" [] OTHER -> "G1"

GoodM2(a, m) == Answers(a, m, "M2") /\ m.key[1] /\ m.key[2] = a.anonce

(* What a frame that reaches it does. *)
ApAfter(a, m) ==
  CASE GoodM2(a, m)          -> Begun([a EXCEPT !.ptk = m.key], "M3")
    [] Answers(a, m, "M4") /\ m.key = a.ptk -> [a EXCEPT !.phase = "done", !.tk = a.ptk]
    [] Answers(a, m, "G2") /\ m.key = a.ptk -> [a EXCEPT !.phase = "done"]
    [] OTHER                 -> a

(* The reports still to come are those of an earlier handshake (history). *)
Aged == [i \in DOMAIN reports |-> [reports[i] EXCEPT !.old = TRUE]]

Quiet == down = <<>> /\ up = <<>> /\ reports = <<>>
-----------------------------------------------------------------------------
(* wpa2_client_join, from any state: the passphrase is right or not.  Without *)
(* an association the library makes one, again and again; over one that has   *)
(* not ended (keep_ap) the session is not reset, and goes on.                 *)
Join ==
  /\ \E right \in BOOLEAN :
       sta' = [sta EXCEPT !.right = right, !.last_fail = "NONE", !.state = "CONNECTING"]
  /\ \/ ap.phase = "idle" /\ down = <<>> /\ UNCHANGED <<over, trouble>>
     \/ /\ ap.phase # "idle" \/ down # <<>>
        /\ over' = TRUE
        /\ trouble > 0 /\ trouble' = trouble - 1
  /\ UNCHANGED <<driver, ap, air, acked>>

(* wpa2_client_sta_connect, for a join or the library's retry; the access     *)
(* point sends M1.                                                            *)
Associate ==
  /\ ap.phase = "idle" /\ down = <<>> /\ ap.anonce < MaxNonce
  /\ sta.state = "CONNECTING" \/ ap.anonce > 0
  /\ sta' = [ResetSession(sta) EXCEPT !.state = "CONNECTING"]
  /\ \E honest \in BOOLEAN :
       LET a == [ap EXCEPT !.anonce = @ + 1, !.rc = 0, !.honest = honest, !.ptk = NoKey]
       IN ap' = Begun(a, "M1") /\ down' = <<ApSends(a, "M1")>>
  /\ UNCHANGED <<driver, up, reports, acked, over, trouble>>

(* A frame the checks of wpa2_client_rx_eapol refuse. *)
Passes(m) ==
  /\ Awaits(sta) /\ Fresh(sta, m)
  /\ m.type = "M1" \/ MicGood(sta, m)
  /\ m.type = "G1" => sta.state = "AUTHENTICATED"

RxRefused ==
  /\ down # <<>> /\ Head(down).type # "DEAUTH" /\ ~Passes(Head(down))
  /\ down' = Tail(down)
  /\ sta' = IF Awaits(sta) /\ Fresh(sta, Head(down)) /\ MicGood(sta, Head(down))
            THEN [sta EXCEPT !.replay = Head(down).rc] ELSE sta
  /\ UNCHANGED <<driver, ap, up, reports, acked, over, trouble>>

(* The driver takes the answer or refuses it. *)
Sends(sent, reply) ==
  /\ up' = IF sent THEN Append(up, reply) ELSE up
  /\ trouble' = IF sent THEN trouble ELSE trouble - 1

RxM1 ==
  /\ down # <<>> /\ Head(down).type = "M1" /\ Passes(Head(down))
  /\ \E sent \in IF trouble = 0 THEN {TRUE} ELSE BOOLEAN :
       /\ sta' = ProcessM1(sta, Head(down), sent)
       /\ Sends(sent, Reply("M2", Head(down).rc, sta'.tptk))
  /\ down' = Tail(down)
  /\ UNCHANGED <<driver, ap, reports, acked, over>>

(* A deauthentication of the station's own ends in a disconnect event, too. *)
RxM3 ==
  /\ down # <<>> /\ Head(down).type = "M3" /\ Passes(Head(down))
  /\ LET m == Head(down)
         s == Verified(sta, m)
     IN \E sent \in IF trouble = 0 THEN {TRUE} ELSE BOOLEAN :
          /\ sta' = ProcessM3(s, m, sent)
          /\ IF m.anonce = s.anonce /\ m.honest
             THEN /\ Sends(sent, Reply("M4", m.rc, s.ptk))
                  /\ down' = Tail(down) /\ ap' = ap
             ELSE /\ sent /\ UNCHANGED <<up, trouble>>
                  /\ IF sta'.state = "FAILED"
                     THEN down' = <<Deauth>> /\ ap' = [ap EXCEPT !.phase = "idle"]
                     ELSE down' = Tail(down) /\ ap' = ap
  /\ UNCHANGED <<driver, reports, acked, over>>

(* wpa2_process_group1 *)
RxG1 ==
  /\ down # <<>> /\ Head(down).type = "G1" /\ Passes(Head(down))
  /\ LET m == Head(down)
         s == Verified(sta, m)
     IN /\ \E taken \in BOOLEAN : driver' = InstallGroup(driver, s, m, taken)
        /\ sta' = [s EXCEPT !.gtk = m.gtk]
        /\ \E sent \in IF trouble = 0 THEN {TRUE} ELSE BOOLEAN : Sends(sent, Reply("G2", m.rc, s.ptk))
  /\ down' = Tail(down)
  /\ UNCHANGED <<ap, reports, acked, over>>

(* wpa2_client_on_disconnected; the library forgets the keys and the frames   *)
(* it has not sent, but the reports of those it has sent still come.          *)
Disconnected ==
  /\ down # <<>> /\ Head(down).type = "DEAUTH"
  /\ sta' = [ResetSession(sta) EXCEPT !.state = "DISCONNECTED",
               !.last_fail = IF sta.state = "M2_SENT" THEN "NO_M3" ELSE @]
  /\ driver' = [driver EXCEPT !.tk = NoKey, !.group = 0, !.refused = {}, !.stale = FALSE]
  /\ ap' = [ap EXCEPT !.phase = "idle", !.tk = NoKey]
  /\ down' = <<>> /\ up' = <<>> /\ over' = FALSE
  /\ reports' = Aged
  /\ UNCHANGED <<acked, trouble>>

(* wpa2_client_eapol_txdone: a report does not say which frame it is of. *)
TxReport ==
  /\ reports # <<>>
  /\ LET r == Head(reports)
     IN /\ sta' = TxDone(sta, r)
        /\ IF Completes(sta, r)
           THEN \E refused \in SUBSET {"tk", "group"} :
                  driver' = Installed(driver, sta, refused, r.old, over)
           ELSE driver' = driver
  /\ reports' = Tail(reports)
  /\ UNCHANGED <<ap, down, up, acked, over, trouble>>
-----------------------------------------------------------------------------
(* The radio sends the first frame.  It arrives and is acknowledged; or it is *)
(* lost; or it arrives and its acknowledgement is lost; or it is acknowledged *)
(* and dropped inside the access point.                                       *)
Transmit ==
  /\ up # <<>>
  /\ \E arrives, ok \in BOOLEAN :
       LET m == Head(up)
       IN /\ trouble' = IF arrives /\ ok THEN trouble ELSE trouble - 1
          /\ (arrives /\ ok) \/ trouble > 0
          /\ reports' = Append(reports, [type |-> m.type, ok |-> ok, old |-> FALSE])
          /\ acked' = IF m.type = "M4" /\ (ok \/ arrives) THEN acked \cup {m.key} ELSE acked
          /\ ap' = IF arrives THEN ApAfter(ap, m) ELSE ap
          /\ down' = IF arrives /\ GoodM2(ap, m)
                     THEN Append(down, ApSends([ap EXCEPT !.ptk = m.key], "M3")) ELSE down
  /\ up' = Tail(up)
  /\ UNCHANGED <<sta, driver, over>>

(* A frame to the station is lost. *)
Lose ==
  /\ trouble > 0 /\ trouble' = trouble - 1
  /\ down # <<>> /\ Head(down).type # "DEAUTH"
  /\ down' = Tail(down)
  /\ UNCHANGED <<sta, driver, ap, up, reports, acked, over>>

(* The access point's timer, in time or too early. *)
ApTimeout ==
  /\ ap.phase \in {"M1", "M3", "G1"}
  /\ Quiet \/ trouble > 0
  /\ trouble' = IF Quiet THEN trouble ELSE trouble - 1
  /\ IF ap.tries < MaxTries
     THEN /\ ap' = [ap EXCEPT !.rc = @ + 1, !.tries = @ + 1]
          /\ down' = Append(down, ApSends(ap, ap.phase))
     ELSE ap' = [ap EXCEPT !.phase = "gone"] /\ down' = Append(down, Deauth)
  /\ UNCHANGED <<sta, driver, up, reports, acked, over>>

(* A new pairwise key, after the last frame and possibly before the last      *)
(* report; a new group key, possibly before the handshake's last frame.       *)
ApRekeys ==
  /\ ap.phase = "done" /\ down = <<>> /\ up = <<>> /\ ap.anonce < MaxNonce
  /\ LET a == [ap EXCEPT !.anonce = @ + 1]
     IN ap' = Begun(a, "M1") /\ down' = <<ApSends(a, "M1")>>
  /\ reports' = Aged
  /\ UNCHANGED <<sta, driver, up, acked, over, trouble>>

ApRekeysGroup ==
  /\ ap.phase = "done" /\ ap.gtk < MaxGtk
  /\ Quiet \/ trouble > 0
  /\ trouble' = IF Quiet THEN trouble ELSE trouble - 1
  /\ LET a == [ap EXCEPT !.gtk = @ + 1]
     IN ap' = Begun(a, "G1") /\ down' = Append(down, ApSends(a, "G1"))
  /\ UNCHANGED <<sta, driver, up, reports, acked, over>>

(* The association ends: the access point is out of reach, or the station's   *)
(* other modules leave it (esp_wifi_disconnect).                              *)
LinkLost ==
  /\ ap.phase \notin {"idle", "gone"}
  /\ ap' = [ap EXCEPT !.phase = "idle"]
  /\ down' = <<Deauth>> /\ up' = <<>>
  /\ UNCHANGED <<sta, driver, reports, acked, over, trouble>>
-----------------------------------------------------------------------------
Init ==
  /\ sta = [state |-> "DISCONNECTED", right |-> TRUE, last_fail |-> "NONE",
            snonce |-> 0, snonce_valid |-> FALSE, anonce |-> 0, tptk |-> NoKey, ptk |-> NoKey,
            replay |-> 0, m4_pending |-> FALSE, install_pending |-> FALSE, gtk |-> 0]
  /\ driver = [tk |-> NoKey, stale |-> FALSE, log |-> <<>>, group |-> 0, refused |-> {}]
  /\ ap = [phase |-> "idle", anonce |-> 0, rc |-> 0, first |-> 0, tries |-> 0, honest |-> TRUE,
           ptk |-> NoKey, tk |-> NoKey, gtk |-> 1]
  /\ down = <<>> /\ up = <<>> /\ reports = <<>>
  /\ acked = {} /\ over = FALSE
  /\ trouble = MaxTrouble

Next ==
  \/ Join \/ Associate
  \/ RxRefused \/ RxM1 \/ RxM3 \/ RxG1 \/ Disconnected \/ TxReport
  \/ Transmit \/ Lose \/ ApTimeout \/ ApRekeys \/ ApRekeysGroup \/ LinkLost

Spec == Init /\ [][Next]_vars
-----------------------------------------------------------------------------
TypeOK ==
  /\ sta \in [state : State, right : BOOLEAN, last_fail : Fail, snonce : 0 .. MaxNonce,
              snonce_valid : BOOLEAN, anonce : 0 .. MaxNonce, tptk : Key \cup {NoKey},
              ptk : Key \cup {NoKey}, replay : Nat, m4_pending : BOOLEAN,
              install_pending : BOOLEAN, gtk : 0 .. MaxGtk]
  /\ driver \in [tk : Key \cup {NoKey}, stale : BOOLEAN, log : Seq([key : Key, over : BOOLEAN]),
                 group : 0 .. MaxGtk, refused : SUBSET {"tk", "group"}]
  /\ ap \in [phase : {"idle", "M1", "M3", "G1", "done", "gone"}, anonce : 0 .. MaxNonce, rc : Nat,
             first : Nat, tries : 0 .. MaxTries, honest : BOOLEAN, ptk : Key \cup {NoKey},
             tk : Key \cup {NoKey}, gtk : 1 .. MaxGtk]
  /\ trouble \in 0 .. MaxTrouble /\ acked \subseteq Key /\ over \in BOOLEAN
  /\ sta.install_pending => sta.ptk # NoKey

(* No pairwise key is set twice, whatever is repeated: setting it again would *)
(* restart its packet numbers ("A retransmitted M3 after the keys are in only *)
(* gets a new M4", wpa2_process_m3).  The one way there is leads through a    *)
(* join over the association, which forgets that they are in.                 *)
NoKeyReinstalled ==
  \A i, j \in DOMAIN driver.log :
    i < j /\ driver.log[i].key = driver.log[j].key => driver.log[j].over

(* The station uses a key only after an M4 for that very key has reached the  *)
(* access point ("Keys are installed only once the AP can have received M4"): *)
(* no report of an M2, a G2 or a failed M4 stands for that of the M4.  The    *)
(* late report of an earlier handshake's M4 does, and only that.              *)
KeysFollowM4 == driver.tk # NoKey => driver.tk \in acked \/ driver.stale

(* Once everything has arrived and the access point considers the handshake   *)
(* done, a station in state AUTHENTICATED uses its pairwise and group keys,   *)
(* except for one that the driver refused when it was last to be set, and for *)
(* a pairwise key set on the report of an earlier handshake's M4.             *)
AuthenticatedMeansAgreed ==
  (Quiet /\ ap.phase = "done" /\ sta.state = "AUTHENTICATED") =>
    /\ driver.tk = ap.tk \/ "tk" \in driver.refused \/ driver.stale
    /\ driver.group = ap.gtk \/ "group" \in driver.refused

(* Fewer losses than transmissions never cost a station with the right        *)
(* passphrase its association, unless a join came over it: the access point   *)
(* gives up, after MaxTries transmissions, only if it had accepted an M4      *)
(* whose report the station missed.                                           *)
TroubleIsTolerated ==
  (ap.phase = "gone" /\ sta.right /\ ~over) =>
    ap.tk = ap.ptk /\ sta.state \in {"M3_RECEIVED", "M4_SENT"}
=============================================================================
