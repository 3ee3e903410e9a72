------------------------------- MODULE Station -------------------------------
(* How the board gets onto its Wi-Fi network: the join state machine and the  *)
(* setup mode of src/src/provisioning.c over the driver of src/src/wifi.c,    *)
(* the vendor library with its events, the credentials in NVS, the setup      *)
(* button and the portal's users.  A handler of the main loop is one action,  *)
(* each event of the library another; time is abstract, so that a deadline    *)
(* passes at any moment.                                                      *)
EXTENDS Naturals

CONSTANTS Cred,          \* credentials: a network's name with its passphrase
          NoCred,        \* not provisioned
          Accepted,      \* the credentials some network accepts
          Open,          \* the credentials without a passphrase
          Stripped,      \* credentials -> the same network without the passphrase
          FastAttempts,  \* WIFI_LINK_FAST_ATTEMPTS
          MaxBackoff,    \* doublings from WIFI_LINK_RETRY_MIN_US to WIFI_LINK_RETRY_MAX_US
          MaxTrouble     \* bound: link losses, spurious failures, moved networks, resets

ASSUME CredAssumption ==
  /\ NoCred \notin Cred
  /\ Open \subseteq Cred /\ Accepted \subseteq Cred \ Open
  /\ Stripped \in [Cred -> Open]
ASSUME NumberAssumption == {FastAttempts, MaxBackoff, MaxTrouble} \subseteq Nat

VARIABLES
  board,    \* the static variables of provisioning.c, wifi.c, wifi_link.c, and NVS's cache
  radio,    \* the vendor library and the networks around
  stored,   \* the credentials in the NVS sector
  overdue,  \* a change of them has waited NVS_COMMIT_MAX_HOLD_US
  trouble,  \* what is left of the bound
  tested,   \* history: credentials the board has associated with
  overlaid  \* history: credentials whose join began over a live association

hist == <<tested, overlaid>>
vars == <<board, radio, stored, overdue, trouble, hist>>

JoinState == {"IDLE", "PENDING", "JOINING", "HANDOVER", "ONLINE", "RETRY_WAIT", "FAILED"}

(* After a reset, with the credentials k read from NVS. *)
FreshBoard(k) ==
  [creds |-> k, kept |-> k,                  \* s_prov_creds; the keys in the NVS cache
   state |-> "IDLE", keep_ap |-> FALSE, unproven |-> FALSE, fast_path |-> FALSE,
   backoff |-> 0,                            \* retry_delay_us, in doublings
   lost |-> FALSE,                           \* the disconnect count is not s_prov_join_disc_base
   setup |-> FALSE, prev |-> NoCred,         \* s_prov_setup.active, s_prov_setup_prev
   cached |-> FALSE, fast_failures |-> 0,    \* s_link_cache
   ap_running |-> FALSE, wifi |-> "IDLE",    \* s_wifi_ap_running, s_wifi_telemetry.state
   sta_started |-> FALSE, sta_connected |-> FALSE, sta_keep_ap |-> FALSE,
   dhcp |-> FALSE,                           \* the DHCP client runs
   wpa_fail |-> FALSE]                       \* last_fail of the supplicant is set

(* The library: the SoftAP, the credentials it is associated with or trying,  *)
(* a disconnect event on its way, and whether the remembered AP is gone.      *)
SilentRadio == [ap |-> FALSE, assoc |-> NoCred, trying |-> NoCred, leaving |-> FALSE, moved |-> FALSE]

(* The handlers are functions on both.                                        *)
Here == [b |-> board, r |-> radio]

ApActive(b)     == b.ap_running \/ b.wifi = "AP_ACTIVE"        \* wifi_is_ap_active
StaConnected(b) == b.sta_connected \/ b.wifi = "CONNECTED"     \* wifi_is_sta_connected
-----------------------------------------------------------------------------
(* wifi_handle_vendor_event *)

\* mutant: a disconnect is not counted while the SoftAP is up
StaDisconnected_Uncounted(b) ==
  [b EXCEPT !.sta_connected = FALSE, !.lost = @ \/ ~b.ap_running, !.dhcp = FALSE,
            !.wifi = IF b.ap_running THEN "AP_ACTIVE" ELSE "ACTIVE"]

StaDisconnected(b) ==
  [b EXCEPT !.sta_connected = FALSE, !.lost = TRUE, !.dhcp = FALSE,
            !.wifi = IF b.ap_running THEN "AP_ACTIVE" ELSE "ACTIVE"]

StaStop(b) == [b EXCEPT !.sta_connected = FALSE, !.sta_started = FALSE, !.wifi = "IDLE"]

ApStop(b) == [b EXCEPT !.ap_running = FALSE, !.wifi = "IDLE"]

(* Outside a portal join the IP stack follows the station. *)
StaConnectedEvent(b) ==
  [b EXCEPT !.sta_connected = TRUE, !.wifi = "CONNECTED", !.wpa_fail = FALSE,
            !.dhcp = @ \/ ~(b.sta_keep_ap /\ b.ap_running)]
-----------------------------------------------------------------------------
(* The calls of wifi.c, with the events the library posts meanwhile. *)

RadioStop(c) ==                                              \* esp_wifi_stop
  [b |-> ApStop(StaStop(IF c.r.assoc # NoCred THEN StaDisconnected(c.b) ELSE c.b)),
   r |-> [c.r EXCEPT !.ap = FALSE, !.assoc = NoCred, !.trying = NoCred, !.leaving = FALSE]]

(* esp_wifi_disconnect: its event follows. *)
RadioLeave(c) ==
  [c EXCEPT !.r.leaving = @ \/ c.r.assoc # NoCred \/ c.r.trying # NoCred,
            !.r.assoc = NoCred, !.r.trying = NoCred]

StartAp(c) ==
  [RadioStop(c) EXCEPT !.b.ap_running = TRUE, !.b.wifi = "AP_ACTIVE", !.b.sta_keep_ap = FALSE,
                       !.r.ap = TRUE]

StopAp(c) == [RadioStop(c) EXCEPT !.b.sta_keep_ap = FALSE]

(* wifi_sta_leave_current waits for the event. *)
LeaveCurrent(c) ==
  [b |-> StaDisconnected(c.b), r |-> [RadioLeave(c).r EXCEPT !.leaving = FALSE]]

(* wifi_sta_begin.  The library refuses to connect while it is associated,    *)
(* which wpa2_client_join does not look at.                                   *)
StaBegin(c, ask_keep) ==
  LET keep    == ask_keep /\ c.b.ap_running
      alone   == IF c.b.ap_running /\ ~keep THEN StopAp(c) ELSE c
      free    == IF ~keep /\ StaConnected(alone.b) THEN LeaveCurrent(alone) ELSE alone
      running == IF keep THEN free.b.sta_started ELSE free.b.wifi \in {"ACTIVE", "CONNECTED"}
      started == [free EXCEPT !.b.sta_keep_ap = keep, !.b.sta_started = TRUE,
                              !.b.wifi = IF running THEN @ ELSE "ACTIVE"]
  IN IF started.r.assoc # NoCred THEN started
     ELSE [started EXCEPT !.r.trying = c.b.creds, !.b.sta_connected = FALSE]

(* wpa2_client_join, for credentials wpa2_client_configure takes. *)
Wpa2Join(c) ==
  LET configured == [c EXCEPT !.b.wpa_fail = FALSE, !.b.dhcp = FALSE]
  IN StaBegin(IF ~c.b.keep_ap /\ ApActive(c.b) THEN StopAp(configured) ELSE configured, c.b.keep_ap)

(* wifi_sta_end_attempt *)
EndAttempt(c) ==
  [RadioLeave(c) EXCEPT !.b.sta_connected = FALSE,
     !.b.wifi = IF @ # "CONNECTED" THEN @ ELSE IF c.b.ap_running THEN "AP_ACTIVE" ELSE "ACTIVE"]

(* wifi_sta_abort_keep_ap *)
AbortKeepAp(c) ==
  LET left == [RadioLeave(c) EXCEPT !.b.sta_keep_ap = FALSE, !.b.sta_connected = FALSE]
  IN IF c.b.ap_running THEN [left EXCEPT !.b = [StaStop(@) EXCEPT !.wifi = "AP_ACTIVE"]] ELSE left

\* mutant: the DHCP client is not started
TakeOver_NoDhcp(c) ==
  LET alone == [c EXCEPT !.b = ApStop([@ EXCEPT !.sta_keep_ap = FALSE]), !.r.ap = FALSE]
  IN IF ~c.b.sta_keep_ap THEN [ok |-> FALSE, c |-> c]
     ELSE IF ~StaConnected(alone.b) THEN [ok |-> FALSE, c |-> alone]
     ELSE [ok |-> TRUE, c |-> [alone EXCEPT !.b.wifi = "CONNECTED"]]

(* wifi_sta_take_over: whether it succeeds, and the state afterwards. *)
TakeOver(c) ==
  LET alone == [c EXCEPT !.b = ApStop([@ EXCEPT !.sta_keep_ap = FALSE]), !.r.ap = FALSE]
  IN IF ~c.b.sta_keep_ap THEN [ok |-> FALSE, c |-> c]
     ELSE IF ~StaConnected(alone.b) THEN [ok |-> FALSE, c |-> alone]
     ELSE [ok |-> TRUE, c |-> [alone EXCEPT !.b.wifi = "CONNECTED", !.b.dhcp = TRUE]]
-----------------------------------------------------------------------------
(* Joining: prov_join_begin and what an attempt ends in. *)

JoinBegin(c, keep) ==
  IF c.b.creds = NoCred THEN c
  ELSE [c EXCEPT !.b.state = "PENDING", !.b.keep_ap = keep /\ ApActive(c.b), !.b.unproven = FALSE,
                 !.b.backoff = 0, !.b.fast_path = FALSE]

(* provisioning_request_join: wifi_link_forget as well. *)
RequestJoin(c, keep) == [JoinBegin(c, keep) EXCEPT !.b.cached = FALSE, !.b.fast_failures = 0]

JoinBusy(b)      == b.state \in {"PENDING", "JOINING", "HANDOVER"}   \* the NVS commit gate
PortalJoin(b)    == b.keep_ap /\ JoinBusy(b)                         \* prov_portal_join_in_flight

\* mutant: the backoff doubles without its cap
NextBackoff_Uncapped(n) == n + 1

NextBackoff(n) == IF n < MaxBackoff THEN n + 1 ELSE n

\* mutant: failures of the fast path are not counted
FailedFast_Never(b) == b.fast_failures

FailedFast(b) ==                                          \* wifi_link_on_attempt_failed
  IF b.fast_path /\ b.fast_failures < FastAttempts THEN b.fast_failures + 1 ELSE b.fast_failures

ScheduleRetry(b) == [b EXCEPT !.state = "RETRY_WAIT", !.backoff = NextBackoff(@)]

(* Portal credentials that never joined give way to those from before setup   *)
(* mode, or to none.                                                          *)
Forget(b) ==
  LET back == IF b.unproven THEN (IF b.setup THEN b.prev ELSE NoCred) ELSE b.creds
  IN [b EXCEPT !.creds = back, !.kept = IF b.unproven THEN back ELSE @, !.unproven = FALSE]

AttemptFailed(c) ==
  IF c.b.keep_ap
  THEN [AbortKeepAp(c) EXCEPT !.b = [Forget(@) EXCEPT !.state = "FAILED"]]
  ELSE [EndAttempt(c) EXCEPT !.b = [ScheduleRetry(@) EXCEPT !.fast_failures = FailedFast(c.b)]]

JoinSucceeded(c) ==
  [c EXCEPT !.b.cached = TRUE, !.b.fast_failures = 0, !.b.unproven = FALSE, !.b.backoff = 0,
            !.b.state = IF c.b.keep_ap THEN "HANDOVER" ELSE "ONLINE", !.r.moved = FALSE]
-----------------------------------------------------------------------------
(* Setup mode. *)

SetupEnd(c) == [c EXCEPT !.b.setup = FALSE, !.b.prev = NoCred]

\* mutant: closing does not go back to the saved network
SetupClose_NoRejoin(c) ==
  LET ended == SetupEnd(c) IN IF ApActive(ended.b) THEN StopAp(ended) ELSE ended

\* mutant: closing leaves the SoftAP on
SetupClose_LeavesAp(c) == JoinBegin(SetupEnd(c), FALSE)

SetupClose(c) ==
  LET ended == SetupEnd(c)
  IN JoinBegin(IF ApActive(ended.b) THEN StopAp(ended) ELSE ended, FALSE)

SetupOpen(c) ==
  StartAp([c EXCEPT !.b.setup = TRUE, !.b.prev = c.b.creds, !.b.state = "IDLE",
                    !.b.keep_ap = FALSE, !.b.unproven = FALSE, !.b.dhcp = FALSE])

(* prov_setup_tick: its outcomes, as the idle and the maximum time may have   *)
(* passed.                                                                    *)
SetupTick(c) ==
  IF ~c.b.setup THEN {c}
  ELSE IF c.b.state = "ONLINE" /\ ~ApActive(c.b) THEN {SetupEnd(c)}
  ELSE IF PortalJoin(c.b) THEN {c} ELSE {c, SetupClose(c)}
-----------------------------------------------------------------------------
(* provisioning_tick: a state, then prov_setup_tick. *)

EndTick(c) == \E d \in SetupTick(c) : board' = d.b /\ radio' = d.r

(* The join call.  An earlier disconnect has been reported by then: a portal  *)
(* join waits PROV_PORTAL_JOIN_DELAY_US, a retry the backoff.                 *)
TickPending ==
  /\ board.state = "PENDING"
  /\ ~radio.leaving
  /\ LET fast  == ~board.keep_ap /\ board.cached /\ board.fast_failures < FastAttempts
         begun == [Here EXCEPT !.b.state = "JOINING", !.b.fast_path = fast]
     IN IF board.creds \in Open
        THEN /\ EndTick(AttemptFailed([begun EXCEPT !.b.lost = FALSE]))
             /\ UNCHANGED overlaid
        ELSE /\ EndTick([Wpa2Join(begun) EXCEPT !.b.lost = FALSE])
             /\ overlaid' = IF Wpa2Join(begun).r.assoc = NoCred THEN overlaid
                            ELSE overlaid \cup {board.creds}
  /\ UNCHANGED <<stored, overdue, trouble, tested>>

Joined == ~board.lost /\ ~board.wpa_fail /\ StaConnected(board)

TickJoined ==
  /\ board.state = "JOINING"
  /\ Joined
  /\ EndTick(JoinSucceeded(Here))
  /\ UNCHANGED <<stored, overdue, trouble, hist>>

(* A disconnect, the supplicant's verdict or the timeout. *)
TickJoinFailed ==
  /\ board.state = "JOINING"
  /\ ~Joined
  /\ EndTick(AttemptFailed(Here))
  /\ UNCHANGED <<stored, overdue, trouble, hist>>

(* The link may be lost while wifi_sta_take_over changes the mode. *)
TickHandover ==
  /\ board.state = "HANDOVER"
  /\ LET after(c) == IF TakeOver(c).ok
                     THEN [TakeOver(c).c EXCEPT !.b.state = "ONLINE", !.b.keep_ap = FALSE]
                     ELSE AttemptFailed([TakeOver(c).c EXCEPT !.b.keep_ap = FALSE])
     IN IF board.lost THEN EndTick(AttemptFailed(Here)) /\ UNCHANGED trouble
        ELSE \/ EndTick(after(Here)) /\ UNCHANGED trouble
             \/ /\ trouble > 0 /\ trouble' = trouble - 1
                /\ EndTick(after([b |-> StaDisconnected(board), r |-> [radio EXCEPT !.assoc = NoCred]]))
  /\ UNCHANGED <<stored, overdue, hist>>

TickOnline ==
  /\ board.state = "ONLINE"
  /\ board.lost
  /\ EndTick([Here EXCEPT !.b = [ScheduleRetry(@) EXCEPT !.lost = FALSE]])
  /\ UNCHANGED <<stored, overdue, trouble, hist>>

TickRetryWait ==
  /\ board.state = "RETRY_WAIT"
  /\ EndTick([Here EXCEPT !.b.state = "PENDING"])
  /\ UNCHANGED <<stored, overdue, trouble, hist>>

(* Nothing to do for the join. *)
TickSetup ==
  /\ board.setup
  /\ board.state \in {"IDLE", "FAILED"}
  /\ EndTick(Here)
  /\ UNCHANGED <<stored, overdue, trouble, hist>>

Tick == TickPending \/ TickJoined \/ TickJoinFailed \/ TickHandover \/ TickOnline \/ TickRetryWait \/ TickSetup
-----------------------------------------------------------------------------
Aged == overdue \/ (JoinBusy(board) /\ board.kept # stored)

(* provisioning_set_credentials writes the name, then the passphrase; a store *)
(* that is full may refuse a key it does not have.                            *)
SetCredentials(b, k) == [b EXCEPT !.creds = k, !.kept = k]

\* mutant: the join is requested after the credentials were marked unproven
Configured_Swapped(c, k) == RequestJoin([c EXCEPT !.b = [SetCredentials(@, k) EXCEPT !.unproven = TRUE]], TRUE)

Configured(c, k) == [RequestJoin([c EXCEPT !.b = SetCredentials(@, k)], TRUE) EXCEPT !.b.unproven = TRUE]

(* POST /api/wifi/configure, from the SoftAP or from the LAN. *)
Configure(k) ==
  /\ radio.ap \/ (radio.assoc # NoCred /\ board.dhcp)
  /\ LET after == Configured(Here, k) IN board' = after.b /\ radio' = after.r
  /\ overdue' = Aged
  /\ UNCHANGED <<stored, trouble, hist>>

ConfigureFails(k) ==
  /\ radio.ap \/ (radio.assoc # NoCred /\ board.dhcp)
  /\ k \notin Open
  /\ board.kept \in Open \cup {NoCred}
  /\ trouble > 0 /\ trouble' = trouble - 1
  /\ board' = [board EXCEPT !.kept = Stripped[k]]
  /\ UNCHANGED <<radio, stored, overdue, hist>>

(* provisioning_on_setup_button *)
SetupButton ==
  /\ LET after == IF board.setup THEN SetupClose(Here)
                  ELSE IF ApActive(board) THEN Here ELSE SetupOpen(Here)
     IN board' = after.b /\ radio' = after.r
  /\ overdue' = (Aged /\ board.setup)
  /\ UNCHANGED <<stored, trouble, hist>>

(* nvs_tick commits when no join is in flight, or after the maximum hold. *)
Commit ==
  /\ board.kept # stored \/ overdue
  /\ overdue \/ ~JoinBusy(board)
  /\ stored' = board.kept
  /\ overdue' = FALSE
  /\ UNCHANGED <<board, radio, trouble, hist>>
-----------------------------------------------------------------------------
(* The library and the air. *)

Trouble == trouble > 0 /\ trouble' = trouble - 1

(* STA_CONNECTED, posted after the handshake. *)
Associate ==
  /\ radio.trying \in Accepted
  /\ ~(board.fast_path /\ radio.moved)
  /\ radio' = [radio EXCEPT !.assoc = radio.trying, !.trying = NoCred]
  /\ board' = StaConnectedEvent(board)
  /\ tested' = tested \cup {radio.trying}
  /\ UNCHANGED <<stored, overdue, trouble, overlaid>>

Hopeless == radio.trying \notin Accepted \/ (board.fast_path /\ radio.moved)

(* STA_DISCONNECTED: no such network, or it refuses.  The library may go on   *)
(* trying by itself.                                                          *)
Refuse ==
  /\ radio.trying # NoCred
  /\ IF Hopeless THEN UNCHANGED trouble ELSE Trouble
  /\ \E again \in {NoCred, radio.trying} : radio' = [radio EXCEPT !.trying = again]
  /\ \E m2_sent \in BOOLEAN : board' = [StaDisconnected(board) EXCEPT !.wpa_fail = @ \/ m2_sent]
  /\ UNCHANGED <<stored, overdue, hist>>

(* The supplicant gives up; the library goes on trying. *)
SupplicantFails ==
  /\ radio.trying # NoCred
  /\ IF Hopeless THEN UNCHANGED trouble ELSE Trouble
  /\ board' = [board EXCEPT !.wpa_fail = TRUE]
  /\ UNCHANGED <<radio, stored, overdue, hist>>

LinkLost ==
  /\ radio.assoc # NoCred
  /\ Trouble
  /\ \E moved \in BOOLEAN, again \in {NoCred, radio.assoc} :
       radio' = [radio EXCEPT !.assoc = NoCred, !.trying = again, !.moved = @ \/ moved]
  /\ board' = StaDisconnected(board)
  /\ UNCHANGED <<stored, overdue, hist>>

(* The event of an esp_wifi_disconnect. *)
LeaveReported ==
  /\ radio.leaving
  /\ radio' = [radio EXCEPT !.leaving = FALSE]
  /\ board' = StaDisconnected(board)
  /\ UNCHANGED <<stored, overdue, trouble, hist>>

Booted(k) ==                                                  \* provisioning_boot
  LET c == [b |-> FreshBoard(k), r |-> SilentRadio]
  IN IF k # NoCred THEN RequestJoin(c, FALSE) ELSE StartAp(c)

Reset ==
  /\ Trouble
  /\ board' = Booted(stored).b /\ radio' = Booted(stored).r
  /\ overdue' = FALSE
  /\ UNCHANGED <<stored, hist>>

Init ==
  /\ stored \in Accepted \cup {NoCred}
  /\ board = Booted(stored).b /\ radio = Booted(stored).r
  /\ overdue = FALSE
  /\ trouble = MaxTrouble
  /\ tested = {stored} \ {NoCred} /\ overlaid = {}

Next ==
  \/ Tick
  \/ \E k \in Cred : Configure(k)
  \/ \E k \in Cred : ConfigureFails(k)
  \/ SetupButton \/ Commit
  \/ Associate \/ Refuse \/ SupplicantFails \/ LinkLost \/ LeaveReported
  \/ Reset

(* The main loop calls provisioning_tick on every turn, an event on its way   *)
(* arrives, a network that is tried again and again answers once, and no user *)
(* for ever sends new credentials just before the tick that would see the     *)
(* connection.                                                                *)
Fairness ==
  /\ WF_vars(Tick) /\ WF_vars(LeaveReported)
  /\ SF_vars(Associate) /\ SF_vars(TickJoined)

Spec == Init /\ [][Next]_vars /\ Fairness
-----------------------------------------------------------------------------
Board ==
  [creds : Cred \cup {NoCred}, kept : Cred \cup {NoCred}, state : JoinState,
   keep_ap : BOOLEAN, unproven : BOOLEAN, fast_path : BOOLEAN, backoff : 0 .. MaxBackoff,
   lost : BOOLEAN, setup : BOOLEAN, prev : Cred \cup {NoCred}, cached : BOOLEAN,
   fast_failures : 0 .. FastAttempts, ap_running : BOOLEAN,
   wifi : {"IDLE", "ACTIVE", "CONNECTED", "AP_ACTIVE"}, sta_started : BOOLEAN,
   sta_connected : BOOLEAN, sta_keep_ap : BOOLEAN, dhcp : BOOLEAN, wpa_fail : BOOLEAN]

Radio ==
  [ap : BOOLEAN, assoc : Cred \cup {NoCred}, trying : Cred \cup {NoCred},
   leaving : BOOLEAN, moved : BOOLEAN]

TypeOK ==
  /\ board \in Board /\ radio \in Radio
  /\ stored \in Cred \cup {NoCred}
  /\ overdue \in BOOLEAN /\ trouble \in 0 .. MaxTrouble
  /\ tested \subseteq Cred /\ overlaid \subseteq Cred

(* A board with credentials is always on its way to a network, or reachable   *)
(* over its SoftAP: no order of button presses, portal requests, failures and *)
(* timeouts leaves it silent.                                                 *)
NeverStranded ==
  board.creds # NoCred =>
    board.state \in {"PENDING", "JOINING", "HANDOVER", "ONLINE", "RETRY_WAIT"} \/ radio.ap

(* The SoftAP is up only on a board without credentials, in setup mode, for a *)
(* portal join or after one that failed ("Provisioned: never start the        *)
(* SoftAP", provisioning.c).                                                  *)
ApHasReason ==
  radio.ap => \/ board.creds = NoCred
              \/ board.setup
              \/ PortalJoin(board)
              \/ board.state = "FAILED"

(* After a portal join that failed in the setup mode of a provisioned board,  *)
(* the credentials are those from before or some the library has associated   *)
(* with.  The one exception: those whose join began while the station was     *)
(* still associated (a second POST during the hand-over), where               *)
(* prov_join_succeeded takes the connection of the old credentials for theirs.*)
FailedKeepsWhatWorked ==
  (board.state = "FAILED" /\ board.setup /\ board.prev # NoCred)
    => board.creds \in {board.prev} \cup tested \cup overlaid

(* A board that believes itself connected and is not will be told: the count  *)
(* of disconnects differs from the one it compares with.                      *)
LossIsNoticed ==
  (board.state \in {"HANDOVER", "ONLINE"} /\ radio.assoc = NoCred) => board.lost

(* Once online, the DHCP client asks for an address and the SoftAP is down,   *)
(* whichever way the station joined.                                          *)
OnlineHasAddress ==
  (board.state = "ONLINE" /\ ~board.lost) => board.dhcp /\ ~radio.ap

(* The comment at prov_join_attempt_failed: portal credentials that have not  *)
(* joined do not survive a reboot.  Those found in the sector and in use have *)
(* joined, or the portal join that decides about them is still going on.      *)
UnprovenDoNotSurvive ==
  (stored = board.kept /\ stored # NoCred) =>
    stored \in tested \/ (board.unproven /\ PortalJoin(board))

(* A board with good credentials, outside setup mode, gets online in the end: *)
(* no attempt hangs, no backoff is the last, and a remembered AP that is gone *)
(* is given up.                                                               *)
Trying ==
  /\ board.creds \in Accepted /\ ~board.keep_ap
  /\ board.state \in {"PENDING", "JOINING", "RETRY_WAIT"}

JoinsGoOn == Trying ~> (board.state = "ONLINE" \/ board.setup \/ board.creds \notin Accepted)
=============================================================================
