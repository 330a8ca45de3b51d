---------------------------------- MODULE Wps ----------------------------------
(***************************************************************************)
(* What the motor board and the button may do to the WiFi mode: the two    *)
(* datagrams that dg_handler of user/datalink.c passes on to               *)
(* user/wificontrol.c, and the button of user/io.c, which brings the       *)
(* access point back.                                                      *)
(*                                                                         *)
(* Time goes in steps of 500 ms, in which the button is polled once. A WPS *)
(* session of the SDK runs until it is disabled, and reports once, when it *)
(* has found a network or failed.                                          *)
(***************************************************************************)
EXTENDS Integers

CONSTANTS
  WpsDelay,     \* 60000 ms, in steps of 500 ms
  HeldPolls,    \* polls with the button down that ask for a reset: 6
  MaxRequests   \* bound of the model: requests of the motor board and the web

ASSUME WpsAssumption ==
  WpsDelay \in Nat \ {0} /\ HeldPolls \in Nat \ {0} /\ MaxRequests \in Nat

VARIABLES
  opmode,           \* wifi_get_opmode, kept in flash
  joined,           \* the station is joining or has joined a network
  wpsInProgress,    \* wps_in_progress
  sdkWps,           \* a session runs in the SDK, which was asked for one and agreed
  abortTimer,       \* wps_abort_timer: steps until it is due
  age,              \* history: how long ago the last session was started
  button,           \* GPIO0 is low
  polling,          \* resetBtntimer was installed
  pollDue,          \* and is due
  resetCnt,         \* resetCnt, which need not be counted beyond HeldPolls
  requests          \* of the motor board and the web, so far

sessionVars == <<joined, wpsInProgress, sdkWps, abortTimer, age>>
buttonVars == <<button, polling, pollDue, resetCnt>>
wpsVars == <<opmode, sessionVars, buttonVars, requests>>

Off == -1

WpsTypeOK ==
  /\ opmode \in {"sta", "ap", "both"}
  /\ joined \in BOOLEAN /\ wpsInProgress \in BOOLEAN /\ sdkWps \in BOOLEAN
  /\ abortTimer \in Off .. WpsDelay
  /\ age \in 0 .. WpsDelay
  /\ button \in BOOLEAN /\ polling \in BOOLEAN /\ pollDue \in BOOLEAN
  /\ resetCnt \in 0 .. HeldPolls
  /\ requests \in 0 .. MaxRequests

\* ioInit: with the button down at the start, it is not polled.
WpsStart ==
  /\ joined = FALSE
  /\ wpsInProgress = FALSE /\ sdkWps = FALSE /\ abortTimer = Off /\ age = 0
  /\ button = FALSE /\ polling = TRUE /\ pollDue = FALSE /\ resetCnt = 0
  /\ requests = 0

WpsInit == opmode \in {"sta", "ap", "both"} /\ WpsStart

\* system_restart; the button is looked at while the chip boots.
Restart(mode) ==
  /\ opmode' = mode
  /\ wpsInProgress' = FALSE /\ sdkWps' = FALSE /\ abortTimer' = Off /\ age' = 0
  /\ button' \in BOOLEAN
  /\ polling' = ~button'
  /\ pollDue' = FALSE /\ resetCnt' = 0
  /\ joined' \in BOOLEAN
----------------------------------------------------------------------------
(***************************************************************************)
(* Datagrams.                                                              *)
(***************************************************************************)

\* wificontrol_setmode_ap.
SetModeAp ==
  /\ Restart("both")
  /\ requests' = requests + 1

\* The web interface sets a mode and restarts the chip, with or without a session (WifiJoin).
WebRestart ==
  /\ requests < MaxRequests
  /\ \E mode \in {"sta", "ap", "both"} : Restart(mode)
  /\ requests' = requests + 1

\* A second request aborts the session. Its timer is left alone.
AbortByRequest ==
  /\ wpsInProgress
  /\ wpsInProgress' = FALSE /\ sdkWps' = FALSE
  /\ requests' = requests + 1
  /\ UNCHANGED <<opmode, joined, abortTimer, age, buttonVars>>

\* Mutant of StartWps: a timer that is armed is left alone.
StartWpsOldTimer ==
  /\ ~wpsInProgress
  /\ opmode' = "sta" /\ joined' = FALSE
  /\ wpsInProgress' = TRUE /\ sdkWps' \in BOOLEAN
  /\ abortTimer' = IF abortTimer = Off THEN WpsDelay ELSE abortTimer
  /\ age' = 0
  /\ requests' = requests + 1
  /\ UNCHANGED buttonVars

\* Mutant of StartWps: no timer.
StartWpsNoTimer ==
  /\ ~wpsInProgress
  /\ opmode' = "sta" /\ joined' = FALSE
  /\ wpsInProgress' = TRUE /\ sdkWps' \in BOOLEAN
  /\ abortTimer' = Off
  /\ age' = 0
  /\ requests' = requests + 1
  /\ UNCHANGED buttonVars

\* A session is started: the access point is given up, the timer of a session aborted before
\* is disarmed and armed anew. Whether the SDK starts one is what wifi_wps_enable and
\* wifi_wps_start return, and nobody looks. The second the function spins for passes with no
\* callback.
StartWps ==
  /\ ~wpsInProgress
  /\ opmode' = "sta" /\ joined' = FALSE
  /\ wpsInProgress' = TRUE /\ sdkWps' \in BOOLEAN
  /\ abortTimer' = WpsDelay
  /\ age' = 0
  /\ requests' = requests + 1
  /\ UNCHANGED buttonVars

\* dg_handler.
Datagram == requests < MaxRequests /\ (SetModeAp \/ StartWps \/ AbortByRequest)
----------------------------------------------------------------------------
(***************************************************************************)
(* The SDK and the timers.                                                 *)
(***************************************************************************)

\* my_wps_cb: with a network that was found it is joined; the end of the session in any case.
WpsCb(found) ==
  /\ sdkWps
  /\ joined' = (joined \/ found)
  /\ wpsInProgress' = FALSE /\ sdkWps' = FALSE
  /\ abortTimer' = Off
  /\ UNCHANGED <<opmode, age, buttonVars, requests>>

\* Mutant of AbortWpsCb: the flag stays.
AbortWpsCbKeepsFlag ==
  /\ abortTimer = 0
  /\ abortTimer' = Off
  /\ sdkWps' = FALSE
  /\ UNCHANGED <<opmode, joined, wpsInProgress, age, buttonVars, requests>>

\* abort_wps_cb, the time of a session is over.
AbortWpsCb ==
  /\ abortTimer = 0
  /\ abortTimer' = Off
  /\ wpsInProgress' = FALSE /\ sdkWps' = FALSE
  /\ UNCHANGED <<opmode, joined, age, buttonVars, requests>>

\* Someone presses the button or lets it go.
Finger ==
  /\ button' = ~button
  /\ UNCHANGED <<opmode, sessionVars, polling, pollDue, resetCnt, requests>>

\* Mutant of Poll: the count is cleared before it is looked at.
PollClearsFirst ==
  /\ pollDue
  /\ \/ /\ button
        /\ resetCnt' = IF resetCnt < HeldPolls THEN resetCnt + 1 ELSE resetCnt
        /\ pollDue' = FALSE
        /\ UNCHANGED <<opmode, sessionVars, button, polling>>
     \/ /\ ~button
        /\ resetCnt' = 0 /\ pollDue' = FALSE
        /\ UNCHANGED <<opmode, sessionVars, button, polling>>
  /\ UNCHANGED requests

\* resetBtnTimerCb.
Poll ==
  /\ pollDue
  /\ \/ /\ button
        /\ resetCnt' = IF resetCnt < HeldPolls THEN resetCnt + 1 ELSE resetCnt
        /\ pollDue' = FALSE
        /\ UNCHANGED <<opmode, sessionVars, button, polling>>
     \/ /\ ~button /\ resetCnt >= HeldPolls
        /\ Restart("both")
     \/ /\ ~button /\ resetCnt < HeldPolls
        /\ resetCnt' = 0 /\ pollDue' = FALSE
        /\ UNCHANGED <<opmode, sessionVars, button, polling>>
  /\ UNCHANGED requests

\* 500 ms pass; what is due is served first.
Tick ==
  /\ abortTimer # 0 /\ ~pollDue
  /\ abortTimer > 0 \/ polling
  /\ abortTimer' = IF abortTimer = Off THEN Off ELSE abortTimer - 1
  /\ age' = IF age < WpsDelay THEN age + 1 ELSE age
  /\ pollDue' = polling
  /\ UNCHANGED <<opmode, joined, wpsInProgress, sdkWps, button, polling, resetCnt, requests>>

WpsNext ==
  \/ Datagram
  \/ WebRestart
  \/ \E found \in BOOLEAN : WpsCb(found)
  \/ AbortWpsCb
  \/ Finger
  \/ Poll
  \/ Tick

WpsSpec == WpsInit /\ [][WpsNext]_wpsVars

\* Time goes on, and the SDK serves the timers that are due.
WpsFairness ==
  /\ WF_wpsVars(AbortWpsCb)
  /\ WF_wpsVars(Poll)
  /\ WF_wpsVars(Tick)

WpsFairSpec == WpsSpec /\ WpsFairness
----------------------------------------------------------------------------
\* The SDK makes a session only while wps_in_progress is set, by which a request is taken for
\* a start or an abort, and the flag goes with a timer that gives a session its whole time,
\* whatever was aborted or ended before it. (The flag may be set with no session behind it: the
\* SDK refused to start one. Then, too, the timer ends that.)
SessionHasItsTime ==
  /\ sdkWps => wpsInProgress
  /\ wpsInProgress => abortTimer # Off /\ abortTimer + age = WpsDelay

\* Every session ends, one that never began included: by its network, by a request, by a
\* restart or by its timer.
SessionEnds == wpsInProgress ~> ~wpsInProgress

\* Who held the button long enough and lets it go gets the access point, unless it is down
\* again when it is polled, or somebody asks the chip for something else first.
ButtonRestoresAp ==
  \A n \in 0 .. MaxRequests :
    resetCnt >= HeldPolls /\ ~button /\ requests = n
      ~> opmode = "both" \/ button \/ requests # n
=============================================================================
