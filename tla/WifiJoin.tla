------------------------------- MODULE WifiJoin -------------------------------
(***************************************************************************)
(* Joining a network from the web interface (libesphttpd/util/cgiwifi.c),  *)
(* with everything that restarts the chip: the CGIs for the mode and for a *)
(* reset (user/cgi_reset.c) and the motor board's request for the access   *)
(* point (user/wificontrol.c).                                             *)
(*                                                                         *)
(* A request to join is answered at once with a page that polls for the    *)
(* outcome; three chained timers do the work. Timers count in ticks and    *)
(* one that is due is served before time goes on. The station interface is *)
(* what the SDK says of it: a network is right or not (it is in Good), the *)
(* link comes up and breaks at any time. A restart is immediate and clears *)
(* everything but the mode and the station's network, which are in flash.  *)
(***************************************************************************)
EXTENDS Integers

CONSTANTS
  Clients,       \* browsers
  Nets,          \* network names with a password, as users enter them
  Good,          \* those the station can join
  NoNet,         \* no network was configured yet
  RestartDelay,  \* 100 ms, in ticks
  JoinDelay,     \* 500 ms
  SuccessDelay,  \* 1000 ms
  GiveUpDelay,   \* 15000 ms
  MaxAsks,       \* bound of the model: requests to join
  MaxClicks      \* bound of the model: requests for a mode or a restart

ASSUME JoinAssumption ==
  /\ Good \subseteq Nets
  /\ NoNet \notin Nets
  /\ RestartDelay \in Nat /\ JoinDelay \in Nat /\ SuccessDelay \in Nat /\ GiveUpDelay \in Nat
  /\ RestartDelay <= JoinDelay /\ JoinDelay <= SuccessDelay /\ SuccessDelay <= GiveUpDelay
  /\ MaxAsks \in Nat /\ MaxClicks \in Nat

VARIABLES
  opmode,         \* wifi_get_opmode, kept in flash
  saved,          \* the station's configuration, kept in flash
  link,           \* wifi_station_get_connect_status
  stconf,         \* the network asked for
  connTryStatus,  \* CONNTRY_IDLE, CONNTRY_WORKING, CONNTRY_FAIL
  timer,          \* ticks until a timer is due
  page,           \* connecting.html in a browser: "none", "polling" or the outcome it shows
  asks,           \* requests to join so far
  tried,          \* history: the last request that was tried, or forgotten in a restart
  ask,            \* history: the request a page belongs to
  about,          \* history: the request that was tried last when a page got its outcome
  clicks          \* requests for a mode or a restart so far

station == <<opmode, saved, link>>
pages == <<page, asks, ask, about>>
vars == <<station, stconf, connTryStatus, timer, pages, tried, clicks>>

Timers == {"reassTimer", "resetTimer", "resetTmr", "tmr"}
Off == -1

TypeOK ==
  /\ opmode \in {"sta", "ap", "both"}
  /\ saved \in Nets \cup {NoNet}
  /\ link \in {"idle", "connecting", "gotip"}
  /\ stconf \in Nets \cup {NoNet}
  /\ connTryStatus \in {"idle", "working", "fail"}
  /\ timer \in [Timers -> Off .. GiveUpDelay]
  /\ page \in [Clients -> {"none", "polling", "success", "fail"}]
  /\ asks \in Nat /\ clicks \in Nat
  /\ tried \in 0 .. asks
  /\ ask \in [Clients -> 0 .. asks]
  /\ about \in [Clients -> 0 .. asks]

\* The link of a station that starts: it joins the configured network by itself.
Booted(mode, net) == IF mode = "ap" \/ net = NoNet THEN "idle" ELSE "connecting"

Init ==
  /\ opmode \in {"sta", "ap", "both"}
  /\ saved \in Nets \cup {NoNet}
  /\ link = Booted(opmode, saved)
  /\ stconf = NoNet
  /\ connTryStatus = "idle"
  /\ timer = [t \in Timers |-> Off]
  /\ page = [c \in Clients |-> "none"]
  /\ asks = 0 /\ tried = 0 /\ clicks = 0
  /\ ask = [c \in Clients |-> 0]
  /\ about = [c \in Clients |-> 0]

\* system_restart in the given mode: the timers, the attempt and the request are
\* forgotten.
Restart(mode) ==
  /\ opmode' = mode
  /\ link' = Booted(mode, saved)
  /\ stconf' = NoNet
  /\ connTryStatus' = "idle"
  /\ timer' = [t \in Timers |-> Off]
  /\ tried' = asks
  /\ UNCHANGED <<saved, pages>>
----------------------------------------------------------------------------
(***************************************************************************)
(* Joining.                                                                *)
(***************************************************************************)

\* cgiWiFiConnect, and the page it sends the browser to. Neither the status of the
\* last attempt nor its timer is touched.
Connect(c, net) ==
  /\ asks < MaxAsks
  /\ stconf' = net
  /\ timer' = [timer EXCEPT !["reassTimer"] = JoinDelay]
  /\ asks' = asks + 1
  /\ ask' = [ask EXCEPT ![c] = asks + 1]
  /\ page' = [page EXCEPT ![c] = "polling"]
  /\ UNCHANGED <<station, connTryStatus, about, tried, clicks>>

\* wifi_station_connect does nothing for a station that is connected.
Joining(l) == IF opmode = "ap" \/ l = "gotip" THEN l ELSE "connecting"

\* Mutant of ReassTimerCb: without wifi_station_disconnect.
ReassTimerCbStaysConnected ==
  /\ timer["reassTimer"] = 0
  /\ saved' = IF opmode = "ap" THEN saved ELSE stconf
  /\ link' = Joining(link)
  /\ connTryStatus' = "working"
  /\ timer' = [timer EXCEPT !["reassTimer"] = Off,
                            !["resetTimer"] = IF opmode # "sta" THEN GiveUpDelay ELSE @]
  /\ tried' = asks
  /\ UNCHANGED <<opmode, stconf, pages, clicks>>

\* Mutant of ReassTimerCb: without wifi_station_set_config.
ReassTimerCbKeepsConfig ==
  /\ timer["reassTimer"] = 0
  /\ saved' = saved
  /\ link' = Joining("idle")
  /\ connTryStatus' = "working"
  /\ timer' = [timer EXCEPT !["reassTimer"] = Off,
                            !["resetTimer"] = IF opmode # "sta" THEN GiveUpDelay ELSE @]
  /\ tried' = asks
  /\ UNCHANGED <<opmode, stconf, pages, clicks>>

\* Mutant of ReassTimerCb: the attempt gets no timer.
ReassTimerCbNoTimer ==
  /\ timer["reassTimer"] = 0
  /\ saved' = IF opmode = "ap" THEN saved ELSE stconf
  /\ link' = Joining("idle")
  /\ connTryStatus' = "working"
  /\ timer' = [timer EXCEPT !["reassTimer"] = Off]
  /\ tried' = asks
  /\ UNCHANGED <<opmode, stconf, pages, clicks>>

\* reassTimerCb: leave the network, take the one that was asked for, and join. The
\* SDK refuses a configuration without the station interface.
ReassTimerCb ==
  /\ timer["reassTimer"] = 0
  /\ saved' = IF opmode = "ap" THEN saved ELSE stconf
  /\ link' = Joining("idle")
  /\ connTryStatus' = "working"
  /\ timer' = [timer EXCEPT !["reassTimer"] = Off,
                            !["resetTimer"] = IF opmode # "sta" THEN GiveUpDelay ELSE @]
  /\ tried' = asks
  /\ UNCHANGED <<opmode, stconf, pages, clicks>>

\* Mutant of StaResetTimerCb: it gives up in either case.
StaResetTimerCbNoRestart ==
  /\ timer["resetTimer"] = 0
  /\ connTryStatus' = "fail"
  /\ timer' = [timer EXCEPT !["resetTimer"] = Off]
  /\ UNCHANGED <<station, stconf, pages, tried, clicks>>

\* staResetTimerCb: with an address the access point is given up, otherwise the
\* attempt.
StaResetTimerCb ==
  /\ timer["resetTimer"] = 0
  /\ \/ /\ link = "gotip"
        /\ Restart("sta")
     \/ /\ link # "gotip"
        /\ connTryStatus' = "fail"
        /\ timer' = [timer EXCEPT !["resetTimer"] = Off]
        /\ UNCHANGED <<station, stconf, pages, tried>>
  /\ UNCHANGED clicks

\* Mutant of ConnStatus: the timer is disarmed and not armed again.
ConnStatusDisarms(c) ==
  /\ page[c] = "polling"
  /\ \/ /\ connTryStatus = "working" /\ link = "gotip"
        /\ page' = [page EXCEPT ![c] = "success"]
        /\ timer' = [timer EXCEPT !["resetTimer"] = Off]
     \/ /\ connTryStatus = "fail"
        /\ page' = [page EXCEPT ![c] = "fail"]
        /\ UNCHANGED timer
  /\ about' = [about EXCEPT ![c] = tried]
  /\ UNCHANGED <<station, stconf, connTryStatus, asks, ask, tried, clicks>>

\* cgiWiFiConnStatus: the first sight of an address brings the restart forward, or
\* back. A page polls until it knows the outcome; "idle" and "working" are no outcome.
ConnStatus(c) ==
  /\ page[c] = "polling"
  /\ \/ /\ connTryStatus = "working" /\ link = "gotip"
        /\ page' = [page EXCEPT ![c] = "success"]
        /\ timer' = [timer EXCEPT !["resetTimer"] = SuccessDelay]
     \/ /\ connTryStatus = "fail"
        /\ page' = [page EXCEPT ![c] = "fail"]
        /\ UNCHANGED timer
  /\ about' = [about EXCEPT ![c] = tried]
  /\ UNCHANGED <<station, stconf, connTryStatus, asks, ask, tried, clicks>>

\* The browser leaves the page, or a poll gets no answer: the page does not try again.
Leave(c) ==
  /\ page[c] # "none"
  /\ page' = [page EXCEPT ![c] = "none"]
  /\ UNCHANGED <<station, stconf, connTryStatus, timer, asks, ask, about, tried, clicks>>
----------------------------------------------------------------------------
(***************************************************************************)
(* Modes and restarts.                                                     *)
(***************************************************************************)

\* cgiWiFiSetMode: the mode at once, the restart after the answer.
SetMode(mode) ==
  /\ clicks < MaxClicks
  /\ clicks' = clicks + 1
  /\ opmode' = mode
  /\ link' = IF "ap" \in {mode, opmode} THEN "idle" ELSE link
  /\ timer' = [timer EXCEPT !["resetTmr"] = RestartDelay]
  /\ UNCHANGED <<saved, stconf, connTryStatus, pages, tried>>

\* cgiResetDevice.
ResetDevice ==
  /\ clicks < MaxClicks
  /\ clicks' = clicks + 1
  /\ timer' = [timer EXCEPT !["tmr"] = RestartDelay]
  /\ UNCHANGED <<station, stconf, connTryStatus, pages, tried>>

\* resetTmrCb, and tmrCb of cgi_reset.c.
ResetTmrCb(t) ==
  /\ timer[t] = 0
  /\ Restart(opmode)
  /\ UNCHANGED clicks

\* wificontrol_setmode_ap.
SetModeAp ==
  /\ clicks < MaxClicks
  /\ clicks' = clicks + 1
  /\ Restart("both")
----------------------------------------------------------------------------
(***************************************************************************)
(* The SDK: the station and the time.                                      *)
(***************************************************************************)

LinkUp ==
  /\ link = "connecting" /\ saved \in Good
  /\ link' = "gotip"
  /\ UNCHANGED <<opmode, saved, stconf, connTryStatus, timer, pages, tried, clicks>>

LinkDown ==
  /\ link = "gotip"
  /\ link' = "connecting"
  /\ UNCHANGED <<opmode, saved, stconf, connTryStatus, timer, pages, tried, clicks>>

Tick ==
  /\ \A t \in Timers : timer[t] # 0
  /\ \E t \in Timers : timer[t] > 0
  /\ timer' = [t \in Timers |-> IF timer[t] = Off THEN Off ELSE timer[t] - 1]
  /\ UNCHANGED <<station, stconf, connTryStatus, pages, tried, clicks>>

Next ==
  \/ \E c \in Clients : (\E net \in Nets : Connect(c, net)) \/ ConnStatus(c) \/ Leave(c)
  \/ ReassTimerCb
  \/ StaResetTimerCb
  \/ \E mode \in {"sta", "ap", "both"} : SetMode(mode)
  \/ ResetDevice
  \/ \E t \in {"resetTmr", "tmr"} : ResetTmrCb(t)
  \/ SetModeAp
  \/ LinkUp
  \/ LinkDown
  \/ Tick

Spec == Init /\ [][Next]_vars

\* Time goes on, and the SDK serves the timers that are due.
FairSpec ==
  /\ Spec
  /\ WF_vars(Tick)
  /\ WF_vars(ReassTimerCb)
  /\ WF_vars(StaResetTimerCb)
  /\ \A t \in {"resetTmr", "tmr"} : WF_vars(ResetTmrCb(t))
----------------------------------------------------------------------------
(***************************************************************************)
(* Properties.                                                             *)
(***************************************************************************)

\* Where there is an access point to give up, an attempt is going on exactly as long
\* as the timer that decides it: a timer of one attempt never survives to end another,
\* and no poll, request or restart leaves an attempt without one. Only the mode of a
\* chip about to restart may have changed under an attempt.
AttemptHasTimer ==
  /\ timer["resetTimer"] # Off => connTryStatus = "working"
  /\ connTryStatus = "working" /\ opmode # "sta" /\ timer["resetTmr"] = Off =>
       timer["resetTimer"] # Off

\* After an attempt has begun, a station that is not idle is joining or has joined the
\* network that was asked for last, unless the next attempt is about to begin.
JoinedAsAsked ==
  connTryStatus # "idle" /\ timer["reassTimer"] = Off /\ link # "idle" => saved = stconf

\* The access point is given up, other than by a user who chose so, only for a network
\* that the station can join again after the restart: the chip does not cut itself off
\* for a network with the wrong password, whatever was joined before.
ApGivenUpOnlyWhenJoined ==
  [][opmode # "sta" /\ opmode' = "sta" /\ timer'["resetTmr"] = Off => saved' \in Good]_vars

\* An attempt comes to an end where there is an access point to give up, however users
\* poll and ask again: "time out after 15 secs of trying to connect".
AttemptEnds ==
  connTryStatus = "working" /\ opmode # "sta" ~> connTryStatus # "working"

\* "If the connect succeeds, this gets the module in STA-only mode", unless the link
\* breaks again before.
SuccessGoesStation ==
  connTryStatus = "working" /\ link = "gotip" ~> opmode = "sta" \/ link # "gotip"

\* What a page shows as the outcome is the outcome of its own request or of a later
\* one. The page has "Preparing to connect..." for an attempt that has not begun.
OutcomeIsOwn ==
  \A c \in Clients : page[c] \in {"success", "fail"} => about[c] >= ask[c]
=============================================================================
