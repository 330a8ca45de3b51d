---------------------------- MODULE WifiJoinProofs ----------------------------
(***************************************************************************)
(* Attempts, their timers and the access point of WifiJoin, for every set  *)
(* of clients and networks and for all delays.                             *)
(*                                                                         *)
(* That the access point is given up only for a network that can be joined *)
(* needs to be known of every state: a station with an address has saved a *)
(* network it can join (LinkGood).                                         *)
(***************************************************************************)
EXTENDS WifiJoin, TLAPS

\* The link belongs to the saved network, never to one left before.
LinkGood == link = "gotip" => saved \in Good

IInv ==
  /\ TypeOK
  /\ AttemptHasTimer
  /\ JoinedAsAsked
  /\ LinkGood

\* Delays are times a timer may have, and none of them means that it is off.
LEMMA Delays ==
  /\ Off \in Off .. GiveUpDelay /\ 0 \in Off .. GiveUpDelay
  /\ \A d \in {RestartDelay, JoinDelay, SuccessDelay, GiveUpDelay} : d \in Off .. GiveUpDelay /\ d # Off
BY JoinAssumption DEF Off

\* A timer that is set keeps the timers well typed, and the others as they are.
LEMMA SetTimer ==
  ASSUME TypeOK, NEW t \in Timers, NEW d \in Off .. GiveUpDelay
  PROVE  /\ [timer EXCEPT ![t] = d] \in [Timers -> Off .. GiveUpDelay]
         /\ [timer EXCEPT ![t] = d][t] = d
         /\ \A u \in Timers \ {t} : [timer EXCEPT ![t] = d][u] = timer[u]
BY DEF TypeOK

\* Whatever restarts the chip leaves it in a state of the invariant.
LEMMA RestartInv ==
  ASSUME IInv, NEW mode \in {"sta", "ap", "both"}, Restart(mode), clicks' \in Nat
  PROVE  IInv'
<1>1. Booted(mode, saved) \in {"idle", "connecting"}
  BY DEF Booted
<1>2. TypeOK'
  BY <1>1, Delays DEF IInv, TypeOK, Restart, pages, Timers
<1>3. timer'["resetTimer"] = Off /\ connTryStatus' = "idle" /\ link' # "gotip"
  BY <1>1 DEF Restart, Timers
<1> QED
  BY <1>2, <1>3 DEF IInv, AttemptHasTimer, JoinedAsAsked, LinkGood

\* Initially nothing was asked, and no timer runs.
LEMMA InitInv == Init => IInv
<1> SUFFICES ASSUME Init PROVE IInv
  OBVIOUS
<1>1. Booted(opmode, saved) \in {"idle", "connecting"}
  BY DEF Booted
<1>2. TypeOK
  BY <1>1, Delays DEF Init, TypeOK
<1>3. timer["resetTimer"] = Off /\ connTryStatus = "idle" /\ link # "gotip"
  BY <1>1 DEF Init, Timers
<1> QED
  BY <1>2, <1>3 DEF IInv, AttemptHasTimer, JoinedAsAsked, LinkGood
----------------------------------------------------------------------------
\* A request to join.
LEMMA ConnectInv ==
  ASSUME IInv, NEW c \in Clients, NEW net \in Nets, Connect(c, net)
  PROVE  IInv'
<1>1. "reassTimer" \in Timers /\ "resetTimer" \in Timers /\ "resetTmr" \in Timers
  BY DEF Timers
<1>2. JoinDelay \in Off .. GiveUpDelay /\ JoinDelay # Off
  BY Delays
<1>3. timer' = [timer EXCEPT !["reassTimer"] = JoinDelay]
  BY DEF Connect
<1>4. /\ timer' \in [Timers -> Off .. GiveUpDelay]
      /\ timer'["reassTimer"] # Off
      /\ timer'["resetTimer"] = timer["resetTimer"] /\ timer'["resetTmr"] = timer["resetTmr"]
  BY <1>1, <1>2, <1>3, SetTimer DEF IInv
<1>5. TypeOK'
  <2>1. asks' \in Nat /\ asks' = asks + 1 /\ 0 .. asks \subseteq 0 .. asks'
    BY DEF Connect, IInv, TypeOK
  <2>2. tried' \in 0 .. asks' /\ about' \in [Clients -> 0 .. asks']
    BY <2>1 DEF Connect, IInv, TypeOK
  <2>3. ask' \in [Clients -> 0 .. asks']
    <3>1. asks + 1 \in 0 .. asks'
      BY <2>1
    <3>2. ask' = [ask EXCEPT ![c] = asks + 1]
      BY DEF Connect
    <3> QED
      BY <2>1, <3>1, <3>2 DEF IInv, TypeOK
  <2>4. /\ page' \in [Clients -> {"none", "polling", "success", "fail"}]
        /\ stconf' \in Nets \cup {NoNet}
        /\ UNCHANGED <<opmode, saved, link, connTryStatus, clicks>>
    BY DEF Connect, IInv, TypeOK, station
  <2> QED
    BY <1>4, <2>1, <2>2, <2>3, <2>4 DEF IInv, TypeOK
<1> QED
  BY <1>4, <1>5 DEF Connect, station, IInv, AttemptHasTimer, JoinedAsAsked, LinkGood

\* An attempt begins.
LEMMA ReassInv ==
  ASSUME IInv, ReassTimerCb
  PROVE  IInv'
<1>1. "reassTimer" \in Timers /\ "resetTimer" \in Timers /\ "resetTmr" \in Timers
  BY DEF Timers
<1>2. /\ timer' \in [Timers -> Off .. GiveUpDelay]
      /\ timer'["resetTimer"] = (IF opmode # "sta" THEN GiveUpDelay ELSE timer["resetTimer"])
  BY <1>1, Delays DEF ReassTimerCb, IInv, TypeOK
<1>3. /\ connTryStatus' = "working" /\ opmode' = opmode /\ stconf' = stconf
      /\ saved' = (IF opmode = "ap" THEN saved ELSE stconf)
      /\ link' = (IF opmode = "ap" THEN "idle" ELSE "connecting")
  BY DEF ReassTimerCb, Joining
<1>4. TypeOK'
  <2>1. tried' \in 0 .. asks' /\ UNCHANGED <<page, asks, ask, about, clicks>>
    BY DEF ReassTimerCb, pages, IInv, TypeOK
  <2> QED
    BY <1>2, <1>3, <2>1 DEF IInv, TypeOK
<1>5. AttemptHasTimer'
  BY <1>2, <1>3, Delays DEF AttemptHasTimer
<1> QED
  BY <1>3, <1>4, <1>5 DEF IInv, JoinedAsAsked, LinkGood

\* It ends.
LEMMA StaResetInv ==
  ASSUME IInv, StaResetTimerCb
  PROVE  IInv'
<1>1. CASE link = "gotip"
  BY <1>1, RestartInv DEF StaResetTimerCb, IInv, TypeOK
<1>2. CASE link # "gotip"
  <2>1. /\ connTryStatus' = "fail"
        /\ timer' = [timer EXCEPT !["resetTimer"] = Off]
        /\ UNCHANGED <<opmode, saved, link, stconf, page, asks, ask, about, tried, clicks>>
        /\ timer["resetTimer"] = 0
    BY <1>2 DEF StaResetTimerCb, station, pages
  <2>2. "reassTimer" \in Timers /\ "resetTimer" \in Timers
    BY DEF Timers
  <2>3. /\ timer' \in [Timers -> Off .. GiveUpDelay]
        /\ timer'["resetTimer"] = Off /\ timer'["reassTimer"] = timer["reassTimer"]
    BY <2>1, <2>2, Delays, SetTimer DEF IInv
  <2>4. TypeOK'
    BY <2>1, <2>3 DEF IInv, TypeOK
  <2>5. connTryStatus = "working"
    BY <2>1, Delays DEF IInv, AttemptHasTimer, Off
  <2> QED
    BY <2>1, <2>3, <2>4, <2>5 DEF IInv, AttemptHasTimer, JoinedAsAsked, LinkGood
<1> QED
  BY <1>1, <1>2

\* A page learns the outcome.
LEMMA ConnStatusInv ==
  ASSUME IInv, NEW c \in Clients, ConnStatus(c)
  PROVE  IInv'
<1>1. "reassTimer" \in Timers /\ "resetTimer" \in Timers /\ "resetTmr" \in Timers
  BY DEF Timers
<1>2. /\ timer' \in [Timers -> Off .. GiveUpDelay]
      /\ timer'["reassTimer"] = timer["reassTimer"] /\ timer'["resetTmr"] = timer["resetTmr"]
      /\ \/ timer'["resetTimer"] # Off /\ connTryStatus = "working"
         \/ timer'["resetTimer"] = timer["resetTimer"]
  <2>1. CASE timer' = [timer EXCEPT !["resetTimer"] = SuccessDelay] /\ connTryStatus = "working"
    BY <1>1, <2>1, Delays, SetTimer DEF IInv
  <2>2. CASE UNCHANGED timer
    BY <2>2 DEF IInv, TypeOK
  <2> QED
    BY <2>1, <2>2 DEF ConnStatus
<1>3. /\ page' \in [Clients -> {"none", "polling", "success", "fail"}]
      /\ about' \in [Clients -> 0 .. asks]
      /\ UNCHANGED <<opmode, saved, link, stconf, connTryStatus, asks, ask, tried, clicks>>
  BY DEF ConnStatus, station, IInv, TypeOK
<1>4. TypeOK'
  BY <1>2, <1>3 DEF IInv, TypeOK
<1> QED
  BY <1>2, <1>3, <1>4 DEF IInv, AttemptHasTimer, JoinedAsAsked, LinkGood
----------------------------------------------------------------------------
\* A request for a mode.
LEMMA SetModeInv ==
  ASSUME IInv, NEW mode \in {"sta", "ap", "both"}, SetMode(mode)
  PROVE  IInv'
<1>1. "reassTimer" \in Timers /\ "resetTimer" \in Timers /\ "resetTmr" \in Timers
  BY DEF Timers
<1>2. timer' = [timer EXCEPT !["resetTmr"] = RestartDelay]
  BY DEF SetMode
<1>3. /\ timer' \in [Timers -> Off .. GiveUpDelay]
      /\ timer'["resetTmr"] # Off
      /\ timer'["resetTimer"] = timer["resetTimer"] /\ timer'["reassTimer"] = timer["reassTimer"]
  BY <1>1, <1>2, Delays, SetTimer DEF IInv
<1>4. /\ opmode' = mode /\ link' \in {"idle", link}
      /\ UNCHANGED <<saved, stconf, connTryStatus, page, asks, ask, about, tried>>
  BY DEF SetMode, pages
<1>5. TypeOK'
  <2>1. clicks' \in Nat
    BY DEF SetMode, IInv, TypeOK
  <2> QED
    BY <1>3, <1>4, <2>1 DEF IInv, TypeOK
<1> QED
  BY <1>3, <1>4, <1>5 DEF IInv, AttemptHasTimer, JoinedAsAsked, LinkGood

\* A request for a restart.
LEMMA ResetDeviceInv ==
  ASSUME IInv, ResetDevice
  PROVE  IInv'
<1>1. "tmr" \in Timers /\ \A t \in {"reassTimer", "resetTimer", "resetTmr"} : t \in Timers \ {"tmr"}
  BY DEF Timers
<1>2. timer' = [timer EXCEPT !["tmr"] = RestartDelay]
  BY DEF ResetDevice
<1>3. /\ timer' \in [Timers -> Off .. GiveUpDelay]
      /\ \A t \in {"reassTimer", "resetTimer", "resetTmr"} : timer'[t] = timer[t]
  BY <1>1, <1>2, Delays, SetTimer DEF IInv
<1>4. UNCHANGED <<opmode, saved, link, stconf, connTryStatus, page, asks, ask, about, tried>>
  BY DEF ResetDevice, station, pages
<1>5. TypeOK'
  <2>1. clicks' \in Nat
    BY DEF ResetDevice, IInv, TypeOK
  <2> QED
    BY <1>3, <1>4, <2>1 DEF IInv, TypeOK
<1> QED
  BY <1>3, <1>4, <1>5 DEF IInv, AttemptHasTimer, JoinedAsAsked, LinkGood

\* The station and the browser.
LEMMA OutsideInv ==
  ASSUME IInv, LinkUp \/ LinkDown \/ (\E c \in Clients : Leave(c))
  PROVE  IInv'
<1>1. /\ page' \in [Clients -> {"none", "polling", "success", "fail"}]
      /\ UNCHANGED <<opmode, saved, stconf, connTryStatus, timer, asks, ask, about, tried, clicks>>
  BY DEF LinkUp, LinkDown, Leave, pages, station, IInv, TypeOK
<1>2. \/ link' = link
      \/ link # "idle" /\ link' = "connecting"
      \/ link # "idle" /\ link' = "gotip" /\ saved \in Good
  BY DEF LinkUp, LinkDown, Leave, station
<1>3. TypeOK'
  BY <1>1, <1>2 DEF IInv, TypeOK
<1> QED
  BY <1>1, <1>2, <1>3 DEF IInv, AttemptHasTimer, JoinedAsAsked, LinkGood

\* Time goes on: a timer that runs runs on, or is due.
LEMMA TickInv ==
  ASSUME IInv, Tick
  PROVE  IInv'
<1>1. UNCHANGED <<opmode, saved, link, stconf, connTryStatus, page, asks, ask, about, tried, clicks>>
  BY DEF Tick, station, pages
<1>2. ASSUME NEW t \in Timers
      PROVE  /\ timer'[t] \in Off .. GiveUpDelay
             /\ timer'[t] = Off <=> timer[t] = Off
  <2>1. timer[t] \in Off .. GiveUpDelay /\ timer[t] # 0
    BY DEF Tick, IInv, TypeOK
  <2>2. timer'[t] = IF timer[t] = Off THEN Off ELSE timer[t] - 1
    BY DEF Tick
  <2> QED
    BY <2>1, <2>2, JoinAssumption DEF Off
<1>3. timer' \in [Timers -> Off .. GiveUpDelay]
  BY <1>2 DEF Tick
<1>4. TypeOK'
  BY <1>1, <1>3 DEF IInv, TypeOK
<1>5. \A t \in {"reassTimer", "resetTimer", "resetTmr"} : timer'[t] = Off <=> timer[t] = Off
  BY <1>2 DEF Timers
<1> QED
  BY <1>1, <1>4, <1>5 DEF IInv, AttemptHasTimer, JoinedAsAsked, LinkGood

\* Every step keeps the invariant.
LEMMA StepInv == IInv /\ [Next]_vars => IInv'
<1> SUFFICES ASSUME IInv, [Next]_vars
             PROVE  IInv'
  OBVIOUS
<1>1. ASSUME NEW t \in {"resetTmr", "tmr"}, ResetTmrCb(t)
      PROVE  IInv'
  BY <1>1, RestartInv DEF ResetTmrCb, IInv, TypeOK
<1>2. CASE SetModeAp
  <2>1. clicks' \in Nat
    BY <1>2 DEF SetModeAp, IInv, TypeOK
  <2> QED
    BY <1>2, <2>1, RestartInv DEF SetModeAp
<1>3. CASE UNCHANGED vars
  <2>1. /\ UNCHANGED <<opmode, saved, link, stconf, connTryStatus, timer>>
        /\ UNCHANGED <<page, asks, ask, about, tried, clicks>>
    BY <1>3 DEF vars, station, pages
  <2>2. TypeOK'
    BY <2>1 DEF IInv, TypeOK
  <2> QED
    BY <2>1, <2>2 DEF IInv, AttemptHasTimer, JoinedAsAsked, LinkGood
<1> QED
  BY <1>1, <1>2, <1>3, ConnectInv, ReassInv, StaResetInv, ConnStatusInv, SetModeInv, ResetDeviceInv,
     OutsideInv, TickInv DEF Next
----------------------------------------------------------------------------
\* The inductive invariant.
THEOREM JoinInvariant == Spec => []IInv
BY InitInv, StepInv, PTL DEF Spec

\* Every state is well typed: no timer is set beyond its longest delay.
THEOREM JoinTypes == Spec => []TypeOK
<1>1. IInv => TypeOK
  BY DEF IInv
<1> QED
  BY <1>1, JoinInvariant, PTL

\* An attempt and the timer that decides it go together.
THEOREM JoinTimer == Spec => []AttemptHasTimer
<1>1. IInv => AttemptHasTimer
  BY DEF IInv
<1> QED
  BY <1>1, JoinInvariant, PTL

\* The station joins the network that was asked for last.
THEOREM JoinNetwork == Spec => []JoinedAsAsked
<1>1. IInv => JoinedAsAsked
  BY DEF IInv
<1> QED
  BY <1>1, JoinInvariant, PTL

\* No step gives up the access point for a network the station cannot join.
THEOREM JoinKeepsAp == Spec => ApGivenUpOnlyWhenJoined
<1> DEFINE Safe == opmode # "sta" /\ opmode' = "sta" /\ timer'["resetTmr"] = Off => saved' \in Good
<1>1. IInv /\ [Next]_vars => [Safe]_vars
  <2> SUFFICES ASSUME IInv, Next, opmode # "sta", opmode' = "sta", timer'["resetTmr"] = Off
               PROVE  saved' \in Good
    OBVIOUS
  <2>1. CASE StaResetTimerCb
    BY <2>1 DEF StaResetTimerCb, Restart, station, IInv, LinkGood
  <2>2. ASSUME NEW mode \in {"sta", "ap", "both"}, SetMode(mode)
        PROVE  FALSE
    <3>1. timer' = [timer EXCEPT !["resetTmr"] = RestartDelay] /\ "resetTmr" \in Timers
      BY <2>2 DEF SetMode, Timers
    <3> QED
      BY <3>1, Delays, SetTimer DEF IInv
  <2>3. CASE SetModeAp \/ (\E t \in {"resetTmr", "tmr"} : ResetTmrCb(t))
    BY <2>3 DEF SetModeAp, ResetTmrCb, Restart
  <2>4. CASE \/ \E c \in Clients : (\E net \in Nets : Connect(c, net)) \/ ConnStatus(c) \/ Leave(c)
             \/ ReassTimerCb \/ ResetDevice \/ LinkUp \/ LinkDown \/ Tick
    BY <2>4 DEF Connect, ConnStatus, Leave, ReassTimerCb, ResetDevice, LinkUp, LinkDown, Tick, station
  <2> QED
    BY <2>1, <2>2, <2>3, <2>4 DEF Next
<1> QED
  BY <1>1, JoinInvariant, PTL DEF Spec, ApGivenUpOnlyWhenJoined
=============================================================================
