------------------------------ MODULE BoardProofs ------------------------------
(***************************************************************************)
(* Proofs about what the firmware does besides serving the web: the UART   *)
(* receiver, for every size of the FIFO, every threshold and every length  *)
(* of the task's queue, whether or not the UART raises a cleared interrupt *)
(* again; WPS sessions and the button, for every length of a session and   *)
(* every number of requests; and the HTTP client, for every set of parts a *)
(* body is made of, every length of a response and every limit of the      *)
(* buffer. The three share no state.                                       *)
(***************************************************************************)
EXTENDS UartRx, Wps, HttpClient, FlattenTheorems, SequenceTheorems, TLAPS

----------------------------------------------------------------------------
(***************************************************************************)
(* The UART receiver.                                                      *)
(***************************************************************************)

\* The inductive invariant.
UartInv ==
  /\ TypeOK
  /\ NoLostWakeup
  /\ NeverReadsEmpty

\* A post leaves at least one message in the queue, also in a full one, and the
\* queue is never longer than it may be.
LEMMA PostedBounds ==
  ASSUME TypeOK, NEW n \in Nat, n > 0
  PROVE  Posted(n) \in 1 .. QueueLen
BY UartAssumption DEF TypeOK, Posted

\* Initially the interrupts are enabled and the task has nothing to read.
LEMMA InitUartInv == Init => UartInv
<1> SUFFICES ASSUME Init PROVE UartInv
  OBVIOUS
<1>1. fifo \in 0 .. FifoSize /\ left \in 0 .. FifoSize /\ posts \in 0 .. QueueLen /\ arrived \in Nat
  BY UartAssumption DEF Init
<1>2. full \in BOOLEAN /\ tout \in BOOLEAN /\ quiet \in BOOLEAN /\ rxEna \in BOOLEAN
  BY DEF Init
<1>3. task \in {"idle", "poll", "clear", "enable"} /\ NoLostWakeup /\ NeverReadsEmpty
  BY DEF Init, NoLostWakeup, NeverReadsEmpty
<1> QED
  BY <1>1, <1>2, <1>3 DEF UartInv, TypeOK

\* Every step keeps the invariant.
LEMMA NextKeepsUartInv == UartInv /\ [Next]_vars => UartInv'
<1> SUFFICES ASSUME UartInv, [Next]_vars
             PROVE  UartInv'
  OBVIOUS
<1> USE UartAssumption DEF UartInv, TypeOK, NoLostWakeup, NeverReadsEmpty
<1>1. CASE ByteArrives
  BY <1>1 DEF ByteArrives
<1>2. CASE FullAgain
  BY <1>2 DEF FullAgain
<1>3. CASE Timeout
  BY <1>3 DEF Timeout
<1>4. CASE RxIntr
  <2>1. posts' \in 1 .. QueueLen
    BY <1>4, PostedBounds DEF RxIntr
  <2>2. posts' \in 0 .. QueueLen /\ posts' > 0
    BY <2>1
  <2>3. /\ rxEna' = FALSE /\ full' = FALSE /\ tout' = FALSE
        /\ UNCHANGED <<fifo, quiet, task, left, arrived>>
    BY <1>4 DEF RxIntr
  <2>4. TypeOK'
    BY <2>2, <2>3
  <2> QED
    BY <2>2, <2>3, <2>4
<1>5. CASE TaskStart
  BY <1>5 DEF TaskStart
<1>6. CASE TaskRead
  BY <1>6 DEF TaskRead
<1>7. CASE TaskClear
  BY <1>7 DEF TaskClear
<1>8. CASE TaskEnable
  BY <1>8 DEF TaskEnable
<1>9. CASE UNCHANGED vars
  BY <1>9 DEF vars
<1> QED
  BY <1>1, <1>2, <1>3, <1>4, <1>5, <1>6, <1>7, <1>8, <1>9 DEF Next

\* The inductive invariant holds of every behaviour.
THEOREM UartInvariant == Spec => []UartInv
BY InitUartInv, NextKeepsUartInv, PTL DEF Spec

\* Masked receive interrupts are always unmasked by a task that is due.
THEOREM UartWakesUp == Spec => []NoLostWakeup
<1>1. UartInv => NoLostWakeup
  BY DEF UartInv
<1> QED
  BY <1>1, UartInvariant, PTL

\* The task never reads an empty FIFO.
THEOREM UartReads == Spec => []NeverReadsEmpty
<1>1. UartInv => NeverReadsEmpty
  BY DEF UartInv
<1> QED
  BY <1>1, UartInvariant, PTL

----------------------------------------------------------------------------
(***************************************************************************)
(* WPS and the button. That a session has its time is inductive with the   *)
(* types: a timer that is not yet due has as many steps left as the        *)
(* session lacks in age.                                                   *)
(***************************************************************************)

\* The inductive invariant.
WpsInv == WpsTypeOK /\ SessionHasItsTime

\* At the start no session has begun.
LEMMA InitWpsInv == WpsInit => WpsInv
<1> SUFFICES ASSUME WpsInit PROVE WpsInv
  OBVIOUS
<1>1. abortTimer \in Off .. WpsDelay /\ age \in 0 .. WpsDelay /\ resetCnt \in 0 .. HeldPolls
      /\ requests \in 0 .. MaxRequests
  BY WpsAssumption DEF WpsInit, WpsStart, Off
<1>2. opmode \in {"sta", "ap", "both"} /\ joined \in BOOLEAN /\ wpsInProgress = FALSE
      /\ sdkWps = FALSE /\ button \in BOOLEAN /\ polling \in BOOLEAN /\ pollDue \in BOOLEAN
  BY DEF WpsInit, WpsStart
<1> QED
  BY <1>1, <1>2 DEF WpsInv, WpsTypeOK, SessionHasItsTime

\* A restart leaves no session and no timer behind.
LEMMA RestartClean ==
  ASSUME WpsInv, NEW mode \in {"sta", "ap", "both"}, Restart(mode),
         requests' \in 0 .. MaxRequests
  PROVE  WpsInv'
<1> USE WpsAssumption DEF Off
<1>1. opmode' \in {"sta", "ap", "both"} /\ joined' \in BOOLEAN /\ wpsInProgress' = FALSE
      /\ sdkWps' = FALSE
  BY DEF Restart
<1>2. abortTimer' \in Off .. WpsDelay /\ age' \in 0 .. WpsDelay /\ resetCnt' \in 0 .. HeldPolls
  BY DEF Restart
<1>3. button' \in BOOLEAN /\ polling' \in BOOLEAN /\ pollDue' \in BOOLEAN
  BY DEF Restart
<1> QED
  BY <1>1, <1>2, <1>3 DEF WpsInv, WpsTypeOK, SessionHasItsTime

\* What the motor board and the web ask for.
LEMMA RequestsKeepWpsInv ==
  ASSUME WpsInv, Datagram \/ WebRestart
  PROVE  WpsInv'
<1> USE WpsAssumption DEF WpsInv, WpsTypeOK
<1>1. requests' \in 0 .. MaxRequests
  BY DEF Datagram, WebRestart, SetModeAp, StartWps, AbortByRequest
<1>2. CASE Datagram /\ SetModeAp
  <2> Restart("both")
    BY <1>2 DEF SetModeAp
  <2> QED BY <1>1, RestartClean
<1>3. CASE WebRestart
  <2> PICK mode \in {"sta", "ap", "both"} : Restart(mode)
    BY <1>3 DEF WebRestart
  <2> QED BY <1>1, RestartClean
<1>4. CASE Datagram /\ StartWps
  <2>1. abortTimer' \in Off .. WpsDelay /\ abortTimer' # Off /\ age' \in 0 .. WpsDelay
        /\ abortTimer' + age' = WpsDelay
    BY <1>4 DEF StartWps, Off
  <2>2. opmode' = "sta" /\ joined' = FALSE /\ wpsInProgress' = TRUE /\ sdkWps' \in BOOLEAN
        /\ UNCHANGED <<button, polling, pollDue, resetCnt>>
    BY <1>4 DEF StartWps, buttonVars
  <2> QED BY <1>1, <2>1, <2>2 DEF SessionHasItsTime
<1>5. CASE Datagram /\ AbortByRequest
  BY <1>1, <1>5 DEF AbortByRequest, SessionHasItsTime, buttonVars
<1> QED
  BY <1>2, <1>3, <1>4, <1>5 DEF Datagram

\* The polls of the button: a restart, or a count.
LEMMA PollKeepsWpsInv ==
  ASSUME WpsInv, Poll
  PROVE  WpsInv'
<1> USE WpsAssumption
<1>1. requests' \in 0 .. MaxRequests
  BY DEF Poll, WpsInv, WpsTypeOK
<1>2. CASE Restart("both")
  BY <1>1, <1>2, RestartClean
<1>3. CASE ~Restart("both")
  <2>1. resetCnt' \in 0 .. HeldPolls /\ pollDue' = FALSE
    BY <1>3 DEF Poll, WpsInv, WpsTypeOK
  <2>2. UNCHANGED <<opmode, sessionVars, button, polling, requests>>
    BY <1>3 DEF Poll
  <2> QED
    BY <2>1, <2>2 DEF WpsInv, WpsTypeOK, SessionHasItsTime, sessionVars
<1> QED BY <1>2, <1>3

\* The end of a session, and time.
LEMMA TimersKeepWpsInv ==
  ASSUME WpsInv, (\E found \in BOOLEAN : WpsCb(found)) \/ AbortWpsCb \/ Finger \/ Tick
  PROVE  WpsInv'
<1> USE WpsAssumption DEF WpsInv, WpsTypeOK, SessionHasItsTime, Off
<1>0. Off \in Off .. WpsDelay
  OBVIOUS
<1>1. ASSUME NEW found \in BOOLEAN, WpsCb(found) PROVE WpsInv'
  <2>1. joined' \in BOOLEAN /\ wpsInProgress' = FALSE /\ sdkWps' = FALSE
    BY <1>1 DEF WpsCb
  <2>2. abortTimer' = Off /\ UNCHANGED <<opmode, age, button, polling, pollDue, resetCnt, requests>>
    BY <1>1 DEF WpsCb, buttonVars
  <2> QED BY <1>0, <2>1, <2>2
<1>2. CASE AbortWpsCb
  <2>1. wpsInProgress' = FALSE /\ sdkWps' = FALSE /\ abortTimer' = Off
    BY <1>2 DEF AbortWpsCb
  <2>2. UNCHANGED <<opmode, joined, age, button, polling, pollDue, resetCnt, requests>>
    BY <1>2 DEF AbortWpsCb, buttonVars
  <2> QED BY <1>0, <2>1, <2>2
<1>3. CASE Finger
  BY <1>3 DEF Finger, sessionVars
<1>4. CASE Tick
  <2>1. age' \in 0 .. WpsDelay /\ abortTimer' \in Off .. WpsDelay
    BY <1>4 DEF Tick
  <2>2. wpsInProgress => abortTimer > 0 /\ age < WpsDelay
    BY <1>4 DEF Tick
  <2>3. wpsInProgress => abortTimer' # Off /\ abortTimer' + age' = WpsDelay
    BY <1>4, <2>2 DEF Tick
  <2>4. pollDue' \in BOOLEAN /\ UNCHANGED <<opmode, joined, wpsInProgress, sdkWps, button, polling,
                                            resetCnt, requests>>
    BY <1>4 DEF Tick
  <2> QED BY <2>1, <2>3, <2>4
<1> QED BY <1>1, <1>2, <1>3, <1>4

\* Every step keeps it.
LEMMA NextKeepsWpsInv == WpsInv /\ [WpsNext]_wpsVars => WpsInv'
<1> SUFFICES ASSUME WpsInv, [WpsNext]_wpsVars PROVE WpsInv'
  OBVIOUS
<1>1. CASE UNCHANGED wpsVars
  BY <1>1 DEF wpsVars, sessionVars, buttonVars, WpsInv, WpsTypeOK, SessionHasItsTime
<1>2. CASE WpsNext
  BY <1>2, RequestsKeepWpsInv, PollKeepsWpsInv, TimersKeepWpsInv DEF WpsNext
<1> QED BY <1>1, <1>2

\* The inductive invariant holds.
THEOREM WpsInvariant == WpsSpec => []WpsInv
<1>1. WpsInit => WpsInv
  BY InitWpsInv
<1>2. WpsInv /\ [WpsNext]_wpsVars => WpsInv'
  BY NextKeepsWpsInv
<1> QED BY <1>1, <1>2, PTL DEF WpsSpec

\* The SDK makes no session that wps_in_progress (user/wificontrol.c) does not tell of, and the
\* flag goes with a timer that leaves a session its whole time, whatever came before and whether
\* the SDK took on the sessions it was asked for or not.
THEOREM WpsSessionTime == WpsSpec => []SessionHasItsTime
<1>1. WpsInv => SessionHasItsTime
  BY DEF WpsInv
<1> QED BY <1>1, WpsInvariant, PTL

\* The timer of a session never ends another one: when it is due with the flag set, it is for the
\* session asked for last, at the end of its time, also if the SDK never made it.
AbortIsDue == AbortWpsCb /\ wpsInProgress => age = WpsDelay

\* The invariant says so of every state the timer may be due in (wificontrol.c, abort_wps_cb).
THEOREM WpsAbortsOwnSession == WpsSpec => [][AbortIsDue]_wpsVars
<1>1. WpsInv => AbortIsDue
  BY WpsAssumption DEF WpsInv, WpsTypeOK, SessionHasItsTime, AbortIsDue, AbortWpsCb, Off
<1> QED BY <1>1, WpsInvariant, PTL

----------------------------------------------------------------------------
(***************************************************************************)
(* The HTTP client. What a response is decoded to plays no part: the       *)
(* proofs are about who owns the memory of a request, and who tells the    *)
(* user.                                                                   *)
(***************************************************************************)

SdkHasConn == {"unasked", "connecting", "connected", "closing"}
NothingLive == \A b \in Blocks : heap[b] # "live"

Types ==
  /\ heap \in [Blocks -> {"null", "live", "freed"}]
  /\ sdk \in {"idle", "resolving", "gone"} \cup SdkHasConn
  /\ timer \in BOOLEAN /\ timedOut \in BOOLEAN
  /\ sentCbs \in Nat

\* Before the request is made; while its host is looked for; while the SDK has a connection of it,
\* which is the request's unless it timed out; and behind the end.
BeforeRequest == sdk = "idle" => heap["req"] = "null" /\ heap["conn"] = "null" /\ ~timer /\ ~timedOut
WhileResolving ==
  sdk = "resolving" => heap["req"] = "live" /\ heap["conn"] = "null" /\ ~timer /\ ~timedOut
WhileConnected ==
  sdk \in SdkHasConn =>
    IF timedOut THEN ~timer /\ heap["req"] = "freed" /\ heap["conn"] = "freed" /\ NothingLive
    ELSE heap["req"] = "live" /\ heap["conn"] = "live"
AtTheEnd ==
  sdk = "gone" =>
    /\ ~timer /\ heap["req"] = "freed"
    /\ heap["conn"] # "null" => NothingLive

\* Sent callbacks come for connections only.
SentForConn == sentCbs > 0 => sdk \in {"connected", "closing"}

\* Who was told.
ToldAtTheEnd ==
  IF heap["req"] = "freed" THEN Len(told) = IF timedOut THEN 0 ELSE 1
  ELSE told = <<>> /\ ~timedOut

FreedByTimeout == fault = "freed" => timedOut

ClientInv ==
  /\ Types
  /\ BeforeRequest /\ WhileResolving /\ WhileConnected /\ AtTheEnd
  /\ SentForConn /\ ToldAtTheEnd /\ FreedByTimeout

\* Before a request nobody owns anything.
LEMMA InitClientInv == ClientInit => ClientInv
<1> SUFFICES ASSUME ClientInit PROVE ClientInv
  OBVIOUS
<1>1. heap \in [Blocks -> {"null", "live", "freed"}] /\ heap["req"] = "null" /\ heap["conn"] = "null"
  BY DEF ClientInit, ClientStart, Blocks
<1>2. sdk = "idle" /\ timer = FALSE /\ timedOut = FALSE /\ told = <<>> /\ fault = "none"
  BY DEF ClientInit, ClientStart
<1>3. sentCbs = 0
  BY DEF ClientInit, ClientStart
<1>4. Types
  BY <1>1, <1>2, <1>3 DEF Types
<1>5. SentForConn
  BY <1>3 DEF SentForConn
<1> QED
  BY <1>1, <1>2, <1>4, <1>5 DEF ClientInv, BeforeRequest, WhileResolving, WhileConnected, AtTheEnd,
                                ToldAtTheEnd, FreedByTimeout, SdkHasConn

\* Only a timeout lets a callback find freed memory; after that nothing else happens.
LEMMA TouchKeepsInv ==
  ASSUME ClientInv, Touch, timedOut
  PROVE  ClientInv'
BY DEF ClientInv, Touch, Types, BeforeRequest, WhileResolving, WhileConnected, AtTheEnd,
       SentForConn, ToldAtTheEnd, FreedByTimeout, NothingLive

\* The outcome of the question for an address, for a request that holds h.
LEMMA DnsKeepsInv ==
  ASSUME NEW h \in [Blocks -> {"null", "live", "freed"}], NEW r,
         h["req"] = "live", h["conn"] = "null",
         told = <<>>, timedOut = FALSE, timer = FALSE, sentCbs = 0,
         FreedByTimeout, DnsCallback(h, r), UNCHANGED <<sentCbs, timedOut, fault>>
  PROVE  ClientInv'
<1> USE DEF Blocks, SdkHasConn
<1>1. CASE DnsFound(h, r)
  <2>1. heap' \in [Blocks -> {"null", "live", "freed"}] /\ heap'["req"] = "live"
        /\ heap'["conn"] = "live"
    BY <1>1 DEF DnsFound
  <2>2. sdk' \in {"unasked", "connecting"} /\ timer' = TRUE /\ told' = <<>>
    BY <1>1 DEF DnsFound
  <2>3. sentCbs' = 0 /\ timedOut' = FALSE /\ fault' = fault
    OBVIOUS
  <2>4. SentForConn' /\ sentCbs' \in Nat
    BY <2>3 DEF SentForConn
  <2>5. Types'
    BY <2>1, <2>2, <2>3, <2>4, Zenon DEF Types
  <2> QED
    BY <2>1, <2>2, <2>3, <2>4, <2>5 DEF ClientInv, BeforeRequest, WhileResolving, WhileConnected, AtTheEnd,
                            ToldAtTheEnd, FreedByTimeout
<1>2. CASE DnsFailed(h)
  <2>1. heap' \in [Blocks -> {"null", "live", "freed"}] /\ heap'["req"] = "freed"
        /\ heap'["conn"] = "null"
    BY <1>2 DEF DnsFailed, Freed
  <2>2. sdk' = "gone" /\ timer' = timer /\ told' = <<Error>>
    BY <1>2 DEF DnsFailed
  <2>3. ToldAtTheEnd'
    BY <2>1, <2>2 DEF ToldAtTheEnd
  <2>4. sentCbs' = 0 /\ timedOut' = FALSE /\ fault' = fault
    OBVIOUS
  <2>5. SentForConn' /\ sentCbs' \in Nat
    BY <2>4 DEF SentForConn
  <2>6. Types'
    BY <2>1, <2>2, <2>4, <2>5, Zenon DEF Types
  <2> QED
    BY <2>1, <2>2, <2>3, <2>4, <2>5, <2>6 DEF ClientInv, BeforeRequest, WhileResolving, WhileConnected,
                                  AtTheEnd, FreedByTimeout
<1> QED BY <1>1, <1>2 DEF DnsCallback

\* A request is made, and perhaps resolved at once.
LEMMA HttpRequestKeepsInv ==
  ASSUME ClientInv, HttpRequest
  PROVE  ClientInv'
<1> USE DEF Blocks, SdkHasConn
<1>1. told = <<>> /\ timedOut = FALSE /\ timer = FALSE /\ sentCbs = 0 /\ FreedByTimeout
  BY DEF HttpRequest, ClientInv, Types, BeforeRequest, SentForConn, ToldAtTheEnd
<1>2. UNCHANGED <<sentCbs, timedOut, fault>>
  BY DEF HttpRequest
<1>3. PICK headers \in BOOLEAN :
        LET null == (IF headers THEN {} ELSE {"headers"})
                      \cup (IF request'.body THEN {} ELSE {"post"}) \cup {"conn"}
            h == [b \in Blocks |-> IF b \in null THEN "null" ELSE "live"]
        IN  \/ heap' = h /\ sdk' = "resolving" /\ UNCHANGED <<timer, told>>
            \/ DnsCallback(h, request')
  BY DEF HttpRequest
<1> DEFINE null == (IF headers THEN {} ELSE {"headers"})
                     \cup (IF request'.body THEN {} ELSE {"post"}) \cup {"conn"}
           h == [b \in Blocks |-> IF b \in null THEN "null" ELSE "live"]
<1>4. h \in [Blocks -> {"null", "live", "freed"}] /\ h["req"] = "live" /\ h["conn"] = "null"
  OBVIOUS
<1>5. \/ heap' = h /\ sdk' = "resolving" /\ UNCHANGED <<timer, told>>
      \/ DnsCallback(h, request')
  BY <1>3
<1> HIDE DEF null, h
<1>6. CASE heap' = h /\ sdk' = "resolving" /\ UNCHANGED <<timer, told>>
  BY <1>1, <1>2, <1>4, <1>6
     DEF ClientInv, Types, BeforeRequest, WhileResolving, WhileConnected, AtTheEnd, SentForConn,
         ToldAtTheEnd, FreedByTimeout
<1>7. CASE DnsCallback(h, request')
  BY <1>1, <1>2, <1>4, <1>7, DnsKeepsInv
<1> QED BY <1>5, <1>6, <1>7

\* The address is found, or is not.
LEMMA ResolvedKeepsInv ==
  ASSUME ClientInv, Resolved
  PROVE  ClientInv'
<1>1. told = <<>> /\ timedOut = FALSE /\ timer = FALSE /\ sentCbs = 0 /\ FreedByTimeout
      /\ heap["req"] = "live" /\ heap["conn"] = "null"
      /\ heap \in [Blocks -> {"null", "live", "freed"}]
  BY DEF Resolved, ClientInv, Types, WhileResolving, SentForConn, ToldAtTheEnd
<1> QED
  BY <1>1, DnsKeepsInv DEF Resolved

\* The callbacks of a connection find its memory, or the request timed out.
LEMMA ConnOfTheRequest ==
  ASSUME ClientInv, sdk \in SdkHasConn
  PROVE  (Dangling <=> timedOut) /\ (~timedOut => heap["req"] = "live" /\ told = <<>>)
BY DEF ClientInv, Types, WhileConnected, Dangling, ToldAtTheEnd, SdkHasConn

\* The connection is made.
LEMMA ConnectKeepsInv ==
  ASSUME ClientInv, ConnectCallback
  PROVE  ClientInv'
<1> USE DEF Blocks, SdkHasConn
<1>1. CASE Dangling
  BY <1>1, ConnOfTheRequest, TouchKeepsInv DEF ConnectCallback
<1>2. CASE ~Dangling
  <2>0. sdk \in SdkHasConn
    BY DEF ConnectCallback
  <2>1. ~timedOut /\ heap["req"] = "live" /\ heap["conn"] = "live" /\ told = <<>>
    BY <1>2, <2>0, ConnOfTheRequest DEF ClientInv, WhileConnected
  <2>2. heap' \in [Blocks -> {"null", "live", "freed"}] /\ heap'["req"] = "live"
        /\ heap'["conn"] = "live"
    BY <1>2, <2>1 DEF ConnectCallback, ClientInv, Types
  <2>3. sdk' = "connected" /\ sentCbs' = 1 /\ UNCHANGED <<timer, told, timedOut, fault>>
    BY <1>2 DEF ConnectCallback
  <2>4. Types' /\ SentForConn'
    BY <2>2, <2>3 DEF ClientInv, Types, SentForConn
  <2> QED
    BY <2>1, <2>2, <2>3, <2>4 DEF ClientInv, BeforeRequest, WhileResolving, WhileConnected,
                                  AtTheEnd, ToldAtTheEnd, FreedByTimeout
<1> QED BY <1>1, <1>2

\* The request was sent.
LEMMA SentKeepsInv ==
  ASSUME ClientInv, SentCallback
  PROVE  ClientInv'
<1> USE DEF Blocks, SdkHasConn
<1>0. sdk \in {"connected", "closing"}
  BY DEF SentCallback, ClientInv, SentForConn
<1>1. CASE Dangling
  BY <1>0, <1>1, ConnOfTheRequest, TouchKeepsInv DEF SentCallback
<1>2. CASE ~Dangling
  <2>1. ~timedOut /\ heap["req"] = "live" /\ heap["conn"] = "live" /\ told = <<>>
    BY <1>0, <1>2, ConnOfTheRequest DEF ClientInv, WhileConnected
  <2>2. heap' \in [Blocks -> {"null", "live", "freed"}] /\ heap'["req"] = "live"
        /\ heap'["conn"] = "live"
    BY <1>2, <2>1 DEF SentCallback, ClientInv, Types
  <2>3. sentCbs' \in Nat /\ UNCHANGED <<sdk, timer, told, timedOut, fault>>
    BY <1>2 DEF SentCallback, ClientInv, Types
  <2> QED
    BY <1>0, <2>1, <2>2, <2>3 DEF ClientInv, Types, BeforeRequest, WhileResolving, WhileConnected,
                                  AtTheEnd, SentForConn, ToldAtTheEnd, FreedByTimeout
<1> QED BY <1>1, <1>2

\* A part of the response comes.
LEMMA ReceiveKeepsInv ==
  ASSUME ClientInv, ReceiveCallback
  PROVE  ClientInv'
<1> USE DEF SdkHasConn
<1>1. CASE Dangling
  BY <1>1, ConnOfTheRequest, TouchKeepsInv DEF ReceiveCallback
<1>2. CASE ~Dangling
  <2>1. sdk' \in {"connected", "closing"}
        /\ UNCHANGED <<heap, timer, sentCbs, told, timedOut, fault>>
    BY <1>2 DEF ReceiveCallback, Keep, Discard
  <2> QED
    BY <2>1 DEF ReceiveCallback, ClientInv, Types, BeforeRequest, WhileResolving, WhileConnected,
                AtTheEnd, SentForConn, ToldAtTheEnd, FreedByTimeout, NothingLive
<1> QED BY <1>1, <1>2

\* Everything is freed.
LEMMA AllFreed ==
  ASSUME ClientInv, heap["req"] = "live", heap["conn"] = "live", heap' = Freed(heap, Blocks)
  PROVE  /\ heap' \in [Blocks -> {"null", "live", "freed"}]
         /\ heap'["req"] = "freed" /\ heap'["conn"] = "freed" /\ NothingLive'
BY DEF ClientInv, Types, Freed, Blocks, NothingLive

\* The connection ends: the user is told and everything freed.
LEMMA DisconnectKeepsInv ==
  ASSUME ClientInv, DisconnectCallback
  PROVE  ClientInv'
<1> USE DEF SdkHasConn
<1>1. CASE Dangling
  BY <1>1, ConnOfTheRequest, TouchKeepsInv DEF DisconnectCallback
<1>2. CASE ~Dangling
  <2>1. ~timedOut /\ heap["req"] = "live" /\ heap["conn"] = "live" /\ told = <<>>
    BY <1>2, ConnOfTheRequest DEF DisconnectCallback, ClientInv, WhileConnected
  <2>2. timer' = FALSE /\ timedOut' = timedOut
    BY <1>2 DEF DisconnectCallback
  <2>3. CASE Decoded(buffer).null
    <3>1. fault' = "null" /\ UNCHANGED <<told, heap, sdk, sentCbs>>
      BY <1>2, <2>3 DEF DisconnectCallback
    <3> QED
      BY <2>1, <2>2, <3>1 DEF DisconnectCallback, ClientInv, Types, BeforeRequest, WhileResolving,
           WhileConnected, AtTheEnd, SentForConn, ToldAtTheEnd, FreedByTimeout
  <2>4. CASE ~Decoded(buffer).null
    <3>1. told' = Append(told, Decoded(buffer).answer) /\ heap' = Freed(heap, Blocks)
          /\ sdk' = "gone" /\ sentCbs' = 0 /\ fault' = fault
      BY <1>2, <2>4 DEF DisconnectCallback
    <3>2. Len(told') = 1
      BY <2>1, <3>1
    <3>3. heap' \in [Blocks -> {"null", "live", "freed"}]
          /\ heap'["req"] = "freed" /\ heap'["conn"] = "freed" /\ NothingLive'
      BY <2>1, <3>1, AllFreed
    <3>4. SentForConn' /\ sentCbs' \in Nat
      BY <3>1 DEF SentForConn
    <3>5. Types'
      BY <2>1, <2>2, <3>1, <3>3, <3>4, Zenon DEF ClientInv, Types
    <3> QED
      BY <2>1, <2>2, <3>1, <3>2, <3>3, <3>4, <3>5 DEF ClientInv, BeforeRequest, WhileResolving,
           WhileConnected, AtTheEnd, ToldAtTheEnd, FreedByTimeout
  <2> QED BY <2>3, <2>4
<1> QED BY <1>1, <1>2

\* The timer runs for a request that still has its memory.
LEMMA TimeoutKeepsInv ==
  ASSUME ClientInv, TimeoutCallback
  PROVE  ClientInv'
<1> USE DEF SdkHasConn
<1>1. sdk \in SdkHasConn /\ ~timedOut
  BY DEF TimeoutCallback, ClientInv, Types, BeforeRequest, WhileResolving, WhileConnected, AtTheEnd
<1>2. ~Dangling /\ heap["req"] = "live" /\ heap["conn"] = "live" /\ told = <<>>
  BY <1>1, ConnOfTheRequest DEF ClientInv, WhileConnected
<1>3. timer' = FALSE /\ timedOut' = TRUE /\ heap' = Freed(heap, Blocks)
      /\ UNCHANGED <<sentCbs, told, fault>>
  BY <1>2 DEF TimeoutCallback
<1>4. sdk' = CASE sdk = "unasked" -> "gone" [] sdk = "connected" -> "closing" [] OTHER -> sdk
  BY <1>2 DEF TimeoutCallback
<1>5. sdk' \in {"gone"} \cup SdkHasConn /\ (sdk \in {"connected", "closing"} => sdk' = "closing")
  BY <1>1, <1>4
<1>6. heap' \in [Blocks -> {"null", "live", "freed"}]
      /\ heap'["req"] = "freed" /\ heap'["conn"] = "freed" /\ NothingLive'
  BY <1>2, <1>3, AllFreed
<1>7. Len(told') = 0
  BY <1>2, <1>3
<1> QED
  BY <1>3, <1>5, <1>6, <1>7 DEF ClientInv, Types, BeforeRequest, WhileResolving, WhileConnected,
       AtTheEnd, SentForConn, ToldAtTheEnd, FreedByTimeout

\* Every step of the client keeps the invariant.
LEMMA NextKeepsClientInv == ClientInv /\ [ClientNext]_clientVars => ClientInv'
<1> SUFFICES ASSUME ClientInv, [ClientNext]_clientVars PROVE ClientInv'
  OBVIOUS
<1>1. CASE UNCHANGED clientVars
  BY <1>1 DEF clientVars, ClientInv, Types, BeforeRequest, WhileResolving, WhileConnected, AtTheEnd,
              SentForConn, ToldAtTheEnd, FreedByTimeout, NothingLive
<1>2. CASE ClientStep
  BY <1>2, HttpRequestKeepsInv, ResolvedKeepsInv, ConnectKeepsInv, SentKeepsInv, ReceiveKeepsInv,
     DisconnectKeepsInv, TimeoutKeepsInv DEF ClientStep
<1> QED BY <1>1, <1>2 DEF ClientNext

\* The inductive invariant holds.
THEOREM ClientInvariant == ClientSpec => []ClientInv
<1>1. ClientInit => ClientInv
  BY InitClientInv
<1>2. ClientInv /\ [ClientNext]_clientVars => ClientInv'
  BY NextKeepsClientInv
<1> QED BY <1>1, <1>2, PTL DEF ClientSpec

\* The user is told of the end of a request once, and never of a timeout.
THEOREM ClientTellsOnce == ClientSpec => []ToldOnceUnlessTimedOut
<1>1. ClientInv => ToldOnceUnlessTimedOut
  BY DEF ClientInv, ToldAtTheEnd, ToldOnceUnlessTimedOut, Over
<1> QED BY <1>1, ClientInvariant, PTL

\* Freed memory is touched only after a timeout, and a request that had a connection leaves nothing
\* behind.
THEOREM ClientMemory == ClientSpec => []MemoryAccounted
<1>1. ClientInv => MemoryAccounted
  <2> SUFFICES ASSUME ClientInv PROVE MemoryAccounted
    OBVIOUS
  <2>1. ASSUME Over, heap["conn"] # "null" PROVE NothingLive
    BY <2>1 DEF ClientInv, Types, BeforeRequest, WhileResolving, WhileConnected, AtTheEnd, Over,
                SdkHasConn
  <2> QED
    BY <2>1 DEF ClientInv, FreedByTimeout, MemoryAccounted, NothingLive
<1> QED BY <1>1, ClientInvariant, PTL

----------------------------------------------------------------------------
(***************************************************************************)
(* What a response is decoded to.                                          *)
(***************************************************************************)

\* Everything a response may hold.
Tokens ==
  (UNION {ToSet(p) : p \in Parts})
    \cup {"0", "1", "2", "nl", "version", "other", "chunked", "header", "empty line"}

\* What is decoded from token p on, if f says what is decoded from each later one.
DecodedAt(t, f, p) ==
  LET nothing == [body |-> <<>>, null |-> FALSE]
      n == Number(t[p])
  IN  IF p > Len(t) THEN nothing
      ELSE IF t[p] = "nl" THEN f[p + 1]
      ELSE IF n = 0 THEN nothing
      ELSE IF p = Len(t) THEN [body |-> <<>>, null |-> TRUE]
      ELSE LET rest == f[p + 1 + n + 1 + 1]
           IN  [rest EXCEPT !.body = Moved(t, p + 1, n) \o @]

\* f says it for every token.
IsDecoding(f, t) == f = [p \in 1 .. Len(t) + 4 |-> DecodedAt(t, f, p)]

\* A part is one token or two.
LEMMA PartTypes ==
  ASSUME NEW p \in Parts
  PROVE  p \in Seq(Tokens) /\ Len(p) \in 1 .. 2
<1>1. p \in Seq(ToSet(p)) /\ Len(p) \in 1 .. 2
  BY ClientAssumption
<1>2. ToSet(p) \subseteq Tokens
  BY DEF Tokens
<1> QED
  BY <1>1, <1>2

\* What is decoded from a token on depends on what is decoded from later ones only.
LEMMA DecodedLooksBehind ==
  ASSUME NEW t \in Seq(Tokens), NEW f, NEW g, NEW p \in 1 .. Len(t) + 4,
         \A q \in p + 1 .. Len(t) + 4 : f[q] = g[q]
  PROVE  DecodedAt(t, f, p) = DecodedAt(t, g, p)
<1>1. Len(t) \in Nat
  BY LenProperties
<1>2. CASE p >= Len(t)
  <2>1. p + 1 \in p + 1 .. Len(t) + 4 \/ p > Len(t)
    BY <1>1
  <2> QED
    BY <1>1, <1>2, <2>1 DEF DecodedAt
<1>3. CASE p < Len(t)
  <2> DEFINE n == Number(t[p])
             next == p + 1 + n + 1 + 1
  <2>1. n \in 0 .. 2
    BY DEF Number
  <2> HIDE DEF n
  <2>2. p + 1 \in p + 1 .. Len(t) + 4 /\ next \in p + 1 .. Len(t) + 4
    BY <1>1, <1>3, <2>1
  <2>3. f[p + 1] = g[p + 1] /\ f[next] = g[next]
    BY <2>2
  <2> QED
    BY <2>3, Zenon DEF DecodedAt, n
<1> QED
  BY <1>1, <1>2, <1>3

\* There is a function that says it for every token.
LEMMA DecodingExists ==
  ASSUME NEW t \in Seq(Tokens)
  PROVE  \E f : IsDecoding(f, t)
<1> DEFINE L == Len(t) + 4
           Upto(k, f) == \A p \in L + 1 - k .. L : f[p] = DecodedAt(t, f, p)
           K == {k \in 1 .. L : \E f : Upto(k, f)}
<1>1. Len(t) \in Nat /\ L \in Nat /\ L >= 4 /\ L > Len(t)
  BY LenProperties
<1> HIDE DEF L
<1>2. 1 \in K
  <2> DEFINE g == [p \in 1 .. L |-> [body |-> <<>>, null |-> FALSE]]
  <2>1. Upto(1, g)
    <3> SUFFICES ASSUME NEW p \in L + 1 - 1 .. L
                 PROVE  g[p] = DecodedAt(t, g, p)
      OBVIOUS
    <3>1. p = L /\ p \in 1 .. L /\ p > Len(t)
      BY <1>1
    <3>2. g[p] = [body |-> <<>>, null |-> FALSE]
      BY <3>1
    <3> QED
      BY <3>1, <3>2, Zenon DEF DecodedAt
  <2>2. 1 \in 1 .. L
    BY <1>1
  <2> HIDE DEF Upto, g
  <2> QED
    BY <2>1, <2>2
<1>3. ASSUME NEW k \in 1 .. L, k > 1, k - 1 \in K
      PROVE  k \in K
  <2>1. PICK f : Upto(k - 1, f)
    BY <1>3
  <2> DEFINE at == L + 1 - k
             g == [p \in 1 .. L |-> IF p = at THEN DecodedAt(t, f, p) ELSE f[p]]
  <2>2. at \in 1 .. L
    BY <1>1
  <2>3. \A q \in at + 1 .. L : g[q] = f[q]
    BY <1>1, <2>2
  <2>4. ASSUME NEW p \in at .. L
        PROVE  g[p] = DecodedAt(t, g, p)
    <3>1. p \in 1 .. Len(t) + 4
      BY <2>2 DEF L
    <3>2. DecodedAt(t, g, p) = DecodedAt(t, f, p)
      <4>1. \A q \in p + 1 .. Len(t) + 4 : g[q] = f[q]
        BY <1>1, <2>2, <2>3 DEF L
      <4> HIDE DEF g
      <4> QED
        BY <3>1, <4>1, DecodedLooksBehind
    <3>3. g[p] = DecodedAt(t, f, p)
      <4>1. CASE p = at
        BY <2>2, <4>1, Zenon
      <4>2. CASE p # at
        <5>1. g[p] = f[p]
          BY <3>1, <4>2 DEF L
        <5>2. p \in L + 1 - (k - 1) .. L
          BY <1>1, <2>2, <4>2
        <5> QED
          BY <2>1, <5>1, <5>2
      <4> QED
        BY <4>1, <4>2
    <3> QED
      BY <3>2, <3>3
  <2>5. Upto(k, g)
    BY <2>4
  <2> HIDE DEF Upto, g
  <2> QED
    BY <2>5
<1> HIDE DEF Upto, K
<1>4. L \in K
  <2>1. 1 .. L \subseteq K
    BY <1>1, <1>2, <1>3, UpTo
  <2>2. L \in 1 .. L
    BY <1>1
  <2> QED
    BY <2>1, <2>2
<1>5. PICK f : Upto(L, f)
  BY <1>4 DEF K
<1> DEFINE g == [p \in 1 .. L |-> f[p]]
<1>6. ASSUME NEW p \in 1 .. L
      PROVE  g[p] = DecodedAt(t, g, p)
  <2>1. \A q \in p + 1 .. Len(t) + 4 : g[q] = f[q]
    BY <1>1 DEF L
  <2>2. p \in 1 .. Len(t) + 4
    BY DEF L
  <2>3. DecodedAt(t, g, p) = DecodedAt(t, f, p)
    <3> HIDE DEF g
    <3> QED
      BY <2>1, <2>2, DecodedLooksBehind
  <2>4. L + 1 - L = 1
    BY <1>1
  <2>5. f[p] = DecodedAt(t, f, p)
    BY <1>5, <2>4 DEF Upto
  <2> QED
    BY <2>3, <2>5
<1>7. IsDecoding(g, t)
  <2>1. g = [p \in 1 .. L |-> g[p]]
    OBVIOUS
  <2> HIDE DEF g
  <2>2. g = [p \in 1 .. L |-> DecodedAt(t, g, p)]
    BY <1>6, <2>1
  <2> QED
    BY <2>2 DEF IsDecoding, L
<1> QED
  BY <1>7

\* chunked_decode is one.
LEMMA ChunkedDecodeIs ==
  ASSUME NEW t \in Seq(Tokens)
  PROVE  \E f : IsDecoding(f, t) /\ ChunkedDecode(t) = f[1]
<1> DEFINE g == CHOOSE f : f = [p \in 1 .. Len(t) + 4 |-> DecodedAt(t, f, p)]
<1>1. ChunkedDecode(t) = g[1]
  BY Zenon DEF ChunkedDecode, DecodedAt
<1>2. \E f : f = [p \in 1 .. Len(t) + 4 |-> DecodedAt(t, f, p)]
  BY DecodingExists DEF IsDecoding
<1>3. IsDecoding(g, t)
  BY <1>2 DEF IsDecoding
<1> QED
  BY <1>1, <1>3


\* s lies in t behind i tokens.
LiesIn(t, i, s) == i \in Nat /\ i + Len(s) <= Len(t) /\ \A k \in 1 .. Len(s) : t[i + k] = s[k]

\* Tokens behind tokens are tokens.
LEMMA TokensBehind ==
  ASSUME NEW a \in Seq(Tokens), NEW b \in Seq(Tokens)
  PROVE  \E c \in Seq(Tokens) : c = a \o b
<1>1. a \o b \in Seq(Tokens)
  BY ConcatProperties
<1> QED
  BY <1>1, Zenon

\* Their members.
LEMMA MembersBehind ==
  ASSUME NEW a \in Seq(Tokens), NEW b \in Seq(Tokens), NEW c \in Seq(Tokens), c = a \o b
  PROVE  /\ Len(c) = Len(a) + Len(b) /\ Len(a) \in Nat /\ Len(b) \in Nat
         /\ \A k \in 1 .. Len(a) : c[k] = a[k]
         /\ \A k \in 1 .. Len(b) : c[Len(a) + k] = b[k]
OBVIOUS

\* Of two sequences the second one lies behind the first.
LEMMA LiesBehind ==
  ASSUME NEW t \in Seq(Tokens), NEW i, NEW a \in Seq(Tokens), NEW b \in Seq(Tokens),
         LiesIn(t, i, a \o b)
  PROVE  LiesIn(t, i, a) /\ LiesIn(t, i + Len(a), b)
<1>1. PICK c \in Seq(Tokens) : c = a \o b
  BY TokensBehind
<1>2. /\ Len(c) = Len(a) + Len(b) /\ Len(a) \in Nat /\ Len(b) \in Nat /\ Len(t) \in Nat
      /\ \A k \in 1 .. Len(a) : c[k] = a[k]
      /\ \A k \in 1 .. Len(b) : c[Len(a) + k] = b[k]
  BY <1>1, MembersBehind, LenProperties
<1>3. i \in Nat /\ i + Len(c) <= Len(t) /\ \A k \in 1 .. Len(c) : t[i + k] = c[k]
  BY <1>1, Zenon DEF LiesIn
<1>4. i + Len(a) <= Len(t) /\ i + Len(a) + Len(b) <= Len(t) /\ i + Len(a) \in Nat
  BY <1>2, <1>3
<1>5. \A k \in 1 .. Len(a) : t[i + k] = a[k]
  <2> TAKE k \in 1 .. Len(a)
  <2>1. k \in 1 .. Len(c)
    BY <1>2
  <2>2. t[i + k] = c[k] /\ c[k] = a[k]
    BY <1>2, <1>3, <2>1
  <2> QED
    BY <2>2
<1>6. \A k \in 1 .. Len(b) : t[i + Len(a) + k] = b[k]
  <2> TAKE k \in 1 .. Len(b)
  <2>1. Len(a) + k \in 1 .. Len(c) /\ i + Len(a) + k = i + (Len(a) + k)
    BY <1>2, <1>3
  <2>2. t[i + (Len(a) + k)] = c[Len(a) + k] /\ c[Len(a) + k] = b[k]
    BY <1>2, <1>3, <2>1
  <2> QED
    BY <2>1, <2>2
<1> QED
  BY <1>3, <1>4, <1>5, <1>6, Zenon DEF LiesIn

\* Sizes and line ends.
LEMMA ChunkEnds ==
  /\ <<"nl">> \in Seq(Tokens) /\ Len(<<"nl">>) = 1
  /\ \A n \in 1 .. 2 :
       /\ Size(n) \in Tokens /\ Size(n) # "nl" /\ Number(Size(n)) = n
       /\ <<Size(n), "nl">> \in Seq(Tokens) /\ Len(<<Size(n), "nl">>) = 2
<1>1. \A n \in 1 .. 2 : Size(n) \in {"1", "2"} /\ Size(n) # "nl" /\ Number(Size(n)) = n
  BY DEF Size, Number
<1>2. "1" \in Tokens /\ "2" \in Tokens /\ "nl" \in Tokens
  BY DEF Tokens
<1> HIDE DEF Tokens
<1> QED
  BY <1>1, <1>2

\* Where the part of a chunk lies.
LEMMA ChunkLies ==
  ASSUME NEW t \in Seq(Tokens), NEW i, NEW part \in Seq(Tokens), Len(part) \in 1 .. 2,
         LiesIn(t, i, ChunkOf(part))
  PROVE  i \in Nat /\ LiesIn(t, i + 2, part) /\ t[i + 1] = Size(Len(part)) /\ i + Len(part) + 3 <= Len(t)
<1> DEFINE n == Len(part)
<1>1. PICK h \in Seq(Tokens), e \in Seq(Tokens) : h = <<Size(n), "nl">> /\ e = <<"nl">>
  BY ChunkEnds
<1>2. Len(h) = 2 /\ h[1] = Size(n) /\ Len(e) = 1
  BY <1>1
<1>3. PICK c \in Seq(Tokens) : c = h \o part
  BY TokensBehind
<1>4. Len(c) = n + 2 /\ n \in Nat
  <2>1. Len(c) = Len(h) + Len(part)
    BY <1>3, ConcatProperties
  <2> QED
    BY <1>2, <2>1, LenProperties
<1>5. LiesIn(t, i, c \o e)
  BY <1>1, <1>3, Zenon DEF ChunkOf
<1>6. LiesIn(t, i, c) /\ LiesIn(t, i + Len(c), e)
  BY <1>5, LiesBehind
<1>7. LiesIn(t, i, h) /\ LiesIn(t, i + Len(h), part)
  BY <1>3, <1>6, LiesBehind, Zenon
<1>8. i \in Nat /\ LiesIn(t, i + 2, part)
  BY <1>2, <1>7 DEF LiesIn
<1>9. t[i + 1] = h[1]
  BY <1>2, <1>7 DEF LiesIn
<1>10. i + Len(c) + 1 <= Len(t)
  BY <1>2, <1>6 DEF LiesIn
<1> QED
  BY <1>2, <1>4, <1>8, <1>9, <1>10, LenProperties

\* The body that is decoded is another one.
LEMMA BodyReplaced ==
  ASSUME NEW b \in Seq(Tokens), NEW x \in Seq(Tokens), NEW null \in BOOLEAN
  PROVE  [[body |-> b, null |-> null] EXCEPT !.body = x] = [body |-> x, null |-> null]
OBVIOUS

\* From token k on the body x is decoded.
Yields(f, k, x) == f[k] = [body |-> x, null |-> FALSE]

\* From the size of a chunk on, its part is decoded, and then what is behind it.
LEMMA ChunkDecoded ==
  ASSUME NEW t \in Seq(Tokens), NEW f, IsDecoding(f, t),
         NEW part \in Seq(Tokens), Len(part) \in 1 .. 2,
         NEW i, LiesIn(t, i, ChunkOf(part)),
         NEW text \in Seq(Tokens), Yields(f, i + Len(part) + 4, text)
  PROVE  Yields(f, i + 1, part \o text)
<1> DEFINE n == Len(part)
           p == i + 1
<1>1. i \in Nat /\ LiesIn(t, i + 2, part) /\ t[p] = Size(n) /\ i + n + 3 <= Len(t)
  BY ChunkLies
<1>2. Len(t) \in Nat /\ n \in 1 .. 2
  BY LenProperties
<1>3. t[p] # "nl" /\ Number(t[p]) = n
  BY <1>1, <1>2, ChunkEnds
<1>4. Moved(t, p + 1, n) = part
  <2>1. \A k \in 1 .. n : p + 1 + k <= Len(t) /\ t[p + 1 + k] = part[k]
    <3> TAKE k \in 1 .. n
    <3>1. p + 1 + k <= Len(t) /\ p + 1 + k = i + 2 + k
      BY <1>1, <1>2
    <3>2. t[i + 2 + k] = part[k]
      BY <1>1, Zenon DEF LiesIn
    <3> QED
      BY <3>1, <3>2
  <2>2. part = [k \in 1 .. n |-> part[k]]
    OBVIOUS
  <2> HIDE DEF p, n
  <2> QED
    BY <2>1, <2>2 DEF Moved
<1>5. /\ p \in 1 .. Len(t) + 4 /\ ~(p > Len(t)) /\ n # 0 /\ p # Len(t)
      /\ p + 1 + n + 1 + 1 = i + n + 4
  <2> HIDE DEF n
  <2> QED
    BY <1>1, <1>2
<1>6. f[p] = DecodedAt(t, f, p)
  BY <1>5, Zenon DEF IsDecoding
<1>7. f[p + 1 + n + 1 + 1] = [body |-> text, null |-> FALSE]
  BY <1>5 DEF Yields
<1> HIDE DEF p, n
<1>8. f[p] = [f[p + 1 + n + 1 + 1] EXCEPT !.body = Moved(t, p + 1, n) \o @]
  BY <1>3, <1>5, <1>6, Zenon DEF DecodedAt
<1>9. f[p] = [[body |-> text, null |-> FALSE] EXCEPT !.body = part \o @]
  BY <1>4, <1>7, <1>8, Zenon
<1>10. part \o text \in Seq(Tokens)
  BY ConcatProperties
<1>11. f[p] = [body |-> part \o text, null |-> FALSE]
  BY <1>9, <1>10, BodyReplaced
<1> QED
  BY <1>11, Zenon DEF p, Yields

\* At the end there is nothing to decode.
LEMMA EndDecoded ==
  ASSUME NEW t \in Seq(Tokens), NEW f, IsDecoding(f, t),
         NEW i, LiesIn(t, i, <<"0", "nl", "nl">>)
  PROVE  Yields(f, i + 1, <<>>)
<1>1. i \in Nat /\ i + 3 <= Len(t) /\ t[i + 1] = "0" /\ Len(t) \in Nat
  BY DEF LiesIn
<1> DEFINE p == i + 1
<1>2. p \in 1 .. Len(t) + 4 /\ ~(p > Len(t)) /\ t[p] # "nl" /\ Number(t[p]) = 0
  BY <1>1 DEF Number
<1> HIDE DEF p
<1>3. f[p] = DecodedAt(t, f, p)
  BY <1>2, Zenon DEF IsDecoding
<1>4. f[p] = [body |-> <<>>, null |-> FALSE]
  BY <1>2, <1>3, Zenon DEF DecodedAt
<1> QED
  BY <1>4 DEF p, Yields

\* A chunk is tokens, three more than its part.
LEMMA ChunkTokens ==
  ASSUME NEW part \in Seq(Tokens), Len(part) \in 1 .. 2
  PROVE  ChunkOf(part) \in Seq(Tokens) /\ Len(ChunkOf(part)) = Len(part) + 3
<1>1. PICK h \in Seq(Tokens), e \in Seq(Tokens) : h = <<Size(Len(part)), "nl">> /\ e = <<"nl">>
  BY ChunkEnds
<1>2. Len(h) = 2 /\ Len(e) = 1
  BY <1>1
<1>3. PICK c \in Seq(Tokens) : c = h \o part
  BY TokensBehind
<1>4. PICK d \in Seq(Tokens) : d = c \o e
  BY TokensBehind
<1>5. Len(c) = Len(h) + Len(part) /\ Len(d) = Len(c) + Len(e)
  BY <1>3, <1>4, ConcatProperties
<1>6. ChunkOf(part) = d
  BY <1>1, <1>3, <1>4, Zenon DEF ChunkOf
<1> QED
  BY <1>2, <1>5, <1>6, LenProperties

\* A sequence is a function of its members.
LEMMA MembersOf ==
  ASSUME NEW S, NEW s \in Seq(S), NEW k \in Int, Len(s) = k
  PROVE  s = [n \in 1 .. k |-> s[n]]
OBVIOUS

\* The chunks of some parts.
Chunks(q) == [n \in 1 .. Len(q) |-> ChunkOf(q[n])]

\* The chunks of no parts, and of one part more.
LEMMA ChunksOf ==
  /\ Chunks(<<>>) = <<>>
  /\ \A q \in Seq(Parts) : Chunks(q) \in Seq(Seq(Tokens))
  /\ \A q \in Seq(Parts) :
       q # <<>> => /\ Head(q) \in Parts /\ Tail(q) \in Seq(Parts) /\ Len(Tail(q)) = Len(q) - 1
                  /\ Chunks(q) # <<>> /\ Head(Chunks(q)) = ChunkOf(Head(q))
                  /\ Tail(Chunks(q)) = Chunks(Tail(q))
<1>1. Chunks(<<>>) = <<>>
  BY DEF Chunks
<1>2. ASSUME NEW q \in Seq(Parts)
      PROVE  Chunks(q) \in Seq(Seq(Tokens))
  <2>1. \A n \in 1 .. Len(q) : ChunkOf(q[n]) \in Seq(Tokens)
    BY PartTypes, ChunkTokens, ElementOfSeq
  <2>2. Len(q) \in Nat
    BY LenProperties
  <2> QED
    BY <2>1, <2>2 DEF Chunks
<1>3. ASSUME NEW q \in Seq(Parts), q # <<>>
      PROVE  /\ Head(q) \in Parts /\ Tail(q) \in Seq(Parts) /\ Len(Tail(q)) = Len(q) - 1
             /\ Chunks(q) # <<>> /\ Head(Chunks(q)) = ChunkOf(Head(q))
             /\ Tail(Chunks(q)) = Chunks(Tail(q))
  <2>1. Head(q) \in Parts /\ Tail(q) \in Seq(Parts) /\ Len(Tail(q)) = Len(q) - 1
        /\ Head(q) = q[1] /\ \A n \in 1 .. Len(Tail(q)) : Tail(q)[n] = q[n + 1]
    BY <1>3, HeadTailProperties
  <2>2. Len(q) \in Nat \ {0}
    BY <1>3, EmptySeq, LenProperties
  <2> DEFINE c == Chunks(q)
  <2>3. c \in Seq(Seq(Tokens)) /\ Len(c) = Len(q) /\ \A n \in 1 .. Len(q) : c[n] = ChunkOf(q[n])
    BY <1>2, <2>2 DEF Chunks
  <2> HIDE DEF c
  <2>4. c # <<>> /\ Head(c) = ChunkOf(q[1])
    BY <2>2, <2>3
  <2>5. /\ Tail(c) \in Seq(Seq(Tokens)) /\ Len(Tail(c)) = Len(q) - 1
        /\ \A n \in 1 .. Len(q) - 1 : Tail(c)[n] = c[n + 1]
    BY <2>3, <2>4, HeadTailProperties
  <2>6. \A n \in 1 .. Len(q) - 1 : n + 1 \in 1 .. Len(q)
    BY <2>2
  <2>7. \A n \in 1 .. Len(q) - 1 : Tail(c)[n] = ChunkOf(Tail(q)[n])
    BY <2>1, <2>3, <2>5, <2>6
  <2>8. Tail(c) = [n \in 1 .. Len(q) - 1 |-> Tail(c)[n]]
    <3>1. Len(q) - 1 \in Int
      BY <2>2
    <3> QED
      BY <2>5, <3>1, MembersOf
  <2>9. Tail(c) = [n \in 1 .. Len(q) - 1 |-> ChunkOf(Tail(q)[n])]
    BY <2>7, <2>8
  <2>10. Tail(c) = Chunks(Tail(q))
    BY <2>1, <2>9, Zenon DEF Chunks
  <2> QED
    BY <2>1, <2>4, <2>10 DEF c
<1> QED
  BY <1>1, <1>2, <1>3

\* Behind i tokens the rest of a response lies in t: some parts and the end.
RestLies(t, i, q) ==
  /\ LiesIn(t, i, FlattenSeq(Chunks(q)))
  /\ LiesIn(t, i + Len(FlattenSeq(Chunks(q))), <<"0", "nl", "nl">>)

\* Its parts are decoded, one behind the other.
LEMMA PartsDecoded ==
  ASSUME NEW t \in Seq(Tokens), NEW f, IsDecoding(f, t), NEW m \in Seq(Parts), NEW j, RestLies(t, j, m)
  PROVE  Yields(f, j + 1, FlattenSeq(m))
<1> DEFINE Right(i, q) == Yields(f, i + 1, FlattenSeq(q))
           N == {n \in Nat : \E q \in Seq(Parts) : Len(q) = n /\ \E i : RestLies(t, i, q) /\ ~Right(i, q)}
<1>1. ASSUME N # {}
      PROVE  FALSE
  <2>1. PICK n \in N : \A k \in N : n <= k
    BY <1>1, LeastElement
  <2>0. PICK q \in Seq(Parts) : Len(q) = n /\ \E i : RestLies(t, i, q) /\ ~Right(i, q)
    BY <2>1
  <2>2. PICK i : Len(q) = n /\ RestLies(t, i, q) /\ ~Right(i, q)
    BY <2>0
  <2>3. n \in Nat
    BY <2>1
  <2> DEFINE R == FlattenSeq(Chunks(q))
  <2>4. R \in Seq(Tokens) /\ LiesIn(t, i, R) /\ LiesIn(t, i + Len(R), <<"0", "nl", "nl">>)
    BY <2>2, ChunksOf, FlattenType DEF RestLies
  <2>5. CASE q = <<>>
    <3>1. R = <<>> /\ FlattenSeq(q) = <<>>
      BY <2>5, ChunksOf, FlattenEmpty
    <3>2. Len(R) = 0 /\ i \in Nat
      BY <2>4, <3>1 DEF LiesIn
    <3>3. i + Len(R) = i
      BY <3>2
    <3>4. Yields(f, i + 1, <<>>)
      BY <2>4, <3>3, EndDecoded
    <3> QED
      BY <2>2, <3>1, <3>4
  <2>6. CASE q # <<>>
    <3> DEFINE p == Head(q)
               r == Tail(q)
               S == FlattenSeq(Chunks(r))
               c == ChunkOf(p)
               text == FlattenSeq(r)
    <3>1. /\ p \in Parts /\ r \in Seq(Parts) /\ Len(r) = n - 1
          /\ Chunks(q) \in Seq(Seq(Tokens)) /\ Chunks(r) \in Seq(Seq(Tokens))
          /\ Chunks(q) # <<>> /\ Head(Chunks(q)) = c /\ Tail(Chunks(q)) = Chunks(r)
      BY <2>2, <2>6, ChunksOf
    <3>2. p \in Seq(Tokens) /\ Len(p) \in 1 .. 2
      BY <3>1, PartTypes
    <3>3. c \in Seq(Tokens) /\ Len(c) = Len(p) + 3
      BY <3>2, ChunkTokens
    <3>4. S \in Seq(Tokens)
      BY <3>1, FlattenType
    <3>5. R = c \o S
      BY <3>1, FlattenHead
    <3>6. q \in Seq(Seq(Tokens)) /\ r \in Seq(Seq(Tokens))
      <4>1. Parts \subseteq Seq(Tokens)
        BY PartTypes
      <4> QED
        BY <3>1, <4>1
    <3>7. text \in Seq(Tokens) /\ FlattenSeq(q) = p \o text
      BY <2>6, <3>6, FlattenHead, FlattenType
    <3> HIDE DEF p, r, S, c, text, R
    <3>8. LiesIn(t, i, c) /\ LiesIn(t, i + Len(c), S)
      BY <2>4, <3>3, <3>4, <3>5, LiesBehind, Zenon
    <3>9. i + Len(R) = i + Len(c) + Len(S)
      <4>1. Len(R) = Len(c) + Len(S) /\ Len(c) \in Nat /\ Len(S) \in Nat
        BY <3>3, <3>4, <3>5, ConcatProperties, LenProperties
      <4>2. i \in Nat
        BY <3>8 DEF LiesIn
      <4> QED
        BY <4>1, <4>2
    <3>10. RestLies(t, i + Len(c), r)
      BY <2>4, <3>8, <3>9 DEF RestLies, S
    <3>11. n - 1 \notin N /\ n - 1 \in Nat
      <4>1. n # 0
        BY <2>2, <2>6, EmptySeq
      <4>2. n - 1 \in Nat /\ ~(n <= n - 1)
        BY <2>3, <4>1
      <4> QED
        BY <2>1, <4>2
    <3>12. Right(i + Len(c), r)
      BY <3>1, <3>10, <3>11
    <3>13. i + Len(c) + 1 = i + Len(p) + 4
      <4>1. i \in Nat /\ Len(p) \in Nat
        BY <3>2, <3>8, LenProperties DEF LiesIn
      <4> QED
        BY <3>3, <4>1
    <3>14. Yields(f, i + Len(p) + 4, text)
      BY <3>12, <3>13 DEF text
    <3>15. Yields(f, i + 1, p \o text)
      BY <3>2, <3>7, <3>8, <3>14, ChunkDecoded, Zenon DEF c
    <3> QED
      BY <2>2, <3>7, <3>15, Zenon
  <2> QED
    BY <2>5, <2>6
<1>2. Len(m) \in Nat
  BY LenProperties
<1> QED
  BY <1>1, <1>2

\* A response has parts, in any number.
LEMMA ResponseTypes ==
  ASSUME NEW r \in Responses
  PROVE  r.parts \in Seq(Parts) /\ r.version \in BOOLEAN /\ r.chunked \in BOOLEAN
<1>1. r.parts \in BoundedSeq(Parts, MaxParts) /\ r.version \in BOOLEAN /\ r.chunked \in BOOLEAN
  BY DEF Responses
<1>2. PICK k \in 0 .. MaxParts : r.parts \in [1 .. k -> Parts]
  BY <1>1 DEF BoundedSeq, SeqOf
<1> QED
  BY <1>1, <1>2, ClientAssumption

\* What comes behind the empty line.
LEMMA BodyTypes ==
  ASSUME NEW r \in Responses
  PROVE  /\ BodyOf(r) \in Seq(Tokens)
         /\ r.parts \in Seq(Parts) /\ r.parts \in Seq(Seq(Tokens))
         /\ r.chunked => BodyOf(r) = FlattenSeq(Chunks(r.parts)) \o <<"0", "nl", "nl">>
         /\ ~r.chunked => BodyOf(r) = FlattenSeq(r.parts)
<1>1. r.parts \in Seq(Parts)
  BY ResponseTypes
<1>2. r.parts \in Seq(Seq(Tokens))
  <2>1. Parts \subseteq Seq(Tokens)
    BY PartTypes
  <2> QED
    BY <1>1, <2>1
<1>3. r.chunked => BodyOf(r) = FlattenSeq(Chunks(r.parts)) \o <<"0", "nl", "nl">>
  BY Zenon DEF BodyOf, Chunks
<1>4. ~r.chunked => BodyOf(r) = FlattenSeq(r.parts)
  BY Zenon DEF BodyOf
<1>5. FlattenSeq(r.parts) \in Seq(Tokens) /\ FlattenSeq(Chunks(r.parts)) \in Seq(Tokens)
  BY <1>1, <1>2, ChunksOf, FlattenType
<1>6. <<"0", "nl", "nl">> \in Seq(Tokens)
  <2>1. "0" \in Tokens /\ "nl" \in Tokens
    BY DEF Tokens
  <2> HIDE DEF Tokens
  <2> QED
    BY <2>1
<1>7. BodyOf(r) \in Seq(Tokens)
  <2>1. CASE r.chunked
    BY <1>3, <1>5, <1>6, <2>1, TokensBehind, Zenon
  <2>2. CASE ~r.chunked
    BY <1>4, <1>5, <2>2
  <2> QED
    BY <2>1, <2>2
<1> QED
  BY <1>1, <1>2, <1>3, <1>4, <1>7, Zenon

\* One token.
LEMMA OneToken ==
  ASSUME NEW x \in Tokens
  PROVE  \E s \in Seq(Tokens) : s = <<x>> /\ Len(s) = 1 /\ s[1] = x
<1>1. <<x>> \in Seq(Tokens) /\ Len(<<x>>) = 1 /\ <<x>>[1] = x
  OBVIOUS
<1> QED
  BY <1>1, Zenon

\* p is s and then the token of d.
OneMore(p, s, d) ==
  Len(p) = Len(s) + 1 /\ (\A k \in 1 .. Len(s) : p[k] = s[k]) /\ p[Len(s) + 1] = d[1]

\* Which a token behind others is.
LEMMA OneMoreToken ==
  ASSUME NEW s \in Seq(Tokens), NEW d \in Seq(Tokens), Len(d) = 1
  PROVE  \E p \in Seq(Tokens) : p = s \o d /\ OneMore(p, s, d)
<1>1. PICK p \in Seq(Tokens) : p = s \o d
  BY TokensBehind
<1>2. /\ Len(p) = Len(s) + Len(d) /\ Len(s) \in Nat
      /\ \A k \in 1 .. Len(s) : p[k] = s[k]
      /\ \A k \in 1 .. Len(d) : p[Len(s) + k] = d[k]
  BY <1>1, MembersBehind
<1>3. 1 \in 1 .. Len(d)
  OBVIOUS
<1>4. p[Len(s) + 1] = d[1] /\ Len(p) = Len(s) + 1
  BY <1>2, <1>3
<1> QED
  BY <1>1, <1>2, <1>4, Zenon DEF OneMore

\* A response begins with the version, a header and the empty line.
LEMMA WireIs ==
  ASSUME NEW r \in Responses
  PROVE  LET t == Wire(r)
             b == BodyOf(r)
         IN  /\ t \in Seq(Tokens) /\ Len(t) = 3 + Len(b)
             /\ t[1] = IF r.version THEN "version" ELSE "other"
             /\ t[2] = IF r.chunked THEN "chunked" ELSE "header"
             /\ t[3] = "empty line"
             /\ \A k \in 1 .. Len(b) : t[3 + k] = b[k]
<1> DEFINE x == IF r.version THEN "version" ELSE "other"
           y == IF r.chunked THEN "chunked" ELSE "header"
           z == "empty line"
<1>1. x \in Tokens /\ y \in Tokens /\ z \in Tokens
  BY DEF Tokens
<1>2. Wire(r) = ((<<x>> \o <<y>>) \o <<z>>) \o BodyOf(r)
  BY Zenon DEF Wire
<1> HIDE DEF x, y, z
<1>3. PICK b \in Seq(Tokens) : b = BodyOf(r)
  BY BodyTypes
<1>4. PICK h \in Seq(Tokens) : h = (<<x>> \o <<y>>) \o <<z>> /\ Len(h) = 3 /\ h[1] = x /\ h[2] = y /\ h[3] = z
  <2>1. PICK a \in Seq(Tokens) : a = <<x>> /\ Len(a) = 1 /\ a[1] = x
    BY <1>1, OneToken
  <2>2. PICK c \in Seq(Tokens) : c = <<y>> /\ Len(c) = 1 /\ c[1] = y
    BY <1>1, OneToken
  <2>3. PICK d \in Seq(Tokens) : d = <<z>> /\ Len(d) = 1 /\ d[1] = z
    BY <1>1, OneToken
  <2>4. PICK p \in Seq(Tokens) : p = a \o c /\ OneMore(p, a, c)
    BY <2>1, <2>2, OneMoreToken
  <2>5. Len(p) = 2 /\ p[1] = x /\ p[2] = y
    BY <2>1, <2>2, <2>4 DEF OneMore
  <2>6. PICK h \in Seq(Tokens) : h = p \o d /\ OneMore(h, p, d)
    BY <2>3, OneMoreToken
  <2>7. Len(h) = 3 /\ h[1] = x /\ h[2] = y /\ h[3] = z
    BY <2>3, <2>5, <2>6 DEF OneMore
  <2> QED
    BY <2>1, <2>2, <2>3, <2>4, <2>6, <2>7, Zenon
<1>5. PICK t \in Seq(Tokens) : t = h \o b
  BY TokensBehind
<1>6. /\ Len(t) = Len(h) + Len(b) /\ \A k \in 1 .. Len(h) : t[k] = h[k]
      /\ \A k \in 1 .. Len(b) : t[3 + k] = b[k]
  BY <1>4, <1>5
<1>7. t[1] = x /\ t[2] = y /\ t[3] = z
  <2>1. 1 \in 1 .. Len(h) /\ 2 \in 1 .. Len(h) /\ 3 \in 1 .. Len(h)
    BY <1>4
  <2> QED
    BY <1>4, <1>6, <2>1, Zenon
<1>8. Wire(r) = t
  BY <1>2, <1>3, <1>4, <1>5, Zenon
<1> QED
  BY <1>3, <1>4, <1>6, <1>7, <1>8, Zenon DEF x, y, z

\* What is right about a response that is decoded to d.
AsMeant(d, r) ==
  /\ ~d.null
  /\ d.answer.status = "status" => d.answer.body = FlattenSeq(r.parts)

\* The first of some tokens is found.
LEMMA FirstFound ==
  ASSUME NEW t \in Seq(Tokens), NEW x, Len(t) >= 3, t[1] # x, t[2] # x, t[3] = x
  PROVE  First(t, x) = 3
<1> DEFINE I == {n \in 1 .. Len(t) : t[n] = x}
<1>1. Len(t) \in Nat
  BY LenProperties
<1>2. 3 \in I /\ I \subseteq Int
  BY <1>1
<1>3. \A n \in I : 3 <= n
  <2> TAKE n \in I
  <2>1. n \in Int /\ n >= 1 /\ n # 1 /\ n # 2
    BY <1>1
  <2> QED
    BY <2>1
<1>4. First(t, x) = IF I # {} THEN Min(I) ELSE 0
  BY DEF First, SelectInSeq
<1> HIDE DEF I
<1>5. \A k \in I : (\A y \in I : k <= y) => k = 3
  BY <1>2, <1>3
<1>6. Min(I) = 3
  BY <1>2, <1>3, <1>5, Zenon DEF Min
<1> QED
  BY <1>2, <1>4, <1>6, Zenon

\* What comes behind three tokens.
LEMMA FromFourth ==
  ASSUME NEW t \in Seq(Tokens), NEW b \in Seq(Tokens), Len(t) = 3 + Len(b),
         \A k \in 1 .. Len(b) : t[3 + k] = b[k]
  PROVE  From(t, 3 + 1) = b
<1>1. Len(b) \in Nat
  BY LenProperties
<1> DEFINE s == SubSeq(t, 4, Len(t))
<1>2. s \in Seq(Tokens) /\ Len(s) = Len(b) /\ \A k \in 1 .. Len(b) : s[k] = t[4 + k - 1]
  BY <1>1, SubSeqProperties
<1>3. \A k \in 1 .. Len(b) : 4 + k - 1 = 3 + k
  BY <1>1
<1>4. From(t, 3 + 1) = s
  BY DEF From
<1> HIDE DEF s
<1>5. \A k \in 1 .. Len(b) : s[k] = b[k]
  BY <1>2, <1>3
<1> QED
  BY <1>2, <1>4, <1>5, SeqEqual

\* A head of three tokens announces chunks with the second one.
LEMMA HasChunked ==
  ASSUME NEW t \in Seq(Tokens), NEW x, Len(t) >= 3, t[1] # x, t[3] # x
  PROVE  Has(SubSeq(t, 1, 3), x) <=> t[2] = x
<1> DEFINE s == SubSeq(t, 1, 3)
<1>1. Len(s) = 3 /\ s[1] = t[1] /\ s[2] = t[2] /\ s[3] = t[3]
  BY LenProperties
<1> HIDE DEF s
<1>2. Has(s, x) <=> \E n \in 1 .. 3 : s[n] = x
  BY <1>1 DEF Has
<1> QED
  BY <1>1, <1>2 DEF s

\* All of a response is decoded as it was meant.
LEMMA WireDecoded ==
  ASSUME NEW r \in Responses
  PROVE  AsMeant(Decoded(Wire(r)), r)
<1>1. PICK b \in Seq(Tokens) : b = BodyOf(r)
  BY BodyTypes
<1>2. PICK t \in Seq(Tokens) : t = Wire(r)
  BY WireIs
<1>3. /\ Len(t) = 3 + Len(b)
      /\ t[1] = IF r.version THEN "version" ELSE "other"
      /\ t[2] = IF r.chunked THEN "chunked" ELSE "header"
      /\ t[3] = "empty line"
      /\ \A k \in 1 .. Len(b) : t[3 + k] = b[k]
  BY <1>1, <1>2, WireIs, Zenon
<1>4. Len(b) \in Nat /\ Len(t) >= 3 /\ t # <<>>
  <2>1. Len(b) \in Nat /\ Len(t) = 3 + Len(b)
    BY <1>3, LenProperties
  <2> QED
    BY <2>1
<1>5. First(t, "empty line") = 3
  <2>1. t[1] # "empty line" /\ t[2] # "empty line"
    BY <1>3, Zenon
  <2> QED
    BY <1>3, <1>4, <2>1, FirstFound, Zenon
<1>6. From(t, 3 + 1) = b
  BY <1>3, FromFourth, Zenon
<1>7. Has(SubSeq(t, 1, 3), "chunked") <=> r.chunked
  <2>1. t[1] # "chunked" /\ t[3] # "chunked" /\ (t[2] = "chunked" <=> r.chunked)
    BY <1>3, Zenon
  <2> QED
    BY <1>4, <2>1, HasChunked, Zenon
<1>8. CASE ~r.version
  <2>1. t[1] # "version"
    BY <1>3, <1>8, Zenon
  <2>2. Decoded(t) = [answer |-> Error, null |-> FALSE]
    BY <2>1, Zenon DEF Decoded
  <2> QED
    BY <1>2, <2>2 DEF AsMeant, Error, Answer
<1>9. CASE r.version /\ ~r.chunked
  <2>1. Decoded(t) = [answer |-> Answer("status", b, Len(b) + 1), null |-> FALSE]
    <3>1. t[1] = "version"
      BY <1>3, <1>9, Zenon
    <3>2. 3 # 0
      OBVIOUS
    <3> QED
      BY <3>2, <1>4, <1>5, <1>6, <1>7, <1>9, <3>1, Zenon DEF Decoded
  <2>2. b = FlattenSeq(r.parts)
    BY <1>1, <1>9, BodyTypes
  <2> QED
    BY <1>2, <2>1, <2>2 DEF AsMeant, Answer
<1>10. CASE r.version /\ r.chunked
  <2> DEFINE c == ChunkedDecode(b)
  <2>1. Decoded(t) = [answer |-> Answer("status", c.body, Len(c.body)), null |-> c.null]
    <3>1. t[1] = "version"
      BY <1>3, <1>10, Zenon
    <3>2. 3 # 0
      OBVIOUS
    <3> QED
      BY <3>2, <1>4, <1>5, <1>6, <1>7, <1>10, <3>1, Zenon DEF Decoded
  <2>2. PICK f : IsDecoding(f, b) /\ c = f[1]
    BY ChunkedDecodeIs
  <2>3. RestLies(b, 0, r.parts)
    <3> DEFINE R == FlattenSeq(Chunks(r.parts))
               e == <<"0", "nl", "nl">>
    <3>1. b = R \o e
      BY <1>1, <1>10, BodyTypes
    <3>2. R \in Seq(Tokens)
      BY BodyTypes, ChunksOf, FlattenType
    <3>3. e \in Seq(Tokens)
      <4>1. "0" \in Tokens /\ "nl" \in Tokens
        BY DEF Tokens
      <4> HIDE DEF Tokens
      <4> QED
        BY <4>1
    <3>4. LiesIn(b, 0, b)
      BY <1>4 DEF LiesIn
    <3> HIDE DEF R, e
    <3>5. LiesIn(b, 0, R) /\ LiesIn(b, 0 + Len(R), e)
      BY <3>1, <3>2, <3>3, <3>4, LiesBehind, Zenon
    <3> QED
      BY <3>5 DEF RestLies, R, e
  <2>4. Yields(f, 0 + 1, FlattenSeq(r.parts))
    BY <2>2, <2>3, BodyTypes, PartsDecoded
  <2>5. c = [body |-> FlattenSeq(r.parts), null |-> FALSE]
    BY <2>2, <2>4 DEF Yields
  <2> HIDE DEF c
  <2>6. c.body = FlattenSeq(r.parts) /\ ~c.null
    BY <2>5
  <2>7. Decoded(t).answer.body = c.body /\ (Decoded(t).null <=> c.null)
    BY <2>1 DEF Answer
  <2> QED
    BY <1>2, <2>6, <2>7 DEF AsMeant
<1> QED
  BY <1>8, <1>9, <1>10, ResponseTypes

----------------------------------------------------------------------------
(***************************************************************************)
(* What the user is told.                                                  *)
(***************************************************************************)

\* The buffer holds what was delivered, as long as no segment was refused.
BufferAsDelivered ==
  /\ delivered \in 0 .. Len(Wire(response))
  /\ ~discarded => buffer = SubSeq(Wire(response), 1, delivered)

\* With the response that does not change this is inductive over ClientInv.
MeantInv == response \in Responses /\ BufferAsDelivered /\ ToldWhatWasMeant

\* What leaves the response and its delivery alone keeps it, if the user is told of nothing but an
\* error.
LEMMA ErrorsAreMeant ==
  ASSUME MeantInv, UNCHANGED <<response, delivered, buffer, discarded>>, fault' \in {fault, "freed"},
         told' = told \/ (told = <<>> /\ told' = <<Error>>)
  PROVE  MeantInv'
<1>1. response' \in Responses /\ BufferAsDelivered'
  BY DEF MeantInv, BufferAsDelivered
<1>2. fault # "null" => fault' # "null"
  OBVIOUS
<1>3. CASE told' = told
  BY <1>1, <1>2, <1>3 DEF MeantInv, ToldWhatWasMeant
<1>4. CASE told = <<>> /\ told' = <<Error>>
  <2>1. Len(told') = 1 /\ told'[1] = Error
    BY <1>4
  <2>2. \A n \in 1 .. Len(told') : told'[n].status # "status"
    BY <2>1 DEF Error, Answer
  <2> QED
    BY <1>1, <1>2, <2>2 DEF MeantInv, ToldWhatWasMeant
<1> QED
  BY <1>3, <1>4

\* A segment goes behind what was delivered before.
LEMMA SegmentBehind ==
  ASSUME NEW t \in Seq(Tokens), NEW i \in 0 .. Len(t), NEW n \in 1 .. Len(t) - i
  PROVE  SubSeq(t, 1, i) \o SubSeq(t, i + 1, i + n) = SubSeq(t, 1, i + n)
<1>1. Len(t) \in Nat /\ i + n \in 0 .. Len(t)
  BY LenProperties
<1>2. PICK a \in Seq(Tokens) : a = SubSeq(t, 1, i) /\ Len(a) = i /\ \A k \in 1 .. i : a[k] = t[k]
  <2>1. SubSeq(t, 1, i) \in Seq(Tokens) /\ Len(SubSeq(t, 1, i)) = i
    BY <1>1
  <2>2. \A k \in 1 .. i : SubSeq(t, 1, i)[k] = t[k]
    BY <1>1
  <2> QED
    BY <2>1, <2>2, Zenon
<1>3. PICK b \in Seq(Tokens) :
        b = SubSeq(t, i + 1, i + n) /\ Len(b) = n /\ \A k \in 1 .. n : b[k] = t[i + k]
  <2>1. SubSeq(t, i + 1, i + n) \in Seq(Tokens) /\ Len(SubSeq(t, i + 1, i + n)) = n
    BY <1>1
  <2>2. \A k \in 1 .. n : SubSeq(t, i + 1, i + n)[k] = t[i + k]
    BY <1>1
  <2> QED
    BY <2>1, <2>2, Zenon
<1>4. PICK c \in Seq(Tokens) : c = SubSeq(t, 1, i + n) /\ Len(c) = i + n /\ \A k \in 1 .. i + n : c[k] = t[k]
  <2>1. SubSeq(t, 1, i + n) \in Seq(Tokens) /\ Len(SubSeq(t, 1, i + n)) = i + n
    BY <1>1
  <2>2. \A k \in 1 .. i + n : SubSeq(t, 1, i + n)[k] = t[k]
    BY <1>1
  <2> QED
    BY <2>1, <2>2, Zenon
<1>5. PICK d \in Seq(Tokens) : d = a \o b
  BY TokensBehind
<1>6. /\ Len(d) = i + n
      /\ \A k \in 1 .. i : d[k] = a[k]
      /\ \A k \in 1 .. n : d[i + k] = b[k]
  <2>1. /\ Len(d) = Len(a) + Len(b)
        /\ \A k \in 1 .. Len(a) : d[k] = a[k]
        /\ \A k \in 1 .. Len(b) : d[Len(a) + k] = b[k]
    BY <1>5, MembersBehind
  <2> QED
    BY <1>2, <1>3, <2>1, Zenon
<1>7. \A k \in 1 .. i + n : d[k] = c[k]
  <2> TAKE k \in 1 .. i + n
  <2>1. CASE k <= i
    BY <1>2, <1>4, <1>6, <2>1
  <2>2. CASE k > i
    <3>1. k - i \in 1 .. n /\ i + (k - i) = k
      BY <2>2
    <3> QED
      BY <1>3, <1>4, <1>6, <3>1
  <2> QED
    BY <2>1, <2>2
<1>8. d = c
  BY <1>1, <1>4, <1>6, <1>7, SeqEqual
<1> QED
  BY <1>2, <1>3, <1>4, <1>5, <1>8, Zenon

\* A segment is kept behind the others, or refused.
LEMMA ReceiveIsMeant ==
  ASSUME ClientInv, MeantInv, fault = "none", ReceiveCallback
  PROVE  MeantInv'
<1> DEFINE t == Wire(response)
<1>1. t \in Seq(Tokens) /\ response \in Responses
  BY WireIs DEF MeantInv
<1>2. CASE Dangling
  BY <1>2, ErrorsAreMeant DEF ReceiveCallback, Touch
<1>3. CASE ~Dangling
  <2>1. PICK n \in 1 .. Len(t) - delivered :
          /\ Keep(Segment(n)) \/ Discard(Segment(n))
          /\ delivered' = delivered + n
          /\ UNCHANGED <<response, told, fault>>
    BY <1>3 DEF ReceiveCallback
  <2>2. told = <<>>
    BY <1>3, ConnOfTheRequest DEF ReceiveCallback, SdkHasConn
  <2>3. delivered \in 0 .. Len(t) /\ Len(t) \in Nat
    BY <1>1, LenProperties DEF MeantInv, BufferAsDelivered
  <2>4. delivered' \in 0 .. Len(t)
    BY <2>1, <2>3
  <2>5. response' \in Responses /\ Wire(response') = t
    BY <1>1, <2>1
  <2>6. ~discarded' => buffer' = SubSeq(t, 1, delivered')
    <3> SUFFICES ASSUME ~discarded'
                 PROVE  buffer' = SubSeq(t, 1, delivered')
      OBVIOUS
    <3>1. Keep(Segment(n))
      BY <2>1 DEF Discard
    <3>2. ~discarded /\ buffer' = buffer \o SubSeq(t, delivered + 1, delivered + n)
      BY <3>1 DEF Keep, Segment
    <3>3. buffer = SubSeq(t, 1, delivered)
      BY <3>2 DEF MeantInv, BufferAsDelivered
    <3> HIDE DEF t
    <3>4. SubSeq(t, 1, delivered) \o SubSeq(t, delivered + 1, delivered + n) = SubSeq(t, 1, delivered + n)
      BY <1>1, <2>1, <2>3, SegmentBehind
    <3> QED
      BY <2>1, <3>2, <3>3, <3>4
  <2>7. BufferAsDelivered'
    BY <2>4, <2>5, <2>6 DEF BufferAsDelivered
  <2>8. ToldWhatWasMeant'
    <3>1. fault' # "null" /\ Len(told') = 0
      BY <2>1, <2>2
    <3> QED
      BY <3>1 DEF ToldWhatWasMeant
  <2> QED
    BY <2>5, <2>7, <2>8 DEF MeantInv
<1> QED
  BY <1>2, <1>3

\* At the end of the connection the user is told what the buffer holds.
LEMMA DisconnectIsMeant ==
  ASSUME ClientInv, MeantInv, fault = "none", DisconnectCallback
  PROVE  MeantInv'
<1> DEFINE t == Wire(response)
<1>1. t \in Seq(Tokens) /\ response \in Responses
  BY WireIs DEF MeantInv
<1>2. CASE Dangling
  BY <1>2, ErrorsAreMeant DEF DisconnectCallback, Touch
<1>3. CASE ~Dangling
  <2>1. UNCHANGED <<response, delivered, buffer, discarded>>
    BY <1>3 DEF DisconnectCallback
  <2>2. told = <<>>
    BY <1>3, ConnOfTheRequest DEF DisconnectCallback, SdkHasConn
  <2>3. response' \in Responses /\ BufferAsDelivered'
    BY <2>1 DEF MeantInv, BufferAsDelivered
  <2>4. ASSUME delivered' = Len(Wire(response')), ~discarded'
        PROVE  /\ fault' # "null"
               /\ \A n \in 1 .. Len(told') :
                    told'[n].status = "status" => told'[n].body = FlattenSeq(response'.parts)
    <3>1. delivered = Len(t) /\ ~discarded
      BY <2>1, <2>4
    <3>2. buffer = SubSeq(t, 1, Len(t))
      BY <3>1 DEF MeantInv, BufferAsDelivered
    <3>3. buffer = t
      <4> HIDE DEF t
      <4>1. SubSeq(t, 1, Len(t)) = t
        BY <1>1, SubSeqFull
      <4> QED
        BY <3>2, <4>1
    <3> DEFINE d == Decoded(buffer)
    <3>4. AsMeant(d, response)
      BY <1>1, <3>3, WireDecoded
    <3> HIDE DEF d
    <3>5. told' = Append(told, d.answer) /\ fault' = fault
      BY <1>3, <3>4 DEF DisconnectCallback, AsMeant, d
    <3>6. Len(told') = 1 /\ told'[1] = d.answer
      BY <2>2, <3>5
    <3> QED
      BY <2>1, <3>4, <3>5, <3>6 DEF AsMeant
  <2>5. ToldWhatWasMeant'
    BY <2>4 DEF ToldWhatWasMeant
  <2> QED
    BY <2>3, <2>5 DEF MeantInv
<1> QED
  BY <1>2, <1>3

\* A request whose host is not found is answered with an error.
LEMMA RequestIsMeant ==
  ASSUME ClientInv, MeantInv, HttpRequest \/ Resolved
  PROVE  MeantInv'
<1>1. UNCHANGED <<response, delivered, buffer, discarded, fault>>
  BY DEF HttpRequest, Resolved
<1>2. told = <<>>
  BY DEF HttpRequest, Resolved, ClientInv, Types, BeforeRequest, WhileResolving, ToldAtTheEnd
<1>3. told' = told \/ told' = Append(told, Error)
  BY DEF HttpRequest, Resolved, DnsCallback, DnsFound, DnsFailed
<1>4. told' = told \/ told' = <<Error>>
  BY <1>2, <1>3
<1> QED
  BY <1>1, <1>2, <1>4, ErrorsAreMeant

\* Every step keeps it.
LEMMA NextIsMeant == ClientInv /\ MeantInv /\ [ClientNext]_clientVars => MeantInv'
<1> SUFFICES ASSUME ClientInv, MeantInv, [ClientNext]_clientVars
             PROVE  MeantInv'
  OBVIOUS
<1>1. CASE UNCHANGED clientVars
  BY <1>1, ErrorsAreMeant DEF clientVars
<1>2. ASSUME ConnectCallback \/ SentCallback \/ TimeoutCallback
      PROVE  MeantInv'
  <2>1. UNCHANGED <<response, delivered, buffer, discarded, told>> /\ fault' \in {fault, "freed"}
    BY <1>2 DEF ConnectCallback, SentCallback, TimeoutCallback, Touch
  <2> QED
    BY <2>1, ErrorsAreMeant
<1>3. CASE ClientNext
  BY <1>2, <1>3, RequestIsMeant, ReceiveIsMeant, DisconnectIsMeant DEF ClientNext, ClientStep
<1> QED
  BY <1>1, <1>3

\* A complete response of which no segment was refused is decoded without a null pointer, and the
\* user gets the body that the server meant, whatever parts it has, in chunks or not, and however
\* it was cut into segments.
THEOREM ClientToldWhatWasMeant == ClientSpec => []ToldWhatWasMeant
<1>1. ClientInit => MeantInv
  <2> SUFFICES ASSUME ClientInit PROVE MeantInv
    OBVIOUS
  <2>1. response \in Responses /\ delivered = 0 /\ buffer = <<>> /\ told = <<>> /\ fault = "none"
    BY DEF ClientInit, ClientStart
  <2>2. PICK t \in Seq(Tokens) : t = Wire(response)
    BY <2>1, WireIs
  <2>3. delivered \in 0 .. Len(t) /\ buffer = SubSeq(t, 1, delivered)
    <3>1. Len(t) \in Nat /\ SubSeq(t, 1, 0) = <<>>
      BY LenProperties, SubSeqEmpty
    <3> QED
      BY <2>1, <3>1
  <2>4. BufferAsDelivered
    BY <2>2, <2>3 DEF BufferAsDelivered
  <2>5. ToldWhatWasMeant
    <3>1. Len(told) = 0 /\ fault # "null"
      BY <2>1
    <3> QED
      BY <3>1 DEF ToldWhatWasMeant
  <2> QED
    BY <2>1, <2>4, <2>5 DEF MeantInv
<1>2. MeantInv => ToldWhatWasMeant
  BY DEF MeantInv
<1> QED
  BY <1>1, <1>2, NextIsMeant, ClientInvariant, PTL DEF ClientSpec
=============================================================================
