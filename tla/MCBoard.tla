-------------------------------- MODULE MCBoard --------------------------------
(***************************************************************************)
(* Model checking what the firmware does besides serving the web: it reads *)
(* the motor board's bytes, changes the WiFi mode at the request of the    *)
(* motor board or the button, makes a request as an HTTP client, and scans *)
(* for access points, which it lists to web clients. They know of each     *)
(* other only that the mode changes and the chip restarts; a behaviour is  *)
(* one of them, with the others at rest.                                   *)
(***************************************************************************)
EXTENDS UartRx, Wps, HttpClient, WifiScan

VARIABLE service   \* the part that runs

boardVars == <<service, vars, wpsVars, clientVars, wifiVars>>

\* A body of one part or two, of a byte or two, one of which begins like the other ends.
BodyParts == {<<"x">>, <<"y", "x">>}

BoardInit ==
  /\ service \in {"uart", "wps", "client", "scan"}
  /\ Init
  /\ WpsStart /\ (IF service = "wps" THEN opmode \in {"sta", "ap", "both"} ELSE opmode = "both")
  /\ ClientStart
  /\ IF service = "client" THEN response \in Responses
     ELSE response = [version |-> TRUE, chunked |-> FALSE, parts |-> <<>>]
  /\ ScanInit /\ (service # "scan" => staOn)

Uart == service = "uart" /\ UNCHANGED <<service, wpsVars, clientVars, wifiVars>>
WpsAndButton == service = "wps" /\ UNCHANGED <<service, vars, clientVars, wifiVars>>
Client == service = "client" /\ UNCHANGED <<service, vars, wpsVars, wifiVars>>
Scanning == service = "scan" /\ UNCHANGED <<service, vars, wpsVars, clientVars>>

BoardNext ==
  \/ Uart /\ Next
  \/ WpsAndButton /\ WpsNext
  \/ Client /\ ClientNext
  \/ Scanning /\ ScanNext

\* The fairness of the four modules.
BoardSpec ==
  /\ BoardInit /\ [][BoardNext]_boardVars
  /\ WF_boardVars(Uart /\ RxIntr) /\ WF_boardVars(Uart /\ Timeout)
  /\ WF_boardVars(Uart /\ TaskStart) /\ WF_boardVars(Uart /\ TaskRead)
  /\ WF_boardVars(Uart /\ TaskClear) /\ WF_boardVars(Uart /\ TaskEnable)
  /\ WF_boardVars(WpsAndButton /\ AbortWpsCb) /\ WF_boardVars(WpsAndButton /\ Poll)
  /\ WF_boardVars(WpsAndButton /\ Tick)
  /\ WF_boardVars(Client /\ Resolved /\ fault = "none")
  /\ WF_boardVars(Client /\ TimeoutCallback /\ fault = "none")
  /\ \A c \in Conns : WF_boardVars(Scanning /\ SentCb(c))
  /\ WF_boardVars(Scanning /\ ScanDone)
=============================================================================
