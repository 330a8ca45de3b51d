------------------------------- MODULE WifiScan -------------------------------
(***************************************************************************)
(* Scanning for access points and listing them to web clients              *)
(* (libesphttpd/util/cgiwifi.c). A listing takes one call of cgiWiFiScan   *)
(* for every access point; between two calls other connections list, start *)
(* scans, and scans end.                                                   *)
(*                                                                         *)
(* A connection is what HttpdConn shows of it: the CGI function is called  *)
(* once when the request is complete, again after each sent callback while *)
(* it asked for more, and once more if the connection closes meanwhile.    *)
(* The array of access points is its length and the number of the scan it  *)
(* came from; a response is the sequence of the pieces that were sent.     *)
(*                                                                         *)
(* The mode of the chip is changed from outside of this module: by a WPS   *)
(* session without a restart, by the web interface with one that follows,  *)
(* and restarts come from elsewhere, too (WifiJoin, Wps).                  *)
(***************************************************************************)
EXTENDS Integers, Sequences

CONSTANTS
  Conns,       \* connections of the web server
  MaxAps,      \* bound of the model: access points in reach
  MaxScans     \* bound of the model: scans with a result

ASSUME ScanAssumption ==
  /\ MaxAps \in Nat \ {0}
  /\ MaxScans \in Nat

VARIABLES
  staOn,      \* the station interface is enabled, so that scans are possible
  inProgress, \* cgiWifiAps.scanInProgress
  aps,        \* cgiWifiAps.noAps and the scan that filled apData
  scans,      \* scans the SDK is making
  refused,    \* history: the SDK refused the scan it was asked for last
  state,      \* of a connection: "idle", "listing" (conn->cgi is set), "done"
  pos,        \* connData->cgiData
  out,        \* the response so far
  steady      \* history: no scan began or ended since the listing began

connVars == <<state, pos, out>>
scanVars == <<inProgress, aps, scans, refused>>
wifiVars == <<staOn, scanVars, connVars, steady>>

\* The pieces of a response: status line and headers; the whole answer while a scan
\* is going on; the opening of a list, an entry, and the closing.
Http == [kind |-> "http", scan |-> 0, index |-> 0, comma |-> FALSE]
Busy == [kind |-> "busy", scan |-> 0, index |-> 0, comma |-> FALSE]
Open == [kind |-> "open", scan |-> 0, index |-> 0, comma |-> FALSE]
Close == [kind |-> "close", scan |-> 0, index |-> 0, comma |-> FALSE]

Piece == [kind : {"http", "busy", "open", "entry", "close"},
          scan : Nat, index : Nat, comma : BOOLEAN]

ScanTypeOK ==
  /\ staOn \in BOOLEAN
  /\ inProgress \in BOOLEAN
  /\ aps \in [scan : Nat, n : 0 .. MaxAps]
  /\ scans \in Nat
  /\ refused \in BOOLEAN
  /\ state \in [Conns -> {"idle", "listing", "done"}]
  /\ pos \in [Conns -> 0 .. MaxAps]
  /\ out \in [Conns -> Seq(Piece)]
  /\ steady \in [Conns -> BOOLEAN]

\* The mode is the one in flash.
ScanInit ==
  /\ staOn \in BOOLEAN
  /\ inProgress = FALSE
  /\ aps = [scan |-> 0, n |-> 0]
  /\ scans = 0
  /\ refused = FALSE
  /\ state = [c \in Conns |-> "idle"]
  /\ pos = [c \in Conns |-> 0]
  /\ out = [c \in Conns |-> <<>>]
  /\ steady = [c \in Conns |-> FALSE]

----------------------------------------------------------------------------
\* wifi_station_scan begins a scan or refuses to, as it must without the station
\* interface; the result says so.
SdkScan ==
  \E started \in BOOLEAN :
    /\ started => staOn
    /\ scans' = IF started THEN scans + 1 ELSE scans
    /\ refused' = ~started

\* Mutant of StartScan: the flag is left to the callback.
StartScanUnmarked ==
  /\ SdkScan
  /\ UNCHANGED <<inProgress, aps>>

\* wifiStartScan, with no scan going on; nobody looks at the result.
StartScan ==
  /\ SdkScan
  /\ inProgress' = TRUE
  /\ UNCHANGED aps

\* Mutant of Entry: the comma is missing before the last access point.
EntryNoComma(i) ==
  [kind |-> "entry", scan |-> aps.scan, index |-> i, comma |-> i + 1 < aps.n]

\* One access point; the last one has no comma behind it.
Entry(i) == [kind |-> "entry", scan |-> aps.scan, index |-> i, comma |-> i # aps.n]

\* Position p is the last one, or beyond it.
AtEnd(p) == p >= aps.n

\* Mutant of ListNext: behind the last access point the function waits for more.
ListNextWaits(c) ==
  /\ UNCHANGED <<state, scanVars>>
  /\ \/ /\ ~AtEnd(pos[c])
        /\ out' = [out EXCEPT ![c] = Append(@, Entry(pos[c]))]
        /\ pos' = [pos EXCEPT ![c] = @ + 1]
     \/ /\ AtEnd(pos[c])
        /\ UNCHANGED <<out, pos>>

\* cgiWiFiScan goes on with a listing: an access point and, behind the last one, the
\* end of the text and another scan.
ListNext(c) ==
  \/ /\ ~AtEnd(pos[c])
     /\ out' = [out EXCEPT ![c] = Append(@, Entry(pos[c]))]
     /\ pos' = [pos EXCEPT ![c] = @ + 1]
     /\ UNCHANGED <<state, scanVars>>
  \/ /\ AtEnd(pos[c])
     /\ LET text == IF pos[c] = aps.n THEN Append(out[c], Entry(pos[c])) ELSE out[c]
        IN  out' = [out EXCEPT ![c] = Append(text, Close)]
     /\ state' = [state EXCEPT ![c] = "done"]
     /\ StartScan
     /\ UNCHANGED pos

\* cgiWiFiScan begins: a scan is going on, or the list is opened. Also reached in
\* the middle of a listing when a scan was started meanwhile; before is what was
\* sent so far.
Begin(c, before, p) ==
  \/ /\ inProgress
     /\ out' = [out EXCEPT ![c] = before \o <<Http, Busy>>]
     /\ pos' = [pos EXCEPT ![c] = p]
     /\ state' = [state EXCEPT ![c] = "done"]
     /\ UNCHANGED scanVars
  \/ /\ ~inProgress
     /\ out' = [out EXCEPT ![c] = before \o <<Http, Open>>]
     /\ pos' = [pos EXCEPT ![c] = 1]
     /\ state' = [state EXCEPT ![c] = "listing"]
     /\ UNCHANGED scanVars

\* A call of another connection may have started a scan.
SteadyAfter(c) ==
  steady' = [d \in Conns |-> (IF d = c THEN state[c] # "listing" \/ steady[c]
                                       ELSE steady[d] /\ inProgress' = inProgress)]

\* A request for the list is complete; httpdProcessRequest has set cgiData to NULL,
\* so the position is 0.
Request(c) ==
  /\ state[c] # "listing"
  /\ Begin(c, <<>>, 0)
  /\ SteadyAfter(c)
  /\ UNCHANGED staOn

\* The last piece was sent.
SentCb(c) ==
  /\ state[c] = "listing"
  /\ IF inProgress THEN Begin(c, out[c], pos[c]) ELSE ListNext(c)
  /\ SteadyAfter(c)
  /\ UNCHANGED staOn

\* The connection closes; a listing is called once more, can send nothing, and may
\* start a scan all the same.
DisconCb(c) ==
  /\ state[c] # "idle"
  /\ IF state[c] = "listing" /\ ~inProgress /\ AtEnd(pos[c])
       THEN StartScan
       ELSE UNCHANGED scanVars
  /\ state' = [state EXCEPT ![c] = "idle"]
  /\ pos' = [pos EXCEPT ![c] = 0]
  /\ out' = [out EXCEPT ![c] = <<>>]
  /\ SteadyAfter(c)
  /\ UNCHANGED staOn

\* A connection breaks, as those over the access point do when it is given up: the
\* SDK reports that to platReconCb only, which does nothing.
ReconCb(c) ==
  /\ state[c] # "idle"
  /\ state' = [state EXCEPT ![c] = "idle"]
  /\ pos' = [pos EXCEPT ![c] = 0]
  /\ out' = [out EXCEPT ![c] = <<>>]
  /\ UNCHANGED <<staOn, scanVars, steady>>

\* The array is replaced, unless the scan failed.
NewAps ==
  \/ aps.scan < MaxScans /\ \E n \in 0 .. MaxAps : aps' = [scan |-> aps.scan + 1, n |-> n]
  \/ UNCHANGED aps

\* Mutant of ScanDone: after a failure the flag stays set.
ScanDoneKeepsFlag ==
  /\ scans > 0
  /\ scans' = scans - 1
  /\ NewAps
  /\ inProgress' = (aps' = aps)
  /\ steady' = [c \in Conns |-> FALSE]
  /\ UNCHANGED <<staOn, refused, connVars>>

\* wifiScanDoneCb.
ScanDone ==
  /\ scans > 0
  /\ scans' = scans - 1
  /\ NewAps
  /\ inProgress' = FALSE
  /\ steady' = [c \in Conns |-> FALSE]
  /\ UNCHANGED <<staOn, refused, connVars>>

\* wificontrol_start_wps makes sure that the station is enabled.
EnableStation ==
  /\ staOn' = TRUE
  /\ UNCHANGED <<scanVars, connVars, steady>>

\* cgiWiFiSetMode; the restart it asks for comes 100 ms later, as RestartChip.
ChangeMode ==
  /\ staOn' \in BOOLEAN
  /\ UNCHANGED <<scanVars, connVars, steady>>

\* system_restart, for whatever reason.
RestartChip ==
  /\ staOn' \in BOOLEAN
  /\ inProgress' = FALSE
  /\ aps' = [scan |-> 0, n |-> 0]
  /\ scans' = 0
  /\ refused' = FALSE
  /\ state' = [c \in Conns |-> "idle"]
  /\ pos' = [c \in Conns |-> 0]
  /\ out' = [c \in Conns |-> <<>>]
  /\ steady' = [c \in Conns |-> FALSE]

ScanNext ==
  \/ ScanDone
  \/ \E c \in Conns : Request(c) \/ SentCb(c) \/ DisconCb(c) \/ ReconCb(c)
  \/ EnableStation
  \/ ChangeMode
  \/ RestartChip

ScanSpec == ScanInit /\ [][ScanNext]_wifiVars

\* The SDK reports what it sent and ends its scans.
ScanFairSpec ==
  /\ ScanSpec
  /\ \A c \in Conns : WF_wifiVars(SentCb(c))
  /\ WF_wifiVars(ScanDone)
----------------------------------------------------------------------------
(***************************************************************************)
(* Properties.                                                             *)
(***************************************************************************)

\* The flag goes with the SDK's scans: no second scan is started while one is made, the
\* flag is set as long as it takes, and is never left set when it is over, whether with
\* a result or without. Only a scan that the SDK refused leaves it set with no scan to
\* come, and then nothing but a restart clears it.
ScanFlagTrue ==
  /\ scans <= 1
  /\ inProgress <=> scans = 1 \/ refused
  /\ refused => scans = 0

\* The first k access points, as far as they are listed.
Listed(k) ==
  [i \in 1 .. k + 2 |->
     IF i = 1 THEN Http ELSE IF i = 2 THEN Open
     ELSE [kind |-> "entry", scan |-> aps.scan, index |-> i - 2, comma |-> i - 2 # aps.n]]

\* A listing during which no scan began or ended is the whole list, every access
\* point once and in order, with the commas JSON wants, however many other clients
\* were listing at the same time.
ListingComplete ==
  \A c \in Conns : state[c] = "done" /\ steady[c] =>
    out[c] \in {<<Http, Busy>>, Append(Listed(aps.n), Close)}

\* A listing ends, although the length of the list changes under its feet.
ListingEnds ==
  \A c \in Conns : state[c] = "listing" ~> state[c] # "listing"

\* Every scan that the SDK took on is over at last: clients are not told to wait for
\* ever, in whatever mode the chip is meanwhile.
ScanEnds ==
  inProgress /\ ~refused ~> ~inProgress

\* A response that is JSON behind its headers.
IsJson(s) ==
  \/ s = <<Http, Busy>>
  \/ /\ Len(s) >= 3
     /\ s[1] = Http /\ s[2] = Open /\ s[Len(s)] = Close
     /\ \A i \in 3 .. Len(s) - 1 : s[i].kind = "entry" /\ s[i].comma = (i # Len(s) - 1)

\* cgiwifi.c, above cgiWiFiScan: "The result is embedded in a bit of JSON parsed by
\* the javascript in wifi.tpl."
EveryAnswerIsJson ==
  \A c \in Conns : state[c] = "done" => IsJson(out[c])

\* cgiwifi.c, cgiWiFiScan, of the answer Busy: "We're still scanning. Tell Javascript
\* code that."
BusyMeansScanning ==
  [][\A c \in Conns : out'[c] # out[c] /\ Len(out'[c]) > 0 /\ out'[c][Len(out'[c])] = Busy
       => scans > 0]_wifiVars
=============================================================================
