----------------------------- MODULE WebsocketList -----------------------------
(***************************************************************************)
(* The list of open websockets (cgiWebsocket and websockFree of            *)
(* libesphttpd/util/cgiwebsocket.c). The list goes through the private     *)
(* parts of the websockets; one is put in at its end when a connection     *)
(* turns into a websocket, and taken out wherever it is when either side   *)
(* closes or the connection breaks.                                        *)
(***************************************************************************)
EXTENDS Naturals, SequencesExt

CONSTANT Sockets   \* connections that may turn into websockets

\* No socket is one of the two values a pointer has that points to none.
ASSUME SocketsAssumption == IsFiniteSet(Sockets) /\ {"null", "freed"} \cap Sockets = {}

VARIABLES
  llStart,   \* the first of the list, or "null"
  next,      \* ws->priv->next of each, "null" behind the last, "freed" without a private part
  alive      \* history: the open websockets, in the order in which they were opened

listVars == <<llStart, next, alive>>

ListTypeOK ==
  /\ llStart \in Sockets \cup {"null"}
  /\ next \in [Sockets -> Sockets \cup {"null", "freed"}]
  /\ ToSet(alive) \subseteq Sockets

ListInit == llStart = "null" /\ next = [s \in Sockets |-> "freed"] /\ alive = <<>>

\* The list from its start on, to the first that is no live websocket.
List ==
  LET from[n \in 0 .. Cardinality(Sockets)] ==
        IF n = 0 THEN <<llStart>>
        ELSE LET before == from[n - 1]
             IN  IF Last(before) \in {"null", "freed"} THEN before
                 ELSE Append(before, next[Last(before)])
  IN  from[Cardinality(Sockets)]
----------------------------------------------------------------------------
\* cgiWebsocket, first call: the new websocket is linked behind the last.
OpenWebsocket(ws) ==
  /\ next[ws] = "freed"
  /\ LET last == {s \in ToSet(List) \cap Sockets : next[s] = "null"}
     IN  IF llStart = "null" THEN llStart' = ws /\ next' = [next EXCEPT ![ws] = "null"]
         ELSE /\ llStart' = llStart
              /\ next' = [s \in Sockets |-> IF s \in last THEN ws ELSE IF s = ws THEN "null" ELSE next[s]]
  /\ alive' = Append(alive, ws)

\* Mutant of Unlinked: only the first is taken out.
UnlinkedFirst(ws) == IF llStart = ws THEN <<next[ws], next>> ELSE <<llStart, next>>

\* The start of the list and its links without ws.
Unlinked(ws) ==
  IF llStart = ws THEN <<next[ws], next>>
  ELSE <<llStart, [s \in Sockets |->
                     IF s \in ToSet(List) /\ next[s] = ws THEN next[ws] ELSE next[s]]>>

\* websockFree, after a close frame or an error, or from the call without a connection.
FreeWebsocket(ws) ==
  /\ next[ws] # "freed"
  /\ llStart' = Unlinked(ws)[1]
  /\ next' = [Unlinked(ws)[2] EXCEPT ![ws] = "freed"]
  /\ alive' = RemoveFirst(alive, ws)

ListNext == \E ws \in Sockets : OpenWebsocket(ws) \/ FreeWebsocket(ws)

ListSpec == ListInit /\ [][ListNext]_listVars
----------------------------------------------------------------------------
\* The list holds the open websockets, each once, in the order in which they were opened, and ends
\* without touching one that was freed, whichever of them are closed in between.
ListIsRight == List = Append(alive, "null")
=============================================================================
