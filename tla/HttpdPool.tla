------------------------------ MODULE HttpdPool ------------------------------
(***************************************************************************)
(* The connection pool of the web server: connPool[] in                    *)
(* libesphttpd/core/httpd.c and the callbacks that httpd-nonos.c registers *)
(* with the SDK's espconn layer.                                           *)
(*                                                                         *)
(* A slot is found by the address and port of the remote end, so the model *)
(* identifies a client by its endpoint (a member of Peers) and gives every *)
(* TCP connection a number of its own: a slot remembers the endpoint, the  *)
(* espconn it was last bound to (conn) and, as a history variable, the     *)
(* connection it was allocated for (born).                                 *)
(*                                                                         *)
(* The state of a connection behind a slot is the subject of HttpdConn.    *)
(***************************************************************************)
EXTENDS Integers, FiniteSets

CONSTANTS
  MaxSlots,    \* HTTPD_MAX_CONNECTIONS, also the SDK's connection limit
  Peers,       \* remote endpoints (address and port)
  MaxFailed,   \* refused connections in a row before the restart: 5 in the code
  None,        \* an empty slot
  MaxConns     \* bound of the model: TCP connections made before it stops

ASSUME PoolAssumption ==
  /\ MaxSlots \in Nat \ {0}
  /\ MaxFailed \in Nat \ {0}
  /\ MaxConns \in Nat
  /\ IsFiniteSet(Peers)

Slots == 0 .. MaxSlots - 1

Entry == [peer : Peers, conn : Nat, born : Nat]

ASSUME NoneAssumption == None \notin Entry

VARIABLES
  pool,        \* connPool: Slots -> an entry or None
  failed,      \* failed_cnt of httpdConnectCb
  sdkSide,     \* the SDK's side: state and number of each endpoint's connection
  made,        \* number of TCP connections made so far
  rebooting,   \* system_restart() has been called
  aborts       \* history: connections of an endpoint that broke without a disconcb

poolVars == <<pool, failed, sdkSide, made, rebooting, aborts>>

\* up: the four callbacks are registered; closing: espconn_disconnect was called
\* and disconcb is due; refused: disconnected before any callback was registered.
LinkState == {"down", "up", "closing", "refused"}

PoolTypeOK ==
  /\ pool \in [Slots -> Entry \cup {None}]
  /\ failed \in Nat
  /\ sdkSide \in [Peers -> [state : LinkState, id : Nat]]
  /\ made \in Nat
  /\ rebooting \in BOOLEAN
  /\ aborts \in [Peers -> Nat]

Registered(p) == sdkSide[p].state \in {"up", "closing"}

SdkConnections == {p \in Peers : sdkSide[p].state # "down"}

Occupied == {i \in Slots : pool[i] # None}

SlotsOf(p) == {i \in Slots : pool[i] # None /\ pool[i].peer = p}

\* httpdFindConnData returns the first slot with the remote address and port.
IsFound(i, p) == i \in SlotsOf(p) /\ \A j \in SlotsOf(p) : i <= j

PoolInit ==
  /\ pool = [i \in Slots |-> None]
  /\ failed = 0
  /\ sdkSide = [p \in Peers |-> [state |-> "down", id |-> 0]]
  /\ made = 0
  /\ rebooting = FALSE
  /\ aborts = [p \in Peers |-> 0]

----------------------------------------------------------------------------
\* Mutant of Handshake: the SDK is allowed one connection more than the pool has slots.
HandshakeOneMore(p) ==
  /\ made < MaxConns
  /\ sdkSide[p].state = "down"
  /\ Cardinality(SdkConnections) <= MaxSlots
  /\ made' = made + 1

\* The SDK completes a handshake. espconn_tcp_set_max_con_allow keeps it from
\* holding more than MaxSlots connections.
Handshake(p) ==
  /\ made < MaxConns
  /\ sdkSide[p].state = "down"
  /\ Cardinality(SdkConnections) < MaxSlots
  /\ made' = made + 1

\* Mutant of NewEntry: the espconn is not stored.
NewEntryNoConn(p) == [peer |-> p, conn |-> 0, born |-> made + 1]

\* What httpdConnectCb stores for the connection being made.
NewEntry(p) == [peer |-> p, conn |-> made + 1, born |-> made + 1]

\* platConnCb, the pool has room: the first empty slot is allocated and zeroed,
\* the callbacks are registered.
PoolConnectCb(p) ==
  /\ Handshake(p)
  /\ \E i \in Slots :
       /\ pool[i] = None
       /\ \A j \in Slots : j < i => pool[j] # None
       /\ pool' = [pool EXCEPT ![i] = NewEntry(p)]
  /\ failed' = 0
  /\ sdkSide' = [sdkSide EXCEPT ![p] = [state |-> "up", id |-> made + 1]]
  /\ UNCHANGED <<rebooting, aborts>>

\* platConnCb, the pool is full: the connection is refused, and after MaxFailed
\* refusals in a row the chip is restarted.
ConnectRefused(p) ==
  /\ Handshake(p)
  /\ \A i \in Slots : pool[i] # None
  /\ failed' = failed + 1
  /\ rebooting' = (rebooting \/ failed + 1 >= MaxFailed)
  /\ sdkSide' = [sdkSide EXCEPT ![p] = [state |-> "refused", id |-> made + 1]]
  /\ UNCHANGED <<pool, aborts>>

\* platRecvCb and platSentCb, seen from the pool: the slot is looked up and bound
\* to the espconn of the callback. An unknown connection is disconnected.
Traffic(p) ==
  /\ Registered(p)
  /\ IF SlotsOf(p) = {}
       THEN /\ sdkSide' = [sdkSide EXCEPT ![p].state = "closing"]
            /\ UNCHANGED pool
       ELSE /\ \E i \in Slots : IsFound(i, p) /\ pool' = [pool EXCEPT ![i].conn = sdkSide[p].id]
            /\ UNCHANGED sdkSide
  /\ UNCHANGED <<failed, made, rebooting, aborts>>

\* platSentCb on a connection marked HFL_DISCONAFTERSENT: bound as above, and
\* espconn_disconnect is called.
ServerClose(p) ==
  /\ sdkSide[p].state = "up"
  /\ IF SlotsOf(p) = {}
       THEN UNCHANGED pool
       ELSE \E i \in Slots : IsFound(i, p) /\ pool' = [pool EXCEPT ![i].conn = sdkSide[p].id]
  /\ sdkSide' = [sdkSide EXCEPT ![p].state = "closing"]
  /\ UNCHANGED <<failed, made, rebooting, aborts>>

\* Mutant of PoolDisconCb: httpdRetireConn leaves the slot in connPool.
PoolDisconCbNotRetired(p) ==
  /\ Registered(p)
  /\ sdkSide' = [sdkSide EXCEPT ![p].state = "down"]
  /\ UNCHANGED <<pool, failed, made, rebooting, aborts>>

\* platDisconCb: an orderly close by either side, or the SDK's idle timeout.
\* httpdRetireConn empties the slot that was found.
PoolDisconCb(p) ==
  /\ Registered(p)
  /\ sdkSide' = [sdkSide EXCEPT ![p].state = "down"]
  /\ IF SlotsOf(p) = {}
       THEN UNCHANGED pool
       ELSE \E i \in Slots : IsFound(i, p) /\ pool' = [pool EXCEPT ![i] = None]
  /\ UNCHANGED <<failed, made, rebooting, aborts>>

\* platReconCb: the connection broke (a reset, or retransmission gave up). The
\* handler is empty, so nothing reaches httpd.c.
ReconCb(p) ==
  /\ Registered(p)
  /\ sdkSide' = [sdkSide EXCEPT ![p].state = "down"]
  /\ aborts' = [aborts EXCEPT ![p] = @ + 1]
  /\ UNCHANGED <<pool, failed, made, rebooting>>

\* The SDK is done with a connection that has no callbacks.
RefusedGone(p) ==
  /\ sdkSide[p].state = "refused"
  /\ sdkSide' = [sdkSide EXCEPT ![p].state = "down"]
  /\ UNCHANGED <<pool, failed, made, rebooting, aborts>>

\* The restart that system_restart() asked for; httpdInit runs again.
Reboot ==
  /\ rebooting
  /\ pool' = [i \in Slots |-> None]
  /\ failed' = 0
  /\ sdkSide' = [p \in Peers |-> [state |-> "down", id |-> 0]]
  /\ rebooting' = FALSE
  /\ aborts' = [p \in Peers |-> 0]
  /\ UNCHANGED made

PeerStep(p) ==
  \/ PoolConnectCb(p)
  \/ ConnectRefused(p)
  \/ Traffic(p)
  \/ ServerClose(p)
  \/ PoolDisconCb(p)
  \/ ReconCb(p)
  \/ RefusedGone(p)

PoolNext == Reboot \/ \E p \in Peers : PeerStep(p)

PoolSpec == PoolInit /\ [][PoolNext]_poolVars

----------------------------------------------------------------------------
(***************************************************************************)
(* Properties.                                                             *)
(***************************************************************************)

\* An endpoint owns one slot for its live connection and one more for every
\* connection of it that broke: httpdDisconCb frees exactly one slot per orderly
\* close, whatever the order of closes, aborts and reconnections from the same
\* address and port, and an abort costs exactly one slot until the next restart.
SlotAccounting ==
  \A p \in Peers :
    Cardinality(SlotsOf(p)) = aborts[p] + (IF Registered(p) THEN 1 ELSE 0)

\* A connection whose callbacks are registered is always found in the pool: the
\* "Shouldn't happen" branch of httpdFindConnData is unreachable, also when stale
\* slots of the same endpoint are around.
EventsFindASlot ==
  \A p \in Peers : Registered(p) => SlotsOf(p) # {}

\* An endpoint whose connections never broke is served from the slot that was
\* allocated for this very connection, never with the parser state of an older one.
ServedFromOwnSlot ==
  \A p \in Peers : Registered(p) /\ aborts[p] = 0 =>
    \A i \in SlotsOf(p) : pool[i].born = sdkSide[p].id /\ pool[i].conn = sdkSide[p].id

\* The pool overflows ("Aiee, conn pool overflow!") only after some connection
\* broke: without aborts the SDK's limit and the pool agree, and neither a refusal
\* nor the restart after MaxFailed refusals can happen.
OverflowNeedsAbort ==
  (failed > 0 \/ rebooting) => \E p \in Peers : aborts[p] > 0

\* httpd.c above httpdDisconCb: "The platform layer should ALWAYS call this
\* function, regardless if the connection is closed by the server or by the
\* client." If it did, no slot would outlive its connection.
NoStaleSlot ==
  \A i \in Occupied : Registered(pool[i].peer) /\ pool[i].born = sdkSide[pool[i].peer].id
=============================================================================
