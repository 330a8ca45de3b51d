-------------------------------- MODULE MCHttpd --------------------------------
(***************************************************************************)
(* Model checking the web server where things go wrong: its pool, with few *)
(* slots and one endpoint more than there are slots, and one connection,   *)
(* with a client that pipelines and closes when it likes, an SDK that      *)
(* refuses packets and memory that runs short. They are looked at apart; a *)
(* behaviour is one of them, with the other at rest.                       *)
(***************************************************************************)
EXTENDS HttpdPool, MCHttpdConn

VARIABLE part   \* the part that runs

httpdVars == <<part, poolVars, vars>>

HttpdInit == part \in {"pool", "connection"} /\ PoolInit /\ Init

Pool == part = "pool" /\ UNCHANGED <<part, vars>>
Connection == part = "connection" /\ UNCHANGED <<part, poolVars>>

HttpdNext ==
  \/ Pool /\ PoolNext
  \/ Connection /\ Next

HttpdSpec == HttpdInit /\ [][HttpdNext]_httpdVars
=============================================================================
