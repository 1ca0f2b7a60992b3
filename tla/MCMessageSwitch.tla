--------------------------- MODULE MCMessageSwitch ---------------------------
(***************************************************************************)
(* An instance of MessageSwitch for TLC: one request of every kind.        *)
(***************************************************************************)
EXTENDS MessageSwitch, TLC

CONSTANTS r1, r2, r3, r4, p1

EveryKind == r1 :> "job" @@ r2 :> "ping" @@ r3 :> "status" @@ r4 :> "disconnect"
=============================================================================
