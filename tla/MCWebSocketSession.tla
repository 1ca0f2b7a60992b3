------------------------- MODULE MCWebSocketSession -------------------------
(***************************************************************************)
(* Instances of WebSocketSession for TLC.                                  *)
(***************************************************************************)
EXTENDS WebSocketSession, TLC

CONSTANTS n1, n2, i1, j1, j2

Symmetry == Permutations(PingId) \cup Permutations(JobId)
=============================================================================
