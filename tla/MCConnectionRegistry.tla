------------------------ MODULE MCConnectionRegistry ------------------------
(***************************************************************************)
(* Instances of ConnectionRegistry for TLC.  Different keys share no state *)
(* but the cleaner's listing, so one key is enough for everything else.    *)
(***************************************************************************)
EXTENDS ConnectionRegistry, TLC

CONSTANTS p1, p2, c1, c2, c3, k1

\* Two sessions that reconnect to one pod, and one on another pod.
TwoAndOne == c1 :> p1 @@ c2 :> p1 @@ c3 :> p2

\* One session on each of two pods.
OneAndOne == c1 :> p1 @@ c2 :> p2

\* Two sessions on one pod.
BothOnOne == c1 :> p1 @@ c2 :> p1

SameNode == [c \in Conn |-> k1]

\* c1 and c2 are on the same pod.
Symmetry == Permutations({c1, c2})
=============================================================================
