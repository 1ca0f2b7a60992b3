-------------------------- MODULE AbstractRegistry --------------------------
(***************************************************************************)
(* What the registry promises, without Redis commands, tables, registrars  *)
(* or a cleaner: at any time at most one session owns a node, and a lookup *)
(* of the node finds the pod of its owner.  What a lookup finds for a node *)
(* without an owner is not promised, except that an old answer is only     *)
(* ever replaced by none.                                                  *)
(***************************************************************************)
CONSTANTS Pod, NoPod, Conn, Key, PodOf, KeyOf

VARIABLES
    phase,      \* session -> waiting, owner, gone
    route       \* key -> the pod a lookup finds, or NoPod

vars == <<phase, route>>

Owned(k) == \E c \in Conn : KeyOf[c] = k /\ phase[c] = "owner"

Init ==
    /\ phase = [c \in Conn |-> "waiting"]
    /\ route = [k \in Key |-> NoPod]

\* A session becomes the owner of its node.
Acquire(c) ==
    /\ phase[c] = "waiting"
    /\ ~Owned(KeyOf[c])
    /\ route[KeyOf[c]] = NoPod
    /\ phase' = [phase EXCEPT ![c] = "owner"]
    /\ route' = [route EXCEPT ![KeyOf[c]] = PodOf[c]]

\* A session is rejected.
Reject(c) ==
    /\ phase[c] = "waiting"
    /\ phase' = [phase EXCEPT ![c] = "gone"]
    /\ UNCHANGED route

\* The owner gives its node up; the lookup may go on finding its pod.
Release(c) ==
    /\ phase[c] = "owner"
    /\ phase' = [phase EXCEPT ![c] = "gone"]
    /\ \/ route' = [route EXCEPT ![KeyOf[c]] = NoPod]
       \/ UNCHANGED route

\* A pod claims a node that nobody owns (and may reject a session as well).
Stray(k) ==
    /\ ~Owned(k)
    /\ route[k] = NoPod
    /\ \E p \in Pod : route' = [route EXCEPT ![k] = p]
    /\ \/ UNCHANGED phase
       \/ \E c \in Conn : /\ phase[c] = "waiting"
                          /\ phase' = [phase EXCEPT ![c] = "gone"]

Next ==
    \/ \E c \in Conn : Acquire(c) \/ Reject(c) \/ Release(c)
    \/ \E k \in Key : Stray(k)

Spec == Init /\ [][Next]_vars
=============================================================================
