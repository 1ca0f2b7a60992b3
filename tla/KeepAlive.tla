------------------------------ MODULE KeepAlive ------------------------------
(***************************************************************************)
(* How a websocket session notices that its node is gone: the writer sends *)
(* a websocket ping every PingPeriod, and the reader's deadline is put     *)
(* PongWait ahead by every pong and taken away by every message (read,     *)
(* write and the two configure functions of internal/controller/ws/        *)
(* client.go, calculatePingPeriod of internal/config/config.go).  Pongs    *)
(* are handled by whoever reads from the socket, so not while the reader   *)
(* waits for room on Recv.  Time is discrete and kept in what is left of   *)
(* each timer.                                                             *)
(***************************************************************************)
EXTENDS Naturals

CONSTANTS
    PongWait,
    Latency,    \* within this a prompt node's pong is in, after the ping
    Jitter,     \* within this the writer takes a tick, while the node is prompt
    Never       \* a timer that is not running

\* calculatePingPeriod
PingPeriod == (PongWait * 9) \div 10

(***************************************************************************)
(* The timers are on, and what a node may take and count as prompt fits in *)
(* the tenth of PongWait that PingPeriod leaves.  That is less than        *)
(* WriteWait where the defaults are used (2.5 s and 5 s): a node that      *)
(* takes its writes just within WriteWait is not prompt.                   *)
(***************************************************************************)
ASSUME KeepAliveAssumption ==
    /\ PongWait \in Nat /\ Latency \in Nat /\ Jitter \in Nat
    /\ PingPeriod \in Nat \ {0}
    /\ PingPeriod + Jitter + Latency < PongWait
    /\ Never \notin Nat

VARIABLES
    conn,       \* "open" or "closed"
    peer,       \* "prompt", "slow" once it has kept a write or a pong for
                \* longer, or "gone" without a word
    reader,     \* "read": in a read; "pass": passing a message on
    readLeft,   \* what is left to the read deadline
    pingLeft,   \* what is left to the next tick of the ping ticker
    tick,       \* how long a tick has waited in the ticker's channel
    pongs       \* how long each pong has been on its way or unread

vars == <<conn, peer, reader, readLeft, pingLeft, tick, pongs>>

(***************************************************************************)
(* Every timer is in its range; ages are not counted beyond Jitter and     *)
(* Latency.                                                                *)
(***************************************************************************)
TypeOK ==
    /\ conn \in {"open", "closed"}
    /\ peer \in {"prompt", "slow", "gone"}
    /\ reader \in {"read", "pass"}
    /\ readLeft \in 0 .. PongWait \cup {Never}
    /\ pingLeft \in 1 .. PingPeriod
    /\ tick \in 0 .. Jitter \cup {Never}
    /\ pongs \subseteq 0 .. Latency

\* configurePongHandler and configurePingTicker.
Init ==
    /\ conn = "open"
    /\ peer = "prompt"
    /\ reader = "read"
    /\ readLeft = PongWait
    /\ pingLeft = PingPeriod
    /\ tick = Never
    /\ pongs = {}

-----------------------------------------------------------------------------
Older(age, most) == IF age < most THEN age + 1 ELSE most

\* Mutant: the ticker is armed for PongWait.
PingLeftAfter_PongWait == IF pingLeft = 1 THEN PongWait ELSE pingLeft - 1

\* The ticker starts again when it has fired.
PingLeftAfter == IF pingLeft = 1 THEN PingPeriod ELSE pingLeft - 1

\* Its channel holds one tick; another one is dropped.
TickAfter ==
    IF tick = Never THEN (IF pingLeft = 1 THEN 0 ELSE Never) ELSE Older(tick, Jitter)

(***************************************************************************)
(* One unit of time passes.  It does not pass over what is due: the read   *)
(* deadline, if the reader reads; a prompt node's pong, if the reader      *)
(* reads; a tick, if the node is prompt, so that no write before it lasts. *)
(***************************************************************************)
Time ==
    /\ conn = "open"
    /\ reader = "read" => readLeft # 0
    /\ peer = "prompt" => tick # Jitter /\ (reader = "read" => Latency \notin pongs)
    /\ readLeft' = IF readLeft = Never THEN Never ELSE readLeft - 1
    /\ pingLeft' = PingLeftAfter
    /\ tick' = TickAfter
    /\ pongs' = {Older(age, Latency) : age \in pongs}
    /\ UNCHANGED <<conn, peer, reader>>

\* write takes a tick: the ping is written, and answered unless the node is gone.
SendPing ==
    /\ conn = "open"
    /\ tick # Never
    /\ tick' = Never
    /\ pongs' = IF peer # "gone" THEN pongs \cup {0} ELSE pongs
    /\ UNCHANGED <<conn, peer, reader, readLeft, pingLeft>>

\* Mutant: a ping that cannot be written is passed over.
PingFails_GoesOn ==
    /\ conn = "open"
    /\ tick # Never
    /\ peer # "prompt"
    /\ tick' = Never
    /\ UNCHANGED <<conn, peer, reader, readLeft, pingLeft, pongs>>

\* TCP has given up, or WriteWait has passed and the node, alive or not, has
\* not taken the ping.
PingFails ==
    /\ conn = "open"
    /\ tick # Never
    /\ peer # "prompt"
    /\ conn' = "closed"
    /\ UNCHANGED <<peer, reader, readLeft, pingLeft, tick, pongs>>

\* The pong handler, called by a read on the socket.
PongHandler ==
    /\ conn = "open"
    /\ reader = "read"
    /\ \E age \in pongs : pongs' = pongs \ {age}
    /\ readLeft' = PongWait
    /\ UNCHANGED <<conn, peer, reader, pingLeft, tick>>

\* read has a message: it takes the deadline away.
ReadCompletes ==
    /\ conn = "open"
    /\ reader = "read"
    /\ peer # "gone"
    /\ readLeft # 0
    /\ readLeft' = Never
    /\ reader' = "pass"
    /\ UNCHANGED <<conn, peer, pingLeft, tick, pongs>>

\* The message is on Recv.
Pass ==
    /\ conn = "open"
    /\ reader = "pass"
    /\ reader' = "read"
    /\ UNCHANGED <<conn, peer, readLeft, pingLeft, tick, pongs>>

\* The read deadline expires: read returns and closes the socket.
ReadTimesOut ==
    /\ conn = "open"
    /\ reader = "read"
    /\ readLeft = 0
    /\ conn' = "closed"
    /\ UNCHANGED <<peer, reader, readLeft, pingLeft, tick, pongs>>

\* The node or the network takes its time, now and perhaps again later.
PeerSlows ==
    /\ peer = "prompt"
    /\ peer' = "slow"
    /\ UNCHANGED <<conn, reader, readLeft, pingLeft, tick, pongs>>

\* The node or the network vanishes; pongs on their way may be lost.
PeerVanishes ==
    /\ peer # "gone"
    /\ peer' = "gone"
    /\ pongs' \in SUBSET pongs
    /\ UNCHANGED <<conn, reader, readLeft, pingLeft, tick>>

Next ==
    \/ Time
    \/ SendPing
    \/ PingFails
    \/ PongHandler
    \/ ReadCompletes
    \/ Pass
    \/ ReadTimesOut
    \/ PeerSlows
    \/ PeerVanishes

Spec == Init /\ [][Next]_vars

(***************************************************************************)
(* Time passes and deadlines expire; a ping that keeps being written to a  *)
(* node that is gone fails in the end, when TCP gives up.  Whether the     *)
(* reader gets room on Recv is left open.                                  *)
(***************************************************************************)
FairSpec ==
    /\ Spec
    /\ WF_vars(Time)
    /\ WF_vars(PongHandler)
    /\ WF_vars(ReadTimesOut)
    /\ SF_vars(peer = "gone" /\ PingFails)

-----------------------------------------------------------------------------
(***************************************************************************)
(* A node that has always been prompt is never taken for dead, however its *)
(* messages, its pongs, the ticks and a reader that waits for room on Recv *)
(* interleave: nine tenths of PongWait leave enough time.  A slow one may  *)
(* be: by a read deadline its pong misses, or by a write that takes longer *)
(* than WriteWait.                                                         *)
(***************************************************************************)
PromptPeerIsKept == conn = "closed" => peer # "prompt"

\* The deadline is behind the next pong.
PongIsInTime ==
    conn = "open" /\ peer = "prompt" /\ reader = "read" /\ readLeft # Never =>
        \/ \E age \in pongs : Latency < readLeft + age
        \/ tick # Never /\ Jitter + Latency < readLeft + tick
        \/ pingLeft + Jitter + Latency < readLeft

\* A reader that is not reading has no deadline.
NoDeadlineInPass == reader = "pass" => readLeft = Never

(***************************************************************************)
(* The session of a node that vanished is closed in the end: by the read   *)
(* deadline or, where a message had taken that away and no pong follows,   *)
(* or the reader is not reading, by a ping that cannot be written.         *)
(***************************************************************************)
VanishedPeerIsNoticed == peer = "gone" ~> conn = "closed"
=============================================================================
