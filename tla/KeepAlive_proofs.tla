-------------------------- MODULE KeepAlive_proofs --------------------------
(***************************************************************************)
(* Proofs of the safety properties of KeepAlive, for any PongWait and any  *)
(* delays that fit in what PingPeriod leaves of it.                        *)
(***************************************************************************)
EXTENDS KeepAlive, TLAPS

USE DEF KeepAliveAssumption

Inv == TypeOK /\ NoDeadlineInPass /\ PongIsInTime /\ PromptPeerIsKept

(* PingPeriod is used only through the assumption on the delays.           *)
LEMMA Delays ==
    /\ PongWait \in Nat /\ Latency \in Nat /\ Jitter \in Nat
    /\ PingPeriod \in Nat /\ PingPeriod >= 1
    /\ PingPeriod + Jitter + Latency < PongWait
    /\ Never \notin Nat
  BY KeepAliveAssumption

(* The longer something waits, the more time there is for it.              *)
LEMMA MoreIsLater ==
    ASSUME NEW a \in Nat, NEW b \in Nat, NEW c \in Nat, a < b
    PROVE  a < b + c
  OBVIOUS

(* A unit of time brings the deadline, the tick, the ping and the pong     *)
(* nearer alike; what is due is not passed over.                           *)
LEMMA TimeStep ==
    ASSUME Inv, Time
    PROVE  Inv'
  <1> USE Delays
  <1>1. TypeOK
    BY DEF Inv
  <1>2. /\ conn' = "open" /\ peer' = peer /\ reader' = reader /\ conn = "open"
        /\ readLeft' = IF readLeft = Never THEN Never ELSE readLeft - 1
        /\ pingLeft' = IF pingLeft = 1 THEN PingPeriod ELSE pingLeft - 1
    BY DEF Time, PingLeftAfter
  <1>3. readLeft # Never => reader = "read" /\ readLeft \in 1 .. PongWait
    BY <1>1 DEF Inv, NoDeadlineInPass, TypeOK, Time
  <1>4. readLeft' \in 0 .. PongWait \cup {Never}
    BY <1>2, <1>3
  <1>5. pingLeft' \in 1 .. PingPeriod
    BY <1>1, <1>2 DEF TypeOK
  <1>6. /\ tick = Never /\ pingLeft = 1 => tick' = 0
        /\ tick = Never /\ pingLeft # 1 => tick' = Never
        /\ tick # Never => tick' = Older(tick, Jitter)
    BY DEF Time, TickAfter
  <1>7. tick # Never => tick' \in 0 .. Jitter /\ (tick # Jitter => tick' = tick + 1) /\ tick' >= tick
    BY <1>1, <1>6 DEF TypeOK, Older
  <1>8. tick' \in 0 .. Jitter \cup {Never}
    BY <1>6, <1>7
  <1>9. \A age \in pongs : Older(age, Latency) \in pongs' /\ age \in 0 .. Latency
    BY <1>1 DEF Time, TypeOK
  <1>10. pongs' \subseteq 0 .. Latency
    BY <1>1 DEF Time, TypeOK, Older
  <1>11. TypeOK'
    BY <1>1, <1>2, <1>4, <1>5, <1>8, <1>10 DEF TypeOK
  <1>12. NoDeadlineInPass' /\ PromptPeerIsKept'
    BY <1>2 DEF Inv, NoDeadlineInPass, PromptPeerIsKept
  <1>13. ASSUME peer = "prompt", reader = "read", readLeft # Never
         PROVE  \/ \E age \in pongs' : Latency < readLeft' + age
                \/ tick' # Never /\ Jitter + Latency < readLeft' + tick'
                \/ pingLeft' + Jitter + Latency < readLeft'
    <2>1. readLeft \in 1 .. PongWait /\ readLeft' = readLeft - 1
      BY <1>2, <1>3, <1>13
    <2>2. CASE \E age \in pongs : Latency < readLeft + age
      <3>1. PICK age \in pongs : Latency < readLeft + age
        BY <2>2
      <3>2. age \in 0 .. Latency /\ age # Latency /\ Older(age, Latency) \in pongs'
        BY <1>9, <1>13 DEF Time
      <3>3. Older(age, Latency) = age + 1
        BY <3>2 DEF Older
      <3>4. Latency < readLeft' + (age + 1)
        BY <2>1, <3>1, <3>2
      <3> QED
        BY <3>2, <3>3, <3>4
    <2>3. CASE tick # Never /\ Jitter + Latency < readLeft + tick
      <3>1. tick # Jitter
        BY <1>13 DEF Time
      <3>2. tick \in 0 .. Jitter /\ tick' = tick + 1 /\ tick' # Never
        BY <1>1, <1>7, <2>3, <3>1 DEF TypeOK
      <3> QED
        BY <2>1, <2>3, <3>2
    <2>4. CASE pingLeft + Jitter + Latency < readLeft
      <3>1. CASE pingLeft = 1
        <4>1. tick' \in 0 .. Jitter /\ tick' # Never
          BY <1>6, <1>7, <3>1
        <4>2. 1 + Jitter + Latency < readLeft
          BY <2>4, <3>1
        <4>3. Jitter + Latency < readLeft' /\ readLeft' \in Nat
          BY <2>1, <4>2
        <4>4. tick' \in Nat
          BY <4>1
        <4>5. Jitter + Latency < readLeft' + tick'
          <5> HIDE Delays
          <5>1. Jitter + Latency \in Nat
            BY Delays
          <5> QED
            BY <4>3, <4>4, <5>1, MoreIsLater
        <4> QED
          BY <4>1, <4>5
      <3>2. CASE pingLeft # 1
        BY <1>1, <1>2, <2>1, <2>4, <3>2 DEF TypeOK
      <3> QED
        BY <3>1, <3>2
    <2> QED
      BY <1>2, <1>13, <2>2, <2>3, <2>4 DEF Inv, PongIsInTime
  <1>14. PongIsInTime'
    BY <1>2, <1>13 DEF PongIsInTime
  <1> QED
    BY <1>11, <1>12, <1>14 DEF Inv

(* The other steps take no time.                                           *)
LEMMA OtherSteps ==
    ASSUME Inv, [Next]_vars, ~Time
    PROVE  Inv'
  <1> USE Delays
  <1>1. TypeOK
    BY DEF Inv
  <1>2. CASE SendPing
    <2>1. TypeOK' /\ NoDeadlineInPass' /\ PromptPeerIsKept'
      BY <1>1, <1>2 DEF SendPing, Inv, TypeOK, NoDeadlineInPass, PromptPeerIsKept
    <2>2. ASSUME peer = "prompt", reader = "read", readLeft # Never
          PROVE  \/ \E age \in pongs' : Latency < readLeft' + age
                 \/ pingLeft' + Jitter + Latency < readLeft'
      <3>1. /\ readLeft' = readLeft /\ readLeft \in 0 .. PongWait /\ pingLeft' = pingLeft
            /\ pongs' = pongs \cup {0} /\ tick \in 0 .. Jitter
        BY <1>1, <1>2, <2>2 DEF SendPing, TypeOK
      <3>2. CASE Jitter + Latency < readLeft + tick
        <4>1. Latency < readLeft + 0 /\ 0 \in pongs'
          BY <3>1, <3>2
        <4> QED
          BY <3>1, <4>1
      <3> QED
        BY <1>2, <2>2, <3>1, <3>2 DEF SendPing, Inv, PongIsInTime
    <2> QED
      BY <1>2, <2>1, <2>2 DEF SendPing, Inv, PongIsInTime
  <1>3. CASE PongHandler
    <2>1. TypeOK' /\ NoDeadlineInPass' /\ PromptPeerIsKept'
      BY <1>1, <1>3 DEF PongHandler, Inv, TypeOK, NoDeadlineInPass, PromptPeerIsKept
    <2>2. pingLeft' + Jitter + Latency < readLeft'
      BY <1>1, <1>3 DEF PongHandler, TypeOK
    <2> QED
      BY <2>1, <2>2 DEF Inv, PongIsInTime
  <1>4. CASE ReadTimesOut
    <2>1. TypeOK' /\ NoDeadlineInPass' /\ PongIsInTime'
      BY <1>1, <1>4 DEF ReadTimesOut, Inv, TypeOK, NoDeadlineInPass, PongIsInTime
    <2>2. ASSUME peer = "prompt" PROVE FALSE
      <3>1. readLeft = 0 /\ readLeft # Never
        BY <1>4 DEF ReadTimesOut
      <3>2. \A age \in pongs : ~(Latency < readLeft + age)
        BY <1>1, <3>1 DEF TypeOK
      <3>3. ~(tick # Never /\ Jitter + Latency < readLeft + tick)
        BY <1>1, <3>1 DEF TypeOK
      <3>4. ~(pingLeft + Jitter + Latency < readLeft)
        BY <1>1, <3>1 DEF TypeOK
      <3> QED
        BY <1>4, <2>2, <3>1, <3>2, <3>3, <3>4 DEF ReadTimesOut, Inv, PongIsInTime
    <2>3. peer' # "prompt"
      BY <1>4, <2>2 DEF ReadTimesOut
    <2> QED
      BY <2>1, <2>3 DEF Inv, PromptPeerIsKept
  <1>5. CASE PingFails \/ ReadCompletes \/ Pass \/ PeerSlows \/ PeerVanishes
    <2>1. TypeOK'
      BY <1>1, <1>5 DEF PingFails, ReadCompletes, Pass, PeerSlows, PeerVanishes, TypeOK
    <2>2. NoDeadlineInPass' /\ PromptPeerIsKept'
      BY <1>5 DEF PingFails, ReadCompletes, Pass, PeerSlows, PeerVanishes, Inv, NoDeadlineInPass,
                  PromptPeerIsKept
    <2>3. PongIsInTime'
      BY <1>5 DEF PingFails, ReadCompletes, Pass, PeerSlows, PeerVanishes, Inv, NoDeadlineInPass,
                  PongIsInTime
    <2> QED
      BY <2>1, <2>2, <2>3 DEF Inv
  <1>6. CASE UNCHANGED vars
    BY <1>6 DEF vars, Inv, TypeOK, NoDeadlineInPass, PongIsInTime, PromptPeerIsKept
  <1> QED
    BY <1>2, <1>3, <1>4, <1>5, <1>6 DEF Next

(* The invariant holds, and with it the properties below.                  *)
LEMMA KeepAliveInvariance == Spec => []Inv
  <1>1. Init => Inv
    BY Delays DEF Init, Inv, TypeOK, NoDeadlineInPass, PongIsInTime, PromptPeerIsKept
  <1>2. Inv /\ [Next]_vars => Inv'
    BY TimeStep, OtherSteps
  <1> QED
    BY <1>1, <1>2, PTL DEF Spec

(***************************************************************************)
(* A session is closed by its keep-alive only if its node is gone or has   *)
(* at some time not been prompt, where prompt is any bound on the delays   *)
(* of a ping and its pong that fits in what PingPeriod leaves of PongWait. *)
(***************************************************************************)
THEOREM PromptPeersAreKept == Spec => []PromptPeerIsKept
  <1>1. Inv => PromptPeerIsKept
    BY DEF Inv
  <1> QED
    BY <1>1, KeepAliveInvariance, PTL

(* The type invariant of KeepAlive.                                        *)
THEOREM KeepAliveTypeCorrect == Spec => []TypeOK
  <1>1. Inv => TypeOK
    BY DEF Inv
  <1> QED
    BY <1>1, KeepAliveInvariance, PTL
=============================================================================
