------------------------ MODULE MessageSwitch_proofs ------------------------
(***************************************************************************)
(* Proofs of the safety properties of MessageSwitch: for any number of     *)
(* requests and pods, whatever the registry does in the meantime.          *)
(***************************************************************************)
EXTENDS MessageSwitch, TLAPS

(* The handlers and the proxy answer with one of the known answers.        *)
LEMMA HandlerAnswers ==
    ASSUME NEW r \in Request, NEW err \in {"none", "disconnected", "other"}
    PROVE  Handled(KindOf[r], err) \in Answer /\ NotFound(KindOf[r]) \in Answer
  <1>1. KindOf[r] \in {"job", "ping", "status", "disconnect"}
    BY SwitchAssumption DEF SwitchAssumption, Kind
  <1> QED
    BY <1>1 DEF Handled, NotFound, handleJob, handleConnectionStatus, handleConnectionPing,
                handleDisconnect, Answer

(* Every answer of a gateway is one of the three outcomes of a call.       *)
LEMMA ProxyOutcomes ==
    ASSUME NEW r \in Request, NEW answer \in Answer
    PROVE  Proxied(KindOf[r], answer) \in {"none", "disconnected", "other"}
  <1>1. KindOf[r] \in {"job", "ping", "status", "disconnect"}
    BY SwitchAssumption DEF SwitchAssumption, Kind
  <1> QED
    BY <1>1 DEF Proxied, ProxySendMessage, ProxyPing, ProxyGetCapabilities, ProxyClose, Answer

(***************************************************************************)
(* The types are right, and the steps of a request come in their order.    *)
(***************************************************************************)
THEOREM SwitchTypes == Spec => [](TypeOK /\ RequestOrder)
  <1> DEFINE Inv == TypeOK /\ RequestOrder
  <1>1. Init => Inv
    BY SwitchAssumption DEF SwitchAssumption, Init, TypeOK, RequestOrder
  <1>2. Inv /\ [Next]_vars => Inv'
    <2> SUFFICES ASSUME Inv, [Next]_vars PROVE Inv'
      OBVIOUS
    <2> USE DEF TypeOK, RequestOrder
    <2>1. NoPod \notin Pod
      BY SwitchAssumption DEF SwitchAssumption
    <2>2. ASSUME NEW r \in Request, Receive(r) PROVE Inv'
      BY <2>2 DEF Receive, Finish, Answer
    <2>3. ASSUME NEW r \in Request, SwitchLookup(r) PROVE Inv'
      <3>1. NotFound(KindOf[r]) \in Answer
        BY HandlerAnswers
      <3> QED
        BY <2>1, <2>3, <3>1 DEF SwitchLookup, Finish
    <2>4. ASSUME NEW r \in Request, SwitchReply(r) PROVE Inv'
      <3>1. reply[r] \in Answer
        BY <2>4 DEF SwitchReply
      <3>2. Handled(KindOf[r], Proxied(KindOf[r], reply[r])) \in Answer
        BY <3>1, HandlerAnswers, ProxyOutcomes
      <3> QED
        BY <2>4, <3>2 DEF SwitchReply, Finish
    <2>5. ASSUME NEW r \in Request, SwitchHttpError(r) PROVE Inv'
      <3>1. Handled(KindOf[r], "other") \in Answer
        BY HandlerAnswers
      <3> QED
        BY <2>5, <3>1 DEF SwitchHttpError, Finish
    <2>6. ASSUME NEW r \in Request, GatewayReceive(r) PROVE Inv'
      BY <2>6 DEF GatewayReceive
    <2>7. ASSUME NEW r \in Request, GatewayLookup(r) PROVE Inv'
      <3>1. NotFound(KindOf[r]) \in Answer /\ "none" \notin Answer
        BY HandlerAnswers DEF Answer
      <3> QED
        BY <2>7, <3>1 DEF GatewayLookup, Answered
    <2>8. ASSUME NEW r \in Request, GatewayCall(r) PROVE Inv'
      <3>1. /\ Handled(KindOf[r], "none") \in Answer /\ Handled(KindOf[r], "other") \in Answer
            /\ "none" \notin Answer
        BY HandlerAnswers DEF Answer
      <3>2. host[r] \in Pod
        BY <2>8 DEF GatewayCall
      <3> QED
        BY <2>8, <3>1, <3>2 DEF GatewayCall, Answered
    <2>9. CASE RegistryChanges
      BY <2>9 DEF RegistryChanges
    <2>10. CASE UNCHANGED vars
      BY <2>10 DEF vars
    <2> QED
      BY <2>2, <2>3, <2>4, <2>5, <2>6, <2>7, <2>8, <2>9, <2>10 DEF Next, Switch, Gateway
  <1> QED
    BY <1>1, <1>2, PTL DEF Spec

(***************************************************************************)
(* JobAnswersAreTrue.  A refusal is final because only two things produce  *)
(* one: the switch's own lookup, after which no request is made, and the   *)
(* gateway's answer, after which the gateway is done with the request.     *)
(***************************************************************************)
THEOREM JobsAnsweredTruly == Spec => []JobAnswersAreTrue
  <1>1. Init => JobInv
    BY DEF Init, JobInv
  <1>2. TypeOK /\ RequestOrder /\ JobInv /\ [Next]_vars => JobInv'
    <2> SUFFICES ASSUME TypeOK, RequestOrder, JobInv, [Next]_vars PROVE JobInv'
      OBVIOUS
    <2> USE DEF JobInv, Job, TypeOK
    <2>1. ASSUME NEW r \in Request, Receive(r) PROVE JobInv'
      BY <2>1 DEF Receive, Finish, RequestOrder
    <2>2. ASSUME NEW r \in Request, SwitchLookup(r) PROVE JobInv'
      <3>1. Job(r) => NotFound(KindOf[r]) = "404"
        BY DEF NotFound
      <3>2. host[r] = NoPod
        BY <2>2 DEF SwitchLookup, RequestOrder
      <3>3. Job(r) => result[r] \notin {"400", "404"}
        BY <2>2 DEF SwitchLookup
      <3> QED
        BY <2>2, <3>1, <3>2, <3>3 DEF SwitchLookup, Finish
    <2>3. ASSUME NEW r \in Request, SwitchReply(r) PROVE JobInv'
      <3>1. Job(r) => LET a == Handled(KindOf[r], Proxied(KindOf[r], reply[r]))
                      IN  /\ a # "400"
                          /\ a = "201" => reply[r] = "201"
                          /\ a = "404" => reply[r] = "404"
        BY DEF Handled, handleJob, Proxied, ProxySendMessage
      <3> QED
        BY <2>3, <3>1 DEF SwitchReply, Finish
    <2>4. ASSUME NEW r \in Request, SwitchHttpError(r) PROVE JobInv'
      <3>1. Job(r) => Handled(KindOf[r], "other") = "500"
        BY DEF Handled, handleJob
      <3> QED
        BY <2>4, <3>1 DEF SwitchHttpError, Finish
    <2>5. ASSUME NEW r \in Request, GatewayReceive(r) PROVE JobInv'
      BY <2>5 DEF GatewayReceive
    <2>6. ASSUME NEW r \in Request, GatewayLookup(r) PROVE JobInv'
      <3>1. Job(r) => NotFound(KindOf[r]) = "404"
        BY DEF NotFound
      <3>2. reply[r] = "none" /\ host[r] # NoPod
        BY <2>6 DEF GatewayLookup, RequestOrder
      <3> QED
        BY <2>6, <3>1, <3>2 DEF GatewayLookup, Answered
    <2>7. ASSUME NEW r \in Request, GatewayCall(r) PROVE JobInv'
      <3>1. Job(r) => Handled(KindOf[r], "none") = "201" /\ Handled(KindOf[r], "other") = "500"
        BY DEF Handled, handleJob
      <3>2. reply[r] = "none" /\ host[r] # NoPod
        BY <2>7 DEF GatewayCall, RequestOrder
      <3>3. Job(r) => result[r] \notin {"201", "400", "404"}
        BY <3>2
      <3> QED
        BY <2>7, <3>1, <3>2, <3>3 DEF GatewayCall, Answered
    <2>8. CASE RegistryChanges
      BY <2>8 DEF RegistryChanges
    <2>9. CASE UNCHANGED vars
      BY <2>9 DEF vars
    <2> QED
      BY <2>1, <2>2, <2>3, <2>4, <2>5, <2>6, <2>7, <2>8, <2>9 DEF Next, Switch, Gateway
  <1>3. RequestOrder /\ JobInv => JobAnswersAreTrue
    <2> SUFFICES ASSUME RequestOrder, JobInv, NEW r \in Request, Job(r)
                 PROVE  /\ result[r] = "201" => r \in queued
                        /\ result[r] \in {"400", "404"} => r \notin queued
      BY DEF JobAnswersAreTrue
    <2>1. host[r] = NoPod => reply[r] = "none"
      BY DEF RequestOrder
    <2> QED
      BY <2>1 DEF JobInv
  <1> QED
    BY <1>1, <1>2, <1>3, SwitchTypes, PTL DEF Spec

(***************************************************************************)
(* ConnectedMeansFound: the switch never makes up "connected" by itself.   *)
(***************************************************************************)
THEOREM ConnectedTruly == Spec => []ConnectedMeansFound
  <1>1. Init => QueryInv
    BY DEF Init, QueryInv
  <1>2. TypeOK /\ QueryInv /\ [Next]_vars => QueryInv'
    <2> SUFFICES ASSUME TypeOK, QueryInv, [Next]_vars PROVE QueryInv'
      OBVIOUS
    <2> USE DEF QueryInv, TypeOK
    <2>1. ASSUME NEW r \in Request PROVE KindOf[r] \in {"job", "ping", "status", "disconnect"}
      BY SwitchAssumption DEF SwitchAssumption, Kind
    <2>2. ASSUME NEW r \in Request, Receive(r) PROVE QueryInv'
      BY <2>2 DEF Receive, Finish
    <2>3. ASSUME NEW r \in Request PROVE NotFound(KindOf[r]) # "connected"
      BY <2>1 DEF NotFound
    <2>4. ASSUME NEW r \in Request, SwitchLookup(r) PROVE QueryInv'
      BY <2>3, <2>4 DEF SwitchLookup, Finish
    <2>5. ASSUME NEW r \in Request, SwitchReply(r) PROVE QueryInv'
      <3>1. Handled(KindOf[r], Proxied(KindOf[r], reply[r])) = "connected" => reply[r] = "connected"
        BY <2>1 DEF Handled, handleJob, handleConnectionPing, handleConnectionStatus,
                    handleDisconnect, Proxied, ProxyPing, ProxyGetCapabilities, ProxySendMessage
      <3> QED
        BY <2>5, <3>1 DEF SwitchReply, Finish
    <2>6. ASSUME NEW r \in Request, SwitchHttpError(r) PROVE QueryInv'
      <3>1. Handled(KindOf[r], "other") # "connected"
        BY <2>1 DEF Handled, handleJob, handleConnectionPing, handleConnectionStatus, handleDisconnect
      <3> QED
        BY <2>6, <3>1 DEF SwitchHttpError, Finish
    <2>7. ASSUME NEW r \in Request, GatewayReceive(r) PROVE QueryInv'
      BY <2>7 DEF GatewayReceive
    <2>8. ASSUME NEW r \in Request, GatewayLookup(r) PROVE QueryInv'
      BY <2>3, <2>8 DEF GatewayLookup, Answered
    <2>9. ASSUME NEW r \in Request, GatewayCall(r) PROVE QueryInv'
      BY <2>9 DEF GatewayCall, Answered
    <2>10. CASE RegistryChanges
      BY <2>10 DEF RegistryChanges
    <2>11. CASE UNCHANGED vars
      BY <2>11 DEF vars
    <2> QED
      BY <2>2, <2>4, <2>5, <2>6, <2>7, <2>8, <2>9, <2>10, <2>11 DEF Next, Switch, Gateway
  <1>3. QueryInv => ConnectedMeansFound
    BY DEF QueryInv, ConnectedMeansFound
  <1> QED
    BY <1>1, <1>2, <1>3, SwitchTypes, PTL DEF Spec
=============================================================================
