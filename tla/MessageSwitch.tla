---------------------------- MODULE MessageSwitch ----------------------------
(***************************************************************************)
(* A request of an internal client on its way through the system: the      *)
(* switch pod looks the node up in Redis and repeats the request over HTTP *)
(* to the gateway pod found there, which looks the node up in its own      *)
(* table and calls the session (internal/controller/api).  Switch and      *)
(* gateway run the same HTTP handlers, with different ConnectionLocators.  *)
(*                                                                         *)
(* There is one node.  Redis and the tables of the pods change under the   *)
(* requests in any way whatever: ConnectionRegistry shows that they can    *)
(* disagree, so nothing is assumed of them here.                           *)
(***************************************************************************)
EXTENDS Naturals

CONSTANTS
    Request,    \* requests, each made once
    KindOf,     \* request -> "job", "ping", "status" or "disconnect"
    Pod,        \* gateway pods
    NoPod

Kind == {"job", "ping", "status", "disconnect"}

ASSUME SwitchAssumption ==
    /\ KindOf \in [Request -> Kind]
    /\ NoPod \notin Pod

VARIABLES
    redis,      \* host the node's key maps to, or NoPod
    table,      \* pod -> what it has of the node: "none", "open" or "dead"
    place,      \* request -> "new", "lookup", "http", "done": in the switch
    host,       \* request -> the host the switch read from Redis
    gateway,    \* request -> "none", "lookup", "call", "replied": in the gateway
    reply,      \* request -> what the gateway answered, or "none"
    result,     \* request -> what the client was answered, or "none"
    queued,     \* history: the jobs put on a session's send channel
    witness     \* history: requests whose session was in the pod's table

vars == <<redis, table, place, host, gateway, reply, result, queued, witness>>

Answer == {"201", "200", "connected", "disconnected", "400", "404", "500"}

(***************************************************************************)
(* Every variable of the requests, the gateways and the registry has its   *)
(* type.                                                                   *)
(***************************************************************************)
TypeOK ==
    /\ redis \in Pod \cup {NoPod}
    /\ table \in [Pod -> {"none", "open", "dead"}]
    /\ place \in [Request -> {"new", "lookup", "http", "done"}]
    /\ host \in [Request -> Pod \cup {NoPod}]
    /\ gateway \in [Request -> {"none", "lookup", "call", "replied"}]
    /\ reply \in [Request -> Answer \cup {"none"}]
    /\ result \in [Request -> Answer \cup {"none"}]
    /\ queued \subseteq Request
    /\ witness \subseteq Request

Init ==
    /\ redis = NoPod
    /\ table = [p \in Pod |-> "none"]
    /\ place = [r \in Request |-> "new"]
    /\ host = [r \in Request |-> NoPod]
    /\ gateway = [r \in Request |-> "none"]
    /\ reply = [r \in Request |-> "none"]
    /\ result = [r \in Request |-> "none"]
    /\ queued = {}
    /\ witness = {}

-----------------------------------------------------------------------------
(***************************************************************************)
(* The HTTP handlers.  `err' is the outcome of the call on the connection: *)
(* "none", "disconnected" (errDisconnectedNode) or "other".  A ping with   *)
(* an error has no payload; a disconnect ignores the error.                *)
(***************************************************************************)
handleJob(err) ==
    CASE err = "none" -> "201"
      [] err = "disconnected" -> "404"
      [] err = "other" -> "500"

handleConnectionStatus(err) == IF err = "none" THEN "connected" ELSE "disconnected"

handleConnectionPing(err) == IF err = "none" THEN "connected" ELSE "disconnected"

handleDisconnect(err) == "200"

Handled(kind, err) ==
    CASE kind = "job" -> handleJob(err)
      [] kind = "ping" -> handleConnectionPing(err)
      [] kind = "status" -> handleConnectionStatus(err)
      [] kind = "disconnect" -> handleDisconnect(err)

\* GetConnection returned nil.
NotFound(kind) ==
    CASE kind = "job" -> "404"
      [] kind \in {"ping", "status"} -> "disconnected"
      [] kind = "disconnect" -> "400"

(***************************************************************************)
(* ReceptorHttpProxy: the outcome of a call made over HTTP.                *)
(***************************************************************************)
ProxySendMessage(answer) ==
    CASE answer = "201" -> "none"
      [] answer = "404" -> "disconnected"
      [] OTHER -> "other"

\* Mutant: the status in the body is not looked at.
ProxyPing_IgnoresBody(answer) == "none"

ProxyPing(answer) ==
    CASE answer = "connected" -> "none"
      [] answer = "disconnected" -> "disconnected"
      [] OTHER -> "other"

ProxyGetCapabilities(answer) ==
    CASE answer = "connected" -> "none"
      [] answer = "disconnected" -> "disconnected"
      [] OTHER -> "other"

\* Close: a status other than 200 is logged and dropped.
ProxyClose(answer) == "none"

Proxied(kind, answer) ==
    CASE kind = "job" -> ProxySendMessage(answer)
      [] kind = "ping" -> ProxyPing(answer)
      [] kind = "status" -> ProxyGetCapabilities(answer)
      [] kind = "disconnect" -> ProxyClose(answer)

-----------------------------------------------------------------------------
(***************************************************************************)
(* The switch.                                                             *)
(***************************************************************************)
Finish(r, answer) ==
    /\ place' = [place EXCEPT ![r] = "done"]
    /\ result' = [result EXCEPT ![r] = answer]

\* decodeJSON of the body; a body that does not decode is answered 400.
Receive(r) ==
    /\ place[r] = "new"
    /\ \/ place' = [place EXCEPT ![r] = "lookup"] /\ UNCHANGED result
       \/ Finish(r, "400")
    /\ UNCHANGED <<redis, table, host, gateway, reply, queued, witness>>

\* RedisConnectionLocator.GetConnection: an error of Redis is "not found".
SwitchLookup(r) ==
    /\ place[r] = "lookup"
    /\ \/ /\ redis # NoPod
          /\ host' = [host EXCEPT ![r] = redis]
          /\ place' = [place EXCEPT ![r] = "http"]
          /\ UNCHANGED result
       \/ /\ Finish(r, NotFound(KindOf[r]))
          /\ UNCHANGED host
    /\ UNCHANGED <<redis, table, gateway, reply, queued, witness>>

\* makeHttpRequest got an answer and the proxy's method decoded it.
SwitchReply(r) ==
    /\ place[r] = "http"
    /\ reply[r] # "none"
    /\ Finish(r, Handled(KindOf[r], Proxied(KindOf[r], reply[r])))
    /\ UNCHANGED <<redis, table, host, gateway, reply, queued, witness>>

\* Mutant: a failed request is reported as a node that is not connected.
SwitchHttpError_Disconnected(r) ==
    /\ place[r] = "http"
    /\ Finish(r, Handled(KindOf[r], "disconnected"))
    /\ UNCHANGED <<redis, table, host, gateway, reply, queued, witness>>

\* Mutant: the request has no timeout.
SwitchHttpError_Never(r) == FALSE

\* The request failed or timed out, or the answer's body could not be read.
SwitchHttpError(r) ==
    /\ place[r] = "http"
    /\ Finish(r, Handled(KindOf[r], "other"))
    /\ UNCHANGED <<redis, table, host, gateway, reply, queued, witness>>

-----------------------------------------------------------------------------
(***************************************************************************)
(* The gateway pod host[r].  A request that the switch has given up on may *)
(* still arrive and be handled.                                            *)
(***************************************************************************)
Answered(r, answer) ==
    /\ gateway' = [gateway EXCEPT ![r] = "replied"]
    /\ reply' = [reply EXCEPT ![r] = answer]

GatewayReceive(r) ==
    /\ host[r] # NoPod
    /\ gateway[r] = "none"
    /\ gateway' = [gateway EXCEPT ![r] = "lookup"]
    /\ UNCHANGED <<redis, table, place, host, reply, result, queued, witness>>

\* LocalConnectionManager.GetConnection.
GatewayLookup(r) ==
    /\ gateway[r] = "lookup"
    /\ \/ /\ table[host[r]] = "none"
          /\ Answered(r, NotFound(KindOf[r]))
          /\ UNCHANGED witness
       \/ /\ table[host[r]] # "none"
          /\ gateway' = [gateway EXCEPT ![r] = "call"]
          /\ witness' = witness \cup {r}
          /\ UNCHANGED reply
    /\ UNCHANGED <<redis, table, place, host, result, queued>>

(***************************************************************************)
(* The call on the session found.  SendMessage and Ping may fail whatever  *)
(* the session's state; SendMessage may also succeed on a dead one, whose  *)
(* channel may still have room; GetCapabilities never fails.               *)
(***************************************************************************)
GatewayCall(r) ==
    LET kind == KindOf[r] IN
    /\ gateway[r] = "call"
    /\ \/ /\ Answered(r, Handled(kind, "none"))
          /\ queued' = IF kind = "job" THEN queued \cup {r} ELSE queued
       \/ /\ kind \in {"job", "ping"}
          /\ Answered(r, Handled(kind, "other"))
          /\ UNCHANGED queued
    /\ table' = IF kind = "disconnect" /\ table[host[r]] = "open"
                THEN [table EXCEPT ![host[r]] = "dead"] ELSE table
    /\ UNCHANGED <<redis, place, host, result, witness>>

-----------------------------------------------------------------------------
\* The registry, and the sessions, in any way.
RegistryChanges ==
    /\ \/ redis' \in Pod \cup {NoPod} /\ UNCHANGED table
       \/ /\ \E p \in Pod, s \in {"none", "open", "dead"} : table' = [table EXCEPT ![p] = s]
          /\ UNCHANGED redis
    /\ UNCHANGED <<place, host, gateway, reply, result, queued, witness>>

Switch(r) == Receive(r) \/ SwitchLookup(r) \/ SwitchReply(r) \/ SwitchHttpError(r)

Gateway(r) == GatewayReceive(r) \/ GatewayLookup(r) \/ GatewayCall(r)

Next ==
    \/ \E r \in Request : Switch(r) \/ Gateway(r)
    \/ RegistryChanges

Spec == Init /\ [][Next]_vars

\* A request being handled by the switch goes on: its HTTP call times out.
Fairness == \A r \in Request : WF_vars(place[r] # "new" /\ Switch(r))

FairSpec == Spec /\ Fairness

-----------------------------------------------------------------------------
Job(r) == KindOf[r] = "job"

(***************************************************************************)
(* A client that is told "201" has its job on the send channel of a        *)
(* session, and one that is told that there is no connection (404), or     *)
(* that its request was malformed (400), can send it again: the job was    *)
(* not queued, and no request still on its way to a gateway will queue it. *)
(***************************************************************************)
JobAnswersAreTrue ==
    \A r \in Request : Job(r) =>
        /\ result[r] = "201" => r \in queued
        /\ result[r] \in {"400", "404"} => r \notin queued

(***************************************************************************)
(* The status endpoint and a ping report "connected" only if the session   *)
(* of the node was in the table of the pod that Redis named, while the     *)
(* request was being handled.                                              *)
(***************************************************************************)
ConnectedMeansFound ==
    \A r \in Request : result[r] = "connected" => r \in witness

(***************************************************************************)
(* Strengthenings that make these inductive.                               *)
(***************************************************************************)
\* A request reaches a gateway only after the switch has found a host.
RequestOrder ==
    \A r \in Request :
        /\ place[r] \in {"new", "lookup"} => host[r] = NoPod
        /\ gateway[r] # "none" => host[r] # NoPod
        /\ gateway[r] = "replied" <=> reply[r] # "none"

\* A job is queued iff the gateway answered 201, and the switch repeats that.
JobInv ==
    \A r \in Request : Job(r) =>
        /\ reply[r] = "201" <=> r \in queued
        /\ result[r] = "201" => reply[r] = "201"
        /\ result[r] = "404" => place[r] = "done" /\ (host[r] = NoPod \/ reply[r] = "404")
        /\ result[r] = "400" => place[r] = "done" /\ host[r] = NoPod

\* "connected" has its origin in a session that the gateway found.
QueryInv ==
    \A r \in Request :
        /\ gateway[r] = "call" => r \in witness
        /\ "connected" \in {reply[r], result[r]} => r \in witness

(***************************************************************************)
(* Every request the switch accepts is answered, however slow or dead the  *)
(* gateway is.                                                             *)
(***************************************************************************)
RequestsAreAnswered ==
    \A r \in Request : place[r] = "lookup" ~> result[r] # "none"
=============================================================================
