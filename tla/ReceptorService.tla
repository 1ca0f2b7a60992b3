--------------------------- MODULE ReceptorService ---------------------------
(***************************************************************************)
(* The calls the API makes on a connection and the table that routes the   *)
(* answers of pings back to them (internal/controller/receptor.go).  Each  *)
(* successful handshake of a session makes a ReceptorService with a table  *)
(* of its own; the services of a session share its transport, and are      *)
(* named by the node id they were registered under.                        *)
(***************************************************************************)
EXTENDS Transport

VARIABLES
    dispatchTable,  \* (node, uuid) of the pings that wait for an answer
    ping,           \* uuid -> place of the caller of Ping
    pingNode,       \* uuid -> the service it was called on
    job,            \* uuid -> place of the caller of SendMessage
    accepted,       \* the jobs SendMessage reported as sent, in order
    toKafka,        \* answers whose Kafka goroutine is running
    published       \* answers written to Kafka

serviceVars == <<dispatchTable, ping, pingNode, job, accepted, toKafka, published>>

pingVars == <<dispatchTable, ping, pingNode>>
jobVars == <<job, accepted>>
kafkaVars == <<toKafka, published>>

ServiceTypeOK ==
    /\ dispatchTable \subseteq Node \X PingId
    /\ ping \in [PingId -> {"idle", "send", "wait", "answered", "failed", "done"}]
    /\ pingNode \in [PingId -> Node \cup {NoNode}]
    /\ job \in [JobId -> {"idle", "send", "accepted", "failed"}]
    /\ accepted \in Seq(JobId)
    /\ toKafka \subseteq PingId \cup JobId
    /\ published \subseteq PingId \cup JobId

ServiceInit ==
    /\ dispatchTable = {}
    /\ ping = [i \in PingId |-> "idle"]
    /\ pingNode = [i \in PingId |-> NoNode]
    /\ job = [j \in JobId |-> "idle"]
    /\ accepted = <<>>
    /\ toKafka = {}
    /\ published = {}

PingGoto(i, place) == ping' = [ping EXCEPT ![i] = place]

-----------------------------------------------------------------------------
(***************************************************************************)
(* Ping.                                                                   *)
(***************************************************************************)
\* Mutant: the channel is not registered before the message is sent.
PingStart_Unregistered(i, n) ==
    /\ ping[i] = "idle"
    /\ PingGoto(i, "send")
    /\ pingNode' = [pingNode EXCEPT ![i] = n]
    /\ UNCHANGED <<transportVars, jobVars, kafkaVars, dispatchTable>>

\* Register the response channel, on the service found for node n.
PingStart(i, n) ==
    /\ ping[i] = "idle"
    /\ PingGoto(i, "send")
    /\ pingNode' = [pingNode EXCEPT ![i] = n]
    /\ dispatchTable' = dispatchTable \cup {<<n, i>>}
    /\ UNCHANGED <<transportVars, jobVars, kafkaVars>>

\* sendControlMessage.
PingSend(i) ==
    /\ ping[i] = "send"
    /\ Room(control)
    /\ control' = Append(control, i)
    /\ PingGoto(i, "wait")
    /\ UNCHANGED <<ctxDone, socket, recv, send, dispatchTable, pingNode, jobVars, kafkaVars>>

\* Mutant: waitForResponse waits for the answer alone.
PingGivesUp_OnlySending(i) ==
    /\ ping[i] = "send"
    /\ PingGoto(i, "failed")
    /\ UNCHANGED <<transportVars, dispatchTable, pingNode, jobVars, kafkaVars>>

\* The transport is cancelled, the time is up or the caller is gone.
PingGivesUp(i) ==
    /\ ping[i] \in {"send", "wait"}
    /\ PingGoto(i, "failed")
    /\ UNCHANGED <<transportVars, dispatchTable, pingNode, jobVars, kafkaVars>>

\* The deferred Unregister, after an answer or a failure.
PingReturn(i) ==
    /\ ping[i] \in {"answered", "failed"}
    /\ PingGoto(i, "done")
    /\ dispatchTable' = dispatchTable \ {<<pingNode[i], i>>}
    /\ UNCHANGED <<transportVars, pingNode, jobVars, kafkaVars>>

-----------------------------------------------------------------------------
(***************************************************************************)
(* SendMessage.                                                            *)
(***************************************************************************)
JobStart(j) ==
    /\ job[j] = "idle"
    /\ job' = [job EXCEPT ![j] = "send"]
    /\ UNCHANGED <<transportVars, pingVars, accepted, kafkaVars>>

\* Mutant: a send that does not block reports success on a full channel.
JobSend_Drops(j) ==
    /\ job[j] = "send"
    /\ send' = IF Room(send) THEN Append(send, j) ELSE send
    /\ job' = [job EXCEPT ![j] = "accepted"]
    /\ accepted' = Append(accepted, j)
    /\ UNCHANGED <<ctxDone, socket, recv, control, pingVars, kafkaVars>>

\* sendMessage: the message is on the channel.
JobSend(j) ==
    /\ job[j] = "send"
    /\ Room(send)
    /\ send' = Append(send, j)
    /\ job' = [job EXCEPT ![j] = "accepted"]
    /\ accepted' = Append(accepted, j)
    /\ UNCHANGED <<ctxDone, socket, recv, control, pingVars, kafkaVars>>

JobGivesUp(j) ==
    /\ job[j] = "send"
    /\ job' = [job EXCEPT ![j] = "failed"]
    /\ UNCHANGED <<transportVars, pingVars, accepted, kafkaVars>>

-----------------------------------------------------------------------------
(***************************************************************************)
(* DispatchResponse, on the service of node n.                             *)
(***************************************************************************)
\* RoutingInfo, which DispatchResponse dereferences first, is not nil.
HasRouting(m) == m.recipient # "none"

\* Mutant: in_response_to is not parsed.
Discarded_NotParsed(m) == m.recipient = "other"

\* The answer is for another node of the mesh, or answers no uuid.
Discarded(m) == m.recipient = "other" \/ m.inResponseTo = NoId

\* GetDispatchChannel finds the channel of a ping.
HasWaiter(n, m) == <<n, m.inResponseTo>> \in dispatchTable

\* Nobody waits: a goroutine writes the answer to Kafka.
DispatchToKafka(m) ==
    /\ toKafka' = toKafka \cup {m.inResponseTo}
    /\ UNCHANGED <<pingVars, jobVars, published>>

\* WriteMessages, with the background context; it may fail.
KafkaWrite(i) ==
    /\ i \in toKafka
    /\ toKafka' = toKafka \ {i}
    /\ published' \in {published, published \cup {i}}
    /\ UNCHANGED <<transportVars, pingVars, jobVars>>
=============================================================================
