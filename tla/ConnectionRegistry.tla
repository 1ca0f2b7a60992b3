------------------------- MODULE ConnectionRegistry -------------------------
(***************************************************************************)
(* The registry as a whole: the sessions and registrars of all the gateway *)
(* pods, the cleaner job and Redis, with the faults the code is written to *)
(* survive.                                                                *)
(***************************************************************************)
EXTENDS ConnectionCleaner

VARIABLES
    flushed,        \* Redis has lost its data (at most once)
    missed          \* pods that some lookup did not return (history)

faultVars == <<flushed, missed>>

vars == <<redisVars, connections, up, ctxDone, cancelFuncs, stopped,
          registrarVars, sessionVars, cleanerVars, faultVars>>

(***************************************************************************)
(* Every variable of Redis, the pods, the sessions, their registrars and   *)
(* the cleaner has its type; every entry of an index names a pod.          *)
(***************************************************************************)
TypeOK ==
    /\ RedisTypeOK
    /\ LocalTypeOK
    /\ RegistrarTypeOK
    /\ SessionTypeOK
    /\ CleanerTypeOK
    /\ flushed \in BOOLEAN
    /\ missed \subseteq Pod

Init ==
    /\ RedisInit
    /\ LocalInit
    /\ RegistrarInit
    /\ SessionInit
    /\ CleanerInit
    /\ flushed = FALSE
    /\ missed = {}

\* A step of the reactor of session c.
Session(c) ==
    /\ SessionStep(c)
    /\ UNCHANGED <<up, ctxDone, cleanerVars, faultVars>>

\* A step of the registrar goroutine of session c.
Registrar(c) ==
    /\ RegistrarStep(c)
    /\ missed' = IF reg[c] = "dns" /\ reg'[c] = "del"
                 THEN missed \cup {seen[c]} ELSE missed
    /\ UNCHANGED <<connections, up, cancelFuncs, stopped, sessionVars,
                   cleanerVars, flushed>>

Cleaner ==
    /\ CleanerStep
    /\ missed' = IF clean = "idle" /\ clean' = "list"
                 THEN missed \cup (Pod \ running') ELSE missed
    /\ UNCHANGED <<connections, up, ctxDone, cancelFuncs, stopped,
                   registrarVars, sessionVars, flushed>>

(***************************************************************************)
(* Transport.Cancel: the peer is gone and the websocket handler returned,  *)
(* or the connection was closed through the API or by closeConnections at  *)
(* a shutdown.                                                             *)
(***************************************************************************)
Close(c) ==
    /\ sess[c] \notin {"new", "closed"}
    /\ c \notin ctxDone
    /\ ctxDone' = ctxDone \cup {c}
    /\ UNCHANGED <<redisVars, connections, up, cancelFuncs, stopped,
                   registrarVars, sessionVars, cleanerVars, faultVars>>

\* The sessions whose HI pod p has begun to handle.
SessionsOf(p) == {c \in Conn : PodOf[c] = p /\ sess[c] # "new"}

(***************************************************************************)
(* The process of a pod ends, with its goroutines and tables: it is        *)
(* killed, it panics, or a shutdown has closed (by Close) the sessions it  *)
(* found in the table and main returns, whatever the reactors have done by *)
(* then.                                                                   *)
(***************************************************************************)
Crash(p) ==
    LET Ended(f, v) == [c \in Conn |-> IF c \in SessionsOf(p) THEN v ELSE f[c]] IN
    /\ "crash" \in Faults
    /\ p \in up
    /\ up' = up \ {p}
    /\ connections' = [connections EXCEPT ![p] = [k \in Key |-> NoConn]]
    /\ cancelFuncs' = [cancelFuncs EXCEPT ![p] = [k \in Key |-> NoConn]]
    /\ ctxDone' = ctxDone \cup SessionsOf(p)
    /\ stopped' = stopped \cup SessionsOf(p)
    /\ sess' = Ended(sess, "closed")
    /\ sessIdx' = Ended(sessIdx, 1)
    /\ reg' = Ended(reg, "exit")
    /\ regIdx' = Ended(regIdx, 1)
    /\ seen' = Ended(seen, NoPod)
    /\ UNCHANGED <<redisVars, cleanerVars, faultVars>>

(***************************************************************************)
(* The container of a pod is restarted in place (the livenessProbe of      *)
(* deploy/clowdapp.yml): the pod keeps its address, which is its host      *)
(* name, starts with empty tables and takes new sessions.  Without the     *)
(* "restart" fault a crashed pod is replaced by one of another address.    *)
(***************************************************************************)
Restart(p) ==
    /\ "restart" \in Faults
    /\ p \notin up
    /\ up' = up \cup {p}
    /\ UNCHANGED <<redisVars, connections, ctxDone, cancelFuncs, stopped,
                   registrarVars, sessionVars, cleanerVars, faultVars>>

Flush ==
    /\ "flush" \in Faults
    /\ ~flushed
    /\ flushed' = TRUE
    /\ RedisFlush
    /\ UNCHANGED <<connections, up, ctxDone, cancelFuncs, stopped,
                   registrarVars, sessionVars, cleanerVars, missed>>

Next ==
    \/ \E c \in Conn : Session(c) \/ Registrar(c) \/ Close(c)
    \/ \E p \in Pod : Crash(p) \/ Restart(p)
    \/ Cleaner
    \/ Flush

Spec == Init /\ [][Next]_vars

(***************************************************************************)
(* Goroutines are scheduled and their Redis calls return (go-redis times   *)
(* out); the ticker keeps firing; the select of a registrar that returns   *)
(* to it again and again does not ignore Done for ever; the cron job is    *)
(* enabled, so there is always a next run of the cleaner.  Nobody has to   *)
(* open or close a connection, crash or come back.                         *)
(***************************************************************************)
Fairness ==
    /\ \A c \in Conn : /\ WF_vars(sess[c] # "new" /\ Session(c))
                      /\ WF_vars(Registrar(c))
    /\ \A c \in Conn : SF_vars(RegistrarDone(c) /\ Registrar(c))
    /\ WF_vars(Cleaner)

FairSpec == Spec /\ Fairness

-----------------------------------------------------------------------------
(***************************************************************************)
(* Safety.                                                                 *)
(***************************************************************************)
\* Session c has won its SETNX and has not issued the DEL that gives it up.
Holding(c) == sess[c] \in {"sadd", "local", "spawn", "store", "active", "del"}

\* The key of a session that holds it names the session's own pod.
HolderIsInRedis == \A c \in Conn : Holding(c) => redis[KeyOf[c]] = PodOf[c]

(***************************************************************************)
(* While no pod crashes, the lookup of running pods is right and Redis     *)
(* keeps its data, at most one session of the whole deployment holds the   *)
(* registration of a node at a time, and Redis routes to the pod where it  *)
(* lives: neither a lost Redis command, nor the unconditional DEL of       *)
(* Unregister, nor a registrar or a cleaner run that acts on an earlier    *)
(* reading, ever takes the key from the session that holds it.             *)
(***************************************************************************)
UniqueRegistration ==
    /\ HolderIsInRedis
    /\ \A c, d \in Conn : Holding(c) /\ Holding(d) /\ KeyOf[c] = KeyOf[d] => c = d

\* The place of a session, as the abstract registry sees it.
PhaseOf(c) == IF sess[c] \in {"new", "setnx"} THEN "waiting"
              ELSE IF Holding(c) THEN "owner" ELSE "gone"

Abstract == INSTANCE AbstractRegistry
    WITH phase <- [c \in Conn |-> PhaseOf(c)], route <- redis

(***************************************************************************)
(* Under the same conditions the registry implements the abstract one:     *)
(* each command of Register, Unregister, a registrar or the cleaner is a   *)
(* step of AbstractRegistry or none, so that a node is acquired by one     *)
(* SETNX of a session, given up by one DEL of the same session, and in     *)
(* between looked up at its pod without a gap.                             *)
(***************************************************************************)
ImplementsAbstractRegistry == Abstract!Spec

(***************************************************************************)
(* Whatever fails, a pod's connection table, which the API and the         *)
(* shutdown close connections through, only ever returns a session of that *)
(* pod and node that is still to remove the entry itself: never one that   *)
(* was rejected, rolled back or completely unregistered.                   *)
(***************************************************************************)
TableHoldsLiveSessions ==
    \A p \in Pod, k \in Key : LET c == GetConnection(p, k) IN
        c # NoConn => /\ PodOf[c] = p
                      /\ KeyOf[c] = k
                      /\ sess[c] \in {"spawn", "store", "active", "srem", "unlocal"}

(***************************************************************************)
(* Whatever fails, a registrar that outlives its session's Register or     *)
(* Unregister has been told to stop: no goroutine goes on repairing the    *)
(* registration of a connection that is gone.                              *)
(***************************************************************************)
OrphanRegistrarIsCancelled ==
    \A c \in Conn : /\ reg[c] \notin {"off", "exit"}
                    /\ sess[c] \notin {"store", "active"}
                    => c \in ctxDone

\* An SREM of index i for the entry of key k at pod p is still to come.
SRemPending(i, k, p) ==
    \E c \in Conn : /\ KeyOf[c] = k
                    /\ PodOf[c] = p
                    /\ sess[c] = "srem"
                    /\ sessIdx[c] <= i

(***************************************************************************)
(* Without faults, an entry of an index names the pod the key maps to, or  *)
(* the session that gave the key up is about to remove the entry: what     *)
(* GetAllConnections and GetConnectionsByAccount list is never left over.  *)
(***************************************************************************)
IndexEntriesAreBacked ==
    \A i \in Index : \A e \in index[i] :
        redis[e[1]] = e[2] \/ SRemPending(i, e[1], e[2])

(***************************************************************************)
(* Whatever fails, the index entry of a pod that no lookup has missed is   *)
(* removed by the SREM of a session of that pod and node only, or with all *)
(* the data: a registrar or a cleaner run that goes by an old reading may  *)
(* delete the key of a live session there, never its entries.  The         *)
(* condition is the weakest one can ask for: once a lookup has missed a    *)
(* pod, because it was down, or was being restarted, or the answer was     *)
(* wrong, the SREMs that follow may come at any time, also when the pod    *)
(* runs and has registered the node again.                                 *)
(***************************************************************************)
OnlyMissedPodsLoseEntries ==
    [][\A i \in Index : \A e \in index[i] \ index'[i] :
           \/ e[2] \in missed
           \/ flushed' # flushed
           \/ SRemPending(i, e[1], e[2])]_vars

-----------------------------------------------------------------------------
(***************************************************************************)
(* Strengthenings that make the invariants above inductive.                *)
(***************************************************************************)
\* Who is about to unregister a host knows which one.
SeenIsKnown == \A c \in Conn : reg[c] \in {"dns", "del", "srem"} => seen[c] \in Pod

TargetIsKnown == clean = "srem" => target \in Key \X Pod

TypeInv == TypeOK /\ SeenIsKnown /\ TargetIsKnown

\* Without crashes and wrong lookups nobody unregisters another pod's session.
NoTakeover ==
    /\ up = Pod
    /\ clean # "idle" => running = Pod
    /\ clean # "srem"
    /\ \A c \in Conn : reg[c] \notin {"del", "srem"}

\* Only the entries of pods a lookup has missed are taken for leftovers.
OnlyMissedPodsAreUnregistered ==
    /\ clean # "idle" => Pod \ running \subseteq missed
    /\ clean = "srem" => target[2] \in missed
    /\ \A c \in Conn : reg[c] \in {"del", "srem"} => seen[c] \in missed

\* The registrar of a session that has not reached StartActiveRegistrar.
RegistrarStartsLate ==
    \A c \in Conn : sess[c] \in {"new", "setnx", "sadd", "local", "spawn", "del"}
                    => reg[c] = "off"

\* Unregister is entered with a cancelled transport, or as a rollback.
UnregisterFollowsCancel ==
    \A c \in Conn : sess[c] \in {"srem", "unlocal", "stop", "drop", "closed"}
                    => c \in ctxDone \/ reg[c] \in {"off", "exit"}

\* The index commands of a session start with the first index.
IndexFromFirst == \A c \in Conn : sess[c] \notin {"sadd", "srem"} => sessIdx[c] = 1

\* A registrar that is about to fill the indexes has the key, and no session.
RepairIsAlone ==
    \A c \in Conn : reg[c] = "sadd" =>
        /\ redis[KeyOf[c]] = PodOf[c]
        /\ \A d \in Conn : Holding(d) => KeyOf[d] # KeyOf[c]

-----------------------------------------------------------------------------
(***************************************************************************)
(* Liveness.                                                               *)
(***************************************************************************)
Open(c) == sess[c] = "active" /\ c \notin ctxDone

(***************************************************************************)
(* The purpose of the registrar: when Redis loses its data, or a cleaner   *)
(* run deletes the key of a live session, every open connection whose      *)
(* registrar still runs is in the end routed to its own pod again, or      *)
(* closed as a duplicate.                                                  *)
(***************************************************************************)
RegistrationIsRepaired ==
    \A c \in Conn :
        Open(c) /\ c \notin stopped
            ~> redis[KeyOf[c]] = PodOf[c] \/ ~Open(c) \/ c \in stopped

(***************************************************************************)
(* Every registrar goroutine ends once its session's transport is          *)
(* cancelled: none is leaked, whatever it finds in Redis on its way out.   *)
(***************************************************************************)
RegistrarEnds ==
    \A c \in Conn : c \in ctxDone /\ reg[c] # "off" ~> reg[c] = "exit"

\* The key names a pod that is down, and the first index no running one.
Stale(k, p) == /\ p \notin up
               /\ redis[k] = p
               /\ <<k, p>> \in index[1]
               /\ \A q \in up : <<k, q>> \notin index[1]

(***************************************************************************)
(* The purpose of the cleaner: a key that a pod left in Redis when it      *)
(* crashed, or when a shutdown ended before its sessions had unregistered, *)
(* does not stay there while the first index lists it under that pod and   *)
(* no running one: a cleaner run, or the registrar of a live session,      *)
(* removes it, and the node can connect again.                             *)
(***************************************************************************)
StaleRegistrationIsRemoved ==
    \A k \in Key, p \in Pod : Stale(k, p) ~> ~Stale(k, p)

-----------------------------------------------------------------------------
(***************************************************************************)
(* What the documentation, comments and messages of the repository say,    *)
(* where the code does otherwise.                                          *)
(***************************************************************************)
\* No Register, Unregister or repair is in progress.
Quiescent ==
    \A c \in Conn : /\ sess[c] \in {"new", "active", "closed"}
                    /\ sess[c] = "active" => c \notin ctxDone
                    /\ reg[c] \in {"off", "select", "exit"}

(***************************************************************************)
(* README.md: "The list of open connections can be retrieved by sending a  *)
(* GET to the /connection endpoint", which answers from the first index.   *)
(***************************************************************************)
OpenConnectionsAreListed ==
    Quiescent => \A c \in Conn : Open(c) => <<KeyOf[c], PodOf[c]>> \in index[1]

(***************************************************************************)
(* README.md: "Redis is responsible for maintaining a mapping of where the *)
(* websocket connections live": a key that is present is the key of an     *)
(* open connection on that pod.                                            *)
(***************************************************************************)
RegisteredNodesAreConnected ==
    Quiescent => \A k \in Key : redis[k] # NoPod =>
        \E c \in Conn : Open(c) /\ KeyOf[c] = k /\ PodOf[c] = redis[k]

(***************************************************************************)
(* cmd/connection_cleaner/main.go: "Pod (%s) down!  This entry should be   *)
(* removed": the key of a pod that is down does not stay in Redis.         *)
(***************************************************************************)
KeysOfDownPodsAreRemoved ==
    \A k \in Key, p \in Pod : p \notin up /\ redis[k] = p ~> redis[k] # p
=============================================================================
