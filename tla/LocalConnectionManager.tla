----------------------- MODULE LocalConnectionManager -----------------------
(***************************************************************************)
(* The in-memory connection table of every gateway pod                     *)
(* (internal/controller/connection_manager.go).  Each method runs under    *)
(* the table's mutex, so each is one step.                                 *)
(***************************************************************************)
EXTENDS RedisConnector

CONSTANTS
    Conn,       \* websocket sessions, each used once
    NoConn,     \* no entry
    PodOf,      \* the pod that accepted the session
    KeyOf       \* account:node_id announced in the session's HI

ASSUME ConnAssumption ==
    /\ NoConn \notin Conn
    /\ PodOf \in [Conn -> Pod]
    /\ KeyOf \in [Conn -> Key]

VARIABLE connections    \* pod -> key -> the session registered there

LocalTypeOK == connections \in [Pod -> [Key -> Conn \cup {NoConn}]]

LocalInit == connections = [p \in Pod |-> [k \in Key |-> NoConn]]

GetConnection(p, k) == connections[p][k]

\* Register, when the key is not in the table yet.
LocalRegister(c) ==
    /\ GetConnection(PodOf[c], KeyOf[c]) = NoConn
    /\ connections' = [connections EXCEPT ![PodOf[c]][KeyOf[c]] = c]

\* Register, when it is: DuplicateConnectionError.
LocalRegisterDuplicate(c) ==
    /\ GetConnection(PodOf[c], KeyOf[c]) # NoConn
    /\ connections' = connections

\* Mutant: an Unregister that leaves the entry.
LocalUnregister_Keeps(c) == connections' = connections

\* Unregister deletes by key, whichever session the entry belongs to.
LocalUnregister(c) ==
    connections' = [connections EXCEPT ![PodOf[c]][KeyOf[c]] = NoConn]
=============================================================================
