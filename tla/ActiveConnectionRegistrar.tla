---------------------- MODULE ActiveConnectionRegistrar ----------------------
(***************************************************************************)
(* The goroutine that each registered session keeps running to repair its  *)
(* entry in Redis, and the per-pod table of functions that cancel it       *)
(* (internal/controller/active_connection_registrar.go).                   *)
(*                                                                         *)
(* reg[c] is the place of c's goroutine:                                   *)
(*   off     not started                                                   *)
(*   select  waiting for ctx.Done() or for the ticker                      *)
(*   dns     another host owns the key: is that pod running?               *)
(*   del     UnregisterWithRedis: the DEL                                  *)
(*   srem    UnregisterWithRedis: the SREMs                                *)
(*   setnx   RegisterWithRedis: the SETNX                                  *)
(*   sadd    RegisterWithRedis: the SADDs                                  *)
(*   exit    returned                                                      *)
(***************************************************************************)
EXTENDS LocalConnectionManager

VARIABLES
    up,             \* pods that are running
    ctxDone,        \* sessions whose transport context is cancelled
    cancelFuncs,    \* pod -> key -> the session whose registrar is cancelled
    stopped,        \* sessions whose registrar's own context is cancelled
    reg,            \* session -> place of its registrar
    regIdx,         \* session -> next index command of its registrar
    seen            \* session -> other host its registrar read from Redis

registrarVars == <<reg, regIdx, seen>>

RegPlace == {"off", "select", "dns", "del", "srem", "setnx", "sadd", "exit"}

RegistrarTypeOK ==
    /\ up \subseteq Pod
    /\ ctxDone \subseteq Conn
    /\ cancelFuncs \in [Pod -> [Key -> Conn \cup {NoConn}]]
    /\ stopped \subseteq Conn
    /\ reg \in [Conn -> RegPlace]
    /\ regIdx \in [Conn -> Index]
    /\ seen \in [Conn -> Pod \cup {NoPod}]

RegistrarInit ==
    /\ up = Pod
    /\ ctxDone = {}
    /\ cancelFuncs = [p \in Pod |-> [k \in Key |-> NoConn]]
    /\ stopped = {}
    /\ reg = [c \in Conn |-> "off"]
    /\ regIdx = [c \in Conn |-> 1]
    /\ seen = [c \in Conn |-> NoPod]

RegGoto(c, place) ==
    /\ reg' = [reg EXCEPT ![c] = place]
    /\ UNCHANGED <<regIdx, seen>>

\* After one index command: the next one, or the place after the last one.
RegNextIndex(c, here, after) ==
    IF regIdx[c] = NumIndexes
    THEN /\ reg' = [reg EXCEPT ![c] = after]
         /\ regIdx' = [regIdx EXCEPT ![c] = 1]
    ELSE /\ reg' = [reg EXCEPT ![c] = here]
         /\ regIdx' = [regIdx EXCEPT ![c] = @ + 1]

(***************************************************************************)
(* What a lookup of the headless service may return (external).  A failed  *)
(* lookup is the empty answer to isPodRunning, which drops the error.      *)
(***************************************************************************)
DnsAnswer == IF "dns" \in Faults THEN SUBSET Pod ELSE {up}

isPodRunning(p, answer) == p \in answer

-----------------------------------------------------------------------------
(***************************************************************************)
(* The factory: both operations are called by the gateway's registrar.     *)
(***************************************************************************)
\* `go startActiveRegistrar(...)'.
SpawnRegistrar(c) ==
    /\ RegGoto(c, "select")
    /\ UNCHANGED <<cancelFuncs, stopped>>

\* The insertion into cancelFuncs that follows it, under the lock.
StoreCancelFunc(c) ==
    /\ cancelFuncs' = [cancelFuncs EXCEPT ![PodOf[c]][KeyOf[c]] = c]
    /\ UNCHANGED <<registrarVars, stopped>>

CancelFunc(c) == cancelFuncs[PodOf[c]][KeyOf[c]]

\* StopActiveRegistrar: look the function up by key and call it.
CallCancelFunc(c) ==
    /\ CancelFunc(c) # NoConn
    /\ stopped' = stopped \cup {CancelFunc(c)}
    /\ UNCHANGED <<registrarVars, cancelFuncs>>

\* StopActiveRegistrar: the deletion, under the lock again.
DropCancelFunc(c) ==
    /\ cancelFuncs' = [cancelFuncs EXCEPT ![PodOf[c]][KeyOf[c]] = NoConn]
    /\ UNCHANGED <<registrarVars, stopped>>

-----------------------------------------------------------------------------
(***************************************************************************)
(* The goroutine.  Its context is derived from the transport's.  When both *)
(* the ticker and Done are ready the select picks either, so a tick needs  *)
(* no guard; the GET is the first thing a tick does that others can see.   *)
(***************************************************************************)
\* Mutant: the select has lost its Done case.
RegistrarDone_Never(c) == FALSE

RegistrarDone(c) ==
    /\ reg[c] = "select"
    /\ c \in ctxDone \cup stopped
    /\ RegGoto(c, "exit")
    /\ UNCHANGED <<redisVars, ctxDone>>

\* Mutant: an absent entry is taken for a correct one.
RegistrarTick_AbsentIsFine(c) ==
    LET host == redis[KeyOf[c]] IN
    /\ reg[c] = "select"
    /\ \/ host \in {NoPod, PodOf[c]} /\ RegGoto(c, "select")
       \/ /\ host \notin {NoPod, PodOf[c]}
          /\ reg' = [reg EXCEPT ![c] = "dns"]
          /\ seen' = [seen EXCEPT ![c] = host]
          /\ UNCHANGED regIdx
    /\ UNCHANGED <<redisVars, ctxDone>>

\* GetRedisConnection, and the three-way comparison of the host name read.
RegistrarTick(c) ==
    LET host == redis[KeyOf[c]] IN
    /\ reg[c] = "select"
    /\ \/ RedisUnreliable /\ RegGoto(c, "select")
       \/ host = NoPod /\ RegGoto(c, "setnx")
       \/ host = PodOf[c] /\ RegGoto(c, "select")
       \/ /\ host \notin {NoPod, PodOf[c]}
          /\ reg' = [reg EXCEPT ![c] = "dns"]
          /\ seen' = [seen EXCEPT ![c] = host]
          /\ UNCHANGED regIdx
    /\ UNCHANGED <<redisVars, ctxDone>>

\* isPodRunning, and closeConnectionDueToDuplication when it is.
RegistrarDns(c) ==
    /\ reg[c] = "dns"
    /\ \E answer \in DnsAnswer :
          IF isPodRunning(seen[c], answer)
          THEN /\ ctxDone' = ctxDone \cup {c}
               /\ reg' = [reg EXCEPT ![c] = "exit"]
               /\ seen' = [seen EXCEPT ![c] = NoPod]
               /\ UNCHANGED regIdx
          ELSE /\ RegGoto(c, "del")
               /\ UNCHANGED ctxDone
    /\ UNCHANGED redisVars

RegistrarDel(c) ==
    /\ reg[c] = "del"
    /\ Del(KeyOf[c])
    /\ RegGoto(c, "srem")
    /\ UNCHANGED <<index, ctxDone>>

\* Mutant: its own entries are removed instead of those of the dead host.
RegistrarSRem_Own(c) ==
    /\ reg[c] = "srem"
    /\ SRem(regIdx[c], KeyOf[c], PodOf[c])
    /\ RegNextIndex(c, "srem", "setnx")
    /\ seen' = IF regIdx[c] = NumIndexes THEN [seen EXCEPT ![c] = NoPod] ELSE seen
    /\ UNCHANGED <<redis, ctxDone>>

RegistrarSRem(c) ==
    /\ reg[c] = "srem"
    /\ SRem(regIdx[c], KeyOf[c], seen[c])
    /\ RegNextIndex(c, "srem", "setnx")
    /\ seen' = IF regIdx[c] = NumIndexes THEN [seen EXCEPT ![c] = NoPod] ELSE seen
    /\ UNCHANGED <<redis, ctxDone>>

(***************************************************************************)
(* registerAndCloseConnectionOnDuplicate.  RegisterWithRedis returns a     *)
(* DuplicateConnectionError value and the type assertion asks for a        *)
(* pointer, so the branch that closes the connection is never taken: after *)
(* a lost SETNX, as after an error, the loop goes on.                      *)
(***************************************************************************)
RegistrarSetNX(c) ==
    /\ reg[c] = "setnx"
    /\ \/ SetNXOk(KeyOf[c], PodOf[c]) /\ RegGoto(c, "sadd")
       \/ SetNXTaken(KeyOf[c]) /\ RegGoto(c, "select")
       \/ SetNXError(KeyOf[c], PodOf[c]) /\ RegGoto(c, "select")
    /\ UNCHANGED <<index, ctxDone>>

\* Mutant: the entries are made for the host name read, not for its own.
RegistrarSAdd_HostRead(c) ==
    /\ reg[c] = "sadd"
    /\ SAdd(regIdx[c], KeyOf[c], seen[c])
    /\ RegNextIndex(c, "sadd", "select")
    /\ UNCHANGED <<redis, ctxDone, seen>>

RegistrarSAdd(c) ==
    /\ reg[c] = "sadd"
    /\ SAdd(regIdx[c], KeyOf[c], PodOf[c])
    /\ RegNextIndex(c, "sadd", "select")
    /\ UNCHANGED <<redis, ctxDone, seen>>

RegistrarStep(c) ==
    \/ RegistrarDone(c)
    \/ RegistrarTick(c)
    \/ RegistrarDns(c)
    \/ RegistrarDel(c)
    \/ RegistrarSRem(c)
    \/ RegistrarSetNX(c)
    \/ RegistrarSAdd(c)
=============================================================================
