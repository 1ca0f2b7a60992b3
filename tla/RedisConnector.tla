--------------------------- MODULE RedisConnector ---------------------------
(***************************************************************************)
(* The registry kept in Redis (internal/controller/redis_connector.go).    *)
(*                                                                         *)
(* A connection is identified by its key (account:node_id).  The string    *)
(* stored under the key is the host name of the gateway pod that owns the  *)
(* connection.  Three sets (all connections, per account, per pod) index   *)
(* the registered connections; each is a set of (key, host) pairs here.    *)
(*                                                                         *)
(* RegisterWithRedis and UnregisterWithRedis hand TxPipelined a function   *)
(* that talks to `client' and not to `pipe', so their commands reach Redis *)
(* one at a time: each operator below is one command, and the callers take *)
(* one step for each.                                                      *)
(***************************************************************************)
EXTENDS Naturals

CONSTANTS
    Key,        \* account:node_id strings
    Pod,        \* host names of the gateway pods
    NoPod,      \* the key is absent
    NumIndexes, \* number of index sets a registration is entered in
    Faults      \* what may go wrong: "redis", "dns", "crash", "restart", "flush"

ASSUME RedisAssumption ==
    /\ NoPod \notin Pod
    /\ NumIndexes \in Nat \ {0}

VARIABLES
    redis,      \* key -> host name
    index       \* index number -> set of (key, host) entries

redisVars == <<redis, index>>

Index == 1 .. NumIndexes

RedisTypeOK ==
    /\ redis \in [Key -> Pod \cup {NoPod}]
    /\ index \in [Index -> SUBSET (Key \X Pod)]

RedisInit ==
    /\ redis = [k \in Key |-> NoPod]
    /\ index = [i \in Index |-> {}]

(***************************************************************************)
(* With the "redis" fault a command may be lost on its way, or its reply   *)
(* may be lost after it took effect; go-redis does not retry.              *)
(***************************************************************************)
RedisUnreliable == "redis" \in Faults

\* ExistsInRedis: the error of EXISTS is dropped and Val() is then 0.
ExistsInRedis(k) == redis[k] # NoPod

\* SETNX, the first command of RegisterWithRedis.
SetNXOk(k, p) ==
    /\ redis[k] = NoPod
    /\ redis' = [redis EXCEPT ![k] = p]

SetNXTaken(k) ==
    /\ redis[k] # NoPod
    /\ redis' = redis

SetNXError(k, p) ==
    /\ RedisUnreliable
    /\ \/ redis' = redis
       \/ SetNXOk(k, p)

\* One SADD of addIndexes; its result is not looked at.
SAdd(i, k, p) ==
    \/ index' = [index EXCEPT ![i] = @ \cup {<<k, p>>}]
    \/ RedisUnreliable /\ index' = index

\* DEL, the first command of UnregisterWithRedis: whoever owns the key.
Del(k) ==
    \/ redis' = [redis EXCEPT ![k] = NoPod]
    \/ RedisUnreliable /\ redis' = redis

\* One SREM of removeIndexes; its result is not looked at.
SRem(i, k, p) ==
    \/ index' = [index EXCEPT ![i] = @ \ {<<k, p>>}]
    \/ RedisUnreliable /\ index' = index

\* GetAllRedisConnections: one host for each key of the first index.
GetAllRedisConnections ==
    {m \in [Key -> Pod \cup {NoPod}] :
        \A k \in Key : LET hosts == {p \in Pod : <<k, p>> \in index[1]}
                       IN  IF hosts = {} THEN m[k] = NoPod ELSE m[k] \in hosts}

(***************************************************************************)
(* Redis loses its data (a restart or a fail-over).  The registrar's first *)
(* branch, "Connection is not registered", exists to recover from this.    *)
(***************************************************************************)
RedisFlush ==
    /\ redis' = [k \in Key |-> NoPod]
    /\ index' = [i \in Index |-> {}]
=============================================================================
