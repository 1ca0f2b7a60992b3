--------------------- MODULE GatewayConnectionRegistrar ---------------------
(***************************************************************************)
(* Register and Unregister of a gateway pod                                *)
(* (internal/controller/gateway_connection_manager.go), as run by the      *)
(* reactor goroutine of each websocket session: Register by the handshake  *)
(* handler, Unregister by the disconnect handler.                          *)
(*                                                                         *)
(* sess[c] is the place of session c:                                      *)
(*   new     the HI has not been handled                                   *)
(*   setnx, sadd     Register: RegisterWithRedis, command by command       *)
(*   local           Register: the local table                             *)
(*   spawn, store    Register: StartActiveRegistrar                        *)
(*   active  registered; the reactor waits for messages                    *)
(*   del, srem       Unregister: UnregisterWithRedis, command by command   *)
(*   unlocal         Unregister: the local table                           *)
(*   stop, drop      Unregister: StopActiveRegistrar                       *)
(*   closed  rejected, unregistered, or killed with its pod                *)
(***************************************************************************)
EXTENDS ActiveConnectionRegistrar

VARIABLES
    sess,       \* session -> its place
    sessIdx     \* session -> its next index command

sessionVars == <<sess, sessIdx>>

SessPlace == {"new", "setnx", "sadd", "local", "spawn", "store", "active",
              "del", "srem", "unlocal", "stop", "drop", "closed"}

SessionTypeOK ==
    /\ sess \in [Conn -> SessPlace]
    /\ sessIdx \in [Conn -> Index]

SessionInit ==
    /\ sess = [c \in Conn |-> "new"]
    /\ sessIdx = [c \in Conn |-> 1]

SessGoto(c, place) ==
    /\ sess' = [sess EXCEPT ![c] = place]
    /\ UNCHANGED sessIdx

SessNextIndex(c, here, after) ==
    IF sessIdx[c] = NumIndexes
    THEN /\ sess' = [sess EXCEPT ![c] = after]
         /\ sessIdx' = [sessIdx EXCEPT ![c] = 1]
    ELSE /\ sess' = [sess EXCEPT ![c] = here]
         /\ sessIdx' = [sessIdx EXCEPT ![c] = @ + 1]

LeaveRegistrar == UNCHANGED <<registrarVars, cancelFuncs, stopped>>

-----------------------------------------------------------------------------
(***************************************************************************)
(* Register.                                                               *)
(***************************************************************************)
\* "checking connection globally"; an EXISTS that fails reads as absent.
RegisterExists(c) ==
    /\ sess[c] = "new"
    /\ PodOf[c] \in up
    /\ \/ ExistsInRedis(KeyOf[c]) /\ SessGoto(c, "closed")
       \/ /\ ~ExistsInRedis(KeyOf[c]) \/ RedisUnreliable
          /\ SessGoto(c, "setnx")
    /\ UNCHANGED <<redisVars, connections>>
    /\ LeaveRegistrar

\* Mutant: the result of SETNX is not looked at.
RegisterSetNX_IgnoresTaken(c) ==
    /\ sess[c] = "setnx"
    /\ \/ SetNXOk(KeyOf[c], PodOf[c])
       \/ SetNXTaken(KeyOf[c])
    /\ SessGoto(c, "sadd")
    /\ UNCHANGED <<index, connections>>
    /\ LeaveRegistrar

\* Mutant: a Register that is refused undoes what it did not do.
RegisterSetNX_RollsBack(c) ==
    /\ sess[c] = "setnx"
    /\ \/ SetNXOk(KeyOf[c], PodOf[c]) /\ SessGoto(c, "sadd")
       \/ SetNXTaken(KeyOf[c]) /\ SessGoto(c, "del")
       \/ SetNXError(KeyOf[c], PodOf[c]) /\ SessGoto(c, "closed")
    /\ UNCHANGED <<index, connections>>
    /\ LeaveRegistrar

\* RegisterWithRedis: the SETNX and the two errors it may return.
RegisterSetNX(c) ==
    /\ sess[c] = "setnx"
    /\ \/ SetNXOk(KeyOf[c], PodOf[c]) /\ SessGoto(c, "sadd")
       \/ SetNXTaken(KeyOf[c]) /\ SessGoto(c, "closed")
       \/ SetNXError(KeyOf[c], PodOf[c]) /\ SessGoto(c, "closed")
    /\ UNCHANGED <<index, connections>>
    /\ LeaveRegistrar

RegisterSAdd(c) ==
    /\ sess[c] = "sadd"
    /\ SAdd(sessIdx[c], KeyOf[c], PodOf[c])
    /\ SessNextIndex(c, "sadd", "local")
    /\ UNCHANGED <<redis, connections>>
    /\ LeaveRegistrar

\* The local Register; on a duplicate, Unregister rolls everything back.
RegisterLocal(c) ==
    /\ sess[c] = "local"
    /\ \/ LocalRegister(c) /\ SessGoto(c, "spawn")
       \/ LocalRegisterDuplicate(c) /\ SessGoto(c, "del")
    /\ UNCHANGED redisVars
    /\ LeaveRegistrar

RegisterSpawn(c) ==
    /\ sess[c] = "spawn"
    /\ SpawnRegistrar(c)
    /\ SessGoto(c, "store")
    /\ UNCHANGED <<redisVars, connections>>

RegisterStore(c) ==
    /\ sess[c] = "store"
    /\ StoreCancelFunc(c)
    /\ SessGoto(c, "active")
    /\ UNCHANGED <<redisVars, connections>>

-----------------------------------------------------------------------------
(***************************************************************************)
(* Unregister: by the disconnect handler once the transport is cancelled,  *)
(* or as Register's rollback.                                              *)
(***************************************************************************)
\* Mutant: Run calls the disconnect handler before the transport is done.
UnregisterDel_Early(c) ==
    /\ sess[c] \in {"del", "active"}
    /\ Del(KeyOf[c])
    /\ SessGoto(c, "srem")
    /\ UNCHANGED <<index, connections>>
    /\ LeaveRegistrar

\* UnregisterWithRedis: the DEL.
UnregisterDel(c) ==
    /\ \/ sess[c] = "del"
       \/ sess[c] = "active" /\ c \in ctxDone
    /\ Del(KeyOf[c])
    /\ SessGoto(c, "srem")
    /\ UNCHANGED <<index, connections>>
    /\ LeaveRegistrar

\* Mutant: the indexes are left alone.
UnregisterSRem_Keeps(c) ==
    /\ sess[c] = "srem"
    /\ SessNextIndex(c, "srem", "unlocal")
    /\ UNCHANGED <<redisVars, connections>>
    /\ LeaveRegistrar

\* UnregisterWithRedis: the SREMs.
UnregisterSRem(c) ==
    /\ sess[c] = "srem"
    /\ SRem(sessIdx[c], KeyOf[c], PodOf[c])
    /\ SessNextIndex(c, "srem", "unlocal")
    /\ UNCHANGED <<redis, connections>>
    /\ LeaveRegistrar

UnregisterLocal(c) ==
    /\ sess[c] = "unlocal"
    /\ LocalUnregister(c)
    /\ SessGoto(c, "stop")
    /\ UNCHANGED redisVars
    /\ LeaveRegistrar

UnregisterStop(c) ==
    /\ sess[c] = "stop"
    /\ \/ CallCancelFunc(c) /\ SessGoto(c, "drop")
       \/ CancelFunc(c) = NoConn /\ SessGoto(c, "closed") /\ LeaveRegistrar
    /\ UNCHANGED <<redisVars, connections>>

UnregisterDrop(c) ==
    /\ sess[c] = "drop"
    /\ DropCancelFunc(c)
    /\ SessGoto(c, "closed")
    /\ UNCHANGED <<redisVars, connections>>

SessionStep(c) ==
    \/ RegisterExists(c)
    \/ RegisterSetNX(c)
    \/ RegisterSAdd(c)
    \/ RegisterLocal(c)
    \/ RegisterSpawn(c)
    \/ RegisterStore(c)
    \/ UnregisterDel(c)
    \/ UnregisterSRem(c)
    \/ UnregisterLocal(c)
    \/ UnregisterStop(c)
    \/ UnregisterDrop(c)
=============================================================================
