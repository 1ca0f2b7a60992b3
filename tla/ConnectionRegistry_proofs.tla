---------------------- MODULE ConnectionRegistry_proofs ----------------------
(***************************************************************************)
(* Proofs of the safety properties of ConnectionRegistry, for any sets of  *)
(* pods, nodes and sessions and any number of indexes.                     *)
(***************************************************************************)
EXTENDS ConnectionRegistry, TLAPS

USE DEF Index, RedisAssumption, ConnAssumption

(***************************************************************************)
(* Types.                                                                  *)
(***************************************************************************)
(* The commands of RedisConnector keep the types of the key space and of   *)
(* the indexes.                                                            *)
LEMMA RedisCommandTypes ==
    ASSUME RedisTypeOK, NEW k \in Key, NEW p \in Pod, NEW i \in Index
    PROVE  /\ SetNXOk(k, p) => redis' \in [Key -> Pod \cup {NoPod}]
           /\ SetNXTaken(k) => redis' \in [Key -> Pod \cup {NoPod}]
           /\ SetNXError(k, p) => redis' \in [Key -> Pod \cup {NoPod}]
           /\ Del(k) => redis' \in [Key -> Pod \cup {NoPod}]
           /\ SAdd(i, k, p) => index' \in [Index -> SUBSET (Key \X Pod)]
           /\ SRem(i, k, p) => index' \in [Index -> SUBSET (Key \X Pod)]
  <1>1. <<k, p>> \in Key \X Pod
    OBVIOUS
  <1>2. SAdd(i, k, p) => index' \in [Index -> SUBSET (Key \X Pod)]
    BY <1>1 DEF SAdd, RedisTypeOK
  <1>3. SRem(i, k, p) => index' \in [Index -> SUBSET (Key \X Pod)]
    BY DEF SRem, RedisTypeOK
  <1> QED
    BY <1>2, <1>3 DEF SetNXOk, SetNXTaken, SetNXError, Del, RedisTypeOK

(* The step from one index command to the next stays among the indexes.    *)
LEMMA RegNextIndexTypes ==
    ASSUME RegistrarTypeOK, NEW c \in Conn,
           NEW here \in RegPlace, NEW after \in RegPlace,
           RegNextIndex(c, here, after)
    PROVE  reg' \in [Conn -> RegPlace] /\ regIdx' \in [Conn -> Index]
  <1>1. reg \in [Conn -> RegPlace] /\ regIdx \in [Conn -> Index]
    BY DEF RegistrarTypeOK
  <1> QED
    BY <1>1, RedisAssumption DEF RegNextIndex

(* The same for the index commands of a session.                           *)
LEMMA SessNextIndexTypes ==
    ASSUME SessionTypeOK, NEW c \in Conn,
           NEW here \in SessPlace, NEW after \in SessPlace,
           SessNextIndex(c, here, after)
    PROVE  SessionTypeOK'
  BY RedisAssumption, SMTT(30) DEF SessNextIndex, SessionTypeOK

(* A session of the gateway keeps the types: its commands carry its own    *)
(* key and pod.                                                            *)
LEMMA SessionTypes ==
    ASSUME TypeInv, NEW c \in Conn, Session(c)
    PROVE  TypeInv'
  <1> USE DEF TypeInv, TypeOK
  <1>1. PodOf[c] \in Pod /\ KeyOf[c] \in Key /\ sessIdx[c] \in Index
    BY ConnAssumption DEF SessionTypeOK
  <1>2. up' = up /\ ctxDone' = ctxDone /\ UNCHANGED <<faultVars, cleanerVars>>
    BY DEF Session
  <1>3. CleanerTypeOK' /\ TargetIsKnown' /\ flushed' \in BOOLEAN /\ missed' \subseteq Pod
    BY <1>2 DEF CleanerTypeOK, TargetIsKnown, cleanerVars, faultVars
  <1>4. ASSUME LeaveRegistrar PROVE RegistrarTypeOK' /\ SeenIsKnown'
    BY <1>2, <1>4 DEF LeaveRegistrar, RegistrarTypeOK, SeenIsKnown, registrarVars
  <1>5. ASSUME NEW place \in SessPlace, SessGoto(c, place) PROVE SessionTypeOK'
    BY <1>5 DEF SessGoto, SessionTypeOK
  <1>6. CASE RegisterExists(c)
    <2>1. SessionTypeOK'
      BY <1>5, <1>6 DEF RegisterExists, SessPlace
    <2> QED
      BY <1>3, <1>4, <1>6, <2>1 DEF RegisterExists, RedisTypeOK, LocalTypeOK, redisVars
  <1>7. CASE RegisterSetNX(c)
    <2>1. SessionTypeOK'
      BY <1>5, <1>7 DEF RegisterSetNX, SessPlace
    <2>2. RedisTypeOK'
      BY <1>1, <1>7, RedisCommandTypes DEF RegisterSetNX, RedisTypeOK
    <2> QED
      BY <1>3, <1>4, <1>7, <2>1, <2>2 DEF RegisterSetNX, LocalTypeOK
  <1>8. CASE RegisterSAdd(c)
    <2>1. SessionTypeOK'
      BY <1>8, SessNextIndexTypes DEF RegisterSAdd, SessPlace
    <2>2. RedisTypeOK'
      BY <1>1, <1>8, RedisCommandTypes DEF RegisterSAdd, RedisTypeOK
    <2> QED
      BY <1>3, <1>4, <1>8, <2>1, <2>2 DEF RegisterSAdd, LocalTypeOK
  <1>9. CASE RegisterLocal(c)
    <2>1. SessionTypeOK'
      BY <1>5, <1>9 DEF RegisterLocal, SessPlace
    <2>2. LocalTypeOK'
      BY <1>1, <1>9 DEF RegisterLocal, LocalRegister, LocalRegisterDuplicate, LocalTypeOK
    <2> QED
      BY <1>3, <1>4, <1>9, <2>1, <2>2 DEF RegisterLocal, RedisTypeOK, redisVars
  <1>10. CASE RegisterSpawn(c)
    <2>1. SessionTypeOK'
      BY <1>5, <1>10 DEF RegisterSpawn, SessPlace
    <2>2. RegistrarTypeOK' /\ SeenIsKnown'
      BY <1>2, <1>10 DEF RegisterSpawn, SpawnRegistrar, RegGoto, RegPlace,
                         RegistrarTypeOK, SeenIsKnown
    <2> QED
      BY <1>3, <1>10, <2>1, <2>2 DEF RegisterSpawn, RedisTypeOK, LocalTypeOK, redisVars
  <1>11. CASE RegisterStore(c)
    <2>1. SessionTypeOK'
      BY <1>5, <1>11, Zenon DEF RegisterStore, SessPlace
    <2>2. RegistrarTypeOK' /\ SeenIsKnown'
      BY <1>1, <1>2, <1>11, Zenon DEF RegisterStore, StoreCancelFunc, registrarVars,
                               RegistrarTypeOK, SeenIsKnown
    <2> QED
      BY <1>3, <1>11, <2>1, <2>2 DEF RegisterStore, RedisTypeOK, LocalTypeOK, redisVars
  <1>12. CASE UnregisterDel(c)
    <2>1. SessionTypeOK'
      BY <1>5, <1>12 DEF UnregisterDel, SessPlace
    <2>2. RedisTypeOK'
      BY <1>1, <1>12, RedisCommandTypes DEF UnregisterDel, RedisTypeOK
    <2> QED
      BY <1>3, <1>4, <1>12, <2>1, <2>2 DEF UnregisterDel, LocalTypeOK
  <1>13. CASE UnregisterSRem(c)
    <2>1. SessionTypeOK'
      BY <1>13, SessNextIndexTypes, Zenon DEF UnregisterSRem, SessPlace
    <2>2. RedisTypeOK'
      BY <1>1, <1>13, RedisCommandTypes DEF UnregisterSRem, RedisTypeOK
    <2> QED
      BY <1>3, <1>4, <1>13, <2>1, <2>2, Zenon DEF UnregisterSRem, LocalTypeOK
  <1>14. CASE UnregisterLocal(c)
    <2>1. SessionTypeOK'
      BY <1>5, <1>14 DEF UnregisterLocal, SessPlace
    <2>2. LocalTypeOK'
      BY <1>1, <1>14 DEF UnregisterLocal, LocalUnregister, LocalTypeOK
    <2> QED
      BY <1>3, <1>4, <1>14, <2>1, <2>2 DEF UnregisterLocal, RedisTypeOK, redisVars
  <1>15. CASE UnregisterStop(c)
    <2>1. SessionTypeOK'
      BY <1>5, <1>15 DEF UnregisterStop, SessPlace
    <2>2. CancelFunc(c) \in Conn \cup {NoConn}
      BY <1>1 DEF CancelFunc, RegistrarTypeOK
    <2>3. RegistrarTypeOK' /\ SeenIsKnown'
      BY <1>2, <1>4, <1>15, <2>2 DEF UnregisterStop, CallCancelFunc, registrarVars,
                                     RegistrarTypeOK, SeenIsKnown
    <2> QED
      BY <1>3, <1>15, <2>1, <2>3 DEF UnregisterStop, RedisTypeOK, LocalTypeOK, redisVars
  <1>16. CASE UnregisterDrop(c)
    <2>1. SessionTypeOK'
      BY <1>5, <1>16, Zenon DEF UnregisterDrop, SessPlace
    <2>2. RegistrarTypeOK' /\ SeenIsKnown'
      BY <1>1, <1>2, <1>16 DEF UnregisterDrop, DropCancelFunc, registrarVars,
                               RegistrarTypeOK, SeenIsKnown
    <2> QED
      BY <1>3, <1>16, <2>1, <2>2 DEF UnregisterDrop, RedisTypeOK, LocalTypeOK, redisVars
  <1> QED
    BY <1>6, <1>7, <1>8, <1>9, <1>10, <1>11, <1>12, <1>13, <1>14, <1>15, <1>16
    DEF Session, SessionStep

(* A registrar keeps the types: the host it unregisters is one it read.    *)
LEMMA RegistrarTypes ==
    ASSUME TypeInv, NEW c \in Conn, Registrar(c)
    PROVE  TypeInv'
  <1> USE DEF TypeInv, TypeOK
  <1>1. PodOf[c] \in Pod /\ KeyOf[c] \in Key /\ regIdx[c] \in Index
    BY ConnAssumption DEF RegistrarTypeOK
  <1>2. /\ up' = up /\ cancelFuncs' = cancelFuncs /\ stopped' = stopped
        /\ UNCHANGED <<connections, sessionVars, cleanerVars, flushed>>
    BY DEF Registrar
  <1>3. /\ LocalTypeOK' /\ SessionTypeOK' /\ CleanerTypeOK' /\ TargetIsKnown'
        /\ flushed' \in BOOLEAN /\ missed' \subseteq Pod
    <2>1. missed' \subseteq Pod
      <3>1. missed \subseteq Pod /\ (reg[c] = "dns" => seen[c] \in Pod)
        BY DEF SeenIsKnown
      <3>2. missed' = missed \/ (reg[c] = "dns" /\ missed' = missed \cup {seen[c]})
        BY Zenon DEF Registrar
      <3> QED
        BY <3>1, <3>2, Zenon
    <2> QED
      BY <1>2, <2>1 DEF LocalTypeOK, SessionTypeOK, CleanerTypeOK, TargetIsKnown,
                        cleanerVars, sessionVars
  <1>4. ASSUME UNCHANGED redisVars PROVE RedisTypeOK'
    BY <1>4 DEF RedisTypeOK, redisVars
  <1>5. reg \in [Conn -> RegPlace] /\ seen \in [Conn -> Pod \cup {NoPod}]
    BY DEF RegistrarTypeOK
  <1>6. CASE RegistrarDone(c)
    BY <1>2, <1>3, <1>4, <1>6 DEF RegistrarDone, RegGoto, RegPlace, RegistrarTypeOK, SeenIsKnown
  <1>7. CASE RegistrarTick(c)
    <2>1. redis[KeyOf[c]] \in Pod \cup {NoPod}
      BY <1>1 DEF RedisTypeOK
    <2>2. RegistrarTypeOK'
      BY <1>2, <1>7, <2>1 DEF RegistrarTick, RegGoto, RegPlace, RegistrarTypeOK
    <2>3. SeenIsKnown'
      BY <1>5, <1>7, <2>1 DEF RegistrarTick, RegGoto, SeenIsKnown
    <2> QED
      BY <1>3, <1>4, <1>7, <2>2, <2>3 DEF RegistrarTick
  <1>8. CASE RegistrarDns(c)
    <2>1. RegistrarTypeOK'
      BY <1>2, <1>8 DEF RegistrarDns, RegGoto, RegPlace, RegistrarTypeOK
    <2>2. SeenIsKnown'
      BY <1>5, <1>8 DEF RegistrarDns, RegGoto, SeenIsKnown
    <2> QED
      BY <1>3, <1>4, <1>8, <2>1, <2>2 DEF RegistrarDns
  <1>9. CASE RegistrarDel(c)
    <2>1. RedisTypeOK'
      BY <1>1, <1>9, RedisCommandTypes DEF RegistrarDel, RedisTypeOK
    <2> QED
      BY <1>2, <1>3, <1>9, <2>1, Zenon DEF RegistrarDel, RegGoto, RegPlace, RegistrarTypeOK, SeenIsKnown
  <1>10. CASE RegistrarSRem(c)
    <2>1. seen[c] \in Pod
      BY <1>10, Zenon DEF RegistrarSRem, SeenIsKnown
    <2>2. RedisTypeOK'
      BY <1>1, <1>10, <2>1, RedisCommandTypes, Zenon DEF RegistrarSRem, RedisTypeOK
    <2>3. reg' \in [Conn -> RegPlace] /\ regIdx' \in [Conn -> Index]
      BY <1>10, RegNextIndexTypes DEF RegistrarSRem, RegPlace
    <2>4. RegistrarTypeOK'
      BY <1>2, <1>10, <2>3 DEF RegistrarSRem, RegistrarTypeOK
    <2>5. SeenIsKnown'
      BY <1>5, <1>10, <2>1, Zenon DEF RegistrarSRem, RegNextIndex, SeenIsKnown
    <2> QED
      BY <1>3, <2>2, <2>4, <2>5
  <1>11. CASE RegistrarSetNX(c)
    <2>1. RedisTypeOK'
      BY <1>1, <1>11, RedisCommandTypes, Zenon DEF RegistrarSetNX, RedisTypeOK
    <2> QED
      BY <1>2, <1>3, <1>11, <2>1, Zenon DEF RegistrarSetNX, RegGoto, RegPlace, RegistrarTypeOK, SeenIsKnown
  <1>12. CASE RegistrarSAdd(c)
    <2>1. RedisTypeOK'
      BY <1>1, <1>12, RedisCommandTypes DEF RegistrarSAdd, RedisTypeOK
    <2>2. reg' \in [Conn -> RegPlace] /\ regIdx' \in [Conn -> Index]
      BY <1>12, RegNextIndexTypes, Zenon DEF RegistrarSAdd, RegPlace
    <2>3. RegistrarTypeOK'
      BY <1>2, <1>12, <2>2 DEF RegistrarSAdd, RegistrarTypeOK
    <2>4. SeenIsKnown'
      BY <1>5, <1>12 DEF RegistrarSAdd, RegNextIndex, SeenIsKnown
    <2> QED
      BY <1>3, <2>1, <2>3, <2>4
  <1> QED
    BY <1>6, <1>7, <1>8, <1>9, <1>10, <1>11, <1>12 DEF Registrar, RegistrarStep

(* The cleaner keeps the types: what it unregisters was in its listing.    *)
LEMMA CleanerTypes ==
    ASSUME TypeInv, Cleaner
    PROVE  TypeInv'
  <1> USE DEF TypeInv, TypeOK
  <1>1. UNCHANGED <<connections, up, ctxDone, cancelFuncs, stopped,
                    registrarVars, sessionVars, flushed>>
    BY DEF Cleaner
  <1>2. /\ LocalTypeOK' /\ RegistrarTypeOK' /\ SessionTypeOK'
        /\ SeenIsKnown' /\ flushed' \in BOOLEAN /\ missed' \subseteq Pod
    <2>1. missed' \subseteq Pod
      BY Zenon DEF Cleaner
    <2> QED
      BY <1>1, <2>1 DEF LocalTypeOK, RegistrarTypeOK, SessionTypeOK, SeenIsKnown,
                        registrarVars, sessionVars
  <1>3. ASSUME UNCHANGED redisVars PROVE RedisTypeOK'
    BY <1>3 DEF RedisTypeOK, redisVars
  <1>4. CASE CleanerLookup
    <2>1. running' \subseteq Pod
      BY <1>4 DEF CleanerLookup, DnsAnswer, CleanerTypeOK, RegistrarTypeOK
    <2> QED
      BY <1>2, <1>3, <1>4, <2>1
      DEF CleanerLookup, CleanerTypeOK, TargetIsKnown
  <1>5. CASE CleanerList
    BY <1>2, <1>3, <1>5 DEF CleanerList, GetAllRedisConnections, CleanerTypeOK, TargetIsKnown
  <1>6. ASSUME NEW k \in Key, CleanerSkip(k) PROVE TypeInv'
    BY <1>2, <1>3, <1>6 DEF CleanerSkip, CleanerTypeOK, TargetIsKnown
  <1>7. ASSUME NEW k \in Key, CleanerDel(k) PROVE TypeInv'
    <2>1. listed[k] \in Pod
      BY <1>7 DEF CleanerDel, CleanerTypeOK
    <2>2. RedisTypeOK'
      BY <1>7, <2>1, RedisCommandTypes DEF CleanerDel, Del, RedisTypeOK
    <2>3. target' \in Key \X Pod
      BY <1>7, <2>1 DEF CleanerDel
    <2> QED
      BY <1>2, <1>7, <2>2, <2>3 DEF CleanerDel, CleanerTypeOK, TargetIsKnown
  <1>8. CASE CleanerSRem
    <2>1. target[1] \in Key /\ target[2] \in Pod /\ cleanIdx \in Index
      BY <1>8 DEF CleanerSRem, TargetIsKnown, CleanerTypeOK
    <2>2. RedisTypeOK'
      BY <1>8, <2>1, RedisCommandTypes DEF CleanerSRem, RedisTypeOK
    <2> QED
      BY <1>2, <1>8, <2>1, <2>2, RedisAssumption DEF CleanerSRem, CleanerTypeOK, TargetIsKnown
  <1>9. CASE CleanerExit
    BY <1>2, <1>3, <1>9 DEF CleanerExit, CleanerTypeOK, TargetIsKnown
  <1> QED
    BY <1>4, <1>5, <1>6, <1>7, <1>8, <1>9 DEF Cleaner, CleanerStep

(***************************************************************************)
(* The types of the whole registry are right whatever fails, and whoever   *)
(* is about to unregister another host's entry knows that host.            *)
(***************************************************************************)
THEOREM TypeInvariance == Spec => []TypeInv
  <1>1. Init => TypeInv
    <2> SUFFICES ASSUME Init PROVE TypeInv
      OBVIOUS
    <2> USE RedisAssumption DEF Init
    <2>1. RedisTypeOK /\ LocalTypeOK
      BY DEF RedisInit, RedisTypeOK, LocalInit, LocalTypeOK
    <2>2. RegistrarTypeOK /\ SeenIsKnown
      BY DEF RegistrarInit, RegistrarTypeOK, RegPlace, SeenIsKnown
    <2>3. SessionTypeOK
      BY DEF SessionInit, SessionTypeOK, SessPlace
    <2>4. CleanerTypeOK /\ TargetIsKnown
      BY DEF CleanerInit, CleanerTypeOK, NoListing, TargetIsKnown
    <2> QED
      BY <2>1, <2>2, <2>3, <2>4, Zenon DEF TypeInv, TypeOK
  <1>2. TypeInv /\ [Next]_vars => TypeInv'
    <2> SUFFICES ASSUME TypeInv, [Next]_vars PROVE TypeInv'
      BY Zenon
    <2> USE DEF TypeInv, TypeOK, RedisTypeOK, LocalTypeOK, RegistrarTypeOK, SessionTypeOK,
                CleanerTypeOK, SeenIsKnown, TargetIsKnown, redisVars,
                registrarVars, sessionVars, cleanerVars, faultVars
    <2>1. ASSUME NEW c \in Conn, Session(c) PROVE TypeInv'
      BY ONLY TypeInv, <2>1, SessionTypes, Zenon
    <2>2. ASSUME NEW c \in Conn, Registrar(c) PROVE TypeInv'
      BY ONLY TypeInv, <2>2, RegistrarTypes, Zenon
    <2>3. ASSUME NEW c \in Conn, Close(c) PROVE TypeInv'
      BY <2>3 DEF Close
    <2>4. ASSUME NEW p \in Pod, Crash(p) PROVE TypeInv'
      <3>1. /\ RedisTypeOK' /\ CleanerTypeOK' /\ TargetIsKnown' /\ flushed' \in BOOLEAN
            /\ missed' \subseteq Pod
        BY <2>4, Zenon DEF Crash
      <3>2. LocalTypeOK' /\ SessionTypeOK'
        BY <2>4, RedisAssumption, SMTT(30) DEF Crash, SessPlace
      <3>3. /\ reg' \in [Conn -> RegPlace] /\ regIdx' \in [Conn -> Index]
            /\ seen' \in [Conn -> Pod \cup {NoPod}]
        BY <2>4, RedisAssumption, SMTT(30) DEF Crash, RegPlace
      <3>4. /\ up' \subseteq Pod /\ ctxDone' \subseteq Conn /\ stopped' \subseteq Conn
            /\ cancelFuncs' \in [Pod -> [Key -> Conn \cup {NoConn}]]
        BY <2>4, Zenon DEF Crash, SessionsOf
      <3>5. SeenIsKnown'
        BY <2>4, Zenon DEF Crash
      <3> QED
        BY ONLY <3>1, <3>2, <3>3, <3>4, <3>5, Zenon DEF TypeInv, TypeOK, RegistrarTypeOK
    <2>5. CASE Cleaner
      BY ONLY TypeInv, <2>5, CleanerTypes, Zenon
    <2>6. CASE Flush
      BY <2>6, Zenon DEF Flush, RedisFlush
    <2>7. CASE UNCHANGED vars
      BY <2>7, Zenon DEF vars
    <2>8. ASSUME NEW p \in Pod, Restart(p) PROVE TypeInv'
      BY <2>8, Zenon DEF Restart
    <2> QED
      BY ONLY [Next]_vars, <2>1, <2>2, <2>3, <2>4, <2>5, <2>6, <2>7, <2>8, Zenon DEF Next
  <1> QED
    BY <1>1, <1>2, PTL DEF Spec

(* The type invariant the runs check.                                      *)
THEOREM TypeCorrect == Spec => []TypeOK
  BY TypeInvariance, PTL DEF TypeInv

-----------------------------------------------------------------------------
(***************************************************************************)
(* The connection table.                                                   *)
(***************************************************************************)
(* A session's step leaves every other session's place alone.              *)
LEMMA SessionMovesAlone ==
    ASSUME SessionTypeOK, NEW c \in Conn, Session(c), NEW d \in Conn, d # c
    PROVE  sess'[d] = sess[d]
  BY Zenon DEF Session, SessionStep, SessGoto, SessNextIndex, SessionTypeOK,
         RegisterExists, RegisterSetNX, RegisterSAdd, RegisterLocal, RegisterSpawn,
         RegisterStore, UnregisterDel, UnregisterSRem, UnregisterLocal,
         UnregisterStop, UnregisterDrop

(***************************************************************************)
(* TableHoldsLiveSessions, whatever fails.  It is inductive given the      *)
(* types: only RegisterLocal writes a session into the table, and the      *)
(* session passes through UnregisterLocal before it is closed.             *)
(***************************************************************************)
THEOREM TableCorrect == Spec => []TableHoldsLiveSessions
  <1>1. Init => TableHoldsLiveSessions
    BY DEF Init, LocalInit, TableHoldsLiveSessions, GetConnection
  <1>2. TypeInv /\ TableHoldsLiveSessions /\ [Next]_vars => TableHoldsLiveSessions'
    <2> SUFFICES ASSUME TypeInv, TableHoldsLiveSessions, [Next]_vars
                 PROVE  TableHoldsLiveSessions'
      OBVIOUS
    <2>1. /\ connections \in [Pod -> [Key -> Conn \cup {NoConn}]]
          /\ sess \in [Conn -> SessPlace]
          /\ SessionTypeOK
      BY DEF TypeInv, TypeOK, LocalTypeOK, SessionTypeOK
    <2>2. ASSUME NEW c \in Conn, Session(c) PROVE TableHoldsLiveSessions'
      <3>1. PodOf[c] \in Pod /\ KeyOf[c] \in Key /\ c # NoConn
        BY ConnAssumption
      <3>2. \A d \in Conn : d # c => sess'[d] = sess[d]
        BY <2>1, <2>2, SessionMovesAlone, Zenon
      <3>3. CASE RegisterLocal(c)
        BY <2>1, <3>1, <3>2, <3>3, SMTT(30)
        DEF RegisterLocal, LocalRegister, LocalRegisterDuplicate, GetConnection,
            SessGoto, TableHoldsLiveSessions
      <3>4. CASE UnregisterLocal(c)
        BY <2>1, <3>1, <3>2, <3>4, SMTT(30)
        DEF UnregisterLocal, LocalUnregister, GetConnection, TableHoldsLiveSessions
      <3>5. CASE connections' = connections /\ (sess'[c] = sess[c] \/
                     sess'[c] \in {"store", "active", "srem", "unlocal"})
        BY <2>1, <3>2, <3>5 DEF GetConnection, TableHoldsLiveSessions
      <3>6. CASE connections' = connections /\ sess[c] \in
                     {"new", "setnx", "sadd", "stop", "drop"}
        BY <2>1, <3>2, <3>6, SMTT(30) DEF GetConnection, TableHoldsLiveSessions
      <3>7. RegisterExists(c) \/ RegisterSetNX(c) \/ RegisterSAdd(c) => TableHoldsLiveSessions'
        BY <3>6, Zenon DEF RegisterExists, RegisterSetNX, RegisterSAdd
      <3>8. UnregisterStop(c) \/ UnregisterDrop(c) => TableHoldsLiveSessions'
        BY <3>6, Zenon DEF UnregisterStop, UnregisterDrop
      <3>9. /\ RegisterSpawn(c) \/ RegisterStore(c) => TableHoldsLiveSessions'
            /\ UnregisterDel(c) \/ UnregisterSRem(c) => TableHoldsLiveSessions'
        BY <2>1, <3>5, Zenon DEF RegisterSpawn, RegisterStore, UnregisterDel, UnregisterSRem,
                          SessGoto, SessNextIndex
      <3> QED
        BY <2>2, <3>3, <3>4, <3>7, <3>8, <3>9 DEF Session, SessionStep
    <2>3. CASE UNCHANGED <<connections, sess>>
      BY <2>3, Zenon DEF GetConnection, TableHoldsLiveSessions
    <2>4. ASSUME NEW p \in Pod, Crash(p) PROVE TableHoldsLiveSessions'
      <3>1. \A c \in Conn : PodOf[c] # p => sess'[c] = sess[c]
        BY <2>1, <2>4, Zenon DEF Crash, SessionsOf
      <3>2. \A q \in Pod, k \in Key : GetConnection(q, k)' =
                IF q = p THEN NoConn ELSE GetConnection(q, k)
        BY <2>1, <2>4, Zenon DEF Crash, GetConnection
      <3>3. \A q \in Pod, k \in Key : GetConnection(q, k) \in Conn \cup {NoConn}
        BY <2>1, Zenon DEF GetConnection
      <3> SUFFICES ASSUME NEW q \in Pod, NEW k \in Key, GetConnection(q, k)' # NoConn
                   PROVE  /\ PodOf[GetConnection(q, k)'] = q
                          /\ KeyOf[GetConnection(q, k)'] = k
                          /\ sess'[GetConnection(q, k)']
                                \in {"spawn", "store", "active", "srem", "unlocal"}
        BY Zenon DEF TableHoldsLiveSessions
      <3>4. q # p /\ GetConnection(q, k)' = GetConnection(q, k) /\ GetConnection(q, k) \in Conn
        BY <3>2, <3>3, Zenon
      <3>5. /\ PodOf[GetConnection(q, k)] = q /\ KeyOf[GetConnection(q, k)] = k
            /\ sess[GetConnection(q, k)] \in {"spawn", "store", "active", "srem", "unlocal"}
        BY <3>4, Zenon DEF TableHoldsLiveSessions
      <3> QED
        BY <3>1, <3>4, <3>5, Zenon
    <2> QED
      BY <2>2, <2>3, <2>4 DEF Next, Registrar, Close, Restart, Cleaner, Flush, vars, sessionVars
  <1> QED
    BY <1>1, <1>2, TypeInvariance, PTL DEF Spec

-----------------------------------------------------------------------------
(***************************************************************************)
(* The lifetime of the registrars.                                         *)
(***************************************************************************)
(***************************************************************************)
(* OrphanRegistrarIsCancelled, whatever fails.  The property says nothing  *)
(* of how a session got past "active"; the strengthening does: a registrar *)
(* starts in "spawn" and not before, and Unregister is entered either with *)
(* the transport cancelled or, as a rollback, before the start.            *)
(***************************************************************************)
THEOREM RegistrarLifetime == Spec => []OrphanRegistrarIsCancelled
  <1> DEFINE Inv == RegistrarStartsLate /\ UnregisterFollowsCancel
  <1>1. Init => Inv
    BY Zenon DEF Init, SessionInit, RegistrarInit, RegistrarStartsLate, UnregisterFollowsCancel
  <1>2. TypeInv /\ Inv /\ [Next]_vars => Inv'
    <2> SUFFICES ASSUME TypeInv, Inv, [Next]_vars PROVE Inv'
      OBVIOUS
    <2> USE DEF RegistrarStartsLate, UnregisterFollowsCancel
    <2>1. reg \in [Conn -> RegPlace] /\ sess \in [Conn -> SessPlace]
      BY Zenon DEF TypeInv, TypeOK, RegistrarTypeOK, SessionTypeOK
    <2>2. ASSUME NEW c \in Conn, Session(c) PROVE Inv'
      <3>1. ctxDone' = ctxDone
        BY <2>2 DEF Session
      <3>2. RegisterSpawn(c) => Inv'
        BY <2>1, <3>1, Zenon DEF RegisterSpawn, SpawnRegistrar, RegGoto, SessGoto
      <3>3. ASSUME reg' = reg,
                   \/ RegisterExists(c) \/ RegisterSetNX(c) \/ RegisterSAdd(c)
                   \/ RegisterLocal(c) \/ RegisterStore(c)
            PROVE  Inv'
        BY <2>1, <3>1, <3>3, ZenonT(30) DEF RegisterExists, RegisterSetNX, RegisterSAdd, RegisterLocal,
                                RegisterStore, SessGoto, SessNextIndex
      <3>4. ASSUME reg' = reg,
                   \/ UnregisterDel(c) \/ UnregisterSRem(c) \/ UnregisterLocal(c)
                   \/ UnregisterStop(c) \/ UnregisterDrop(c)
            PROVE  Inv'
        BY <2>1, <3>1, <3>4, ZenonT(30) DEF UnregisterDel, UnregisterSRem, UnregisterLocal,
                                UnregisterStop, UnregisterDrop, SessGoto, SessNextIndex
      <3>5. RegisterSpawn(c) \/ reg' = reg
        BY <2>2, Zenon DEF Session, SessionStep, LeaveRegistrar, registrarVars,
                    RegisterExists, RegisterSetNX, RegisterSAdd, RegisterLocal,
                    RegisterStore, StoreCancelFunc, UnregisterDel, UnregisterSRem,
                    UnregisterLocal, UnregisterStop, CallCancelFunc, UnregisterDrop,
                    DropCancelFunc
      <3> QED
        BY <2>2, <3>2, <3>3, <3>4, <3>5, Zenon DEF Session, SessionStep
    <2>3. ASSUME NEW c \in Conn, Registrar(c) PROVE Inv'
      <3>1. sess' = sess /\ ctxDone \subseteq ctxDone'
        BY <2>3, ZenonT(30) DEF Registrar, RegistrarStep, sessionVars, RegistrarDone, RegistrarTick,
                    RegistrarDns, RegistrarDel, RegistrarSRem, RegistrarSetNX, RegistrarSAdd
      <3>2. reg[c] \notin {"off", "exit"}
        BY <2>3, ZenonT(30) DEF Registrar, RegistrarStep, RegistrarDone, RegistrarTick,
                    RegistrarDns, RegistrarDel, RegistrarSRem, RegistrarSetNX, RegistrarSAdd
      <3>3. \A d \in Conn : d # c => reg'[d] = reg[d]
        BY <2>1, <2>3, ZenonT(30) DEF Registrar, RegistrarStep, RegGoto, RegNextIndex, RegistrarDone,
                          RegistrarTick, RegistrarDns, RegistrarDel, RegistrarSRem,
                          RegistrarSetNX, RegistrarSAdd
      <3> QED
        BY <3>1, <3>2, <3>3, Zenon
    <2>4. ASSUME NEW c \in Conn, Close(c) PROVE Inv'
      BY <2>4, ZenonT(30) DEF Close, registrarVars, sessionVars
    <2>5. ASSUME NEW p \in Pod, Crash(p) PROVE Inv'
      BY <2>5 DEF Crash
    <2>6. CASE UNCHANGED <<reg, sess, ctxDone>>
      BY <2>6
    <2> QED
      BY <2>2, <2>3, <2>4, <2>5, <2>6
      DEF Next, Restart, Cleaner, Flush, vars, registrarVars, sessionVars
  <1>3. TypeInv /\ Inv => OrphanRegistrarIsCancelled
    BY Zenon DEF RegistrarStartsLate, UnregisterFollowsCancel, OrphanRegistrarIsCancelled,
           TypeInv, TypeOK, SessionTypeOK, SessPlace
  <1> QED
    BY <1>1, <1>2, <1>3, TypeInvariance, PTL DEF Spec

-----------------------------------------------------------------------------
(***************************************************************************)
(* The registration is unique.                                             *)
(***************************************************************************)
(* Where no pod dies and the lookups are right, neither a registrar nor    *)
(* the cleaner ever gets as far as unregistering another host's entry.     *)
LEMMA TakeoverNeedsFault ==
    ASSUME Faults \subseteq {"redis"}, TypeInv, NoTakeover, [Next]_vars
    PROVE  NoTakeover'
  <1> USE DEF NoTakeover
  <1>1. reg \in [Conn -> RegPlace] /\ listed \in [Key -> Pod \cup {NoPod}]
    BY DEF TypeInv, TypeOK, RegistrarTypeOK, CleanerTypeOK
  <1>2. "crash" \notin Faults /\ "restart" \notin Faults /\ DnsAnswer = {Pod}
    BY DEF DnsAnswer
  <1>3. ASSUME NEW c \in Conn, Session(c) PROVE NoTakeover'
    <2>1. reg' = reg \/ reg' = [reg EXCEPT ![c] = "select"]
      BY <1>3 DEF Session, SessionStep, LeaveRegistrar, registrarVars, RegGoto,
                  RegisterExists, RegisterSetNX, RegisterSAdd, RegisterLocal,
                  RegisterSpawn, SpawnRegistrar, RegisterStore, StoreCancelFunc,
                  UnregisterDel, UnregisterSRem, UnregisterLocal, UnregisterStop,
                  CallCancelFunc, UnregisterDrop, DropCancelFunc
    <2> QED
      BY <1>1, <1>3, <2>1, Zenon DEF Session, cleanerVars
  <1>4. ASSUME NEW c \in Conn, Registrar(c) PROVE NoTakeover'
    <2>1. up' = up /\ UNCHANGED cleanerVars
      BY <1>4 DEF Registrar
    <2>2. RegistrarDns(c) => reg' = [reg EXCEPT ![c] = "exit"]
      BY <1>2 DEF RegistrarDns, isPodRunning, TypeInv, SeenIsKnown
    <2>3. reg[c] \notin {"del", "srem"}
      BY Zenon
    <2>4. \A d \in Conn : reg'[d] \notin {"del", "srem"}
      BY <1>1, <1>4, <2>2, <2>3, ZenonT(30)
      DEF Registrar, RegistrarStep, RegistrarDone, RegistrarTick, RegistrarDel,
          RegistrarSRem, RegistrarSetNX, RegistrarSAdd, RegGoto, RegNextIndex
    <2> QED
      BY <2>1, <2>4 DEF cleanerVars
  <1>5. CASE Cleaner
    <2>1. up' = up /\ reg' = reg
      BY <1>5 DEF Cleaner, registrarVars
    <2>2. \A k \in Key : ~CleanerDel(k)
      BY <1>1 DEF CleanerDel
    <2> QED
      BY <1>2, <1>5, <2>1, <2>2
      DEF Cleaner, CleanerStep, CleanerLookup, CleanerList, CleanerSkip, CleanerSRem, CleanerExit
  <1>6. CASE UNCHANGED <<up, clean, running, reg>>
    BY <1>6, Zenon
  <1> QED
    BY <1>2, <1>3, <1>4, <1>5, <1>6
    DEF Next, Close, Crash, Restart, Flush, vars, cleanerVars, registrarVars

(***************************************************************************)
(* UniqueRegistration, where Redis may lose commands or replies but no pod *)
(* dies, the lookups are right and Redis keeps its data.  A session enters *)
(* Holding only through a SETNX that found the key absent, so no other     *)
(* session was holding it; and the key of a holder is deleted by nobody    *)
(* else, because a DEL is issued only by a holder or by a takeover, which  *)
(* NoTakeover rules out.                                                   *)
(***************************************************************************)
THEOREM RegistrationIsUnique ==
    ASSUME Faults \subseteq {"redis"}
    PROVE  Spec => []UniqueRegistration
  <1> DEFINE Inv == NoTakeover /\ UniqueRegistration
  <1> USE DEF UniqueRegistration, HolderIsInRedis, Holding
  <1>1. Init => Inv
    BY Zenon DEF Init, RegistrarInit, SessionInit, CleanerInit, NoTakeover
  <1>2. TypeInv /\ Inv /\ [Next]_vars => Inv'
    <2> SUFFICES ASSUME TypeInv, Inv, [Next]_vars PROVE UniqueRegistration'
      BY TakeoverNeedsFault, Zenon
    <2>1. /\ redis \in [Key -> Pod \cup {NoPod}]
          /\ sess \in [Conn -> SessPlace]
          /\ SessionTypeOK
          /\ "flush" \notin Faults /\ "crash" \notin Faults
      BY Zenon DEF TypeInv, TypeOK, RedisTypeOK, SessionTypeOK
    <2>2. ASSUME NEW c \in Conn PROVE PodOf[c] \in Pod /\ KeyOf[c] \in Key /\ PodOf[c] # NoPod
      BY ConnAssumption, RedisAssumption, SMTT(30)
    <2>3. ASSUME NEW c \in Conn, Session(c) PROVE UniqueRegistration'
      <3>1. \A d \in Conn : d # c => sess'[d] = sess[d]
        BY <2>1, <2>3, SessionMovesAlone, Zenon
      <3>2. CASE RegisterSetNX(c)
        <4>1. CASE SetNXOk(KeyOf[c], PodOf[c]) /\ sess'[c] = "sadd"
          BY <2>1, <2>2, <3>1, <4>1, SMTT(30) DEF SetNXOk
        <4>2. CASE SetNXTaken(KeyOf[c]) /\ sess'[c] = "closed"
          BY <3>1, <4>2 DEF SetNXTaken
        <4>3. CASE SetNXError(KeyOf[c], PodOf[c]) /\ sess'[c] = "closed"
          BY <2>1, <2>2, <3>1, <4>3, SMTT(30) DEF SetNXError, SetNXOk
        <4> QED
          BY <2>1, <3>2, <4>1, <4>2, <4>3, ZenonT(30) DEF RegisterSetNX, SessGoto
      <3>3. CASE UnregisterDel(c)
        <4>1. Holding(c) /\ sess'[c] = "srem" /\ Del(KeyOf[c])
          BY <2>1, <3>3, Zenon DEF UnregisterDel, SessGoto
        <4> QED
          BY <2>1, <2>2, <3>1, <4>1, Zenon DEF Del
      <3>4. CASE redis' = redis /\ (Holding(c)' => Holding(c))
        BY <3>1, <3>4, Zenon
      <3>5. /\ RegisterExists(c) \/ RegisterSAdd(c) \/ RegisterLocal(c)
               \/ RegisterSpawn(c) \/ RegisterStore(c) => redis' = redis /\ (Holding(c)' => Holding(c))
            /\ UnregisterSRem(c) \/ UnregisterLocal(c) \/ UnregisterStop(c)
               \/ UnregisterDrop(c) => redis' = redis /\ (Holding(c)' => Holding(c))
        BY <2>1, ZenonT(30) DEF RegisterExists, RegisterSAdd, RegisterLocal, RegisterSpawn, RegisterStore,
                    UnregisterSRem, UnregisterLocal, UnregisterStop, UnregisterDrop,
                    SessGoto, SessNextIndex, redisVars
      <3> QED
        BY <2>3, <3>2, <3>3, <3>4, <3>5, Zenon DEF Session, SessionStep
    <2>4. ASSUME NEW c \in Conn, Registrar(c) PROVE UniqueRegistration'
      <3>1. sess' = sess
        BY <2>4, Zenon DEF Registrar, sessionVars
      <3>2. CASE RegistrarSetNX(c)
        BY <2>1, <2>2, <3>1, <3>2, SMTT(30) DEF RegistrarSetNX, SetNXOk, SetNXTaken, SetNXError
      <3>3. ~RegistrarDel(c)
        BY Zenon DEF NoTakeover, RegistrarDel
      <3>4. CASE redis' = redis
        BY <3>1, <3>4, Zenon
      <3> QED
        BY <2>4, <3>2, <3>3, <3>4, ZenonT(30)
        DEF Registrar, RegistrarStep, RegistrarDone, RegistrarTick, RegistrarDns,
            RegistrarSRem, RegistrarSAdd, redisVars
    <2>5. CASE Cleaner
      <3>1. \A k \in Key : ~CleanerDel(k)
        BY Zenon DEF NoTakeover, CleanerDel, TypeInv, TypeOK, CleanerTypeOK
      <3> QED
        BY <2>5, <3>1, Zenon DEF Cleaner, CleanerStep, CleanerLookup, CleanerList, CleanerSkip,
                          CleanerSRem, CleanerExit, redisVars, sessionVars
    <2>6. CASE UNCHANGED <<redis, sess>>
      BY <2>6
    <2> QED
      BY <2>1, <2>3, <2>4, <2>5, <2>6, Zenon
      DEF Next, Close, Crash, Restart, Flush, vars, redisVars, sessionVars
  <1> QED
    BY <1>1, <1>2, TypeInvariance, PTL DEF Spec
=============================================================================
