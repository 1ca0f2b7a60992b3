---------------------- MODULE ConnectionIndexes_proofs ----------------------
(***************************************************************************)
(* The indexes of ConnectionRegistry, for any sets of pods, nodes and      *)
(* sessions and any number of indexes: what they list without faults, and  *)
(* what they keep whatever fails.                                          *)
(***************************************************************************)
EXTENDS ConnectionRegistry_proofs

USE DEF Index, RedisAssumption, ConnAssumption

(* Without faults a command has its effect and the reply arrives.          *)
LEMMA ReliableCommands ==
    ASSUME Faults = {}, NEW k, NEW p, NEW i
    PROVE  /\ SAdd(i, k, p) => index' = [index EXCEPT ![i] = @ \cup {<<k, p>>}]
           /\ SRem(i, k, p) => index' = [index EXCEPT ![i] = @ \ {<<k, p>>}]
           /\ Del(k) => redis' = [redis EXCEPT ![k] = NoPod]
           /\ ~SetNXError(k, p)
  BY DEF SAdd, SRem, Del, SetNXError, RedisUnreliable

(* What the index proofs know of a state.                                  *)
IndexInv ==
    /\ TypeInv
    /\ NoTakeover
    /\ UniqueRegistration
    /\ IndexFromFirst
    /\ RepairIsAlone
    /\ IndexEntriesAreBacked

(* An entry that was waiting for its SREM still is, when every session in  *)
(* srem stays where it is.                                                 *)
LEMMA PendingStays ==
    ASSUME \A d \in Conn : sess[d] = "srem" => sess'[d] = "srem" /\ sessIdx'[d] = sessIdx[d],
           NEW i, NEW k, NEW p, SRemPending(i, k, p)
    PROVE  SRemPending(i, k, p)'
  BY DEF SRemPending

(* A SETNX that finds the key absent takes no entry's backing away.        *)
LEMMA SetNXKeepsBacking ==
    ASSUME IndexInv, NEW k \in Key, NEW p \in Pod, SetNXOk(k, p), index' = index,
           \A d \in Conn : sess[d] = "srem" => sess'[d] = "srem" /\ sessIdx'[d] = sessIdx[d]
    PROVE  IndexEntriesAreBacked'
  <1> SUFFICES ASSUME NEW i \in Index, NEW e \in index[i]
               PROVE  redis'[e[1]] = e[2] \/ SRemPending(i, e[1], e[2])'
    BY DEF IndexEntriesAreBacked
  <1>1. e[1] \in Key /\ e[2] \in Pod /\ redis \in [Key -> Pod \cup {NoPod}]
    BY DEF IndexInv, TypeInv, TypeOK, RedisTypeOK
  <1>2. redis[e[1]] = e[2] \/ SRemPending(i, e[1], e[2])
    BY DEF IndexInv, IndexEntriesAreBacked
  <1>3. CASE redis[e[1]] = e[2]
    BY <1>1, <1>3, RedisAssumption DEF SetNXOk
  <1>4. CASE SRemPending(i, e[1], e[2])
    BY <1>4, PendingStays
  <1> QED
    BY <1>2, <1>3, <1>4

(* An SADD by whoever has the key adds an entry that is backed.            *)
LEMMA SAddKeepsBacking ==
    ASSUME IndexInv, NEW k \in Key, NEW p \in Pod, NEW n \in Index,
           redis[k] = p, redis' = redis,
           index' = [index EXCEPT ![n] = @ \cup {<<k, p>>}],
           \A d \in Conn : sess[d] = "srem" => sess'[d] = "srem" /\ sessIdx'[d] = sessIdx[d]
    PROVE  IndexEntriesAreBacked'
  <1> SUFFICES ASSUME NEW i \in Index, NEW e \in index'[i]
               PROVE  redis'[e[1]] = e[2] \/ SRemPending(i, e[1], e[2])'
    BY DEF IndexEntriesAreBacked
  <1>1. e = <<k, p>> \/ e \in index[i]
    BY DEF IndexInv, TypeInv, TypeOK, RedisTypeOK
  <1>2. CASE e = <<k, p>>
    BY <1>2
  <1>3. CASE e \in index[i]
    <2>1. redis[e[1]] = e[2] \/ SRemPending(i, e[1], e[2])
      BY <1>3 DEF IndexInv, IndexEntriesAreBacked
    <2> QED
      BY <2>1, PendingStays
  <1> QED
    BY <1>1, <1>2, <1>3

(***************************************************************************)
(* Register and Unregister keep the entries backed: the session that       *)
(* deletes the key has every SREM still to come, and leaves the SREM of an *)
(* index only when its entry is gone from it.                              *)
(***************************************************************************)
LEMMA SessionKeepsBacking ==
    ASSUME Faults = {}, IndexInv, NEW c \in Conn, Session(c)
    PROVE  IndexEntriesAreBacked'
  <1>1. /\ SessionTypeOK
        /\ redis \in [Key -> Pod \cup {NoPod}]
        /\ index \in [Index -> SUBSET (Key \X Pod)]
        /\ sess \in [Conn -> SessPlace] /\ sessIdx \in [Conn -> Index]
        /\ PodOf[c] \in Pod /\ KeyOf[c] \in Key
    BY ConnAssumption, SMTT(30) DEF IndexInv, TypeInv, TypeOK, SessionTypeOK, RedisTypeOK
  <1>2. \A d \in Conn : d # c => sess'[d] = sess[d] /\ sessIdx'[d] = sessIdx[d]
    BY <1>1 DEF Session, SessionStep, SessGoto, SessNextIndex, RegisterExists, RegisterSetNX,
                RegisterSAdd, RegisterLocal, RegisterSpawn, RegisterStore, UnregisterDel,
                UnregisterSRem, UnregisterLocal, UnregisterStop, UnregisterDrop
  <1>3. Holding(c) => redis[KeyOf[c]] = PodOf[c]
    BY DEF IndexInv, UniqueRegistration, HolderIsInRedis
  <1>4. ASSUME sess[c] # "srem"
        PROVE  \A d \in Conn : sess[d] = "srem" => sess'[d] = "srem" /\ sessIdx'[d] = sessIdx[d]
    BY <1>2, <1>4
  <1>5. CASE sess[c] # "srem" /\ redis' = redis /\ index' = index
    BY <1>4, <1>5, PendingStays DEF IndexInv, IndexEntriesAreBacked
  <1>6. CASE RegisterSetNX(c)
    <2>1. sess[c] # "srem" /\ index' = index
      BY <1>6 DEF RegisterSetNX
    <2>2. CASE SetNXOk(KeyOf[c], PodOf[c])
      BY <1>1, <1>4, <2>1, <2>2, SetNXKeepsBacking
    <2>3. CASE SetNXTaken(KeyOf[c])
      BY <1>5, <2>1, <2>3 DEF SetNXTaken
    <2> QED
      BY <1>6, <2>2, <2>3, ReliableCommands, Zenon DEF RegisterSetNX
  <1>7. CASE RegisterSAdd(c)
    <2>1. sess[c] # "srem" /\ redis' = redis /\ Holding(c)
      BY <1>7 DEF RegisterSAdd, Holding
    <2>2. index' = [index EXCEPT ![sessIdx[c]] = @ \cup {<<KeyOf[c], PodOf[c]>>}]
      BY <1>7, ReliableCommands DEF RegisterSAdd
    <2> QED
      BY <1>1, <1>3, <1>4, <2>1, <2>2, SAddKeepsBacking, Zenon
  <1>8. CASE UnregisterDel(c)
    <2>1. /\ Holding(c) /\ sess[c] # "srem" /\ sess'[c] = "srem" /\ sessIdx'[c] = 1
          /\ index' = index /\ redis' = [redis EXCEPT ![KeyOf[c]] = NoPod]
      BY <1>1, <1>8, ReliableCommands, Zenon DEF UnregisterDel, SessGoto, Holding, IndexInv, IndexFromFirst
    <2> SUFFICES ASSUME NEW i \in Index, NEW e \in index[i]
                 PROVE  redis'[e[1]] = e[2] \/ SRemPending(i, e[1], e[2])'
      BY <2>1 DEF IndexEntriesAreBacked
    <2>2. redis[e[1]] = e[2] \/ SRemPending(i, e[1], e[2])
      BY DEF IndexInv, IndexEntriesAreBacked
    <2>3. CASE redis[e[1]] = e[2] /\ e[1] = KeyOf[c]
      <3>1. KeyOf[c] = e[1] /\ PodOf[c] = e[2] /\ sessIdx'[c] <= i
        BY <1>3, <2>1, <2>3
      <3> QED
        BY <2>1, <3>1 DEF SRemPending
    <2>4. CASE redis[e[1]] = e[2] /\ e[1] # KeyOf[c]
      BY <1>1, <2>1, <2>4
    <2>5. CASE SRemPending(i, e[1], e[2])
      BY <1>4, <2>1, <2>5, PendingStays
    <2> QED
      BY <2>2, <2>3, <2>4, <2>5
  <1>9. CASE UnregisterSRem(c)
    <2>1. /\ sess[c] = "srem" /\ redis' = redis
          /\ index' = [index EXCEPT ![sessIdx[c]] = @ \ {<<KeyOf[c], PodOf[c]>>}]
      BY <1>9, ReliableCommands DEF UnregisterSRem
    <2>2. \/ sessIdx[c] = NumIndexes
          \/ sess'[c] = "srem" /\ sessIdx'[c] = sessIdx[c] + 1
      BY <1>1, <1>9 DEF UnregisterSRem, SessNextIndex
    <2> SUFFICES ASSUME NEW i \in Index, NEW e \in index'[i]
                 PROVE  redis'[e[1]] = e[2] \/ SRemPending(i, e[1], e[2])'
      BY DEF IndexEntriesAreBacked
    <2>3. e \in index[i] /\ (i = sessIdx[c] => e # <<KeyOf[c], PodOf[c]>>)
      BY <1>1, <2>1
    <2>4. e = <<e[1], e[2]>>
      BY <1>1, <2>3
    <2>5. redis[e[1]] = e[2] \/ SRemPending(i, e[1], e[2])
      BY <2>3 DEF IndexInv, IndexEntriesAreBacked
    <2>6. ASSUME SRemPending(i, e[1], e[2]) PROVE SRemPending(i, e[1], e[2])'
      <3>1. PICK d \in Conn : KeyOf[d] = e[1] /\ PodOf[d] = e[2] /\ sess[d] = "srem" /\ sessIdx[d] <= i
        BY <2>6 DEF SRemPending
      <3>2. CASE d # c
        BY <1>2, <3>1, <3>2 DEF SRemPending
      <3>3. CASE d = c
        <4>1. e = <<KeyOf[c], PodOf[c]>>
          BY <2>4, <3>1, <3>3
        <4>2. i # sessIdx[c] /\ sessIdx[c] <= i
          BY <2>3, <3>1, <3>3, <4>1
        <4>3. sess'[c] = "srem" /\ sessIdx'[c] <= i
          BY <1>1, <2>2, <4>2, RedisAssumption
        <4> QED
          BY <3>1, <3>3, <4>3 DEF SRemPending
      <3> QED
        BY <3>2, <3>3
    <2> QED
      BY <2>1, <2>5, <2>6
  <1>10. /\ RegisterExists(c) \/ RegisterLocal(c) \/ RegisterSpawn(c) \/ RegisterStore(c)
              => sess[c] # "srem" /\ redis' = redis /\ index' = index
         /\ UnregisterLocal(c) \/ UnregisterStop(c) \/ UnregisterDrop(c)
              => sess[c] # "srem" /\ redis' = redis /\ index' = index
    BY DEF RegisterExists, RegisterLocal, RegisterSpawn, RegisterStore, UnregisterLocal,
           UnregisterStop, UnregisterDrop, redisVars
  <1> QED
    BY <1>5, <1>6, <1>7, <1>8, <1>9, <1>10 DEF Session, SessionStep

(***************************************************************************)
(* A registrar keeps them backed too: it adds an entry only while the key  *)
(* it set is there.                                                        *)
(***************************************************************************)
LEMMA RegistrarKeepsBacking ==
    ASSUME Faults = {}, IndexInv, NEW c \in Conn, Registrar(c)
    PROVE  IndexEntriesAreBacked'
  <1>1. /\ PodOf[c] \in Pod /\ KeyOf[c] \in Key /\ regIdx[c] \in Index
    BY ConnAssumption DEF IndexInv, TypeInv, TypeOK, RegistrarTypeOK
  <1>2. sess' = sess /\ sessIdx' = sessIdx
    BY DEF Registrar, sessionVars
  <1>3. CASE redis' = redis /\ index' = index
    BY <1>2, <1>3 DEF IndexInv, IndexEntriesAreBacked, SRemPending
  <1>4. CASE RegistrarSetNX(c)
    <2>1. index' = index
      BY <1>4 DEF RegistrarSetNX
    <2>2. CASE SetNXOk(KeyOf[c], PodOf[c])
      BY <1>1, <1>2, <2>1, <2>2, SetNXKeepsBacking
    <2>3. CASE SetNXTaken(KeyOf[c])
      BY <1>3, <2>1, <2>3 DEF SetNXTaken
    <2> QED
      BY <1>4, <2>2, <2>3, ReliableCommands, Zenon DEF RegistrarSetNX
  <1>5. CASE RegistrarSAdd(c)
    <2>1. redis' = redis /\ redis[KeyOf[c]] = PodOf[c]
      BY <1>5 DEF RegistrarSAdd, IndexInv, RepairIsAlone
    <2>2. index' = [index EXCEPT ![regIdx[c]] = @ \cup {<<KeyOf[c], PodOf[c]>>}]
      BY <1>5, ReliableCommands DEF RegistrarSAdd
    <2> QED
      BY <1>1, <1>2, <2>1, <2>2, SAddKeepsBacking, Zenon
  <1>6. ~RegistrarDel(c) /\ ~RegistrarSRem(c)
    BY DEF IndexInv, NoTakeover, RegistrarDel, RegistrarSRem
  <1> QED
    BY <1>3, <1>4, <1>5, <1>6
    DEF Registrar, RegistrarStep, RegistrarDone, RegistrarTick, RegistrarDns, redisVars

(* The index commands of a session start with the first index.             *)
LEMMA IndexFromFirstHolds == Spec => []IndexFromFirst
  <1>1. Init => IndexFromFirst
    BY Zenon DEF Init, SessionInit, IndexFromFirst
  <1>2. TypeInv /\ IndexFromFirst /\ [Next]_vars => IndexFromFirst'
    <2> SUFFICES ASSUME TypeInv, IndexFromFirst, [Next]_vars PROVE IndexFromFirst'
      OBVIOUS
    <2> USE DEF IndexFromFirst
    <2>1. sess \in [Conn -> SessPlace] /\ sessIdx \in [Conn -> Index]
      BY Zenon DEF TypeInv, TypeOK, SessionTypeOK
    <2>2. ASSUME NEW c \in Conn, Session(c) PROVE IndexFromFirst'
      BY <2>1, <2>2, Zenon
      DEF Session, SessionStep, SessGoto, SessNextIndex, RegisterExists, RegisterSetNX,
          RegisterSAdd, RegisterLocal, RegisterSpawn, RegisterStore, UnregisterDel,
          UnregisterSRem, UnregisterLocal, UnregisterStop, UnregisterDrop
    <2>3. ASSUME NEW p \in Pod, Crash(p) PROVE IndexFromFirst'
      BY <2>1, <2>3 DEF Crash
    <2>4. CASE UNCHANGED sessionVars
      BY <2>4 DEF sessionVars
    <2> QED
      BY <2>2, <2>3, <2>4 DEF Next, Registrar, Close, Restart, Cleaner, Flush, vars
  <1> QED
    BY <1>1, <1>2, TypeInvariance, PTL DEF Spec

(***************************************************************************)
(* Only a SETNX brings a registrar to its SADDs, so the key was absent and *)
(* no session held it; from then on no session can acquire it, and only a  *)
(* holder deletes it.                                                      *)
(***************************************************************************)
LEMMA RepairStaysAlone ==
    ASSUME Faults = {}, TypeInv, NoTakeover, UniqueRegistration, RepairIsAlone, [Next]_vars
    PROVE  RepairIsAlone'
  <1> USE DEF RepairIsAlone
  <1>1. /\ SessionTypeOK
        /\ redis \in [Key -> Pod \cup {NoPod}]
        /\ sess \in [Conn -> SessPlace] /\ reg \in [Conn -> RegPlace]
    BY DEF TypeInv, TypeOK, SessionTypeOK, RedisTypeOK, RegistrarTypeOK
  <1>2. ASSUME NEW c \in Conn PROVE PodOf[c] \in Pod /\ KeyOf[c] \in Key /\ PodOf[c] # NoPod
    BY ConnAssumption, RedisAssumption, SMTT(30)
  <1>3. ASSUME NEW c \in Conn, Session(c) PROVE RepairIsAlone'
    <2>1. \A d \in Conn : d # c => sess'[d] = sess[d]
      BY <1>1, <1>3, SessionMovesAlone, Zenon
    <2>2. \A d \in Conn : reg'[d] = "sadd" => reg[d] = "sadd"
      BY <1>1, <1>3
      DEF Session, SessionStep, LeaveRegistrar, registrarVars, RegGoto, RegisterExists,
          RegisterSetNX, RegisterSAdd, RegisterLocal, RegisterSpawn, SpawnRegistrar,
          RegisterStore, StoreCancelFunc, UnregisterDel, UnregisterSRem, UnregisterLocal,
          UnregisterStop, CallCancelFunc, UnregisterDrop, DropCancelFunc
    <2>3. CASE redis' = redis /\ (Holding(c)' => Holding(c))
      BY <2>1, <2>2, <2>3, Zenon DEF Holding
    <2>4. CASE RegisterSetNX(c)
      <3>1. CASE SetNXOk(KeyOf[c], PodOf[c])
        <4>1. \A d \in Conn : reg[d] = "sadd" => KeyOf[d] # KeyOf[c]
          BY <1>2, <3>1 DEF SetNXOk
        <4> QED
          BY <1>1, <1>2, <2>1, <2>2, <3>1, <4>1 DEF SetNXOk, Holding
      <3>2. CASE SetNXTaken(KeyOf[c]) /\ sess'[c] = "closed"
        BY <2>3, <3>2 DEF SetNXTaken, Holding
      <3> QED
        BY <1>1, <2>4, <3>1, <3>2, ReliableCommands, Zenon DEF RegisterSetNX, SessGoto
    <2>5. CASE UnregisterDel(c)
      <3>1. Holding(c) /\ sess'[c] = "srem" /\ redis' = [redis EXCEPT ![KeyOf[c]] = NoPod]
        BY <1>1, <2>5, ReliableCommands, Zenon DEF UnregisterDel, SessGoto, Holding
      <3> QED
        BY <1>1, <1>2, <2>1, <2>2, <3>1, Zenon DEF Holding
    <2>6. /\ RegisterExists(c) \/ RegisterSAdd(c) \/ RegisterLocal(c)
             \/ RegisterSpawn(c) \/ RegisterStore(c) => redis' = redis /\ (Holding(c)' => Holding(c))
          /\ UnregisterSRem(c) \/ UnregisterLocal(c) \/ UnregisterStop(c)
             \/ UnregisterDrop(c) => redis' = redis /\ (Holding(c)' => Holding(c))
      BY <1>1, ZenonT(30) DEF RegisterExists, RegisterSAdd, RegisterLocal, RegisterSpawn, RegisterStore,
                  UnregisterSRem, UnregisterLocal, UnregisterStop, UnregisterDrop,
                  SessGoto, SessNextIndex, redisVars, Holding
    <2> QED
      BY <1>3, <2>3, <2>4, <2>5, <2>6, Zenon DEF Session, SessionStep
  <1>4. ASSUME NEW c \in Conn, Registrar(c) PROVE RepairIsAlone'
    <2>1. sess' = sess
      BY <1>4, Zenon DEF Registrar, sessionVars
    <2>2. \A d \in Conn : d # c => reg'[d] = reg[d]
      BY <1>1, <1>4, Zenon DEF Registrar, RegistrarStep, RegGoto, RegNextIndex, RegistrarDone,
                        RegistrarTick, RegistrarDns, RegistrarDel, RegistrarSRem,
                        RegistrarSetNX, RegistrarSAdd
    <2>3. CASE RegistrarSetNX(c) /\ SetNXOk(KeyOf[c], PodOf[c])
      <3>1. \A d \in Conn : Holding(d) => KeyOf[d] # KeyOf[c]
        BY <1>2, <2>3 DEF SetNXOk, UniqueRegistration, HolderIsInRedis
      <3>2. \A d \in Conn : reg[d] = "sadd" => KeyOf[d] # KeyOf[c]
        BY <1>2, <2>3 DEF SetNXOk
      <3> QED
        BY <1>1, <1>2, <2>1, <2>2, <2>3, <3>1, <3>2, SMTT(30) DEF SetNXOk, Holding
    <2>4. CASE redis' = redis /\ (reg'[c] = "sadd" => reg[c] = "sadd")
      BY <2>1, <2>2, <2>4, Zenon DEF Holding
    <2>5. RegistrarSetNX(c) => \/ SetNXOk(KeyOf[c], PodOf[c])
                               \/ redis' = redis /\ reg'[c] # "sadd"
      BY <1>1, Zenon DEF RegistrarSetNX, SetNXTaken, SetNXError, RedisUnreliable, RegGoto
    <2>6. ~RegistrarDel(c) /\ ~RegistrarSRem(c)
      BY Zenon DEF NoTakeover, RegistrarDel, RegistrarSRem
    <2>7. RegistrarDone(c) \/ RegistrarTick(c) \/ RegistrarDns(c) \/ RegistrarSAdd(c)
             => redis' = redis /\ (reg'[c] = "sadd" => reg[c] = "sadd")
      BY <1>1 DEF RegistrarDone, RegistrarTick, RegistrarDns, RegistrarSAdd, RegGoto,
                  RegNextIndex, redisVars
    <2> QED
      BY <1>4, <2>3, <2>4, <2>5, <2>6, <2>7 DEF Registrar, RegistrarStep
  <1>5. CASE UNCHANGED <<redis, sess, reg>>
    BY <1>5, Zenon DEF Holding
  <1>6. CASE Cleaner
    <2>1. \A k \in Key : ~CleanerDel(k)
      BY DEF NoTakeover, CleanerDel, TypeInv, TypeOK, CleanerTypeOK
    <2> QED
      BY <1>5, <1>6, <2>1, Zenon
      DEF Cleaner, CleanerStep, CleanerLookup, CleanerList, CleanerSkip, CleanerSRem,
          CleanerExit, redisVars, sessionVars, registrarVars
  <1> QED
    BY <1>3, <1>4, <1>5, <1>6, Zenon
    DEF Next, Close, Crash, Restart, Flush, vars, redisVars, sessionVars, registrarVars

(***************************************************************************)
(* IndexEntriesAreBacked, without faults.  An entry outlives its key only  *)
(* between the DEL and the SREM of the session that held it: IndexFromFirst*)
(* says that this session still has every SREM to do, RepairIsAlone that   *)
(* no registrar adds an entry for a key that somebody else then deletes.   *)
(***************************************************************************)
THEOREM IndexesAreBacked ==
    ASSUME Faults = {}
    PROVE  Spec => []IndexEntriesAreBacked
  <1> DEFINE Inv == NoTakeover /\ RepairIsAlone /\ IndexEntriesAreBacked
  <1>1. Init => Inv
    BY Zenon DEF Init, RegistrarInit, CleanerInit, RedisInit, NoTakeover, RepairIsAlone,
           IndexEntriesAreBacked
  <1>2. TypeInv /\ UniqueRegistration /\ IndexFromFirst /\ Inv /\ [Next]_vars => Inv'
    <2> SUFFICES ASSUME TypeInv, UniqueRegistration, IndexFromFirst, Inv, [Next]_vars
                 PROVE  IndexEntriesAreBacked'
      BY TakeoverNeedsFault, RepairStaysAlone
    <2>1. IndexInv
      BY Zenon DEF IndexInv
    <2>2. CASE UNCHANGED <<redisVars, sessionVars>>
      BY <2>2 DEF IndexEntriesAreBacked, SRemPending, redisVars, sessionVars
    <2>3. CASE Cleaner
      <3>1. /\ \A k \in Key : ~CleanerDel(k)
            /\ ~CleanerSRem
        BY DEF NoTakeover, CleanerDel, CleanerSRem, TypeInv, TypeOK, CleanerTypeOK
      <3> QED
        BY <2>2, <2>3, <3>1 DEF Cleaner, CleanerStep, CleanerLookup, CleanerList,
                                CleanerSkip, CleanerExit
    <2> QED
      BY <2>1, <2>2, <2>3, SessionKeepsBacking, RegistrarKeepsBacking
      DEF Next, Close, Crash, Restart, Flush, vars
  <1>3. Spec => []UniqueRegistration
    BY RegistrationIsUnique, Zenon
  <1> QED
    BY <1>1, <1>2, <1>3, TypeInvariance, IndexFromFirstHolds, PTL DEF Spec

-----------------------------------------------------------------------------
(***************************************************************************)
(* The entries of the pods that no lookup has missed.                      *)
(***************************************************************************)
(* What a registrar or a cleaner run unregisters belongs to a pod that its *)
(* own lookup has missed.                                                  *)
LEMMA MissedPodsAreUnregistered ==
    ASSUME TypeInv, OnlyMissedPodsAreUnregistered, [Next]_vars
    PROVE  OnlyMissedPodsAreUnregistered'
  <1> USE DEF OnlyMissedPodsAreUnregistered
  <1>1. /\ reg \in [Conn -> RegPlace] /\ seen \in [Conn -> Pod \cup {NoPod}]
        /\ listed \in [Key -> Pod \cup {NoPod}] /\ NoPod \notin Pod
    BY RedisAssumption DEF TypeInv, TypeOK, RegistrarTypeOK, CleanerTypeOK
  <1>3. ASSUME NEW c \in Conn, Session(c) PROVE OnlyMissedPodsAreUnregistered'
    <2>1. (reg' = reg \/ reg' = [reg EXCEPT ![c] = "select"]) /\ seen' = seen
      BY <1>3 DEF Session, SessionStep, LeaveRegistrar, registrarVars, RegGoto,
                  RegisterExists, RegisterSetNX, RegisterSAdd, RegisterLocal,
                  RegisterSpawn, SpawnRegistrar, RegisterStore, StoreCancelFunc,
                  UnregisterDel, UnregisterSRem, UnregisterLocal, UnregisterStop,
                  CallCancelFunc, UnregisterDrop, DropCancelFunc
    <2> QED
      BY <1>1, <1>3, <2>1, Zenon DEF Session, cleanerVars, faultVars
  <1>4. ASSUME NEW c \in Conn, Registrar(c) PROVE OnlyMissedPodsAreUnregistered'
    <2>1. missed \subseteq missed' /\ UNCHANGED cleanerVars
      BY <1>4, Zenon DEF Registrar
    <2>2. \A d \in Conn : d # c => reg'[d] = reg[d] /\ seen'[d] = seen[d]
      BY <1>1, <1>4, ZenonT(30)
      DEF Registrar, RegistrarStep, RegistrarDone, RegistrarTick, RegistrarDns, RegistrarDel,
          RegistrarSRem, RegistrarSetNX, RegistrarSAdd, RegGoto, RegNextIndex
    <2>3. reg'[c] \in {"del", "srem"} => seen'[c] \in missed'
      <3>1. CASE RegistrarDns(c)
        <4>1. reg'[c] = "exit" \/ (reg[c] = "dns" /\ reg'[c] = "del" /\ seen' = seen)
          BY <1>1, <3>1, Zenon DEF RegistrarDns, RegGoto
        <4> QED
          BY <1>4, <4>1, Zenon DEF Registrar
      <3>2. CASE RegistrarDel(c)
        BY <1>1, <2>1, <3>2, Zenon DEF RegistrarDel, RegGoto
      <3>3. CASE RegistrarSRem(c)
        BY <1>1, <2>1, <3>3, Zenon DEF RegistrarSRem, RegNextIndex
      <3>4. CASE RegistrarDone(c) \/ RegistrarTick(c) \/ RegistrarSetNX(c) \/ RegistrarSAdd(c)
        BY <1>1, <3>4, Zenon DEF RegistrarDone, RegistrarTick, RegistrarSetNX, RegistrarSAdd, RegGoto, RegNextIndex
      <3> QED
        BY <1>4, <3>1, <3>2, <3>3, <3>4, Zenon DEF Registrar, RegistrarStep
    <2> QED
      BY <2>1, <2>2, <2>3, Zenon DEF cleanerVars
  <1>5. CASE Cleaner
    <2>1. missed \subseteq missed' /\ reg' = reg /\ seen' = seen
      BY <1>5, Zenon DEF Cleaner, registrarVars
    <2>2. CASE CleanerLookup
      BY <1>5, <2>1, <2>2, Zenon DEF CleanerLookup, Cleaner
    <2>4. CASE CleanerList \/ CleanerSRem \/ CleanerExit
      BY <2>1, <2>4, Zenon DEF CleanerList, CleanerSRem, CleanerExit
    <2>3. ASSUME NEW k \in Key, CleanerSkip(k) \/ CleanerDel(k) PROVE OnlyMissedPodsAreUnregistered'
      BY <1>1, <2>1, <2>3, SMTT(30) DEF CleanerSkip, CleanerDel
    <2> QED
      BY <1>5, <2>2, <2>3, <2>4, Zenon DEF Cleaner, CleanerStep
  <1>6. ASSUME NEW p \in Pod, Crash(p) PROVE OnlyMissedPodsAreUnregistered'
    <2>1. /\ UNCHANGED <<cleanerVars, faultVars>>
          /\ \A c \in Conn : reg'[c] \in {"del", "srem"} => reg'[c] = reg[c] /\ seen'[c] = seen[c]
      BY <1>6, Zenon DEF Crash
    <2> QED
      BY <2>1, Zenon DEF cleanerVars, faultVars
  <1>7. CASE UNCHANGED <<missed, clean, running, target, reg, seen>>
    BY <1>7
  <1> QED
    BY <1>3, <1>4, <1>5, <1>6, <1>7, Zenon
    DEF Next, Close, Restart, Flush, vars, cleanerVars, registrarVars, faultVars

(* An SREM of a pod's entry removes that entry from that index, or none.   *)
LEMMA SRemRemoves ==
    ASSUME RedisTypeOK, NEW j \in Index, NEW k, NEW p, SRem(j, k, p),
           NEW i \in Index, NEW e \in index[i] \ index'[i]
    PROVE  i = j /\ e = <<k, p>>
  BY Zenon DEF SRem, RedisTypeOK

(***************************************************************************)
(* OnlyMissedPodsLoseEntries, whatever fails.  Each entry is removed by an *)
(* SREM or a flush; the SREM of a session names its own pod, and the one   *)
(* of a registrar or of the cleaner a pod that was missed, by the          *)
(* invariant above.                                                        *)
(***************************************************************************)
THEOREM EntriesOfFoundPodsStay == Spec => OnlyMissedPodsLoseEntries
  <1> DEFINE Kept == \A i \in Index : \A e \in index[i] \ index'[i] :
                        \/ e[2] \in missed
                        \/ flushed' # flushed
                        \/ SRemPending(i, e[1], e[2])
  <1>1. Init => OnlyMissedPodsAreUnregistered
    BY DEF Init, RegistrarInit, CleanerInit, OnlyMissedPodsAreUnregistered
  <1>2. TypeInv /\ OnlyMissedPodsAreUnregistered /\ [Next]_vars => OnlyMissedPodsAreUnregistered'
    BY MissedPodsAreUnregistered, Zenon
  <1>3. TypeInv /\ OnlyMissedPodsAreUnregistered /\ [Next]_vars => [Kept]_vars
    <2> SUFFICES ASSUME TypeInv, OnlyMissedPodsAreUnregistered, Next,
                        NEW i \in Index, NEW e \in index[i] \ index'[i], e[2] \notin missed
                 PROVE  flushed' # flushed \/ SRemPending(i, e[1], e[2])
      BY Zenon
    <2>1. /\ RedisTypeOK /\ regIdx \in [Conn -> Index] /\ sessIdx \in [Conn -> Index]
          /\ cleanIdx \in Index /\ index \in [Index -> SUBSET (Key \X Pod)]
      BY DEF TypeInv, TypeOK, RedisTypeOK, RegistrarTypeOK, SessionTypeOK, CleanerTypeOK
    <2>2. index' # index
      OBVIOUS
    <2>3. ~\E j \in Index, k \in Key, p \in Pod : SAdd(j, k, p)
      BY <2>1, Zenon DEF SAdd
    <2>4. ASSUME NEW c \in Conn, Session(c) PROVE SRemPending(i, e[1], e[2])
      <3>1. PodOf[c] \in Pod /\ KeyOf[c] \in Key /\ sessIdx[c] \in Index
        BY <2>1, ConnAssumption, Zenon
      <3>2. UnregisterSRem(c)
        BY <2>2, <2>3, <2>4, <3>1, ZenonT(30)
        DEF Session, SessionStep, RegisterExists, RegisterSetNX, RegisterSAdd, RegisterLocal,
            RegisterSpawn, RegisterStore, UnregisterDel, UnregisterLocal, UnregisterStop,
            UnregisterDrop, redisVars
      <3>3. i = sessIdx[c] /\ e = <<KeyOf[c], PodOf[c]>>
        BY <2>1, <3>1, <3>2, SRemRemoves, Zenon DEF UnregisterSRem
      <3> QED
        BY <3>1, <3>2, <3>3 DEF UnregisterSRem, SRemPending
    <2>5. ASSUME NEW c \in Conn, Registrar(c) PROVE FALSE
      <3>1. PodOf[c] \in Pod /\ KeyOf[c] \in Key /\ regIdx[c] \in Index
        BY <2>1, ConnAssumption, Zenon
      <3>2. RegistrarSRem(c)
        BY <2>2, <2>3, <2>5, <3>1, Zenon
        DEF Registrar, RegistrarStep, RegistrarDone, RegistrarTick, RegistrarDns, RegistrarDel,
            RegistrarSetNX, RegistrarSAdd, redisVars
      <3>3. e = <<KeyOf[c], seen[c]>>
        BY <2>1, <3>1, <3>2, SRemRemoves, ZenonT(30) DEF RegistrarSRem
      <3> QED
        BY <3>2, <3>3, Zenon DEF RegistrarSRem, OnlyMissedPodsAreUnregistered
    <2>6. CASE Cleaner
      <3>1. CleanerSRem
        BY <2>2, <2>6, Zenon
        DEF Cleaner, CleanerStep, CleanerLookup, CleanerList, CleanerSkip, CleanerDel, CleanerExit, redisVars
      <3>2. e = <<target[1], target[2]>>
        BY <2>1, <3>1, SRemRemoves DEF CleanerSRem
      <3> QED
        BY <3>1, <3>2, Zenon DEF CleanerSRem, OnlyMissedPodsAreUnregistered
    <2>7. CASE Flush
      BY <2>7, Zenon DEF Flush
    <2> QED
      BY <2>2, <2>4, <2>5, <2>6, <2>7 DEF Next, Close, Crash, Restart, redisVars
  <1> QED
    BY <1>1, <1>2, <1>3, TypeInvariance, PTL DEF Spec, OnlyMissedPodsLoseEntries
=============================================================================
