----------------------- MODULE AbstractRegistry_proofs -----------------------
(***************************************************************************)
(* ConnectionRegistry implements AbstractRegistry, for any sets of pods,   *)
(* nodes and sessions, where Redis may lose commands or replies but no pod *)
(* dies, the lookups of running pods are right and Redis keeps its data.   *)
(***************************************************************************)
EXTENDS ConnectionRegistry_proofs

(* The phases of the sessions that the refinement mapping shows.           *)
PhaseMap == [c \in Conn |-> PhaseOf(c)]

(* A session's phase is one of the three, and "owner" is Holding.          *)
LEMMA PhaseIsPlace ==
    ASSUME SessionTypeOK, NEW c \in Conn
    PROVE  /\ PhaseMap[c] = "waiting" <=> sess[c] \in {"new", "setnx"}
           /\ PhaseMap[c] = "owner" <=> Holding(c)
           /\ PhaseMap[c] = "gone" <=> ~Holding(c) /\ sess[c] \notin {"new", "setnx"}
  BY DEF PhaseMap, PhaseOf, Holding, SessionTypeOK, SessPlace

(* A session's step that changes neither its phase nor Redis is a stutter. *)
LEMMA SamePhaseStutters ==
    ASSUME SessionTypeOK, SessionTypeOK', NEW c \in Conn, redis' = redis,
           \A d \in Conn : d # c => sess'[d] = sess[d],
           PhaseOf(c)' = PhaseOf(c)
    PROVE  UNCHANGED <<PhaseMap, redis>>
  <1>1. \A d \in Conn : PhaseOf(d)' = PhaseOf(d)
    BY DEF PhaseOf, Holding
  <1> QED
    BY <1>1 DEF PhaseMap

(* A session that moves to another phase changes only its own.             *)
LEMMA PhaseMoves ==
    ASSUME SessionTypeOK, SessionTypeOK', NEW c \in Conn,
           \A d \in Conn : d # c => sess'[d] = sess[d]
    PROVE  PhaseMap' = [PhaseMap EXCEPT ![c] = PhaseOf(c)']
  <1>1. \A d \in Conn : d # c => PhaseOf(d)' = PhaseOf(d)
    BY DEF PhaseOf, Holding
  <1> QED
    BY <1>1 DEF PhaseMap

(***************************************************************************)
(* Every command of Register and Unregister is a step of the abstract      *)
(* registry or a stutter: the SETNX acquires or rejects, the DEL releases. *)
(***************************************************************************)
LEMMA SessionRefines ==
    ASSUME TypeInv, TypeInv', UniqueRegistration, NEW c \in Conn, Session(c)
    PROVE  Abstract!Next \/ UNCHANGED Abstract!vars
  <1>1. /\ SessionTypeOK /\ SessionTypeOK'
        /\ redis \in [Key -> Pod \cup {NoPod}]
        /\ sess \in [Conn -> SessPlace]
        /\ PodOf[c] \in Pod /\ KeyOf[c] \in Key /\ PodOf[c] # NoPod
    BY ConnAssumption, RedisAssumption DEF TypeInv, TypeOK, SessionTypeOK, RedisTypeOK
  <1>2. \A d \in Conn : d # c => sess'[d] = sess[d]
    BY <1>1, SessionMovesAlone
  <1>3. PhaseMap' = [PhaseMap EXCEPT ![c] = PhaseOf(c)']
    BY <1>1, <1>2, PhaseMoves
  <1>4. ASSUME redis[KeyOf[c]] = NoPod PROVE ~Abstract!Owned(KeyOf[c])
    <2>1. ASSUME NEW d \in Conn, KeyOf[d] = KeyOf[c] PROVE PhaseMap[d] # "owner"
      <3>1. ~Holding(d)
        BY <1>4, <2>1, ConnAssumption, RedisAssumption DEF UniqueRegistration, HolderIsInRedis
      <3> QED
        BY <1>1, <3>1, PhaseIsPlace
    <2> QED
      BY <2>1 DEF Abstract!Owned, PhaseMap
  <1>5. CASE redis' = redis /\ PhaseOf(c)' = PhaseOf(c)
    BY <1>1, <1>2, <1>5, SamePhaseStutters DEF PhaseMap, Abstract!vars
  <1>6. CASE redis' = redis /\ sess[c] \in {"new", "setnx"} /\ sess'[c] = "closed"
    <2>1. PhaseMap[c] = "waiting" /\ PhaseOf(c)' = "gone"
      BY <1>1, <1>6, PhaseIsPlace DEF PhaseOf, Holding
    <2>2. Abstract!Reject(c)
      BY <1>3, <1>6, <2>1 DEF Abstract!Reject, PhaseMap
    <2> QED
      BY <2>2 DEF Abstract!Next
  <1>7. CASE RegisterExists(c)
    <2>1. redis' = redis /\ sess[c] = "new" /\ sess'[c] \in {"closed", "setnx"}
      BY <1>1, <1>7 DEF RegisterExists, SessGoto, redisVars
    <2>2. sess'[c] = "setnx" => PhaseOf(c)' = PhaseOf(c)
      BY <2>1 DEF PhaseOf
    <2> QED
      BY <1>5, <1>6, <2>1, <2>2
  <1>8. CASE RegisterSetNX(c)
    <2>1. CASE SetNXOk(KeyOf[c], PodOf[c]) /\ sess[c] = "setnx" /\ sess'[c] = "sadd"
      <3>1. PhaseMap[c] = "waiting" /\ PhaseOf(c)' = "owner"
        BY <1>1, <2>1, PhaseIsPlace DEF PhaseOf, Holding
      <3>2. Abstract!Acquire(c)
        BY <1>3, <1>4, <2>1, <3>1 DEF Abstract!Acquire, SetNXOk, PhaseMap
      <3> QED
        BY <3>2 DEF Abstract!Next
    <2>2. CASE SetNXTaken(KeyOf[c]) /\ sess[c] = "setnx" /\ sess'[c] = "closed"
      BY <1>6, <2>2 DEF SetNXTaken
    <2>3. CASE SetNXError(KeyOf[c], PodOf[c]) /\ sess[c] = "setnx" /\ sess'[c] = "closed"
      <3>1. CASE redis' = redis
        BY <1>6, <2>3, <3>1
      <3>2. CASE SetNXOk(KeyOf[c], PodOf[c])
        <4>1. PhaseMap[c] = "waiting" /\ PhaseOf(c)' = "gone"
          BY <1>1, <2>3, PhaseIsPlace DEF PhaseOf, Holding
        <4>2. Abstract!Stray(KeyOf[c])
          BY <1>1, <1>3, <1>4, <3>2, <4>1 DEF Abstract!Stray, SetNXOk, PhaseMap
        <4> QED
          BY <1>1, <4>2 DEF Abstract!Next
      <3> QED
        BY <2>3, <3>1, <3>2 DEF SetNXError
    <2> QED
      BY <1>1, <1>8, <2>1, <2>2, <2>3 DEF RegisterSetNX, SessGoto
  <1>9. CASE UnregisterDel(c)
    <2>1. Holding(c) /\ sess'[c] = "srem"
      BY <1>1, <1>9 DEF UnregisterDel, SessGoto, Holding
    <2>2. PhaseMap[c] = "owner" /\ PhaseOf(c)' = "gone"
      BY <1>1, <2>1, PhaseIsPlace DEF PhaseOf, Holding
    <2>3. Abstract!Release(c)
      BY <1>3, <1>9, <2>2 DEF UnregisterDel, Del, Abstract!Release, PhaseMap
    <2> QED
      BY <2>3 DEF Abstract!Next
  <1>10. /\ RegisterSAdd(c) \/ RegisterLocal(c) \/ RegisterSpawn(c)
            \/ RegisterStore(c) => redis' = redis /\ PhaseOf(c)' = PhaseOf(c)
         /\ UnregisterSRem(c) \/ UnregisterLocal(c) \/ UnregisterStop(c)
            \/ UnregisterDrop(c) => redis' = redis /\ PhaseOf(c)' = PhaseOf(c)
    BY <1>1 DEF RegisterSAdd, RegisterLocal, RegisterSpawn, RegisterStore, UnregisterSRem,
                UnregisterLocal, UnregisterStop, UnregisterDrop, SessGoto, SessNextIndex,
                redisVars, PhaseOf, Holding
  <1> QED
    BY <1>5, <1>7, <1>8, <1>9, <1>10 DEF Session, SessionStep

(***************************************************************************)
(* A registrar changes Redis only by a SETNX on a node that nobody owns.   *)
(***************************************************************************)
LEMMA RegistrarRefines ==
    ASSUME TypeInv, NoTakeover, UniqueRegistration, NEW c \in Conn, Registrar(c)
    PROVE  Abstract!Next \/ UNCHANGED Abstract!vars
  <1>1. /\ SessionTypeOK
        /\ PodOf[c] \in Pod /\ KeyOf[c] \in Key
    BY ConnAssumption DEF TypeInv, TypeOK
  <1>2. PhaseMap' = PhaseMap
    BY DEF Registrar, sessionVars, PhaseMap, PhaseOf, Holding
  <1>3. CASE redis' = redis
    BY <1>2, <1>3 DEF Abstract!vars, PhaseMap
  <1>4. CASE SetNXOk(KeyOf[c], PodOf[c])
    <2>1. ~Abstract!Owned(KeyOf[c])
      <3>1. ASSUME NEW d \in Conn, KeyOf[d] = KeyOf[c] PROVE PhaseMap[d] # "owner"
        <4>1. ~Holding(d)
          BY <1>4, <3>1, ConnAssumption, RedisAssumption
          DEF SetNXOk, UniqueRegistration, HolderIsInRedis
        <4> QED
          BY <1>1, <4>1, PhaseIsPlace
      <3> QED
        BY <3>1 DEF Abstract!Owned, PhaseMap
    <2>2. Abstract!Stray(KeyOf[c])
      BY <1>1, <1>2, <1>4, <2>1 DEF Abstract!Stray, SetNXOk, PhaseMap
    <2> QED
      BY <1>1, <2>2 DEF Abstract!Next
  <1>5. ~RegistrarDel(c)
    BY DEF NoTakeover, RegistrarDel
  <1> QED
    BY <1>3, <1>4, <1>5
    DEF Registrar, RegistrarStep, RegistrarDone, RegistrarTick, RegistrarDns, RegistrarSRem,
        RegistrarSetNX, RegistrarSAdd, SetNXTaken, SetNXError, redisVars

(***************************************************************************)
(* ImplementsAbstractRegistry: the initial states map to initial states,   *)
(* and given the invariants behind UniqueRegistration every step maps to a *)
(* step of the abstract registry or to a stutter.                          *)
(***************************************************************************)
THEOREM RegistryImplementsAbstract ==
    ASSUME Faults \subseteq {"redis"}
    PROVE  Spec => ImplementsAbstractRegistry
  <1> DEFINE Inv == TypeInv /\ NoTakeover /\ UniqueRegistration
  <1>1. Init => Abstract!Init
    BY DEF Init, SessionInit, RedisInit, Abstract!Init, PhaseOf
  <1>2. Inv /\ TypeInv' /\ [Next]_vars => [Abstract!Next]_(Abstract!vars)
    <2> SUFFICES ASSUME Inv, TypeInv', [Next]_vars
                 PROVE  Abstract!Next \/ UNCHANGED Abstract!vars
      OBVIOUS
    <2>1. "flush" \notin Faults /\ "crash" \notin Faults
      OBVIOUS
    <2>2. CASE UNCHANGED <<redis, sess>>
      BY <2>2 DEF Abstract!vars, PhaseOf, Holding
    <2>3. CASE Cleaner
      <3>1. \A k \in Key : ~CleanerDel(k)
        BY DEF NoTakeover, CleanerDel, TypeInv, TypeOK, CleanerTypeOK
      <3> QED
        BY <2>2, <2>3, <3>1 DEF Cleaner, CleanerStep, CleanerLookup, CleanerList,
                                CleanerSkip, CleanerSRem, CleanerExit, redisVars, sessionVars
    <2> QED
      BY <2>1, <2>2, <2>3, SessionRefines, RegistrarRefines
      DEF Next, Close, Crash, Restart, Flush, vars, redisVars, sessionVars
  <1>3. Spec => []NoTakeover
    <2>1. Init => NoTakeover
      BY DEF Init, RegistrarInit, CleanerInit, NoTakeover
    <2>2. TypeInv /\ NoTakeover /\ [Next]_vars => NoTakeover'
      BY TakeoverNeedsFault
    <2> QED
      BY <2>1, <2>2, TypeInvariance, PTL DEF Spec
  <1> QED
    BY <1>1, <1>2, <1>3, TypeInvariance, RegistrationIsUnique, PTL
    DEF Spec, ImplementsAbstractRegistry, Abstract!Spec
=============================================================================
