-------------------------- MODULE ConnectionCleaner --------------------------
(***************************************************************************)
(* The cron job that removes the registrations of pods that are gone       *)
(* (cmd/connection_cleaner/main.go).  It looks up the running pods, then   *)
(* lists the connections, then unregisters each one whose pod was not in   *)
(* the answer: by key, whatever Redis holds by then.  Each run is a new    *)
(* process.                                                                *)
(***************************************************************************)
EXTENDS GatewayConnectionRegistrar

VARIABLES
    clean,          \* idle, list, loop, srem
    running,        \* the pods of the DNS answer
    listed,         \* key -> host, what is left of the listing
    target,         \* the (key, host) being unregistered
    cleanIdx        \* its next index command

cleanerVars == <<clean, running, listed, target, cleanIdx>>

NoListing == [k \in Key |-> NoPod]

CleanerTypeOK ==
    /\ clean \in {"idle", "list", "loop", "srem"}
    /\ running \subseteq Pod
    /\ listed \in [Key -> Pod \cup {NoPod}]
    /\ target \in (Key \X Pod) \cup {<<>>}
    /\ cleanIdx \in Index

CleanerInit ==
    /\ clean = "idle"
    /\ running = {}
    /\ listed = NoListing
    /\ target = <<>>
    /\ cleanIdx = 1

\* getRunningPods; a lookup that fails ends the run at once.
CleanerLookup ==
    /\ clean = "idle"
    /\ \/ /\ running' \in DnsAnswer
          /\ clean' = "list"
       \/ /\ "dns" \in Faults
          /\ UNCHANGED <<running, clean>>
    /\ UNCHANGED <<redisVars, listed, target, cleanIdx>>

\* GetAllRedisConnections; an error ends the run.
CleanerList ==
    /\ clean = "list"
    /\ \/ /\ listed' \in GetAllRedisConnections
          /\ clean' = "loop"
          /\ UNCHANGED running
       \/ /\ RedisUnreliable
          /\ clean' = "idle"
          /\ running' = {}
          /\ UNCHANGED listed
    /\ UNCHANGED <<redisVars, target, cleanIdx>>

\* processConnection: skip the connections of running pods.
CleanerSkip(k) ==
    /\ clean = "loop"
    /\ listed[k] \in running
    /\ listed' = [listed EXCEPT ![k] = NoPod]
    /\ UNCHANGED <<redisVars, clean, running, target, cleanIdx>>

\* Mutant: the connections of running pods are not skipped.
CleanerDel_All(k) ==
    /\ clean = "loop"
    /\ listed[k] # NoPod
    /\ Del(k)
    /\ target' = <<k, listed[k]>>
    /\ listed' = [listed EXCEPT ![k] = NoPod]
    /\ clean' = "srem"
    /\ UNCHANGED <<index, running, cleanIdx>>

\* Mutant: the entry is only reported.
CleanerDel_Reports(k) ==
    /\ clean = "loop"
    /\ listed[k] \notin running \cup {NoPod}
    /\ listed' = [listed EXCEPT ![k] = NoPod]
    /\ UNCHANGED <<redisVars, clean, running, target, cleanIdx>>

\* processConnection: UnregisterWithRedis, the DEL.
CleanerDel(k) ==
    /\ clean = "loop"
    /\ listed[k] \notin running \cup {NoPod}
    /\ Del(k)
    /\ target' = <<k, listed[k]>>
    /\ listed' = [listed EXCEPT ![k] = NoPod]
    /\ clean' = "srem"
    /\ UNCHANGED <<index, running, cleanIdx>>

\* processConnection: UnregisterWithRedis, the SREMs.
CleanerSRem ==
    /\ clean = "srem"
    /\ SRem(cleanIdx, target[1], target[2])
    /\ IF cleanIdx = NumIndexes
       THEN clean' = "loop" /\ cleanIdx' = 1 /\ target' = <<>>
       ELSE clean' = clean /\ cleanIdx' = cleanIdx + 1 /\ target' = target
    /\ UNCHANGED <<redis, running, listed>>

CleanerExit ==
    /\ clean = "loop"
    /\ listed = NoListing
    /\ clean' = "idle"
    /\ running' = {}
    /\ UNCHANGED <<redisVars, listed, target, cleanIdx>>

CleanerStep ==
    \/ CleanerLookup
    \/ CleanerList
    \/ \E k \in Key : CleanerSkip(k) \/ CleanerDel(k)
    \/ CleanerSRem
    \/ CleanerExit
=============================================================================
