------------------------------- MODULE MCCloud -------------------------------
(* The three parts of the cloud client share no state: a behaviour is one   *)
(* of sync, of keys or of policy.                                           *)
EXTENDS CloudSync, CloudKeys, CloudPolicy, TLC

CONSTANTS aGroup, aServer, anApp, aHost

VARIABLE part

(* Nothing yet, or a server in a group, with an app.                        *)
EmptyOrOneServer ==
  {<<>>,
   aGroup :> [at |-> 0, host |-> aHost]
     @@ aServer :> [at |-> 0, host |-> aHost, group |-> aGroup, route |-> DirectRoute]
     @@ anApp :> [at |-> 0, host |-> aHost, profile |-> aServer]}

Symmetry == Permutations(Devices)

MCInit == SyncInit /\ KeysInit /\ PolicyInit /\ part \in {"sync", "keys", "policy"}

MCNext ==
  /\ UNCHANGED part
  /\ \/ part = "sync" /\ SyncNext /\ UNCHANGED <<keyVars, policyVars>>
     \/ part = "keys" /\ KeysNext /\ UNCHANGED <<syncVars, policyVars>>
     \/ part = "policy" /\ PolicyNext /\ UNCHANGED <<syncVars, keyVars>>

MCSpec == MCInit /\ [][MCNext]_<<syncVars, keyVars, policyVars, part>>
==============================================================================
