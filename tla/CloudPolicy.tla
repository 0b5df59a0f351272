----------------------------- MODULE CloudPolicy -----------------------------
(***************************************************************************)
(* Cloud policy (cloud/policy): an organization that manages a device's     *)
(* profiles decides what may be done with them.  A decision is signed, has  *)
(* a limited life and is cached; authorize() asks online and falls back to  *)
(* the cache.  Asking takes time, in which the device may be bound to       *)
(* another organization or unbound.  One kind of action stands for all.     *)
(***************************************************************************)
EXTENDS Naturals, FiniteSets

CONSTANTS
  Orgs,
  Managed,   \* identities of profiles
  Calls,     \* calls of authorize() in progress
  Lifetime,  \* MAX_DECISION_TTL_SECONDS
  Patience,  \* what an online request may take
  LastTick   \* bound on the clock

NoOrg == "none"

VARIABLES
  assigned,  \* the profiles that were assigned, in memory
  managing,  \* the organization that manages the device, in memory
  signedIn,  \* whether there is a credential
  cache,     \* cached decisions, in memory
  disk,      \* the saved state
  rule,      \* what each organization's rules say of a profile now
  call,      \* what each call is doing
  time,
  bound,     \* history: the organization the user bound the device to
  emptied    \* history: the device was left without profiles while bound

policyVars == <<assigned, managing, signedIn, cache, disk, rule, call, time, bound, emptied>>

Quiet == [pc |-> "quiet"]

(* The saved form has the managing organization only on a list of profiles. *)
persisted_state(profiles, org, decisions) ==
  [assigned |-> profiles, managing |-> IF profiles = {} THEN NoOrg ELSE org, cache |-> decisions]

PolicyInit ==
  /\ assigned = {} /\ managing = NoOrg /\ signedIn = FALSE /\ cache = {}
  /\ disk = persisted_state({}, NoOrg, {})
  /\ rule = [o \in Orgs |-> [p \in Managed |-> TRUE]]
  /\ call = [c \in Calls |-> Quiet]
  /\ time = 0 /\ bound = NoOrg /\ emptied = FALSE

Save(profiles, org, decisions) ==
  /\ assigned' = profiles /\ managing' = org /\ cache' = decisions
  /\ disk' = persisted_state(profiles, org, decisions)

(* Mutant: the time is not looked at.                                       *)
VerifyContext(d, o, p, now) == d.org = o /\ d.profile = p

(* Signed for this organization and profile, and not expired at that time.  *)
verify_decision(d, o, p, now) ==
  /\ d.org = o /\ d.profile = p
  /\ d.issued + Lifetime > now

(* The user binds the device; what was cached is dropped.                   *)
bind(o, profiles) ==
  /\ profiles # {}
  /\ Save(profiles, o, {})
  /\ signedIn' = TRUE /\ bound' = o /\ emptied' = FALSE
  /\ UNCHANGED <<rule, call, time>>

unbind(o) ==
  /\ Save(IF managing = o THEN {} ELSE assigned, IF managing = o THEN NoOrg ELSE managing,
          {d \in cache : d.org # o})
  /\ signedIn' = (signedIn /\ managing # o)
  /\ bound' = IF bound = o THEN NoOrg ELSE bound
  /\ UNCHANGED <<rule, call, time, emptied>>

refresh == signedIn' = TRUE /\ UNCHANGED <<assigned, managing, cache, disk, rule, call, time, bound, emptied>>

lock == signedIn' = FALSE /\ UNCHANGED <<assigned, managing, cache, disk, rule, call, time, bound, emptied>>

(* The catalog changed.                                                     *)
reconcile_profiles(profiles) ==
  /\ managing # NoOrg
  /\ Save(profiles, managing, {d \in cache : d.profile \in profiles})
  /\ emptied' = (emptied \/ profiles = {})
  /\ UNCHANGED <<signedIn, rule, call, time, bound>>

(* A restart: the saved state is read, decisions that do not verify are     *)
(* dropped, and there is no credential.                                     *)
load ==
  /\ assigned' = disk.assigned /\ managing' = disk.managing
  /\ cache' = {d \in disk.cache : verify_decision(d, d.org, d.profile, time)}
  /\ signedIn' = FALSE /\ call' = [c \in Calls |-> Quiet]
  /\ UNCHANGED <<disk, rule, time, bound, emptied>>

(* A profile nobody manages is free; else the organization is asked online  *)
(* or the cache.  The time is taken once, here: what the call is answered,  *)
(* at once or later, is verified against it.                                *)
authorize(c, p) ==
  /\ call[c] = Quiet
  /\ call' = [call EXCEPT ![c] =
       IF managing = NoOrg THEN [pc |-> "granted", org |-> bound, profile |-> p, since |-> time]
       ELSE [pc |-> IF signedIn THEN "asked" ELSE "offline", org |-> managing, profile |-> p, since |-> time]]
  /\ UNCHANGED <<assigned, managing, signedIn, cache, disk, rule, time, bound, emptied>>

(* The organization's answer, signed at this time.                          *)
authorize_online(c) ==
  /\ call[c].pc = "asked" /\ time <= call[c].since + Patience
  /\ call' = [call EXCEPT ![c] =
       [pc |-> "answered", org |-> @.org, profile |-> @.profile, since |-> @.since,
        decision |-> [org |-> @.org, profile |-> @.profile, allowed |-> rule[@.org][@.profile], issued |-> time]]]
  /\ UNCHANGED <<assigned, managing, signedIn, cache, disk, rule, time, bound, emptied>>

NoAnswer(c) ==
  /\ call[c].pc = "asked"
  /\ call' = [call EXCEPT ![c].pc = "offline"]
  /\ UNCHANGED <<assigned, managing, signedIn, cache, disk, rule, time, bound, emptied>>

Result(c, allowed) ==
  [pc |-> IF allowed THEN "granted" ELSE "refused",
   org |-> call[c].org, profile |-> call[c].profile, since |-> call[c].since]

(* A verified answer is cached, over the one that was, and decides.         *)
persist_cached_decision(c) ==
  /\ call[c].pc = "answered"
  /\ LET d == call[c].decision
     IN IF verify_decision(d, call[c].org, call[c].profile, call[c].since)
        THEN /\ Save(assigned, managing, {e \in cache : e.org # d.org \/ e.profile # d.profile} \cup {d})
             /\ call' = [call EXCEPT ![c] = Result(c, d.allowed)]
        ELSE /\ call' = [call EXCEPT ![c].pc = "offline"]
             /\ UNCHANGED <<assigned, managing, cache, disk>>
  /\ UNCHANGED <<signedIn, rule, time, bound, emptied>>

cached_result(c) ==
  /\ call[c].pc = "offline"
  /\ call' = [call EXCEPT ![c] =
       Result(c, \E d \in cache : verify_decision(d, @.org, @.profile, @.since) /\ d.allowed)]
  /\ UNCHANGED <<assigned, managing, signedIn, cache, disk, rule, time, bound, emptied>>

Done(c) ==
  /\ call[c].pc \in {"granted", "refused"}
  /\ call' = [call EXCEPT ![c] = Quiet]
  /\ UNCHANGED <<assigned, managing, signedIn, cache, disk, rule, time, bound, emptied>>

(* The organization changes its mind; time passes.                          *)
RuleChanges(o, p) ==
  /\ rule' = [rule EXCEPT ![o][p] = ~@]
  /\ UNCHANGED <<assigned, managing, signedIn, cache, disk, call, time, bound, emptied>>

Pass ==
  /\ time < LastTick /\ time' = time + 1
  /\ UNCHANGED <<assigned, managing, signedIn, cache, disk, rule, call, bound, emptied>>

PolicyNext ==
  \/ \E o \in Orgs, profiles \in SUBSET Managed : bind(o, profiles)
  \/ \E o \in Orgs : unbind(o)
  \/ \E profiles \in SUBSET Managed : reconcile_profiles(profiles)
  \/ refresh \/ lock \/ load \/ Pass
  \/ \E o \in Orgs, p \in Managed : RuleChanges(o, p)
  \/ \E c \in Calls, p \in Managed : authorize(c, p)
  \/ \E c \in Calls : authorize_online(c) \/ NoAnswer(c) \/ persist_cached_decision(c) \/ cached_result(c) \/ Done(c)

PolicySpec == PolicyInit /\ [][PolicyNext]_policyVars

-----------------------------------------------------------------------------

(* While the user has the device bound to an organization, an action is     *)
(* granted only on a decision of it that allows this profile and had not    *)
(* expired when the action was asked for: through lost credentials,         *)
(* restarts, a change of organization and answers that arrive late.  It may *)
(* have expired since, in the seconds of the online request or on the way   *)
(* to the cache.  (A device that was left without any profile forgets its   *)
(* organization when it restarts: persisted_state.)                         *)
GrantsAreDecided ==
  [][\A c \in Calls :
       call'[c].pc = "granted" /\ call[c].pc # "granted" /\ bound # NoOrg /\ ~emptied =>
         \E d \in cache' : /\ d.org = call'[c].org /\ d.profile = call'[c].profile
                           /\ d.allowed /\ call'[c].since < d.issued + Lifetime]_policyVars
==============================================================================
