------------------------------ MODULE CloudSync ------------------------------
(***************************************************************************)
(* Cloud sync of the catalog (cloud/service, cloud/state).  A device        *)
(* previews the inventory the cloud has, the user decides about the         *)
(* conflicts, the device applies it and exports the merged inventory.       *)
(* Encryption is the subject of CloudKeys; here a payload is what it        *)
(* decrypts to.  The cloud and its revision check are external.             *)
(***************************************************************************)
EXTENDS Catalog

CONSTANTS
  Imports,    \* identities of previews
  MaxPending  \* MAX_PENDING_IMPORTS

VARIABLES
  sync,    \* each device's known identities and tombstones
  pending, \* each device's previews
  cloud,   \* the inventory the cloud has
  torn,    \* history: devices on which an apply was cut short
  shown    \* history: the local objects in conflict when a preview was shown

syncVars == <<cat, clock, used, sync, pending, cloud, torn, shown>>

(* The devices start in step with the cloud.                                *)
SyncInit ==
  /\ CatalogInit
  /\ sync = [d \in Devices |-> [known |-> used, tombstones |-> <<>>]]
  /\ pending = [d \in Devices |-> <<>>]
  /\ \E d \in Devices : cloud = [objects |-> cat[d], tombstones |-> <<>>]
  /\ torn = {}
  /\ shown = [d \in Devices |-> <<>>]

-----------------------------------------------------------------------------
(* Comparing and merging.                                                   *)

(* What validate_snapshot asks of an inventory.                             *)
validate_snapshot(s) ==
  LET live == DOMAIN s.objects
  IN /\ DOMAIN s.tombstones \cap live = {}
     /\ \A p \in live \cap Servers : s.objects[p].group \in live \cup {NoGroup}
     /\ \A a \in live \cap Apps : s.objects[a].profile \in live

(* A copy that differs and is not newer than the local one.                 *)
classify(remote, local) == remote # local /\ remote.at <= local.at

(* Copies against local copies and local deletions.                         *)
CopyConflicts(s, c, st) ==
  {<<x, c[x].at>> : x \in {y \in DOMAIN s.objects \cap DOMAIN c : classify(s.objects[y], c[y])}}
  \cup {<<x, st.tombstones[x]>> : x \in {y \in (DOMAIN s.objects \cap DOMAIN st.tombstones) \ DOMAIN c :
       s.objects[y].at <= st.tombstones[y]}}

(* Remote deletions against local copies that are not older.                *)
TombstoneConflicts(s, c) ==
  {<<x, c[x].at>> : x \in {y \in DOMAIN s.tombstones \cap DOMAIN c : s.tombstones[y] <= c[y].at}}

(* The objects the user is asked about, with the local time that is shown.  *)
compare_snapshot(s, c, st) == CopyConflicts(s, c, st) \cup TombstoneConflicts(s, c)

(* Every decision is about a conflict that is still the one shown.          *)
validate_decisions(decisions, conflicts) == decisions \subseteq conflicts

Override(decisions) == {e[1] : e \in decisions}

(* The remote copy replaces an older one or one the user gave up; a local   *)
(* deletion holds unless it is older or given up.                           *)
Takes(x, s, c, tombs, over) ==
  \/ x \in over
  \/ IF x \in DOMAIN c THEN s.objects[x].at > c[x].at
     ELSE x \in DOMAIN tombs => s.objects[x].at > tombs[x]

merge_groups(s, c, tombs, over) ==
  LET taken == {g \in DOMAIN s.objects \cap Groups : Takes(g, s, c, tombs, over)}
  IN Over(Part(s.objects, taken), Part(c, Groups))

(* A group that is not here is dropped from the profile.                    *)
merge_profiles(s, c, tombs, groups, over) ==
  LET taken == {p \in DOMAIN s.objects \cap Servers : Takes(p, s, c, tombs, over)}
      Fitted(r) == IF r.group \in DOMAIN groups THEN r ELSE [r EXCEPT !.group = NoGroup]
  IN Over([p \in taken |-> Fitted(s.objects[p])], Part(c, Servers))

merge_deployment_apps(s, c, tombs, profiles, over) ==
  LET kept  == {a \in DOMAIN c \cap Apps : c[a].profile \in DOMAIN profiles}
      local == Part(c, kept)
      taken == {a \in DOMAIN s.objects \cap Apps :
                  s.objects[a].profile \in DOMAIN profiles /\ Takes(a, s, local, tombs, over)}
  IN Over(Part(s.objects, taken), local)

(* The objects of a kind that a remote deletion removes.                    *)
Deleted(kind, s, objects, over) ==
  {x \in DOMAIN s.tombstones \cap DOMAIN objects \cap kind :
     s.tombstones[x] > objects[x].at \/ x \in over}

(* The tombstones after the remote ones of a kind: those that deleted, and  *)
(* those of objects that are not here and that are newer.                   *)
Entombed(kind, s, objects, tombs, over) ==
  LET taken == Deleted(kind, s, objects, over)
        \cup {x \in (DOMAIN s.tombstones \cap kind) \ DOMAIN objects :
                x \in DOMAIN tombs => s.tombstones[x] > tombs[x]}
  IN Over(Part(s.tombstones, taken), tombs)

apply_deployment_app_tombstones(s, apps, over) == Part(apps, Ids \ Deleted(Apps, s, apps, over))

(* With the apps of the profile, whatever their time.                       *)
apply_profile_tombstones(s, profiles, apps, over) ==
  LET dead == Deleted(Servers, s, profiles, over)
  IN [profiles |-> Part(profiles, Ids \ dead),
      orphans  |-> {a \in DOMAIN apps : apps[a].profile \in dead}]

(* Mutant: the profiles of a deleted group keep it.                         *)
KeepGroup(s, groups, profiles, over) ==
  [groups |-> Part(groups, Ids \ Deleted(Groups, s, groups, over)), profiles |-> profiles]

(* The profiles of the group move out of it, at the time of the deletion.   *)
apply_group_tombstones(s, groups, profiles, over) ==
  LET dead == Deleted(Groups, s, groups, over)
  IN [groups   |-> Part(groups, Ids \ dead),
      profiles |-> [p \in DOMAIN profiles |->
         IF profiles[p].group \in dead
           THEN [profiles[p] EXCEPT !.at = s.tombstones[profiles[p].group], !.group = NoGroup]
           ELSE profiles[p]]]

(* The catalog and the tombstones an apply saves.                           *)
Merge(s, c, st, over) ==
  LET groups   == merge_groups(s, c, st.tombstones, over)
      profiles == merge_profiles(s, c, st.tombstones, groups, over)
      apps     == merge_deployment_apps(s, c, st.tombstones, profiles, over)
      merged   == Over(groups, Over(profiles, apps))
      added    == {x \in DOMAIN merged : x \notin DOMAIN c \/ (x \in Apps /\ c[x].profile \notin DOMAIN profiles)}
      tombs0   == Part(st.tombstones, Ids \ added)
      apps1    == apply_deployment_app_tombstones(s, apps, over)
      tombs1   == Entombed(Apps, s, apps, tombs0, over)
      second   == apply_profile_tombstones(s, profiles, apps1, over)
      cascade  == [a \in second.orphans |-> s.tombstones[apps1[a].profile]]
      tombs2   == Entombed(Servers, s, profiles, Over(cascade, tombs1), over)
      third    == apply_group_tombstones(s, groups, second.profiles, over)
      tombs3   == Entombed(Groups, s, groups, tombs2, over)
  IN [objects |-> Over(third.groups, Over(third.profiles, Part(apps1, Ids \ second.orphans))),
      tombstones |-> tombs3]

-----------------------------------------------------------------------------
(* The operations of CloudSyncService.                                      *)

(* What was known and is not here any more was deleted here, at this time;  *)
(* what is here has no tombstone.                                           *)
record_local_deletions(d) ==
  LET here == DOMAIN cat[d]
      lost == sync[d].known \ (here \cup DOMAIN sync[d].tombstones)
  IN [known |-> here,
      tombstones |-> Over([x \in lost |-> now], Part(sync[d].tombstones, Ids \ here))]

(* The inventory is exported and the cloud takes it.                        *)
export(d) ==
  LET st == record_local_deletions(d)
  IN /\ sync' = [sync EXCEPT ![d] = st]
     /\ cloud' = [objects |-> cat[d], tombstones |-> st.tombstones]
     /\ IF \E x \in DOMAIN st.tombstones : st.tombstones[x] = now THEN Tick ELSE UNCHANGED clock
     /\ UNCHANGED <<cat, used, pending, torn, shown>>

(* The cloud's inventory is decrypted, validated, compared and kept.        *)
preview(d, i) ==
  /\ validate_snapshot(cloud)
  /\ i \notin DOMAIN pending[d]
  /\ Cardinality(DOMAIN pending[d]) < MaxPending
  /\ pending' = [pending EXCEPT ![d] = With(@, i, cloud)]
  /\ shown' = [shown EXCEPT ![d] =
       LET items == compare_snapshot(cloud, cat[d], sync[d])
       IN With(@, i, [conflicts |-> items, local |-> Part(cat[d], Override(items))])]
  /\ UNCHANGED <<cat, clock, used, sync, cloud, torn>>

Forget(f, d, i) == [f EXCEPT ![d] = Part(@, DOMAIN @ \ {i})]

(* The user's choices are of what was shown; they are checked again under   *)
(* the lock, against what is here now.                                      *)
Decided(d, i, decisions) ==
  /\ i \in DOMAIN pending[d]
  /\ decisions \subseteq shown[d][i].conflicts
  /\ validate_decisions(decisions, compare_snapshot(pending[d][i], cat[d], sync[d]))

apply(d, i, decisions) ==
  /\ Decided(d, i, decisions)
  /\ LET m == Merge(pending[d][i], cat[d], sync[d], Override(decisions))
     IN /\ cat' = [cat EXCEPT ![d] = m.objects]
        /\ sync' = [sync EXCEPT ![d] = [known |-> DOMAIN m.objects, tombstones |-> m.tombstones]]
  /\ pending' = Forget(pending, d, i) /\ shown' = Forget(shown, d, i)
  /\ UNCHANGED <<clock, used, cloud, torn>>

(* The process dies, or a save and its rollback fail, after some of the     *)
(* four saves: groups, profiles, apps, sync state.  Bound: once.            *)
apply_torn(d, i, decisions, saved) ==
  /\ torn = {} /\ Decided(d, i, decisions)
  /\ LET m == Merge(pending[d][i], cat[d], sync[d], Override(decisions))
         new == CASE saved = 1 -> Groups [] saved = 2 -> Groups \cup Servers [] saved = 3 -> Ids
     IN cat' = [cat EXCEPT ![d] = Over(Part(m.objects, new), Part(@, Ids \ new))]
  /\ torn' = torn \cup {d}
  /\ UNCHANGED <<clock, used, sync, pending, cloud, shown>>

discard(d, i) ==
  /\ i \in DOMAIN pending[d]
  /\ pending' = Forget(pending, d, i) /\ shown' = Forget(shown, d, i)
  /\ UNCHANGED <<cat, clock, used, sync, cloud, torn>>

(* Previews are in memory only.                                             *)
restart(d) ==
  /\ pending[d] # <<>>
  /\ pending' = [pending EXCEPT ![d] = <<>>] /\ shown' = [shown EXCEPT ![d] = <<>>]
  /\ UNCHANGED <<cat, clock, used, sync, cloud, torn>>

(* An edit by the user.                                                     *)
Edit(d) ==
  /\ GroupEdit(d) \/ ProfileEdit(d) \/ AppEdit(d) \/ Import(d)
  /\ UNCHANGED <<sync, pending, cloud, torn, shown>>

SyncNext ==
  \E d \in Devices :
    \/ Edit(d) \/ export(d) \/ restart(d)
    \/ \E i \in Imports : preview(d, i) \/ discard(d, i)
    \/ \E i \in Imports : \E decisions \in SUBSET (IF i \in DOMAIN shown[d] THEN shown[d][i].conflicts ELSE {}) :
         apply(d, i, decisions) \/ \E saved \in 1..3 : apply_torn(d, i, decisions, saved)

SyncSpec == SyncInit /\ [][SyncNext]_syncVars

-----------------------------------------------------------------------------

(* A profile's group is in the catalog of its device, whatever edits,       *)
(* imports and merges ran, unless an apply was cut short between its saves  *)
(* (apply saves the groups before the profiles that leave them).            *)
GroupsResolve ==
  \A d \in Devices \ torn : \A p \in DOMAIN cat[d] \cap Servers :
    cat[d][p].group \in DOMAIN cat[d] \cup {NoGroup}

(* An object that was deleted on a device, since its last sync, is not put  *)
(* back there by an import.                                                 *)
DeletionsAreKept ==
  [][\A d \in Devices : (DOMAIN cat'[d] \ DOMAIN cat[d]) \cap sync[d].known = {}]_syncVars
==============================================================================
