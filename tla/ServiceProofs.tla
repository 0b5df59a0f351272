---------------------------- MODULE ServiceProofs ----------------------------
(***************************************************************************)
(* What the services that keep records beside a server guarantee, for any   *)
(* records, requests and servers: deployed apps own what they are set up as *)
(* (Deployment), the engine's settings are one request's (Docker), a repair *)
(* is the one an incident was bound to (Incidents), a saved profile's       *)
(* secret can be read (ModelGateway), and a panel is sent what the agent's  *)
(* log says (AgentStore).                                                   *)
(***************************************************************************)
EXTENDS AgentStore, Deployment, Docker, Incidents, ModelGateway,
        FiniteSetTheorems, TLAPS

-----------------------------------------------------------------------------
(* Deployed applications.                                                   *)

(* A row of the table: a reverse proxy's path is its slug, and a unit may   *)
(* be the request's or the program's.                                       *)
StoredRow == [kind : Kinds, name : Names, path : Paths \cup {NoPath} \cup {Slug[n] : n \in Names},
              config : Ports \cup {0},
              restart : Services \cup {NoService} \cup (Kinds \X {Slug[n] : n \in Names}),
              status : Statuses, step : Steps]

(* What the checks of a save leave of one row: what is not a draft has its  *)
(* configuration, and a unit the program chose is that of kind and slug.    *)
RowSound(r) ==
  /\ RuntimeValid(r) /\ SiteValid(r)
  /\ UnitNamed(r) => r.restart = <<r.kind, Slug[r.name]>>

(* The inductive invariant: every row is sound, and no two rows conflict,   *)
(* in either order.                                                         *)
RowsInv ==
  /\ rows \in [DOMAIN rows -> StoredRow]
  /\ \A a \in DOMAIN rows : RowSound(rows[a])
  /\ \A a, b \in DOMAIN rows : a # b => ~ Conflict(rows[a], rows[b])

LEMMA RowsInvIsEnough == RowsInv => OneOwnerPerService
<1> SUFFICES ASSUME RowsInv, NEW a \in DOMAIN rows, NEW b \in DOMAIN rows, a # b
             PROVE  /\ rows[a].name # rows[b].name /\ rows[a].path # rows[b].path
                    /\ OwnUnit(rows[a]) = OwnUnit(rows[b]) => OwnUnit(rows[a]) = NoService
                    /\ rows[a].kind = rows[b].kind /\ rows[a].kind \in SiteKinds
                         => Slug[rows[a].name] # Slug[rows[b].name]
                    /\ rows[a].kind = rows[b].kind /\ rows[a].status # "draft" /\ rows[b].status # "draft"
                         => rows[a].kind \in FreeKinds \cup {"python"} \/ rows[a].config # rows[b].config
  BY DEF OneOwnerPerService
<1>1. ~ Conflict(rows[a], rows[b])  BY DEF RowsInv
<1>2. /\ rows[a] \in StoredRow /\ rows[b] \in StoredRow /\ RowSound(rows[a]) /\ RowSound(rows[b])
  BY DEF RowsInv
<1>3. rows[a].kind \in UnitKinds \cup SiteKinds \cup FreeKinds  BY <1>2, KindsAssumption DEF StoredRow
<1>4. rows[a].kind \notin FreeKinds /\ rows[a].status # "draft" => rows[a].config # 0
  BY <1>2, <1>3 DEF RowSound, RuntimeValid, SiteValid, UnitKinds, SiteKinds
<1>5. rows[a].kind \in UnitKinds \cup SiteKinds => rows[a].kind \notin FreeKinds
  BY DEF UnitKinds, SiteKinds, FreeKinds
<1>6. ASSUME OwnUnit(rows[a]) = OwnUnit(rows[b]), OwnUnit(rows[a]) # NoService  PROVE FALSE
  <2>1. UnitNamed(rows[a]) /\ UnitNamed(rows[b]) /\ rows[a].restart = rows[b].restart  BY <1>6 DEF OwnUnit
  <2>2. rows[a].kind = rows[b].kind /\ Slug[rows[a].name] = Slug[rows[b].name]  BY <1>2, <2>1 DEF RowSound
  <2>3. rows[a].kind \notin FreeKinds  BY <1>5, <2>1 DEF UnitNamed
  <2>4. QED  BY <1>1, <2>2, <2>3 DEF Conflict, ServiceConflict
<1>7. QED  BY <1>1, <1>4, <1>5, <1>6 DEF Conflict, ServiceConflict

LEMMA StoredFields ==
  ASSUME NEW r \in Row(Kinds), RuntimeValid(r), SiteValid(r)
  PROVE  Stored(r) \in StoredRow /\ RowSound(Stored(r))
<1> DEFINE new == Stored(r)
<1>1. /\ new.kind = r.kind /\ new.name = r.name /\ new.config = r.config /\ new.status = r.status
      /\ new.step = r.step /\ (UnitNamed(r) => new.restart = <<r.kind, Slug[r.name]>>)
  BY DEF Stored, Row
<1>2. new \in StoredRow
  <2>1. r.kind \in Kinds /\ r.name \in Names  BY DEF Row
  <2>2. <<r.kind, Slug[r.name]>> \in Kinds \X {Slug[n] : n \in Names}  BY <2>1
  <2>3. QED  BY <2>1, <2>2 DEF Stored, Row, StoredRow
<1>3. RuntimeValid(new) /\ SiteValid(new)  BY <1>1 DEF RuntimeValid, SiteValid
<1>4. UnitNamed(new) <=> UnitNamed(r)  BY <1>1 DEF UnitNamed
<1>5. QED  BY <1>1, <1>2, <1>3, <1>4 DEF RowSound

LEMMA ConflictIsSymmetric ==
  ASSUME NEW r, NEW s
  PROVE  Conflict(r, s) <=> Conflict(s, r)
BY DEF Conflict, ServiceConflict

LEMMA UpsertStep ==
  ASSUME RowsInv, NEW id \in AppIds, NEW r \in Row(Kinds), upsert_with_runtimes(id, r)
  PROVE  RowsInv'
<1> DEFINE new == Stored(r)
<1>1. new \in StoredRow /\ RowSound(new)  BY StoredFields DEF upsert_with_runtimes
<1>2. \A o \in DOMAIN rows \ {id} : ~ Conflict(new, rows[o])  BY DEF upsert_with_runtimes
<1>3. rows' = Put(rows, id, new)  BY DEF upsert_with_runtimes
<1> HIDE DEF new
<1>4. /\ DOMAIN rows' = DOMAIN rows \cup {id}
      /\ \A a \in DOMAIN rows' : rows'[a] = IF a = id THEN new ELSE rows[a]
      /\ rows' \in [DOMAIN rows' -> StoredRow]
  BY <1>1, <1>3 DEF Put, RowsInv
<1>5. \A a \in DOMAIN rows' : RowSound(rows'[a])  BY <1>1, <1>4 DEF RowsInv
<1>6. \A a, b \in DOMAIN rows' : a # b => ~ Conflict(rows'[a], rows'[b])
  <2> SUFFICES ASSUME NEW a \in DOMAIN rows', NEW b \in DOMAIN rows', a # b
               PROVE  ~ Conflict(rows'[a], rows'[b])
    OBVIOUS
  <2>1. CASE a = id  BY <1>2, <1>4, <2>1
  <2>2. CASE b = id
    <3>1. ~ Conflict(new, rows[a])  BY <1>2, <1>4, <2>2
    <3>2. QED  BY <1>4, <2>2, <3>1, ConflictIsSymmetric
  <2>3. CASE a # id /\ b # id  BY <1>4, <2>3 DEF RowsInv
  <2>4. QED  BY <2>1, <2>2, <2>3
<1>7. QED
  BY <1>4, <1>5, <1>6 DEF RowsInv, RowSound, RuntimeValid, SiteValid, UnitNamed, Conflict, ServiceConflict

LEMMA DeleteStep ==
  ASSUME RowsInv, NEW id \in AppIds, delete(id)
  PROVE  RowsInv'
<1>1. /\ DOMAIN rows' = DOMAIN rows \ {id} /\ \A a \in DOMAIN rows' : rows'[a] = rows[a]
      /\ rows' \in [DOMAIN rows' -> StoredRow]
  BY DEF delete, RowsInv
<1>2. QED  BY <1>1 DEF RowsInv, RowSound, RuntimeValid, SiteValid, UnitNamed, Conflict, ServiceConflict

LEMMA HostKeepsRows == ASSUME HostNext(Kinds) PROVE rows' = rows
<1>1. ASSUME NEW j, NEW k, NEW n, NEW good, Provision(k, j, n, good)  PROVE rows' = rows
  BY <1>1 DEF Provision, python_provision, php_provision, java_provision, node_provision, go_provision,
              html_provision, proxy_provision, provision
<1>2. ASSUME NEW j, prepare(j) \/ install_pending(j) \/ test_site(j) \/ reload_nginx(j) \/ lose(j)
      PROVE  rows' = rows
  BY <1>2 DEF prepare, install_pending, test_site, reload_nginx, lose
<1>3. ASSUME NEW j, NEW up, install_unit(j, up) \/ install_site(j, up)  PROVE rows' = rows
  BY <1>3 DEF install_unit, install_site
<1>4. ASSUME NEW id, NEW w, NEW ok, systemd_control(id, w, ok)  PROVE rows' = rows
  BY <1>4 DEF systemd_control
<1>5. ASSUME NEW ok, \/ git_setup(ok) \/ write_environment(ok) \/ ssl_issue(ok) \/ backup(ok)
                     \/ java_install_jdk(ok) \/ java_set_default_jdk(ok)
      PROVE  rows' = rows
  BY <1>5 DEF git_setup, write_environment, ssl_issue, backup, java_install_jdk, java_set_default_jdk, Remote
<1>6. ASSUME NEW ran, NEW ok, python_prepare_env(ran, ok)  PROVE rows' = rows
  BY <1>6 DEF python_prepare_env, Remote, deployVars
<1>7. ASSUME NEW target, NEW u, deploy(target, u)  PROVE rows' = rows
  BY <1>7 DEF deploy
<1>8. QED  BY <1>1, <1>2, <1>3, <1>4, <1>5, <1>6, <1>7 DEF HostNext

LEMMA RowsInvStep == RowsInv /\ [DeployNext]_deployVars => RowsInv'
<1> SUFFICES ASSUME RowsInv, [DeployNext]_deployVars PROVE RowsInv'
  OBVIOUS
<1>1. CASE RowsNext(Kinds)  BY <1>1, UpsertStep, DeleteStep DEF RowsNext
<1>2. CASE HostNext(Kinds) \/ UNCHANGED deployVars
  <2>1. rows' = rows  BY <1>2, HostKeepsRows DEF deployVars
  <2>2. QED  BY <2>1 DEF RowsInv, RowSound, RuntimeValid, SiteValid, UnitNamed, Conflict, ServiceConflict
<1>3. QED  BY <1>1, <1>2 DEF DeployNext

(* For any ids, kinds, names, slugs, paths and ports, whatever is saved,    *)
(* renamed, given another kind, deleted and provisioned in which order,     *)
(* upsert_with_runtimes never lets two rows share a name, a directory or a  *)
(* unit the program chose, nor two of one kind a site file or a listener;   *)
(* units that net and other apps name, python ports and listeners across    *)
(* kinds excepted.                                                          *)
THEOREM ServicesHaveOneOwner == DeploySpec => []OneOwnerPerService
<1>1. DeployInit => RowsInv  BY DEF DeployInit, RowsInv
<1>2. QED  BY <1>1, RowsInvStep, RowsInvIsEnough, PTL DEF DeploySpec

-----------------------------------------------------------------------------
(* The engine's settings.                                                   *)

(* What a file says of the managed keys is the wish of one of the requests. *)
OneWish(f, wishes) == \/ Only(f, Managed) = <<>>
                      \/ \E c \in wishes : Only(f, Managed) = Rendered(c)

(* A request that waits to write holds such a file.                         *)
CallFits(r, wishes) ==
  /\ r.op = "apply" => OneWish(r.file, wishes)
  /\ r.op = "logout" => r = [op |-> "logout", servers |-> r.servers]

(* The inductive invariant.                                                 *)
DaemonInv ==
  /\ OneWish(daemon, asked) /\ OneWish(engine, asked)
  /\ \A k \in DOMAIN call : CallFits(call[k], asked)

LEMMA MoreWishes ==
  ASSUME NEW f, NEW wishes, NEW more, wishes \subseteq more, OneWish(f, wishes)
  PROVE  OneWish(f, more)
BY DEF OneWish

LEMMA MergedIsTheWish ==
  ASSUME NEW raw, NEW c
  PROVE  Only(merge_daemon_json(raw, c), Managed) = Rendered(c)
<1> DEFINE wish == Rendered(c)
           rest == Only(raw, DOMAIN raw \ Managed)
<1>1. DOMAIN wish \subseteq Managed /\ wish = [k \in DOMAIN wish |-> wish[k]]  BY DEF Rendered
<1>2. DOMAIN rest \cap Managed = {}  BY DEF Only
<1>3. merge_daemon_json(raw, c) = Over(wish, rest)  BY DEF merge_daemon_json
<1> HIDE DEF wish, rest
<1>4. Only(Over(wish, rest), Managed) = wish  BY <1>1, <1>2 DEF Only, Over
<1>5. QED  BY <1>3, <1>4 DEF wish

LEMMA EditKeepsManaged ==
  ASSUME NEW v \in Unmanaged
  PROVE  Only(Over(Only(daemon, DOMAIN daemon \ {"data-root"}), v), Managed) = Only(daemon, Managed)
<1>1. DOMAIN v \cap Managed = {}  BY DEF Unmanaged, Managed
<1>2. "data-root" \notin Managed  BY DEF Managed
<1>3. QED  BY <1>1, <1>2 DEF Only, Over

LEMMA CallsKeep ==
  ASSUME DaemonInv, NEW k, NEW r, call' = With(call, k, r), asked \subseteq asked', CallFits(r, asked')
  PROVE  \A x \in DOMAIN call' : CallFits(call'[x], asked')
<1>1. DOMAIN call' = DOMAIN call \cup {k} /\ \A x \in DOMAIN call' : call'[x] = IF x = k THEN r ELSE call[x]
  BY DEF With
<1>2. \A x \in DOMAIN call : CallFits(call[x], asked')  BY MoreWishes DEF DaemonInv, CallFits
<1>3. QED  BY <1>1, <1>2

LEMMA DropKeeps ==
  ASSUME DaemonInv, NEW k, call' = Drop(call, k), UNCHANGED asked
  PROVE  \A x \in DOMAIN call' : CallFits(call'[x], asked')
BY DEF DaemonInv, Drop

LEMMA DaemonInvStep == DaemonInv /\ [DockerNext]_dockerVars => DaemonInv'
<1> SUFFICES ASSUME DaemonInv, [DockerNext]_dockerVars PROVE DaemonInv'
  OBVIOUS
<1>1. CASE UNCHANGED <<daemon, engine, asked, call>>
  BY <1>1 DEF DaemonInv, OneWish, CallFits
<1>2. CASE ResourcesNext \/ UNCHANGED dockerVars
  BY <1>1, <1>2 DEF ResourcesNext, docker_image_action, docker_network_action, docker_volume_action,
     docker_action, Add, RemoveEach, Prune, StockOnly, create_container, dockerVars
<1>3. ASSUME OneWish(daemon', asked'), OneWish(engine', asked'),
             \A x \in DOMAIN call' : CallFits(call'[x], asked')
      PROVE  DaemonInv'
  BY <1>3 DEF DaemonInv, OneWish, CallFits
<1>4. ASSUME NEW k \in DockerClients, NEW c \in Wishes, apply(k, c)
      PROVE  DaemonInv'
  <2> DEFINE file == merge_daemon_json(daemon, c)
             r == [op |-> "apply", file |-> file]
  <2>1. UNCHANGED <<daemon, engine>> /\ asked \subseteq asked' /\ c \in asked'  BY <1>4 DEF apply
  <2>2. call' = With(call, k, r)  BY <1>4 DEF apply
  <2>3. OneWish(file, asked')  BY <2>1, MergedIsTheWish DEF OneWish
  <2> HIDE DEF file
  <2>4. CallFits(r, asked')  BY <2>3 DEF CallFits
  <2> HIDE DEF r
  <2>5. \A x \in DOMAIN call' : CallFits(call'[x], asked')  BY <2>1, <2>2, <2>4, CallsKeep
  <2>6. OneWish(daemon', asked') /\ OneWish(engine', asked')  BY <2>1, MoreWishes DEF DaemonInv
  <2>7. QED  BY <1>3, <2>5, <2>6
<1>5. ASSUME NEW k \in DockerClients, NEW ok \in BOOLEAN, write_and_restart(k, ok)
      PROVE  DaemonInv'
  <2>1. /\ daemon' = call[k].file /\ (engine' = daemon' \/ engine' = engine) /\ UNCHANGED asked
        /\ call' = Drop(call, k)
    BY <1>5 DEF write_and_restart
  <2>2. OneWish(call[k].file, asked)  BY <1>5 DEF write_and_restart, DaemonInv, CallFits
  <2>3. \A x \in DOMAIN call' : CallFits(call'[x], asked')  BY <2>1, DropKeeps
  <2>4. OneWish(daemon', asked') /\ OneWish(engine', asked')  BY <2>1, <2>2 DEF DaemonInv
  <2>5. QED  BY <1>3, <2>3, <2>4
<1>6. ASSUME NEW k \in DockerClients, abandon(k) \/ upsert(k)
      PROVE  DaemonInv'
  <2>1. UNCHANGED <<daemon, engine, asked>> /\ call' = Drop(call, k)  BY <1>6 DEF abandon, upsert
  <2>2. \A x \in DOMAIN call' : CallFits(call'[x], asked')  BY <2>1, DropKeeps
  <2>3. OneWish(daemon', asked') /\ OneWish(engine', asked')  BY <2>1 DEF DaemonInv
  <2>4. QED  BY <1>3, <2>2, <2>3
<1>7. ASSUME NEW v \in Unmanaged, edit_daemon_json(v)
      PROVE  DaemonInv'
  <2>1. UNCHANGED <<engine, asked, call>> /\ Only(daemon', Managed) = Only(daemon, Managed)
    BY <1>7, EditKeepsManaged DEF edit_daemon_json
  <2>2. OneWish(daemon', asked')  BY <2>1 DEF DaemonInv, OneWish
  <2>3. OneWish(engine', asked') /\ \A x \in DOMAIN call' : CallFits(call'[x], asked')
    BY <2>1 DEF DaemonInv
  <2>4. QED  BY <1>3, <2>2, <2>3
<1>8. ASSUME NEW k \in DockerClients, NEW id, NEW row, NEW p, docker_login(k, id, row, p)
      PROVE  DaemonInv'
  <2> DEFINE r == [op |-> "save", new |-> id \notin DOMAIN registries, id |-> id, row |-> row]
  <2>1. UNCHANGED <<daemon, engine, asked>> /\ call' = With(call, k, r)  BY <1>8 DEF docker_login
  <2>2. CallFits(r, asked')  BY DEF CallFits
  <2> HIDE DEF r
  <2>3. \A x \in DOMAIN call' : CallFits(call'[x], asked')  BY <2>1, <2>2, CallsKeep
  <2>4. OneWish(daemon', asked') /\ OneWish(engine', asked')  BY <2>1 DEF DaemonInv
  <2>5. QED  BY <1>3, <2>3, <2>4
<1>9. ASSUME NEW k \in DockerClients, NEW ids, delete_many(k, ids)
      PROVE  DaemonInv'
  <2> DEFINE r == [op |-> "logout", servers |-> {Server[registries[o].url] : o \in ids}]
  <2>1. UNCHANGED <<daemon, engine, asked>> /\ call' = With(call, k, r)  BY <1>9 DEF delete_many
  <2>2. CallFits(r, asked')  BY DEF CallFits
  <2> HIDE DEF r
  <2>3. \A x \in DOMAIN call' : CallFits(call'[x], asked')  BY <2>1, <2>2, CallsKeep
  <2>4. OneWish(daemon', asked') /\ OneWish(engine', asked')  BY <2>1 DEF DaemonInv
  <2>5. QED  BY <1>3, <2>3, <2>4
<1>10. ASSUME NEW k \in DockerClients, NEW s, docker_logout(k, s)
       PROVE  DaemonInv'
  <2>1. UNCHANGED <<daemon, engine, asked>>  BY <1>10 DEF docker_logout
  <2>2. OneWish(daemon', asked') /\ OneWish(engine', asked')  BY <2>1 DEF DaemonInv
  <2>3. k \in DOMAIN call /\ call[k].op = "logout"  BY <1>10 DEF docker_logout
  <2>4. call[k] = [op |-> "logout", servers |-> call[k].servers]  BY <2>3 DEF DaemonInv, CallFits
  <2>5. CASE call' = Drop(call, k)
    <3>1. \A x \in DOMAIN call' : CallFits(call'[x], asked')  BY <2>1, <2>5, DropKeeps
    <3>2. QED  BY <1>3, <2>2, <3>1
  <2>6. CASE call' = [call EXCEPT ![k].servers = @ \ {s}]
    <3>1. call'[k] = [op |-> "logout", servers |-> call[k].servers \ {s}]  BY <2>3, <2>4, <2>6
    <3>2. CallFits(call'[k], asked')  BY <3>1 DEF CallFits
    <3>3. DOMAIN call' = DOMAIN call /\ \A x \in DOMAIN call : x # k => call'[x] = call[x]  BY <2>6
    <3>4. \A x \in DOMAIN call' : CallFits(call'[x], asked')  BY <2>1, <3>2, <3>3 DEF DaemonInv
    <3>5. QED  BY <1>3, <2>2, <3>4
  <2>7. QED  BY <1>10, <2>5, <2>6 DEF docker_logout
<1>11. CASE SettingsNext  BY <1>11, <1>4, <1>5, <1>6, <1>7 DEF SettingsNext
<1>12. CASE RegistriesNext  BY <1>12, <1>6, <1>8, <1>9, <1>10 DEF RegistriesNext
<1>13. QED  BY <1>2, <1>11, <1>12 DEF DockerNext

LEMMA DaemonInvInit == DockerInit => DaemonInv
<1> SUFFICES ASSUME DockerInit PROVE DaemonInv
  OBVIOUS
<1>1. daemon \in Unmanaged /\ engine = daemon /\ call = <<>>  BY DEF DockerInit
<1>2. DOMAIN daemon \cap Managed = {}  BY <1>1 DEF Unmanaged, Managed
<1>3. Only(daemon, Managed) = <<>>  BY <1>2 DEF Only
<1>4. QED  BY <1>1, <1>3 DEF DaemonInv, OneWish

(* For any number of requests that apply settings at once, failed restarts, *)
(* lost sessions and edits by an administrator, daemon.json and the engine  *)
(* hold the managed keys as one request wished them.                        *)
THEOREM SettingsAreOneWish == DockerSpec => []SettingsAreOneRequests
<1>1. DaemonInv => SettingsAreOneRequests  BY DEF DaemonInv, OneWish, SettingsAreOneRequests
<1>2. QED  BY <1>1, DaemonInvInit, DaemonInvStep, PTL DEF DockerSpec

-----------------------------------------------------------------------------
(* Incidents and their repairs.                                             *)

ChangeStates == {"NotStarted", "Executing", "Verifying", "Interrupted"} \cup Ends

ChangeRecords == [version : Nat, state : ChangeStates]

(* One of the links came to the outcome s in the version it names.          *)
Earned(links, table, s) == \E l \in links : [version |-> l[2], state |-> s] \in table[l[1]]

(* The outcome s is claimed.                                                *)
Claims(verification, resolution, s) ==
  \/ s = "Committed" /\ (verification = "succeeded" \/ resolution \in {"Resolved", "repair-verified"})
  \/ s = "RolledBack" /\ (verification = "rollback-verified" \/ resolution = "repair-rolled-back")

IncidentFields ==
  {"run", "cause", "drift", "status", "verification", "link", "resolution", "live", "timeline"}

(* An incident, in memory or in the file: bound to what it was ever bound   *)
(* to, and what it claims is earned.                                        *)
IncidentFits(r, links, table) ==
  /\ DOMAIN r = IncidentFields
  /\ r.link \subseteq links
  /\ \A s \in Outcomes : Claims(r.verification, r.resolution, s) => Earned(links, table, s)

(* What a refresh has read and not written yet is earned too: it may write  *)
(* after the incident was bound anew.                                       *)
IncidentsInv ==
  /\ changes \in [Changes -> ChangeRecords]
  /\ reached \in [Changes -> SUBSET ChangeRecords]
  /\ \A c \in Changes : changes[c].state \in Outcomes => changes[c] \in reached[c]
  /\ everBound \in [Ids -> SUBSET (Changes \X Nat)]
  /\ DOMAIN incidents \subseteq Ids
  /\ \A i \in DOMAIN incidents : IncidentFits(incidents[i], everBound[i], reached)
  /\ DOMAIN incidentFile \subseteq Ids
  /\ \A i \in DOMAIN incidentFile : IncidentFits(incidentFile[i], everBound[i], reached)
  /\ \A k \in DOMAIN refreshes :
       /\ refreshes[k].id \in Ids
       /\ \A s \in Outcomes : Claims(refreshes[k].next.verification, refreshes[k].next.resolution, s)
                             => Earned(everBound[refreshes[k].id], reached, s)
  /\ \A n \in DOMAIN investigations : investigations[n].id \in Ids

LEMMA IncidentsInvIsEnough == IncidentsInv => RepairWasBound
<1> SUFFICES ASSUME IncidentsInv, NEW id \in DOMAIN incidents
             PROVE  \A s \in Outcomes : Claims(incidents[id].verification, incidents[id].resolution, s)
                                        => BoundReached(id, s)
  BY DEF RepairWasBound, Outcomes, Claims
<1>1. QED  BY DEF IncidentsInv, IncidentFits, Earned, BoundReached

(* What was earned stays earned: links, and what a ChangeSet ever was, are  *)
(* only added to.                                                           *)
EarnedStays ==
  /\ changes' \in [Changes -> ChangeRecords]
  /\ reached' \in [Changes -> SUBSET ChangeRecords]
  /\ \A c \in Changes : /\ changes'[c].state \in Outcomes => changes'[c] \in reached'[c]
                        /\ reached[c] \subseteq reached'[c]
  /\ everBound' \in [Ids -> SUBSET (Changes \X Nat)]
  /\ \A i \in Ids : everBound[i] \subseteq everBound'[i]

LEMMA EarnedIsStable ==
  ASSUME IncidentsInv, EarnedStays, NEW i \in Ids, NEW s, Earned(everBound[i], reached, s)
  PROVE  Earned(everBound'[i], reached', s)
<1>1. PICK l \in everBound[i] : [version |-> l[2], state |-> s] \in reached[l[1]]  BY DEF Earned
<1>2. l[1] \in Changes /\ l \in everBound'[i]  BY DEF IncidentsInv, EarnedStays
<1>3. [version |-> l[2], state |-> s] \in reached'[l[1]]  BY <1>1, <1>2 DEF EarnedStays
<1>4. QED  BY <1>2, <1>3 DEF Earned

LEMMA FitIsStable ==
  ASSUME IncidentsInv, EarnedStays, NEW i \in Ids, NEW r, IncidentFits(r, everBound[i], reached)
  PROVE  IncidentFits(r, everBound'[i], reached')
<1>1. everBound[i] \subseteq everBound'[i]  BY DEF EarnedStays
<1>2. QED  BY <1>1, EarnedIsStable DEF IncidentFits

(* What a step has to show when the records it leaves alone stay as they    *)
(* are.                                                                     *)
LEMMA Unmoved ==
  ASSUME IncidentsInv, EarnedStays
  PROVE  /\ \A i \in DOMAIN incidents : i \in Ids /\ IncidentFits(incidents[i], everBound'[i], reached')
         /\ \A i \in DOMAIN incidentFile : i \in Ids /\ IncidentFits(incidentFile[i], everBound'[i], reached')
         /\ \A k \in DOMAIN refreshes :
              /\ refreshes[k].id \in Ids
              /\ \A s \in Outcomes : Claims(refreshes[k].next.verification, refreshes[k].next.resolution, s)
                   => Earned(everBound'[refreshes[k].id], reached', s)
<1>1. \A i \in DOMAIN incidents : i \in Ids /\ IncidentFits(incidents[i], everBound[i], reached)
  BY DEF IncidentsInv
<1>2. \A i \in DOMAIN incidentFile : i \in Ids /\ IncidentFits(incidentFile[i], everBound[i], reached)
  BY DEF IncidentsInv
<1>3. ASSUME NEW k \in DOMAIN refreshes
      PROVE  /\ refreshes[k].id \in Ids
             /\ \A s \in Outcomes : Claims(refreshes[k].next.verification, refreshes[k].next.resolution, s)
                  => Earned(everBound'[refreshes[k].id], reached', s)
  <2> DEFINE i == refreshes[k].id
             v == refreshes[k].next.verification
             r == refreshes[k].next.resolution
  <2>1. i \in Ids /\ \A s \in Outcomes : Claims(v, r, s) => Earned(everBound[i], reached, s)
    BY <1>3 DEF IncidentsInv
  <2> HIDE DEF i, v, r
  <2>2. \A s \in Outcomes : Claims(v, r, s) => Earned(everBound'[i], reached', s)
    BY <2>1, EarnedIsStable
  <2>3. QED  BY <2>1, <2>2 DEF i, v, r
<1>4. QED  BY <1>1, <1>2, <1>3, FitIsStable

LEMMA PersistKeeps ==
  ASSUME IncidentsInv, EarnedStays, persist_locked(incidents'),
         \A i \in DOMAIN incidents' : i \in Ids /\ IncidentFits(incidents'[i], everBound'[i], reached')
  PROVE  \A i \in DOMAIN incidentFile' : i \in Ids /\ IncidentFits(incidentFile'[i], everBound'[i], reached')
<1>1. CASE incidentFile' = incidentFile  BY <1>1, Unmoved
<1>2. CASE incidentFile' = [i \in DOMAIN incidents' |-> persisted_incident(incidents'[i])]
  <2>1. ASSUME NEW i \in DOMAIN incidents'
        PROVE  i \in Ids /\ IncidentFits(persisted_incident(incidents'[i]), everBound'[i], reached')
    <3> DEFINE r == incidents'[i]
               links == everBound'[i]
    <3>1. i \in Ids /\ IncidentFits(r, links, reached')  BY <2>1
    <3> HIDE DEF r, links
    <3>2. IncidentFits(persisted_incident(r), links, reached')
      BY <3>1 DEF IncidentFits, IncidentFields, persisted_incident
    <3>3. QED  BY <3>1, <3>2 DEF r, links
  <2>2. QED  BY <1>2, <2>1
<1>3. QED  BY <1>1, <1>2 DEF persist_locked

LEMMA IncidentsInvFrom ==
  ASSUME EarnedStays,
         \A i \in DOMAIN incidents' : i \in Ids /\ IncidentFits(incidents'[i], everBound'[i], reached'),
         \A i \in DOMAIN incidentFile' : i \in Ids /\ IncidentFits(incidentFile'[i], everBound'[i], reached'),
         \A k \in DOMAIN refreshes' :
           /\ refreshes'[k].id \in Ids
           /\ \A s \in Outcomes : Claims(refreshes'[k].next.verification, refreshes'[k].next.resolution, s)
                => Earned(everBound'[refreshes'[k].id], reached', s),
         \A n \in DOMAIN investigations' : investigations'[n].id \in Ids
  PROVE  IncidentsInv'
BY DEF EarnedStays, IncidentsInv, IncidentFits, Claims, Earned

LEMMA NothingEarned ==
  ASSUME IncidentsInv, UNCHANGED <<changes, reached, everBound>>
  PROVE  EarnedStays
BY DEF IncidentsInv, EarnedStays

LEMMA LoadStep == ASSUME IncidentsInv, load PROVE IncidentsInv'
<1>8. \A r \in ChangeRecords : recovered_change(r) \in ChangeRecords
  BY DEF recovered_change, ChangeRecords, ChangeStates, Ends
<1>9. changes' = [c \in Changes |-> recovered_change(changes[c])]  BY DEF load
<1>10. \A c \in Changes : changes'[c] \in ChangeRecords  BY <1>8, <1>9 DEF IncidentsInv
<1>1. EarnedStays  BY <1>9, <1>10 DEF load, Reach, EarnedStays, IncidentsInv
<1>2. \A i \in DOMAIN incidentFile : i \in Ids /\ IncidentFits(incidentFile[i], everBound'[i], reached')
  BY <1>1, Unmoved
<1>3. ASSUME NEW r, NEW links, NEW table, IncidentFits(r, links, table)
      PROVE  IncidentFits(recovered_incident(r), links, table)
  <2>1. IncidentFits([r EXCEPT !.status = "Interrupted", !.timeline = @ + 1], links, table)
    BY <1>3 DEF IncidentFits, IncidentFields
  <2>2. QED  BY <1>3, <2>1 DEF recovered_incident
<1>4. \A i \in DOMAIN incidents' : i \in Ids /\ IncidentFits(incidents'[i], everBound'[i], reached')
  BY <1>2, <1>3 DEF load
<1>5. \A i \in DOMAIN incidentFile' : i \in Ids /\ IncidentFits(incidentFile'[i], everBound'[i], reached')
  BY <1>2, <1>4 DEF load
<1>6. DOMAIN refreshes' = {} /\ DOMAIN investigations' = {}  BY DEF load
<1>7. QED  BY <1>1, <1>4, <1>5, <1>6, IncidentsInvFrom

LEMMA InvestigationStep ==
  ASSUME IncidentsInv, UNCHANGED <<incidents, incidentFile, refreshes, changes, reached, everBound>>,
         \A n \in DOMAIN investigations' : investigations'[n].id \in Ids
  PROVE  IncidentsInv'
<1>1. EarnedStays  BY NothingEarned
<1>2. QED  BY <1>1, Unmoved, IncidentsInvFrom

LEMMA RunStep ==
  ASSUME IncidentsInv, NEW id \in Ids, NEW complete, run(id, complete)
  PROVE  IncidentsInv'
<1> DEFINE n == begun + 1
           v == [id |-> id, reads |-> <<>>]
<1>1. investigations' = More(investigations, n, v) /\ v.id \in Ids  BY DEF run
<1> HIDE DEF n, v
<1>2. \A x \in DOMAIN investigations' : investigations'[x].id \in Ids  BY <1>1 DEF More, IncidentsInv
<1>3. QED  BY <1>2, InvestigationStep DEF run

LEMMA ReadsStep ==
  ASSUME IncidentsInv, NEW n, NEW t \in Targets, NEW seen, execute_reads(n, t, seen)
  PROVE  IncidentsInv'
<1>1. CASE investigations' = Less(investigations, n)
  <2>1. \A x \in DOMAIN investigations' : investigations'[x].id \in Ids  BY <1>1 DEF Less, IncidentsInv
  <2>2. QED  BY <2>1, InvestigationStep DEF execute_reads
<1>2. CASE investigations' = [investigations EXCEPT ![n].reads = More(@, t, seen)]
  <2>1. \A x \in DOMAIN investigations' : investigations'[x].id \in Ids  BY <1>2 DEF IncidentsInv
  <2>2. QED  BY <2>1, InvestigationStep DEF execute_reads
<1>3. QED  BY <1>1, <1>2 DEF execute_reads

(* The steps that write one incident.                                       *)
LEMMA WriteStep ==
  ASSUME IncidentsInv, EarnedStays, persist_locked(incidents'), NEW id \in DOMAIN incidents, NEW r,
         DOMAIN incidents' = DOMAIN incidents,
         \A i \in DOMAIN incidents : incidents'[i] = IF i = id THEN r ELSE incidents[i],
         IncidentFits(r, everBound'[id], reached'), UNCHANGED investigations,
         \A k \in DOMAIN refreshes' : k \in DOMAIN refreshes /\ refreshes'[k] = refreshes[k]
  PROVE  IncidentsInv'
<1>1. \A i \in DOMAIN incidents' : i \in Ids /\ IncidentFits(incidents'[i], everBound'[i], reached')
  BY Unmoved
<1>2. \A i \in DOMAIN incidentFile' : i \in Ids /\ IncidentFits(incidentFile'[i], everBound'[i], reached')
  BY <1>1, PersistKeeps
<1>3. \A k \in DOMAIN refreshes' :
        /\ refreshes'[k].id \in Ids
        /\ \A s \in Outcomes : Claims(refreshes'[k].next.verification, refreshes'[k].next.resolution, s)
             => Earned(everBound'[refreshes'[k].id], reached', s)
  BY Unmoved
<1>4. \A n \in DOMAIN investigations' : investigations'[n].id \in Ids  BY DEF IncidentsInv
<1>5. QED  BY <1>1, <1>2, <1>3, <1>4, IncidentsInvFrom

LEMMA InsertStep == ASSUME IncidentsInv, NEW n, insert(n) PROVE IncidentsInv'
<1>1. EarnedStays  BY NothingEarned DEF insert
<1>2. \A x \in DOMAIN investigations' : investigations'[x].id \in Ids  BY DEF insert, Less, IncidentsInv
<1>3. CASE UNCHANGED <<incidents, incidentFile>>  BY <1>2, <1>3, InvestigationStep DEF insert
<1>4. CASE investigations[n].id \notin DOMAIN incidents
  <2> DEFINE id == investigations[n].id
             cause == diagnose(investigations[n].reads)
             r == [run |-> n, cause |-> cause, drift |-> compare_targets(investigations[n].reads),
                   status |-> IF cause = "found" THEN "AwaitingApproval" ELSE "Inconclusive",
                   verification |-> "not-started", link |-> {}, resolution |-> "none",
                   live |-> TRUE, timeline |-> 4]
  <2>1. id \in Ids  BY DEF insert, IncidentsInv
  <2>2. incidents' = trim_incidents(More(incidents, id, r)) /\ persist_locked(incidents')
    BY <1>4 DEF insert
  <2> HIDE DEF cause
  <2>3. IncidentFits(r, everBound'[id], reached')  BY DEF IncidentFits, IncidentFields, Claims
  <2> HIDE DEF r, id
  <2>4. \A i \in DOMAIN incidents' : /\ i \in DOMAIN incidents \cup {id}
                                     /\ incidents'[i] = IF i = id THEN r ELSE incidents[i]
    BY <2>2 DEF trim_incidents, More
  <2>5. \A i \in DOMAIN incidents' : i \in Ids /\ IncidentFits(incidents'[i], everBound'[i], reached')
    BY <1>1, <2>1, <2>3, <2>4, Unmoved
  <2>6. \A i \in DOMAIN incidentFile' : i \in Ids /\ IncidentFits(incidentFile'[i], everBound'[i], reached')
    BY <1>1, <2>2, <2>5, PersistKeeps
  <2>7. UNCHANGED refreshes  BY DEF insert
  <2>8. QED  BY <1>1, <1>2, <2>5, <2>6, <2>7, Unmoved, IncidentsInvFrom
<1>5. QED  BY <1>3, <1>4 DEF insert

LEMMA AttachStep ==
  ASSUME IncidentsInv, NEW id \in Ids, NEW c \in Changes, attach_change_set(id, c)
  PROVE  IncidentsInv'
<1> DEFINE link == <<c, changes[c].version>>
           r == incidents[id]
           s == [r EXCEPT !.link = {link}, !.status = "AwaitingApproval", !.timeline = @ + 1]
<1>1. link \in Changes \X Nat  BY DEF IncidentsInv, ChangeRecords
<1>2. id \in DOMAIN incidents  BY DEF attach_change_set, Room
<1>3. everBound' = [everBound EXCEPT ![id] = @ \cup {link}] /\ UNCHANGED <<changes, reached>>
  BY DEF attach_change_set, Rest
<1>4. /\ DOMAIN incidents' = DOMAIN incidents
      /\ \A i \in DOMAIN incidents : incidents'[i] = IF i = id THEN s ELSE incidents[i]
      /\ persist_locked(incidents') /\ UNCHANGED <<investigations, refreshes>>
  BY <1>2 DEF attach_change_set, Rest
<1>5. IncidentFits(r, everBound[id], reached)  BY <1>2 DEF IncidentsInv
<1> HIDE DEF link, r
<1>6. EarnedStays  BY <1>1, <1>3 DEF IncidentsInv, EarnedStays
<1>7. IncidentFits(r, everBound'[id], reached')  BY <1>5, <1>6, FitIsStable
<1>8. link \in everBound'[id]  BY <1>3 DEF IncidentsInv
<1>9. IncidentFits(s, everBound'[id], reached')  BY <1>7, <1>8 DEF IncidentFits, IncidentFields
<1> HIDE DEF s
<1>10. QED  BY <1>2, <1>4, <1>6, <1>9, WriteStep

LEMMA RefreshStep ==
  ASSUME IncidentsInv, NEW k, NEW id \in Ids, refresh(k, id)
  PROVE  IncidentsInv'
<1>1. EarnedStays  BY NothingEarned DEF refresh
<1>2. PICK l \in incidents[id].link :
        /\ changes[l[1]].version = l[2]
        /\ refreshes' = More(refreshes, k, [id |-> id, next |-> Next_(changes[l[1]].state)])
  BY DEF refresh
<1> DEFINE next == Next_(changes[l[1]].state)
<1>3. l \in everBound[id] /\ l[1] \in Changes  BY DEF refresh, IncidentsInv, IncidentFits
<1>4. /\ changes[l[1]] \in ChangeRecords
      /\ changes[l[1]].state \in Outcomes => changes[l[1]] \in reached[l[1]]
  BY <1>3 DEF IncidentsInv
<1>5. \A s \in Outcomes : Claims(next.verification, next.resolution, s) => changes[l[1]].state = s
  BY <1>4 DEF Next_, Claims, ChangeRecords, ChangeStates, Ends, Outcomes
<1>6. \A s \in Outcomes : Claims(next.verification, next.resolution, s) => Earned(everBound[id], reached, s)
  <2> SUFFICES ASSUME NEW s \in Outcomes, Claims(next.verification, next.resolution, s)
               PROVE  Earned(everBound[id], reached, s)
    OBVIOUS
  <2>1. changes[l[1]] = [version |-> l[2], state |-> s]  BY <1>2, <1>4, <1>5 DEF ChangeRecords
  <2>2. QED  BY <1>3, <1>4, <2>1 DEF Earned
<1> HIDE DEF next
<1>7. \A s \in Outcomes : Claims(next.verification, next.resolution, s) => Earned(everBound'[id], reached', s)
  BY <1>1, <1>6, EarnedIsStable
<1> DEFINE entry == [id |-> id, next |-> next]
<1>8. refreshes' = More(refreshes, k, entry)  BY <1>2 DEF next
<1>9. entry.id = id /\ entry.next = next  OBVIOUS
<1> HIDE DEF entry
<1>10. DOMAIN refreshes' = DOMAIN refreshes \cup {k}
       /\ \A x \in DOMAIN refreshes' : refreshes'[x] = IF x = k THEN entry ELSE refreshes[x]
  BY <1>8 DEF More
<1>11. \A x \in DOMAIN refreshes' :
         /\ refreshes'[x].id \in Ids
         /\ \A s \in Outcomes : Claims(refreshes'[x].next.verification, refreshes'[x].next.resolution, s)
              => Earned(everBound'[refreshes'[x].id], reached', s)
  BY <1>1, <1>7, <1>9, <1>10, Unmoved
<1>12. UNCHANGED <<incidents, incidentFile, investigations>>  BY DEF refresh
<1>13. \A n \in DOMAIN investigations' : investigations'[n].id \in Ids  BY <1>12 DEF IncidentsInv
<1>14. QED  BY <1>1, <1>11, <1>12, <1>13, Unmoved, IncidentsInvFrom

LEMMA SynchronizeStep ==
  ASSUME IncidentsInv, NEW k, synchronize(k)
  PROVE  IncidentsInv'
<1> DEFINE id == refreshes[k].id
           next == refreshes[k].next
           r == incidents[id]
           time == IF r.status # next.status THEN r.timeline + 1 ELSE r.timeline
           s == [r EXCEPT !.timeline = time, !.status = next.status,
                          !.verification = next.verification, !.resolution = next.resolution]
<1>1. EarnedStays  BY NothingEarned DEF synchronize
<1>2. \A x \in DOMAIN refreshes' : x \in DOMAIN refreshes /\ refreshes'[x] = refreshes[x]
  BY DEF synchronize, Less
<1>3. UNCHANGED investigations /\ \A n \in DOMAIN investigations' : investigations'[n].id \in Ids
  BY DEF synchronize, IncidentsInv
<1>4. CASE id \notin DOMAIN incidents
  <2>1. UNCHANGED <<incidents, incidentFile>>  BY <1>4 DEF synchronize
  <2>2. \A x \in DOMAIN refreshes' :
          /\ refreshes'[x].id \in Ids
          /\ \A o \in Outcomes : Claims(refreshes'[x].next.verification, refreshes'[x].next.resolution, o)
               => Earned(everBound'[refreshes'[x].id], reached', o)
    BY <1>1, <1>2, Unmoved
  <2>3. QED  BY <1>1, <1>3, <2>1, <2>2, Unmoved, IncidentsInvFrom
<1>5. CASE id \in DOMAIN incidents
  <2>1. /\ DOMAIN incidents' = DOMAIN incidents
        /\ \A i \in DOMAIN incidents : incidents'[i] = IF i = id THEN s ELSE incidents[i]
        /\ persist_locked(incidents')
    BY <1>5 DEF synchronize
  <2>2. id \in Ids /\ \A o \in Outcomes : Claims(next.verification, next.resolution, o)
                                        => Earned(everBound'[id], reached', o)
    BY <1>1, Unmoved DEF synchronize
  <2>3. IncidentFits(r, everBound'[id], reached')  BY <1>1, <1>5, Unmoved
  <2> HIDE DEF r, next, id, time
  <2>4. IncidentFits(s, everBound'[id], reached')  BY <2>2, <2>3 DEF IncidentFits, IncidentFields
  <2> HIDE DEF s
  <2>5. QED  BY <1>1, <1>2, <1>3, <1>5, <2>1, <2>4, WriteStep
<1>6. QED  BY <1>4, <1>5

LEMMA CloseStep ==
  ASSUME IncidentsInv, NEW id \in Ids, NEW code \in {"Resolved", "AcceptedRisk", "FalsePositive"},
         handoff(id) \/ close(id, code)
  PROVE  IncidentsInv'
<1> DEFINE r == incidents[id]
           noted == [r EXCEPT !.timeline = @ + 1]
           closed == [r EXCEPT !.status = "Closed", !.resolution = code, !.timeline = @ + 1]
<1>1. EarnedStays  BY NothingEarned DEF handoff, close, Rest
<1>2. id \in DOMAIN incidents  BY DEF handoff, close, Room
<1>3. IncidentFits(r, everBound'[id], reached')  BY <1>1, <1>2, Unmoved
<1>4. persist_locked(incidents') /\ UNCHANGED <<investigations, refreshes>>  BY DEF handoff, close, Rest
<1>5. CASE handoff(id)
  <2>1. /\ DOMAIN incidents' = DOMAIN incidents
        /\ \A i \in DOMAIN incidents : incidents'[i] = IF i = id THEN noted ELSE incidents[i]
    BY <1>2, <1>5 DEF handoff
  <2> HIDE DEF r
  <2>2. IncidentFits(noted, everBound'[id], reached')  BY <1>3 DEF IncidentFits, IncidentFields
  <2> HIDE DEF noted
  <2>3. QED  BY <1>1, <1>2, <1>4, <2>1, <2>2, WriteStep
<1>6. CASE close(id, code)
  <2>1. /\ DOMAIN incidents' = DOMAIN incidents
        /\ \A i \in DOMAIN incidents : incidents'[i] = IF i = id THEN closed ELSE incidents[i]
    BY <1>2, <1>6 DEF close
  <2>2. code = "Resolved" => r.verification = "succeeded"  BY <1>6 DEF close
  <2> HIDE DEF r
  <2>3. IncidentFits(closed, everBound'[id], reached')
    BY <1>3, <2>2 DEF IncidentFits, IncidentFields, Claims, Outcomes
  <2> HIDE DEF closed
  <2>4. QED  BY <1>1, <1>2, <1>4, <2>1, <2>3, WriteStep
<1>7. QED  BY <1>5, <1>6

LEMMA ServiceStep ==
  ASSUME IncidentsInv, NEW c \in Changes, NEW s,
         revise(c) \/ Start(c) \/ Verify(c) \/ End(c, s) \/ Rollback(c, s)
  PROVE  IncidentsInv'
<1>1. UNCHANGED <<incidents, incidentFile, investigations, refreshes, everBound>> /\ Reach
  BY DEF revise, Start, Verify, End, Rollback, Move, Elsewhere
<1>2. changes' \in [Changes -> ChangeRecords]
  BY DEF revise, Start, Verify, End, Rollback, Move, IncidentsInv, ChangeRecords, ChangeStates, Ends, RollbackEnds
<1>3. EarnedStays  BY <1>1, <1>2 DEF Reach, EarnedStays, IncidentsInv
<1>4. \A n \in DOMAIN investigations' : investigations'[n].id \in Ids  BY <1>1 DEF IncidentsInv
<1>5. QED  BY <1>1, <1>3, <1>4, Unmoved, IncidentsInvFrom

LEMMA IncidentsInvStep == IncidentsInv /\ [IncidentsNext]_incidentVars => IncidentsInv'
<1> SUFFICES ASSUME IncidentsInv, [IncidentsNext]_incidentVars PROVE IncidentsInv'
  OBVIOUS
<1>1. CASE UNCHANGED incidentVars
  <2>1. \A n \in DOMAIN investigations' : investigations'[n].id \in Ids
    BY <1>1 DEF incidentVars, IncidentsInv
  <2>2. QED  BY <1>1, <2>1, InvestigationStep DEF incidentVars
<1>2. ASSUME NEW id \in Ids, handoff(id)  PROVE IncidentsInv'  BY <1>2, CloseStep
<1>3. ASSUME NEW c \in Changes, revise(c) \/ Start(c) \/ Verify(c)  PROVE IncidentsInv'
  BY <1>3, ServiceStep DEF Ends
<1>4. ASSUME NEW c \in Changes, NEW s \in Ends, End(c, s) \/ Rollback(c, s)  PROVE IncidentsInv'
  BY <1>4, ServiceStep
<1>5. QED
  BY <1>1, <1>2, <1>3, <1>4, LoadStep, RunStep, InsertStep, ReadsStep, CloseStep, AttachStep, SynchronizeStep,
     RefreshStep DEF IncidentsNext

(* For any incidents, ChangeSets and refreshes: what an incident calls a    *)
(* verified repair, or a verified rollback, was committed, or rolled back,  *)
(* in a version that was bound to it, however late a refresh writes,        *)
(* whatever is revised, bound anew or rolled back meanwhile, and after any  *)
(* restart.                                                                 *)
THEOREM RepairsWereBound == IncidentsSpec => []RepairWasBound
<1>1. IncidentsInit => IncidentsInv  BY DEF IncidentsInit, IncidentsInv, ChangeRecords, ChangeStates, Outcomes
<1>2. QED  BY <1>1, IncidentsInvStep, IncidentsInvIsEnough, PTL DEF IncidentsSpec

-----------------------------------------------------------------------------
(* Provider profiles and their credentials.                                 *)

(* A collection of profiles, in the document, in memory or being saved.     *)
Sound(coll) ==
  /\ coll = [legacy |-> coll.legacy, active |-> coll.active, prof |-> coll.prof]
  /\ coll.prof = [p \in DOMAIN coll.prof |-> coll.prof[p]]
  /\ \A p \in DOMAIN coll.prof :
       /\ coll.prof[p] = [kind |-> coll.prof[p].kind, cred |-> coll.prof[p].cred, plain |-> coll.prof[p].plain]
       /\ coll.prof[p].cred \subseteq CredentialIds

Resolves(coll, vault) == Sound(coll) /\ \A c \in References(coll) : vault.secret[c] # 0

Untouched(coll, credentials) == References(coll) \cap credentials = {}

VaultFits(vault) ==
  /\ vault = [secret |-> vault.secret, open |-> vault.open]
  /\ vault.secret = [c \in CredentialIds |-> vault.secret[c]]

CommitFits(m) ==
  m = [pc |-> m.pc, coll |-> m.coll, fresh |-> m.fresh, drop |-> m.drop, config |-> m.config, by |-> m.by]

(* What the document and memory name is in the Vault; while a commit stores *)
(* secrets, what it built resolves as far as it has come and its fresh      *)
(* credentials are nobody else's; once it drops credentials, nobody names   *)
(* them.                                                                    *)
ModelInv ==
  /\ VaultFits(modelVault) /\ CommitFits(modelCommit)
  /\ \A m \in {modelDisk} \cup modelMemory : Resolves(m, modelVault)
  /\ modelCommit.pc = "store" =>
       /\ \A coll \in modelCommit.coll : Resolves(coll, modelVault)
       /\ \A m \in {modelDisk} \cup modelMemory : Untouched(m, modelCommit.fresh)
  /\ modelCommit.pc \in {"forget", "undo"} =>
       \A m \in {modelDisk} \cup modelMemory : Untouched(m, modelCommit.drop)
  /\ modelCommit.pc = "ask" => modelMemory # {}

LEMMA ModelInvIsEnough == ModelInv => CredentialsResolve
BY DEF ModelInv, Resolves, CredentialsResolve

LEMMA CollectionIsThere == ASSUME modelMemory # {} PROVE Collection \in modelMemory
BY DEF Collection

(* A Vault with the same secrets.                                           *)
LEMMA SameSecrets ==
  ASSUME NEW v, NEW w, VaultFits(v), w.secret = v.secret, NEW coll, Resolves(coll, v)
  PROVE  Resolves(coll, w)
BY DEF Resolves

LEMMA ModelInvFrom ==
  ASSUME VaultFits(modelVault'), CommitFits(modelCommit'),
         \A m \in {modelDisk'} \cup modelMemory' : Resolves(m, modelVault'),
         modelCommit'.pc = "store" =>
           /\ \A coll \in modelCommit'.coll : Resolves(coll, modelVault')
           /\ \A m \in {modelDisk'} \cup modelMemory' : Untouched(m, modelCommit'.fresh),
         modelCommit'.pc \in {"forget", "undo"} =>
           \A m \in {modelDisk'} \cup modelMemory' : Untouched(m, modelCommit'.drop),
         modelCommit'.pc = "ask" => modelMemory' # {}
  PROVE  ModelInv'
BY DEF ModelInv, VaultFits, CommitFits, Resolves, Untouched, Sound, References

(* A step that leaves document, memory, commit and secrets alone.           *)
LEMMA QuietStep ==
  ASSUME ModelInv, UNCHANGED <<modelDisk, modelMemory, modelCommit>>,
         VaultFits(modelVault'), modelVault'.secret = modelVault.secret
  PROVE  ModelInv'
<1>1. ASSUME NEW coll, Resolves(coll, modelVault)  PROVE Resolves(coll, modelVault')
  BY <1>1, SameSecrets DEF ModelInv
<1>2. QED  BY <1>1, ModelInvFrom DEF ModelInv

(* A step that leaves all but the commit alone, whose pc is free of any     *)
(* claim.                                                                   *)
LEMMA IdleCommit ==
  ASSUME ModelInv, UNCHANGED <<modelDisk, modelVault>>, CommitFits(modelCommit'),
         \/ modelCommit'.pc = "free" /\ modelMemory' \subseteq modelMemory
         \/ modelCommit'.pc = "ask" /\ modelMemory # {} /\ UNCHANGED modelMemory
  PROVE  ModelInv'
<1>1. \A m \in {modelDisk'} \cup modelMemory' : Resolves(m, modelVault')  BY DEF ModelInv
<1>2. modelCommit'.pc \notin {"store", "forget", "undo"}  OBVIOUS
<1>3. VaultFits(modelVault')  BY DEF ModelInv
<1>4. QED  BY <1>1, <1>2, <1>3, ModelInvFrom

LEMMA NoCommitIsFree == CommitFits(NoCommit) /\ NoCommit.pc = "free"
BY DEF CommitFits, NoCommit

(* A commit begins with a collection whose credentials are there.           *)
LEMMA BeginStep ==
  ASSUME ModelInv, NEW coll, NEW config, NEW by, BeginCommit(coll, config, by), Resolves(coll, modelVault),
         UNCHANGED <<modelDisk, modelMemory>>, VaultFits(modelVault'), modelVault'.secret = modelVault.secret
  PROVE  ModelInv'
<1>1. modelCommit' = [pc |-> "store", coll |-> {coll}, fresh |-> {}, drop |-> {}, config |-> config, by |-> by]
  BY DEF BeginCommit, NoCommit
<1>2. /\ CommitFits(modelCommit') /\ modelCommit'.pc = "store" /\ modelCommit'.coll = {coll}
      /\ modelCommit'.fresh = {}
  BY <1>1 DEF CommitFits
<1>3. ASSUME NEW x, Resolves(x, modelVault)  PROVE Resolves(x, modelVault')
  BY <1>3, SameSecrets DEF ModelInv
<1>4. \A m \in {modelDisk'} \cup modelMemory' : Resolves(m, modelVault')  BY <1>3 DEF ModelInv
<1>5. \A m \in {modelDisk'} \cup modelMemory' : Untouched(m, modelCommit'.fresh)
  BY <1>2 DEF Untouched
<1>6. QED  BY <1>2, <1>3, <1>4, <1>5, ModelInvFrom

LEMMA ProfileIsSound ==
  ASSUME NEW config
  PROVE  Profile(config) = [kind |-> config.kind, cred |-> {}, plain |-> config.secret]
BY DEF Profile

LEMMA PutResolves ==
  ASSUME NEW coll, NEW vault, Resolves(coll, vault), NEW p, NEW config, NEW activate
  PROVE  Resolves(PutProfile(coll, p, config, activate), vault)
<1> DEFINE new == PutProfile(coll, p, config, activate)
           profile == Profile(config)
           active == IF activate \/ coll.active = {} THEN {p} ELSE coll.active
           prof == [q \in DOMAIN coll.prof \cup {p} |-> IF q = p THEN profile ELSE coll.prof[q]]
<1>1. coll = [legacy |-> coll.legacy, active |-> coll.active, prof |-> coll.prof]  BY DEF Resolves, Sound
<1>2. new = [legacy |-> coll.legacy, active |-> active, prof |-> prof]
  <2>1. new = [coll EXCEPT !.prof = prof, !.active = active]  BY DEF PutProfile
  <2> HIDE DEF new, prof, active
  <2>2. QED  BY <1>1, <2>1
<1>3. /\ profile = [kind |-> profile.kind, cred |-> profile.cred, plain |-> profile.plain]
      /\ profile.cred = {}
  BY ProfileIsSound
<1> HIDE DEF profile, active
<1>4. Sound(new)
  <2>1. new.prof = prof /\ new = [legacy |-> new.legacy, active |-> new.active, prof |-> new.prof]  BY <1>2
  <2> HIDE DEF new
  <2>2. \A q \in DOMAIN prof : prof[q] = IF q = p THEN profile ELSE coll.prof[q]  OBVIOUS
  <2>3. prof = [q \in DOMAIN prof |-> prof[q]]  OBVIOUS
  <2>4. DOMAIN prof = DOMAIN coll.prof \cup {p}  OBVIOUS
  <2> HIDE DEF prof
  <2>5. QED  BY <1>3, <2>1, <2>2, <2>3, <2>4 DEF Resolves, Sound
<1>5. \A c \in References(new) : c \in References(coll)
  <2>1. new.prof = prof  BY <1>2
  <2>2. \A q \in DOMAIN prof : prof[q].cred = {} \/ (q \in DOMAIN coll.prof /\ prof[q] = coll.prof[q])  BY <1>3
  <2> HIDE DEF new, prof
  <2>3. QED  BY <2>1, <2>2 DEF References
<1>6. QED  BY <1>4, <1>5 DEF Resolves

LEMMA ActivateResolves ==
  ASSUME NEW coll, NEW vault, Resolves(coll, vault), NEW active
  PROVE  Resolves([coll EXCEPT !.active = active], vault)
<1> DEFINE new == [coll EXCEPT !.active = active]
<1>1. new = [legacy |-> coll.legacy, active |-> active, prof |-> coll.prof]  BY DEF Resolves, Sound
<1>2. new.prof = coll.prof /\ new = [legacy |-> new.legacy, active |-> new.active, prof |-> new.prof]  BY <1>1
<1> HIDE DEF new
<1>3. Resolves(new, vault)  BY <1>2 DEF Resolves, Sound, References
<1>4. QED  BY <1>3 DEF new

LEMMA RemoveResolves ==
  ASSUME NEW coll, NEW vault, Resolves(coll, vault), NEW p
  PROVE  Resolves([coll EXCEPT !.prof = [q \in DOMAIN @ \ {p} |-> @[q]]], vault)
<1> DEFINE prof == [q \in DOMAIN coll.prof \ {p} |-> coll.prof[q]]
           new == [legacy |-> coll.legacy, active |-> coll.active, prof |-> prof]
<1>1. [coll EXCEPT !.prof = [q \in DOMAIN @ \ {p} |-> @[q]]] = new  BY DEF Resolves, Sound
<1>2. new.prof = prof /\ new = [legacy |-> new.legacy, active |-> new.active, prof |-> new.prof]  OBVIOUS
<1> HIDE DEF new
<1>3. /\ DOMAIN prof \subseteq DOMAIN coll.prof /\ prof = [q \in DOMAIN prof |-> prof[q]]
      /\ \A q \in DOMAIN prof : prof[q] = coll.prof[q]
  OBVIOUS
<1> HIDE DEF prof
<1>4. Resolves(new, vault)  BY <1>2, <1>3 DEF Resolves, Sound, References
<1>5. QED  BY <1>1, <1>4

LEMMA SaveAtomicStep ==
  ASSUME ModelInv, NEW config, NEW then, NEW by, save_atomic(config, then, by), modelMemory # {},
         UNCHANGED <<modelDisk, modelMemory, modelVault>>
  PROVE  ModelInv'
<1>1. Resolves(Collection, modelVault) /\ VaultFits(modelVault')  BY CollectionIsThere DEF ModelInv
<1>2. CASE config.kind = "local"
  <2> DEFINE coll == [Collection EXCEPT !.active = {}]
  <2>1. BeginCommit(coll, then, by)  BY <1>2 DEF save_atomic
  <2>2. Resolves(coll, modelVault)  BY <1>1, ActivateResolves
  <2> HIDE DEF coll
  <2>3. QED  BY <1>1, <2>1, <2>2, BeginStep
<1>3. CASE config.kind # "local"
  <2>1. PICK p \in SaveTargets(config) : BeginCommit(PutProfile(Collection, p, config, TRUE), then, by)
    BY <1>3 DEF save_atomic
  <2>2. Resolves(PutProfile(Collection, p, config, TRUE), modelVault)  BY <1>1, PutResolves
  <2>3. QED  BY <1>1, <2>1, <2>2, BeginStep
<1>4. QED  BY <1>2, <1>3

LEMMA SettingsStep == ASSUME ModelInv, ModelSettings PROVE ModelInv'
<1>1. modelMemory # {} /\ UNCHANGED <<modelDisk, modelMemory, modelVault>>  BY DEF ModelSettings, GatewayRuns
<1>2. Resolves(Collection, modelVault) /\ VaultFits(modelVault')
  BY <1>1, CollectionIsThere DEF ModelInv
<1>3. CASE configure  BY <1>1, <1>3, SaveAtomicStep DEF configure
<1>4. CASE save_profile
  <2>1. PICK p, config : BeginCommit(PutProfile(Collection, p, config, FALSE), {}, {})
    BY <1>4 DEF save_profile
  <2>2. Resolves(PutProfile(Collection, p, config, FALSE), modelVault)  BY <1>2, PutResolves
  <2>3. QED  BY <1>1, <1>2, <2>1, <2>2, BeginStep
<1>5. CASE activate_profile
  <2>1. PICK p \in DOMAIN Collection.prof :
          BeginCommit([Collection EXCEPT !.active = {p}], {Hydrated(Collection.prof[p])}, {})
    BY <1>5 DEF activate_profile
  <2>2. Resolves([Collection EXCEPT !.active = {p}], modelVault)  BY <1>2, ActivateResolves
  <2>3. QED  BY <1>1, <1>2, <2>1, <2>2, BeginStep
<1>6. CASE remove_profile
  <2>1. PICK p \in DOMAIN Collection.prof :
          BeginCommit([Collection EXCEPT !.prof = [q \in DOMAIN @ \ {p} |-> @[q]]], {modelConfig}, {})
    BY <1>6 DEF remove_profile
  <2>2. Resolves([Collection EXCEPT !.prof = [q \in DOMAIN @ \ {p} |-> @[q]]], modelVault)
    BY <1>2, RemoveResolves
  <2>3. QED  BY <1>1, <1>2, <2>1, <2>2, BeginStep
<1>7. CASE clear_api_key  BY <1>1, <1>7, SaveAtomicStep DEF clear_api_key
<1>8. CASE disconnect  BY <1>1, <1>8, SaveAtomicStep DEF disconnect
<1>9. QED  BY <1>3, <1>4, <1>5, <1>6, <1>7, <1>8 DEF ModelSettings

LEMMA TurnKeeps == ASSUME ModelInv, TurnStep PROVE ModelInv'
<1>1. UNCHANGED <<modelDisk, modelMemory, modelVault>>  BY DEF TurnStep
<1>2. VaultFits(modelVault') /\ modelVault'.secret = modelVault.secret  BY <1>1 DEF ModelInv
<1>3. CASE UNCHANGED modelCommit  BY <1>1, <1>2, <1>3, QuietStep
<1>4. CASE modelCommit' = NoCommit  BY <1>1, <1>4, NoCommitIsFree, IdleCommit
<1>5. ASSUME NEW t \in Turns, resolve_chatgpt_access_token(t), ~ UNCHANGED modelCommit  PROVE ModelInv'
  <2>1. modelCommit' = [pc |-> "ask", coll |-> {}, fresh |-> {}, drop |-> {},
                        config |-> {load_or_default(Collection)}, by |-> {t}]
    BY <1>5 DEF resolve_chatgpt_access_token, NoCommit
  <2>2. CommitFits(modelCommit') /\ modelCommit'.pc = "ask"  BY <2>1 DEF CommitFits
  <2>3. modelMemory # {}  BY <1>5 DEF resolve_chatgpt_access_token, GatewayRuns
  <2>4. QED  BY <1>1, <2>2, <2>3, IdleCommit
<1>6. ASSUME NEW t \in Turns, refresh_chatgpt_token(t), modelCommit' # NoCommit  PROVE ModelInv'
  <2>1. modelMemory # {}  BY <1>6 DEF refresh_chatgpt_token, ModelInv
  <2>2. \E config, then, by : save_atomic(config, then, by)  BY <1>6 DEF refresh_chatgpt_token
  <2>3. QED  BY <1>1, <2>1, <2>2, SaveAtomicStep
<1>7. ASSUME NEW t \in Turns, begin_turn(t) \/ complete_json_turn(t) \/ send_turn(t)  PROVE UNCHANGED modelCommit
  BY <1>7 DEF begin_turn, complete_json_turn, send_turn
<1>8. QED  BY <1>3, <1>4, <1>5, <1>6, <1>7 DEF TurnStep

LEMMA OauthKeeps == ASSUME ModelInv, OauthStep PROVE ModelInv'
<1>1. UNCHANGED <<modelDisk, modelMemory, modelVault>>  BY DEF OauthStep
<1>2. VaultFits(modelVault') /\ modelVault'.secret = modelVault.secret  BY <1>1 DEF ModelInv
<1>3. CASE UNCHANGED modelCommit  BY <1>1, <1>2, <1>3, QuietStep
<1>4. ASSUME NEW f \in OauthFlows, persist_tokens(f)  PROVE ModelInv'
  <2>1. PICK p \in ProfileIds \ DOMAIN Collection.prof :
          BeginCommit(PutProfile(Collection, p, oauthFlow[f].config, FALSE), {}, {f})
    BY <1>4 DEF persist_tokens
  <2>2. modelMemory # {}  BY <1>4 DEF persist_tokens, GatewayRuns
  <2>3. Resolves(Collection, modelVault)  BY <2>2, CollectionIsThere DEF ModelInv
  <2>4. Resolves(PutProfile(Collection, p, oauthFlow[f].config, FALSE), modelVault)  BY <2>3, PutResolves
  <2>5. QED  BY <1>1, <1>2, <2>1, <2>4, BeginStep
<1>5. ASSUME cancel_oauth \/ \E f \in OauthFlows : start_oauth(f) \/ await_authorization_code(f) \/ exchange_code(f)
      PROVE  UNCHANGED modelCommit
  BY <1>5 DEF cancel_oauth, start_oauth, await_authorization_code, exchange_code
<1>6. QED  BY <1>3, <1>4, <1>5 DEF OauthStep

LEMMA StoreStep == ASSUME ModelInv, StoreSecret PROVE ModelInv'
<1>1. modelCommit.pc = "store" /\ UNCHANGED <<modelDisk, modelMemory>>  BY DEF StoreSecret
<1> DEFINE known == {modelDisk} \cup modelMemory
<1>2. \A m \in known : Resolves(m, modelVault) /\ Untouched(m, modelCommit.fresh)  BY <1>1 DEF ModelInv
<1>3. CommitFits(modelCommit) /\ VaultFits(modelVault)  BY DEF ModelInv
<1>4. CASE modelCommit' = [modelCommit EXCEPT !.pc = "undo", !.drop = modelCommit.fresh] /\ UNCHANGED modelVault
  <2>1. CommitFits(modelCommit') /\ modelCommit'.pc = "undo" /\ modelCommit'.drop = modelCommit.fresh
    BY <1>3, <1>4 DEF CommitFits
  <2>2. QED  BY <1>1, <1>2, <1>3, <1>4, <2>1, ModelInvFrom
<1>5. ASSUME NEW coll \in modelCommit.coll, NEW p \in PlainOf(coll), NEW c \in FreshId(p),
             modelVault' = [modelVault EXCEPT !.secret[c] = coll.prof[p].plain],
             modelCommit' = [modelCommit EXCEPT
                    !.coll = {[coll EXCEPT !.prof[p].cred = {c}, !.prof[p].plain = 0]},
                    !.fresh = @ \cup {c}]
      PROVE  ModelInv'
  <2> DEFINE plain == coll.prof[p].plain
             new == [coll EXCEPT !.prof[p].cred = {c}, !.prof[p].plain = 0]
             prof == [q \in DOMAIN coll.prof |->
                        IF q = p THEN [kind |-> coll.prof[p].kind, cred |-> {c}, plain |-> 0] ELSE coll.prof[q]]
  <2>1. plain # 0 /\ p \in DOMAIN coll.prof  BY <1>5 DEF PlainOf
  <2>2. c \in CredentialIds /\ modelVault.secret[c] = 0  BY <1>5 DEF FreshId
  <2>3. Resolves(coll, modelVault)  BY <1>1, <1>5 DEF ModelInv
  <2>4. /\ modelCommit'.pc = "store" /\ modelCommit'.coll = {new}
        /\ modelCommit'.fresh = modelCommit.fresh \cup {c} /\ CommitFits(modelCommit')
    <3> HIDE DEF new
    <3>1. modelCommit' = [modelCommit EXCEPT !.coll = {new}, !.fresh = @ \cup {c}]  BY <1>5 DEF new
    <3>2. modelCommit' = [pc |-> modelCommit.pc, coll |-> {new}, fresh |-> modelCommit.fresh \cup {c},
                          drop |-> modelCommit.drop, config |-> modelCommit.config, by |-> modelCommit.by]
      BY <1>3, <3>1 DEF CommitFits
    <3>3. QED  BY <1>1, <3>2 DEF CommitFits
  <2>5. /\ VaultFits(modelVault') /\ modelVault'.secret[c] = plain
        /\ \A d \in CredentialIds : d # c => modelVault'.secret[d] = modelVault.secret[d]
    <3> HIDE DEF plain
    <3>1. modelVault' = [modelVault EXCEPT !.secret[c] = plain]  BY <1>5 DEF plain
    <3>2. modelVault' = [secret |-> [modelVault.secret EXCEPT ![c] = plain], open |-> modelVault.open]
      BY <1>3, <3>1 DEF VaultFits
    <3>3. modelVault'.secret = [d \in CredentialIds |-> IF d = c THEN plain ELSE modelVault.secret[d]]
      BY <1>3, <3>2 DEF VaultFits
    <3>4. QED  BY <2>2, <3>2, <3>3 DEF VaultFits
  <2>6. ASSUME NEW m, Resolves(m, modelVault)
        PROVE  Resolves(m, modelVault') /\ c \notin References(m)
    <3>1. \A d \in References(m) : d \in CredentialIds /\ d # c
      BY <2>2, <2>6 DEF Resolves, Sound, References
    <3>2. QED  BY <2>5, <2>6, <3>1 DEF Resolves
  <2>7. new = [legacy |-> coll.legacy, active |-> coll.active, prof |-> prof]
    <3> DEFINE old == coll.prof
               first == [old EXCEPT ![p].cred = {c}]
               second == [first EXCEPT ![p].plain = 0]
    <3>1. /\ coll = [legacy |-> coll.legacy, active |-> coll.active, prof |-> old]
          /\ old = [q \in DOMAIN old |-> old[q]]
          /\ old[p] = [kind |-> old[p].kind, cred |-> old[p].cred, plain |-> old[p].plain]
      BY <2>1, <2>3 DEF Resolves, Sound
    <3>2. new = [coll EXCEPT !.prof = second]  BY <3>1
    <3> HIDE DEF new
    <3>3. first[p] = [kind |-> old[p].kind, cred |-> {c}, plain |-> old[p].plain] /\ DOMAIN first = DOMAIN old
          /\ \A q \in DOMAIN old : q # p => first[q] = old[q]
      BY <2>1, <3>1
    <3> HIDE DEF first
    <3>4. /\ DOMAIN second = DOMAIN old /\ second = [q \in DOMAIN old |-> second[q]]
          /\ \A q \in DOMAIN old : q # p => second[q] = old[q]
          /\ second[p] = [kind |-> old[p].kind, cred |-> {c}, plain |-> 0]
      <4>1. second[p] = [first[p] EXCEPT !.plain = 0]  BY <2>1, <3>3
      <4>2. second[p] = [kind |-> old[p].kind, cred |-> {c}, plain |-> 0]  BY <3>3, <4>1
      <4>3. QED  BY <2>1, <3>3, <4>2
    <3> HIDE DEF second
    <3>5. second = prof  BY <2>1, <3>4
    <3>6. QED  BY <3>1, <3>2, <3>5
  <2>8. Resolves(new, modelVault')
    <3>1. new.prof = prof /\ new = [legacy |-> new.legacy, active |-> new.active, prof |-> new.prof]  BY <2>7
    <3>2. prof = [q \in DOMAIN prof |-> prof[q]] /\ DOMAIN prof = DOMAIN coll.prof  OBVIOUS
    <3>3. \A q \in DOMAIN coll.prof : q # p => prof[q] = coll.prof[q]  OBVIOUS
    <3>4. prof[p] = [kind |-> coll.prof[p].kind, cred |-> {c}, plain |-> 0]  BY <2>1
    <3> HIDE DEF new, prof
    <3>5. Sound(new)  BY <2>2, <2>3, <3>1, <3>2, <3>3, <3>4 DEF Resolves, Sound
    <3>6. \A d \in References(new) : d = c \/ d \in References(coll)
      BY <3>1, <3>2, <3>3, <3>4 DEF References
    <3>7. \A d \in References(coll) : modelVault'.secret[d] # 0  BY <2>3, <2>6 DEF Resolves
    <3>8. QED  BY <2>1, <2>5, <3>5, <3>6, <3>7 DEF Resolves
  <2> HIDE DEF new
  <2>9. \A m \in known : Resolves(m, modelVault') /\ Untouched(m, modelCommit'.fresh)
    BY <1>2, <2>4, <2>6 DEF Untouched
  <2>10. QED  BY <1>1, <2>4, <2>5, <2>8, <2>9, ModelInvFrom
<1>6. QED  BY <1>4, <1>5 DEF StoreSecret

LEMMA SaveStep == ASSUME ModelInv, SaveDocument PROVE ModelInv'
<1>1. modelCommit.pc = "store" /\ UNCHANGED modelVault  BY DEF SaveDocument
<1>2. VaultFits(modelVault') /\ CommitFits(modelCommit)  BY <1>1 DEF ModelInv
<1>3. CASE /\ modelCommit' = [modelCommit EXCEPT !.pc = "undo", !.drop = modelCommit.fresh]
           /\ UNCHANGED <<modelDisk, modelMemory>>
  <2>1. CommitFits(modelCommit') /\ modelCommit'.pc = "undo" /\ modelCommit'.drop = modelCommit.fresh
    BY <1>2, <1>3 DEF CommitFits
  <2>2. \A m \in {modelDisk} \cup modelMemory : Resolves(m, modelVault) /\ Untouched(m, modelCommit.fresh)
    BY <1>1 DEF ModelInv
  <2>3. QED  BY <1>1, <1>2, <1>3, <2>1, <2>2, ModelInvFrom
<1>4. ASSUME NEW coll \in modelCommit.coll, modelDisk' = [coll EXCEPT !.legacy = FALSE],
             modelMemory' = {modelDisk'},
             modelCommit' = [modelCommit EXCEPT !.pc = "forget",
                  !.drop = InUse \ References(coll)]
      PROVE  ModelInv'
  <2> DEFINE drop == InUse \ References(coll)
  <2>1. Resolves(coll, modelVault)  BY <1>1, <1>4 DEF ModelInv
  <2>2. modelDisk' = [legacy |-> FALSE, active |-> coll.active, prof |-> coll.prof]
    BY <1>4, <2>1 DEF Resolves, Sound
  <2>3. References(modelDisk') = References(coll) /\ Resolves(modelDisk', modelVault')
    BY <1>1, <2>1, <2>2 DEF Resolves, Sound, References
  <2>4. modelCommit' = [modelCommit EXCEPT !.pc = "forget", !.drop = drop]  BY <1>4
  <2>5. References(coll) \cap drop = {}  OBVIOUS
  <2> HIDE DEF drop
  <2>6. CommitFits(modelCommit') /\ modelCommit'.pc = "forget" /\ modelCommit'.drop = drop
    BY <1>2, <2>4 DEF CommitFits
  <2>7. Untouched(modelDisk', modelCommit'.drop)  BY <2>3, <2>5, <2>6 DEF Untouched
  <2>8. QED  BY <1>2, <1>4, <2>3, <2>6, <2>7, ModelInvFrom
<1>5. QED  BY <1>3, <1>4 DEF SaveDocument

LEMMA ForgetStep == ASSUME ModelInv, ForgetCredential PROVE ModelInv'
<1>1. PICK c \in modelCommit.drop :
        /\ modelVault' = IF modelVault.open THEN [modelVault EXCEPT !.secret[c] = 0] ELSE modelVault
        /\ modelCommit' = [modelCommit EXCEPT !.drop = @ \ {c}]
  BY DEF ForgetCredential
<1>2. /\ modelCommit.pc \in {"forget", "undo"} /\ UNCHANGED <<modelDisk, modelMemory>>
      /\ CommitFits(modelCommit) /\ VaultFits(modelVault)
  BY DEF ForgetCredential, ModelInv
<1>3. /\ CommitFits(modelCommit') /\ modelCommit'.pc = modelCommit.pc
      /\ modelCommit'.drop = modelCommit.drop \ {c}
  BY <1>1, <1>2 DEF CommitFits
<1>4. \A m \in {modelDisk} \cup modelMemory : Resolves(m, modelVault) /\ Untouched(m, modelCommit.drop)
  BY <1>2 DEF ModelInv
<1>5. VaultFits(modelVault') /\ \A d \in CredentialIds : d # c => modelVault'.secret[d] = modelVault.secret[d]
  <2>1. CASE modelVault' = modelVault  BY <1>2, <2>1
  <2>2. CASE modelVault' = [modelVault EXCEPT !.secret[c] = 0]
    <3>1. modelVault' = [secret |-> [modelVault.secret EXCEPT ![c] = 0], open |-> modelVault.open]
      BY <1>2, <2>2 DEF VaultFits
    <3>2. modelVault'.secret = [d \in CredentialIds |-> IF d = c THEN 0 ELSE modelVault.secret[d]]
      BY <1>2, <3>1 DEF VaultFits
    <3>3. QED  BY <3>1, <3>2 DEF VaultFits
  <2>3. QED  BY <1>1, <2>1, <2>2
<1>6. ASSUME NEW m \in {modelDisk} \cup modelMemory
      PROVE  Resolves(m, modelVault') /\ Untouched(m, modelCommit'.drop)
  <2>1. Resolves(m, modelVault) /\ Untouched(m, modelCommit.drop)  BY <1>4, <1>6
  <2>2. \A d \in References(m) : d \in CredentialIds /\ d # c
    BY <1>1, <2>1 DEF Resolves, Sound, References, Untouched
  <2>3. QED  BY <1>3, <1>5, <2>1, <2>2 DEF Resolves, Untouched
<1>7. QED  BY <1>2, <1>3, <1>5, <1>6, ModelInvFrom

LEMMA StartStep == ASSUME ModelInv, StartGateway PROVE ModelInv'
<1>1. PICK open \in BOOLEAN :
        /\ modelVault' = [modelVault EXCEPT !.open = open]
        /\ \/ BeginCommit(modelDisk, {}, {}) /\ UNCHANGED modelMemory
           \/ modelMemory' = {modelDisk} /\ UNCHANGED modelCommit
  BY DEF StartGateway
<1>2. modelCommit.pc = "free" /\ UNCHANGED modelDisk /\ VaultFits(modelVault) /\ CommitFits(modelCommit)
  BY DEF StartGateway, ModelInv
<1>3. VaultFits(modelVault') /\ modelVault'.secret = modelVault.secret  BY <1>1, <1>2 DEF VaultFits
<1>4. Resolves(modelDisk, modelVault)  BY DEF ModelInv
<1>5. CASE BeginCommit(modelDisk, {}, {}) /\ UNCHANGED modelMemory
  BY <1>2, <1>3, <1>4, <1>5, BeginStep
<1>6. CASE modelMemory' = {modelDisk} /\ UNCHANGED modelCommit
  <2>1. Resolves(modelDisk', modelVault')  BY <1>2, <1>3, <1>4, SameSecrets
  <2>2. QED  BY <1>2, <1>3, <1>6, <2>1, ModelInvFrom
<1>7. QED  BY <1>1, <1>5, <1>6

LEMMA CrashStep == ASSUME ModelInv, CrashGateway PROVE ModelInv'
<1>1. /\ modelMemory' = {} /\ modelCommit' = NoCommit /\ UNCHANGED modelDisk
      /\ modelVault' = [modelVault EXCEPT !.open = FALSE]
  BY DEF CrashGateway
<1>2. VaultFits(modelVault)  BY DEF ModelInv
<1>3. VaultFits(modelVault') /\ modelVault'.secret = modelVault.secret  BY <1>1, <1>2 DEF VaultFits
<1>4. Resolves(modelDisk, modelVault)  BY DEF ModelInv
<1>5. Resolves(modelDisk', modelVault')  BY <1>1, <1>2, <1>3, <1>4, SameSecrets
<1>6. QED  BY <1>1, <1>3, <1>5, NoCommitIsFree, ModelInvFrom

LEMMA LockStep == ASSUME ModelInv, vault_unlock \/ vault_lock PROVE ModelInv'
<1>1. PICK open \in BOOLEAN : modelVault' = [modelVault EXCEPT !.open = open]  BY DEF vault_unlock, vault_lock
<1>2. VaultFits(modelVault)  BY DEF ModelInv
<1>3. VaultFits(modelVault') /\ modelVault'.secret = modelVault.secret  BY <1>1, <1>2 DEF VaultFits
<1>4. UNCHANGED <<modelDisk, modelMemory, modelCommit>>  BY DEF vault_unlock, vault_lock
<1>5. QED  BY <1>3, <1>4, QuietStep

LEMMA ModelInvStep == ModelInv /\ [ModelGatewayNext]_modelVars => ModelInv'
<1> SUFFICES ASSUME ModelInv, [ModelGatewayNext]_modelVars PROVE ModelInv'
  OBVIOUS
<1>1. CASE FinishCommit
  <2>1. modelCommit' = NoCommit /\ UNCHANGED <<modelDisk, modelMemory, modelVault>>  BY <1>1 DEF FinishCommit
  <2>2. QED  BY <2>1, NoCommitIsFree, IdleCommit
<1>2. CASE current_status \/ TokenExpires \/ UNCHANGED modelVars
  <2>1. UNCHANGED <<modelDisk, modelMemory, modelVault, modelCommit>>
    BY <1>2 DEF current_status, TokenExpires, modelVars
  <2>2. VaultFits(modelVault')  BY <2>1 DEF ModelInv
  <2>3. QED  BY <2>1, <2>2, QuietStep
<1>3. QED
  BY <1>1, <1>2, StartStep, CrashStep, LockStep, StoreStep, SaveStep, ForgetStep, SettingsStep, OauthKeeps,
     TurnKeeps
  DEF ModelGatewayNext, ProfilesNext, TurnsNext, CommitNext

LEMMA ModelInvInit == ModelGatewayInit => ModelInv
<1> SUFFICES ASSUME ModelGatewayInit PROVE ModelInv
  OBVIOUS
<1>1. modelMemory = {} /\ modelCommit = NoCommit
      /\ modelVault = [secret |-> [c \in CredentialIds |-> 0], open |-> FALSE]
  BY DEF ModelGatewayInit
<1>2. VaultFits(modelVault)  BY <1>1 DEF VaultFits
<1>3. PICK b, a, f : /\ modelDisk = [legacy |-> b, active |-> a, prof |-> f] /\ f = [p \in DOMAIN f |-> f[p]]
                     /\ \A p \in DOMAIN f : \E c : f[p] = Profile(c)
  <2>1. CASE modelDisk \in {EmptyCollection, [EmptyCollection EXCEPT !.legacy = TRUE]}
    <3>1. modelDisk = [legacy |-> modelDisk.legacy, active |-> {}, prof |-> <<>>]  BY <2>1 DEF EmptyCollection
    <3>2. DOMAIN <<>> = {} /\ <<>> = [p \in DOMAIN <<>> |-> <<>>[p]]  OBVIOUS
    <3>3. QED  BY <3>1, <3>2
  <2>2. CASE \E p, c : modelDisk = [legacy |-> TRUE, active |-> {p}, prof |-> [q \in {p} |-> Profile(c)]]
    <3>1. PICK p, c : modelDisk = [legacy |-> TRUE, active |-> {p}, prof |-> [q \in {p} |-> Profile(c)]]
      BY <2>2
    <3> DEFINE g == [q \in {p} |-> Profile(c)]
    <3>2. g = [q \in DOMAIN g |-> g[q]] /\ \A q \in DOMAIN g : g[q] = Profile(c)  OBVIOUS
    <3>3. modelDisk = [legacy |-> TRUE, active |-> {p}, prof |-> g]  BY <3>1
    <3> HIDE DEF g
    <3>4. QED  BY <3>2, <3>3
  <2>3. modelDisk \in LegacyDocuments \cup {EmptyCollection}  BY DEF ModelGatewayInit
  <2>4. CASE modelDisk \in LegacyDocuments \ {[EmptyCollection EXCEPT !.legacy = TRUE]}
    <3>1. \E p \in ProfileIds, c \in LegacyConfigs : modelDisk = LegacyDocument(p, c)
      BY <2>4 DEF LegacyDocuments
    <3>2. QED  BY <2>2, <3>1 DEF LegacyDocument
  <2>5. QED  BY <2>1, <2>3, <2>4
<1>4. modelDisk.prof = f /\ modelDisk = [legacy |-> modelDisk.legacy, active |-> modelDisk.active, prof |-> modelDisk.prof]
  BY <1>3
<1>5. \A p \in DOMAIN f : f[p].cred = {} /\ f[p] = [kind |-> f[p].kind, cred |-> f[p].cred, plain |-> f[p].plain]
  <2> TAKE p \in DOMAIN f
  <2>1. PICK c : f[p] = Profile(c)  BY <1>3
  <2>2. QED  BY <2>1 DEF Profile
<1>6. Resolves(modelDisk, modelVault)  BY <1>3, <1>4, <1>5 DEF Resolves, Sound, References
<1>7. QED  BY <1>1, <1>2, <1>6, NoCommitIsFree DEF ModelInv

(* For any profiles, credentials, turns and OAuth flows: every credential   *)
(* the document or memory names is in the Vault, whichever step of a commit *)
(* fails, finds the Vault locked, or is the last before a crash.            *)
THEOREM CredentialsAlwaysResolve == ModelGatewaySpec => []CredentialsResolve
BY ModelInvInit, ModelInvStep, ModelInvIsEnough, PTL DEF ModelGatewaySpec

-----------------------------------------------------------------------------
(* The agent's event log and the streams over it.                           *)

(* Event n is at place i of the log of run r.                               *)
InLog(r, n, i) == i \in 1..Len(agentLog[r]) /\ agentLog[r][i].seq = n

(* A log is a list whose numbers grow.                                      *)
LogFits(r) ==
  /\ \E S : agentLog[r] \in Seq(S)
  /\ \A i \in 1..Len(agentLog[r]) : agentLog[r][i].seq \in Nat
  /\ \A i, j \in 1..Len(agentLog[r]) : i < j => agentLog[r][i].seq < agentLog[r][j].seq

DriverFields == {"on", "state", "next", "at", "todo", "loop"}

(* A driver between the two halves of an emission has it at the head of     *)
(* what it has to do; an event that is to be sent is stored.                *)
DriverFits(r) ==
  /\ DOMAIN driver[r] = DriverFields
  /\ driver[r].next \in Nat /\ driver[r].at \in {"write", "send", "save"}
  /\ driver[r].at # "write" => driver[r].on /\ driver[r].todo # <<>> /\ Head(driver[r].todo).do = "emit"
  /\ driver[r].at = "send" => Len(agentLog[r]) > 0
  /\ driver[r].on => r \in DOMAIN agentRow

RowsFit ==
  /\ DOMAIN agentRow \subseteq AgentRuns
  /\ \A r \in DOMAIN agentRow : DOMAIN agentRow[r] = {"state", "next", "bound"} /\ agentRow[r].next \in Nat

(* Event k is the last of run r among the first n that were broadcast.      *)
LastOf(r, k, n) == k \in 1..n /\ bus[k].run = r /\ \A m \in (k + 1)..n : bus[m].run # r

Sent(r) == IF driver[r].at = "send" THEN Len(agentLog[r]) - 1 ELSE Len(agentLog[r])

(* The events of a run are broadcast one after the other, up to its last.   *)
BusFits ==
  /\ bus \in Seq([run : AgentRuns, seq : Nat])
  /\ \A k \in 1..Len(bus) : \E i \in Nat : InLog(bus[k].run, bus[k].seq, i)
  /\ \A k, n, i \in Nat :
       n < Len(bus) /\ LastOf(bus[n + 1].run, k, n) /\ InLog(bus[k].run, bus[k].seq, i)
         => InLog(bus[k].run, bus[n + 1].seq, i + 1)
  /\ \A r \in AgentRuns : \A k \in Nat : LastOf(r, k, Len(bus)) => InLog(r, bus[k].seq, Sent(r))

(* What a panel was sent is in the log, in its order.                       *)
GotFits(g, r, seam) ==
  /\ \A i \in 1..Len(g) : \E j \in Nat : InLog(r, g[i], j)
  /\ \A i \in 1..(Len(g) - 1) : \A j, k \in Nat :
       InLog(r, g[i], j) /\ InLog(r, g[i + 1], k) => IF i = seam THEN k >= j ELSE k = j + 1

(* A panel that was sent broadcast events had the last one up to its place; *)
(* for one that was not yet, none is ahead that precedes its replay.        *)
LiveFits(g, r, seam, at) ==
  /\ at \in 0..Len(bus)
  /\ Len(g) > seam => \E k \in Nat : LastOf(r, k, at) /\ bus[k].seq = g[Len(g)]
  /\ Len(g) = seam /\ Len(g) > 0 =>
       \A k \in (at + 1)..Len(bus) : bus[k].run = r =>
         \A i, j \in Nat : InLog(r, bus[k].seq, i) /\ InLog(r, g[Len(g)], j) => i >= j

(* The first broadcast event a panel was sent was stored when it joined the *)
(* channel, or is the first that was stored afterwards; so is the next of   *)
(* its run for a panel that was sent none.                                  *)
JoinFits(g, r, seam, joined) ==
  Len(g) > seam => \A j \in Nat : InLog(r, g[seam + 1], j) => j <= joined + 1
NextAfter(k, r, at) ==
  k \in (at + 1)..Len(bus) /\ bus[k].run = r /\ \A x \in (at + 1)..(k - 1) : bus[x].run # r
WaitFits(r, at, joined) ==
  /\ \A k \in Nat : NextAfter(k, r, at) => \A j \in Nat : InLog(r, bus[k].seq, j) => j <= joined + 1
  /\ (\A k \in (at + 1)..Len(bus) : bus[k].run # r) => Sent(r) <= joined

StreamFields == {"run", "after", "got", "seam", "at", "joined", "live"}

StreamFits(s) ==
  LET f == stream[s] IN
  /\ DOMAIN f = StreamFields
  /\ f.run \in AgentRuns /\ f.got \in Seq(Nat) /\ f.seam \in Nat /\ f.seam <= Len(f.got)
  /\ f.live = "replayed" => f.seam = Len(f.got)
  /\ GotFits(f.got, f.run, f.seam)
  /\ f.live = "live" => LiveFits(f.got, f.run, f.seam, f.at)
  /\ f.joined \in Nat /\ JoinFits(f.got, f.run, f.seam, f.joined)
  /\ f.live = "live" /\ Len(f.got) = f.seam => WaitFits(f.run, f.at, f.joined)

StoreInv ==
  /\ DOMAIN agentLog = AgentRuns /\ DOMAIN driver = AgentRuns
  /\ \A r \in AgentRuns : LogFits(r) /\ DriverFits(r)
  /\ RowsFit /\ BusFits
  /\ \A s \in DOMAIN stream : StreamFits(s)

-----------------------------------------------------------------------------
LEMMA LogParts ==
  ASSUME NEW r, LogFits(r)
  PROVE  Len(agentLog[r]) \in Nat /\ DOMAIN agentLog[r] = 1..Len(agentLog[r])
<1>1. PICK S : agentLog[r] \in Seq(S)  BY DEF LogFits
<1>2. QED  BY <1>1

(* An event has one place.                                                  *)
LEMMA OnePlace ==
  ASSUME NEW r, LogFits(r), NEW n, NEW i, NEW j, InLog(r, n, i), InLog(r, n, j)
  PROVE  i = j
<1>1. i \in Nat /\ j \in Nat  BY LogParts DEF InLog
<1>2. CASE i < j  BY <1>2 DEF LogFits, InLog
<1>3. CASE j < i  BY <1>3 DEF LogFits, InLog
<1>4. QED  BY <1>1, <1>2, <1>3

LEMMA PlaceIs ==
  ASSUME NEW r, LogFits(r), NEW n, NEW i, InLog(r, n, i)
  PROVE  Place(r, n) = i
<1>1. i \in DOMAIN agentLog[r] /\ agentLog[r][i].seq = n  BY LogParts DEF InLog
<1>2. Place(r, n) \in DOMAIN agentLog[r] /\ agentLog[r][Place(r, n)].seq = n  BY <1>1 DEF Place
<1>3. InLog(r, n, Place(r, n))  BY <1>2, LogParts DEF InLog
<1>4. QED  BY <1>3, OnePlace

(* A log only grows at its end.                                             *)
Grows(r) ==
  /\ Len(agentLog'[r]) >= Len(agentLog[r]) /\ Len(agentLog'[r]) \in Nat
  /\ \A i \in 1..Len(agentLog[r]) : agentLog'[r][i] = agentLog[r][i]

LEMMA InLogKept ==
  ASSUME NEW r, LogFits(r), Grows(r), NEW n, NEW i, InLog(r, n, i)
  PROVE  InLog(r, n, i)'
<1>1. Len(agentLog[r]) \in Nat  BY LogParts
<1>2. QED  BY <1>1 DEF InLog, Grows

LEMMA InLogWas ==
  ASSUME NEW r, LogFits(r), LogFits(r)', Grows(r), NEW n, NEW j, InLog(r, n, j), NEW i, InLog(r, n, i)'
  PROVE  InLog(r, n, i)
<1>1. InLog(r, n, j)'  BY InLogKept
<1>2. i = j
  <2>1. i \in 1..Len(agentLog'[r]) /\ j \in 1..Len(agentLog'[r]) /\ Len(agentLog'[r]) \in Nat
    BY <1>1 DEF InLog, Grows
  <2>2. agentLog'[r][i].seq = n /\ agentLog'[r][j].seq = n  BY <1>1 DEF InLog
  <2>3. n \in Nat  BY <2>1, <2>2 DEF LogFits
  <2>4. CASE i < j
    <3>1. agentLog'[r][i].seq < agentLog'[r][j].seq  BY <2>1, <2>4 DEF LogFits
    <3>2. QED  BY <3>1, <2>2, <2>3
  <2>5. CASE j < i
    <3>1. agentLog'[r][j].seq < agentLog'[r][i].seq  BY <2>1, <2>5 DEF LogFits
    <3>2. QED  BY <3>1, <2>2, <2>3
  <2>6. QED  BY <2>1, <2>4, <2>5
<1>3. QED  BY <1>2

LEMMA GotKept ==
  ASSUME NEW r, LogFits(r), LogFits(r)', Grows(r), NEW g \in Seq(Nat), NEW seam, GotFits(g, r, seam)
  PROVE  GotFits(g, r, seam)'
<1>1. ASSUME NEW i \in 1..Len(g)  PROVE  \E j \in Nat : InLog(r, g[i], j)'
  BY <1>1, InLogKept DEF GotFits
<1>2. ASSUME NEW i \in 1..(Len(g) - 1), NEW j \in Nat, NEW k \in Nat, InLog(r, g[i], j)', InLog(r, g[i + 1], k)'
      PROVE  IF i = seam THEN k >= j ELSE k = j + 1
  <2>1. i \in 1..Len(g) /\ i + 1 \in 1..Len(g)  OBVIOUS
  <2>2. InLog(r, g[i], j) /\ InLog(r, g[i + 1], k)  BY <1>2, <2>1, InLogWas DEF GotFits
  <2>3. QED  BY <2>2 DEF GotFits
<1>3. QED  BY <1>1, <1>2 DEF GotFits

-----------------------------------------------------------------------------
(* Steps that write no event and send none.                                 *)

LEMMA StoreParts ==
  ASSUME StoreInv
  PROVE  /\ DOMAIN agentLog = AgentRuns /\ DOMAIN driver = AgentRuns /\ RowsFit /\ BusFits
         /\ \A r \in AgentRuns : /\ LogFits(r) /\ DriverFits(r) /\ Len(agentLog[r]) \in Nat
                               /\ DOMAIN driver[r] = DriverFields
         /\ \A s \in DOMAIN stream : StreamFits(s)
BY LogParts DEF StoreInv, DriverFits

(* A driver that is not between the halves of an emission, before and after *)
(* the step.                                                                *)
AtRest(r) ==
  /\ DOMAIN driver' = AgentRuns /\ \A q \in AgentRuns : q # r => driver'[q] = driver[q]
  /\ DOMAIN driver'[r] = DriverFields /\ driver'[r].next \in Nat /\ driver'[r].at = "write"
  /\ driver[r].at # "send"
  /\ driver'[r].on => r \in DOMAIN agentRow'

RowsGrow == RowsFit' /\ DOMAIN agentRow \subseteq DOMAIN agentRow'

LEMMA BusKept ==
  ASSUME BusFits, agentLog' = agentLog, bus' = bus,
         \A r \in AgentRuns : driver'[r].at = "send" <=> driver[r].at = "send"
  PROVE  BusFits'
<1>1. \A r \in AgentRuns : Sent(r)' = Sent(r)  BY DEF Sent
<1>2. \A r, n, i : InLog(r, n, i)' <=> InLog(r, n, i)  BY DEF InLog
<1>3. \A r, k, n : LastOf(r, k, n)' <=> LastOf(r, k, n)  BY DEF LastOf
<1>4. QED  BY <1>1, <1>2, <1>3 DEF BusFits

LEMMA StreamsKept ==
  ASSUME agentLog' = agentLog, bus' = bus, NEW s, stream'[s] = stream[s], StreamFits(s),
         \A r \in AgentRuns : Sent(r)' = Sent(r)
  PROVE  StreamFits(s)'
<1>1. PICK f : f = stream[s] /\ f = stream'[s]  OBVIOUS
<1>2. GotFits(f.got, f.run, f.seam)'  BY <1>1 DEF StreamFits, GotFits, InLog
<1>3. f.live = "live" => LiveFits(f.got, f.run, f.seam, f.at)'
  BY <1>1 DEF StreamFits, LiveFits, LastOf, InLog
<1>4. JoinFits(f.got, f.run, f.seam, f.joined)'  BY <1>1 DEF StreamFits, JoinFits, InLog
<1>5. ASSUME f.live = "live", Len(f.got) = f.seam  PROVE WaitFits(f.run, f.at, f.joined)'
  <2>1. WaitFits(f.run, f.at, f.joined) /\ f.run \in AgentRuns  BY <1>1, <1>5 DEF StreamFits
  <2>2. PICK p : p = Sent(f.run) /\ p = Sent(f.run)'  BY <2>1
  <2>3. PICK q, at, n : q = f.run /\ at = f.at /\ n = f.joined  OBVIOUS
  <2>4. WaitFits(q, at, n) /\ p = Sent(q) /\ p = Sent(q)'  BY <2>1, <2>2, <2>3
  <2>5. WaitFits(q, at, n)'
    <3>1. \A k \in Nat : NextAfter(k, q, at)' <=> NextAfter(k, q, at)  BY DEF NextAfter
    <3>2. \A k \in Nat : NextAfter(k, q, at) => \A j \in Nat : InLog(q, bus[k].seq, j)' => j <= n + 1
      BY <2>4 DEF WaitFits, InLog
    <3>3. (\A k \in (at + 1)..Len(bus) : bus[k].run # q) => p <= n  BY <2>4 DEF WaitFits
    <3>4. QED  BY <2>4, <3>1, <3>2, <3>3 DEF WaitFits
  <2>6. QED  BY <2>3, <2>5
<1>6. QED  BY <1>1, <1>2, <1>3, <1>4, <1>5 DEF StreamFits

LEMMA RestKeeps ==
  ASSUME StoreInv, NEW r \in AgentRuns, AtRest(r), RowsGrow, agentLog' = agentLog, bus' = bus, stream' = stream
  PROVE  StoreInv'
<1>1. ASSUME NEW q \in AgentRuns  PROVE  LogFits(q)'  BY <1>1, StoreParts DEF LogFits
<1>2. ASSUME NEW q \in AgentRuns  PROVE  DriverFits(q)'
  <2>1. CASE q = r  BY <2>1 DEF AtRest, DriverFits
  <2>2. CASE q # r
    <3>1. driver'[q] = driver[q] /\ DriverFits(q)  BY <1>2, <2>2, StoreParts DEF AtRest
    <3>2. QED  BY <3>1 DEF DriverFits, RowsGrow
  <2>3. QED  BY <2>1, <2>2
<1>3. BusFits'
  <2>1. \A q \in AgentRuns : driver'[q].at = "send" <=> driver[q].at = "send"  BY DEF AtRest
  <2>2. QED  BY <2>1, BusKept, StoreParts
<1>4. \A s \in DOMAIN stream : StreamFits(s)'
  <2>1. \A q \in AgentRuns : Sent(q)' = Sent(q)  BY DEF AtRest, Sent
  <2>2. QED  BY <2>1, StreamsKept, StoreParts
<1>5. QED  BY <1>1, <1>2, <1>3, <1>4, StoreParts DEF StoreInv, AtRest, RowsGrow

(* The other writes of a driver.                                            *)
LEMMA SameRows ==
  ASSUME StoreInv, agentRow' = agentRow
  PROVE  RowsGrow
BY StoreParts DEF RowsGrow, RowsFit

LEMMA DoingIsAtRest ==
  ASSUME StoreInv, NEW r \in AgentRuns, NEW do, Doing(r, do), do # "emit"
  PROVE  driver[r].at = "write" /\ driver[r].on
BY StoreParts DEF Doing, DriverFits

LEMMA IdleIsAtRest ==
  ASSUME StoreInv, NEW r \in AgentRuns, Idle(r)
  PROVE  driver[r].at = "write" /\ driver[r].on
BY StoreParts DEF Idle, DriverFits

LEMMA AdvanceFits ==
  ASSUME NEW d, DOMAIN d = DriverFields
  PROVE  /\ DOMAIN Advance(d) = DriverFields /\ Advance(d).next = d.next /\ Advance(d).at = "write"
         /\ Advance(d).on = d.on
BY DEF Advance, DriverFields

LEMMA TransitionFits ==
  ASSUME StoreInv, NEW r \in AgentRuns, transition(r)
  PROVE  StoreInv'
<1>1. driver[r].at = "write" /\ driver[r].on  BY DoingIsAtRest DEF transition
<1>2. PICK d : d = [driver[r] EXCEPT !.state = Head(driver[r].todo).state]  OBVIOUS
<1>3. DOMAIN d = DriverFields /\ d.next = driver[r].next /\ d.on = driver[r].on
  BY <1>2, StoreParts DEF DriverFields
<1>4. /\ driver' = [driver EXCEPT ![r] = Advance(d)]
      /\ agentRow' = [agentRow EXCEPT ![r].state = d.state, ![r].next = d.next]
  BY <1>2 DEF transition
<1>5. r \in DOMAIN agentRow /\ d.next \in Nat  BY <1>1, <1>3, StoreParts DEF DriverFits
<1>6. RowsGrow /\ DOMAIN agentRow' = DOMAIN agentRow  BY <1>4, <1>5, StoreParts DEF RowsGrow, RowsFit
<1>7. AtRest(r)  BY <1>1, <1>3, <1>4, <1>5, <1>6, AdvanceFits, StoreParts DEF AtRest
<1>8. QED  BY <1>6, <1>7, RestKeeps DEF transition

LEMMA AdvanceAtRest ==
  ASSUME StoreInv, NEW r \in AgentRuns, driver[r].at # "send", driver[r].on,
         driver' = [driver EXCEPT ![r] = Advance(@)], DOMAIN agentRow \subseteq DOMAIN agentRow'
  PROVE  AtRest(r)
<1>1. /\ DOMAIN driver' = AgentRuns /\ \A q \in AgentRuns : q # r => driver'[q] = driver[q]
      /\ driver'[r] = Advance(driver[r])
  BY StoreParts
<1>2. driver[r].next \in Nat /\ r \in DOMAIN agentRow  BY StoreParts DEF DriverFits
<1>3. QED  BY <1>1, <1>2, AdvanceFits, StoreParts DEF AtRest

LEMMA SaveFits ==
  ASSUME StoreInv, NEW r \in AgentRuns, save_cursor(r)
  PROVE  StoreInv'
<1>1. driver[r].on /\ driver[r].at = "save" /\ r \in DOMAIN agentRow /\ driver[r].next \in Nat
  BY StoreParts DEF save_cursor, DriverFits
<1>2. agentRow' = [agentRow EXCEPT ![r].next = driver[r].next, ![r].state = driver[r].state]
  BY DEF save_cursor
<1>3. RowsGrow  BY <1>1, <1>2, StoreParts DEF RowsGrow, RowsFit
<1>4. AtRest(r)  BY <1>1, <1>3, AdvanceAtRest DEF save_cursor, RowsGrow
<1>5. QED  BY <1>3, <1>4, RestKeeps DEF save_cursor

LEMMA CheckpointFits ==
  ASSUME StoreInv, NEW r \in AgentRuns, save_checkpoint(r) \/ record_history_target(r) \/ finish_turn(r)
  PROVE  StoreInv'
<1>1. driver[r].at = "write" /\ driver[r].on
  BY DoingIsAtRest DEF save_checkpoint, record_history_target, finish_turn
<1>2. r \in DOMAIN agentRow  BY <1>1, StoreParts DEF DriverFits
<1>3. RowsGrow
  <2>1. CASE record_history_target(r)
    BY <1>2, <2>1, StoreParts DEF record_history_target, RowsGrow, RowsFit
  <2>2. CASE agentRow' = agentRow  BY <2>2, SameRows
  <2>3. QED  BY <2>1, <2>2 DEF save_checkpoint, finish_turn
<1>4. CASE save_checkpoint(r) \/ record_history_target(r)
  <2>1. AtRest(r)  BY <1>1, <1>3, <1>4, AdvanceAtRest DEF save_checkpoint, record_history_target, RowsGrow
  <2>2. QED  BY <1>3, <1>4, <2>1, RestKeeps DEF save_checkpoint, record_history_target
<1>5. CASE finish_turn(r)
  <2>1. DOMAIN NoDriver = DriverFields /\ NoDriver.next = 1 /\ NoDriver.at = "write" /\ ~NoDriver.on
    BY DEF NoDriver, DriverFields
  <2>2. /\ DOMAIN driver' = AgentRuns /\ \A q \in AgentRuns : q # r => driver'[q] = driver[q]
        /\ driver'[r] = NoDriver
    BY <1>5, StoreParts DEF finish_turn
  <2>3. AtRest(r)  BY <1>1, <2>1, <2>2 DEF AtRest
  <2>4. QED  BY <1>3, <1>5, <2>3, RestKeeps DEF finish_turn
<1>6. QED  BY <1>4, <1>5

(* Requests.                                                                *)
LEMMA BeginFits ==
  ASSUME StoreInv, NEW r \in AgentRuns, Idle(r), NEW todo, NEW loop, Begin(r, todo, loop),
         agentRow' = agentRow, agentLog' = agentLog, bus' = bus, stream' = stream
  PROVE  StoreInv'
<1>1. driver[r].at = "write" /\ driver[r].on  BY IdleIsAtRest
<1>2. /\ DOMAIN driver' = AgentRuns /\ \A q \in AgentRuns : q # r => driver'[q] = driver[q]
      /\ DOMAIN driver'[r] = DriverFields /\ driver'[r].next = driver[r].next /\ driver'[r].at = "write"
  BY <1>1, StoreParts DEF Begin, DriverFields
<1>3. r \in DOMAIN agentRow /\ driver[r].next \in Nat  BY <1>1, StoreParts DEF DriverFits
<1>4. AtRest(r)  BY <1>1, <1>2, <1>3 DEF AtRest
<1>5. QED  BY <1>4, SameRows, RestKeeps

LEMMA RequestFits ==
  ASSUME StoreInv, NEW r \in AgentRuns,
         drive_loop(r) \/ approve_call(r) \/ pause_run(r) \/ resume_run(r) \/ cancel_idle(r)
  PROVE  StoreInv'
<1>1. Idle(r) /\ agentRow' = agentRow /\ agentLog' = agentLog /\ bus' = bus /\ stream' = stream
  BY DEF drive_loop, approve_call, pause_run, resume_run, cancel_idle
<1>2. \E todo, loop : Begin(r, todo, loop)
  <2>1. CASE drive_loop(r)  BY <2>1 DEF drive_loop
  <2>2. CASE approve_call(r)  BY <2>2 DEF approve_call
  <2>3. CASE pause_run(r) \/ resume_run(r) \/ cancel_idle(r)  BY <2>3 DEF pause_run, resume_run, cancel_idle
  <2>4. QED  BY <2>1, <2>2, <2>3
<1>3. QED  BY <1>1, <1>2, BeginFits

LEMMA StartRunFits ==
  ASSUME StoreInv, NEW r \in AgentRuns, start_run(r)
  PROVE  StoreInv'
<1>1. ~driver[r].on /\ driver[r].at = "write"  BY StoreParts DEF start_run, DriverFits
<1>2. DOMAIN NoDriver = DriverFields /\ NoDriver.next = 1 /\ NoDriver.at = "write"
  BY DEF NoDriver, DriverFields
<1>3. /\ DOMAIN driver' = AgentRuns /\ \A q \in AgentRuns : q # r => driver'[q] = driver[q]
      /\ DOMAIN driver'[r] = DriverFields /\ driver'[r].next = 1 /\ driver'[r].at = "write"
  BY <1>2, StoreParts DEF start_run, DriverFields
<1>4. DOMAIN NewRow = {"state", "next", "bound"} /\ NewRow.next \in Nat  BY DEF NewRow
<1>5. RowsGrow /\ r \in DOMAIN agentRow'
  <2>1. agentRow' = [x \in DOMAIN agentRow \cup {r} |-> IF x = r THEN NewRow ELSE agentRow[x]]  BY DEF start_run
  <2>2. QED  BY <1>4, <2>1, StoreParts DEF RowsGrow, RowsFit
<1>6. AtRest(r)  BY <1>1, <1>3, <1>5 DEF AtRest
<1>7. QED  BY <1>5, <1>6, RestKeeps DEF start_run

LEMMA RehydrateFits ==
  ASSUME StoreInv, NEW r \in AgentRuns, rehydrate(r) \/ cancel_stored(r)
  PROVE  StoreInv'
<1>1. ~driver[r].on /\ driver[r].at = "write" /\ r \in DOMAIN agentRow
  BY StoreParts DEF rehydrate, cancel_stored, DriverFits
<1>2. CASE rehydrate(r)
  <2>1. DOMAIN NoDriver = DriverFields /\ NoDriver.at = "write"  BY DEF NoDriver, DriverFields
  <2>2. agentRow[r].next \in Nat  BY <1>1, StoreParts DEF RowsFit
  <2>3. DOMAIN load_run(r) = DriverFields /\ load_run(r).next = agentRow[r].next /\ load_run(r).at = "write"
    BY <2>1 DEF load_run, DriverFields
  <2>4. /\ DOMAIN driver' = AgentRuns /\ \A q \in AgentRuns : q # r => driver'[q] = driver[q]
        /\ driver'[r] = load_run(r) /\ agentRow' = agentRow
    BY <1>2, StoreParts DEF rehydrate
  <2>5. AtRest(r)  BY <1>1, <2>2, <2>3, <2>4 DEF AtRest
  <2>6. QED  BY <1>2, <2>4, <2>5, SameRows, RestKeeps DEF rehydrate
<1>3. CASE cancel_stored(r)
  <2>1. RowsGrow /\ DOMAIN agentRow' = DOMAIN agentRow
    BY <1>1, <1>3, StoreParts DEF cancel_stored, RowsGrow, RowsFit
  <2>2. driver' = driver  BY <1>3 DEF cancel_stored
  <2>3. AtRest(r)  BY <1>1, <2>1, <2>2, StoreParts DEF AtRest, DriverFits
  <2>4. QED  BY <1>3, <2>1, <2>3, RestKeeps DEF cancel_stored
<1>4. QED  BY <1>2, <1>3
-----------------------------------------------------------------------------
(* An event that is stored.                                                 *)

LEMMA AppendedFits ==
  ASSUME NEW r, LogFits(r), NEW e, e.seq \in Nat, e.seq > LastSeq(r), agentLog'[r] = Append(agentLog[r], e)
  PROVE  LogFits(r)' /\ Grows(r) /\ Len(agentLog'[r]) = Len(agentLog[r]) + 1
<1>1. PICK S : agentLog[r] \in Seq(S)  BY DEF LogFits
<1>2. PICK T : T = S \cup {e}  OBVIOUS
<1>3. agentLog[r] \in Seq(T) /\ e \in T  BY <1>1, <1>2
<1>4. PICK L : L = Len(agentLog[r])  OBVIOUS
<1>5. /\ L \in Nat /\ agentLog'[r] \in Seq(T) /\ Len(agentLog'[r]) = L + 1
      /\ \A i \in 1..L : agentLog'[r][i] = agentLog[r][i]
      /\ agentLog'[r][L + 1] = e
  BY <1>3, <1>4
<1>6. \A i \in 1..L : agentLog[r][i].seq < e.seq
  <2>1. TAKE i \in 1..L
  <2>2. agentLog[r] # <<>> /\ LastSeq(r) = agentLog[r][L].seq  BY <1>1, <1>4, <1>5 DEF LastSeq, Last
  <2>3. agentLog[r][i].seq \in Nat /\ agentLog[r][L].seq \in Nat
    BY <1>4, <1>5 DEF LogFits
  <2>4. CASE i = L  BY <2>2, <2>4
  <2>5. CASE i < L
    <3>1. agentLog[r][i].seq < agentLog[r][L].seq  BY <1>4, <1>5, <2>5 DEF LogFits
    <3>2. QED  BY <2>2, <2>3, <3>1
  <2>6. QED  BY <1>5, <2>4, <2>5
<1>7. \A i \in 1..(L + 1) : agentLog'[r][i].seq \in Nat
  <2>1. TAKE i \in 1..(L + 1)
  <2>2. CASE i = L + 1  BY <1>5, <2>2
  <2>3. CASE i \in 1..L  BY <1>4, <1>5, <2>3 DEF LogFits
  <2>4. QED  BY <1>5, <2>2, <2>3
<1>8. \A i, j \in 1..(L + 1) : i < j => agentLog'[r][i].seq < agentLog'[r][j].seq
  <2>1. TAKE i, j \in 1..(L + 1)
  <2>2. HAVE i < j
  <2>3. i \in 1..L  BY <1>5, <2>2
  <2>4. CASE j = L + 1  BY <1>5, <1>6, <2>3, <2>4
  <2>5. CASE j \in 1..L  BY <1>4, <1>5, <2>2, <2>3, <2>5 DEF LogFits
  <2>6. QED  BY <1>5, <2>4, <2>5
<1>9. QED  BY <1>4, <1>5, <1>7, <1>8 DEF LogFits, Grows

LEMMA BusEntries ==
  ASSUME BusFits, NEW k \in 1..Len(bus)
  PROVE  bus[k].run \in AgentRuns /\ bus[k].seq \in Nat
<1>1. PICK E : E = [run : AgentRuns, seq : Nat]  OBVIOUS
<1>2. bus \in Seq(E)  BY <1>1 DEF BusFits
<1>3. bus[k] \in E  BY <1>2
<1>4. QED  BY <1>1, <1>3

LEMMA BusGrows ==
  ASSUME BusFits, bus' = bus, \A r \in AgentRuns : LogFits(r) /\ LogFits(r)' /\ Grows(r) /\ Sent(r)' = Sent(r)
  PROVE  BusFits'
<1>1. \A k \in 1..Len(bus) : bus[k].run \in AgentRuns /\ \E i \in Nat : InLog(bus[k].run, bus[k].seq, i)
  BY BusEntries DEF BusFits
<1>2. \A r, k, n : LastOf(r, k, n)' <=> LastOf(r, k, n)  BY DEF LastOf
<1>3. \A k \in 1..Len(bus) : \A i : InLog(bus[k].run, bus[k].seq, i)' <=> InLog(bus[k].run, bus[k].seq, i)
  <2>1. TAKE k \in 1..Len(bus)
  <2>2. TAKE i
  <2>3. InLog(bus[k].run, bus[k].seq, i) => InLog(bus[k].run, bus[k].seq, i)'  BY <1>1, InLogKept
  <2>4. ASSUME InLog(bus[k].run, bus[k].seq, i)'  PROVE InLog(bus[k].run, bus[k].seq, i)
    BY <1>1, <2>4, InLogWas
  <2>5. QED  BY <2>3, <2>4
<1>4. ASSUME NEW k \in Nat, NEW n \in Nat, NEW i \in Nat,
             n < Len(bus), LastOf(bus[n + 1].run, k, n), InLog(bus[k].run, bus[k].seq, i)'
      PROVE  InLog(bus[k].run, bus[n + 1].seq, i + 1)'
  <2>1. k \in 1..Len(bus) /\ n + 1 \in 1..Len(bus) /\ bus[k].run = bus[n + 1].run
    BY <1>4 DEF LastOf, BusFits
  <2>2. InLog(bus[k].run, bus[k].seq, i)  BY <1>3, <1>4, <2>1
  <2>3. InLog(bus[n + 1].run, bus[n + 1].seq, i + 1)  BY <1>4, <2>1, <2>2 DEF BusFits
  <2>4. QED  BY <1>3, <2>1, <2>3
<1>5. ASSUME NEW r \in AgentRuns, NEW k \in Nat, LastOf(r, k, Len(bus))
      PROVE  InLog(r, bus[k].seq, Sent(r))'
  <2>1. InLog(r, bus[k].seq, Sent(r))  BY <1>5 DEF BusFits
  <2>2. PICK p : p = Sent(r) /\ p = Sent(r)'  OBVIOUS
  <2>3. InLog(r, bus[k].seq, p)'  BY <2>1, <2>2, InLogKept
  <2>4. QED  BY <2>2, <2>3 DEF InLog
<1>6. \A k \in 1..Len(bus) : \E i \in Nat : InLog(bus[k].run, bus[k].seq, i)'  BY <1>1, <1>3
<1>7. QED  BY <1>2, <1>4, <1>5, <1>6 DEF BusFits

LEMMA StreamsGrow ==
  ASSUME BusFits, bus' = bus, stream' = stream,
         \A r \in AgentRuns : LogFits(r) /\ LogFits(r)' /\ Grows(r) /\ Sent(r)' = Sent(r),
         NEW s \in DOMAIN stream, StreamFits(s)
  PROVE  StreamFits(s)'
<1>1. PICK f : f = stream[s]  OBVIOUS
<1>2. /\ DOMAIN f = StreamFields
      /\ f.run \in AgentRuns /\ f.got \in Seq(Nat) /\ f.seam \in Nat /\ f.seam <= Len(f.got)
      /\ f.live = "replayed" => f.seam = Len(f.got)
      /\ GotFits(f.got, f.run, f.seam)
      /\ f.live = "live" => LiveFits(f.got, f.run, f.seam, f.at)
  BY <1>1 DEF StreamFits
<1>3. GotFits(f.got, f.run, f.seam)'
  <2>1. LogFits(f.run) /\ LogFits(f.run)' /\ Grows(f.run)  BY <1>2
  <2>2. PICK g, r, m : g = f.got /\ r = f.run /\ m = f.seam  BY <1>2
  <2>3. GotFits(g, r, m)'  BY <1>2, <2>1, <2>2, GotKept
  <2>4. QED  BY <2>2, <2>3
<1>4. ASSUME f.live = "live"  PROVE LiveFits(f.got, f.run, f.seam, f.at)'
  <2>1. LiveFits(f.got, f.run, f.seam, f.at)  BY <1>2, <1>4
  <2>2. PICK g, r, m, at : g = f.got /\ r = f.run /\ m = f.seam /\ at = f.at  OBVIOUS
  <2>3. ASSUME Len(g) = m, Len(g) > 0, NEW k \in (at + 1)..Len(bus), bus[k].run = r,
               NEW i \in Nat, NEW j \in Nat, InLog(r, bus[k].seq, i)', InLog(r, g[Len(g)], j)'
        PROVE  i >= j
    <3>1. k \in 1..Len(bus)  BY <2>1, <2>2 DEF LiveFits, BusFits
    <3>2. InLog(r, bus[k].seq, i)  BY <1>2, <2>2, <2>3, <3>1, InLogWas DEF BusFits
    <3>3. Len(g) \in 1..Len(g)  BY <1>2, <2>2, <2>3
    <3>4. InLog(r, g[Len(g)], j)  BY <1>2, <2>2, <2>3, <3>3, InLogWas DEF GotFits
    <3>5. QED  BY <2>1, <2>2, <2>3, <3>2, <3>4 DEF LiveFits
  <2>4. LiveFits(g, r, m, at)'
    <3>1. LiveFits(g, r, m, at)  BY <2>1, <2>2
    <3>2. at \in 0..Len(bus') /\ (Len(g) > m => \E k \in Nat : LastOf(r, k, at)' /\ bus'[k].seq = g[Len(g)])
      BY <3>1 DEF LiveFits, LastOf
    <3>3. QED  BY <2>3, <3>2 DEF LiveFits
  <2>5. QED  BY <2>2, <2>4
<1>5. JoinFits(f.got, f.run, f.seam, f.joined)' /\ f.joined \in Nat
  <2>1. JoinFits(f.got, f.run, f.seam, f.joined) /\ f.joined \in Nat  BY <1>1 DEF StreamFits
  <2>2. PICK g, r, m, n : g = f.got /\ r = f.run /\ m = f.seam /\ n = f.joined  OBVIOUS
  <2>3. ASSUME Len(g) > m, NEW j \in Nat, InLog(r, g[m + 1], j)'  PROVE j <= n + 1
    <3>1. m + 1 \in 1..Len(g)  BY <1>2, <2>2, <2>3
    <3>2. InLog(r, g[m + 1], j)  BY <1>2, <2>2, <2>3, <3>1, InLogWas DEF GotFits
    <3>3. QED  BY <2>1, <2>2, <2>3, <3>2 DEF JoinFits
  <2>4. JoinFits(g, r, m, n)'  BY <2>3 DEF JoinFits
  <2>5. QED  BY <2>1, <2>2, <2>4
<1>6. ASSUME f.live = "live", Len(f.got) = f.seam  PROVE WaitFits(f.run, f.at, f.joined)'
  <2>1. WaitFits(f.run, f.at, f.joined) /\ f.at \in 0..Len(bus)  BY <1>1, <1>2, <1>6 DEF StreamFits, LiveFits
  <2>2. PICK r, at, n, p : r = f.run /\ at = f.at /\ n = f.joined /\ p = Sent(r) /\ p = Sent(r)'  BY <1>2
  <2>3. WaitFits(r, at, n)  BY <2>1, <2>2
  <2>4. ASSUME NEW k \in Nat, NextAfter(k, r, at), NEW j \in Nat, InLog(r, bus[k].seq, j)'  PROVE j <= n + 1
    <3>1. k \in 1..Len(bus) /\ bus[k].run = r  BY <2>1, <2>2, <2>4 DEF NextAfter
    <3>2. InLog(r, bus[k].seq, j)  BY <1>2, <2>2, <2>4, <3>1, InLogWas DEF BusFits
    <3>3. QED  BY <2>3, <2>4, <3>2 DEF WaitFits
  <2>5. (\A k \in (at + 1)..Len(bus) : bus[k].run # r) => p <= n  BY <2>2, <2>3 DEF WaitFits
  <2>6. \A k \in Nat : NextAfter(k, r, at)' <=> NextAfter(k, r, at)  BY DEF NextAfter
  <2>7. WaitFits(r, at, n)'  BY <2>2, <2>4, <2>5, <2>6 DEF WaitFits
  <2>8. QED  BY <2>2, <2>7
<1>7. stream'[s] = f  BY <1>1
<1>8. QED  BY <1>2, <1>3, <1>4, <1>5, <1>6, <1>7 DEF StreamFits

LEMMA AppendFits ==
  ASSUME StoreInv, NEW r \in AgentRuns, append(r)
  PROVE  StoreInv'
<1>1. PICK e : e = [seq |-> driver[r].next, kind |-> Head(driver[r].todo).kind, tool |-> Head(driver[r].todo).tool]
  OBVIOUS
<1>2. driver[r].on /\ driver[r].todo # <<>> /\ Head(driver[r].todo).do = "emit" /\ driver[r].at = "write"
  BY DEF append, Doing
<1>3. r \in DOMAIN agentRow /\ driver[r].next \in Nat /\ e.seq = driver[r].next
  BY <1>1, <1>2, StoreParts DEF DriverFits
<1>4. RowsGrow  BY SameRows DEF append
<1>5. agentRow' = agentRow /\ bus' = bus /\ stream' = stream  BY DEF append
<1>6. CASE e.seq <= LastSeq(r)
  <2>1. /\ agentLog' = agentLog
        /\ driver' = [driver EXCEPT ![r].next = @ + 1, ![r].loop = FALSE,
                        ![r].todo = SelectSeq(@, LAMBDA x : x = Leave /\ ~driver[r].loop)]
    BY <1>1, <1>6 DEF append
  <2>2. /\ DOMAIN driver' = AgentRuns /\ \A q \in AgentRuns : q # r => driver'[q] = driver[q]
        /\ DOMAIN driver'[r] = DriverFields /\ driver'[r].next = driver[r].next + 1
        /\ driver'[r].at = driver[r].at
    BY <2>1, StoreParts DEF DriverFields
  <2>3. AtRest(r)  BY <1>2, <1>3, <1>5, <2>2 DEF AtRest
  <2>4. QED  BY <1>4, <1>5, <2>1, <2>3, RestKeeps
<1>7. CASE ~(e.seq <= LastSeq(r))
  <2>1. /\ agentLog' = [agentLog EXCEPT ![r] = Append(@, e)]
        /\ driver' = [driver EXCEPT ![r].next = @ + 1, ![r].at = "send"]
    BY <1>1, <1>7 DEF append
  <2>2. /\ DOMAIN driver' = AgentRuns /\ \A q \in AgentRuns : q # r => driver'[q] = driver[q]
        /\ DOMAIN driver'[r] = DriverFields /\ driver'[r].next = driver[r].next + 1
        /\ driver'[r].at = "send" /\ driver'[r].todo = driver[r].todo /\ driver'[r].on = driver[r].on
    BY <2>1, StoreParts DEF DriverFields
  <2>3. /\ DOMAIN agentLog' = AgentRuns /\ \A q \in AgentRuns : q # r => agentLog'[q] = agentLog[q]
        /\ agentLog'[r] = Append(agentLog[r], e)
    BY <2>1, StoreParts
  <2>4. e.seq > LastSeq(r)
    <3>1. LastSeq(r) \in Nat
      <4>1. PICK S : agentLog[r] \in Seq(S)  BY StoreParts DEF LogFits
      <4>2. CASE agentLog[r] = <<>>  BY <4>2 DEF LastSeq
      <4>3. CASE agentLog[r] # <<>>
        <5>1. Len(agentLog[r]) \in 1..Len(agentLog[r])  BY <4>1, <4>3
        <5>2. QED  BY <4>3, <5>1, StoreParts DEF LastSeq, Last, LogFits
      <4>4. QED  BY <4>2, <4>3
    <3>2. QED  BY <1>3, <1>7, <3>1
  <2>5. LogFits(r)' /\ Grows(r) /\ Len(agentLog'[r]) = Len(agentLog[r]) + 1
    BY <1>3, <2>3, <2>4, AppendedFits, StoreParts
  <2>6. ASSUME NEW q \in AgentRuns  PROVE LogFits(q) /\ LogFits(q)' /\ Grows(q) /\ Sent(q)' = Sent(q)
    <3>1. CASE q = r
      <4>1. Len(agentLog[r]) \in Nat  BY StoreParts
      <4>2. Sent(r) = Len(agentLog[r]) /\ Sent(r)' = Len(agentLog'[r]) - 1  BY <1>2, <2>2 DEF Sent
      <4>3. QED  BY <2>5, <3>1, <4>1, <4>2, StoreParts
    <3>2. CASE q # r
      <4>1. agentLog'[q] = agentLog[q] /\ driver'[q] = driver[q] /\ LogFits(q) /\ Len(agentLog[q]) \in Nat
        BY <2>2, <2>3, <2>6, <3>2, StoreParts
      <4>2. QED  BY <4>1 DEF LogFits, Grows, Sent
    <3>3. QED  BY <3>1, <3>2
  <2>7. ASSUME NEW q \in AgentRuns  PROVE DriverFits(q)'
    <3>1. CASE q = r
      <4>1. Len(agentLog[r]) \in Nat  BY StoreParts
      <4>2. Len(agentLog'[r]) > 0  BY <2>5, <4>1
      <4>3. Head(driver'[r].todo).do = "emit" /\ driver'[r].todo # <<>>  BY <1>2, <2>2
      <4>4. driver'[r].next \in Nat /\ r \in DOMAIN agentRow'  BY <1>3, <1>5, <2>2
      <4>5. QED  BY <1>2, <2>2, <3>1, <4>2, <4>3, <4>4 DEF DriverFits
    <3>2. CASE q # r
      <4>1. agentLog'[q] = agentLog[q] /\ driver'[q] = driver[q] /\ DriverFits(q)
        BY <2>2, <2>3, <2>7, <3>2, StoreParts
      <4>2. QED  BY <1>5, <4>1 DEF DriverFits
    <3>3. QED  BY <3>1, <3>2
  <2>8. BusFits'  BY <1>5, <2>6, BusGrows, StoreParts
  <2>9. \A s \in DOMAIN stream : StreamFits(s)'  BY <1>5, <2>6, StreamsGrow, StoreParts
  <2>10. QED  BY <1>4, <1>5, <2>2, <2>3, <2>6, <2>7, <2>8, <2>9 DEF StoreInv, RowsGrow
<1>8. QED  BY <1>6, <1>7

(* An event that is broadcast.                                              *)
LEMMA LogEnd ==
  ASSUME NEW r, LogFits(r), Len(agentLog[r]) > 0
  PROVE  LastSeq(r) \in Nat /\ InLog(r, LastSeq(r), Len(agentLog[r]))
<1>1. PICK S : agentLog[r] \in Seq(S)  BY DEF LogFits
<1>2. Len(agentLog[r]) \in 1..Len(agentLog[r]) /\ agentLog[r] # <<>>  BY <1>1
<1>3. LastSeq(r) = agentLog[r][Len(agentLog[r])].seq  BY <1>2 DEF LastSeq, Last
<1>4. QED  BY <1>2, <1>3 DEF LogFits, InLog

Broadcast(r, e) ==
  /\ e.run = r /\ InLog(r, e.seq, Len(agentLog[r])) /\ bus' = Append(bus, e)
  /\ agentLog' = agentLog
  /\ Sent(r) = Len(agentLog[r]) - 1 /\ Sent(r)' = Len(agentLog[r])
  /\ \A q \in AgentRuns : q # r => Sent(q)' = Sent(q)

LEMMA BusLonger ==
  ASSUME BusFits, NEW e \in [run : AgentRuns, seq : Nat], bus' = Append(bus, e)
  PROVE  /\ Len(bus) \in Nat /\ Len(bus') = Len(bus) + 1 /\ bus' \in Seq([run : AgentRuns, seq : Nat])
         /\ \A k \in 1..Len(bus) : bus'[k] = bus[k]
         /\ bus'[Len(bus) + 1] = e
         /\ \A r, k, n : n \in Nat /\ n <= Len(bus) => (LastOf(r, k, n)' <=> LastOf(r, k, n))
<1>1. PICK E : E = [run : AgentRuns, seq : Nat]  OBVIOUS
<1>2. bus \in Seq(E) /\ e \in E  BY <1>1 DEF BusFits
<1>3. /\ Len(bus) \in Nat /\ Len(bus') = Len(bus) + 1 /\ bus' \in Seq(E)
      /\ \A k \in 1..Len(bus) : bus'[k] = bus[k]
      /\ bus'[Len(bus) + 1] = e
  BY <1>2
<1>4. ASSUME NEW r, NEW k, NEW n, n \in Nat, n <= Len(bus)  PROVE LastOf(r, k, n)' <=> LastOf(r, k, n)
  BY <1>3, <1>4 DEF LastOf
<1>5. QED  BY <1>1, <1>3, <1>4

LEMMA BusSends ==
  ASSUME BusFits, NEW r \in AgentRuns, LogFits(r), NEW e \in [run : AgentRuns, seq : Nat], Broadcast(r, e)
  PROVE  BusFits'
<1>1. \A q, n, i : InLog(q, n, i)' <=> InLog(q, n, i)  BY DEF InLog, Broadcast
<1>2. PICK N : N = Len(bus)  OBVIOUS
<1>3. /\ N \in Nat /\ Len(bus') = N + 1 /\ bus' \in Seq([run : AgentRuns, seq : Nat])
      /\ \A k \in 1..N : bus'[k] = bus[k]
      /\ bus'[N + 1] = e
      /\ \A q, k, n : n \in Nat /\ n <= N => (LastOf(q, k, n)' <=> LastOf(q, k, n))
  BY <1>2, BusLonger DEF Broadcast
<1>4. Len(agentLog[r]) \in Nat  BY LogParts
<1>5. ASSUME NEW k \in 1..(N + 1)  PROVE \E i \in Nat : InLog(bus'[k].run, bus'[k].seq, i)
  <2>1. CASE k = N + 1  BY <1>3, <1>4, <2>1 DEF Broadcast
  <2>2. CASE k \in 1..N  BY <1>2, <1>3, <2>2 DEF BusFits
  <2>3. QED  BY <1>3, <2>1, <2>2
<1>6. ASSUME NEW k \in Nat, NEW n \in Nat, NEW i \in Nat, n < N + 1,
             LastOf(bus'[n + 1].run, k, n), InLog(bus'[k].run, bus'[k].seq, i)
      PROVE  InLog(bus'[k].run, bus'[n + 1].seq, i + 1)
  <2>1. k \in 1..N /\ bus'[k] = bus[k] /\ bus[k].run = bus'[n + 1].run  BY <1>3, <1>6 DEF LastOf
  <2>2. CASE n = N
    <3>1. bus'[n + 1] = e /\ bus[k].run = r  BY <1>3, <2>1, <2>2 DEF Broadcast
    <3>2. InLog(r, bus[k].seq, Sent(r))  BY <1>2, <1>6, <2>1, <2>2, <3>1 DEF BusFits
    <3>3. i = Len(agentLog[r]) - 1  BY <1>6, <2>1, <3>1, <3>2, OnePlace DEF Broadcast
    <3>4. i + 1 = Len(agentLog[r])  BY <1>4, <3>3
    <3>5. QED  BY <2>1, <3>1, <3>4 DEF Broadcast
  <2>3. CASE n < N
    <3>1. bus'[n + 1] = bus[n + 1]  BY <1>3, <2>3
    <3>2. QED  BY <1>2, <1>6, <2>1, <2>3, <3>1 DEF BusFits
  <2>4. QED  BY <1>3, <1>6, <2>2, <2>3
<1>7. ASSUME NEW q \in AgentRuns, NEW k \in Nat, LastOf(q, k, N + 1)'
      PROVE  InLog(q, bus'[k].seq, Sent(q)')
  <2>1. /\ k \in 1..(N + 1) /\ bus'[k].run = q
        /\ \A m \in (k + 1)..(N + 1) : bus'[m].run # q
    BY <1>3, <1>7 DEF LastOf
  <2>2. CASE q = r
    <3>1. k = N + 1
      <4>1. CASE k \in 1..N  BY <1>3, <2>1, <2>2, <4>1 DEF Broadcast
      <4>2. QED  BY <1>3, <2>1, <4>1
    <3>2. QED  BY <1>3, <2>2, <3>1 DEF Broadcast
  <2>3. CASE q # r
    <3>1. k \in 1..N  BY <1>3, <2>1, <2>3 DEF Broadcast
    <3>2. LastOf(q, k, N)  BY <1>3, <2>1, <3>1 DEF LastOf
    <3>3. InLog(q, bus[k].seq, Sent(q))  BY <1>2, <1>7, <3>2 DEF BusFits
    <3>4. QED  BY <1>3, <1>7, <2>3, <3>1, <3>3 DEF Broadcast
  <2>4. QED  BY <2>2, <2>3
<1>8. PICK B : B = bus'  OBVIOUS
<1>9. \A k \in 1..Len(B) : \E i \in Nat : InLog(B[k].run, B[k].seq, i)'  BY <1>1, <1>3, <1>5, <1>8
<1>10. ASSUME NEW k \in Nat, NEW n \in Nat, NEW i \in Nat, n < Len(B),
              LastOf(B[n + 1].run, k, n)', InLog(B[k].run, B[k].seq, i)'
       PROVE  InLog(B[k].run, B[n + 1].seq, i + 1)'
  <2>1. n < N + 1 /\ n <= N  BY <1>3, <1>8, <1>10
  <2>2. LastOf(B[n + 1].run, k, n) /\ InLog(B[k].run, B[k].seq, i)  BY <1>1, <1>3, <1>10, <2>1
  <2>3. QED  BY <1>1, <1>6, <1>8, <2>1, <2>2
<1>11. ASSUME NEW q \in AgentRuns, NEW k \in Nat, LastOf(q, k, Len(bus))'
       PROVE  InLog(q, bus[k].seq, Sent(q))'
  <2>1. LastOf(q, k, N + 1)'  BY <1>3, <1>11 DEF LastOf
  <2>2. InLog(q, bus'[k].seq, Sent(q)')  BY <1>7, <1>11, <2>1
  <2>3. QED  BY <2>2 DEF InLog, Broadcast
<1>12. QED  BY <1>3, <1>8, <1>9, <1>10, <1>11 DEF BusFits

LEMMA StreamsHear ==
  ASSUME BusFits, NEW r \in AgentRuns, LogFits(r), NEW e \in [run : AgentRuns, seq : Nat], Broadcast(r, e),
         stream' = stream, NEW s \in DOMAIN stream, StreamFits(s)
  PROVE  StreamFits(s)'
<1>1. \A q, n, i : InLog(q, n, i)' <=> InLog(q, n, i)  BY DEF InLog, Broadcast
<1>2. /\ Len(bus) \in Nat /\ Len(bus') = Len(bus) + 1
      /\ \A k \in 1..Len(bus) : bus'[k] = bus[k]
      /\ bus'[Len(bus) + 1] = e
      /\ \A q, k, n : n \in Nat /\ n <= Len(bus) => (LastOf(q, k, n)' <=> LastOf(q, k, n))
  BY BusLonger DEF Broadcast
<1>3. PICK f : f = stream[s] /\ f = stream'[s]  OBVIOUS
<1>4. /\ DOMAIN f = StreamFields
      /\ f.run \in AgentRuns /\ f.got \in Seq(Nat) /\ f.seam \in Nat /\ f.seam <= Len(f.got)
      /\ f.live = "replayed" => f.seam = Len(f.got)
      /\ GotFits(f.got, f.run, f.seam)
      /\ f.live = "live" => LiveFits(f.got, f.run, f.seam, f.at)
  BY <1>3 DEF StreamFits
<1>5. PICK g, q, m, at : g = f.got /\ q = f.run /\ m = f.seam /\ at = f.at  OBVIOUS
<1>6. GotFits(g, q, m)'  BY <1>1, <1>4, <1>5 DEF GotFits
<1>7. ASSUME LiveFits(g, q, m, at)  PROVE LiveFits(g, q, m, at)'
  <2>1. at \in 0..Len(bus) /\ at \in 0..Len(bus')  BY <1>2, <1>7 DEF LiveFits
  <2>2. Len(g) > m => \E k \in Nat : LastOf(q, k, at)' /\ bus'[k].seq = g[Len(g)]
    <3>1. SUFFICES ASSUME Len(g) > m  PROVE \E k \in Nat : LastOf(q, k, at)' /\ bus'[k].seq = g[Len(g)]
      OBVIOUS
    <3>2. PICK k \in Nat : LastOf(q, k, at) /\ bus[k].seq = g[Len(g)]  BY <1>7, <3>1 DEF LiveFits
    <3>3. k \in 1..Len(bus)  BY <1>2, <2>1, <3>2 DEF LastOf
    <3>4. LastOf(q, k, at)' /\ bus'[k] = bus[k]  BY <1>2, <2>1, <3>2, <3>3
    <3>5. QED  BY <3>2, <3>4
  <2>3. ASSUME Len(g) = m, Len(g) > 0, NEW k \in (at + 1)..Len(bus'), bus'[k].run = q,
               NEW i \in Nat, NEW j \in Nat, InLog(q, bus'[k].seq, i), InLog(q, g[Len(g)], j)
        PROVE  i >= j
    <3>1. CASE k = Len(bus) + 1
      <4>1. q = r /\ InLog(r, e.seq, Len(agentLog[r])) /\ InLog(r, e.seq, i)
        BY <1>2, <2>3, <3>1 DEF Broadcast
      <4>2. i = Len(agentLog[r])  BY <4>1, OnePlace
      <4>3. j \in 1..Len(agentLog[r])  BY <2>3, <4>1 DEF InLog
      <4>4. QED  BY <4>2, <4>3, LogParts
    <3>2. CASE k \in (at + 1)..Len(bus)
      <4>1. bus'[k] = bus[k]  BY <1>2, <2>1, <3>2
      <4>2. QED  BY <1>7, <2>3, <3>2, <4>1 DEF LiveFits
    <3>3. QED  BY <1>2, <2>1, <2>3, <3>1, <3>2
  <2>4. QED  BY <1>1, <2>1, <2>2, <2>3 DEF LiveFits
<1>8. PICK n : n = f.joined  OBVIOUS
<1>9. n \in Nat /\ JoinFits(g, q, m, n) /\ JoinFits(g, q, m, n)'
  BY <1>1, <1>3, <1>5, <1>8 DEF StreamFits, JoinFits
<1>10. ASSUME LiveFits(g, q, m, at), WaitFits(q, at, n)  PROVE WaitFits(q, at, n)'
  <2>1. at \in 0..Len(bus)  BY <1>10 DEF LiveFits
  <2>2. ASSUME NEW k \in Nat, NextAfter(k, q, at)', NEW j \in Nat, InLog(q, bus'[k].seq, j)  PROVE j <= n + 1
    <3>1. /\ k \in (at + 1)..Len(bus') /\ bus'[k].run = q
          /\ \A x \in (at + 1)..(k - 1) : bus'[x].run # q
      BY <2>2 DEF NextAfter
    <3>2. CASE k \in (at + 1)..Len(bus)
      <4>1. \A x \in (at + 1)..k : bus'[x] = bus[x]  BY <1>2, <2>1, <3>2
      <4>2. NextAfter(k, q, at) /\ bus'[k] = bus[k]  BY <1>2, <2>1, <3>1, <3>2, <4>1 DEF NextAfter
      <4>3. QED  BY <1>10, <2>2, <4>2 DEF WaitFits
    <3>3. CASE k = Len(bus) + 1
      <4>1. q = r /\ InLog(r, e.seq, Len(agentLog[r])) /\ InLog(r, e.seq, j)
        BY <1>2, <2>2, <3>1, <3>3 DEF Broadcast
      <4>2. j = Len(agentLog[r]) /\ j \in Nat  BY <4>1, OnePlace
      <4>3. \A x \in (at + 1)..Len(bus) : bus[x].run # q
        <5>1. TAKE x \in (at + 1)..Len(bus)
        <5>2. x \in (at + 1)..(k - 1) /\ bus'[x] = bus[x]  BY <1>2, <2>1, <3>3
        <5>3. QED  BY <3>1, <5>2
      <4>4. Sent(r) <= n /\ Sent(r) = j - 1  BY <1>10, <4>1, <4>2, <4>3 DEF WaitFits, Broadcast
      <4>5. QED  BY <1>9, <4>2, <4>4
    <3>4. QED  BY <1>2, <2>1, <3>1, <3>2, <3>3
  <2>3. ASSUME \A k \in (at + 1)..Len(bus') : bus'[k].run # q  PROVE Sent(q)' <= n
    <3>1. q # r
      <4>1. Len(bus) + 1 \in (at + 1)..Len(bus')  BY <1>2, <2>1
      <4>2. bus'[Len(bus) + 1].run = r  BY <1>2 DEF Broadcast
      <4>3. QED  BY <2>3, <4>1, <4>2
    <3>2. \A k \in (at + 1)..Len(bus) : bus[k].run # q
      <4>1. TAKE k \in (at + 1)..Len(bus)
      <4>2. k \in (at + 1)..Len(bus') /\ bus'[k] = bus[k]  BY <1>2, <2>1
      <4>3. QED  BY <2>3, <4>2
    <3>3. q \in AgentRuns  BY <1>4, <1>5
    <3>4. QED  BY <1>10, <3>1, <3>2, <3>3 DEF WaitFits, Broadcast
  <2>4. QED  BY <1>1, <2>2, <2>3 DEF WaitFits
<1>11. f.live = "live" /\ Len(g) = m => WaitFits(q, at, n)  BY <1>3, <1>5, <1>8 DEF StreamFits
<1>12. f.live = "live" => LiveFits(g, q, m, at)  BY <1>4, <1>5
<1>13. /\ f.live = "live" => LiveFits(g, q, m, at)'
       /\ f.live = "live" /\ Len(g) = m => WaitFits(q, at, n)'
  BY <1>7, <1>10, <1>11, <1>12
<1>14. /\ GotFits(f.got, f.run, f.seam)' /\ JoinFits(f.got, f.run, f.seam, f.joined)'
       /\ f.live = "live" => LiveFits(f.got, f.run, f.seam, f.at)'
       /\ f.live = "live" /\ Len(f.got) = f.seam => WaitFits(f.run, f.at, f.joined)'
  BY <1>5, <1>6, <1>8, <1>9, <1>13
<1>15. QED  BY <1>3, <1>4, <1>8, <1>9, <1>14 DEF StreamFits

LEMMA BroadcastFits ==
  ASSUME StoreInv, NEW r \in AgentRuns, broadcast(r)
  PROVE  StoreInv'
<1>1. driver[r].on /\ driver[r].at = "send"  BY DEF broadcast
<1>2. /\ Len(agentLog[r]) > 0 /\ r \in DOMAIN agentRow /\ driver[r].todo # <<>> /\ Head(driver[r].todo).do = "emit"
      /\ driver[r].next \in Nat
  BY <1>1, StoreParts DEF DriverFits
<1>3. PICK e : e = [run |-> r, seq |-> LastSeq(r)]  OBVIOUS
<1>4. LogFits(r) /\ LastSeq(r) \in Nat /\ InLog(r, LastSeq(r), Len(agentLog[r]))
  BY <1>2, LogEnd, StoreParts
<1>5. e \in [run : AgentRuns, seq : Nat] /\ e.run = r /\ e.seq = LastSeq(r)  BY <1>3, <1>4
<1>6. /\ bus' = Append(bus, e) /\ agentLog' = agentLog /\ agentRow' = agentRow /\ stream' = stream
      /\ driver' = [driver EXCEPT ![r].at = "save"]
  BY <1>3 DEF broadcast
<1>7. /\ DOMAIN driver' = AgentRuns /\ \A q \in AgentRuns : q # r => driver'[q] = driver[q]
      /\ DOMAIN driver'[r] = DriverFields /\ driver'[r].next = driver[r].next /\ driver'[r].at = "save"
      /\ driver'[r].todo = driver[r].todo /\ driver'[r].on = driver[r].on
  BY <1>6, StoreParts DEF DriverFields
<1>8. Broadcast(r, e)  BY <1>1, <1>4, <1>5, <1>6, <1>7 DEF Broadcast, Sent
<1>9. BusFits'  BY <1>4, <1>5, <1>8, BusSends, StoreParts
<1>10. \A s \in DOMAIN stream : StreamFits(s)'  BY <1>4, <1>5, <1>6, <1>8, StreamsHear, StoreParts
<1>11. ASSUME NEW q \in AgentRuns  PROVE DriverFits(q)' /\ LogFits(q)'
  <2>1. LogFits(q)'  BY <1>6, <1>11, StoreParts DEF LogFits
  <2>2. CASE q = r
    <3>1. Head(driver'[r].todo).do = "emit" /\ driver'[r].todo # <<>>  BY <1>2, <1>7
    <3>2. driver'[r].next \in Nat /\ r \in DOMAIN agentRow'  BY <1>2, <1>6, <1>7
    <3>3. QED  BY <1>1, <1>7, <2>1, <2>2, <3>1, <3>2 DEF DriverFits
  <2>3. CASE q # r
    <3>1. driver'[q] = driver[q] /\ DriverFits(q)  BY <1>7, <1>11, <2>3, StoreParts
    <3>2. QED  BY <1>6, <2>1, <3>1 DEF DriverFits
  <2>4. QED  BY <2>1, <2>2, <2>3
<1>12. RowsGrow  BY <1>6, SameRows
<1>13. QED  BY <1>6, <1>7, <1>9, <1>10, <1>11, <1>12, StoreParts DEF StoreInv, RowsGrow

-----------------------------------------------------------------------------
(* The streams.                                                             *)

LEMMA OnlyStreams ==
  ASSUME StoreInv, agentRow' = agentRow, agentLog' = agentLog, driver' = driver, bus' = bus,
         \A s \in DOMAIN stream' : StreamFits(s)'
  PROVE  StoreInv'
<1>1. \A r \in AgentRuns : LogFits(r)' /\ DriverFits(r)'  BY StoreParts DEF LogFits, DriverFits
<1>2. RowsFit' /\ BusFits'  BY BusKept, StoreParts DEF RowsFit
<1>3. QED  BY <1>1, <1>2, StoreParts DEF StoreInv

LEMMA StreamStays ==
  ASSUME StoreInv, agentLog' = agentLog, bus' = bus, driver' = driver,
         NEW s \in DOMAIN stream, stream'[s] = stream[s]
  PROVE  StreamFits(s)'
<1>1. \A r \in AgentRuns : Sent(r)' = Sent(r)  BY DEF Sent
<1>2. QED  BY <1>1, StreamsKept, StoreParts

(* The events after a number are the end of the log.                        *)
LEMMA EventsAfter ==
  ASSUME NEW r, LogFits(r), NEW after \in Nat
  PROVE  LET g == events_after(r, after) IN g \in Seq(Nat) /\ GotFits(g, r, Len(g))
<1>1. PICK L : L = Len(agentLog[r])  OBVIOUS
<1>2. L \in Nat /\ DOMAIN agentLog[r] = 1..L  BY <1>1, LogParts
<1>3. PICK I : I = {i \in DOMAIN agentLog[r] : agentLog[r][i].seq <= after}  OBVIOUS
<1>4. PICK old : old = Cardinality(I)  OBVIOUS
<1>5. old \in Nat /\ old <= L
  <2>1. IsFiniteSet(1..L) /\ Cardinality(1..L) = L
    <3>1. 1 \in Int /\ L \in Int  BY <1>2
    <3>2. Cardinality(1..L) = IF 1 > L THEN 0 ELSE L - 1 + 1  BY <3>1, FS_Interval
    <3>3. QED  BY <1>2, <3>1, <3>2, FS_Interval
  <2>2. I \subseteq 1..L  BY <1>2, <1>3
  <2>3. IsFiniteSet(I) /\ Cardinality(I) <= L  BY <2>1, <2>2, FS_Subset
  <2>4. QED  BY <1>4, <2>3, FS_CardinalityType
<1>6. PICK g : g = events_after(r, after)  OBVIOUS
<1>7. g = [i \in 1..(L - old) |-> agentLog[r][old + i].seq]  BY <1>1, <1>3, <1>4, <1>6 DEF events_after
<1>8. \A i \in 1..(L - old) : old + i \in 1..L  BY <1>2, <1>5
<1>9. \A i \in 1..(L - old) : g[i] \in Nat /\ InLog(r, g[i], old + i)
  BY <1>1, <1>7, <1>8 DEF LogFits, InLog
<1>10. g \in Seq(Nat) /\ Len(g) = L - old
  <2>1. L - old \in Nat  BY <1>2, <1>5
  <2>2. QED  BY <1>7, <1>9, <2>1
<1>11. ASSUME NEW i \in 1..(Len(g) - 1), NEW j \in Nat, NEW k \in Nat, InLog(r, g[i], j), InLog(r, g[i + 1], k)
       PROVE  i # Len(g) /\ k = j + 1
  <2>1. i \in 1..(L - old) /\ i + 1 \in 1..(L - old) /\ i # Len(g)  BY <1>2, <1>5, <1>10
  <2>2. j = old + i /\ k = old + (i + 1)  BY <1>9, <1>11, <2>1, OnePlace
  <2>3. QED  BY <1>5, <2>1, <2>2
<1>12. \A i \in 1..Len(g) : \E j \in Nat : InLog(r, g[i], j)
  <2>1. TAKE i \in 1..Len(g)
  <2>2. i \in 1..(L - old) /\ old + i \in Nat  BY <1>2, <1>5, <1>10
  <2>3. QED  BY <1>9, <2>2
<1>13. GotFits(g, r, Len(g))  BY <1>11, <1>12 DEF GotFits
<1>14. QED  BY <1>6, <1>10, <1>13

LEMMA ReplayFits ==
  ASSUME StoreInv, NEW s, replay_events(s)
  PROVE  StoreInv'
<1>1. PICK r \in DOMAIN agentRow, after \in 0..MaxLog :
        LET sent == events_after(r, after)
            new == [run |-> r, after |-> after, got |-> sent, seam |-> Len(sent), at |-> 0, joined |-> 0,
                    live |-> "replayed"]
        IN stream' = [x \in DOMAIN stream \cup {s} |-> IF x = s THEN new ELSE stream[x]]
  BY DEF replay_events
<1>2. agentRow' = agentRow /\ agentLog' = agentLog /\ driver' = driver /\ bus' = bus  BY DEF replay_events
<1>3. r \in AgentRuns /\ LogFits(r) /\ after \in Nat  BY StoreParts DEF RowsFit
<1>4. PICK g : g = events_after(r, after)  OBVIOUS
<1>5. g \in Seq(Nat) /\ Len(g) \in Nat /\ GotFits(g, r, Len(g))  BY <1>3, <1>4, EventsAfter
<1>6. PICK f : f = [run |-> r, after |-> after, got |-> g, seam |-> Len(g), at |-> 0, joined |-> 0,
                    live |-> "replayed"]
  OBVIOUS
<1>7. stream' = [x \in DOMAIN stream \cup {s} |-> IF x = s THEN f ELSE stream[x]]  BY <1>1, <1>4, <1>6
<1>8. StreamFits(s)'
  <2>1. stream'[s] = f  BY <1>7
  <2>2. GotFits(g, r, Len(g))'  BY <1>2, <1>5 DEF GotFits, InLog
  <2>3. DOMAIN f = StreamFields /\ f.run = r /\ f.got = g /\ f.seam = Len(g) /\ f.live = "replayed" /\ f.joined = 0
    BY <1>6 DEF StreamFields
  <2>4. JoinFits(g, r, Len(g), 0)'  BY <1>5 DEF JoinFits
  <2>5. QED  BY <1>3, <1>5, <2>1, <2>2, <2>3, <2>4 DEF StreamFits
<1>9. \A x \in DOMAIN stream' : StreamFits(x)'
  <2>1. TAKE x \in DOMAIN stream'
  <2>2. CASE x = s  BY <1>8, <2>2
  <2>3. CASE x # s
    <3>1. x \in DOMAIN stream /\ stream'[x] = stream[x]  BY <1>7, <2>3
    <3>2. QED  BY <1>2, <3>1, StreamStays
  <2>4. QED  BY <2>2, <2>3
<1>10. QED  BY <1>2, <1>9, OnlyStreams

(* One stream goes on.                                                      *)
LEMMA OneStream ==
  ASSUME StoreInv, agentRow' = agentRow, agentLog' = agentLog, driver' = driver, bus' = bus,
         NEW s, DOMAIN stream' = DOMAIN stream, \A x \in DOMAIN stream : x # s => stream'[x] = stream[x],
         StreamFits(s)'
  PROVE  StoreInv'
<1>1. \A x \in DOMAIN stream' : StreamFits(x)'  BY StreamStays
<1>2. QED  BY <1>1, OnlyStreams

LEMMA SubscribeFits ==
  ASSUME StoreInv, NEW s, subscribe_bus(s)
  PROVE  StoreInv'
<1>1. PICK f : f = stream[s]  OBVIOUS
<1>2. /\ DOMAIN f = StreamFields /\ f.live = "replayed"
      /\ f.run \in AgentRuns /\ f.got \in Seq(Nat) /\ f.seam \in Nat /\ f.seam = Len(f.got)
      /\ GotFits(f.got, f.run, f.seam)
  BY <1>1, StoreParts DEF subscribe_bus, StreamFits
<1>3. agentRow' = agentRow /\ agentLog' = agentLog /\ driver' = driver /\ bus' = bus  BY DEF subscribe_bus
<1>4. s \in DOMAIN stream /\ stream' = [stream EXCEPT ![s].live = "live", ![s].at = Len(bus),
                                                  ![s].joined = Len(agentLog[stream[s].run])]
  BY DEF subscribe_bus
<1>5. PICK h : h = stream'[s]  OBVIOUS
<1>6. /\ DOMAIN h = StreamFields /\ h.live = "live" /\ h.at = Len(bus)
      /\ h.run = f.run /\ h.got = f.got /\ h.seam = f.seam /\ h.joined = Len(agentLog[f.run])
  BY <1>1, <1>2, <1>4, <1>5 DEF StreamFields
<1>7. Len(bus) \in Nat
  <2>1. PICK E : E = [run : AgentRuns, seq : Nat]  OBVIOUS
  <2>2. bus \in Seq(E)  BY <2>1, StoreParts DEF BusFits
  <2>3. QED  BY <2>2
<1>8. GotFits(h.got, h.run, h.seam)'  BY <1>2, <1>3, <1>5, <1>6 DEF GotFits, InLog
<1>9. LiveFits(h.got, h.run, h.seam, h.at)'
  <2>1. h.at \in 0..Len(bus') /\ ~(Len(h.got) > h.seam) /\ (h.at + 1)..Len(bus') = {}
    BY <1>2, <1>3, <1>6, <1>7
  <2>2. QED  BY <2>1, <1>5 DEF LiveFits
<1>10. h.joined \in Nat /\ JoinFits(h.got, h.run, h.seam, h.joined)' /\ WaitFits(h.run, h.at, h.joined)'
  <2>1. h.joined \in Nat  BY <1>2, <1>6, StoreParts
  <2>2. ~(Len(h.got) > h.seam)  BY <1>2, <1>6
  <2>3. (h.at + 1)..Len(bus) = {}  BY <1>6, <1>7
  <2>4. PICK r, n, a : r = h.run /\ n = h.joined /\ a = h.at  OBVIOUS
  <2>5. Sent(r) <= n /\ Sent(r)' = Sent(r)  BY <1>2, <1>3, <1>6, <2>1, <2>4 DEF Sent
  <2>6. WaitFits(r, a, n)'  BY <1>3, <2>3, <2>4, <2>5 DEF WaitFits, NextAfter
  <2>7. QED  BY <2>1, <2>2, <2>4, <2>6 DEF JoinFits
<1>11. StreamFits(s)'  BY <1>2, <1>5, <1>6, <1>8, <1>9, <1>10 DEF StreamFits
<1>12. DOMAIN stream' = DOMAIN stream /\ \A x \in DOMAIN stream : x # s => stream'[x] = stream[x]  BY <1>4
<1>13. QED  BY <1>3, <1>11, <1>12, OneStream

(* The next event of the channel goes to a panel: its own run's is one that *)
(* follows, and another run's leaves it as it is.                           *)
LEMMA HeardFits ==
  ASSUME StoreInv, NEW r \in AgentRuns, NEW g \in Seq(Nat), NEW m \in Nat, m <= Len(g), NEW at \in Nat,
         at < Len(bus), GotFits(g, r, m), LiveFits(g, r, m, at), bus[at + 1].run = r
  PROVE  LET h == Append(g, bus[at + 1].seq) IN GotFits(h, r, m) /\ LiveFits(h, r, m, at + 1)
<1>1. PICK L, n : L = Len(g) /\ n = bus[at + 1].seq  OBVIOUS
<1>2. Len(bus) \in Nat
  <2>1. PICK E : E = [run : AgentRuns, seq : Nat]  OBVIOUS
  <2>2. bus \in Seq(E)  BY <2>1, StoreParts DEF BusFits
  <2>3. QED  BY <2>2
<1>3. L \in Nat /\ at + 1 \in 1..Len(bus)  BY <1>1, <1>2
<1>4. n \in Nat /\ \E i \in Nat : InLog(r, n, i)  BY <1>1, <1>3, BusEntries, StoreParts DEF BusFits
<1>5. PICK h : h = Append(g, n)  OBVIOUS
<1>6. h \in Seq(Nat) /\ Len(h) = L + 1 /\ h[L + 1] = n /\ \A i \in 1..L : h[i] = g[i]  BY <1>1, <1>4, <1>5
<1>7. \A i \in 1..(L + 1) : \E j \in Nat : InLog(r, h[i], j)
  <2>1. TAKE i \in 1..(L + 1)
  <2>2. CASE i = L + 1  BY <1>4, <1>6, <2>2
  <2>3. CASE i \in 1..L  BY <1>1, <1>6, <2>3 DEF GotFits
  <2>4. QED  BY <1>3, <2>2, <2>3
<1>8. ASSUME NEW i \in 1..L, NEW j \in Nat, NEW k \in Nat, InLog(r, h[i], j), InLog(r, h[i + 1], k)
      PROVE  IF i = m THEN k >= j ELSE k = j + 1
  <2>1. CASE i \in 1..(L - 1)
    <3>1. i + 1 \in 1..L /\ h[i] = g[i] /\ h[i + 1] = g[i + 1]  BY SMTT(30), <1>3, <1>6, <2>1
    <3>2. QED  BY <1>1, <1>8, <2>1, <3>1 DEF GotFits
  <2>2. CASE i = L
    <3>1. L > 0 /\ h[i] = g[L] /\ h[i + 1] = n  BY <1>3, <1>6, <2>2
    <3>2. CASE L = m
      <4>1. at + 1 \in (at + 1)..Len(bus)  BY <1>2
      <4>2. k >= j  BY <1>1, <1>8, <3>1, <3>2, <4>1 DEF LiveFits
      <4>3. QED  BY <2>2, <3>2, <4>2
    <3>3. CASE L > m
      <4>1. PICK p \in Nat : LastOf(r, p, at) /\ bus[p].seq = g[L]  BY <1>1, <3>3 DEF LiveFits
      <4>2. bus[p].run = r  BY <4>1 DEF LastOf
      <4>3. BusFits  BY StoreParts
      <4>4. InLog(r, n, j + 1)  BY <1>1, <1>8, <3>1, <4>1, <4>2, <4>3 DEF BusFits
      <4>5. k = j + 1  BY <1>8, <3>1, <4>4, OnePlace, StoreParts
      <4>6. QED  BY <1>3, <2>2, <3>3, <4>5
    <3>4. QED  BY <1>1, <1>3, <3>2, <3>3
  <2>3. QED  BY <1>3, <2>1, <2>2
<1>9. GotFits(h, r, m)
  <2>1. Len(h) - 1 = L  BY <1>3, <1>6
  <2>2. QED  BY <1>6, <1>7, <1>8, <2>1 DEF GotFits
<1>10. LiveFits(h, r, m, at + 1)
  <2>1. at + 1 \in 0..Len(bus)  BY <1>3
  <2>2. LastOf(r, at + 1, at + 1) /\ bus[at + 1].seq = h[Len(h)] /\ at + 1 \in Nat
    BY <1>1, <1>3, <1>6 DEF LastOf
  <2>3. Len(h) # m  BY <1>1, <1>3, <1>6
  <2>4. QED  BY <2>1, <2>2, <2>3 DEF LiveFits
<1>11. QED  BY <1>1, <1>5, <1>9, <1>10

LEMMA PassedFits ==
  ASSUME BusFits, NEW r \in AgentRuns, NEW g \in Seq(Nat), NEW m \in Nat, NEW at \in Nat,
         at < Len(bus), LiveFits(g, r, m, at), bus[at + 1].run # r
  PROVE  LiveFits(g, r, m, at + 1)
<1>1. Len(bus) \in Nat
  <2>1. PICK E : E = [run : AgentRuns, seq : Nat]  OBVIOUS
  <2>2. bus \in Seq(E)  BY <2>1 DEF BusFits
  <2>3. QED  BY <2>2
<1>2. at + 1 \in 0..Len(bus)  BY <1>1
<1>3. ASSUME NEW k \in Nat, LastOf(r, k, at)  PROVE LastOf(r, k, at + 1)
  <2>1. k \in 1..(at + 1)  BY <1>3 DEF LastOf
  <2>2. ASSUME NEW x \in (k + 1)..(at + 1)  PROVE bus[x].run # r
    <3>1. CASE x = at + 1  BY <3>1
    <3>2. CASE x \in (k + 1)..at  BY <1>3, <3>2 DEF LastOf
    <3>3. QED  BY <3>1, <3>2
  <2>3. QED  BY <1>3, <2>1, <2>2 DEF LastOf
<1>4. Len(g) > m => \E k \in Nat : LastOf(r, k, at + 1) /\ bus[k].seq = g[Len(g)]  BY <1>3 DEF LiveFits
<1>5. \A k \in (at + 1 + 1)..Len(bus) : k \in (at + 1)..Len(bus)  BY <1>1
<1>6. QED  BY <1>2, <1>4, <1>5 DEF LiveFits

(* What a panel that waits is told first was stored when it joined, or is   *)
(* the first event stored afterwards.                                       *)
LEMMA FirstHeard ==
  ASSUME NEW r, NEW g \in Seq(Nat), NEW m \in Nat, NEW x \in Nat, NEW n \in Nat, NEW at \in Nat, m <= Len(g),
         at < Len(bus), Len(bus) \in Nat, bus[at + 1].run = r, bus[at + 1].seq = x,
         JoinFits(g, r, m, n), Len(g) = m => WaitFits(r, at, n)
  PROVE  JoinFits(Append(g, x), r, m, n)
<1>1. PICK h : h = Append(g, x)  OBVIOUS
<1>2. Len(h) = Len(g) + 1 /\ \A i \in 1..Len(g) : h[i] = g[i]  BY <1>1
<1>3. h[Len(g) + 1] = x  BY <1>1
<1>4. CASE Len(g) > m
  <2>1. h[m + 1] = g[m + 1]  BY SMTT(30), <1>2, <1>4
  <2>2. QED  BY <1>1, <1>4, <2>1 DEF JoinFits
<1>5. CASE Len(g) = m
  <2>1. NextAfter(at + 1, r, at) /\ at + 1 \in Nat  BY DEF NextAfter
  <2>2. \A j \in Nat : InLog(r, x, j) => j <= n + 1  BY <1>5, <2>1 DEF WaitFits
  <2>3. QED  BY <1>1, <1>3, <1>5, <2>2 DEF JoinFits
<1>6. QED  BY <1>4, <1>5

LEMMA PassedWaits ==
  ASSUME NEW r, NEW n \in Nat, NEW at \in Nat, at < Len(bus), Len(bus) \in Nat, bus[at + 1].run # r,
         WaitFits(r, at, n)
  PROVE  WaitFits(r, at + 1, n)
<1>1. ASSUME NEW k \in Nat, NextAfter(k, r, at + 1)  PROVE NextAfter(k, r, at)
  <2>1. /\ k \in (at + 2)..Len(bus) /\ bus[k].run = r
        /\ \A x \in (at + 2)..(k - 1) : bus[x].run # r
    BY <1>1 DEF NextAfter
  <2>2. \A x \in (at + 1)..(k - 1) : x = at + 1 \/ x \in (at + 2)..(k - 1)  BY <2>1
  <2>3. QED  BY <2>1, <2>2 DEF NextAfter
<1>2. (\A k \in (at + 2)..Len(bus) : bus[k].run # r) => \A k \in (at + 1)..Len(bus) : bus[k].run # r
  <2>1. \A x \in (at + 1)..Len(bus) : x = at + 1 \/ x \in (at + 2)..Len(bus)  OBVIOUS
  <2>2. QED  BY <2>1
<1>3. at + 1 + 1 = at + 2  OBVIOUS
<1>4. QED  BY <1>1, <1>2, <1>3 DEF WaitFits

LEMMA ReceiveFits ==
  ASSUME StoreInv, NEW s, receive(s)
  PROVE  StoreInv'
<1>1. PICK f : f = stream[s]  OBVIOUS
<1>2. s \in DOMAIN stream /\ f.live = "live" /\ f.at < Len(bus)  BY <1>1 DEF receive
<1>3. /\ DOMAIN f = StreamFields
      /\ f.run \in AgentRuns /\ f.got \in Seq(Nat) /\ f.seam \in Nat /\ f.seam <= Len(f.got)
      /\ GotFits(f.got, f.run, f.seam) /\ LiveFits(f.got, f.run, f.seam, f.at)
  BY <1>1, <1>2, StoreParts DEF StreamFits
<1>4. agentRow' = agentRow /\ agentLog' = agentLog /\ driver' = driver /\ bus' = bus  BY DEF receive
<1>5. PICK e : e = bus[f.at + 1]  OBVIOUS
<1>6. stream' = IF Len(bus) - f.at > BusCapacity
               THEN [stream EXCEPT ![s].live = "ended"]
               ELSE [stream EXCEPT ![s].at = @ + 1, ![s].got = IF e.run = f.run THEN Append(@, e.seq) ELSE @]
  BY <1>1, <1>5 DEF receive
<1>7. DOMAIN stream' = DOMAIN stream /\ \A x \in DOMAIN stream : x # s => stream'[x] = stream[x]  BY <1>6
<1>8. PICK h : h = stream'[s]  OBVIOUS
<1>9. PICK g, r, m, at : g = f.got /\ r = f.run /\ m = f.seam /\ at = f.at  OBVIOUS
<1>10. at \in Nat /\ at < Len(bus) /\ g \in Seq(Nat) /\ m \in Nat /\ m <= Len(g) /\ r \in AgentRuns
       /\ GotFits(g, r, m) /\ LiveFits(g, r, m, at)
  BY <1>2, <1>3, <1>9 DEF LiveFits
<1>0. PICK n : n = f.joined  OBVIOUS
<1>14. n \in Nat /\ JoinFits(g, r, m, n) /\ (Len(g) = m => WaitFits(r, at, n))
  BY <1>0, <1>1, <1>2, <1>9, StoreParts DEF StreamFits
<1>15. Len(bus) \in Nat
  <2>1. PICK E : E = [run : AgentRuns, seq : Nat]  OBVIOUS
  <2>2. bus \in Seq(E)  BY <2>1, StoreParts DEF BusFits
  <2>3. QED  BY <2>2
<1>11. CASE Len(bus) - f.at > BusCapacity
  <2>1. DOMAIN h = StreamFields /\ h.live = "ended" /\ h.run = r /\ h.got = g /\ h.seam = m /\ h.joined = n
    BY <1>0, <1>1, <1>2, <1>3, <1>6, <1>8, <1>9, <1>11 DEF StreamFields
  <2>2. GotFits(g, r, m)' /\ JoinFits(g, r, m, n)'  BY <1>4, <1>10, <1>14 DEF GotFits, JoinFits, InLog
  <2>3. StreamFits(s)'  BY <1>8, <1>10, <1>14, <2>1, <2>2 DEF StreamFits
  <2>4. QED  BY <1>4, <1>7, <2>3, OneStream
<1>12. CASE ~(Len(bus) - f.at > BusCapacity)
  <2>1. stream' = [stream EXCEPT ![s].at = @ + 1, ![s].got = IF e.run = f.run THEN Append(@, e.seq) ELSE @]
    BY <1>6, <1>12
  <2>2. /\ DOMAIN h = StreamFields /\ h.live = "live" /\ h.run = r /\ h.seam = m /\ h.at = at + 1
        /\ h.joined = n /\ h.got = IF e.run = r THEN Append(g, e.seq) ELSE g
    BY <1>0, <1>1, <1>2, <1>3, <1>8, <1>9, <2>1 DEF StreamFields
  <2>3. /\ GotFits(h.got, r, m) /\ LiveFits(h.got, r, m, at + 1)
        /\ h.got \in Seq(Nat) /\ m <= Len(h.got)
        /\ JoinFits(h.got, r, m, n) /\ (Len(h.got) = m => WaitFits(r, at + 1, n))
    <3>1. CASE e.run = r
      <4>1. bus[at + 1].run = r /\ h.got = Append(g, bus[at + 1].seq)  BY <1>5, <1>9, <2>2, <3>1
      <4>2. at + 1 \in 1..Len(bus)
        <5>1. PICK E : E = [run : AgentRuns, seq : Nat]  OBVIOUS
        <5>2. bus \in Seq(E)  BY <5>1, StoreParts DEF BusFits
        <5>3. Len(bus) \in Nat  BY <5>2
        <5>4. QED  BY <1>10, <5>3
      <4>3. bus[at + 1].seq \in Nat  BY <4>2, BusEntries, StoreParts
      <4>4. h.got \in Seq(Nat) /\ Len(h.got) = Len(g) + 1  BY <1>10, <4>1, <4>3
      <4>5. GotFits(h.got, r, m) /\ LiveFits(h.got, r, m, at + 1)  BY <1>10, <4>1, HeardFits
      <4>6. JoinFits(h.got, r, m, n)  BY <1>10, <1>14, <1>15, <4>1, <4>3, FirstHeard
      <4>7. Len(h.got) # m  BY <1>10, <4>4
      <4>8. QED  BY <1>10, <4>4, <4>5, <4>6, <4>7
    <3>2. CASE e.run # r
      <4>1. bus[at + 1].run # r /\ h.got = g  BY <1>5, <1>9, <2>2, <3>2
      <4>2. LiveFits(g, r, m, at + 1)  BY <1>10, <4>1, PassedFits, StoreParts
      <4>3. Len(g) = m => WaitFits(r, at + 1, n)  BY <1>10, <1>14, <1>15, <4>1, PassedWaits
      <4>4. QED  BY <1>10, <1>14, <4>1, <4>2, <4>3
    <3>3. QED  BY <3>1, <3>2
  <2>4. GotFits(h.got, r, m)' /\ JoinFits(h.got, r, m, n)'
    BY <1>4, <1>8, <2>3 DEF GotFits, JoinFits, InLog
  <2>5. LiveFits(h.got, r, m, at + 1)'  BY <1>4, <1>8, <2>3 DEF LiveFits, LastOf, InLog
  <2>6. Len(h.got) = m => WaitFits(r, at + 1, n)'
    <3>1. Sent(r)' = Sent(r)  BY <1>4 DEF Sent
    <3>2. QED  BY <1>4, <1>8, <2>3, <3>1 DEF WaitFits, NextAfter, InLog
  <2>7. StreamFits(s)'  BY <1>8, <1>10, <1>14, <2>2, <2>3, <2>4, <2>5, <2>6 DEF StreamFits
  <2>8. QED  BY <1>4, <1>7, <2>7, OneStream
<1>13. QED  BY <1>11, <1>12

LEMMA CloseFits ==
  ASSUME StoreInv, NEW s, close_stream(s)
  PROVE  StoreInv'
<1>1. agentRow' = agentRow /\ agentLog' = agentLog /\ driver' = driver /\ bus' = bus  BY DEF close_stream
<1>2. ASSUME NEW x \in DOMAIN stream'  PROVE StreamFits(x)'
  <2>1. x \in DOMAIN stream /\ stream'[x] = stream[x]  BY <1>2 DEF close_stream
  <2>2. QED  BY <1>1, <2>1, StreamStays
<1>3. QED  BY <1>1, <1>2, OnlyStreams

-----------------------------------------------------------------------------
LEMMA StartFits ==
  ASSUME AgentStoreInit
  PROVE  StoreInv
<1>1. /\ agentRow = <<>> /\ agentLog = [r \in AgentRuns |-> <<>>] /\ bus = <<>> /\ stream = <<>>
      /\ driver = [r \in AgentRuns |-> NoDriver]
  BY DEF AgentStoreInit
<1>2. DOMAIN NoDriver = DriverFields /\ NoDriver.next = 1 /\ NoDriver.at = "write" /\ ~NoDriver.on
  BY DEF NoDriver, DriverFields
<1>3. ASSUME NEW r \in AgentRuns  PROVE LogFits(r) /\ DriverFits(r)
  <2>1. agentLog[r] = <<>> /\ driver[r] = NoDriver  BY <1>1
  <2>2. agentLog[r] \in Seq({}) /\ Len(agentLog[r]) = 0  BY <2>1
  <2>3. LogFits(r)  BY <2>2 DEF LogFits
  <2>4. 1 \in Nat  OBVIOUS
  <2>5. DriverFits(r)  BY <1>2, <2>1, <2>4 DEF DriverFits
  <2>6. QED  BY <2>3, <2>5
<1>4. DOMAIN agentRow = {} /\ DOMAIN stream = {}  BY <1>1
<1>5. BusFits
  <2>1. bus \in Seq([run : AgentRuns, seq : Nat])  BY <1>1
  <2>2. Len(bus) = 0  BY <1>1
  <2>3. QED  BY <2>1, <2>2 DEF BusFits, LastOf
<1>6. QED  BY <1>1, <1>3, <1>4, <1>5 DEF StoreInv, RowsFit

(* After a restart the channel and its streams are new.                     *)
LEMMA RestartFits ==
  ASSUME StoreInv, restart
  PROVE  StoreInv'
<1>1. /\ agentRow' = [r \in DOMAIN agentRow |-> [agentRow[r] EXCEPT !.state = RecoveredState(@)]]
      /\ agentLog' = agentLog /\ bus' = <<>> /\ stream' = <<>> /\ driver' = [r \in AgentRuns |-> NoDriver]
  BY DEF restart
<1>2. DOMAIN NoDriver = DriverFields /\ NoDriver.next = 1 /\ NoDriver.at = "write" /\ ~NoDriver.on
  BY DEF NoDriver, DriverFields
<1>3. RowsFit'  BY <1>1, StoreParts DEF RowsFit
<1>4. ASSUME NEW r \in AgentRuns  PROVE LogFits(r)' /\ DriverFits(r)'
  <2>1. LogFits(r)'  BY <1>1, <1>4, StoreParts DEF LogFits
  <2>2. driver'[r] = NoDriver  BY <1>1
  <2>3. 1 \in Nat  OBVIOUS
  <2>4. DriverFits(r)'  BY <1>2, <2>2, <2>3 DEF DriverFits
  <2>5. QED  BY <2>1, <2>4
<1>5. BusFits'
  <2>1. bus' \in Seq([run : AgentRuns, seq : Nat])  BY <1>1
  <2>2. Len(bus') = 0  BY <1>1
  <2>3. QED  BY <2>1, <2>2 DEF BusFits, LastOf
<1>6. QED  BY <1>1, <1>3, <1>4, <1>5, StoreParts DEF StoreInv

LEMMA AgentStoreStep ==
  ASSUME StoreInv, [AgentStoreNext]_storeVars
  PROVE  StoreInv'
<1>1. ASSUME NEW r \in AgentRuns, RunWrites(r)  PROVE StoreInv'
  BY <1>1, TransitionFits, AppendFits, BroadcastFits, SaveFits, CheckpointFits DEF RunWrites
<1>2. ASSUME NEW r \in AgentRuns, RunRequests(r)  PROVE StoreInv'
  BY <1>2, StartRunFits, RequestFits, RehydrateFits DEF RunRequests
<1>3. ASSUME NEW s, StreamSteps(s)  PROVE StoreInv'
  BY <1>3, ReplayFits, SubscribeFits, ReceiveFits, CloseFits DEF StreamSteps
<1>4. CASE append_fleet_event \/ UNCHANGED storeVars
  <2>1. agentRow' = agentRow /\ agentLog' = agentLog /\ driver' = driver /\ bus' = bus /\ stream' = stream
    BY <1>4 DEF append_fleet_event, storeVars
  <2>2. \A s \in DOMAIN stream' : StreamFits(s)'  BY <2>1, StreamStays
  <2>3. QED  BY <2>1, <2>2, OnlyStreams
<1>5. QED  BY <1>1, <1>2, <1>3, <1>4, RestartFits DEF AgentStoreNext

LEMMA StoreInvShows ==
  ASSUME StoreInv
  PROVE  StreamFollowsLog
<1>1. SUFFICES ASSUME NEW s \in DOMAIN stream
               PROVE  LET g == stream[s].got
                          r == stream[s].run
                          m == stream[s].seam
                      IN /\ \A i \in DOMAIN g : \E j \in DOMAIN agentLog[r] : agentLog[r][j].seq = g[i]
                         /\ \A i \in 1..(Len(g) - 1) :
                              IF i = m THEN Place(r, g[i + 1]) >= Place(r, g[i])
                                       ELSE Place(r, g[i + 1]) = Place(r, g[i]) + 1
                         /\ Len(g) > m => Place(r, g[m + 1]) <= stream[s].joined + 1
  BY DEF StreamFollowsLog
<1>2. PICK g, r, m : g = stream[s].got /\ r = stream[s].run /\ m = stream[s].seam  OBVIOUS
<1>3. r \in AgentRuns /\ g \in Seq(Nat) /\ GotFits(g, r, m)  BY <1>2, StoreParts DEF StreamFits
<1>4. LogFits(r) /\ DOMAIN agentLog[r] = 1..Len(agentLog[r]) /\ DOMAIN g = 1..Len(g) /\ Len(g) \in Nat
  BY <1>3, LogParts, StoreParts
<1>5. ASSUME NEW i \in DOMAIN g  PROVE \E j \in DOMAIN agentLog[r] : agentLog[r][j].seq = g[i]
  BY <1>3, <1>4 DEF GotFits, InLog
<1>6. ASSUME NEW i \in 1..(Len(g) - 1)
      PROVE  IF i = m THEN Place(r, g[i + 1]) >= Place(r, g[i]) ELSE Place(r, g[i + 1]) = Place(r, g[i]) + 1
  <2>1. i \in 1..Len(g) /\ i + 1 \in 1..Len(g)  BY <1>4
  <2>2. PICK j \in Nat, k \in Nat : InLog(r, g[i], j) /\ InLog(r, g[i + 1], k)  BY <1>3, <2>1 DEF GotFits
  <2>3. Place(r, g[i]) = j /\ Place(r, g[i + 1]) = k  BY <1>4, <2>2, PlaceIs
  <2>4. QED  BY <1>3, <2>2, <2>3 DEF GotFits
<1>7. ASSUME Len(g) > m  PROVE Place(r, g[m + 1]) <= stream[s].joined + 1
  <2>1. m \in Nat /\ m + 1 \in 1..Len(g) /\ JoinFits(g, r, m, stream[s].joined)
    BY <1>2, <1>4, <1>7, StoreParts DEF StreamFits
  <2>2. PICK k \in Nat : InLog(r, g[m + 1], k)  BY <1>3, <2>1 DEF GotFits
  <2>3. Place(r, g[m + 1]) = k  BY <1>4, <2>2, PlaceIs
  <2>4. QED  BY <1>7, <2>1, <2>2, <2>3 DEF JoinFits
<1>8. QED  BY <1>2, <1>5, <1>6, <1>7

(* What a panel is sent follows the log, for any number of runs, streams,   *)
(* restarts and any capacity of the channel (agent_v2_run_subscribe of      *)
(* commands/agent_v2.rs): no hole or repetition in its replay and in its    *)
(* live part, and nothing stored after it joined the channel is missing     *)
(* before its first live event. What is stored and sent between the replay  *)
(* and the joining is not shown: the theorem does not exclude that gap.     *)
THEOREM StreamsShowTheLog == AgentStoreSpec => []StreamFollowsLog
<1>1. AgentStoreInit => StoreInv  BY StartFits
<1>2. StoreInv /\ [AgentStoreNext]_storeVars => StoreInv'  BY AgentStoreStep
<1>3. StoreInv => StreamFollowsLog  BY StoreInvShows
<1>4. QED  BY <1>1, <1>2, <1>3, PTL DEF AgentStoreSpec
=============================================================================
