----------------------------- MODULE Deployment -----------------------------
(* Deployed applications: the rows the desktop keeps for a server           *)
(* (deployment/sqlite_apps_repository.rs) and what provisioning them leaves  *)
(* on that server (deployment/service.rs and one file per runtime): systemd *)
(* units, nginx sites and the configuration nginx runs.  Texts are valid or  *)
(* not; a port stands for a port with its server names.                      *)
EXTENDS Naturals, FiniteSets, Sequences

CONSTANTS
  AppIds,        \* ids a request may name
  Kinds,         \* project kinds in use
  Names, Slug,   \* names of apps; Slug[n] is what unit and site files are called
  Paths, Ports,
  Services,      \* systemd units a request may name as what to restart
  Steps,         \* of 1..4: the wizard's steps in use
  Statuses,      \* setup states in use
  MaxApps,       \* MAX_APPS_PER_PROFILE
  Jobs,          \* provisioning requests that may be in flight
  MaxHistory     \* records kept

VARIABLES
  rows,     \* id -> row, of one profile
  units,    \* <<kind, slug>> -> "active" or "inactive"
  sites,    \* <<kind, slug>> -> whether nginx accepts the file
  nginx,    \* the sites nginx runs with
  jobs,     \* provisioning scripts on the server
  history   \* outcomes of operations, the newest last

deployVars == <<rows, units, sites, nginx, jobs, history>>

UnitKinds == {"python", "php", "java", "node", "go"}
SiteKinds == {"php", "html", "proxy"}
FreeKinds == {"net", "other"}     \* what they run is set up by hand
NoPath == "no path"
NoService == <<>>
Absent == "absent"

ASSUME KindsAssumption == Kinds \subseteq UnitKinds \cup SiteKinds \cup FreeKinds

(* A table with the row for key x put in.                                   *)
Put(table, x, value) == [y \in DOMAIN table \cup {x} |-> IF y = x THEN value ELSE table[y]]

(* What a request may ask to save, as one of these kinds.                   *)
Row(kinds) == [kind : kinds, name : Names, path : Paths \cup {NoPath}, config : Ports \cup {0},
               restart : Services \cup {NoService}, status : Statuses, step : Steps]

DeployInit ==
  /\ rows = <<>> /\ units = <<>> /\ sites = <<>> /\ nginx = {}
  /\ jobs = <<>> /\ history = <<>>

-----------------------------------------------------------------------------
(* The rows.                                                                *)

UnitNamed(r) == r.kind \in UnitKinds /\ (r.status # "draft" \/ r.step = 4)

(* A reverse proxy has no directory: its path is made from its slug.  The   *)
(* unit of an app that is set up is the program's choice; that of a draft,  *)
(* and of the kinds set up by hand, is what the request says.               *)
Stored(r) ==
  [r EXCEPT !.path = IF r.kind = "proxy" THEN Slug[r.name] ELSE @,
            !.restart = IF UnitNamed(r) THEN <<r.kind, Slug[r.name]>>
                        ELSE IF r.kind \in SiteKinds \ UnitKinds THEN NoService ELSE @]

(* A draft may leave out its path in step 1; any other state needs it.      *)
PathValid(r) == r.path = NoPath => r.status = "draft" /\ r.step = 1

(* A draft may leave out its configuration before the step that asks for it.*)
RuntimeValid(r) == r.kind \in UnitKinds /\ r.config = 0 => r.status = "draft" /\ r.step < 3
SiteValid(r) ==
  r.kind \in {"html", "proxy"} /\ r.config = 0
    => r.status = "draft" /\ r.step < (IF r.kind = "proxy" THEN 2 ELSE 3)
FreeValid(r) == r.kind \in FreeKinds => r.config = 0

(* Two rows of one kind would share a unit, a site or a listener.  Python   *)
(* apps are not compared by port, apps set up by hand not at all, and apps  *)
(* of different kinds neither by port nor by unit.                          *)
ServiceConflict(r, s) ==
  /\ r.kind = s.kind /\ r.kind \notin FreeKinds
  /\ \/ Slug[r.name] = Slug[s.name]
     \/ r.kind # "python" /\ r.config # 0 /\ r.config = s.config

(* Mutant: a save that compares names where files are named by slugs.            *)
NameConflict(r, s) == r.name = s.name \/ r.path = s.path

(* What refuses a row, the unique indexes of the table included: those take *)
(* no path for a path.                                                      *)
Conflict(r, s) == r.name = s.name \/ r.path = s.path \/ ServiceConflict(r, s)

count_for_profile == Cardinality(DOMAIN rows)

upsert_with_runtimes(id, r) ==
  /\ PathValid(r) /\ RuntimeValid(r) /\ SiteValid(r) /\ FreeValid(r)
  /\ id \in DOMAIN rows \/ count_for_profile < MaxApps
  /\ \A o \in DOMAIN rows \ {id} : ~Conflict(Stored(r), rows[o])
  /\ rows' = Put(rows, id, Stored(r))
  /\ UNCHANGED <<units, sites, nginx, jobs, history>>

(* Nothing on the server is removed with the row.                           *)
delete(id) ==
  /\ id \in DOMAIN rows
  /\ rows' = [o \in DOMAIN rows \ {id} |-> rows[o]]
  /\ UNCHANGED <<units, sites, nginx, jobs, history>>

-----------------------------------------------------------------------------
(* What reaches the server.  Every operation but cron and queries ends in   *)
(* finish, which records its outcome and drops the oldest records.          *)
finish(ok) ==
  LET h == Append(history, ok)
  IN history' = SubSeq(h, IF Len(h) > MaxHistory THEN Len(h) - MaxHistory + 1 ELSE 1, Len(h))

Remote(ok) == finish(ok) /\ UNCHANGED <<rows, units, sites, nginx, jobs>>

(* One command, whose outcome is recorded.                                  *)
git_setup(ok) == Remote(ok)
write_environment(ok) == Remote(ok)
ssl_issue(ok) == Remote(ok)
backup(ok) == Remote(ok)
java_install_jdk(ok) == Remote(ok)
java_set_default_jdk(ok) == Remote(ok)

(* The one operation that records nothing when its command cannot run.      *)
python_prepare_env(ran, ok) ==
  IF ran THEN Remote(ok) ELSE UNCHANGED deployVars

(* Pull, build, restart of the unit the request names: the first failure    *)
(* ends it.                                                                 *)
deploy(target, upTo) ==
  /\ units' = IF upTo = "restart" /\ target \in DOMAIN units
              THEN [units EXCEPT ![target] = "active"] ELSE units
  /\ finish(upTo = "restart")
  /\ UNCHANGED <<rows, sites, nginx, jobs>>

(* A request to provision carries the project as the form shows it, and    *)
(* whether the text made from it is one nginx accepts.                      *)
provision(j, k, n, good) ==
  /\ j \notin DOMAIN jobs
  /\ jobs' = Put(jobs, j, [file |-> <<k, Slug[n]>>, good |-> good, backup |-> Absent, lost |-> FALSE,
                            at |-> IF k \in UnitKinds THEN "prepare" ELSE "install"])
  /\ UNCHANGED <<rows, units, sites, nginx, history>>

python_provision(j, n, good) == provision(j, "python", n, good)
php_provision(j, n, good) == provision(j, "php", n, good)
java_provision(j, n, good) == provision(j, "java", n, good)
node_provision(j, n, good) == provision(j, "node", n, good)
go_provision(j, n, good) == provision(j, "go", n, good)
html_provision(j, n, good) == provision(j, "html", n, good)
proxy_provision(j, n, good) == provision(j, "proxy", n, good)

At(j, s) == j \in DOMAIN jobs /\ jobs[j].at = s
Goto(j, s) == jobs' = [jobs EXCEPT ![j].at = s]
Done(j, ok) ==
  /\ jobs' = [i \in DOMAIN jobs \ {j} |-> jobs[i]]
  /\ IF jobs[j].lost THEN UNCHANGED history ELSE finish(ok)

(* Runtime, account and directory are there and the build succeeds, or not. *)
prepare(j) ==
  /\ At(j, "prepare")
  /\ \/ Goto(j, "install") /\ UNCHANGED history
     \/ Done(j, FALSE)
  /\ UNCHANGED <<rows, units, sites, nginx>>

(* Without privileges the files stay in the project's directory.            *)
install_pending(j) ==
  /\ At(j, "install") /\ Done(j, FALSE)
  /\ UNCHANGED <<rows, units, sites, nginx>>

(* The unit is copied, enabled and restarted; is-active decides.            *)
install_unit(j, up) ==
  /\ At(j, "install") /\ jobs[j].file[1] \in UnitKinds \ SiteKinds
  /\ units' = Put(units, jobs[j].file, IF up THEN "active" ELSE "inactive")
  /\ Done(j, up)
  /\ UNCHANGED <<rows, sites, nginx>>

SiteOf(f) == IF f \in DOMAIN sites THEN sites[f] ELSE Absent
Tested(b) == IF b THEN "accepted" ELSE "refused"

(* A site is put in place over a copy of the old one.  For PHP the unit is  *)
(* restarted next, and the script ends there when it does not come up.      *)
install_site(j, up) ==
  /\ At(j, "install") /\ jobs[j].file[1] \in SiteKinds
  /\ sites' = Put(sites, jobs[j].file, Tested(jobs[j].good))
  /\ IF jobs[j].file[1] = "php"
     THEN units' = Put(units, jobs[j].file, IF up THEN "active" ELSE "inactive")
     ELSE up /\ UNCHANGED units
  /\ IF up THEN /\ jobs' = [jobs EXCEPT ![j].at = "test", ![j].backup = SiteOf(jobs[j].file)]
                /\ UNCHANGED history
           ELSE Done(j, FALSE)
  /\ UNCHANGED <<rows, nginx>>

Accepts == \A f \in DOMAIN sites : sites[f] = "accepted"

(* nginx -t reads every site, not only the new one; refused, the new one is *)
(* taken back.                                                              *)
test_site(j) ==
  /\ At(j, "test")
  /\ LET f == jobs[j].file IN
     IF Accepts THEN Goto(j, "reload") /\ UNCHANGED <<sites, history>>
     ELSE /\ sites' = IF jobs[j].backup = Absent
                      THEN [g \in DOMAIN sites \ {f} |-> sites[g]]
                      ELSE [sites EXCEPT ![f] = jobs[j].backup]
          /\ Done(j, FALSE)
  /\ UNCHANGED <<rows, units, nginx>>

(* nginx itself refuses a configuration it does not accept.                 *)
reload_nginx(j) ==
  /\ At(j, "reload")
  /\ nginx' = IF Accepts THEN DOMAIN sites ELSE nginx
  /\ Done(j, Accepts)
  /\ UNCHANGED <<rows, units, sites>>

(* The session ends or the command's time runs out: a failure is recorded,  *)
(* and the script goes on.                                                  *)
lose(j) ==
  /\ j \in DOMAIN jobs /\ ~jobs[j].lost
  /\ IF jobs[j].at = "prepare"
     THEN Done(j, FALSE)
     ELSE jobs' = [jobs EXCEPT ![j].lost = TRUE] /\ finish(FALSE)
  /\ UNCHANGED <<rows, units, sites, nginx>>

Controllable(id) ==
  /\ id \in DOMAIN rows /\ rows[id].kind \in UnitKinds
  /\ rows[id].status \notin {"draft", "provisioning"}

(* Start, stop or restart of a saved app that is set up; the unit's state   *)
(* after the command decides the outcome.                                   *)
systemd_control(id, wanted, ok) ==
  /\ Controllable(id)
  /\ LET f == <<rows[id].kind, Slug[rows[id].name]>> IN
     /\ ok => f \in DOMAIN units
     /\ units' = IF ok THEN [units EXCEPT ![f] = wanted] ELSE units
  /\ finish(ok)
  /\ UNCHANGED <<rows, sites, nginx, jobs>>

(* The form with projects of the given kinds.                               *)
RowsNext(kinds) ==
  \/ \E id \in AppIds, r \in Row(kinds) : upsert_with_runtimes(id, r)
  \/ \E id \in AppIds : delete(id)

Provision(k, j, n, good) ==
  \/ k = "python" /\ python_provision(j, n, good)
  \/ k = "php" /\ php_provision(j, n, good)
  \/ k = "java" /\ java_provision(j, n, good)
  \/ k = "node" /\ node_provision(j, n, good)
  \/ k = "go" /\ go_provision(j, n, good)
  \/ k = "html" /\ html_provision(j, n, good)
  \/ k = "proxy" /\ proxy_provision(j, n, good)

(* What happens on a server with projects of the given kinds.               *)
HostNext(kinds) ==
  \/ \E k \in kinds, j \in Jobs, n \in Names, good \in BOOLEAN : Provision(k, j, n, good)
  \/ \E j \in Jobs : prepare(j) \/ install_pending(j) \/ test_site(j) \/ reload_nginx(j) \/ lose(j)
  \/ \E j \in Jobs, up \in BOOLEAN : install_unit(j, up) \/ install_site(j, up)
  \/ \E id \in AppIds, w \in {"active", "inactive"}, ok \in BOOLEAN : systemd_control(id, w, ok)
  \/ \E ok \in BOOLEAN :
       \/ git_setup(ok) \/ write_environment(ok) \/ ssl_issue(ok) \/ backup(ok)
       \/ java_install_jdk(ok) \/ java_set_default_jdk(ok)
  \/ \E ran, ok \in BOOLEAN : python_prepare_env(ran, ok)
  \/ \E k \in kinds, n \in Names, u \in {"pull", "build", "restart"} : deploy(<<k, Slug[n]>>, u)

DeployNext == RowsNext(Kinds) \/ HostNext(Kinds)

DeploySpec == DeployInit /\ [][DeployNext]_deployVars

-----------------------------------------------------------------------------
(* The unit an app is run by, when the program chose it.                    *)
OwnUnit(r) == IF UnitNamed(r) THEN r.restart ELSE NoService

(* Two saved apps never share a name or a directory, and two the program    *)
(* set up never one unit; of one kind, they share no site file and no       *)
(* listener: in whatever order rows are saved, renamed, given another kind  *)
(* or grown from drafts, the comparison is with slugs and configurations as *)
(* they are stored.  The code promises nothing of the units net and other   *)
(* apps (and drafts) name, of python ports, of listeners across kinds, and  *)
(* of rows a cloud sync writes.                                             *)
OneOwnerPerService ==
  \A a, b \in DOMAIN rows :
    a # b =>
      /\ rows[a].name # rows[b].name /\ rows[a].path # rows[b].path
      /\ OwnUnit(rows[a]) = OwnUnit(rows[b]) => OwnUnit(rows[a]) = NoService
      /\ rows[a].kind = rows[b].kind /\ rows[a].kind \in SiteKinds
           => Slug[rows[a].name] # Slug[rows[b].name]
      /\ rows[a].kind = rows[b].kind /\ rows[a].status # "draft" /\ rows[b].status # "draft"
           => rows[a].kind \in FreeKinds \cup {"python"} \/ rows[a].config # rows[b].config

(* php.rs, html.rs and proxy.rs promise of a site that fails nginx -t that  *)
(* it "is rolled back so an invalid project can never take down the other   *)
(* sites": with no script at work, nginx accepts all it would start with.   *)
SitesAreAccepted == DOMAIN jobs = {} => Accepts
=============================================================================
