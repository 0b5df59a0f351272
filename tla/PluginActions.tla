---------------------------- MODULE PluginActions ----------------------------
(***************************************************************************)
(* The Core actions a plugin workflow is made of (plugins/workflow/actions) *)
(* and what a run of them does to its host.  An action is described by the  *)
(* capabilities it asks for, its risk, whether an exit status that is not 0 *)
(* is an error, and by what its command needs from the host and adds to it  *)
(* when it exits with 0.  release.activate has steps of its own.  Runs of   *)
(* two workflows share the host; nothing in the executor keeps them apart.  *)
(***************************************************************************)
EXTENDS Naturals, Sequences, FiniteSets

CONSTANTS
  Deploys,   \* runs
  ReleaseOf, \* the release each run works on
  Workflow,  \* the action ids of each run
  OldRelease \* the release that may be live before the first run

(* The actions with which the deployer's deploy and update build a release. *)
BuildSteps == {"git.clone", "python.venv", "python.pip.install", "database.migration"}

(* The runs are of workflows that build what they activate, as the          *)
(* deployer's deploy and update do.  Nothing in the executor asks it of a   *)
(* workflow: the deployer's recover activates whatever release the user     *)
(* names, and is not among the runs.  The validator refuses a workflow      *)
(* without steps.  No release is named like the path of the link, or empty. *)
ASSUME DeployAssumption ==
  /\ \A d \in Deploys : /\ Workflow[d] \in Seq(STRING) \ {<<>>}
                        /\ \A i \in DOMAIN Workflow[d] : Workflow[d][i] = "release.activate" =>
                             \A id \in BuildSteps : \E j \in 1..(i - 1) : Workflow[d][j] = id
  /\ \A r \in {ReleaseOf[d] : d \in Deploys} \cup {OldRelease} : r \notin {"no link", "link path", ""}

VARIABLES
  host,      \* facts about the host: <<fact, subject>>
  current,   \* what the `current` link points to
  serving,   \* the release the service was last started on
  deploy,    \* the runs
  caps       \* the capabilities the user grants the plugin

actionVars == <<host, current, serving, deploy, caps>>

AllCaps == {"host.read", "ssh.exec", "ssh.exec.sudo", "fs.read", "fs.write", "secret.reference"}

Releases == {ReleaseOf[d] : d \in Deploys}

NoLink == "no link"

Action(need, risk, strict, needs, adds) ==
  [caps |-> need, risk |-> risk, strict |-> strict, needs |-> needs, adds |-> adds]

(* Actions that only report.                                                *)
Report(need) == Action(need, 0, FALSE, {}, {})

SystemDetectAction == Report({"host.read"})
SystemCommandExistsAction == Report({"host.read"})
SystemDiskAction == Action({"host.read"}, 0, TRUE, {}, {})
SystemMemoryAction == Action({"host.read"}, 0, TRUE, {}, {})
NetworkTcpCheckAction == Report({"host.read"})
SystemPreflightReportAction == Report({"host.read", "ssh.exec"})
HttpCheckAction == Report({"host.read"})
SystemdStatusAction == Report({"ssh.exec"})
PythonDetectAction == Report({"host.read", "ssh.exec"})
RemoteFsReadAction == Action({"fs.read"}, 0, TRUE, {}, {})

(* The files and directories of the application.                            *)
RemoteFsMkdirAction(r) == Action({"fs.write"}, 1, TRUE, {}, {<<"dir", r>>})
RemoteFsSymlinkAction == Action({"fs.write"}, 2, TRUE, {}, {<<"site", "enabled">>})
RemoteFsWriteAction == Action({"fs.write"}, 2, TRUE, {}, {<<"file", "app">>})
RemoteFsWriteEnvAction == Action({"fs.write", "secret.reference"}, 2, TRUE, {}, {<<"file", "env">>})
TemplateRenderAction == Action({"fs.write"}, 2, TRUE, {}, {<<"file", "unit">>})
SystemdInstallAction == Action({"fs.write", "ssh.exec.sudo"}, 3, TRUE, {}, {<<"file", "unit">>})

(* The release: a clone fills the directory mkdir made and fails in one     *)
(* that has code.  checkout passes the reference after "--", where git      *)
(* reads paths.                                                             *)
GitCloneAction(r) == Action({"ssh.exec"}, 2, TRUE, {<<"dir", r>>, <<"empty", r>>}, {<<"code", r>>})
GitRevParseAction(r) == Action({"ssh.exec"}, 0, TRUE, {<<"code", r>>}, {})
GitFetchAction(r) == Action({"ssh.exec"}, 2, TRUE, {<<"code", r>>}, {})
GitCheckoutAction(r) == Action({"ssh.exec"}, 2, TRUE, {<<"code", r>>, <<"path", r>>}, {})
PythonVenvAction(r) == Action({"ssh.exec"}, 2, TRUE, {<<"dir", r>>}, {<<"venv", r>>})
PythonPipInstallAction(r) == Action({"ssh.exec"}, 3, TRUE, {<<"venv", r>>, <<"code", r>>}, {<<"packages", r>>})
(* Mutant: the exit status is an output, as that of ssh.command is.         *)
MigrationUnchecked(r) == Action({"ssh.exec"}, 4, FALSE, {<<"packages", r>>}, {<<"migrated", r>>})
DatabaseMigrationAction(r) == Action({"ssh.exec"}, 4, TRUE, {<<"packages", r>>}, {<<"migrated", r>>})

(* systemd and nginx.                                                       *)
SystemdDaemonReloadAction == Action({"ssh.exec", "ssh.exec.sudo"}, 2, TRUE, {}, {<<"unit", "loaded">>})
SystemdServiceAction(risk) == Action({"ssh.exec", "ssh.exec.sudo"}, risk, TRUE, {<<"file", "unit">>}, {})
NginxTestAction == Action({"ssh.exec", "ssh.exec.sudo"}, 2, FALSE, {}, {})
NginxReloadAction == Action({"ssh.exec", "ssh.exec.sudo"}, 3, TRUE, {}, {})

(* readlink: whatever its exit status is.                                   *)
ChangesetCheckpointAction == Report({"ssh.exec", "fs.read"})
ReleaseActivateAction == Action({"fs.write", "ssh.exec", "ssh.exec.sudo", "host.read"}, 3, TRUE, {}, {})

(* The risk of a command, by the kind of its program and of its arguments.  *)
classify_docker_risk(verb) ==
  CASE verb = "read" -> 0 [] verb = "start" -> 2 [] verb = "remove" -> 4 [] OTHER -> 3

CommandRisk(program, verb) ==
  CASE program \in {"destructive", "firewall"} \/ verb = "remove" -> 4
    [] program = "package" /\ verb = "change" -> 3
    [] program = "systemctl" -> (CASE verb = "stop" -> 3 [] verb = "start" -> 2 [] OTHER -> 0)
    [] program = "file" -> 1
    [] program = "nginx" -> (CASE verb = "read" -> 0 [] verb = "start" -> 2 [] OTHER -> 3)
    [] program = "docker" -> classify_docker_risk(verb)
    [] program = "readonly" -> 0
    [] OTHER -> 3

classify_ssh_command_risk(program, verb, sudo) ==
  LET risk == CommandRisk(program, verb)
  IN IF ~sudo \/ risk = 4 THEN risk
     ELSE IF program = "readonly" THEN 2 ELSE 3

SshCommandAction(program, verb, sudo) ==
  Action({"ssh.exec"} \cup (IF sudo THEN {"ssh.exec.sudo"} ELSE {}),
         classify_ssh_command_risk(program, verb, sudo), FALSE, {}, {})

(* ActionRegistry::get.                                                     *)
get(id, r) ==
  CASE id = "system.detect" -> SystemDetectAction
    [] id = "system.command_exists" -> SystemCommandExistsAction
    [] id = "system.disk" -> SystemDiskAction
    [] id = "system.memory" -> SystemMemoryAction
    [] id = "system.preflight_report" -> SystemPreflightReportAction
    [] id = "network.tcp_check" -> NetworkTcpCheckAction
    [] id = "http.check" -> HttpCheckAction
    [] id = "ssh.command" -> SshCommandAction("readonly", "read", FALSE)
    [] id = "remote.fs.read" -> RemoteFsReadAction
    [] id = "remote.fs.write" -> RemoteFsWriteAction
    [] id = "remote.fs.write_env" -> RemoteFsWriteEnvAction
    [] id = "remote.fs.mkdir" -> RemoteFsMkdirAction(r)
    [] id = "remote.fs.symlink" -> RemoteFsSymlinkAction
    [] id = "template.render" -> TemplateRenderAction
    [] id = "git.clone" -> GitCloneAction(r)
    [] id = "git.rev_parse" -> GitRevParseAction(r)
    [] id = "git.fetch" -> GitFetchAction(r)
    [] id = "git.checkout" -> GitCheckoutAction(r)
    [] id = "python.detect" -> PythonDetectAction
    [] id = "python.venv" -> PythonVenvAction(r)
    [] id = "python.pip.install" -> PythonPipInstallAction(r)
    [] id = "database.migration" -> DatabaseMigrationAction(r)
    [] id = "systemd.install" -> SystemdInstallAction
    [] id = "systemd.daemon_reload" -> SystemdDaemonReloadAction
    [] id = "systemd.status" -> SystemdStatusAction
    [] id = "systemd.enable" -> SystemdServiceAction(2)
    [] id = "systemd.restart" -> SystemdServiceAction(3)
    [] id = "systemd.reload" -> SystemdServiceAction(2)
    [] id = "nginx.test" -> NginxTestAction
    [] id = "nginx.reload" -> NginxReloadAction
    [] id = "changeset.checkpoint" -> ChangesetCheckpointAction
    [] id = "release.activate" -> ReleaseActivateAction

risk_requires_approval(risk) == risk # 0

Complete(r) == {<<"code", r>>, <<"venv", r>>, <<"packages", r>>, <<"migrated", r>>}

Queued == [pc |-> "new", step |-> 1, previous |-> "", cancelled |-> FALSE]

ActionsInit ==
  /\ \/ current = NoLink /\ serving = NoLink /\ host = {<<"empty", r>> : r \in Releases}
     \/ current = OldRelease /\ serving = OldRelease
        /\ host = {<<"empty", r>> : r \in Releases} \cup Complete(OldRelease) \cup {<<"file", "unit">>}
  /\ deploy = [d \in Deploys |-> Queued]
  /\ caps = AllCaps

This(d) == get(Workflow[d][deploy[d].step], ReleaseOf[d])

(* The executor: the plan asks for every capability and for an approval as  *)
(* soon as one step has a risk; then the steps start one after the other.   *)
StartDeploy(d, approved) ==
  /\ deploy[d].pc = "new"
  /\ LET steps == {get(Workflow[d][i], ReleaseOf[d]) : i \in DOMAIN Workflow[d]}
     IN deploy' = [deploy EXCEPT ![d].pc =
          IF (\A a \in steps : a.caps \subseteq caps)
             /\ ((\E a \in steps : risk_requires_approval(a.risk)) => approved)
          THEN "step" ELSE "refused"]
  /\ UNCHANGED <<host, current, serving, caps>>

Rest(d) == [deploy EXCEPT ![d].step = @ + 1, ![d].pc = IF deploy[d].step = Len(Workflow[d]) THEN "done" ELSE "step"]

Fails(d) == [deploy EXCEPT ![d].pc = "failed"]

(* check_cancelled and require_caps open every execute().                   *)
MayRun(d) == ~deploy[d].cancelled /\ This(d).caps \subseteq caps

RefuseStep(d) ==
  /\ deploy[d].pc = "step" /\ ~MayRun(d)
  /\ deploy' = Fails(d)
  /\ UNCHANGED <<host, current, serving, caps>>

(* The command of an ordinary action, or the write through SFTP.  Without   *)
(* a session, or when the channel fails, there is no exit status.           *)
Ordinary(d) == Workflow[d][deploy[d].step] \notin {"changeset.checkpoint", "release.activate", "git.clone",
                                                   "systemd.restart"}

ExecuteStep(d, outcome) ==
  /\ deploy[d].pc = "step" /\ MayRun(d) /\ Ordinary(d)
  /\ outcome = "exit 0" => This(d).needs \subseteq host
  /\ host' = IF outcome = "exit 0" THEN host \cup This(d).adds ELSE host
  /\ deploy' = IF outcome = "exit 0" \/ (outcome = "exit 1" /\ ~This(d).strict) THEN Rest(d) ELSE Fails(d)
  /\ UNCHANGED <<current, serving, caps>>

(* git.clone, which may leave part of a clone behind.                       *)
ExecuteClone(d, outcome) ==
  /\ deploy[d].pc = "step" /\ MayRun(d) /\ Workflow[d][deploy[d].step] = "git.clone"
  /\ outcome = "exit 0" => This(d).needs \subseteq host
  /\ host' = (host \ {<<"empty", ReleaseOf[d]>>}) \cup (IF outcome = "exit 0" THEN This(d).adds ELSE {})
  /\ deploy' = IF outcome = "exit 0" THEN Rest(d) ELSE Fails(d)
  /\ UNCHANGED <<current, serving, caps>>

(* changeset.checkpoint: readlink -f prints the path of a link that does    *)
(* not exist, as long as its directory does.                                *)
readlink == IF current = NoLink THEN "link path" ELSE current

Checkpoint(d, outcome) ==
  /\ deploy[d].pc = "step" /\ MayRun(d) /\ Workflow[d][deploy[d].step] = "changeset.checkpoint"
  /\ deploy' = CASE outcome = "exit 0" -> [Rest(d) EXCEPT ![d].previous = readlink]
                 [] outcome = "exit 1" -> [Rest(d) EXCEPT ![d].previous = ""]
                 [] OTHER -> Fails(d)
  /\ UNCHANGED <<host, current, serving, caps>>

To(d, pc) == [deploy EXCEPT ![d].pc = pc]

(* release.activate.  switch_current: to the release, and back again.       *)
switch_current(d, outcome) ==
  /\ \/ deploy[d].pc = "step" /\ MayRun(d) /\ Workflow[d][deploy[d].step] = "release.activate"
        /\ current' = (IF outcome = "exit 0" THEN ReleaseOf[d] ELSE current)
        /\ deploy' = (IF outcome = "exit 0" THEN To(d, "restart") ELSE Fails(d))
     \/ deploy[d].pc = "restore"
        /\ current' = (IF outcome = "exit 0" THEN deploy[d].previous ELSE current)
        /\ deploy' = (IF outcome = "exit 0" THEN To(d, "restart old") ELSE Fails(d))
  /\ UNCHANGED <<host, serving, caps>>

(* daemon-reload, enable and restart; the reload of nginx is best effort.   *)
(* The second time its result is dropped, and so is that of health_ok.      *)
(* systemd.restart is the last of them on its own.                          *)
reload_and_restart(d, outcome) ==
  /\ \/ deploy[d].pc = "restart" /\ deploy' = (IF outcome = "exit 0" THEN To(d, "health") ELSE Fails(d))
     \/ deploy[d].pc = "restart old" /\ deploy' = To(d, "restored")
     \/ deploy[d].pc = "step" /\ MayRun(d) /\ Workflow[d][deploy[d].step] = "systemd.restart"
        /\ deploy' = (IF outcome = "exit 0" THEN Rest(d) ELSE Fails(d))
  /\ outcome = "exit 0" => <<"file", "unit">> \in host /\ current # "link path"
  /\ serving' = IF outcome = "exit 0" THEN current ELSE serving
  /\ UNCHANGED <<host, current, caps>>

(* curl: an answer between 200 and 399, or none.                            *)
health_ok(d, outcome) ==
  /\ deploy[d].pc = "health"
  /\ outcome = "exit 0" => serving \in Releases \cup {OldRelease}
  /\ deploy' = CASE outcome = "exit 0" -> Rest(d)
                 [] outcome = "exit 1" /\ deploy[d].previous # "" -> To(d, "restore")
                 [] OTHER -> Fails(d)
  /\ UNCHANGED <<host, current, serving, caps>>

CancelDeploy(d) ==
  /\ deploy[d].pc \notin {"new", "done", "failed", "refused", "restored"} /\ ~deploy[d].cancelled
  /\ deploy' = [deploy EXCEPT ![d].cancelled = TRUE]
  /\ UNCHANGED <<host, current, serving, caps>>

RevokeCapability(c) ==
  /\ c \in caps /\ caps = AllCaps
  /\ caps' = caps \ {c}
  /\ UNCHANGED <<host, current, serving, deploy>>

Outcomes == {"exit 0", "exit 1", "no session"}

ActionsNext ==
  \/ \E d \in Deploys, ok \in BOOLEAN : StartDeploy(d, ok)
  \/ \E d \in Deploys : RefuseStep(d) \/ CancelDeploy(d)
  \/ \E d \in Deploys, o \in Outcomes :
       \/ ExecuteStep(d, o) \/ ExecuteClone(d, o) \/ Checkpoint(d, o)
       \/ switch_current(d, o) \/ reload_and_restart(d, o) \/ health_ok(d, o)
  \/ \E c \in AllCaps : RevokeCapability(c)

ActionsSpec == ActionsInit /\ [][ActionsNext]_actionVars

ActionsTypeOK ==
  /\ current \in Releases \cup {OldRelease, NoLink, "link path"}
  /\ caps \subseteq AllCaps
  /\ \A d \in Deploys : deploy[d].step \in 1..(Len(Workflow[d]) + 1)

-----------------------------------------------------------------------------
(* The `current` link leads to a release only when its code, environment,   *)
(* packages and migration are all on the host, whichever steps of either    *)
(* run failed, were cancelled, lost their session or a capability, and      *)
(* whatever an activation restored (release.rs execute).                    *)
LinkedIsComplete == current \in Releases \cup {OldRelease} => Complete(current) \subseteq host

(* The comment on the input of release.activate: the previous target "may   *)
(* be empty on first deploy", and its error says "restored previous         *)
(* release".  What it restores is a release.                                *)
RestoredIsARelease == \A d \in Deploys : deploy[d].pc = "restored" => deploy[d].previous \in Releases \cup {OldRelease}
=============================================================================
