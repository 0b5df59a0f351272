------------------------------ MODULE MCPlugins ------------------------------
(* An instance of PluginWorkflow and of PluginActions for TLC.  The two do  *)
(* not share state: a behaviour is about one of them.  Two versions of the  *)
(* plugin, the second of which asks for a further permission, and packages  *)
(* of two publishers; a deployment and an update of one application.        *)
EXTENDS PluginWorkflow, PluginActions, TLC

VARIABLE part

MCManifest == [v1 |-> {"read"}, v2 |-> {"read", "service"}]

MCPackages == {[version |-> "v1", publisher |-> "runory", sig |-> "known"],
               [version |-> "v2", publisher |-> "runory", sig |-> "known"],
               [version |-> "v2", publisher |-> "other", sig |-> "none"],
               [version |-> "v1", publisher |-> "other", sig |-> "forged"],
               [version |-> "v1", publisher |-> "other", sig |-> "unknown"]}

MCSteps ==
  << [uses |-> "service.restart", perm |-> "read", change |-> "mapped", conditional |-> TRUE,
      max_attempts |-> 1, abort |-> TRUE],
     [uses |-> "git.checkout", perm |-> "read", change |-> "managed", conditional |-> FALSE,
      max_attempts |-> 2, abort |-> FALSE] >>

MCReleaseOf == [deploy |-> "r1", update |-> "r2"]

(* The steps of the deployer's deploy and update workflows, and the other   *)
(* actions around them.                                                     *)
MCWorkflow ==
  [deploy |-> <<"system.detect", "remote.fs.mkdir", "remote.fs.write_env", "git.clone", "git.rev_parse",
                "python.venv", "python.pip.install", "ssh.command", "database.migration",
                "template.render", "remote.fs.symlink", "nginx.test", "changeset.checkpoint",
                "release.activate">>,
   update |-> <<"system.preflight_report", "remote.fs.mkdir", "git.clone", "git.fetch", "python.venv",
                "python.pip.install", "database.migration", "changeset.checkpoint",
                "release.activate", "systemd.restart", "http.check">>]

MCSymmetry == Permutations(Calls)

MCInit ==
  /\ Init /\ ActionsInit
  /\ part \in {"workflow", "actions"}
  /\ part = "workflow" => current = NoLink

MCNext ==
  /\ UNCHANGED part
  /\ \/ part = "workflow" /\ Next /\ UNCHANGED actionVars
     \/ part = "actions" /\ ActionsNext /\ UNCHANGED vars

MCSpec == MCInit /\ [][MCNext]_<<vars, actionVars, part>>
=============================================================================
