----------------------------- MODULE MCServices -----------------------------
(* An instance for TLC of the services that keep records beside a server.   *)
(* They share no variable: every behaviour is one part's, chosen in the     *)
(* initial state.                                                           *)
(*   rows1..rows7  the rows of the apps, with the kinds of MCRowKinds       *)
(*   units, pages, proxies, sites: one provisioned app on its server, with  *)
(*                 the kinds of MCKindsOf                                   *)
(*   observations  two runs that read one server; the first saves its facts *)
(*   incidents     one incident, two investigations, one ChangeSet          *)
(*   stock, settings, registries: the three states of Docker                *)
(*   turns, profiles: requests to models, and the profiles they use         *)
EXTENDS Deployment, Observations, Incidents, Docker, ModelGateway

VARIABLE part

MCSlug == [n1 |-> "s", n2 |-> "s", n3 |-> "t"]

MCUserUnits == {<<"python", "s">>}

MCRowKinds == [rows1 |-> {"python", "other"}, rows2 |-> {"proxy", "net"}, rows3 |-> {"php"},
               rows4 |-> {"html"}, rows5 |-> {"go"}, rows6 |-> {"java"}, rows7 |-> {"node"}]

MCServer == [u1 |-> "s", u2 |-> "s"]

MCWishes == {[mirrors |-> w[1], insecure |-> "", driver |-> w[2], opts |-> w[3], live |-> "true"] :
               w \in {<<"", "local", "">>, <<"m", "local", "o">>, <<"m", "journald", "">>, <<"", "journald", "o">>}}

MCKindsOf == [units |-> {"go", "python"}, pages |-> {"java", "html"}, proxies |-> {"node", "proxy"},
              sites |-> {"php"}]

MCParts == DOMAIN MCKindsOf \cup DOMAIN MCRowKinds \cup {"observations", "incidents", "stock", "settings", "registries",
                                  "turns", "profiles"}

MCApp(kind, path, port) ==
  [kind |-> kind, name |-> "n1", path |-> path, config |-> port, restart |-> <<kind, "s">>,
   status |-> "provisioned", step |-> 4]

MCDeployInit ==
  IF part \in DOMAIN MCKindsOf
  THEN /\ \E kind \in MCKindsOf[part] \cap UnitKinds, id \in AppIds, path \in Paths, port \in Ports :
            rows = [a \in {id} |-> MCApp(kind, path, port)]
       /\ units = <<>> /\ sites = <<>> /\ nginx = {} /\ jobs = <<>> /\ history = <<>>
  ELSE DeployInit

MCInit ==
  /\ part \in MCParts
  /\ MCDeployInit /\ ObsInit /\ IncidentsInit
  /\ DockerInit /\ (part # "settings" => daemon = <<>>)
  /\ ModelGatewayInit
  /\ part \notin {"turns", "profiles"} => modelDisk = EmptyCollection
  /\ part = "turns" => \A p \in DOMAIN modelDisk.prof : modelDisk.prof[p].kind = "chatgpt"

MCNext ==
  /\ UNCHANGED part
  /\ \/ /\ part \in DOMAIN MCRowKinds /\ RowsNext(MCRowKinds[part])
        /\ UNCHANGED <<obsVars, incidentVars, dockerVars, modelVars>>
     \/ /\ part \in DOMAIN MCKindsOf /\ HostNext(MCKindsOf[part])
        /\ UNCHANGED <<obsVars, incidentVars, dockerVars, modelVars>>
     \/ /\ part = "observations" /\ ObsNext /\ savedObs'["r2"] = <<>>
        /\ UNCHANGED <<deployVars, incidentVars, dockerVars, modelVars>>
     \/ /\ part = "incidents" /\ IncidentsNext
        /\ UNCHANGED <<deployVars, obsVars, dockerVars, modelVars>>
     \/ /\ \/ part = "stock" /\ ResourcesNext
           \/ part = "settings" /\ SettingsNext
           \/ part = "registries" /\ RegistriesNext
        /\ UNCHANGED <<deployVars, obsVars, incidentVars, modelVars>>
     \/ /\ \/ part = "turns" /\ TurnsNext /\ \A c \in modelCommit'.coll : Cardinality(DOMAIN c.prof) <= 1
           \/ part = "profiles" /\ ProfilesNext
        /\ UNCHANGED <<deployVars, obsVars, incidentVars, dockerVars>>

MCSpec == MCInit /\ [][MCNext]_<<part, deployVars, obsVars, incidentVars, dockerVars, modelVars>>
=============================================================================
