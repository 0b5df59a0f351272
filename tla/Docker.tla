-------------------------------- MODULE Docker --------------------------------
(* What the operations pages do to a server's docker (operations/): images,  *)
(* containers, networks and volumes, the engine's settings and the logins to *)
(* registries, with the rows the desktop keeps of them.  Every script may    *)
(* fail, or its session be lost; a request of two scripts is two steps, and  *)
(* other requests and the server's administrator come in between.            *)
EXTENDS Naturals, FiniteSets

CONSTANTS
  DockerNames,          \* of images, containers, networks and volumes
  DockerClients,  \* requests that may be under way
  RowIds, Urls,
  Server,         \* login_server: several urls are one login
  Wishes,         \* the settings requests ask for, a subset of Settings
  MaxRegistries   \* MAX_REGISTRIES_PER_PROFILE

VARIABLES
  stock,       \* kind of resource -> the names there are
  containers,  \* name -> [image, running]
  daemon,      \* /etc/docker/daemon.json: key -> value
  engine,      \* the settings the engine started with
  asked,       \* the settings ever applied (a record for the properties)
  registries,  \* id -> [url, name]
  logins,      \* servers docker is logged in to
  call         \* client -> a request after its first script

dockerVars == <<stock, containers, daemon, engine, asked, registries, logins, call>>

Kind == {"image", "network", "volume"}
Managed == {"registry-mirrors", "insecure-registries", "log-driver", "log-opts", "live-restore"}

(* Settings of a request: a list is empty or not, options go with a driver   *)
(* that takes them.                                                          *)
Settings == [mirrors : {"", "m"}, insecure : {"", "i"}, driver : {"", "local", "journald"},
             opts : {"", "o"}, live : {"true", "false"}]
TakesOpts(c) == c.driver = "local"

(* What an administrator may have put in the file.                           *)
Unmanaged == {<<>>, [k \in {"data-root"} |-> "d"]}

DockerInit ==
  /\ stock = [k \in Kind |-> {}] /\ containers = <<>>
  /\ daemon \in Unmanaged /\ engine = daemon /\ asked = {}
  /\ registries = <<>> /\ logins = {} /\ call = <<>>

(* A table without x, with x, and one table over another.                    *)
Drop(f, x) == [y \in DOMAIN f \ {x} |-> f[y]]
With(f, x, value) == [y \in DOMAIN f \cup {x} |-> IF y = x THEN value ELSE f[y]]
Over(f, g) == [y \in DOMAIN f \cup DOMAIN g |-> IF y \in DOMAIN f THEN f[y] ELSE g[y]]

-----------------------------------------------------------------------------
(* Resources.  A script that removes goes on after a failure; docker keeps   *)
(* what a container uses, and a script may fail for any name.                *)
Unused(k) == stock[k] \ (IF k = "image" THEN {containers[c].image : c \in DOMAIN containers} ELSE {})

StockOnly == UNCHANGED <<containers, daemon, engine, asked, registries, logins, call>>

Add(k, n) == stock' = [stock EXCEPT ![k] = @ \cup {n}] /\ StockOnly
RemoveEach(k, ns) ==
  \E gone \in SUBSET (ns \cap Unused(k)) : stock' = [stock EXCEPT ![k] = @ \ gone] /\ StockOnly
Prune(k) == stock' = [stock EXCEPT ![k] = @ \ Unused(k)] /\ StockOnly

create_container(n, image) ==
  /\ n \notin DOMAIN containers
  /\ containers' = With(containers, n, [image |-> image, running |-> TRUE])
  /\ stock' = [stock EXCEPT !["image"] = @ \cup {image}]
  /\ UNCHANGED <<daemon, engine, asked, registries, logins, call>>

docker_image_action(n, ns) ==
  \/ Add("image", n) \/ RemoveEach("image", ns) \/ Prune("image") \/ \E i \in DockerNames : create_container(n, i)

(* The networks docker comes with are not in the stock.                      *)
docker_network_action(n, ns) == Add("network", n) \/ RemoveEach("network", ns) \/ Prune("network")

docker_volume_action(n, ns) == Add("volume", n) \/ RemoveEach("volume", ns) \/ Prune("volume")

docker_action(n, verb) ==
  /\ n \in DOMAIN containers
  /\ containers' = [containers EXCEPT ![n].running = verb # "stop"]
  /\ UNCHANGED <<stock, daemon, engine, asked, registries, logins, call>>

-----------------------------------------------------------------------------
(* The engine's settings.                                                    *)
validate_daemon_config(c) == ~TakesOpts(c) => c.opts = ""

(* Every managed key is set or taken out; all others stay.                   *)
Rendered(c) ==
  LET keys == [k \in Managed |->
                 CASE k = "registry-mirrors" -> c.mirrors
                   [] k = "insecure-registries" -> c.insecure
                   [] k = "log-driver" -> c.driver
                   [] k = "log-opts" -> IF TakesOpts(c) THEN c.opts ELSE ""
                   [] OTHER -> c.live]
  IN [k \in {k \in Managed : keys[k] # ""} |-> keys[k]]

Only(f, keys) == [k \in DOMAIN f \cap keys |-> f[k]]

(* Mutant: options of an earlier driver are left in the file.                *)
merge_keeping_opts(raw, c) ==
  Over(Rendered(c), Only(raw, DOMAIN raw \ (Managed \ {"log-opts"})))

merge_daemon_json(raw, c) == Over(Rendered(c), Only(raw, DOMAIN raw \ Managed))

(* The file is read, merged and sent back with a restart.                    *)
apply(k, c) ==
  /\ k \notin DOMAIN call /\ validate_daemon_config(c)
  /\ call' = With(call, k, [op |-> "apply", file |-> merge_daemon_json(daemon, c)])
  /\ asked' = asked \cup {c}
  /\ UNCHANGED <<stock, containers, daemon, engine, registries, logins>>

(* The script ends after the copy when the restart fails.                    *)
write_and_restart(k, restarted) ==
  /\ k \in DOMAIN call /\ call[k].op = "apply"
  /\ daemon' = call[k].file
  /\ engine' = IF restarted THEN daemon' ELSE engine
  /\ call' = Drop(call, k)
  /\ UNCHANGED <<stock, containers, asked, registries, logins>>

(* The administrator changes what Runory does not manage.                    *)
edit_daemon_json(v) ==
  /\ daemon' = Over(Only(daemon, DOMAIN daemon \ {"data-root"}), v)
  /\ UNCHANGED <<stock, containers, engine, asked, registries, logins, call>>

-----------------------------------------------------------------------------
(* Registries.                                                               *)
(* A new row needs a password; with one, docker logs in before the row is    *)
(* looked at.                                                                *)
docker_login(k, id, row, password) ==
  /\ k \notin DOMAIN call
  /\ id \notin DOMAIN registries => password
  /\ call' = With(call, k, [op |-> "save", new |-> id \notin DOMAIN registries, id |-> id, row |-> row])
  /\ logins' = IF password THEN logins \cup {Server[row.url]} ELSE logins
  /\ UNCHANGED <<stock, containers, daemon, engine, asked, registries>>

Accepted(id, row, new) ==
  /\ IF new THEN id \notin DOMAIN registries /\ Cardinality(DOMAIN registries) < MaxRegistries
            ELSE id \in DOMAIN registries
  /\ \A o \in DOMAIN registries \ {id} : registries[o].name # row.name /\ registries[o].url # row.url

upsert(k) ==
  /\ k \in DOMAIN call /\ call[k].op = "save"
  /\ registries' = IF Accepted(call[k].id, call[k].row, call[k].new)
                   THEN With(registries, call[k].id, call[k].row) ELSE registries
  /\ call' = Drop(call, k)
  /\ UNCHANGED <<stock, containers, daemon, engine, asked, logins>>

delete_many(k, ids) ==
  /\ k \notin DOMAIN call /\ ids # {} /\ ids \subseteq DOMAIN registries
  /\ registries' = [o \in DOMAIN registries \ ids |-> registries[o]]
  /\ call' = With(call, k, [op |-> "logout", servers |-> {Server[registries[o].url] : o \in ids}])
  /\ UNCHANGED <<stock, containers, daemon, engine, asked, logins>>

(* The rows are gone; a session that is lost leaves the other logins.        *)
docker_logout(k, s) ==
  /\ k \in DOMAIN call /\ call[k].op = "logout" /\ s \in call[k].servers
  /\ logins' = logins \ {s}
  /\ call' = IF call[k].servers = {s} THEN Drop(call, k)
             ELSE [call EXCEPT ![k].servers = @ \ {s}]
  /\ UNCHANGED <<stock, containers, daemon, engine, asked, registries>>

(* A session is lost: the request ends with an error.                        *)
abandon(k) ==
  /\ k \in DOMAIN call /\ call' = Drop(call, k)
  /\ UNCHANGED <<stock, containers, daemon, engine, asked, registries, logins>>

ResourcesNext ==
  \/ \E n \in DockerNames, ns \in SUBSET DockerNames \ {{}} :
       docker_image_action(n, ns) \/ docker_network_action(n, ns) \/ docker_volume_action(n, ns)
  \/ \E n \in DockerNames, v \in {"start", "stop", "restart"} : docker_action(n, v)

SettingsNext ==
  \/ \E k \in DockerClients, c \in Wishes : apply(k, c)
  \/ \E k \in DockerClients, ok \in BOOLEAN : write_and_restart(k, ok)
  \/ \E k \in DockerClients : abandon(k)
  \/ \E v \in Unmanaged : edit_daemon_json(v)

RegistriesNext ==
  \/ \E k \in DockerClients, id \in RowIds, u \in Urls, n \in DockerNames, p \in BOOLEAN :
       docker_login(k, id, [url |-> u, name |-> n], p)
  \/ \E k \in DockerClients : upsert(k) \/ abandon(k)
  \/ \E k \in DockerClients, ids \in SUBSET RowIds : delete_many(k, ids)
  \/ \E k \in DockerClients, u \in Urls : docker_logout(k, Server[u])

DockerNext == ResourcesNext \/ SettingsNext \/ RegistriesNext

DockerSpec == DockerInit /\ [][DockerNext]_dockerVars

-----------------------------------------------------------------------------
(* Two requests that apply settings race, restarts fail, and an administrator *)
(* edits the file: what the file says of the keys Runory manages, and what the *)
(* engine runs with, is the wish of one request, never a mixture of several.  *)
SettingsAreOneRequests ==
  \A f \in {daemon, engine} :
    \/ Only(f, Managed) = <<>>
    \/ \E c \in asked : Only(f, Managed) = Rendered(c)
==============================================================================
