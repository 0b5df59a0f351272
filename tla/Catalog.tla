------------------------------- MODULE Catalog -------------------------------
(***************************************************************************)
(* The catalog of groups, server profiles and deployment apps of a device   *)
(* (groups/service, profiles/service, the app rows of deployment), under    *)
(* the write lock that every operation holds from its first read to its     *)
(* last save: one action per operation.  A device's catalog is a partial    *)
(* function from identities to records; names, ports, sort orders and       *)
(* settings are one field, host.                                            *)
(***************************************************************************)
EXTENDS Naturals, FiniteSets, Sequences

CONSTANTS
  Devices,
  Groups,   \* identities of groups
  Servers,  \* identities of profiles
  Apps,     \* identities of deployment apps
  Hosts,    \* endpoints: host, port and user name
  Starts,   \* catalogs the devices may start with
  MaxTime   \* bound on the clock, so on the number of edits

NoGroup == "ungrouped"

DirectRoute == "direct"

(* Apps keep whole seconds; the other records keep milliseconds.            *)
TicksPerSecond == 2

VARIABLES
  cat,   \* each device's catalog
  clock, \* the time of the last edit
  used   \* identities that were ever given out

Ids == Groups \cup Servers \cup Apps

(* The tables have identities of their own, and a catalog starts in order.  *)
ASSUME CatalogAssumption ==
  /\ Groups \cap Servers = {} /\ Apps \cap Servers = {} /\ Groups \cap Apps = {}
  /\ \A start \in Starts : \A p \in DOMAIN start \cap Servers :
       /\ "group" \in DOMAIN start[p]
       /\ start[p].group \in (DOMAIN start \cap Groups) \cup {NoGroup}

CatalogInit ==
  /\ \E start \in Starts : cat = [d \in Devices |-> start] /\ used = DOMAIN start
  /\ clock = 0

Part(f, S) == [x \in DOMAIN f \cap S |-> f[x]]

Over(f, g) == [x \in DOMAIN f \cup DOMAIN g |-> IF x \in DOMAIN f THEN f[x] ELSE g[x]]

With(f, x, r) == [y \in DOMAIN f \cup {x} |-> IF y = x THEN r ELSE f[y]]

Has(d, x) == x \in DOMAIN cat[d]

Put(d, x, r) == cat' = [cat EXCEPT ![d] = With(@, x, r)]

now == clock + 1

Tick == clock < MaxTime /\ clock' = now

New(x) == x \notin used /\ used' = used \cup {x}

-----------------------------------------------------------------------------
(* Groups.                                                                  *)

create_group(d, g, h) ==
  /\ Tick /\ New(g)
  /\ Put(d, g, [at |-> now, host |-> h])

update_group(d, g, h) ==
  /\ Tick /\ UNCHANGED used /\ Has(d, g)
  /\ Put(d, g, [at |-> now, host |-> h])

(* Its profiles are moved out of it and saved before the group goes.        *)
delete_group(d, g) ==
  /\ Tick /\ UNCHANGED used /\ Has(d, g)
  /\ cat' = [cat EXCEPT ![d] =
       [x \in DOMAIN @ \ {g} |->
          IF x \in Servers /\ @[x].group = g THEN [@[x] EXCEPT !.group = NoGroup, !.at = now] ELSE @[x]]]

reorder_groups(d) ==
  /\ Tick /\ UNCHANGED used /\ DOMAIN cat[d] \cap Groups # {}
  /\ cat' = [cat EXCEPT ![d] = [x \in DOMAIN @ |-> IF x \in Groups THEN [@[x] EXCEPT !.at = now] ELSE @[x]]]

-----------------------------------------------------------------------------
(* Profiles.                                                                *)

validate_group(d, g) == g = NoGroup \/ Has(d, g)

(* A jump host is another profile, reached directly.                        *)
validate_route(d, p, r) ==
  r # DirectRoute => (r # p /\ Has(d, r) /\ cat[d][r].route = DirectRoute)

UsedAsJump(c, p) == \E q \in DOMAIN c \cap Servers : c[q].route = p

create_profile(d, p, h, g, r) ==
  /\ Tick /\ New(p)
  /\ validate_group(d, g) /\ validate_route(d, p, r)
  /\ Put(d, p, [at |-> now, host |-> h, group |-> g, route |-> r])

update_profile(d, p, h, g, r) ==
  /\ Tick /\ UNCHANGED used /\ Has(d, p)
  /\ validate_group(d, g) /\ validate_route(d, p, r)
  /\ r # DirectRoute => ~UsedAsJump(cat[d], p)
  /\ Put(d, p, [at |-> now, host |-> h, group |-> g, route |-> r])

(* The apps of the profile are not touched.                                 *)
delete_profile(d, p) ==
  /\ Tick /\ UNCHANGED used /\ Has(d, p) /\ ~UsedAsJump(cat[d], p)
  /\ cat' = [cat EXCEPT ![d] = Part(@, Ids \ {p})]

mark_connected(d, p) ==
  /\ Tick /\ UNCHANGED used /\ Has(d, p)
  /\ Put(d, p, [cat[d][p] EXCEPT !.at = now])

reorder_profiles(d, g) ==
  /\ Tick /\ UNCHANGED used /\ validate_group(d, g)
  /\ LET inGroup == {p \in DOMAIN cat[d] \cap Servers : cat[d][p].group = g}
     IN /\ inGroup # {}
        /\ cat' = [cat EXCEPT ![d] = [x \in DOMAIN @ |-> IF x \in inGroup THEN [@[x] EXCEPT !.at = now] ELSE @[x]]]

(* One import of a server that names a jump server: each is matched by its  *)
(* endpoint or created, then the jump is wired unless the server already    *)
(* serves as a jump or the jump is not direct.                              *)
Imported(c, p, h, g) ==
  With(c, p, [at |-> now, host |-> h, group |-> g,
              route |-> IF p \in DOMAIN c THEN c[p].route ELSE DirectRoute])

Matches(c, p, h) ==
  IF \E q \in DOMAIN c \cap Servers : c[q].host = h
    THEN p \in DOMAIN c /\ c[p].host = h
    ELSE p \notin used

Wired(c, p, j) ==
  IF c[j].route = DirectRoute /\ ~UsedAsJump(c, p)
    THEN [c EXCEPT ![p].route = j, ![p].at = now] ELSE c

upsert_import_batch(d, p, h, j, k, g) ==
  /\ Tick /\ validate_group(d, g)
  /\ Matches(cat[d], p, h)
  /\ LET one == Imported(cat[d], p, h, g)
     IN /\ Matches(one, j, k)
        /\ cat' = [cat EXCEPT ![d] = Wired(Imported(one, j, k, g), p, j)]
        /\ used' = used \cup {p, j}

-----------------------------------------------------------------------------
(* Deployment apps, which the catalog keeps for the cloud.                  *)

Seconds(t) == (t \div TicksPerSecond) * TicksPerSecond

app_save(d, a, p, h) ==
  /\ Tick /\ Has(d, p)
  /\ IF Has(d, a) THEN cat[d][a].profile = p /\ UNCHANGED used ELSE New(a)
  /\ Put(d, a, [at |-> Seconds(now), host |-> h, profile |-> p])

app_delete(d, a) ==
  /\ Tick /\ UNCHANGED used /\ Has(d, a)
  /\ cat' = [cat EXCEPT ![d] = Part(@, Ids \ {a})]

GroupEdit(d) ==
  \/ \E g \in Groups, h \in Hosts : create_group(d, g, h) \/ update_group(d, g, h)
  \/ \E g \in Groups : delete_group(d, g)
  \/ reorder_groups(d)

ProfileEdit(d) ==
  \/ \E p \in Servers, h \in Hosts, g \in Groups \cup {NoGroup}, r \in Servers \cup {DirectRoute} :
       create_profile(d, p, h, g, r) \/ update_profile(d, p, h, g, r)
  \/ \E p \in Servers : delete_profile(d, p) \/ mark_connected(d, p)
  \/ \E g \in Groups \cup {NoGroup} : reorder_profiles(d, g)

AppEdit(d) ==
  \/ \E a \in Apps, p \in Servers, h \in Hosts : app_save(d, a, p, h)
  \/ \E a \in Apps : app_delete(d, a)

Import(d) ==
  \E p, j \in Servers, h, k \in Hosts, g \in Groups \cup {NoGroup} : upsert_import_batch(d, p, h, j, k, g)
==============================================================================
