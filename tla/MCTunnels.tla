----------------------------- MODULE MCTunnels -----------------------------
(* A small instance of the tunnels: one profile, before (i1) and after (i2) *)
(* its settings were edited, and rules that want the same local port.  A    *)
(* behaviour is one part's, chosen in the initial state:                    *)
(*   serving  the rule r1 with two contents, streams and probes, under i1   *)
(*   starts   the rule r1, two connections, the profile edited in between   *)
(*   rules    two rules, each with a place for its listener, under i1       *)
(* Of two identities that are used once, the first is taken.                *)
EXTENDS Tunnels

CONSTANTS profile, port, r1, r2, x1, x2, i1, i2, k1, k2, t1, t2

VARIABLE part

MCProfileOf == [x \in Contents |-> profile]
MCPortOf    == [x \in Contents |-> port]
MCIdProfile == [i \in Identities |-> profile]

MCInit == Init /\ part \in {"serving", "starts", "rules"}

(* A start needs an identity for its task: there are two.                   *)
MCRoom == Cardinality({r \in Rules : live'[r] # None}) + Cardinality({c \in Callers : call'[c].op = "start"}) <= 2

MCBounds ==
  /\ MCRoom
  /\ part # "rules" => rules'[r2] = "new"
  /\ part # "starts" => /\ \A c \in Callers : call'[c].asked # i2
                        /\ conn'[k2] = NoConn
  /\ part = "rules" => \A k \in Conns : conn[k].open => conn'[k].open
  /\ part # "serving" => /\ \A r \in Rules : rules'[r] \in {"new", x1}
                         /\ \A c \in Callers : call'[c].op # "check"
                         /\ \A t \in Tasks : task'[t].streams = 0

MCInOrder ==
  /\ task'[t2] # NoTask => task[t2] # NoTask \/ task[t1] # NoTask
  /\ conn'[k2] # NoConn => conn[k2] # NoConn \/ conn[k1] # NoConn

MCNext == UNCHANGED part /\ Next /\ MCBounds /\ MCInOrder

MCSpec == MCInit /\ [][MCNext]_<<part, vars>> /\ Fairness
=============================================================================
