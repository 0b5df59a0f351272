------------------------------ MODULE Incidents ------------------------------
(* Incidents (agentic/incident.rs): an investigation reads every target,    *)
(* names a cause and proposes a repair; a ChangeSet is bound to the incident *)
(* and the incident follows its execution until an operator closes it.  The *)
(* ChangeSet and fleet services are seen from outside: a revision of what    *)
(* has not started, a start, a pause, an end, and a rollback, also of what   *)
(* was committed.                                                            *)
EXTENDS Naturals, FiniteSets

CONSTANTS
  Ids,           \* incident ids a request may name
  Targets,       \* the targets of a request, and of a ChangeSet that fits it
  Changes,       \* ChangeSets
  Clients,       \* refreshes that may be under way
  MaxRuns,       \* bound on investigations
  MaxVersion,    \* bound on revisions of a ChangeSet
  MaxIncidents,  \* MAX_INCIDENTS
  MaxTimeline,   \* MAX_INCIDENT_TIMELINE_EVENTS
  LastEvent      \* bound on an incident's events, above MaxTimeline

VARIABLES
  incidents,     \* id -> incident
  incidentFile,  \* id -> incident, on disk
  investigations,\* agent run -> [id, left, reads]; runs count up from 1
  begun,         \* the number of runs that began
  refreshes,     \* client -> [id, next], between its read and its write
  changes,       \* ChangeSet -> [version, state]
  started,       \* the program started
  everBound,     \* id -> the links it ever had (a record for the properties)
  reached        \* ChangeSet -> the outcomes it ever had (a record for the properties)

incidentVars ==
  <<incidents, incidentFile, investigations, begun, refreshes, changes, started, everBound, reached>>

(* A link is the set of at most one <<ChangeSet, version>>.                  *)
IncidentsInit ==
  /\ incidents = <<>> /\ incidentFile = <<>> /\ investigations = <<>> /\ begun = 0
  /\ refreshes = <<>> /\ started = TRUE
  /\ changes = [c \in Changes |-> [version |-> 1, state |-> "NotStarted"]]
  /\ everBound = [i \in Ids |-> {}]
  /\ reached = [c \in Changes |-> {}]

(* A table without x, and with x.                                            *)
Less(f, x) == [y \in DOMAIN f \ {x} |-> f[y]]
More(f, x, value) == [y \in DOMAIN f \cup {x} |-> IF y = x THEN value ELSE f[y]]

-----------------------------------------------------------------------------
(* The file holds every incident without its evidence; a save that fails    *)
(* leaves the change in memory and answers an error.                        *)
persisted_incident(i) == [i EXCEPT !.live = FALSE]
persist_locked(items) ==
  incidentFile' \in {[i \in DOMAIN items |-> persisted_incident(items[i])], incidentFile}

valid_persisted_incident(r) == r.timeline <= MaxTimeline

(* A run that was investigating was never saved; what was executing is       *)
(* interrupted.                                                              *)
recovered_incident(r) ==
  IF r.status \in {"Executing", "Verifying"}
  THEN [r EXCEPT !.status = "Interrupted", !.timeline = @ + 1] ELSE r

(* A ChangeSet or fleet that was under way is interrupted too.               *)
InFlight == {"Executing", "Verifying", "RollingBack"}
recovered_change(r) == [r EXCEPT !.state = IF @ \in InFlight THEN "Interrupted" ELSE @]

Outcomes == {"Committed", "RolledBack"}

Reach == reached' = [c \in Changes |-> IF changes'[c].state \in Outcomes
                                       THEN reached[c] \cup {changes'[c]} ELSE reached[c]]

(* One record that is not valid and the program does not start.              *)
load ==
  /\ started' = \A i \in DOMAIN incidentFile : valid_persisted_incident(incidentFile[i])
  /\ incidents' = IF started'
                  THEN [i \in DOMAIN incidentFile |-> recovered_incident(incidentFile[i])]
                  ELSE <<>>
  /\ incidentFile' = IF started' THEN incidents' ELSE incidentFile
  /\ investigations' = <<>> /\ refreshes' = <<>>
  /\ changes' = [c \in Changes |-> recovered_change(changes[c])] /\ Reach
  /\ UNCHANGED <<begun, everBound>>

-----------------------------------------------------------------------------
(* A request names what its pack needs, or the first target's plan fails.   *)
plan_for(complete) == IF complete THEN {"reads"} ELSE {}

run(id, complete) ==
  /\ started /\ id \notin DOMAIN incidents /\ begun < MaxRuns
  /\ plan_for(complete) # {}
  /\ begun' = begun + 1
  /\ investigations' = More(investigations, begun + 1, [id |-> id, reads |-> <<>>])
  /\ UNCHANGED <<incidents, incidentFile, refreshes, changes, started, everBound, reached>>

(* The reads of one target, one target after the other: each succeeds with   *)
(* or without a sign of a fault, or has no result; a call that cannot be     *)
(* made ends the investigation with nothing kept.                            *)
execute_reads(n, t, seen) ==
  /\ n \in DOMAIN investigations /\ t \in Targets \ DOMAIN investigations[n].reads
  /\ investigations' =
       IF seen = "error" THEN Less(investigations, n)
       ELSE [investigations EXCEPT ![n].reads = More(@, t, seen)]
  /\ UNCHANGED <<incidents, incidentFile, begun, refreshes, changes, started, everBound, reached>>

(* Only a successful read is a candidate for the cause.                      *)
diagnose(reads) == IF \E t \in DOMAIN reads : reads[t] = "fault" THEN "found" ELSE "inconclusive"

(* Targets are compared when each of several has a signal.                   *)
compare_targets(reads) ==
  /\ Cardinality(Targets) > 1 /\ \A t \in Targets : reads[t] # "failed"
  /\ Cardinality({reads[t] : t \in Targets}) > 1

(* The oldest incidents go; an incident is as old as its investigation.      *)
trim_incidents(items) ==
  LET younger(i) == {j \in DOMAIN items : items[j].run > items[i].run}
  IN [i \in {i \in DOMAIN items : Cardinality(younger(i)) < MaxIncidents} |-> items[i]]

(* The id is looked up again under the lock.                                 *)
insert(n) ==
  LET v == investigations[n]
      cause == diagnose(v.reads)
  IN /\ n \in DOMAIN investigations /\ DOMAIN v.reads = Targets
     /\ IF v.id \in DOMAIN incidents THEN UNCHANGED <<incidents, incidentFile>>
        ELSE /\ incidents' = trim_incidents(More(incidents, v.id,
                  [run |-> n, cause |-> cause, drift |-> compare_targets(v.reads),
                   status |-> IF cause = "found" THEN "AwaitingApproval" ELSE "Inconclusive",
                   verification |-> "not-started", link |-> {}, resolution |-> "none",
                   live |-> TRUE, timeline |-> 4]))
             /\ persist_locked(incidents')
     /\ investigations' = Less(investigations, n)
     /\ UNCHANGED <<begun, refreshes, changes, started, everBound, reached>>

-----------------------------------------------------------------------------
Rest == UNCHANGED <<investigations, begun, refreshes, changes, started, reached>>
Room(id) == id \in DOMAIN incidents /\ incidents[id].timeline < LastEvent

(* The command compares version and targets with the ChangeSet first; one    *)
(* that fits the incident has its targets.  Verification and resolution are *)
(* left as they are.                                                         *)
attach_change_set(id, c) ==
  /\ Room(id) /\ incidents[id].live /\ incidents[id].status # "Closed"
  /\ LET link == <<c, changes[c].version>> IN
     /\ incidents' = [incidents EXCEPT ![id].link = {link}, ![id].status = "AwaitingApproval",
                                       ![id].timeline = @ + 1]
     /\ everBound' = [everBound EXCEPT ![id] = @ \cup {link}]
  /\ persist_locked(incidents')
  /\ Rest

(* What the state of a ChangeSet or a fleet means for the incident.          *)
Next_(s) ==
  CASE s \in {"NotStarted", "Paused"} -> [status |-> "AwaitingApproval", verification |-> "not-started", resolution |-> "none"]
    [] s = "Executing" -> [status |-> "Executing", verification |-> "pending", resolution |-> "none"]
    [] s = "Verifying" -> [status |-> "Verifying", verification |-> "pending", resolution |-> "none"]
    [] s = "Committed" -> [status |-> "Resolved", verification |-> "succeeded", resolution |-> "repair-verified"]
    [] s = "RolledBack" -> [status |-> "RolledBack", verification |-> "rollback-verified", resolution |-> "repair-rolled-back"]
    [] OTHER -> [status |-> "Failed", verification |-> "failed", resolution |-> "none"]

(* Mutant: the state is read of whatever version there is.                   *)
ReadAnyVersion(k, id) ==
  /\ k \notin DOMAIN refreshes /\ id \in DOMAIN incidents
  /\ \E l \in incidents[id].link :
       refreshes' = More(refreshes, k, [id |-> id, next |-> Next_(changes[l[1]].state)])
  /\ UNCHANGED <<incidents, incidentFile, investigations, begun, changes, started, everBound, reached>>

(* The link is read, and the state of what it names; only then is the lock   *)
(* taken to write.                                                           *)
refresh(k, id) ==
  /\ k \notin DOMAIN refreshes /\ id \in DOMAIN incidents
  /\ \E l \in incidents[id].link :
       /\ changes[l[1]].version = l[2]
       /\ refreshes' = More(refreshes, k, [id |-> id, next |-> Next_(changes[l[1]].state)])
  /\ UNCHANGED <<incidents, incidentFile, investigations, begun, changes, started, everBound, reached>>

synchronize(k) ==
  /\ k \in DOMAIN refreshes
  /\ LET id == refreshes[k].id next == refreshes[k].next IN
     IF id \notin DOMAIN incidents THEN UNCHANGED <<incidents, incidentFile>>
     ELSE /\ Room(id)
          /\ incidents' = [incidents EXCEPT
                ![id].timeline = IF incidents[id].status # next.status THEN @ + 1 ELSE @,
                ![id].status = next.status, ![id].verification = next.verification,
                ![id].resolution = next.resolution]
          /\ persist_locked(incidents')
  /\ refreshes' = Less(refreshes, k)
  /\ UNCHANGED <<investigations, begun, changes, started, everBound, reached>>

Settled(id) == incidents[id].status \notin {"Executing", "Verifying", "Closed"}

(* Owner and summary are bounded texts.                                      *)
handoff(id) ==
  /\ Room(id) /\ Settled(id)
  /\ incidents' = [incidents EXCEPT ![id].timeline = @ + 1]
  /\ persist_locked(incidents')
  /\ Rest /\ UNCHANGED everBound

close(id, code) ==
  /\ Room(id) /\ Settled(id)
  /\ code = "Resolved" => incidents[id].verification = "succeeded"
  /\ code = "FalsePositive" => incidents[id].cause = "inconclusive"
  /\ incidents' = [incidents EXCEPT ![id].status = "Closed", ![id].resolution = code,
                                    ![id].timeline = @ + 1]
  /\ persist_locked(incidents')
  /\ Rest /\ UNCHANGED everBound

-----------------------------------------------------------------------------
(* The ChangeSet and fleet services.                                         *)
Elsewhere == UNCHANGED <<incidents, incidentFile, investigations, begun, refreshes, started, everBound>>

Move(c, s) ==
  /\ changes' = [changes EXCEPT ![c].state = s] /\ Reach
  /\ Elsewhere

revise(c) ==
  /\ changes[c].state = "NotStarted" /\ changes[c].version < MaxVersion
  /\ changes' = [changes EXCEPT ![c].version = @ + 1] /\ Reach
  /\ Elsewhere

(* A fleet that was paused for review goes on when it is executed again.     *)
Start(c) == changes[c].state \in {"NotStarted", "Paused"} /\ Move(c, "Executing")
Verify(c) == changes[c].state = "Executing" /\ Move(c, "Verifying")

Ends == {"Committed", "Failed", "Paused", "RollingBack", "RolledBack", "RollbackFailed"}

End(c, s) == changes[c].state \in {"Executing", "Verifying"} /\ s \in Ends /\ Move(c, s)

(* rollback accepts a ChangeSet that was committed or failed, and            *)
(* rollback_explicit a fleet that succeeded, failed or was paused.  It takes *)
(* no claim: another one that overlaps may replace the outcome.              *)
RollbackEnds == {"RollingBack", "RolledBack", "RollbackFailed"}

Rollback(c, s) ==
  /\ changes[c].state \in {"Committed", "Failed", "Paused"} \cup RollbackEnds
  /\ s \in RollbackEnds /\ Move(c, s)

IncidentsNext ==
  \/ load
  \/ \E id \in Ids, complete \in BOOLEAN : run(id, complete)
  \/ \E n \in 1..MaxRuns :
       \/ insert(n)
       \/ \E t \in Targets, seen \in {"fine", "fault", "failed", "error"} : execute_reads(n, t, seen)
  \/ \E id \in Ids : handoff(id)
  \/ \E id \in Ids, code \in {"Resolved", "AcceptedRisk", "FalsePositive"} : close(id, code)
  \/ \E id \in Ids, c \in Changes : attach_change_set(id, c)
  \/ \E k \in Clients : synchronize(k) \/ \E id \in Ids : refresh(k, id)
  \/ \E c \in Changes : revise(c) \/ Start(c) \/ Verify(c) \/ \E s \in Ends : End(c, s) \/ Rollback(c, s)

IncidentsSpec == IncidentsInit /\ [][IncidentsNext]_incidentVars

-----------------------------------------------------------------------------
(* The bound version of a ChangeSet was once in state s.                     *)
BoundReached(id, s) ==
  \E l \in everBound[id] : [version |-> l[2], state |-> s] \in reached[l[1]]

(* A repair that an incident calls verified was executed and committed in    *)
(* the very version that was bound to the incident, and a rollback it calls  *)
(* verified was one of such a version: revisions, refreshes that write late  *)
(* and restarts never lend an incident the outcome of a ChangeSet, or of a   *)
(* version of it, that no one bound to it.  It says nothing of afterwards: a *)
(* committed ChangeSet may be rolled back, and nothing tells the incident.   *)
RepairWasBound ==
  \A id \in DOMAIN incidents :
    LET verification == incidents[id].verification
        resolution == incidents[id].resolution
    IN /\ (verification = "succeeded" \/ resolution \in {"Resolved", "repair-verified"})
            => BoundReached(id, "Committed")
       /\ (verification = "rollback-verified" \/ resolution = "repair-rolled-back")
            => BoundReached(id, "RolledBack")

(* closure_requires_successful_verification_for_resolved_claim (a test of    *)
(* incident.rs): who closes an incident as resolved has a repair that        *)
(* succeeded, the one the incident is bound to.                              *)
ResolvedIsVerified ==
  \A id \in DOMAIN incidents :
    incidents[id].status = "Closed" /\ incidents[id].resolution = "Resolved"
      => \E l \in incidents[id].link : changes[l[1]].state = "Committed"
==============================================================================
