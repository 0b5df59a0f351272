----------------------------- MODULE AgentStore -----------------------------
(***************************************************************************)
(* What the Agent Runtime V2 writes down and shows: the run rows, the      *)
(* event log with its side tables, the checkpoints, the fleet's event log, *)
(* and the streams a panel reads them through (agent/sqlite.rs,            *)
(* agent/broadcast.rs, emit() and transition() of agent/controller.rs, the *)
(* requests of agent/service.rs and commands/agent_v2.rs).                 *)
(*                                                                         *)
(* AgentRun models what a controller decides.  Here a handler is only the  *)
(* list of writes it makes, in the order of the code, and each write is a  *)
(* step: the process may die between any two of them, and subscribers run  *)
(* beside them.                                                            *)
(***************************************************************************)
EXTENDS Naturals, Sequences, FiniteSets, SequencesExt, FiniteSetsExt

CONSTANTS
  AgentRuns,        \* run identities
  Streams,          \* subscriptions of panels
  ToolIds,          \* identities of tool calls
  BusCapacity,      \* broadcast::channel(256)
  MaxFleetEvents,   \* MAX_DURABLE_FLEET_EVENTS
  MaxLog,           \* bound: events of one run
  MaxBus,           \* bound: events broadcast since the last start
  MaxRestarts       \* bound: restarts

VARIABLES
  agentRow,     \* agent_runs: id -> its columns, for the runs that exist
  agentLog,     \* agent_events: id -> its events, by increasing seq
  toolRow,      \* tool_calls and tool_results: id -> [authorization, state]
  agentCheck,   \* agent_checkpoints: id -> its columns, for the runs that have one
  driver,       \* the controller in a run's slot: its copy of the row, and what it has left to do
  bus,          \* the broadcast channel: every event sent since the start
  stream,       \* subscriptions: id -> what it is for and what it was sent
  fleetLog,     \* fleet_events_v2 of one fleet run
  restarts

storeVars == <<agentRow, agentLog, toolRow, agentCheck, driver, bus, stream, fleetLog, restarts>>

------------------------------------------------------------------------------
(* The tables *)

RowStates == {"created", "active", "waiting", "paused", "ended"}
EventKinds == {"created", "user", "requested", "auto", "approval", "completed", "failed", "observed", "other"}

LastSeq(r) == IF agentLog[r] = <<>> THEN 0 ELSE Last(agentLog[r]).seq

\* A row as insert() first writes it.
NewRow == [state |-> "created", next |-> 1, bound |-> FALSE]

\* project_event_side_tables(): what an event changes beside the log. A row is made by ToolRequested
\* and kept when there is one; the other events change a row that is there.
Projected(rows, e) ==
  LET Set(auth, st) == [rows EXCEPT ![e.tool] = [auth |-> auth, state |-> st]]
  IN CASE e.kind = "requested" /\ e.tool \notin DOMAIN rows ->
             [t \in DOMAIN rows \cup {e.tool} |-> IF t = e.tool THEN [auth |-> "pending", state |-> "requested"] ELSE rows[t]]
       [] e.kind = "auto" -> Set("auto", rows[e.tool].state)
       [] e.kind = "approval" -> Set("approval", "awaiting")
       [] e.kind \in {"completed", "failed"} -> Set(rows[e.tool].auth, e.kind)
       [] OTHER -> rows

\* recover_on_startup(): a run found in the middle of its loop becomes Paused; the states in which it
\* waits, and Created, are kept.
RecoveredState(st) == IF st = "active" THEN "paused" ELSE st

------------------------------------------------------------------------------
(* A controller's writes.  todo is what the handler in progress still has to do. *)

Emit(kind, tool) == [do |-> "emit", state |-> "", kind |-> kind, tool |-> tool]
Note(kind) == [do |-> "emit", state |-> "", kind |-> kind, tool |-> CHOOSE t \in ToolIds : TRUE]
MoveTo(st) == [do |-> "move", state |-> st, kind |-> "", tool |-> CHOOSE t \in ToolIds : TRUE]
SaveCheckpoint == [MoveTo("") EXCEPT !.do = "checkpoint"]
BindTarget == [MoveTo("") EXCEPT !.do = "target"]
Leave == [MoveTo("") EXCEPT !.do = "leave"]

NoDriver == [on |-> FALSE, state |-> "created", next |-> 1, at |-> "write", todo |-> <<>>, loop |-> FALSE]
Begin(r, todo, loop) == driver' = [driver EXCEPT ![r].todo = todo, ![r].loop = loop]
Idle(r) == driver[r].on /\ driver[r].todo = <<>>

\* Next is the write that driver r does now.
Doing(r, do) == driver[r].on /\ driver[r].todo # <<>> /\ Head(driver[r].todo).do = do
Advance(d) == [d EXCEPT !.todo = Tail(@), !.at = "write"]

\* transition(): the state and the sequence cursor of the copy go to the row in one transaction.
transition(r) ==
  /\ Doing(r, "move")
  /\ LET d == [driver[r] EXCEPT !.state = Head(driver[r].todo).state] IN
     /\ driver' = [driver EXCEPT ![r] = Advance(d)]
     /\ agentRow' = [agentRow EXCEPT ![r].state = d.state, ![r].next = d.next]
  /\ UNCHANGED <<agentLog, toolRow, agentCheck, bus, stream, fleetLog, restarts>>

\* append() refuses a sequence number that the log has reached already: the handler ends there with an
\* error (which cancel() ignores), and the copy keeps the number it has spent.
append(r) ==
  /\ Doing(r, "emit") /\ driver[r].at = "write"
  /\ Len(agentLog[r]) < MaxLog /\ Len(bus) < MaxBus
  /\ LET d == driver[r]
         e == [seq |-> d.next, kind |-> Head(d.todo).kind, tool |-> Head(d.todo).tool]
     IN IF e.seq <= LastSeq(r)
        THEN /\ driver' = [driver EXCEPT ![r].next = @ + 1, ![r].loop = FALSE, ![r].todo = SelectSeq(@, LAMBDA x : x = Leave /\ ~d.loop)]
             /\ UNCHANGED <<agentLog, toolRow>>
        ELSE /\ driver' = [driver EXCEPT ![r].next = @ + 1, ![r].at = "send"]
             /\ agentLog' = [agentLog EXCEPT ![r] = Append(@, e)]
             /\ toolRow' = Projected(toolRow, e)
  /\ UNCHANGED <<agentRow, agentCheck, bus, stream, fleetLog, restarts>>

\* BroadcastingEventRepository::append() sends an event when the store has it.
broadcast(r) ==
  /\ driver[r].on /\ driver[r].at = "send"
  /\ bus' = Append(bus, [run |-> r, seq |-> LastSeq(r)])
  /\ driver' = [driver EXCEPT ![r].at = "save"]
  /\ UNCHANGED <<agentRow, agentLog, toolRow, agentCheck, stream, fleetLog, restarts>>

\* The end of emit(): the row, with the sequence cursor, in a transaction of its own.
save_cursor(r) ==
  /\ driver[r].on /\ driver[r].at = "save"
  /\ agentRow' = [agentRow EXCEPT ![r].next = driver[r].next, ![r].state = driver[r].state]
  /\ driver' = [driver EXCEPT ![r] = Advance(@)]
  /\ UNCHANGED <<agentLog, toolRow, agentCheck, bus, stream, fleetLog, restarts>>

save_checkpoint(r) ==
  /\ Doing(r, "checkpoint")
  /\ agentCheck' = [x \in DOMAIN agentCheck \cup {r} |->
                      IF x = r THEN [state |-> driver[r].state, cursor |-> driver[r].next - 1] ELSE agentCheck[x]]
  /\ driver' = [driver EXCEPT ![r] = Advance(@)]
  /\ UNCHANGED <<agentRow, agentLog, toolRow, bus, stream, fleetLog, restarts>>

record_history_target(r) ==
  /\ Doing(r, "target")
  /\ agentRow' = [agentRow EXCEPT ![r].bound = TRUE]
  /\ driver' = [driver EXCEPT ![r] = Advance(@)]
  /\ UNCHANGED <<agentLog, toolRow, agentCheck, bus, stream, fleetLog, restarts>>

\* finish_outcome(): the entry of a run that ended is dropped.
finish_turn(r) ==
  /\ Doing(r, "leave")
  /\ driver' = [driver EXCEPT ![r] = NoDriver]
  /\ UNCHANGED <<agentRow, agentLog, toolRow, agentCheck, bus, stream, fleetLog, restarts>>

------------------------------------------------------------------------------
(* Handlers *)

start_run(r) ==
  /\ r \notin DOMAIN agentRow
  /\ agentRow' = [x \in DOMAIN agentRow \cup {r} |-> IF x = r THEN NewRow ELSE agentRow[x]]
  /\ driver' = [driver EXCEPT ![r] = [NoDriver EXCEPT !.on = TRUE, !.loop = TRUE, !.todo =
       <<Note("created"), Note("user"), BindTarget, MoveTo("active"), Note("other")>>]]
  /\ UNCHANGED <<agentLog, toolRow, agentCheck, bus, stream, fleetLog, restarts>>

\* A round of the loop: calls that need no approval, one that does, a question, or the end.
Rounds(t) ==
  {<<Emit("requested", t), Emit("auto", t), Emit(k, t), Note("observed")>> : k \in {"completed", "failed"}}
  \cup {<<Emit("requested", t), Emit("approval", t), MoveTo("waiting"), SaveCheckpoint>>,
        <<MoveTo("ended"), Note("other"), Leave>>}

drive_loop(r) ==
  /\ Idle(r) /\ driver[r].loop /\ driver[r].state = "active"
  /\ \E t \in ToolIds \ DOMAIN toolRow : \E todo \in Rounds(t) : Begin(r, todo, TRUE)
  /\ UNCHANGED <<agentRow, agentLog, toolRow, agentCheck, bus, stream, fleetLog, restarts>>

\* approve() of a call: it runs, and the loop goes on.
approve_call(r) ==
  /\ Idle(r) /\ driver[r].state = "waiting"
  /\ \E t \in DOMAIN toolRow :
       /\ toolRow[t].state = "awaiting"
       /\ \E k \in {"completed", "failed"} : Begin(r, <<Note("other"), MoveTo("active"), Emit(k, t), Note("observed")>>, TRUE)
  /\ UNCHANGED <<agentRow, agentLog, toolRow, agentCheck, bus, stream, fleetLog, restarts>>

pause_run(r) ==
  /\ Idle(r) /\ driver[r].state = "active"
  /\ Begin(r, <<MoveTo("paused"), Note("other"), SaveCheckpoint>>, FALSE)
  /\ UNCHANGED <<agentRow, agentLog, toolRow, agentCheck, bus, stream, fleetLog, restarts>>

resume_run(r) ==
  /\ Idle(r) /\ driver[r].state = "paused"
  /\ Begin(r, <<MoveTo("active"), Note("other")>>, TRUE)
  /\ UNCHANGED <<agentRow, agentLog, toolRow, agentCheck, bus, stream, fleetLog, restarts>>

\* cancel() of a run whose controller is free.
cancel_idle(r) ==
  /\ Idle(r) /\ driver[r].state # "ended" /\ ~(driver[r].loop /\ driver[r].state = "active")
  /\ Begin(r, <<MoveTo("ended"), Note("other"), Leave>>, FALSE)
  /\ UNCHANGED <<agentRow, agentLog, toolRow, agentCheck, bus, stream, fleetLog, restarts>>

\* The targets of a run are those of its checkpoint or, without one, those recorded in its row.
history_targets(r) == agentRow[r].bound \/ r \in DOMAIN agentCheck

extract_goal(r) == {i \in DOMAIN agentLog[r] : agentLog[r][i].kind = "user"}

\* AgentRun::from_persisted(): a controller's copy of the row.
load_run(r) == [NoDriver EXCEPT !.on = TRUE, !.state = agentRow[r].state, !.next = agentRow[r].next]

\* agent_v2_bind_resumable_run() and the rehydrate() of the next request: only a run whose target is
\* known can be bound, and only one whose goal is in the log rehydrated.
rehydrate(r) ==
  /\ r \in DOMAIN agentRow /\ ~driver[r].on
  /\ agentRow[r].state \in {"waiting", "paused"}
  /\ history_targets(r) /\ extract_goal(r) # {}
  /\ driver' = [driver EXCEPT ![r] = load_run(r)]
  /\ UNCHANGED <<agentRow, agentLog, toolRow, agentCheck, bus, stream, fleetLog, restarts>>

\* cancel() of a run that has no entry: its row ends, and no event says so.
cancel_stored(r) ==
  /\ r \in DOMAIN agentRow /\ ~driver[r].on /\ agentRow[r].state # "ended"
  /\ agentRow' = [agentRow EXCEPT ![r].state = "ended"]
  /\ UNCHANGED <<agentLog, toolRow, agentCheck, driver, bus, stream, fleetLog, restarts>>

\* append_fleet_event(): the number must be the one after the last, and the oldest events are deleted.
append_fleet_event ==
  /\ (IF fleetLog = <<>> THEN 0 ELSE Last(fleetLog)) <= MaxFleetEvents
  /\ LET log == Append(fleetLog, IF fleetLog = <<>> THEN 1 ELSE Last(fleetLog) + 1)
     IN fleetLog' = SelectSeq(log, LAMBDA n : n + MaxFleetEvents > Last(log))
  /\ UNCHANGED <<agentRow, agentLog, toolRow, agentCheck, driver, bus, stream, restarts>>

\* The process dies, starts again, and recover_on_startup() runs.
restart ==
  /\ restarts < MaxRestarts
  /\ agentRow' = [r \in DOMAIN agentRow |-> [agentRow[r] EXCEPT !.state = RecoveredState(@)]]
  /\ agentCheck' = [r \in DOMAIN agentCheck |->
                      IF agentRow[r].state = "active" THEN [agentCheck[r] EXCEPT !.state = "paused"] ELSE agentCheck[r]]
  /\ driver' = [r \in AgentRuns |-> NoDriver]
  /\ bus' = <<>> /\ stream' = <<>>
  /\ restarts' = restarts + 1
  /\ UNCHANGED <<agentLog, toolRow, fleetLog>>

------------------------------------------------------------------------------
(* agent_v2_run_subscribe(): the events after the last one the panel has, then the ones broadcast *)

\* The log is ordered by seq: the events after a number are those behind the ones up to it.
events_after(r, after) ==
  LET old == Cardinality({i \in DOMAIN agentLog[r] : agentLog[r][i].seq <= after})
  IN [i \in 1..(Len(agentLog[r]) - old) |-> agentLog[r][old + i].seq]

\* What a panel was sent: the replayed part ends at seam; joined is the length its run's log has when
\* the panel joins the channel.
replay_events(s) ==
  /\ s \notin DOMAIN stream
  /\ \E r \in DOMAIN agentRow, after \in 0..MaxLog :
       /\ after <= LastSeq(r)
       /\ LET sent == events_after(r, after)
              new == [run |-> r, after |-> after, got |-> sent, seam |-> Len(sent), at |-> 0, joined |-> 0,
                      live |-> "replayed"]
          IN stream' = [x \in DOMAIN stream \cup {s} |-> IF x = s THEN new ELSE stream[x]]
  /\ UNCHANGED <<agentRow, agentLog, toolRow, agentCheck, driver, bus, fleetLog, restarts>>

subscribe_bus(s) ==
  /\ s \in DOMAIN stream /\ stream[s].live = "replayed"
  /\ stream' = [stream EXCEPT ![s].live = "live", ![s].at = Len(bus), ![s].joined = Len(agentLog[stream[s].run])]
  /\ UNCHANGED <<agentRow, agentLog, toolRow, agentCheck, driver, bus, fleetLog, restarts>>

\* A receiver that fell behind goes on with the oldest event the channel still has.
receive_skipping(s) ==
  /\ s \in DOMAIN stream /\ stream[s].live = "live" /\ stream[s].at < Len(bus)
  /\ LET at == IF Len(bus) - stream[s].at > BusCapacity THEN Len(bus) - BusCapacity ELSE stream[s].at
         e == bus[at + 1]
     IN stream' = [stream EXCEPT ![s].at = at + 1, ![s].got = IF e.run = stream[s].run THEN Append(@, e.seq) ELSE @]
  /\ UNCHANGED <<agentRow, agentLog, toolRow, agentCheck, driver, bus, fleetLog, restarts>>

\* recv(): a receiver that fell behind by more than the capacity gets an error, and the stream ends.
receive(s) ==
  /\ s \in DOMAIN stream /\ stream[s].live = "live" /\ stream[s].at < Len(bus)
  /\ LET e == bus[stream[s].at + 1] IN
     stream' = IF Len(bus) - stream[s].at > BusCapacity
               THEN [stream EXCEPT ![s].live = "ended"]
               ELSE [stream EXCEPT ![s].at = @ + 1, ![s].got = IF e.run = stream[s].run THEN Append(@, e.seq) ELSE @]
  /\ UNCHANGED <<agentRow, agentLog, toolRow, agentCheck, driver, bus, fleetLog, restarts>>

\* The panel closed its channel.
close_stream(s) ==
  /\ s \in DOMAIN stream
  /\ stream' = [x \in DOMAIN stream \ {s} |-> stream[x]]
  /\ UNCHANGED <<agentRow, agentLog, toolRow, agentCheck, driver, bus, fleetLog, restarts>>

------------------------------------------------------------------------------
AgentStoreInit ==
  /\ agentRow = <<>> /\ agentLog = [r \in AgentRuns |-> <<>>]
  /\ toolRow = <<>> /\ agentCheck = <<>>
  /\ driver = [r \in AgentRuns |-> NoDriver]
  /\ bus = <<>> /\ stream = <<>> /\ fleetLog = <<>> /\ restarts = 0

RunWrites(r) ==
  \/ transition(r) \/ append(r) \/ broadcast(r) \/ save_cursor(r)
  \/ save_checkpoint(r) \/ record_history_target(r) \/ finish_turn(r)

RunRequests(r) ==
  \/ start_run(r) \/ drive_loop(r) \/ approve_call(r) \/ pause_run(r) \/ resume_run(r)
  \/ cancel_idle(r) \/ rehydrate(r) \/ cancel_stored(r)

StreamSteps(s) == replay_events(s) \/ subscribe_bus(s) \/ receive(s) \/ close_stream(s)

AgentStoreNext ==
  \/ \E r \in AgentRuns : RunWrites(r) \/ RunRequests(r)
  \/ \E s \in Streams : StreamSteps(s)
  \/ append_fleet_event \/ restart

AgentStoreSpec == AgentStoreInit /\ [][AgentStoreNext]_storeVars

------------------------------------------------------------------------------
AgentStoreTypeOK ==
  /\ \A r \in DOMAIN agentRow : agentRow[r].state \in RowStates /\ agentRow[r].next \in Nat
  /\ \A r \in AgentRuns : \A i \in DOMAIN agentLog[r] : agentLog[r][i].kind \in EventKinds

\* The place of event n in the log of run r.
Place(r, n) == CHOOSE i \in DOMAIN agentLog[r] : agentLog[r][i].seq = n

\* What a panel is sent follows the log: the replay and the live part are each a stretch of it
\* without a hole or a repetition, and nothing is shown that is not stored. Where they meet, the live
\* part begins no earlier than the replay ended and no later than the first event stored after the
\* panel joined: agent_v2_run_subscribe (commands/agent_v2.rs) reads the log first and joins the
\* channel afterwards, so what is stored and sent in between is not shown, and the last event of the
\* replay may come twice; but nothing stored since the panel joined is lost. A subscriber that cannot
\* keep up is cut off rather than skipped ahead (agent/broadcast.rs).
StreamFollowsLog ==
  \A s \in DOMAIN stream :
    LET g == stream[s].got
        r == stream[s].run
        m == stream[s].seam
    IN /\ \A i \in DOMAIN g : \E j \in DOMAIN agentLog[r] : agentLog[r][j].seq = g[i]
       /\ \A i \in 1..(Len(g) - 1) :
            IF i = m THEN Place(r, g[i + 1]) >= Place(r, g[i]) ELSE Place(r, g[i + 1]) = Place(r, g[i]) + 1
       /\ Len(g) > m => Place(r, g[m + 1]) <= stream[s].joined + 1

\* The cursor a run would go on from is past its log, as the comment in emit() has it: "Persist the
\* sequence cursor together with every emission." (agent/controller.rs)
CursorCoversLog ==
  \A r \in DOMAIN agentRow : ~driver[r].on => agentRow[r].next > LastSeq(r)
==============================================================================
