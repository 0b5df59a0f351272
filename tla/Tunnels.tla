------------------------------ MODULE Tunnels ------------------------------
(***************************************************************************)
(* SSH local tunnels: saved rules, starts that authenticate in the         *)
(* background, the tasks that listen and forward, and probes               *)
(* (src-tauri/src/tunnels/service.rs, background.rs, runtime.rs).          *)
(*                                                                         *)
(* One async mutex guards the service's tables.  A start takes it twice:   *)
(* first to reserve the rule with a fresh attempt token, then, after       *)
(* authenticating without the lock, to listen, unless stop() took the      *)
(* token away or another start replaced it.  stop(), save() and delete()   *)
(* hold the lock while they wait for the rule's task to end.  Tasks and    *)
(* starts own SSH connections (Arc); the pool that shares them does not    *)
(* (Weak).                                                                 *)
(*                                                                         *)
(* A call that is refused changes nothing and is not an action.  Left out: *)
(* names and hosts, byte counters, the event list, stop_session (it        *)
(* matches terminal session ids, which no background connection has), and  *)
(* the rules file, which save and delete write before the table changes.   *)
(***************************************************************************)
EXTENDS Integers, FiniteSets

CONSTANTS
  Rules,          \* identities a rule may get; never used again once deleted
  Contents,       \* what a rule may say
  ProfileOf,      \* content -> the profile it connects through
  PortOf,         \* content -> its local port
  Identities,     \* ConnectionIdentity: a profile at one state of its settings
  IdProfile,      \* identity -> profile_id
  Callers,        \* IPC calls that may be in flight at the same time
  Tasks,          \* identities of LiveTunnels and their serve() tasks
  Conns,          \* identities of BackgroundConnections
  MaxRules,       \* 100 in the code
  MaxListeners,   \* 16 in the code
  MaxStreams,     \* 64 in the code
  MaxProbes,      \* permits of the probe semaphore, 4 in the code
  None

Profiles == {IdProfile[i] : i \in Identities}

ASSUME TunnelAssumption ==
  /\ ProfileOf \in [Contents -> Profiles]
  /\ IsFiniteSet(Rules) /\ IsFiniteSet(Callers)
  /\ MaxRules \in Nat /\ MaxListeners \in Nat
  /\ MaxStreams \in Nat /\ MaxProbes \in Nat
  /\ None \notin Rules \cup Contents \cup Identities \cup Callers \cup Tasks \cup Conns
  /\ {"new", "deleted"} \cap Contents = {}

VARIABLES
  rules,     \* rule -> its content, "new" before save, "deleted" after delete
  pending,   \* rule -> the start that reserved it
  live,      \* rule -> its LiveTunnel, running or ended
  failures,  \* rules whose last start failed
  lock,      \* who holds the mutex of the tables
  pool,      \* profile -> the connection last opened for it
  poolLock,  \* who holds the mutex of the pool
  conn,      \* connection -> the identity it authenticated, and its transport
  task,      \* serve() tasks with the status their LiveTunnel shares
  call,      \* calls in flight
  halted,    \* rules whose stop() returned, with no start since
  cancelled  \* starts whose reservation a stop() took away

tables  == <<rules, pending, live, failures, lock>>
history == <<halted, cancelled>>
vars    == <<tables, pool, poolLock, conn, task, call, history>>

-----------------------------------------------------------------------------
NoTask == [at |-> "none", rule |-> None, content |-> None, asked |-> None,
           conn |-> None, stop |-> FALSE, ends |-> "Stopped",
           status |-> "Stopped", health |-> "Unchecked",
           streams |-> 0]
NoCall == [at |-> "idle", op |-> "none", rule |-> None, content |-> None,
           asked |-> None, conn |-> None, task |-> None, opened |-> "none"]
NoConn == [identity |-> None, open |-> FALSE]
NoPool == [identity |-> None, conn |-> None]

Init ==
  /\ rules = [r \in Rules |-> "new"]
  /\ pending = [r \in Rules |-> None]
  /\ live = [r \in Rules |-> None]
  /\ failures = {}
  /\ lock = None
  /\ pool = [p \in Profiles |-> NoPool]
  /\ poolLock = None
  /\ conn = [k \in Conns |-> NoConn]
  /\ task = [t \in Tasks |-> NoTask]
  /\ call = [c \in Callers |-> NoCall]
  /\ halted = {}
  /\ cancelled = {}

Saved == {r \in Rules : rules[r] \in Contents}
Pending == {r \in Rules : pending[r] # None}
Running == {r \in Rules : live[r] # None /\ task[live[r]].status = "Running"}

\* ensure_stopped
Stopped(r) == r \notin Pending \cup Running

\* Whoever holds a strong reference to a connection.
Owned(k) == \/ \E c \in Callers : call[c].conn = k
            \/ \E t \in Tasks : task[t].conn = k
Closed(k) == ~Owned(k) \/ ~conn[k].open

\* A listener holds its port until the serve loop breaks.
PortTaken(n) ==
  \E t \in Tasks : task[t].at = "loop" /\ PortOf[task[t].content] = n

\* A fresh LiveTunnel: a probe may keep the status of a dropped one alive.
Free(t) == task[t].at = "none" /\ \A c \in Callers : call[c].task # t

-----------------------------------------------------------------------------
(* Shutdown: the stop flag is raised and the task awaited, under the lock. *)

Shutdown(c, t, next) ==
  /\ lock' = c
  /\ call' = [call EXCEPT ![c] = [next EXCEPT !.at = "closing", !.task = t]]

Signalled(t) ==
  IF t = None THEN task ELSE [task EXCEPT ![t].stop = TRUE]

Ended(t) == t # None => task[t].at = "gone"

\* The LiveTunnel that was taken out of the table is dropped.
Dropped(t) == IF t = None THEN task ELSE [task EXCEPT ![t] = NoTask]

-----------------------------------------------------------------------------
(* start_background                                                        *)

MayListen == Cardinality(Pending) + Cardinality(Running) < MaxListeners

\* First stretch under the lock: the rule is reserved for this attempt.
Reserve(c, r, i) ==
  /\ call[c].at = "idle" /\ lock = None
  /\ r \in Saved /\ ProfileOf[rules[r]] = IdProfile[i]
  /\ Stopped(r) /\ MayListen
  /\ pending' = [pending EXCEPT ![r] = c]
  /\ call' = [call EXCEPT ![c] = [NoCall EXCEPT
                !.at = "connect", !.op = "start", !.rule = r,
                !.content = rules[r], !.asked = i]]
  /\ halted' = halted \ {r}
  /\ cancelled' = cancelled \ {c}
  /\ UNCHANGED <<rules, live, failures, lock, pool, poolLock, conn, task>>

\* Mutant: the pool is keyed by profile alone.
ReusableByProfile(i) ==
  LET e == pool[IdProfile[i]]
  IN  e.conn # None /\ ~Closed(e.conn)

Reusable(i) ==
  LET e == pool[IdProfile[i]]
  IN  e.identity = i /\ e.conn # None /\ ~Closed(e.conn)

Opened(c, k, outcome) ==
  call' = [call EXCEPT ![c].at = "opened", ![c].conn = k, ![c].opened = outcome]

\* acquire(): a connection with this identity is alive and is shared ...
Reuse(c) ==
  /\ call[c].at = "connect" /\ poolLock = None
  /\ Reusable(call[c].asked)
  /\ Opened(c, pool[IdProfile[call[c].asked]].conn, "ok")
  /\ UNCHANGED <<tables, pool, poolLock, conn, task, history>>

\* ... or a new one is authenticated, with the pool locked.
Authenticate(c) ==
  /\ call[c].at = "connect" /\ poolLock = None
  /\ ~Reusable(call[c].asked)
  /\ poolLock' = c
  /\ call' = [call EXCEPT ![c].at = "authenticate"]
  /\ UNCHANGED <<tables, pool, conn, task, history>>

Authenticated(c, k) ==
  /\ call[c].at = "authenticate"
  /\ ~Owned(k)
  /\ conn' = [conn EXCEPT ![k] = [identity |-> call[c].asked, open |-> TRUE]]
  /\ pool' = [p \in Profiles |->
                IF p = IdProfile[call[c].asked]
                  THEN [identity |-> call[c].asked, conn |-> k]
                  ELSE IF pool[p].conn = k THEN NoPool ELSE pool[p]]
  /\ poolLock' = None
  /\ Opened(c, k, "ok")
  /\ UNCHANGED <<tables, task, history>>

\* connect() fails: "required" is TunnelConnectionRequired, the answer of
\* tunnel_start, which may only reuse a connection.
Refused(c, outcome) ==
  /\ call[c].at = "authenticate"
  /\ poolLock' = None
  /\ Opened(c, None, outcome)
  /\ UNCHANGED <<tables, pool, conn, task, history>>

\* The select drops the acquisition, and with it the pool's lock: 30 seconds
\* passed, or stop() dropped the sender of this attempt.
GiveUp(c, outcome) ==
  /\ call[c].at \in {"connect", "authenticate"}
  /\ outcome = "stopped" => pending[call[c].rule] # c
  /\ poolLock' = IF poolLock = c THEN None ELSE poolLock
  /\ Opened(c, None, outcome)
  /\ UNCHANGED <<tables, pool, conn, task, history>>

\* The attempt still has the reservation.
Current(c) == pending[call[c].rule] = c

\* Second stretch: an obsolete start returns and drops its connection.
Obsolete(c) ==
  /\ call[c].at = "opened" /\ lock = None
  /\ ~Current(c)
  /\ call' = [call EXCEPT ![c] = NoCall]
  /\ UNCHANGED <<tables, pool, poolLock, conn, task, history>>

\* The port is bound, the transport checked; what is left of the rule's
\* previous run is taken out of the table and awaited.
Bind(c) ==
  LET r == call[c].rule
      t == live[r]
  IN
  /\ call[c].at = "opened" /\ lock = None
  /\ Current(c) /\ call[c].opened = "ok"
  /\ ~PortTaken(PortOf[call[c].content])
  /\ ~Closed(call[c].conn)
  /\ pending' = [pending EXCEPT ![r] = None]
  /\ live' = [live EXCEPT ![r] = None]
  /\ Shutdown(c, t, call[c])
  /\ task' = Signalled(t)
  /\ UNCHANGED <<rules, failures, pool, poolLock, conn, history>>

\* Authentication, bind() or the transport failed.
StartFailed(c) ==
  LET r == call[c].rule
      t == live[r]
  IN
  /\ call[c].at = "opened" /\ lock = None
  /\ Current(c) /\ call[c].opened \notin {"required", "stopped"}
  /\ pending' = [pending EXCEPT ![r] = None]
  /\ live' = [live EXCEPT ![r] = None]
  /\ Shutdown(c, t, [call[c] EXCEPT !.conn = None, !.opened = "failed"])
  /\ task' = Signalled(t)
  /\ UNCHANGED <<rules, failures, pool, poolLock, conn, history>>

\* Nothing was there to reuse: the caller has to ask for credentials.
StartRefused(c) ==
  /\ call[c].at = "opened" /\ lock = None
  /\ Current(c) /\ call[c].opened \in {"required", "stopped"}
  /\ pending' = [pending EXCEPT ![call[c].rule] = None]
  /\ call' = [call EXCEPT ![c] = NoCall]
  /\ UNCHANGED <<rules, live, failures, lock, pool, poolLock, conn, task, history>>

\* The previous task is gone: the failure is on record ...
RecordFailure(c) ==
  /\ call[c].at = "closing" /\ call[c].op = "start" /\ call[c].opened = "failed"
  /\ Ended(call[c].task)
  /\ task' = Dropped(call[c].task)
  /\ failures' = failures \cup {call[c].rule}
  /\ lock' = None
  /\ call' = [call EXCEPT ![c] = NoCall]
  /\ UNCHANGED <<rules, pending, live, pool, poolLock, conn, history>>

\* ... or the new one is spawned with the connection and the listener.
Listen(c, t) ==
  LET r == call[c].rule IN
  /\ call[c].at = "closing" /\ call[c].op = "start" /\ call[c].opened = "ok"
  /\ Ended(call[c].task) /\ Free(t)
  /\ task' = [Dropped(call[c].task) EXCEPT ![t] = [
                at |-> "loop", rule |-> r, content |-> call[c].content,
                asked |-> call[c].asked, conn |-> call[c].conn,
                stop |-> FALSE, ends |-> "Stopped",
                status |-> "Running", health |-> "Unchecked", streams |-> 0]]
  /\ live' = [live EXCEPT ![r] = t]
  /\ failures' = failures \ {r}
  /\ lock' = None
  /\ call' = [call EXCEPT ![c] = NoCall]
  /\ UNCHANGED <<rules, pending, pool, poolLock, conn, history>>

-----------------------------------------------------------------------------
(* save, delete, stop                                                      *)

\* Mutant: a start that authenticates does not protect its rule.
MayEditRunning(r) == r \notin Running

MayEdit(r) == Stopped(r)

\* save() writes a new rule or another content; delete() drops it.  Both
\* take the ended tunnel of the rule out of the table.
Edit(c, o, r, content) ==
  /\ call[c].at = "idle" /\ lock = None
  /\ MayEdit(r)
  /\ rules' = [rules EXCEPT ![r] = content]
  /\ live' = [live EXCEPT ![r] = None]
  /\ Shutdown(c, live[r], [NoCall EXCEPT !.op = o, !.rule = r])
  /\ task' = Signalled(live[r])
  /\ UNCHANGED <<pending, failures, pool, poolLock, conn, history>>

Save(c, r, content) ==
  /\ r \in Saved \/ (rules[r] = "new" /\ Cardinality(Saved) < MaxRules)
  /\ Edit(c, "save", r, content)

Delete(c, r) == r \in Saved /\ Edit(c, "delete", r, "deleted")

\* stop(): the reservation goes, which wakes its start; the entry stays.
Stop(c, r) ==
  /\ call[c].at = "idle" /\ lock = None
  /\ r \in Saved
  /\ pending' = [pending EXCEPT ![r] = None]
  /\ Shutdown(c, live[r], [NoCall EXCEPT !.op = "stop", !.rule = r])
  /\ task' = Signalled(live[r])
  /\ cancelled' = cancelled \cup ({pending[r]} \ {None})
  /\ UNCHANGED <<rules, live, failures, pool, poolLock, conn, halted>>

\* Mutant: stop() only signals, as Drop does.
ClosedDownEarly(c) ==
  /\ call[c].at = "closing" /\ call[c].op # "start"
  /\ failures' = failures \ {call[c].rule}
  /\ halted' = IF call[c].op = "stop" THEN halted \cup {call[c].rule} ELSE halted
  /\ lock' = None
  /\ call' = [call EXCEPT ![c] = NoCall]
  /\ UNCHANGED <<rules, pending, live, pool, poolLock, conn, task, cancelled>>

\* The task was awaited: the call returns.
ClosedDown(c) ==
  /\ call[c].at = "closing" /\ call[c].op # "start"
  /\ Ended(call[c].task)
  /\ task' = IF call[c].op = "stop" THEN task ELSE Dropped(call[c].task)
  /\ failures' = failures \ {call[c].rule}
  /\ halted' = IF call[c].op = "stop" THEN halted \cup {call[c].rule} ELSE halted
  /\ lock' = None
  /\ call' = [call EXCEPT ![c] = NoCall]
  /\ UNCHANGED <<rules, pending, live, pool, poolLock, conn, cancelled>>

-----------------------------------------------------------------------------
(* check                                                                   *)

Probing == {c \in Callers : call[c].at = "probe"}

\* The tunnel is Running: its status and its stop channel are cloned, and
\* the lock is released before the channel is opened.
Check(c, r) ==
  /\ call[c].at = "idle" /\ lock = None
  /\ Cardinality(Probing) < MaxProbes
  /\ r \in Saved \cap Running
  /\ call' = [call EXCEPT ![c] = [NoCall EXCEPT
                !.at = "probe", !.op = "check", !.rule = r, !.task = live[r]]]
  /\ UNCHANGED <<tables, pool, poolLock, conn, task, history>>

StillRunning(t) == task[t].status = "Running" /\ ~task[t].stop

\* The channel opened or did not, and the status is locked: the answer counts
\* only while the tunnel runs.
Probed(c, ok) ==
  LET t == call[c].task IN
  /\ call[c].at = "probe"
  /\ task' = IF StillRunning(t)
               THEN [task EXCEPT ![t].health =
                       IF ok THEN "Reachable" ELSE "Unreachable"]
               ELSE task
  /\ call' = [call EXCEPT ![c] = NoCall]
  /\ UNCHANGED <<tables, pool, poolLock, conn, history>>

-----------------------------------------------------------------------------
(* serve                                                                   *)

\* A local client connects; at the limit it is turned away.
Accept(t) ==
  /\ task[t].at = "loop" /\ ~task[t].stop
  /\ task[t].streams < MaxStreams
  /\ task' = [task EXCEPT ![t].streams = @ + 1]
  /\ UNCHANGED <<tables, pool, poolLock, conn, call, history>>

StreamEnds(t) ==
  /\ task[t].at \in {"loop", "drain"} /\ task[t].streams > 0
  /\ task' = [task EXCEPT ![t].streams = @ - 1]
  /\ UNCHANGED <<tables, pool, poolLock, conn, call, history>>

\* Mutant: the transport is looked at only when it is used.
BreakWhenUsed(t, status) ==
  /\ task[t].at = "loop"
  /\ task[t].stop <=> status = "Stopped"
  /\ status = "Interrupted" => Closed(task[t].conn) /\ task[t].streams > 0
  /\ task' = [task EXCEPT ![t].at = "drain", ![t].ends = status]
  /\ UNCHANGED <<tables, pool, poolLock, conn, call, history>>

\* The loop breaks and drops the listener.  The select is biased: a raised
\* stop flag wins over a lost transport (tick) and a failed accept().
Break(t, status) ==
  /\ task[t].at = "loop"
  /\ task[t].stop <=> status = "Stopped"
  /\ status = "Interrupted" => Closed(task[t].conn)
  /\ task' = [task EXCEPT ![t].at = "drain", ![t].ends = status]
  /\ UNCHANGED <<tables, pool, poolLock, conn, call, history>>

\* Mutant: the status is settled while aborted streams still run.
SettleEarly(t) ==
  /\ task[t].at = "drain"
  /\ task' = [task EXCEPT ![t].at = "ended", ![t].status = task[t].ends,
                          ![t].health = "Unchecked"]
  /\ UNCHANGED <<tables, pool, poolLock, conn, call, history>>

\* Mutant: the task notes in the tables how it ended.
SettleInTables(t) ==
  /\ task[t].at = "drain" /\ task[t].streams = 0 /\ lock = None
  /\ task' = [task EXCEPT ![t].at = "ended", ![t].status = task[t].ends,
                          ![t].health = "Unchecked"]
  /\ UNCHANGED <<tables, pool, poolLock, conn, call, history>>

\* All streams were aborted and joined: the status says how it ended.
Settle(t) ==
  /\ task[t].at = "drain" /\ task[t].streams = 0
  /\ task' = [task EXCEPT ![t].at = "ended", ![t].status = task[t].ends,
                          ![t].health = "Unchecked"]
  /\ UNCHANGED <<tables, pool, poolLock, conn, call, history>>

\* The task drops its share of the connection and ends.
Release(t) ==
  /\ task[t].at = "ended"
  /\ task' = [task EXCEPT ![t].at = "gone", ![t].conn = None, ![t].asked = None,
                          ![t].content = None]
  /\ UNCHANGED <<tables, pool, poolLock, conn, call, history>>

\* The network or the server closes a transport.
LoseTransport(k) ==
  /\ Owned(k) /\ conn[k].open
  /\ conn' = [conn EXCEPT ![k].open = FALSE]
  /\ UNCHANGED <<tables, pool, poolLock, task, call, history>>

-----------------------------------------------------------------------------
\* What the user asks for.
Arrive(c) ==
  \E r \in Rules :
    \/ \E i \in Identities : Reserve(c, r, i)
    \/ \E content \in Contents : Save(c, r, content)
    \/ Delete(c, r) \/ Stop(c, r) \/ Check(c, r)

\* The stretch of a start without the lock: bounded by its deadline.
Connect(c) ==
  \/ Reuse(c) \/ Authenticate(c)
  \/ \E k \in Conns : Authenticated(c, k)
  \/ \E o \in {"failed", "required"} : Refused(c, o)
  \/ \E o \in {"failed", "stopped"} : GiveUp(c, o)

\* The lock is taken again.
Finish(c) == Obsolete(c) \/ Bind(c) \/ StartFailed(c) \/ StartRefused(c)

Return(c) ==
  \/ RecordFailure(c) \/ ClosedDown(c)
  \/ \E t \in Tasks : Listen(c, t)
  \/ \E ok \in BOOLEAN : Probed(c, ok)

Noticed(t) ==
  \/ \E status \in {"Stopped", "Interrupted"} : Break(t, status)
  \/ Settle(t) \/ Release(t)

Serve(t) == Accept(t) \/ StreamEnds(t) \/ Break(t, "Error") \/ Noticed(t)

Next ==
  \/ \E c \in Callers : Arrive(c) \/ Connect(c) \/ Finish(c) \/ Return(c)
  \/ \E t \in Tasks : Serve(t)
  \/ \E k \in Conns : LoseTransport(k)

\* Starts have a deadline, tasks are polled (a tick every 200 ms looks at the
\* transport), aborted streams end, and the tables' mutex is fair.
Fairness ==
  /\ \A c \in Callers : WF_vars(Connect(c)) /\ SF_vars(Finish(c))
                         /\ WF_vars(Return(c))
  /\ \A t \in Tasks : /\ WF_vars(Noticed(t))
                       /\ WF_vars(StreamEnds(t) /\ task[t].at = "drain")

Spec == Init /\ [][Next]_vars /\ Fairness

-----------------------------------------------------------------------------
(* Properties.                                                             *)

TaskType ==
  [at : {"none", "loop", "drain", "ended", "gone"},
   rule : Rules \cup {None},
   content : Contents \cup {None},
   asked : Identities \cup {None},
   conn : Conns \cup {None},
   stop : BOOLEAN,
   ends : {"Stopped", "Interrupted", "Error"},
   status : {"Running", "Stopped", "Interrupted", "Error"},
   health : {"Unchecked", "Reachable", "Unreachable"},
   streams : 0 .. MaxStreams]

CallType ==
  [at : {"idle", "connect", "authenticate", "opened", "closing", "probe"},
   op : {"none", "start", "save", "delete", "stop", "check"},
   rule : Rules \cup {None},
   content : Contents \cup {None},
   asked : Identities \cup {None},
   conn : Conns \cup {None},
   task : Tasks \cup {None},
   opened : {"none", "ok", "failed", "required", "stopped"}]

TablesOK ==
  /\ rules \in [Rules -> Contents \cup {"new", "deleted"}]
  /\ pending \in [Rules -> Callers \cup {None}]
  /\ live \in [Rules -> Tasks \cup {None}]
  /\ failures \subseteq Rules
  /\ lock \in Callers \cup {None}
  /\ halted \subseteq Rules
  /\ cancelled \subseteq Callers

PoolOK ==
  /\ poolLock \in Callers \cup {None}
  /\ pool \in [Profiles -> [identity : Identities \cup {None},
                           conn : Conns \cup {None}]]
  /\ conn \in [Conns -> [identity : Identities \cup {None}, open : BOOLEAN]]

TasksOK == task \in [Tasks -> TaskType]
CallsOK == call \in [Callers -> CallType]

\* The tables, the pool, the tasks and the calls hold what their types allow,
\* and no listener has more than its 64 streams (serve).
TypeOK == TablesOK /\ PoolOK /\ TasksOK /\ CallsOK

\* Once stop() returned, and until the rule is started again, it has no
\* listener, no stream and no share of a connection: neither its own task
\* (shutdown awaits it) nor a start that was authenticating (the attempt
\* token) brings it back.
StopIsFinal ==
  \A t \in Tasks : task[t].rule \in halted => task[t].at \in {"none", "gone"}

\* A start that stop() cancelled never listens, also when the same rule was
\* reserved again while it was authenticating: its token is not the one in
\* the table.
CancelledNeverListens ==
  \A c \in cancelled : ~(call[c].at = "closing" /\ call[c].opened = "ok")

\* A listener forwards what its rule says now, and the table knows it: save
\* and delete are refused from the reservation to the end of the task.
ServesSavedRule ==
  \A t \in Tasks : task[t].at = "loop" =>
    live[task[t].rule] = t /\ rules[task[t].rule] = task[t].content

\* Starts in flight and listeners together stay within the limit, although a
\* start checks it long before it listens.
ListenersLimited ==
  Cardinality(Pending)
    + Cardinality({t \in Tasks : task[t].at \in {"loop", "drain"}})
    <= MaxListeners

\* A tunnel runs over a connection that authenticated with the identity its
\* own start was authorized for, never with an older state of the profile.
IdentityMatches ==
  \A t \in Tasks : task[t].conn # None =>
    conn[task[t].conn].identity = task[t].asked

\* list() shows the entry before the failure, so a failed start leaves no
\* entry of an earlier run behind, and a start that listens no failure.
FailureIsShown == \A r \in failures : live[r] = None

\* A health result belongs to a running tunnel: a probe that answers after
\* the tunnel ended does not mark it.
HealthIsCurrent ==
  \A t \in Tasks : task[t].health # "Unchecked" => task[t].status = "Running"

\* A status other than Running means that the listener and all accepted
\* streams are released (the comment in serve).
EndedIsReleased ==
  \A t \in Tasks : task[t].status # "Running" =>
    task[t].at # "loop" /\ task[t].streams = 0

\* Every call returns: starts, although they wait for the pool and for the
\* tables, and stop, save and delete, although they await the tunnel's task
\* with the tables locked (shutdown): nothing the task still has to do needs
\* what its waiter holds.
CallsReturn == \A c \in Callers : call[c].at # "idle" ~> call[c].at = "idle"

\* A lost transport ends its tunnels without anybody asking.
LossIsNoticed ==
  \A t \in Tasks :
    (task[t].at = "loop" /\ Closed(task[t].conn)) ~> task[t].at # "loop"

=============================================================================
