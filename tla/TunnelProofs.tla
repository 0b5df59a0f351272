---------------------------- MODULE TunnelProofs ----------------------------
(* Proofs about Tunnels, for every value of its constants. *)
EXTENDS Tunnels, TLAPS

\* A status says Running from the spawn of the task to the last stream; an
\* ended task has no stream and no health, a gone one no connection.
TaskShape ==
  \A t \in Tasks :
    /\ task[t].at \in {"loop", "drain"} <=> task[t].status = "Running"
    /\ task[t].status # "Running" =>
         task[t].streams = 0 /\ task[t].health = "Unchecked"
    /\ task[t].at # "none" => task[t].rule \in Rules

\* An entry is the LiveTunnel of its own rule.
EntryShape ==
  \A r \in Rules :
    live[r] # None => task[live[r]].rule = r /\ task[live[r]].at # "none"

\* The calls that wait for a task are the one that holds the lock.
LockShape ==
  \A c \in Callers : call[c].at = "closing" <=> lock = c

\* A call that waits for a task, or for a connection, works on a rule.
CallShape ==
  \A c \in Callers :
    /\ call[c].at \in {"connect", "authenticate", "opened", "closing"} =>
         call[c].rule \in Rules
    /\ call[c].at \in {"connect", "authenticate", "opened"} =>
         /\ call[c].op = "start"
         /\ call[c].content \in Contents /\ call[c].asked \in Identities

\* Under the lock: the entry the call took out is not in the table, the one
\* stop() waits for still is, and a start works on the rule as it is saved.
ClosingShape ==
  \A c \in Callers : call[c].at = "closing" =>
    /\ call[c].op \in {"start", "save", "delete", "stop"}
    /\ call[c].task # None => task[call[c].task].rule = call[c].rule
    /\ call[c].op = "stop" => live[call[c].rule] = call[c].task
    /\ call[c].op # "stop" => live[call[c].rule] = None
    /\ call[c].op \in {"start", "stop"} => pending[call[c].rule] = None
    /\ call[c].op = "start" =>
         /\ call[c].content \in Contents
         /\ call[c].content = rules[call[c].rule]
         /\ call[c].rule \notin halted

\* A reservation belongs to a start in flight that nobody cancelled, made for
\* the rule as it is saved; its rule neither runs nor counts as stopped.
Reserved ==
  \A r \in Rules : pending[r] # None =>
    /\ call[pending[r]].at \in {"connect", "authenticate", "opened"}
    /\ call[pending[r]].rule = r
    /\ call[pending[r]].content = rules[r]
    /\ pending[r] \notin cancelled
    /\ r \notin Running
    /\ r \notin halted

\* Every task is in the table or awaited by the call that took it out.
Tracked ==
  \A t \in Tasks :
    /\ task[t].at \in {"loop", "drain"} => live[task[t].rule] = t
    /\ task[t].at = "ended" =>
         live[task[t].rule] = t \/ \E c \in Callers : lock = c /\ call[c].task = t
    /\ task[t].at = "loop" => rules[task[t].rule] = task[t].content

\* A strong reference leads to the identity it was asked for, and so does the
\* pool while anybody holds one.
References ==
  /\ \A c \in Callers : call[c].conn # None =>
       conn[call[c].conn].identity = call[c].asked
  /\ \A p \in Profiles : (pool[p].conn # None /\ Owned(pool[p].conn)) =>
       conn[pool[p].conn].identity = pool[p].identity

Inv ==
  /\ TablesOK /\ PoolOK /\ TasksOK /\ CallsOK
  /\ TaskShape /\ EntryShape /\ LockShape /\ CallShape /\ ClosingShape
  /\ Reserved /\ Tracked /\ References
  /\ IdentityMatches /\ CancelledNeverListens /\ StopIsFinal /\ FailureIsShown

\* References stay right when nobody gets a new one.
LEMMA ReferencesFrame ==
  ASSUME References, UNCHANGED <<pool, conn>>,
         \A c \in Callers : call'[c].conn # None =>
           call'[c].conn = call[c].conn /\ call'[c].asked = call[c].asked,
         \A t \in Tasks : task'[t].conn # None => task'[t].conn = task[t].conn
  PROVE  References'
<1>1. \A k : k # None /\ Owned(k)' => Owned(k)  BY DEF Owned
<1> QED  BY <1>1 DEF References

\* Every update of a task is a task.
LEMMA TaskUpdates ==
  /\ NoTask \in TaskType
  /\ \A x \in TaskType :
       /\ [x EXCEPT !.stop = TRUE] \in TaskType
       /\ \A n \in 0 .. MaxStreams : [x EXCEPT !.streams = n] \in TaskType
       /\ \A h \in {"Reachable", "Unreachable"} :
            [x EXCEPT !.health = h] \in TaskType
       /\ \A s \in {"Stopped", "Interrupted", "Error"} :
            [x EXCEPT !.at = "drain", !.ends = s] \in TaskType
       /\ [x EXCEPT !.at = "ended", !.status = x.ends, !.health = "Unchecked"]
            \in TaskType
       /\ [x EXCEPT !.at = "gone", !.conn = None, !.asked = None,
                    !.content = None] \in TaskType
<1> USE TunnelAssumption DEF TaskType
<1>1. NoTask \in TaskType  BY DEF NoTask
<1>2. SUFFICES ASSUME NEW x \in TaskType
               PROVE
       /\ [x EXCEPT !.stop = TRUE] \in TaskType
       /\ \A n \in 0 .. MaxStreams : [x EXCEPT !.streams = n] \in TaskType
       /\ \A h \in {"Reachable", "Unreachable"} :
            [x EXCEPT !.health = h] \in TaskType
       /\ \A s \in {"Stopped", "Interrupted", "Error"} :
            [x EXCEPT !.at = "drain", !.ends = s] \in TaskType
       /\ [x EXCEPT !.at = "ended", !.status = x.ends, !.health = "Unchecked"]
            \in TaskType
       /\ [x EXCEPT !.at = "gone", !.conn = None, !.asked = None,
                    !.content = None] \in TaskType
  BY <1>1
<1>3. [x EXCEPT !.stop = TRUE] \in TaskType  OBVIOUS
<1>4. ASSUME NEW n \in 0 .. MaxStreams
      PROVE  [x EXCEPT !.streams = n] \in TaskType
  OBVIOUS
<1>5. ASSUME NEW h \in {"Reachable", "Unreachable"}
      PROVE  [x EXCEPT !.health = h] \in TaskType
  OBVIOUS
<1>6. ASSUME NEW s \in {"Stopped", "Interrupted", "Error"}
      PROVE  [x EXCEPT !.at = "drain", !.ends = s] \in TaskType
  OBVIOUS
<1>7. [x EXCEPT !.at = "ended", !.status = x.ends, !.health = "Unchecked"]
        \in TaskType
  BY ZenonT(40)
<1>8. [x EXCEPT !.at = "gone", !.conn = None, !.asked = None, !.content = None]
        \in TaskType
  OBVIOUS
<1> QED  BY <1>3, <1>4, <1>5, <1>6, <1>7, <1>8

\* Every update of a call is a call.
LEMMA CallUpdates ==
  ASSUME NEW x \in CallType
  PROVE  /\ [x EXCEPT !.at = "authenticate"] \in CallType
         /\ [x EXCEPT !.conn = None, !.opened = "failed"] \in CallType
         /\ \A k \in Conns \cup {None},
               o \in {"ok", "failed", "required", "stopped"} :
              [x EXCEPT !.at = "opened", !.conn = k, !.opened = o] \in CallType
         /\ \A t \in Tasks \cup {None} :
              [x EXCEPT !.at = "closing", !.task = t] \in CallType
<1> USE DEF CallType
<1>1. [x EXCEPT !.at = "authenticate"] \in CallType  OBVIOUS
<1>2. [x EXCEPT !.conn = None, !.opened = "failed"] \in CallType  OBVIOUS
<1>3. ASSUME NEW k \in Conns \cup {None},
             NEW o \in {"ok", "failed", "required", "stopped"}
      PROVE  [x EXCEPT !.at = "opened", !.conn = k, !.opened = o] \in CallType
  BY ZenonT(40)
<1>4. ASSUME NEW t \in Tasks \cup {None}
      PROVE  [x EXCEPT !.at = "closing", !.task = t] \in CallType
  OBVIOUS
<1> QED  BY <1>1, <1>2, <1>3, <1>4


\* Every step keeps the types of the tables.
LEMMA TablesOKStep ==
  ASSUME Inv, Next
  PROVE  TablesOK'
<1> USE TunnelAssumption DEF tables, history, TaskType, CallType, NoTask, NoCall
<1>1. ASSUME NEW c \in Callers, NEW r \in Rules, NEW i \in Identities,
             Reserve(c, r, i)
      PROVE  TablesOK'
  BY <1>1 DEF Reserve, Saved, Stopped, MayListen, Running, Pending, Inv,
     TablesOK, CallShape, CallsOK
<1>2. ASSUME NEW c \in Callers, NEW r \in Rules, NEW x \in Contents, Save(c,
             r, x)
      PROVE  TablesOK'
  BY <1>2 DEF Save, Edit, MayEdit, Stopped, Shutdown, Signalled, Saved,
     Running, Pending, Inv, TablesOK, CallShape, CallsOK
<1>3. ASSUME NEW c \in Callers, NEW r \in Rules, Delete(c, r)
      PROVE  TablesOK'
  BY <1>3 DEF Delete, Edit, MayEdit, Stopped, Shutdown, Signalled, Saved,
     Running, Pending, Inv, TablesOK, CallShape, CallsOK
<1>4. ASSUME NEW c \in Callers, NEW r \in Rules, Stop(c, r)
      PROVE  TablesOK'
  BY <1>4 DEF Stop, Shutdown, Signalled, Saved, Inv, TablesOK, CallShape,
     CallsOK
<1>5. ASSUME NEW c \in Callers, NEW r \in Rules, Check(c, r)
      PROVE  TablesOK'
  BY <1>5 DEF Check, Saved, Running, Pending, Inv, TablesOK, CallShape,
     CallsOK
<1>6. ASSUME NEW c \in Callers, Reuse(c)
      PROVE  TablesOK'
  BY <1>6 DEF Reuse, Opened, Inv, TablesOK, CallShape, CallsOK
<1>7. ASSUME NEW c \in Callers, Authenticate(c)
      PROVE  TablesOK'
  BY <1>7 DEF Authenticate, Inv, TablesOK, CallShape, CallsOK
<1>8. ASSUME NEW c \in Callers, NEW k \in Conns, Authenticated(c, k)
      PROVE  TablesOK'
  BY <1>8 DEF Authenticated, Opened, Inv, TablesOK, CallShape, CallsOK
<1>9. ASSUME NEW c \in Callers, NEW o \in {"failed", "required"}, Refused(c,
             o)
      PROVE  TablesOK'
  BY <1>9 DEF Refused, Opened, Inv, TablesOK, CallShape, CallsOK
<1>10. ASSUME NEW c \in Callers, NEW o \in {"failed", "stopped"}, GiveUp(c, o)
      PROVE  TablesOK'
  BY <1>10 DEF GiveUp, Opened, Inv, TablesOK, CallShape, CallsOK
<1>11. ASSUME NEW c \in Callers, Obsolete(c)
      PROVE  TablesOK'
  BY <1>11 DEF Obsolete, Current, Inv, TablesOK, CallShape, CallsOK
<1>12. ASSUME NEW c \in Callers, Bind(c)
      PROVE  TablesOK'
  BY <1>12 DEF Bind, Current, Shutdown, Signalled, Inv, TablesOK, CallShape,
     CallsOK
<1>13. ASSUME NEW c \in Callers, StartFailed(c)
      PROVE  TablesOK'
  BY <1>13 DEF StartFailed, Current, Shutdown, Signalled, Inv, TablesOK,
     CallShape, CallsOK
<1>14. ASSUME NEW c \in Callers, StartRefused(c)
      PROVE  TablesOK'
  BY <1>14 DEF StartRefused, Current, Inv, TablesOK, CallShape, CallsOK
<1>15. ASSUME NEW c \in Callers, RecordFailure(c)
      PROVE  TablesOK'
  BY <1>15 DEF RecordFailure, Ended, Dropped, Inv, TablesOK, CallShape,
     CallsOK
<1>16. ASSUME NEW c \in Callers, ClosedDown(c)
      PROVE  TablesOK'
  BY <1>16 DEF ClosedDown, Ended, Dropped, Inv, TablesOK, CallShape, CallsOK
<1>17. ASSUME NEW c \in Callers, NEW t \in Tasks, Listen(c, t)
      PROVE  TablesOK'
  BY <1>17 DEF Listen, Ended, Dropped, Free, Inv, TablesOK, CallShape, CallsOK
<1>18. ASSUME NEW c \in Callers, NEW ok \in BOOLEAN, Probed(c, ok)
      PROVE  TablesOK'
  BY <1>18 DEF Probed, StillRunning, Inv, TablesOK, CallShape, CallsOK
<1>19. ASSUME NEW t \in Tasks, Accept(t)
      PROVE  TablesOK'
  BY <1>19 DEF Accept, Inv, TablesOK, CallShape, CallsOK
<1>20. ASSUME NEW t \in Tasks, StreamEnds(t)
      PROVE  TablesOK'
  BY <1>20 DEF StreamEnds, Inv, TablesOK, CallShape, CallsOK
<1>21. ASSUME NEW t \in Tasks, NEW s \in {"Stopped", "Interrupted", "Error"},
             Break(t, s)
      PROVE  TablesOK'
  BY <1>21 DEF Break, Inv, TablesOK, CallShape, CallsOK
<1>22. ASSUME NEW t \in Tasks, Settle(t)
      PROVE  TablesOK'
  BY <1>22 DEF Settle, Inv, TablesOK, CallShape, CallsOK
<1>23. ASSUME NEW t \in Tasks, Release(t)
      PROVE  TablesOK'
  BY <1>23 DEF Release, Inv, TablesOK, CallShape, CallsOK
<1>24. ASSUME NEW k \in Conns, LoseTransport(k)
      PROVE  TablesOK'
  BY <1>24 DEF LoseTransport, Inv, TablesOK, CallShape, CallsOK
<1> QED
  BY <1>1, <1>2, <1>3, <1>4, <1>5, <1>6, <1>7, <1>8, <1>9, <1>10, <1>11,
     <1>12, <1>13, <1>14, <1>15, <1>16, <1>17, <1>18, <1>19, <1>20, <1>21,
     <1>22, <1>23, <1>24 DEF Next, Arrive, Connect, Finish, Return, Serve,
     Noticed

\* Every step keeps the types of the pool and the connections.
LEMMA PoolOKStep ==
  ASSUME Inv, Next
  PROVE  PoolOK'
<1> USE TunnelAssumption DEF tables, history, TaskType, CallType, NoTask, NoCall
<1>1. ASSUME NEW c \in Callers, NEW r \in Rules, NEW i \in Identities,
             Reserve(c, r, i)
      PROVE  PoolOK'
  BY <1>1 DEF Reserve, Saved, Stopped, MayListen, Running, Pending, Inv,
     PoolOK, CallsOK, NoPool, Profiles
<1>2. ASSUME NEW c \in Callers, NEW r \in Rules, NEW x \in Contents, Save(c,
             r, x)
      PROVE  PoolOK'
  BY <1>2 DEF Save, Edit, MayEdit, Stopped, Shutdown, Signalled, Saved,
     Running, Pending, Inv, PoolOK, CallsOK, NoPool, Profiles
<1>3. ASSUME NEW c \in Callers, NEW r \in Rules, Delete(c, r)
      PROVE  PoolOK'
  BY <1>3 DEF Delete, Edit, MayEdit, Stopped, Shutdown, Signalled, Saved,
     Running, Pending, Inv, PoolOK, CallsOK, NoPool, Profiles
<1>4. ASSUME NEW c \in Callers, NEW r \in Rules, Stop(c, r)
      PROVE  PoolOK'
  BY <1>4 DEF Stop, Shutdown, Signalled, Saved, Inv, PoolOK, CallsOK, NoPool,
     Profiles
<1>5. ASSUME NEW c \in Callers, NEW r \in Rules, Check(c, r)
      PROVE  PoolOK'
  BY <1>5 DEF Check, Saved, Running, Pending, Inv, PoolOK, CallsOK, NoPool,
     Profiles
<1>6. ASSUME NEW c \in Callers, Reuse(c)
      PROVE  PoolOK'
  BY <1>6 DEF Reuse, Opened, Inv, PoolOK, CallsOK, NoPool, Profiles
<1>7. ASSUME NEW c \in Callers, Authenticate(c)
      PROVE  PoolOK'
  BY <1>7 DEF Authenticate, Inv, PoolOK, CallsOK, NoPool, Profiles
<1>8. ASSUME NEW c \in Callers, NEW k \in Conns, Authenticated(c, k)
      PROVE  PoolOK'
  BY <1>8 DEF Authenticated, Opened, Inv, PoolOK, CallsOK, NoPool, Profiles
<1>9. ASSUME NEW c \in Callers, NEW o \in {"failed", "required"}, Refused(c,
             o)
      PROVE  PoolOK'
  BY <1>9 DEF Refused, Opened, Inv, PoolOK, CallsOK, NoPool, Profiles
<1>10. ASSUME NEW c \in Callers, NEW o \in {"failed", "stopped"}, GiveUp(c, o)
      PROVE  PoolOK'
  BY <1>10 DEF GiveUp, Opened, Inv, PoolOK, CallsOK, NoPool, Profiles
<1>11. ASSUME NEW c \in Callers, Obsolete(c)
      PROVE  PoolOK'
  BY <1>11 DEF Obsolete, Current, Inv, PoolOK, CallsOK, NoPool, Profiles
<1>12. ASSUME NEW c \in Callers, Bind(c)
      PROVE  PoolOK'
  BY <1>12 DEF Bind, Current, Shutdown, Signalled, Inv, PoolOK, CallsOK,
     NoPool, Profiles
<1>13. ASSUME NEW c \in Callers, StartFailed(c)
      PROVE  PoolOK'
  BY <1>13 DEF StartFailed, Current, Shutdown, Signalled, Inv, PoolOK,
     CallsOK, NoPool, Profiles
<1>14. ASSUME NEW c \in Callers, StartRefused(c)
      PROVE  PoolOK'
  BY <1>14 DEF StartRefused, Current, Inv, PoolOK, CallsOK, NoPool, Profiles
<1>15. ASSUME NEW c \in Callers, RecordFailure(c)
      PROVE  PoolOK'
  BY <1>15 DEF RecordFailure, Ended, Dropped, Inv, PoolOK, CallsOK, NoPool,
     Profiles
<1>16. ASSUME NEW c \in Callers, ClosedDown(c)
      PROVE  PoolOK'
  BY <1>16 DEF ClosedDown, Ended, Dropped, Inv, PoolOK, CallsOK, NoPool,
     Profiles
<1>17. ASSUME NEW c \in Callers, NEW t \in Tasks, Listen(c, t)
      PROVE  PoolOK'
  BY <1>17 DEF Listen, Ended, Dropped, Free, Inv, PoolOK, CallsOK, NoPool,
     Profiles
<1>18. ASSUME NEW c \in Callers, NEW ok \in BOOLEAN, Probed(c, ok)
      PROVE  PoolOK'
  BY <1>18 DEF Probed, StillRunning, Inv, PoolOK, CallsOK, NoPool, Profiles
<1>19. ASSUME NEW t \in Tasks, Accept(t)
      PROVE  PoolOK'
  BY <1>19 DEF Accept, Inv, PoolOK, CallsOK, NoPool, Profiles
<1>20. ASSUME NEW t \in Tasks, StreamEnds(t)
      PROVE  PoolOK'
  BY <1>20 DEF StreamEnds, Inv, PoolOK, CallsOK, NoPool, Profiles
<1>21. ASSUME NEW t \in Tasks, NEW s \in {"Stopped", "Interrupted", "Error"},
             Break(t, s)
      PROVE  PoolOK'
  BY <1>21 DEF Break, Inv, PoolOK, CallsOK, NoPool, Profiles
<1>22. ASSUME NEW t \in Tasks, Settle(t)
      PROVE  PoolOK'
  BY <1>22 DEF Settle, Inv, PoolOK, CallsOK, NoPool, Profiles
<1>23. ASSUME NEW t \in Tasks, Release(t)
      PROVE  PoolOK'
  BY <1>23 DEF Release, Inv, PoolOK, CallsOK, NoPool, Profiles
<1>24. ASSUME NEW k \in Conns, LoseTransport(k)
      PROVE  PoolOK'
  BY ZenonT(40), <1>24 DEF LoseTransport, Inv, PoolOK, CallsOK, NoPool, Profiles
<1> QED
  BY <1>1, <1>2, <1>3, <1>4, <1>5, <1>6, <1>7, <1>8, <1>9, <1>10, <1>11,
     <1>12, <1>13, <1>14, <1>15, <1>16, <1>17, <1>18, <1>19, <1>20, <1>21,
     <1>22, <1>23, <1>24 DEF Next, Arrive, Connect, Finish, Return, Serve,
     Noticed

\* Every step keeps the types of the tasks.
LEMMA TasksOKStep ==
  ASSUME Inv, Next
  PROVE  TasksOK'
<1> USE TunnelAssumption DEF tables, history
<1>1. ASSUME NEW c \in Callers, NEW r \in Rules, NEW i \in Identities,
             Reserve(c, r, i)
      PROVE  TasksOK'
  BY <1>1 DEF Reserve, Saved, Stopped, MayListen, Running, Pending, Inv,
     TasksOK, CallShape, CallsOK, TablesOK, TaskType, CallType, NoTask, NoCall
<1>2. ASSUME NEW c \in Callers, NEW r \in Rules, NEW x \in Contents, Save(c,
             r, x)
      PROVE  TasksOK'
  BY <1>2, TaskUpdates DEF Save, Edit, Shutdown, Signalled, Inv, TasksOK,
     TablesOK, CallsOK
<1>3. ASSUME NEW c \in Callers, NEW r \in Rules, Delete(c, r)
      PROVE  TasksOK'
  BY <1>3, TaskUpdates DEF Delete, Edit, Shutdown, Signalled, Inv, TasksOK,
     TablesOK, CallsOK
<1>4. ASSUME NEW c \in Callers, NEW r \in Rules, Stop(c, r)
      PROVE  TasksOK'
  BY <1>4, TaskUpdates DEF Stop, Shutdown, Signalled, Inv, TasksOK, TablesOK,
     CallsOK
<1>5. ASSUME NEW c \in Callers, NEW r \in Rules, Check(c, r)
      PROVE  TasksOK'
  BY <1>5 DEF Check, Saved, Running, Pending, Inv, TasksOK, CallShape,
     CallsOK, TablesOK, TaskType, CallType, NoTask, NoCall
<1>6. ASSUME NEW c \in Callers, Reuse(c)
      PROVE  TasksOK'
  BY <1>6 DEF Reuse, Opened, Inv, TasksOK, CallShape, CallsOK, TablesOK,
     TaskType, CallType, NoTask, NoCall
<1>7. ASSUME NEW c \in Callers, Authenticate(c)
      PROVE  TasksOK'
  BY <1>7 DEF Authenticate, Inv, TasksOK, CallShape, CallsOK, TablesOK,
     TaskType, CallType, NoTask, NoCall
<1>8. ASSUME NEW c \in Callers, NEW k \in Conns, Authenticated(c, k)
      PROVE  TasksOK'
  BY <1>8 DEF Authenticated, Opened, Inv, TasksOK, CallShape, CallsOK,
     TablesOK, TaskType, CallType, NoTask, NoCall
<1>9. ASSUME NEW c \in Callers, NEW o \in {"failed", "required"}, Refused(c,
             o)
      PROVE  TasksOK'
  BY <1>9 DEF Refused, Opened, Inv, TasksOK, CallShape, CallsOK, TablesOK,
     TaskType, CallType, NoTask, NoCall
<1>10. ASSUME NEW c \in Callers, NEW o \in {"failed", "stopped"}, GiveUp(c, o)
      PROVE  TasksOK'
  BY <1>10 DEF GiveUp, Opened, Inv, TasksOK, CallShape, CallsOK, TablesOK,
     TaskType, CallType, NoTask, NoCall
<1>11. ASSUME NEW c \in Callers, Obsolete(c)
      PROVE  TasksOK'
  BY <1>11 DEF Obsolete, Current, Inv, TasksOK, CallShape, CallsOK, TablesOK,
     TaskType, CallType, NoTask, NoCall
<1>12. ASSUME NEW c \in Callers, Bind(c)
      PROVE  TasksOK'
  BY <1>12, TaskUpdates DEF Bind, Shutdown, Signalled, Inv, TasksOK, TablesOK,
     CallsOK
<1>13. ASSUME NEW c \in Callers, StartFailed(c)
      PROVE  TasksOK'
  BY <1>13, TaskUpdates DEF StartFailed, Shutdown, Signalled, Inv, TasksOK,
     TablesOK, CallsOK
<1>14. ASSUME NEW c \in Callers, StartRefused(c)
      PROVE  TasksOK'
  BY <1>14 DEF StartRefused, Current, Inv, TasksOK, CallShape, CallsOK,
     TablesOK, TaskType, CallType, NoTask, NoCall
<1>15. ASSUME NEW c \in Callers, RecordFailure(c)
      PROVE  TasksOK'
  BY <1>15, TaskUpdates DEF RecordFailure, Dropped, Inv, TasksOK, TablesOK,
     CallsOK
<1>16. ASSUME NEW c \in Callers, ClosedDown(c)
      PROVE  TasksOK'
  BY <1>16, TaskUpdates DEF ClosedDown, Dropped, Inv, TasksOK, TablesOK,
     CallsOK
<1>17. ASSUME NEW c \in Callers, NEW t \in Tasks, Listen(c, t)
      PROVE  TasksOK'
  <2> DEFINE x == [at |-> "loop", rule |-> call[c].rule,
                   content |-> call[c].content, asked |-> call[c].asked,
                   conn |-> call[c].conn, stop |-> FALSE, ends |-> "Stopped",
                   status |-> "Running", health |-> "Unchecked",
                   streams |-> 0]
  <2>4. /\ call[c].rule \in Rules \cup {None}
        /\ call[c].content \in Contents \cup {None}
        /\ call[c].asked \in Identities \cup {None}
        /\ call[c].conn \in Conns \cup {None}
    BY DEF Inv, CallsOK, CallType
  <2>6. 0 \in 0 .. MaxStreams  BY TunnelAssumption
  <2>1. x \in TaskType  BY <2>4, <2>6 DEF TaskType
  <2>2. Dropped(call[c].task) \in [Tasks -> TaskType]
    BY TaskUpdates DEF Inv, TasksOK, Dropped
  <2>3. task' = [Dropped(call[c].task) EXCEPT ![t] = x]
    BY <1>17 DEF Listen
  <2> HIDE DEF x
  <2> QED  BY <2>1, <2>2, <2>3 DEF TasksOK
<1>18. ASSUME NEW c \in Callers, NEW ok \in BOOLEAN, Probed(c, ok)
      PROVE  TasksOK'
  BY <1>18, TaskUpdates DEF Probed, Inv, TasksOK, TablesOK, CallsOK
<1>19. ASSUME NEW t \in Tasks, Accept(t)
      PROVE  TasksOK'
  <2>1. task[t] \in TaskType /\ task[t].streams + 1 \in 0 .. MaxStreams
    BY <1>19 DEF Accept, Inv, TasksOK, TaskType
  <2> QED  BY <1>19, <2>1, TaskUpdates DEF Accept, Inv, TasksOK
<1>20. ASSUME NEW t \in Tasks, StreamEnds(t)
      PROVE  TasksOK'
  <2>1. task[t] \in TaskType /\ task[t].streams - 1 \in 0 .. MaxStreams
    BY <1>20 DEF StreamEnds, Inv, TasksOK, TaskType
  <2> QED  BY <1>20, <2>1, TaskUpdates DEF StreamEnds, Inv, TasksOK
<1>21. ASSUME NEW t \in Tasks, NEW s \in {"Stopped", "Interrupted", "Error"},
             Break(t, s)
      PROVE  TasksOK'
  BY <1>21, TaskUpdates DEF Break, Inv, TasksOK, TablesOK, CallsOK
<1>22. ASSUME NEW t \in Tasks, Settle(t)
      PROVE  TasksOK'
  BY <1>22, TaskUpdates DEF Settle, Inv, TasksOK, TablesOK, CallsOK
<1>23. ASSUME NEW t \in Tasks, Release(t)
      PROVE  TasksOK'
  BY <1>23, TaskUpdates DEF Release, Inv, TasksOK, TablesOK, CallsOK
<1>24. ASSUME NEW k \in Conns, LoseTransport(k)
      PROVE  TasksOK'
  BY <1>24 DEF LoseTransport, Inv, TasksOK, CallShape, CallsOK, TablesOK,
     TaskType, CallType, NoTask, NoCall
<1> QED
  BY <1>1, <1>2, <1>3, <1>4, <1>5, <1>6, <1>7, <1>8, <1>9, <1>10, <1>11,
     <1>12, <1>13, <1>14, <1>15, <1>16, <1>17, <1>18, <1>19, <1>20, <1>21,
     <1>22, <1>23, <1>24 DEF Next, Arrive, Connect, Finish, Return, Serve,
     Noticed

\* Every step keeps the types of the calls.
LEMMA CallsOKStep ==
  ASSUME Inv, Next
  PROVE  CallsOK'
<1> USE TunnelAssumption DEF tables, history
<1>1. ASSUME NEW c \in Callers, NEW r \in Rules, NEW i \in Identities,
             Reserve(c, r, i)
      PROVE  CallsOK'
  BY <1>1 DEF Reserve, Saved, Stopped, MayListen, Running, Pending, Inv,
     CallsOK, TablesOK, PoolOK, CallShape, Profiles, TaskType, CallType,
     NoTask, NoCall
<1>2. ASSUME NEW c \in Callers, NEW r \in Rules, NEW x \in Contents, Save(c,
             r, x)
      PROVE  CallsOK'
  BY <1>2 DEF Save, Edit, MayEdit, Stopped, Shutdown, Signalled, Saved,
     Running, Pending, Inv, CallsOK, TablesOK, PoolOK, CallShape, Profiles,
     TaskType, CallType, NoTask, NoCall
<1>3. ASSUME NEW c \in Callers, NEW r \in Rules, Delete(c, r)
      PROVE  CallsOK'
  BY <1>3 DEF Delete, Edit, MayEdit, Stopped, Shutdown, Signalled, Saved,
     Running, Pending, Inv, CallsOK, TablesOK, PoolOK, CallShape, Profiles,
     TaskType, CallType, NoTask, NoCall
<1>4. ASSUME NEW c \in Callers, NEW r \in Rules, Stop(c, r)
      PROVE  CallsOK'
  BY <1>4 DEF Stop, Shutdown, Signalled, Saved, Inv, CallsOK, TablesOK,
     PoolOK, CallShape, Profiles, TaskType, CallType, NoTask, NoCall
<1>5. ASSUME NEW c \in Callers, NEW r \in Rules, Check(c, r)
      PROVE  CallsOK'
  BY <1>5 DEF Check, Saved, Running, Pending, Inv, CallsOK, TablesOK, PoolOK,
     CallShape, Profiles, TaskType, CallType, NoTask, NoCall
<1>6. ASSUME NEW c \in Callers, Reuse(c)
      PROVE  CallsOK'
  <2>1. call[c].asked \in Identities  BY <1>6 DEF Reuse, Inv, CallShape
  <2>2. pool[IdProfile[call[c].asked]].conn \in Conns \cup {None}
    BY <2>1 DEF Inv, PoolOK, Profiles
  <2> QED  BY <1>6, <2>2, CallUpdates DEF Reuse, Opened, Inv, CallsOK
<1>7. ASSUME NEW c \in Callers, Authenticate(c)
      PROVE  CallsOK'
  BY <1>7, CallUpdates DEF Authenticate, Inv, CallsOK, TablesOK, PoolOK
<1>8. ASSUME NEW c \in Callers, NEW k \in Conns, Authenticated(c, k)
      PROVE  CallsOK'
  BY <1>8, CallUpdates DEF Authenticated, Opened, Inv, CallsOK, TablesOK,
     PoolOK
<1>9. ASSUME NEW c \in Callers, NEW o \in {"failed", "required"}, Refused(c,
             o)
      PROVE  CallsOK'
  BY <1>9, CallUpdates DEF Refused, Opened, Inv, CallsOK, TablesOK, PoolOK
<1>10. ASSUME NEW c \in Callers, NEW o \in {"failed", "stopped"}, GiveUp(c, o)
      PROVE  CallsOK'
  BY <1>10, CallUpdates DEF GiveUp, Opened, Inv, CallsOK, TablesOK, PoolOK
<1>11. ASSUME NEW c \in Callers, Obsolete(c)
      PROVE  CallsOK'
  BY <1>11 DEF Obsolete, Current, Inv, CallsOK, TablesOK, PoolOK, CallShape,
     Profiles, TaskType, CallType, NoTask, NoCall
<1>12. ASSUME NEW c \in Callers, Bind(c)
      PROVE  CallsOK'
  <2>1. call[c] \in CallType /\ live[call[c].rule] \in Tasks \cup {None}
    BY <1>12 DEF Bind, Inv, CallsOK, CallShape, TablesOK
  <2> QED  BY <1>12, <2>1, CallUpdates DEF Bind, Shutdown, Inv, CallsOK
<1>13. ASSUME NEW c \in Callers, StartFailed(c)
      PROVE  CallsOK'
  <2> DEFINE x == [call[c] EXCEPT !.conn = None, !.opened = "failed"]
  <2>1. call[c] \in CallType /\ live[call[c].rule] \in Tasks \cup {None}
    BY <1>13 DEF StartFailed, Inv, CallsOK, CallShape, TablesOK
  <2>2. x \in CallType  BY <2>1, CallUpdates
  <2>3. call' = [call EXCEPT ![c] =
                   [x EXCEPT !.at = "closing", !.task = live[call[c].rule]]]
    BY <1>13 DEF StartFailed, Shutdown
  <2> HIDE DEF x
  <2>4. [x EXCEPT !.at = "closing", !.task = live[call[c].rule]] \in CallType
    BY <2>1, <2>2, CallUpdates
  <2> QED  BY <2>3, <2>4 DEF Inv, CallsOK
<1>14. ASSUME NEW c \in Callers, StartRefused(c)
      PROVE  CallsOK'
  BY <1>14 DEF StartRefused, Current, Inv, CallsOK, TablesOK, PoolOK,
     CallShape, Profiles, TaskType, CallType, NoTask, NoCall
<1>15. ASSUME NEW c \in Callers, RecordFailure(c)
      PROVE  CallsOK'
  BY <1>15 DEF RecordFailure, Ended, Dropped, Inv, CallsOK, TablesOK, PoolOK,
     CallShape, Profiles, TaskType, CallType, NoTask, NoCall
<1>16. ASSUME NEW c \in Callers, ClosedDown(c)
      PROVE  CallsOK'
  BY <1>16 DEF ClosedDown, Ended, Dropped, Inv, CallsOK, TablesOK, PoolOK,
     CallShape, Profiles, TaskType, CallType, NoTask, NoCall
<1>17. ASSUME NEW c \in Callers, NEW t \in Tasks, Listen(c, t)
      PROVE  CallsOK'
  BY <1>17 DEF Listen, Ended, Dropped, Free, Inv, CallsOK, TablesOK, PoolOK,
     CallShape, Profiles, TaskType, CallType, NoTask, NoCall
<1>18. ASSUME NEW c \in Callers, NEW ok \in BOOLEAN, Probed(c, ok)
      PROVE  CallsOK'
  BY <1>18 DEF Probed, StillRunning, Inv, CallsOK, TablesOK, PoolOK,
     CallShape, Profiles, TaskType, CallType, NoTask, NoCall
<1>19. ASSUME NEW t \in Tasks, Accept(t)
      PROVE  CallsOK'
  BY <1>19 DEF Accept, Inv, CallsOK, TablesOK, PoolOK, CallShape, Profiles,
     TaskType, CallType, NoTask, NoCall
<1>20. ASSUME NEW t \in Tasks, StreamEnds(t)
      PROVE  CallsOK'
  BY <1>20 DEF StreamEnds, Inv, CallsOK, TablesOK, PoolOK, CallShape,
     Profiles, TaskType, CallType, NoTask, NoCall
<1>21. ASSUME NEW t \in Tasks, NEW s \in {"Stopped", "Interrupted", "Error"},
             Break(t, s)
      PROVE  CallsOK'
  BY <1>21 DEF Break, Inv, CallsOK, TablesOK, PoolOK, CallShape, Profiles,
     TaskType, CallType, NoTask, NoCall
<1>22. ASSUME NEW t \in Tasks, Settle(t)
      PROVE  CallsOK'
  BY <1>22 DEF Settle, Inv, CallsOK, TablesOK, PoolOK, CallShape, Profiles,
     TaskType, CallType, NoTask, NoCall
<1>23. ASSUME NEW t \in Tasks, Release(t)
      PROVE  CallsOK'
  BY <1>23 DEF Release, Inv, CallsOK, TablesOK, PoolOK, CallShape, Profiles,
     TaskType, CallType, NoTask, NoCall
<1>24. ASSUME NEW k \in Conns, LoseTransport(k)
      PROVE  CallsOK'
  BY <1>24 DEF LoseTransport, Inv, CallsOK, TablesOK, PoolOK, CallShape,
     Profiles, TaskType, CallType, NoTask, NoCall
<1> QED
  BY <1>1, <1>2, <1>3, <1>4, <1>5, <1>6, <1>7, <1>8, <1>9, <1>10, <1>11,
     <1>12, <1>13, <1>14, <1>15, <1>16, <1>17, <1>18, <1>19, <1>20, <1>21,
     <1>22, <1>23, <1>24 DEF Next, Arrive, Connect, Finish, Return, Serve,
     Noticed

\* Every step keeps status, streams and health of a task together.
LEMMA TaskShapeStep ==
  ASSUME Inv, Next
  PROVE  TaskShape'
<1> USE TunnelAssumption DEF tables, history, TaskType, CallType, NoTask, NoCall
<1>1. ASSUME NEW c \in Callers, NEW r \in Rules, NEW i \in Identities,
             Reserve(c, r, i)
      PROVE  TaskShape'
  BY <1>1 DEF Reserve, Saved, Stopped, MayListen, Running, Pending, Inv,
     TaskShape, TablesOK, TasksOK, CallsOK, ClosingShape, CallShape
<1>2. ASSUME NEW c \in Callers, NEW r \in Rules, NEW x \in Contents, Save(c,
             r, x)
      PROVE  TaskShape'
  BY <1>2 DEF Save, Edit, MayEdit, Stopped, Shutdown, Signalled, Saved,
     Running, Pending, Inv, TaskShape, TablesOK, TasksOK, CallsOK,
     ClosingShape, CallShape
<1>3. ASSUME NEW c \in Callers, NEW r \in Rules, Delete(c, r)
      PROVE  TaskShape'
  BY <1>3 DEF Delete, Edit, MayEdit, Stopped, Shutdown, Signalled, Saved,
     Running, Pending, Inv, TaskShape, TablesOK, TasksOK, CallsOK,
     ClosingShape, CallShape
<1>4. ASSUME NEW c \in Callers, NEW r \in Rules, Stop(c, r)
      PROVE  TaskShape'
  BY <1>4 DEF Stop, Shutdown, Signalled, Saved, Inv, TaskShape, TablesOK,
     TasksOK, CallsOK, ClosingShape, CallShape
<1>5. ASSUME NEW c \in Callers, NEW r \in Rules, Check(c, r)
      PROVE  TaskShape'
  BY <1>5 DEF Check, Saved, Running, Pending, Inv, TaskShape, TablesOK,
     TasksOK, CallsOK, ClosingShape, CallShape
<1>6. ASSUME NEW c \in Callers, Reuse(c)
      PROVE  TaskShape'
  BY <1>6 DEF Reuse, Opened, Inv, TaskShape, TablesOK, TasksOK, CallsOK,
     ClosingShape, CallShape
<1>7. ASSUME NEW c \in Callers, Authenticate(c)
      PROVE  TaskShape'
  BY <1>7 DEF Authenticate, Inv, TaskShape, TablesOK, TasksOK, CallsOK,
     ClosingShape, CallShape
<1>8. ASSUME NEW c \in Callers, NEW k \in Conns, Authenticated(c, k)
      PROVE  TaskShape'
  BY <1>8 DEF Authenticated, Opened, Inv, TaskShape, TablesOK, TasksOK,
     CallsOK, ClosingShape, CallShape
<1>9. ASSUME NEW c \in Callers, NEW o \in {"failed", "required"}, Refused(c,
             o)
      PROVE  TaskShape'
  BY <1>9 DEF Refused, Opened, Inv, TaskShape, TablesOK, TasksOK, CallsOK,
     ClosingShape, CallShape
<1>10. ASSUME NEW c \in Callers, NEW o \in {"failed", "stopped"}, GiveUp(c, o)
      PROVE  TaskShape'
  BY <1>10 DEF GiveUp, Opened, Inv, TaskShape, TablesOK, TasksOK, CallsOK,
     ClosingShape, CallShape
<1>11. ASSUME NEW c \in Callers, Obsolete(c)
      PROVE  TaskShape'
  BY <1>11 DEF Obsolete, Current, Inv, TaskShape, TablesOK, TasksOK, CallsOK,
     ClosingShape, CallShape
<1>12. ASSUME NEW c \in Callers, Bind(c)
      PROVE  TaskShape'
  BY <1>12 DEF Bind, Current, Shutdown, Signalled, Inv, TaskShape, TablesOK,
     TasksOK, CallsOK, ClosingShape, CallShape
<1>13. ASSUME NEW c \in Callers, StartFailed(c)
      PROVE  TaskShape'
  BY <1>13 DEF StartFailed, Current, Shutdown, Signalled, Inv, TaskShape,
     TablesOK, TasksOK, CallsOK, ClosingShape, CallShape
<1>14. ASSUME NEW c \in Callers, StartRefused(c)
      PROVE  TaskShape'
  BY <1>14 DEF StartRefused, Current, Inv, TaskShape, TablesOK, TasksOK,
     CallsOK, ClosingShape, CallShape
<1>15. ASSUME NEW c \in Callers, RecordFailure(c)
      PROVE  TaskShape'
  BY <1>15 DEF RecordFailure, Ended, Dropped, Inv, TaskShape, TablesOK,
     TasksOK, CallsOK, ClosingShape, CallShape
<1>16. ASSUME NEW c \in Callers, ClosedDown(c)
      PROVE  TaskShape'
  BY <1>16 DEF ClosedDown, Ended, Dropped, Inv, TaskShape, TablesOK, TasksOK,
     CallsOK, ClosingShape, CallShape
<1>17. ASSUME NEW c \in Callers, NEW t \in Tasks, Listen(c, t)
      PROVE  TaskShape'
  BY <1>17 DEF Listen, Ended, Dropped, Free, Inv, TaskShape, TablesOK,
     TasksOK, CallsOK, ClosingShape, CallShape
<1>18. ASSUME NEW c \in Callers, NEW ok \in BOOLEAN, Probed(c, ok)
      PROVE  TaskShape'
  BY <1>18 DEF Probed, StillRunning, Inv, TaskShape, TablesOK, TasksOK,
     CallsOK, ClosingShape, CallShape
<1>19. ASSUME NEW t \in Tasks, Accept(t)
      PROVE  TaskShape'
  BY <1>19 DEF Accept, Inv, TaskShape, TablesOK, TasksOK, CallsOK,
     ClosingShape, CallShape
<1>20. ASSUME NEW t \in Tasks, StreamEnds(t)
      PROVE  TaskShape'
  BY <1>20 DEF StreamEnds, Inv, TaskShape, TablesOK, TasksOK, CallsOK,
     ClosingShape, CallShape
<1>21. ASSUME NEW t \in Tasks, NEW s \in {"Stopped", "Interrupted", "Error"},
             Break(t, s)
      PROVE  TaskShape'
  BY <1>21 DEF Break, Inv, TaskShape, TablesOK, TasksOK, CallsOK,
     ClosingShape, CallShape
<1>22. ASSUME NEW t \in Tasks, Settle(t)
      PROVE  TaskShape'
  BY <1>22 DEF Settle, Inv, TaskShape, TablesOK, TasksOK, CallsOK,
     ClosingShape, CallShape
<1>23. ASSUME NEW t \in Tasks, Release(t)
      PROVE  TaskShape'
  BY <1>23 DEF Release, Inv, TaskShape, TablesOK, TasksOK, CallsOK,
     ClosingShape, CallShape
<1>24. ASSUME NEW k \in Conns, LoseTransport(k)
      PROVE  TaskShape'
  BY <1>24 DEF LoseTransport, Inv, TaskShape, TablesOK, TasksOK, CallsOK,
     ClosingShape, CallShape
<1> QED
  BY <1>1, <1>2, <1>3, <1>4, <1>5, <1>6, <1>7, <1>8, <1>9, <1>10, <1>11,
     <1>12, <1>13, <1>14, <1>15, <1>16, <1>17, <1>18, <1>19, <1>20, <1>21,
     <1>22, <1>23, <1>24 DEF Next, Arrive, Connect, Finish, Return, Serve,
     Noticed

\* Every step keeps entries with their rules.
LEMMA EntryShapeStep ==
  ASSUME Inv, Next
  PROVE  EntryShape'
<1> USE TunnelAssumption DEF tables, history, TaskType, CallType, NoTask, NoCall
<1>1. ASSUME NEW c \in Callers, NEW r \in Rules, NEW i \in Identities,
             Reserve(c, r, i)
      PROVE  EntryShape'
  BY <1>1 DEF Reserve, Saved, Stopped, MayListen, Running, Pending, Inv,
     EntryShape, TablesOK, TasksOK, CallsOK, TaskShape, ClosingShape,
     CallShape, Tracked, LockShape
<1>2. ASSUME NEW c \in Callers, NEW r \in Rules, NEW x \in Contents, Save(c,
             r, x)
      PROVE  EntryShape'
  BY <1>2 DEF Save, Edit, MayEdit, Stopped, Shutdown, Signalled, Saved,
     Running, Pending, Inv, EntryShape, TablesOK, TasksOK, CallsOK, TaskShape,
     ClosingShape, CallShape, Tracked, LockShape
<1>3. ASSUME NEW c \in Callers, NEW r \in Rules, Delete(c, r)
      PROVE  EntryShape'
  BY <1>3 DEF Delete, Edit, MayEdit, Stopped, Shutdown, Signalled, Saved,
     Running, Pending, Inv, EntryShape, TablesOK, TasksOK, CallsOK, TaskShape,
     ClosingShape, CallShape, Tracked, LockShape
<1>4. ASSUME NEW c \in Callers, NEW r \in Rules, Stop(c, r)
      PROVE  EntryShape'
  BY <1>4 DEF Stop, Shutdown, Signalled, Saved, Inv, EntryShape, TablesOK,
     TasksOK, CallsOK, TaskShape, ClosingShape, CallShape, Tracked, LockShape
<1>5. ASSUME NEW c \in Callers, NEW r \in Rules, Check(c, r)
      PROVE  EntryShape'
  BY <1>5 DEF Check, Saved, Running, Pending, Inv, EntryShape, TablesOK,
     TasksOK, CallsOK, TaskShape, ClosingShape, CallShape, Tracked, LockShape
<1>6. ASSUME NEW c \in Callers, Reuse(c)
      PROVE  EntryShape'
  BY <1>6 DEF Reuse, Opened, Inv, EntryShape, TablesOK, TasksOK, CallsOK,
     TaskShape, ClosingShape, CallShape, Tracked, LockShape
<1>7. ASSUME NEW c \in Callers, Authenticate(c)
      PROVE  EntryShape'
  BY <1>7 DEF Authenticate, Inv, EntryShape, TablesOK, TasksOK, CallsOK,
     TaskShape, ClosingShape, CallShape, Tracked, LockShape
<1>8. ASSUME NEW c \in Callers, NEW k \in Conns, Authenticated(c, k)
      PROVE  EntryShape'
  BY <1>8 DEF Authenticated, Opened, Inv, EntryShape, TablesOK, TasksOK,
     CallsOK, TaskShape, ClosingShape, CallShape, Tracked, LockShape
<1>9. ASSUME NEW c \in Callers, NEW o \in {"failed", "required"}, Refused(c,
             o)
      PROVE  EntryShape'
  BY <1>9 DEF Refused, Opened, Inv, EntryShape, TablesOK, TasksOK, CallsOK,
     TaskShape, ClosingShape, CallShape, Tracked, LockShape
<1>10. ASSUME NEW c \in Callers, NEW o \in {"failed", "stopped"}, GiveUp(c, o)
      PROVE  EntryShape'
  BY <1>10 DEF GiveUp, Opened, Inv, EntryShape, TablesOK, TasksOK, CallsOK,
     TaskShape, ClosingShape, CallShape, Tracked, LockShape
<1>11. ASSUME NEW c \in Callers, Obsolete(c)
      PROVE  EntryShape'
  BY <1>11 DEF Obsolete, Current, Inv, EntryShape, TablesOK, TasksOK, CallsOK,
     TaskShape, ClosingShape, CallShape, Tracked, LockShape
<1>12. ASSUME NEW c \in Callers, Bind(c)
      PROVE  EntryShape'
  BY <1>12 DEF Bind, Current, Shutdown, Signalled, Inv, EntryShape, TablesOK,
     TasksOK, CallsOK, TaskShape, ClosingShape, CallShape, Tracked, LockShape
<1>13. ASSUME NEW c \in Callers, StartFailed(c)
      PROVE  EntryShape'
  BY <1>13 DEF StartFailed, Current, Shutdown, Signalled, Inv, EntryShape,
     TablesOK, TasksOK, CallsOK, TaskShape, ClosingShape, CallShape, Tracked,
     LockShape
<1>14. ASSUME NEW c \in Callers, StartRefused(c)
      PROVE  EntryShape'
  BY <1>14 DEF StartRefused, Current, Inv, EntryShape, TablesOK, TasksOK,
     CallsOK, TaskShape, ClosingShape, CallShape, Tracked, LockShape
<1>15. ASSUME NEW c \in Callers, RecordFailure(c)
      PROVE  EntryShape'
  BY <1>15 DEF RecordFailure, Ended, Dropped, Inv, EntryShape, TablesOK,
     TasksOK, CallsOK, TaskShape, ClosingShape, CallShape, Tracked, LockShape
<1>16. ASSUME NEW c \in Callers, ClosedDown(c)
      PROVE  EntryShape'
  BY <1>16 DEF ClosedDown, Ended, Dropped, Inv, EntryShape, TablesOK, TasksOK,
     CallsOK, TaskShape, ClosingShape, CallShape, Tracked, LockShape
<1>17. ASSUME NEW c \in Callers, NEW t \in Tasks, Listen(c, t)
      PROVE  EntryShape'
  BY <1>17 DEF Listen, Ended, Dropped, Free, Inv, EntryShape, TablesOK,
     TasksOK, CallsOK, TaskShape, ClosingShape, CallShape, Tracked, LockShape
<1>18. ASSUME NEW c \in Callers, NEW ok \in BOOLEAN, Probed(c, ok)
      PROVE  EntryShape'
  BY <1>18 DEF Probed, StillRunning, Inv, EntryShape, TablesOK, TasksOK,
     CallsOK, TaskShape, ClosingShape, CallShape, Tracked, LockShape
<1>19. ASSUME NEW t \in Tasks, Accept(t)
      PROVE  EntryShape'
  BY <1>19 DEF Accept, Inv, EntryShape, TablesOK, TasksOK, CallsOK, TaskShape,
     ClosingShape, CallShape, Tracked, LockShape
<1>20. ASSUME NEW t \in Tasks, StreamEnds(t)
      PROVE  EntryShape'
  BY <1>20 DEF StreamEnds, Inv, EntryShape, TablesOK, TasksOK, CallsOK,
     TaskShape, ClosingShape, CallShape, Tracked, LockShape
<1>21. ASSUME NEW t \in Tasks, NEW s \in {"Stopped", "Interrupted", "Error"},
             Break(t, s)
      PROVE  EntryShape'
  BY <1>21 DEF Break, Inv, EntryShape, TablesOK, TasksOK, CallsOK, TaskShape,
     ClosingShape, CallShape, Tracked, LockShape
<1>22. ASSUME NEW t \in Tasks, Settle(t)
      PROVE  EntryShape'
  BY <1>22 DEF Settle, Inv, EntryShape, TablesOK, TasksOK, CallsOK, TaskShape,
     ClosingShape, CallShape, Tracked, LockShape
<1>23. ASSUME NEW t \in Tasks, Release(t)
      PROVE  EntryShape'
  BY <1>23 DEF Release, Inv, EntryShape, TablesOK, TasksOK, CallsOK,
     TaskShape, ClosingShape, CallShape, Tracked, LockShape
<1>24. ASSUME NEW k \in Conns, LoseTransport(k)
      PROVE  EntryShape'
  BY <1>24 DEF LoseTransport, Inv, EntryShape, TablesOK, TasksOK, CallsOK,
     TaskShape, ClosingShape, CallShape, Tracked, LockShape
<1> QED
  BY <1>1, <1>2, <1>3, <1>4, <1>5, <1>6, <1>7, <1>8, <1>9, <1>10, <1>11,
     <1>12, <1>13, <1>14, <1>15, <1>16, <1>17, <1>18, <1>19, <1>20, <1>21,
     <1>22, <1>23, <1>24 DEF Next, Arrive, Connect, Finish, Return, Serve,
     Noticed

\* Every step leaves the lock with the call that waits under it.
LEMMA LockShapeStep ==
  ASSUME Inv, Next
  PROVE  LockShape'
<1> USE TunnelAssumption DEF tables, history, TaskType, CallType, NoTask, NoCall
<1>1. ASSUME NEW c \in Callers, NEW r \in Rules, NEW i \in Identities,
             Reserve(c, r, i)
      PROVE  LockShape'
  BY <1>1 DEF Reserve, Saved, Stopped, MayListen, Running, Pending, Inv,
     LockShape, TablesOK, TasksOK, CallsOK
<1>2. ASSUME NEW c \in Callers, NEW r \in Rules, NEW x \in Contents, Save(c,
             r, x)
      PROVE  LockShape'
  BY <1>2 DEF Save, Edit, MayEdit, Stopped, Shutdown, Signalled, Saved,
     Running, Pending, Inv, LockShape, TablesOK, TasksOK, CallsOK
<1>3. ASSUME NEW c \in Callers, NEW r \in Rules, Delete(c, r)
      PROVE  LockShape'
  BY <1>3 DEF Delete, Edit, MayEdit, Stopped, Shutdown, Signalled, Saved,
     Running, Pending, Inv, LockShape, TablesOK, TasksOK, CallsOK
<1>4. ASSUME NEW c \in Callers, NEW r \in Rules, Stop(c, r)
      PROVE  LockShape'
  BY <1>4 DEF Stop, Shutdown, Signalled, Saved, Inv, LockShape, TablesOK,
     TasksOK, CallsOK
<1>5. ASSUME NEW c \in Callers, NEW r \in Rules, Check(c, r)
      PROVE  LockShape'
  BY <1>5 DEF Check, Saved, Running, Pending, Inv, LockShape, TablesOK,
     TasksOK, CallsOK
<1>6. ASSUME NEW c \in Callers, Reuse(c)
      PROVE  LockShape'
  BY <1>6 DEF Reuse, Opened, Inv, LockShape, TablesOK, TasksOK, CallsOK
<1>7. ASSUME NEW c \in Callers, Authenticate(c)
      PROVE  LockShape'
  BY <1>7 DEF Authenticate, Inv, LockShape, TablesOK, TasksOK, CallsOK
<1>8. ASSUME NEW c \in Callers, NEW k \in Conns, Authenticated(c, k)
      PROVE  LockShape'
  BY <1>8 DEF Authenticated, Opened, Inv, LockShape, TablesOK, TasksOK,
     CallsOK
<1>9. ASSUME NEW c \in Callers, NEW o \in {"failed", "required"}, Refused(c,
             o)
      PROVE  LockShape'
  BY <1>9 DEF Refused, Opened, Inv, LockShape, TablesOK, TasksOK, CallsOK
<1>10. ASSUME NEW c \in Callers, NEW o \in {"failed", "stopped"}, GiveUp(c, o)
      PROVE  LockShape'
  BY <1>10 DEF GiveUp, Opened, Inv, LockShape, TablesOK, TasksOK, CallsOK
<1>11. ASSUME NEW c \in Callers, Obsolete(c)
      PROVE  LockShape'
  BY <1>11 DEF Obsolete, Current, Inv, LockShape, TablesOK, TasksOK, CallsOK
<1>12. ASSUME NEW c \in Callers, Bind(c)
      PROVE  LockShape'
  BY <1>12 DEF Bind, Current, Shutdown, Signalled, Inv, LockShape, TablesOK,
     TasksOK, CallsOK
<1>13. ASSUME NEW c \in Callers, StartFailed(c)
      PROVE  LockShape'
  BY <1>13 DEF StartFailed, Current, Shutdown, Signalled, Inv, LockShape,
     TablesOK, TasksOK, CallsOK
<1>14. ASSUME NEW c \in Callers, StartRefused(c)
      PROVE  LockShape'
  BY <1>14 DEF StartRefused, Current, Inv, LockShape, TablesOK, TasksOK,
     CallsOK
<1>15. ASSUME NEW c \in Callers, RecordFailure(c)
      PROVE  LockShape'
  BY <1>15 DEF RecordFailure, Ended, Dropped, Inv, LockShape, TablesOK,
     TasksOK, CallsOK
<1>16. ASSUME NEW c \in Callers, ClosedDown(c)
      PROVE  LockShape'
  BY <1>16 DEF ClosedDown, Ended, Dropped, Inv, LockShape, TablesOK, TasksOK,
     CallsOK
<1>17. ASSUME NEW c \in Callers, NEW t \in Tasks, Listen(c, t)
      PROVE  LockShape'
  BY <1>17 DEF Listen, Ended, Dropped, Free, Inv, LockShape, TablesOK,
     TasksOK, CallsOK
<1>18. ASSUME NEW c \in Callers, NEW ok \in BOOLEAN, Probed(c, ok)
      PROVE  LockShape'
  BY <1>18 DEF Probed, StillRunning, Inv, LockShape, TablesOK, TasksOK,
     CallsOK
<1>19. ASSUME NEW t \in Tasks, Accept(t)
      PROVE  LockShape'
  BY <1>19 DEF Accept, Inv, LockShape, TablesOK, TasksOK, CallsOK
<1>20. ASSUME NEW t \in Tasks, StreamEnds(t)
      PROVE  LockShape'
  BY <1>20 DEF StreamEnds, Inv, LockShape, TablesOK, TasksOK, CallsOK
<1>21. ASSUME NEW t \in Tasks, NEW s \in {"Stopped", "Interrupted", "Error"},
             Break(t, s)
      PROVE  LockShape'
  BY <1>21 DEF Break, Inv, LockShape, TablesOK, TasksOK, CallsOK
<1>22. ASSUME NEW t \in Tasks, Settle(t)
      PROVE  LockShape'
  BY <1>22 DEF Settle, Inv, LockShape, TablesOK, TasksOK, CallsOK
<1>23. ASSUME NEW t \in Tasks, Release(t)
      PROVE  LockShape'
  BY <1>23 DEF Release, Inv, LockShape, TablesOK, TasksOK, CallsOK
<1>24. ASSUME NEW k \in Conns, LoseTransport(k)
      PROVE  LockShape'
  BY <1>24 DEF LoseTransport, Inv, LockShape, TablesOK, TasksOK, CallsOK
<1> QED
  BY <1>1, <1>2, <1>3, <1>4, <1>5, <1>6, <1>7, <1>8, <1>9, <1>10, <1>11,
     <1>12, <1>13, <1>14, <1>15, <1>16, <1>17, <1>18, <1>19, <1>20, <1>21,
     <1>22, <1>23, <1>24 DEF Next, Arrive, Connect, Finish, Return, Serve,
     Noticed

\* Every step keeps calls on their rules.
LEMMA CallShapeStep ==
  ASSUME Inv, Next
  PROVE  CallShape'
<1> USE TunnelAssumption DEF tables, history, TaskType, CallType, NoTask, NoCall
<1>1. ASSUME NEW c \in Callers, NEW r \in Rules, NEW i \in Identities,
             Reserve(c, r, i)
      PROVE  CallShape'
  BY <1>1 DEF Reserve, Saved, Stopped, MayListen, Running, Pending, Inv,
     CallShape, TablesOK, TasksOK, CallsOK, ClosingShape
<1>2. ASSUME NEW c \in Callers, NEW r \in Rules, NEW x \in Contents, Save(c,
             r, x)
      PROVE  CallShape'
  BY <1>2 DEF Save, Edit, MayEdit, Stopped, Shutdown, Signalled, Saved,
     Running, Pending, Inv, CallShape, TablesOK, TasksOK, CallsOK,
     ClosingShape
<1>3. ASSUME NEW c \in Callers, NEW r \in Rules, Delete(c, r)
      PROVE  CallShape'
  BY <1>3 DEF Delete, Edit, MayEdit, Stopped, Shutdown, Signalled, Saved,
     Running, Pending, Inv, CallShape, TablesOK, TasksOK, CallsOK,
     ClosingShape
<1>4. ASSUME NEW c \in Callers, NEW r \in Rules, Stop(c, r)
      PROVE  CallShape'
  BY <1>4 DEF Stop, Shutdown, Signalled, Saved, Inv, CallShape, TablesOK,
     TasksOK, CallsOK, ClosingShape
<1>5. ASSUME NEW c \in Callers, NEW r \in Rules, Check(c, r)
      PROVE  CallShape'
  BY <1>5 DEF Check, Saved, Running, Pending, Inv, CallShape, TablesOK,
     TasksOK, CallsOK, ClosingShape
<1>6. ASSUME NEW c \in Callers, Reuse(c)
      PROVE  CallShape'
  <2>1. \A d \in Callers :
          /\ call'[d].at # "opened" => call'[d] = call[d]
          /\ call'[d].at = "opened" =>
               /\ call[d].at \in {"connect", "opened"}
               /\ call'[d].op = call[d].op /\ call'[d].rule = call[d].rule
               /\ call'[d].content = call[d].content
               /\ call'[d].asked = call[d].asked
    BY SMTT(30), <1>6 DEF Reuse, Opened, Inv, CallsOK
  <2> QED  BY <2>1 DEF Inv, CallShape
<1>7. ASSUME NEW c \in Callers, Authenticate(c)
      PROVE  CallShape'
  BY <1>7 DEF Authenticate, Inv, CallShape, TablesOK, TasksOK, CallsOK,
     ClosingShape
<1>8. ASSUME NEW c \in Callers, NEW k \in Conns, Authenticated(c, k)
      PROVE  CallShape'
  BY <1>8 DEF Authenticated, Opened, Inv, CallShape, TablesOK, TasksOK,
     CallsOK, ClosingShape
<1>9. ASSUME NEW c \in Callers, NEW o \in {"failed", "required"}, Refused(c,
             o)
      PROVE  CallShape'
  BY <1>9 DEF Refused, Opened, Inv, CallShape, TablesOK, TasksOK, CallsOK,
     ClosingShape
<1>10. ASSUME NEW c \in Callers, NEW o \in {"failed", "stopped"}, GiveUp(c, o)
      PROVE  CallShape'
  BY <1>10 DEF GiveUp, Opened, Inv, CallShape, TablesOK, TasksOK, CallsOK,
     ClosingShape
<1>11. ASSUME NEW c \in Callers, Obsolete(c)
      PROVE  CallShape'
  BY <1>11 DEF Obsolete, Current, Inv, CallShape, TablesOK, TasksOK, CallsOK,
     ClosingShape
<1>12. ASSUME NEW c \in Callers, Bind(c)
      PROVE  CallShape'
  BY <1>12 DEF Bind, Current, Shutdown, Signalled, Inv, CallShape, TablesOK,
     TasksOK, CallsOK, ClosingShape
<1>13. ASSUME NEW c \in Callers, StartFailed(c)
      PROVE  CallShape'
  BY <1>13 DEF StartFailed, Current, Shutdown, Signalled, Inv, CallShape,
     TablesOK, TasksOK, CallsOK, ClosingShape
<1>14. ASSUME NEW c \in Callers, StartRefused(c)
      PROVE  CallShape'
  BY <1>14 DEF StartRefused, Current, Inv, CallShape, TablesOK, TasksOK,
     CallsOK, ClosingShape
<1>15. ASSUME NEW c \in Callers, RecordFailure(c)
      PROVE  CallShape'
  BY <1>15 DEF RecordFailure, Ended, Dropped, Inv, CallShape, TablesOK,
     TasksOK, CallsOK, ClosingShape
<1>16. ASSUME NEW c \in Callers, ClosedDown(c)
      PROVE  CallShape'
  BY <1>16 DEF ClosedDown, Ended, Dropped, Inv, CallShape, TablesOK, TasksOK,
     CallsOK, ClosingShape
<1>17. ASSUME NEW c \in Callers, NEW t \in Tasks, Listen(c, t)
      PROVE  CallShape'
  BY <1>17 DEF Listen, Ended, Dropped, Free, Inv, CallShape, TablesOK,
     TasksOK, CallsOK, ClosingShape
<1>18. ASSUME NEW c \in Callers, NEW ok \in BOOLEAN, Probed(c, ok)
      PROVE  CallShape'
  BY <1>18 DEF Probed, StillRunning, Inv, CallShape, TablesOK, TasksOK,
     CallsOK, ClosingShape
<1>19. ASSUME NEW t \in Tasks, Accept(t)
      PROVE  CallShape'
  BY <1>19 DEF Accept, Inv, CallShape, TablesOK, TasksOK, CallsOK,
     ClosingShape
<1>20. ASSUME NEW t \in Tasks, StreamEnds(t)
      PROVE  CallShape'
  BY <1>20 DEF StreamEnds, Inv, CallShape, TablesOK, TasksOK, CallsOK,
     ClosingShape
<1>21. ASSUME NEW t \in Tasks, NEW s \in {"Stopped", "Interrupted", "Error"},
             Break(t, s)
      PROVE  CallShape'
  BY <1>21 DEF Break, Inv, CallShape, TablesOK, TasksOK, CallsOK, ClosingShape
<1>22. ASSUME NEW t \in Tasks, Settle(t)
      PROVE  CallShape'
  BY <1>22 DEF Settle, Inv, CallShape, TablesOK, TasksOK, CallsOK,
     ClosingShape
<1>23. ASSUME NEW t \in Tasks, Release(t)
      PROVE  CallShape'
  BY <1>23 DEF Release, Inv, CallShape, TablesOK, TasksOK, CallsOK,
     ClosingShape
<1>24. ASSUME NEW k \in Conns, LoseTransport(k)
      PROVE  CallShape'
  BY <1>24 DEF LoseTransport, Inv, CallShape, TablesOK, TasksOK, CallsOK,
     ClosingShape
<1> QED
  BY <1>1, <1>2, <1>3, <1>4, <1>5, <1>6, <1>7, <1>8, <1>9, <1>10, <1>11,
     <1>12, <1>13, <1>14, <1>15, <1>16, <1>17, <1>18, <1>19, <1>20, <1>21,
     <1>22, <1>23, <1>24 DEF Next, Arrive, Connect, Finish, Return, Serve,
     Noticed

\* Every step keeps what holds under the lock.
LEMMA ClosingShapeStep ==
  ASSUME Inv, Next
  PROVE  ClosingShape'
<1> USE TunnelAssumption DEF tables, history, TaskType, CallType, NoTask, NoCall
<1>1. ASSUME NEW c \in Callers, NEW r \in Rules, NEW i \in Identities,
             Reserve(c, r, i)
      PROVE  ClosingShape'
  BY <1>1 DEF Reserve, Saved, Stopped, MayListen, Running, Pending, Inv,
     ClosingShape, TablesOK, TasksOK, CallsOK, LockShape, CallShape, Reserved,
     EntryShape
<1>2. ASSUME NEW c \in Callers, NEW r \in Rules, NEW x \in Contents, Save(c,
             r, x)
      PROVE  ClosingShape'
  BY <1>2 DEF Save, Edit, MayEdit, Stopped, Shutdown, Signalled, Saved,
     Running, Pending, Inv, ClosingShape, TablesOK, TasksOK, CallsOK,
     LockShape, CallShape, Reserved, EntryShape
<1>3. ASSUME NEW c \in Callers, NEW r \in Rules, Delete(c, r)
      PROVE  ClosingShape'
  BY <1>3 DEF Delete, Edit, MayEdit, Stopped, Shutdown, Signalled, Saved,
     Running, Pending, Inv, ClosingShape, TablesOK, TasksOK, CallsOK,
     LockShape, CallShape, Reserved, EntryShape
<1>4. ASSUME NEW c \in Callers, NEW r \in Rules, Stop(c, r)
      PROVE  ClosingShape'
  BY <1>4 DEF Stop, Shutdown, Signalled, Saved, Inv, ClosingShape, TablesOK,
     TasksOK, CallsOK, LockShape, CallShape, Reserved, EntryShape
<1>5. ASSUME NEW c \in Callers, NEW r \in Rules, Check(c, r)
      PROVE  ClosingShape'
  BY <1>5 DEF Check, Saved, Running, Pending, Inv, ClosingShape, TablesOK,
     TasksOK, CallsOK, LockShape, CallShape, Reserved, EntryShape
<1>6. ASSUME NEW c \in Callers, Reuse(c)
      PROVE  ClosingShape'
  <2>1. \A d \in Callers : call'[d].at = "closing" => call'[d] = call[d]
    BY <1>6 DEF Reuse, Opened, Inv, CallsOK
  <2> QED  BY <1>6, <2>1 DEF Reuse, Inv, ClosingShape
<1>7. ASSUME NEW c \in Callers, Authenticate(c)
      PROVE  ClosingShape'
  BY <1>7 DEF Authenticate, Inv, ClosingShape, TablesOK, TasksOK, CallsOK,
     LockShape, CallShape, Reserved, EntryShape
<1>8. ASSUME NEW c \in Callers, NEW k \in Conns, Authenticated(c, k)
      PROVE  ClosingShape'
  BY <1>8 DEF Authenticated, Opened, Inv, ClosingShape, TablesOK, TasksOK,
     CallsOK, LockShape, CallShape, Reserved, EntryShape
<1>9. ASSUME NEW c \in Callers, NEW o \in {"failed", "required"}, Refused(c,
             o)
      PROVE  ClosingShape'
  BY <1>9 DEF Refused, Opened, Inv, ClosingShape, TablesOK, TasksOK, CallsOK,
     LockShape, CallShape, Reserved, EntryShape
<1>10. ASSUME NEW c \in Callers, NEW o \in {"failed", "stopped"}, GiveUp(c, o)
      PROVE  ClosingShape'
  BY <1>10 DEF GiveUp, Opened, Inv, ClosingShape, TablesOK, TasksOK, CallsOK,
     LockShape, CallShape, Reserved, EntryShape
<1>11. ASSUME NEW c \in Callers, Obsolete(c)
      PROVE  ClosingShape'
  BY <1>11 DEF Obsolete, Current, Inv, ClosingShape, TablesOK, TasksOK,
     CallsOK, LockShape, CallShape, Reserved, EntryShape
<1>12. ASSUME NEW c \in Callers, Bind(c)
      PROVE  ClosingShape'
  BY <1>12 DEF Bind, Current, Shutdown, Signalled, Inv, ClosingShape,
     TablesOK, TasksOK, CallsOK, LockShape, CallShape, Reserved, EntryShape
<1>13. ASSUME NEW c \in Callers, StartFailed(c)
      PROVE  ClosingShape'
  BY <1>13 DEF StartFailed, Current, Shutdown, Signalled, Inv, ClosingShape,
     TablesOK, TasksOK, CallsOK, LockShape, CallShape, Reserved, EntryShape
<1>14. ASSUME NEW c \in Callers, StartRefused(c)
      PROVE  ClosingShape'
  BY <1>14 DEF StartRefused, Current, Inv, ClosingShape, TablesOK, TasksOK,
     CallsOK, LockShape, CallShape, Reserved, EntryShape
<1>15. ASSUME NEW c \in Callers, RecordFailure(c)
      PROVE  ClosingShape'
  BY <1>15 DEF RecordFailure, Ended, Dropped, Inv, ClosingShape, TablesOK,
     TasksOK, CallsOK, LockShape, CallShape, Reserved, EntryShape
<1>16. ASSUME NEW c \in Callers, ClosedDown(c)
      PROVE  ClosingShape'
  BY <1>16 DEF ClosedDown, Ended, Dropped, Inv, ClosingShape, TablesOK,
     TasksOK, CallsOK, LockShape, CallShape, Reserved, EntryShape
<1>17. ASSUME NEW c \in Callers, NEW t \in Tasks, Listen(c, t)
      PROVE  ClosingShape'
  BY <1>17 DEF Listen, Ended, Dropped, Free, Inv, ClosingShape, TablesOK,
     TasksOK, CallsOK, LockShape, CallShape, Reserved, EntryShape
<1>18. ASSUME NEW c \in Callers, NEW ok \in BOOLEAN, Probed(c, ok)
      PROVE  ClosingShape'
  BY <1>18 DEF Probed, StillRunning, Inv, ClosingShape, TablesOK, TasksOK,
     CallsOK, LockShape, CallShape, Reserved, EntryShape
<1>19. ASSUME NEW t \in Tasks, Accept(t)
      PROVE  ClosingShape'
  BY <1>19 DEF Accept, Inv, ClosingShape, TablesOK, TasksOK, CallsOK,
     LockShape, CallShape, Reserved, EntryShape
<1>20. ASSUME NEW t \in Tasks, StreamEnds(t)
      PROVE  ClosingShape'
  BY <1>20 DEF StreamEnds, Inv, ClosingShape, TablesOK, TasksOK, CallsOK,
     LockShape, CallShape, Reserved, EntryShape
<1>21. ASSUME NEW t \in Tasks, NEW s \in {"Stopped", "Interrupted", "Error"},
             Break(t, s)
      PROVE  ClosingShape'
  BY <1>21 DEF Break, Inv, ClosingShape, TablesOK, TasksOK, CallsOK,
     LockShape, CallShape, Reserved, EntryShape
<1>22. ASSUME NEW t \in Tasks, Settle(t)
      PROVE  ClosingShape'
  BY <1>22 DEF Settle, Inv, ClosingShape, TablesOK, TasksOK, CallsOK,
     LockShape, CallShape, Reserved, EntryShape
<1>23. ASSUME NEW t \in Tasks, Release(t)
      PROVE  ClosingShape'
  BY <1>23 DEF Release, Inv, ClosingShape, TablesOK, TasksOK, CallsOK,
     LockShape, CallShape, Reserved, EntryShape
<1>24. ASSUME NEW k \in Conns, LoseTransport(k)
      PROVE  ClosingShape'
  BY <1>24 DEF LoseTransport, Inv, ClosingShape, TablesOK, TasksOK, CallsOK,
     LockShape, CallShape, Reserved, EntryShape
<1> QED
  BY <1>1, <1>2, <1>3, <1>4, <1>5, <1>6, <1>7, <1>8, <1>9, <1>10, <1>11,
     <1>12, <1>13, <1>14, <1>15, <1>16, <1>17, <1>18, <1>19, <1>20, <1>21,
     <1>22, <1>23, <1>24 DEF Next, Arrive, Connect, Finish, Return, Serve,
     Noticed

\* Every step keeps reservations with the starts that made them.
LEMMA ReservedStep ==
  ASSUME Inv, Next
  PROVE  Reserved'
<1> USE TunnelAssumption DEF tables, history, TaskType, CallType, NoTask, NoCall
<1>1. ASSUME NEW c \in Callers, NEW r \in Rules, NEW i \in Identities,
             Reserve(c, r, i)
      PROVE  Reserved'
  BY <1>1 DEF Reserve, Saved, Stopped, MayListen, Running, Pending, Inv,
     Reserved, TablesOK, TasksOK, CallsOK, LockShape, CallShape, ClosingShape,
     TaskShape, EntryShape
<1>2. ASSUME NEW c \in Callers, NEW r \in Rules, NEW x \in Contents, Save(c,
             r, x)
      PROVE  Reserved'
  BY <1>2 DEF Save, Edit, MayEdit, Stopped, Shutdown, Signalled, Saved,
     Running, Pending, Inv, Reserved, TablesOK, TasksOK, CallsOK, LockShape,
     CallShape, ClosingShape, TaskShape, EntryShape
<1>3. ASSUME NEW c \in Callers, NEW r \in Rules, Delete(c, r)
      PROVE  Reserved'
  BY <1>3 DEF Delete, Edit, MayEdit, Stopped, Shutdown, Signalled, Saved,
     Running, Pending, Inv, Reserved, TablesOK, TasksOK, CallsOK, LockShape,
     CallShape, ClosingShape, TaskShape, EntryShape
<1>4. ASSUME NEW c \in Callers, NEW r \in Rules, Stop(c, r)
      PROVE  Reserved'
  BY <1>4 DEF Stop, Shutdown, Signalled, Saved, Inv, Reserved, TablesOK,
     TasksOK, CallsOK, LockShape, CallShape, ClosingShape, TaskShape,
     EntryShape, Running
<1>5. ASSUME NEW c \in Callers, NEW r \in Rules, Check(c, r)
      PROVE  Reserved'
  BY <1>5 DEF Check, Saved, Running, Pending, Inv, Reserved, TablesOK,
     TasksOK, CallsOK, LockShape, CallShape, ClosingShape, TaskShape,
     EntryShape
<1>6. ASSUME NEW c \in Callers, Reuse(c)
      PROVE  Reserved'
  BY SMTT(30), <1>6 DEF Reuse, Opened, Inv, Reserved, TablesOK, TasksOK, CallsOK,
     LockShape, CallShape, ClosingShape, TaskShape, EntryShape, Running
<1>7. ASSUME NEW c \in Callers, Authenticate(c)
      PROVE  Reserved'
  BY <1>7 DEF Authenticate, Inv, Reserved, TablesOK, TasksOK, CallsOK,
     LockShape, CallShape, ClosingShape, TaskShape, EntryShape, Running
<1>8. ASSUME NEW c \in Callers, NEW k \in Conns, Authenticated(c, k)
      PROVE  Reserved'
  BY <1>8 DEF Authenticated, Opened, Inv, Reserved, TablesOK, TasksOK,
     CallsOK, LockShape, CallShape, ClosingShape, TaskShape, EntryShape,
     Running
<1>9. ASSUME NEW c \in Callers, NEW o \in {"failed", "required"}, Refused(c,
             o)
      PROVE  Reserved'
  BY <1>9 DEF Refused, Opened, Inv, Reserved, TablesOK, TasksOK, CallsOK,
     LockShape, CallShape, ClosingShape, TaskShape, EntryShape, Running
<1>10. ASSUME NEW c \in Callers, NEW o \in {"failed", "stopped"}, GiveUp(c, o)
      PROVE  Reserved'
  BY <1>10 DEF GiveUp, Opened, Inv, Reserved, TablesOK, TasksOK, CallsOK,
     LockShape, CallShape, ClosingShape, TaskShape, EntryShape, Running
<1>11. ASSUME NEW c \in Callers, Obsolete(c)
      PROVE  Reserved'
  BY <1>11 DEF Obsolete, Current, Inv, Reserved, TablesOK, TasksOK, CallsOK,
     LockShape, CallShape, ClosingShape, TaskShape, EntryShape, Running
<1>12. ASSUME NEW c \in Callers, Bind(c)
      PROVE  Reserved'
  BY <1>12 DEF Bind, Current, Shutdown, Signalled, Inv, Reserved, TablesOK,
     TasksOK, CallsOK, LockShape, CallShape, ClosingShape, TaskShape,
     EntryShape, Running
<1>13. ASSUME NEW c \in Callers, StartFailed(c)
      PROVE  Reserved'
  BY <1>13 DEF StartFailed, Current, Shutdown, Signalled, Inv, Reserved,
     TablesOK, TasksOK, CallsOK, LockShape, CallShape, ClosingShape,
     TaskShape, EntryShape, Running
<1>14. ASSUME NEW c \in Callers, StartRefused(c)
      PROVE  Reserved'
  BY <1>14 DEF StartRefused, Current, Inv, Reserved, TablesOK, TasksOK,
     CallsOK, LockShape, CallShape, ClosingShape, TaskShape, EntryShape,
     Running
<1>15. ASSUME NEW c \in Callers, RecordFailure(c)
      PROVE  Reserved'
  BY <1>15 DEF RecordFailure, Ended, Dropped, Inv, Reserved, TablesOK,
     TasksOK, CallsOK, LockShape, CallShape, ClosingShape, TaskShape,
     EntryShape, Running
<1>16. ASSUME NEW c \in Callers, ClosedDown(c)
      PROVE  Reserved'
  BY <1>16 DEF ClosedDown, Ended, Dropped, Inv, Reserved, TablesOK, TasksOK,
     CallsOK, LockShape, CallShape, ClosingShape, TaskShape, EntryShape,
     Running
<1>17. ASSUME NEW c \in Callers, NEW t \in Tasks, Listen(c, t)
      PROVE  Reserved'
  BY <1>17 DEF Listen, Ended, Dropped, Free, Inv, Reserved, TablesOK, TasksOK,
     CallsOK, LockShape, CallShape, ClosingShape, TaskShape, EntryShape,
     Running
<1>18. ASSUME NEW c \in Callers, NEW ok \in BOOLEAN, Probed(c, ok)
      PROVE  Reserved'
  BY <1>18 DEF Probed, StillRunning, Inv, Reserved, TablesOK, TasksOK,
     CallsOK, LockShape, CallShape, ClosingShape, TaskShape, EntryShape,
     Running
<1>19. ASSUME NEW t \in Tasks, Accept(t)
      PROVE  Reserved'
  BY <1>19 DEF Accept, Inv, Reserved, TablesOK, TasksOK, CallsOK, LockShape,
     CallShape, ClosingShape, TaskShape, EntryShape, Running
<1>20. ASSUME NEW t \in Tasks, StreamEnds(t)
      PROVE  Reserved'
  BY <1>20 DEF StreamEnds, Inv, Reserved, TablesOK, TasksOK, CallsOK,
     LockShape, CallShape, ClosingShape, TaskShape, EntryShape, Running
<1>21. ASSUME NEW t \in Tasks, NEW s \in {"Stopped", "Interrupted", "Error"},
             Break(t, s)
      PROVE  Reserved'
  BY <1>21 DEF Break, Inv, Reserved, TablesOK, TasksOK, CallsOK, LockShape,
     CallShape, ClosingShape, TaskShape, EntryShape, Running
<1>22. ASSUME NEW t \in Tasks, Settle(t)
      PROVE  Reserved'
  BY <1>22 DEF Settle, Inv, Reserved, TablesOK, TasksOK, CallsOK, LockShape,
     CallShape, ClosingShape, TaskShape, EntryShape, Running
<1>23. ASSUME NEW t \in Tasks, Release(t)
      PROVE  Reserved'
  BY <1>23 DEF Release, Inv, Reserved, TablesOK, TasksOK, CallsOK, LockShape,
     CallShape, ClosingShape, TaskShape, EntryShape, Running
<1>24. ASSUME NEW k \in Conns, LoseTransport(k)
      PROVE  Reserved'
  BY <1>24 DEF LoseTransport, Inv, Reserved, TablesOK, TasksOK, CallsOK,
     LockShape, CallShape, ClosingShape, TaskShape, EntryShape, Running
<1> QED
  BY <1>1, <1>2, <1>3, <1>4, <1>5, <1>6, <1>7, <1>8, <1>9, <1>10, <1>11,
     <1>12, <1>13, <1>14, <1>15, <1>16, <1>17, <1>18, <1>19, <1>20, <1>21,
     <1>22, <1>23, <1>24 DEF Next, Arrive, Connect, Finish, Return, Serve,
     Noticed

\* Every step keeps tasks in the table or awaited.
LEMMA TrackedStep ==
  ASSUME Inv, Next
  PROVE  Tracked'
<1> USE TunnelAssumption DEF tables, history, TaskType, CallType, NoTask, NoCall
<1>1. ASSUME NEW c \in Callers, NEW r \in Rules, NEW i \in Identities,
             Reserve(c, r, i)
      PROVE  Tracked'
  BY <1>1 DEF Reserve, Saved, Stopped, MayListen, Running, Pending, Inv,
     Tracked, TablesOK, TasksOK, CallsOK, TaskShape, EntryShape, LockShape,
     CallShape, ClosingShape, Reserved
<1>2. ASSUME NEW c \in Callers, NEW r \in Rules, NEW x \in Contents, Save(c,
             r, x)
      PROVE  Tracked'
  BY <1>2 DEF Save, Edit, MayEdit, Stopped, Shutdown, Signalled, Saved,
     Running, Pending, Inv, Tracked, TablesOK, TasksOK, CallsOK, TaskShape,
     EntryShape, LockShape, CallShape, ClosingShape, Reserved
<1>3. ASSUME NEW c \in Callers, NEW r \in Rules, Delete(c, r)
      PROVE  Tracked'
  BY <1>3 DEF Delete, Edit, MayEdit, Stopped, Shutdown, Signalled, Saved,
     Running, Pending, Inv, Tracked, TablesOK, TasksOK, CallsOK, TaskShape,
     EntryShape, LockShape, CallShape, ClosingShape, Reserved
<1>4. ASSUME NEW c \in Callers, NEW r \in Rules, Stop(c, r)
      PROVE  Tracked'
  BY <1>4 DEF Stop, Shutdown, Signalled, Saved, Inv, Tracked, TablesOK,
     TasksOK, CallsOK, TaskShape, EntryShape, LockShape, CallShape,
     ClosingShape, Reserved
<1>5. ASSUME NEW c \in Callers, NEW r \in Rules, Check(c, r)
      PROVE  Tracked'
  BY <1>5 DEF Check, Saved, Running, Pending, Inv, Tracked, TablesOK, TasksOK,
     CallsOK, TaskShape, EntryShape, LockShape, CallShape, ClosingShape,
     Reserved
<1>6. ASSUME NEW c \in Callers, Reuse(c)
      PROVE  Tracked'
  BY <1>6 DEF Reuse, Opened, Inv, Tracked, TablesOK, TasksOK, CallsOK,
     TaskShape, EntryShape, LockShape, CallShape, ClosingShape, Reserved
<1>7. ASSUME NEW c \in Callers, Authenticate(c)
      PROVE  Tracked'
  BY <1>7 DEF Authenticate, Inv, Tracked, TablesOK, TasksOK, CallsOK,
     TaskShape, EntryShape, LockShape, CallShape, ClosingShape, Reserved
<1>8. ASSUME NEW c \in Callers, NEW k \in Conns, Authenticated(c, k)
      PROVE  Tracked'
  BY <1>8 DEF Authenticated, Opened, Inv, Tracked, TablesOK, TasksOK, CallsOK,
     TaskShape, EntryShape, LockShape, CallShape, ClosingShape, Reserved
<1>9. ASSUME NEW c \in Callers, NEW o \in {"failed", "required"}, Refused(c,
             o)
      PROVE  Tracked'
  BY <1>9 DEF Refused, Opened, Inv, Tracked, TablesOK, TasksOK, CallsOK,
     TaskShape, EntryShape, LockShape, CallShape, ClosingShape, Reserved
<1>10. ASSUME NEW c \in Callers, NEW o \in {"failed", "stopped"}, GiveUp(c, o)
      PROVE  Tracked'
  BY <1>10 DEF GiveUp, Opened, Inv, Tracked, TablesOK, TasksOK, CallsOK,
     TaskShape, EntryShape, LockShape, CallShape, ClosingShape, Reserved
<1>11. ASSUME NEW c \in Callers, Obsolete(c)
      PROVE  Tracked'
  BY <1>11 DEF Obsolete, Current, Inv, Tracked, TablesOK, TasksOK, CallsOK,
     TaskShape, EntryShape, LockShape, CallShape, ClosingShape, Reserved
<1>12. ASSUME NEW c \in Callers, Bind(c)
      PROVE  Tracked'
  <2> DEFINE r == call[c].rule
  <2>1. r \in Rules /\ r \notin Running /\ lock' = c /\ call'[c].task = live[r]
    BY <1>12 DEF Bind, Current, Shutdown, Inv, CallShape, Reserved, CallsOK
  <2>2. \A u \in Tasks : /\ task'[u].at = task[u].at
                         /\ task'[u].rule = task[u].rule
                         /\ task'[u].content = task[u].content
    BY <1>12 DEF Bind, Signalled, Inv, TasksOK
  <2>3. UNCHANGED rules /\ live' = [live EXCEPT ![r] = None]
    BY <1>12 DEF Bind
  <2>4. live[r] # None => task[live[r]].at \notin {"loop", "drain"}
    BY <2>1 DEF Running, Inv, TaskShape, TablesOK
  <2>5. \A u \in Tasks : task[u].at # "none" => task[u].rule \in Rules
    BY DEF Inv, TaskShape
  <2>6. lock = None  BY <1>12 DEF Bind
  <2> HIDE DEF r
  <2> QED
    BY <2>1, <2>2, <2>3, <2>4, <2>5, <2>6 DEF Tracked, Inv, TablesOK
<1>13. ASSUME NEW c \in Callers, StartFailed(c)
      PROVE  Tracked'
  <2> DEFINE r == call[c].rule
  <2>1. r \in Rules /\ r \notin Running /\ lock' = c /\ call'[c].task = live[r]
    BY <1>13 DEF StartFailed, Current, Shutdown, Inv, CallShape, Reserved, CallsOK
  <2>2. \A u \in Tasks : /\ task'[u].at = task[u].at
                         /\ task'[u].rule = task[u].rule
                         /\ task'[u].content = task[u].content
    BY <1>13 DEF StartFailed, Signalled, Inv, TasksOK
  <2>3. UNCHANGED rules /\ live' = [live EXCEPT ![r] = None]
    BY <1>13 DEF StartFailed
  <2>4. live[r] # None => task[live[r]].at \notin {"loop", "drain"}
    BY <2>1 DEF Running, Inv, TaskShape, TablesOK
  <2>5. \A u \in Tasks : task[u].at # "none" => task[u].rule \in Rules
    BY DEF Inv, TaskShape
  <2>6. lock = None  BY <1>13 DEF StartFailed
  <2> HIDE DEF r
  <2> QED
    BY <2>1, <2>2, <2>3, <2>4, <2>5, <2>6 DEF Tracked, Inv, TablesOK
<1>14. ASSUME NEW c \in Callers, StartRefused(c)
      PROVE  Tracked'
  BY <1>14 DEF StartRefused, Current, Inv, Tracked, TablesOK, TasksOK,
     CallsOK, TaskShape, EntryShape, LockShape, CallShape, ClosingShape,
     Reserved
<1>15. ASSUME NEW c \in Callers, RecordFailure(c)
      PROVE  Tracked'
  BY <1>15 DEF RecordFailure, Ended, Dropped, Inv, Tracked, TablesOK, TasksOK,
     CallsOK, TaskShape, EntryShape, LockShape, CallShape, ClosingShape,
     Reserved
<1>16. ASSUME NEW c \in Callers, ClosedDown(c)
      PROVE  Tracked'
  BY <1>16 DEF ClosedDown, Ended, Dropped, Inv, Tracked, TablesOK, TasksOK,
     CallsOK, TaskShape, EntryShape, LockShape, CallShape, ClosingShape,
     Reserved
<1>17. ASSUME NEW c \in Callers, NEW t \in Tasks, Listen(c, t)
      PROVE  Tracked'
  BY <1>17 DEF Listen, Ended, Dropped, Free, Inv, Tracked, TablesOK, TasksOK,
     CallsOK, TaskShape, EntryShape, LockShape, CallShape, ClosingShape,
     Reserved
<1>18. ASSUME NEW c \in Callers, NEW ok \in BOOLEAN, Probed(c, ok)
      PROVE  Tracked'
  BY <1>18 DEF Probed, StillRunning, Inv, Tracked, TablesOK, TasksOK, CallsOK,
     TaskShape, EntryShape, LockShape, CallShape, ClosingShape, Reserved
<1>19. ASSUME NEW t \in Tasks, Accept(t)
      PROVE  Tracked'
  BY <1>19 DEF Accept, Inv, Tracked, TablesOK, TasksOK, CallsOK, TaskShape,
     EntryShape, LockShape, CallShape, ClosingShape, Reserved
<1>20. ASSUME NEW t \in Tasks, StreamEnds(t)
      PROVE  Tracked'
  BY <1>20 DEF StreamEnds, Inv, Tracked, TablesOK, TasksOK, CallsOK,
     TaskShape, EntryShape, LockShape, CallShape, ClosingShape, Reserved
<1>21. ASSUME NEW t \in Tasks, NEW s \in {"Stopped", "Interrupted", "Error"},
             Break(t, s)
      PROVE  Tracked'
  BY <1>21 DEF Break, Inv, Tracked, TablesOK, TasksOK, CallsOK, TaskShape,
     EntryShape, LockShape, CallShape, ClosingShape, Reserved
<1>22. ASSUME NEW t \in Tasks, Settle(t)
      PROVE  Tracked'
  BY <1>22 DEF Settle, Inv, Tracked, TablesOK, TasksOK, CallsOK, TaskShape,
     EntryShape, LockShape, CallShape, ClosingShape, Reserved
<1>23. ASSUME NEW t \in Tasks, Release(t)
      PROVE  Tracked'
  BY <1>23 DEF Release, Inv, Tracked, TablesOK, TasksOK, CallsOK, TaskShape,
     EntryShape, LockShape, CallShape, ClosingShape, Reserved
<1>24. ASSUME NEW k \in Conns, LoseTransport(k)
      PROVE  Tracked'
  BY <1>24 DEF LoseTransport, Inv, Tracked, TablesOK, TasksOK, CallsOK,
     TaskShape, EntryShape, LockShape, CallShape, ClosingShape, Reserved
<1> QED
  BY <1>1, <1>2, <1>3, <1>4, <1>5, <1>6, <1>7, <1>8, <1>9, <1>10, <1>11,
     <1>12, <1>13, <1>14, <1>15, <1>16, <1>17, <1>18, <1>19, <1>20, <1>21,
     <1>22, <1>23, <1>24 DEF Next, Arrive, Connect, Finish, Return, Serve,
     Noticed

\* Every step keeps references on the identity they were asked for.
LEMMA ReferencesStep ==
  ASSUME Inv, Next
  PROVE  References'
<1> USE TunnelAssumption DEF tables, history, TaskType, CallType, NoTask, NoCall
<1>1. ASSUME NEW c \in Callers, NEW r \in Rules, NEW i \in Identities,
             Reserve(c, r, i)
      PROVE  References'
  BY <1>1, ReferencesFrame DEF Reserve, Saved, Stopped, MayListen, Inv,
     TablesOK, TasksOK, CallsOK
<1>2. ASSUME NEW c \in Callers, NEW r \in Rules, NEW x \in Contents, Save(c,
             r, x)
      PROVE  References'
  BY <1>2, ReferencesFrame DEF Save, Edit, MayEdit, Stopped, Shutdown,
     Signalled, Saved, Inv, TablesOK, TasksOK, CallsOK
<1>3. ASSUME NEW c \in Callers, NEW r \in Rules, Delete(c, r)
      PROVE  References'
  BY <1>3, ReferencesFrame DEF Delete, Edit, MayEdit, Stopped, Shutdown,
     Signalled, Saved, Inv, TablesOK, TasksOK, CallsOK
<1>4. ASSUME NEW c \in Callers, NEW r \in Rules, Stop(c, r)
      PROVE  References'
  BY <1>4, ReferencesFrame DEF Stop, Shutdown, Signalled, Saved, Inv,
     TablesOK, TasksOK, CallsOK
<1>5. ASSUME NEW c \in Callers, NEW r \in Rules, Check(c, r)
      PROVE  References'
  BY <1>5, ReferencesFrame DEF Check, Saved, Inv, TablesOK, TasksOK, CallsOK
<1>6. ASSUME NEW c \in Callers, Reuse(c)
      PROVE  References'
  <2> DEFINE k == pool[IdProfile[call[c].asked]].conn
  <2>1. IdProfile[call[c].asked] \in Profiles
    BY <1>6 DEF Reuse, Inv, CallShape, Profiles
  <2>2. k # None /\ Owned(k)
    BY <1>6 DEF Reuse, Reusable, Closed
  <2>3. conn[k].identity = call[c].asked
    BY <1>6, <2>1, <2>2 DEF Reuse, Reusable, Inv, References
  <2>4. /\ UNCHANGED <<pool, conn, task>>
        /\ \A d \in Callers :
             /\ call'[d].asked = call[d].asked
             /\ d # c => call'[d].conn = call[d].conn
        /\ call'[c].conn = k
    BY <1>6 DEF Reuse, Opened, Inv, CallsOK
  <2> HIDE DEF k
  <2>5. \A l : Owned(l)' => Owned(l)
    BY <2>2, <2>4 DEF Owned
  <2>6. \A d \in Callers : call'[d].conn # None =>
          conn'[call'[d].conn].identity = call'[d].asked
    BY <2>3, <2>4 DEF Inv, References
  <2> QED  BY <2>4, <2>5, <2>6 DEF Inv, References
<1>7. ASSUME NEW c \in Callers, Authenticate(c)
      PROVE  References'
  BY <1>7, ReferencesFrame DEF Authenticate, Inv, TablesOK, TasksOK, CallsOK
<1>8. ASSUME NEW c \in Callers, NEW k \in Conns, Authenticated(c, k)
      PROVE  References'
  <2> DEFINE i == call[c].asked
  <2>1. i \in Identities /\ IdProfile[i] \in Profiles
    BY <1>8 DEF Authenticated, Inv, CallShape, Profiles
  <2>2. ~Owned(k) /\ k # None  BY <1>8, TunnelAssumption DEF Authenticated
  <2>3. /\ conn' = [conn EXCEPT ![k] = [identity |-> i, open |-> TRUE]]
        /\ UNCHANGED task
        /\ \A p \in Profiles :
             pool'[p] = IF p = IdProfile[i] THEN [identity |-> i, conn |-> k]
                        ELSE IF pool[p].conn = k THEN NoPool ELSE pool[p]
    BY <1>8 DEF Authenticated
  <2>4. /\ \A d \in Callers : call'[d].asked = call[d].asked
        /\ \A d \in Callers \ {c} : call'[d].conn = call[d].conn
        /\ call'[c].conn = k
    BY <1>8 DEF Authenticated, Opened, Inv, CallsOK
  <2>5. \A l \in Conns \ {k} : conn'[l] = conn[l] /\ (Owned(l)' => Owned(l))
    BY <2>3, <2>4 DEF Inv, PoolOK, Owned
  <2>6. conn'[k].identity = i  BY <2>3 DEF Inv, PoolOK
  <2>7. /\ \A d \in Callers : call[d].conn \in (Conns \ {k}) \cup {None}
        /\ \A p \in Profiles : pool[p].conn \in Conns \cup {None}
    BY <2>2 DEF Inv, CallsOK, PoolOK, Owned
  <2> HIDE DEF i
  <2>8. \A d \in Callers : call'[d].conn # None =>
          conn'[call'[d].conn].identity = call'[d].asked
    BY <2>4, <2>5, <2>6, <2>7 DEF Inv, References, i
  <2>9. ASSUME NEW p \in Profiles, pool'[p].conn # None, Owned(pool[p].conn)'
        PROVE  conn'[pool'[p].conn].identity = pool'[p].identity
    <3>1. CASE p = IdProfile[i]  BY <2>3, <2>6, <3>1
    <3>2. CASE p # IdProfile[i]
      <4>1. pool'[p] = IF pool[p].conn = k THEN NoPool ELSE pool[p]
        BY <2>3, <3>2
      <4>2. pool[p].conn # k
        <5>1. ASSUME pool[p].conn = k  PROVE FALSE
          <6>1. pool'[p] = NoPool  BY <4>1, <5>1
          <6>2. NoPool.conn = None  BY DEF NoPool
          <6> QED  BY <2>9, <6>1, <6>2
        <5> QED  BY <5>1
      <4>3. pool'[p] = pool[p]  BY <4>1, <4>2
      <4> QED  BY <2>5, <2>7, <2>9, <4>2, <4>3 DEF Inv, References
    <3> QED  BY <3>1, <3>2
  <2> QED  BY <2>8, <2>9 DEF References
<1>9. ASSUME NEW c \in Callers, NEW o \in {"failed", "required"}, Refused(c,
             o)
      PROVE  References'
  BY <1>9, ReferencesFrame DEF Refused, Opened, Inv, TablesOK, TasksOK,
     CallsOK
<1>10. ASSUME NEW c \in Callers, NEW o \in {"failed", "stopped"}, GiveUp(c, o)
      PROVE  References'
  BY <1>10, ReferencesFrame DEF GiveUp, Opened, Inv, TablesOK, TasksOK,
     CallsOK
<1>11. ASSUME NEW c \in Callers, Obsolete(c)
      PROVE  References'
  BY <1>11, ReferencesFrame DEF Obsolete, Current, Inv, TablesOK, TasksOK,
     CallsOK
<1>12. ASSUME NEW c \in Callers, Bind(c)
      PROVE  References'
  BY <1>12, ReferencesFrame DEF Bind, Current, Shutdown, Signalled, Inv,
     TablesOK, TasksOK, CallsOK
<1>13. ASSUME NEW c \in Callers, StartFailed(c)
      PROVE  References'
  BY <1>13, ReferencesFrame DEF StartFailed, Current, Shutdown, Signalled,
     Inv, TablesOK, TasksOK, CallsOK
<1>14. ASSUME NEW c \in Callers, StartRefused(c)
      PROVE  References'
  BY <1>14, ReferencesFrame DEF StartRefused, Current, Inv, TablesOK, TasksOK,
     CallsOK
<1>15. ASSUME NEW c \in Callers, RecordFailure(c)
      PROVE  References'
  BY <1>15, ReferencesFrame DEF RecordFailure, Ended, Dropped, Inv, TablesOK,
     TasksOK, CallsOK
<1>16. ASSUME NEW c \in Callers, ClosedDown(c)
      PROVE  References'
  BY <1>16, ReferencesFrame DEF ClosedDown, Ended, Dropped, Inv, TablesOK,
     TasksOK, CallsOK
<1>17. ASSUME NEW c \in Callers, NEW t \in Tasks, Listen(c, t)
      PROVE  References'
  <2>1. \A u \in Tasks : task'[u].conn \in {None, task[u].conn, call[c].conn}
    BY <1>17 DEF Listen, Dropped, Inv, TasksOK
  <2>2. \A d \in Callers : call'[d].conn # None =>
          call'[d].conn = call[d].conn /\ call'[d].asked = call[d].asked
    BY <1>17 DEF Listen, Inv, CallsOK
  <2>3. \A k : k # None /\ Owned(k)' => Owned(k)
    BY <2>1, <2>2 DEF Owned
  <2>4. UNCHANGED <<pool, conn>>  BY <1>17 DEF Listen
  <2> QED  BY <2>2, <2>3, <2>4 DEF Inv, References
<1>18. ASSUME NEW c \in Callers, NEW ok \in BOOLEAN, Probed(c, ok)
      PROVE  References'
  BY <1>18, ReferencesFrame DEF Probed, StillRunning, Inv, TablesOK, TasksOK,
     CallsOK
<1>19. ASSUME NEW t \in Tasks, Accept(t)
      PROVE  References'
  BY <1>19, ReferencesFrame DEF Accept, Inv, TablesOK, TasksOK, CallsOK
<1>20. ASSUME NEW t \in Tasks, StreamEnds(t)
      PROVE  References'
  BY <1>20, ReferencesFrame DEF StreamEnds, Inv, TablesOK, TasksOK, CallsOK
<1>21. ASSUME NEW t \in Tasks, NEW s \in {"Stopped", "Interrupted", "Error"},
             Break(t, s)
      PROVE  References'
  BY <1>21, ReferencesFrame DEF Break, Inv, TablesOK, TasksOK, CallsOK
<1>22. ASSUME NEW t \in Tasks, Settle(t)
      PROVE  References'
  BY <1>22, ReferencesFrame DEF Settle, Inv, TablesOK, TasksOK, CallsOK
<1>23. ASSUME NEW t \in Tasks, Release(t)
      PROVE  References'
  BY <1>23, ReferencesFrame DEF Release, Inv, TablesOK, TasksOK, CallsOK
<1>24. ASSUME NEW k \in Conns, LoseTransport(k)
      PROVE  References'
  <2>1. UNCHANGED <<pool, task, call>>  BY <1>24 DEF LoseTransport
  <2>2. \A l \in Conns : conn'[l].identity = conn[l].identity
    BY <1>24 DEF LoseTransport, Inv, PoolOK
  <2>3. \A l : Owned(l)' <=> Owned(l)  BY <2>1 DEF Owned
  <2>4. /\ \A d \in Callers : call[d].conn \in Conns \cup {None}
        /\ \A p \in Profiles : pool[p].conn \in Conns \cup {None}
    BY DEF Inv, CallsOK, PoolOK
  <2> QED  BY <2>1, <2>2, <2>3, <2>4 DEF Inv, References
<1> QED
  BY <1>1, <1>2, <1>3, <1>4, <1>5, <1>6, <1>7, <1>8, <1>9, <1>10, <1>11,
     <1>12, <1>13, <1>14, <1>15, <1>16, <1>17, <1>18, <1>19, <1>20, <1>21,
     <1>22, <1>23, <1>24 DEF Next, Arrive, Connect, Finish, Return, Serve,
     Noticed

\* No step puts a tunnel on a connection of another identity.
LEMMA IdentityMatchesStep ==
  ASSUME Inv, Next
  PROVE  IdentityMatches'
<1> USE TunnelAssumption DEF tables, history, TaskType, CallType, NoTask, NoCall
<1>1. ASSUME NEW c \in Callers, NEW r \in Rules, NEW i \in Identities,
             Reserve(c, r, i)
      PROVE  IdentityMatches'
  BY <1>1 DEF Reserve, Saved, Stopped, MayListen, Running, Pending, Inv,
     IdentityMatches, TablesOK, TasksOK, CallsOK, References, CallShape, Owned
<1>2. ASSUME NEW c \in Callers, NEW r \in Rules, NEW x \in Contents, Save(c,
             r, x)
      PROVE  IdentityMatches'
  BY <1>2 DEF Save, Edit, MayEdit, Stopped, Shutdown, Signalled, Saved,
     Running, Pending, Inv, IdentityMatches, TablesOK, TasksOK, CallsOK,
     References, CallShape, Owned
<1>3. ASSUME NEW c \in Callers, NEW r \in Rules, Delete(c, r)
      PROVE  IdentityMatches'
  BY <1>3 DEF Delete, Edit, MayEdit, Stopped, Shutdown, Signalled, Saved,
     Running, Pending, Inv, IdentityMatches, TablesOK, TasksOK, CallsOK,
     References, CallShape, Owned
<1>4. ASSUME NEW c \in Callers, NEW r \in Rules, Stop(c, r)
      PROVE  IdentityMatches'
  BY <1>4 DEF Stop, Shutdown, Signalled, Saved, Inv, IdentityMatches,
     TablesOK, TasksOK, CallsOK, References, CallShape, Owned
<1>5. ASSUME NEW c \in Callers, NEW r \in Rules, Check(c, r)
      PROVE  IdentityMatches'
  BY <1>5 DEF Check, Saved, Running, Pending, Inv, IdentityMatches, TablesOK,
     TasksOK, CallsOK, References, CallShape, Owned
<1>6. ASSUME NEW c \in Callers, Reuse(c)
      PROVE  IdentityMatches'
  BY <1>6 DEF Reuse, Reusable, Opened, Inv, IdentityMatches, TablesOK,
     TasksOK, CallsOK, References, CallShape, Owned
<1>7. ASSUME NEW c \in Callers, Authenticate(c)
      PROVE  IdentityMatches'
  BY <1>7 DEF Authenticate, Inv, IdentityMatches, TablesOK, TasksOK, CallsOK,
     References, CallShape, Owned
<1>8. ASSUME NEW c \in Callers, NEW k \in Conns, Authenticated(c, k)
      PROVE  IdentityMatches'
  BY <1>8 DEF Authenticated, Opened, Inv, IdentityMatches, TablesOK, TasksOK,
     CallsOK, References, CallShape, Owned
<1>9. ASSUME NEW c \in Callers, NEW o \in {"failed", "required"}, Refused(c,
             o)
      PROVE  IdentityMatches'
  BY <1>9 DEF Refused, Opened, Inv, IdentityMatches, TablesOK, TasksOK,
     CallsOK, References, CallShape, Owned
<1>10. ASSUME NEW c \in Callers, NEW o \in {"failed", "stopped"}, GiveUp(c, o)
      PROVE  IdentityMatches'
  BY <1>10 DEF GiveUp, Opened, Inv, IdentityMatches, TablesOK, TasksOK,
     CallsOK, References, CallShape, Owned
<1>11. ASSUME NEW c \in Callers, Obsolete(c)
      PROVE  IdentityMatches'
  BY <1>11 DEF Obsolete, Current, Inv, IdentityMatches, TablesOK, TasksOK,
     CallsOK, References, CallShape, Owned
<1>12. ASSUME NEW c \in Callers, Bind(c)
      PROVE  IdentityMatches'
  BY <1>12 DEF Bind, Current, Shutdown, Signalled, Inv, IdentityMatches,
     TablesOK, TasksOK, CallsOK, References, CallShape, Owned
<1>13. ASSUME NEW c \in Callers, StartFailed(c)
      PROVE  IdentityMatches'
  BY <1>13 DEF StartFailed, Current, Shutdown, Signalled, Inv,
     IdentityMatches, TablesOK, TasksOK, CallsOK, References, CallShape, Owned
<1>14. ASSUME NEW c \in Callers, StartRefused(c)
      PROVE  IdentityMatches'
  BY <1>14 DEF StartRefused, Current, Inv, IdentityMatches, TablesOK, TasksOK,
     CallsOK, References, CallShape, Owned
<1>15. ASSUME NEW c \in Callers, RecordFailure(c)
      PROVE  IdentityMatches'
  BY <1>15 DEF RecordFailure, Ended, Dropped, Inv, IdentityMatches, TablesOK,
     TasksOK, CallsOK, References, CallShape, Owned
<1>16. ASSUME NEW c \in Callers, ClosedDown(c)
      PROVE  IdentityMatches'
  BY <1>16 DEF ClosedDown, Ended, Dropped, Inv, IdentityMatches, TablesOK,
     TasksOK, CallsOK, References, CallShape, Owned
<1>17. ASSUME NEW c \in Callers, NEW t \in Tasks, Listen(c, t)
      PROVE  IdentityMatches'
  BY <1>17 DEF Listen, Ended, Dropped, Free, Inv, IdentityMatches, TablesOK,
     TasksOK, CallsOK, References, CallShape, Owned
<1>18. ASSUME NEW c \in Callers, NEW ok \in BOOLEAN, Probed(c, ok)
      PROVE  IdentityMatches'
  BY <1>18 DEF Probed, StillRunning, Inv, IdentityMatches, TablesOK, TasksOK,
     CallsOK, References, CallShape, Owned
<1>19. ASSUME NEW t \in Tasks, Accept(t)
      PROVE  IdentityMatches'
  BY <1>19 DEF Accept, Inv, IdentityMatches, TablesOK, TasksOK, CallsOK,
     References, CallShape, Owned
<1>20. ASSUME NEW t \in Tasks, StreamEnds(t)
      PROVE  IdentityMatches'
  BY <1>20 DEF StreamEnds, Inv, IdentityMatches, TablesOK, TasksOK, CallsOK,
     References, CallShape, Owned
<1>21. ASSUME NEW t \in Tasks, NEW s \in {"Stopped", "Interrupted", "Error"},
             Break(t, s)
      PROVE  IdentityMatches'
  BY <1>21 DEF Break, Inv, IdentityMatches, TablesOK, TasksOK, CallsOK,
     References, CallShape, Owned
<1>22. ASSUME NEW t \in Tasks, Settle(t)
      PROVE  IdentityMatches'
  BY <1>22 DEF Settle, Inv, IdentityMatches, TablesOK, TasksOK, CallsOK,
     References, CallShape, Owned
<1>23. ASSUME NEW t \in Tasks, Release(t)
      PROVE  IdentityMatches'
  BY <1>23 DEF Release, Inv, IdentityMatches, TablesOK, TasksOK, CallsOK,
     References, CallShape, Owned
<1>24. ASSUME NEW k \in Conns, LoseTransport(k)
      PROVE  IdentityMatches'
  BY <1>24 DEF LoseTransport, Inv, IdentityMatches, TablesOK, TasksOK,
     CallsOK, References, CallShape, Owned
<1> QED
  BY <1>1, <1>2, <1>3, <1>4, <1>5, <1>6, <1>7, <1>8, <1>9, <1>10, <1>11,
     <1>12, <1>13, <1>14, <1>15, <1>16, <1>17, <1>18, <1>19, <1>20, <1>21,
     <1>22, <1>23, <1>24 DEF Next, Arrive, Connect, Finish, Return, Serve,
     Noticed

\* No step lets a cancelled start listen.
LEMMA CancelledNeverListensStep ==
  ASSUME Inv, Next
  PROVE  CancelledNeverListens'
<1> USE TunnelAssumption DEF tables, history, TaskType, CallType, NoTask, NoCall
<1>1. ASSUME NEW c \in Callers, NEW r \in Rules, NEW i \in Identities,
             Reserve(c, r, i)
      PROVE  CancelledNeverListens'
  BY <1>1 DEF Reserve, Saved, Stopped, MayListen, Running, Pending, Inv,
     CancelledNeverListens, TablesOK, TasksOK, CallsOK, Reserved, CallShape,
     ClosingShape
<1>2. ASSUME NEW c \in Callers, NEW r \in Rules, NEW x \in Contents, Save(c,
             r, x)
      PROVE  CancelledNeverListens'
  BY <1>2 DEF Save, Edit, MayEdit, Stopped, Shutdown, Signalled, Saved,
     Running, Pending, Inv, CancelledNeverListens, TablesOK, TasksOK, CallsOK,
     Reserved, CallShape, ClosingShape
<1>3. ASSUME NEW c \in Callers, NEW r \in Rules, Delete(c, r)
      PROVE  CancelledNeverListens'
  BY <1>3 DEF Delete, Edit, MayEdit, Stopped, Shutdown, Signalled, Saved,
     Running, Pending, Inv, CancelledNeverListens, TablesOK, TasksOK, CallsOK,
     Reserved, CallShape, ClosingShape
<1>4. ASSUME NEW c \in Callers, NEW r \in Rules, Stop(c, r)
      PROVE  CancelledNeverListens'
  BY <1>4 DEF Stop, Shutdown, Signalled, Saved, Inv, CancelledNeverListens,
     TablesOK, TasksOK, CallsOK, Reserved, CallShape, ClosingShape
<1>5. ASSUME NEW c \in Callers, NEW r \in Rules, Check(c, r)
      PROVE  CancelledNeverListens'
  BY <1>5 DEF Check, Saved, Running, Pending, Inv, CancelledNeverListens,
     TablesOK, TasksOK, CallsOK, Reserved, CallShape, ClosingShape
<1>6. ASSUME NEW c \in Callers, Reuse(c)
      PROVE  CancelledNeverListens'
  BY <1>6 DEF Reuse, Opened, Inv, CancelledNeverListens, TablesOK, TasksOK,
     CallsOK, Reserved, CallShape, ClosingShape
<1>7. ASSUME NEW c \in Callers, Authenticate(c)
      PROVE  CancelledNeverListens'
  BY <1>7 DEF Authenticate, Inv, CancelledNeverListens, TablesOK, TasksOK,
     CallsOK, Reserved, CallShape, ClosingShape
<1>8. ASSUME NEW c \in Callers, NEW k \in Conns, Authenticated(c, k)
      PROVE  CancelledNeverListens'
  BY <1>8 DEF Authenticated, Opened, Inv, CancelledNeverListens, TablesOK,
     TasksOK, CallsOK, Reserved, CallShape, ClosingShape
<1>9. ASSUME NEW c \in Callers, NEW o \in {"failed", "required"}, Refused(c,
             o)
      PROVE  CancelledNeverListens'
  BY <1>9 DEF Refused, Opened, Inv, CancelledNeverListens, TablesOK, TasksOK,
     CallsOK, Reserved, CallShape, ClosingShape
<1>10. ASSUME NEW c \in Callers, NEW o \in {"failed", "stopped"}, GiveUp(c, o)
      PROVE  CancelledNeverListens'
  BY <1>10 DEF GiveUp, Opened, Inv, CancelledNeverListens, TablesOK, TasksOK,
     CallsOK, Reserved, CallShape, ClosingShape
<1>11. ASSUME NEW c \in Callers, Obsolete(c)
      PROVE  CancelledNeverListens'
  BY <1>11 DEF Obsolete, Current, Inv, CancelledNeverListens, TablesOK,
     TasksOK, CallsOK, Reserved, CallShape, ClosingShape
<1>12. ASSUME NEW c \in Callers, Bind(c)
      PROVE  CancelledNeverListens'
  BY <1>12 DEF Bind, Current, Shutdown, Signalled, Inv, CancelledNeverListens,
     TablesOK, TasksOK, CallsOK, Reserved, CallShape, ClosingShape
<1>13. ASSUME NEW c \in Callers, StartFailed(c)
      PROVE  CancelledNeverListens'
  BY <1>13 DEF StartFailed, Current, Shutdown, Signalled, Inv,
     CancelledNeverListens, TablesOK, TasksOK, CallsOK, Reserved, CallShape,
     ClosingShape
<1>14. ASSUME NEW c \in Callers, StartRefused(c)
      PROVE  CancelledNeverListens'
  BY <1>14 DEF StartRefused, Current, Inv, CancelledNeverListens, TablesOK,
     TasksOK, CallsOK, Reserved, CallShape, ClosingShape
<1>15. ASSUME NEW c \in Callers, RecordFailure(c)
      PROVE  CancelledNeverListens'
  BY <1>15 DEF RecordFailure, Ended, Dropped, Inv, CancelledNeverListens,
     TablesOK, TasksOK, CallsOK, Reserved, CallShape, ClosingShape
<1>16. ASSUME NEW c \in Callers, ClosedDown(c)
      PROVE  CancelledNeverListens'
  BY <1>16 DEF ClosedDown, Ended, Dropped, Inv, CancelledNeverListens,
     TablesOK, TasksOK, CallsOK, Reserved, CallShape, ClosingShape
<1>17. ASSUME NEW c \in Callers, NEW t \in Tasks, Listen(c, t)
      PROVE  CancelledNeverListens'
  BY <1>17 DEF Listen, Ended, Dropped, Free, Inv, CancelledNeverListens,
     TablesOK, TasksOK, CallsOK, Reserved, CallShape, ClosingShape
<1>18. ASSUME NEW c \in Callers, NEW ok \in BOOLEAN, Probed(c, ok)
      PROVE  CancelledNeverListens'
  BY <1>18 DEF Probed, StillRunning, Inv, CancelledNeverListens, TablesOK,
     TasksOK, CallsOK, Reserved, CallShape, ClosingShape
<1>19. ASSUME NEW t \in Tasks, Accept(t)
      PROVE  CancelledNeverListens'
  BY <1>19 DEF Accept, Inv, CancelledNeverListens, TablesOK, TasksOK, CallsOK,
     Reserved, CallShape, ClosingShape
<1>20. ASSUME NEW t \in Tasks, StreamEnds(t)
      PROVE  CancelledNeverListens'
  BY <1>20 DEF StreamEnds, Inv, CancelledNeverListens, TablesOK, TasksOK,
     CallsOK, Reserved, CallShape, ClosingShape
<1>21. ASSUME NEW t \in Tasks, NEW s \in {"Stopped", "Interrupted", "Error"},
             Break(t, s)
      PROVE  CancelledNeverListens'
  BY <1>21 DEF Break, Inv, CancelledNeverListens, TablesOK, TasksOK, CallsOK,
     Reserved, CallShape, ClosingShape
<1>22. ASSUME NEW t \in Tasks, Settle(t)
      PROVE  CancelledNeverListens'
  BY <1>22 DEF Settle, Inv, CancelledNeverListens, TablesOK, TasksOK, CallsOK,
     Reserved, CallShape, ClosingShape
<1>23. ASSUME NEW t \in Tasks, Release(t)
      PROVE  CancelledNeverListens'
  BY <1>23 DEF Release, Inv, CancelledNeverListens, TablesOK, TasksOK,
     CallsOK, Reserved, CallShape, ClosingShape
<1>24. ASSUME NEW k \in Conns, LoseTransport(k)
      PROVE  CancelledNeverListens'
  BY <1>24 DEF LoseTransport, Inv, CancelledNeverListens, TablesOK, TasksOK,
     CallsOK, Reserved, CallShape, ClosingShape
<1> QED
  BY <1>1, <1>2, <1>3, <1>4, <1>5, <1>6, <1>7, <1>8, <1>9, <1>10, <1>11,
     <1>12, <1>13, <1>14, <1>15, <1>16, <1>17, <1>18, <1>19, <1>20, <1>21,
     <1>22, <1>23, <1>24 DEF Next, Arrive, Connect, Finish, Return, Serve,
     Noticed

\* No step brings a stopped rule back.
LEMMA StopIsFinalStep ==
  ASSUME Inv, Next
  PROVE  StopIsFinal'
<1> USE TunnelAssumption DEF tables, history, TaskType, CallType, NoTask, NoCall
<1>1. ASSUME NEW c \in Callers, NEW r \in Rules, NEW i \in Identities,
             Reserve(c, r, i)
      PROVE  StopIsFinal'
  BY <1>1 DEF Reserve, Saved, Stopped, MayListen, Running, Pending, Inv,
     StopIsFinal, TablesOK, TasksOK, CallsOK, Tracked, LockShape,
     ClosingShape, TaskShape, CallShape
<1>2. ASSUME NEW c \in Callers, NEW r \in Rules, NEW x \in Contents, Save(c,
             r, x)
      PROVE  StopIsFinal'
  BY <1>2 DEF Save, Edit, MayEdit, Stopped, Shutdown, Signalled, Saved,
     Running, Pending, Inv, StopIsFinal, TablesOK, TasksOK, CallsOK, Tracked,
     LockShape, ClosingShape, TaskShape, CallShape
<1>3. ASSUME NEW c \in Callers, NEW r \in Rules, Delete(c, r)
      PROVE  StopIsFinal'
  BY <1>3 DEF Delete, Edit, MayEdit, Stopped, Shutdown, Signalled, Saved,
     Running, Pending, Inv, StopIsFinal, TablesOK, TasksOK, CallsOK, Tracked,
     LockShape, ClosingShape, TaskShape, CallShape
<1>4. ASSUME NEW c \in Callers, NEW r \in Rules, Stop(c, r)
      PROVE  StopIsFinal'
  BY <1>4 DEF Stop, Shutdown, Signalled, Saved, Inv, StopIsFinal, TablesOK,
     TasksOK, CallsOK, Tracked, LockShape, ClosingShape, TaskShape, CallShape
<1>5. ASSUME NEW c \in Callers, NEW r \in Rules, Check(c, r)
      PROVE  StopIsFinal'
  BY <1>5 DEF Check, Saved, Running, Pending, Inv, StopIsFinal, TablesOK,
     TasksOK, CallsOK, Tracked, LockShape, ClosingShape, TaskShape, CallShape
<1>6. ASSUME NEW c \in Callers, Reuse(c)
      PROVE  StopIsFinal'
  BY <1>6 DEF Reuse, Opened, Inv, StopIsFinal, TablesOK, TasksOK, CallsOK,
     Tracked, LockShape, ClosingShape, TaskShape, CallShape
<1>7. ASSUME NEW c \in Callers, Authenticate(c)
      PROVE  StopIsFinal'
  BY <1>7 DEF Authenticate, Inv, StopIsFinal, TablesOK, TasksOK, CallsOK,
     Tracked, LockShape, ClosingShape, TaskShape, CallShape
<1>8. ASSUME NEW c \in Callers, NEW k \in Conns, Authenticated(c, k)
      PROVE  StopIsFinal'
  BY <1>8 DEF Authenticated, Opened, Inv, StopIsFinal, TablesOK, TasksOK,
     CallsOK, Tracked, LockShape, ClosingShape, TaskShape, CallShape
<1>9. ASSUME NEW c \in Callers, NEW o \in {"failed", "required"}, Refused(c,
             o)
      PROVE  StopIsFinal'
  BY <1>9 DEF Refused, Opened, Inv, StopIsFinal, TablesOK, TasksOK, CallsOK,
     Tracked, LockShape, ClosingShape, TaskShape, CallShape
<1>10. ASSUME NEW c \in Callers, NEW o \in {"failed", "stopped"}, GiveUp(c, o)
      PROVE  StopIsFinal'
  BY <1>10 DEF GiveUp, Opened, Inv, StopIsFinal, TablesOK, TasksOK, CallsOK,
     Tracked, LockShape, ClosingShape, TaskShape, CallShape
<1>11. ASSUME NEW c \in Callers, Obsolete(c)
      PROVE  StopIsFinal'
  BY <1>11 DEF Obsolete, Current, Inv, StopIsFinal, TablesOK, TasksOK,
     CallsOK, Tracked, LockShape, ClosingShape, TaskShape, CallShape
<1>12. ASSUME NEW c \in Callers, Bind(c)
      PROVE  StopIsFinal'
  BY <1>12 DEF Bind, Current, Shutdown, Signalled, Inv, StopIsFinal, TablesOK,
     TasksOK, CallsOK, Tracked, LockShape, ClosingShape, TaskShape, CallShape
<1>13. ASSUME NEW c \in Callers, StartFailed(c)
      PROVE  StopIsFinal'
  BY <1>13 DEF StartFailed, Current, Shutdown, Signalled, Inv, StopIsFinal,
     TablesOK, TasksOK, CallsOK, Tracked, LockShape, ClosingShape, TaskShape,
     CallShape
<1>14. ASSUME NEW c \in Callers, StartRefused(c)
      PROVE  StopIsFinal'
  BY <1>14 DEF StartRefused, Current, Inv, StopIsFinal, TablesOK, TasksOK,
     CallsOK, Tracked, LockShape, ClosingShape, TaskShape, CallShape
<1>15. ASSUME NEW c \in Callers, RecordFailure(c)
      PROVE  StopIsFinal'
  BY <1>15 DEF RecordFailure, Ended, Dropped, Inv, StopIsFinal, TablesOK,
     TasksOK, CallsOK, Tracked, LockShape, ClosingShape, TaskShape, CallShape
<1>16. ASSUME NEW c \in Callers, ClosedDown(c)
      PROVE  StopIsFinal'
  BY <1>16 DEF ClosedDown, Ended, Dropped, Inv, StopIsFinal, TablesOK,
     TasksOK, CallsOK, Tracked, LockShape, ClosingShape, TaskShape, CallShape
<1>17. ASSUME NEW c \in Callers, NEW t \in Tasks, Listen(c, t)
      PROVE  StopIsFinal'
  BY <1>17 DEF Listen, Ended, Dropped, Free, Inv, StopIsFinal, TablesOK,
     TasksOK, CallsOK, Tracked, LockShape, ClosingShape, TaskShape, CallShape
<1>18. ASSUME NEW c \in Callers, NEW ok \in BOOLEAN, Probed(c, ok)
      PROVE  StopIsFinal'
  BY <1>18 DEF Probed, StillRunning, Inv, StopIsFinal, TablesOK, TasksOK,
     CallsOK, Tracked, LockShape, ClosingShape, TaskShape, CallShape
<1>19. ASSUME NEW t \in Tasks, Accept(t)
      PROVE  StopIsFinal'
  BY <1>19 DEF Accept, Inv, StopIsFinal, TablesOK, TasksOK, CallsOK, Tracked,
     LockShape, ClosingShape, TaskShape, CallShape
<1>20. ASSUME NEW t \in Tasks, StreamEnds(t)
      PROVE  StopIsFinal'
  BY <1>20 DEF StreamEnds, Inv, StopIsFinal, TablesOK, TasksOK, CallsOK,
     Tracked, LockShape, ClosingShape, TaskShape, CallShape
<1>21. ASSUME NEW t \in Tasks, NEW s \in {"Stopped", "Interrupted", "Error"},
             Break(t, s)
      PROVE  StopIsFinal'
  BY <1>21 DEF Break, Inv, StopIsFinal, TablesOK, TasksOK, CallsOK, Tracked,
     LockShape, ClosingShape, TaskShape, CallShape
<1>22. ASSUME NEW t \in Tasks, Settle(t)
      PROVE  StopIsFinal'
  BY <1>22 DEF Settle, Inv, StopIsFinal, TablesOK, TasksOK, CallsOK, Tracked,
     LockShape, ClosingShape, TaskShape, CallShape
<1>23. ASSUME NEW t \in Tasks, Release(t)
      PROVE  StopIsFinal'
  BY <1>23 DEF Release, Inv, StopIsFinal, TablesOK, TasksOK, CallsOK, Tracked,
     LockShape, ClosingShape, TaskShape, CallShape
<1>24. ASSUME NEW k \in Conns, LoseTransport(k)
      PROVE  StopIsFinal'
  BY <1>24 DEF LoseTransport, Inv, StopIsFinal, TablesOK, TasksOK, CallsOK,
     Tracked, LockShape, ClosingShape, TaskShape, CallShape
<1> QED
  BY <1>1, <1>2, <1>3, <1>4, <1>5, <1>6, <1>7, <1>8, <1>9, <1>10, <1>11,
     <1>12, <1>13, <1>14, <1>15, <1>16, <1>17, <1>18, <1>19, <1>20, <1>21,
     <1>22, <1>23, <1>24 DEF Next, Arrive, Connect, Finish, Return, Serve,
     Noticed

\* No step hides a failure behind an entry.
LEMMA FailureIsShownStep ==
  ASSUME Inv, Next
  PROVE  FailureIsShown'
<1> USE TunnelAssumption DEF tables, history, TaskType, CallType, NoTask, NoCall
<1>1. ASSUME NEW c \in Callers, NEW r \in Rules, NEW i \in Identities,
             Reserve(c, r, i)
      PROVE  FailureIsShown'
  BY <1>1 DEF Reserve, Saved, Stopped, MayListen, Running, Pending, Inv,
     FailureIsShown, TablesOK, TasksOK, CallsOK, ClosingShape
<1>2. ASSUME NEW c \in Callers, NEW r \in Rules, NEW x \in Contents, Save(c,
             r, x)
      PROVE  FailureIsShown'
  BY <1>2 DEF Save, Edit, MayEdit, Stopped, Shutdown, Signalled, Saved,
     Running, Pending, Inv, FailureIsShown, TablesOK, TasksOK, CallsOK,
     ClosingShape
<1>3. ASSUME NEW c \in Callers, NEW r \in Rules, Delete(c, r)
      PROVE  FailureIsShown'
  BY <1>3 DEF Delete, Edit, MayEdit, Stopped, Shutdown, Signalled, Saved,
     Running, Pending, Inv, FailureIsShown, TablesOK, TasksOK, CallsOK,
     ClosingShape
<1>4. ASSUME NEW c \in Callers, NEW r \in Rules, Stop(c, r)
      PROVE  FailureIsShown'
  BY <1>4 DEF Stop, Shutdown, Signalled, Saved, Inv, FailureIsShown, TablesOK,
     TasksOK, CallsOK, ClosingShape
<1>5. ASSUME NEW c \in Callers, NEW r \in Rules, Check(c, r)
      PROVE  FailureIsShown'
  BY <1>5 DEF Check, Saved, Running, Pending, Inv, FailureIsShown, TablesOK,
     TasksOK, CallsOK, ClosingShape
<1>6. ASSUME NEW c \in Callers, Reuse(c)
      PROVE  FailureIsShown'
  BY <1>6 DEF Reuse, Opened, Inv, FailureIsShown, TablesOK, TasksOK, CallsOK,
     ClosingShape
<1>7. ASSUME NEW c \in Callers, Authenticate(c)
      PROVE  FailureIsShown'
  BY <1>7 DEF Authenticate, Inv, FailureIsShown, TablesOK, TasksOK, CallsOK,
     ClosingShape
<1>8. ASSUME NEW c \in Callers, NEW k \in Conns, Authenticated(c, k)
      PROVE  FailureIsShown'
  BY <1>8 DEF Authenticated, Opened, Inv, FailureIsShown, TablesOK, TasksOK,
     CallsOK, ClosingShape
<1>9. ASSUME NEW c \in Callers, NEW o \in {"failed", "required"}, Refused(c,
             o)
      PROVE  FailureIsShown'
  BY <1>9 DEF Refused, Opened, Inv, FailureIsShown, TablesOK, TasksOK,
     CallsOK, ClosingShape
<1>10. ASSUME NEW c \in Callers, NEW o \in {"failed", "stopped"}, GiveUp(c, o)
      PROVE  FailureIsShown'
  BY <1>10 DEF GiveUp, Opened, Inv, FailureIsShown, TablesOK, TasksOK,
     CallsOK, ClosingShape
<1>11. ASSUME NEW c \in Callers, Obsolete(c)
      PROVE  FailureIsShown'
  BY <1>11 DEF Obsolete, Current, Inv, FailureIsShown, TablesOK, TasksOK,
     CallsOK, ClosingShape
<1>12. ASSUME NEW c \in Callers, Bind(c)
      PROVE  FailureIsShown'
  BY <1>12 DEF Bind, Current, Shutdown, Signalled, Inv, FailureIsShown,
     TablesOK, TasksOK, CallsOK, ClosingShape
<1>13. ASSUME NEW c \in Callers, StartFailed(c)
      PROVE  FailureIsShown'
  BY <1>13 DEF StartFailed, Current, Shutdown, Signalled, Inv, FailureIsShown,
     TablesOK, TasksOK, CallsOK, ClosingShape
<1>14. ASSUME NEW c \in Callers, StartRefused(c)
      PROVE  FailureIsShown'
  BY <1>14 DEF StartRefused, Current, Inv, FailureIsShown, TablesOK, TasksOK,
     CallsOK, ClosingShape
<1>15. ASSUME NEW c \in Callers, RecordFailure(c)
      PROVE  FailureIsShown'
  BY <1>15 DEF RecordFailure, Ended, Dropped, Inv, FailureIsShown, TablesOK,
     TasksOK, CallsOK, ClosingShape
<1>16. ASSUME NEW c \in Callers, ClosedDown(c)
      PROVE  FailureIsShown'
  BY <1>16 DEF ClosedDown, Ended, Dropped, Inv, FailureIsShown, TablesOK,
     TasksOK, CallsOK, ClosingShape
<1>17. ASSUME NEW c \in Callers, NEW t \in Tasks, Listen(c, t)
      PROVE  FailureIsShown'
  BY <1>17 DEF Listen, Ended, Dropped, Free, Inv, FailureIsShown, TablesOK,
     TasksOK, CallsOK, ClosingShape
<1>18. ASSUME NEW c \in Callers, NEW ok \in BOOLEAN, Probed(c, ok)
      PROVE  FailureIsShown'
  BY <1>18 DEF Probed, StillRunning, Inv, FailureIsShown, TablesOK, TasksOK,
     CallsOK, ClosingShape
<1>19. ASSUME NEW t \in Tasks, Accept(t)
      PROVE  FailureIsShown'
  BY <1>19 DEF Accept, Inv, FailureIsShown, TablesOK, TasksOK, CallsOK,
     ClosingShape
<1>20. ASSUME NEW t \in Tasks, StreamEnds(t)
      PROVE  FailureIsShown'
  BY <1>20 DEF StreamEnds, Inv, FailureIsShown, TablesOK, TasksOK, CallsOK,
     ClosingShape
<1>21. ASSUME NEW t \in Tasks, NEW s \in {"Stopped", "Interrupted", "Error"},
             Break(t, s)
      PROVE  FailureIsShown'
  BY <1>21 DEF Break, Inv, FailureIsShown, TablesOK, TasksOK, CallsOK,
     ClosingShape
<1>22. ASSUME NEW t \in Tasks, Settle(t)
      PROVE  FailureIsShown'
  BY <1>22 DEF Settle, Inv, FailureIsShown, TablesOK, TasksOK, CallsOK,
     ClosingShape
<1>23. ASSUME NEW t \in Tasks, Release(t)
      PROVE  FailureIsShown'
  BY <1>23 DEF Release, Inv, FailureIsShown, TablesOK, TasksOK, CallsOK,
     ClosingShape
<1>24. ASSUME NEW k \in Conns, LoseTransport(k)
      PROVE  FailureIsShown'
  BY <1>24 DEF LoseTransport, Inv, FailureIsShown, TablesOK, TasksOK, CallsOK,
     ClosingShape
<1> QED
  BY <1>1, <1>2, <1>3, <1>4, <1>5, <1>6, <1>7, <1>8, <1>9, <1>10, <1>11,
     <1>12, <1>13, <1>14, <1>15, <1>16, <1>17, <1>18, <1>19, <1>20, <1>21,
     <1>22, <1>23, <1>24 DEF Next, Arrive, Connect, Finish, Return, Serve,
     Noticed
\* The tunnels start in the invariant.
LEMMA InvInit == Init => Inv
<1> SUFFICES ASSUME Init PROVE Inv  OBVIOUS
<1> USE TunnelAssumption DEF Init
<1>1. TablesOK  BY DEF TablesOK
<1>2. PoolOK  BY DEF PoolOK, NoPool, NoConn
<1>3. TasksOK  BY TaskUpdates DEF TasksOK
<1>4. CallsOK  BY DEF CallsOK, CallType, NoCall
<1>5. TaskShape  BY DEF TaskShape, NoTask
<1>6. EntryShape /\ FailureIsShown  BY DEF EntryShape, FailureIsShown
<1>7. LockShape  BY DEF LockShape, NoCall
<1>8. CallShape /\ ClosingShape  BY DEF CallShape, ClosingShape, NoCall
<1>9. Reserved  BY DEF Reserved
<1>10. Tracked  BY DEF Tracked, NoTask
<1>11. References  BY DEF References, NoCall, NoPool
<1>12. IdentityMatches  BY DEF IdentityMatches, NoTask
<1>13. CancelledNeverListens /\ StopIsFinal
  BY DEF CancelledNeverListens, StopIsFinal
<1> QED
  BY <1>1, <1>2, <1>3, <1>4, <1>5, <1>6, <1>7, <1>8, <1>9, <1>10, <1>11, <1>12,
     <1>13 DEF Inv

\* Every step of the tunnels keeps the invariant.
LEMMA InvStep ==
  ASSUME Inv, [Next]_vars
  PROVE  Inv'
<1>1. CASE Next
  BY <1>1, TablesOKStep, PoolOKStep, TasksOKStep, CallsOKStep, TaskShapeStep,
     EntryShapeStep, LockShapeStep, CallShapeStep, ClosingShapeStep,
     ReservedStep, TrackedStep, ReferencesStep, IdentityMatchesStep,
     CancelledNeverListensStep, StopIsFinalStep, FailureIsShownStep DEF Inv
<1>2. CASE UNCHANGED vars
  BY <1>2 DEF vars, tables, history, Inv, TablesOK, PoolOK, TasksOK, CallsOK,
     TaskShape, EntryShape, LockShape, CallShape, ClosingShape, Reserved,
     Running, Tracked, References, Owned, IdentityMatches,
     CancelledNeverListens, StopIsFinal, FailureIsShown
<1> QED  BY <1>1, <1>2

\* The invariant holds in every reachable state.
THEOREM Inductive == Spec => []Inv
<1>1. Init => Inv  BY InvInit
<1>2. Inv /\ [Next]_vars => Inv'  BY InvStep
<1> QED  BY <1>1, <1>2, PTL DEF Spec

\* The tables, the pool, the tasks and the calls keep their types, and no
\* listener has more streams than its limit.
THEOREM TypeCorrect == Spec => []TypeOK
<1>1. Inv => TypeOK  BY DEF Inv, TypeOK
<1> QED  BY <1>1, Inductive, PTL

\* A rule that stop() halted has no listener, no stream and no connection
\* until it is started again, however many starts were under way.
THEOREM StoppedStays == Spec => []StopIsFinal
<1>1. Inv => StopIsFinal  BY DEF Inv
<1> QED  BY <1>1, Inductive, PTL

\* A start that lost its reservation never listens, also when the rule was
\* reserved again meanwhile.
THEOREM ObsoleteStartsEnd == Spec => []CancelledNeverListens
<1>1. Inv => CancelledNeverListens  BY DEF Inv
<1> QED  BY <1>1, Inductive, PTL

\* A listener serves its rule as it is saved, and it is the one in the table.
THEOREM SavedRuleServed == Spec => []ServesSavedRule
<1>1. Inv => ServesSavedRule  BY DEF Inv, Tracked, ServesSavedRule
<1> QED  BY <1>1, Inductive, PTL

\* Tunnels share connections only with starts of the same identity.
THEOREM IdentityKept == Spec => []IdentityMatches
<1>1. Inv => IdentityMatches  BY DEF Inv
<1> QED  BY <1>1, Inductive, PTL

\* What the user is shown is true: a failure is not hidden by an entry, a
\* health belongs to a running tunnel, an ended one holds no listener.
THEOREM StatusIsTrue ==
  Spec => [](FailureIsShown /\ HealthIsCurrent /\ EndedIsReleased)
<1>1. Inv => FailureIsShown /\ HealthIsCurrent /\ EndedIsReleased
  BY DEF Inv, TaskShape, HealthIsCurrent, EndedIsReleased
<1> QED  BY <1>1, Inductive, PTL

=============================================================================
