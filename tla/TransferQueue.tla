--------------------------- MODULE TransferQueue ---------------------------
(***************************************************************************)
(* The SFTP transfer queue (src-tauri/src/transfers/queue.rs).             *)
(*                                                                         *)
(* A job record lives in a map behind an RwLock.  `enqueue_*` and `retry`  *)
(* write the record, release the lock, tell the subscribers and spawn a    *)
(* worker; a worker waits for one of Concurrency permits, admits itself    *)
(* under the lock, and moves the bytes through a temporary file that it    *)
(* renames over the destination.  Nothing withdraws a worker: after        *)
(* cancel + retry the worker of the first attempt is still waiting.        *)
(*                                                                         *)
(* Every worker is created together with a fresh AtomicBool cancel flag,   *)
(* so a worker's identity also names the flag of its attempt.              *)
(***************************************************************************)
EXTENDS Integers, FiniteSets

CONSTANTS
  Jobs,         \* transfer job ids
  Workers,      \* identities of spawned run() tasks (bounds enqueue + retry)
  Sessions,     \* SSH sessions
  Paths,        \* destination paths
  Concurrency,  \* TRANSFER_CONCURRENCY
  SessionOf,    \* job -> session it was enqueued for
  PathOf,       \* job -> destination path
  Uploads,      \* the jobs that upload; the others download
  Total,        \* job -> total_bytes declared when it was enqueued, in chunks
  Length,       \* job -> chunks the source really holds when it is read
  None          \* no job, no flag

ASSUME QueueAssumption ==
  /\ Concurrency \in Nat \ {0}
  /\ SessionOf \in [Jobs -> Sessions]
  /\ PathOf \in [Jobs -> Paths]
  /\ Uploads \subseteq Jobs
  /\ Total \in [Jobs -> Nat]
  /\ Length \in [Jobs -> Nat]
  /\ None \notin Jobs \cup Workers
  /\ {"user", "nobody"} \cap Jobs = {}

VARIABLES
  state,       \* job -> TransferState, or "Absent" before it is enqueued
  done,        \* job -> transferred_bytes, in chunks
  overwrite,   \* job -> the overwrite flag of its spec
  flagOf,      \* job -> the worker whose attempt created record.cancelled
  cancelled,   \* worker -> the AtomicBool of the attempt that spawned it
  pc,          \* worker -> where run() is
  owner,       \* worker -> the job it was spawned for
  token,       \* worker -> the flag it cloned when it was admitted
  replace,     \* worker -> the overwrite flag it cloned when it was admitted
  result,      \* worker -> the outcome of upload()/download()
  note,        \* worker -> the job snapshot it is about to broadcast
  late,        \* job -> broadcasts of cancel() not delivered yet
  permits,     \* free permits of the semaphore
  temp,        \* job -> chunks in its temporary file, Missing if there is none
  dest,        \* path -> what the destination holds
  listening,   \* session -> progress of subscribe()
  view         \* job -> the last snapshot the subscriber received

records == <<state, done, overwrite, flagOf>>
workers == <<pc, owner, token, replace, result, note>>
files   == <<temp, dest>>
ui      == <<listening, view>>
vars    == <<records, cancelled, workers, late, permits, files, ui>>

-----------------------------------------------------------------------------
Missing  == -1
Unknown  == [state |-> "Absent", done |-> 0]   \* nothing received yet

Terminal == {"Completed", "Failed", "Cancelled"}
States   == {"Absent", "Queued", "Running"} \cup Terminal
Outcomes == {"none", "ok", "cancelled", "error"}

\* What a path may hold: nothing, a file Runory did not write, or the bytes
\* some job renamed there, with the number of chunks they had.
Contents == {[by |-> "nobody", chunks |-> Missing],
             [by |-> "user", chunks |-> 0]}
            \cup [by : Jobs, chunks : Nat]
Nothing  == [by |-> "nobody", chunks |-> Missing]
UserFile == [by |-> "user", chunks |-> 0]

\* A worker that broadcasts a snapshot goes on here afterwards.
Broadcasting == {"announce", "started", "progress", "report"}
\* A worker in one of these has marked its job Running.
Working == {"started", "progress", "check", "prepare", "copy", "seal",
            "remove", "rename", "cleanup", "release", "settle"}
\* A worker in one of these owns a permit.
Holding == (Working \ {"settle"}) \cup {"admit"}
Pcs     == {"unused", "announce", "acquire", "admit", "report", "gone"}
           \cup Working

\* A retained subscriber of the job's session receives the snapshot.
Deliver(j, snapshot) ==
  view' = IF listening[SessionOf[j]] = "open"
            THEN [view EXCEPT ![j] = snapshot]
            ELSE view

Snapshot(j) == [state |-> state[j], done |-> done[j]]

-----------------------------------------------------------------------------
Init ==
  /\ state = [j \in Jobs |-> "Absent"]
  /\ done = [j \in Jobs |-> 0]
  /\ overwrite = [j \in Jobs |-> FALSE]
  /\ flagOf = [j \in Jobs |-> None]
  /\ cancelled = [w \in Workers |-> FALSE]
  /\ pc = [w \in Workers |-> "unused"]
  /\ owner = [w \in Workers |-> None]
  /\ token = [w \in Workers |-> None]
  /\ replace = [w \in Workers |-> FALSE]
  /\ result = [w \in Workers |-> "none"]
  /\ note = [w \in Workers |-> Unknown]
  /\ late = [j \in Jobs |-> 0]
  /\ permits = Concurrency
  /\ temp = [j \in Jobs |-> Missing]
  /\ dest \in [Paths -> {Nothing, UserFile}]
  /\ listening = [s \in Sessions |-> "closed"]
  /\ view = [j \in Jobs |-> Unknown]

-----------------------------------------------------------------------------
(* Commands of the user interface *)

\* Mutant: retry() keeps the AtomicBool of the previous attempt.
KeptFlag(j, w) == IF flagOf[j] = None THEN w ELSE flagOf[j]

\* Each attempt gets a new AtomicBool, named after the worker spawned with it.
FreshFlag(j, w) == w

\* The record of an attempt is written and its worker created; the broadcast
\* and the spawn come after the lock is released (worker step "announce").
Begin(j, w, ow) ==
  /\ pc[w] = "unused"
  /\ state' = [state EXCEPT ![j] = "Queued"]
  /\ done' = [done EXCEPT ![j] = 0]
  /\ overwrite' = [overwrite EXCEPT ![j] = ow]
  /\ flagOf' = [flagOf EXCEPT ![j] = FreshFlag(j, w)]
  /\ pc' = [pc EXCEPT ![w] = "announce"]
  /\ owner' = [owner EXCEPT ![w] = j]
  /\ note' = [note EXCEPT ![w] = [state |-> "Queued", done |-> 0]]
  /\ UNCHANGED <<cancelled, token, replace, result, late, permits, files, ui>>

Enqueue(j, w, ow) ==
  /\ state[j] = "Absent"
  /\ j \notin Uploads => ~ow
  /\ Begin(j, w, ow)

Retry(j, w, ow) ==
  /\ state[j] \in {"Failed", "Cancelled"}
  /\ j \notin Uploads => ~ow
  /\ Begin(j, w, ow)

\* Set the flags of the given live jobs; the queued ones are Cancelled at once
\* and announced after the lock is released.
CancelAll(js) ==
  LET queued == {j \in js : state[j] = "Queued"} IN
  /\ cancelled' = [w \in Workers |->
                     cancelled[w] \/ \E j \in js : flagOf[j] = w]
  /\ state' = [j \in Jobs |-> IF j \in queued THEN "Cancelled" ELSE state[j]]
  /\ late' = [j \in Jobs |-> IF j \in queued THEN late[j] + 1 ELSE late[j]]
  /\ UNCHANGED <<done, overwrite, flagOf, workers, permits, files, ui>>

Cancel(j) ==
  /\ state[j] \in {"Queued", "Running"}
  /\ CancelAll({j})

CancelSession(s) ==
  LET js == {j \in Jobs : SessionOf[j] = s /\ state[j] \in {"Queued", "Running"}}
  IN js # {} /\ CancelAll(js)

\* The broadcast of cancel(): it carries the snapshot taken under the lock.
AnnounceCancelled(j) ==
  /\ late[j] > 0
  /\ late' = [late EXCEPT ![j] = @ - 1]
  /\ Deliver(j, [state |-> "Cancelled", done |-> 0])
  /\ UNCHANGED <<records, cancelled, workers, permits, files, listening>>

\* subscribe() first sends a snapshot of every job ...
SubscribeList(s) ==
  /\ listening[s] = "closed"
  /\ listening' = [listening EXCEPT ![s] = "listed"]
  /\ view' = [j \in Jobs |->
                IF SessionOf[j] = s /\ state[j] # "Absent" THEN Snapshot(j)
                                                           ELSE view[j]]
  /\ UNCHANGED <<records, cancelled, workers, late, permits, files>>

\* ... and registers the channel in a second step, under another lock.
SubscribePush(s) ==
  /\ listening[s] = "listed"
  /\ listening' = [listening EXCEPT ![s] = "open"]
  /\ UNCHANGED <<records, cancelled, workers, late, permits, files, view>>

-----------------------------------------------------------------------------
(* run(): one worker.  Any file operation may fail; a request to the SFTP  *)
(* server may also have been carried out although its reply was lost.     *)

\* The worker goes to step p with nothing but its pc (and outcome) changed.
Goto(w, p)    == pc' = [pc EXCEPT ![w] = p]
Fail(w, p, r) == Goto(w, p) /\ result' = [result EXCEPT ![w] = r]

FirstStep(j) == IF j \in Uploads THEN "check" ELSE "prepare"

AfterBroadcast(w) ==
  CASE pc[w] = "announce" -> "acquire"
    [] pc[w] = "started"  -> FirstStep(owner[w])
    [] pc[w] = "progress" -> "copy"
    [] pc[w] = "report"   -> "gone"

Broadcast(w) ==
  /\ pc[w] \in Broadcasting
  /\ Goto(w, AfterBroadcast(w))
  /\ Deliver(owner[w], note[w])
  /\ note' = [note EXCEPT ![w] = Unknown]
  /\ UNCHANGED <<records, cancelled, owner, token, replace, result, late,
                 permits, files, listening>>

Acquire(w) ==
  /\ pc[w] = "acquire"
  /\ permits > 0
  /\ permits' = permits - 1
  /\ Goto(w, "admit")
  /\ UNCHANGED <<records, cancelled, owner, token, replace, result, note,
                 late, files, ui>>

\* Mutant: run() trusts the cancel flag and does not look at the state.
TurnedAwayByFlag(j) == cancelled[flagOf[j]]

\* Under the records lock: the worker is turned away (and its permit dropped)
\* if the job is cancelled or no longer waits for a worker.
TurnedAway(j) == cancelled[flagOf[j]] \/ state[j] # "Queued"

Admit(w) ==
  LET j == owner[w] IN
  /\ pc[w] = "admit"
  /\ \/ /\ TurnedAway(j)
        /\ permits' = permits + 1
        /\ Goto(w, "gone")
        /\ UNCHANGED <<state, token, replace, note>>
     \/ /\ ~TurnedAway(j)
        /\ state' = [state EXCEPT ![j] = "Running"]
        /\ token' = [token EXCEPT ![w] = flagOf[j]]
        /\ replace' = [replace EXCEPT ![w] = overwrite[j]]
        /\ note' = [note EXCEPT ![w] = [state |-> "Running", done |-> done[j]]]
        /\ Goto(w, "started")
        /\ UNCHANGED permits
  /\ UNCHANGED <<done, overwrite, flagOf, cancelled, owner, result, late,
                 files, ui>>

\* upload(): the destination must be free unless overwriting was asked for.
CheckDestination(w) ==
  LET p == PathOf[owner[w]] IN
  /\ pc[w] = "check"
  /\ \/ /\ dest[p] = Nothing \/ replace[w]
        /\ Goto(w, "prepare")
        /\ UNCHANGED result
     \/ Fail(w, "release", "error")       \* SftpAlreadyExists, or I/O error
  /\ UNCHANGED <<records, cancelled, owner, token, replace, note, late,
                 permits, files, ui>>

\* Open the source and create (truncate) the temporary file.  An upload
\* deletes a leftover temporary file first.
Prepare(w) ==
  LET j == owner[w] IN
  /\ pc[w] = "prepare"
  /\ \/ /\ Goto(w, "copy")
        /\ temp' = [temp EXCEPT ![j] = 0]
        /\ UNCHANGED result
     \/ /\ Fail(w, "release", "error")
        /\ \/ UNCHANGED temp
           \/ j \in Uploads /\ \E n \in {Missing, 0} : temp' = [temp EXCEPT ![j] = n]
  /\ UNCHANGED <<records, cancelled, owner, token, replace, note, late,
                 permits, dest, ui>>

CancelSeen(w) == cancelled[token[w]]

\* One turn of the copy loop; a chunk written is added to the progress, which
\* never exceeds total_bytes.
Copy(w) ==
  LET j == owner[w] IN
  /\ pc[w] = "copy"
  /\ \/ /\ CancelSeen(w)
        /\ Fail(w, "cleanup", "cancelled")
        /\ UNCHANGED <<done, note, temp>>
     \/ /\ ~CancelSeen(w)
        /\ temp[j] < Length[j]
        /\ temp' = [temp EXCEPT ![j] = @ + 1]
        /\ done' = [done EXCEPT ![j] = IF @ < Total[j] THEN @ + 1 ELSE Total[j]]
        /\ note' = [note EXCEPT ![w] = [state |-> state[j], done |-> done'[j]]]
        /\ Goto(w, "progress")
        /\ UNCHANGED result
     \/ /\ ~CancelSeen(w)
        /\ temp[j] >= Length[j]                       \* read returned 0
        /\ Goto(w, "seal")
        /\ UNCHANGED <<done, note, temp, result>>
     \/ /\ ~CancelSeen(w)
        /\ Fail(w, "cleanup", "error")
        /\ UNCHANGED <<done, note, temp>>
  /\ UNCHANGED <<state, overwrite, flagOf, cancelled, owner, token, replace,
                 late, permits, dest, ui>>

\* flush, sync_all and close, then the last look at the cancel flag.
Seal(w) ==
  /\ pc[w] = "seal"
  /\ \/ ~CancelSeen(w) /\ Goto(w, "remove") /\ UNCHANGED result
     \/ CancelSeen(w) /\ Fail(w, "cleanup", "cancelled")
     \/ Fail(w, "cleanup", "error")
  /\ UNCHANGED <<records, cancelled, owner, token, replace, note, late,
                 permits, files, ui>>

\* Delete what is at the destination.  A failing try_exists counts as absent.
RemoveOld(w) ==
  LET p == PathOf[owner[w]] IN
  /\ pc[w] = "remove"
  /\ \/ Goto(w, "rename") /\ dest' = [dest EXCEPT ![p] = Nothing]
                          /\ UNCHANGED result
     \/ Goto(w, "rename") /\ UNCHANGED <<dest, result>>
     \/ /\ dest[p] # Nothing
        /\ Fail(w, "cleanup", "error")
        /\ \/ UNCHANGED dest
           \/ owner[w] \in Uploads /\ dest' = [dest EXCEPT ![p] = Nothing]
  /\ UNCHANGED <<records, cancelled, owner, token, replace, note, late,
                 permits, temp, ui>>

Moved(j) ==
  /\ temp[j] # Missing
  /\ dest' = [dest EXCEPT ![PathOf[j]] = [by |-> j, chunks |-> temp[j]]]
  /\ temp' = [temp EXCEPT ![j] = Missing]

\* Whether a rename onto an existing file succeeds is up to the file system.
Rename(w) ==
  LET j == owner[w] IN
  /\ pc[w] = "rename"
  /\ \/ /\ Moved(j)
        /\ Fail(w, "release", "ok")
     \/ /\ Fail(w, "cleanup", "error")
        /\ \/ UNCHANGED files
           \/ j \in Uploads /\ Moved(j)
  /\ UNCHANGED <<records, cancelled, owner, token, replace, note, late,
                 permits, ui>>

\* After an error the temporary file is deleted, if the server still answers.
Cleanup(w) ==
  /\ pc[w] = "cleanup"
  /\ Goto(w, "release")
  /\ temp' \in {temp, [temp EXCEPT ![owner[w]] = Missing]}
  /\ UNCHANGED <<records, cancelled, owner, token, replace, result, note,
                 late, permits, dest, ui>>

\* The permit is given back before the record says that the job has ended.
Release(w) ==
  /\ pc[w] = "release"
  /\ permits' = permits + 1
  /\ Goto(w, "settle")
  /\ UNCHANGED <<records, cancelled, owner, token, replace, result, note,
                 late, files, ui>>

\* Mutant: success is judged by the progress instead of the result.
FinalStateByProgress(w) ==
  IF done[owner[w]] = Total[owner[w]] THEN "Completed" ELSE "Failed"

FinalState(w) ==
  IF result[w] = "ok" THEN "Completed"
  ELSE IF result[w] = "cancelled" \/ cancelled[flagOf[owner[w]]]
    THEN "Cancelled" ELSE "Failed"

Settle(w) ==
  LET j == owner[w] IN
  /\ pc[w] = "settle"
  /\ state' = [state EXCEPT ![j] = FinalState(w)]
  /\ done' = [done EXCEPT ![j] = IF result[w] = "ok" THEN Total[j] ELSE @]
  /\ note' = [note EXCEPT ![w] = [state |-> state'[j], done |-> done'[j]]]
  /\ Goto(w, "report")
  /\ token' = [token EXCEPT ![w] = None]            \* locals of run() dropped
  /\ replace' = [replace EXCEPT ![w] = FALSE]
  /\ result' = [result EXCEPT ![w] = "none"]
  /\ UNCHANGED <<overwrite, flagOf, cancelled, owner, late, permits, files, ui>>

WorkerStep(w) ==
  \/ Broadcast(w)
  \/ Acquire(w)
  \/ Admit(w)
  \/ CheckDestination(w)
  \/ Prepare(w)
  \/ Copy(w)
  \/ Seal(w)
  \/ RemoveOld(w)
  \/ Rename(w)
  \/ Cleanup(w)
  \/ Release(w)
  \/ Settle(w)

UserStep ==
  \/ \E j \in Jobs, w \in Workers, ow \in BOOLEAN :
       Enqueue(j, w, ow) \/ Retry(j, w, ow)
  \/ \E j \in Jobs : Cancel(j)
  \/ \E s \in Sessions :
       CancelSession(s) \/ SubscribeList(s) \/ SubscribePush(s)

Next ==
  \/ UserStep
  \/ \E j \in Jobs : AnnounceCancelled(j)
  \/ \E w \in Workers : WorkerStep(w)

\* Spawned tasks and pending broadcasts are scheduled by tokio; the user is not.
Fairness ==
  /\ \A w \in Workers : WF_vars(WorkerStep(w))
  /\ \A j \in Jobs : WF_vars(AnnounceCancelled(j))

Spec == Init /\ [][Next]_vars /\ Fairness

-----------------------------------------------------------------------------
(* Properties *)

Snapshots == [state : States, done : Nat]

\* Every variable has its type.
TypeOK ==
  /\ state \in [Jobs -> States]
  /\ done \in [Jobs -> Nat]
  /\ overwrite \in [Jobs -> BOOLEAN]
  /\ flagOf \in [Jobs -> Workers \cup {None}]
  /\ cancelled \in [Workers -> BOOLEAN]
  /\ pc \in [Workers -> Pcs]
  /\ owner \in [Workers -> Jobs \cup {None}]
  /\ token \in [Workers -> Workers \cup {None}]
  /\ replace \in [Workers -> BOOLEAN]
  /\ result \in [Workers -> Outcomes]
  /\ note \in [Workers -> Snapshots]
  /\ late \in [Jobs -> Nat]
  /\ permits \in 0..Concurrency
  /\ temp \in [Jobs -> Nat \cup {Missing}]
  /\ dest \in [Paths -> Contents]
  /\ listening \in [Sessions -> {"closed", "listed", "open"}]
  /\ view \in [Jobs -> Snapshots]

\* A job is marked Running exactly while one worker moves its bytes: the
\* workers that cancel + retry leave behind never work on it at the same time
\* (run() re-checks the state under the records lock).
OneWorkerPerJob ==
  \A j \in Jobs :
    LET working == {w \in Workers : owner[w] = j /\ pc[w] \in Working} IN
    /\ state[j] = "Running" <=> working # {}
    /\ \A v, w \in working : v = w

\* A queued job is never forgotten: its flag is clear, and a worker that will
\* look at it is on its way, although stale workers are turned away.
QueuedIsServed ==
  \A j \in Jobs : state[j] = "Queued" =>
    /\ ~cancelled[flagOf[j]]
    /\ \E w \in Workers : owner[w] = j /\ pc[w] \in {"announce", "acquire", "admit"}

\* The semaphore is exact: every path out of run() gives its permit back once,
\* so at most Concurrency workers move bytes and no permit leaks.
PermitsAccounted ==
  permits + Cardinality({w \in Workers : pc[w] \in Holding}) = Concurrency

\* Readers of a destination never see a partly transferred file: what a job
\* put there has every chunk of its source.
WholeFiles ==
  \A p \in Paths : \A j \in Jobs :
    dest[p].by = j => dest[p].chunks = Length[j]

\* Completed is only claimed for bytes that are in place: unless another job
\* has the same destination, the file of a Completed job is there.
CompletedIsDelivered ==
  \A j \in Jobs :
    /\ state[j] = "Completed"
    /\ \A k \in Jobs \ {j} : PathOf[k] # PathOf[j]
    => dest[PathOf[j]] = [by |-> j, chunks |-> Length[j]]

\* A download that did not succeed leaves nothing of its own at the
\* destination, whatever cancels and retries happened in between.
UnfinishedLeavesNoBytes ==
  \A j \in Jobs \ Uploads :
    dest[PathOf[j]].by = j => state[j] \in {"Running", "Completed"}

\* The interface never announces a completion that did not happen, although
\* broadcasts are sent after the lock is released and may arrive late.
CompletionNotInvented ==
  \A j \in Jobs : view[j].state = "Completed" => state[j] = "Completed"

\* The old file is deleted only by a worker whose replacement is complete.
OldKeptUntilReplaced ==
  [][\A p \in Paths : dest'[p] # dest[p] /\ dest[p] # Nothing =>
       \E w \in Workers :
         /\ pc[w] \in {"remove", "rename"}
         /\ PathOf[owner[w]] = p
         /\ temp[owner[w]] = Length[owner[w]]]_vars

\* Progress shown for an attempt never goes back: only retry() resets it, and
\* a job that is done stays done.
ProgressMonotone ==
  [][\A j \in Jobs :
       /\ done'[j] < done[j] => state[j] \in {"Failed", "Cancelled"} /\ state'[j] = "Queued"
       /\ state[j] = "Completed" => state'[j] = "Completed"]_vars

\* Every attempt ends: no job stays Queued or Running for ever behind stale
\* workers, as long as the spawned tasks are scheduled.
EveryAttemptEnds ==
  \A j \in Jobs : (state[j] \in {"Queued", "Running"}) ~> (state[j] \in Terminal)

=============================================================================
