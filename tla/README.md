# Runory: TLA+ models and proofs

Runory is a desktop client for servers: a Tauri application whose Rust core
(`src-tauri/src`) keeps SSH sessions, transfers files, forwards ports, deploys,
runs plugins, syncs its catalog through a cloud, and lets an LLM agent diagnose
and change hosts under the user's approval. The React interface (`src/`), a web
portal (`apps/web`), a Supabase backend (`supabase/`) and a plugin marketplace
(`marketplace/`) surround it.

The models here follow the parts of the Rust core where tasks, requests, failing
saves and crashes interleave. Everything is translated from the code; docs and
comments are used only to state what the code promises. `PROJECT.json` maps every
definition to the lines it models, lists every component with its sources and
status, and lists the hazards: the places where a unit test hardly reaches.

## Inventory

| Component | State | Operations | What is hard | What makes it correct |
|---|---|---|---|---|
| Transfer queue (`transfers/queue.rs`) | records, cancel flags, worker tasks, a semaphore, subscribers | enqueue, retry, cancel, cancel_session, subscribe, the worker | workers left behind by cancel and retry; a destination replaced through a temporary file; late broadcasts | no lost job, no partial file, no invented completion |
| Agent Runtime V2: run (`agent/controller.rs`, `service.rs`, `state.rs`, `approval.rs`) | rows of run, approvals, calls, checkpoint and events; a slot and a cancel channel per run | start, approve, reject, reply, retry, pause, resume, cancel; the reasoning loop | requests validated before they wait for the slot; a crash between any two writes; cancel that never waits | an action runs only when granted and once; a write is verified before Completed |
| Agent Runtime V2: store and streams (`agent/sqlite.rs`, `broadcast.rs`) | event log, cursors, checkpoints, a bounded bus | emit, transition, recover, subscribe, replay | two transactions per event; replay against live events; a reader that falls behind | a panel loses nothing that is stored after it joined, or falls behind and is told |
| Fleet coordinator (`agent/fleet_*.rs`) | fleet run, stages, child runs, approvals | approve, continue, pause, abandon, recover | approvals read before the lock; a failing transaction; restart in a stage | settled children are never retried; ownership is durable |
| ChangeSets and fleets of them (`agentic/changes.rs`, `fleet.rs`) | ChangeSets with steps, approvals, captures; fleets with batches | draft, revise, approve, execute, roll back, recover | the lock is free while a tool runs; a failing step and a failing rollback | one execution per approval; the outcome recorded is what happened |
| Incidents (`agentic/incident.rs`) | incidents, in memory and in a file | investigate, bind a ChangeSet, refresh, hand off, close | a refresh that writes late; a revision; a restart | a verified repair is the one that was bound |
| Observations (`agentic/optimization.rs`, `agent/dispatch.rs`, `facts.rs`) | a cache shared by runs, working facts | read in batches, save facts | another run's write between two reads | a read is recent |
| SSH tunnels (`tunnels/`) | rules, reservations, live tunnels, a weak connection pool | save, delete, start, stop, check, the serve task | a start authenticates without the lock; shutdown awaited under it | a stopped rule stays stopped; a listener serves the saved rule over the right connection |
| SSH sessions and host verification (`ssh/`, `known_hosts/`, `commands/ssh.rs`) | attempts, known hosts, jump preparations, sessions | verify, trust, connect, remember, disconnect | profiles, host keys and the vault change between approval and use | a session is with a host whose key was verified for this route |
| Bastion flows (`connection/`) | flows, helper processes, sessions, expiry | prepare, answer, connect, cancel | requests for one flow overlap; a late answer of a provider | a session ends once and leaves no channel behind |
| SFTP, terminal, drops (`ssh/sftp.rs`, `transfers/grants.rs`) | channels, an output buffer, grants | list, save, type a command, stage a drop | a session lost in the middle of an operation; a ring buffer that wraps | output since the mark is whole; a dropped file is not lost |
| JumpServer, Teleport (`connection/providers/`) | tokens, logins, accounts | log in, list, connect, wait | permissions and gateways that change between two calls | a one-time token is offered once; a wait ends |
| MCP gateway and tools (`mcp/`, `tools/`) | configurations, permissions; audit records | configure, enable, call; run, time out, cancel | failing saves; calls that overlap with a removal | the enabled tools are those the user was told; the audit is true |
| Model gateway (`agentic/model_gateway.rs`, `model_profiles.rs`) | profiles, secrets in the vault, turns, OAuth flows | configure, commit, turn, refresh, migrate | a commit of several saves that fails or crashes in the middle | every saved credential resolves |
| Plugins (`plugins/`) | versions on disk and in the registry, reviews, plans, runs | install, uninstall, revoke, execute, activate a release | disk and database changed in several steps; a plan run twice | rows are on disk; reviews are current; a plan runs once; a linked release is complete |
| Catalog and cloud (`profiles/`, `groups/`, `cloud/`) | catalog, sync state, keys, policy decisions | edit, import, preview, apply, export, rotate, authorize | two devices; an apply cut short; late answers | references resolve; a payload can be recovered; a grant was decided |
| Deployment and operations (`deployment/`, `operations/`) | app rows; units, sites, docker's settings and registries | save, provision, control; write and restart | two apps on one unit; two requests that merge one file | one owner per service; settings are one request's |

Not modelled, with reasons in `PROJECT.json`: the reasoner, routing and metrics,
the doctor that V2 replaced, manifests and menus of plugins, the policy engine,
the vault's ciphers, the dashboard, imports' parsers and the updater, the Tauri
argument layer, the user interface, the web portal, the Supabase functions and
the marketplace service. They are text, data or I/O without protocol state, except
the billing ledger, which is a protocol of its own in SQL.

## Modules

| Module | Models |
|---|---|
| `TransferQueue` | the queue, its workers, the files they write, the subscribers' view |
| `AgentState`, `AgentRun` | the run's states and transitions; one run: rows, entries, controllers, requests |
| `ApprovalLedger` | the abstract promise of an approval, which `AgentRun` implements |
| `AgentStore` | every write of the runtime as a step, the log, the bus and its readers |
| `FleetPlan` | the coordinator: stages, leases, approvals, recovery |
| `ChangeSets`, `FleetExecution` (extends it) | jobs on one ChangeSet; fleets of them in batches |
| `Incidents`, `Observations` | incidents and repairs; the shared cache and working facts |
| `Tunnels` | rules, starts, serve tasks, pool, probes |
| `SshSessions`, `Bastion`, `SftpSessions` | what opens sessions and what works in them |
| `JumpServer`, `Teleport` | one flow of each provider against a server that changes |
| `McpGateway`, `ToolExecution`, `ModelGateway` | MCP servers; native tools and their audit; model profiles, turns and OAuth |
| `PluginRegistry`, `PluginWorkflow` (extends it), `PluginActions` | installation; plans and their execution; what actions do to a host |
| `Catalog`, `CloudSync` (extends it), `CloudKeys`, `CloudPolicy` | the catalog of a device; sync between devices; keys; policy decisions |
| `Deployment`, `Docker` | app rows and what provisioning leaves on a server; docker's stock, settings, registries |
| `TransferQueueProofs`, `AgentRunProofs`, `TunnelProofs`, `ChangeSetProofs`, `SshSessionProofs`, `CloudKeyProofs`, `ProviderProofs`, `ServiceProofs` | inductive invariants, lemmas, theorems |
| `MCTransferQueue`, `MCAgentRun`, `MCTunnels`, `MCChanges`, `MCPlugins`, `MCCloud`, `MCSessions`, `MCProviders`, `MCServices` | instances for TLC |

Each module's header says which files it follows and what it leaves out. A
definition whose comment starts with *Mutant*, or that a mutant of `PROJECT.json`
names, is a plausible mistake in the definition that follows it; it is not part
of the specification, and `PROJECT.json` names the property that notices it.

How state and actions correspond to the code:

* A handler that holds one lock from its first read to its last save is one
  action. A handler that awaits with the lock free, or whose writes a crash can
  separate, is one action per stretch, and the value it carries across is a
  variable (`call`, `job`, `refreshes`, `modelCommit`, `pc`).
* **TransferQueue.** `Enqueue`, `Retry`, `Cancel`, `CancelSession` are the IPC
  calls; `Acquire` to `Settle` are the stretches of `run()`, `upload()` and
  `download()`. `cancel` of a queued job leaves its worker waiting for a permit,
  so after `retry` two workers wait for one job: a retry makes a *new* flag, and
  a worker is admitted only if the record is Queued. Broadcasts are separate
  steps, because they happen after the records lock is released.
* **AgentRun.** The variables follow the places: rows (`state`, `approval`,
  `kind`, `stored`, `logged`, `budget`), the service's memory (`active`, `flag`,
  `holder`, `live`, `changes`), the controller in each slot (`phase`, `rounds`,
  `calls`, `owes`, `notified`) and the requests (`pc`, `op`, `arg`, `handle`,
  `seen`, `result`). A request clones the run's entry, waits for the slot,
  rehydrates a controller if there is none, and drives the loop under the lock;
  `approve` and `reject` check that the approval is pending *before* they wait.
  `Cancel` raises the flag and only tries the lock. The reasoner is any choice
  from `Decisions`.
* **AgentStore** is the same runtime seen from the disk: a handler is the list of
  its writes, each write a step, so that the process may die between any two.
* **ChangeSets.** check, capture, execute and rollback are jobs of several steps;
  a job claims the ChangeSet under the lock and runs tools without it.
  A step that fails may have written first (`MayApply`: `file_patch` writes before
  it verifies, and a call may time out after its write), and its file is not among
  those a rollback reverses. `FleetExecution` starts the same jobs from a fleet
  request.
* **Tunnels.** `Reserve` is the first stretch of `start_background` under the
  lock; the acquisition runs without it; `Bind` and the refusals take it again.
  Connections are owned by calls and tasks; the pool does not own.
* **SshSessions.** An attempt ties a key to a profile, host and route; connecting
  consumes the approval and compares it with what the host shows now. A jump host
  is prepared first and consumed by the request for the target. An import changes a
  profile's host and stores secrets no login has tried.
* **Bastion.** The flow stays in the map while the provider is asked; whoever
  connects takes the connection out of it and forgets the flow.
* **CloudSync** applies an import in the four saves of the code, and any of them
  may be the last. **CloudKeys** models a cipher by what opens it. **CloudPolicy**
  separates asking from deciding, with the binding free to change in between; the
  time a decision is compared with is the time of asking (`policy.rs:312`).
* **ModelGateway.** A commit stores a secret per profile, saves the document, then
  drops the old credentials, or undoes the fresh ones; each is a step.
* **Incidents.** A refresh reads the link and the ChangeSet's state, and writes
  later; the ChangeSet and fleet services are seen from outside, rollbacks of
  what was committed included.

## Runs

| Run | Checks | Instance |
|---|---|---|
| `transfers` | QueuedIsServed, WholeFiles, CompletedIsDelivered, EveryAttemptEnds | an upload or a download, two attempts, two permits, fair |
| `agent_safety` | VerifiedOrUnrecorded, ImplementsLedger | two clients on commands, or one client on whatever the reasoner decides; two approvals, three rounds, crashes everywhere; about 880 k states |
| `agent_fair` | CompletedSettlesChanges, CancelStopsCommands, RequestsEnd | two clients against the loop, commands, calls, ChangeSets, blocked batches; no crash, fair; 74 k states |
| `tunnels` | StopIsFinal, ServesSavedRule, IdentityMatches, EndedIsReleased, CallsReturn, LossIsNoticed | two rules that want one port, two identities of one profile, one stream, one probe, fair; 190 k states |
| `changes` | NeverRetriesSettled, OwnershipDurable, OneExecution, OutcomeIsTrue, OutcomeOfTargets, StreamFollowsLog | a fleet of two stages with a canary; one ChangeSet with two requests; three ChangeSets in batches under four failure policies; one run's log and one panel; 2.2 M states |
| `plugins` | RowsAreOnDisk, ReviewsAreCurrent, PlanRunsOnce, LinkedIsComplete | two versions, five packages, crashes; two execute() of one plan; a deployment and an update on one host |
| `cloud` | GroupsResolve, PayloadIsRecoverable, GrantsAreDecided | two devices, an apply cut short anywhere; rotations under way; bindings that change, time that passes while an answer is awaited; 462 k states |
| `sessions` | SessionIsVerified, EndsOnce, OutputSinceMark, NoLostDrop | a server and one behind it, an import; two requests on flows of three providers; SFTP, terminal, grants; 757 k states |
| `providers` | TokensAreOneTime, ToolsFollowUser, AuditIsTrue, LoginWaitEnds | two accounts; a login that may never come; two MCP servers with room for one; two invocations; 577 k states |
| `services` | OneOwnerPerService, RepairWasBound, SettingsAreOneRequests, CredentialsResolve | rows of one or two kinds at a time, all nine in turn; units, sites and nginx; one incident and a repair; docker; model profiles and turns; 2.5 M states |
| `agent_unverified`, `reads_see_writes` | expect a violation | see *What the runs found* |

**Bounds.** Two clients, calls or requests are what a race needs; two approvals
let a stale decision meet the next question; three rounds let the loop ask, act
and verify, with one to spare. Limits of the code (listeners, streams, records
kept, cache entries, bus capacity, room for flows or servers) are constants set
to 1 or 2 so that they are reached, with two exceptions: two workers and two
transfer permits do not contend for a permit, and two listeners are allowed, so
that two rules may want one port, which leaves the limit on listeners untested.
Two bounds are small: `MAX_REVIEWS = 1` (8 in the code: reviews that wait do not
meet, the registry they were prepared for changes under each) and `MaxCalls = 1`
in the fleet plan (one request between its read and its lock, while outcomes,
launches, saves and restarts go on). The theorems about both hold for any bound.
Counters that only grow (versions, issued secrets, events, changes of a server)
are capped by a named constant in the guards; running out only means that nothing
more of that kind begins. Modules
that share no state are checked in one run: the variable `part` of the MC module
is chosen in the initial state and every behaviour is one part's, so a run's
states are the sum, not the product, of its parts. Some parts restrict the
actions further, each with a comment: `MCAgentRun` keeps kinds of requests and
decisions that do not interact in parts of their own; `MCTunnels` separates
serving, starting and two rules, with no more starts and runs at once than it has
names for; `MCChanges` does not combine a drift, a policy
change and a revision; `MCServices` looks at pairs of kinds on a server.
Every configuration says `CHECK_DEADLOCK FALSE`: each of these systems may stop,
with all jobs done, all identities used up, all flows ended. Whether work that is
under way goes on is what the liveness properties ask (QueuedIsServed,
EveryAttemptEnds, RequestsEnd, CallsReturn, LossIsNoticed, LoginWaitEnds).

**Fairness.** `AgentRun!Fairness`: weak fairness of every task's steps (spawned
futures are polled, every await inside has a timeout) and strong fairness of
taking the slot (tokio's mutex is FIFO). `TransferQueue!Fairness`: weak fairness
of every worker and of announcements under way. `Tunnels!Fairness`: weak fairness
of an acquisition (it has a deadline), of returning calls, of the serve task (it
is polled and ticks) and of aborted streams; strong fairness of taking the
tables' mutex again: nothing is assumed of a task whose waiter holds what it needs,
so `CallsReturn` would show such a wait. `Teleport!TeleportFairness`: the poll of a
waiting flow runs on a timer, *and each poll returns*: `tsh status` is a blocking
command without a timeout (`tsh.rs:109-114`), so a helper that hangs is outside of
`LoginWaitEnds`. Nothing else is assumed of the user, the reasoner, the network or a
server.

## What the runs found

Two runs expect a violation; `PROJECT.json` quotes both sides.

* `agent_unverified` (`CompletedIsVerified` with crashes): the obligation to
  verify a write exists only once its outcome is an event. A process that dies
  while the write is on the target resumes with nothing to verify.
  `VerifiedOrUnrecorded` in `agent_safety` shows that this is the only gap.
* `reads_see_writes`: no code calls `ObservationCache::invalidate_target`, so the
  reads that verify a ChangeSet may be answered from before it.

Properties that the modules state, in the words of a comment, document or test,
and that TLC violates when they are put into a configuration; no run is spent on
them:

* `ParkedWhenIdle`: a batch whose every call the policy blocks leaves the run in
  Acting, from which the loop cannot go on; the request fails and nobody drives
  the run (`controller.rs:1502`).
* `CancelEndsRun`: cancel of a run that was registered again after a restart, and
  has no controller yet, drops the entry and ends nothing (`service.rs:755`).
* `StateSteps` and `CancelStopsCommands` with a client that retries or resumes: a
  finished drive removes the entry by run id (`service.rs:1051`); the second also
  with restarts, after which a cancel may signal an empty slot.
* `WaitingIsAnswerable` with crashes or a refusing ChangeSet service: after a
  crash between saving a grant and moving the run, or a refusal after the grant,
  the run waits with nothing to answer (`controller.rs:813`, `:1294`).
* `CursorCoversLog` (AgentStore): the event and the cursor are two transactions,
  and a crash between them lets the cursor fall behind its log.
* `OneOwnerPerStep` (FleetPlan): a child the user may still answer works on a
  target step that a new attempt owns.
* `ExecutingIsLive` (ChangeSets, with a docker step): recovery leaves a record
  saying Executing with no request executing it.
* `HelperReleased` (Bastion): a helper process may outlive the session it served.
* `DeletionsAreKept` (CloudSync): an import may put back what was deleted here.
* `CoveredIsCommitted` (PluginWorkflow) and `RestoredIsARelease` (PluginActions):
  a step reported as done via a ChangeSet that committed nothing; a first
  activation that fails "restores" no release.
* `SitesAreAccepted` (Deployment): a PHP unit that does not come up leaves its
  new site in place untested.
* `UnlockMigrates` (ModelGateway): unlocking the vault does not migrate the old
  document, because a collection is in memory since the start.
* `ResolvedIsVerified` (Incidents): an incident that was bound anew after a
  verified repair can be closed as resolved; and one whose repair was rolled back
  after it was committed (`changes.rs:864`) goes on saying that it was.

Further behaviours reviewers should know: a crash between inserting an approval
and parking the run leaves it pending in a run that may complete
(`controller.rs:766`); a crash between the commit of a ChangeSet and its
verification lets the resumed run complete (`controller.rs:1309`);
`reject_change_set` does not look at the approval again after it waited for the
slot, so an executed change can be recorded as rejected (`controller.rs:1373`);
a file that a failing step has written stays in a ChangeSet that is then called
RolledBack (`tools/change.rs:26`, `changes.rs:761`); what is stored between the
replay of a subscription and its joining is never sent (`agent_v2.rs:556-562`); a
policy decision that expires while its answer is on the way still grants
(`policy.rs:312`); two net or other apps may name one systemd unit
(`domain/deployment.rs:18`); an MCP call that has checked its permission is made
although the permission is withdrawn meanwhile (`mcp/gateway.rs:303`); a bastion
stream that ends before its session is inserted leaves the session listed
(`session_bridge.rs:73-80`; `EndsOnce` begins with the inserted session); a
workflow step whose session is lost is taken to have had no effect, and
`on_failure` and conditions of steps are left out (PluginActions); `pause` waits
for the slot the loop holds, so rounds go on (`service.rs:785`).

The modules also state invariants that hold and are not in a configuration,
because a stronger or more telling one is: `FollowsPlan`, `VerifyingIsEarned`
(FleetPlan), `RunsApprovedVersion`, `NeverRestarts` (ChangeSets, proved),
`RanIsGranted`, `RunsAtMostOnce` (AgentRun, proved), `AnswersAreRecent`
(Observations), `RefreshesOnce` (ModelGateway), `UnfinishedLeavesNoBytes`,
`OldKeptUntilReplaced`, `ProgressMonotone` (TransferQueue), `ListenersLimited`
(Tunnels).

## Proofs

`tlapm` checks every leaf; nothing is assumed but the named assumptions on the
constants and, where stated, the hypotheses of a theorem. Each theorem holds for
every value of the constants: any number of clients, rows, tokens, steps.

* **Transfers** (`TransferQueueProofs`). The inductive invariant adds to the
  types: which workers belong to the current attempt of a job, that a Running job
  has exactly one worker past admission, that a Queued one has a clear flag and a
  waiting worker, how permits are distributed, and what a worker in each stretch
  knows of the temporary file and the destination. `OneWorkerPerJob` alone is not
  inductive: that a stale worker is turned away depends on what the record says
  when it is admitted, which depends on every other worker of the job.
* **Agent runs** (`AgentRunProofs`). `TypeCorrect`: types, and no controller or
  checkpoint counts more rounds than the budget. `RunImplementsLedger`, under one
  handle and no ChangeSets: every step of `AgentRun` is a step of `ApprovalLedger`
  or leaves the ledger alone. `LedgerInv` says that the slot has one holder, that
  a request which read an approval under the lock still reads what the row says,
  that a stale decision finds its approval gone, and that between grant and call
  the action has not run. It is needed because the code decides from a copy read
  before an await. `GrantedOnce` follows. The two hypotheses are exactly the two
  races described above (`service.rs:1051`, `controller.rs:1373`).
* **Tunnels** (`TunnelProofs`), from `TunnelAssumption`. `Reserved`: a reservation
  belongs to a start in flight that nobody cancelled and was made for the rule as
  it is still saved. `ClosingShape`: what a call knows while it holds the lock and
  waits for an ended task. `Tracked`: every task is in the table or awaited by the
  call that took it out. `References`: the weak pool entry of a connection
  somebody owns names the identity it was opened for.
* **ChangeSets** (`ChangeSetProofs`). `ChangesInv` joins the types with
  `BusyIsBegun` (a job at work has begun the execution), `RunIsAlone` (no two
  executing jobs on one ChangeSet) and `RunIsApproved` (it works on the version
  that was approved); `SecondCallerFails`, `ApprovedVersionRuns`, `BegunStaysBegun`.
* **SSH sessions** (`SshSessionProofs`). `SshInv` relates what was agreed at each
  stage: a known host, an attempt, a prepared jump and a request in flight each
  carry the key, host and route that were verified together; `SessionsVerified`.
* **Cloud keys** (`CloudKeyProofs`). `KeysInv`: every key in flight has its
  purpose, every envelope opens to the key it is stored beside, and the payload in
  the cloud opens with an envelope that is there; `AlwaysRecoverable`.
* **MCP gateway** (`ProviderProofs`). `McpInv`: memory and disk agree outside a
  save, and a request between its check and its write carries a configuration
  that enables nothing by itself; `EnabledAsTold`.
* **Tools** (`ProviderProofs`), from `PatchAssumption` (a patch can change any
  content). `ToolInv`: a call's place in its protocol fixes whether its record is
  there and what it says (`CallFits`), and a record's words fit its call
  (`RecordFits`); `AuditOfEveryChange`. The sequence of records needs the
  library's facts about removal from the front.
* **JumpServer** (`ProviderProofs`), from `JmsAssumption`. `JmsInv`: a token that
  was issued and not offered is held by one connection (`TokensFit`, `KokoFits`),
  and the names a request works through are those of the account chosen when it
  was asked; `TokensOfferedOnce`.
* **Deployment** (`ServiceProofs`), from `KindsAssumption`. `RowsInv`: no two rows
  conflict, in either order, and what is not a draft has its configuration;
  `ServicesHaveOneOwner`, for rows of all nine kinds. The comparison in the code is
  made once, for the row being saved: its symmetry (`ConflictIsSymmetric`) is what
  makes that enough. The theorem says nothing of what the code does not compare:
  units that net and other apps and drafts name, ports of python apps, listeners
  of different kinds.
* **Docker** (`ServiceProofs`). `DaemonInv`: the file, the engine and every file
  a request waits to write hold one wish of the managed keys; `SettingsAreOneWish`
  rests on `MergedIsTheWish`, for any file merged into.
* **Incidents** (`ServiceProofs`). `IncidentsInv`: memory, file, *and* what a
  refresh has read and not written are earned by a link the incident once had, of
  a version that reached the outcome it is given; `EarnedIsStable` because links
  and outcomes reached are only added. `RepairsWereBound` says that the bound
  version was committed, not that it still is: a later rollback tells no incident.
* **Model profiles** (`ServiceProofs`). `ModelInv`: document and memory resolve;
  while secrets are stored, fresh credentials are nobody's; once credentials are
  dropped, nobody names them. `CredentialsAlwaysResolve`, at every step of a
  commit, so a crash after any of them finds a document that resolves.
* **Bastion flows** (`SshSessionProofs`), from `BastionAssumption` (a connection
  has a name of its own). `BastionInv`: `FlowFits`, `CallFits` and `SessFits` say
  what each owner of a connection holds (a session is listed until one of those
  that end it takes it out; one that is done said so once, holds no SFTP session
  and no slot), `Ownership` that flows, requests that took a connection and
  sessions never hold one twice (in Rust the move of the value says so already;
  here the invariant has to), `Slot` that the slot's lock is of the request that
  opens the channel; `SessionsEndOnce`.
* **SFTP sessions, terminal, drops** (`SshSessionProofs`), from `SftpAssumption`
  (the context buffer holds something). The buffer is the tail of the output and a
  mark lies in what was written (`CommandOutputIsWhole`); a request that found no
  drop and has not yet slept counts as one that sleeps, because the permit of a
  notification is kept for it (`DropsAreNoticed`).
* **ChangeSets and hosts** (`ChangeSetProofs`). `Tells` relates record, copy and
  host: the steps before a run's next one are in place and the others are not;
  what is in place or reported as done is still to be reversed or failed to be;
  of the file of a step that failed nothing is known, because it may have written.
  `RecordsTellTheTruth`, for any number of requests that roll one ChangeSet back
  at the same time. The attempt corrected the property: a start of the program
  that fails leaves a record whose rollback was cut short, so the first part of
  `OutcomeIsTrue` is about a program that is up.
* **Fleets of ChangeSets** (`ChangeSetProofs`), from `FleetAssumption` and for one
  request about the fleet at a time; two that overlap break the property, as a
  hazard of `PROJECT.json` says. `FleetFits`: the fleet's state tells how far the
  request has come (`StateFits`), the record of a target how its ChangeSet ended
  (`Ledger`), the batches left are disjoint and pending (`TodoFits`), and a job on
  a target is of the request that marked it (`JobsFit`). `FleetTellsTheTruth`
  holds although rejections, drifts, policy changes and restarts come at any time.
* **Fleet plans** (`ChangeSetProofs`), from `PlanAssumption`. `PlanInv`: the
  attempts at a target are numbered in turn, only the last may work, and what a
  controller was made for is saved; `SettledIsNotRetried`, `ChildrenAreDurable`.
* **Plugins** (`ProviderProofs`). `RegistryInv`: an install that was cut short has
  its directory and no row yet, and an uninstall deletes rows before directories
  (`DiskFits`); no review outlives the start of an uninstall (`ReviewsFit`).
  `WorkflowInv`: a plan nobody took was applied by nobody, and the call that works
  on the ChangeSet of a plan is alone and the first (`TakenOnce`).
  `InstalledIsOnDisk`, `ReviewsShowTheTruth`, `PlansRunOnce`.
* **Plugin actions** (`ProviderProofs`), from `DeployAssumption`: a workflow builds
  the release before it activates it. That is what the `deploy` and `update`
  workflows of the repository's deployer do; its `recover` workflow activates
  whatever release the user names, and is not among the deployments. `LinkInv`
  follows a deployment along its steps (`DeployFits`): what the steps behind it
  built is on the host (`Built`), and what the link may go back to is whole.
  `LinksLeadToWholeReleases`, for any number of deployments to one host.
* **Outcomes of a run** (`AgentRunProofs`). `ChangesInv`: a change that was
  committed is in the hands of whoever committed it (`SettledBy`), and meanwhile the
  run is not Completed (`NotOverYet`); `ChangesAreSettled`, under one handle and
  without crashes, because a crash after the commit leaves nobody who verifies it.
  `OutcomeInv` is `LedgerInv`, that a live controller remembers what a rehydrated
  one would be told by the log (`MemoryIsLog`), and what every step from the grant
  to the record knows; `WritesAreVerified`, through crashes, under one handle and
  no ChangeSets.
* **Cancel** (`AgentRunProofs`), under one handle, without crashes, and while
  clients approve, reject, pause and cancel. `StopInv`: a run that is not bound,
  or whose slot is empty, or whose end is about to be recorded, is `Dead` (nobody
  works on it and no answer takes it up again, `OverIsDead`); from the signal of a
  cancel on, the flag is up or the run is dead (`StopIsSeen`). `CancelStops` is
  the action property `CancelStopsCommands`. With crashes or with retries it
  fails: after a restart a cancel signals an empty slot, which an approve that
  waits then fills; after a retry the drive task that ended removes the entry, and
  a cancel finds no flag to raise (`service.rs:1051`).
* **Agent store** (`ServiceProofs`). `StoreInv`: the numbers in a run's log
  grow (`LogFits`); an event between its row and its broadcast is at the head of
  what its handler has to do, and stored (`DriverFits`); the events of a run are
  broadcast one after the other, up to the last but the one in hand (`BusFits`); no
  event the channel holds for a panel, ahead of the panel's place, comes before its
  replay (`StreamFits`). `StreamsShowTheLog`, for any capacity of the channel: the
  replay is what was stored before, and nothing stored after the joining is lost
  unless the panel fell behind. Between the two the code loses events, and may send
  one twice; the theorem does not promise otherwise.
* **Cloud sync** (`CloudKeyProofs`), from `CatalogAssumption` (ids of groups,
  servers and apps differ; a device starts with a catalog that resolves).
  `SyncInv`: every profile record has a group field, also in the cloud and in a
  preview, and on a device that no interrupted apply has torn it resolves.
  `GroupsAlwaysResolve` rests on `MergeReplaces`: a merge leaves a catalog that
  resolves if the one before did.
* **Cloud policy** (`CloudKeyProofs`). `BoundAsTold`: while the user has the device
  bound, and the device has profiles of the organization, memory and file name
  that organization. `GrantsWereDecided` is the action property `GrantsAreDecided`:
  the decision had not expired when the action was asked for.

Out of the prover's reach, and with TLC only: liveness under fairness
(EveryAttemptEnds, RequestsEnd, LossIsNoticed, LoginWaitEnds, CallsReturn),
ENABLED, what recursive definitions compute for every input, and cardinalities
that need induction over a set (`ListenersLimited`).

Every invariant, and every action property, of the runs that pass is stated by a
theorem; so is the refinement, `RunImplementsLedger`, under its two hypotheses.
Where a theorem has hypotheses (one handle, no crash, no ChangeSets, answers only,
one request about a fleet), they are stated with it, and *What the runs found* and
the hazards say what happens outside of them.
