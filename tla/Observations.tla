---------------------------- MODULE Observations ----------------------------
(* What agent runs read of their servers.  A run reads in batches through   *)
(* agent/dispatch.rs, which shares one cache between all runs               *)
(* (agentic/optimization.rs), and keeps what it learned as working facts    *)
(* (agent/facts.rs).  Between batches a run, or anyone else, changes the    *)
(* server.  The answer of a tool stands for the state it was taken from.    *)
EXTENDS Naturals, Sequences, FiniteSets, TLC

CONSTANTS
  Runs, ObsTargets,
  Tools,       \* reads that may be cached
  TTL,         \* how long an answer stays fresh
  MaxEntries,  \* MAX_CACHE_ENTRIES
  LastTime,    \* bound on time
  MaxChanges   \* bound on the changes of a server

VARIABLES
  clock,
  changed,  \* target -> when its state number 1, 2, ... came to an end
  cache,    \* <<target, tool>> -> [state, at]
  batch,    \* run -> the reads under way
  facts,    \* run -> <<target, tool>> -> [state, at]
  savedObs,    \* run -> the facts of its checkpoint
  wrote     \* run -> target -> the state its own last change led to

obsVars == <<clock, changed, cache, batch, facts, savedObs, wrote>>

(* The number of the state a server is in, from 1.                          *)
State(t) == Len(changed[t]) + 1

NoBatch == [target |-> {}, at |-> 0, calls |-> <<>>]

ObsInit ==
  /\ clock = 0 /\ changed = [t \in ObsTargets |-> <<>>] /\ cache = <<>>
  /\ batch = [r \in Runs |-> NoBatch]
  /\ facts = [r \in Runs |-> <<>>] /\ savedObs = [r \in Runs |-> <<>>]
  /\ wrote = [r \in Runs |-> [t \in ObsTargets |-> 1]]

is_fresh(at, now) == now <= at + TTL

Idle(r) == batch[r].calls = <<>>

-----------------------------------------------------------------------------
(* A batch takes its time once; calls that repeat another are answered by   *)
(* it, so a batch is a set of calls.                                        *)
obs_execute_reads(r, t, tools) ==
  /\ Idle(r)
  /\ batch' = [batch EXCEPT ![r] = [target |-> {t}, at |-> clock,
                                    calls |-> [k \in tools |-> [pc |-> "look", state |-> 0]]]]
  /\ UNCHANGED <<clock, changed, cache, facts, savedObs, wrote>>

TargetOf(r) == CHOOSE t \in batch[r].target : TRUE
ObservedAt(r, k, pc) == k \in DOMAIN batch[r].calls /\ batch[r].calls[k].pc = pc
MoveRead(r, k, pc, s) == batch' = [batch EXCEPT ![r].calls[k] = [pc |-> pc, state |-> s]]
Without(f, keys) == [x \in DOMAIN f \ keys |-> f[x]]

(* ObservationCache.get, with the time the batch began.                     *)
look(r, k) ==
  LET key == <<TargetOf(r), k>> IN
  /\ ObservedAt(r, k, "look")
  /\ IF key \in DOMAIN cache /\ is_fresh(cache[key].at, batch[r].at)
     THEN MoveRead(r, k, "done", cache[key].state) /\ UNCHANGED cache
     ELSE MoveRead(r, k, "run", 0) /\ cache' = Without(cache, {key})
  /\ UNCHANGED <<clock, changed, facts, savedObs, wrote>>

(* The tool sees the server; its answer is still on its way.                *)
observe(r, k) ==
  /\ ObservedAt(r, k, "run")
  /\ MoveRead(r, k, "answer", State(TargetOf(r)))
  /\ UNCHANGED <<clock, changed, cache, facts, savedObs, wrote>>

(* ObservationCache.put: what is stale is dropped, then the oldest entry if *)
(* there is no room.  An answer is as old as its batch.                     *)
put(key, s, at) ==
  LET live == Without(cache, {x \in DOMAIN cache : ~is_fresh(cache[x].at, at)})
      oldest == {x \in DOMAIN live : \A y \in DOMAIN live : live[x].at <= live[y].at}
      room == IF Cardinality(DOMAIN live) >= MaxEntries /\ key \notin DOMAIN live
              THEN Without(live, {CHOOSE x \in oldest : TRUE}) ELSE live
  IN key :> [state |-> s, at |-> at] @@ room

execute_one(r, k) ==
  /\ ObservedAt(r, k, "answer")
  /\ cache' = put(<<TargetOf(r), k>>, batch[r].calls[k].state, batch[r].at)
  /\ MoveRead(r, k, "done", batch[r].calls[k].state)
  /\ UNCHANGED <<clock, changed, facts, savedObs, wrote>>

(* A failed or cancelled call is an answer without a result.                *)
fail(r, k) ==
  /\ ObservedAt(r, k, "run") \/ ObservedAt(r, k, "answer")
  /\ MoveRead(r, k, "done", 0)
  /\ UNCHANGED <<clock, changed, cache, facts, savedObs, wrote>>

(* What a run learns from a batch: the results, not the failures, as of now.*)
extract_facts(r) ==
  LET calls == batch[r].calls
      good == {k \in DOMAIN calls : calls[k].state # 0}
  IN [x \in {TargetOf(r)} \X good |-> [state |-> calls[x[2]].state, at |-> clock]]

(* A newer fact replaces the one of its key.                                *)
upsert_many(old, new) == new @@ old

(* All answers are there.                                                   *)
record_outcome(r) ==
  /\ ~Idle(r) /\ \A k \in DOMAIN batch[r].calls : batch[r].calls[k].pc = "done"
  /\ facts' = [facts EXCEPT ![r] = upsert_many(@, extract_facts(r))]
  /\ batch' = [batch EXCEPT ![r] = NoBatch]
  /\ UNCHANGED <<clock, changed, cache, savedObs, wrote>>

-----------------------------------------------------------------------------
Becomes(t) ==
  /\ Len(changed[t]) < MaxChanges
  /\ changed' = [changed EXCEPT ![t] = Append(@, clock)]

invalidate_target(f, t) == Without(f, {x \in DOMAIN f : x[1] = t})

(* An approved ChangeSet ran and was verified: the run's facts about the    *)
(* target go, so that it looks again.                                       *)
approve_change_set(r, t) ==
  /\ Idle(r) /\ Becomes(t)
  /\ facts' = [facts EXCEPT ![r] = invalidate_target(@, t)]
  /\ wrote' = [wrote EXCEPT ![r][t] = State(t) + 1]
  /\ UNCHANGED <<clock, cache, batch, savedObs>>

(* An approved command leaves the facts alone.                              *)
execute_command(r, t) ==
  /\ Idle(r) /\ Becomes(t)
  /\ wrote' = [wrote EXCEPT ![r][t] = State(t) + 1]
  /\ UNCHANGED <<clock, cache, batch, facts, savedObs>>

(* The user, another tool, the server itself.                               *)
drift(t) ==
  /\ Becomes(t)
  /\ UNCHANGED <<clock, cache, batch, facts, savedObs, wrote>>

continue_conversation(r) ==
  /\ Idle(r)
  /\ facts' = [facts EXCEPT ![r] = <<>>]
  /\ UNCHANGED <<clock, changed, cache, batch, savedObs, wrote>>

save_checkpoint(r) ==
  /\ Idle(r) /\ savedObs' = [savedObs EXCEPT ![r] = facts[r]]
  /\ UNCHANGED <<clock, changed, cache, batch, facts, wrote>>

(* The program starts again: the cache is empty, facts are the saved ones.  *)
restore ==
  /\ cache' = <<>> /\ facts' = savedObs
  /\ batch' = [r \in Runs |-> NoBatch]
  /\ UNCHANGED <<clock, changed, savedObs, wrote>>

Tick ==
  /\ clock < LastTime /\ clock' = clock + 1
  /\ UNCHANGED <<changed, cache, batch, facts, savedObs, wrote>>

ObsNext ==
  \/ \E r \in Runs, t \in ObsTargets, tools \in SUBSET Tools \ {{}} : obs_execute_reads(r, t, tools)
  \/ \E r \in Runs, k \in Tools : look(r, k) \/ observe(r, k) \/ execute_one(r, k) \/ fail(r, k)
  \/ \E r \in Runs : record_outcome(r) \/ continue_conversation(r) \/ save_checkpoint(r)
  \/ \E r \in Runs, t \in ObsTargets : approve_change_set(r, t) \/ execute_command(r, t)
  \/ \E t \in ObsTargets : drift(t)
  \/ restore \/ Tick

ObsSpec == ObsInit /\ [][ObsNext]_obsVars

-----------------------------------------------------------------------------
(* When state s of t came to an end; after all time if it did not.          *)
EndRead(t, s) == IF s <= Len(changed[t]) THEN changed[t][s] ELSE LastTime + 1

(* Whatever the run that filled the cache and however long its call took,   *)
(* an answer never shows a state that was over for more than TTL when the   *)
(* batch that asked began.                                                  *)
AnswersAreRecent ==
  \A r \in Runs : \A k \in DOMAIN batch[r].calls :
    LET c == batch[r].calls[k] IN
    c.pc = "done" /\ c.state # 0 => batch[r].at <= EndRead(TargetOf(r), c.state) + TTL

(* docs/agent-runtime-v2-audit.md says that the cache is invalidated after  *)
(* a write, and controller.rs that a run must observe again: no answer is   *)
(* from before the run's own last change of that server.                    *)
ReadsSeeWrites ==
  \A r \in Runs : \A k \in DOMAIN batch[r].calls :
    LET c == batch[r].calls[k] IN
    c.pc = "done" /\ c.state # 0 => c.state >= wrote[r][TargetOf(r)]
=============================================================================
