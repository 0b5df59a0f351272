------------------------ MODULE TransferQueueProofs ------------------------
(***************************************************************************)
(* Safety of the transfer queue for any number of jobs, workers, permits   *)
(* and chunks.  The invariant is built in layers, each inductive relative  *)
(* to the layers before it: types, permits, workers, files and events.     *)
(***************************************************************************)
EXTENDS TransferQueue, FiniteSetTheorems, TLAPS

-----------------------------------------------------------------------------
(* Layer 1: types, without the upper bound on permits *)

Types ==
  /\ state \in [Jobs -> States]
  /\ done \in [Jobs -> Nat]
  /\ overwrite \in [Jobs -> BOOLEAN]
  /\ flagOf \in [Jobs -> Workers \cup {None}]
  /\ cancelled \in [Workers -> BOOLEAN]
  /\ pc \in [Workers -> Pcs]
  /\ owner \in [Workers -> Jobs \cup {None}]
  /\ \A w \in Workers : pc[w] # "unused" => owner[w] \in Jobs
  /\ token \in [Workers -> Workers \cup {None}]
  /\ replace \in [Workers -> BOOLEAN]
  /\ result \in [Workers -> Outcomes]
  /\ note \in [Workers -> Snapshots]
  /\ late \in [Jobs -> Nat]
  /\ permits \in Nat
  /\ temp \in [Jobs -> Nat \cup {Missing}]
  /\ dest \in [Paths -> Contents]
  /\ listening \in [Sessions -> {"closed", "listed", "open"}]
  /\ view \in [Jobs -> Snapshots]

\* The initial state has the types.
LEMMA InitTypes == Init => Types
BY QueueAssumption DEF QueueAssumption, Init, Types, States, Terminal, Pcs, Working, Outcomes,
     Snapshots, Unknown, Missing, Contents, Nothing, UserFile

\* Every step of the queue keeps the types.
LEMMA NextTypes == Types /\ [Next]_vars => Types'
<1> SUFFICES ASSUME Types, [Next]_vars PROVE Types'
  OBVIOUS
<1> USE QueueAssumption DEF QueueAssumption
<1> USE DEF Types, Snapshots, States, Terminal, Pcs, Working, Outcomes
<1>1. ASSUME NEW j \in Jobs, NEW w \in Workers, NEW ow \in BOOLEAN,
             Enqueue(j, w, ow) \/ Retry(j, w, ow)
      PROVE  Types'
  <2>1. /\ pc[w] = "unused"
        /\ Begin(j, w, ow)
    BY <1>1 DEF Enqueue, Retry, Begin
  <2>2. [state |-> "Queued", done |-> 0] \in Snapshots
    OBVIOUS
  <2>3. note' \in [Workers -> Snapshots]
    BY <2>1, <2>2 DEF Begin
  <2>4. /\ state' \in [Jobs -> States] /\ done' \in [Jobs -> Nat]
        /\ overwrite' \in [Jobs -> BOOLEAN]
    BY <2>1 DEF Begin
  <2>5. flagOf' \in [Jobs -> Workers \cup {None}]
    BY <2>1 DEF Begin, FreshFlag
  <2>6. pc' \in [Workers -> Pcs] /\ owner' \in [Workers -> Jobs \cup {None}]
    BY <2>1 DEF Begin
  <2>7. \A v \in Workers : pc'[v] # "unused" => owner'[v] \in Jobs
    BY <2>1 DEF Begin
  <2> QED
    BY <2>1, <2>3, <2>4, <2>5, <2>6, <2>7 DEF Begin, files, ui
<1>2. ASSUME NEW js \in SUBSET Jobs, CancelAll(js) PROVE Types'
  BY <1>2 DEF CancelAll, workers, files, ui
<1>3. ASSUME NEW j \in Jobs, AnnounceCancelled(j) PROVE Types'
  BY <1>3 DEF AnnounceCancelled, Deliver, records, workers, files
<1>4. ASSUME NEW s \in Sessions, SubscribeList(s) \/ SubscribePush(s) PROVE Types'
  <2>1. UNCHANGED <<records, cancelled, workers, late, permits, files>>
    BY <1>4 DEF SubscribeList, SubscribePush
  <2>2. listening' \in [Sessions -> {"closed", "listed", "open"}]
    BY <1>4 DEF SubscribeList, SubscribePush
  <2>3. \A j \in Jobs : Snapshot(j) \in Snapshots  BY DEF Snapshot, Snapshots
  <2>4. view' \in [Jobs -> Snapshots]
    <3>1. view \in [Jobs -> Snapshots]  OBVIOUS
    <3> HIDE DEF Types, Snapshots, States, Terminal, Pcs, Working, Outcomes
    <3>2. CASE SubscribeList(s)  BY <2>3, <3>1, <3>2 DEF SubscribeList
    <3>3. CASE SubscribePush(s)  BY <3>1, <3>3 DEF SubscribePush
    <3> QED  BY <1>4, <3>2, <3>3
  <2>5. QED  BY <2>1, <2>2, <2>4 DEF records, workers, files
<1>5. ASSUME NEW w \in Workers, Broadcast(w) PROVE Types'
  BY <1>5 DEF Broadcast, Broadcasting, Goto, AfterBroadcast, FirstStep, Deliver,
        Unknown, records, files
<1>6. ASSUME NEW w \in Workers, Acquire(w) \/ Release(w) PROVE Types'
  <2>1. /\ pc[w] # "unused"
        /\ pc' = [pc EXCEPT ![w] = "admit"] \/ pc' = [pc EXCEPT ![w] = "settle"]
        /\ (permits > 0 /\ permits' = permits - 1) \/ permits' = permits + 1
        /\ UNCHANGED <<records, cancelled, owner, token, replace, result, note, late, files, ui>>
    BY <1>6 DEF Acquire, Release, Goto
  <2>2. pc' \in [Workers -> Pcs]  BY <2>1
  <2>3. permits' \in Nat  BY <2>1
  <2>4. \A v \in Workers : pc'[v] # "unused" => owner'[v] \in Jobs  BY <2>1
  <2> QED  BY <2>1, <2>2, <2>3, <2>4 DEF records, files, ui
<1>7. ASSUME NEW w \in Workers, Admit(w) PROVE Types'
  <2>1. owner[w] \in Jobs
    BY <1>7 DEF Admit
  <2>2. [state |-> "Running", done |-> done[owner[w]]] \in Snapshots
    BY <2>1
  <2>3. note' \in [Workers -> Snapshots]
    <3>1. \/ note' = note
          \/ note' = [note EXCEPT ![w] = [state |-> "Running", done |-> done[owner[w]]]]
      BY <1>7 DEF Admit
    <3> QED
      BY <2>2, <3>1
  <2>4. permits' \in Nat
    BY <1>7 DEF Admit
  <2>5. replace' \in [Workers -> BOOLEAN] /\ token' \in [Workers -> Workers \cup {None}]
    <3>1. \/ replace' = replace /\ token' = token
          \/ /\ replace' = [replace EXCEPT ![w] = overwrite[owner[w]]]
             /\ token' = [token EXCEPT ![w] = flagOf[owner[w]]]
      BY <1>7 DEF Admit
    <3>2. /\ replace \in [Workers -> BOOLEAN] /\ token \in [Workers -> Workers \cup {None}]
          /\ overwrite[owner[w]] \in BOOLEAN /\ flagOf[owner[w]] \in Workers \cup {None}
      BY <2>1
    <3> HIDE DEF Types, Snapshots, States, Terminal, Pcs, Working, Outcomes
    <3> QED
      BY <3>1, <3>2
  <2>6. state' \in [Jobs -> States] /\ pc' \in [Workers -> Pcs]
    BY <1>7, <2>1 DEF Admit, Goto
  <2>7. \A v \in Workers : pc'[v] # "unused" => owner'[v] \in Jobs
    BY <1>7, <2>1 DEF Admit, Goto
  <2> QED
    BY <1>7, <2>3, <2>4, <2>5, <2>6, <2>7 DEF Admit, files, ui
<1>8. ASSUME NEW w \in Workers, CheckDestination(w) \/ Seal(w) PROVE Types'
  <2>1. CASE CheckDestination(w)
    <3>0. /\ \E p \in {"prepare", "release"} : pc' = [pc EXCEPT ![w] = p]
          /\ result' = result \/ \E r \in {"cancelled", "error"} : result' = [result EXCEPT ![w] = r]
      BY <2>1 DEF CheckDestination, Goto, Fail
    <3>1. pc' \in [Workers -> Pcs] /\ result' \in [Workers -> Outcomes]
      BY <3>0
    <3>2. \A v \in Workers : pc'[v] # "unused" => owner'[v] \in Jobs
      BY <2>1 DEF CheckDestination, Goto, Fail
    <3>3. UNCHANGED <<records, cancelled, owner, token, replace, note, late, permits, files, ui>>
      BY <2>1 DEF CheckDestination
    <3> QED  BY <3>1, <3>2, <3>3 DEF records, files, ui
  <2>2. CASE Seal(w)
    <3>0. /\ \E p \in {"remove", "cleanup"} : pc' = [pc EXCEPT ![w] = p]
          /\ result' = result \/ \E r \in {"cancelled", "error"} : result' = [result EXCEPT ![w] = r]
      BY <2>2 DEF Seal, Goto, Fail
    <3>1. pc' \in [Workers -> Pcs] /\ result' \in [Workers -> Outcomes]
      BY <3>0
    <3>2. \A v \in Workers : pc'[v] # "unused" => owner'[v] \in Jobs
      BY <2>2 DEF Seal, Goto, Fail
    <3>3. UNCHANGED <<records, cancelled, owner, token, replace, note, late, permits, files, ui>>
      BY <2>2 DEF Seal
    <3> QED  BY <3>1, <3>2, <3>3 DEF records, files, ui
  <2> QED
    BY <1>8, <2>1, <2>2
<1>9. ASSUME NEW w \in Workers, Prepare(w) PROVE Types'
  <2>1. temp' \in [Jobs -> Nat \cup {Missing}]
    <3>1. \/ temp' = temp
          \/ temp' = [temp EXCEPT ![owner[w]] = 0]
          \/ temp' = [temp EXCEPT ![owner[w]] = Missing]
      BY <1>9 DEF Prepare
    <3>2. temp \in [Jobs -> Nat \cup {Missing}]
      OBVIOUS
    <3> HIDE DEF Types, Snapshots, States, Terminal, Pcs, Working, Outcomes
    <3> QED
      BY <3>1, <3>2
  <2>2. pc' \in [Workers -> Pcs] /\ result' \in [Workers -> Outcomes]
    BY <1>9 DEF Prepare, Goto, Fail
  <2>3. \A v \in Workers : pc'[v] # "unused" => owner'[v] \in Jobs
    BY <1>9 DEF Prepare, Goto, Fail
  <2> QED
    BY <1>9, <2>1, <2>2, <2>3 DEF Prepare, records, ui
<1>10. ASSUME NEW w \in Workers, Copy(w) PROVE Types'
  <2>1. owner[w] \in Jobs
    BY <1>10 DEF Copy
  <2>2. done' \in [Jobs -> Nat] /\ temp' \in [Jobs -> Nat \cup {Missing}]
    <3>1. \/ done' = done /\ temp' = temp
          \/ /\ temp[owner[w]] < Length[owner[w]]
             /\ temp' = [temp EXCEPT ![owner[w]] = @ + 1]
             /\ done' = [done EXCEPT ![owner[w]] =
                           IF @ < Total[owner[w]] THEN @ + 1 ELSE Total[owner[w]]]
      BY <1>10 DEF Copy
    <3>2. Total[owner[w]] \in Nat /\ done[owner[w]] \in Nat
      BY <2>1
    <3>3. temp[owner[w]] + 1 \in Nat
      BY <2>1 DEF Missing
    <3>4. temp \in [Jobs -> Nat \cup {Missing}] /\ done \in [Jobs -> Nat]
      OBVIOUS
    <3>5. CASE done' = done /\ temp' = temp
      BY <3>4, <3>5
    <3> HIDE DEF Types, Snapshots, States, Terminal, Pcs, Working, Outcomes
    <3> QED
      BY <3>1, <3>2, <3>3, <3>4, <3>5
  <2>3. [state |-> state[owner[w]], done |-> done'[owner[w]]] \in Snapshots
    BY <2>1, <2>2
  <2>4. note' \in [Workers -> Snapshots]
    BY <1>10, <2>3 DEF Copy
  <2>5. pc' \in [Workers -> Pcs] /\ result' \in [Workers -> Outcomes]
    <3>1. /\ \E p \in {"cleanup", "progress", "seal"} : pc' = [pc EXCEPT ![w] = p]
          /\ result' = result \/ \E r \in {"cancelled", "error"} : result' = [result EXCEPT ![w] = r]
      BY <1>10 DEF Copy, Goto, Fail
    <3> QED  BY <3>1
  <2>6. \A v \in Workers : pc'[v] # "unused" => owner'[v] \in Jobs
    BY <1>10, <2>1 DEF Copy, Goto, Fail
  <2> QED
    BY <1>10, <2>2, <2>4, <2>5, <2>6 DEF Copy, ui
<1>11. ASSUME NEW w \in Workers, RemoveOld(w) PROVE Types'
  <2>1. pc' \in [Workers -> Pcs] /\ result' \in [Workers -> Outcomes]
    BY <1>11 DEF RemoveOld, Goto, Fail
  <2>2. \A v \in Workers : pc'[v] # "unused" => owner'[v] \in Jobs
    BY <1>11 DEF RemoveOld, Goto, Fail
  <2>3. dest' \in [Paths -> Contents]
    <3>1. dest \in [Paths -> Contents]  OBVIOUS
    <3>2. dest' = dest \/ dest' = [dest EXCEPT ![PathOf[owner[w]]] = Nothing]
      BY <1>11 DEF RemoveOld
    <3> HIDE DEF Types, Snapshots, States, Terminal, Pcs, Working, Outcomes
    <3>3. Nothing \in Contents  BY DEF Contents, Nothing
    <3> QED  BY <3>1, <3>2, <3>3
  <2>4. UNCHANGED <<records, cancelled, owner, token, replace, note, late, permits, temp, ui>>
    BY <1>11 DEF RemoveOld
  <2> QED  BY <2>1, <2>2, <2>3, <2>4 DEF records, ui
<1>12. ASSUME NEW w \in Workers, Rename(w) PROVE Types'
  <2>1. owner[w] \in Jobs
    BY <1>12 DEF Rename
  <2>2. Moved(owner[w]) => [by |-> owner[w], chunks |-> temp[owner[w]]] \in Contents
    BY <2>1 DEF Moved, Contents
  <2>3. Moved(owner[w]) \/ UNCHANGED files
    BY <1>12 DEF Rename
  <2>4. dest' \in [Paths -> Contents]
    BY ZenonT(40), <2>2, <2>3 DEF Moved, files
  <2>5. temp' \in [Jobs -> Nat \cup {Missing}]
    BY <2>3 DEF Moved, files
  <2>6. pc' \in [Workers -> Pcs] /\ result' \in [Workers -> Outcomes]
    BY <1>12 DEF Rename, Goto, Fail
  <2>7. \A v \in Workers : pc'[v] # "unused" => owner'[v] \in Jobs
    BY <1>12, <2>1 DEF Rename, Goto, Fail
  <2> QED
    BY <1>12, <2>4, <2>5, <2>6, <2>7 DEF Rename, records, ui
<1>13. ASSUME NEW w \in Workers, Cleanup(w) PROVE Types'
  BY <1>13 DEF Cleanup, Goto, records, ui, Missing
<1>14. ASSUME NEW w \in Workers, Settle(w) PROVE Types'
  BY <1>14 DEF Settle, FinalState, Goto, files, ui
<1>15. CASE UNCHANGED vars
  BY <1>15 DEF vars, records, workers, files, ui
<1>16. ASSUME NEW j \in Jobs, Cancel(j) PROVE Types'
  BY <1>2, <1>16 DEF Cancel
<1>17. ASSUME NEW s \in Sessions, CancelSession(s) PROVE Types'
  BY <1>2, <1>17 DEF CancelSession
<1> QED
  BY <1>1, <1>16, <1>17, <1>3, <1>4, <1>5, <1>6, <1>7, <1>8, <1>9, <1>10, <1>11, <1>12,
     <1>13, <1>14, <1>15 DEF Next, UserStep, WorkerStep

-----------------------------------------------------------------------------
(* Layer 2: permits *)

Holders == {w \in Workers : pc[w] \in Holding}

PermitsInv ==
  /\ IsFiniteSet(Holders)
  /\ permits + Cardinality(Holders) = Concurrency

\* A worker that takes a permit joins the holders, one that gives it back
\* leaves them, and no other step changes who holds a permit.
LEMMA NextPermits == Types /\ PermitsInv /\ [Next]_vars => PermitsInv'
<1> SUFFICES ASSUME Types, PermitsInv, [Next]_vars PROVE PermitsInv'
  OBVIOUS
<1>0. /\ pc \in [Workers -> Pcs] /\ permits \in Nat
      /\ IsFiniteSet(Holders) /\ Cardinality(Holders) \in Nat
  BY FS_CardinalityType DEF Types, PermitsInv
<1>1. ASSUME Holders' = Holders, permits' = permits PROVE PermitsInv'
  BY <1>1 DEF PermitsInv
<1>2. ASSUME NEW w \in Workers, w \notin Holders, Holders' = Holders \cup {w},
             permits' = permits - 1
      PROVE  PermitsInv'
  <2>1. /\ IsFiniteSet(Holders \cup {w})
        /\ Cardinality(Holders \cup {w}) = Cardinality(Holders) + 1
    BY <1>0, <1>2, FS_AddElement
  <2> QED
    BY <1>0, <1>2, <2>1 DEF PermitsInv
<1>3. ASSUME NEW w \in Workers, w \in Holders, Holders' = Holders \ {w},
             permits' = permits + 1
      PROVE  PermitsInv'
  <2>1. /\ IsFiniteSet(Holders \ {w})
        /\ Cardinality(Holders \ {w}) = Cardinality(Holders) - 1
    BY <1>0, <1>3, FS_RemoveElement
  <2> QED
    BY <1>0, <1>3, <2>1 DEF PermitsInv
<1>4. ASSUME NEW w \in Workers, NEW p \in Pcs, pc' = [pc EXCEPT ![w] = p],
             pc[w] \in Holding <=> p \in Holding, permits' = permits
      PROVE  PermitsInv'
  BY <1>0, <1>1, <1>4 DEF Holders
<1>5. ASSUME pc' = pc, permits' = permits PROVE PermitsInv'
  BY <1>1, <1>5 DEF Holders
<1>6. ASSUME NEW j \in Jobs, NEW w \in Workers, NEW ow \in BOOLEAN,
             Enqueue(j, w, ow) \/ Retry(j, w, ow)
      PROVE  PermitsInv'
  BY <1>4, <1>6 DEF Enqueue, Retry, Begin, Holding, Working, Pcs
<1>7. ASSUME NEW js \in SUBSET Jobs, CancelAll(js) PROVE PermitsInv'
  BY <1>5, <1>7 DEF CancelAll, workers
<1>8. ASSUME NEW j \in Jobs, AnnounceCancelled(j) PROVE PermitsInv'
  BY <1>5, <1>8 DEF AnnounceCancelled, workers
<1>9. ASSUME NEW s \in Sessions, SubscribeList(s) \/ SubscribePush(s) PROVE PermitsInv'
  BY <1>5, <1>9 DEF SubscribeList, SubscribePush, workers
<1>10. ASSUME NEW w \in Workers, Broadcast(w) PROVE PermitsInv'
  BY <1>4, <1>10 DEF Broadcast, Goto, AfterBroadcast, FirstStep, Broadcasting,
        Holding, Working, Pcs
<1>11. ASSUME NEW w \in Workers, Acquire(w) PROVE PermitsInv'
  <2>1. w \notin Holders /\ Holders' = Holders \cup {w}
    BY <1>0, <1>11 DEF Acquire, Goto, Holders, Holding, Working
  <2> QED
    BY <1>2, <1>11, <2>1 DEF Acquire
<1>12. ASSUME NEW w \in Workers, Admit(w) PROVE PermitsInv'
  <2>1. CASE TurnedAway(owner[w])
    <3>1. pc' = [pc EXCEPT ![w] = "gone"] /\ permits' = permits + 1 /\ pc[w] = "admit"
      BY <1>12, <2>1 DEF Admit, Goto
    <3>2. w \in Holders /\ Holders' = Holders \ {w}
      BY <1>0, <3>1 DEF Holders, Holding, Working
    <3> QED
      BY <1>3, <3>1, <3>2
  <2>2. CASE ~TurnedAway(owner[w])
    BY <1>4, <1>12, <2>2 DEF Admit, Goto, Holding, Working, Pcs
  <2> QED
    BY <2>1, <2>2
<1>13. ASSUME NEW w \in Workers, Release(w) PROVE PermitsInv'
  <2>1. w \in Holders /\ Holders' = Holders \ {w}
    BY <1>0, <1>13 DEF Release, Goto, Holders, Holding, Working
  <2> QED
    BY <1>3, <1>13, <2>1 DEF Release
<1>14. ASSUME NEW w \in Workers,
              \/ CheckDestination(w) \/ Prepare(w) \/ Copy(w) \/ Seal(w)
              \/ RemoveOld(w) \/ Rename(w) \/ Cleanup(w)
       PROVE  PermitsInv'
  <2>1. \E p \in {"prepare", "release", "copy", "progress", "seal", "cleanup",
                  "remove", "rename"} : pc' = [pc EXCEPT ![w] = p]
    BY <1>14 DEF CheckDestination, Prepare, Copy, Seal, RemoveOld, Rename,
          Cleanup, Goto, Fail
  <2>2. pc[w] \in Holding /\ permits' = permits
    BY <1>14 DEF CheckDestination, Prepare, Copy, Seal, RemoveOld, Rename,
          Cleanup, Holding, Working
  <2> QED
    BY <1>4, <2>1, <2>2 DEF Holding, Working, Pcs
<1>15. ASSUME NEW w \in Workers, Settle(w) PROVE PermitsInv'
  BY <1>4, <1>15 DEF Settle, Goto, Holding, Working, Pcs
<1>16. CASE UNCHANGED vars
  BY <1>5, <1>16 DEF vars, workers
<1>17. ASSUME NEW j \in Jobs, Cancel(j) PROVE PermitsInv'
  BY <1>7, <1>17 DEF Cancel
<1>18. ASSUME NEW s \in Sessions, CancelSession(s) PROVE PermitsInv'
  BY <1>7, <1>18 DEF CancelSession
<1> QED
  BY <1>6, <1>8, <1>9, <1>10, <1>11, <1>12, <1>13, <1>14, <1>15, <1>16, <1>17,
     <1>18 DEF Next, UserStep, WorkerStep

\* No permit is held at the start.
LEMMA InitPermits == Init => PermitsInv
<1> SUFFICES ASSUME Init PROVE PermitsInv
  OBVIOUS
<1>1. Holders = {}
  BY DEF Init, Holders, Holding, Working
<1> QED
  BY <1>1, FS_EmptySet, QueueAssumption DEF PermitsInv, Init, QueueAssumption

-----------------------------------------------------------------------------
(* Layer 3: workers and flags *)

WorkInv ==
  /\ \A w \in Workers : pc[w] \in Working => state[owner[w]] = "Running"
  /\ \A v, w \in Workers :
       pc[v] \in Working /\ pc[w] \in Working /\ owner[v] = owner[w] => v = w
  /\ \A j \in Jobs : state[j] = "Running" =>
       \E w \in Workers : owner[w] = j /\ pc[w] \in Working

FlagInv ==
  /\ \A w \in Workers : pc[w] = "unused" => ~cancelled[w]
  /\ \A j \in Jobs : state[j] # "Absent" => flagOf[j] \in Workers
  /\ \A j \in Jobs : flagOf[j] \in Workers =>
       pc[flagOf[j]] # "unused" /\ owner[flagOf[j]] = j

WaitingFor(j) ==
  \E w \in Workers : owner[w] = j /\ pc[w] \in {"announce", "acquire", "admit"}

QueuedInv ==
  \A j \in Jobs : state[j] = "Queued" => ~cancelled[flagOf[j]] /\ WaitingFor(j)

Layer3 == WorkInv /\ FlagInv /\ QueuedInv

\* Workers and flags stay consistent at every step: the check of the state
\* under the lock is what turns stale workers away.
LEMMA NextLayer3 == Types /\ Layer3 /\ [Next]_vars => Layer3'
<1> SUFFICES ASSUME Types, Layer3, [Next]_vars PROVE Layer3'
  OBVIOUS
<1> USE QueueAssumption DEF QueueAssumption
<1>0. /\ state \in [Jobs -> States] /\ pc \in [Workers -> Pcs]
      /\ owner \in [Workers -> Jobs \cup {None}] /\ cancelled \in [Workers -> BOOLEAN]
      /\ flagOf \in [Jobs -> Workers \cup {None}]
      /\ \A w \in Workers : pc[w] # "unused" => owner[w] \in Jobs
  BY DEF Types
\* A worker step inside its phase: before, during or after its work.
<1>1. ASSUME NEW w \in Workers, NEW p \in Pcs, pc' = [pc EXCEPT ![w] = p],
             pc[w] # "unused", p # "unused",
             pc[w] \in Working <=> p \in Working,
             pc[w] \in {"announce", "acquire", "admit"} =>
               p \in {"announce", "acquire", "admit"},
             UNCHANGED <<state, owner, flagOf, cancelled>>
      PROVE  Layer3'
  <2>1. WorkInv'
    BY <1>0, <1>1 DEF Layer3, WorkInv
  <2>2. FlagInv'
    BY <1>0, <1>1 DEF Layer3, FlagInv
  <2>3. QueuedInv'
    BY <1>0, <1>1 DEF Layer3, QueuedInv, WaitingFor
  <2> QED
    BY <2>1, <2>2, <2>3 DEF Layer3
<1>2. ASSUME UNCHANGED <<state, pc, owner, flagOf, cancelled>> PROVE Layer3'
  BY <1>2 DEF Layer3, WorkInv, FlagInv, QueuedInv, WaitingFor
<1>3. ASSUME NEW j \in Jobs, NEW w \in Workers, NEW ow \in BOOLEAN,
             Enqueue(j, w, ow) \/ Retry(j, w, ow)
      PROVE  Layer3'
  <2>1. /\ pc[w] = "unused" /\ state[j] \notin {"Running", "Queued"}
        /\ state' = [state EXCEPT ![j] = "Queued"]
        /\ flagOf' = [flagOf EXCEPT ![j] = w]
        /\ pc' = [pc EXCEPT ![w] = "announce"]
        /\ owner' = [owner EXCEPT ![w] = j]
        /\ cancelled' = cancelled
    BY <1>3 DEF Enqueue, Retry, Begin, FreshFlag
  <2>2. WorkInv'
    BY <1>0, <2>1 DEF Layer3, WorkInv, Working
  <2>3. FlagInv'
    BY <1>0, <2>1 DEF Layer3, FlagInv
  <2>4. QueuedInv'
    BY <1>0, <2>1 DEF Layer3, QueuedInv, WaitingFor, FlagInv
  <2> QED
    BY <2>2, <2>3, <2>4 DEF Layer3
<1>4. ASSUME NEW js \in SUBSET Jobs, CancelAll(js),
             \A j \in js : state[j] \in {"Queued", "Running"}
      PROVE  Layer3'
  <2>1. /\ cancelled' = [w \in Workers |-> cancelled[w] \/ \E j \in js : flagOf[j] = w]
        /\ state' = [j \in Jobs |-> IF j \in js /\ state[j] = "Queued"
                                      THEN "Cancelled" ELSE state[j]]
        /\ UNCHANGED <<pc, owner, flagOf>>
    BY <1>4 DEF CancelAll, workers
  <2>2. WorkInv'
    <3>1. \A j \in Jobs : state'[j] = "Running" <=> state[j] = "Running"
      BY <2>1
    <3>2. \A w \in Workers : pc[w] \in Working => owner[w] \in Jobs
      BY <1>0 DEF Working
    <3> QED
      BY <2>1, <3>1, <3>2 DEF Layer3, WorkInv
  <2>3. FlagInv'
    BY <1>0, <1>4, <2>1 DEF Layer3, FlagInv
  <2>4. QueuedInv'
    <3> SUFFICES ASSUME NEW k \in Jobs, state'[k] = "Queued"
                 PROVE  ~cancelled'[flagOf'[k]] /\ WaitingFor(k)'
      BY DEF QueuedInv
    <3>1. state[k] = "Queued" /\ k \notin js
      BY <1>0, <2>1
    <3>2. flagOf[k] \in Workers /\ ~cancelled[flagOf[k]] /\ WaitingFor(k)
      BY <3>1 DEF Layer3, FlagInv, QueuedInv
    <3>3. \A j \in js : flagOf[j] # flagOf[k]
      BY <3>1, <3>2, <1>4 DEF Layer3, FlagInv
    <3> QED
      BY <2>1, <3>2, <3>3 DEF WaitingFor
  <2> QED
    BY <2>2, <2>3, <2>4 DEF Layer3
<1>5. ASSUME NEW w \in Workers, Admit(w) PROVE Layer3'
  <2>0. pc[w] = "admit" /\ owner[w] \in Jobs
    BY <1>0, <1>5 DEF Admit
  <2>1. CASE TurnedAway(owner[w])
    <3>1. /\ pc' = [pc EXCEPT ![w] = "gone"]
          /\ UNCHANGED <<state, owner, flagOf, cancelled>>
      BY <1>5, <2>1 DEF Admit, Goto
    <3>2. state[owner[w]] # "Queued"
      BY <2>0, <2>1 DEF TurnedAway, Layer3, QueuedInv
    <3>3. WorkInv'
      BY <1>0, <2>0, <3>1 DEF Layer3, WorkInv, Working
    <3>4. FlagInv'
      BY <1>0, <2>0, <3>1 DEF Layer3, FlagInv
    <3>5. QueuedInv'
      BY <1>0, <2>0, <3>1, <3>2 DEF Layer3, QueuedInv, WaitingFor
    <3> QED
      BY <3>3, <3>4, <3>5 DEF Layer3
  <2>2. CASE ~TurnedAway(owner[w])
    <3>1. /\ pc' = [pc EXCEPT ![w] = "started"]
          /\ state' = [state EXCEPT ![owner[w]] = "Running"]
          /\ UNCHANGED <<owner, flagOf, cancelled>>
      BY <1>5, <2>2 DEF Admit, Goto
    <3>2. state[owner[w]] = "Queued"
      BY <2>2 DEF TurnedAway
    <3>3. WorkInv'
      BY <1>0, <2>0, <3>1, <3>2 DEF Layer3, WorkInv, Working
    <3>4. FlagInv'
      BY <1>0, <2>0, <3>1, <3>2 DEF Layer3, FlagInv
    <3>5. QueuedInv'
      BY <1>0, <2>0, <3>1 DEF Layer3, QueuedInv, WaitingFor
    <3> QED
      BY <3>3, <3>4, <3>5 DEF Layer3
  <2> QED
    BY <2>1, <2>2
<1>6. ASSUME NEW w \in Workers, Settle(w) PROVE Layer3'
  <2>1. /\ pc[w] = "settle" /\ owner[w] \in Jobs
        /\ pc' = [pc EXCEPT ![w] = "report"]
        /\ UNCHANGED <<owner, flagOf, cancelled>>
    BY <1>0, <1>6 DEF Settle, Goto
  <2>2. \E f \in Terminal : state' = [state EXCEPT ![owner[w]] = f]
    BY <1>6 DEF Settle, FinalState, Terminal
  <2>3. PICK f \in Terminal : state' = [state EXCEPT ![owner[w]] = f]
    BY <2>2
  <2>4. f \notin {"Running", "Queued", "Absent"} /\ state[owner[w]] = "Running"
    BY <2>1 DEF Terminal, Layer3, WorkInv, Working
  <2>5. WorkInv'
    BY <1>0, <2>1, <2>3, <2>4 DEF Layer3, WorkInv, Working
  <2>6. FlagInv'
    BY <1>0, <2>1, <2>3, <2>4 DEF Layer3, FlagInv
  <2>7. QueuedInv'
    BY <1>0, <2>1, <2>3, <2>4 DEF Layer3, QueuedInv, WaitingFor
  <2> QED
    BY <2>5, <2>6, <2>7 DEF Layer3
<1>7. ASSUME NEW j \in Jobs, AnnounceCancelled(j) PROVE Layer3'
  BY <1>2, <1>7 DEF AnnounceCancelled, records, workers
<1>8. ASSUME NEW s \in Sessions, SubscribeList(s) \/ SubscribePush(s) PROVE Layer3'
  BY <1>2, <1>8 DEF SubscribeList, SubscribePush, records, workers
<1>9. ASSUME NEW w \in Workers, Broadcast(w) PROVE Layer3'
  BY <1>1, <1>9 DEF Broadcast, Goto, AfterBroadcast, FirstStep, Broadcasting,
        Working, Pcs, records
<1>10. ASSUME NEW w \in Workers, Acquire(w) PROVE Layer3'
  BY <1>1, <1>10 DEF Acquire, Goto, Working, Pcs, records
<1>11. ASSUME NEW w \in Workers,
              \/ CheckDestination(w) \/ Prepare(w) \/ Copy(w) \/ Seal(w)
              \/ RemoveOld(w) \/ Rename(w) \/ Cleanup(w) \/ Release(w)
       PROVE  Layer3'
  <2>1. \E p \in {"prepare", "release", "copy", "progress", "seal", "cleanup",
                  "remove", "rename", "settle"} : pc' = [pc EXCEPT ![w] = p]
    BY <1>11 DEF CheckDestination, Prepare, Copy, Seal, RemoveOld, Rename,
          Cleanup, Release, Goto, Fail
  <2>2. pc[w] \in Working /\ UNCHANGED <<state, owner, flagOf, cancelled>>
    BY <1>11 DEF CheckDestination, Prepare, Copy, Seal, RemoveOld, Rename,
          Cleanup, Release, Working, records
  <2> QED
    BY <1>1, <2>1, <2>2 DEF Working, Pcs
<1>12. CASE UNCHANGED vars
  BY <1>2, <1>12 DEF vars, records, workers
<1>13. ASSUME NEW j \in Jobs, Cancel(j) PROVE Layer3'
  BY <1>4, <1>13 DEF Cancel
<1>14. ASSUME NEW s \in Sessions, CancelSession(s) PROVE Layer3'
  BY <1>4, <1>14 DEF CancelSession
<1> QED
  BY <1>3, <1>5, <1>6, <1>7, <1>8, <1>9, <1>10, <1>11, <1>12, <1>13, <1>14
     DEF Next, UserStep, WorkerStep

\* Nothing is enqueued at the start.
LEMMA InitLayer3 == Init => Layer3
BY QueueAssumption DEF QueueAssumption, Init, Layer3, WorkInv, FlagInv, QueuedInv,
     WaitingFor, Working

-----------------------------------------------------------------------------
(* Layer 4: files *)

Sole(j) == \A k \in Jobs \ {j} : PathOf[k] # PathOf[j]
Delivered(j) == dest[PathOf[j]] = [by |-> j, chunks |-> Length[j]]

FileInv ==
  /\ \A w \in Workers : pc[w] \in {"copy", "progress"} =>
       temp[owner[w]] \in 0..Length[owner[w]]
  /\ \A w \in Workers : pc[w] \in {"seal", "remove", "rename"} =>
       temp[owner[w]] = Length[owner[w]]
  /\ \A w \in Workers : result[w] = "ok" =>
       /\ pc[w] \in {"release", "settle"}
       /\ Sole(owner[w]) => Delivered(owner[w])
  /\ \A j \in Jobs : state[j] = "Completed" /\ Sole(j) => Delivered(j)
  /\ WholeFiles

\* Bytes reach the destination only whole, and Completed implies delivered:
\* no other worker touches the temporary file of a job being worked on.
LEMMA NextFiles == Types /\ Layer3 /\ FileInv /\ [Next]_vars => FileInv'
<1> SUFFICES ASSUME Types, Layer3, FileInv, [Next]_vars PROVE FileInv'
  OBVIOUS
<1> USE QueueAssumption DEF QueueAssumption
<1>0. /\ state \in [Jobs -> States] /\ pc \in [Workers -> Pcs]
      /\ owner \in [Workers -> Jobs \cup {None}] /\ result \in [Workers -> Outcomes]
      /\ temp \in [Jobs -> Nat \cup {Missing}] /\ dest \in [Paths -> Contents]
      /\ \A w \in Workers : pc[w] # "unused" => owner[w] \in Jobs
  BY DEF Types
<1>a. \A v, w \in Workers : pc[v] \in Working /\ pc[w] \in Working
                              /\ owner[v] = owner[w] => v = w
  BY DEF Layer3, WorkInv
<1>b. \A w \in Workers : pc[w] \in Working => state[owner[w]] = "Running"
  BY DEF Layer3, WorkInv
\* Steps that leave the files and the results alone.
<1>1. ASSUME NEW w \in Workers, NEW p \in Pcs, pc' = [pc EXCEPT ![w] = p],
             p \in {"copy", "progress"} => pc[w] \in {"copy", "progress"},
             p \notin {"seal", "remove", "rename"},
             pc[w] \notin {"release", "settle"},
             \A j \in Jobs : state'[j] = "Completed" => state[j] = "Completed",
             UNCHANGED <<owner, result, temp, dest>>
      PROVE  FileInv'
  BY <1>0, <1>1 DEF FileInv, Sole, Delivered, WholeFiles
<1>2. ASSUME UNCHANGED <<pc, owner, result, temp, dest>>,
             \A j \in Jobs : state'[j] = "Completed" => state[j] = "Completed"
      PROVE FileInv'
  BY <1>2 DEF FileInv, Sole, Delivered, WholeFiles
\* A step of a worker at work: only its own files and outcome may change.
<1>3. ASSUME NEW w \in Workers, pc[w] \in Working,
             \A v \in Workers \ {w} : pc'[v] = pc[v] /\ result'[v] = result[v],
             \A j \in Jobs \ {owner[w]} : temp'[j] = temp[j],
             \A q \in Paths \ {PathOf[owner[w]]} : dest'[q] = dest[q],
             owner' = owner, state' = state,
             pc'[w] \in {"copy", "progress"} => temp'[owner[w]] \in 0..Length[owner[w]],
             pc'[w] \in {"seal", "remove", "rename"} => temp'[owner[w]] = Length[owner[w]],
             result'[w] = "ok" =>
               /\ pc'[w] \in {"release", "settle"}
               /\ Sole(owner[w]) =>
                    dest'[PathOf[owner[w]]] = [by |-> owner[w], chunks |-> Length[owner[w]]],
             WholeFiles'
      PROVE FileInv'
  <2>0. owner[w] \in Jobs /\ state[owner[w]] = "Running"
    BY <1>0, <1>b, <1>3 DEF Working
  <2>1. \A v \in Workers \ {w} : pc[v] \in Working =>
           owner[v] \in Jobs \ {owner[w]} /\ temp'[owner[v]] = temp[owner[v]]
    BY <1>0, <1>a, <1>3 DEF Working
  <2>2. \A j \in Jobs \ {owner[w]} : Sole(j) => dest'[PathOf[j]] = dest[PathOf[j]]
    BY <1>3, <2>0 DEF Sole
  <2>5. \A v \in Workers : pc'[v] \in {"copy", "progress"} =>
            temp'[owner[v]] \in 0..Length[owner[v]]
    BY <1>3, <2>1 DEF FileInv, Working
  <2>6. \A v \in Workers : pc'[v] \in {"seal", "remove", "rename"} =>
            temp'[owner[v]] = Length[owner[v]]
    BY <1>3, <2>1 DEF FileInv, Working
  <2>7. \A v \in Workers : result'[v] = "ok" =>
            /\ pc'[v] \in {"release", "settle"}
            /\ Sole(owner[v]) =>
                 dest'[PathOf[owner[v]]] = [by |-> owner[v], chunks |-> Length[owner[v]]]
    <3>1. ASSUME NEW v \in Workers \ {w}, result'[v] = "ok"
          PROVE  /\ pc'[v] \in {"release", "settle"}
                 /\ Sole(owner[v]) =>
                      dest'[PathOf[owner[v]]] = [by |-> owner[v], chunks |-> Length[owner[v]]]
      <4>1. result[v] = "ok" /\ pc'[v] = pc[v]
        BY <1>3, <3>1
      <4>2. pc[v] \in {"release", "settle"} /\ (Sole(owner[v]) => Delivered(owner[v]))
        BY <4>1 DEF FileInv
      <4>3. owner[v] \in Jobs \ {owner[w]}
        BY <2>1, <4>2 DEF Working
      <4> QED
        BY <2>2, <4>1, <4>2, <4>3 DEF Delivered
    <3> QED
      BY <1>3, <3>1
  <2>8. \A j \in Jobs : state[j] = "Completed" /\ Sole(j) =>
           dest'[PathOf[j]] = [by |-> j, chunks |-> Length[j]]
    BY <2>0, <2>2 DEF FileInv, Delivered
  <2> QED
    BY <2>5, <2>6, <2>7, <2>8, <1>3 DEF FileInv, Sole, Delivered
<1>4. ASSUME NEW j \in Jobs, NEW w \in Workers, NEW ow \in BOOLEAN,
             Enqueue(j, w, ow) \/ Retry(j, w, ow)
      PROVE  FileInv'
  <2>1. /\ pc[w] = "unused" /\ pc' = [pc EXCEPT ![w] = "announce"]
        /\ owner' = [owner EXCEPT ![w] = j]
        /\ state' = [state EXCEPT ![j] = "Queued"]
        /\ UNCHANGED <<result, temp, dest>>
    BY <1>4 DEF Enqueue, Retry, Begin, files
  <2>2. \A v \in Workers : pc'[v] \notin {"unused", "announce"} =>
           v # w /\ pc'[v] = pc[v] /\ owner'[v] = owner[v]
    BY <1>0, <2>1
  <2>3. result[w] # "ok"  BY <2>1 DEF FileInv
  <2>4. \A v \in Workers : result'[v] = "ok" =>
           /\ pc'[v] \in {"release", "settle"}
           /\ owner'[v] = owner[v]
           /\ Sole(owner[v]) => Delivered(owner[v])
    BY <1>0, <2>1, <2>3 DEF FileInv
  <2>5. \A i \in Jobs : state'[i] = "Completed" /\ Sole(i) => Delivered(i)
    BY <1>0, <2>1 DEF FileInv
  <2>6. \A v \in Workers : pc'[v] \in {"copy", "progress"} =>
           temp'[owner'[v]] \in 0..Length[owner'[v]]
    BY <2>1, <2>2 DEF FileInv
  <2>7. \A v \in Workers : pc'[v] \in {"seal", "remove", "rename"} =>
           temp'[owner'[v]] = Length[owner'[v]]
    BY <2>1, <2>2 DEF FileInv
  <2>8. (\A v \in Workers : result[v] = "ok" =>
           /\ pc[v] \in {"release", "settle"}
           /\ Sole(owner[v]) => Delivered(owner[v]))'
    <3> SUFFICES ASSUME NEW v \in Workers, (result[v] = "ok")'
                 PROVE  /\ (pc[v] \in {"release", "settle"})'
                        /\ Sole(owner[v])' => Delivered(owner[v])'
      BY DEF Sole, Delivered
    <3>1. owner'[v] = owner[v] /\ dest' = dest  BY <2>1, <2>4
    <3>2. pc'[v] \in {"release", "settle"}  BY <2>4
    <3>3. Sole(owner[v]) => Delivered(owner[v])  BY <2>4
    <3>4. Sole(owner[v])' => Delivered(owner[v])'
      BY <3>1, <3>3 DEF Sole, Delivered
    <3>5. QED  BY <3>2, <3>4
  <2>9. (\A i \in Jobs : state[i] = "Completed" /\ Sole(i) => Delivered(i))'
    BY <2>1, <2>5 DEF Sole, Delivered
  <2>10. WholeFiles'  BY <2>1 DEF FileInv, WholeFiles
  <2> QED
    BY <2>6, <2>7, <2>8, <2>9, <2>10 DEF FileInv
<1>5. ASSUME NEW js \in SUBSET Jobs, CancelAll(js) PROVE FileInv'
  BY <1>2, <1>5 DEF CancelAll, workers, files
<1>6. ASSUME NEW j \in Jobs, AnnounceCancelled(j) PROVE FileInv'
  BY <1>2, <1>6 DEF AnnounceCancelled, records, workers, files
<1>7. ASSUME NEW s \in Sessions, SubscribeList(s) \/ SubscribePush(s) PROVE FileInv'
  BY <1>2, <1>7 DEF SubscribeList, SubscribePush, records, workers, files
<1>8. ASSUME NEW w \in Workers, Broadcast(w) PROVE FileInv'
  BY <1>1, <1>8 DEF Broadcast, Goto, AfterBroadcast, FirstStep, Broadcasting,
        Working, Pcs, records, files
<1>9. ASSUME NEW w \in Workers, Acquire(w) PROVE FileInv'
  BY <1>1, <1>9 DEF Acquire, Goto, Pcs, records, files
<1>10. ASSUME NEW w \in Workers, Admit(w) PROVE FileInv'
  <2>1. /\ pc[w] = "admit"
        /\ pc' = [pc EXCEPT ![w] = "gone"] \/ pc' = [pc EXCEPT ![w] = "started"]
        /\ state' = state \/ state' = [state EXCEPT ![owner[w]] = "Running"]
        /\ UNCHANGED <<owner, result, temp, dest>>
    BY <1>10 DEF Admit, Goto, files
  <2> QED
    BY <1>0, <1>1, <2>1 DEF Pcs, Working
<1>11. ASSUME NEW w \in Workers, CheckDestination(w) PROVE FileInv'
  <2>1. result[w] # "ok"
    BY <1>11 DEF CheckDestination, FileInv
  <2>2. WholeFiles'
    BY <1>11 DEF CheckDestination, FileInv, WholeFiles, files
  <2> QED
    BY ZenonT(40), <1>0, <1>3, <1>11, <2>1, <2>2 DEF CheckDestination, Goto, Fail, Working, Pcs, Outcomes,
          records, files
<1>12. ASSUME NEW w \in Workers, Prepare(w) PROVE FileInv'
  <2>1. result[w] # "ok" /\ owner[w] \in Jobs /\ Length[owner[w]] \in Nat
    BY <1>0, <1>12 DEF Prepare, FileInv
  <2>2. WholeFiles'
    BY <1>12 DEF Prepare, FileInv, WholeFiles
  <2>3. CASE /\ pc' = [pc EXCEPT ![w] = "copy"] /\ result' = result
             /\ temp' = [temp EXCEPT ![owner[w]] = 0]
    <3>1. pc'[w] = "copy" /\ \A v \in Workers \ {w} : pc'[v] = pc[v]
      BY <1>0, <2>3
    <3>2. /\ temp'[owner[w]] \in 0..Length[owner[w]]
          /\ \A j \in Jobs \ {owner[w]} : temp'[j] = temp[j]
      BY <1>0, <2>1, <2>3
    <3>3. pc[w] \in Working /\ owner' = owner /\ state' = state /\ dest' = dest
      BY <1>12 DEF Prepare, Working, records
    <3> QED
      BY <1>3, <2>1, <2>2, <2>3, <3>1, <3>2, <3>3
  <2>4. CASE /\ pc' = [pc EXCEPT ![w] = "release"]
             /\ result' = [result EXCEPT ![w] = "error"]
             /\ \A j \in Jobs \ {owner[w]} : temp'[j] = temp[j]
    BY <1>0, <1>3, <1>12, <2>1, <2>2, <2>4 DEF Prepare, Working, Pcs, Outcomes, records
  <2> QED
    BY <1>0, <1>12, <2>3, <2>4 DEF Prepare, Goto, Fail
<1>13. ASSUME NEW w \in Workers, Copy(w) PROVE FileInv'
  <2>1. /\ result[w] # "ok" /\ owner[w] \in Jobs /\ Length[owner[w]] \in Nat
        /\ temp[owner[w]] \in 0..Length[owner[w]]
    BY <1>0, <1>13 DEF Copy, FileInv
  <2>2. WholeFiles' /\ pc[w] \in Working /\ UNCHANGED <<owner, state, dest>>
    BY <1>13 DEF Copy, FileInv, WholeFiles, Working
  <2>3. CASE /\ pc' = [pc EXCEPT ![w] = "progress"] /\ result' = result
             /\ temp[owner[w]] < Length[owner[w]]
             /\ temp' = [temp EXCEPT ![owner[w]] = @ + 1]
    <3>1. pc'[w] = "progress" /\ \A v \in Workers \ {w} : pc'[v] = pc[v]
      BY <1>0, <2>3
    <3>2. /\ temp'[owner[w]] \in 0..Length[owner[w]]
          /\ \A j \in Jobs \ {owner[w]} : temp'[j] = temp[j]
      BY <1>0, <2>1, <2>3
    <3> QED
      BY <1>3, <2>1, <2>2, <2>3, <3>1, <3>2
  <2>4. CASE /\ pc' = [pc EXCEPT ![w] = "seal"] /\ result' = result
             /\ temp[owner[w]] >= Length[owner[w]] /\ temp' = temp
    <3>1. pc'[w] = "seal" /\ \A v \in Workers \ {w} : pc'[v] = pc[v]
      BY <1>0, <2>4
    <3>2. temp'[owner[w]] = Length[owner[w]]
      BY <2>1, <2>4
    <3> QED
      BY <1>3, <2>1, <2>2, <2>4, <3>1, <3>2
  <2>5. CASE /\ pc' = [pc EXCEPT ![w] = "cleanup"] /\ temp' = temp
             /\ \E r \in {"cancelled", "error"} : result' = [result EXCEPT ![w] = r]
    BY <1>0, <1>3, <2>1, <2>2, <2>5 DEF Working, Pcs, Outcomes
  <2> QED
    BY <1>13, <2>3, <2>4, <2>5 DEF Copy, Goto, Fail
<1>14. ASSUME NEW w \in Workers, Seal(w) PROVE FileInv'
  <2>1. result[w] # "ok" /\ temp[owner[w]] = Length[owner[w]]
    BY <1>14 DEF Seal, FileInv
  <2>2. WholeFiles' /\ pc[w] \in Working /\ UNCHANGED <<owner, state, dest, temp>>
    BY <1>14 DEF Seal, FileInv, WholeFiles, Working, records, files
  <2>3. CASE pc' = [pc EXCEPT ![w] = "remove"] /\ result' = result
    BY <1>0, <1>3, <2>1, <2>2, <2>3 DEF Working, Pcs, Outcomes
  <2>4. CASE /\ pc' = [pc EXCEPT ![w] = "cleanup"]
             /\ \E r \in {"cancelled", "error"} : result' = [result EXCEPT ![w] = r]
    BY <1>0, <1>3, <2>1, <2>2, <2>4 DEF Working, Pcs, Outcomes
  <2> QED
    BY <1>14, <2>3, <2>4 DEF Seal, Goto, Fail
<1>15. ASSUME NEW w \in Workers, RemoveOld(w) PROVE FileInv'
  <2>1. result[w] # "ok" /\ temp[owner[w]] = Length[owner[w]] /\ owner[w] \in Jobs
    BY <1>0, <1>15 DEF RemoveOld, FileInv
  <2>2. /\ pc[w] \in Working /\ UNCHANGED <<owner, state, temp>>
        /\ dest' = dest \/ dest' = [dest EXCEPT ![PathOf[owner[w]]] = Nothing]
    BY <1>15 DEF RemoveOld, Working, records
  <2>3. WholeFiles'
    BY <1>0, <2>2 DEF FileInv, WholeFiles, Nothing
  <2>4. CASE pc' = [pc EXCEPT ![w] = "rename"] /\ result' = result
    BY <1>0, <1>3, <2>1, <2>2, <2>3, <2>4 DEF Working, Pcs, Outcomes
  <2>5. CASE /\ pc' = [pc EXCEPT ![w] = "cleanup"]
             /\ result' = [result EXCEPT ![w] = "error"]
    BY <1>0, <1>3, <2>1, <2>2, <2>3, <2>5 DEF Working, Pcs, Outcomes
  <2> QED
    BY <1>15, <2>4, <2>5 DEF RemoveOld, Goto, Fail
<1>16. ASSUME NEW w \in Workers, Rename(w) PROVE FileInv'
  <2>1. result[w] # "ok" /\ temp[owner[w]] = Length[owner[w]] /\ owner[w] \in Jobs
    BY <1>0, <1>16 DEF Rename, FileInv
  <2>2. pc[w] \in Working /\ UNCHANGED <<owner, state>>
    BY <1>16 DEF Rename, Working, records
  <2>3. Moved(owner[w]) => /\ WholeFiles'
                           /\ dest'[PathOf[owner[w]]] =
                                [by |-> owner[w], chunks |-> Length[owner[w]]]
                           /\ \A j \in Jobs \ {owner[w]} : temp'[j] = temp[j]
                           /\ \A q \in Paths \ {PathOf[owner[w]]} : dest'[q] = dest[q]
    <3> SUFFICES ASSUME Moved(owner[w])
                 PROVE  /\ WholeFiles'
                        /\ dest'[PathOf[owner[w]]] =
                             [by |-> owner[w], chunks |-> Length[owner[w]]]
                        /\ \A j \in Jobs \ {owner[w]} : temp'[j] = temp[j]
                        /\ \A q \in Paths \ {PathOf[owner[w]]} : dest'[q] = dest[q]
      OBVIOUS
    <3>1. /\ dest' = [dest EXCEPT ![PathOf[owner[w]]] =
                        [by |-> owner[w], chunks |-> Length[owner[w]]]]
          /\ temp' = [temp EXCEPT ![owner[w]] = Missing]
      BY <2>1 DEF Moved
    <3>2. PathOf[owner[w]] \in Paths
      BY <2>1
    <3>3. dest'[PathOf[owner[w]]] = [by |-> owner[w], chunks |-> Length[owner[w]]]
      BY <1>0, <3>1, <3>2
    <3>4. \A q \in Paths \ {PathOf[owner[w]]} : dest'[q] = dest[q]
      BY <1>0, <3>1
    <3>5. WholeFiles'
      BY <3>2, <3>3, <3>4 DEF FileInv, WholeFiles
    <3> QED
      BY <1>0, <3>1, <3>3, <3>4, <3>5
  <2>4. UNCHANGED files => WholeFiles'
    BY DEF files, FileInv, WholeFiles
  <2>5. CASE Moved(owner[w]) /\ pc' = [pc EXCEPT ![w] = "release"]
             /\ result' = [result EXCEPT ![w] = "ok"]
    BY <1>0, <1>3, <2>1, <2>2, <2>3, <2>5
  <2>6. CASE /\ Moved(owner[w]) \/ UNCHANGED files
             /\ pc' = [pc EXCEPT ![w] = "cleanup"]
             /\ result' = [result EXCEPT ![w] = "error"]
    BY <1>0, <1>3, <2>1, <2>2, <2>3, <2>4, <2>6 DEF files
  <2> QED
    BY <1>16, <2>5, <2>6 DEF Rename, Goto, Fail
<1>17. ASSUME NEW w \in Workers, Cleanup(w) PROVE FileInv'
  <2>1. result[w] # "ok" /\ WholeFiles'
    BY <1>17 DEF Cleanup, FileInv, WholeFiles
  <2>2. /\ pc[w] \in Working /\ UNCHANGED <<owner, state, dest, result>>
        /\ pc' = [pc EXCEPT ![w] = "release"]
        /\ temp' = temp \/ temp' = [temp EXCEPT ![owner[w]] = Missing]
    BY <1>17 DEF Cleanup, Goto, Working, records
  <2> QED
    BY <1>0, <1>3, <2>1, <2>2 DEF Working, Pcs, Outcomes
<1>18. ASSUME NEW w \in Workers, Release(w) PROVE FileInv'
  <2>1. result[w] = "ok" => (Sole(owner[w]) => Delivered(owner[w]))
    BY DEF FileInv
  <2>2. /\ pc[w] \in Working /\ UNCHANGED <<owner, state, dest, result, temp>>
        /\ pc' = [pc EXCEPT ![w] = "settle"]
    BY <1>18 DEF Release, Goto, Working, records, files
  <2>3. WholeFiles'
    BY <2>2 DEF FileInv, WholeFiles
  <2> QED
    BY <1>0, <1>3, <2>1, <2>2, <2>3 DEF Working, Delivered
<1>19. ASSUME NEW w \in Workers, Settle(w) PROVE FileInv'
  <2>1. /\ pc[w] = "settle" /\ owner[w] \in Jobs
        /\ pc' = [pc EXCEPT ![w] = "report"]
        /\ result' = [result EXCEPT ![w] = "none"]
        /\ state' = [state EXCEPT ![owner[w]] = FinalState(w)]
        /\ UNCHANGED <<owner, temp, dest>>
    BY <1>0, <1>19 DEF Settle, Goto, files
  <2>2. FinalState(w) = "Completed" => result[w] = "ok"
    BY DEF FinalState
  <2>3. FinalState(w) = "Completed" => (Sole(owner[w]) => Delivered(owner[w]))
    BY <2>2 DEF FileInv
  <2> QED
    BY <1>0, <2>1, <2>3 DEF FileInv, Sole, Delivered, WholeFiles
<1>20. CASE UNCHANGED vars
  BY <1>2, <1>20 DEF vars, records, workers, files
<1>21. ASSUME NEW j \in Jobs, Cancel(j) PROVE FileInv'
  BY <1>5, <1>21 DEF Cancel
<1>22. ASSUME NEW s \in Sessions, CancelSession(s) PROVE FileInv'
  BY <1>5, <1>22 DEF CancelSession
<1> QED
  BY <1>4, <1>6, <1>7, <1>8, <1>9, <1>10, <1>11, <1>12, <1>13, <1>14, <1>15, <1>16,
     <1>17, <1>18, <1>19, <1>20, <1>21, <1>22 DEF Next, UserStep, WorkerStep

\* At the start no job has put anything anywhere.
LEMMA InitFiles == Init => FileInv
BY QueueAssumption DEF QueueAssumption, Init, FileInv, WholeFiles, Nothing, UserFile

-----------------------------------------------------------------------------
(* Layer 5: events *)

EventInv ==
  /\ \A w \in Workers : note[w].state = "Completed" =>
       pc[w] = "report" /\ state[owner[w]] = "Completed"
  /\ CompletionNotInvented

\* A snapshot that says Completed is taken when the job is settled, and
\* Completed is never left again.
LEMMA NextEvents == Types /\ Layer3 /\ EventInv /\ [Next]_vars => EventInv'
<1> SUFFICES ASSUME Types, Layer3, EventInv, [Next]_vars PROVE EventInv'
  OBVIOUS
<1> USE QueueAssumption DEF QueueAssumption
<1>0. /\ state \in [Jobs -> States] /\ pc \in [Workers -> Pcs]
      /\ owner \in [Workers -> Jobs \cup {None}]
      /\ note \in [Workers -> Snapshots] /\ view \in [Jobs -> Snapshots]
      /\ \A w \in Workers : pc[w] # "unused" => owner[w] \in Jobs
  BY DEF Types
\* Completed jobs stay completed.
<1>1. \A j \in Jobs : state[j] = "Completed" => state'[j] = "Completed"
  <2> SUFFICES ASSUME NEW j \in Jobs, state[j] = "Completed" PROVE state'[j] = "Completed"
    OBVIOUS
  <2>1. ASSUME NEW k \in Jobs, NEW w \in Workers, NEW ow \in BOOLEAN,
               Enqueue(k, w, ow) \/ Retry(k, w, ow)
        PROVE  state'[j] = "Completed"
    BY <1>0, <2>1 DEF Enqueue, Retry, Begin
  <2>2. ASSUME NEW js \in SUBSET Jobs, CancelAll(js) PROVE state'[j] = "Completed"
    BY <2>2 DEF CancelAll
  <2>3. ASSUME NEW w \in Workers, Admit(w) PROVE state'[j] = "Completed"
    BY <1>0, <2>3 DEF Admit, TurnedAway
  <2>4. ASSUME NEW w \in Workers, Settle(w) PROVE state'[j] = "Completed"
    BY <1>0, <2>4 DEF Settle, Layer3, WorkInv, Working
  <2>5. ASSUME NEW k \in Jobs, Cancel(k) PROVE state'[j] = "Completed"
    BY <2>2, <2>5 DEF Cancel
  <2>6. ASSUME NEW s \in Sessions, CancelSession(s) PROVE state'[j] = "Completed"
    BY <2>2, <2>6 DEF CancelSession
  <2>7. ASSUME state' = state PROVE state'[j] = "Completed"
    BY <2>7
  <2>8. ASSUME NEW w \in Workers,
               \/ Broadcast(w) \/ Acquire(w) \/ CheckDestination(w) \/ Prepare(w)
               \/ Copy(w) \/ Seal(w) \/ RemoveOld(w) \/ Rename(w) \/ Cleanup(w) \/ Release(w)
        PROVE  state' = state
    BY <2>8 DEF Broadcast, Acquire, CheckDestination, Prepare, Copy, Seal, RemoveOld,
          Rename, Cleanup, Release, records
  <2>9. ASSUME NEW k \in Jobs, AnnounceCancelled(k) PROVE state' = state
    BY <2>9 DEF AnnounceCancelled, records
  <2>10. ASSUME NEW s \in Sessions, SubscribeList(s) \/ SubscribePush(s) PROVE state' = state
    BY <2>10 DEF SubscribeList, SubscribePush, records
  <2>11. CASE UNCHANGED vars
    BY <2>7, <2>11 DEF vars, records
  <2> QED
    BY <2>1, <2>3, <2>4, <2>5, <2>6, <2>7, <2>8, <2>9, <2>10, <2>11
       DEF Next, UserStep, WorkerStep
\* Steps that change no note and no view.
<1>2. ASSUME view' = view, note' = note, owner' = owner,
             \A v \in Workers : pc[v] = "report" => pc'[v] = "report"
      PROVE  EventInv'
  BY <1>0, <1>1, <1>2 DEF EventInv, CompletionNotInvented
\* Steps in which worker w writes a note that does not say Completed.
<1>3. ASSUME NEW w \in Workers, view' = view, note'[w].state # "Completed",
             \A v \in Workers \ {w} : note'[v] = note[v] /\ pc'[v] = pc[v] /\ owner'[v] = owner[v]
      PROVE  EventInv'
  BY <1>0, <1>1, <1>3 DEF EventInv, CompletionNotInvented
<1>4. ASSUME NEW j \in Jobs, NEW w \in Workers, NEW ow \in BOOLEAN,
             Enqueue(j, w, ow) \/ Retry(j, w, ow)
      PROVE  EventInv'
  BY <1>0, <1>3, <1>4 DEF Enqueue, Retry, Begin, ui
<1>5. ASSUME NEW js \in SUBSET Jobs, CancelAll(js) PROVE EventInv'
  BY <1>2, <1>5 DEF CancelAll, workers, ui
<1>6. ASSUME NEW j \in Jobs, AnnounceCancelled(j) PROVE EventInv'
  BY <1>0, <1>1, <1>6 DEF AnnounceCancelled, Deliver, EventInv, CompletionNotInvented, workers
<1>7. ASSUME NEW s \in Sessions, SubscribeList(s) \/ SubscribePush(s) PROVE EventInv'
  BY <1>0, <1>1, <1>7 DEF SubscribeList, SubscribePush, Snapshot, EventInv,
        CompletionNotInvented, workers, records
<1>8. ASSUME NEW w \in Workers, Broadcast(w) PROVE EventInv'
  <2>1. /\ pc[w] # "unused" /\ owner[w] \in Jobs
        /\ view' = view \/ view' = [view EXCEPT ![owner[w]] = note[w]]
        /\ note' = [note EXCEPT ![w] = Unknown]
        /\ \A v \in Workers \ {w} : pc'[v] = pc[v]
        /\ owner' = owner /\ state' = state
    BY <1>0, <1>8 DEF Broadcast, Broadcasting, Deliver, Goto, records
  <2>2. Unknown.state # "Completed"
    BY DEF Unknown
  <2>3. CompletionNotInvented'
    BY <1>0, <2>1 DEF EventInv, CompletionNotInvented
  <2> QED
    BY <1>0, <2>1, <2>2, <2>3 DEF EventInv
<1>9. ASSUME NEW w \in Workers, Admit(w) PROVE EventInv'
  <2>1. /\ pc[w] = "admit" /\ view' = view /\ owner' = owner
        /\ \A v \in Workers \ {w} : pc'[v] = pc[v]
        /\ \/ note' = note
           \/ note' = [note EXCEPT ![w] = [state |-> "Running", done |-> done[owner[w]]]]
    BY <1>0, <1>9 DEF Admit, Goto, ui
  <2> QED
    BY <1>0, <1>2, <1>3, <2>1
<1>10. ASSUME NEW w \in Workers, Copy(w) PROVE EventInv'
  <2>1. /\ pc[w] = "copy" /\ view' = view /\ owner' = owner
        /\ \A v \in Workers \ {w} : pc'[v] = pc[v]
        /\ \/ note' = note
           \/ note' = [note EXCEPT ![w] = [state |-> state[owner[w]], done |-> done'[owner[w]]]]
    BY <1>0, <1>10 DEF Copy, Goto, Fail, ui
  <2>2. state[owner[w]] = "Running"
    BY <2>1 DEF Layer3, WorkInv, Working
  <2> QED
    BY <1>0, <1>2, <1>3, <2>1, <2>2
<1>11. ASSUME NEW w \in Workers, Settle(w) PROVE EventInv'
  <2>1. /\ pc[w] = "settle" /\ view' = view /\ owner' = owner /\ owner[w] \in Jobs
        /\ pc' = [pc EXCEPT ![w] = "report"]
        /\ note' = [note EXCEPT ![w] = [state |-> state'[owner[w]], done |-> done'[owner[w]]]]
    BY <1>0, <1>11 DEF Settle, Goto, ui
  <2> QED
    BY <1>0, <1>1, <2>1 DEF EventInv, CompletionNotInvented
<1>12. ASSUME NEW w \in Workers,
              \/ Acquire(w) \/ CheckDestination(w) \/ Prepare(w) \/ Seal(w)
              \/ RemoveOld(w) \/ Rename(w) \/ Cleanup(w) \/ Release(w)
       PROVE  EventInv'
  <2>1. /\ pc[w] # "report" /\ view' = view /\ owner' = owner /\ note' = note
        /\ \A v \in Workers \ {w} : pc'[v] = pc[v]
    BY <1>0, <1>12 DEF Acquire, CheckDestination, Prepare, Seal, RemoveOld, Rename,
          Cleanup, Release, Goto, Fail, ui
  <2> QED
    BY <1>2, <2>1
<1>13. CASE UNCHANGED vars
  BY <1>2, <1>13 DEF vars, workers, ui
<1>14. ASSUME NEW j \in Jobs, Cancel(j) PROVE EventInv'
  BY <1>5, <1>14 DEF Cancel
<1>15. ASSUME NEW s \in Sessions, CancelSession(s) PROVE EventInv'
  BY <1>5, <1>15 DEF CancelSession
<1> QED
  BY <1>4, <1>6, <1>7, <1>8, <1>9, <1>10, <1>11, <1>12, <1>13, <1>14, <1>15
     DEF Next, UserStep, WorkerStep

\* Nothing has been announced at the start.
LEMMA InitEvents == Init => EventInv
BY DEF Init, EventInv, CompletionNotInvented, Unknown

-----------------------------------------------------------------------------
(* The theorems *)

IndInv == Types /\ PermitsInv /\ Layer3 /\ FileInv /\ EventInv

\* All layers together are an inductive invariant of the queue.
THEOREM Inductive == Spec => []IndInv
<1>1. Init => IndInv
  BY InitTypes, InitPermits, InitLayer3, InitFiles, InitEvents DEF IndInv
<1>2. IndInv /\ [Next]_vars => IndInv'
  BY NextTypes, NextPermits, NextLayer3, NextFiles, NextEvents DEF IndInv
<1> QED
  BY <1>1, <1>2, PTL DEF Spec

\* Every variable keeps its type, and there are never more free permits than
\* TRANSFER_CONCURRENCY.
THEOREM TypeCorrect == Spec => []TypeOK
<1>1. IndInv => TypeOK
  <2> SUFFICES ASSUME IndInv PROVE TypeOK
    OBVIOUS
  <2>1. Cardinality(Holders) \in Nat /\ permits \in Nat
    BY FS_CardinalityType DEF IndInv, PermitsInv, Types
  <2>2. permits \in 0..Concurrency
    BY <2>1, QueueAssumption DEF IndInv, PermitsInv, QueueAssumption
  <2> QED
    BY <2>2 DEF IndInv, Types, TypeOK
<1> QED
  BY <1>1, Inductive, PTL

\* The semaphore is exact: free permits and holders add up to the limit.
THEOREM PermitsExact == Spec => []PermitsAccounted
<1>1. IndInv => PermitsAccounted
  BY DEF IndInv, PermitsInv, PermitsAccounted, Holders
<1> QED
  BY <1>1, Inductive, PTL

\* A Running job has exactly one worker at work, any other job has none,
\* however many stale workers cancel() and retry() left behind.
THEOREM SingleWorker == Spec => []OneWorkerPerJob
<1>1. IndInv => OneWorkerPerJob
  BY DEF IndInv, Layer3, WorkInv, OneWorkerPerJob
<1> QED
  BY <1>1, Inductive, PTL

\* A Queued job has a clear flag and a worker on its way.
THEOREM NoLostJob == Spec => []QueuedIsServed
<1>1. IndInv => QueuedIsServed
  BY DEF IndInv, Layer3, QueuedInv, WaitingFor, QueuedIsServed
<1> QED
  BY <1>1, Inductive, PTL

\* A destination never holds part of a file.
THEOREM NoPartialFile == Spec => []WholeFiles
<1>1. IndInv => WholeFiles
  BY DEF IndInv, FileInv
<1> QED
  BY <1>1, Inductive, PTL

\* Completed means that the bytes are in place.
THEOREM DeliveryIsTrue == Spec => []CompletedIsDelivered
<1>1. IndInv => CompletedIsDelivered
  BY DEF IndInv, FileInv, Sole, Delivered, CompletedIsDelivered
<1> QED
  BY <1>1, Inductive, PTL

\* The interface never announces a completion that did not happen.
THEOREM EventsAreTrue == Spec => []CompletionNotInvented
<1>1. IndInv => CompletionNotInvented
  BY DEF IndInv, EventInv
<1> QED
  BY <1>1, Inductive, PTL

=============================================================================
