--------------------------- MODULE AgentRunProofs ---------------------------
(* Proofs about AgentRun, for every value of its constants. *)
EXTENDS AgentRun, TLAPS

\* A request past its first step refers to an ActiveRun entry.
Bound == \A p \in Procs : pc[p] # "idle" => handle[p] \in Handles

\* The steps that work on an approval.
Holding == {"policy", "granted", "started", "ran", "verdict", "execute",
            "verify", "rollback", "park"}

\* An answer and a proposal name their approval.
Naming ==
  \A p \in Procs :
    \/ pc[p] \in Holding
    \/ pc[p] \in {"wait", "begin"} /\ op[p] \in {"approve", "reject"}
    => arg[p] \in Approvals

\* The command half and the ChangeSet half of Act.
Answered(p) ==
  \/ \E m \in BOOLEAN : Judge(p, m)
  \/ Resume(p) \/ StartCall(p)
  \/ \E sent, ok \in BOOLEAN : Execute(p, sent, ok)
  \/ Record(p)

Changed(p) ==
  \/ ApproveChange(p) \/ ApproveChangeError(p)
  \/ \E ok \in BOOLEAN : ExecuteChange(p, ok)
  \/ ExecuteChangeError(p)
  \/ \E ok \in BOOLEAN : VerifyChange(p, ok)
  \/ RollBack(p)

Types == TypeOK /\ Bound /\ Naming

\* What a command leaves to verify is a yes or a no.
LEMMA OwedType ==
  ASSUME NEW k, NEW ok \in BOOLEAN, NEW before \in BOOLEAN
  PROVE  Owed(k, ok, before) \in BOOLEAN
BY DEF Owed

\* A request, a cancel or a registration keeps the types.
LEMMA TypesArrive ==
  ASSUME Types, NEW p \in Procs, Arrive(p)
  PROVE  Types'
<1> USE AgentAssumption DEF Arrive, Request, Named, Pending, Register,
      Cancel, CancelUnbound, Signal, Goto, Move, Stay, Observed, Checkpoint,
      Forget, Unlock, Keep, Return, Finish, Fail, EndRun, Decide, db,
      service, controller, requests, history, Types, TypeOK
<1>1. (state \in RunStates)'
  BY DEF DbOK, RunStates, Phases, Interrupt, Terminal, ControllerOK
<1>2. (approval \in [Approvals -> {"absent", "pending"} \cup Verdicts])'
  BY DEF DbOK, Verdicts
<1>3. (kind \in [Approvals -> Kinds])'  BY DEF DbOK, Kinds
<1>4. (stored \subseteq Approvals)'  BY DEF DbOK
<1>5. (logged \in BOOLEAN)'  BY DEF DbOK, Owed, RequestsOK
<1>6. (budget \in [rounds : 0 .. MaxRounds, calls : Nat])'
  BY DEF DbOK, Bound, ControllerOK, RequestsOK
<1>7. (active \in Handles \cup {None})'  BY DEF ServiceOK, RequestsOK
<1>8. (flag \in [Handles -> BOOLEAN])'  BY DEF ServiceOK
<1>9. (holder \in [Handles -> Procs \cup {None}])'  BY DEF ServiceOK, Procs
<1>10. (live \in [Handles -> BOOLEAN])'  BY DEF ServiceOK, ServiceOK
<1>11. (changes \subseteq Approvals)'  BY DEF ServiceOK
<1>12. (phase \in [Handles -> RunStates])'
  BY DEF ControllerOK, RunStates, Phases, Interrupt, Terminal, DbOK
<1>13. (rounds \in [Handles -> 0 .. MaxRounds])'
  BY DEF ControllerOK, DbOK, Bound, RequestsOK
<1>14. (calls \in [Handles -> Nat])'
  BY DEF ControllerOK, DbOK, Bound, RequestsOK
<1>15. (owes \in [Handles -> BOOLEAN])'
  BY DEF ControllerOK, Owed, RequestsOK, DbOK
<1>16. (notified \in [Handles -> BOOLEAN])'  BY DEF ControllerOK
<1>17. (pc \in [Procs -> Steps])'  BY DEF RequestsOK, Steps
<1>18. (op \in [Procs -> Ops])'  BY DEF RequestsOK, Ops, Requests
<1>19. (arg \in [Procs -> Approvals \cup {None}])'  BY DEF RequestsOK, DbOK
<1>20. (handle \in [Procs -> Handles \cup {None}])'
  BY DEF RequestsOK, ServiceOK
<1>21. (seen \in [Procs -> {"absent", "pending"} \cup Verdicts])'
  BY DEF RequestsOK, Verdicts, DbOK, Naming
<1>22. (result \in [Procs -> BOOLEAN])'  BY DEF RequestsOK
<1>23. (ran \in [Approvals -> Nat])'  BY DEF HistoryOK, Naming, Holding
<1>24. (recorded \subseteq Approvals)'  BY DEF HistoryOK, Naming, Holding
<1>25. (dirty \in BOOLEAN)'  BY DEF HistoryOK, Touched
<1>26. (unsettled \subseteq Approvals)'  BY DEF HistoryOK, Naming, Holding
<1>27. (stopped \in BOOLEAN)'  BY DEF HistoryOK
<1>28. Bound'  BY DEF Bound, RequestsOK, ServiceOK
<1>29. Naming'  BY DEF Naming, Holding, RequestsOK
<1> QED
  BY <1>1, <1>2, <1>3, <1>4, <1>5, <1>6, <1>7, <1>8, <1>9, <1>10, <1>11,
     <1>12, <1>13, <1>14, <1>15, <1>16, <1>17, <1>18, <1>19, <1>20, <1>21,
     <1>22, <1>23, <1>24, <1>25, <1>26, <1>27, <1>28, <1>29 DEF DbOK,
     ServiceOK, ControllerOK, RequestsOK, HistoryOK

\* Taking the slot, leaving it, and the second half of cancel keep them.
LEMMA TypesWait ==
  ASSUME Types, NEW p \in Procs,
         Acquire(p) \/ Remove(p) \/ CancelFree(p) \/ CancelBusy(p)
  PROVE  Types'
<1> USE AgentAssumption DEF Remove, CancelFree, CancelBusy, Acquire,
      Rehydrate, Goto, Move, Stay, Observed, Checkpoint, Forget, Unlock,
      Keep, Return, Finish, Fail, EndRun, Decide, db, service, controller,
      requests, history, Types, TypeOK
<1>1. (state \in RunStates)'
  BY DEF DbOK, RunStates, Phases, Interrupt, Terminal, ControllerOK
<1>2. (approval \in [Approvals -> {"absent", "pending"} \cup Verdicts])'
  BY DEF DbOK, Verdicts
<1>3. (kind \in [Approvals -> Kinds])'  BY DEF DbOK, Kinds
<1>4. (stored \subseteq Approvals)'  BY DEF DbOK
<1>5. (logged \in BOOLEAN)'  BY DEF DbOK, Owed, RequestsOK
<1>6. (budget \in [rounds : 0 .. MaxRounds, calls : Nat])'
  BY DEF DbOK, Bound, ControllerOK, RequestsOK
<1>7. (active \in Handles \cup {None})'  BY DEF ServiceOK, RequestsOK
<1>8. (flag \in [Handles -> BOOLEAN])'  BY DEF ServiceOK
<1>9. (holder \in [Handles -> Procs \cup {None}])'  BY DEF ServiceOK, Procs
<1>10. (live \in [Handles -> BOOLEAN])'  BY DEF ServiceOK, ServiceOK
<1>11. (changes \subseteq Approvals)'  BY DEF ServiceOK
<1>12. (phase \in [Handles -> RunStates])'
  BY DEF ControllerOK, RunStates, Phases, Interrupt, Terminal, DbOK
<1>13. (rounds \in [Handles -> 0 .. MaxRounds])'
  BY DEF ControllerOK, DbOK, Bound, RequestsOK
<1>14. (calls \in [Handles -> Nat])'
  BY DEF ControllerOK, DbOK, Bound, RequestsOK
<1>15. (owes \in [Handles -> BOOLEAN])'
  BY DEF ControllerOK, Owed, RequestsOK, DbOK
<1>16. (notified \in [Handles -> BOOLEAN])'  BY DEF ControllerOK
<1>17. (pc \in [Procs -> Steps])'  BY DEF RequestsOK, Steps
<1>18. (op \in [Procs -> Ops])'  BY DEF RequestsOK, Ops, Requests
<1>19. (arg \in [Procs -> Approvals \cup {None}])'  BY DEF RequestsOK, DbOK
<1>20. (handle \in [Procs -> Handles \cup {None}])'
  BY DEF RequestsOK, ServiceOK
<1>21. (seen \in [Procs -> {"absent", "pending"} \cup Verdicts])'
  BY DEF RequestsOK, Verdicts, DbOK, Naming
<1>22. (result \in [Procs -> BOOLEAN])'  BY DEF RequestsOK
<1>23. (ran \in [Approvals -> Nat])'  BY DEF HistoryOK, Naming, Holding
<1>24. (recorded \subseteq Approvals)'  BY DEF HistoryOK, Naming, Holding
<1>25. (dirty \in BOOLEAN)'  BY DEF HistoryOK, Touched
<1>26. (unsettled \subseteq Approvals)'  BY DEF HistoryOK, Naming, Holding
<1>27. (stopped \in BOOLEAN)'  BY DEF HistoryOK
<1>28. Bound'  BY DEF Bound, RequestsOK, ServiceOK
<1>29. Naming'  BY DEF Naming, Holding, RequestsOK
<1> QED
  BY <1>1, <1>2, <1>3, <1>4, <1>5, <1>6, <1>7, <1>8, <1>9, <1>10, <1>11,
     <1>12, <1>13, <1>14, <1>15, <1>16, <1>17, <1>18, <1>19, <1>20, <1>21,
     <1>22, <1>23, <1>24, <1>25, <1>26, <1>27, <1>28, <1>29 DEF DbOK,
     ServiceOK, ControllerOK, RequestsOK, HistoryOK

\* The first step of every controller method keeps them.
LEMMA TypesBegin ==
  ASSUME Types, NEW p \in Procs, Begin(p)
  PROVE  Types'
<1> USE AgentAssumption DEF Begin, Refuse, Refused, Drive, Unpause, Pause,
      Answer, Retry, Continue, ReadApproval, Reject, Reopen, Beginning, Goto,
      Move, Stay, Observed, Checkpoint, Forget, Unlock, Keep, Return, Finish,
      Fail, EndRun, Decide, db, service, controller, requests, history,
      Types, TypeOK
<1>1. (state \in RunStates)'
  BY DEF DbOK, RunStates, Phases, Interrupt, Terminal, ControllerOK
<1>2. (approval \in [Approvals -> {"absent", "pending"} \cup Verdicts])'
  BY DEF DbOK, Verdicts
<1>3. (kind \in [Approvals -> Kinds])'  BY DEF DbOK, Kinds
<1>4. (stored \subseteq Approvals)'  BY DEF DbOK
<1>5. (logged \in BOOLEAN)'  BY DEF DbOK, Owed, RequestsOK
<1>6. (budget \in [rounds : 0 .. MaxRounds, calls : Nat])'
  BY DEF DbOK, Bound, ControllerOK, RequestsOK
<1>7. (active \in Handles \cup {None})'  BY DEF ServiceOK, RequestsOK
<1>8. (flag \in [Handles -> BOOLEAN])'  BY DEF ServiceOK
<1>9. (holder \in [Handles -> Procs \cup {None}])'  BY DEF ServiceOK, Procs
<1>10. (live \in [Handles -> BOOLEAN])'  BY DEF ServiceOK, ServiceOK
<1>11. (changes \subseteq Approvals)'  BY DEF ServiceOK
<1>12. (phase \in [Handles -> RunStates])'
  BY DEF ControllerOK, RunStates, Phases, Interrupt, Terminal, DbOK
<1>13. (rounds \in [Handles -> 0 .. MaxRounds])'
  BY DEF ControllerOK, DbOK, Bound, RequestsOK
<1>14. (calls \in [Handles -> Nat])'
  BY DEF ControllerOK, DbOK, Bound, RequestsOK
<1>15. (owes \in [Handles -> BOOLEAN])'
  BY DEF ControllerOK, Owed, RequestsOK, DbOK
<1>16. (notified \in [Handles -> BOOLEAN])'  BY DEF ControllerOK
<1>17. (pc \in [Procs -> Steps])'  BY DEF RequestsOK, Steps
<1>18. (op \in [Procs -> Ops])'  BY DEF RequestsOK, Ops, Requests
<1>19. (arg \in [Procs -> Approvals \cup {None}])'  BY DEF RequestsOK, DbOK
<1>20. (handle \in [Procs -> Handles \cup {None}])'
  BY DEF RequestsOK, ServiceOK
<1>21. (seen \in [Procs -> {"absent", "pending"} \cup Verdicts])'
  BY DEF RequestsOK, Verdicts, DbOK, Naming
<1>22. (result \in [Procs -> BOOLEAN])'  BY DEF RequestsOK
<1>23. (ran \in [Approvals -> Nat])'  BY DEF HistoryOK, Naming, Holding
<1>24. (recorded \subseteq Approvals)'  BY DEF HistoryOK, Naming, Holding
<1>25. (dirty \in BOOLEAN)'  BY DEF HistoryOK, Touched
<1>26. (unsettled \subseteq Approvals)'  BY DEF HistoryOK, Naming, Holding
<1>27. (stopped \in BOOLEAN)'  BY DEF HistoryOK
<1>28. Bound'  BY DEF Bound, RequestsOK, ServiceOK
<1>29. Naming'  BY DEF Naming, Holding, RequestsOK
<1> QED
  BY <1>1, <1>2, <1>3, <1>4, <1>5, <1>6, <1>7, <1>8, <1>9, <1>10, <1>11,
     <1>12, <1>13, <1>14, <1>15, <1>16, <1>17, <1>18, <1>19, <1>20, <1>21,
     <1>22, <1>23, <1>24, <1>25, <1>26, <1>27, <1>28, <1>29 DEF DbOK,
     ServiceOK, ControllerOK, RequestsOK, HistoryOK

\* Carrying out the answer to a call or a command keeps them.
LEMMA TypesAct ==
  ASSUME Types, NEW p \in Procs, Answered(p)
  PROVE  Types'
<1> USE AgentAssumption DEF Answered, Judge, Resume, StartCall, Execute,
      Record, Goto, Move, Stay, Observed, Checkpoint, Forget, Unlock, Keep,
      Return, Finish, Fail, EndRun, Decide, db, service, controller,
      requests, history, Types, TypeOK
<1>1. (state \in RunStates)'
  BY DEF DbOK, RunStates, Phases, Interrupt, Terminal, ControllerOK
<1>2. (approval \in [Approvals -> {"absent", "pending"} \cup Verdicts])'
  BY DEF DbOK, Verdicts
<1>3. (kind \in [Approvals -> Kinds])'  BY DEF DbOK, Kinds
<1>4. (stored \subseteq Approvals)'  BY DEF DbOK
<1>5. (logged \in BOOLEAN)'  BY DEF DbOK, Owed, RequestsOK
<1>6. (budget \in [rounds : 0 .. MaxRounds, calls : Nat])'
  BY DEF DbOK, Bound, ControllerOK, RequestsOK
<1>7. (active \in Handles \cup {None})'  BY DEF ServiceOK, RequestsOK
<1>8. (flag \in [Handles -> BOOLEAN])'  BY DEF ServiceOK
<1>9. (holder \in [Handles -> Procs \cup {None}])'  BY DEF ServiceOK, Procs
<1>10. (live \in [Handles -> BOOLEAN])'  BY DEF ServiceOK, ServiceOK
<1>11. (changes \subseteq Approvals)'  BY DEF ServiceOK
<1>12. (phase \in [Handles -> RunStates])'
  BY DEF ControllerOK, RunStates, Phases, Interrupt, Terminal, DbOK
<1>13. (rounds \in [Handles -> 0 .. MaxRounds])'
  BY DEF ControllerOK, DbOK, Bound, RequestsOK
<1>14. (calls \in [Handles -> Nat])'
  BY DEF ControllerOK, DbOK, Bound, RequestsOK
<1>15. (owes \in [Handles -> BOOLEAN])'
  <2>1. CASE Record(p)
    <3>1. Owed(kind[arg[p]], result[p], owes[handle[p]]) \in BOOLEAN
      BY <2>1, OwedType DEF RequestsOK, ControllerOK, Bound
    <3> QED  BY <2>1, <3>1 DEF ControllerOK
  <2>2. CASE ~Record(p)  BY <2>2 DEF ControllerOK
  <2> QED  BY <2>1, <2>2
<1>16. (notified \in [Handles -> BOOLEAN])'  BY DEF ControllerOK
<1>17. (pc \in [Procs -> Steps])'  BY DEF RequestsOK, Steps
<1>18. (op \in [Procs -> Ops])'  BY DEF RequestsOK, Ops, Requests
<1>19. (arg \in [Procs -> Approvals \cup {None}])'  BY DEF RequestsOK, DbOK
<1>20. (handle \in [Procs -> Handles \cup {None}])'
  BY DEF RequestsOK, ServiceOK
<1>21. (seen \in [Procs -> {"absent", "pending"} \cup Verdicts])'
  BY DEF RequestsOK, Verdicts, DbOK, Naming
<1>22. (result \in [Procs -> BOOLEAN])'  BY DEF RequestsOK
<1>23. (ran \in [Approvals -> Nat])'  BY DEF HistoryOK, Naming, Holding
<1>24. (recorded \subseteq Approvals)'  BY DEF HistoryOK, Naming, Holding
<1>25. (dirty \in BOOLEAN)'  BY DEF HistoryOK, Touched
<1>26. (unsettled \subseteq Approvals)'  BY DEF HistoryOK, Naming, Holding
<1>27. (stopped \in BOOLEAN)'  BY DEF HistoryOK
<1>28. Bound'  BY DEF Bound, RequestsOK, ServiceOK
<1>29. Naming'  BY DEF Naming, Holding, RequestsOK
<1> QED
  BY <1>1, <1>2, <1>3, <1>4, <1>5, <1>6, <1>7, <1>8, <1>9, <1>10, <1>11,
     <1>12, <1>13, <1>14, <1>15, <1>16, <1>17, <1>18, <1>19, <1>20, <1>21,
     <1>22, <1>23, <1>24, <1>25, <1>26, <1>27, <1>28, <1>29 DEF DbOK,
     ServiceOK, ControllerOK, RequestsOK, HistoryOK

\* Carrying out a ChangeSet keeps them.
LEMMA TypesChange ==
  ASSUME Types, NEW p \in Procs, Changed(p)
  PROVE  Types'
<1> USE AgentAssumption DEF Changed, ApproveChange, ApproveChangeError,
      ExecuteChange, ExecuteChangeError, VerifyChange, RollBack, Goto, Move,
      Stay, Observed, Checkpoint, Forget, Unlock, Keep, Return, Finish, Fail,
      EndRun, Decide, db, service, controller, requests, history, Types,
      TypeOK
<1>1. (state \in RunStates)'
  BY DEF DbOK, RunStates, Phases, Interrupt, Terminal, ControllerOK
<1>2. (approval \in [Approvals -> {"absent", "pending"} \cup Verdicts])'
  BY DEF DbOK, Verdicts
<1>3. (kind \in [Approvals -> Kinds])'  BY DEF DbOK, Kinds
<1>4. (stored \subseteq Approvals)'  BY DEF DbOK
<1>5. (logged \in BOOLEAN)'  BY DEF DbOK, Owed, RequestsOK
<1>6. (budget \in [rounds : 0 .. MaxRounds, calls : Nat])'
  BY DEF DbOK, Bound, ControllerOK, RequestsOK
<1>7. (active \in Handles \cup {None})'  BY DEF ServiceOK, RequestsOK
<1>8. (flag \in [Handles -> BOOLEAN])'  BY DEF ServiceOK
<1>9. (holder \in [Handles -> Procs \cup {None}])'  BY DEF ServiceOK, Procs
<1>10. (live \in [Handles -> BOOLEAN])'  BY DEF ServiceOK, ServiceOK
<1>11. (changes \subseteq Approvals)'  BY DEF ServiceOK
<1>12. (phase \in [Handles -> RunStates])'
  BY DEF ControllerOK, RunStates, Phases, Interrupt, Terminal, DbOK
<1>13. (rounds \in [Handles -> 0 .. MaxRounds])'
  BY DEF ControllerOK, DbOK, Bound, RequestsOK
<1>14. (calls \in [Handles -> Nat])'
  BY DEF ControllerOK, DbOK, Bound, RequestsOK
<1>15. (owes \in [Handles -> BOOLEAN])'
  BY DEF ControllerOK, Owed, RequestsOK, DbOK
<1>16. (notified \in [Handles -> BOOLEAN])'  BY DEF ControllerOK
<1>17. (pc \in [Procs -> Steps])'  BY DEF RequestsOK, Steps
<1>18. (op \in [Procs -> Ops])'  BY DEF RequestsOK, Ops, Requests
<1>19. (arg \in [Procs -> Approvals \cup {None}])'  BY DEF RequestsOK, DbOK
<1>20. (handle \in [Procs -> Handles \cup {None}])'
  BY DEF RequestsOK, ServiceOK
<1>21. (seen \in [Procs -> {"absent", "pending"} \cup Verdicts])'
  BY DEF RequestsOK, Verdicts, DbOK, Naming
<1>22. (result \in [Procs -> BOOLEAN])'  BY DEF RequestsOK
<1>23. (ran \in [Approvals -> Nat])'  BY DEF HistoryOK, Naming, Holding
<1>24. (recorded \subseteq Approvals)'  BY DEF HistoryOK, Naming, Holding
<1>25. (dirty \in BOOLEAN)'  BY DEF HistoryOK, Touched
<1>26. (unsettled \subseteq Approvals)'  BY DEF HistoryOK, Naming, Holding
<1>27. (stopped \in BOOLEAN)'  BY DEF HistoryOK
<1>28. Bound'  BY DEF Bound, RequestsOK, ServiceOK
<1>29. Naming'  BY DEF Naming, Holding, RequestsOK
<1> QED
  BY <1>1, <1>2, <1>3, <1>4, <1>5, <1>6, <1>7, <1>8, <1>9, <1>10, <1>11,
     <1>12, <1>13, <1>14, <1>15, <1>16, <1>17, <1>18, <1>19, <1>20, <1>21,
     <1>22, <1>23, <1>24, <1>25, <1>26, <1>27, <1>28, <1>29 DEF DbOK,
     ServiceOK, ControllerOK, RequestsOK, HistoryOK

\* The reasoner loop keeps them.
LEMMA TypesLoop ==
  ASSUME Types, NEW p \in Procs, Loop(p)
  PROVE  Types'
<1> USE AgentAssumption DEF Loop, StopLoop, FailLoop, RoundsLeft, Reason,
      Strand, Decided, Again, Complete, Notify, AskUser, OverBudget,
      ReadBatch, ReadAnswers, BlockBatch, Ask, AskTool, AskCommand,
      DraftChange, DraftRefused, AskChange, Park, Goto, Move, Stay, Observed,
      Checkpoint, Forget, Unlock, Keep, Return, Finish, Fail, EndRun, Decide,
      db, service, controller, requests, history, Types, TypeOK
<1>1. (state \in RunStates)'
  BY SMTT(30) DEF DbOK, RunStates, Phases, Interrupt, Terminal, ControllerOK
<1>2. (approval \in [Approvals -> {"absent", "pending"} \cup Verdicts])'
  BY SMTT(30) DEF DbOK, Verdicts
<1>3. (kind \in [Approvals -> Kinds])'  BY SMTT(30) DEF DbOK, Kinds
<1>4. (stored \subseteq Approvals)'  BY SMTT(30) DEF DbOK
<1>5. (logged \in BOOLEAN)'  BY DEF DbOK, Owed, RequestsOK
<1>6. (budget \in [rounds : 0 .. MaxRounds, calls : Nat])'
  BY SMTT(30) DEF DbOK, Bound, ControllerOK, RequestsOK
<1>7. (active \in Handles \cup {None})'  BY DEF ServiceOK, RequestsOK
<1>8. (flag \in [Handles -> BOOLEAN])'  BY DEF ServiceOK
<1>9. (holder \in [Handles -> Procs \cup {None}])'  BY DEF ServiceOK, Procs
<1>10. (live \in [Handles -> BOOLEAN])'  BY DEF ServiceOK, ServiceOK
<1>11. (changes \subseteq Approvals)'  BY DEF ServiceOK
<1>12. (phase \in [Handles -> RunStates])'
  BY SMTT(30) DEF ControllerOK, RunStates, Phases, Interrupt, Terminal, DbOK
<1>13. (rounds \in [Handles -> 0 .. MaxRounds])'
  BY SMTT(30) DEF ControllerOK, DbOK, Bound, RequestsOK
<1>14. (calls \in [Handles -> Nat])'
  BY SMTT(30) DEF ControllerOK, DbOK, Bound, RequestsOK
<1>15. (owes \in [Handles -> BOOLEAN])'
  BY DEF ControllerOK, Owed, RequestsOK, DbOK
<1>16. (notified \in [Handles -> BOOLEAN])'  BY DEF ControllerOK
<1>17. (pc \in [Procs -> Steps])'  BY SMTT(30) DEF RequestsOK, Steps
<1>18. (op \in [Procs -> Ops])'  BY DEF RequestsOK, Ops, Requests
<1>19. (arg \in [Procs -> Approvals \cup {None}])'  BY SMTT(30) DEF RequestsOK, DbOK
<1>20. (handle \in [Procs -> Handles \cup {None}])'
  BY DEF RequestsOK, ServiceOK
<1>21. (seen \in [Procs -> {"absent", "pending"} \cup Verdicts])'
  BY DEF RequestsOK, Verdicts, DbOK, Naming
<1>22. (result \in [Procs -> BOOLEAN])'  BY DEF RequestsOK
<1>23. (ran \in [Approvals -> Nat])'  BY DEF HistoryOK, Naming, Holding
<1>24. (recorded \subseteq Approvals)'  BY DEF HistoryOK, Naming, Holding
<1>25. (dirty \in BOOLEAN)'  BY DEF HistoryOK, Touched
<1>26. (unsettled \subseteq Approvals)'  BY DEF HistoryOK, Naming, Holding
<1>27. (stopped \in BOOLEAN)'  BY DEF HistoryOK
<1>28. Bound'  BY SMTT(30) DEF Bound, RequestsOK, ServiceOK
<1>29. Naming'  BY SMTT(30) DEF Naming, Holding, RequestsOK
<1> QED
  BY <1>1, <1>2, <1>3, <1>4, <1>5, <1>6, <1>7, <1>8, <1>9, <1>10, <1>11,
     <1>12, <1>13, <1>14, <1>15, <1>16, <1>17, <1>18, <1>19, <1>20, <1>21,
     <1>22, <1>23, <1>24, <1>25, <1>26, <1>27, <1>28, <1>29 DEF DbOK,
     ServiceOK, ControllerOK, RequestsOK, HistoryOK

\* The process dies and the rows are recovered: the types survive.
LEMMA TypesCrash ==
  ASSUME Types, Crash
  PROVE  Types'
<1>1. DbOK'
  BY DEF Types, TypeOK, DbOK, Crash, Recovered, RunStates, Interrupt
<1>2. ServiceOK'
  BY DEF ServiceOK, Crash
<1>3. ControllerOK'
  BY AgentAssumption DEF ControllerOK, Crash, RunStates, Phases
<1>4. RequestsOK'
  BY DEF RequestsOK, Crash, Steps, Ops
<1>5. HistoryOK'
  BY DEF Types, TypeOK, HistoryOK, Crash
<1>6. Bound'
  BY DEF Bound, Crash
<1>7. Naming'
  BY DEF Naming, Holding, Crash
<1> QED
  BY <1>1, <1>2, <1>3, <1>4, <1>5, <1>6, <1>7 DEF Types, TypeOK

\* start_run leaves a run of the right types.
LEMMA TypesInit ==
  ASSUME Init
  PROVE  Types
<1>1. PICK h \in Handles : Started(h)
  BY DEF Init
<1>2. DbOK
  <2>1. state \in RunStates
    BY <1>1 DEF Started, RunStates, Phases
  <2>2. approval \in [Approvals -> {"absent", "pending"} \cup Verdicts]
    BY <1>1 DEF Started
  <2>3. kind \in [Approvals -> Kinds]
    BY <1>1 DEF Started, Kinds
  <2>4. budget \in [rounds : 0 .. MaxRounds, calls : Nat]
    BY <1>1, AgentAssumption DEF Started
  <2> QED  BY <1>1, <2>1, <2>2, <2>3, <2>4 DEF Started, DbOK
<1>3. ServiceOK
  BY <1>1 DEF Started, ServiceOK
<1>4. ControllerOK
  BY <1>1, AgentAssumption DEF Started, ControllerOK, RunStates, Phases
<1>5. RequestsOK
  BY <1>1 DEF Started, RequestsOK, Steps, Ops
<1>6. HistoryOK
  BY <1>1 DEF Started, HistoryOK
<1>7. Bound
  BY <1>1 DEF Started, Bound
<1>8. Naming
  BY <1>1 DEF Started, Naming, Holding
<1> QED
  BY <1>2, <1>3, <1>4, <1>5, <1>6, <1>7, <1>8 DEF Types, TypeOK

\* Every step of the specification keeps the types, Bound and Naming.
LEMMA TypesNext ==
  ASSUME Types, [Next]_vars
  PROVE  Types'
<1>1. CASE UNCHANGED vars
  <2> USE <1>1 DEF vars, db, service, controller, requests, history
  <2>1. DbOK' /\ ServiceOK'
    BY DEF Types, TypeOK, DbOK, ServiceOK
  <2>2. ControllerOK' /\ RequestsOK' /\ HistoryOK'
    BY DEF Types, TypeOK, ControllerOK, RequestsOK, HistoryOK
  <2>3. Bound' /\ Naming'
    BY DEF Types, Bound, Naming
  <2> QED  BY <2>1, <2>2, <2>3 DEF Types, TypeOK
<1>2. CASE Crash
  BY <1>2, TypesCrash
<1>3. ASSUME NEW p \in Procs, Arrive(p) \/ Acquire(p) \/ Step(p)
      PROVE  Types'
  <2>1. CASE Arrive(p)
    BY <2>1, TypesArrive
  <2>2. CASE Acquire(p) \/ Remove(p) \/ CancelFree(p) \/ CancelBusy(p)
    BY <2>2, TypesWait
  <2>3. CASE Begin(p)
    BY <2>3, TypesBegin
  <2>4. CASE Act(p)
    BY <2>4, TypesAct, TypesChange DEF Act, Answered, Changed
  <2>5. CASE Loop(p)
    BY <2>5, TypesLoop
  <2> QED
    BY <1>3, <2>1, <2>2, <2>3, <2>4, <2>5 DEF Step
<1> QED
  BY <1>1, <1>2, <1>3 DEF Next

\* The rows, the service, the controllers and the requests hold what their
\* types allow, and neither a controller nor its checkpoint counts more rounds
\* than budget.max_reasoner_rounds, whatever is retried, resumed or restarted.
THEOREM TypeCorrect == Spec => []TypeOK
<1>1. Init => Types
  BY TypesInit
<1>2. Types /\ [Next]_vars => Types'
  BY TypesNext
<1>3. Types => TypeOK
  BY DEF Types
<1> QED
  BY <1>1, <1>2, <1>3, PTL DEF Spec

-----------------------------------------------------------------------------
(* The approval ledger.  A run whose only entry in the service is one       *)
(* Handle, and whose reasoner proposes calls and commands but no            *)
(* ChangeSets, keeps the promise of an approval (ApprovalLedger): for every *)
(* number of clients, approvals and rounds, with crashes.  Neither          *)
(* hypothesis can be dropped: two controllers of one run, which exist when  *)
(* a finished drive removes the entry of a run opened again, may send one   *)
(* call twice; and reject_change_set does not look at the approval again    *)
(* after it waited for the slot, so that an executed change can be recorded *)
(* as rejected.                                                             *)

OneHandle == \A h, i \in Handles : h = i
NoChanges == "change" \notin Decisions

-----------------------------------------------------------------------------
(* The inductive invariant.                                                *)

\* The steps a task takes while it holds the controller slot.
Held == Steps \ {"idle", "wait", "finish", "stop"}

\* Whoever is in the loop, or on the way to it, holds the lock of its slot.
Lock == \A p \in Procs : pc[p] \in Held => holder[handle[p]] = p

NoChangeKind == \A a \in Approvals : kind[a] # "change"
NoChangeStep == \A p \in Procs :
                  pc[p] \notin {"draft", "execute", "verify", "rollback"}

Answering(p) == pc[p] \in {"wait", "begin"} /\ op[p] \in {"approve", "reject"}

\* A request answers an approval that was asked for.
AnswerIsKnown ==
  \A p \in Procs : Answering(p) => approval[arg[p]] # "absent"

\* It may be stale, but then the call it is about is gone from the store, or
\* whoever granted it still holds the slot.
StaleIsGone ==
  \A p \in Procs :
    (Answering(p) /\ approval[arg[p]] = "granted" /\ arg[p] \in stored)
      => \E q \in Procs : pc[q] = "granted" /\ arg[q] = arg[p]

\* The row does not change between the read and the save.
ReadIsCurrent ==
  \A p \in Procs :
    pc[p] = "policy" => /\ approval[arg[p]] = seen[p]
                        /\ seen[p] \notin {"absent", "granted"}

\* What was granted and not yet sent has not been sent by anyone.
GrantIsFresh ==
  \A p \in Procs :
    pc[p] \in {"granted", "started"}
      => approval[arg[p]] = "granted" /\ ran[arg[p]] = 0

RanOnce == \A a \in Approvals : ran[a] \in {0, 1}
RanGranted == \A a \in Approvals : ran[a] # 0 => approval[a] = "granted"

LedgerInv ==
  /\ Types /\ Lock /\ NoChangeKind /\ NoChangeStep
  /\ AnswerIsKnown /\ StaleIsGone /\ ReadIsCurrent /\ GrantIsFresh
  /\ RanOnce /\ RanGranted

-----------------------------------------------------------------------------
(* What a step of p leaves alone.                                          *)

\* A step of p moves no other request.
Frame(p) ==
  \A q \in Procs \ {p} :
    /\ pc'[q] = pc[q] /\ op'[q] = op[q] /\ arg'[q] = arg[q]
    /\ handle'[q] = handle[q] /\ seen'[q] = seen[q]

\* No action writes the place of a request other than its own.
LEMMA FrameHolds ==
  ASSUME Types, NEW p \in Procs, Arrive(p) \/ Acquire(p) \/ Step(p)
  PROVE  Frame(p)
<1> USE DEF Types, TypeOK, RequestsOK, Goto, Forget, Keep, Return, Finish,
      Fail, EndRun, requests, Step
<1>1. CASE Arrive(p)
  BY <1>1 DEF Frame, Arrive, Request, Register, Cancel, CancelUnbound
<1>2. CASE Acquire(p) \/ Remove(p) \/ CancelFree(p) \/ CancelBusy(p)
  BY <1>2 DEF Frame, Acquire, Remove, CancelFree, CancelBusy
<1>3. CASE Begin(p)
  BY <1>3 DEF Frame, Begin, Refuse, Drive, Unpause, Pause, Answer, Retry,
      Continue, ReadApproval, Reject, Reopen
<1>4. CASE Act(p)
  BY <1>4 DEF Frame, Act, Judge, Resume, StartCall, Execute, Record,
      ApproveChange, ApproveChangeError, ExecuteChange, ExecuteChangeError,
      VerifyChange, RollBack
<1>5. CASE Loop(p)
  <2>1. CASE StopLoop(p) \/ FailLoop(p) \/ Reason(p) \/ Strand(p) \/ Again(p)
    BY <2>1 DEF Frame, StopLoop, FailLoop, Reason, Strand, Again, Decided
  <2>2. CASE Complete(p) \/ Notify(p) \/ AskUser(p) \/ ReadAnswers(p) \/ Park(p)
             \/ DraftChange(p) \/ DraftRefused(p)
    BY <2>2 DEF Frame, Complete, Notify, AskUser, ReadAnswers, Park, DraftChange,
       DraftRefused, Decided
  <2>3. ASSUME NEW n \in 1 .. MaxBatch, OverBudget(p, n) \/ ReadBatch(p, n) \/ BlockBatch(p, n)
        PROVE  Frame(p)
    BY <2>3 DEF Frame, OverBudget, ReadBatch, BlockBatch, Decided
  <2>4. ASSUME NEW a \in Approvals, NEW k, Ask(p, a, k), pc[p] \in {"deciding", "draft"}
        PROVE  Frame(p)
    BY <2>4 DEF Frame, Ask
  <2>5. ASSUME NEW n \in 1 .. MaxBatch, NEW a \in Approvals, AskTool(p, a, n)
        PROVE  Frame(p)
    BY <2>4, <2>5 DEF AskTool, Decided
  <2>6. ASSUME NEW a \in Approvals, NEW d \in Decisions, AskCommand(p, a, d)
        PROVE  Frame(p)
    BY <2>4, <2>6 DEF AskCommand, Decided
  <2>7. ASSUME NEW a \in Approvals, AskChange(p, a)
        PROVE  Frame(p)
    BY <2>4, <2>7 DEF AskChange
  <2> QED
    BY <1>5, <2>1, <2>2, <2>3, <2>5, <2>6, <2>7 DEF Loop
<1> QED
  BY <1>1, <1>2, <1>3, <1>4, <1>5

\* A step of p leaves the slots alone, or gives one back, or takes a free one.
KeepsSlot(p) ==
  /\ holder' = holder
  /\ pc'[p] \in Held => pc[p] \in Held /\ handle'[p] = handle[p]

LeavesSlot(p) ==
  /\ pc[p] \in Held /\ pc'[p] \notin Held
  /\ holder' = [holder EXCEPT ![handle[p]] = None]

TakesSlot(p) ==
  /\ pc[p] = "wait" /\ holder[handle[p]] = None
  /\ holder' = [holder EXCEPT ![handle[p]] = p]
  /\ handle'[p] = handle[p]

\* Every step of a request keeps the slot of its handle, gives it back or
\* takes it: the lock of a controller is exclusive.
LEMMA SlotStep ==
  ASSUME Types, NEW p \in Procs, Arrive(p) \/ Acquire(p) \/ Step(p)
  PROVE  KeepsSlot(p) \/ LeavesSlot(p) \/ TakesSlot(p)
<1> USE DEF Types, TypeOK, RequestsOK, ServiceOK, Goto, Forget, Keep, Unlock,
      Return, Finish, Fail, EndRun, service, requests, Step, Held, Steps
<1>1. CASE Arrive(p)
  BY <1>1 DEF KeepsSlot, Arrive, Request, Register, Cancel, CancelUnbound
<1>2. CASE Acquire(p) \/ Remove(p) \/ CancelFree(p) \/ CancelBusy(p)
  BY <1>2 DEF KeepsSlot, TakesSlot, Acquire, Remove, CancelFree, CancelBusy
<1>3. CASE Begin(p)
  BY <1>3 DEF KeepsSlot, LeavesSlot, Begin, Beginning, Refuse, Drive, Unpause,
      Pause, Answer, Retry, Continue, ReadApproval, Reject, Reopen
<1>4. CASE Act(p)
  BY <1>4 DEF KeepsSlot, LeavesSlot, Act, Judge, Resume, StartCall, Execute,
      Record, ApproveChange, ApproveChangeError, ExecuteChange,
      ExecuteChangeError, VerifyChange, RollBack
<1>5. CASE Loop(p)
  <2>1. CASE StopLoop(p) \/ FailLoop(p) \/ Reason(p) \/ Strand(p) \/ Again(p)
    BY <2>1 DEF KeepsSlot, LeavesSlot, StopLoop, FailLoop, Reason, Strand, Again, Decided
  <2>2. CASE Complete(p) \/ Notify(p) \/ AskUser(p) \/ ReadAnswers(p) \/ Park(p)
             \/ DraftChange(p) \/ DraftRefused(p)
    BY <2>2 DEF KeepsSlot, LeavesSlot, Complete, Notify, AskUser, ReadAnswers, Park, DraftChange,
       DraftRefused, Decided
  <2>3. ASSUME NEW n \in 1 .. MaxBatch, OverBudget(p, n) \/ ReadBatch(p, n) \/ BlockBatch(p, n)
        PROVE  KeepsSlot(p) \/ LeavesSlot(p)
    BY <2>3 DEF KeepsSlot, LeavesSlot, OverBudget, ReadBatch, BlockBatch, Decided
  <2>4. ASSUME NEW a \in Approvals, NEW k, Ask(p, a, k), pc[p] \in {"deciding", "draft"}
        PROVE  KeepsSlot(p) \/ LeavesSlot(p)
    BY <2>4 DEF KeepsSlot, LeavesSlot, Ask
  <2>5. ASSUME NEW n \in 1 .. MaxBatch, NEW a \in Approvals, AskTool(p, a, n)
        PROVE  KeepsSlot(p) \/ LeavesSlot(p)
    BY <2>4, <2>5 DEF AskTool, Decided
  <2>6. ASSUME NEW a \in Approvals, NEW d \in Decisions, AskCommand(p, a, d)
        PROVE  KeepsSlot(p) \/ LeavesSlot(p)
    BY <2>4, <2>6 DEF AskCommand, Decided
  <2>7. ASSUME NEW a \in Approvals, AskChange(p, a)
        PROVE  KeepsSlot(p) \/ LeavesSlot(p)
    BY <2>4, <2>7 DEF AskChange
  <2> QED
    BY <1>5, <2>1, <2>2, <2>3, <2>5, <2>6, <2>7 DEF Loop
<1> QED
  BY <1>1, <1>2, <1>3, <1>4, <1>5

\* Mutual exclusion on a slot.
LEMMA LockStep ==
  ASSUME Types, Lock, NEW p \in Procs, Arrive(p) \/ Acquire(p) \/ Step(p)
  PROVE  Lock'
<1> SUFFICES ASSUME NEW q \in Procs, pc'[q] \in Held
             PROVE  holder'[handle'[q]] = q
  BY DEF Lock
<1>1. holder \in [Handles -> Procs \cup {None}] /\ None \notin Procs
  BY AgentAssumption DEF Types, TypeOK, ServiceOK, Procs
<1>2. \A r \in Procs : pc[r] \in Held => handle[r] \in Handles
  BY DEF Types, Bound, Held
<1>3. pc[p] = "wait" => handle[p] \in Handles
  BY DEF Types, Bound
<1>4. CASE q # p
  <2>1. pc[q] \in Held /\ handle'[q] = handle[q] /\ holder[handle[q]] = q
    BY <1>4, FrameHolds DEF Frame, Lock
  <2> QED
    BY <1>1, <1>2, <1>3, <1>4, <2>1, SlotStep
    DEF Lock, KeepsSlot, LeavesSlot, TakesSlot
<1>5. CASE q = p
  BY <1>1, <1>2, <1>3, <1>5, SlotStep
  DEF Lock, KeepsSlot, LeavesSlot, TakesSlot
<1> QED
  BY <1>4, <1>5

\* With one entry, at most one task is past the lock.
LEMMA Alone ==
  ASSUME OneHandle, Types, Lock, NEW p \in Procs, NEW q \in Procs,
         pc[p] \in Held, pc[q] \in Held
  PROVE  p = q
<1>1. handle[p] \in Handles /\ handle[q] \in Handles
  BY DEF Types, Bound, Held
<1> QED
  BY <1>1 DEF OneHandle, Lock

-----------------------------------------------------------------------------
(* What a step of p does to the approvals.                                 *)

Resting(p) == pc'[p] \notin {"wait", "begin", "policy", "granted", "started"}

\* Most of the code touches neither the approvals nor the target.
Quiet(p) ==
  /\ approval' = approval /\ stored' \subseteq stored /\ ran' = ran
  /\ pc[p] # "granted" /\ Resting(p)

\* A request arrives with the approval the user saw pending ...
Waits(p) ==
  /\ approval' = approval /\ stored' = stored /\ ran' = ran
  /\ pc[p] = "idle" /\ pc'[p] = "wait"
  /\ op'[p] \in {"approve", "reject"} => /\ arg'[p] \in Approvals
                                         /\ approval[arg'[p]] = "pending"

\* ... gets the slot ...
Enters(p) ==
  /\ approval' = approval /\ stored' = stored /\ ran' = ran
  /\ pc[p] = "wait" /\ pc'[p] = "begin" /\ op'[p] = op[p] /\ arg'[p] = arg[p]

\* ... and reads the row.
Looks(p) ==
  /\ approval' = approval /\ stored' = stored /\ ran' = ran
  /\ pc[p] = "begin" /\ op[p] = "approve" /\ arg[p] \in stored
  /\ pc'[p] = "policy" /\ arg'[p] = arg[p] /\ seen'[p] = approval[arg[p]]

Grants(p) ==
  /\ pc[p] = "policy" /\ seen[p] = "pending"
  /\ approval' = [approval EXCEPT ![arg[p]] = "granted"]
  /\ stored' = stored /\ ran' = ran
  /\ pc'[p] = "granted" /\ arg'[p] = arg[p]

Denies(p) ==
  /\ pc[p] \in {"policy", "begin"} /\ Resting(p)
  /\ \A a \in Approvals :
       \/ approval'[a] = approval[a]
       \/ /\ approval'[a] \in {"rejected", "invalidated"}
          /\ \/ approval[a] = "pending"
             \/ a = arg[p] /\ pc[p] = "policy"
             \/ /\ a = arg[p] /\ pc[p] = "begin" /\ op[p] = "reject"
                /\ a \in stored
  /\ stored' = stored /\ ran' = ran

Starts(p) ==
  /\ pc[p] = "granted" /\ pc'[p] = "started" /\ arg'[p] = arg[p]
  /\ approval' = approval /\ stored' = stored \ {arg[p]} /\ ran' = ran

Sends(p) ==
  /\ pc[p] = "started" /\ Resting(p)
  /\ ran' = [ran EXCEPT ![arg[p]] = @ + 1]
  /\ approval' = approval /\ stored' = stored

Asks(p, a) ==
  /\ pc[p] = "deciding" /\ Resting(p)
  /\ approval[a] = "absent"
  /\ approval' = [approval EXCEPT ![a] = "pending"]
  /\ stored' = stored \cup {a} /\ ran' = ran

Effect(p) ==
  \/ Quiet(p) \/ Waits(p) \/ Enters(p) \/ Looks(p) \/ Grants(p) \/ Denies(p)
  \/ Starts(p) \/ Sends(p) \/ \E a \in Approvals : Asks(p, a)

\* Without ChangeSets, these are all the effects a step can have.
LEMMA EffectStep ==
  ASSUME NoChanges, Types, NoChangeKind, NoChangeStep, NEW p \in Procs,
         Arrive(p) \/ Acquire(p) \/ Step(p)
  PROVE  Effect(p)
<1> USE DEF Types, TypeOK, RequestsOK, DbOK, Goto, Forget, Keep,
      Return, Finish, Fail, EndRun, db, requests, history, Step, Resting
<1>1. CASE Arrive(p)
  BY <1>1, AgentAssumption DEF Effect, Quiet, Waits, Arrive, Request, Named, Pending,
      Register, Cancel, CancelUnbound
<1>2. CASE Acquire(p) \/ Remove(p) \/ CancelFree(p) \/ CancelBusy(p)
  BY <1>2 DEF Effect, Quiet, Enters, Acquire, Remove, CancelFree, CancelBusy
<1>3. CASE Begin(p)
  <2> USE DEF Beginning
  <2>1. CASE Refuse(p) \/ Drive(p) \/ Unpause(p) \/ Pause(p) \/ Answer(p)
    BY <2>1 DEF Effect, Quiet, Refuse, Drive, Unpause, Pause, Answer
  <2>2. CASE ReadApproval(p)
    <3>1. arg[p] \in Approvals
      BY <2>2 DEF ReadApproval, Naming
    <3>2. arg[p] \in stored
      BY <2>2, <3>1 DEF ReadApproval, Refused, NoChangeKind
    <3> QED
      BY <2>2, <3>1, <3>2 DEF Effect, Looks, ReadApproval
  <2>3. CASE Reject(p)
    <3>1. arg[p] \in Approvals
      BY <2>3 DEF Reject, Naming
    <3>2. arg[p] \in stored
      BY <2>3, <3>1 DEF Reject, Refused, NoChangeKind
    <3> QED
      BY <2>3, <3>1, <3>2 DEF Effect, Denies, Reject, Decide
  <2>4. CASE Retry(p) \/ Continue(p)
    BY <2>4 DEF Effect, Denies, Retry, Continue, Reopen, Pending
  <2> QED
    BY <1>3, <2>1, <2>2, <2>3, <2>4 DEF Begin
<1>4. CASE Act(p)
  <2>1. ASSUME NEW m \in BOOLEAN, Judge(p, m)  PROVE Effect(p)
    <3>1. CASE StillValid(p, m)
      BY <2>1, <3>1 DEF Effect, Grants, Judge, Decide, StillValid
    <3>2. CASE ~StillValid(p, m)
      BY <2>1, <3>2 DEF Effect, Denies, Judge, Decide
    <3> QED  BY <3>1, <3>2
  <2>2. CASE Resume(p) \/ Record(p)
    BY <2>2 DEF Effect, Quiet, Resume, Record
  <2>3. CASE StartCall(p)
    BY <2>3 DEF Effect, Starts, StartCall
  <2>4. ASSUME NEW sent \in BOOLEAN, NEW ok \in BOOLEAN, Execute(p, sent, ok)
        PROVE  Effect(p)
    BY <2>4 DEF Effect, Quiet, Sends, Execute
  <2>5. ~ApproveChange(p) /\ ~ApproveChangeError(p)
    BY DEF ApproveChange, ApproveChangeError, NoChangeKind, Naming, Holding
  <2>6. /\ \A ok \in BOOLEAN : ~ExecuteChange(p, ok) /\ ~VerifyChange(p, ok)
        /\ ~ExecuteChangeError(p) /\ ~RollBack(p)
    BY DEF ExecuteChange, ExecuteChangeError, VerifyChange, RollBack,
           NoChangeStep
  <2> QED
    BY <1>4, <2>1, <2>2, <2>3, <2>4, <2>5, <2>6 DEF Act
<1>5. CASE Loop(p)
  <2>1. CASE StopLoop(p) \/ FailLoop(p) \/ Reason(p) \/ Strand(p) \/ Again(p)
    BY <2>1 DEF Effect, Quiet, StopLoop, FailLoop, Reason, Strand, Again,
                Decided
  <2>2. CASE Complete(p) \/ Notify(p) \/ AskUser(p) \/ ReadAnswers(p)
             \/ Park(p)
    BY <2>2 DEF Effect, Quiet, Complete, Notify, AskUser, ReadAnswers, Park,
                Decided
  <2>3. ASSUME NEW n \in 1 .. MaxBatch,
               OverBudget(p, n) \/ ReadBatch(p, n) \/ BlockBatch(p, n)
        PROVE  Effect(p)
    BY <2>3 DEF Effect, Quiet, OverBudget, ReadBatch, BlockBatch, Decided
  <2>4. ASSUME NEW n \in 1 .. MaxBatch, NEW a \in Approvals, AskTool(p, a, n)
        PROVE  Effect(p)
    BY <2>4 DEF Effect, Asks, AskTool, Ask, Decided
  <2>5. ASSUME NEW a \in Approvals, NEW d \in Decisions, AskCommand(p, a, d)
        PROVE  Effect(p)
    BY <2>5 DEF Effect, Asks, AskCommand, Ask, Decided
  <2>6. /\ \A a \in Approvals : ~AskChange(p, a)
        /\ ~DraftChange(p) /\ ~DraftRefused(p)
    BY DEF AskChange, DraftChange, DraftRefused, Decided, NoChangeStep,
           NoChanges
  <2> QED
    BY <1>5, <2>1, <2>2, <2>3, <2>4, <2>5, <2>6 DEF Loop
<1> QED
  BY <1>1, <1>2, <1>3, <1>4, <1>5

\* A reasoner that proposes no ChangeSet never gets a run into their steps.
LEMMA NoChangeStays ==
  ASSUME NoChanges, Types, NoChangeKind, NoChangeStep, NEW p \in Procs,
         Arrive(p) \/ Acquire(p) \/ Step(p)
  PROVE  NoChangeKind' /\ NoChangeStep'
<1> USE DEF Types, TypeOK, RequestsOK, DbOK, Goto, Forget, Keep,
      Return, Finish, Fail, EndRun, db, requests, Step
<1>0. pc'[p] \notin {"draft", "execute", "verify", "rollback"}
      /\ NoChangeKind'
  <2> USE DEF NoChangeKind
  <2>1. CASE Arrive(p)
    BY <2>1, AgentAssumption
    DEF Arrive, Request, Register, Cancel, CancelUnbound, NoChangeStep
  <2>2. CASE Acquire(p) \/ Remove(p) \/ CancelFree(p) \/ CancelBusy(p)
    BY <2>2 DEF Acquire, Remove, CancelFree, CancelBusy
  <2>3. CASE Begin(p)
    BY <2>3 DEF Begin, Refuse, Drive, Unpause, Pause, Answer, Retry,
        Continue, ReadApproval, Reject, Reopen
  <2>4. CASE Act(p)
    BY <2>4 DEF Act, Judge, Resume, StartCall, Execute, Record,
        ApproveChange, ApproveChangeError, ExecuteChange, ExecuteChangeError,
        VerifyChange, RollBack, NoChangeStep, Naming, Holding
  <2>5. CASE Loop(p)
    <3>1. ASSUME NEW a \in Approvals, NEW n \in 1 .. MaxBatch,
                 AskTool(p, a, n)
          PROVE  pc'[p] = "park" /\ NoChangeKind'
      BY <3>1 DEF AskTool, Ask
    <3>2. ASSUME NEW a \in Approvals, NEW d \in Decisions, AskCommand(p, a, d)
          PROVE  pc'[p] = "park" /\ NoChangeKind'
      BY <3>2 DEF AskCommand, Ask
    <3>3. /\ \A a \in Approvals : ~AskChange(p, a)
          /\ ~DraftChange(p) /\ ~DraftRefused(p)
      BY DEF AskChange, DraftChange, DraftRefused, Decided, NoChangeStep,
             NoChanges
    <3> QED
      BY <2>5, <3>1, <3>2, <3>3 DEF Loop, StopLoop, FailLoop, Reason, Strand,
         Again, Complete, Notify, AskUser, OverBudget, ReadBatch,
         ReadAnswers, BlockBatch, Park
  <2> QED
    BY <2>1, <2>2, <2>3, <2>4, <2>5
<1> QED
  BY <1>0, FrameHolds DEF NoChangeStep, Frame

-----------------------------------------------------------------------------
(* The invariant is preserved.                                             *)

\* An approval that somebody works on under the lock is left alone by the
\* others.
LEMMA OthersKeep ==
  ASSUME OneHandle, LedgerInv, NEW p \in Procs, Effect(p),
         NEW q \in Procs \ {p}, pc[q] \in Held
  PROVE  approval' = approval /\ ran' = ran
<1>1. pc[p] \notin Held
  BY Alone DEF LedgerInv
<1> QED
  BY <1>1 DEF Effect, Quiet, Waits, Enters, Looks, Grants, Denies, Starts,
              Sends, Asks, Held, Steps

\* A request that read its approval under the lock found it undecided by a
\* grant: a stale one was refused.
LEMMA NotGranted ==
  ASSUME OneHandle, LedgerInv, NEW p \in Procs, pc[p] = "begin",
         op[p] \in {"approve", "reject"}, arg[p] \in stored
  PROVE  approval[arg[p]] \notin {"absent", "granted"}
<1>1. pc[p] \in Held
  BY DEF Held, Steps
<1>2. approval[arg[p]] # "absent"
  BY DEF LedgerInv, AnswerIsKnown, Answering
<1>3. ASSUME approval[arg[p]] = "granted" PROVE FALSE
  <2>1. PICK q \in Procs : pc[q] = "granted" /\ arg[q] = arg[p]
    BY <1>3 DEF LedgerInv, StaleIsGone, Answering
  <2>2. pc[q] \in Held
    BY <2>1 DEF Held, Steps
  <2> QED
    BY <1>1, <2>1, <2>2, Alone DEF LedgerInv
<1> QED
  BY <1>2, <1>3

\* Each part of the invariant, after a step of p.
LEMMA AnswerIsKnownStep ==
  ASSUME LedgerInv, NEW p \in Procs, Effect(p), Frame(p)
  PROVE  AnswerIsKnown'
<1> SUFFICES ASSUME NEW q \in Procs, Answering(q)'
             PROVE  approval'[arg'[q]] # "absent"
  BY DEF AnswerIsKnown
<1>1. approval \in [Approvals -> {"absent", "pending"} \cup Verdicts]
  BY DEF LedgerInv, Types, TypeOK, DbOK
<1>2. CASE q = p
  BY <1>2 DEF Effect, Quiet, Waits, Enters, Looks, Grants, Denies, Starts,
     Sends, Asks, Resting, Answering, LedgerInv, AnswerIsKnown
<1>3. CASE q # p
  <2>1. Answering(q) /\ arg'[q] = arg[q] /\ arg[q] \in Approvals
    BY <1>3 DEF Frame, Answering, LedgerInv, Types, Naming
  <2>2. approval[arg[q]] # "absent"
    BY <2>1 DEF LedgerInv, AnswerIsKnown
  <2> QED
    BY <1>1, <2>1, <2>2 DEF Effect, Quiet, Waits, Enters, Looks, Grants,
       Denies, Starts, Sends, Asks
<1> QED
  BY <1>2, <1>3

\* An answer about a granted approval that is still stored stays covered by
\* the request that granted it.
LEMMA StaleIsGoneStep ==
  ASSUME LedgerInv, NEW p \in Procs, Effect(p), Frame(p)
  PROVE  StaleIsGone'
<1> SUFFICES ASSUME NEW q \in Procs, Answering(q)',
                    approval'[arg'[q]] = "granted", arg'[q] \in stored'
             PROVE  \E r \in Procs : pc'[r] = "granted" /\ arg'[r] = arg'[q]
  BY DEF StaleIsGone
<1>1. approval \in [Approvals -> {"absent", "pending"} \cup Verdicts]
  BY DEF LedgerInv, Types, TypeOK, DbOK
<1>2. CASE Grants(p) /\ arg[p] = arg'[q]
  BY <1>2 DEF Grants
<1>3. CASE ~(Grants(p) /\ arg[p] = arg'[q])
  <2>1. arg'[q] \in Approvals
    BY DEF LedgerInv, Types, TypeOK, DbOK, Effect, Quiet, Waits, Enters,
       Looks, Grants, Denies, Starts, Sends, Asks
  <2>2. approval[arg'[q]] = "granted" /\ arg'[q] \in stored
    BY <1>1, <1>3, <2>1 DEF Effect, Quiet, Waits, Enters, Looks, Grants,
       Denies, Starts, Sends, Asks
  <2>3. Answering(q) /\ arg'[q] = arg[q]
    <3>1. CASE q # p
      BY <3>1 DEF Frame, Answering
    <3>2. CASE q = p
      BY <2>2, <3>2 DEF Effect, Quiet, Waits, Enters, Looks, Grants, Denies,
         Starts, Sends, Asks, Resting, Answering
    <3> QED  BY <3>1, <3>2
  <2>4. PICK r \in Procs : pc[r] = "granted" /\ arg[r] = arg[q]
    BY <2>2, <2>3 DEF LedgerInv, StaleIsGone
  <2>5. r # p
    BY <2>2, <2>3, <2>4 DEF Effect, Quiet, Waits, Enters, Looks, Grants,
       Denies, Starts, Sends, Asks
  <2> QED
    BY <2>3, <2>4, <2>5 DEF Frame
<1> QED
  BY <1>2, <1>3

\* What a request read of the run is what the row says when the policy is
\* evaluated: with one handle nobody writes between.
LEMMA ReadIsCurrentStep ==
  ASSUME OneHandle, LedgerInv, NEW p \in Procs, Effect(p), Frame(p)
  PROVE  ReadIsCurrent'
<1> SUFFICES ASSUME NEW q \in Procs, pc'[q] = "policy"
             PROVE  /\ approval'[arg'[q]] = seen'[q]
                    /\ seen'[q] \notin {"absent", "granted"}
  BY DEF ReadIsCurrent
<1>1. CASE q = p
  <2>1. Looks(p)
    BY <1>1 DEF Effect, Quiet, Waits, Enters, Looks, Grants, Denies, Starts,
       Sends, Asks, Resting
  <2> QED
    BY <1>1, <2>1, NotGranted DEF Looks
<1>2. CASE q # p
  <2>1. pc[q] = "policy" /\ arg'[q] = arg[q] /\ seen'[q] = seen[q]
    BY <1>2 DEF Frame
  <2>2. approval' = approval
    BY <1>2, <2>1, OthersKeep DEF Held, Steps
  <2> QED
    BY <2>1, <2>2 DEF LedgerInv, ReadIsCurrent
<1> QED
  BY <1>1, <1>2

\* Nobody sends what another request granted and has not sent yet.
LEMMA GrantIsFreshStep ==
  ASSUME OneHandle, LedgerInv, NEW p \in Procs, Effect(p), Frame(p)
  PROVE  GrantIsFresh'
<1> SUFFICES ASSUME NEW q \in Procs, pc'[q] \in {"granted", "started"}
             PROVE  approval'[arg'[q]] = "granted" /\ ran'[arg'[q]] = 0
  BY DEF GrantIsFresh
<1>1. CASE q = p
  <2>1. Grants(p) \/ Starts(p)
    BY <1>1 DEF Effect, Quiet, Waits, Enters, Looks, Grants, Denies, Starts,
       Sends, Asks, Resting
  <2>2. CASE Grants(p)
    <3>1. arg[p] \in Approvals /\ approval[arg[p]] = "pending"
      BY <2>2 DEF Grants, LedgerInv, Types, Naming, Holding, ReadIsCurrent
    <3>2. ran[arg[p]] = 0
      BY <3>1 DEF LedgerInv, RanGranted
    <3> QED
      BY <1>1, <2>2, <3>1, <3>2 DEF Grants, LedgerInv, Types, TypeOK, DbOK
  <2>3. CASE Starts(p)
    BY <1>1, <2>3 DEF Starts, LedgerInv, GrantIsFresh
  <2> QED  BY <2>1, <2>2, <2>3
<1>2. CASE q # p
  <2>1. pc[q] \in {"granted", "started"} /\ arg'[q] = arg[q]
    BY <1>2 DEF Frame
  <2>2. approval' = approval /\ ran' = ran
    BY <1>2, <2>1, OthersKeep DEF Held, Steps
  <2> QED
    BY <2>1, <2>2 DEF LedgerInv, GrantIsFresh
<1> QED
  BY <1>1, <1>2

\* Every effect is a step of the ledger, or none.
LEMMA EffectRefines ==
  ASSUME OneHandle, LedgerInv, Types', NEW p \in Procs, Effect(p)
  PROVE  [Ledger!Next]_(Ledger!ledger)
<1>1. approval' \in [Approvals -> {"absent", "pending", "granted"}
                                  \cup Ledger!Denied]
  BY DEF Types, TypeOK, DbOK, Verdicts, Ledger!Denied
<1>2. CASE Quiet(p) \/ Waits(p) \/ Enters(p) \/ Looks(p) \/ Starts(p)
  BY <1>2 DEF Quiet, Waits, Enters, Looks, Starts, Ledger!ledger
<1>3. CASE Grants(p)
  <2>1. arg[p] \in Approvals /\ approval[arg[p]] = "pending"
    BY <1>3 DEF Grants, LedgerInv, Types, Naming, Holding, ReadIsCurrent
  <2>2. Ledger!Grant(arg[p])
    BY <1>3, <2>1 DEF Grants, Ledger!Grant
  <2> QED  BY <2>1, <2>2 DEF Ledger!Next
<1>4. CASE Denies(p)
  <2>1. ASSUME NEW a \in Approvals, approval'[a] # approval[a]
        PROVE  /\ approval[a] \in {"pending"} \cup Ledger!Denied
               /\ approval'[a] \in Ledger!Denied
    <3>1. approval[a] \notin {"absent", "granted"}
      <4>1. CASE approval[a] = "pending"
        BY <4>1
      <4>2. CASE a = arg[p] /\ pc[p] = "policy"
        BY <4>2 DEF LedgerInv, ReadIsCurrent
      <4>3. CASE a = arg[p] /\ pc[p] = "begin" /\ op[p] = "reject"
                 /\ a \in stored
        BY <4>3, NotGranted
      <4> QED  BY <1>4, <2>1, <4>1, <4>2, <4>3 DEF Denies
    <3>2. approval[a] \in {"absent", "pending"} \cup Verdicts
      BY DEF LedgerInv, Types, TypeOK, DbOK
    <3> QED
      BY <1>4, <2>1, <3>1, <3>2 DEF Denies, Verdicts, Ledger!Denied
  <2>2. Ledger!Deny
    BY <1>1, <1>4, <2>1 DEF Ledger!Deny, Denies
  <2> QED  BY <2>2 DEF Ledger!Next
<1>5. CASE Sends(p)
  <2>1. arg[p] \in Approvals
    BY <1>5 DEF Sends, LedgerInv, Types, Naming, Holding
  <2>2. approval[arg[p]] = "granted" /\ ran[arg[p]] = 0
    BY <1>5 DEF Sends, LedgerInv, GrantIsFresh
  <2>3. ran' = [ran EXCEPT ![arg[p]] = 1]
    BY <1>5, <2>2 DEF Sends
  <2>4. Ledger!Run(arg[p])
    BY <1>5, <2>2, <2>3 DEF Sends, Ledger!Run
  <2> QED  BY <2>1, <2>4 DEF Ledger!Next
<1>6. ASSUME NEW a \in Approvals, Asks(p, a)
      PROVE  Ledger!Next
  BY <1>6 DEF Asks, Ledger!Ask, Ledger!Next
<1> QED
  BY <1>2, <1>3, <1>4, <1>5, <1>6 DEF Effect

\* The ledger itself never unmakes a grant and never runs an action twice.
LEMMA LedgerKeepsCount ==
  ASSUME LedgerInv, [Ledger!Next]_(Ledger!ledger)
  PROVE  RanOnce' /\ RanGranted'
<1>1. /\ approval \in [Approvals -> {"absent", "pending"} \cup Verdicts]
      /\ ran \in [Approvals -> Nat]
      /\ \A a \in Approvals : ran[a] \in {0, 1}
      /\ \A a \in Approvals : ran[a] # 0 => approval[a] = "granted"
  BY DEF LedgerInv, Types, TypeOK, DbOK, HistoryOK, RanOnce, RanGranted
<1> SUFFICES ASSUME NEW b \in Approvals
             PROVE  ran'[b] \in {0, 1} /\ (ran'[b] # 0 => approval'[b] = "granted")
  BY DEF RanOnce, RanGranted
<1>2. CASE UNCHANGED Ledger!ledger
  BY <1>1, <1>2 DEF Ledger!ledger
<1>3. ASSUME NEW a \in Approvals, Ledger!Ask(a) \/ Ledger!Grant(a)
      PROVE  ran'[b] \in {0, 1} /\ (ran'[b] # 0 => approval'[b] = "granted")
  BY <1>1, <1>3 DEF Ledger!Ask, Ledger!Grant
<1>4. ASSUME NEW a \in Approvals, Ledger!Run(a)
      PROVE  ran'[b] \in {0, 1} /\ (ran'[b] # 0 => approval'[b] = "granted")
  BY <1>1, <1>4 DEF Ledger!Run
<1>5. CASE Ledger!Deny
  BY <1>1, <1>5 DEF Ledger!Deny, Ledger!Denied
<1> QED
  BY <1>2, <1>3, <1>4, <1>5 DEF Ledger!Next

\* LedgerInv is inductive, and every step of the run is one of the ledger.
LEMMA LedgerStep ==
  ASSUME OneHandle, NoChanges, LedgerInv, [Next]_vars
  PROVE  LedgerInv' /\ [Ledger!Next]_(Ledger!ledger)
<1>0. Types'
  BY TypesNext DEF LedgerInv
<1>1. CASE UNCHANGED vars
  <2>0. USE <1>1 DEF vars, db, service, controller, requests, history
  <2>1. Ledger!ledger' = Ledger!ledger
    BY DEF Ledger!ledger
  <2>2. Lock' /\ NoChangeKind' /\ NoChangeStep'
    BY DEF LedgerInv, Lock, NoChangeKind, NoChangeStep
  <2>3. AnswerIsKnown' /\ StaleIsGone'
    BY DEF LedgerInv, AnswerIsKnown, StaleIsGone, Answering
  <2>4. ReadIsCurrent' /\ GrantIsFresh' /\ RanOnce' /\ RanGranted'
    BY DEF LedgerInv, ReadIsCurrent, GrantIsFresh, RanOnce, RanGranted
  <2> QED
    BY <1>0, <2>1, <2>2, <2>3, <2>4 DEF LedgerInv
<1>2. CASE Crash
  <2>1. UNCHANGED Ledger!ledger
    BY <1>2 DEF Crash, Ledger!ledger
  <2>2. \A p \in Procs : pc'[p] = "idle"
    BY <1>2 DEF Crash
  <2>3. NoChangeKind'
    BY <1>2 DEF Crash, LedgerInv, NoChangeKind
  <2>4. Lock' /\ NoChangeStep' /\ AnswerIsKnown' /\ StaleIsGone'
        /\ ReadIsCurrent' /\ GrantIsFresh'
    BY <2>2 DEF Lock, Held, NoChangeStep, AnswerIsKnown, StaleIsGone,
       Answering, ReadIsCurrent, GrantIsFresh
  <2> QED
    BY <1>0, <2>1, <2>3, <2>4, LedgerKeepsCount DEF LedgerInv
<1>3. ASSUME NEW p \in Procs, Arrive(p) \/ Acquire(p) \/ Step(p)
      PROVE  LedgerInv' /\ [Ledger!Next]_(Ledger!ledger)
  <2>1. Frame(p)
    BY <1>3, FrameHolds DEF LedgerInv
  <2>2. Effect(p)
    BY <1>3, EffectStep DEF LedgerInv
  <2>3. [Ledger!Next]_(Ledger!ledger)
    BY <1>0, <2>2, EffectRefines
  <2>4. Lock'
    BY <1>3, LockStep DEF LedgerInv
  <2>5. NoChangeKind' /\ NoChangeStep'
    BY <1>3, NoChangeStays DEF LedgerInv
  <2>6. AnswerIsKnown' /\ StaleIsGone' /\ ReadIsCurrent' /\ GrantIsFresh'
    BY <2>1, <2>2, AnswerIsKnownStep, StaleIsGoneStep, ReadIsCurrentStep,
       GrantIsFreshStep
  <2>7. RanOnce' /\ RanGranted'
    BY <2>3, LedgerKeepsCount
  <2> QED
    BY <1>0, <2>3, <2>4, <2>5, <2>6, <2>7 DEF LedgerInv
<1> QED
  BY <1>1, <1>2, <1>3 DEF Next

\* The initial states satisfy the invariant and are initial for the ledger.
LEMMA LedgerInit ==
  ASSUME Init
  PROVE  LedgerInv /\ Ledger!Init
<1>1. PICK h \in Handles : Started(h)
  BY DEF Init
<1>2. Types
  BY TypesInit
<1>3. Lock /\ NoChangeKind /\ NoChangeStep
  BY <1>1 DEF Started, Lock, Held, NoChangeKind, NoChangeStep
<1>4. AnswerIsKnown /\ StaleIsGone /\ ReadIsCurrent /\ GrantIsFresh
  BY <1>1 DEF Started, AnswerIsKnown, StaleIsGone, Answering, ReadIsCurrent,
     GrantIsFresh
<1>5. RanOnce /\ RanGranted /\ Ledger!Init
  BY <1>1 DEF Started, RanOnce, RanGranted, Ledger!Init
<1> QED
  BY <1>2, <1>3, <1>4, <1>5 DEF LedgerInv

-----------------------------------------------------------------------------
(* The theorems.                                                           *)

\* Approve, reject, retry, reply, pause, resume and cancel in any order, by
\* any number of clients, with crashes at every await and between every two
\* writes: the run is a ledger.  An action is asked for once, decided once,
\* sent only when granted, and sent once.
THEOREM RunImplementsLedger ==
  ASSUME OneHandle, NoChanges
  PROVE  Spec => ImplementsLedger
<1>1. Init => LedgerInv /\ Ledger!Init
  BY LedgerInit
<1>2. LedgerInv /\ [Next]_vars => LedgerInv' /\ [Ledger!Next]_(Ledger!ledger)
  BY LedgerStep
<1> QED
  BY <1>1, <1>2, PTL DEF Spec, ImplementsLedger, Ledger!Spec

\* What reached the target was granted and is on record as granted; and one
\* approval authorized one execution.
THEOREM GrantedOnce ==
  ASSUME OneHandle, NoChanges
  PROVE  Spec => [](RanIsGranted /\ RunsAtMostOnce /\ RejectedNeverRuns)
<1>1. Init => LedgerInv
  BY LedgerInit
<1>2. LedgerInv /\ [Next]_vars => LedgerInv'
  BY LedgerStep
<1>3. LedgerInv => RanIsGranted /\ RunsAtMostOnce /\ RejectedNeverRuns
  BY DEF LedgerInv, RanOnce, RanGranted, RanIsGranted, RunsAtMostOnce,
         RejectedNeverRuns
<1> QED
  BY <1>1, <1>2, <1>3, PTL DEF Spec

-----------------------------------------------------------------------------
(* Changes that were committed.                                            *)

\* The steps between the commit of a change and its end.
Settling(p) == pc[p] \in {"verify", "rollback"}

\* A change that was committed is in the hands of whoever committed it.
SettledBy == \A a \in unsettled : \E p \in Procs : Settling(p) /\ arg[p] = a

\* Meanwhile the run is not Completed.
NotOverYet == \A p \in Procs : Settling(p) => state # "Completed"

ChangesInv == Types /\ Lock /\ SettledBy /\ NotOverYet /\ CompletedSettlesChanges

\* What a step of p does to the changes, and to a run that was not Completed.
LeavesChanges(p) ==
  /\ unsettled' = unsettled /\ ~Settling(p) /\ ~Settling(p)'
  /\ state' = "Completed" => state = "Completed" \/ pc[p] = "deciding"

Commits(p) ==
  /\ pc[p] = "execute" /\ Settling(p)' /\ arg'[p] = arg[p]
  /\ unsettled' \subseteq unsettled \cup {arg[p]} /\ state' # "Completed"

RollsBack(p) ==
  /\ Settling(p) /\ Settling(p)' /\ arg'[p] = arg[p]
  /\ unsettled' = unsettled /\ state' # "Completed"

Settles(p) ==
  /\ Settling(p) /\ ~Settling(p)' /\ arg[p] \notin unsettled'
  /\ unsettled' = unsettled \ {arg[p]} /\ state' # "Completed"

ChangeEffect(p) == LeavesChanges(p) \/ Commits(p) \/ RollsBack(p) \/ Settles(p)

\* Every step has one of these effects.
LEMMA ChangeEffectStep ==
  ASSUME Types, NEW p \in Procs, Arrive(p) \/ Acquire(p) \/ Step(p)
  PROVE  ChangeEffect(p)
<1> USE DEF Types, TypeOK, RequestsOK, DbOK, Goto, Forget, Keep, Move, Stay,
      Return, Finish, Fail, EndRun, db, requests, history, Step, Settling
<1>1. CASE Arrive(p)
  BY <1>1 DEF ChangeEffect, LeavesChanges, Arrive, Request, Register, Cancel, CancelUnbound
<1>2. CASE Acquire(p) \/ Remove(p) \/ CancelFree(p) \/ CancelBusy(p)
  BY <1>2 DEF ChangeEffect, LeavesChanges, Acquire, Remove, CancelFree, CancelBusy
<1>3. CASE Begin(p)
  BY <1>3 DEF ChangeEffect, LeavesChanges, Begin, Beginning, Refuse, Drive, Unpause, Pause,
      Answer, Retry, Continue, ReadApproval, Reject, Reopen
<1>4. CASE Act(p)
  <2>1. CASE (\E m \in BOOLEAN : Judge(p, m)) \/ Resume(p) \/ StartCall(p) \/ Record(p)
    BY <2>1 DEF ChangeEffect, LeavesChanges, Judge, Resume, StartCall, Record
  <2>2. ASSUME NEW sent \in BOOLEAN, NEW ok \in BOOLEAN, Execute(p, sent, ok)
        PROVE  ChangeEffect(p)
    BY <2>2 DEF ChangeEffect, LeavesChanges, Execute
  <2>3. CASE ApproveChange(p) \/ ApproveChangeError(p) \/ ExecuteChangeError(p)
    BY <2>3 DEF ChangeEffect, LeavesChanges, ApproveChange, ApproveChangeError, ExecuteChangeError
  <2>4. ASSUME NEW ok \in BOOLEAN, ExecuteChange(p, ok)  PROVE ChangeEffect(p)
    BY <2>4 DEF ChangeEffect, Commits, ExecuteChange
  <2>5. ASSUME NEW ok \in BOOLEAN, VerifyChange(p, ok)  PROVE ChangeEffect(p)
    BY <2>5 DEF ChangeEffect, RollsBack, Settles, VerifyChange
  <2>6. CASE RollBack(p)
    BY <2>6 DEF ChangeEffect, Settles, RollBack
  <2> QED
    BY <1>4, <2>1, <2>2, <2>3, <2>4, <2>5, <2>6 DEF Act
<1>5. CASE Loop(p)
  <2>1. CASE StopLoop(p) \/ FailLoop(p) \/ Reason(p) \/ Strand(p) \/ Again(p)
    BY <2>1 DEF ChangeEffect, LeavesChanges, StopLoop, FailLoop, Reason, Strand, Again, Decided
  <2>2. CASE Complete(p) \/ Notify(p) \/ AskUser(p) \/ ReadAnswers(p) \/ Park(p)
             \/ DraftChange(p) \/ DraftRefused(p)
    BY <2>2 DEF ChangeEffect, LeavesChanges, Complete, Notify, AskUser, ReadAnswers, Park,
                DraftChange, DraftRefused, Decided
  <2>3. ASSUME NEW n \in 1 .. MaxBatch, OverBudget(p, n) \/ ReadBatch(p, n) \/ BlockBatch(p, n)
        PROVE  ChangeEffect(p)
    BY <2>3 DEF ChangeEffect, LeavesChanges, OverBudget, ReadBatch, BlockBatch, Decided
  <2>4. ASSUME NEW n \in 1 .. MaxBatch, NEW a \in Approvals, AskTool(p, a, n)
        PROVE  ChangeEffect(p)
    BY <2>4 DEF ChangeEffect, LeavesChanges, AskTool, Ask, Decided
  <2>5. ASSUME NEW a \in Approvals, NEW d \in Decisions, AskChange(p, a) \/ AskCommand(p, a, d)
        PROVE  ChangeEffect(p)
    BY <2>5 DEF ChangeEffect, LeavesChanges, AskChange, AskCommand, Ask, Decided
  <2>6. ASSUME NEW a \in Approvals, AskChange(p, a)  PROVE ChangeEffect(p)
    BY <2>6 DEF ChangeEffect, LeavesChanges, AskChange, Ask
  <2> QED
    BY <1>5, <2>1, <2>2, <2>3, <2>4, <2>5, <2>6 DEF Loop
<1> QED
  BY <1>1, <1>2, <1>3, <1>4, <1>5

\* With one entry, and while the program is up, the invariant is preserved.
LEMMA ChangesStep ==
  ASSUME OneHandle, ~MayCrash, ChangesInv, [Next]_vars
  PROVE  ChangesInv'
<1>0. Types'
  BY TypesNext DEF ChangesInv
<1>1. CASE UNCHANGED vars
  BY <1>0, <1>1 DEF vars, db, service, controller, requests, history, ChangesInv, Lock, SettledBy,
     NotOverYet, Settling, CompletedSettlesChanges
<1>2. ASSUME NEW p \in Procs, Arrive(p) \/ Acquire(p) \/ Step(p)
      PROVE  ChangesInv'
  <2>1. Frame(p) /\ Lock' /\ ChangeEffect(p)
    BY <1>2, FrameHolds, LockStep, ChangeEffectStep DEF ChangesInv
  <2>2. \A q \in Procs \ {p} : Settling(q)' = Settling(q) /\ arg'[q] = arg[q]
    BY <2>1 DEF Frame, Settling
  <2>3. \A q \in Procs : Settling(q) => pc[q] \in Held
    BY DEF Settling, Held, Steps
  <2>4. ASSUME pc[p] \in Held, NEW q \in Procs, Settling(q)  PROVE q = p
    BY <2>3, <2>4, Alone DEF ChangesInv
  <2>5. SettledBy'
    <3> SUFFICES ASSUME NEW a \in unsettled'
                 PROVE  \E q \in Procs : Settling(q)' /\ arg'[q] = a
      BY DEF SettledBy
    <3>1. CASE LeavesChanges(p)
      <4>1. PICK q \in Procs : Settling(q) /\ arg[q] = a
        BY <3>1 DEF LeavesChanges, ChangesInv, SettledBy
      <4> QED
        BY <2>2, <3>1, <4>1 DEF LeavesChanges
    <3>2. CASE Commits(p) \/ RollsBack(p)
      <4>1. CASE a = arg[p]
        BY <3>2, <4>1 DEF Commits, RollsBack
      <4>2. CASE a # arg[p]
        <5>1. PICK q \in Procs : Settling(q) /\ arg[q] = a
          BY <3>2, <4>2 DEF Commits, RollsBack, ChangesInv, SettledBy
        <5> QED
          BY <2>2, <4>2, <5>1
      <4> QED  BY <4>1, <4>2
    <3>3. CASE Settles(p)
      <4>1. PICK q \in Procs : Settling(q) /\ arg[q] = a
        BY <3>3 DEF Settles, ChangesInv, SettledBy
      <4>2. q # p
        BY <3>3, <4>1 DEF Settles
      <4> QED
        BY <2>2, <4>1, <4>2
    <3> QED  BY <2>1, <3>1, <3>2, <3>3 DEF ChangeEffect
  <2>6. NotOverYet'
    <3> SUFFICES ASSUME NEW q \in Procs, Settling(q)', state' = "Completed"  PROVE FALSE
      BY DEF NotOverYet
    <3>1. LeavesChanges(p) /\ q # p
      BY <2>1 DEF ChangeEffect, LeavesChanges, Commits, RollsBack, Settles
    <3>2. Settling(q)
      BY <2>2, <3>1
    <3>3. state # "Completed"
      BY <3>2 DEF ChangesInv, NotOverYet
    <3>4. pc[p] = "deciding"
      BY <3>1, <3>3 DEF LeavesChanges
    <3>5. pc[p] \in Held
      BY <3>4 DEF Held, Steps
    <3> QED  BY <2>4, <3>1, <3>2, <3>5
  <2>7. CompletedSettlesChanges'
    <3> SUFFICES ASSUME state' = "Completed"  PROVE unsettled' = {}
      BY DEF CompletedSettlesChanges
    <3>1. LeavesChanges(p)
      BY <2>1 DEF ChangeEffect, Commits, RollsBack, Settles
    <3>2. CASE state = "Completed"
      BY <3>1, <3>2 DEF LeavesChanges, ChangesInv, CompletedSettlesChanges
    <3>3. CASE pc[p] = "deciding"
      <4>1. pc[p] \in Held /\ ~Settling(p)
        BY <3>3 DEF Held, Steps, Settling
      <4>2. \A q \in Procs : ~Settling(q)
        BY <2>4, <4>1
      <4> QED
        BY <3>1, <4>2 DEF LeavesChanges, ChangesInv, SettledBy
    <3> QED  BY <3>1, <3>2, <3>3 DEF LeavesChanges
  <2> QED
    BY <1>0, <2>1, <2>5, <2>6, <2>7 DEF ChangesInv
<1>3. ~Crash
  BY DEF Crash
<1> QED
  BY <1>1, <1>2, <1>3 DEF Next

\* A run that is Completed has verified every change it committed, or sent
\* it to rollback: for every number of requests and proposals, as long as
\* the program is up.  A crash after the commit leaves a change nobody
\* verifies, and the run may be resumed and completed.
THEOREM ChangesAreSettled ==
  ASSUME OneHandle, ~MayCrash
  PROVE  Spec => []CompletedSettlesChanges
<1>1. Init => ChangesInv
  <2> SUFFICES ASSUME Init  PROVE ChangesInv
    OBVIOUS
  <2>1. PICK h \in Handles : Started(h)
    BY DEF Init
  <2>2. Types
    BY TypesInit
  <2> QED
    BY <2>1, <2>2 DEF Started, ChangesInv, Lock, Held, SettledBy, NotOverYet, Settling,
       CompletedSettlesChanges
<1>2. ChangesInv /\ [Next]_vars => ChangesInv'
  BY ChangesStep
<1>3. ChangesInv => CompletedSettlesChanges
  BY DEF ChangesInv
<1> QED
  BY <1>1, <1>2, <1>3, PTL DEF Spec

-----------------------------------------------------------------------------
(* What commands wrote.                                                    *)

\* A write that reached the target, and whose outcome is in no event.
Unrecorded == \E a \in Approvals : kind[a] = "write" /\ ran[a] > 0 /\ a \notin recorded

\* A controller knows as much as the event log would tell it.
MemoryIsLog == \A h \in Handles : live[h] => owes[h] = logged
HeldIsLive == \A p \in Procs : pc[p] \in Held => live[handle[p]]

\* An outcome is recorded once: what is granted and not yet recorded has no
\* outcome, and what has one was granted.
RecordedIsGranted == \A a \in recorded : approval[a] = "granted"

InHand(p) == pc[p] \in {"granted", "started", "ran"}

OutcomeIsNew == \A p \in Procs : InHand(p) => approval[arg[p]] = "granted" /\ arg[p] \notin recorded

\* What is left to verify is in the log, or was never recorded; a read that
\* succeeded left nothing.
WritesAreKnown == dirty => logged \/ Unrecorded
ReadsVerify == \A p \in Procs : pc[p] = "ran" /\ result[p] /\ kind[arg[p]] = "read" => ~dirty
CompletedKnows == state = "Completed" /\ dirty => Unrecorded

OutcomeInv ==
  /\ LedgerInv /\ MemoryIsLog /\ HeldIsLive /\ RecordedIsGranted /\ OutcomeIsNew
  /\ WritesAreKnown /\ ReadsVerify /\ CompletedKnows

-----------------------------------------------------------------------------
(* What a step of p does to the controllers in the slots.                  *)

SlotsStay(p) == /\ live' = live
                /\ pc'[p] \in Held => pc[p] \in Held /\ handle'[p] = handle[p]

SlotFills(p) == /\ handle'[p] = handle[p] /\ live'[handle[p]]
                /\ \A h \in Handles : live[h] => live'[h]

SlotEmpties(p) ==
  /\ pc'[p] \notin Held
  /\ \E h \in Handles : /\ live' = [live EXCEPT ![h] = FALSE]
                        /\ \A q \in Procs \ {p} : pc[q] \in Held => handle[q] # h

LEMMA LiveStep ==
  ASSUME Types, Lock, NEW p \in Procs, Arrive(p) \/ Acquire(p) \/ Step(p)
  PROVE  SlotsStay(p) \/ SlotFills(p) \/ SlotEmpties(p)
<1> USE DEF Types, TypeOK, RequestsOK, ServiceOK, Goto, Forget, Keep, Unlock,
      Return, Finish, Fail, EndRun, service, requests, Step, Held, Steps
<1>1. CASE Arrive(p)
  <2>1. CASE Register(p)
    <3>1. PICK h \in Handles \ {handle[q] : q \in Procs} : live' = [live EXCEPT ![h] = FALSE]
      BY <2>1 DEF Register
    <3>2. \A q \in Procs : handle[q] # h
      BY <3>1
    <3> QED  BY <2>1, <3>1, <3>2 DEF SlotEmpties, Register
  <2>2. CASE ~Register(p)
    BY <1>1, <2>2 DEF SlotsStay, Arrive, Request, Cancel, CancelUnbound
  <2> QED  BY <2>1, <2>2
<1>2. CASE Acquire(p) \/ Remove(p) \/ CancelBusy(p)
  BY <1>2 DEF SlotsStay, SlotFills, Acquire, Rehydrate, Remove, CancelBusy, Bound
<1>3. CASE CancelFree(p)
  <2>1. handle[p] \in Handles /\ live' = [live EXCEPT ![handle[p]] = FALSE] /\ pc'[p] = "idle"
    BY <1>3 DEF CancelFree, Bound
  <2>2. ASSUME NEW q \in Procs \ {p}, pc[q] \in Held  PROVE handle[q] # handle[p]
    BY <1>3, <2>2, AgentAssumption DEF CancelFree, Lock, Procs
  <2> QED  BY <2>1, <2>2 DEF SlotEmpties
<1>4. CASE Begin(p)
  BY <1>4 DEF SlotsStay, Begin, Beginning, Refuse, Drive, Unpause,
      Pause, Answer, Retry, Continue, ReadApproval, Reject, Reopen
<1>5. CASE Act(p)
  BY <1>5 DEF SlotsStay, Act, Judge, Resume, StartCall, Execute,
      Record, ApproveChange, ApproveChangeError, ExecuteChange,
      ExecuteChangeError, VerifyChange, RollBack
<1>6. CASE Loop(p)
  <2>1. CASE StopLoop(p) \/ FailLoop(p) \/ Reason(p) \/ Strand(p) \/ Again(p)
    BY <2>1 DEF SlotsStay, StopLoop, FailLoop, Reason, Strand, Again, Decided
  <2>2. CASE Complete(p) \/ Notify(p) \/ AskUser(p) \/ ReadAnswers(p) \/ Park(p)
             \/ DraftChange(p) \/ DraftRefused(p)
    BY <2>2 DEF SlotsStay, Complete, Notify, AskUser, ReadAnswers, Park, DraftChange,
       DraftRefused, Decided
  <2>3. ASSUME NEW n \in 1 .. MaxBatch, OverBudget(p, n) \/ ReadBatch(p, n) \/ BlockBatch(p, n)
        PROVE  SlotsStay(p)
    BY <2>3 DEF SlotsStay, OverBudget, ReadBatch, BlockBatch, Decided
  <2>4. ASSUME NEW a \in Approvals, NEW k, Ask(p, a, k), pc[p] \in {"deciding", "draft"}
        PROVE  SlotsStay(p)
    BY <2>4 DEF SlotsStay, Ask
  <2>5. ASSUME NEW n \in 1 .. MaxBatch, NEW a \in Approvals, AskTool(p, a, n)
        PROVE  SlotsStay(p)
    BY <2>4, <2>5 DEF AskTool, Decided
  <2>6. ASSUME NEW a \in Approvals, NEW d \in Decisions, AskCommand(p, a, d)
        PROVE  SlotsStay(p)
    BY <2>4, <2>6 DEF AskCommand, Decided
  <2>7. ASSUME NEW a \in Approvals, AskChange(p, a)
        PROVE  SlotsStay(p)
    BY <2>4, <2>7 DEF AskChange
  <2> QED
    BY <1>6, <2>1, <2>2, <2>3, <2>5, <2>6, <2>7 DEF Loop
<1> QED
  BY <1>1, <1>2, <1>3, <1>4, <1>5, <1>6

LEMMA HeldIsLiveStep ==
  ASSUME OutcomeInv, NEW p \in Procs, Arrive(p) \/ Acquire(p) \/ Step(p)
  PROVE  HeldIsLive'
<1> SUFFICES ASSUME NEW q \in Procs, pc'[q] \in Held  PROVE live'[handle'[q]]
  BY DEF HeldIsLive
<1>1. Frame(p) /\ (SlotsStay(p) \/ SlotFills(p) \/ SlotEmpties(p))
  BY FrameHolds, LiveStep DEF OutcomeInv, LedgerInv
<1>2. live \in [Handles -> BOOLEAN]
  BY DEF OutcomeInv, LedgerInv, Types, TypeOK, ServiceOK
<1>3. \A r \in Procs : pc[r] \in Held => handle[r] \in Handles /\ live[handle[r]]
  BY DEF OutcomeInv, LedgerInv, Types, Bound, Held, HeldIsLive
<1>4. CASE q = p
  BY <1>1, <1>3, <1>4 DEF SlotsStay, SlotFills, SlotEmpties
<1>5. CASE q # p
  <2>1. pc[q] \in Held /\ handle'[q] = handle[q]
    BY <1>1, <1>5 DEF Frame
  <2> QED
    BY <1>1, <1>2, <1>3, <1>5, <2>1 DEF SlotsStay, SlotFills, SlotEmpties
<1> QED  BY <1>4, <1>5

\* What is to be verified is the same in memory and in the log.
LEMMA MemoryStep ==
  ASSUME OneHandle, OutcomeInv, NEW p \in Procs, Arrive(p) \/ Acquire(p) \/ Step(p)
  PROVE  MemoryIsLog'
<1>0. MemoryIsLog /\ HeldIsLive /\ Types
  BY DEF OutcomeInv, LedgerInv
<1> USE <1>0 DEF Types, TypeOK, ServiceOK, ControllerOK, Step, db, service, controller, MemoryIsLog
<1>1. CASE Arrive(p)
  BY <1>1 DEF Arrive, Request, Register, Cancel, CancelUnbound
<1>2. CASE Acquire(p) \/ Remove(p) \/ CancelFree(p) \/ CancelBusy(p)
  BY <1>2 DEF Acquire, Rehydrate, Remove, CancelFree, CancelBusy, Move, Stay
<1>3. CASE Begin(p)
  BY <1>3 DEF Begin, Refuse, Drive, Unpause, Pause, Answer, Retry, Continue, ReadApproval, Reject, Reopen
<1>4. CASE Act(p)
  <2>1. CASE Record(p)
    <3>1. handle[p] \in Handles /\ live[handle[p]] /\ pc[p] = "ran"
      BY <2>1 DEF Record, HeldIsLive, Held, Steps, Bound
    <3>2. owes'[handle[p]] = logged'
      BY <2>1, <3>1 DEF Record
    <3> QED  BY <3>1, <3>2 DEF OneHandle
  <2>2. CASE ~Record(p)
    BY <1>4, <2>2 DEF Act, Judge, Resume, StartCall, Execute, ApproveChange, ApproveChangeError,
       ExecuteChange, ExecuteChangeError, VerifyChange, RollBack
  <2> QED  BY <2>1, <2>2
<1>5. CASE Loop(p)
  BY SMTT(30), <1>5 DEF Loop, StopLoop, FailLoop, Reason, Strand,
      Again, Complete, Notify, AskUser, OverBudget, ReadBatch,
      ReadAnswers, BlockBatch, Ask, AskTool, AskCommand, DraftChange,
      DraftRefused, AskChange, Park
<1> QED
  BY <1>1, <1>2, <1>3, <1>4, <1>5

-----------------------------------------------------------------------------
(* What a step of p does to the outcome of commands.                       *)

KindsKept == \A a \in Approvals : approval[a] # "absent" => kind'[a] = kind[a]

\* It may complete a run that owes nothing.
Knows(p) ==
  /\ dirty' = dirty /\ logged' = logged /\ recorded' = recorded /\ ran' = ran
  /\ KindsKept
  /\ InHand(p)' => \/ InHand(p) /\ pc[p] # "ran" /\ pc'[p] # "ran" /\ arg'[p] = arg[p]
                   \/ Grants(p) /\ pc'[p] = "granted"
  /\ state' = "Completed" => state = "Completed" \/ (pc[p] = "deciding" /\ ~owes[handle[p]])

Executes(p) ==
  /\ pc[p] = "started" /\ pc'[p] = "ran" /\ arg'[p] = arg[p]
  /\ logged' = logged /\ recorded' = recorded /\ state' = state /\ kind' = kind
  /\ \/ ran' = ran /\ dirty' = dirty /\ ~result'[p]
     \/ ran' = [ran EXCEPT ![arg[p]] = @ + 1] /\ dirty' = Touched(kind[arg[p]], result'[p])

Records(p) ==
  /\ pc[p] = "ran" /\ ~InHand(p)' /\ dirty' = dirty /\ ran' = ran /\ kind' = kind
  /\ recorded' = recorded \cup {arg[p]} /\ state' # "Completed"
  /\ logged' = Owed(kind[arg[p]], result[p], logged)

ResultsKept(p) == \A q \in Procs \ {p} : result'[q] = result[q]

OutcomeEffect(p) == ResultsKept(p) /\ (Knows(p) \/ Executes(p) \/ Records(p))

LEMMA OutcomeStep ==
  ASSUME NoChanges, OutcomeInv, NEW p \in Procs, Arrive(p) \/ Acquire(p) \/ Step(p)
  PROVE  OutcomeEffect(p)
<1>0. Types /\ NoChangeKind /\ NoChangeStep
  BY DEF OutcomeInv, LedgerInv
<1> USE <1>0 DEF Types, TypeOK, RequestsOK, DbOK, Goto, Forget, Keep, Move, Stay,
      Return, Finish, Fail, EndRun, db, requests, history, Step, OutcomeEffect, ResultsKept, KindsKept, InHand
<1>1. CASE Arrive(p)
  BY <1>1 DEF Knows, Arrive, Request, Register, Cancel, CancelUnbound
<1>2. CASE Acquire(p) \/ Remove(p) \/ CancelFree(p) \/ CancelBusy(p)
  BY <1>2 DEF Knows, Acquire, Remove, CancelFree, CancelBusy
<1>3. CASE Begin(p)
  BY <1>3 DEF Knows, Begin, Beginning, Refuse, Drive, Unpause, Pause,
      Answer, Retry, Continue, ReadApproval, Reject, Reopen
<1>4. CASE Act(p)
  <2>1. ASSUME NEW m \in BOOLEAN, Judge(p, m)  PROVE OutcomeEffect(p)
    <3>1. CASE StillValid(p, m)
      BY <2>1, <3>1 DEF Knows, Grants, Judge, Decide, StillValid
    <3>2. CASE ~StillValid(p, m)
      BY <2>1, <3>2 DEF Knows, Judge, Decide
    <3> QED  BY <3>1, <3>2
  <2>2. CASE Resume(p) \/ StartCall(p)
    BY <2>2 DEF Knows, Resume, StartCall
  <2>3. CASE Record(p)
    BY <2>3 DEF Records, Record
  <2>4. ASSUME NEW sent \in BOOLEAN, NEW ok \in BOOLEAN, Execute(p, sent, ok)
        PROVE  OutcomeEffect(p)
    BY <2>4 DEF Executes, Execute
  <2>5. ~ApproveChange(p) /\ ~ApproveChangeError(p)
    BY DEF ApproveChange, ApproveChangeError, NoChangeKind, Naming, Holding
  <2>6. /\ \A ok \in BOOLEAN : ~ExecuteChange(p, ok) /\ ~VerifyChange(p, ok)
        /\ ~ExecuteChangeError(p) /\ ~RollBack(p)
    BY DEF ExecuteChange, ExecuteChangeError, VerifyChange, RollBack,
           NoChangeStep
  <2> QED
    BY <1>4, <2>1, <2>2, <2>3, <2>4, <2>5, <2>6 DEF Act
<1>5. CASE Loop(p)
  <2>1. CASE StopLoop(p) \/ FailLoop(p) \/ Reason(p) \/ Strand(p) \/ Again(p)
    BY <2>1 DEF Knows, StopLoop, FailLoop, Reason, Strand, Again, Decided
  <2>2. CASE Complete(p) \/ Notify(p) \/ AskUser(p) \/ ReadAnswers(p) \/ Park(p)
             \/ DraftChange(p) \/ DraftRefused(p)
    BY <2>2 DEF Knows, Complete, Notify, AskUser, ReadAnswers, Park,
                DraftChange, DraftRefused, Decided
  <2>3. ASSUME NEW n \in 1 .. MaxBatch, OverBudget(p, n) \/ ReadBatch(p, n) \/ BlockBatch(p, n)
        PROVE  OutcomeEffect(p)
    BY <2>3 DEF Knows, OverBudget, ReadBatch, BlockBatch, Decided
  <2>4. ASSUME NEW n \in 1 .. MaxBatch, NEW a \in Approvals, AskTool(p, a, n)
        PROVE  OutcomeEffect(p)
    BY <2>4 DEF Knows, AskTool, Ask, Decided
  <2>5. ASSUME NEW a \in Approvals, NEW d \in Decisions, AskCommand(p, a, d)
        PROVE  OutcomeEffect(p)
    BY <2>5 DEF Knows, AskCommand, Ask, Decided
  <2>6. ASSUME NEW a \in Approvals, AskChange(p, a)  PROVE OutcomeEffect(p)
    BY <2>6 DEF Knows, AskChange, Ask
  <2> QED
    BY <1>5, <2>1, <2>2, <2>3, <2>4, <2>5, <2>6 DEF Loop
<1> QED
  BY <1>1, <1>2, <1>3, <1>4, <1>5

-----------------------------------------------------------------------------
(* The invariant is preserved.                                             *)

\* A grant stays.
LEMMA GrantStays ==
  ASSUME LedgerInv, [Ledger!Next]_(Ledger!ledger), NEW a \in Approvals, approval[a] = "granted"
  PROVE  approval'[a] = "granted"
<1>1. approval \in [Approvals -> {"absent", "pending"} \cup Verdicts]
  BY DEF LedgerInv, Types, TypeOK, DbOK
<1> QED
  BY <1>1 DEF Ledger!Next, Ledger!ledger, Ledger!Ask, Ledger!Grant, Ledger!Deny, Ledger!Run, Ledger!Denied

LEMMA OutcomeParts ==
  ASSUME OutcomeInv
  PROVE  /\ Types /\ Lock /\ LedgerInv /\ recorded \subseteq Approvals /\ dirty \in BOOLEAN /\ logged \in BOOLEAN
         /\ kind \in [Approvals -> Kinds] /\ ran \in [Approvals -> Nat] /\ result \in [Procs -> BOOLEAN]
         /\ \A q \in Procs : InHand(q) => /\ arg[q] \in Approvals /\ pc[q] \in Held
                                          /\ approval[arg[q]] = "granted" /\ arg[q] \notin recorded
         /\ \A a \in recorded : approval[a] = "granted"
         /\ \A a \in Approvals : ran[a] > 0 => approval[a] = "granted"
BY DEF OutcomeInv, LedgerInv, Types, TypeOK, DbOK, HistoryOK, RequestsOK, Naming, Holding, InHand, Held, Steps,
   OutcomeIsNew, RecordedIsGranted, RanGranted

\* Nobody but p has an outcome in hand while p has the slot.
LEMMA OneInHand ==
  ASSUME OneHandle, OutcomeInv, NEW p \in Procs, NEW q \in Procs, pc[p] \in Held, InHand(q)
  PROVE  q = p
BY OutcomeParts, Alone

LEMMA RecordedStep ==
  ASSUME OneHandle, OutcomeInv, NEW p \in Procs, Frame(p), OutcomeEffect(p), [Ledger!Next]_(Ledger!ledger)
  PROVE  RecordedIsGranted' /\ OutcomeIsNew'
<1>1. \A a \in Approvals : approval[a] = "granted" => approval'[a] = "granted"
  BY GrantStays, OutcomeParts
<1>2. RecordedIsGranted'
  <2> SUFFICES ASSUME NEW a \in recorded'  PROVE approval'[a] = "granted"
    BY DEF RecordedIsGranted
  <2>1. CASE a \in recorded
    BY <1>1, <2>1, OutcomeParts
  <2>2. CASE a \notin recorded
    <3>1. Records(p) /\ a = arg[p]
      BY <2>2 DEF OutcomeEffect, Knows, Executes, Records
    <3> QED
      BY <1>1, <3>1, OutcomeParts DEF Records, InHand
  <2> QED  BY <2>1, <2>2
<1>3. ASSUME NEW q \in Procs, InHand(q)'
      PROVE  approval'[arg'[q]] = "granted" /\ arg'[q] \notin recorded'
  <2>1. CASE q = p
    <3>1. CASE Executes(p)
      BY <1>1, <2>1, <3>1, OutcomeParts DEF Executes, InHand
    <3>2. CASE Knows(p) /\ InHand(p) /\ arg'[p] = arg[p]
      BY <1>1, <2>1, <3>2, OutcomeParts DEF Knows
    <3>3. CASE Knows(p) /\ Grants(p)
      <4>1. arg[p] \in Approvals /\ approval[arg[p]] = "pending"
        BY <3>3, OutcomeParts DEF Grants, LedgerInv, Types, Naming, Holding, ReadIsCurrent
      <4>2. arg[p] \notin recorded
        BY <4>1, OutcomeParts
      <4> QED
        BY <2>1, <3>3, <4>1, <4>2, OutcomeParts DEF Knows, Grants, Types, TypeOK, DbOK
    <3> QED
      BY <1>3, <2>1, <3>1, <3>2, <3>3 DEF OutcomeEffect, Knows, Records
  <2>2. CASE q # p
    <3>1. InHand(q) /\ arg'[q] = arg[q]
      BY <1>3, <2>2 DEF Frame, InHand
    <3>2. pc[p] \notin Held
      BY <2>2, <3>1, OneInHand
    <3>3. recorded' = recorded
      BY <3>2 DEF OutcomeEffect, Knows, Executes, Records, Held, Steps
    <3> QED
      BY <1>1, <3>1, <3>3, OutcomeParts
  <2> QED  BY <2>1, <2>2
<1> QED  BY <1>2, <1>3 DEF OutcomeIsNew

\* A write that is in no event stays one until it is recorded.
LEMMA UnrecordedStays ==
  ASSUME OutcomeInv, NEW p \in Procs, Unrecorded,
         Knows(p) \/ Executes(p) \/ (Records(p) /\ kind[arg[p]] # "write")
  PROVE  Unrecorded'
<1>1. PICK a \in Approvals : kind[a] = "write" /\ ran[a] > 0 /\ a \notin recorded
  BY DEF Unrecorded
<1>2. kind'[a] = kind[a]
  BY <1>1, OutcomeParts DEF Knows, KindsKept, Executes, Records
<1>3. ran'[a] > 0
  BY <1>1, OutcomeParts DEF Knows, Executes, Records
<1>4. a \notin recorded'
  BY <1>1 DEF Knows, Executes, Records
<1> QED  BY <1>1, <1>2, <1>3, <1>4 DEF Unrecorded

LEMMA WritesStep ==
  ASSUME OneHandle, OutcomeInv, NEW p \in Procs, Frame(p), OutcomeEffect(p)
  PROVE  WritesAreKnown' /\ ReadsVerify' /\ CompletedKnows'
<1>0. WritesAreKnown /\ ReadsVerify /\ CompletedKnows /\ HeldIsLive /\ MemoryIsLog
  BY DEF OutcomeInv
<1>1. ASSUME NEW q \in Procs, q # p, pc'[q] = "ran", result'[q], kind'[arg'[q]] = "read"
      PROVE  ~dirty'
  <2>1. pc[q] = "ran" /\ InHand(q) /\ arg'[q] = arg[q] /\ result'[q] = result[q]
    BY <1>1 DEF Frame, InHand, OutcomeEffect, ResultsKept
  <2>2. pc[p] \notin Held
    BY <1>1, <2>1, OneInHand
  <2>3. Knows(p)
    BY <2>2 DEF OutcomeEffect, Executes, Records, Held, Steps
  <2>4. kind'[arg[q]] = kind[arg[q]]
    BY <2>1, <2>3, OutcomeParts DEF Knows, KindsKept
  <2> QED
    BY <1>0, <1>1, <2>1, <2>3, <2>4 DEF ReadsVerify, Knows
<1>2. CASE Knows(p)
  <2>1. WritesAreKnown'
    BY <1>0, <1>2, UnrecordedStays DEF WritesAreKnown, Knows
  <2>2. pc'[p] # "ran"
    BY <1>2 DEF Knows, InHand
  <2>3. CompletedKnows'
    <3> SUFFICES ASSUME state' = "Completed", dirty'  PROVE Unrecorded'
      BY DEF CompletedKnows
    <3>1. CASE state = "Completed"
      BY <1>0, <1>2, <3>1, UnrecordedStays DEF CompletedKnows, Knows
    <3>2. CASE pc[p] = "deciding" /\ ~owes[handle[p]]
      <4>1. pc[p] \in Held /\ handle[p] \in Handles
        BY <3>2, OutcomeParts DEF Held, Steps, Types, Bound
      <4>2. ~logged
        BY <1>0, <3>2, <4>1 DEF HeldIsLive, MemoryIsLog
      <4>3. Unrecorded
        BY <1>0, <1>2, <4>2 DEF WritesAreKnown, Knows
      <4> QED  BY <1>2, <4>3, UnrecordedStays
    <3> QED  BY <1>2, <3>1, <3>2 DEF Knows
  <2> QED  BY <1>1, <2>1, <2>2, <2>3 DEF ReadsVerify
<1>3. CASE Executes(p)
  <2>1. InHand(p) /\ arg[p] \in Approvals /\ arg[p] \notin recorded
    BY <1>3, OutcomeParts DEF Executes, InHand
  <2>2. ASSUME kind[arg[p]] = "write", ran' = [ran EXCEPT ![arg[p]] = @ + 1]  PROVE Unrecorded'
    <3>1. ran'[arg[p]] > 0
      BY <2>1, <2>2, OutcomeParts
    <3> QED  BY <1>3, <2>1, <2>2, <3>1 DEF Executes, Unrecorded
  <2>3. dirty' => dirty \/ Unrecorded'
    BY <1>3, <2>2 DEF Executes, Touched
  <2>4. WritesAreKnown'
    BY <1>0, <1>3, <2>3, UnrecordedStays DEF WritesAreKnown, Executes
  <2>5. CompletedKnows'
    BY <1>0, <1>3, <2>3, UnrecordedStays DEF CompletedKnows, Executes
  <2>6. result'[p] /\ kind'[arg'[p]] = "read" => ~dirty'
    BY <1>3 DEF Executes, Touched
  <2> QED  BY <1>1, <2>4, <2>5, <2>6 DEF ReadsVerify
<1>4. CASE Records(p)
  <2>1. WritesAreKnown'
    <3>1. CASE kind[arg[p]] = "write"
      BY <1>4, <3>1 DEF Records, Owed, WritesAreKnown
    <3>2. CASE kind[arg[p]] = "read" /\ result[p]
      BY <1>0, <1>4, <3>2 DEF Records, ReadsVerify, WritesAreKnown
    <3>3. CASE kind[arg[p]] # "write" /\ ~(kind[arg[p]] = "read" /\ result[p])
      <4>1. logged' = logged
        BY <1>4, <3>3 DEF Records, Owed
      <4>2. Unrecorded => Unrecorded'
        BY <1>4, <3>3, UnrecordedStays
      <4>3. dirty' = dirty
        BY <1>4 DEF Records
      <4> QED  BY <1>0, <4>1, <4>2, <4>3 DEF WritesAreKnown
    <3> QED  BY <3>1, <3>2, <3>3
  <2>2. CompletedKnows' /\ pc'[p] # "ran"
    BY <1>4 DEF Records, CompletedKnows, InHand
  <2> QED  BY <1>1, <2>1, <2>2 DEF ReadsVerify
<1> QED  BY <1>2, <1>3, <1>4 DEF OutcomeEffect

\* The crash keeps what is durable.
LEMMA OutcomeCrash ==
  ASSUME OutcomeInv, Crash, LedgerInv'
  PROVE  OutcomeInv'
<1>1. \A p \in Procs : pc'[p] = "idle"
  BY DEF Crash
<1>2. /\ dirty' = dirty /\ logged' = logged /\ recorded' = recorded /\ ran' = ran /\ kind' = kind
      /\ approval' = approval /\ \A h \in Handles : ~live'[h]
  BY DEF Crash
<1>3. state' = "Completed" => state = "Completed"
  BY DEF Crash, Recovered
<1>4. Unrecorded' = Unrecorded
  BY <1>2 DEF Unrecorded
<1>5. HeldIsLive' /\ MemoryIsLog' /\ OutcomeIsNew' /\ ReadsVerify'
  BY <1>1, <1>2 DEF HeldIsLive, MemoryIsLog, OutcomeIsNew, ReadsVerify, InHand, Held
<1>6. RecordedIsGranted' /\ WritesAreKnown' /\ CompletedKnows'
  BY <1>2, <1>3, <1>4 DEF OutcomeInv, RecordedIsGranted, WritesAreKnown, CompletedKnows
<1> QED  BY <1>5, <1>6 DEF OutcomeInv

LEMMA OutcomeNext ==
  ASSUME OneHandle, NoChanges, OutcomeInv, [Next]_vars
  PROVE  OutcomeInv'
<1>1. LedgerInv' /\ [Ledger!Next]_(Ledger!ledger)
  BY LedgerStep, OutcomeParts
<1>2. CASE UNCHANGED vars
  BY <1>1, <1>2 DEF vars, db, service, controller, requests, history, OutcomeInv, MemoryIsLog, HeldIsLive,
     RecordedIsGranted, OutcomeIsNew, InHand, WritesAreKnown, Unrecorded, ReadsVerify, CompletedKnows
<1>3. CASE Crash
  BY <1>1, <1>3, OutcomeCrash
<1>4. ASSUME NEW p \in Procs, Arrive(p) \/ Acquire(p) \/ Step(p)
      PROVE  OutcomeInv'
  <2>1. Frame(p) /\ OutcomeEffect(p)
    BY <1>4, FrameHolds, OutcomeStep, OutcomeParts
  <2>2. MemoryIsLog' /\ HeldIsLive'
    BY <1>4, MemoryStep, HeldIsLiveStep
  <2>3. RecordedIsGranted' /\ OutcomeIsNew' /\ WritesAreKnown' /\ ReadsVerify' /\ CompletedKnows'
    BY <1>1, <2>1, RecordedStep, WritesStep
  <2> QED  BY <1>1, <2>2, <2>3 DEF OutcomeInv
<1> QED  BY <1>2, <1>3, <1>4 DEF Next

\* A run that is Completed has verified every write, but those whose outcome
\* no event has: for every number of requests, proposals and crashes,
\* whatever was rehydrated from the log in between.
THEOREM WritesAreVerified ==
  ASSUME OneHandle, NoChanges
  PROVE  Spec => []VerifiedOrUnrecorded
<1>1. Init => OutcomeInv
  <2> SUFFICES ASSUME Init  PROVE OutcomeInv
    OBVIOUS
  <2>1. PICK h \in Handles : Started(h)
    BY DEF Init
  <2>2. LedgerInv
    BY LedgerInit
  <2> QED
    BY <2>1, <2>2 DEF Started, OutcomeInv, MemoryIsLog, HeldIsLive, Held, RecordedIsGranted, OutcomeIsNew, InHand,
       WritesAreKnown, ReadsVerify, CompletedKnows
<1>2. OutcomeInv /\ [Next]_vars => OutcomeInv'
  BY OutcomeNext
<1>3. OutcomeInv => VerifiedOrUnrecorded
  BY DEF OutcomeInv, CompletedKnows, Unrecorded, VerifiedOrUnrecorded
<1> QED
  BY <1>1, <1>2, <1>3, PTL DEF Spec

-----------------------------------------------------------------------------
(* What a cancel stops.                                                    *)

\* The requests that do not ask a run that is over to go on.
AnswersOnly == Offered \subseteq {"approve", "reject", "pause"}

\* The steps between taking the slot and a method's end.
Working == Held \ {"begin"}

NobodyWorks == \A p \in Procs : pc[p] \notin Working

NoneAsked == \A a \in Approvals : approval[a] = "absent"

\* A run that nobody works on, and that no answer takes up again: an answer
\* is refused in these states, and the driver comes to an empty slot.
Dead(h) ==
  /\ NobodyWorks
  /\ state \notin {"Created", "AwaitingApproval"}
  /\ phase[h] \notin {"Created", "AwaitingApproval"}
  /\ pc[Driver] # "begin"
  /\ pc[Driver] = "wait" => ~live[h]

\* Clients answer and pause, the driver drives.
OpFits ==
  \A p \in Procs :
    pc[p] \in {"wait", "begin"} =>
      IF p = Driver THEN op[p] = "drive" ELSE op[p] \in {"approve", "reject", "pause"}

\* The driver carries out nothing but its own decisions.
DriverDecides ==
  pc[Driver] \notin {"policy", "granted", "started", "ran", "verdict", "execute", "verify", "rollback", "stop"}

\* Until the driver has begun nothing is proposed and nobody works.
DriverIsFirst(h) ==
  pc[Driver] \in {"wait", "begin"} =>
    /\ NoneAsked
    /\ Dead(h) \/ (phase[h] = "Created" /\ NobodyWorks)

\* Who works on the run found it begun.
WorkIsBegun(h) == \A p \in Procs : pc[p] \in Working => phase[h] # "Created"

\* The row says what the controller says, but of a run that is dead.
RowIsPhase(h) == Dead(h) \/ state = phase[h]

\* A run is dead once it is unbound, or its slot empty, or its end recorded.
OverIsDead(h) ==
  (active = None \/ ~live[h] \/ \E p \in Procs : pc[p] = "finish") => Dead(h)

\* From the signal of a cancel on, the flag is up or there is nothing to stop.
StopIsSeen(h) ==
  (stopped \/ \E p \in Procs : pc[p] = "stop") => flag[h] \/ Dead(h)

\* What a ChangeSet request executes is a change.
ChangeIsChange == \A p \in Procs : pc[p] = "execute" => kind[arg[p]] = "change"

StopInv(h) ==
  /\ Types /\ Lock /\ OpFits /\ AnswerIsKnown /\ DriverDecides /\ DriverIsFirst(h)
  /\ WorkIsBegun(h) /\ RowIsPhase(h) /\ OverIsDead(h) /\ StopIsSeen(h)
  /\ ChangeIsChange

-----------------------------------------------------------------------------
(* Its induction step.                                                     *)

\* A method of the controller, as it is seen from a cancel.
HeldEffect(p, h) ==
  /\ pc[p] \in Held /\ pc'[p] \in Working \cup {"idle", "finish"}
  /\ active' = active /\ live' = live /\ flag' = flag /\ stopped' = stopped
  /\ \/ phase'[h] = phase[h] /\ state' = state
     \/ phase'[h] = state' /\ state' # "Created"
  /\ p = Driver => pc'[p] \in {"loop", "deciding", "reads", "draft", "park", "idle", "finish"}

\* An error that is not the end of the run stops only the driver's loop.
FinishEffect(p, h) ==
  pc'[p] = "finish" =>
    /\ pc[p] # "begin"
    /\ \/ phase'[h] \in Terminal /\ phase'[h] = state'
       \/ phase'[h] \in Terminal /\ phase'[h] = phase[h] /\ state' = state
       \/ phase'[h] = phase[h] /\ state' = state /\ phase[h] # "AwaitingApproval"

\* What a method begins with.
BeginEffect(p, h) ==
  pc[p] = "begin" =>
    \/ p = Driver /\ phase'[h] # "Created" /\ approval' = approval
    \/ p # Driver /\ pc'[p] = "idle" /\ approval' = approval
         /\ \/ phase'[h] = phase[h] /\ state' = state
            \/ phase[h] # "Created" /\ phase'[h] = "Paused" /\ state' = "Paused"
    \/ p # Driver /\ phase[h] = "AwaitingApproval" /\ phase'[h] = phase[h]

\* With one entry, whoever is past its first step refers to it.
LEMMA HandleIs ==
  ASSUME Types, NEW h \in Handles, Handles = {h}, NEW p \in Procs, pc[p] # "idle"
  PROVE  handle[p] = h
BY DEF Types, Bound

\* Every method of the controller has these effects.
LEMMA HeldStep ==
  ASSUME Types, OpFits, DriverDecides, AnswersOnly, NEW h \in Handles, Handles = {h}, NEW p \in Procs,
         Begin(p) \/ Act(p) \/ Loop(p)
  PROVE  HeldEffect(p, h) /\ FinishEffect(p, h) /\ BeginEffect(p, h)
<1>0. pc[p] # "idle" => handle[p] = h
  BY HandleIs
<1>1. p = Driver \/ p # Driver
  OBVIOUS
<1>p. phase \in [Handles -> RunStates] /\ state \in RunStates /\ pc \in [Procs -> Steps]
  BY DEF Types, TypeOK, ControllerOK, DbOK, RequestsOK
<1>o. OpFits /\ DriverDecides
  OBVIOUS
<1> USE <1>0, <1>p DEF HeldEffect, FinishEffect, BeginEffect, Goto, Forget, Keep, Move, Stay, Return, Finish,
      Fail, EndRun, db, service, controller, requests, history, Held, Steps, Working, CanTransitionTo
<1> HIDE DEF Types
<1>2. CASE Begin(p)
  <2>1. CASE Refuse(p)
    BY <2>1, <1>o DEF Refuse, Refused, OpFits
  <2>2. CASE Drive(p)
    BY <2>2, <1>o DEF Drive, Beginning, OpFits
  <2>3. CASE Unpause(p) \/ Answer(p) \/ Retry(p) \/ Continue(p)
    BY <2>3, <1>o DEF Unpause, Answer, Retry, Continue, Beginning, OpFits
  <2>4. CASE Pause(p)
    BY <2>4, <1>o DEF Pause, Beginning, OpFits, Refused, Pausable, Checkpoint
  <2>5. CASE ReadApproval(p) \/ Reject(p)
    BY <2>5, <1>o DEF ReadApproval, Reject, Beginning, OpFits, Refused
  <2> QED  BY <1>2, <2>1, <2>2, <2>3, <2>4, <2>5 DEF Begin
<1>3. CASE Act(p)
  <2>1. CASE (\E m \in BOOLEAN : Judge(p, m)) \/ Resume(p) \/ StartCall(p) \/ Record(p)
    BY <2>1, <1>o DEF Judge, Resume, StartCall, Record, DriverDecides, Successors
  <2>2. ASSUME NEW sent \in BOOLEAN, NEW ok \in BOOLEAN, Execute(p, sent, ok)
        PROVE  HeldEffect(p, h) /\ FinishEffect(p, h) /\ BeginEffect(p, h)
    BY <2>2, <1>o DEF Execute, DriverDecides
  <2>3. CASE ApproveChange(p) \/ ApproveChangeError(p) \/ ExecuteChangeError(p)
    BY <2>3, <1>o DEF ApproveChange, ApproveChangeError, ExecuteChangeError, DriverDecides
  <2>4. ASSUME NEW ok \in BOOLEAN, ExecuteChange(p, ok) \/ VerifyChange(p, ok)
        PROVE  HeldEffect(p, h) /\ FinishEffect(p, h) /\ BeginEffect(p, h)
    BY <2>4, <1>o DEF ExecuteChange, VerifyChange, DriverDecides
  <2>5. CASE RollBack(p)
    BY <2>5, <1>o DEF RollBack, DriverDecides
  <2> QED
    BY <1>3, <2>1, <2>2, <2>3, <2>4, <2>5 DEF Act
<1>4. CASE Loop(p)
  <2>0. ASSUME NEW t \in {"Cancelled", "Failed", "Completed"}, pc[p] \in {"loop", "deciding"}, EndRun(p, t),
               UNCHANGED <<active, flag, live, stopped>>
        PROVE  HeldEffect(p, h) /\ FinishEffect(p, h) /\ BeginEffect(p, h)
    BY <2>0 DEF Terminal
  <2>1. CASE StopLoop(p) \/ FailLoop(p) \/ Complete(p) \/ (\E n \in 1 .. MaxBatch : OverBudget(p, n))
    <3> HIDE DEF EndRun, HeldEffect, FinishEffect, BeginEffect
    <3> QED  BY <2>1, <2>0 DEF StopLoop, FailLoop, Complete, OverBudget, Decided
  <2>3. CASE Notify(p) \/ Again(p) \/ Reason(p)
    BY <2>3 DEF Notify, Again, Reason, Decided
  <2>8. CASE AskUser(p) \/ Park(p)
    BY <2>8 DEF AskUser, Park, Decided
  <2>9. CASE ReadAnswers(p) \/ DraftChange(p) \/ DraftRefused(p)
    BY <2>9 DEF ReadAnswers, DraftChange, DraftRefused, Decided
  <2>2. CASE Strand(p)
    BY <2>2 DEF Strand, Successors, Terminal
  <2>4. ASSUME NEW n \in 1 .. MaxBatch, ReadBatch(p, n) \/ BlockBatch(p, n)
        PROVE  HeldEffect(p, h) /\ FinishEffect(p, h) /\ BeginEffect(p, h)
    BY <2>4 DEF ReadBatch, BlockBatch, Decided
  <2>5. ASSUME NEW n \in 1 .. MaxBatch, NEW a \in Approvals, AskTool(p, a, n)
        PROVE  HeldEffect(p, h) /\ FinishEffect(p, h) /\ BeginEffect(p, h)
    BY <2>5 DEF AskTool, Ask, Decided
  <2>6. ASSUME NEW a \in Approvals, AskChange(p, a)
        PROVE  HeldEffect(p, h) /\ FinishEffect(p, h) /\ BeginEffect(p, h)
    BY <2>6 DEF AskChange, Ask
  <2>7. ASSUME NEW a \in Approvals, NEW d \in Decisions, AskCommand(p, a, d)
        PROVE  HeldEffect(p, h) /\ FinishEffect(p, h) /\ BeginEffect(p, h)
    BY <2>7 DEF AskCommand, Ask, Decided
  <2> QED
    BY <1>4, <2>1, <2>2, <2>3, <2>4, <2>5, <2>6, <2>7, <2>8, <2>9 DEF Loop
<1> QED  BY <1>2, <1>3, <1>4

\* What a step of p does to what was asked for.
AskedEffect(p) ==
  /\ \A a \in Approvals : approval'[a] = "absent" => approval[a] = "absent"
  /\ pc[p] \notin Held => approval' = approval /\ kind' = kind
  /\ pc'[p] = "execute" => kind'[arg'[p]] = "change"
  /\ Answering(p)' => /\ arg'[p] \in Approvals
                      /\ approval' = approval
                      /\ approval[arg'[p]] # "absent"

\* Every step of a request has this effect.
LEMMA AskedStep ==
  ASSUME Types, OpFits, AnswerIsKnown, AnswersOnly, NEW p \in Procs, Arrive(p) \/ Acquire(p) \/ Step(p)
  PROVE  AskedEffect(p)
<1>p. approval \in [Approvals -> {"absent", "pending"} \cup Verdicts] /\ pc \in [Procs -> Steps]
      /\ arg \in [Procs -> Approvals \cup {None}] /\ op \in [Procs -> Ops] /\ kind \in [Approvals -> Kinds]
  BY DEF Types, TypeOK, DbOK, RequestsOK
<1>n. pc[p] \in Holding \cup {"draft"} \/ Answering(p) => pc[p] = "draft" \/ arg[p] \in Approvals
  BY DEF Types, Naming, Answering
<1>o. OpFits
  OBVIOUS
<1>k. Answering(p) => approval[arg[p]] # "absent"
  BY DEF AnswerIsKnown
<1> USE <1>p, <1>n DEF AskedEffect, Goto, Forget, Keep, Return, Finish, Fail, EndRun, Decide, Verdicts,
      db, service, controller, requests, history, Held, Steps, Holding, Answering
<1> HIDE DEF Types
<1>1. CASE Arrive(p)
  BY <1>1, AgentAssumption DEF Arrive, Request, Named, Pending, Register, Cancel, CancelUnbound
<1>2. CASE Acquire(p)
  BY <1>2, <1>k DEF Acquire
<1>3. CASE Remove(p) \/ CancelFree(p) \/ CancelBusy(p)
  BY <1>3 DEF Remove, CancelFree, CancelBusy
<1>4. CASE Begin(p)
  <2>1. CASE Refuse(p) \/ Drive(p) \/ Pause(p) \/ ReadApproval(p)
    BY <1>4, <2>1 DEF Refuse, Drive, Pause, ReadApproval, Beginning
  <2>2. CASE Unpause(p) \/ Answer(p) \/ Retry(p) \/ Continue(p)
    BY <2>2, <1>o DEF Unpause, Answer, Retry, Continue, Beginning, OpFits
  <2>3. CASE Reject(p)
    BY <2>3 DEF Reject, Beginning
  <2> QED  BY <1>4, <2>1, <2>2, <2>3 DEF Begin
<1>5. CASE Act(p)
  <2>1. CASE (\E m \in BOOLEAN : Judge(p, m)) \/ Resume(p) \/ StartCall(p) \/ Record(p)
    BY <2>1 DEF Judge, Resume, StartCall, Record
  <2>2. ASSUME NEW sent \in BOOLEAN, NEW ok \in BOOLEAN, Execute(p, sent, ok)
        PROVE  AskedEffect(p)
    BY <2>2 DEF Execute
  <2>3. CASE ApproveChange(p) \/ ApproveChangeError(p) \/ ExecuteChangeError(p)
    BY <2>3 DEF ApproveChange, ApproveChangeError, ExecuteChangeError
  <2>4. ASSUME NEW ok \in BOOLEAN, ExecuteChange(p, ok) \/ VerifyChange(p, ok)
        PROVE  AskedEffect(p)
    BY <2>4 DEF ExecuteChange, VerifyChange
  <2>5. CASE RollBack(p)
    BY <2>5 DEF RollBack
  <2> QED
    BY <1>5, <2>1, <2>2, <2>3, <2>4, <2>5 DEF Act
<1>6. CASE Loop(p)
  <2>1. CASE StopLoop(p) \/ FailLoop(p) \/ Reason(p) \/ Strand(p) \/ Again(p)
    BY <2>1 DEF StopLoop, FailLoop, Reason, Strand, Again, Decided
  <2>2. CASE Complete(p) \/ Notify(p) \/ AskUser(p) \/ ReadAnswers(p) \/ Park(p)
             \/ DraftChange(p) \/ DraftRefused(p)
    BY <2>2 DEF Complete, Notify, AskUser, ReadAnswers, Park, DraftChange, DraftRefused, Decided
  <2>3. ASSUME NEW n \in 1 .. MaxBatch, OverBudget(p, n) \/ ReadBatch(p, n) \/ BlockBatch(p, n)
        PROVE  AskedEffect(p)
    BY <2>3 DEF OverBudget, ReadBatch, BlockBatch, Decided
  <2>4. ASSUME NEW a \in Approvals, NEW k, Ask(p, a, k), pc[p] \in {"deciding", "draft"}
        PROVE  AskedEffect(p)
    BY <2>4 DEF Ask
  <2>5. ASSUME NEW n \in 1 .. MaxBatch, NEW a \in Approvals, AskTool(p, a, n)
        PROVE  AskedEffect(p)
    BY <2>5, <2>4 DEF AskTool, Decided
  <2>6. ASSUME NEW a \in Approvals, NEW d \in Decisions, AskChange(p, a) \/ AskCommand(p, a, d)
        PROVE  AskedEffect(p)
    BY <2>6, <2>4 DEF AskChange, AskCommand, Decided
  <2>7. ASSUME NEW a \in Approvals, AskChange(p, a)
        PROVE  AskedEffect(p)
    BY <2>7, <2>4 DEF AskChange
  <2> QED
    BY <1>6, <2>1, <2>2, <2>3, <2>5, <2>6, <2>7 DEF Loop
<1> QED  BY <1>1, <1>2, <1>3, <1>4, <1>5, <1>6 DEF Step

\* The parts of the invariant that are about one request each.
LEMMA StopParts ==
  ASSUME Types, Types', Lock, OneHandle, OpFits, AnswerIsKnown, DriverDecides, ChangeIsChange, AnswersOnly,
         NEW h \in Handles, Handles = {h}, NEW p \in Procs, Arrive(p) \/ Acquire(p) \/ Step(p)
  PROVE  OpFits' /\ AnswerIsKnown' /\ DriverDecides' /\ ChangeIsChange'
<1>f. Frame(p)
  BY FrameHolds
<1>a. AskedEffect(p)
  BY AskedStep
<1>h. Begin(p) \/ Act(p) \/ Loop(p) => HeldEffect(p, h)
  BY HeldStep
<1>p. pc \in [Procs -> Steps] /\ pc' \in [Procs -> Steps] /\ op \in [Procs -> Ops] /\ Driver \in Procs
  BY DEF Types, TypeOK, RequestsOK, Procs
<1>1. OpFits'
  <2>1. \A q \in Procs \ {p} : pc'[q] = pc[q] /\ op'[q] = op[q]
    BY <1>f DEF Frame
  <2>2. pc'[p] \in {"wait", "begin"} =>
          IF p = Driver THEN op'[p] = "drive" ELSE op'[p] \in {"approve", "reject", "pause"}
    <3>1. CASE Arrive(p)
      BY <1>p, <3>1, AgentAssumption
      DEF OpFits, Arrive, Request, Register, Cancel, CancelUnbound, AnswersOnly, Goto, requests, Procs
    <3>2. CASE Acquire(p)
      BY <1>p, <3>2 DEF OpFits, Acquire, Goto
    <3>3. CASE Remove(p) \/ CancelFree(p) \/ CancelBusy(p)
      BY <1>p, <3>3 DEF Remove, CancelFree, CancelBusy, Goto
    <3>4. CASE Begin(p) \/ Act(p) \/ Loop(p)
      BY <1>h, <3>4 DEF HeldEffect, Working, Held
    <3> QED  BY <3>1, <3>2, <3>3, <3>4 DEF Step
  <2> QED  BY <2>1, <2>2 DEF OpFits
<1>2. AnswerIsKnown'
  <2> SUFFICES ASSUME NEW q \in Procs, Answering(q)'  PROVE approval'[arg'[q]] # "absent"
    BY DEF AnswerIsKnown
  <2>1. CASE q = p
    BY <1>a, <2>1 DEF AskedEffect
  <2>2. CASE q # p
    <3>1. Answering(q) /\ arg'[q] = arg[q]
      BY <1>f, <2>2 DEF Frame, Answering
    <3>2. arg[q] \in Approvals /\ approval[arg[q]] # "absent"
      BY <3>1 DEF AnswerIsKnown, Types, Naming, Answering
    <3> QED  BY <1>a, <3>1, <3>2 DEF AskedEffect
  <2> QED  BY <2>1, <2>2
<1>3. DriverDecides'
  <2>1. CASE p # Driver
    BY <1>f, <1>p, <2>1 DEF Frame, DriverDecides
  <2>2. CASE p = Driver
    <3>1. CASE Arrive(p)
      BY <1>p, <2>2, <3>1, AgentAssumption
      DEF DriverDecides, Arrive, Request, Register, Cancel, CancelUnbound, requests
    <3>2. CASE Acquire(p)
      BY <1>p, <2>2, <3>2 DEF Acquire, Goto, DriverDecides
    <3>3. CASE Remove(p) \/ CancelFree(p) \/ CancelBusy(p)
      BY <1>p, <2>2, <3>3 DEF Remove, CancelFree, CancelBusy, Goto, DriverDecides
    <3>4. CASE Begin(p) \/ Act(p) \/ Loop(p)
      BY <1>h, <2>2, <3>4 DEF HeldEffect, DriverDecides
    <3> QED  BY <3>1, <3>2, <3>3, <3>4 DEF Step
  <2> QED  BY <2>1, <2>2
<1>4. ChangeIsChange'
  <2> SUFFICES ASSUME NEW q \in Procs, pc'[q] = "execute"  PROVE kind'[arg'[q]] = "change"
    BY DEF ChangeIsChange
  <2>1. CASE q = p
    BY <1>a, <2>1 DEF AskedEffect
  <2>2. CASE q # p
    <3>1. pc[q] = "execute" /\ arg'[q] = arg[q]
      BY <1>f, <2>2 DEF Frame
    <3>2. pc[p] \notin Held
      BY <2>2, <3>1, Alone DEF Held, Steps
    <3> QED  BY <1>a, <3>1, <3>2 DEF AskedEffect, ChangeIsChange
  <2> QED  BY <2>1, <2>2
<1> QED  BY <1>1, <1>2, <1>3, <1>4

\* Whatever is asked of a run that is dead, it stays so.
LEMMA DeadStays ==
  ASSUME NEW h \in Handles, Handles = {h}, StopInv(h), Dead(h), AnswersOnly, OneHandle, Types',
         NEW p \in Procs, Arrive(p) \/ Acquire(p) \/ Step(p)
  PROVE  Dead(h)'
<1>f. Frame(p)
  BY FrameHolds DEF StopInv
<1>p. /\ pc \in [Procs -> Steps] /\ pc' \in [Procs -> Steps] /\ op \in [Procs -> Ops] /\ Driver \in Procs
      /\ phase \in [Handles -> RunStates] /\ live \in [Handles -> BOOLEAN] /\ holder \in [Handles -> Procs \cup {None}]
      /\ handle \in [Procs -> Handles \cup {None}]
  BY DEF StopInv, Types, TypeOK, RequestsOK, ControllerOK, ServiceOK, Procs
<1>h. pc[p] # "idle" => handle[p] = h
  BY HandleIs DEF StopInv
<1>w. pc[p] \notin Working
  BY DEF Dead, NobodyWorks
<1>o. \A q \in Procs \ {p} : pc'[q] = pc[q]
  BY <1>f DEF Frame
<1>s. state \notin {"Created", "AwaitingApproval"} /\ phase[h] \notin {"Created", "AwaitingApproval"}
      /\ pc[Driver] # "begin" /\ (pc[Driver] = "wait" => ~live[h]) /\ NobodyWorks
  BY DEF Dead
<1>r. OpFits /\ DriverDecides
  BY DEF StopInv
<1>d. Dead(h)' <=> /\ \A q \in Procs : pc'[q] \notin Working
                   /\ state' \notin {"Created", "AwaitingApproval"}
                   /\ phase'[h] \notin {"Created", "AwaitingApproval"}
                   /\ pc'[Driver] # "begin"
                   /\ pc'[Driver] = "wait" => ~live'[h]
  BY DEF Dead, NobodyWorks
<1>1. CASE Arrive(p)
  <2>1. state' \notin {"Created", "AwaitingApproval"} /\ phase' = phase /\ (live' = live \/ live'[h] = FALSE)
    BY <1>1, <1>p, <1>s DEF Arrive, Request, Register, Cancel, CancelUnbound, db, service, controller
  <2>2. pc'[p] \in {"idle", "wait", "stop"} /\ (p = Driver => FALSE)
    BY <1>1, <1>p, AgentAssumption
    DEF Arrive, Request, Register, Cancel, CancelUnbound, Goto, requests
  <2> QED  BY <1>d, <1>p, <1>o, <1>s, <2>1, <2>2 DEF NobodyWorks, Working, Held
<1>2. CASE Acquire(p)
  <2>1. p = Driver => pc'[p] = "idle" /\ live' = live
    BY <1>2, <1>p, <1>h, <1>r, <1>s DEF Acquire, OpFits, Goto
  <2>2. pc'[p] \in {"idle", "begin"} /\ state' = state /\ (phase' = phase \/ phase'[h] = state)
    BY <1>2, <1>p, <1>h DEF Acquire, Goto, Rehydrate, db, controller
  <2>3. p # Driver /\ pc[Driver] = "wait" => live' = live
    <3> SUFFICES ASSUME p # Driver, pc[Driver] = "wait"  PROVE live' = live
      OBVIOUS
    <3>1. NoneAsked
      BY DEF StopInv, DriverIsFirst
    <3>2. op[p] = "pause"
      BY <1>2, <1>r, <3>1 DEF Acquire, OpFits, StopInv, AnswerIsKnown, Answering, NoneAsked, Types, Naming
    <3> QED  BY <1>2, <3>2 DEF Acquire
  <2> QED  BY <1>d, <1>p, <1>o, <1>s, <2>1, <2>2, <2>3 DEF NobodyWorks, Working, Held
<1>3. CASE Remove(p) \/ CancelFree(p) \/ CancelBusy(p)
  <2>1. pc'[p] = "idle" /\ (live' = live \/ live'[h] = FALSE)
    BY <1>3, <1>p, <1>h DEF Remove, CancelFree, CancelBusy, Goto, service
  <2>2. \/ state' = state /\ phase' = phase
        \/ state' = "Cancelled" /\ phase'[h] = "Cancelled"
    BY <1>3, <1>p, <1>h DEF Remove, CancelFree, CancelBusy, Move, Stay, controller, db
  <2> QED  BY <1>d, <1>p, <1>o, <1>s, <2>1, <2>2 DEF NobodyWorks, Working, Held
<1>4. CASE Begin(p) \/ Act(p) \/ Loop(p)
  <2>1. HeldEffect(p, h) /\ BeginEffect(p, h)
    BY <1>4, HeldStep DEF StopInv
  <2>2. pc[p] = "begin" /\ p # Driver
    BY <1>w, <1>s, <2>1 DEF HeldEffect, Working
  <2>3. /\ pc'[p] = "idle" /\ live' = live
        /\ \/ phase'[h] = phase[h] /\ state' = state
           \/ phase'[h] = "Paused" /\ state' = "Paused"
    BY <1>s, <2>1, <2>2 DEF BeginEffect, HeldEffect
  <2> QED  BY <1>d, <1>p, <1>o, <1>s, <2>2, <2>3 DEF NobodyWorks, Working, Held
<1> QED  BY <1>1, <1>2, <1>3, <1>4 DEF Step

\* The parts of the invariant that tell whether a cancel was seen.
StopKnown(h) == DriverIsFirst(h) /\ WorkIsBegun(h) /\ RowIsPhase(h) /\ OverIsDead(h) /\ StopIsSeen(h)

\* They hold on while the run is dead ...
LEMMA StopOfDead ==
  ASSUME NEW h \in Handles, Handles = {h}, StopInv(h), Dead(h), AnswersOnly, OneHandle, Types',
         NEW p \in Procs, Arrive(p) \/ Acquire(p) \/ Step(p)
  PROVE  StopKnown(h)'
<1>1. Dead(h)'
  BY DeadStays
<1>2. AskedEffect(p)
  BY AskedStep DEF StopInv
<1>3. pc'[Driver] \in {"wait", "begin"} => NoneAsked'
  <2> SUFFICES ASSUME pc'[Driver] \in {"wait", "begin"}  PROVE NoneAsked'
    OBVIOUS
  <2>1. pc[p] \notin Working /\ pc[Driver] # "begin" /\ phase[h] # "AwaitingApproval"
    BY DEF Dead, NobodyWorks
  <2>2. approval' = approval
    <3>1. CASE pc[p] = "begin"
      <4>1. HeldEffect(p, h) /\ BeginEffect(p, h)
        BY <3>1, HeldStep DEF Step, StopInv, Arrive, Request, Register, Cancel, CancelUnbound, Acquire, Remove,
           CancelFree, CancelBusy
      <4> QED  BY <2>1, <3>1, <4>1 DEF BeginEffect
    <3>2. CASE pc[p] # "begin"
      BY <1>2, <2>1, <3>2 DEF AskedEffect, Working
    <3> QED  BY <3>1, <3>2
  <2>3. pc[Driver] = "wait"
    <3>1. CASE p = Driver
      <4>1. CASE Arrive(p)
        BY <3>1, <4>1, AgentAssumption DEF Arrive, Request, Register, Cancel, CancelUnbound, requests, Dead
      <4>2. CASE Acquire(p)
        BY <4>2, <3>1 DEF Acquire
      <4>3. CASE Remove(p) \/ CancelFree(p) \/ CancelBusy(p)
        BY <3>1, <4>3 DEF Remove, CancelFree, CancelBusy, Goto, StopInv, Types, TypeOK, RequestsOK
      <4>4. CASE Begin(p) \/ Act(p) \/ Loop(p)
        BY <3>1, <4>4, HeldStep DEF HeldEffect, StopInv
      <4> QED  BY <4>1, <4>2, <4>3, <4>4 DEF Step
    <3>2. CASE p # Driver
      BY <2>1, <3>2, FrameHolds DEF Frame, StopInv, Procs
    <3> QED  BY <3>1, <3>2
  <2> QED  BY <2>2, <2>3 DEF StopInv, DriverIsFirst, NoneAsked
<1>4. (\A q \in Procs : pc[q] \notin Working)'
  BY <1>1 DEF Dead, NobodyWorks
<1> QED
  BY <1>1, <1>3, <1>4 DEF StopKnown, DriverIsFirst, WorkIsBegun, RowIsPhase, OverIsDead, StopIsSeen

\* ... and while it is alive, whatever a request does to it.
LEMMA StopOfLive ==
  ASSUME NEW h \in Handles, Handles = {h}, StopInv(h), ~Dead(h), AnswersOnly, OneHandle, Types',
         NEW p \in Procs, Arrive(p) \/ Acquire(p) \/ Step(p)
  PROVE  StopKnown(h)'
<1>f. \A q \in Procs \ {p} : pc'[q] = pc[q]
  BY FrameHolds DEF Frame, StopInv
<1>p. /\ pc \in [Procs -> Steps] /\ pc' \in [Procs -> Steps] /\ op \in [Procs -> Ops] /\ Driver \in Procs
      /\ phase \in [Handles -> RunStates] /\ live \in [Handles -> BOOLEAN] /\ holder \in [Handles -> Procs \cup {None}]
      /\ handle \in [Procs -> Handles \cup {None}] /\ flag \in [Handles -> BOOLEAN] /\ active \in Handles \cup {None}
  BY DEF StopInv, Types, TypeOK, RequestsOK, ControllerOK, ServiceOK, Procs
<1>h. \A q \in Procs : pc[q] # "idle" => handle[q] = h
  BY HandleIs DEF StopInv
<1>l. active = h /\ active # None /\ live[h] /\ (\A q \in Procs : pc[q] # "finish") /\ state = phase[h]
  BY <1>p, AgentAssumption DEF StopInv, OverIsDead, RowIsPhase
<1>s. stopped \/ (\E q \in Procs : pc[q] = "stop") => flag[h]
  BY DEF StopInv, StopIsSeen
<1>d. pc[Driver] \in {"wait", "begin"} => NoneAsked /\ phase[h] = "Created" /\ NobodyWorks
  BY DEF StopInv, DriverIsFirst
<1>b. \A q \in Procs : pc[q] \in Working => phase[h] # "Created"
  BY DEF StopInv, WorkIsBegun
<1>t. OpFits /\ DriverDecides
  BY DEF StopInv
<1>1. ASSUME approval' = approval, phase' = phase, state' = state, live' = live, active' = active,
             pc'[p] \notin Working \cup {"finish"}, pc'[Driver] \in {"wait", "begin"} => pc[Driver] = "wait" \/ p # Driver,
             stopped' \/ (\E q \in Procs : pc'[q] = "stop") => flag'[h]
      PROVE  StopKnown(h)'
  <2>1. NobodyWorks => NobodyWorks'
    BY <1>f, <1>1 DEF NobodyWorks
  <2>2. DriverIsFirst(h)'
    BY <1>f, <1>p, <1>d, <1>1, <2>1 DEF DriverIsFirst, NoneAsked
  <2>3. WorkIsBegun(h)' /\ RowIsPhase(h)' /\ OverIsDead(h)' /\ StopIsSeen(h)'
    BY <1>f, <1>l, <1>b, <1>1 DEF WorkIsBegun, RowIsPhase, OverIsDead, StopIsSeen
  <2> QED  BY <2>2, <2>3 DEF StopKnown
<1>2. CASE Arrive(p)
  <2>1. ASSUME NEW o \in Offered, NEW a \in Approvals \cup {None}, Request(p, o, a)
        PROVE  StopKnown(h)'
    BY <1>1, <1>f, <1>p, <1>s, <2>1, AgentAssumption
    DEF Request, Goto, db, service, controller, Working, Held
  <2>2. CASE Cancel(p)
    <3>1. flag'[h] = TRUE
      BY <1>p, <1>l, <2>2 DEF Cancel, Signal
    <3> QED
      BY <1>1, <1>f, <1>p, <2>2, <3>1, AgentAssumption
      DEF Cancel, Goto, db, controller, history, Working, Held
  <2>3. ~Register(p) /\ ~CancelUnbound(p)
    BY <1>l DEF Register, CancelUnbound
  <2> QED  BY <1>2, <2>1, <2>2, <2>3 DEF Arrive
<1>3. CASE Acquire(p)
  <2>1. live' = live /\ phase' = phase /\ pc'[p] \in {"idle", "begin"}
    BY <1>p, <1>h, <1>l, <1>3 DEF Acquire, Goto, controller
  <2>2. approval' = approval /\ state' = state /\ active' = active /\ flag' = flag /\ stopped' = stopped
    BY <1>3 DEF Acquire, db, history
  <2>3. pc[p] = "wait"
    BY <1>3 DEF Acquire
  <2> QED
    BY <1>1, <1>f, <1>s, <2>1, <2>2, <2>3 DEF Working, Held
<1>4. CASE Remove(p)
  BY <1>4, <1>l DEF Remove
<1>5. CASE CancelFree(p)
  <2>1. \A q \in Procs : pc[q] \notin Held
    BY <1>5, <1>p, <1>h, AgentAssumption DEF CancelFree, StopInv, Lock, Held, Procs
  <2>2. pc'[p] = "idle" /\ live'[h] = FALSE /\ approval' = approval /\ pc[p] = "stop"
    BY <1>5, <1>p, <1>h DEF CancelFree, Goto
  <2>3. /\ state' \notin {"Created", "AwaitingApproval"}
        /\ phase'[h] \notin {"Created", "AwaitingApproval"}
    BY <1>5, <1>p, <1>h, <1>l DEF CancelFree, Move, Stay, Terminal
  <2>4. \A q \in Procs : pc'[q] \notin Held
    BY <1>f, <2>1, <2>2 DEF Held
  <2>5. Dead(h)' /\ NobodyWorks'
    BY <1>p, <2>2, <2>3, <2>4 DEF Dead, NobodyWorks, Working, Held, Steps
  <2>6. DriverIsFirst(h)'
    BY <1>f, <1>p, <1>d, <2>2, <2>5 DEF DriverIsFirst, NoneAsked
  <2> QED
    BY <2>5, <2>6 DEF StopKnown, NobodyWorks, WorkIsBegun, RowIsPhase, OverIsDead, StopIsSeen
<1>6. CASE CancelBusy(p)
  <2>1. flag[h]
    BY <1>6, <1>s DEF CancelBusy
  <2> QED
    BY <1>1, <1>f, <1>p, <1>6, <2>1 DEF CancelBusy, Goto, db, service, controller, Working, Held
<1>7. CASE Begin(p) \/ Act(p) \/ Loop(p)
  <2>1. HeldEffect(p, h) /\ FinishEffect(p, h) /\ BeginEffect(p, h)
    BY <1>7, HeldStep DEF StopInv
  <2>2. \A q \in Procs \ {p} : pc[q] \notin Held /\ pc'[q] \notin Held
    BY <1>f, <2>1, Alone DEF HeldEffect, StopInv
  <2>3. DriverIsFirst(h)'
    <3> SUFFICES ASSUME pc'[Driver] \in {"wait", "begin"}
                 PROVE  NoneAsked' /\ phase'[h] = "Created" /\ NobodyWorks'
      BY DEF DriverIsFirst
    <3>1. p # Driver /\ pc[Driver] \in {"wait", "begin"}
      BY <1>f, <1>p, <2>1 DEF HeldEffect
    <3>2. NoneAsked /\ phase[h] = "Created" /\ pc[p] = "begin"
      BY <1>d, <2>1, <3>1 DEF HeldEffect, NobodyWorks, Working
    <3>3. pc'[p] = "idle" /\ approval' = approval /\ phase'[h] = phase[h]
      BY <2>1, <3>1, <3>2 DEF BeginEffect
    <3> QED
      BY <2>2, <3>2, <3>3 DEF NoneAsked, NobodyWorks, Working, Held
  <2>4. WorkIsBegun(h)'
    <3> SUFFICES ASSUME NEW q \in Procs, pc'[q] \in Working  PROVE phase'[h] # "Created"
      BY DEF WorkIsBegun
    <3>1. q = p
      BY <2>2 DEF Working
    <3>2. CASE pc[p] = "begin"
      BY <2>1, <3>1, <3>2 DEF BeginEffect, Working, Held
    <3>3. CASE pc[p] # "begin"
      BY <1>b, <2>1, <3>3 DEF HeldEffect, Working
    <3> QED  BY <3>2, <3>3
  <2>5. RowIsPhase(h)'
    BY <1>l, <2>1 DEF HeldEffect, RowIsPhase
  <2>6. OverIsDead(h)'
    <3> SUFFICES ASSUME pc'[p] = "finish"  PROVE Dead(h)'
      BY <1>f, <1>l, <2>1 DEF OverIsDead, HeldEffect
    <3>1. pc[p] \in Working
      BY <2>1 DEF FinishEffect, HeldEffect, Working
    <3>2. pc[Driver] \notin {"wait", "begin"} /\ phase[h] # "Created"
      BY <1>d, <1>b, <3>1 DEF NobodyWorks
    <3>3. pc'[Driver] \notin {"wait", "begin"}
      BY <1>f, <1>p, <3>2
    <3>4. /\ state' \notin {"Created", "AwaitingApproval"}
          /\ phase'[h] \notin {"Created", "AwaitingApproval"}
      BY <1>l, <2>1, <3>2 DEF FinishEffect, Terminal
    <3> QED
      BY <2>2, <3>3, <3>4 DEF Dead, NobodyWorks, Working, Held
  <2>7. StopIsSeen(h)'
    BY <1>f, <1>s, <2>1 DEF StopIsSeen, HeldEffect, Working, Held, Steps
  <2> QED  BY <2>3, <2>4, <2>5, <2>6, <2>7 DEF StopKnown
<1> QED  BY <1>2, <1>3, <1>4, <1>5, <1>6, <1>7 DEF Step

\* While the program is up, the invariant is preserved.
LEMMA StopNext ==
  ASSUME NEW h \in Handles, Handles = {h}, StopInv(h), AnswersOnly, OneHandle, ~MayCrash, [Next]_vars
  PROVE  StopInv(h)'
<1>1. Types'
  BY TypesNext DEF StopInv
<1>2. CASE UNCHANGED vars
  BY <1>1, <1>2 DEF vars, db, service, controller, requests, history, StopInv, Lock, OpFits, AnswerIsKnown,
     Answering, DriverDecides, DriverIsFirst, WorkIsBegun, RowIsPhase, OverIsDead, StopIsSeen, ChangeIsChange,
     Dead, NobodyWorks, NoneAsked
<1>3. ASSUME NEW p \in Procs, Arrive(p) \/ Acquire(p) \/ Step(p)
      PROVE  StopInv(h)'
  <2>1. Lock'
    BY <1>3, LockStep DEF StopInv
  <2>2. OpFits' /\ AnswerIsKnown' /\ DriverDecides' /\ ChangeIsChange'
    BY <1>1, <1>3, StopParts DEF StopInv
  <2>3. StopKnown(h)'
    BY <1>1, <1>3, StopOfDead, StopOfLive
  <2> QED  BY <1>1, <2>1, <2>2, <2>3 DEF StopInv, StopKnown
<1>4. ~Crash
  BY DEF Crash
<1> QED  BY <1>2, <1>3, <1>4 DEF Next

\* What a step adds to what reached the target.
LEMMA RanStep ==
  ASSUME Types, NEW p \in Procs, Arrive(p) \/ Acquire(p) \/ Step(p), NEW a \in Approvals, ran'[a] # ran[a]
  PROVE  \/ pc[p] = "started" /\ ~flag[handle[p]]
         \/ pc[p] = "execute" /\ a = arg[p]
<1> USE DEF Types, TypeOK, HistoryOK
<1>1. CASE Arrive(p)
  BY <1>1 DEF Arrive, Request, Register, Cancel, CancelUnbound, history
<1>2. CASE Acquire(p) \/ Remove(p) \/ CancelFree(p) \/ CancelBusy(p)
  BY <1>2 DEF Acquire, Remove, CancelFree, CancelBusy, history
<1>3. CASE Begin(p)
  BY <1>3 DEF Begin, Refuse, Drive, Unpause, Pause, Answer, Retry, Continue, ReadApproval, Reject, Reopen, history
<1>4. CASE Act(p)
  BY <1>4 DEF Act, Judge, Resume, StartCall, Execute, Record, ApproveChange, ApproveChangeError, ExecuteChange,
     ExecuteChangeError, VerifyChange, RollBack, history
<1>5. CASE Loop(p)
  BY <1>5 DEF Loop, StopLoop, FailLoop, Reason, Strand, Again, Complete, Notify, AskUser, OverBudget, ReadBatch,
     ReadAnswers, BlockBatch, Ask, AskTool, AskCommand, DraftChange, DraftRefused, AskChange, Park, history
<1> QED  BY <1>1, <1>2, <1>3, <1>4, <1>5 DEF Step

\* After a cancel has returned, no command and no call goes out, until the
\* user asks for something: for every number of clients and proposals, while
\* they answer, pause and cancel.  A client that retries or resumes, or a
\* crash, may have the run bound to a flag that was not raised.
THEOREM CancelStops ==
  ASSUME OneHandle, ~MayCrash, AnswersOnly
  PROVE  Spec => CancelStopsCommands
<1>1. PICK h \in Handles : Handles = {h}
  BY AgentAssumption DEF OneHandle
<1>2. Init => StopInv(h)
  <2> SUFFICES ASSUME Init  PROVE StopInv(h)
    OBVIOUS
  <2>1. Started(h)
    BY <1>1 DEF Init
  <2>2. Types
    BY TypesInit
  <2>3. Driver \in Procs
    BY DEF Procs
  <2>4. \A p \in Procs : pc[p] = (IF p = Driver THEN "wait" ELSE "idle") /\ (p = Driver => op[p] = "drive")
    BY <2>1, <2>3 DEF Started
  <2>5. NobodyWorks /\ NoneAsked /\ phase[h] = "Created" /\ state = "Created" /\ live[h] /\ active = h /\ ~stopped
    BY <2>1, <2>4 DEF Started, NobodyWorks, NoneAsked, Working, Held
  <2>6. Lock /\ OpFits /\ AnswerIsKnown /\ DriverDecides /\ ChangeIsChange
    BY <2>3, <2>4 DEF Lock, Held, OpFits, AnswerIsKnown, Answering, DriverDecides, ChangeIsChange
  <2>7. DriverIsFirst(h) /\ WorkIsBegun(h) /\ RowIsPhase(h) /\ OverIsDead(h) /\ StopIsSeen(h)
    BY <2>4, <2>5, AgentAssumption DEF DriverIsFirst, WorkIsBegun, NobodyWorks, RowIsPhase, OverIsDead, StopIsSeen
  <2> QED  BY <2>2, <2>6, <2>7 DEF StopInv
<1>3. StopInv(h) /\ [Next]_vars => StopInv(h)'
  BY <1>1, StopNext
<1>4. StopInv(h) /\ [Next]_vars
        => [\A a \in Approvals : (stopped /\ kind[a] # "change") => ran'[a] = ran[a]]_vars
  <2> SUFFICES ASSUME StopInv(h), Next, NEW a \in Approvals, stopped, kind[a] # "change", ran'[a] # ran[a]
               PROVE  FALSE
    OBVIOUS
  <2>1. PICK p \in Procs : Arrive(p) \/ Acquire(p) \/ Step(p)
    BY DEF Next, Crash
  <2>2. \/ pc[p] = "started" /\ ~flag[handle[p]]
        \/ pc[p] = "execute" /\ a = arg[p]
    BY <2>1, RanStep DEF StopInv
  <2>3. pc[p] = "started" => handle[p] = h
    BY <1>1, HandleIs DEF StopInv
  <2>4. pc[p] # "execute" \/ a # arg[p]
    BY DEF StopInv, ChangeIsChange
  <2>5. pc[p] = "started" => flag[h]
    BY DEF StopInv, StopIsSeen, Dead, NobodyWorks, Working, Held, Steps
  <2> QED  BY <2>2, <2>3, <2>4, <2>5
<1> QED  BY <1>2, <1>3, <1>4, PTL DEF Spec, CancelStopsCommands
=============================================================================
