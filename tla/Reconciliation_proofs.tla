------------------------- MODULE Reconciliation_proofs -------------------------
(***************************************************************************)
(* The safety of approval, claims, submissions and status refreshes, for   *)
(* any plans, revisions and numbers of calls and restarts.                 *)
(***************************************************************************)
EXTENDS Reconciliation, Scopes_proofs

\* The call is on its way to change an agents' task.
Acting(k) ==
  k.pc \in {"claim", "submit", "retry"} \/ (k.claiming /\ k.pc \in {"read", "refresh", "audit"})

\* What a call knows once it has left the idle state.
Knows(k) ==
  /\ k.pc # "idle" => k.plan \in Plan
  /\ Acting(k) /\ k.pc # "retry" => k.executor \in Executor
  /\ k.claiming => k.owner \in Owner /\ k.pc \in {"read", "refresh", "audit", "claim"}
  /\ k.pc = "claim" => k.claiming
  /\ k.pc \in {"submit", "retry"} => k.task \in Task /\ PlanOf[k.task] = k.plan

CallsOK ==
  \A c \in Call : Knows(calls[c]) /\ (Acting(calls[c]) => approval[calls[c].plan] = "approved")

\* Only evidence moves a system task, so nobody ever claims or fails one.
SystemTasksUnclaimed ==
  \A t \in Task : Kind[t] \notin ModelKinds => runs[t].status \in {"pending", "completed"}

\* The inductive invariant: the gate a call has passed stays open behind it.
Inv == /\ TypeOK /\ CallsOK /\ SystemTasksUnclaimed
       /\ StartedWasApproved /\ InPlanWritersDisjoint

\* An approved plan stays approved.
ApprovalsLast == \A p \in Plan : approval[p] = "approved" => approval'[p] = "approved"

-----------------------------------------------------------------------------
(* What the transactions do to the runs *)

\* The transitions of a single run keep the type of the runs.
LEMMA RunsTypes ==
  ASSUME runs \in [Task -> Run]
  PROVE  /\ \A t \in Task, o \in Owner, e \in Executor :
              ClaimRuns(runs, t, o, e) \in [Task -> Run]
         /\ \A t \in Task, success \in BOOLEAN : SubmitRuns(runs, t, success) \in [Task -> Run]
         /\ \A t \in Task : RetryRuns(runs, t) \in [Task -> Run]
<1>1. \A t \in Task, o \in Owner, e \in Executor : ClaimRuns(runs, t, o, e) \in [Task -> Run]
  BY PlanAssumption DEF ClaimRuns, Run, Status
<1>2. \A t \in Task, success \in BOOLEAN : SubmitRuns(runs, t, success) \in [Task -> Run]
  <2> TAKE t \in Task, success \in BOOLEAN
  <2>1. [runs[t] EXCEPT !.status = IF success THEN "completed" ELSE "failed"] \in Run
    BY DEF Run, Status
  <2> QED BY <2>1 DEF SubmitRuns
<1>3. \A t \in Task : RetryRuns(runs, t) \in [Task -> Run]
  BY DEF RetryRuns, PendingRun, Run, Status
<1> QED BY <1>1, <1>2, <1>3

\* set_system_task keeps the type of the runs.
LEMMA SetSystemTaskType ==
  ASSUME NEW rs \in [Task -> Run], NEW p, NEW kind, NEW completed \in BOOLEAN
  PROVE  SetSystemTask(rs, p, kind, completed) \in [Task -> Run]
BY DEF SetSystemTask, PendingRun, Run, Status

\* A status refresh keeps the type of the runs.
LEMMA RefreshType ==
  ASSUME runs \in [Task -> Run], NEW k \in CallState
  PROVE  RefreshedRuns(k) \in [Task -> Run]
<1>1. k.ready \in BOOLEAN /\ k.human \in BOOLEAN
  BY DEF CallState
<1>2. SetSystemTask(runs, k.plan, "verification", k.ready) \in [Task -> Run]
  BY <1>1, SetSystemTaskType
<1> QED BY <1>1, <1>2, SetSystemTaskType DEF RefreshedRuns

\* A status refresh leaves the agents' tasks alone.
LEMMA RefreshKeepsAgents ==
  ASSUME runs \in [Task -> Run], NEW k \in CallState, NEW t \in Task, Kind[t] \in ModelKinds
  PROVE  RefreshedRuns(k)[t] = runs[t]
BY DEF RefreshedRuns, SetSystemTask, ModelKinds

\* The steps that change the runs.
RunsStep ==
  \E c \in Call :
    \/ Refresh(c)
    \/ Claim(c)
    \/ Submit(c)
    \/ RetryTask(c)

\* Only these four actions change the runs.
LEMMA RunsWriters ==
  ASSUME [Next]_vars
  PROVE  RunsStep \/ UNCHANGED runs
<1>1. ASSUME NEW c \in Call, Proceed(c)
      PROVE  RunsStep \/ UNCHANGED runs
  BY <1>1 DEF Proceed, RunsStep, CreateApproval, WriteApproval, ReadVerification,
              ReadOriginalVerification, Audit
<1>2. ASSUME NEW c \in Call, Begin(c)
      PROVE  UNCHANGED runs
  BY <1>2 DEF Begin, BeginApprove, BeginStatus, BeginWebStatus, BeginClaim, BeginSubmit,
              BeginRetry
<1>3. CASE Environment
  BY <1>3 DEF Environment, Edit, PlanVerification, RecordEvidence, SignOff
<1> QED BY <1>1, <1>2, <1>3 DEF Next, Crash, vars

\* What any step does to a task: nothing, or the transition of its kind.
LEMMA TaskStep ==
  ASSUME Inv, [Next]_vars, NEW t \in Task
  PROVE  \/ runs'[t] = runs[t]
         \/ Kind[t] \notin ModelKinds /\ \E c \in Call : Refresh(c)
         \/ /\ runs[t].status = "pending" /\ runs'[t].status = "claimed"
            /\ Claimable(runs, t) /\ approval[PlanOf[t]] = "approved"
            /\ \A u \in Task : u # t => runs'[u] = runs[u]
         \/ /\ Kind[t] \in ModelKinds /\ runs[t].status = "claimed"
            /\ runs'[t].status \in {"completed", "failed"}
         \/ Kind[t] \in ModelKinds /\ runs[t].status = "failed" /\ runs'[t].status = "pending"
<1>0. /\ runs \in [Task -> Run] /\ \A c \in Call : calls[c] \in CallState /\ Knows(calls[c])
      /\ \A c \in Call : Acting(calls[c]) => approval[calls[c].plan] = "approved"
  BY DEF Inv, TypeOK, CallsOK
<1> DEFINE Goal == \/ runs'[t] = runs[t]
                   \/ Kind[t] \notin ModelKinds /\ \E c \in Call : Refresh(c)
                   \/ /\ runs[t].status = "pending" /\ runs'[t].status = "claimed"
                      /\ Claimable(runs, t) /\ approval[PlanOf[t]] = "approved"
                      /\ \A u \in Task : u # t => runs'[u] = runs[u]
                   \/ /\ Kind[t] \in ModelKinds /\ runs[t].status = "claimed"
                      /\ runs'[t].status \in {"completed", "failed"}
                   \/ Kind[t] \in ModelKinds /\ runs[t].status = "failed" /\ runs'[t].status = "pending"
<1>1. ASSUME NEW c \in Call, Refresh(c)
      PROVE  Goal
  BY <1>0, <1>1, RefreshKeepsAgents DEF Refresh
<1>2. ASSUME NEW c \in Call, Claim(c)
      PROVE  Goal
  <2>1. CASE UNCHANGED runs
    BY <2>1
  <2>2. ASSUME NEW u \in PlanTasks(calls[c].plan), ClaimAdmitted(calls[c], u),
               runs' = ClaimRuns(runs, u, calls[c].owner, calls[c].executor)
        PROVE  Goal
    <3>1. /\ u \in Task /\ PlanOf[u] = calls[c].plan /\ approval[PlanOf[u]] = "approved"
      BY <1>0, <1>2 DEF PlanTasks, Claim, Acting, At
    <3>2. runs' = [runs EXCEPT ![u] = [status |-> "claimed", by |-> calls[c].executor,
                                       owner |-> calls[c].owner]]
      BY <2>2 DEF ClaimRuns
    <3>3. CASE Claimable(runs, u)
      BY <1>0, <3>1, <3>2, <3>3 DEF Claimable
    <3>4. CASE AlreadyClaimedBy(runs, u, calls[c].owner, calls[c].executor)
      BY <1>0, <3>1, <3>2, <3>4 DEF AlreadyClaimedBy
    <3> QED BY <2>2, <3>3, <3>4 DEF ClaimAdmitted
  <2> QED BY <1>2, <2>1, <2>2 DEF Claim
<1>3. ASSUME NEW c \in Call, Submit(c)
      PROVE  Goal
  <2>1. CASE UNCHANGED runs
    BY <2>1
  <2>2. ASSUME NEW success \in BOOLEAN, SubmitAccepted(runs, calls[c].task, calls[c].executor),
               runs' = SubmitRuns(runs, calls[c].task, success)
        PROVE  Goal
    <3>1. \A u \in Task : u # calls[c].task => runs'[u] = runs[u]
      BY <1>0, <2>2 DEF SubmitRuns
    <3>2. t = calls[c].task => runs'[t] = [runs[t] EXCEPT !.status = IF success THEN "completed"
                                                                                ELSE "failed"]
      BY <1>0, <2>2 DEF SubmitRuns
    <3>3. t = calls[c].task => runs'[t].status \in {"completed", "failed"}
      BY <1>0, <3>2 DEF Run
    <3> QED BY <2>2, <3>1, <3>3 DEF SubmitAccepted, Inv, SystemTasksUnclaimed
  <2> QED BY <1>3, <2>1, <2>2 DEF Submit, Submittable
<1>4. ASSUME NEW c \in Call, RetryTask(c)
      PROVE  Goal
  BY <1>0, <1>4 DEF RetryTask, RetryAccepted, RetryRuns, PendingRun
<1>5. CASE UNCHANGED runs
  BY <1>5
<1> QED BY <1>1, <1>2, <1>3, <1>4, <1>5, RunsWriters DEF RunsStep

-----------------------------------------------------------------------------
(* Typing and authorization *)

\* No step takes an approval back: persist never rewrites a file.
LEMMA ApprovalStep ==
  ASSUME TypeOK, [Next]_vars
  PROVE  ApprovalsLast /\ approval' \in [Plan -> ApprovalState]
<1>0. approval \in [Plan -> ApprovalState]
  BY DEF TypeOK
<1>1. ASSUME NEW c \in Call, CreateApproval(c)
      PROVE  ApprovalsLast /\ approval' \in [Plan -> ApprovalState]
  BY <1>0, <1>1 DEF CreateApproval, ApprovalsLast, ApprovalState
<1>2. ASSUME NEW c \in Call, WriteApproval(c)
      PROVE  ApprovalsLast /\ approval' \in [Plan -> ApprovalState]
  BY <1>0, <1>2 DEF WriteApproval, ApprovalsLast, ApprovalState
<1>3. ASSUME NEW c \in Call, Proceed(c), ~ CreateApproval(c), ~ WriteApproval(c)
      PROVE  UNCHANGED approval
  BY <1>3 DEF Proceed, ReadVerification, ReadOriginalVerification, Refresh, Audit, Claim,
              Submit, RetryTask
<1>4. ASSUME NEW c \in Call, Begin(c)
      PROVE  UNCHANGED approval
  BY <1>4 DEF Begin, BeginApprove, BeginStatus, BeginWebStatus, BeginClaim, BeginSubmit,
              BeginRetry
<1>5. CASE Environment
  BY <1>0, <1>5 DEF Environment, Edit, PlanVerification, RecordEvidence, SignOff, ApprovalsLast
<1>6. CASE UNCHANGED approval
  BY <1>0, <1>6 DEF ApprovalsLast
<1> QED BY <1>1, <1>2, <1>3, <1>4, <1>5, <1>6 DEF Next, Crash, vars

\* A call that moves on with sound knowledge keeps the calls sound.
LEMMA EnterOK ==
  ASSUME TypeOK, CallsOK, ApprovalsLast, NEW c \in Call, NEW k \in CallState, Knows(k),
         Acting(k) => approval[k.plan] = "approved",
         Enter(c, k)
  PROVE  calls' \in [Call -> CallState] /\ CallsOK'
<1>1. calls' \in [Call -> CallState]
  BY DEF TypeOK, Enter
<1>2. \A d \in Call : calls'[d] = IF d = c THEN k ELSE calls[d]
  BY DEF TypeOK, Enter
<1>3. \A d \in Call : Knows(calls[d]) /\ (Acting(calls[d]) => approval[calls[d].plan] = "approved")
  BY DEF CallsOK
<1>4. \A d \in Call : /\ Acting(calls[d]) => approval'[calls[d].plan] = "approved"
                      /\ Acting(k) => approval'[k.plan] = "approved"
  BY <1>3 DEF ApprovalsLast, Knows, Acting
<1> QED BY <1>1, <1>2, <1>3, <1>4 DEF CallsOK

\* An idle call knows nothing and is on its way to nothing.
LEMMA IdleOK == IdleCall \in CallState /\ Knows(IdleCall) /\ ~ Acting(IdleCall)
BY DEF IdleCall, CallState, Knows, Acting, PC

\* Every step keeps what the calls know.
LEMMA CallsStep ==
  ASSUME TypeOK, CallsOK, [Next]_vars
  PROVE  calls' \in [Call -> CallState] /\ CallsOK'
<1> DEFINE Goal == calls' \in [Call -> CallState] /\ CallsOK'
<1>0. /\ ApprovalsLast
      /\ \A c \in Call : /\ calls[c] \in CallState /\ Knows(calls[c])
                         /\ Acting(calls[c]) => approval[calls[c].plan] = "approved"
  BY ApprovalStep DEF TypeOK, CallsOK
<1>1. ASSUME NEW c \in Call, Return(c)
      PROVE  Goal
  BY <1>0, <1>1, EnterOK, IdleOK DEF Return
<1>2. ASSUME NEW c \in Call, NEW p \in Plan,
             BeginApprove(c, p) \/ BeginStatus(c, p) \/ BeginWebStatus(c, p)
      PROVE  Goal
  <2>1. ASSUME NEW pc \in {"approve", "read", "web_read"},
               Enter(c, [IdleCall EXCEPT !.pc = pc, !.plan = p])
        PROVE  Goal
    <3> DEFINE k == [IdleCall EXCEPT !.pc = pc, !.plan = p]
    <3>1. k \in CallState /\ Knows(k) /\ ~ Acting(k)
      BY DEF IdleCall, CallState, Knows, Acting, PC
    <3> QED BY <1>0, <2>1, <3>1, EnterOK
  <2> QED BY <1>2, <2>1 DEF BeginApprove, BeginStatus, BeginWebStatus
<1>3. ASSUME NEW c \in Call, NEW o \in Owner, NEW e \in Executor, NEW p \in Plan,
             NEW t \in PlanTasks(p) \cup {NONE}, BeginClaim(c, o, e, p, t)
      PROVE  Goal
  <2> DEFINE k == [IdleCall EXCEPT !.pc = "read", !.plan = p, !.task = t, !.owner = o,
                                   !.executor = e, !.claiming = TRUE]
  <2>1. k \in CallState /\ Knows(k) /\ k.plan = p
    BY DEF IdleCall, CallState, Knows, Acting, PC, PlanTasks
  <2> QED BY <1>0, <1>3, <2>1, EnterOK DEF BeginClaim, GateOpen
<1>4. ASSUME NEW c \in Call, NEW e \in Executor, NEW t \in Task, BeginSubmit(c, e, t)
      PROVE  Goal
  <2> DEFINE k == [IdleCall EXCEPT !.pc = "submit", !.plan = PlanOf[t], !.task = t,
                                   !.executor = e]
  <2>1. k \in CallState /\ Knows(k) /\ k.plan = PlanOf[t]
    BY PlanAssumption DEF IdleCall, CallState, Knows, Acting, PC
  <2> QED BY <1>0, <1>4, <2>1, EnterOK DEF BeginSubmit, GateOpen
<1>5. ASSUME NEW c \in Call, NEW t \in Task, BeginRetry(c, t)
      PROVE  Goal
  <2> DEFINE k == [IdleCall EXCEPT !.pc = "retry", !.plan = PlanOf[t], !.task = t]
  <2>1. k \in CallState /\ Knows(k) /\ k.plan = PlanOf[t]
    BY PlanAssumption DEF IdleCall, CallState, Knows, Acting, PC
  <2> QED BY <1>0, <1>5, <2>1, EnterOK DEF BeginRetry, GateOpen
<1>6. ASSUME NEW c \in Call, CreateApproval(c)
      PROVE  Goal
  <2> DEFINE k == [calls[c] EXCEPT !.pc = "write_approval"]
  <2>1. k \in CallState /\ Knows(k) /\ ~ Acting(k)
    BY <1>0, <1>6 DEF CallState, Knows, Acting, PC, CreateApproval, At
  <2> QED BY <1>0, <1>1, <1>6, <2>1, EnterOK DEF CreateApproval
<1>7. ASSUME NEW c \in Call, NEW ready \in BOOLEAN, NEW human \in BOOLEAN,
             calls[c].pc \in {"read", "web_read"},
             calls[c].pc = "web_read" => ~ calls[c].claiming,
             Enter(c, [calls[c] EXCEPT !.pc = "refresh", !.ready = ready, !.human = human])
      PROVE  Goal
  <2> DEFINE k == [calls[c] EXCEPT !.pc = "refresh", !.ready = ready, !.human = human]
  <2>1. k \in CallState /\ k.plan = calls[c].plan /\ (Acting(k) <=> Acting(calls[c]))
    BY <1>0, <1>7 DEF CallState, PC, Acting
  <2>2. Knows(k)
    BY <1>0, <1>7, <2>1 DEF CallState, Knows
  <2> QED BY <1>0, <1>7, <2>1, <2>2, EnterOK
<1>8. ASSUME NEW c \in Call, Refresh(c)
      PROVE  Goal
  <2> DEFINE all == Converged(runs', calls[c].plan)
             k == [calls[c] EXCEPT !.pc = "audit", !.ready = FALSE, !.human = FALSE,
                                   !.all = all]
  <2>1. all \in BOOLEAN
    BY DEF Converged
  <2> HIDE DEF all
  <2>2. k \in CallState /\ k.plan = calls[c].plan /\ (Acting(k) <=> Acting(calls[c]))
    BY <1>0, <1>8, <2>1 DEF CallState, PC, Acting, Refresh, At
  <2>3. Knows(k)
    BY <1>0, <1>8, <2>1, <2>2 DEF CallState, Knows, Acting, Refresh, At
  <2> QED BY <1>0, <1>8, <2>2, <2>3, EnterOK DEF Refresh, all
<1>12. ASSUME NEW c \in Call, Audit(c)
       PROVE  Goal
  <2> DEFINE k == [calls[c] EXCEPT !.pc = "claim", !.all = FALSE]
  <2>1. CASE calls[c].claiming /\ Enter(c, k)
    <3>1. k \in CallState /\ k.plan = calls[c].plan /\ Acting(calls[c]) /\ k.claiming
          /\ k.pc = "claim" /\ k.executor = calls[c].executor /\ k.owner = calls[c].owner
      BY <1>0, <1>12, <2>1 DEF CallState, PC, Acting, Audit, At
    <3>2. Knows(k)
      BY <1>0, <1>12, <3>1 DEF CallState, Knows, Acting, Audit, At
    <3> QED BY <1>0, <2>1, <3>1, <3>2, EnterOK
  <2> QED BY <1>1, <1>12, <2>1 DEF Audit
<1>9. ASSUME NEW c \in Call, Proceed(c)
      PROVE  Goal
  <2>1. CASE ReadVerification(c) \/ ReadOriginalVerification(c)
    <3>1. PICK r : Enter(c, [calls[c] EXCEPT !.pc = "refresh",
                                             !.ready = Ready(calls[c].plan, r),
                                             !.human = (r \in signed)])
      BY <2>1 DEF ReadVerification, ReadOriginalVerification
    <3>2. PICK ready \in BOOLEAN : ready = Ready(calls[c].plan, r)
      BY DEF Ready
    <3>3. PICK human \in BOOLEAN : human = (r \in signed)
      <4> WITNESS (r \in signed) \in BOOLEAN
      <4> QED OBVIOUS
    <3>4. Enter(c, [calls[c] EXCEPT !.pc = "refresh", !.ready = ready, !.human = human])
      BY <3>1, <3>2, <3>3
    <3>5. /\ calls[c].pc \in {"read", "web_read"}
          /\ calls[c].pc = "web_read" => ~ calls[c].claiming
      BY <1>0, <2>1 DEF ReadVerification, ReadOriginalVerification, At, Knows
    <3> QED BY <1>7, <3>4, <3>5
  <2>2. CASE WriteApproval(c) \/ Claim(c) \/ Submit(c) \/ RetryTask(c)
    BY <1>1, <2>2 DEF WriteApproval, Claim, Submit, RetryTask
  <2> QED BY <1>6, <1>8, <1>9, <1>12, <2>1, <2>2 DEF Proceed
<1>10. CASE Environment \/ UNCHANGED vars
  <2>1. UNCHANGED <<calls, approval>>
    BY <1>10 DEF Environment, Edit, PlanVerification, RecordEvidence, SignOff, vars
  <2> QED BY <1>0, <2>1 DEF CallsOK, TypeOK
<1>11. CASE Crash
  BY <1>11, IdleOK DEF Crash, CallsOK
<1> QED BY <1>2, <1>3, <1>4, <1>5, <1>9, <1>10, <1>11 DEF Next, Begin

-----------------------------------------------------------------------------
(* The theorems *)

\* Every step keeps the type of everything but the runs.
LEMMA RestStep ==
  ASSUME TypeOK, [Next]_vars
  PROVE  /\ revision' \in Revision /\ restarts' \in 0..MaxRestarts
         /\ planned' \in SUBSET Revision /\ verified' \in SUBSET Revision
         /\ signed' \in SUBSET Revision
<1>0. /\ revision \in Revision /\ restarts \in 0..MaxRestarts /\ MaxRestarts \in Nat
      /\ planned \in SUBSET Revision /\ verified \in SUBSET Revision /\ signed \in SUBSET Revision
  BY ReconciliationAssumption DEF TypeOK
<1>1. CASE UNCHANGED <<revision, planned, verified, signed, restarts>>
  BY <1>0, <1>1
<1>2. CASE Environment
  <2>1. CASE Edit
    BY <1>0, <2>1 DEF Edit, evidenceVars
  <2>2. CASE PlanVerification
    BY <1>0, <2>2 DEF PlanVerification
  <2>3. CASE \E r \in Revision : RecordEvidence(r)
    BY <1>0, <2>3 DEF RecordEvidence
  <2>4. CASE SignOff
    BY <1>0, <2>4 DEF SignOff
  <2> QED BY <1>2, <2>1, <2>2, <2>3, <2>4 DEF Environment
<1>3. CASE Crash
  BY <1>0, <1>3 DEF Crash, evidenceVars
<1>4. ASSUME NEW c \in Call, Proceed(c)
      PROVE  UNCHANGED <<revision, planned, verified, signed, restarts>>
  BY <1>4 DEF Proceed, CreateApproval, WriteApproval, ReadVerification,
              ReadOriginalVerification, Refresh, Audit, Claim, Submit, RetryTask, evidenceVars
<1>5. ASSUME NEW c \in Call, Begin(c)
      PROVE  UNCHANGED <<revision, planned, verified, signed, restarts>>
  BY <1>5 DEF Begin, BeginApprove, BeginStatus, BeginWebStatus, BeginClaim, BeginSubmit,
              BeginRetry, evidenceVars
<1>6. CASE UNCHANGED vars
  BY <1>1, <1>6 DEF vars
<1> QED BY <1>1, <1>2, <1>3, <1>4, <1>5, <1>6 DEF Next

\* Every step keeps the type of the answered status.
LEMMA ReportedStep ==
  ASSUME TypeOK, [Next]_vars
  PROVE  reported' \in [Plan -> BOOLEAN]
<1>0. /\ reported \in [Plan -> BOOLEAN]
      /\ \A c \in Call : calls[c] \in CallState
  BY DEF TypeOK
<1>1. ASSUME NEW c \in Call, Audit(c)
      PROVE  reported' \in [Plan -> BOOLEAN]
  <2>1. Answer(calls[c]) \in BOOLEAN
    BY DEF Answer
  <2> QED BY <1>0, <1>1, <2>1 DEF Audit
<1>2. ASSUME NEW c \in Call, Proceed(c), ~ Audit(c)
      PROVE  UNCHANGED reported
  BY <1>2 DEF Proceed, CreateApproval, WriteApproval, ReadVerification,
              ReadOriginalVerification, Refresh, Claim, Submit, RetryTask
<1>3. ASSUME NEW c \in Call, Begin(c)
      PROVE  UNCHANGED reported
  BY <1>3 DEF Begin, BeginApprove, BeginStatus, BeginWebStatus, BeginClaim, BeginSubmit,
              BeginRetry
<1>4. CASE Environment
  BY <1>0, <1>4 DEF Environment, Edit, PlanVerification, RecordEvidence, SignOff
<1> QED BY <1>0, <1>1, <1>2, <1>3, <1>4 DEF Next, Crash, vars

\* Every step keeps the type of the runs.
LEMMA RunsTypeStep ==
  ASSUME TypeOK, CallsOK, [Next]_vars
  PROVE  runs' \in [Task -> Run]
<1>0. /\ runs \in [Task -> Run]
      /\ \A c \in Call : calls[c] \in CallState /\ Knows(calls[c])
  BY DEF TypeOK, CallsOK
<1>1. ASSUME NEW c \in Call, Refresh(c)
      PROVE  runs' \in [Task -> Run]
  BY <1>0, <1>1, RefreshType DEF Refresh
<1>2. ASSUME NEW c \in Call, Claim(c)
      PROVE  runs' \in [Task -> Run]
  <2>1. calls[c].owner \in Owner /\ calls[c].executor \in Executor
    BY <1>0, <1>2 DEF Claim, At, Knows, Acting
  <2> QED BY <1>0, <1>2, <2>1, RunsTypes DEF Claim, PlanTasks
<1>3. ASSUME NEW c \in Call, Submit(c)
      PROVE  runs' \in [Task -> Run]
  BY <1>0, <1>3, RunsTypes DEF Submit, At, Knows
<1>4. ASSUME NEW c \in Call, RetryTask(c)
      PROVE  runs' \in [Task -> Run]
  BY <1>0, <1>4, RunsTypes DEF RetryTask, At, Knows
<1> QED BY <1>0, <1>1, <1>2, <1>3, <1>4, RunsWriters DEF RunsStep

\* A task leaves Pending only under an approved plan.
LEMMA StartedStep ==
  ASSUME Inv, [Next]_vars
  PROVE  StartedWasApproved'
<1> SUFFICES ASSUME NEW p \in Plan, NEW t \in PlanTasks(p), Kind[t] \in ModelKinds,
                    runs'[t].status # "pending"
             PROVE  approval'[p] = "approved"
  BY DEF StartedWasApproved, Started
<1>1. t \in Task /\ PlanOf[t] = p
  BY DEF PlanTasks
<1>2. CASE runs[t].status # "pending"
  BY <1>2, ApprovalStep DEF Inv, StartedWasApproved, Started, ApprovalsLast
<1>3. CASE runs[t].status = "pending"
  <2>1. approval[p] = "approved"
    BY <1>1, <1>3, TaskStep
  <2> QED BY <2>1, ApprovalStep DEF Inv, ApprovalsLast
<1> QED BY <1>2, <1>3

\* A new claim is judged against every writer that is claimed.
LEMMA DisjointStep ==
  ASSUME Inv, [Next]_vars
  PROVE  InPlanWritersDisjoint'
<1> SUFFICES ASSUME NEW t \in Task, NEW u \in Task, t # u, PlanOf[t] = PlanOf[u],
                    IsClaimedWriter(runs', t), IsClaimedWriter(runs', u)
             PROVE  ~ WriteScopesConflict(Scope[t], Scope[u])
  BY DEF InPlanWritersDisjoint
<1>1. /\ runs'[t].status = "claimed" /\ Kind[t] = "writer" /\ Kind[t] \in ModelKinds
      /\ runs'[u].status = "claimed" /\ Kind[u] = "writer" /\ Kind[u] \in ModelKinds
  BY DEF IsClaimedWriter, ModelKinds
<1>2. CASE runs[t].status = "claimed" /\ runs[u].status = "claimed"
  BY <1>1, <1>2 DEF Inv, InPlanWritersDisjoint, IsClaimedWriter
<1>3. ASSUME NEW v \in Task, NEW w \in Task, v # w, PlanOf[v] = PlanOf[w],
             Kind[v] = "writer", Kind[w] = "writer",
             runs'[v].status = "claimed", runs'[w].status = "claimed",
             runs[v].status # "claimed"
      PROVE  ~ WriteScopesConflict(Scope[w], Scope[v])
  <2>1. Claimable(runs, v) /\ runs'[w] = runs[w]
    BY <1>3, TaskStep DEF ModelKinds
  <2>2. IsClaimedWriter(runs, w) /\ w \in PlanTasks(PlanOf[v])
    BY <1>3, <2>1 DEF IsClaimedWriter, PlanTasks
  <2> QED BY <1>3, <2>1, <2>2 DEF Claimable
<1> QED BY <1>1, <1>2, <1>3, ConflictIsSymmetric

\* set_system_task leaves a task as it is or gives it one of two statuses.
LEMMA SystemTaskStatus ==
  ASSUME NEW r, NEW p, NEW kind, NEW completed, NEW t \in Task
  PROVE  LET after == SetSystemTask(r, p, kind, completed)
         IN after[t].status = r[t].status \/ after[t].status \in {"pending", "completed"}
<1>1. [PendingRun EXCEPT !.status = "completed"].status = "completed"
      /\ [PendingRun EXCEPT !.status = "pending"].status = "pending"
  BY DEF PendingRun
<1> DEFINE moved == PlanOf[t] = p /\ Kind[t] = kind
                    /\ (completed => DependenciesCompleted(r, t))
<1>2. CASE moved
  BY <1>1, <1>2 DEF SetSystemTask
<1>3. CASE ~ moved
  BY <1>3 DEF SetSystemTask
<1> QED BY <1>2, <1>3

\* Nobody claims or fails a system task.
LEMMA SystemStep ==
  ASSUME Inv, [Next]_vars
  PROVE  SystemTasksUnclaimed'
<1> SUFFICES ASSUME NEW t \in Task, Kind[t] \notin ModelKinds
             PROVE  runs'[t].status \in {"pending", "completed"}
  BY DEF SystemTasksUnclaimed
<1>1. runs[t].status \in {"pending", "completed"}
  BY DEF Inv, SystemTasksUnclaimed
<1>2. ASSUME NEW c \in Call, Refresh(c)
      PROVE  runs'[t].status \in {"pending", "completed"}
  <2> DEFINE checked == SetSystemTask(runs, calls[c].plan, "verification", calls[c].ready)
  <2>1. checked[t].status \in {"pending", "completed"}
    BY <1>1, SystemTaskStatus
  <2>2. runs' = SetSystemTask(checked, calls[c].plan, "approval", calls[c].human)
    BY <1>2 DEF Refresh, RefreshedRuns
  <2> HIDE DEF checked
  <2>3. \/ runs'[t].status = checked[t].status
        \/ runs'[t].status \in {"pending", "completed"}
    BY <2>2, SystemTaskStatus
  <2> QED BY <2>1, <2>3
<1>3. ~ Claimable(runs, t)
  BY DEF Claimable
<1> QED BY <1>1, <1>2, <1>3, TaskStep

\* The initial states satisfy the invariant.
LEMMA InitInv == Init => Inv
<1> SUFFICES ASSUME Init PROVE Inv
  OBVIOUS
<1>1. \A t \in Task : runs[t] = PendingRun /\ runs[t].status = "pending"
  BY DEF Init, FreshRuns, PendingRun
<1>2. runs \in [Task -> Run]
  BY DEF Init, FreshRuns, PendingRun, Run, Status
<1>3. TypeOK
  BY <1>2, IdleOK, ReconciliationAssumption DEF Init, TypeOK, ApprovalState
<1>4. CallsOK
  BY IdleOK DEF Init, CallsOK
<1>5. SystemTasksUnclaimed /\ StartedWasApproved /\ InPlanWritersDisjoint
  BY <1>1 DEF SystemTasksUnclaimed, StartedWasApproved, Started, PlanTasks, InPlanWritersDisjoint, IsClaimedWriter
<1> QED BY <1>3, <1>4, <1>5 DEF Inv

\* Every step keeps the invariant.
LEMMA NextInv == Inv /\ [Next]_vars => Inv'
<1> SUFFICES ASSUME Inv, [Next]_vars PROVE Inv'
  OBVIOUS
<1>1. TypeOK /\ CallsOK
  BY DEF Inv
<1>2. TypeOK'
  BY <1>1, RunsTypeStep, ApprovalStep, CallsStep, RestStep, ReportedStep DEF TypeOK
<1> QED BY <1>1, <1>2, CallsStep, SystemStep, StartedStep, DisjointStep DEF Inv

\* The inductive invariant holds in every reachable state.
THEOREM InvAlways == Spec => []Inv
BY InitInv, NextInv, PTL DEF Spec

\* Every reachable state of approvals, runs, evidence and calls is of its type:
\* a pending run has no owner left, a claimed one always has its owner and
\* executor (retry and claim_task_with_owner_binding, reconciliation/mod.rs).
THEOREM TypeCorrect == Spec => []TypeOK
<1>1. Inv => TypeOK
  BY DEF Inv
<1> QED BY <1>1, InvAlways, PTL

\* Claimed writers of one plan never overlap (claimable_tasks and
\* claim_task_with_owner_binding, reconciliation/mod.rs).
THEOREM WritersStayDisjoint == Spec => []InPlanWritersDisjoint
<1>1. Inv => InPlanWritersDisjoint
  BY DEF Inv
<1> QED BY <1>1, InvAlways, PTL

\* No agents' task leaves Pending under a plan without a complete approval
\* (approved_reconciliation_snapshot, approval.rs persist and load).
THEOREM StartImpliesApproval == Spec => []StartedWasApproved
<1>1. Inv => StartedWasApproved
  BY DEF Inv
<1> QED BY <1>1, InvAlways, PTL

\* A recorded success of an agents' task is never undone (submit and retry,
\* reconciliation/mod.rs).
THEOREM CompletionIsFinal == Spec => CompletedIsFinal
<1>1. Inv /\ [Next]_vars =>
        [\A t \in Task : Kind[t] \in ModelKinds /\ runs[t].status = "completed"
                         => runs'[t] = runs[t]]_vars
  BY TaskStep
<1> QED BY <1>1, InvAlways, PTL DEF Spec, CompletedIsFinal

\* A system task completes only when its dependencies are complete, however old
\* the evidence that completes it (set_system_task, reconciliation/mod.rs).
THEOREM SystemTasksWait == Spec => SystemTaskWaits
<1>1. ASSUME Inv, [Next]_vars, NEW t \in Task, Kind[t] \notin ModelKinds,
             runs[t].status # "completed", runs'[t].status = "completed",
             NEW d \in DependsOn[t]
      PROVE  runs'[d].status = "completed"
  <2>0. /\ runs \in [Task -> Run] /\ d \in Task /\ Kind[t] \in {"verification", "approval"}
        /\ \A c \in Call : calls[c] \in CallState
    BY <1>1, PlanAssumption DEF Inv, TypeOK, Kinds, ModelKinds
  <2>1. ASSUME NEW c \in Call, Refresh(c)
        PROVE  runs'[d].status = "completed"
    <3> DEFINE k == calls[c]
               checked == SetSystemTask(runs, k.plan, "verification", k.ready)
    <3>1. runs' = SetSystemTask(checked, k.plan, "approval", k.human)
      BY <2>1 DEF Refresh, RefreshedRuns
    <3>2. k.ready \in BOOLEAN /\ k.human \in BOOLEAN /\ checked \in [Task -> Run]
      BY <2>0, SetSystemTaskType DEF CallState
    <3>3. CASE Kind[t] = "verification"
      <4>1. runs'[t] = checked[t]
        BY <3>1, <3>3 DEF SetSystemTask
      <4>2. DependenciesCompleted(runs, t) /\ k.ready
        BY <1>1, <3>3, <4>1 DEF SetSystemTask, PendingRun
      <4>3. Kind[d] # "approval" /\ runs[d].status = "completed"
        BY <3>3, <4>2, BuiltPlanAssumption DEF DependenciesCompleted
      <4>4. checked[d].status = "completed"
        BY <2>0, <4>2, <4>3 DEF SetSystemTask, PendingRun
      <4> QED BY <2>0, <3>1, <4>3, <4>4 DEF SetSystemTask
    <3>4. CASE Kind[t] = "approval"
      <4>1. checked[t] = runs[t]
        BY <2>0, <3>4 DEF SetSystemTask
      <4>2. DependenciesCompleted(checked, t) /\ k.human
        BY <1>1, <3>1, <3>4, <4>1 DEF SetSystemTask, PendingRun
      <4>3. checked[d].status = "completed"
        BY <4>2 DEF DependenciesCompleted
      <4> QED BY <2>0, <3>1, <4>2, <4>3 DEF SetSystemTask, PendingRun
    <3> QED BY <2>0, <3>3, <3>4
  <2> QED BY <1>1, <2>1, TaskStep
<1>2. Inv /\ [Next]_vars =>
        [\A t \in Task :
           Kind[t] \notin ModelKinds /\ runs[t].status # "completed"
           /\ runs'[t].status = "completed"
           => \A d \in DependsOn[t] : runs'[d].status = "completed"]_vars
  BY <1>1
<1> QED BY <1>2, InvAlways, PTL DEF Spec, SystemTaskWaits

=============================================================================
