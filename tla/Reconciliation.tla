---------------------------- MODULE Reconciliation ----------------------------
(***************************************************************************)
(* The life of stored reconciliation plans: approval, claims, submissions, *)
(* retries and the status reads that carry verification evidence into the  *)
(* durable runs (src/reconciliation/approval.rs, execution_store.rs,       *)
(* src/intelligence/runtime/{approval,claim,reconcile}.rs).                *)
(*                                                                         *)
(* A call reads the approval, the revision and the evidence first and      *)
(* changes the runs later, in a transaction of its own (one lock per plan, *)
(* newest snapshot in, next snapshot out).  Nothing keeps the repository,  *)
(* the evidence or the runs still in between.                              *)
(***************************************************************************)
EXTENDS ReconcilePlan

CONSTANTS
  Call,         \* operations in flight at the same time
  Revision,     \* repository revisions (code and Design digests)
  BaseRevision, \* the revision the plans and their verification plans are bound to
  Conforming,   \* plan -> the revisions that satisfy its auditable change intents
  MaxRestarts   \* bound: how often the process restarts

ASSUME ReconciliationAssumption ==
  /\ BaseRevision \in Revision /\ MaxRestarts \in Nat
  /\ Conforming \in [Plan -> SUBSET Revision]
  /\ NONE \notin Plan /\ NONE \notin Revision

VARIABLES
  runs,      \* Task -> Run: the durable runs
  approval,  \* Plan -> state of the approved-plan snapshot file
  revision,  \* the repository's current revision
  planned,   \* revisions that have a verification plan
  verified,  \* revisions whose verification plan has all its other evidence
  signed,    \* revisions whose verification plan has human approval evidence
  reported,  \* Plan -> status.converged as it was last answered
  calls,     \* Call -> the progress of the call
  restarts   \* how often the process has restarted

evidenceVars == <<planned, verified, signed>>
vars == <<runs, approval, revision, planned, verified, signed, reported, calls, restarts>>

\* "torn": created, but not (or never to be) written completely; load skips it.
ApprovalState == {"none", "torn", "approved"}

PC == {"idle", "approve", "write_approval", "read", "web_read", "refresh", "audit",
       "claim", "submit", "retry"}

\* ready and human are the verification status a refresh will apply; all: what
\* its transaction found every task completed; claiming: the refresh is the
\* first half of a claim.
CallState == [pc : PC, plan : Plan \cup {NONE}, task : Task \cup {NONE},
              owner : Owner \cup {NONE}, executor : Executor \cup {NONE},
              claiming : BOOLEAN, ready : BOOLEAN, human : BOOLEAN, all : BOOLEAN]

IdleCall == [pc |-> "idle", plan |-> NONE, task |-> NONE, owner |-> NONE,
             executor |-> NONE, claiming |-> FALSE, ready |-> FALSE, human |-> FALSE,
             all |-> FALSE]

Init ==
  /\ runs = FreshRuns
  /\ approval = [p \in Plan |-> "none"]
  /\ revision = BaseRevision
  /\ planned = {BaseRevision}
  /\ verified = {} /\ signed = {}
  /\ reported = [p \in Plan |-> FALSE]
  /\ restarts = 0
  /\ calls = [c \in Call |-> IdleCall]

At(c, pc) == calls[c].pc = pc
Enter(c, k) == calls' = [calls EXCEPT ![c] = k]
Return(c) == Enter(c, IdleCall)

-----------------------------------------------------------------------------
(* Approval *)

\* execution_started: an agents' task has left Pending.
Started(p) == \E t \in PlanTasks(p) : Kind[t] \in ModelKinds /\ runs[t].status # "pending"

\* status of approval.rs: the stored plan never changes, so the one reason that
\* can come and go is a revision that moved before the execution started.
ReplanRequired(p) ==
  /\ approval[p] = "approved"
  /\ ~ Started(p)
  /\ revision # BaseRevision

\* approved_reconciliation_snapshot, the gate of claim, submit and retry.
GateOpen(p) == approval[p] = "approved" /\ ~ ReplanRequired(p)

\* record_reconciliation_approval up to the store: an approval freezes the
\* revision the plan is bound to, so it has to be the current one.
BeginApprove(c, p) ==
  /\ At(c, "idle")
  /\ approval[p] # "approved" /\ revision = BaseRevision
  /\ Enter(c, [IdleCall EXCEPT !.pc = "approve", !.plan = p])
  /\ UNCHANGED <<runs, approval, revision, evidenceVars, reported, restarts>>

\* persist: a file that exists is never written again, whatever it holds; a
\* new one is created ...
CreateApproval(c) ==
  /\ At(c, "approve")
  /\ IF approval[calls[c].plan] = "none"
     THEN /\ approval' = [approval EXCEPT ![calls[c].plan] = "torn"]
          /\ Enter(c, [calls[c] EXCEPT !.pc = "write_approval"])
     ELSE UNCHANGED approval /\ Return(c)
  /\ UNCHANGED <<runs, revision, evidenceVars, reported, restarts>>

\* ... and then written.
WriteApproval(c) ==
  /\ At(c, "write_approval")
  /\ approval' = [approval EXCEPT ![calls[c].plan] = "approved"]
  /\ Return(c)
  /\ UNCHANGED <<runs, revision, evidenceVars, reported, restarts>>

-----------------------------------------------------------------------------
(* Verification status *)

NeedsHuman(p) == \E t \in PlanTasks(p) : Kind[t] = "approval"

\* verification_status_from_snapshot for the verification plan bound to r.
Ready(p, r) == r = revision /\ r \in verified /\ (NeedsHuman(p) => r \in signed)

\* reconciliation_verification_status: once an approved plan has started and
\* the revision has moved, the verification plan of the current revision
\* counts instead of the original, if there is one.
CurrentVerification(p) ==
  IF approval[p] = "approved" /\ Started(p) /\ revision \in planned
  THEN revision
  ELSE BaseRevision

\* reconciliation_execution_status; the reads before the transaction are one
\* step.
BeginStatus(c, p) ==
  /\ At(c, "idle")
  /\ Enter(c, [IdleCall EXCEPT !.pc = "read", !.plan = p])
  /\ UNCHANGED <<runs, approval, revision, evidenceVars, reported, restarts>>

ReadVerification(c) ==
  LET p == calls[c].plan
      r == CurrentVerification(p)
  IN /\ At(c, "read")
     /\ Enter(c, [calls[c] EXCEPT !.pc = "refresh", !.ready = Ready(p, r),
                                  !.human = (r \in signed)])
     /\ UNCHANGED <<runs, approval, revision, evidenceVars, reported, restarts>>

\* reconciliation_execution_statuses_from_snapshot, behind the web status and
\* the proof snapshot: only the original verification plan is looked at.
BeginWebStatus(c, p) ==
  /\ At(c, "idle")
  /\ Enter(c, [IdleCall EXCEPT !.pc = "web_read", !.plan = p])
  /\ UNCHANGED <<runs, approval, revision, evidenceVars, reported, restarts>>

ReadOriginalVerification(c) ==
  LET p == calls[c].plan
  IN /\ At(c, "web_read")
     /\ Enter(c, [calls[c] EXCEPT !.pc = "refresh", !.ready = Ready(p, BaseRevision),
                                  !.human = (BaseRevision \in signed)])
     /\ UNCHANGED <<runs, approval, revision, evidenceVars, reported, restarts>>

\* Mutant of RefreshedRuns: a refresh never takes a completion back.
RefreshedWithoutRevert(k) ==
  LET checked == IF k.ready THEN SetSystemTask(runs, k.plan, "verification", TRUE) ELSE runs
  IN IF k.human THEN SetSystemTask(checked, k.plan, "approval", TRUE) ELSE checked

\* Mutant of RefreshedRuns: the human approval task is forgotten.
RefreshedVerificationOnly(k) == SetSystemTask(runs, k.plan, "verification", k.ready)

\* reconciliation_execution_status_from_inputs: both system tasks follow the
\* status that was read.
RefreshedRuns(k) ==
  SetSystemTask(SetSystemTask(runs, k.plan, "verification", k.ready),
                k.plan, "approval", k.human)

Refresh(c) ==
  /\ At(c, "refresh")
  /\ runs' = RefreshedRuns(calls[c])
  /\ Enter(c, [calls[c] EXCEPT !.pc = "audit", !.ready = FALSE, !.human = FALSE,
                               !.all = Converged(runs', calls[c].plan)])
  /\ UNCHANGED <<approval, revision, evidenceVars, reported, restarts>>

\* Mutant of Answer: satisfied intents count as convergence by themselves.
AnswerByIntents(k) == revision \in Conforming[k.plan]

\* reconciliation_intent_audit after the transaction: the Convention findings of
\* the repository as it is now can only take the convergence away.
Answer(k) == k.all /\ revision \in Conforming[k.plan]

\* A claim audits as well and drops the status it gets.
Audit(c) ==
  LET k == calls[c]
  IN /\ At(c, "audit")
     /\ IF k.claiming
        THEN UNCHANGED reported /\ Enter(c, [k EXCEPT !.pc = "claim", !.all = FALSE])
        ELSE reported' = [reported EXCEPT ![k.plan] = Answer(k)] /\ Return(c)
     /\ UNCHANGED <<runs, approval, revision, evidenceVars, restarts>>

-----------------------------------------------------------------------------
(* Claim, submit, retry *)

\* Mutant of BeginClaim: the gate is not asked.
BeginClaimWithoutGate(c, o, e, p, t) ==
  /\ At(c, "idle")
  /\ Enter(c, [IdleCall EXCEPT !.pc = "read", !.plan = p, !.task = t, !.owner = o,
                               !.executor = e, !.claiming = TRUE])
  /\ UNCHANGED <<runs, approval, revision, evidenceVars, reported, restarts>>

\* reconciliation_claim_owned: gate, status refresh, claim.  t is NONE when the
\* caller leaves the choice to the engine.
BeginClaim(c, o, e, p, t) ==
  /\ At(c, "idle") /\ GateOpen(p)
  /\ Enter(c, [IdleCall EXCEPT !.pc = "read", !.plan = p, !.task = t, !.owner = o,
                               !.executor = e, !.claiming = TRUE])
  /\ UNCHANGED <<runs, approval, revision, evidenceVars, reported, restarts>>

\* Mutant of ClaimAdmitted: the claim was found claimable before the refresh
\* and is not judged again.
ClaimAdmittedUnchecked(k, t) ==
  /\ Kind[t] \in ModelKinds
  /\ k.task \in {NONE, t} /\ runs[t].status = "pending"

\* claim_task_with_owner_binding: a claimable task, or the replay of a claim
\* the caller already holds.
ClaimAdmitted(k, t) ==
  \/ k.task \in {NONE, t} /\ Claimable(runs, t)
  \/ k.task = t /\ AlreadyClaimedBy(runs, t, k.owner, k.executor)

Claim(c) ==
  LET k == calls[c]
  IN /\ At(c, "claim")
     /\ \/ \E t \in PlanTasks(k.plan) :
             ClaimAdmitted(k, t) /\ runs' = ClaimRuns(runs, t, k.owner, k.executor)
        \/ (\A t \in PlanTasks(k.plan) : ~ ClaimAdmitted(k, t)) /\ UNCHANGED runs
     /\ Return(c)
     /\ UNCHANGED <<approval, revision, evidenceVars, reported, restarts>>

BeginSubmit(c, e, t) ==
  /\ At(c, "idle") /\ GateOpen(PlanOf[t])
  /\ Enter(c, [IdleCall EXCEPT !.pc = "submit", !.plan = PlanOf[t], !.task = t,
                               !.executor = e])
  /\ UNCHANGED <<runs, approval, revision, evidenceVars, reported, restarts>>

\* Mutant of Submittable: a finished task can be submitted once more.
SubmittableAgain(k) ==
  runs[k.task].status \in {"claimed", "completed", "failed"} /\ runs[k.task].by = k.executor

Submittable(k) == SubmitAccepted(runs, k.task, k.executor)

\* reconciliation_submit; the evidence record it appends is not part of the
\* runs.
Submit(c) ==
  LET k == calls[c]
  IN /\ At(c, "submit")
     /\ IF Submittable(k)
        THEN \E success \in BOOLEAN : runs' = SubmitRuns(runs, k.task, success)
        ELSE UNCHANGED runs
     /\ Return(c)
     /\ UNCHANGED <<approval, revision, evidenceVars, reported, restarts>>

BeginRetry(c, t) ==
  /\ At(c, "idle") /\ GateOpen(PlanOf[t])
  /\ Enter(c, [IdleCall EXCEPT !.pc = "retry", !.plan = PlanOf[t], !.task = t])
  /\ UNCHANGED <<runs, approval, revision, evidenceVars, reported, restarts>>

RetryTask(c) ==
  LET k == calls[c]
  IN /\ At(c, "retry")
     /\ runs' = IF RetryAccepted(runs, k.task) THEN RetryRuns(runs, k.task) ELSE runs
     /\ Return(c)
     /\ UNCHANGED <<approval, revision, evidenceVars, reported, restarts>>

-----------------------------------------------------------------------------
(* What happens around the plans *)

\* Someone edits the repository, the agents of the plan included.
Edit ==
  /\ revision' \in Revision \ {revision}
  /\ UNCHANGED <<runs, approval, evidenceVars, reported, calls, restarts>>

\* verification_plan at the current revision.
PlanVerification ==
  /\ planned' = planned \cup {revision}
  /\ planned' # planned
  /\ UNCHANGED <<runs, approval, revision, verified, signed, reported, calls, restarts>>

\* Evidence is recorded for the revision it was produced at, which may have
\* passed; the latest record of a check counts, so it can also fail again.
RecordEvidence(r) ==
  /\ r \in planned
  /\ \/ verified' = verified \cup {r}
     \/ verified' = verified \ {r}
  /\ UNCHANGED <<runs, approval, revision, planned, signed, reported, calls, restarts>>

\* record_human_approval refuses a verification plan of another revision.
SignOff ==
  /\ revision \in planned
  /\ signed' = signed \cup {revision}
  /\ UNCHANGED <<runs, approval, revision, planned, verified, reported, calls, restarts>>

\* The process restarts; what was in flight is forgotten.
Crash ==
  /\ restarts < MaxRestarts
  /\ restarts' = restarts + 1
  /\ calls' = [c \in Call |-> IdleCall]
  /\ UNCHANGED <<runs, approval, revision, evidenceVars, reported>>

-----------------------------------------------------------------------------
Proceed(c) ==
  \/ CreateApproval(c)
  \/ WriteApproval(c)
  \/ ReadVerification(c)
  \/ ReadOriginalVerification(c)
  \/ Refresh(c)
  \/ Audit(c)
  \/ Claim(c)
  \/ Submit(c)
  \/ RetryTask(c)

Begin(c) ==
  \/ \E p \in Plan : BeginApprove(c, p) \/ BeginStatus(c, p) \/ BeginWebStatus(c, p)
  \/ \E o \in Owner, e \in Executor, p \in Plan : \E t \in PlanTasks(p) \cup {NONE} :
       BeginClaim(c, o, e, p, t)
  \/ \E e \in Executor, t \in Task : BeginSubmit(c, e, t)
  \/ \E t \in Task : BeginRetry(c, t)

Environment ==
  \/ Edit
  \/ PlanVerification
  \/ \E r \in Revision : RecordEvidence(r)
  \/ SignOff

Next ==
  \/ \E c \in Call : Begin(c) \/ Proceed(c)
  \/ Environment
  \/ Crash

Spec == Init /\ [][Next]_vars

\* A call that was admitted runs on, and every plan's status is read again and
\* again (runtime/execution.rs refreshes it whenever an execution is looked at).
FairSpec ==
  /\ Spec
  /\ \A c \in Call : WF_vars(Proceed(c))
  /\ \A p \in Plan : SF_vars(\E c \in Call : BeginStatus(c, p))

-----------------------------------------------------------------------------
(* Properties *)

\* Every variable keeps to its type.
TypeOK ==
  /\ runs \in [Task -> Run]
  /\ approval \in [Plan -> ApprovalState]
  /\ revision \in Revision
  /\ planned \in SUBSET Revision /\ verified \in SUBSET Revision /\ signed \in SUBSET Revision
  /\ reported \in [Plan -> BOOLEAN]
  /\ calls \in [Call -> CallState]
  /\ restarts \in 0..MaxRestarts

\* Two writers of a plan that are claimed at the same time never overlap,
\* however claims, replays, refreshes and retries interleave (claimable_tasks
\* and claim_task_with_owner_binding, mod.rs).
InPlanWritersDisjoint ==
  \A t, u \in Task :
    t # u /\ PlanOf[t] = PlanOf[u] /\ IsClaimedWriter(runs, t) /\ IsClaimedWriter(runs, u)
    => ~ WriteScopesConflict(Scope[t], Scope[u])

\* No agents' task ever runs under a plan that is not durably approved: a torn
\* approval file, a crash between its two writes, or a gate that was passed
\* long ago never opens the way (approved_reconciliation_snapshot).
StartedWasApproved == \A p \in Plan : Started(p) => approval[p] = "approved"

\* A success that was recorded for an agents' task is final: no late or second
\* submission, retry, claim or status refresh that was admitted earlier undoes
\* it (submit and retry judge the run again inside the transaction).
CompletedIsFinal ==
  [][\A t \in Task : Kind[t] \in ModelKinds /\ runs[t].status = "completed"
                     => runs'[t] = runs[t]]_vars

\* A system task completes only after everything it depends on, although the
\* evidence that completes it was read before the transaction
\* (set_system_task).
SystemTaskWaits ==
  [][\A t \in Task :
       Kind[t] \notin ModelKinds /\ runs[t].status # "completed"
       /\ runs'[t].status = "completed"
       => \A d \in DependsOn[t] : runs'[d].status = "completed"]_vars

AgentsDone(p) ==
  \A t \in PlanTasks(p) : Kind[t] \in ModelKinds => runs[t].status = "completed"

Proven(p) == Ready(p, CurrentVerification(p))

\* When the agents' work is done, its evidence lasts and the repository keeps
\* satisfying the plan's intents, the status is answered as converged again
\* and again, whatever stale status was applied in between
\* (reconciliation_execution_status_from_plan).
ConvergesOnEvidence ==
  \A p \in Plan :
    <>[](AgentsDone(p) /\ Proven(p) /\ revision \in Conforming[p]) => []<>reported[p]

\* Without evidence for the current revision, or with an intent that stays
\* violated, a plan does not stay converged: an answer that came from a stale
\* status is taken back for good (reconciliation_execution_status_from_inputs).
RevertsWithoutEvidence ==
  \A p \in Plan :
    <>[](~ Proven(p)) \/ <>[](revision \notin Conforming[p]) => <>[](~ reported[p])

-----------------------------------------------------------------------------
(* Statements of the repository's documents that the code does not keep *)

\* approved_plan.yaml: once execution has started, edits do not invalidate the
\* approved plan.  A plan that is being executed never falls back to
\* replan_required.
ActivePlanStaysActive ==
  [][\A p \in Plan : Started(p) => ~ ReplanRequired(p)']_vars

\* software-intelligence.md: the status read synchronizes the system tasks from
\* real evidence.  Lasting work and lasting evidence keep a plan converged.
StaysConverged ==
  \A p \in Plan : <>[](AgentsDone(p) /\ Proven(p)) => <>[]Converged(runs, p)

=============================================================================
