---------------------------- MODULE ReconcilePlan ----------------------------
(***************************************************************************)
(* The tasks of the stored reconciliation plans and the pure transitions   *)
(* of their runs (src/reconciliation/mod.rs).  runs is a function from     *)
(* task to run record; a plan is the set of tasks PlanOf maps to it.       *)
(* Summaries, digests and the updated_at stamp are left out.               *)
(***************************************************************************)
EXTENDS Scopes

CONSTANTS
  Task,        \* the tasks of every stored plan
  Plan,        \* plan ids
  PlanOf,      \* the plan of a task
  Kind,        \* "writer" (Design, Implementation), "review", "verification", "approval"
  Scope,       \* write_scopes of a task
  DependsOn,   \* depends_on of a task
  Owner,       \* owner bindings of the authenticated MCP owners
  Executor,    \* executor names agents choose
  NONE         \* an absent Option

Kinds == {"writer", "review", "verification", "approval"}
ModelKinds == {"writer", "review"}

\* ReconciliationPlan::validate: what a stored plan satisfies.  Only a writer
\* has scopes, dependencies stay inside the plan, and there is no cycle: every
\* set of tasks has a member none of whose dependencies is in the set.
ASSUME PlanAssumption ==
  /\ PlanOf \in [Task -> Plan]
  /\ Kind \in [Task -> Kinds]
  /\ Scope \in [Task -> SUBSET Path]
  /\ DependsOn \in [Task -> SUBSET Task]
  /\ \A t \in Task : \A d \in DependsOn[t] : PlanOf[d] = PlanOf[t]
  /\ \A t \in Task : Kind[t] # "writer" => Scope[t] = {}
  /\ \A S \in SUBSET Task : S # {} => \E t \in S : DependsOn[t] \cap S = {}
  /\ NONE \notin Owner /\ NONE \notin Executor /\ NONE \notin Task

\* reconciliation_plan (intelligence/runtime/reconcile.rs) never makes an agents'
\* task wait for a system task, nor a verification for an approval.
ASSUME BuiltPlanAssumption ==
  \A t \in Task : \A d \in DependsOn[t] :
     /\ Kind[t] \in ModelKinds => Kind[d] \in ModelKinds
     /\ Kind[t] = "verification" => Kind[d] # "approval"

PlanTasks(p) == {t \in Task : PlanOf[t] = p}

Status == {"pending", "claimed", "completed", "failed"}

\* A pending run belongs to nobody, a claimed one to an owner and its executor.
Run == {r \in [status : Status, by : Executor \cup {NONE}, owner : Owner \cup {NONE}] :
          /\ r.status = "pending" => r.by = NONE /\ r.owner = NONE
          /\ r.status = "claimed" => r.by # NONE /\ r.owner # NONE}

PendingRun == [status |-> "pending", by |-> NONE, owner |-> NONE]

\* from_plan: the runs a plan starts with.
FreshRuns == [t \in Task |-> PendingRun]

\* A claimed Design or Implementation run: ReconciliationClaimMode::SharedWriter.
IsClaimedWriter(runs, t) == runs[t].status = "claimed" /\ Kind[t] = "writer"

DependenciesCompleted(runs, t) ==
  \A d \in DependsOn[t] : runs[d].status = "completed"

\* claimable_tasks
Claimable(runs, t) ==
  /\ runs[t].status = "pending"
  /\ Kind[t] \in ModelKinds
  /\ DependenciesCompleted(runs, t)
  /\ \/ Kind[t] = "review"
     \/ ~ \E u \in PlanTasks(PlanOf[t]) : /\ IsClaimedWriter(runs, u)
                                          /\ WriteScopesConflict(Scope[u], Scope[t])

\* The replay branch of claim_task_with_owner_binding: the same owner and
\* executor name the task they already hold.
AlreadyClaimedBy(runs, t, o, e) ==
  runs[t] = [status |-> "claimed", by |-> e, owner |-> o]

ClaimRuns(runs, t, o, e) ==
  [runs EXCEPT ![t] = [status |-> "claimed", by |-> e, owner |-> o]]

\* submit: the executor must match, the owner binding is not looked at; the
\* claim's executor and ownership stay in the run.
SubmitAccepted(runs, t, e) == runs[t].status = "claimed" /\ runs[t].by = e

SubmitRuns(runs, t, success) ==
  [runs EXCEPT ![t].status = IF success THEN "completed" ELSE "failed"]

\* retry
RetryAccepted(runs, t) == runs[t].status = "failed" /\ Kind[t] \in ModelKinds

\* Mutant of RetryRuns: the claim of the failed attempt stays.
RetryKeepsClaim(runs, t) == [runs EXCEPT ![t].status = "pending"]

RetryRuns(runs, t) == [runs EXCEPT ![t] = PendingRun]

\* set_system_task: every task of the kind follows the evidence, except that
\* completion waits for the dependencies; the dependencies are read before
\* the first task is changed.
SetSystemTask(runs, p, kind, completed) ==
  [t \in Task |->
     IF PlanOf[t] = p /\ Kind[t] = kind
        /\ (completed => DependenciesCompleted(runs, t))
     THEN [PendingRun EXCEPT !.status = IF completed THEN "completed" ELSE "pending"]
     ELSE runs[t]]

\* status().converged
Converged(runs, p) ==
  PlanTasks(p) # {} /\ \A t \in PlanTasks(p) : runs[t].status = "completed"

=============================================================================
