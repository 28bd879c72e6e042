----------------------------- MODULE WriterLease -----------------------------
(***************************************************************************)
(* The writer leases of one Git mutation domain and the MCP tool calls     *)
(* that take, use and release them (src/integrations/mcp/writer.rs,        *)
(* writer_recovery.rs, dispatch/mod.rs).                                   *)
(*                                                                         *)
(* A tool call runs before_tool, waits for an execution permit, performs   *)
(* its operation on a blocking worker and runs after_tool.  Calls of       *)
(* different owners interleave at every step.  The leases live in memory   *)
(* behind one mutex; the runs are durable (the newest snapshot of every    *)
(* plan) behind one lock per plan.  No lock covers both for longer than    *)
(* one check, so a call may act on what another call has changed since.    *)
(***************************************************************************)
EXTENDS ReconcilePlan

CONSTANTS
  Call,           \* tool calls in flight at the same time
  MutationPaths,  \* the path sets file tools name
  Faults          \* which of "crash", "abandon", "io" happen

ASSUME WriterAssumption ==
  /\ MutationPaths \subseteq (SUBSET Path) \ {{}}
  /\ Faults \subseteq {"crash", "abandon", "io"}
  /\ NONE \notin Call /\ NONE \notin MutationPaths

VARIABLES
  runs,     \* Task -> Run: the durable runs
  leases,   \* the domain's ActiveWriterLease entries
  calls     \* Call -> the progress of the call

vars == <<runs, leases, calls>>

(* task is NONE while the claim is pending; holder is the call that keeps the
   reservation handle, NONE once it is finalized or its call is gone. *)
Lease == [owner : Owner, executor : Executor, task : Task \cup {NONE},
          scopes : SUBSET Path, holder : Call \cup {NONE}]

PC == {"idle",
       "reserve", "recover", "claim", "claim_detached", "claimed", "claim_failed",
       "view", "check_submit", "submit", "submit_detached", "submitted",
       "check_mutation", "mutate"}

(* view is the clone of the leases a check works on; paths are the mutation's,
   NONE for a command; release: the submitted run was a writer's when loaded. *)
CallState == [pc : PC, owner : Owner \cup {NONE}, executor : Executor \cup {NONE},
              plan : Plan \cup {NONE}, task : Task \cup {NONE},
              paths : MutationPaths \cup {NONE}, view : SUBSET Lease, release : BOOLEAN]

IdleCall == [pc |-> "idle", owner |-> NONE, executor |-> NONE, plan |-> NONE,
             task |-> NONE, paths |-> NONE, view |-> {}, release |-> FALSE]

Init ==
  /\ runs = FreshRuns
  /\ leases = {}
  /\ calls = [c \in Call |-> IdleCall]

At(c, pc) == calls[c].pc = pc
Return(c) == calls' = [calls EXCEPT ![c] = IdleCall]
Advance(c, pc, t, view) ==
  calls' = [calls EXCEPT ![c] = [@ EXCEPT !.pc = pc, !.task = t, !.view = view]]
GoTo(c, pc) == Advance(c, pc, calls[c].task, calls[c].view)

-----------------------------------------------------------------------------
(* writer_recovery.rs: agreement of the durable and the runtime ownership.  *)

\* lease_matches_run, for a claimed writer run (every claim through MCP is
\* owner-bound, so the binding always has to agree).
LeaseMatchesRun(rs, l, t) ==
  l.task = t /\ l.executor = rs[t].by /\ l.owner = rs[t].owner

Orphaned(rs, active) ==
  {t \in Task : IsClaimedWriter(rs, t) /\ ~ \E l \in active : LeaseMatchesRun(rs, l, t)}

Stale(rs, active) ==
  {l \in active : /\ l.task # NONE
                  /\ ~ \E t \in Task : IsClaimedWriter(rs, t) /\ LeaseMatchesRun(rs, l, t)}

\* writer_consistency_counts, as both of its callers test it.
Consistent(rs, active) == Orphaned(rs, active) = {} /\ Stale(rs, active) = {}

-----------------------------------------------------------------------------
(* reconciliation_claim *)

\* reserve_for_claim up to the registry: reads the durable runs and selects a
\* task, which it writes into the call's arguments.  t is the named task or
\* NONE.  An explicit claimed writer is recovered by its own owner and
\* executor or refused; a review and an empty choice go on with no
\* reservation.  A caller's kinds and the order of the candidates are left
\* open: any candidate may be the selected one.  A claim that could only name
\* completed tasks is left out: those never change again.
BeginClaim(c, o, e, p, t) ==
  LET explicitWriter == t # NONE /\ IsClaimedWriter(runs, t)
      candidates == {u \in PlanTasks(p) : Claimable(runs, u) /\ t \in {NONE, u}}
      Enter(pc, u) == calls' = [calls EXCEPT ![c] =
        [IdleCall EXCEPT !.pc = pc, !.owner = o, !.executor = e, !.plan = p, !.task = u]]
  IN /\ At(c, "idle")
     /\ t \in PlanTasks(p) \cup {NONE}
     /\ \/ explicitWriter /\ AlreadyClaimedBy(runs, t, o, e) /\ Enter("recover", t)
        \/ /\ ~ explicitWriter
           /\ \E u \in candidates :
                Enter(IF Kind[u] = "writer" THEN "reserve" ELSE "claim", u)
        \/ /\ ~ explicitWriter /\ candidates = {} /\ Enter("claim", t)
           /\ \E u \in PlanTasks(p) : t \in {NONE, u} /\ runs[u].status # "completed"
     /\ UNCHANGED <<runs, leases>>

\* The entry reserve_scoped adds: a recovered claim is bound to its task from
\* the start, any other is pending until after_tool.
Candidate(c) ==
  [owner |-> calls[c].owner, executor |-> calls[c].executor,
   task |-> IF At(c, "recover") THEN calls[c].task ELSE NONE,
   scopes |-> Scope[calls[c].task], holder |-> c]

\* Mutants of ReservationAdmitted: the owner is not compared; a recovery is
\* judged without asking whether its own entry would be stale.
ReservationIgnoringOwner(c) ==
  /\ Consistent(runs, IF At(c, "recover") THEN leases \cup {Candidate(c)} ELSE leases)
  /\ \A l \in leases : ~ WriteScopesConflict(l.scopes, Scope[calls[c].task])

ReservationIgnoringStale(c) ==
  /\ Orphaned(runs, IF At(c, "recover") THEN leases \cup {Candidate(c)} ELSE leases) = {}
  /\ \A l \in leases : /\ l.owner # calls[c].owner
                       /\ ~ WriteScopesConflict(l.scopes, Scope[calls[c].task])

ReservationAdmitted(c) ==
  /\ Consistent(runs, IF At(c, "recover") THEN leases \cup {Candidate(c)} ELSE leases)
  /\ \A l \in leases : /\ l.owner # calls[c].owner
                       /\ ~ WriteScopesConflict(l.scopes, Scope[calls[c].task])

\* reserve_scoped: one critical section of the registry's mutex, which reads
\* the durable runs again.
ReserveScoped(c) ==
  /\ calls[c].pc \in {"reserve", "recover"}
  /\ IF ReservationAdmitted(c)
     THEN leases' = leases \cup {Candidate(c)} /\ GoTo(c, "claim")
     ELSE leases' = leases /\ Return(c)
  /\ UNCHANGED runs

\* Where the operation of a call hands its result: to after_tool, or to
\* nobody when the caller is gone.
Deliver(c, t, pc) ==
  IF calls[c].pc \in {"claim_detached", "submit_detached"}
  THEN Return(c)
  ELSE Advance(c, pc, t, calls[c].view)

\* reconciliation_claim_owned, the transaction on the plan's execution.  With
\* no task selected any claimable task of the plan is taken.  The claim may be
\* refused, and a failed write may or may not have taken effect.
PerformClaim(c) ==
  LET k == calls[c]
  IN /\ k.pc \in {"claim", "claim_detached"}
     /\ UNCHANGED leases
     /\ \/ \E t \in PlanTasks(k.plan) :
             /\ \/ k.task = NONE /\ Claimable(runs, t)
                \/ k.task = t /\ (Claimable(runs, t)
                                  \/ AlreadyClaimedBy(runs, t, k.owner, k.executor))
             /\ runs' = ClaimRuns(runs, t, k.owner, k.executor)
             /\ \/ Deliver(c, t, "claimed")
                \/ "io" \in Faults /\ Deliver(c, k.task, "claim_failed")
        \/ UNCHANGED runs /\ Deliver(c, k.task, "claim_failed")

\* after_tool of a claim: finalize the reservation with the claimed task, or
\* cancel it.
FinishClaim(c) ==
  /\ \/ /\ At(c, "claimed")
        /\ leases' = {IF l.holder = c THEN [l EXCEPT !.task = calls[c].task, !.holder = NONE]
                                      ELSE l : l \in leases}
     \/ /\ At(c, "claim_failed")
        /\ leases' = {l \in leases : l.holder # c}
  /\ Return(c)
  /\ UNCHANGED runs

-----------------------------------------------------------------------------
(* reconciliation_submit and reconciliation_retry *)

\* before_tool of a submission loads the run; only a run that is claimed at
\* this moment is checked against the leases.
BeginSubmit(c, o, e, t) ==
  /\ At(c, "idle")
  /\ calls' = [calls EXCEPT ![c] =
       [IdleCall EXCEPT !.pc = IF IsClaimedWriter(runs, t) THEN "view" ELSE "submit",
                        !.owner = o, !.executor = e, !.plan = PlanOf[t], !.task = t,
                        !.release = (Kind[t] = "writer" /\ runs[t].owner # NONE)]]
  /\ UNCHANGED <<runs, leases>>

\* enforce_submission clones the leases under the mutex...
ViewLeases(c) ==
  /\ At(c, "view")
  /\ Advance(c, "check_submit", calls[c].task, leases)
  /\ UNCHANGED <<runs, leases>>

\* ... and then compares the clone with the durable runs.
EnforceSubmission(c) ==
  LET k == calls[c]
      admitted == /\ Consistent(runs, k.view)
                  /\ \E l \in k.view : l.owner = k.owner /\ l.task = k.task
  IN /\ At(c, "check_submit")
     /\ IF admitted THEN Advance(c, "submit", k.task, {})
                    ELSE Return(c)
     /\ UNCHANGED <<runs, leases>>

\* reconciliation_submit: the run changes first, the evidence record is
\* written after it and may fail.
PerformSubmit(c) ==
  LET k == calls[c]
  IN /\ k.pc \in {"submit", "submit_detached"}
     /\ UNCHANGED leases
     /\ \/ /\ SubmitAccepted(runs, k.task, k.executor)
           /\ \E success \in BOOLEAN : runs' = SubmitRuns(runs, k.task, success)
           /\ \/ Deliver(c, k.task, "submitted")
              \/ "io" \in Faults /\ Return(c)
        \/ UNCHANGED runs /\ Return(c)

\* after_tool of a successful submission: release_for_run.
FinishSubmit(c) ==
  LET k == calls[c]
  IN /\ At(c, "submitted")
     /\ leases' = IF k.release
                  THEN {l \in leases : ~ (l.owner = k.owner /\ l.task = k.task)}
                  ELSE leases
     /\ Return(c)
     /\ UNCHANGED runs

\* reconciliation_retry takes no part in the lease protocol.
Retry(t) ==
  /\ RetryAccepted(runs, t)
  /\ runs' = RetryRuns(runs, t)
  /\ UNCHANGED <<leases, calls>>

-----------------------------------------------------------------------------
(* File tools and workspace-mutating commands *)

\* enforce_mutation_paths clones the leases under the mutex...
BeginMutation(c, o, paths) ==
  /\ At(c, "idle")
  /\ calls' = [calls EXCEPT ![c] =
       [IdleCall EXCEPT !.pc = "check_mutation", !.owner = o, !.paths = paths,
                        !.view = leases]]
  /\ UNCHANGED <<runs, leases>>

\* A scoped writer may touch the paths of its scopes, a command needs the
\* whole domain, and a domain without writers is open to everyone.
ScopesAdmit(view, o, paths) ==
  LET owned == {l \in view : l.owner = o /\ l.task # NONE}
  IN \/ view = {}
     \/ paths = NONE /\ \E l \in owned : l.scopes = {}
     \/ /\ paths # NONE /\ owned # {}
        /\ \A p \in paths : \E l \in owned : ScopesAllowPath(l.scopes, p)

\* Mutants of Admits: the durable runs are not consulted at all; or only for
\* claims without a lease, not for leases without a claim.
AdmitsByLeasesAlone(rs, view, o, paths) == ScopesAdmit(view, o, paths)

AdmitsIgnoringStale(rs, view, o, paths) ==
  Orphaned(rs, view) = {} /\ ScopesAdmit(view, o, paths)

Admits(rs, view, o, paths) == Consistent(rs, view) /\ ScopesAdmit(view, o, paths)

\* ... and compares the clone with the durable runs.
EnforceMutation(c) ==
  LET k == calls[c]
  IN /\ At(c, "check_mutation")
     /\ IF Admits(runs, k.view, k.owner, k.paths)
        THEN Advance(c, "mutate", k.task, {})
        ELSE Return(c)
     /\ UNCHANGED <<runs, leases>>

\* The admitted operation reaches the files, after its wait for a permit.
PerformMutation(c) ==
  /\ At(c, "mutate")
  /\ Return(c)
  /\ UNCHANGED <<runs, leases>>

-----------------------------------------------------------------------------
(* Faults *)

\* The caller's future is dropped, or its wait for a permit times out: after
\* that after_tool never runs and nobody holds the reservation.  A blocking
\* worker that has started goes on.
Abandon(c) ==
  /\ "abandon" \in Faults
  /\ calls[c].pc \in {"claim", "submit", "mutate"}
  /\ \/ Return(c)
     \/ At(c, "claim") /\ GoTo(c, "claim_detached")
     \/ At(c, "submit") /\ GoTo(c, "submit_detached")
  /\ leases' = {IF l.holder = c THEN [l EXCEPT !.holder = NONE] ELSE l : l \in leases}
  /\ UNCHANGED runs

\* The process restarts: leases and calls are gone, the runs are not.
Crash ==
  /\ "crash" \in Faults
  /\ leases' = {}
  /\ calls' = [c \in Call |-> IdleCall]
  /\ UNCHANGED runs

-----------------------------------------------------------------------------
Proceed(c) ==
  \/ ReserveScoped(c)
  \/ PerformClaim(c)
  \/ FinishClaim(c)
  \/ ViewLeases(c)
  \/ EnforceSubmission(c)
  \/ PerformSubmit(c)
  \/ FinishSubmit(c)
  \/ EnforceMutation(c)
  \/ PerformMutation(c)

Next ==
  \/ \E c \in Call, o \in Owner, e \in Executor, p \in Plan, t \in Task \cup {NONE} :
       BeginClaim(c, o, e, p, t)
  \/ \E c \in Call, o \in Owner, e \in Executor, t \in Task : BeginSubmit(c, o, e, t)
  \/ \E c \in Call, o \in Owner, paths \in MutationPaths \cup {NONE} :
       BeginMutation(c, o, paths)
  \/ \E c \in Call : Proceed(c) \/ Abandon(c)
  \/ \E t \in Task : Retry(t)
  \/ Crash

Spec == Init /\ [][Next]_vars

\* The runtime keeps polling a call it has admitted, until the call returns.
FairSpec == Spec /\ \A c \in Call : WF_vars(Proceed(c))

-----------------------------------------------------------------------------
(* Properties *)

Disciplined(ls) ==
  \A l, k \in ls : l # k => /\ l.owner # k.owner
                            /\ ~ WriteScopesConflict(l.scopes, k.scopes)

\* Every variable keeps to its type.
TypeOK ==
  /\ runs \in [Task -> Run]
  /\ leases \in SUBSET Lease
  /\ calls \in [Call -> CallState]

\* One owner holds at most one lease, active or pending, and no two leases
\* overlap, whatever calls were abandoned, recovered or raced each other:
\* reserve_scoped (writer.rs) decides both under one lock.
LeaseDiscipline == Disciplined(leases)

Admitted(c) == At(c, "check_mutation") /\ calls'[c].pc = "mutate"

\* When a mutation is admitted, no path of it lies in the scope of a task that
\* another owner has durably claimed, and a command is admitted only when no
\* other owner has claimed any: enforce_mutation_paths compares a clone of the
\* leases that may be out of date with durable runs that may have moved on,
\* also after a restart and with claims that never got a lease.
AdmissionExclusive ==
  [][\A c \in Call : Admitted(c) =>
       \A t \in Task :
         IsClaimedWriter(runs, t) /\ runs[t].owner # calls[c].owner
         => /\ calls[c].paths # NONE
            /\ \A p \in calls[c].paths : ~ ScopesAllowPath(Scope[t], p)]_vars

\* When a mutation is admitted, either no writer task is claimed at all or the
\* caller has durably claimed the task whose scopes cover it: a lease stops
\* authorizing as soon as its task is no longer claimed, before its release.
AdmissionCovered ==
  [][\A c \in Call : Admitted(c) =>
       \/ \A t \in Task : ~ IsClaimedWriter(runs, t)
       \/ \E t \in Task :
            /\ IsClaimedWriter(runs, t) /\ runs[t].owner = calls[c].owner
            /\ IF calls[c].paths = NONE
               THEN Scope[t] = {}
               ELSE \A p \in calls[c].paths : ScopesAllowPath(Scope[t], p)]_vars

\* A lease that is bound to its task from the start was recovered by the owner
\* and executor of a run that is claimed at that very moment, although the run
\* was read, and the call let through, some steps earlier.
RecoveredLeaseIsBound ==
  [][\A l \in leases' :
       l.task # NONE /\ (\A k \in leases : k.owner # l.owner)
       => IsClaimedWriter(runs, l.task) /\ LeaseMatchesRun(runs, l, l.task)]_vars

\* The leases are a table of exclusive scope locks that only a reservation
\* takes, and only a release, a cancelled reservation or a restart drops; no
\* step moves a lock from one owner to another or changes its scopes.
Locks == INSTANCE ScopeLocks WITH
           ScopeSets <- {Scope[t] : t \in Task},
           held <- {[owner |-> l.owner, scopes |-> l.scopes] : l \in leases}

ImplementsScopeLocks == Locks!Spec

-----------------------------------------------------------------------------
(* The inductive invariant of the theorems *)

\* What a call knows once it has left the idle state.
Knows(k) ==
  /\ k.pc # "idle" => k.owner \in Owner
  /\ k.pc \notin {"idle", "check_mutation", "mutate"}
       => k.executor \in Executor /\ k.plan \in Plan
  /\ k.pc \in {"reserve", "recover", "claimed", "view", "check_submit", "submit",
               "submit_detached", "submitted"} => k.task \in Task

CallOK == \A c \in Call : Knows(calls[c])

\* Every lease has the scopes of a task, of its own once it has one.
ScopesBound(ls) ==
  \A l \in ls : \E t \in Task : l.scopes = Scope[t] /\ l.task \in {NONE, t}

\* A reservation handle is held by the claim that took it, for its task.
HolderOK ==
  \A l \in leases : l.holder # NONE =>
    LET k == calls[l.holder]
    IN /\ k.pc \in {"claim", "claimed", "claim_failed"}
       /\ k.task \in Task /\ l.scopes = Scope[k.task] /\ l.owner = k.owner

\* Every reservation is in the hands of the claim that made it, and every clone
\* of the leases a check still works on was a disciplined set of leases.
ReservationsAccounted ==
  /\ CallOK
  /\ HolderOK
  /\ LeaseDiscipline /\ ScopesBound(leases)
  /\ \A c \in Call : Disciplined(calls[c].view) /\ ScopesBound(calls[c].view)

-----------------------------------------------------------------------------
(* Statements of the repository's documents that the code does not keep *)

\* v0.8.4.md: after a restart the bound owner and executor can reclaim.  In a
\* domain without leases the recovery of a claimed writer must be admitted.
RestartReclaimSucceeds ==
  leases = {} =>
    \A t \in Task : IsClaimedWriter(runs, t) =>
      Consistent(runs, {[owner |-> runs[t].owner, executor |-> runs[t].by, task |-> t,
                         scopes |-> Scope[t], holder |-> NONE]})

\* constraints.yaml: every file mutation stays inside its owner's scopes.  An
\* admitted mutation may reach the files in any state from here on.
MutationStaysOwned ==
  \A c \in Call : At(c, "mutate") =>
    \A t \in Task :
      IsClaimedWriter(runs, t) /\ runs[t].owner # calls[c].owner
      => /\ calls[c].paths # NONE
         /\ \A p \in calls[c].paths : ~ ScopesAllowPath(Scope[t], p)

\* multi_agent.yaml: a failed claim releases its lease.  No owner stays
\* pending for ever.
Pending(o) == \E l \in leases : l.owner = o /\ l.task = NONE
PendingClaimsResolve == \A o \in Owner : Pending(o) ~> ~ Pending(o)

=============================================================================
