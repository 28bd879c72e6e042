-------------------------- MODULE WriterLease_proofs --------------------------
(***************************************************************************)
(* The safety of the writer leases, for any tasks, owners, calls and       *)
(* faults; and what disciplined leases buy: an admitted mutation stays out *)
(* of every other owner's claimed scopes and inside its own, a recovered   *)
(* lease belongs to a claimed run, and the leases implement the table of   *)
(* scope locks.                                                            *)
(***************************************************************************)
EXTENDS WriterLease, Scopes_proofs

Inv == TypeOK /\ ReservationsAccounted

-----------------------------------------------------------------------------
(* Typing *)

\* An idle call is a call.
LEMMA IdleCallType == IdleCall \in CallState
BY DEF IdleCall, CallState, PC

\* The initial runs are runs.
LEMMA FreshRunsType == FreshRuns \in [Task -> Run]
BY DEF FreshRuns, PendingRun, Run, Status

\* The tasks of a plan are tasks.
LEMMA PlanTaskType ==
  ASSUME NEW p, NEW t \in PlanTasks(p)
  PROVE  t \in Task /\ PlanOf[t] \in Plan
BY PlanAssumption DEF PlanTasks

\* The initial states are of their types.
LEMMA InitTypeOK == Init => TypeOK
BY IdleCallType, FreshRunsType DEF Init, TypeOK

\* A reservation is a lease of the caller.
LEMMA CandidateType ==
  ASSUME TypeOK, CallOK, NEW c \in Call, calls[c].pc \in {"reserve", "recover"}
  PROVE  /\ Candidate(c) \in Lease
         /\ Candidate(c).owner = calls[c].owner
         /\ Candidate(c).scopes = Scope[calls[c].task]
         /\ Candidate(c).task \in {NONE, calls[c].task}
         /\ Candidate(c).holder = c
         /\ calls[c].task \in Task
<1>1. /\ calls[c].task \in Task /\ calls[c].owner \in Owner /\ calls[c].executor \in Executor
  BY DEF CallOK, Knows
<1>2. Scope[calls[c].task] \in SUBSET Path
  BY <1>1, PlanAssumption
<1> QED BY <1>1, <1>2 DEF Candidate, Lease

\* What a step of a claim or submission writes into the runs is a run.
LEMMA RunsTypes ==
  ASSUME TypeOK, NEW t \in Task
  PROVE  /\ \A o \in Owner, e \in Executor : ClaimRuns(runs, t, o, e) \in [Task -> Run]
         /\ \A success \in BOOLEAN : SubmitRuns(runs, t, success) \in [Task -> Run]
         /\ RetryRuns(runs, t) \in [Task -> Run]
<1>1. runs \in [Task -> Run]
  BY DEF TypeOK
<1>2. \A o \in Owner, e \in Executor : ClaimRuns(runs, t, o, e) \in [Task -> Run]
  BY <1>1, PlanAssumption DEF ClaimRuns, Run, Status
<1>3. RetryRuns(runs, t) \in [Task -> Run]
  BY <1>1 DEF RetryRuns, PendingRun, Run, Status
<1>4. ASSUME NEW success \in BOOLEAN
      PROVE  SubmitRuns(runs, t, success) \in [Task -> Run]
  BY <1>1 DEF SubmitRuns, Run, Status
<1> QED BY <1>2, <1>3, <1>4

\* A call is replaced by one of the right type that knows what it must.
LEMMA CallReplaced ==
  ASSUME TypeOK, CallOK, NEW c \in Call, NEW k \in CallState, Knows(k),
         calls' = [calls EXCEPT ![c] = k]
  PROVE  calls' \in [Call -> CallState] /\ CallOK'
<1>1. calls' \in [Call -> CallState]
  BY DEF TypeOK
<1>2. \A d \in Call : calls'[d] = IF d = c THEN k ELSE calls[d]
  BY DEF TypeOK
<1> QED BY <1>1, <1>2 DEF CallOK

\* A call moves on with a new pc, task and view.
LEMMA CallMoves ==
  ASSUME TypeOK, CallOK, NEW c \in Call, ~ At(c, "idle"),
         NEW pc \in PC, NEW t \in Task \cup {NONE}, NEW view \in SUBSET Lease,
         pc \notin {"check_mutation", "mutate"}
           => calls[c].executor \in Executor /\ calls[c].plan \in Plan,
         pc \in {"reserve", "recover", "claimed", "view", "check_submit", "submit",
                 "submit_detached", "submitted"} => t \in Task,
         Advance(c, pc, t, view)
  PROVE  calls' \in [Call -> CallState] /\ CallOK'
<1> DEFINE k == [calls[c] EXCEPT !.pc = pc, !.task = t, !.view = view]
<1>1. calls[c] \in CallState /\ calls[c].owner \in Owner
  BY DEF TypeOK, CallOK, Knows, At
<1>2. k \in CallState
  BY <1>1 DEF CallState
<1>3. /\ k.pc = pc /\ k.task = t /\ k.owner = calls[c].owner
      /\ k.executor = calls[c].executor /\ k.plan = calls[c].plan
  BY <1>1 DEF CallState
<1>4. Knows(k)
  BY <1>1, <1>3 DEF Knows
<1>5. calls' = [calls EXCEPT ![c] = k]
  BY DEF Advance
<1> QED BY <1>2, <1>4, <1>5, CallReplaced

\* A returning call keeps what the calls know.
LEMMA CallReturns ==
  ASSUME TypeOK, CallOK, NEW c \in Call, Return(c)
  PROVE  calls' \in [Call -> CallState] /\ CallOK'
<1>1. Knows(IdleCall)
  BY DEF Knows, IdleCall
<1> QED BY <1>1, IdleCallType, CallReplaced DEF Return

\* What an unfinished claim or submission knows.
LEMMA CallFields ==
  ASSUME TypeOK, CallOK, NEW c \in Call
  PROVE  /\ calls[c].task \in Task \cup {NONE} /\ calls[c].view \in SUBSET Lease
         /\ calls[c].pc \notin {"idle", "check_mutation", "mutate"}
              => calls[c].executor \in Executor /\ calls[c].plan \in Plan
         /\ calls[c].pc \in {"reserve", "recover", "claimed", "view", "check_submit",
                             "submit", "submit_detached", "submitted"}
              => calls[c].task \in Task
BY DEF TypeOK, CallOK, Knows, CallState

\* Every step keeps the calls within their type and knowledge.
LEMMA CallTypeStep ==
  ASSUME TypeOK, CallOK, [Next]_vars
  PROVE  calls' \in [Call -> CallState] /\ CallOK'
<1> DEFINE Goal == calls' \in [Call -> CallState] /\ CallOK'
<1>0. /\ calls \in [Call -> CallState] /\ leases \in SUBSET Lease
      /\ \A d \in Call : calls[d] \in CallState
  BY DEF TypeOK
<1>1. ASSUME NEW c \in Call, NEW o \in Owner, NEW e \in Executor, NEW p \in Plan,
             NEW t \in Task \cup {NONE}, BeginClaim(c, o, e, p, t)
      PROVE  Goal
  <2>1. PICK pc \in {"recover", "reserve", "claim"}, u \in Task \cup {NONE} :
          /\ calls' = [calls EXCEPT ![c] =
               [IdleCall EXCEPT !.pc = pc, !.owner = o, !.executor = e, !.plan = p, !.task = u]]
          /\ pc # "claim" => u \in Task
    <3>1. CASE /\ t # NONE
               /\ calls' = [calls EXCEPT ![c] =
                    [IdleCall EXCEPT !.pc = "recover", !.owner = o, !.executor = e,
                                     !.plan = p, !.task = t]]
      BY <3>1
    <3>2. CASE \E u \in {v \in PlanTasks(p) : Claimable(runs, v) /\ t \in {NONE, v}} :
                 calls' = [calls EXCEPT ![c] =
                    [IdleCall EXCEPT !.pc = IF Kind[u] = "writer" THEN "reserve" ELSE "claim",
                                     !.owner = o, !.executor = e, !.plan = p, !.task = u]]
      BY <3>2, PlanTaskType
    <3>3. CASE calls' = [calls EXCEPT ![c] =
                    [IdleCall EXCEPT !.pc = "claim", !.owner = o, !.executor = e,
                                     !.plan = p, !.task = t]]
      BY <3>3
    <3> QED BY <1>1, <3>1, <3>2, <3>3 DEF BeginClaim
  <2> DEFINE k == [IdleCall EXCEPT !.pc = pc, !.owner = o, !.executor = e, !.plan = p,
                                   !.task = u]
  <2>2. k \in CallState
    BY DEF IdleCall, CallState, PC
  <2>3. Knows(k)
    BY <2>1 DEF IdleCall, Knows
  <2> QED BY <2>1, <2>2, <2>3, CallReplaced
<1>2. ASSUME NEW c \in Call, NEW o \in Owner, NEW e \in Executor, NEW t \in Task,
             BeginSubmit(c, o, e, t)
      PROVE  Goal
  <2>1. PICK pc \in {"view", "submit"}, release \in BOOLEAN :
          calls' = [calls EXCEPT ![c] =
            [IdleCall EXCEPT !.pc = pc, !.owner = o, !.executor = e, !.plan = PlanOf[t],
                             !.task = t, !.release = release]]
    BY <1>2 DEF BeginSubmit
  <2> DEFINE k == [IdleCall EXCEPT !.pc = pc, !.owner = o, !.executor = e, !.plan = PlanOf[t],
                                   !.task = t, !.release = release]
  <2>2. PlanOf[t] \in Plan
    BY PlanAssumption
  <2>3. k \in CallState
    BY <2>2 DEF IdleCall, CallState, PC
  <2>4. Knows(k)
    BY <2>2 DEF IdleCall, Knows
  <2> QED BY <2>1, <2>3, <2>4, CallReplaced
<1>3. ASSUME NEW c \in Call, NEW o \in Owner, NEW paths \in MutationPaths \cup {NONE},
             BeginMutation(c, o, paths)
      PROVE  Goal
  <2> DEFINE k == [IdleCall EXCEPT !.pc = "check_mutation", !.owner = o, !.paths = paths,
                                   !.view = leases]
  <2>1. k \in CallState
    BY <1>0 DEF IdleCall, CallState, PC
  <2>2. Knows(k)
    BY DEF IdleCall, Knows
  <2> QED BY <1>3, <2>1, <2>2, CallReplaced DEF BeginMutation
<1>4. ASSUME NEW c \in Call, ReserveScoped(c)
      PROVE  Goal
  <2>1. CASE Return(c)
    BY <2>1, CallReturns
  <2>2. CASE GoTo(c, "claim")
    BY <1>4, <2>2, CallFields, CallMoves DEF ReserveScoped, GoTo, At, PC
  <2> QED BY <1>4, <2>1, <2>2 DEF ReserveScoped
<1>5. ASSUME NEW c \in Call, PerformClaim(c)
      PROVE  Goal
  <2>1. CASE Return(c)
    BY <2>1, CallReturns
  <2>2. ASSUME NEW t \in PlanTasks(calls[c].plan), Advance(c, "claimed", t, calls[c].view)
        PROVE  Goal
    BY <1>5, <2>2, PlanTaskType, CallFields, CallMoves DEF PerformClaim, At, PC
  <2>3. CASE Advance(c, "claim_failed", calls[c].task, calls[c].view)
    BY <1>5, <2>3, CallFields, CallMoves DEF PerformClaim, At, PC
  <2> QED BY <1>5, <2>1, <2>2, <2>3 DEF PerformClaim, Deliver
<1>6. ASSUME NEW c \in Call, FinishClaim(c) \/ FinishSubmit(c) \/ PerformMutation(c)
      PROVE  Goal
  BY <1>6, CallReturns DEF FinishClaim, FinishSubmit, PerformMutation
<1>7. ASSUME NEW c \in Call, ViewLeases(c)
      PROVE  Goal
  BY <1>0, <1>7, CallFields, CallMoves DEF ViewLeases, At, PC
<1>8. ASSUME NEW c \in Call, EnforceSubmission(c)
      PROVE  Goal
  <2>1. CASE Return(c)
    BY <2>1, CallReturns
  <2>2. CASE Advance(c, "submit", calls[c].task, {})
    BY <1>8, <2>2, CallFields, CallMoves DEF EnforceSubmission, At, PC
  <2> QED BY <1>8, <2>1, <2>2 DEF EnforceSubmission
<1>9. ASSUME NEW c \in Call, PerformSubmit(c)
      PROVE  Goal
  <2>1. CASE Return(c)
    BY <2>1, CallReturns
  <2>2. CASE Advance(c, "submitted", calls[c].task, calls[c].view)
    BY <1>9, <2>2, CallFields, CallMoves DEF PerformSubmit, At, PC
  <2> QED BY <1>9, <2>1, <2>2 DEF PerformSubmit, Deliver
<1>10. ASSUME NEW c \in Call, EnforceMutation(c)
       PROVE  Goal
  <2>1. CASE Return(c)
    BY <2>1, CallReturns
  <2>2. CASE Advance(c, "mutate", calls[c].task, {})
    BY <1>10, <2>2, CallFields, CallMoves DEF EnforceMutation, At, PC
  <2> QED BY <1>10, <2>1, <2>2 DEF EnforceMutation
<1>11. ASSUME NEW c \in Call, Abandon(c)
       PROVE  Goal
  <2>1. CASE Return(c)
    BY <2>1, CallReturns
  <2>2. CASE At(c, "claim") /\ GoTo(c, "claim_detached")
    BY <2>2, CallFields, CallMoves DEF GoTo, At, PC
  <2>3. CASE At(c, "submit") /\ GoTo(c, "submit_detached")
    BY <2>3, CallFields, CallMoves DEF GoTo, At, PC
  <2> QED BY <1>11, <2>1, <2>2, <2>3 DEF Abandon
<1>12. CASE (\E t \in Task : Retry(t)) \/ UNCHANGED vars
  BY <1>0, <1>12 DEF Retry, vars, CallOK
<1>13. CASE Crash
  <2>1. Knows(IdleCall)
    BY DEF Knows, IdleCall
  <2> QED BY <1>13, <2>1, IdleCallType DEF Crash, CallOK
<1> QED
  BY <1>1, <1>2, <1>3, <1>4, <1>5, <1>6, <1>7, <1>8, <1>9, <1>10, <1>11, <1>12, <1>13
  DEF Next, Proceed


-----------------------------------------------------------------------------
(* The runs and the leases keep their types *)

\* The steps that change the runs, and those that change the leases.
LEMMA RunsWriters ==
  ASSUME [Next]_vars
  PROVE  \/ \E c \in Call : PerformClaim(c) \/ PerformSubmit(c)
         \/ \E t \in Task : Retry(t)
         \/ UNCHANGED runs
<1>1. ASSUME NEW c \in Call, Proceed(c)
      PROVE  PerformClaim(c) \/ PerformSubmit(c) \/ UNCHANGED runs
  BY <1>1 DEF Proceed, ReserveScoped, FinishClaim, ViewLeases, EnforceSubmission, FinishSubmit,
              EnforceMutation, PerformMutation
<1>2. ASSUME NEW c \in Call, NEW o \in Owner, NEW e \in Executor, NEW p \in Plan,
             NEW t \in Task \cup {NONE}, BeginClaim(c, o, e, p, t)
      PROVE  UNCHANGED runs
  BY <1>2 DEF BeginClaim
<1>3. ASSUME NEW c \in Call, NEW o \in Owner, NEW e \in Executor, NEW t \in Task,
             BeginSubmit(c, o, e, t)
      PROVE  UNCHANGED runs
  BY <1>3 DEF BeginSubmit
<1>4. ASSUME NEW c \in Call, NEW o \in Owner, NEW paths \in MutationPaths \cup {NONE},
             BeginMutation(c, o, paths)
      PROVE  UNCHANGED runs
  BY <1>4 DEF BeginMutation
<1>5. ASSUME NEW c \in Call, Abandon(c)
      PROVE  UNCHANGED runs
  BY <1>5 DEF Abandon
<1> QED BY <1>1, <1>2, <1>3, <1>4, <1>5 DEF Next, vars, Crash

\* Only these actions change the leases.
LEMMA LeasesWriters ==
  ASSUME [Next]_vars
  PROVE  \/ \E c \in Call : \/ ReserveScoped(c) \/ FinishClaim(c)
                            \/ FinishSubmit(c) \/ Abandon(c)
         \/ Crash
         \/ UNCHANGED leases
<1>1. ASSUME NEW c \in Call, Proceed(c)
      PROVE  ReserveScoped(c) \/ FinishClaim(c) \/ FinishSubmit(c) \/ UNCHANGED leases
  BY <1>1 DEF Proceed, PerformClaim, ViewLeases, EnforceSubmission, PerformSubmit,
              EnforceMutation, PerformMutation
<1>2. ASSUME NEW c \in Call, NEW o \in Owner, NEW e \in Executor, NEW p \in Plan,
             NEW t \in Task \cup {NONE}, BeginClaim(c, o, e, p, t)
      PROVE  UNCHANGED leases
  BY <1>2 DEF BeginClaim
<1>3. ASSUME NEW c \in Call, NEW o \in Owner, NEW e \in Executor, NEW t \in Task,
             BeginSubmit(c, o, e, t)
      PROVE  UNCHANGED leases
  BY <1>3 DEF BeginSubmit
<1>4. ASSUME NEW c \in Call, NEW o \in Owner, NEW paths \in MutationPaths \cup {NONE},
             BeginMutation(c, o, paths)
      PROVE  UNCHANGED leases
  BY <1>4 DEF BeginMutation
<1>5. ASSUME NEW t \in Task, Retry(t)
      PROVE  UNCHANGED leases
  BY <1>5 DEF Retry
<1> QED BY <1>1, <1>2, <1>3, <1>4, <1>5 DEF Next, vars

\* Every step keeps the type of the runs.
LEMMA RunsTypeStep ==
  ASSUME TypeOK, CallOK, [Next]_vars
  PROVE  runs' \in [Task -> Run]
<1>1. ASSUME NEW c \in Call, PerformClaim(c)
      PROVE  runs' \in [Task -> Run]
  <2>1. calls[c].owner \in Owner /\ calls[c].executor \in Executor
    BY <1>1 DEF PerformClaim, CallOK, Knows
  <2>2. \A t \in PlanTasks(calls[c].plan) :
          ClaimRuns(runs, t, calls[c].owner, calls[c].executor) \in [Task -> Run]
    BY <2>1, PlanTaskType, RunsTypes
  <2> QED BY <1>1, <2>2 DEF PerformClaim, TypeOK
<1>2. ASSUME NEW c \in Call, PerformSubmit(c)
      PROVE  runs' \in [Task -> Run]
  BY <1>2, CallFields, RunsTypes DEF PerformSubmit, TypeOK
<1>3. ASSUME NEW t \in Task, Retry(t)
      PROVE  runs' \in [Task -> Run]
  BY <1>3, RunsTypes DEF Retry
<1>4. CASE UNCHANGED runs
  BY <1>4 DEF TypeOK
<1> QED BY <1>1, <1>2, <1>3, <1>4, RunsWriters

\* Every step keeps the type of the leases.
LEMMA LeasesTypeStep ==
  ASSUME TypeOK, CallOK, [Next]_vars
  PROVE  leases' \in SUBSET Lease
<1>1. ASSUME NEW c \in Call, ReserveScoped(c)
      PROVE  leases' \in SUBSET Lease
  BY <1>1, CandidateType DEF ReserveScoped, TypeOK
<1>2. ASSUME NEW c \in Call, FinishClaim(c)
      PROVE  leases' \in SUBSET Lease
  <2>1. CASE At(c, "claimed")
    <3>1. calls[c].task \in Task
      BY <2>1, CallFields DEF At
    <3>2. \A l \in leases : [l EXCEPT !.task = calls[c].task, !.holder = NONE] \in Lease
      BY <3>1 DEF TypeOK, Lease
    <3>3. \A l \in leases : l \in Lease
      BY DEF TypeOK
    <3>4. \A l \in leases' :
            \E m \in leases : \/ l = m
                              \/ l = [m EXCEPT !.task = calls[c].task, !.holder = NONE]
      BY <1>2, <2>1 DEF FinishClaim, At
    <3> QED BY <3>2, <3>3, <3>4
  <2>2. CASE At(c, "claim_failed")
    BY <1>2, <2>2 DEF FinishClaim, At, TypeOK
  <2> QED BY <1>2, <2>1, <2>2 DEF FinishClaim
<1>3. ASSUME NEW c \in Call, FinishSubmit(c)
      PROVE  leases' \in SUBSET Lease
  BY <1>3 DEF FinishSubmit, TypeOK
<1>4. ASSUME NEW c \in Call, Abandon(c)
      PROVE  leases' \in SUBSET Lease
  <2>1. \A l \in leases : [l EXCEPT !.holder = NONE] \in Lease
    BY DEF TypeOK, Lease
  <2> QED BY <1>4, <2>1 DEF Abandon, TypeOK
<1>5. CASE Crash \/ UNCHANGED leases
  BY <1>5 DEF Crash, TypeOK
<1> QED BY <1>1, <1>2, <1>3, <1>4, <1>5, LeasesWriters

\* Every step keeps the types.
LEMMA TypeStep ==
  ASSUME TypeOK, CallOK, [Next]_vars
  PROVE  TypeOK'
BY RunsTypeStep, LeasesTypeStep, CallTypeStep DEF TypeOK

-----------------------------------------------------------------------------
(* The leases stay disciplined *)

\* The calls after a step of one call.
LEMMA AfterReturn ==
  ASSUME TypeOK, NEW c \in Call, Return(c)
  PROVE  \A d \in Call : calls'[d] = IF d = c THEN IdleCall ELSE calls[d]
BY DEF TypeOK, Return

\* What Advance leaves in the call and in the others.
LEMMA AfterAdvance ==
  ASSUME TypeOK, NEW c \in Call, NEW pc, NEW t, NEW view, Advance(c, pc, t, view)
  PROVE  /\ \A d \in Call : d # c => calls'[d] = calls[d]
         /\ calls'[c].pc = pc /\ calls'[c].task = t /\ calls'[c].view = view
         /\ calls'[c].owner = calls[c].owner
<1>1. calls \in [Call -> CallState] /\ calls[c] \in CallState
  BY DEF TypeOK
<1> DEFINE k == [calls[c] EXCEPT !.pc = pc, !.task = t, !.view = view]
<1>2. calls' = [calls EXCEPT ![c] = k]
  BY DEF Advance
<1>3. k.pc = pc /\ k.task = t /\ k.view = view /\ k.owner = calls[c].owner
  BY <1>1 DEF CallState
<1>4. calls'[c] = k /\ \A d \in Call : d # c => calls'[d] = calls[d]
  BY <1>1, <1>2
<1> QED BY <1>3, <1>4

\* A view that was disciplined and bound.
Sound(ls) == Disciplined(ls) /\ ScopesBound(ls)

\* Dropping leases keeps the rest sound.
LEMMA SubsetSound ==
  ASSUME NEW ls, NEW ms \in SUBSET ls, Sound(ls)
  PROVE  Sound(ms)
BY DEF Sound, Disciplined, ScopesBound

\* An empty table of leases is sound.
LEMMA NoLeasesSound == Sound({})
BY DEF Sound, Disciplined, ScopesBound

\* Every step keeps the leases sound.
LEMMA LeasesSoundStep ==
  ASSUME TypeOK, CallOK, HolderOK, Sound(leases), [Next]_vars
  PROVE  Sound(leases')
<1>0. \A l \in leases : l \in Lease
  BY DEF TypeOK
<1>1. ASSUME NEW c \in Call, ReserveScoped(c)
      PROVE  Sound(leases')
  <2>1. CASE leases' = leases
    BY <2>1
  <2>2. CASE ReservationAdmitted(c) /\ leases' = leases \cup {Candidate(c)}
    <3>1. /\ Candidate(c).owner = calls[c].owner
          /\ Candidate(c).scopes = Scope[calls[c].task]
          /\ Candidate(c).task \in {NONE, calls[c].task}
          /\ calls[c].task \in Task
      BY <1>1, CandidateType DEF ReserveScoped
    <3>2. \A l \in leases : /\ l.owner # Candidate(c).owner
                            /\ ~ WriteScopesConflict(l.scopes, Candidate(c).scopes)
                            /\ ~ WriteScopesConflict(Candidate(c).scopes, l.scopes)
      BY <2>2, <3>1, ConflictIsSymmetric DEF ReservationAdmitted
    <3>3. Disciplined(leases')
      BY <2>2, <3>2 DEF Sound, Disciplined
    <3>4. ScopesBound(leases')
      BY <2>2, <3>1 DEF Sound, ScopesBound
    <3> QED BY <3>3, <3>4 DEF Sound
  <2> QED BY <1>1, <2>1, <2>2 DEF ReserveScoped
<1>2. ASSUME NEW c \in Call, FinishClaim(c)
      PROVE  Sound(leases')
  <2>1. CASE At(c, "claimed")
    <3> DEFINE f(l) == IF l.holder = c THEN [l EXCEPT !.task = calls[c].task, !.holder = NONE]
                                       ELSE l
    <3>1. leases' = {f(l) : l \in leases}
      BY <1>2, <2>1 DEF FinishClaim, At
    <3>2. \A l \in leases : /\ f(l).owner = l.owner /\ f(l).scopes = l.scopes
                            /\ f(l).task = IF l.holder = c THEN calls[c].task ELSE l.task
      BY <1>0 DEF Lease
    <3> HIDE DEF f
    <3>3. Disciplined(leases')
      BY <3>1, <3>2 DEF Sound, Disciplined
    <3>4. \A l \in leases : l.holder = c => /\ calls[c].task \in Task
                                            /\ l.scopes = Scope[calls[c].task]
      BY WriterAssumption DEF HolderOK
    <3>5. ScopesBound(leases')
      BY <3>1, <3>2, <3>4 DEF Sound, ScopesBound
    <3> QED BY <3>3, <3>5 DEF Sound
  <2>2. CASE At(c, "claim_failed")
    BY <1>2, <2>2, SubsetSound DEF FinishClaim, At
  <2> QED BY <1>2, <2>1, <2>2 DEF FinishClaim
<1>3. ASSUME NEW c \in Call, FinishSubmit(c)
      PROVE  Sound(leases')
  BY <1>3, SubsetSound DEF FinishSubmit
<1>4. ASSUME NEW c \in Call, Abandon(c)
      PROVE  Sound(leases')
  <2> DEFINE f(l) == IF l.holder = c THEN [l EXCEPT !.holder = NONE] ELSE l
  <2>1. leases' = {f(l) : l \in leases}
    BY <1>4 DEF Abandon
  <2>2. \A l \in leases : f(l).owner = l.owner /\ f(l).scopes = l.scopes /\ f(l).task = l.task
    BY <1>0 DEF Lease
  <2> HIDE DEF f
  <2>3. Disciplined(leases')
    BY <2>1, <2>2 DEF Sound, Disciplined
  <2>4. ScopesBound(leases')
    BY <2>1, <2>2 DEF Sound, ScopesBound
  <2> QED BY <2>3, <2>4 DEF Sound
<1>5. CASE Crash
  BY <1>5, NoLeasesSound DEF Crash
<1>6. CASE UNCHANGED leases
  BY <1>6
<1> QED BY <1>1, <1>2, <1>3, <1>4, <1>5, <1>6, LeasesWriters

-----------------------------------------------------------------------------
(* Reservation handles *)

\* A step of a call that holds no reservation, or gives it up, leaves the
\* handles of the others valid.
LEMMA HolderKept ==
  ASSUME HolderOK, NEW c \in Call,
         \A d \in Call : d # c => calls'[d] = calls[d],
         \A l \in leases' : l.holder # NONE => l \in leases /\ l.holder # c /\ l.holder \in Call
  PROVE  HolderOK'
BY DEF HolderOK

\* A call outside these states holds no reservation.
LEMMA NoHandle ==
  ASSUME TypeOK, HolderOK, NEW c \in Call,
         calls[c].pc \notin {"claim", "claimed", "claim_failed"}
  PROVE  \A l \in leases : l.holder # NONE => l.holder # c /\ l.holder \in Call
BY DEF HolderOK, TypeOK, Lease

\* A step that leaves the leases alone and moves a call that holds none.
LEMMA HolderKeptByOthers ==
  ASSUME TypeOK, HolderOK, NEW c \in Call, UNCHANGED leases,
         calls[c].pc \notin {"claim", "claimed", "claim_failed"},
         \A d \in Call : d # c => calls'[d] = calls[d]
  PROVE  HolderOK'
BY NoHandle, HolderKept

\* A step that moves a call keeps the others where they are.
LEMMA OthersStay ==
  ASSUME TypeOK, NEW c \in Call, NEW k,
         \/ Return(c)
         \/ \E pc, t, view : Advance(c, pc, t, view)
         \/ calls' = [calls EXCEPT ![c] = k]
  PROVE  \A d \in Call : d # c => calls'[d] = calls[d]
BY DEF TypeOK, Return, Advance

\* Every step keeps each reservation with the claim that made it.
LEMMA HolderStep ==
  ASSUME TypeOK, CallOK, HolderOK, [Next]_vars
  PROVE  HolderOK'
<1>0. \A l \in leases : l \in Lease /\ l.holder \in Call \cup {NONE}
  BY DEF TypeOK, Lease
<1>1. ASSUME NEW c \in Call, NEW o \in Owner, NEW e \in Executor, NEW p \in Plan,
             NEW t \in Task \cup {NONE}, BeginClaim(c, o, e, p, t)
      PROVE  HolderOK'
  <2>1. PICK k : calls' = [calls EXCEPT ![c] = k]
    BY <1>1 DEF BeginClaim
  <2> QED BY <1>1, <2>1, OthersStay, HolderKeptByOthers DEF BeginClaim, At
<1>2. ASSUME NEW c \in Call, NEW o \in Owner, NEW e \in Executor, NEW t \in Task,
             BeginSubmit(c, o, e, t)
      PROVE  HolderOK'
  <2>1. PICK k : calls' = [calls EXCEPT ![c] = k]
    BY <1>2 DEF BeginSubmit
  <2> QED BY <1>2, <2>1, OthersStay, HolderKeptByOthers DEF BeginSubmit, At
<1>3. ASSUME NEW c \in Call, NEW o \in Owner, NEW paths \in MutationPaths \cup {NONE},
             BeginMutation(c, o, paths)
      PROVE  HolderOK'
  <2>1. PICK k : calls' = [calls EXCEPT ![c] = k]
    BY <1>3 DEF BeginMutation
  <2> QED BY <1>3, <2>1, OthersStay, HolderKeptByOthers DEF BeginMutation, At
<1>4. ASSUME NEW c \in Call, ReserveScoped(c)
      PROVE  HolderOK'
  <2>1. \A l \in leases : l.holder # NONE => l.holder # c /\ l.holder \in Call
    BY <1>4, NoHandle DEF ReserveScoped
  <2>2. CASE leases' = leases /\ Return(c)
    BY <2>1, <2>2, OthersStay, HolderKept
  <2>3. CASE leases' = leases \cup {Candidate(c)} /\ GoTo(c, "claim")
    <3>1. /\ Candidate(c).holder = c /\ calls[c].task \in Task
          /\ Candidate(c).owner = calls[c].owner /\ Candidate(c).scopes = Scope[calls[c].task]
      BY <1>4, CandidateType DEF ReserveScoped
    <3>2. /\ calls'[c].pc = "claim" /\ calls'[c].task = calls[c].task
          /\ calls'[c].owner = calls[c].owner
          /\ \A d \in Call : d # c => calls'[d] = calls[d]
      BY <2>3, AfterAdvance DEF GoTo
    <3> QED BY <2>1, <2>3, <3>1, <3>2 DEF HolderOK
  <2> QED BY <1>4, <2>2, <2>3 DEF ReserveScoped
<1>5. ASSUME NEW c \in Call, PerformClaim(c)
      PROVE  HolderOK'
  <2>1. CASE Return(c)
    <3>1. CASE At(c, "claim_detached")
      BY <1>5, <2>1, <3>1, OthersStay, HolderKeptByOthers DEF PerformClaim, At
    <3>2. CASE ~ At(c, "claim_detached")
      <4>1. calls'[c].pc = "idle"
        BY <2>1, AfterReturn DEF IdleCall
      <4>2. \E t, pc : pc \in {"claimed", "claim_failed"} /\ Advance(c, pc, t, calls[c].view)
        BY <1>5, <3>2 DEF PerformClaim, Deliver, At
      <4> QED BY <4>1, <4>2, AfterAdvance
    <3> QED BY <3>1, <3>2
  <2>2. ASSUME NEW t, NEW pc \in {"claimed", "claim_failed"}, Advance(c, pc, t, calls[c].view),
               calls[c].task \in {NONE, t}
        PROVE  HolderOK'
    <3>1. /\ calls'[c].pc = pc /\ calls'[c].task = t /\ calls'[c].owner = calls[c].owner
          /\ \A d \in Call : d # c => calls'[d] = calls[d]
      BY <2>2, AfterAdvance
    <3>2. leases' = leases
      BY <1>5 DEF PerformClaim
    <3>3. ASSUME NEW l \in leases, l.holder = c
          PROVE  calls[c].task \in Task /\ l.scopes = Scope[t] /\ l.owner = calls[c].owner
                 /\ t = calls[c].task
      <4>1. c # NONE
        BY WriterAssumption
      <4>2. /\ calls[c].task \in Task /\ l.scopes = Scope[calls[c].task]
            /\ l.owner = calls[c].owner
        BY <3>3, <4>1 DEF HolderOK
      <4> QED BY <2>2, <4>2, PlanAssumption
    <3> QED BY <1>0, <3>1, <3>2, <3>3 DEF HolderOK
  <2> QED BY <1>5, <2>1, <2>2 DEF PerformClaim, Deliver
<1>6. ASSUME NEW c \in Call, FinishClaim(c)
      PROVE  HolderOK'
  <2>1. \A l \in leases' : l.holder # NONE => l \in leases /\ l.holder # c
    <3>1. \A l \in leases : [l EXCEPT !.task = calls[c].task, !.holder = NONE].holder = NONE
      BY <1>0 DEF Lease
    <3> QED BY <1>6, <3>1 DEF FinishClaim, At
  <2> QED BY <1>0, <1>6, <2>1, OthersStay, HolderKept DEF FinishClaim
<1>7. ASSUME NEW c \in Call, ViewLeases(c) \/ EnforceSubmission(c) \/ PerformSubmit(c)
                              \/ EnforceMutation(c) \/ PerformMutation(c)
      PROVE  HolderOK'
  <2>1. calls[c].pc \notin {"claim", "claimed", "claim_failed"} /\ UNCHANGED leases
    BY <1>7 DEF ViewLeases, EnforceSubmission, PerformSubmit, EnforceMutation, PerformMutation,
                At
  <2>2. Return(c) \/ \E pc, t, view : Advance(c, pc, t, view)
    BY <1>7 DEF ViewLeases, EnforceSubmission, PerformSubmit, EnforceMutation, PerformMutation,
                Deliver
  <2> QED BY <2>1, <2>2, OthersStay, HolderKeptByOthers
<1>8. ASSUME NEW c \in Call, FinishSubmit(c)
      PROVE  HolderOK'
  <2>1. \A l \in leases : l.holder # NONE => l.holder # c /\ l.holder \in Call
    BY <1>8, NoHandle DEF FinishSubmit, At
  <2> QED BY <1>8, <2>1, OthersStay, HolderKept DEF FinishSubmit
<1>9. ASSUME NEW c \in Call, Abandon(c)
      PROVE  HolderOK'
  <2>1. \A l \in leases' : l.holder # NONE => l \in leases /\ l.holder # c
    <3>1. \A l \in leases : [l EXCEPT !.holder = NONE].holder = NONE
      BY <1>0 DEF Lease
    <3> QED BY <1>9, <3>1 DEF Abandon
  <2> QED BY <1>0, <1>9, <2>1, OthersStay, HolderKept DEF Abandon, GoTo
<1>10. CASE (\E t \in Task : Retry(t)) \/ UNCHANGED vars
  BY <1>10 DEF Retry, vars, HolderOK
<1>11. CASE Crash
  BY <1>11 DEF Crash, HolderOK
<1> QED
  BY <1>1, <1>2, <1>3, <1>4, <1>5, <1>6, <1>7, <1>8, <1>9, <1>10, <1>11 DEF Next, Proceed

-----------------------------------------------------------------------------
(* The clones of the leases *)

\* A call's clone is what it was, empty, or the leases of this moment.
LEMMA ViewSource ==
  ASSUME TypeOK, CallOK, [Next]_vars, NEW d \in Call
  PROVE  calls'[d].view \in {calls[d].view, {}, leases}
<1>0. IdleCall.view = {} /\ calls \in [Call -> CallState]
  BY DEF IdleCall, TypeOK
<1>1. ASSUME NEW c \in Call, Return(c)
      PROVE  calls'[d].view \in {calls[d].view, {}, leases}
  BY <1>0, <1>1, AfterReturn
<1>2. ASSUME NEW c \in Call, NEW pc, NEW t, NEW view \in {calls[c].view, {}, leases},
             Advance(c, pc, t, view)
      PROVE  calls'[d].view \in {calls[d].view, {}, leases}
  BY <1>2, AfterAdvance
<1>3. ASSUME NEW c \in Call, NEW k, calls' = [calls EXCEPT ![c] = k], k.view \in {{}, leases}
      PROVE  calls'[d].view \in {calls[d].view, {}, leases}
  BY <1>0, <1>3
<1>4. ASSUME NEW c \in Call, NEW o \in Owner, NEW e \in Executor, NEW p \in Plan,
             NEW t \in Task \cup {NONE}, BeginClaim(c, o, e, p, t)
      PROVE  calls'[d].view \in {calls[d].view, {}, leases}
  <2>1. PICK pc, u : calls' = [calls EXCEPT ![c] =
               [IdleCall EXCEPT !.pc = pc, !.owner = o, !.executor = e, !.plan = p, !.task = u]]
    BY <1>4 DEF BeginClaim
  <2> DEFINE k == [IdleCall EXCEPT !.pc = pc, !.owner = o, !.executor = e, !.plan = p, !.task = u]
  <2>2. k.view = {}
    BY DEF IdleCall
  <2> QED BY <1>3, <2>1, <2>2
<1>5. ASSUME NEW c \in Call, NEW o \in Owner, NEW e \in Executor, NEW t \in Task,
             BeginSubmit(c, o, e, t)
      PROVE  calls'[d].view \in {calls[d].view, {}, leases}
  <2>1. PICK pc, release : calls' = [calls EXCEPT ![c] =
            [IdleCall EXCEPT !.pc = pc, !.owner = o, !.executor = e, !.plan = PlanOf[t],
                             !.task = t, !.release = release]]
    BY <1>5 DEF BeginSubmit
  <2> DEFINE k == [IdleCall EXCEPT !.pc = pc, !.owner = o, !.executor = e, !.plan = PlanOf[t],
                                   !.task = t, !.release = release]
  <2>2. k.view = {}
    BY DEF IdleCall
  <2> QED BY <1>3, <2>1, <2>2
<1>6. ASSUME NEW c \in Call, NEW o \in Owner, NEW paths \in MutationPaths \cup {NONE},
             BeginMutation(c, o, paths)
      PROVE  calls'[d].view \in {calls[d].view, {}, leases}
  <2> DEFINE k == [IdleCall EXCEPT !.pc = "check_mutation", !.owner = o, !.paths = paths,
                                   !.view = leases]
  <2>1. k.view = leases
    BY DEF IdleCall
  <2> QED BY <1>3, <1>6, <2>1 DEF BeginMutation
<1>7. ASSUME NEW c \in Call, Proceed(c) \/ Abandon(c)
      PROVE  calls'[d].view \in {calls[d].view, {}, leases}
  <2>1. Return(c) \/ \E pc, t : \E view \in {calls[c].view, {}, leases} : Advance(c, pc, t, view)
    <3>1. CASE ReserveScoped(c) \/ Abandon(c)
      BY <3>1 DEF ReserveScoped, Abandon, GoTo
    <3>2. CASE PerformClaim(c) \/ PerformSubmit(c)
      BY <3>2 DEF PerformClaim, PerformSubmit, Deliver
    <3>3. CASE FinishClaim(c) \/ FinishSubmit(c) \/ PerformMutation(c)
      BY <3>3 DEF FinishClaim, FinishSubmit, PerformMutation
    <3>4. CASE ViewLeases(c) \/ EnforceSubmission(c) \/ EnforceMutation(c)
      BY <3>4 DEF ViewLeases, EnforceSubmission, EnforceMutation
    <3> QED BY <1>7, <3>1, <3>2, <3>3, <3>4 DEF Proceed
  <2> QED BY <1>1, <1>2, <2>1
<1>8. CASE (\E t \in Task : Retry(t)) \/ UNCHANGED vars
  BY <1>8 DEF Retry, vars
<1>9. CASE Crash
  BY <1>0, <1>9 DEF Crash
<1> QED BY <1>4, <1>5, <1>6, <1>7, <1>8, <1>9 DEF Next

-----------------------------------------------------------------------------
(* The theorems *)

\* The initial states satisfy the invariant.
LEMMA InitInv == Init => Inv
<1> SUFFICES ASSUME Init PROVE Inv
  OBVIOUS
<1>1. TypeOK
  BY InitTypeOK
<1>2. \A c \in Call : calls[c] = IdleCall
  BY DEF Init
<1>3. CallOK
  BY <1>2 DEF CallOK, Knows, IdleCall
<1>4. HolderOK /\ Sound(leases)
  BY NoLeasesSound DEF Init, HolderOK
<1>5. \A c \in Call : Sound(calls[c].view)
  BY <1>2, NoLeasesSound DEF IdleCall
<1> QED BY <1>1, <1>3, <1>4, <1>5 DEF Inv, ReservationsAccounted, Sound, LeaseDiscipline

\* Every step keeps the invariant.
LEMMA NextInv == Inv /\ [Next]_vars => Inv'
<1> SUFFICES ASSUME Inv, [Next]_vars PROVE Inv'
  OBVIOUS
<1>1. TypeOK /\ CallOK /\ HolderOK /\ Sound(leases) /\ \A c \in Call : Sound(calls[c].view)
  BY DEF Inv, ReservationsAccounted, Sound, LeaseDiscipline
<1>2. TypeOK' /\ CallOK'
  BY <1>1, TypeStep, CallTypeStep
<1>3. HolderOK'
  BY <1>1, HolderStep
<1>4. Sound(leases')
  BY <1>1, LeasesSoundStep
<1>5. \A c \in Call : Sound(calls'[c].view)
  BY <1>1, ViewSource, NoLeasesSound
<1> QED
  BY <1>2, <1>3, <1>4, <1>5 DEF Inv, ReservationsAccounted, Sound, LeaseDiscipline

\* The inductive invariant: typing, valid reservation handles, disciplined
\* leases and disciplined clones of them.
THEOREM InvAlways == Spec => []Inv
BY InitInv, NextInv, PTL DEF Spec

\* Every variable of the writer protocol keeps to its type (writer.rs).
THEOREM TypeCorrect == Spec => []TypeOK
<1>1. Inv => TypeOK
  BY DEF Inv
<1> QED BY <1>1, InvAlways, PTL

\* No two leases of a domain overlap or belong to one owner (reserve_scoped).
THEOREM LeasesDisciplined == Spec => []LeaseDiscipline
<1>1. Inv => LeaseDiscipline
  BY DEF Inv, ReservationsAccounted
<1> QED BY <1>1, InvAlways, PTL

-----------------------------------------------------------------------------
(* Admission *)

\* Only enforce_mutation_paths lets a mutation through.
LEMMA AdmissionIsEnforced ==
  ASSUME Inv, [Next]_vars, NEW c \in Call, Admitted(c)
  PROVE  Admits(runs, calls[c].view, calls[c].owner, calls[c].paths)
<1>0. /\ TypeOK /\ calls[c].pc = "check_mutation" /\ calls'[c].pc = "mutate"
      /\ calls'[c] # calls[c]
  BY DEF Inv, Admitted, At
<1>1. ASSUME NEW d \in Call, Return(d)
      PROVE  FALSE
  BY <1>0, <1>1, AfterReturn DEF IdleCall
<1>2. ASSUME NEW d \in Call, NEW pc, NEW t, NEW view, Advance(d, pc, t, view)
      PROVE  d = c /\ pc = "mutate"
  BY <1>0, <1>2, AfterAdvance
<1>3. ASSUME NEW d \in Call, NEW k, At(d, "idle"), calls' = [calls EXCEPT ![d] = k]
      PROVE  FALSE
  BY <1>0, <1>3 DEF At, TypeOK
<1>4. ASSUME NEW d \in Call, Proceed(d) \/ Abandon(d)
      PROVE  Admits(runs, calls[c].view, calls[c].owner, calls[c].paths)
  <2>1. CASE ReserveScoped(d) \/ Abandon(d)
    BY <1>1, <1>2, <2>1 DEF ReserveScoped, Abandon, GoTo
  <2>2. CASE PerformClaim(d) \/ PerformSubmit(d)
    BY <1>1, <1>2, <2>2 DEF PerformClaim, PerformSubmit, Deliver
  <2>3. CASE FinishClaim(d) \/ FinishSubmit(d) \/ PerformMutation(d)
    BY <1>1, <2>3 DEF FinishClaim, FinishSubmit, PerformMutation
  <2>4. CASE ViewLeases(d) \/ EnforceSubmission(d)
    BY <1>1, <1>2, <2>4 DEF ViewLeases, EnforceSubmission
  <2>5. CASE EnforceMutation(d)
    BY <1>1, <1>2, <2>5 DEF EnforceMutation
  <2> QED BY <1>4, <2>1, <2>2, <2>3, <2>4, <2>5 DEF Proceed
<1>5. ASSUME NEW d \in Call, NEW o \in Owner, NEW e \in Executor, NEW p \in Plan,
             NEW t \in Task \cup {NONE}, BeginClaim(d, o, e, p, t)
      PROVE  FALSE
  BY <1>3, <1>5 DEF BeginClaim
<1>6. ASSUME NEW d \in Call, NEW o \in Owner, NEW e \in Executor, NEW t \in Task,
             BeginSubmit(d, o, e, t)
      PROVE  FALSE
  BY <1>3, <1>6 DEF BeginSubmit
<1>7. ASSUME NEW d \in Call, NEW o \in Owner, NEW paths \in MutationPaths \cup {NONE},
             BeginMutation(d, o, paths)
      PROVE  FALSE
  BY <1>3, <1>7 DEF BeginMutation
<1>8. CASE (\E t \in Task : Retry(t)) \/ UNCHANGED vars
  BY <1>0, <1>8 DEF Retry, vars
<1>9. CASE Crash
  BY <1>0, <1>9 DEF Crash, IdleCall
<1> QED BY <1>4, <1>5, <1>6, <1>7, <1>8, <1>9 DEF Next

\* A lease that is bound to a task has the scopes of that task.
LEMMA BoundScopes ==
  ASSUME NEW ls, ScopesBound(ls), NEW l \in ls, l.task # NONE
  PROVE  l.scopes = Scope[l.task] /\ l.task \in Task
BY DEF ScopesBound

\* Without orphans every claimed writer has its lease.
LEMMA ClaimedHasLease ==
  ASSUME NEW ls, Consistent(runs, ls), ScopesBound(ls),
         NEW t \in Task, IsClaimedWriter(runs, t)
  PROVE  \E l \in ls : l.task = t /\ l.owner = runs[t].owner /\ l.scopes = Scope[t]
<1>1. PICK l \in ls : LeaseMatchesRun(runs, l, t)
  BY DEF Consistent, Orphaned
<1>2. l.task = t /\ l.owner = runs[t].owner /\ l.task # NONE
  BY <1>1, PlanAssumption DEF LeaseMatchesRun
<1> QED BY <1>2, BoundScopes

\* Without stale leases every lease with a task has its claimed run.
LEMMA LeaseIsClaimed ==
  ASSUME NEW ls, Consistent(runs, ls), ScopesBound(ls), NEW l \in ls, l.task # NONE
  PROVE  /\ l.task \in Task /\ IsClaimedWriter(runs, l.task)
         /\ runs[l.task].owner = l.owner /\ Scope[l.task] = l.scopes
<1>1. PICK t \in Task : IsClaimedWriter(runs, t) /\ LeaseMatchesRun(runs, l, t)
  BY DEF Consistent, Stale
<1>2. l.task = t /\ runs[t].owner = l.owner
  BY <1>1 DEF LeaseMatchesRun
<1> QED BY <1>1, <1>2, BoundScopes

\* Every path of a mutation is a path.
LEMMA CallPaths ==
  ASSUME TypeOK, NEW c \in Call, calls[c].paths # NONE, NEW p \in calls[c].paths
  PROVE  p \in Path
BY WriterAssumption DEF TypeOK, CallState

\* An admitted mutation stays out of the scopes that other owners have durably
\* claimed (enforce_mutation_paths, writer_consistency_counts).
THEOREM AdmissionStaysExclusive == Spec => AdmissionExclusive
<1>1. ASSUME Inv, [Next]_vars, NEW c \in Call, Admitted(c), NEW t \in Task,
             IsClaimedWriter(runs, t), runs[t].owner # calls[c].owner
      PROVE  /\ calls[c].paths # NONE
             /\ \A p \in calls[c].paths : ~ ScopesAllowPath(Scope[t], p)
  <2> DEFINE view == calls[c].view
             owned == {l \in view : l.owner = calls[c].owner /\ l.task # NONE}
  <2>1. /\ Consistent(runs, view) /\ ScopesAdmit(view, calls[c].owner, calls[c].paths)
        /\ Disciplined(view) /\ ScopesBound(view)
    BY <1>1, AdmissionIsEnforced DEF Admits, Inv, ReservationsAccounted
  <2>2. PICK l \in view : l.owner = runs[t].owner /\ l.scopes = Scope[t]
    BY <1>1, <2>1, ClaimedHasLease
  <2>3. \A k \in owned : ~ WriteScopesConflict(k.scopes, Scope[t])
    BY <1>1, <2>1, <2>2 DEF Disciplined
  <2>4. calls[c].paths # NONE
    <3>1. ASSUME NEW k \in owned, k.scopes = {}
          PROVE  FALSE
      BY <2>3, <3>1 DEF WriteScopesConflict
    <3> QED BY <2>1, <2>2, <3>1 DEF ScopesAdmit
  <2>5. ASSUME NEW p \in calls[c].paths, ScopesAllowPath(Scope[t], p)
        PROVE  FALSE
    <3>1. PICK k \in owned : ScopesAllowPath(k.scopes, p)
      BY <2>1, <2>2, <2>4, <2>5 DEF ScopesAdmit
    <3>2. k.task \in Task /\ k.scopes = Scope[k.task]
      BY <2>1, BoundScopes
    <3>3. k.scopes \in SUBSET Path /\ Scope[t] \in SUBSET Path
      BY <3>2, PlanAssumption
    <3>4. p \in Path
      BY <1>1, <2>4, CallPaths DEF Inv
    <3> QED BY <2>3, <2>5, <3>1, <3>3, <3>4, SharedPathMakesConflict
  <2> QED BY <2>4, <2>5
<1>2. Inv /\ [Next]_vars =>
        [\A c \in Call : Admitted(c) =>
           \A t \in Task :
             IsClaimedWriter(runs, t) /\ runs[t].owner # calls[c].owner
             => /\ calls[c].paths # NONE
                /\ \A p \in calls[c].paths : ~ ScopesAllowPath(Scope[t], p)]_vars
  BY <1>1
<1> QED BY <1>2, InvAlways, PTL DEF Spec, AdmissionExclusive

\* An admitted mutation is covered by a task its owner has durably claimed,
\* unless the domain has no claimed writer at all.
THEOREM AdmissionStaysCovered == Spec => AdmissionCovered
<1>1. ASSUME Inv, [Next]_vars, NEW c \in Call, Admitted(c)
      PROVE  \/ \A t \in Task : ~ IsClaimedWriter(runs, t)
             \/ \E t \in Task :
                  /\ IsClaimedWriter(runs, t) /\ runs[t].owner = calls[c].owner
                  /\ IF calls[c].paths = NONE
                     THEN Scope[t] = {}
                     ELSE \A p \in calls[c].paths : ScopesAllowPath(Scope[t], p)
  <2> DEFINE view == calls[c].view
             owned == {l \in view : l.owner = calls[c].owner /\ l.task # NONE}
  <2>1. /\ Consistent(runs, view) /\ ScopesAdmit(view, calls[c].owner, calls[c].paths)
        /\ Disciplined(view) /\ ScopesBound(view)
    BY <1>1, AdmissionIsEnforced DEF Admits, Inv, ReservationsAccounted
  <2>2. CASE view = {}
    BY <2>1, <2>2, ClaimedHasLease
  <2>3. CASE calls[c].paths = NONE /\ \E l \in owned : l.scopes = {}
    BY <2>1, <2>3, LeaseIsClaimed
  <2>4. CASE /\ calls[c].paths # NONE /\ owned # {}
             /\ \A p \in calls[c].paths : \E l \in owned : ScopesAllowPath(l.scopes, p)
    <3>1. PICK l \in owned : TRUE
      BY <2>4
    <3>2. \A k \in owned : k = l
      BY <2>1 DEF Disciplined
    <3>3. \A p \in calls[c].paths : ScopesAllowPath(l.scopes, p)
      BY <2>4, <3>2
    <3> QED BY <2>1, <2>4, <3>3, LeaseIsClaimed
  <2> QED BY <2>1, <2>2, <2>3, <2>4 DEF ScopesAdmit
<1>2. Inv /\ [Next]_vars =>
        [\A c \in Call : Admitted(c) =>
          \/ \A t \in Task : ~ IsClaimedWriter(runs, t)
          \/ \E t \in Task :
               /\ IsClaimedWriter(runs, t) /\ runs[t].owner = calls[c].owner
               /\ IF calls[c].paths = NONE
                  THEN Scope[t] = {}
                  ELSE \A p \in calls[c].paths : ScopesAllowPath(Scope[t], p)]_vars
  BY <1>1
<1> QED BY <1>2, InvAlways, PTL DEF Spec, AdmissionCovered

-----------------------------------------------------------------------------
(* Recovery *)

\* Finalizing a reservation and losing its caller keep every owner's scopes.
LEMMA HandoverKeepsLocks ==
  ASSUME TypeOK, NEW c \in Call, (FinishClaim(c) /\ At(c, "claimed")) \/ Abandon(c)
  PROVE  /\ \A l \in leases' : \E k \in leases : k.owner = l.owner /\ k.scopes = l.scopes
         /\ \A k \in leases : \E l \in leases' : k.owner = l.owner /\ k.scopes = l.scopes
<1>0. \A k \in leases : k \in Lease
  BY DEF TypeOK
<1>1. CASE FinishClaim(c) /\ At(c, "claimed")
  <2> DEFINE f(l) == IF l.holder = c THEN [l EXCEPT !.task = calls[c].task, !.holder = NONE]
                                     ELSE l
  <2>1. leases' = {f(l) : l \in leases}
    BY <1>1 DEF FinishClaim, At
  <2>2. \A l \in leases : f(l).owner = l.owner /\ f(l).scopes = l.scopes
    BY <1>0 DEF Lease
  <2> HIDE DEF f
  <2> QED BY <2>1, <2>2
<1>2. CASE Abandon(c)
  <2> DEFINE f(l) == IF l.holder = c THEN [l EXCEPT !.holder = NONE] ELSE l
  <2>1. leases' = {f(l) : l \in leases}
    BY <1>2 DEF Abandon
  <2>2. \A l \in leases : f(l).owner = l.owner /\ f(l).scopes = l.scopes
    BY <1>0 DEF Lease
  <2> HIDE DEF f
  <2> QED BY <2>1, <2>2
<1> QED BY <1>1, <1>2

\* A lease bound to its task from the start belongs to a run that is claimed by
\* its owner and executor (reserve_scoped judges the domain with it).
THEOREM RecoveryIsBound == Spec => RecoveredLeaseIsBound
<1>1. ASSUME Inv, [Next]_vars, NEW l \in leases', l.task # NONE,
             \A k \in leases : k.owner # l.owner
      PROVE  IsClaimedWriter(runs, l.task) /\ LeaseMatchesRun(runs, l, l.task)
  <2>0. \A k \in leases : k \in Lease
    BY <1>1 DEF Inv, TypeOK
  <2>1. ASSUME NEW c \in Call, ReserveScoped(c)
        PROVE  IsClaimedWriter(runs, l.task) /\ LeaseMatchesRun(runs, l, l.task)
    <3>1. /\ l = Candidate(c) /\ ReservationAdmitted(c)
      BY <1>1, <2>1 DEF ReserveScoped
    <3>2. At(c, "recover")
      BY <1>1, <3>1 DEF Candidate
    <3>3. Stale(runs, leases \cup {l}) = {}
      BY <3>1, <3>2 DEF ReservationAdmitted, Consistent
    <3>4. \E t \in Task : IsClaimedWriter(runs, t) /\ LeaseMatchesRun(runs, l, t)
      BY <1>1, <3>3 DEF Stale
    <3> QED BY <3>4 DEF LeaseMatchesRun
  <2>2. ASSUME NEW c \in Call, FinishClaim(c) \/ Abandon(c)
        PROVE  FALSE
    <3>1. CASE At(c, "claim_failed") /\ leases' = {k \in leases : k.holder # c}
      BY <1>1, <3>1
    <3>2. CASE (FinishClaim(c) /\ At(c, "claimed")) \/ Abandon(c)
      BY <1>1, <3>2, HandoverKeepsLocks DEF Inv
    <3> QED BY <2>2, <3>1, <3>2 DEF FinishClaim
  <2>3. ASSUME NEW c \in Call, FinishSubmit(c)
        PROVE  FALSE
    BY <1>1, <2>3 DEF FinishSubmit
  <2>4. CASE Crash \/ UNCHANGED leases
    BY <1>1, <2>4 DEF Crash
  <2> QED BY <1>1, <2>1, <2>2, <2>3, <2>4, LeasesWriters
<1>2. Inv /\ [Next]_vars =>
        [\A l \in leases' :
           l.task # NONE /\ (\A k \in leases : k.owner # l.owner)
           => IsClaimedWriter(runs, l.task) /\ LeaseMatchesRun(runs, l, l.task)]_vars
  BY <1>1
<1> QED BY <1>2, InvAlways, PTL DEF Spec, RecoveredLeaseIsBound

-----------------------------------------------------------------------------
(* Refinement *)

Held(ls) == {[owner |-> l.owner, scopes |-> l.scopes] : l \in ls}

\* The abstract and the concrete conflict are the same relation.
LEMMA SameConflict ==
  ASSUME NEW left, NEW right
  PROVE  Locks!WriteScopesConflict(left, right) <=> WriteScopesConflict(left, right)
BY DEF Locks!WriteScopesConflict, WriteScopesConflict, Locks!ScopeContains, ScopeContains

\* Adding an admissible lock is a step of the abstract table.
LEMMA AcquireIsNext ==
  ASSUME NEW o \in Owner, NEW t \in Task, Locks!Acquire(o, Scope[t])
  PROVE  Locks!Next
<1>1. Scope[t] \in {Scope[u] : u \in Task}
  OBVIOUS
<1> HIDE DEF Locks!Acquire
<1>2. \E scopes \in {Scope[u] : u \in Task} : Locks!Acquire(o, scopes)
  BY <1>1, Zenon
<1> QED BY <1>2, Zenon DEF Locks!Next

\* Dropping one of the disciplined leases releases its owner's lock.
LEMMA DropReleases ==
  ASSUME Disciplined(leases), NEW l \in leases, leases' = leases \ {l}
  PROVE  Locks!Release(l.owner)
<1>1. leases' = {k \in leases : k.owner # l.owner}
  BY DEF Disciplined
<1> QED BY <1>1 DEF Locks!Release

\* The writer leases implement the table of scope locks (ScopeLocks): no step
\* of any call grants, moves or reshapes a lock except by its rules.
THEOREM LeasesImplementLocks == Spec => ImplementsScopeLocks
<1>1. Init => Locks!Init
  BY DEF Init, Locks!Init
<1>2. ASSUME Inv, [Next]_vars
      PROVE  Locks!Next \/ Held(leases') = Held(leases)
  <2>0. \A l \in leases : l \in Lease
    BY <1>2 DEF Inv, TypeOK
  <2>1. ASSUME NEW c \in Call, ReserveScoped(c)
        PROVE  Locks!Next \/ Held(leases') = Held(leases)
    <3>1. CASE leases' = leases
      BY <3>1
    <3>2. CASE ReservationAdmitted(c) /\ leases' = leases \cup {Candidate(c)}
      <4>1. /\ Candidate(c).owner = calls[c].owner
            /\ Candidate(c).scopes = Scope[calls[c].task]
            /\ calls[c].task \in Task /\ Candidate(c) \in Lease
        BY <1>2, <2>1, CandidateType DEF ReserveScoped, Inv, ReservationsAccounted
      <4>2. calls[c].owner \in Owner
        BY <4>1 DEF Lease
      <4>3. PICK o \in Owner, t \in Task : o = calls[c].owner /\ t = calls[c].task
        BY <4>1, <4>2
      <4>4. Held(leases') = Held(leases) \cup {[owner |-> o, scopes |-> Scope[t]]}
        BY <3>2, <4>1, <4>3 DEF Held
      <4>5. \A h \in Held(leases) : /\ h.owner # o
                                    /\ ~ WriteScopesConflict(h.scopes, Scope[t])
        BY <3>2, <4>3 DEF ReservationAdmitted, Held
      <4>6. Locks!Acquire(o, Scope[t])
        BY <4>4, <4>5, SameConflict DEF Locks!Acquire, Held
      <4> QED BY <4>6, AcquireIsNext
    <3> QED BY <2>1, <3>1, <3>2 DEF ReserveScoped
  <2>2. ASSUME NEW c \in Call, (FinishClaim(c) /\ At(c, "claimed")) \/ Abandon(c)
        PROVE  Held(leases') = Held(leases)
    BY <1>2, <2>2, HandoverKeepsLocks DEF Inv, Held
  <2>3. ASSUME NEW c \in Call, FinishSubmit(c) \/ (FinishClaim(c) /\ At(c, "claim_failed"))
        PROVE  Locks!Next \/ Held(leases') = Held(leases)
    <3> DEFINE D == leases \ leases'
    <3>1. leases' \subseteq leases /\ \A l \in D : l.owner = calls[c].owner
      <4>1. CASE FinishSubmit(c)
        BY <4>1 DEF FinishSubmit
      <4>2. CASE FinishClaim(c) /\ At(c, "claim_failed")
        <5>1. leases' = {l \in leases : l.holder # c}
          BY <4>2 DEF FinishClaim, At
        <5>2. \A l \in leases : l.holder = c => l.owner = calls[c].owner
          BY <1>2, WriterAssumption DEF Inv, ReservationsAccounted, HolderOK
        <5> QED BY <5>1, <5>2
      <4> QED BY <2>3, <4>1, <4>2
    <3>2. Disciplined(leases)
      BY <1>2 DEF Inv, ReservationsAccounted, LeaseDiscipline
    <3>3. CASE D = {}
      <4>1. leases' = leases
        BY <3>1, <3>3
      <4> QED BY <4>1
    <3>4. CASE D # {}
      <4>1. PICK l \in D : TRUE
        BY <3>4
      <4>2. D = {l}
        BY <3>1, <3>2, <4>1 DEF Disciplined
      <4>3. Locks!Release(l.owner)
        <5>1. leases' = leases \ {l}
          BY <3>1, <4>2
        <5> QED BY <3>2, <5>1, DropReleases
      <4>4. l.owner \in Owner
        BY <2>0, <3>1 DEF Lease
      <4> QED BY <4>3, <4>4 DEF Locks!Next
    <3> QED BY <3>3, <3>4
  <2>4. CASE Crash
    BY <2>4 DEF Crash, Locks!Next, Locks!Restart
  <2>5. CASE UNCHANGED leases
    BY <2>5
  <2> QED BY <1>2, <2>1, <2>2, <2>3, <2>4, <2>5, LeasesWriters DEF FinishClaim
<1>3. Inv /\ [Next]_vars => [Locks!Next]_(Held(leases))
  BY <1>2 DEF Held
<1> QED BY <1>1, <1>3, InvAlways, PTL DEF Spec, ImplementsScopeLocks, Locks!Spec, Held

=============================================================================
