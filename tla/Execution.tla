------------------------------ MODULE Execution ------------------------------
(***************************************************************************)
(* The durable execution of a workspace (src/runtime/execution.rs): a      *)
(* checkpoint of the worklist, the repository, the bound reconciliation    *)
(* plan and the verification, with steering, proposals and handoffs.       *)
(*                                                                         *)
(* Every change reads the newest snapshot, prepares the next one and       *)
(* publishes it by linking it to its revision's name.  A refresh reads the *)
(* worklist before that, and repository, plans and evidence after it;      *)
(* nothing keeps any of them still.  What those answer is an input, which  *)
(* may differ at every read: as it depends on nothing, it is picked when   *)
(* the snapshot is published.                                              *)
(*                                                                         *)
(* Left out: texts, blocker lists, time stamps, and the freeing of         *)
(* snapshot names after 128 revisions.                                     *)
(***************************************************************************)
EXTENDS Integers

CONSTANTS
  Call,             \* execution calls in flight at the same time
  Repo,             \* repository revisions
  Plan,             \* reconciliation plan ids
  MaxListRevision,  \* bound on the revisions of the worklist
  MaxRevision,      \* bound on the revisions of the execution
  TopLevel,         \* the strongest verification, 2 in the code
  NONE              \* an absent Option

\* Verification strength: quick, full, full with an adversarial review; as a
\* floor, 0 asks for nothing.
Level == 0..TopLevel

\* How the items of a worklist stand.
Work == {"empty", "open", "complete"}

\* since is the revision at which the list was created or last restarted.
List == [revision : Nat, work : Work, since : Nat]

\* A verification plan: the revision it is bound to and what it checks.
Verification == [repo : Repo, level : Level]

Proposal == [list : Nat, repo : Repo]

\* replan: the objective or the scope changes under an approved plan.
Directive == [list : Nat, plan : Plan \cup {NONE}, replan : BOOLEAN]

Phase == {"executing", "blocked", "verifying", "completed"}

\* generation is the revision of the generation's first snapshot; a handoff
\* changes the id of an execution, but adds the old one to its lineage, and with
\* it stays in its generation.  list to verification are the checkpoint.
Snapshot ==
  {e \in [generation : Nat, revision : Nat, phase : Phase,
          list : Nat, work : Work, repo : Repo, plan : Plan \cup {NONE},
          verification : Verification \cup {NONE}, proposal : Proposal \cup {NONE},
          directive : Directive \cup {NONE}, floor : Level] :
     e.verification # NONE => e.verification.repo = e.repo}

ASSUME ExecutionAssumption ==
  /\ MaxListRevision \in Nat /\ MaxRevision \in Nat /\ TopLevel \in Nat
  /\ NONE \notin Plan \cup Verification \cup Proposal \cup Directive \cup Snapshot

VARIABLES
  list,   \* the newest worklist
  ex,     \* the newest snapshot, or NONE
  calls   \* Call -> the progress of the call

vars == <<list, ex, calls>>

\* Preparing the next snapshot from base, the one the call has read: a refresh
\* (after a restart or not), a steering, a handoff or a proposal.
Change ==
  [kind : {"refresh"}, restart : BOOLEAN, list : List]
    \cup [kind : {"steer"}, strength : Level, replan : BOOLEAN]
    \cup [kind : {"handoff", "propose"}]

CallState == [pc : {"idle", "refresh", "load", "publish"}, change : Change,
              base : Snapshot \cup {NONE}]

NoList == [revision |-> 0, work |-> "empty", since |-> 0]

Refresh(restart, l) == [kind |-> "refresh", restart |-> restart, list |-> l]

IdleCall == [pc |-> "idle", change |-> Refresh(FALSE, NoList), base |-> NONE]

Init ==
  /\ list = NoList
  /\ ex = NONE
  /\ calls = [c \in Call |-> IdleCall]

\* The bound on the revisions: an execution at the last one takes no change.
HasRoom == ex # NONE => ex.revision < MaxRevision

At(c, pc) == calls[c].pc = pc
Enter(c, k) == calls' = [calls EXCEPT ![c] = k]
Return(c) == Enter(c, IdleCall)

-----------------------------------------------------------------------------
(* What a refresh makes of its inputs *)

\* open_items == 0
NoOpenItems(work) == work \in {"empty", "complete"}

\* Mutant of NewGeneration: the worklist need not have moved.
NewGenerationUnmoved(base, l, restart) ==
  restart \/ base = NONE \/ (NoOpenItems(base.work) /\ l.work # "complete")

\* sync: the worklist was restarted, or finished once and open again.
NewGeneration(base, l, restart) ==
  \/ restart
  \/ base = NONE
  \/ NoOpenItems(base.work) /\ l.work # "complete" /\ l.revision > base.list

\* Mutant of SelectPlan: a refresh follows the plan of the current revision.
SelectNewestPlan(base, l, restart, candidate) == candidate

\* select_reconciliation_plan_id: the bound plan stays, unless steering asks for
\* another and the worklist has followed.  candidate: the newest plan of the
\* current revision.
SelectPlan(base, l, restart, candidate) ==
  LET bound == IF base = NONE THEN NONE ELSE base.plan
      replanReady == /\ base # NONE
                     /\ base.directive # NONE
                     /\ base.directive.replan
                     /\ l.revision > base.directive.list
  IN IF restart \/ bound = NONE \/ (replanReady /\ candidate # NONE)
     THEN candidate
     ELSE bound

Satisfies(v, floor) == v.level >= floor

FloorOf(base) == IF base = NONE THEN 0 ELSE base.floor

\* Mutant of SelectVerification: a bound plan is kept at any revision.
SelectBoundVerification(base, repo, present, newest) ==
  IF /\ present /\ base # NONE /\ base.verification # NONE
     /\ Satisfies(base.verification, FloorOf(base))
  THEN base.verification
  ELSE newest

\* The verification plan of a refresh: the bound one, if it is still there, of
\* this revision and strong enough, else the newest of this revision.
SelectVerification(base, repo, present, newest) ==
  IF /\ present /\ base # NONE /\ base.verification # NONE
     /\ base.verification.repo = repo
     /\ Satisfies(base.verification, FloorOf(base))
  THEN base.verification
  ELSE newest

\* Mutant of Ready: evidence below the floor counts.
ReadyBelowFloor(base, verification, proven) == verification # NONE /\ proven

\* verification_ready
Ready(base, verification, proven) ==
  verification # NONE /\ proven /\ Satisfies(verification, FloorOf(base))

\* What is left of the pending steering.
Remaining(directive, l, plan) ==
  IF /\ directive # NONE
     /\ l.revision > directive.list
     /\ directive.replan => plan \notin {NONE, directive.plan}
  THEN NONE
  ELSE directive

\* phase.  settled: the verification is ready and the plan, if there is one, has
\* converged.  That an open list with nothing to run is called blocked as well
\* is left out: it depends on the clock, and nothing depends on it.
PhaseOf(work, directive, settled) ==
  CASE directive # NONE -> "blocked"
    [] directive = NONE /\ work # "complete" -> "executing"
    [] directive = NONE /\ work = "complete" -> IF settled THEN "completed" ELSE "verifying"

\* Mutant of KeptProposal: a proposal stays whatever has moved under it.
KeepProposal(base, directive, l, repo) == base.proposal

KeptProposal(base, directive, l, repo) ==
  IF directive = NONE /\ base.proposal = [list |-> l.revision, repo |-> repo]
  THEN base.proposal
  ELSE NONE

NextRevision(base) == IF base = NONE THEN 1 ELSE base.revision + 1

\* sync, for the snapshot base and the worklist l.  i is what the refresh reads:
\* the revision, its newest plan, whether the plan has converged, whether the
\* bound verification plan is there, the newest of the revision, and whether the
\* selected one is proven.
Synced(base, l, restart, i) ==
  LET new == NewGeneration(base, l, restart)
      revision == NextRevision(base)
      plan == SelectPlan(base, l, restart, i.candidate)
      verification == SelectVerification(base, i.repo, i.present, i.newest)
      settled == Ready(base, verification, i.proven) /\ (plan = NONE \/ i.converged)
      directive == IF new THEN NONE ELSE Remaining(base.directive, l, plan)
  IN [generation |-> IF new THEN revision ELSE base.generation,
      revision |-> revision,
      phase |-> PhaseOf(l.work, directive, settled),
      list |-> l.revision, work |-> l.work, repo |-> i.repo, plan |-> plan,
      verification |-> verification,
      proposal |-> IF new THEN NONE ELSE KeptProposal(base, directive, l, i.repo),
      directive |-> directive,
      floor |-> IF new THEN 0 ELSE base.floor]

If(condition) == IF condition THEN BOOLEAN ELSE {FALSE}

\* The evidence matters once the list is complete.
Inputs(work) ==
  UNION {[repo : {r}, candidate : Plan \cup {NONE}, present : BOOLEAN,
          newest : {NONE} \cup [repo : {r}, level : Level], proven : If(work = "complete"),
          converged : If(work = "complete")] : r \in Repo}

-----------------------------------------------------------------------------
(* execution_status and the worklist tools *)

\* refresh first reads the worklist.
ToLoad(c, restart) == Enter(c, [IdleCall EXCEPT !.pc = "load", !.change = Refresh(restart, list)])

\* execution_status
BeginStatus(c) ==
  /\ At(c, "idle") /\ HasRoom
  /\ list.revision > 0
  /\ ToLoad(c, FALSE)
  /\ UNCHANGED <<list, ex>>

\* worklist_update and worklist_submit: the list moves, then the execution is
\* refreshed; worklist_claim is a call that gives up in between.  Items never
\* leave a list; a restart needs a complete one.
BeginUpdate(c, work, restart) ==
  /\ At(c, "idle")
  /\ list.revision < MaxListRevision /\ HasRoom
  /\ restart => list.revision = 0 \/ list.work = "complete"
  /\ work = "empty" => restart \/ list.work = "empty"
  /\ list' = [revision |-> list.revision + 1, work |-> work,
              since |-> IF restart \/ list.revision = 0 THEN list.revision + 1 ELSE list.since]
  /\ Enter(c, [IdleCall EXCEPT !.pc = "refresh", !.change.restart = restart])
  /\ UNCHANGED ex

\* The refresh of those tools may find a newer list.
ReadList(c) ==
  /\ At(c, "refresh") /\ HasRoom
  /\ ToLoad(c, calls[c].change.restart)
  /\ UNCHANGED <<list, ex>>

\* Then refresh loads the newest snapshot; a finished list starts no execution.
Load(c) ==
  LET k == calls[c]
  IN /\ At(c, "load") /\ HasRoom
     /\ IF ex = NONE /\ k.change.list.work = "complete" /\ ~ k.change.restart
        THEN Return(c)
        ELSE Enter(c, [k EXCEPT !.pc = "publish", !.base = ex])
     /\ UNCHANGED <<list, ex>>

-----------------------------------------------------------------------------
(* execution_steer, execution_handoff, execution_propose: the caller expects the
   newest revision *)

\* ensure_active_revision
Active == ex # NONE /\ ex.phase # "completed"

Prepare(c, change) ==
  /\ At(c, "idle") /\ HasRoom
  /\ Enter(c, [pc |-> "publish", change |-> change, base |-> ex])
  /\ UNCHANGED <<list, ex>>

SteerAccepted(strength) ==
  /\ Active /\ ex.directive = NONE
  /\ strength # 0 => strength >= ex.floor

\* strength 0 refines the objective or changes the scope; then an approved bound
\* plan, and whether it is approved is an input, has to be replaced.
BeginSteer(c, strength, replan) ==
  /\ SteerAccepted(strength)
  /\ replan => strength = 0 /\ ex.plan # NONE
  /\ Prepare(c, [kind |-> "steer", strength |-> strength, replan |-> replan])

BeginHandoff(c) == Active /\ Prepare(c, [kind |-> "handoff"])

BeginPropose(c) == Active /\ Prepare(c, [kind |-> "propose"])

Steered(e, k) ==
  [e EXCEPT !.revision = NextRevision(e), !.phase = "blocked", !.proposal = NONE,
     !.directive = [list |-> e.list, plan |-> e.plan, replan |-> k.replan],
     !.floor = IF k.strength = 0 THEN @ ELSE k.strength]

HandedOff(e) == [e EXCEPT !.revision = NextRevision(e), !.proposal = NONE]

Proposed(e) ==
  [e EXCEPT !.revision = NextRevision(e), !.proposal = [list |-> e.list, repo |-> e.repo]]

-----------------------------------------------------------------------------
(* The store *)

\* The snapshots a call may be about to publish.
Prepared(k) ==
  CASE k.change.kind = "refresh" ->
         {Synced(k.base, k.change.list, k.change.restart, i) : i \in Inputs(k.change.list.work)}
    [] k.change.kind = "steer" -> {Steered(k.base, k.change)}
    [] k.change.kind = "handoff" -> {HandedOff(k.base)}
    [] k.change.kind = "propose" -> {Proposed(k.base)}

\* Mutant of NameTaken: the new snapshot replaces whatever has its name.
NeverTaken(r) == FALSE

NameTaken(r) == ex # NONE /\ r <= ex.revision

\* persist: the link fails when the revision is there already.
Publish(c) ==
  /\ At(c, "publish")
  /\ \E next \in Prepared(calls[c]) :
       ex' = IF NameTaken(next.revision) THEN ex ELSE next
  /\ Return(c)
  /\ UNCHANGED list

\* A read or a write fails, the process ends, or a refresh finds that nothing has
\* changed and publishes nothing.
GiveUp(c) ==
  /\ ~ At(c, "idle")
  /\ Return(c)
  /\ UNCHANGED <<list, ex>>

-----------------------------------------------------------------------------
Begin(c) ==
  \/ BeginStatus(c)
  \/ \E work \in Work, restart \in BOOLEAN : BeginUpdate(c, work, restart)
  \/ \E strength \in Level, replan \in BOOLEAN : BeginSteer(c, strength, replan)
  \/ BeginHandoff(c)
  \/ BeginPropose(c)

Next ==
  \E c \in Call :
    Begin(c) \/ ReadList(c) \/ Load(c) \/ Publish(c) \/ GiveUp(c)

Spec == Init /\ [][Next]_vars

-----------------------------------------------------------------------------
(* Properties *)

\* Every variable keeps to its type; a checkpoint's verification plan is one of
\* the checkpoint's own revision.
TypeOK ==
  /\ list \in List
  /\ ex \in Snapshot \cup {NONE}
  /\ calls \in [Call -> CallState]

\* A completed execution was settled by proof: its worklist was complete, no
\* steering pending, and its verification as strong as the floor that holds,
\* however refreshes, steering and handoffs raced.
SettledByProof ==
  ex # NONE /\ ex.phase = "completed" =>
    /\ ex.work = "complete" /\ ex.directive = NONE
    /\ ex.verification # NONE /\ Satisfies(ex.verification, ex.floor)

\* A proposal is only ever shown with the worklist and the repository revision
\* it was made for (propose, sync).
ProposalIsCurrent ==
  ex # NONE /\ ex.proposal # NONE => ex.proposal = [list |-> ex.list, repo |-> ex.repo]

\* A generation ends only with a restart, or when the worklist moves on after
\* it had no open items (sync).
GenerationEnds ==
  [][ex # NONE /\ ex' # ex /\ ex'.generation # ex.generation
     => \E c \in Call :
          /\ Publish(c)
          /\ calls[c].change.restart \/ (NoOpenItems(ex.work) /\ ex'.list > ex.list)]_vars

\* Acknowledged steering is never lost to a concurrent refresh, proposal or
\* handoff: within a generation it goes when the worklist has moved on, and the
\* plan too if that was asked for (persist, sync).
SteeringSurvives ==
  [][ex # NONE /\ ex.directive # NONE /\ ex' # ex /\ ex'.generation = ex.generation
     /\ ex'.directive # ex.directive
     => /\ ex'.list > ex.directive.list
        /\ ex.directive.replan => ex'.plan \notin {NONE, ex.directive.plan}]_vars

\* Within a generation the verification floor is never lowered (steer, sync).
FloorHolds ==
  [][ex # NONE /\ ex' # ex /\ ex'.generation = ex.generation => ex'.floor >= ex.floor]_vars

\* Within a generation a bound plan is replaced only where steering under an
\* approved plan has asked for it; edits of the repository do not drop it
\* (select_reconciliation_plan_id).
PlanBindingHolds ==
  [][ex # NONE /\ ex.plan # NONE /\ ex' # ex /\ ex'.generation = ex.generation
     /\ ex'.plan # ex.plan
     => /\ ex'.plan # NONE
        /\ ex.directive # NONE /\ ex.directive.replan]_vars

=============================================================================
