-------------------------- MODULE Execution_proofs --------------------------
(***************************************************************************)
(* The properties of Execution for every number of calls, revisions and    *)
(* plans.                                                                  *)
(*                                                                         *)
(* The invariant says of a call that is about to publish that the snapshot *)
(* it has read is an old one or still the newest: so only the call that    *)
(* has read the newest can publish, and what it publishes follows from the *)
(* newest snapshot, however late it is.                                    *)
(***************************************************************************)
EXTENDS Execution, TLAPS

\* What every snapshot satisfies, published or read.
Good(e) ==
  /\ e \in Snapshot
  /\ e.generation \in 1..e.revision
  /\ e.phase = "completed" =>
       /\ e.work = "complete" /\ e.directive = NONE
       /\ e.verification # NONE /\ Satisfies(e.verification, e.floor)
  /\ e.directive # NONE => e.phase = "blocked"
  /\ e.proposal # NONE => e.proposal = [list |-> e.list, repo |-> e.repo]

\* The snapshot a call works on is superseded or the newest.
Superseded(e) == ex # NONE /\ e.revision <= ex.revision /\ (e.revision = ex.revision => e = ex)

\* A change other than a refresh was accepted for the snapshot it was made for.
Accepted(k) ==
  k.change.kind # "refresh" =>
    /\ k.base # NONE /\ k.base.phase # "completed"
    /\ k.change.kind = "steer" =>
         /\ k.base.directive = NONE
         /\ k.change.strength # 0 => k.change.strength >= k.base.floor

CallOK(k) ==
  /\ k \in CallState
  /\ k.base # NONE => Good(k.base) /\ Superseded(k.base)
  /\ k.pc = "publish" => Accepted(k)
  /\ k.pc \in {"refresh", "load"} => k.change.kind = "refresh"

IInv ==
  /\ list \in List
  /\ ex # NONE => Good(ex)
  /\ calls \in [Call -> CallState]
  /\ \A c \in Call : CallOK(calls[c])

-----------------------------------------------------------------------------
(* What a refresh makes of a good snapshot *)

\* The next snapshot of a refresh is good, and the successor of its base.
LEMMA SyncedGood ==
  ASSUME NEW base, base # NONE => Good(base), NEW l \in List, NEW restart \in BOOLEAN,
         NEW i \in Inputs(l.work)
  PROVE  /\ Good(Synced(base, l, restart, i))
         /\ Synced(base, l, restart, i).revision = NextRevision(base)
<1> DEFINE new == NewGeneration(base, l, restart)
           plan == SelectPlan(base, l, restart, i.candidate)
           verification == SelectVerification(base, i.repo, i.present, i.newest)
           settled == Ready(base, verification, i.proven) /\ (plan = NONE \/ i.converged)
           directive == IF new THEN NONE ELSE Remaining(base.directive, l, plan)
           proposal == IF new THEN NONE ELSE KeptProposal(base, directive, l, i.repo)
           floor == IF new THEN 0 ELSE base.floor
           revision == NextRevision(base)
           generation == IF new THEN revision ELSE base.generation
           phase == PhaseOf(l.work, directive, settled)
<1>1. /\ i.repo \in Repo /\ i.candidate \in Plan \cup {NONE} /\ i.converged \in BOOLEAN
      /\ i.present \in BOOLEAN /\ i.proven \in BOOLEAN
      /\ i.newest \in {NONE} \cup [repo : {i.repo}, level : Level]
  <2>1. PICK r \in Repo :
          i \in [repo : {r}, candidate : Plan \cup {NONE}, present : BOOLEAN,
                newest : {NONE} \cup [repo : {r}, level : Level],
                proven : If(l.work = "complete"), converged : If(l.work = "complete")]
    BY DEF Inputs
  <2>2. \A b \in BOOLEAN : If(b) \subseteq BOOLEAN
    BY DEF If
  <2> QED BY <2>1, <2>2
<1>2. new \in BOOLEAN /\ (base = NONE => new)
  BY DEF NewGeneration, NoOpenItems
<1>3. base # NONE =>
        /\ base.revision \in Nat /\ base.generation \in Nat /\ base.floor \in Level
        /\ base.generation >= 1 /\ base.generation <= base.revision
        /\ base.plan \in Plan \cup {NONE} /\ base.directive \in Directive \cup {NONE}
        /\ base.verification \in Verification \cup {NONE}
        /\ base.proposal \in Proposal \cup {NONE}
  BY DEF Good, Snapshot
<1>4. plan \in Plan \cup {NONE}
  BY <1>1, <1>3 DEF SelectPlan
<1>5. /\ verification \in Verification \cup {NONE}
      /\ verification # NONE => verification.repo = i.repo
  BY <1>1, <1>3 DEF SelectVerification, Verification
<1>6. directive \in Directive \cup {NONE}
  BY <1>2, <1>3 DEF Remaining
<1>7. /\ proposal \in Proposal \cup {NONE}
      /\ proposal # NONE => proposal = [list |-> l.revision, repo |-> i.repo]
  BY <1>2, <1>3 DEF KeptProposal
<1>8. floor \in Level /\ 0 \in Level
  BY <1>2, <1>3, ExecutionAssumption DEF Level
<1>9. revision \in Nat /\ generation \in 1..revision
  BY <1>2, <1>3 DEF NextRevision
<1>10. /\ phase \in Phase
       /\ phase = "completed" => l.work = "complete" /\ directive = NONE /\ settled
       /\ directive # NONE => phase = "blocked"
  BY DEF PhaseOf, Phase
<1>11. settled => verification # NONE /\ Satisfies(verification, floor)
  <2>1. SUFFICES ASSUME settled PROVE verification # NONE /\ Satisfies(verification, floor)
    OBVIOUS
  <2>2. verification # NONE /\ Satisfies(verification, FloorOf(base))
    BY <2>1 DEF Ready
  <2>3. verification.level \in Nat
    BY <2>2, <1>5 DEF Verification, Level
  <2>4. CASE new
    BY <2>2, <2>3, <2>4 DEF Satisfies
  <2>5. CASE ~ new
    BY <2>2, <2>5, <1>2 DEF FloorOf
  <2> QED BY <2>4, <2>5
<1>12. Synced(base, l, restart, i) =
         [generation |-> generation, revision |-> revision, phase |-> phase,
          list |-> l.revision, work |-> l.work, repo |-> i.repo, plan |-> plan,
          verification |-> verification, proposal |-> proposal,
          directive |-> directive, floor |-> floor]
  BY DEF Synced
<1>13. l.revision \in Nat /\ l.work \in Work
  BY DEF List
<1> HIDE DEF new, plan, verification, settled, directive, proposal, floor, revision,
             generation, phase
<1>14. Synced(base, l, restart, i) \in Snapshot
  BY <1>1, <1>4, <1>5, <1>6, <1>7, <1>8, <1>9, <1>10, <1>12, <1>13 DEF Snapshot
<1>15. Good(Synced(base, l, restart, i))
  BY <1>7, <1>9, <1>10, <1>11, <1>12, <1>14 DEF Good
<1> QED
  BY <1>12, <1>15 DEF revision

\* What a refresh keeps of a base, within its generation.
Kept(s, base, l, restart, candidate) ==
  /\ s.list = l.revision
  /\ s.generation # base.generation =>
       restart \/ (NoOpenItems(base.work) /\ s.list > base.list)
  /\ s.generation = base.generation =>
       /\ s.floor = base.floor
       /\ s.directive = Remaining(base.directive, l, s.plan)
       /\ s.plan = SelectPlan(base, l, FALSE, candidate)

LEMMA SyncedKeeps ==
  ASSUME NEW base, base # NONE, Good(base), NEW l \in List, NEW restart \in BOOLEAN,
         NEW i \in Inputs(l.work)
  PROVE  Kept(Synced(base, l, restart, i), base, l, restart, i.candidate)
<1> DEFINE s == Synced(base, l, restart, i)
<1>1. /\ s.list = l.revision
      /\ s.generation = IF NewGeneration(base, l, restart) THEN NextRevision(base)
                                                            ELSE base.generation
      /\ s.floor = IF NewGeneration(base, l, restart) THEN 0 ELSE base.floor
      /\ s.plan = SelectPlan(base, l, restart, i.candidate)
      /\ s.directive = IF NewGeneration(base, l, restart) THEN NONE
                       ELSE Remaining(base.directive, l, s.plan)
  BY DEF Synced
<1> HIDE DEF s
<1>2. base.revision \in Nat /\ base.generation \in Nat /\ base.generation <= base.revision
  BY DEF Good, Snapshot
<1>3. ~ NewGeneration(base, l, restart) => ~ restart
  BY DEF NewGeneration
<1>4. NewGeneration(base, l, restart) =>
        restart \/ (NoOpenItems(base.work) /\ l.revision > base.list)
  BY DEF NewGeneration
<1>5. CASE NewGeneration(base, l, restart)
  <2>1. s.generation = base.revision + 1
    BY <1>1, <1>5 DEF NextRevision
  <2>2. s.generation # base.generation
    BY <2>1, <1>2
  <2> QED BY <2>2, <1>1, <1>4, <1>5 DEF Kept, s
<1>6. CASE ~ NewGeneration(base, l, restart)
  BY <1>1, <1>3, <1>6 DEF Kept, s
<1> QED BY <1>5, <1>6

-----------------------------------------------------------------------------
(* The invariant *)

\* What a change other than a refresh makes of a good snapshot.
LEMMA ChangedGood ==
  ASSUME NEW e, Good(e), e.phase # "completed",
         NEW k \in [kind : {"steer"}, strength : Level, replan : BOOLEAN],
         k.strength # 0 => k.strength >= e.floor
  PROVE  /\ Good(Steered(e, k)) /\ Good(HandedOff(e)) /\ Good(Proposed(e))
         /\ \A f \in {Steered(e, k), HandedOff(e), Proposed(e)} :
              f.revision = NextRevision(e) /\ f.generation = e.generation /\ f.plan = e.plan
<1>1. /\ e \in Snapshot /\ e.revision \in Nat /\ e.generation \in Nat
      /\ NextRevision(e) \in Nat /\ e.generation \in 1..NextRevision(e)
      /\ e.list \in Nat /\ e.repo \in Repo /\ e.plan \in Plan \cup {NONE} /\ e.floor \in Level
  <2>1. e \in Snapshot /\ e # NONE
    BY ExecutionAssumption DEF Good
  <2> QED BY <2>1 DEF Good, Snapshot, NextRevision
<1>2. [list |-> e.list, repo |-> e.repo] \in Proposal
  BY <1>1 DEF Proposal
<1>3. [list |-> e.list, plan |-> e.plan, replan |-> k.replan] \in Directive
  BY <1>1 DEF Directive
<1>4. NONE \notin Directive /\ NONE \notin Proposal /\ "blocked" \in Phase
  BY ExecutionAssumption DEF Phase
<1> DEFINE Record ==
      [generation : Nat, revision : Nat, phase : Phase, list : Nat, work : Work,
       repo : Repo, plan : Plan \cup {NONE}, verification : Verification \cup {NONE},
       proposal : Proposal \cup {NONE}, directive : Directive \cup {NONE}, floor : Level]
<1>0. e \in Record /\ (e.verification # NONE => e.verification.repo = e.repo)
  BY DEF Good, Snapshot
<1>9. \A f \in Record : (f.verification # NONE => f.verification.repo = f.repo) => f \in Snapshot
  BY DEF Snapshot
<1>5. Good(Steered(e, k)) /\ Steered(e, k).revision = NextRevision(e)
  <2> DEFINE f == Steered(e, k)
  <2>1. /\ f.revision = NextRevision(e) /\ f.generation = e.generation /\ f.phase = "blocked"
        /\ f.list = e.list /\ f.work = e.work /\ f.repo = e.repo /\ f.plan = e.plan
        /\ f.verification = e.verification /\ f.proposal = NONE
    BY <1>1 DEF Steered, Snapshot
  <2>2. f \in Snapshot
    <3>1. f \in Record
      BY <1>0, <1>1, <1>3, <1>4 DEF Steered
    <3> QED BY <3>1, <2>1, <1>0, <1>9
  <2> HIDE DEF f
  <2>3. Good(f)
    BY <1>1, <2>1, <2>2 DEF Good
  <2> QED BY <2>1, <2>3 DEF f
<1>6. Good(HandedOff(e)) /\ HandedOff(e).revision = NextRevision(e)
  <2> DEFINE f == HandedOff(e)
  <2>1. /\ f.revision = NextRevision(e) /\ f.generation = e.generation /\ f.phase = e.phase
        /\ f.list = e.list /\ f.work = e.work /\ f.repo = e.repo /\ f.plan = e.plan
        /\ f.verification = e.verification /\ f.proposal = NONE
        /\ f.directive = e.directive /\ f.floor = e.floor
    BY <1>1 DEF HandedOff, Snapshot
  <2>2. f \in Snapshot
    <3>1. f \in Record
      BY <1>0, <1>1 DEF HandedOff
    <3> QED BY <3>1, <2>1, <1>0, <1>9
  <2> HIDE DEF f
  <2>3. Good(f)
    BY <1>1, <2>1, <2>2 DEF Good
  <2> QED BY <2>1, <2>3 DEF f
<1>7. Good(Proposed(e)) /\ Proposed(e).revision = NextRevision(e)
  <2> DEFINE f == Proposed(e)
  <2>1. /\ f.revision = NextRevision(e) /\ f.generation = e.generation /\ f.phase = e.phase
        /\ f.list = e.list /\ f.work = e.work /\ f.repo = e.repo /\ f.plan = e.plan
        /\ f.verification = e.verification
        /\ f.proposal = [list |-> e.list, repo |-> e.repo]
        /\ f.directive = e.directive /\ f.floor = e.floor
    BY <1>1 DEF Proposed, Snapshot
  <2>2. f \in Snapshot
    <3>1. f \in Record
      BY <1>0, <1>1, <1>2 DEF Proposed
    <3> QED BY <3>1, <2>1, <1>0, <1>9
  <2> HIDE DEF f
  <2>3. Good(f)
    BY <1>1, <2>1, <2>2 DEF Good
  <2> QED BY <2>1, <2>3 DEF f
<1>8. \A f \in {Steered(e, k), HandedOff(e), Proposed(e)} :
        f.generation = e.generation /\ f.plan = e.plan
  BY <1>1 DEF Steered, HandedOff, Proposed, Snapshot
<1> QED BY <1>5, <1>6, <1>7, <1>8

\* What a call may be about to publish is good, and the successor of its base.
LEMMA PreparedGood ==
  ASSUME NEW k, CallOK(k), k.pc = "publish", NEW next \in Prepared(k)
  PROVE  Good(next) /\ next.revision = NextRevision(k.base)
<1>1. k.change \in Change /\ (k.base # NONE => Good(k.base)) /\ Accepted(k)
  BY DEF CallOK, CallState
<1>2. CASE k.change.kind = "refresh"
  <2>1. k.change.restart \in BOOLEAN /\ k.change.list \in List
    BY <1>1, <1>2 DEF Change
  <2>2. PICK i \in Inputs(k.change.list.work) :
          next = Synced(k.base, k.change.list, k.change.restart, i)
    BY <1>2 DEF Prepared
  <2> QED BY <1>1, <2>1, <2>2, SyncedGood
<1>3. CASE k.change.kind # "refresh"
  <2>1. k.base # NONE /\ Good(k.base) /\ k.base.phase # "completed"
    BY <1>1, <1>3 DEF Accepted
  <2>2. CASE k.change.kind = "steer"
    <3>1. /\ k.change \in [kind : {"steer"}, strength : Level, replan : BOOLEAN]
          /\ k.change.strength # 0 => k.change.strength >= k.base.floor
      BY <1>1, <2>2 DEF Change, Accepted
    <3>2. next = Steered(k.base, k.change)
      BY <2>2 DEF Prepared
    <3> QED BY <2>1, <3>1, <3>2, ChangedGood
  <2>3. CASE k.change.kind \in {"handoff", "propose"}
    <3> DEFINE s == [kind |-> "steer", strength |-> 0, replan |-> FALSE]
    <3>1. s \in [kind : {"steer"}, strength : Level, replan : BOOLEAN] /\ s.strength = 0
      BY ExecutionAssumption DEF Level
    <3>2. next \in {HandedOff(k.base), Proposed(k.base)}
      BY <2>3 DEF Prepared
    <3> HIDE DEF s
    <3> QED BY <2>1, <3>1, <3>2, ChangedGood
  <2> QED BY <1>1, <1>3, <2>2, <2>3 DEF Change
<1> QED BY <1>2, <1>3

\* Only a call that has read the newest snapshot publishes.
LEMMA PublishesNewest ==
  ASSUME IInv, NEW c \in Call, Publish(c), ex' # ex
  PROVE  /\ calls[c].base = ex
         /\ ex' \in Prepared(calls[c])
         /\ Good(ex') /\ ex' # NONE /\ ex'.revision = NextRevision(ex)
<1> DEFINE k == calls[c]
<1>1. CallOK(k) /\ k.pc = "publish"
  BY DEF IInv, Publish, At
<1>2. PICK next \in Prepared(k) : ex' = IF NameTaken(next.revision) THEN ex ELSE next
  BY DEF Publish
<1>3. ~ NameTaken(next.revision) /\ ex' = next
  BY <1>2
<1> HIDE DEF k
<1>4. Good(next) /\ next.revision = NextRevision(k.base)
  BY <1>1, PreparedGood
<1>5. next # NONE
  BY <1>4, ExecutionAssumption DEF Good
<1>6. ex # NONE => ex.revision \in Nat /\ ex.revision >= 1
  BY DEF IInv, Good, Snapshot
<1>7. next.revision \in Nat
  BY <1>4 DEF Good, Snapshot
<1>8. CASE ex = NONE
  BY <1>1, <1>3, <1>4, <1>5, <1>8 DEF CallOK, Superseded, k
<1>9. CASE ex # NONE
  <2>1. next.revision > ex.revision
    BY <1>3, <1>6, <1>7, <1>9 DEF NameTaken
  <2>2. k.base # NONE
    BY <1>4, <1>6, <1>9, <2>1 DEF NextRevision
  <2>3. k.base.revision \in Nat /\ Superseded(k.base)
    BY <1>1, <2>2 DEF CallOK, Good, Snapshot
  <2>4. next.revision = k.base.revision + 1
    BY <1>4, <2>2 DEF NextRevision
  <2>5. k.base = ex
    BY <1>6, <1>9, <2>1, <2>3, <2>4 DEF Superseded
  <2> QED BY <1>3, <1>4, <1>5, <2>5 DEF k
<1> QED BY <1>8, <1>9

\* A list that is not the first, and a call that does nothing, are of their type.
LEMMA IdleOK ==
  /\ NoList \in List
  /\ IdleCall \in CallState
  /\ \A l \in List, restart \in BOOLEAN : Refresh(restart, l) \in Change
<1>1. NoList \in List
  BY DEF NoList, List, Work
<1>2. \A l \in List, restart \in BOOLEAN : Refresh(restart, l) \in Change
  BY DEF Refresh, Change
<1>3. Refresh(FALSE, NoList) \in Change
  BY <1>1, <1>2
<1>4. IdleCall \in CallState
  BY <1>3 DEF IdleCall, CallState
<1> QED BY <1>1, <1>2, <1>4

LEMMA InitInvariant == Init => IInv
<1> SUFFICES ASSUME Init PROVE IInv
  OBVIOUS
<1>1. CallOK(IdleCall)
  BY IdleOK DEF CallOK, IdleCall, Refresh
<1> QED BY <1>1, IdleOK DEF Init, IInv

\* A step in which one call moves, and the execution stays.
LEMMA CallStep ==
  ASSUME IInv, NEW c \in Call, NEW k, CallOK(k), Enter(c, k), ex' = ex, list' \in List
  PROVE  IInv'
<1>1. calls' \in [Call -> CallState]
  BY DEF IInv, Enter, CallOK
<1>2. \A d \in Call : calls'[d] = IF d = c THEN k ELSE calls[d]
  BY DEF IInv, Enter
<1>3. \A d \in Call : CallOK(calls'[d])
  BY <1>2 DEF IInv
<1>4. \A d \in Call : CallOK(calls[d])'
  BY <1>3 DEF CallOK, Superseded
<1> QED BY <1>1, <1>4 DEF IInv

LEMMA NextInvariant == IInv /\ [Next]_vars => IInv'
<1> SUFFICES ASSUME IInv, [Next]_vars PROVE IInv'
  OBVIOUS
<1>1. CASE UNCHANGED vars
  BY <1>1 DEF vars, IInv, CallOK, Superseded
<1>2. ASSUME NEW c \in Call, Begin(c) \/ ReadList(c) \/ Load(c) \/ Publish(c) \/ GiveUp(c)
      PROVE  IInv'
  <2> DEFINE k == calls[c]
  <2>0. CallOK(k) /\ k \in CallState /\ list \in List /\ (ex # NONE => Good(ex))
    BY DEF IInv
  <2>1. ASSUME NEW restart \in BOOLEAN, ToLoad(c, restart), UNCHANGED <<list, ex>>
        PROVE  IInv'
    <3> DEFINE n == [IdleCall EXCEPT !.pc = "load", !.change = Refresh(restart, list)]
    <3>1. n.pc = "load" /\ n.base = NONE /\ n.change = Refresh(restart, list) /\ n \in CallState
      BY <2>0, IdleOK DEF IdleCall, CallState
    <3>2. Enter(c, n)
      BY <2>1 DEF ToLoad
    <3> HIDE DEF n
    <3>3. CallOK(n)
      BY <3>1 DEF CallOK, Refresh
    <3> QED BY <2>0, <2>1, <3>2, <3>3, CallStep
  <2>2. CASE BeginStatus(c)
    BY <2>1, <2>2 DEF BeginStatus
  <2>3. CASE ReadList(c)
    <3>1. k.change.restart \in BOOLEAN
      BY <2>0, <2>3 DEF ReadList, At, CallOK, CallState, Change
    <3> QED BY <2>1, <2>3, <3>1 DEF ReadList
  <2>4. ASSUME NEW work \in Work, NEW restart \in BOOLEAN, BeginUpdate(c, work, restart)
        PROVE  IInv'
    <3> DEFINE n == [IdleCall EXCEPT !.pc = "refresh", !.change.restart = restart]
    <3>1. n.pc = "refresh" /\ n.base = NONE /\ n.change = Refresh(restart, NoList)
          /\ n \in CallState
      BY IdleOK DEF IdleCall, CallState, Refresh
    <3>2. Enter(c, n) /\ ex' = ex
      BY <2>4 DEF BeginUpdate
    <3>3. list' \in List
      BY <2>0, <2>4 DEF BeginUpdate, List
    <3> HIDE DEF n
    <3>4. CallOK(n)
      BY <3>1 DEF CallOK, Refresh
    <3> QED BY <3>2, <3>3, <3>4, CallStep
  <2>5. CASE Return(c) /\ UNCHANGED <<list, ex>>
    <3>1. CallOK(IdleCall)
      BY IdleOK DEF CallOK, IdleCall, Refresh
    <3> QED BY <2>0, <2>5, <3>1, CallStep DEF Return
  <2>6. CASE Load(c)
    <3>1. CASE ex = NONE /\ k.change.list.work = "complete" /\ ~ k.change.restart
      BY <2>5, <2>6, <3>1 DEF Load
    <3>2. CASE ~ (ex = NONE /\ k.change.list.work = "complete" /\ ~ k.change.restart)
      <4> DEFINE n == [k EXCEPT !.pc = "publish", !.base = ex]
      <4>1. n.pc = "publish" /\ n.base = ex /\ n.change = k.change /\ n \in CallState
        BY <2>0 DEF CallState, Good
      <4>2. Enter(c, n) /\ UNCHANGED <<list, ex>>
        BY <2>6, <3>2 DEF Load
      <4>3. k.change.kind = "refresh"
        BY <2>0, <2>6 DEF Load, At, CallOK
      <4> HIDE DEF n
      <4>4. CallOK(n)
        BY <2>0, <4>1, <4>3 DEF CallOK, Accepted, Superseded, Good, Snapshot
      <4> QED BY <2>0, <4>2, <4>4, CallStep
    <3> QED BY <3>1, <3>2
  <2>7. ASSUME NEW change \in Change, Prepare(c, change), Active, change.kind # "refresh",
               change.kind = "steer" => SteerAccepted(change.strength)
        PROVE  IInv'
    <3> DEFINE n == [pc |-> "publish", change |-> change, base |-> ex]
    <3>1. n.pc = "publish" /\ n.base = ex /\ n.change = change
      OBVIOUS
    <3>2. n \in CallState
      BY <2>0, <2>7 DEF CallState, Good
    <3>3. Enter(c, n) /\ UNCHANGED <<list, ex>>
      BY <2>7 DEF Prepare
    <3> HIDE DEF n
    <3>4. Accepted(n)
      BY <2>7, <3>1 DEF Accepted, Active, SteerAccepted
    <3>5. ex # NONE => Superseded(ex)
      BY <2>0 DEF Superseded, Good, Snapshot
    <3>6. CallOK(n)
      BY <2>0, <3>1, <3>2, <3>4, <3>5 DEF CallOK
    <3> QED BY <2>0, <3>3, <3>6, CallStep
  <2>8. ASSUME NEW strength \in Level, NEW replan \in BOOLEAN, BeginSteer(c, strength, replan)
        PROVE  IInv'
    <3> DEFINE s == [kind |-> "steer", strength |-> strength, replan |-> replan]
    <3>1. s \in Change /\ s.kind = "steer" /\ s.strength = strength
      BY DEF Change
    <3>2. Prepare(c, s) /\ SteerAccepted(strength) /\ Active
      BY <2>8 DEF BeginSteer, SteerAccepted
    <3> HIDE DEF s
    <3> QED BY <2>7, <3>1, <3>2
  <2>9. ASSUME NEW kind \in {"handoff", "propose"}, Active, Prepare(c, [kind |-> kind])
        PROVE  IInv'
    <3> DEFINE s == [kind |-> kind]
    <3>1. s \in Change /\ s.kind = kind
      BY DEF Change
    <3>2. Prepare(c, s)
      BY <2>9
    <3> HIDE DEF s
    <3> QED BY <2>7, <2>9, <3>1, <3>2
  <2>10. CASE BeginHandoff(c) \/ BeginPropose(c)
    BY <2>9, <2>10 DEF BeginHandoff, BeginPropose
  <2>11. CASE Publish(c)
    <3>1. Return(c) /\ list' = list
      BY <2>11 DEF Publish
    <3>2. CASE ex' = ex
      BY <2>5, <3>1, <3>2
    <3>3. CASE ex' # ex
      <4>1. Good(ex') /\ ex' # NONE /\ ex'.revision = NextRevision(ex)
        BY <2>11, <3>3, PublishesNewest
      <4>2. CallOK(IdleCall)
        BY IdleOK DEF CallOK, IdleCall, Refresh
      <4>3. \A d \in Call : CallOK(calls[d])
        BY DEF IInv
      <4>4. \A d \in Call : CallOK(calls'[d])
        BY <3>1, <4>2, <4>3 DEF Return, Enter, IInv
      <4>5. ASSUME NEW e, Good(e), Superseded(e) PROVE Superseded(e)'
        <5>1. ex # NONE /\ e.revision \in Nat /\ ex.revision \in Nat /\ e.revision <= ex.revision
          BY <2>0, <4>5 DEF Superseded, Good, Snapshot
        <5>2. ex'.revision = ex.revision + 1
          BY <4>1, <5>1 DEF NextRevision
        <5> QED BY <4>1, <5>1, <5>2 DEF Superseded
      <4>6. \A d \in Call : CallOK(calls[d])'
        BY <4>4, <4>5 DEF CallOK
      <4>7. calls' \in [Call -> CallState]
        BY <3>1, IdleOK DEF Return, Enter, IInv
      <4> QED BY <2>0, <3>1, <4>1, <4>6, <4>7 DEF IInv
    <3> QED BY <3>2, <3>3
  <2>12. CASE GiveUp(c)
    BY <2>5, <2>12 DEF GiveUp
  <2> QED BY <1>2, <2>2, <2>3, <2>4, <2>6, <2>8, <2>10, <2>11, <2>12 DEF Begin
<1> QED BY <1>1, <1>2 DEF Next

THEOREM Invariance == Spec => []IInv
  BY InitInvariant, NextInvariant, PTL DEF Spec

-----------------------------------------------------------------------------
(* The invariants *)

\* Every reachable state is of its type; a checkpoint's verification is one of
\* its own revision (refresh, steer, handoff, propose).
THEOREM TypeCorrect == Spec => []TypeOK
<1>1. IInv => TypeOK
  BY DEF IInv, TypeOK, Good
<1> QED BY <1>1, Invariance, PTL

\* Only proof completes an execution, whatever raced (sync, steer).
THEOREM CompletionNeedsProof == Spec => []SettledByProof
<1>1. IInv => SettledByProof
  BY DEF IInv, SettledByProof, Good
<1> QED BY <1>1, Invariance, PTL

\* A proposal is shown with what it was made for (propose, sync).
THEOREM ProposalsStayCurrent == Spec => []ProposalIsCurrent
<1>1. IInv => ProposalIsCurrent
  BY DEF IInv, ProposalIsCurrent, Good
<1> QED BY <1>1, Invariance, PTL

-----------------------------------------------------------------------------
(* The steps *)

\* Only a publication changes the execution.
LEMMA OnlyPublish ==
  ASSUME [Next]_vars, ex' # ex PROVE \E c \in Call : Publish(c)
BY DEF Next, vars, Begin, BeginStatus, BeginUpdate, BeginSteer, BeginHandoff, BeginPropose,
       ReadList, Load, GiveUp, Prepare

\* What a publication may do to the newest snapshot.
LEMMA Succession ==
  ASSUME IInv, NEW c \in Call, Publish(c), ex # NONE, ex' # ex
  PROVE  /\ ex'.generation # ex.generation =>
              calls[c].change.restart \/ (NoOpenItems(ex.work) /\ ex'.list > ex.list)
         /\ ex'.generation = ex.generation =>
              /\ ex'.floor >= ex.floor
              /\ ex.directive # NONE /\ ex'.directive # ex.directive =>
                   /\ ex'.list > ex.directive.list
                   /\ ex.directive.replan => ex'.plan \notin {NONE, ex.directive.plan}
              /\ ex.plan # NONE /\ ex'.plan # ex.plan =>
                   /\ ex'.plan # NONE
                   /\ ex.directive # NONE /\ ex.directive.replan
<1> DEFINE k == calls[c]
<1>1. /\ k.base = ex /\ ex' \in Prepared(k) /\ Good(ex)
      /\ k.change \in Change /\ Accepted(k)
  BY PublishesNewest DEF IInv, CallOK, CallState, Publish, At
<1>2. ex \in Snapshot /\ ex.floor \in Nat
  BY <1>1 DEF Good, Snapshot, Level
<1> HIDE DEF k
<1>3. CASE k.change.kind = "refresh"
  <2>1. k.change.restart \in BOOLEAN /\ k.change.list \in List
    BY <1>1, <1>3 DEF Change
  <2>2. PICK i \in Inputs(k.change.list.work) :
          ex' = Synced(ex, k.change.list, k.change.restart, i)
    BY <1>1, <1>3 DEF Prepared
  <2>3. /\ ex'.list = k.change.list.revision
        /\ ex'.generation # ex.generation =>
             k.change.restart \/ (NoOpenItems(ex.work) /\ ex'.list > ex.list)
        /\ ex'.generation = ex.generation =>
             /\ ex'.floor = ex.floor
             /\ ex'.directive = Remaining(ex.directive, k.change.list, ex'.plan)
             /\ ex'.plan = SelectPlan(ex, k.change.list, FALSE, i.candidate)
    <3>1. Kept(ex', ex, k.change.list, k.change.restart, i.candidate)
      BY <1>1, <2>1, <2>2, SyncedKeeps
    <3> QED BY <3>1, Zenon DEF Kept
  <2>4. ASSUME ex'.generation = ex.generation, ex.directive # NONE,
               ex'.directive # ex.directive
        PROVE  /\ ex'.list > ex.directive.list
               /\ ex.directive.replan => ex'.plan \notin {NONE, ex.directive.plan}
    BY <2>3, <2>4 DEF Remaining
  <2>5. ASSUME ex'.generation = ex.generation, ex.plan # NONE, ex'.plan # ex.plan
        PROVE  ex'.plan # NONE /\ ex.directive # NONE /\ ex.directive.replan
    BY <2>3, <2>5 DEF SelectPlan
  <2>6. ex'.generation = ex.generation => ex'.floor >= ex.floor
    BY <1>2, <2>3
  <2> QED BY <2>3, <2>4, <2>5, <2>6, Zenon DEF k
<1>4. CASE k.change.kind = "steer"
  <2>1. /\ ex' = Steered(ex, k.change) /\ ex.directive = NONE
        /\ k.change.strength \in Level
        /\ k.change.strength # 0 => k.change.strength >= ex.floor
    BY <1>1, <1>4 DEF Prepared, Accepted, Change
  <2>2. /\ ex'.generation = ex.generation /\ ex'.plan = ex.plan
        /\ ex'.floor = IF k.change.strength = 0 THEN ex.floor ELSE k.change.strength
    BY <1>2, <2>1 DEF Steered, Snapshot
  <2> QED BY <1>2, <2>1, <2>2
<1>5. CASE k.change.kind \in {"handoff", "propose"}
  <2>1. ex' \in {HandedOff(ex), Proposed(ex)}
    BY <1>1, <1>5 DEF Prepared
  <2>2. /\ ex'.generation = ex.generation /\ ex'.plan = ex.plan
        /\ ex'.floor = ex.floor /\ ex'.directive = ex.directive
    BY <1>2, <2>1 DEF HandedOff, Proposed, Snapshot
  <2> QED BY <1>2, <2>2
<1> QED BY <1>1, <1>3, <1>4, <1>5 DEF Change

\* A generation ends only with a restart or after a list without open items
\* (sync).
THEOREM GenerationsEnd == Spec => GenerationEnds
<1>1. IInv /\ [Next]_vars =>
        [ex # NONE /\ ex' # ex /\ ex'.generation # ex.generation
         => \E c \in Call :
              /\ Publish(c)
              /\ calls[c].change.restart \/ (NoOpenItems(ex.work) /\ ex'.list > ex.list)]_vars
  BY OnlyPublish, Succession
<1> QED BY <1>1, Invariance, PTL DEF Spec, GenerationEnds

\* Acknowledged steering outlives every concurrent refresh, proposal and
\* handoff (persist, sync).
THEOREM SteeringIsKept == Spec => SteeringSurvives
<1>1. IInv /\ [Next]_vars =>
        [ex # NONE /\ ex.directive # NONE /\ ex' # ex /\ ex'.generation = ex.generation
         /\ ex'.directive # ex.directive
         => /\ ex'.list > ex.directive.list
            /\ ex.directive.replan => ex'.plan \notin {NONE, ex.directive.plan}]_vars
  BY OnlyPublish, Succession
<1> QED BY <1>1, Invariance, PTL DEF Spec, SteeringSurvives

\* Nothing lowers the verification floor of a generation (steer, sync).
THEOREM FloorIsKept == Spec => FloorHolds
<1>1. IInv /\ [Next]_vars =>
        [ex # NONE /\ ex' # ex /\ ex'.generation = ex.generation => ex'.floor >= ex.floor]_vars
  BY OnlyPublish, Succession
<1> QED BY <1>1, Invariance, PTL DEF Spec, FloorHolds

\* Only steering replaces a bound plan (select_reconciliation_plan_id).
THEOREM PlanBindingIsKept == Spec => PlanBindingHolds
<1>1. IInv /\ [Next]_vars =>
        [ex # NONE /\ ex.plan # NONE /\ ex' # ex /\ ex'.generation = ex.generation
         /\ ex'.plan # ex.plan
         => /\ ex'.plan # NONE
            /\ ex.directive # NONE /\ ex.directive.replan]_vars
  BY OnlyPublish, Succession
<1> QED BY <1>1, Invariance, PTL DEF Spec, PlanBindingHolds

=============================================================================
