------------------------------- MODULE Worklist -------------------------------
(***************************************************************************)
(* The delegated worklist of a workspace (src/runtime/worklist.rs,         *)
(* worklist_delegation.rs).  The list is a chain of immutable snapshots;   *)
(* the next revision is published by linking a finished file to its name,  *)
(* which fails when the name is taken.  Processes share nothing else.      *)
(*                                                                         *)
(* claim and submit look at the list without a lock, work for a long time, *)
(* look again under their process's lock and then publish.  update does    *)
(* everything under that lock.  A claim expires with the clock.            *)
(*                                                                         *)
(* Titles, notes, results and the goal are left out, and an update names   *)
(* each item at most once.                                                 *)
(***************************************************************************)
EXTENDS Scopes

CONSTANTS
  Item,         \* item ids
  Token,        \* claim ids; bound: as many claims are ever asked for
  Proc,         \* wcode processes on the workspace
  Call,         \* worklist calls in flight at the same time
  ProcOf,       \* the process of a call
  Repo,         \* repository revisions
  Updates,      \* what worklist_update is asked for
  Lease,        \* CLAIM_LEASE_MS
  Retained,     \* MAX_WORKLIST_SNAPSHOTS
  MaxRevision,  \* bound on the revisions of the list
  MaxClock,     \* bound on the clock
  NONE          \* an absent Option

Status == {"pending", "in_progress", "done", "blocked"}

Claim == [token : Token, expires : Nat]

Entry == [status : Status, deps : SUBSET Item, paths : SUBSET Path,
          claim : Claim \cup {NONE}]

\* A worklist; NONE for an item that is not in it.
List == [Item -> Entry \cup {NONE}]

\* An optional field is a set of at most one value.
Option(S) == {o \in SUBSET S : \A v, w \in o : v = w}

Patch == [status : Option(Status), deps : Option(SUBSET Item), paths : Option(SUBSET Path)]

Update == [restart : BOOLEAN, patches : [Item -> Patch \cup {NONE}]]

ASSUME WorklistAssumption ==
  /\ ProcOf \in [Call -> Proc] /\ Updates \subseteq Update
  /\ Lease \in Nat \ {0} /\ Retained \in Nat \ {0}
  /\ MaxRevision \in Nat /\ MaxClock \in Nat
  /\ NONE \notin Entry \cup Claim \cup Patch \cup Item \cup Token \cup Repo

VARIABLES
  list,      \* the newest snapshot
  revision,  \* its revision; 0 before the first one
  clock,     \* now_ms
  repo,      \* the repository's current revision
  issued,    \* claim ids that have been generated
  calls      \* Call -> the progress of the call

vars == <<list, revision, clock, repo, issued, calls>>

(* base and repo are the revisions the caller expects; next is the snapshot a
   call is about to publish. *)
CallState == [pc : {"idle", "handoff", "report", "publish"},
              kind : {"claim", "submit", "update", NONE},
              item : Item \cup {NONE}, token : Token \cup {NONE},
              repo : Repo \cup {NONE}, base : Nat, next : List]

EmptyList == [i \in Item |-> NONE]

IdleCall == [pc |-> "idle", kind |-> NONE, item |-> NONE, token |-> NONE,
             repo |-> NONE, base |-> 0, next |-> EmptyList]

Init ==
  /\ list = EmptyList /\ revision = 0
  /\ clock = 0
  /\ repo \in Repo
  /\ issued = {}
  /\ calls = [c \in Call |-> IdleCall]

At(c, pc) == calls[c].pc = pc
Enter(c, k) == calls' = [calls EXCEPT ![c] = k]
Return(c) == Enter(c, IdleCall)

\* update_lock: held from the second look at the list until it is published.
Unlocked(c) == ~ \E d \in Call : ProcOf[d] = ProcOf[c] /\ At(d, "publish")

-----------------------------------------------------------------------------
(* Lists *)

Items(l) == {i \in Item : l[i] # NONE}

\* active_claim
Active(l, i, now) == i \in Items(l) /\ l[i].claim # NONE /\ l[i].claim.expires > now

Done(l, i) == i \in Items(l) /\ l[i].status = "done"

DependenciesDone(l, i) == \A d \in l[i].deps : Done(l, d)

\* overlaps; unlike write scopes, no paths at all mean no writes at all.
Overlaps(left, right) == \E a \in left, b \in right : ScopeContains(a, b) \/ ScopeContains(b, a)

\* Mutant of ScopeFree: only lanes that name the same path exclude each other.
ScopeFreeByName(l, i, now) ==
  \A j \in Items(l) \ {i} : Active(l, j, now) => l[i].paths \cap l[j].paths = {}

\* No other lane that is claimed overlaps the item's.
ScopeFree(l, i, now) ==
  \A j \in Items(l) \ {i} : Active(l, j, now) => ~ Overlaps(l[i].paths, l[j].paths)

\* is_complete
Complete(l) == Items(l) # {} /\ \A i \in Items(l) : Done(l, i)

\* validate_acyclic: every set of items has a member none of whose
\* dependencies is in the set.
Acyclic(l) == \A S \in SUBSET Items(l) : S # {} => \E i \in S : l[i].deps \cap S = {}

\* validate, which load asks of every snapshot, too.
Valid(l) ==
  /\ \A i \in Items(l) : /\ l[i].deps \subseteq Items(l) \ {i}
                         /\ l[i].claim # NONE => l[i].status = "in_progress"
  /\ Acyclic(l)

\* runnable_ids
Runnable(l, now) ==
  {i \in Items(l) : /\ l[i].status \in {"pending", "in_progress"}
                    /\ ~ Active(l, i, now) /\ ScopeFree(l, i, now)
                    /\ DependenciesDone(l, i)}

-----------------------------------------------------------------------------
(* update *)

\* A patch that would change what a live claim relies on; naming the paths is
\* refused even when they stay the same.
Disturbs(e, p) ==
  ~ (p.status \subseteq {e.status} /\ p.deps \subseteq {e.deps} /\ p.paths = {})

Replans(p) == p.status # {} \/ p.deps # {} \/ p.paths # {}

OrElse(option, default) == IF option = {} THEN default ELSE CHOOSE v \in option : TRUE

\* apply_patches for one item; an expired claim goes with the plan it was for.
Patched(l, i, p, now) ==
  IF i \in Items(l)
  THEN [status |-> OrElse(p.status, l[i].status), deps |-> OrElse(p.deps, l[i].deps),
        paths |-> OrElse(p.paths, l[i].paths),
        claim |-> IF Replans(p) /\ ~ Active(l, i, now) THEN NONE ELSE l[i].claim]
  ELSE [status |-> OrElse(p.status, "pending"), deps |-> OrElse(p.deps, {}),
        paths |-> OrElse(p.paths, {}), claim |-> NONE]

Applied(l, u, now) ==
  [i \in Item |-> IF u.patches[i] = NONE THEN l[i] ELSE Patched(l, i, u.patches[i], now)]

\* What an update starts from.
Origin(u) == IF u.restart THEN EmptyList ELSE list

\* A restart needs a list that does not exist yet or is finished.
RestartAllowed(u) == u.restart => revision = 0 \/ Complete(list)

\* No patch disturbs a live claim.
ClaimsRespected(u) ==
  \A i \in Items(Origin(u)) :
    u.patches[i] # NONE /\ Active(Origin(u), i, clock) => ~ Disturbs(list[i], u.patches[i])

\* No patch reopens or adds what a live claim depends on.
DependenciesKept(next) ==
  \A i \in Items(next) : Active(next, i, clock) => DependenciesDone(next, i)

\* Mutants of UpdateAccepted: live claims are not protected; what they depend on
\* is not; the outcome is not validated.
UpdateDisturbingClaims(u, next) == RestartAllowed(u) /\ DependenciesKept(next) /\ Valid(next)
UpdateReopening(u, next) == RestartAllowed(u) /\ ClaimsRespected(u) /\ Valid(next)
UpdateUnvalidated(u, next) == RestartAllowed(u) /\ ClaimsRespected(u) /\ DependenciesKept(next)

\* update
UpdateAccepted(u, next) ==
  /\ RestartAllowed(u) /\ ClaimsRespected(u)
  /\ DependenciesKept(next) /\ Valid(next)

\* A caller that expects another revision is refused before anything happens.
PrepareUpdate(c, u) ==
  LET next == Applied(Origin(u), u, clock)
  IN /\ At(c, "idle") /\ Unlocked(c)
     /\ UpdateAccepted(u, next)
     /\ Enter(c, [IdleCall EXCEPT !.pc = "publish", !.kind = "update",
                                  !.base = revision, !.next = next])
     /\ UNCHANGED <<list, revision, clock, repo, issued>>

-----------------------------------------------------------------------------
(* claim *)

\* The first look of a claim; a caller with stale expectations is refused here.
Claimable(i) ==
  /\ i \in Items(list) /\ list[i].status \in {"pending", "in_progress"}
  /\ DependenciesDone(list, i) /\ ScopeFree(list, i, clock)

BeginClaim(c, i, k) ==
  /\ At(c, "idle") /\ Claimable(i) /\ ~ Active(list, i, clock)
  /\ k \in Token \ issued
  /\ issued' = issued \cup {k}
  /\ Enter(c, [IdleCall EXCEPT !.pc = "handoff", !.kind = "claim", !.item = i,
                               !.token = k, !.repo = repo, !.base = revision])
  /\ UNCHANGED <<list, revision, clock, repo>>

\* Only the holder knows the id of a claim.
BeginRenewal(c, i) ==
  /\ At(c, "idle") /\ Claimable(i) /\ Active(list, i, clock)
  /\ Enter(c, [IdleCall EXCEPT !.pc = "handoff", !.kind = "claim", !.item = i,
                               !.token = list[i].claim.token, !.repo = repo,
                               !.base = revision])
  /\ UNCHANGED <<list, revision, clock, repo, issued>>

\* guarded_worklist and check_revision: nothing has moved since the first look.
Unmoved(k) == k.base = revision /\ k.repo = repo

Holds(k) == Active(list, k.item, clock) /\ list[k.item].claim.token = k.token

\* A renewal is a claim whose id was in the list at the first look; the list
\* has not moved since.
Renewing(k) == list[k.item].claim # NONE /\ list[k.item].claim.token = k.token

\* The second look of a claim.
ClaimStands(k) ==
  /\ Unmoved(k)
  /\ IF Renewing(k) THEN Holds(k) ELSE ~ Active(list, k.item, clock)
  /\ ScopeFree(list, k.item, clock)

CommitClaim(c) ==
  LET k == calls[c]
  IN /\ At(c, "handoff") /\ Unlocked(c)
     /\ IF ClaimStands(k)
        THEN Enter(c, [k EXCEPT !.pc = "publish", !.next =
               [list EXCEPT ![k.item] =
                  [@ EXCEPT !.status = "in_progress",
                            !.claim = [token |-> k.token, expires |-> clock + Lease]]]])
        ELSE Return(c)
     /\ UNCHANGED <<list, revision, clock, repo, issued>>

-----------------------------------------------------------------------------
(* submit *)

BeginSubmit(c, i) ==
  /\ At(c, "idle") /\ Active(list, i, clock)
  /\ Enter(c, [IdleCall EXCEPT !.pc = "report", !.kind = "submit", !.item = i,
                               !.token = list[i].claim.token, !.repo = repo,
                               !.base = revision])
  /\ UNCHANGED <<list, revision, clock, repo, issued>>

\* The outcomes Complete, Blocked and Incomplete.
CommitSubmit(c) ==
  LET k == calls[c]
  IN /\ At(c, "report") /\ Unlocked(c)
     /\ IF Unmoved(k) /\ Holds(k)
        THEN \E outcome \in {"done", "blocked", "pending"} :
               Enter(c, [k EXCEPT !.pc = "publish", !.next =
                 [list EXCEPT ![k.item] = [@ EXCEPT !.status = outcome, !.claim = NONE]]])
        ELSE Return(c)
     /\ UNCHANGED <<list, revision, clock, repo, issued>>

-----------------------------------------------------------------------------
(* The store *)

\* Mutant of NameTaken: the new snapshot replaces whatever has its name.
NeverTaken(r) == FALSE

\* prune keeps the newest snapshots, so an old name is free again.
NameTaken(r) == r <= revision /\ r + Retained > revision

\* persist: the link fails when the revision is there already.  A name that was
\* pruned can be taken once more, but then the newest snapshot stays the newest.
Publish(c) ==
  LET k == calls[c]
  IN /\ At(c, "publish")
     /\ IF NameTaken(k.base + 1) \/ k.base + 1 < revision
        THEN UNCHANGED <<list, revision>>
        ELSE list' = k.next /\ revision' = k.base + 1
     /\ Return(c)
     /\ UNCHANGED <<clock, repo, issued>>

\* A handoff, an evidence query or a write fails, or the process ends.
GiveUp(c) ==
  /\ ~ At(c, "idle")
  /\ Return(c)
  /\ UNCHANGED <<list, revision, clock, repo, issued>>

Tick == clock < MaxClock /\ clock' = clock + 1 /\ UNCHANGED <<list, revision, repo, issued, calls>>

Edit == repo' \in Repo \ {repo} /\ UNCHANGED <<list, revision, clock, issued, calls>>

-----------------------------------------------------------------------------
Begin(c) ==
  /\ revision < MaxRevision
  /\ \/ \E u \in Updates : PrepareUpdate(c, u)
     \/ \E i \in Item, k \in Token : BeginClaim(c, i, k)
     \/ \E i \in Item : BeginRenewal(c, i) \/ BeginSubmit(c, i)

Next ==
  \/ \E c \in Call : Begin(c) \/ CommitClaim(c) \/ CommitSubmit(c) \/ Publish(c) \/ GiveUp(c)
  \/ Tick
  \/ Edit

Spec == Init /\ [][Next]_vars

-----------------------------------------------------------------------------
(* Properties *)

\* Every variable keeps to its type, and every snapshot, published or about to
\* be, is one that load accepts.
TypeOK ==
  /\ list \in List /\ Valid(list)
  /\ revision \in Nat /\ clock \in Nat /\ repo \in Repo /\ issued \in SUBSET Token
  /\ calls \in [Call -> CallState]
  /\ \A c \in Call : At(c, "publish") => Valid(calls[c].next)

\* Two lanes with live claims never overlap, whatever claims, renewals, expiries
\* and re-plannings of several processes do in between (claim_with_context looks
\* twice, persist publishes once).
LiveLanesDisjoint ==
  \A i, j \in Items(list) :
    i # j /\ Active(list, i, clock) /\ Active(list, j, clock)
    => ~ Overlaps(list[i].paths, list[j].paths)

\* What a live claim builds on stays finished: no update or submission reopens
\* it under the holder (apply_patches).
LiveDependenciesDone ==
  \A i \in Items(list) : Active(list, i, clock) => DependenciesDone(list, i)

\* While claims live, their lanes are apart and what they build on is finished.
LiveLanesSound == LiveLanesDisjoint /\ LiveDependenciesDone

\* As long as a claim is live, nobody but its holder changes the item, and the
\* item does not vanish (apply_patches, worklist_submit).
LiveClaimProtected ==
  [][\A i \in Item :
       Active(list, i, clock) /\ list'[i] # list[i]
       => \E c \in Call : /\ Publish(c)
                          /\ calls[c].kind \in {"claim", "submit"} /\ calls[c].item = i
                          /\ calls[c].token = list[i].claim.token]_vars

\* A publication that was acknowledged is the newest snapshot, made from the
\* snapshot it replaces: no process overwrites the work of another (persist).
\* Only a call that was overtaken by as many revisions as prune keeps can be
\* told that its publication succeeded and have none.
AcknowledgedTakesEffect ==
  [][\A c \in Call :
       Publish(c) /\ ~ NameTaken(calls[c].base + 1)
       /\ revision < calls[c].base + 1 + Retained
       => /\ calls[c].base = revision
          /\ list' = calls[c].next /\ revision' = revision + 1]_vars

\* Unfinished work that is neither blocked nor claimed can always be picked up
\* (validate_acyclic, runnable_ids).
NothingStuck ==
  /\ Items(list) # {} /\ ~ Complete(list)
  /\ \A i \in Items(list) : list[i].status # "blocked" /\ ~ Active(list, i, clock)
  => Runnable(list, clock) # {}

=============================================================================
