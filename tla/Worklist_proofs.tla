--------------------------- MODULE Worklist_proofs ---------------------------
(***************************************************************************)
(* The worklist, for any items, processes, claims, requests and bounds.    *)
(* A call that is about to publish carries a snapshot that is good by      *)
(* itself; that it may replace the newest one is known only while no other *)
(* snapshot has been published since the call looked, which is what its    *)
(* base says and what the name of the file finds out.                      *)
(***************************************************************************)
EXTENDS Worklist, TLAPS

\* The two halves of LiveLanesSound, of any snapshot.
LanesApart(l, now) ==
  \A i, j \in Items(l) :
    i # j /\ Active(l, i, now) /\ Active(l, j, now) => ~ Overlaps(l[i].paths, l[j].paths)

BuildsOnDone(l, now) == \A i \in Items(l) : Active(l, i, now) => DependenciesDone(l, i)

Good(l, now) == Valid(l) /\ LanesApart(l, now) /\ BuildsOnDone(l, now)

\* What a call publishes changes no claimed item but its own.
Respects(k) ==
  \A i \in Item :
    Active(list, i, clock) /\ k.next[i] # list[i] =>
      /\ k.kind \in {"claim", "submit"} /\ k.item = i
      /\ k.token = list[i].claim.token

\* What a claim has seen of its item stays true until somebody publishes.
Seen(k) ==
  /\ k.item \in Items(list)
  /\ list[k.item].status \in {"pending", "in_progress"}
  /\ DependenciesDone(list, k.item)

CallInv(k) ==
  /\ k.base <= revision
  /\ k.pc # "idle" => k.base < MaxRevision
  /\ k.pc = "handoff" => /\ k.kind = "claim" /\ k.item \in Item /\ k.token \in Token
                         /\ k.base = revision => Seen(k)
  /\ k.pc = "report" => k.kind = "submit" /\ k.item \in Item /\ k.token \in Token
  /\ k.pc = "publish" => /\ Good(k.next, clock)
                         /\ k.base = revision => Respects(k)

Inv ==
  /\ list \in List /\ Good(list, clock)
  /\ revision \in Nat /\ clock \in Nat /\ repo \in Repo /\ issued \in SUBSET Token
  /\ calls \in [Call -> CallState]
  /\ revision <= MaxRevision
  /\ revision = 0 => list = EmptyList
  /\ \A c \in Call : CallInv(calls[c])

-----------------------------------------------------------------------------
(* Snapshots *)

\* Claims only expire: the older the clock, the more of them are live.
LEMMA ClaimsExpire ==
  ASSUME NEW l \in List, NEW i \in Item, NEW now \in Nat, NEW later \in Nat,
         now <= later, Active(l, i, later)
  PROVE  Active(l, i, now)
<1>1. i \in Items(l) /\ l[i].claim # NONE /\ l[i].claim.expires > later
  BY DEF Active
<1>2. l[i].claim.expires \in Nat
  BY <1>1, WorklistAssumption DEF List, Entry, Claim, Items
<1> QED BY <1>1, <1>2 DEF Active

\* So a good snapshot stays good while time passes.
LEMMA GoodStaysGood ==
  ASSUME NEW l \in List, NEW now \in Nat, NEW later \in Nat, now <= later, Good(l, now)
  PROVE  Good(l, later)
<1>1. \A i \in Items(l) : Active(l, i, later) => Active(l, i, now)
  BY ClaimsExpire DEF Items
<1> QED BY <1>1 DEF Good, LanesApart, BuildsOnDone

LEMMA EmptyIsGood ==
  ASSUME NEW now PROVE EmptyList \in List /\ Items(EmptyList) = {} /\ Good(EmptyList, now)
<1>1. EmptyList \in List /\ Items(EmptyList) = {}
  BY DEF EmptyList, List, Items
<1> QED BY <1>1 DEF Good, Valid, Acyclic, LanesApart, BuildsOnDone

LEMMA OverlapIsSymmetric ==
  ASSUME NEW left, NEW right
  PROVE  Overlaps(left, right) <=> Overlaps(right, left)
BY DEF Overlaps

\* n is l, but for the status and the claim of item i.
Replaces(n, l, i) ==
  /\ i \in Items(l) /\ n \in List /\ n[i] \in Entry
  /\ \A j \in Item \ {i} : n[j] = l[j]
  /\ n[i].deps = l[i].deps /\ n[i].paths = l[i].paths
  /\ n[i].claim # NONE => n[i].status = "in_progress"

\* claim and submit change one item of a valid list, which stays valid ...
LEMMA ReplacementIsValid ==
  ASSUME NEW l \in List, NEW n, NEW i, Replaces(n, l, i), Valid(l)
  PROVE  Items(n) = Items(l) /\ Valid(n)
<1>1. Items(n) = Items(l) /\ i \in Item
  BY WorklistAssumption DEF Items, Replaces
<1>2. \A j \in Items(l) : n[j].deps = l[j].deps
  BY DEF Replaces, Items
<1>3. Acyclic(n)
  BY <1>1, <1>2 DEF Valid, Acyclic
<1>4. \A j \in Items(n) : /\ n[j].deps \subseteq Items(n) \ {j}
                          /\ n[j].claim # NONE => n[j].status = "in_progress"
  BY <1>1, <1>2 DEF Valid, Replaces, Items
<1> QED BY <1>1, <1>3, <1>4 DEF Valid

\* ... and good, when the item was not finished and a new claim finds its
\* scope free and its dependencies done.
LEMMA ReplacementIsGood ==
  ASSUME NEW l \in List, NEW n, NEW i, NEW now, Replaces(n, l, i), Good(l, now),
         l[i].status # "done",
         Active(n, i, now) => ScopeFree(l, i, now) /\ DependenciesDone(l, i)
  PROVE  Good(n, now)
<1>1. Items(n) = Items(l) /\ Valid(n)
  BY ReplacementIsValid DEF Good
<1>2. \A j \in Items(l) \ {i} : n[j] = l[j] /\ (Active(n, j, now) <=> Active(l, j, now))
  BY <1>1 DEF Replaces, Items, Active
<1>3. \A j \in Items(l) : n[j].deps = l[j].deps /\ n[j].paths = l[j].paths
  BY DEF Replaces, Items
<1>4. \A j \in Item : Done(l, j) => Done(n, j)
  BY <1>1, <1>2 DEF Done
<1>5. ASSUME NEW j \in Items(n), NEW k \in Items(n), j # k,
             Active(n, j, now), Active(n, k, now)
      PROVE  ~ Overlaps(n[j].paths, n[k].paths)
  <2>1. CASE j = i
    BY <1>1, <1>2, <1>3, <1>5, <2>1 DEF ScopeFree
  <2>2. CASE k = i
    BY <1>1, <1>2, <1>3, <1>5, <2>2, OverlapIsSymmetric DEF ScopeFree
  <2>3. CASE j # i /\ k # i
    BY <1>1, <1>2, <1>5, <2>3 DEF Good, LanesApart
  <2> QED BY <2>1, <2>2, <2>3
<1>6. ASSUME NEW j \in Items(n), Active(n, j, now) PROVE DependenciesDone(n, j)
  <2>1. DependenciesDone(l, j)
    BY <1>1, <1>2, <1>6 DEF Good, BuildsOnDone
  <2>2. l[j].deps \subseteq Item
    BY <1>1 DEF Good, Valid, Items
  <2> QED BY <1>1, <1>3, <1>4, <2>1, <2>2 DEF DependenciesDone
<1> QED BY <1>1, <1>5, <1>6 DEF Good, LanesApart, BuildsOnDone

\* Where there is work and nobody is blocked or has a claim, the first item of
\* what is left is free (validate_acyclic, runnable_ids).
LEMMA FirstIsRunnable ==
  ASSUME NEW l \in List, NEW now, Valid(l), Items(l) # {}, ~ Complete(l),
         \A i \in Items(l) : l[i].status # "blocked" /\ ~ Active(l, i, now)
  PROVE  Runnable(l, now) # {}
<1> DEFINE left == {i \in Items(l) : ~ Done(l, i)}
<1>1. left \in SUBSET Items(l) /\ left # {}
  BY DEF Complete
<1>2. PICK i \in left : l[i].deps \cap left = {}
  BY <1>1 DEF Valid, Acyclic
<1>3. DependenciesDone(l, i)
  BY <1>2 DEF DependenciesDone, Valid
<1>4. l[i].status \in {"pending", "in_progress"}
  <2>1. l[i] \in Entry
    BY <1>2 DEF List, Items
  <2> QED BY <1>2, <2>1 DEF Entry, Status, Done
<1>5. ScopeFree(l, i, now)
  BY DEF ScopeFree
<1> QED BY <1>2, <1>3, <1>4, <1>5 DEF Runnable

-----------------------------------------------------------------------------
(* Updates *)

LEMMA OptionIsOf ==
  ASSUME NEW S, NEW o \in Option(S), NEW d \in S
  PROVE  OrElse(o, d) \in S
BY DEF Option, OrElse

LEMMA PatchedIsEntry ==
  ASSUME NEW l \in List, NEW i \in Item, NEW p \in Patch, NEW now
  PROVE  Patched(l, i, p, now) \in Entry
<1>1. /\ p.status \in Option(Status) /\ p.deps \in Option(SUBSET Item)
      /\ p.paths \in Option(SUBSET Path)
  BY DEF Patch
<1>2. CASE i \in Items(l)
  <2>1. l[i] \in Entry
    BY <1>2 DEF List, Items
  <2>2. /\ OrElse(p.status, l[i].status) \in Status
        /\ OrElse(p.deps, l[i].deps) \in SUBSET Item
        /\ OrElse(p.paths, l[i].paths) \in SUBSET Path
    BY <1>1, <2>1, OptionIsOf DEF Entry
  <2> QED BY <1>2, <2>1, <2>2 DEF Patched, Entry
<1>3. CASE i \notin Items(l)
  <2>1. /\ OrElse(p.status, "pending") \in Status
        /\ OrElse(p.deps, {}) \in SUBSET Item
        /\ OrElse(p.paths, {}) \in SUBSET Path
    BY <1>1, OptionIsOf DEF Status
  <2> QED BY <1>3, <2>1 DEF Patched, Entry
<1> QED BY <1>2, <1>3

LEMMA AppliedIsList ==
  ASSUME NEW l \in List, NEW u \in Update, NEW now
  PROVE  Applied(l, u, now) \in List
<1>1. \A i \in Item : u.patches[i] # NONE => u.patches[i] \in Patch
  BY DEF Update
<1> QED BY <1>1, PatchedIsEntry DEF Applied, List

\* No patch makes or prolongs a claim.
LEMMA UpdateClaimsNothing ==
  ASSUME NEW l \in List, NEW u \in Update, NEW now, NEW i \in Item,
         Active(Applied(l, u, now), i, now)
  PROVE  Active(l, i, now)
<1> DEFINE n == Applied(l, u, now)
<1>1. n[i] # NONE /\ n[i].claim # NONE /\ n[i].claim.expires > now
  BY DEF Active, Items
<1>2. n[i] = IF u.patches[i] = NONE THEN l[i] ELSE Patched(l, i, u.patches[i], now)
  BY DEF Applied
<1>3. CASE u.patches[i] = NONE
  BY <1>1, <1>2, <1>3 DEF Active, Items
<1>4. CASE u.patches[i] # NONE
  <2>1. i \in Items(l) /\ n[i].claim \in {NONE, l[i].claim}
    BY <1>1, <1>2, <1>4 DEF Patched
  <2> QED BY <1>1, <2>1 DEF Active
<1> QED BY <1>3, <1>4

\* What is live where the list begins anew: nothing.
LEMMA RestartFindsNoClaim ==
  ASSUME Inv, NEW u \in Update, RestartAllowed(u), u.restart, NEW i \in Item
  PROVE  ~ Active(list, i, clock)
<1>1. CASE revision = 0
  BY <1>1, EmptyIsGood DEF Inv, Active
<1>2. CASE Complete(list)
  BY <1>2 DEF Inv, Good, Valid, Complete, Done, Active
<1> QED BY <1>1, <1>2 DEF RestartAllowed

\* An update that is accepted leaves claimed items as they are ...
LEMMA UpdateRespectsClaims ==
  ASSUME Inv, NEW u \in Update, RestartAllowed(u), ClaimsRespected(u),
         NEW i \in Item, Active(list, i, clock)
  PROVE  /\ ~ u.restart
         /\ Applied(Origin(u), u, clock)[i] = list[i]
<1>1. ~ u.restart /\ Origin(u) = list
  BY RestartFindsNoClaim DEF Origin
<1>2. i \in Items(list) /\ list[i] \in Entry
  BY DEF Active, Inv, List, Items
<1>3. Applied(list, u, clock)[i]
        = IF u.patches[i] = NONE THEN list[i] ELSE Patched(list, i, u.patches[i], clock)
  BY DEF Applied
<1>4. CASE u.patches[i] # NONE
  <2> DEFINE p == u.patches[i]
  <2>1. p \in Patch
    BY <1>4 DEF Update
  <2>2. /\ p.status \subseteq {list[i].status} /\ p.deps \subseteq {list[i].deps}
        /\ p.paths = {}
    BY <1>1, <1>2, <1>4 DEF ClaimsRespected, Disturbs
  <2>3. /\ OrElse(p.status, list[i].status) = list[i].status
        /\ OrElse(p.deps, list[i].deps) = list[i].deps
        /\ OrElse(p.paths, list[i].paths) = list[i].paths
    BY <2>2 DEF OrElse
  <2>4. Patched(list, i, p, clock) =
          [status |-> list[i].status, deps |-> list[i].deps, paths |-> list[i].paths,
           claim |-> list[i].claim]
    BY <1>2, <2>3 DEF Patched
  <2>5. Patched(list, i, p, clock) = list[i]
    BY <1>2, <2>4 DEF Entry
  <2> QED BY <1>1, <1>3, <1>4, <2>5
<1> QED BY <1>1, <1>3, <1>4

\* ... and is good.
LEMMA UpdateIsGood ==
  ASSUME Inv, NEW u \in Update, UpdateAccepted(u, Applied(Origin(u), u, clock))
  PROVE  /\ Applied(Origin(u), u, clock) \in List
         /\ Good(Applied(Origin(u), u, clock), clock)
<1> DEFINE n == Applied(Origin(u), u, clock)
<1>0. list \in List /\ Origin(u) \in List
  BY EmptyIsGood DEF Inv, Origin
<1>1. n \in List
  BY <1>0, AppliedIsList
<1>2. Valid(n) /\ BuildsOnDone(n, clock)
  BY DEF UpdateAccepted, DependenciesKept, BuildsOnDone
<1>3. \A i \in Items(n) : Active(n, i, clock) => Active(list, i, clock) /\ n[i] = list[i]
  <2> SUFFICES ASSUME NEW i \in Items(n), Active(n, i, clock)
               PROVE  Active(list, i, clock) /\ n[i] = list[i]
    OBVIOUS
  <2>1. i \in Item
    BY DEF Items
  <2>2. Active(Origin(u), i, clock)
    BY <1>0, <2>1, UpdateClaimsNothing
  <2>3. Active(list, i, clock)
    BY <2>2, EmptyIsGood DEF Origin, Active
  <2> QED BY <2>1, <2>3, UpdateRespectsClaims DEF UpdateAccepted
<1>4. LanesApart(n, clock)
  <2> HIDE DEF n
  <2> SUFFICES ASSUME NEW i \in Items(n), NEW j \in Items(n), i # j,
                      Active(n, i, clock), Active(n, j, clock)
               PROVE  ~ Overlaps(n[i].paths, n[j].paths)
    BY DEF LanesApart
  <2>1. /\ Active(list, i, clock) /\ n[i] = list[i]
        /\ Active(list, j, clock) /\ n[j] = list[j]
    BY <1>3
  <2> QED BY <2>1 DEF Inv, Good, LanesApart, Active
<1> QED BY <1>1, <1>2, <1>4 DEF Good

-----------------------------------------------------------------------------
(* Calls *)

LEMMA IdleIsCall ==
  ASSUME Inv PROVE IdleCall \in CallState /\ CallInv(IdleCall)
BY EmptyIsGood DEF IdleCall, CallState, CallInv, Inv

\* A call that starts to work on an item ...
Starting(pc, kind, i, t, r) ==
  [IdleCall EXCEPT !.pc = pc, !.kind = kind, !.item = i, !.token = t, !.repo = r,
                   !.base = revision]

LEMMA StartingCall ==
  ASSUME Inv, NEW pc \in {"handoff", "report"}, NEW kind \in {"claim", "submit"},
         NEW i \in Item, NEW t \in Token, NEW r \in Repo
  PROVE  LET k == Starting(pc, kind, i, t, r) IN
         /\ k \in CallState
         /\ k.pc = pc /\ k.kind = kind /\ k.item = i /\ k.token = t /\ k.base = revision
<1> DEFINE k == Starting(pc, kind, i, t, r)
<1>1. revision \in Nat /\ EmptyList \in List
  BY EmptyIsGood DEF Inv
<1>2. k.pc = pc /\ k.kind = kind /\ k.item = i /\ k.token = t /\ k.base = revision
  BY DEF Starting, IdleCall
<1>3. k \in CallState
  BY <1>1 DEF Starting, IdleCall, CallState
<1> QED BY <1>2, <1>3

\* ... and one that has decided what to publish.
Deciding(k, n) == [k EXCEPT !.pc = "publish", !.next = n]

LEMMA DecidingCall ==
  ASSUME NEW k \in CallState, NEW n \in List
  PROVE  /\ Deciding(k, n) \in CallState
         /\ Deciding(k, n).pc = "publish" /\ Deciding(k, n).next = n
         /\ Deciding(k, n).kind = k.kind /\ Deciding(k, n).item = k.item
         /\ Deciding(k, n).token = k.token /\ Deciding(k, n).base = k.base
BY DEF Deciding, CallState

\* A step of a call before it publishes changes only its own progress.
LEMMA CallMoves ==
  ASSUME Inv, NEW c \in Call, NEW k \in CallState, CallInv(k),
         calls' = [calls EXCEPT ![c] = k], issued' \in SUBSET Token,
         UNCHANGED <<list, revision, clock, repo>>
  PROVE  Inv'
<1>1. calls' \in [Call -> CallState]
  BY DEF Inv
<1>2. \A d \in Call : calls'[d] = IF d = c THEN k ELSE calls[d]
  BY DEF Inv
<1>3. \A d \in Call : CallInv(calls[d])'
  BY <1>2 DEF Inv, CallInv, Seen, Respects
<1> QED BY <1>1, <1>3 DEF Inv

\* A call returns, or its process ends.
LEMMA ReturnKeeps ==
  ASSUME Inv, NEW c \in Call, Return(c), UNCHANGED <<list, revision, clock, repo, issued>>
  PROVE  Inv'
<1>1. issued' \in SUBSET Token
  BY DEF Inv
<1> QED BY <1>1, IdleIsCall, CallMoves DEF Return, Enter

LEMMA PrepareUpdateKeeps ==
  ASSUME Inv, NEW c \in Call, NEW u \in Updates, revision < MaxRevision, PrepareUpdate(c, u)
  PROVE  Inv'
<1> DEFINE n == Applied(Origin(u), u, clock)
           k == [IdleCall EXCEPT !.pc = "publish", !.kind = "update",
                                 !.base = revision, !.next = n]
<1>1. /\ UpdateAccepted(u, n) /\ calls' = [calls EXCEPT ![c] = k]
      /\ UNCHANGED <<list, revision, clock, repo, issued>>
  BY DEF PrepareUpdate, Enter
<1>2. u \in Update
  BY WorklistAssumption
<1>3. n \in List /\ Good(n, clock)
  BY <1>1, <1>2, UpdateIsGood
<1>4. /\ k.pc = "publish" /\ k.kind = "update" /\ k.base = revision /\ k.next = n
      /\ revision \in Nat
  BY DEF IdleCall, Inv
<1>5. \A i \in Item : Active(list, i, clock) => n[i] = list[i]
  BY <1>1, <1>2, UpdateRespectsClaims DEF UpdateAccepted
<1>6. k \in CallState /\ CallInv(k)
  <2> HIDE DEF n
  <2>1. k \in CallState
    BY <1>3, <1>4 DEF IdleCall, CallState
  <2> HIDE DEF k
  <2>2. CallInv(k)
    BY <1>1, <1>3, <1>4, <1>5 DEF CallInv, Respects, Inv
  <2> QED BY <2>1, <2>2
<1>7. issued' \in SUBSET Token
  BY <1>1 DEF Inv
<1> HIDE DEF k
<1> QED BY <1>1, <1>6, <1>7, CallMoves

LEMMA BeginClaimKeeps ==
  ASSUME Inv, NEW c \in Call, NEW i \in Item, NEW t \in Token, revision < MaxRevision,
         BeginClaim(c, i, t)
  PROVE  Inv'
<1> DEFINE k == Starting("handoff", "claim", i, t, repo)
<1>1. /\ Claimable(i) /\ calls' = [calls EXCEPT ![c] = k] /\ issued' = issued \cup {t}
      /\ UNCHANGED <<list, revision, clock, repo>>
  BY DEF BeginClaim, Enter, Starting
<1>2. /\ k \in CallState /\ k.pc = "handoff" /\ k.kind = "claim" /\ k.item = i
      /\ k.token \in Token /\ k.base = revision /\ revision \in Nat
  BY <1>1, StartingCall DEF Inv
<1> HIDE DEF k
<1>3. CallInv(k)
  BY <1>1, <1>2 DEF CallInv, Seen, Claimable, Inv
<1>4. issued' \in SUBSET Token
  BY <1>1 DEF Inv
<1> QED BY <1>1, <1>2, <1>3, <1>4, CallMoves

\* A renewal and a submission name the claim they find.
LEMMA ActiveToken ==
  ASSUME Inv, NEW i \in Item, Active(list, i, clock)
  PROVE  /\ list[i] \in Entry /\ list[i].claim \in Claim /\ list[i].claim.token \in Token
         /\ list[i].status = "in_progress"
BY DEF Inv, Active, List, Items, Entry, Claim, Good, Valid

LEMMA BeginRenewalKeeps ==
  ASSUME Inv, NEW c \in Call, NEW i \in Item, revision < MaxRevision, BeginRenewal(c, i)
  PROVE  Inv'
<1> DEFINE k == Starting("handoff", "claim", i, list[i].claim.token, repo)
<1>1. /\ Claimable(i) /\ Active(list, i, clock) /\ calls' = [calls EXCEPT ![c] = k]
      /\ UNCHANGED <<list, revision, clock, repo, issued>>
  BY DEF BeginRenewal, Enter, Starting
<1>2. /\ k \in CallState /\ k.pc = "handoff" /\ k.kind = "claim" /\ k.item = i
      /\ k.token \in Token /\ k.base = revision /\ revision \in Nat
  BY <1>1, StartingCall, ActiveToken DEF Inv
<1> HIDE DEF k
<1>3. CallInv(k)
  BY <1>1, <1>2 DEF CallInv, Seen, Claimable, Inv
<1>4. issued' \in SUBSET Token
  BY <1>1 DEF Inv
<1> QED BY <1>1, <1>2, <1>3, <1>4, CallMoves

LEMMA BeginSubmitKeeps ==
  ASSUME Inv, NEW c \in Call, NEW i \in Item, revision < MaxRevision, BeginSubmit(c, i)
  PROVE  Inv'
<1> DEFINE k == Starting("report", "submit", i, list[i].claim.token, repo)
<1>1. /\ Active(list, i, clock) /\ calls' = [calls EXCEPT ![c] = k]
      /\ UNCHANGED <<list, revision, clock, repo, issued>>
  BY DEF BeginSubmit, Enter, Starting
<1>2. /\ k \in CallState /\ k.pc = "report" /\ k.kind = "submit" /\ k.item = i
      /\ k.token \in Token /\ k.base = revision /\ revision \in Nat
  BY <1>1, StartingCall, ActiveToken DEF Inv
<1> HIDE DEF k
<1>3. CallInv(k)
  BY <1>1, <1>2 DEF CallInv, Seen, Claimable, Inv
<1>4. issued' \in SUBSET Token
  BY <1>1 DEF Inv
<1> QED BY <1>1, <1>2, <1>3, <1>4, CallMoves

\* A call that has made up its mind about its item.
LEMMA DecisionKeeps ==
  ASSUME Inv, NEW c \in Call, NEW i \in Item, NEW e \in Entry, calls[c].pc # "idle",
         calls[c].kind \in {"claim", "submit"}, calls[c].item = i, calls[c].base = revision,
         i \in Items(list), list[i].status # "done",
         e.deps = list[i].deps, e.paths = list[i].paths,
         e.claim # NONE => e.status = "in_progress"
                           /\ ScopeFree(list, i, clock) /\ DependenciesDone(list, i),
         Active(list, i, clock) => calls[c].token = list[i].claim.token,
         Enter(c, [calls[c] EXCEPT !.pc = "publish", !.next = [list EXCEPT ![i] = e]]),
         UNCHANGED <<list, revision, clock, repo, issued>>
  PROVE  Inv'
<1> DEFINE n == [list EXCEPT ![i] = e]
           k == [calls[c] EXCEPT !.pc = "publish", !.next = n]
<1>1. list \in List /\ calls[c] \in CallState /\ CallInv(calls[c])
  BY DEF Inv
<1>2. n \in List /\ n[i] = e /\ \A j \in Item \ {i} : n[j] = list[j]
  BY <1>1 DEF List
<1>3. Replaces(n, list, i)
  BY <1>2 DEF Replaces
<1>4. Active(n, i, clock) => e.claim # NONE
  BY <1>2 DEF Active
<1>5. Good(n, clock)
  <2> HIDE DEF n
  <2> QED BY <1>1, <1>3, <1>4, ReplacementIsGood DEF Inv
<1>6. k = Deciding(calls[c], n)
  BY DEF Deciding
<1> HIDE DEF n, k
<1>7. /\ k \in CallState /\ k.pc = "publish" /\ k.next = n /\ k.kind = calls[c].kind
      /\ k.item = i /\ k.token = calls[c].token /\ k.base = revision
  BY <1>1, <1>2, <1>6, DecidingCall
<1>8. issued' \in SUBSET Token /\ calls' = [calls EXCEPT ![c] = k]
  BY DEF Inv, Enter, k, n
<1>9. CallInv(k)
  BY <1>1, <1>2, <1>5, <1>7 DEF CallInv, Respects, Inv
<1> QED BY <1>7, <1>8, <1>9, CallMoves

LEMMA CommitClaimKeeps ==
  ASSUME Inv, NEW c \in Call, CommitClaim(c)
  PROVE  Inv'
<1> DEFINE k == calls[c]
           i == k.item
           claim == [token |-> k.token, expires |-> clock + Lease]
           e == [list[i] EXCEPT !.status = "in_progress", !.claim = claim]
<1>1. k.pc = "handoff" /\ UNCHANGED <<list, revision, clock, repo, issued>>
  BY DEF CommitClaim, At
<1>2. CASE ~ ClaimStands(k)
  BY <1>1, <1>2, ReturnKeeps DEF CommitClaim
<1>3. CASE ClaimStands(k)
  <2>1. /\ k.kind = "claim" /\ i \in Item /\ k.token \in Token /\ k.base = revision
        /\ Seen(k) /\ ScopeFree(list, i, clock)
    BY <1>1, <1>3 DEF Inv, CallInv, ClaimStands, Unmoved
  <2>2. i \in Items(list) /\ list[i] \in Entry /\ list[i].status # "done"
        /\ DependenciesDone(list, i)
    BY <2>1 DEF Seen, Inv, List, Items
  <2>3. claim \in Claim
    BY <2>1, WorklistAssumption DEF Claim, Inv
  <2> HIDE DEF claim
  <2>4. e.deps = list[i].deps /\ e.paths = list[i].paths /\ e.status = "in_progress"
    BY <2>2 DEF Entry
  <2>5. e \in Entry
    BY <2>2, <2>3 DEF Entry, Status
  <2>6. Active(list, i, clock) => k.token = list[i].claim.token
    BY <1>3 DEF ClaimStands, Renewing, Holds
  <2>7. Enter(c, [k EXCEPT !.pc = "publish", !.next = [list EXCEPT ![i] = e]])
    BY <1>3 DEF CommitClaim, claim
  <2>8. k.pc # "idle" /\ k.kind \in {"claim", "submit"}
    BY <1>1, <2>1
  <2> HIDE DEF e
  <2> QED BY <1>1, <2>1, <2>2, <2>4, <2>5, <2>6, <2>7, <2>8, DecisionKeeps
<1> QED BY <1>2, <1>3

LEMMA CommitSubmitKeeps ==
  ASSUME Inv, NEW c \in Call, CommitSubmit(c)
  PROVE  Inv'
<1> DEFINE k == calls[c]
           i == k.item
<1>1. k.pc = "report" /\ UNCHANGED <<list, revision, clock, repo, issued>>
  BY DEF CommitSubmit, At
<1>2. CASE ~ (Unmoved(k) /\ Holds(k))
  BY <1>1, <1>2, ReturnKeeps DEF CommitSubmit
<1>3. CASE Unmoved(k) /\ Holds(k)
  <2>1. /\ k.kind = "submit" /\ i \in Item /\ k.base = revision
        /\ Active(list, i, clock) /\ k.token = list[i].claim.token
    BY <1>1, <1>3 DEF Inv, CallInv, Unmoved, Holds
  <2>2. i \in Items(list) /\ list[i] \in Entry /\ list[i].status # "done"
    BY <2>1, ActiveToken DEF Active
  <2>3. PICK outcome \in {"done", "blocked", "pending"} :
          Enter(c, [k EXCEPT !.pc = "publish", !.next =
            [list EXCEPT ![i] = [@ EXCEPT !.status = outcome, !.claim = NONE]]])
    BY <1>3 DEF CommitSubmit
  <2> DEFINE e == [list[i] EXCEPT !.status = outcome, !.claim = NONE]
  <2>4. e.deps = list[i].deps /\ e.paths = list[i].paths /\ e.claim = NONE
    BY <2>2 DEF Entry
  <2>5. e \in Entry
    BY <2>2 DEF Entry, Status
  <2>6. Enter(c, [k EXCEPT !.pc = "publish", !.next = [list EXCEPT ![i] = e]])
    BY <2>3
  <2>7. k.pc # "idle" /\ k.kind \in {"claim", "submit"}
    BY <1>1, <2>1
  <2> HIDE DEF e
  <2> QED BY <1>1, <2>1, <2>2, <2>4, <2>5, <2>6, <2>7, DecisionKeeps
<1> QED BY <1>2, <1>3

-----------------------------------------------------------------------------
(* The store *)

\* The name of a snapshot is free when nothing was published since its call
\* looked, and again when it was pruned; then a newer one is there.
LEMMA NameFacts ==
  ASSUME Inv, NEW c \in Call
  PROVE  /\ ~ NameTaken(calls[c].base + 1) /\ ~ (calls[c].base + 1 < revision)
              => calls[c].base = revision
         /\ ~ NameTaken(calls[c].base + 1) /\ calls[c].base # revision
              => calls[c].base + 1 + Retained <= revision
<1>1. calls[c].base \in Nat /\ calls[c].base <= revision /\ revision \in Nat
  BY DEF Inv, CallState, CallInv
<1> QED BY <1>1, WorklistAssumption DEF NameTaken

LEMMA PublishKeeps ==
  ASSUME Inv, NEW c \in Call, Publish(c)
  PROVE  Inv'
<1> DEFINE k == calls[c]
<1>1. At(c, "publish") /\ Return(c) /\ UNCHANGED <<clock, repo, issued>>
  BY DEF Publish
<1>2. CASE NameTaken(k.base + 1) \/ k.base + 1 < revision
  BY <1>1, <1>2, ReturnKeeps DEF Publish
<1>3. CASE ~ (NameTaken(k.base + 1) \/ k.base + 1 < revision)
  <2>1. k.base = revision
    BY <1>3, NameFacts
  <2>2. list' = k.next /\ revision' = revision + 1
    BY <1>3, <2>1 DEF Publish
  <2>3. k.next \in List /\ Good(k.next, clock) /\ revision < MaxRevision
    BY <1>1, <2>1 DEF Inv, CallState, CallInv, At
  <2>4. Good(list, clock)' /\ list' \in List
    BY <1>1, <2>2, <2>3 DEF Good, Valid, Acyclic, LanesApart, BuildsOnDone, Items, Active,
         DependenciesDone, Done
  <2>5. /\ calls' \in [Call -> CallState]
        /\ \A d \in Call : calls'[d] = IF d = c THEN IdleCall ELSE calls[d]
    BY <1>1, IdleIsCall DEF Inv, Return, Enter
  <2>6. revision' \in Nat /\ revision' # 0 /\ revision' <= MaxRevision
    BY <2>2, <2>3, WorklistAssumption DEF Inv
  <2>7. ASSUME NEW d \in Call PROVE CallInv(calls[d])'
    <3>1. calls'[d].base \in Nat /\ calls'[d].base <= revision
      BY <2>5, IdleIsCall DEF Inv, CallInv, CallState
    <3>2. calls'[d].base < revision'
      BY <2>2, <3>1 DEF Inv
    <3>3. CASE d = c
      BY <2>5, <2>6, <3>1, <3>2, <3>3 DEF CallInv, IdleCall
    <3>4. CASE d # c
      BY <1>1, <2>5, <2>6, <3>1, <3>2, <3>4 DEF CallInv, Inv
    <3> QED BY <3>3, <3>4
  <2> QED BY <1>1, <2>4, <2>5, <2>6, <2>7 DEF Inv
<1> QED BY <1>2, <1>3

LEMMA TickKeeps == Inv /\ Tick => Inv'
<1> SUFFICES ASSUME Inv, Tick PROVE Inv'
  OBVIOUS
<1>1. /\ UNCHANGED <<list, revision, repo, issued, calls>>
      /\ clock \in Nat /\ clock' \in Nat /\ clock <= clock'
  BY DEF Tick, Inv
<1>2. \A l \in List : Good(l, clock) => Good(l, clock')
  BY <1>1, GoodStaysGood
<1>3. \A i \in Item : Active(list, i, clock') => Active(list, i, clock)
  BY <1>1, ClaimsExpire DEF Inv
<1>4. Good(list, clock)'
  BY <1>1, <1>2 DEF Inv, Good, LanesApart, BuildsOnDone
<1>5. ASSUME NEW c \in Call PROVE CallInv(calls[c])'
  <2>1. CallInv(calls[c]) /\ calls[c].next \in List /\ calls' = calls
    BY <1>1 DEF Inv, CallState
  <2>2. Respects(calls[c]) => Respects(calls[c])'
    BY <1>1, <1>3 DEF Respects, Active
  <2>3. Good(calls[c].next, clock) => Good(calls[c].next, clock)'
    BY <1>1, <1>2, <2>1 DEF Good, LanesApart, BuildsOnDone
  <2>4. Seen(calls[c]) => Seen(calls[c])'
    BY <1>1 DEF Seen
  <2> QED BY <1>1, <2>1, <2>2, <2>3, <2>4 DEF CallInv
<1> QED BY <1>1, <1>4, <1>5 DEF Inv

LEMMA Start == Init => Inv
BY EmptyIsGood, IdleIsCall, WorklistAssumption DEF Init, Inv, CallInv, IdleCall, CallState

LEMMA Step == Inv /\ [Next]_vars => Inv'
<1> SUFFICES ASSUME Inv, [Next]_vars PROVE Inv'
  OBVIOUS
<1>1. ASSUME NEW c \in Call, Begin(c) PROVE Inv'
  BY <1>1, PrepareUpdateKeeps, BeginClaimKeeps, BeginRenewalKeeps, BeginSubmitKeeps DEF Begin
<1>2. ASSUME NEW c \in Call, GiveUp(c) PROVE Inv'
  BY <1>2, ReturnKeeps DEF GiveUp
<1>3. CASE Edit
  BY <1>3 DEF Edit, Inv, CallInv, Seen, Respects
<1>4. CASE UNCHANGED vars
  BY <1>4 DEF vars, Inv, CallInv, Seen, Respects
<1> QED BY <1>1, <1>2, <1>3, <1>4, CommitClaimKeeps, CommitSubmitKeeps, PublishKeeps,
           TickKeeps DEF Next

LEMMA InvAlways == Spec => []Inv
<1> QED BY Start, Step, PTL DEF Spec

-----------------------------------------------------------------------------
(* Theorems *)

\* Every variable keeps to its type, and load accepts every snapshot that is
\* published or about to be (worklist.rs, validate).
THEOREM TypeCorrect == Spec => []TypeOK
<1>1. Inv => TypeOK
  BY DEF Inv, TypeOK, Good, CallInv, At
<1> QED BY <1>1, InvAlways, PTL

\* Whatever claims, renewals, expiries and new plans of any processes do, live
\* claims have lanes of their own and finished foundations (claim_with_context,
\* apply_patches, persist).
THEOREM LanesStaySound == Spec => []LiveLanesSound
<1>1. Inv => LiveLanesSound
  BY DEF Inv, Good, LanesApart, BuildsOnDone, LiveLanesSound, LiveLanesDisjoint,
         LiveDependenciesDone
<1> QED BY <1>1, InvAlways, PTL

\* Unfinished work that is neither blocked nor claimed can be picked up
\* (validate_acyclic, runnable_ids).
THEOREM WorkIsNeverStuck == Spec => []NothingStuck
<1>1. Inv => NothingStuck
  BY FirstIsRunnable DEF Inv, Good, NothingStuck
<1> QED BY <1>1, InvAlways, PTL

\* The list changes only when a call publishes what it made of the newest one.
LEMMA OnlyPublishing ==
  ASSUME Inv, [Next]_vars, list' # list
  PROVE  \E c \in Call : /\ Publish(c) /\ CallInv(calls[c])
                         /\ calls[c].base = revision /\ list' = calls[c].next
<1>1. PICK c \in Call : Publish(c)
  BY DEF Next, vars, Begin, PrepareUpdate, BeginClaim, BeginRenewal, BeginSubmit, CommitClaim,
         CommitSubmit, GiveUp, Tick, Edit
<1>2. ~ (NameTaken(calls[c].base + 1) \/ calls[c].base + 1 < revision)
      /\ list' = calls[c].next
  BY <1>1 DEF Publish
<1> QED BY <1>1, <1>2, NameFacts DEF Inv

\* Nobody but its holder changes an item while its claim is live (apply_patches,
\* worklist_submit).
THEOREM ClaimsStayProtected == Spec => LiveClaimProtected
<1> DEFINE Protected ==
      \A i \in Item :
        Active(list, i, clock) /\ list'[i] # list[i]
        => \E c \in Call : /\ Publish(c)
                           /\ calls[c].kind \in {"claim", "submit"} /\ calls[c].item = i
                           /\ calls[c].token = list[i].claim.token
<1>1. Inv /\ [Next]_vars => [Protected]_vars
  <2> SUFFICES ASSUME Inv, [Next]_vars, NEW i \in Item,
                      Active(list, i, clock), list'[i] # list[i]
               PROVE  \E c \in Call : /\ Publish(c)
                                      /\ calls[c].kind \in {"claim", "submit"}
                                      /\ calls[c].item = i
                                      /\ calls[c].token = list[i].claim.token
    OBVIOUS
  <2>1. PICK c \in Call : /\ Publish(c) /\ CallInv(calls[c])
                          /\ calls[c].base = revision /\ list' = calls[c].next
    BY OnlyPublishing
  <2>2. Respects(calls[c])
    BY <2>1 DEF CallInv, Publish, At
  <2> QED BY <2>1, <2>2 DEF Respects
<1> QED BY <1>1, InvAlways, PTL DEF Spec, LiveClaimProtected

\* A publication that is acknowledged takes effect on the snapshot it was made
\* from, whatever is pruned, unless as many revisions as are retained were
\* published while it was on its way (persist, prune).
THEOREM AcknowledgementIsTrue == Spec => AcknowledgedTakesEffect
<1> DEFINE Effective ==
      \A c \in Call : Publish(c) /\ ~ NameTaken(calls[c].base + 1)
                      /\ revision < calls[c].base + 1 + Retained
                      => /\ calls[c].base = revision
                         /\ list' = calls[c].next /\ revision' = revision + 1
<1>1. Inv => Effective
  <2> SUFFICES ASSUME Inv, NEW c \in Call, Publish(c), ~ NameTaken(calls[c].base + 1),
                      revision < calls[c].base + 1 + Retained
               PROVE  /\ calls[c].base = revision
                      /\ list' = calls[c].next /\ revision' = revision + 1
    OBVIOUS
  <2>1. calls[c].base \in Nat /\ revision \in Nat
    BY DEF Inv, CallState
  <2>2. calls[c].base = revision
    BY <2>1, NameFacts, WorklistAssumption
  <2> QED BY <2>1, <2>2 DEF Publish
<1> QED BY <1>1, InvAlways, PTL DEF Spec, AcknowledgedTakesEffect

=============================================================================
