-------------------------------- MODULE Batch --------------------------------
(***************************************************************************)
(* One call of parallel_tools: src/workspace/scheduler.rs and execute_     *)
(* parallel_tools of dispatch/mod.rs.  Later edits of a file are merged    *)
(* into the first one, the remaining items are ordered where their paths   *)
(* overlap, and every item starts as soon as those before it are over.     *)
(***************************************************************************)
EXTENDS Naturals, Sequences

CONSTANTS
  Batches,    \* the calls: sequences of items [tool, root, path, sha]
  RootOf      \* physical path of a workspace; two may be nested

Tool == {"read", "edit", "create", "delete"}
Item == [tool : Tool, root : DOMAIN RootOf, path : Seq(STRING), sha : Nat]

Constants ==
  /\ Batches \subseteq Seq(Item)
  /\ \A r \in DOMAIN RootOf : RootOf[r] \in Seq(STRING)

VARIABLES
  items,      \* the call
  remaining,  \* per item: the items it still waits for
  ready,      \* items to be started at the next look
  state,      \* per item: "waiting", "running", "skipped", "ok" or "failed"
  outcome     \* of the call: "new", "running", "done", "rejected", "stalled", "cancelled"

vars == <<items, remaining, ready, state, outcome>>

Index == DOMAIN items

TypeOK ==
  /\ items \in Batches
  /\ remaining \in [Index -> SUBSET Index]
  /\ ready \in SUBSET Index
  /\ state \in [Index -> {"waiting", "running", "skipped", "ok", "failed"}]
  /\ outcome \in {"new", "running", "done", "rejected", "stalled", "cancelled"}

Init ==
  /\ items \in Batches
  /\ remaining = [i \in Index |-> {}]
  /\ ready = {}
  /\ state = [i \in Index |-> "waiting"]
  /\ outcome = "new"

-----------------------------------------------------------------------------
\* paths_overlap: a path is a sequence of names; the root is a prefix of all.
Within(p, q) == Len(p) <= Len(q) /\ \A k \in 1..Len(p) : q[k] = p[k]
Overlap(p, q) == Within(p, q) \/ Within(q, p)

Mutates(i) == items[i].tool # "read"

\* resources_conflict, of items whose paths are compared as given ...
ConflictAt(i, j, p, q) == (Mutates(i) \/ Mutates(j)) /\ Overlap(p, q)

\* ... and, for the order in which they run, on the disk (in_root).
Physical(i) == RootOf[items[i].root] \o items[i].path
Conflict(i, j) == ConflictAt(i, j, Physical(i), Physical(j))

CreatesParentOf(i, j) ==
  /\ items[i].tool = "create"
  /\ Physical(i) # Physical(j) /\ Within(Physical(i), Physical(j))

\* coalesce_apply_edits: edits of one file, under one name of its workspace.
SameFile(i, j) ==
  /\ items[i].tool = "edit" /\ items[j].tool = "edit"
  /\ items[i].root = items[j].root /\ items[i].path = items[j].path

Merged == {j \in Index : \E i \in Index : i < j /\ SameFile(i, j)}
Active == Index \ Merged

\* The item that does the work of this one.
IsPrimary(i, j) == i \in Active /\ (i = j \/ (i < j /\ SameFile(i, j)))
Primary(j) == CHOOSE i \in Index : IsPrimary(i, j)

\* Mutant of InTheWay: only items of the same workspace are looked at.
InTheWayThere(k, j) ==
  items[k].root = items[j].root /\ ConflictAt(k, j, items[k].path, items[j].path)

\* An edit moves over the items in between, which must not touch its file.
InTheWay(k, j) ==
  \/ items[k].root # items[j].root
  \/ ConflictAt(k, j, items[k].path, items[j].path)

MayMerge(i, j) ==
  /\ items[i].sha = items[j].sha
  /\ \A k \in Active : i < k /\ k < j => ~InTheWay(k, j)

Coalesces == \A j \in Merged : \A i \in Active : IsPrimary(i, j) => MayMerge(i, j)

\* dependency_graph: the order of the call, but who creates a directory comes
\* before those who work in it.
ParentFirst(i, j) == CreatesParentOf(i, j) /\ ~CreatesParentOf(j, i)
Before(i, j) ==
  /\ i # j /\ Conflict(i, j)
  /\ IF i < j THEN ~ParentFirst(j, i) ELSE ParentFirst(i, j)

Predecessors(j) == {i \in Active : Before(i, j)}

-----------------------------------------------------------------------------
\* Coalescing and preflight; merged edit ranges may not fit together.
Reject ==
  /\ outcome = "new"
  /\ ~Coalesces \/ Merged # {}
  /\ outcome' = "rejected"
  /\ UNCHANGED <<items, remaining, ready, state>>

\* completion_schedule.
Schedule ==
  /\ outcome = "new"
  /\ Coalesces
  /\ remaining' = [i \in Index |-> IF i \in Active THEN Predecessors(i) ELSE {}]
  /\ ready' = {i \in Active : Predecessors(i) = {}}
  /\ outcome' = "running"
  /\ UNCHANGED <<items, state>>

\* take_ready: everything that is ready is spawned; where an item before it
\* failed, its child only says so.
DependencyFailed(i) == \E d \in Predecessors(i) : state[d] = "failed"

Start ==
  /\ outcome = "running" /\ ready # {}
  /\ state' = [i \in Index |->
                 IF i \notin ready THEN state[i]
                 ELSE IF DependencyFailed(i) THEN "skipped" ELSE "running"]
  /\ ready' = {}
  /\ UNCHANGED <<items, remaining, outcome>>

\* CompletionSchedule::complete.
Complete(i) ==
  /\ remaining' = [j \in Index |-> remaining[j] \ {i}]
  /\ ready' = {j \in Active : remaining[j] # {} /\ remaining'[j] = {}}

\* join_next: a child answers, fails, panics, or answers too much.
Join(i) ==
  /\ outcome = "running" /\ ready = {}
  /\ state[i] \in {"running", "skipped"}
  /\ \E s \in IF state[i] = "running" THEN {"ok", "failed"} ELSE {"failed"} :
       state' = [state EXCEPT ![i] = s]
  /\ Complete(i)
  /\ UNCHANGED <<items, outcome>>

Alive == {i \in Index : state[i] \in {"running", "skipped"}}
Pending == {i \in Active : state[i] = "waiting"}

\* The loop ends when nothing is left; with nobody to wait for it gives up.
End ==
  /\ outcome = "running" /\ ready = {} /\ Alive = {}
  /\ outcome' = IF Pending = {} THEN "done" ELSE "stalled"
  /\ UNCHANGED <<items, remaining, ready, state>>

\* The call is dropped, and its JoinSet with it.
Cancel ==
  /\ outcome = "running"
  /\ outcome' = "cancelled"
  /\ UNCHANGED <<items, remaining, ready, state>>

Next == Reject \/ Schedule \/ Start \/ (\E i \in Index : Join(i)) \/ End \/ Cancel

Spec == Init /\ [][Next]_vars

-----------------------------------------------------------------------------
\* The order the caller asked for: of two items that touch the same path on
\* the disk the later one works only after the earlier one has succeeded,
\* unless it creates the other's directory; also for edits that were merged
\* and moved, and for workspaces that lie in each other.
InputOrder ==
  \A i, j \in Index :
    i < j /\ Conflict(i, j) /\ ~SameFile(i, j) =>
      LET first == IF ParentFirst(j, i) THEN j ELSE i
          last == IF ParentFirst(j, i) THEN i ELSE j
      IN  state[Primary(last)] \in {"running", "ok"} => state[Primary(first)] = "ok"

\* docs/manual/development.md:62: "Invalid overlap is rejected before execution."
\* A batch that cannot be ordered is given up before any of its items has run.
RejectedBeforeExecution == outcome = "stalled" => \A i \in Index : state[i] = "waiting"
=============================================================================
