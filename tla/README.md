# wcode: formal models of the coordination core

wcode is a Rust server that offers coding agents tools over MCP: files, commands,
code intelligence, Git, and the coordination of several agents that work on one
repository. Most of its code is analysis and I/O. What is hard in it is the
coordination: several agents, several processes of the server and its background
workers act on durable snapshots and on leases in memory, wait between a check
and the act, crash and retry. These modules specify that core in TLA+, TLC checks
them on small instances, and TLAPS proves the main properties for every value of
the constants.

Paths below are relative to `src/src/` of the repository unless they say
otherwise. `PROJECT.json` holds the exact lines every definition stands for, the
runs, the mutants, the theorems, and the list of hazards.

## 1. The system

| Component | State it keeps | Operations | Hard behaviour | What makes it correct |
|---|---|---|---|---|
| Writer leases and tool-call guard (`integrations/mcp/writer.rs`, `writer_recovery.rs`, `writer_scope.rs`) | leases of each Git mutation domain, in memory; the durable runs | `before_tool`, `reserve_for_claim`, `reserve_scoped`, `finalize_claim`, `cancel_claim`, `enforce_mutation`, `enforce_submission`, `release_task` | the guard, the wait for a permit, the operation and `after_tool` are separate steps; restarts lose the leases and keep the runs; callers give up | exclusive scopes; a mutation is covered by a durable claim of its owner; recovery only for the owner |
| Reconciliation plans (`reconciliation/mod.rs`, `execution_store.rs`) | the newest execution snapshot of each plan, as a file of its own | build, claim, submit, retry, system tasks, load, persist, prune | transactions over snapshots read elsewhere; torn files, a shared directory of a fixed size, a clock that is set back | writers of a plan never overlap; completion is final; a load never goes back |
| Approved plans (`reconciliation/approval.rs`) | one approval file per plan | approve, `replan_required`, the gate of claim and submit | torn files, staleness derived from the present statuses | nothing starts without a durable approval |
| Reconciliation runtime (`intelligence/runtime/reconcile.rs`, `claim.rs`) | none of its own | status, web status, claim, submit, retry | verification is read before the transaction that applies it, intents are audited after it | converges on evidence and satisfied intents, and only on them |
| Delegated worklists (`runtime/worklist.rs`, `worklist_delegation.rs`) | numbered snapshots of the list, claims with tokens and deadlines | update, claim, renew, submit | claims expire; several processes; publication by hard link | live lanes disjoint and protected; no lost publication; never stuck |
| Execution (`runtime/execution.rs`) | numbered snapshots of a checkpoint | refresh, steer, handoff, propose | inputs of other components read at different times; racing publications | steering, floor and plan binding survive races; only proof completes |
| Tool dispatch (`integrations/mcp/dispatch/`) | calls in flight | guard, permit, blocking worker, `after_tool`, `parallel_tools` | the worker outlives its caller, the permit times out | part of the writer model; order of a batch |
| Durable MCP tasks (`integrations/mcp/tasks.rs`, `store.rs`) | task records on disk, worker registry, abort handles | create, progress, poll, cancel, expire, prune | a late worker, an abort that does not reach it, a poll between worker and registration, saves, reads and removals that fail, restarts | an end is final; a loss is reported only if the disk failed the task; a polled task ends |
| Edit scheduler (`workspace/scheduler.rs`) | the schedule of one call | coalesce, order, start, complete | edits are moved and merged; paths have several names; circles | the order of the call where items touch one path |
| Validation flight and caches (`runtime/harness/cache_flight.rs`, `convention_cache.rs`, `verification_cache.rs`) | generation, revision and gate of a flight, cached reports; runs by key | join, validate, reuse, invalidate; claim, publish, follow | a report that is older than the call that takes it; a wake-up that comes before the sleep | no answer is older than the question; every follower is woken |
| Resource queue and admission (`runtime/resource.rs`, `resource/subspace.rs`, `harness/admission.rs`, `workspace/operations/execution.rs`) | credit and slots, permits, gates, child slots | admit, wait, pay, give back, time out | credit is looked at before the wait for a slot; resources taken one after the other | bounded debt; no circle of waits |
| OAuth and token store (`integrations/auth/`) | clients, codes, tokens, and their file | register, authorize, exchange, refresh, revoke, evict, persist, restart | memory changes before the file; a failed write is rolled back; a refresh replaces the token that is asked for | a revocation is final; a client keeps the session it was given |
| Tunnel, presence and lifecycle (`app/mod.rs`, `app/tunnel_lifecycle.rs`, `app/tunnel_policy.rs`, `integrations/auth/origin.rs`) | registered addresses with epochs, tunnels, leases, retained aliases, retries | connect, adopt, probe, quarantine, recycle, bury, retry | workers register addresses while the event loop awaits the exit of a process | every registered address is owned and watched; a replacement survives the cleanup of what it replaces |
| Webhook inbox (`integrations/git/inbox.rs`, `inbox_archive.rs`, `receiver.rs`, `publish_lock.rs`, `app/github_worker.rs`) | one file of signed deliveries with attempts and tombstones | enqueue, redeliver, recover, publish, finish, archive | a rename without its directory sync, a worker that dies, a secret that is replaced, other publishers, broken locks | what was acknowledged is kept, what began is counted, nothing waits behind what cannot be taken |
| Verification ledger and evidence (`verification/`, `evidence/`) | plans, stage records, evidence, journal | plan, record, evaluate | records appear between reads | ready only with current evidence |
| Design, intelligence, graph, semantics (`design/`, `intelligence/`, `graph/`, `semantics/`) | indexes and models derived from source text | analysis | large pure functions | not a question for a model checker |
| Workspaces, files, commands (`workspace/`) | the file system | read, edit, run | process and file I/O | taken as atomic steps |
| Monitor, web and menu-bar UI (`ui/`) | screens | render | presentation | not modelled |

How they interact. A tool call enters `dispatch/mod.rs`, which asks the writer
guard (`before_tool`), waits for a permit of the resource queue, runs the
operation on a blocking worker and lets `after_tool` finalize or release a lease;
a call that asks for it becomes a durable task that does the same on a worker. A
reconciliation claim therefore touches two pieces of state under two locks: the
durable runs and the leases in memory. Reconciliation reads the verification
ledger and the approvals and stores its runs; the execution checkpoint reads the
worklist, the reconciliation plans and the verification, and its status tool is
what polls reconciliation and so moves it to convergence. The web UI reads the
status of reconciliation, and that read stores system tasks as well. Edits
invalidate the caches. The remaining parts (tokens, tunnels, the webhook inbox)
share only the process with the others.

## 2. The modules

| Module | Models | Used by |
|---|---|---|
| `Scopes` | `scopes_overlap`, conflicts of path scopes: equal, nested, or both covering everything | `ReconcilePlan`, `ScopeLocks`, `Worklist` |
| `ReconcilePlan` | the tasks of plans and the pure transitions of a run: claim, submit, retry, system tasks | `WriterLease`, `Reconciliation` |
| `ScopeLocks` | abstract: a table of exclusive scope locks | implemented by `WriterLease` |
| `WriterLease` | leases, guard, dispatch of claims, submissions and mutations, restart, abandoned calls, failed writes | `MCWriterLease` |
| `Reconciliation` | approvals, statuses, claims, submissions, retries over changing revisions and evidence | `MCReconciliation` |
| `Worklist` | the delegated worklist with claims that expire, several processes and publication by link | `MCWorklist` |
| `Execution` | the durable execution: refresh, steer, handoff, propose, publication by link | `MCExecution` |
| `Tasks` | durable MCP tasks: records, workers, tools, aborts, faults, restarts | `MCHost` |
| `CacheFlight` | a cached report and the validations that share a flight | `MCHost` |
| `RunFlight` | coalesced verification runs and their wake-ups | `MCHost` |
| `CpuBudget` | CPU credit, slots and debt | `MCHost` |
| `ToolAdmission` | what a tool call takes, in which order, until it works | `MCHost` |
| `Batch` | one call of `parallel_tools` | `MCHost` |
| `Snapshots` | the files behind the executions of plans | `MCHost` |
| `TokenStore` | OAuth state in memory and in its file | `MCHost` |
| `Tunnel` | public endpoints and the event loop that supervises them | `MCHost` |
| `Inbox` | the durable inbox of webhook deliveries | `MCHost` |
| `Scopes_proofs`, `ScopeLocks_proofs`, `WriterLease_proofs`, `Reconciliation_proofs`, `Worklist_proofs`, `Execution_proofs`, `Tasks_proofs`, `Host_proofs` | theorems | |

The `MC` modules give the constants their values (model values, plans, small
sets of requests) and name the symmetries. `MCHost` is also a sum: its ten parts
share nothing, so a behaviour chooses one of them in `part` and only takes steps
of that part. The states of the parts add up instead of multiplying, and since no
part reads what another writes nothing is lost.

### WriterLease

`runs` are the newest durable snapshots, `leases` the `ActiveWriterLease` entries
of one domain, `calls` the progress of the tool calls. One handler becomes one
action per stretch in which it holds the lock or reads: `BeginClaim`
(`reserve_for_claim` up to the registry), `ReserveScoped` (the check and the
insertion under the mutex), `PerformClaim` (the transaction, after the permit),
`FinishClaim` (`after_tool`); the same for submissions and mutations. `Abandon` is
a caller that goes away: its blocking worker goes on and nobody runs `after_tool`.
`Crash` loses leases and calls and keeps the runs.

A transaction over the snapshots of a plan is one step: the store holds a lock
per plan and publishes one file (`Snapshots` looks at the files). Design-file
admission and the plan approval that `before_tool` also demands only refuse more
mutations and are left out. Reading the runs of several workspaces of a domain is
one step.

### Reconciliation

`runs`, `approval`, the current `revision`, the recorded evidence (`verified`,
`signed`), the verification plans and the calls. A claim passes its gate, then a
status refresh, then the transaction, as in `claim.rs`; a status read computes the
verification first and applies it in a later transaction, as in `reconcile.rs`;
the web read always uses the original verification plan. `Refresh` is the
transaction, and `Audit` what follows it outside of the lock (`reconcile.rs:980`):
the intents of the plan are compared with the convention findings of the
repository as it is by then, and the answer, kept in `reported`, is converged only
if the transaction found every task completed (`all`) and no intent is violated.
Which intents a revision satisfies is the constant `Conforming`, since the
findings are a function of the files; an audit that cannot be made or is truncated
blocks as a violated intent does, and one that fails with an error ends the call
without an answer, which the model leaves out. A claim makes the same refresh and
audit and drops the answer. The test `tests/unit/intelligence/intent_audit.rs` has
the two sides of it: complete tasks do not converge under a violated intent, and
do after the edit. Edits, evidence and sign-offs are actions of the environment.
An approval is created and then written and a crash may leave it torn. Left out:
pruning of old approvals, digests, plans of partial revisions (refused before they
reach this code).

### Worklist

`list` and `revision` are the newest published snapshot, `clock` the wall clock in
steps, `repo` the repository revision, `issued` the tokens that were handed out.
Each call prepares under the lock of its process or outside of it, commits and
publishes. Claim and submit take their two looks at the list; a snapshot's name is
taken when it exists, and old names are freed after `Retained` revisions (128 in
the code, 2 in the run, so that names do become free). The clock never goes back,
an update names an item at most once.

### Execution

`list` is the newest worklist reduced to what the checkpoint depends on (no items,
open, complete), `ex` the newest snapshot, `calls` the calls between reading a
snapshot and publishing its successor. What repository, plans and evidence answer
is an arbitrary input of each refresh. Since nothing constrains these inputs they
are picked when the snapshot is published, which gives the same behaviours as
picking them when they are read. An execution's id and lineage become the
generation they belong to; an open list with nothing to run counts as executing
(the code calls it blocked, which nothing depends on).

### Tasks

`store` is the newest record of each task's directory and `older` the records it
supersedes, which stay on disk; `Publish` adds a file, and the file with the latest
time of update counts. Every operation on records runs under one lock of the
process and is one action (`Create`, `Finish`, `Progress`, `Poll`, `Cancel`). What
interleaves is the rest: `worker` and `tool` are the two threads of a task,
`registered` the map of workers, `aborting` and `dropping` the aborts that have been
sent and not seen. Ids carry their time and sort by it, so a task is a number. The
wall clock has no state: whoever reads it gets any of its times, so that it may be
set back between any two readings.

The disk can fail each operation in the ways the code lets pass:

* a save fails (`SaveFault`, with the task in `unsaved`): nothing is published, or
  the record is and only its directory was not synced; a result that cannot be saved
  is saved as a failure instead, which can fail as well (`ResultUnsaved`);
* a load fails or skips what it cannot read (`Load`, with the task in `damaged`): the
  caller gets an older record, or none. The end of a worker then leaves the record as
  it is (`Finish`, `tasks.rs:594`), and the next poll finds a task without a worker;
* `remove_dir_all` stops half-way (`HalfRemoved`, with the task in `damaged`): any of
  the records may be left, so an older one becomes the newest. The error is ignored
  (`store.rs:449`) and the new task refused, as the directory still counts
  (`PruneFails`); a process that dies there leaves the same.

`Restart` keeps the disk, also in the middle of a creation or a removal, and loses
everything else. All superseded records are kept in `older`, where the code keeps
the newest 32 of a task: a load can fall back to more than in the code.

### CacheFlight and RunFlight

In `CacheFlight` a caller is at one of the awaits of `convention_cache.rs`:
observe the generation, join as a participant, wait for the gate, take over the
last success or validate, compare with the cache, store, complete. `disk` has a
version, which counts edits, and a stamp, which is what a fingerprint sees: edits
of other programs change the stamp, edits of this process may not and mark the
flight instead (`Write`, `Mark`, `Forget` are the three steps of
`invalidate_code_file`). `RunFlight` has the registry of running verifications
with its slot and its `Notify`, which wakes only those that armed it before.

### CpuBudget and ToolAdmission

`CpuBudget` has the two buckets of credit and the slots; a thread is at one of the
waits of `acquire` and pays for its work when it is done. `ToolAdmission` lists for
each kind of call the resources it takes, in the order of the code (`Path`), and
what a deadline, a dropped caller and a blocking worker give back. The commands that
only inspect take a probe permit in place of the child slots
(`workspace/operations/execution.rs:506`) and are left out: it is the last resource
of its path, so it changes neither the order of the others nor who waits for whom.
The gates are granted in any order; the code's are fair, so that a reader may also
wait behind a writer that waits for the same gate. That writer waits for holders who
have the gate behind them, so `Rank` orders these waits too.

### Batch, Snapshots and TokenStore

`Batch` starts with any sequence of three items of `Items`, merges the edits of a
file, orders the rest by their paths on the disk (`Predecessors`) and runs the
loop of `execute_parallel_tools`. `Snapshots` has the directory of files, each the
state of a plan with its stamp, and takes an update through its steps (load,
create, write, prune), with a crash in between; `known` is what a load or an
acknowledged update has shown of a plan. `TokenStore` has the OAuth state in
memory and on disk; an operation holds the mutation lock from its change in memory
to its answer, and is taken back when the write fails. Its clock only goes forward:
with a wall clock that is set back, `issue_tokens_locked` would drop the tokens that
seem to be of the future (`tokens.rs:184`, `tokens.rs:209`), and their client would
have to sign in again.

### Tunnel

`registry` is `PublicEndpoints`, `coming` the registrations whose message has not
reached the loop, `tunnels`, `leases`, `retained`, `epochs` and `pending` the state
of `TunnelControlState` and of the loop in `app/mod.rs`, and `loop` where the loop
stands: its awaits for a process to stop (`adopting`, `recycling`, `burying`) are
states in which workers go on. An epoch only matters by equality, so a fresh one is
any that nothing still carries. Time is left out: a probe is due, a lease too old
and a grace period over at any time.

### Inbox

`file` is the snapshot that every operation reads, `synced` what would be left of
it after a power failure: a write renames (`file`) and then syncs the directory
(`synced`), and the second can fail, after which the call fails and the snapshot is
there. `Enqueue` and `Redeliver` are the receiver's two ways to acknowledge; `Begin`
and `Finish` the two writes of an attempt, which holds the worker's lock in
between, `Abandon` a worker that dies; `Recover` closes attempts that were
interrupted for the last time. 
`Rotate` replaces the secret.

A call of the worker looks at the entries in their order: it skips those whose retry
time has not come (`resting`, which `Ripen` ends), that have no attempt left or that
the present secret does not authenticate, and passes over those whose head another
publisher holds (`busy`). The first that is left is taken (`Selected`), unless its
publication lock is unsafe or unavailable (`broken`): then the whole call ends and
nothing is changed (`inbox.rs:463`), at this poll and at every later one, so that all
entries behind it wait (`HeldUp`). `Contend` lets a head become free, busy or broken
at any time. A process that dies inside of `write` leaves its file in the directory
(`Leave`, counted by `leftover`); no operation removes it, and a directory with more
files than its bound stops every operation (`Usable`, `inbox.rs:547`). The clock of
the retry times only goes forward; the code's check of times from the future
(`inbox.rs:585`) is left out.

## 3. Runs

Every property of a passing run has a mutant: an operator in the module that
changes a mapped definition the way a plausible bug would and for which TLC finds
the property violated under the same configuration.

| Run | Instance | Shows |
|---|---|---|
| `writer_parallel` | two owners, two tasks with disjoint scopes and mutations outside of them, two calls, restarts, abandoned calls, failed writes (2.3 million states) | `LeaseDiscipline`, `AdmissionExclusive`, `AdmissionCovered`, `RecoveredLeaseIsBound`; the leases implement `ScopeLocks` |
| `reconcile` | two overlapping writers, verification and sign-off, two calls, two revisions, one restart (1.5 million) | `InPlanWritersDisjoint`, `StartedWasApproved`, `CompletedIsFinal` |
| `reconcile_converge` | one agents' task, two calls, edits and evidence without end, an intent that only the edited revision satisfies (460 thousand, fair) | `ConvergesOnEvidence`: lasting work, evidence and satisfied intents are answered as converged again and again; `RevertsWithoutEvidence`: without one of the last two the answer is in the end no longer given |
| `worklist` | two processes, two overlapping lanes and a dependent check, two tokens, four revisions of which two are kept, clock to 3, claims of length 2 (450 thousand) | `LiveLanesSound` (live lanes are disjoint and what they build on stays finished), `NothingStuck`, `LiveClaimProtected`, `AcknowledgedTakesEffect` |
| `execution` | two calls, two repository revisions, one plan, two levels, two worklist and three execution revisions (570 thousand) | `SettledByProof`, `ProposalIsCurrent`, `GenerationEnds`, `SteeringSurvives`, `FloorHolds`, `PlanBindingHolds` |
| `host` | the ten parts of `MCHost` (540 thousand, fair) | below |
| `writer_restart`, `writer_write`, `writer_leak`, `reconcile_retry`, `reconcile_web`, `batch_cycle` | the smallest instance that shows it | violations, section 6 |

What `host` shows of each part:

| Part | Instance | Shows |
|---|---|---|
| `tasks` | two tasks created in a store for one, a restart, one failed save, read or removal, a progress report, a clock of two times | `TerminalIsFinal`: a saved end is final unless its own directory was misread or half removed; `LossNeedsFault`: a client is told of a loss only if the disk failed that task; `PolledTasksEnd` |
| `cache` | two callers, two edits | `AnswersAreFresh`: an answer shows every edit that was over when it was asked for |
| `runs` | three callers, two revisions | `SleepersWake`: whoever sleeps has been woken or will be |
| `cpu` | three interactive threads and one in the background, two slots | `DebtBounded`: a queue does not spend one credit twice |
| `tools` | a reader and a call of every cargo lane in two workspaces, the smallest pools | `SomeoneCanGo`: no circle of waits that only deadlines break |
| `batch` | all calls of three items out of eight, in nested workspaces | `InputOrder`: items that touch one path work in the order of the call |
| `plans` | two plans, room for two files, stamps to 2 | `LoadsNeverGoBack` |
| `tokens` | two sessions of one client and a second client, room for one token and one client | `RevokedStaysRevoked`, `ClientKeepsSession` |
| `tunnel` | one stable provider and its address, three epochs, two leases | `EndpointsSupervised`, `ReplacementsKept` |
| `inbox` | two deliveries for two commits, one of whose heads is free, busy or broken, two secrets, two attempts, one failed sync, a directory without room for a file that is left behind | `DeliveriesKept`, `DeliveriesEnd` |

Why these bounds are enough to be of interest. Two calls are the smallest number
that race, and every handler compares its own view with at most one other change.
Two tasks cover both cases of every scope check (disjoint, overlapping), and the
whole domain is the third. Two revisions make "current" and "superseded" differ.
In `Worklist` a claim of length 2 under a clock to 3 expires while its holder
works, and is claimed again; four revisions let an update, two claims and a
submission be published, and with two of them retained a call that is overtaken
finds a name that is free again. Such a call is told that it succeeded, and its
snapshot is the next to be pruned: `AcknowledgedTakesEffect` is stated for calls
that are overtaken by fewer revisions than are kept, which is exactly how far the
names protect (`worklist.rs:577`). In `Execution` three revisions allow creation,
a steering, and the refresh that applies it or races with it. In the parts of
`host` every pool and every limit is one smaller than what its users want
together, so that waits, evictions and pruning happen; every fault that the code
handles happens once, which is as often as an operation can meet it; and three
actors are used where two would never leave somebody behind (followers, threads).
`Room` is 13 in the code and 0 in the run, where the first file that a dying
process leaves already stops the inbox: a file that still fits changes nothing
that an operation looks at. In `tunnel` the one provider is stable, so its old
address is its new one, which is the hard case; two addresses of a provider and
the limit on retained aliases are covered by the proof only.

The bounds in the modules are named `MaxRevision`, `MaxClock`, `MaxRestarts`,
`MaxListRevision`, `MaxCreated`, `MaxFaults`, `MaxProgress`, `MaxEdits`,
`MaxGeneration`, `MaxCost`, `MaxStamp`, `MaxStarts`, `MaxTime`, `MaxPairs`,
`MaxEpoch`, `MaxLease`, `MaxStarting`, `MaxUnconfirmed`; other constants are limits
of the code with a smaller value (`MaxTasks`, `MaxSnapshots`, `MaxClients`,
`MaxTokens`, `MaxRetained`, `MaxAttempts`, `MaxEvents`, `MaxTombstones`, `Room`,
`Slots`).
`TopLevel` is 2 in the code and 1 in the run. `Execution` and the host run without
the deadlock check: a finished batch stops, and the bounds stop the other parts in
the end. In the other modules no state stops.

Symmetry is used for owners, calls, tokens and revisions in the runs without
liveness properties, and only where the instance treats them alike.

## 4. Fairness

`WriterLease!FairSpec` and `Reconciliation!FairSpec` assume weak fairness of each
call's next step: the runtime polls an admitted call, and a blocking worker runs to
its end. `Reconciliation!FairSpec` also assumes that statuses are read again and
again (strong fairness of `BeginStatus`): `runtime/execution.rs` polls the
reconciliation status at every refresh of a complete worklist. Nothing is assumed
about agents, edits, evidence or restarts; the liveness properties say what
follows if agents have finished and evidence lasts. `PendingClaimsResolve` and
`StaysConverged` fail under these assumptions too.

`Tasks!Fairness` is weak fairness, per task, of its worker's next step, of its
tool's next step (the runtime schedules both, and a tool has a deadline) and of a
poll: the property is about a task that is polled. Nothing is assumed about
aborts, faults, readings of the clock or restarts.

`Inbox!Fairness` is weak fairness of the recovery, of taking some delivery, of
each retry time and of the end of an attempt: `github_worker.rs` polls for ever,
and an attempt comes back or dies. Nothing is assumed about locks: a head may stay
busy or broken, and what waits behind a broken one is no promise of
`DeliveriesEnd`. The attempt's end is either of both, so that nothing is assumed
about success; and which of two deliveries is taken is not assumed, so that the
property shows what the selection itself guarantees.

## 5. Proofs

TLAPS checks every theorem, from the assumptions on constants that the modules
name (`PlanAssumption`, `BuiltPlanAssumption`, `WriterAssumption`,
`ReconciliationAssumption`, `WorklistAssumption`, `ExecutionAssumption`,
`TasksAssumption`, `HostAssumption`): tasks belong to plans, a plan that was built
orders its overlapping writers by dependencies, system tasks exist once per plan,
limits are numbers, `NONE` and its like are values of their own.

* `Scopes_proofs`, `ScopeLocks_proofs`: conflicts are symmetric and inherited by
  supersets; the locks of the abstract table stay exclusive.
* `WriterLease_proofs`: all properties of the run, for any number of owners, calls,
  tasks and faults. Discipline alone is not inductive: a call works on a
  clone of the leases and a reservation that it made earlier. The invariant
  `ReservationsAccounted` says what each call knows (`CallOK`), that a pending
  lease is held by at most the call that made it (`HolderOK`), that a lease's
  scopes are the task's (`ScopesBound`), and that the views are disciplined. From
  it follow the properties of admission and the refinement: every step of
  `WriterLease` is a step of `ScopeLocks` or leaves the locks alone.
* `Reconciliation_proofs`: type, `InPlanWritersDisjoint`, `StartedWasApproved`,
  `CompletedIsFinal`, and that a system task completes only after everything it
  depends on (`SystemTaskWaits`). Disjointness follows because the claim
  transaction itself looks at the claimed writers, so no view needs to be current;
  the approval has to be remembered by each call past the gate (`CallsOK`), and
  system tasks are never claimed (`SystemTasksUnclaimed`).
* `Worklist_proofs`: all properties of the run, for any items, processes, tokens
  and bounds. A call that is about to publish carries a snapshot that is good by
  itself (`Good`: valid, lanes apart, built on finished work); claims only expire
  and a good snapshot stays good while time passes (`GoodStaysGood`). That a
  snapshot may replace the newest one is known only while the call has not been
  overtaken, so `CallInv` says it under `base = revision` (`Seen`, `Respects`), and
  the name of the file finds out. `NothingStuck` follows from the order that
  validation demands: the first item of what is left has nothing to wait for
  (`FirstIsRunnable`).
* `Execution_proofs`: all properties of the run. The invariant says that the
  snapshot a call has read is superseded or still the newest, that every snapshot
  that was read or published is good, and that a steering was accepted for the
  snapshot it was made for. With the hard link it follows that only a call that
  has read the newest snapshot publishes (`PublishesNewest`), and the properties
  become statements about one refresh or one steering (`SyncedGood`,
  `SyncedKeeps`, `ChangedGood`).
* `Tasks_proofs`: type, `LossNeedsFault`, `TerminalIsFinal`, for any number of
  tasks, restarts, faults and readings of the clock. `LossNeedsFault` is not
  inductive: a poll finds a loss in a record that says Working and has no worker.
  `WorkingHasWorker` says that a record of this process that says Working has a
  worker that is registered and not aborted, unless a save, read or removal of the
  task failed. It needs that records are not of a later process (`WrittenByThen`),
  also those under the newest, since a misread or a half removal brings them up, and
  that an id which was not given out has nothing on disk (`UnusedAreAbsent`). Each
  operation is first shown to replace records of one task only (`Replaces`,
  `Touches`), which is all that the invariant asks of most steps.
* `Host_proofs`: every step of the sum is a step of each part or leaves it alone
  (`HostSteps`), so that an invariant of a part is one of the sum. `HostTypeOK`
  needs all of them together (`HostInv`): several counters stay in their range only
  because of what the part's invariant says.
  * `AnswersAreFresh`: the generation of a flight is odd exactly while a caller
    validates, so a caller that has seen an even one came before every validation
    that began since. `CacheInv` says of a cached report that it shows what is
    settled if it carries the stamp of the files (`CacheFine`), of the validating
    caller that its report is as new as the files unless a stamp or the flight's
    revision will show that it is not (`CallFine`), and of every two callers that
    the validation of one serves the other if it came in time (`Serves`). The run
    has two callers; the invariant, which compares callers with each other, was
    checked by TLC with three before it was proved for any number.
  * `SleepersWake`: a run that is held has a leader that has not fired, or its end
    is in the slot (`Led`), and who arms too late finds it there (`LateLooks`).
  * `RevokedStaysRevoked`: no token of a revoked session is in memory, in the file,
    or in what a rollback would restore (`TokensInv`).
  * `ClientKeepsSession`: says at every point of an operation where the token of a
    live session is: in memory or in what a rollback restores, and in the file
    unless an answer with its successor is due (`TokenKept`). No token is from the
    future (`PastTokens`), so what a write leaves out as expired stays expired.
  * `SomeoneCanGo`: a waiting call holds a beginning of its path (`Halfway`), and
    every path ascends in one order of the resources (`Rank`), so whoever waits for
    the highest resource that is waited for waits for calls that do not wait.
  * `InputOrder`: an item that was started waits for nobody and its predecessors
    have succeeded (`StartedInOrder`); an item stays among those that are waited
    for until it is over (`WaitedFor`). An item merged into an earlier edit has
    nothing in between that touches its file (`Batch!Coalesces`), so it is done in
    order where that edit is. Batches are of any length, of any items of a
    workspace and the one nested in it (`Roots`).
  * `DebtBounded`: credit is bounded by what the working threads have left of
    their slots (`Share`), by induction over their number as a set cardinality.
  * `LoadsNeverGoBack`: the files of a plan form a chain in which stamps grow with
    versions (`PlansInv`), an update is ahead of all of it (`Ahead`), and a
    nonempty finite set of stamps has a greatest one (`Greatest`, from well-founded
    induction), so that pruning leaves the newest.
  * `EndpointsSupervised`, `ReplacementsKept`: a tunnel that the loop has carries
    the epoch it was adopted under (`TunnelsAdopted`), what the loop knows at an
    await stays true of what workers cannot touch (`LoopKnows`), addresses are
    watched and owned and providers remembered.
  * `DeliveriesKept`: the same statement of the file and of its synced copy, with
    the archive behind every tombstone (`Sound`). Nothing relates the two copies:
    each of them is enough.

Only model-checked: liveness (`ConvergesOnEvidence`, `RevertsWithoutEvidence`,
`PolledTasksEnd`, `DeliveriesEnd`), since fairness and ENABLED are out of the
prover's reach, and the six violations, which are counterexamples. Every invariant
and every action property of the passing runs is a theorem.

The assumptions on constants say no more than the types that the code gives them:
lifetimes and limits are natural numbers, the requests of a run are well-formed
(`Batch!Constants`, `WorklistAssumption`), lanes are those of
`CargoContentionLane`. One relates two bounds of the model: the clock of
`Snapshots` ends before its stamps do (`MaxClock \in 0..MaxStamp`), because a stamp
may run ahead of the clock that was set back.

## 6. Where documents and code disagree

* `writer_restart`: with two claimed writers before a restart, each reclaim is
  refused because the other claim is orphaned; the release notes say that only the
  same owner's explicit reclaim succeeds, and take for granted that it does.
* `writer_write`: a mutation is checked once and then waits for its permit; another
  owner can claim the scope meanwhile, against the constraint that every mutation
  stays in its owner's scopes.
* `writer_leak`: a claim whose caller goes away after the reservation is never
  finalized or cancelled, so its lease is pending until the process ends.
* `reconcile_retry`: whether a plan has started is computed from the present
  statuses; retrying its only started task makes earlier edits invalidate it.
* `reconcile_web`: the web status uses the original verification plan and takes
  back the completion that the current one gave.
* `batch_cycle`: creating a directory is ordered before the items inside of it,
  against the order of the call, so items can wait for each other in a circle; only
  a dry run asks for it beforehand, and an execution performs the other items and
  then fails as a whole. The manual says that invalid overlap is rejected before
  execution; the sentence follows one on edits of one file and is read here of any
  items that overlap.

Windows that are in the models and that no run reports as a violation, since no
document denies them; the properties say what holds next to them:

* The gate of a claim and its transaction are separate, so the first task may start
  after an edit that the gate has not seen (`Reconciliation`).
* The first update of a list that was created empty, and an item that is reopened
  while a finished list is still verifying, start a new generation without a restart
  and drop pending steering and the floor (`execution.rs:328`; `GenerationEnds` is
  weaker here than `.wcode/design/acceptance/agent_runtime.yaml:5`).
* A removal that stops half-way, or a newest record that cannot be read, brings an
  older record up that still says Working, and a poll then makes another end of a
  task that had one (`store.rs:449`, `store.rs:262`): a client can read Failed after
  Completed. `TerminalIsFinal` and `LossNeedsFault` except the tasks whose own
  directory has failed so, and no others. The web view and the
  monitor read with `task_listing.rs`, which fails where the newest record is damaged
  instead of falling back to an older one.
* One due delivery whose publication lock is broken holds up all behind it until an
  operator mends the lock, and files that dying processes leave in the directory stop
  the inbox when there are too many (`inbox.rs:463`, `inbox.rs:547`; `HeldUp`,
  `Usable`). `DeliveriesEnd` is about everything else that could hold one up.
* A delivery whose last attempt was interrupted under an old secret is not
  authenticated again by a redelivery (`inbox.rs:254`), so it waits for an operator:
  the code says that it leaves such entries alone, and `DeliveriesEnd` asks only for
  what the present secret authenticates.

## 7. Not modelled

* A second wcode process on one workspace: transaction locks and task workers are
  known per process (hazard at `execution_store.rs:24`). Only `Worklist` and
  `Execution`, whose publication is by hard link, have several.
* The torn twin at `execution_store.rs:96`: an update that repeats, with the same
  stamp, the one a crash tore takes the torn file for written. `Snapshots` has the
  step; no property forbids it, since the state was never loaded.
* What becomes of a worklist update that stalls while as many revisions are
  published as are retained (`worklist.rs:577`): the model has the step, and
  `AcknowledgedTakesEffect` says how far the code is safe.
* In the modelled components: input requests of tasks, poisoned locks, moves in a
  batch and merged edit ranges, an edit that is undone during a verification
  (`verification_run.rs:134`), PKCE and pairing, how a tunnel provider is started
  and shut down, presence heartbeats, signatures, byte limits, the calls to
  GitHub.
* The verification ledger and the evidence store: append-only files whose records
  appear as environment actions of `Reconciliation`.
* Design model, analysis, code graph, semantics: pure functions over source text
  and large data, more than half of the code. Their results are constants and
  inputs of the modules. Monitor, web and menu-bar UI: presentation.

## 8. What is next

1. The verification ledger as a module of its own, and a module that composes
   `Execution` with `Worklist`, replacing inputs by the components that give them.
2. A second abstract specification: `Snapshots` as an atomic register per plan,
   which is what `Reconciliation` takes it for.
3. Two addresses of one tunnel provider in the run, not only in the proof.
