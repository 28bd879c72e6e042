-------------------------------- MODULE Tasks --------------------------------
(***************************************************************************)
(* Durable MCP tasks (src/integrations/mcp/tasks.rs and store.rs).  A call *)
(* of a task-augmented tool writes a record, spawns a worker that drives   *)
(* the tool, and returns; the client polls the record, or cancels it.      *)
(*                                                                         *)
(* Every operation on records runs under one lock of the process, so each  *)
(* is one action here.  What interleaves is the rest: the tool and its     *)
(* worker run on threads of their own, an abort only reaches a worker that *)
(* awaits, a save, a read or a removal can fail, the wall clock can be set *)
(* back, and the process can be killed and started again on the same       *)
(* store.  An operation meets at most one fault.                           *)
(***************************************************************************)
EXTENDS Naturals, FiniteSets

CONSTANTS
  MaxTasks,      \* directories the store keeps: MAX_TASKS
  MaxCreated,    \* bound: tasks created in a behaviour
  MaxRestarts,   \* bound: restarts in a behaviour
  MaxFaults,     \* bound: saves, reads and removals that fail in a behaviour
  MaxProgress,   \* bound: live-output saves in a behaviour
  MaxClock       \* bound: the times of the wall clock

ASSUME TasksAssumption ==
  /\ MaxTasks \in Nat \ {0}
  /\ {MaxCreated, MaxRestarts, MaxFaults, MaxProgress, MaxClock} \subseteq Nat

\* Task ids carry their time of creation and sort by it.
Task == 1..MaxCreated

VARIABLES
  store,       \* per task: the newest record its directory holds, if any
  older,       \* per task: the records that one supersedes, still on disk
  instance,    \* the id of the running process: fresh at every start
  registered,  \* tasks in the map of workers
  worker,      \* per task: what its worker is doing
  outcome,     \* per task: what a worker that is ending will record
  aborting,    \* tasks whose worker has an abort it has not seen yet
  tool,        \* per task: what its tool call is doing
  dropping,    \* tasks whose tool call has an abort it has not seen yet
  expired,     \* tasks past their time to live
  unsaved,     \* history: tasks with a save that failed
  damaged,     \* history: tasks whose directory was misread or half removed
  faults,      \* how many operations of the disk have failed
  spent        \* ids given out, and the live output saved

diskVars == <<store, older, unsaved, damaged, faults, spent>>
vars == <<store, older, instance, registered, worker, outcome, aborting, tool,
          dropping, expired, unsaved, damaged, faults, spent>>

-----------------------------------------------------------------------------
Terminal == {"Completed", "Cancelled", "Failed"}
Reason == {"none", "value", "error", "ttl", "restart", "lost", "unsaved"}

\* A directory that is not there, and one that has no record in it yet.
Absent == [status |-> "Absent", by |-> 0, why |-> "none", at |-> 0]
Empty == [Absent EXCEPT !.status = "Empty"]

Records == [status : Terminal \cup {"Working", "Absent", "Empty"},
            by : 0..MaxRestarts, why : Reason, at : Nat]

TypeOK ==
  /\ store \in [Task -> Records] /\ older \in [Task -> SUBSET Records]
  /\ instance \in 0..MaxRestarts
  /\ registered \subseteq Task /\ aborting \subseteq Task
  /\ dropping \subseteq Task /\ expired \subseteq Task
  /\ unsaved \subseteq Task /\ damaged \subseteq Task /\ faults \in 0..MaxFaults
  /\ worker \in [Task -> {"none", "spawned", "running", "ending"}]
  /\ outcome \in [Task -> {"none", "value", "error", "ttl"}]
  /\ tool \in [Task -> {"none", "waiting", "working", "value", "error", "orphan"}]
  /\ spent \in [ids : 0..MaxCreated, progress : 0..MaxProgress]

Directories == {t \in Task : store[t].status # "Absent"}
IsWorking(t) == store[t].status = "Working"
IsTerminal(t) == store[t].status \in Terminal

\* What the wall clock says whenever it is read: it can be set back.
Clock == 0..MaxClock

\* Mutant of NextUpdate: a record is stamped with the clock as it is.
UpdateByClock(previous, now) == now

\* next_update_ms: later than the record it replaces, whatever the clock says.
NextUpdate(previous, now) == IF now > previous THEN now ELSE previous + 1

\* A record is a file named by its time of update; of two with the same time
\* either can come first.  (All of them are kept here: prune_snapshots leaves
\* the newest 32.)
Publish(t, r) ==
  \E newest \in {store[t], r} :
    /\ newest.at >= store[t].at /\ newest.at >= r.at
    /\ store' = [store EXCEPT ![t] = newest]
    /\ older' = [older EXCEPT ![t] = (@ \cup {store[t], r}) \ {newest}]

\* complete, fail and cancel make an end of the record that was loaded.
Ended(r, status, why, now) ==
  [r EXCEPT !.status = status, !.why = why, !.at = NextUpdate(@, now)]

Fault == faults < MaxFaults /\ faults' = faults + 1
NoFault == UNCHANGED <<unsaved, damaged, faults>>
SaveFault(t) == Fault /\ unsaved' = unsaved \cup {t} /\ UNCHANGED damaged
DirectoryFault(t) == Fault /\ damaged' = damaged \cup {t} /\ UNCHANGED unsaved

\* load: the newest record.  A file that cannot be read is skipped for an older
\* one; no record at all, or an error, is Absent.
Load(t, r) ==
  \/ r = store[t] /\ NoFault
  \/ r \in older[t] \cup {Absent} /\ DirectoryFault(t)

Loadable(t) == {store[t], Absent} \cup older[t]

-----------------------------------------------------------------------------
Init ==
  /\ store = [t \in Task |-> Absent] /\ older = [t \in Task |-> {}]
  /\ instance = 0
  /\ registered = {} /\ aborting = {} /\ dropping = {}
  /\ expired = {} /\ unsaved = {} /\ damaged = {} /\ faults = 0
  /\ worker = [t \in Task |-> "none"]
  /\ outcome = [t \in Task |-> "none"]
  /\ tool = [t \in Task |-> "none"]
  /\ spent = [ids |-> 0, progress |-> 0]

\* Ids are never used twice.
Unused == {spent.ids + 1} \cap Task

\* prune_tasks: a full store gives up one terminal task, whose id sorts first;
\* as ids follow a clock that can be set back, that may be any of them.  (A
\* record that is misread here only makes prune miss its task, unless the
\* directory has been damaged before.)
Victims ==
  IF Cardinality(Directories) < MaxTasks THEN {{}}
                                         ELSE {{t} : t \in {u \in Task : IsTerminal(u)}}

\* persist for a new id: room is made before the directory is created, and
\* the record is published in it afterwards.
StoreWith(t, r, gone) ==
  [u \in Task |-> IF u = t THEN r ELSE IF u \in gone THEN Absent ELSE store[u]]

Place(t, r, gone) ==
  /\ store' = StoreWith(t, r, gone)
  /\ older' = [u \in Task |-> IF u \in gone THEN {} ELSE older[u]]

NewRecord(now) == [status |-> "Working", by |-> instance, why |-> "none", at |-> now]

\* start_tool_task_bound: the record and its worker appear together.
Create(t) ==
  /\ t \in Unused
  /\ \E gone \in Victims, now \in Clock : Place(t, NewRecord(now), gone)
  /\ spent' = [spent EXCEPT !.ids = t]
  /\ registered' = registered \cup {t}
  /\ worker' = [worker EXCEPT ![t] = "spawned"]
  /\ NoFault
  /\ UNCHANGED <<instance, outcome, aborting, tool, dropping, expired>>

\* Creating the directory, or saving the record in it, fails: no worker.
CreateFails(t) ==
  /\ t \in Unused
  /\ spent' = [spent EXCEPT !.ids = t]
  /\ \E gone \in Victims, now \in Clock :
       \E r \in {Absent, Empty, NewRecord(now)} : Place(t, r, gone)
  /\ SaveFault(t)
  /\ UNCHANGED <<instance, registered, worker, outcome, aborting, tool, dropping, expired>>

\* remove_dir_all unlinks file after file, in any order: when it stops, any of
\* the records may be left, and the newest of those counts.
HalfRemoved(v) ==
  LET snapshots == {store[v]} \cup older[v]
  IN \E newest \in snapshots \cup {Empty}, rest \in SUBSET snapshots :
       /\ newest = Empty => rest = {}
       /\ newest \notin rest /\ \A r \in rest : r.at <= newest.at
       /\ store' = [store EXCEPT ![v] = newest]
       /\ older' = [older EXCEPT ![v] = rest]

\* Its error is ignored, but the directory still counts: the task that was to
\* be created is refused for want of room.
PruneFails(v) ==
  /\ Unused # {} /\ v \in UNION Victims
  /\ HalfRemoved(v)
  /\ DirectoryFault(v)
  /\ UNCHANGED <<instance, registered, worker, outcome, aborting, tool, dropping, expired,
                 spent>>

-----------------------------------------------------------------------------
\* run_task_worker starts: it spawns the tool call, unless it is too late.
Start(t) ==
  /\ worker[t] = "spawned" /\ t \notin aborting
  /\ IF t \in expired
       THEN /\ worker' = [worker EXCEPT ![t] = "ending"]
            /\ outcome' = [outcome EXCEPT ![t] = "ttl"]
            /\ UNCHANGED tool
       ELSE /\ worker' = [worker EXCEPT ![t] = "running"]
            /\ tool' = [tool EXCEPT ![t] = "waiting"]
            /\ UNCHANGED outcome
  /\ UNCHANGED <<diskVars, instance, registered, aborting, dropping, expired>>

\* The tool gets its permits and starts to act on the workspace.
ToolStarts(t) ==
  /\ tool[t] = "waiting"
  /\ tool' = [tool EXCEPT ![t] = "working"]
  /\ UNCHANGED <<diskVars, instance, registered, worker, outcome, aborting, dropping,
                 expired>>

\* It returns a value, or an error; a bound revision that has moved, or a
\* permit that does not come in time, is an error before it starts.  What a
\* call returns that has been dropped reaches nobody.
ToolReturns(t) ==
  /\ \/ /\ tool[t] \in {"waiting", "working"} /\ t \notin dropping
        /\ \E r \in {"value", "error"} :
             /\ tool[t] = "waiting" => r = "error"
             /\ tool' = [tool EXCEPT ![t] = r]
     \/ tool[t] = "orphan" /\ tool' = [tool EXCEPT ![t] = "none"]
  /\ UNCHANGED <<diskVars, instance, registered, worker, outcome, aborting, dropping,
                 expired>>

\* The worker's set of tool calls is dropped: a call that has returned is gone.
DropTool(t) ==
  IF tool[t] \in {"waiting", "working"}
    THEN dropping' = dropping \cup {t} /\ UNCHANGED tool
    ELSE tool' = [tool EXCEPT ![t] = "none"] /\ UNCHANGED dropping

\* The abort reaches a call; work that blocks a thread goes on without its
\* caller, anything else stops where it awaits.
ToolDropped(t) ==
  /\ t \in dropping
  /\ dropping' = dropping \ {t}
  /\ \/ tool' = [tool EXCEPT ![t] = "none"]
     \/ tool[t] = "working" /\ tool' = [tool EXCEPT ![t] = "orphan"]
  /\ UNCHANGED <<diskVars, instance, registered, worker, outcome, aborting, expired>>

\* persist_live_command_output: only over a record that is still Working.
Progress(t) ==
  /\ worker[t] = "running" /\ tool[t] = "working"
  /\ spent.progress < MaxProgress
  /\ \E r \in Loadable(t), now \in Clock :
       /\ Load(t, r) /\ r.status = "Working"
       /\ Publish(t, [r EXCEPT !.at = NextUpdate(@, now)])
  /\ spent' = [spent EXCEPT !.progress = @ + 1]
  /\ UNCHANGED <<instance, registered, worker, outcome, aborting, tool, dropping,
                 expired>>

\* The worker leaves its loop: the tool has returned, or the deadline is here.
Join(t) ==
  /\ worker[t] = "running"
  /\ \/ /\ tool[t] \in {"value", "error"}
        /\ outcome' = [outcome EXCEPT ![t] = tool[t]]
        /\ tool' = [tool EXCEPT ![t] = "none"]
        /\ UNCHANGED dropping
     \/ /\ t \in expired
        /\ outcome' = [outcome EXCEPT ![t] = "ttl"]
        /\ DropTool(t)
  /\ worker' = [worker EXCEPT ![t] = "ending"]
  /\ UNCHANGED <<diskVars, instance, registered, aborting, expired>>

\* What complete or fail makes of the record r that was loaded.
Result(t, r, now) ==
  IF outcome[t] = "value" THEN Ended(r, "Completed", "value", now)
                          ELSE Ended(r, "Failed", outcome[t], now)

\* persist_task_result: a result that cannot be saved is saved as a failure,
\* which follows the result if that has its name already.
ResultUnsaved(t) ==
  \E now \in Clock, later \in Clock :
    LET result == Result(t, store[t], now)
        failure == Ended(result, "Failed", "unsaved", later)
    IN /\ SaveFault(t)
       /\ \/ UNCHANGED <<store, older>>
          \/ Publish(t, result) \/ Publish(t, failure)
          \/ /\ store' = [store EXCEPT ![t] = failure]
             /\ older' = [older EXCEPT ![t] = @ \cup {store[t], result}]

\* The worker is gone, and with it the abort it may have had.
WorkerEnds(t) ==
  /\ worker' = [worker EXCEPT ![t] = "none"]
  /\ outcome' = [outcome EXCEPT ![t] = "none"]
  /\ registered' = registered \ {t}
  /\ aborting' = aborting \ {t}

\* Mutant of Finish: the record is not looked at again before the save.
FinishAnyway(t) ==
  /\ worker[t] = "ending"
  /\ \/ NoFault /\ \E now \in Clock : Publish(t, Result(t, store[t], now))
     \/ ResultUnsaved(t)
  /\ WorkerEnds(t)
  /\ UNCHANGED <<instance, tool, dropping, expired, spent>>

\* The end of run_task_worker, under the lock and without an await: a record
\* that is no longer Working is left as it is, and so is one that cannot be
\* loaded; the worker is gone in any case.
Finish(t) ==
  /\ worker[t] = "ending"
  /\ \/ \E r \in Loadable(t) :
          /\ Load(t, r)
          /\ IF r.status = "Working" THEN \E now \in Clock : Publish(t, Result(t, r, now))
                                    ELSE UNCHANGED <<store, older>>
     \/ IsWorking(t) /\ ResultUnsaved(t)
  /\ WorkerEnds(t)
  /\ UNCHANGED <<instance, tool, dropping, expired, spent>>

\* An abort reaches a worker that awaits; one past its loop runs to its end.
Aborted(t) ==
  /\ t \in aborting
  /\ worker[t] \in {"spawned", "running"}
  /\ worker' = [worker EXCEPT ![t] = "none"]
  /\ aborting' = aborting \ {t}
  /\ IF worker[t] = "running" THEN DropTool(t) ELSE UNCHANGED <<tool, dropping>>
  /\ UNCHANGED <<diskVars, instance, registered, outcome, expired>>

-----------------------------------------------------------------------------
\* TaskRuntime::running and ::abort.
IsRunning(t) == t \in registered /\ worker[t] # "none"

Abort(t) ==
  /\ aborting' = IF IsRunning(t) THEN aborting \cup {t} ELSE aborting
  /\ registered' = registered \ {t}

\* Mutant of Verdict: a record of an earlier process is left to its worker.
VerdictOnOwn(t, r) ==
  CASE r.status # "Working" \/ r.by # instance -> "none"
    [] r.status = "Working" /\ r.by = instance /\ t \in expired -> "ttl"
    [] r.status = "Working" /\ r.by = instance /\ t \notin expired ->
         IF IsRunning(t) THEN "none" ELSE "lost"

\* What reconcile_task_record finds wrong with a record, first match first.
Verdict(t, r) ==
  CASE r.status # "Working" -> "none"
    [] r.status = "Working" /\ r.by # instance -> "restart"
    [] r.status = "Working" /\ r.by = instance /\ t \in expired -> "ttl"
    [] r.status = "Working" /\ r.by = instance /\ t \notin expired ->
         IF IsRunning(t) THEN "none" ELSE "lost"

\* reconcile_task_record, which every read of a record by its id runs: an
\* expired task is aborted before its record is saved, and the worker of a
\* record that is over is forgotten.
Poll(t) ==
  /\ \/ \E r \in Loadable(t) :
          /\ Load(t, r)
          /\ r.status \in Terminal
          /\ registered' = registered \ {t}
          /\ UNCHANGED <<store, older, aborting>>
     \/ \E r \in Loadable(t), now \in Clock :
          /\ Load(t, r)
          /\ Verdict(t, r) # "none"
          /\ Publish(t, Ended(r, "Failed", Verdict(t, r), now))
          /\ IF Verdict(t, r) = "ttl" THEN Abort(t)
             ELSE registered' = registered \ {t} /\ UNCHANGED aborting
     \/ /\ Verdict(t, store[t]) # "none"
        /\ SaveFault(t)
        /\ \/ UNCHANGED <<store, older>>
           \/ \E now \in Clock : Publish(t, Ended(store[t], "Failed", Verdict(t, store[t]), now))
        /\ IF Verdict(t, store[t]) = "ttl" THEN Abort(t) ELSE UNCHANGED <<registered, aborting>>
  /\ UNCHANGED <<instance, worker, outcome, tool, dropping, expired, spent>>

\* cancel_task_record: the tool is stopped first, whatever the disk says.
Cancel(t) ==
  /\ \/ \E r \in Loadable(t) :
          /\ Load(t, r)
          /\ \/ r.status \in Terminal /\ UNCHANGED <<store, older>>
             \/ /\ r.status = "Working"
                /\ \E now \in Clock : Publish(t, Ended(r, "Cancelled", "none", now))
     \/ /\ IsWorking(t)
        /\ SaveFault(t)
        /\ \/ UNCHANGED <<store, older>>
           \/ \E now \in Clock : Publish(t, Ended(store[t], "Cancelled", "none", now))
  /\ Abort(t)
  /\ UNCHANGED <<instance, worker, outcome, tool, dropping, expired, spent>>

-----------------------------------------------------------------------------
Expire(t) ==
  /\ IsWorking(t) /\ t \notin expired
  /\ expired' = expired \cup {t}
  /\ UNCHANGED <<diskVars, instance, registered, worker, outcome, aborting, tool,
                 dropping>>

\* The process dies, perhaps while it creates a task or makes room for one,
\* and starts again.
Restart ==
  /\ instance < MaxRestarts
  /\ instance' = instance + 1
  /\ \/ UNCHANGED diskVars
     \/ \E t \in Unused, gone \in Victims, now \in Clock :
          /\ \E r \in {Absent, Empty, NewRecord(now)} : Place(t, r, gone)
          /\ spent' = [spent EXCEPT !.ids = t]
          /\ NoFault
     \/ \E v \in UNION Victims :
          /\ Unused # {} /\ HalfRemoved(v)
          /\ DirectoryFault(v)
          /\ UNCHANGED spent
  /\ registered' = {} /\ aborting' = {} /\ dropping' = {}
  /\ worker' = [t \in Task |-> "none"]
  /\ outcome' = [t \in Task |-> "none"]
  /\ tool' = [t \in Task |-> "none"]
  /\ UNCHANGED expired

WorkerStep(t) == Start(t) \/ Join(t) \/ Finish(t) \/ Aborted(t)
ToolStep(t) == ToolStarts(t) \/ ToolReturns(t) \/ ToolDropped(t)

Next ==
  \/ \E t \in Task :
       \/ Create(t) \/ CreateFails(t) \/ PruneFails(t)
       \/ WorkerStep(t) \/ ToolStep(t) \/ Progress(t)
       \/ Poll(t) \/ Cancel(t) \/ Expire(t)
  \/ Restart

\* Threads are scheduled, a client keeps polling, and tools return.
Fairness ==
  \A t \in Task :
    WF_vars(WorkerStep(t)) /\ WF_vars(ToolStep(t)) /\ WF_vars(Poll(t))

Spec == Init /\ [][Next]_vars
FairSpec == Spec /\ Fairness

-----------------------------------------------------------------------------
\* A saved end is final: whatever a late worker, progress report, poll,
\* failed save or restart does, the record is kept as it is until the store
\* reclaims it, unless its own directory has been misread or half removed.
TerminalIsFinal ==
  [][\A t \in Task : IsTerminal(t) => store'[t] \in {store[t], Absent} \/ t \in damaged']_vars

\* A client is told that a worker ended without a result only after the disk
\* failed that task, in a save, a read or a removal: no poll ever finds a task
\* between its record and its worker, a clock set back hides no record, and no
\* worker forgets its result.
LossNeedsFault ==
  \A t \in Task : store[t].why \in {"lost", "unsaved"} => t \in unsaved \cup damaged

\* A task that is polled comes to an end, through faults and restarts.
PolledTasksEnd == \A t \in Task : []<>~IsWorking(t)
=============================================================================
