---------------------------- MODULE Tasks_proofs ----------------------------
(***************************************************************************)
(* What holds of durable tasks for every number of tasks, faults, restarts *)
(* and readings of the clock: a saved end is final, and a worker that ends *)
(* without a result is reported only where the disk has failed the task.   *)
(***************************************************************************)
EXTENDS Tasks, TLAPS

\* Ids that were not given out have no directory and no worker to abort.
UnusedAreAbsent ==
  \A t \in Task : t > spent.ids => store[t] = Absent /\ older[t] = {} /\ t \notin aborting

\* Records are written by this process or by an earlier one.
WrittenByThen == \A t \in Task : \A r \in older[t] \cup {store[t]} : r.by <= instance

\* A record of this process that says Working has a worker that will end it,
\* as long as the disk does what it is told.
WorkingHasWorker ==
  \A t \in Task :
    IsWorking(t) /\ store[t].by = instance /\ t \notin unsaved \cup damaged
      => IsRunning(t) /\ t \notin aborting

TaskInv ==
  TypeOK /\ UnusedAreAbsent /\ WrittenByThen /\ WorkingHasWorker /\ LossNeedsFault

-----------------------------------------------------------------------------
\* Records have their type, and an update is later than what it replaces.

LEMMA RecordType ==
  /\ Absent \in Records /\ Absent.by = 0 /\ Absent.why = "none"
  /\ Empty \in Records /\ Empty.by = 0 /\ Empty.why = "none"
BY TasksAssumption DEF Absent, Empty, Records, Terminal, Reason

LEMMA Later ==
  ASSUME NEW p \in Nat, NEW now \in Clock
  PROVE  NextUpdate(p, now) \in Nat /\ NextUpdate(p, now) > p
BY TasksAssumption DEF NextUpdate, Clock

LEMMA EndedIs ==
  ASSUME NEW r \in Records, NEW status \in Terminal, NEW why \in Reason, NEW now \in Clock
  PROVE  /\ Ended(r, status, why, now) \in Records
         /\ Ended(r, status, why, now).status = status
         /\ Ended(r, status, why, now).why = why
         /\ Ended(r, status, why, now).by = r.by
         /\ Ended(r, status, why, now).at > r.at
<1>1. r.at \in Nat
  BY DEF Records
<1>2. NextUpdate(r.at, now) \in Nat /\ NextUpdate(r.at, now) > r.at
  BY <1>1, Later
<1> QED
  BY <1>2 DEF Ended, Records

LEMMA ResultIs ==
  ASSUME TypeOK, NEW t \in Task, NEW r \in Records, NEW now \in Clock
  PROVE  /\ Result(t, r, now) \in Records
         /\ Result(t, r, now).status \in Terminal
         /\ Result(t, r, now).why \notin {"lost", "unsaved"}
         /\ Result(t, r, now).by = r.by
         /\ Result(t, r, now).at > r.at
<1>1. outcome[t] \in Reason \ {"lost", "unsaved"}
  BY DEF TypeOK, Reason
<1>2. "Completed" \in Terminal /\ "Failed" \in Terminal /\ "value" \in Reason
  BY DEF Terminal, Reason
<1>3. CASE outcome[t] = "value"
  <2>1. Result(t, r, now) = Ended(r, "Completed", "value", now)
    BY <1>3 DEF Result
  <2> QED
    BY <2>1, <1>2, EndedIs
<1>4. CASE outcome[t] # "value"
  <2>1. Result(t, r, now) = Ended(r, "Failed", outcome[t], now)
    BY <1>4 DEF Result
  <2>2. outcome[t] \in Reason
    BY <1>1
  <2> QED
    BY <2>1, <2>2, <1>1, <1>2, EndedIs
<1> QED
  BY <1>3, <1>4

LEMMA NewRecordIs ==
  ASSUME TypeOK, NEW now \in Clock
  PROVE  /\ NewRecord(now) \in Records
         /\ NewRecord(now).by = instance /\ NewRecord(now).why = "none"
BY TasksAssumption DEF TypeOK, NewRecord, Records, Reason, Clock

-----------------------------------------------------------------------------
\* What a step does to the disk, said once for every kind of step.

\* The histories keep their type and lose nothing.
Recorded ==
  /\ unsaved' \subseteq Task /\ unsaved \subseteq unsaved'
  /\ damaged' \subseteq Task /\ damaged \subseteq damaged'
  /\ faults' \in 0..MaxFaults

\* The directory of t gets other records, all written by now, or none.
Replaces(t) ==
  /\ store' \in [Task -> Records] /\ older' \in [Task -> SUBSET Records]
  /\ \A u \in Task : u # t => store'[u] = store[u] /\ older'[u] = older[u]
  /\ \A r \in older'[t] \cup {store'[t]} : r.by <= instance
  /\ t > spent.ids => store'[t] = Absent /\ older'[t] = {}

LEMMA FaultIs ==
  ASSUME TypeOK, NEW t \in Task
  PROVE  /\ NoFault => Recorded
         /\ SaveFault(t) => Recorded /\ t \in unsaved'
         /\ DirectoryFault(t) => Recorded /\ t \in damaged'
<1>1. Fault => faults' \in 0..MaxFaults
  BY TasksAssumption DEF TypeOK, Fault
<1> QED
  BY <1>1 DEF TypeOK, Recorded, NoFault, SaveFault, DirectoryFault

\* A record that is there belongs to an id that was given out.
LEMMA ThereIsUsed ==
  ASSUME TaskInv, NEW t \in Task, store[t] # Absent \/ older[t] # {}
  PROVE  ~(t > spent.ids)
BY DEF TaskInv, UnusedAreAbsent

LEMMA WorkingIsThere == ASSUME NEW t \in Task, IsWorking(t) \/ IsTerminal(t) PROVE store[t] # Absent
BY DEF IsWorking, IsTerminal, Terminal, Absent

\* What is loaded is the task's record, unless the directory was misread.
LEMMA LoadIs ==
  ASSUME TaskInv, NEW t \in Task, NEW r \in Loadable(t), Load(t, r)
  PROVE  /\ r \in Records /\ r.by <= instance
         /\ Recorded
         /\ r = store[t] \/ t \in damaged'
         /\ r # Absent => ~(t > spent.ids)
<1>1. TypeOK /\ instance \in Nat
  BY TasksAssumption DEF TaskInv, TypeOK
<1>2. r \in Records /\ r.by <= instance
  BY <1>1, RecordType DEF Loadable, TypeOK, TaskInv, WrittenByThen
<1>3. Recorded /\ (r = store[t] \/ t \in damaged')
  BY <1>1, FaultIs DEF Load
<1>4. r # Absent => ~(t > spent.ids)
  BY ThereIsUsed DEF Loadable
<1> QED
  BY <1>2, <1>3, <1>4

LEMMA UntouchedIs ==
  ASSUME TaskInv, NEW t \in Task, UNCHANGED <<store, older>>
  PROVE  Replaces(t)
BY DEF TaskInv, TypeOK, UnusedAreAbsent, WrittenByThen, Replaces

\* A record that is published is the newest if it is later than the one there was.
LEMMA PublishIs ==
  ASSUME TaskInv, NEW t \in Task, ~(t > spent.ids), NEW r \in Records, r.by <= instance,
         Publish(t, r)
  PROVE  /\ Replaces(t)
         /\ r.at > store[t].at => store'[t] = r
<1>1. store \in [Task -> Records] /\ older \in [Task -> SUBSET Records]
  BY DEF TaskInv, TypeOK
<1>2. PICK newest \in {store[t], r} :
        /\ newest.at >= store[t].at /\ newest.at >= r.at
        /\ store' = [store EXCEPT ![t] = newest]
        /\ older' = [older EXCEPT ![t] = (@ \cup {store[t], r}) \ {newest}]
  BY DEF Publish
<1>3. store'[t] = newest /\ older'[t] = (older[t] \cup {store[t], r}) \ {newest}
  BY <1>1, <1>2
<1>4. \A q \in older'[t] \cup {store'[t]} : q.by <= instance
  BY <1>3 DEF TaskInv, WrittenByThen
<1>5. Replaces(t)
  BY <1>1, <1>2, <1>4 DEF Replaces
<1>6. r.at \in Nat /\ store[t].at \in Nat
  BY <1>1 DEF Records
<1> QED
  BY <1>2, <1>3, <1>5, <1>6

-----------------------------------------------------------------------------
\* Steps that leave the records and the map of workers alone.
Quiet ==
  /\ UNCHANGED <<diskVars, instance, registered, aborting>>
  /\ \A t \in Task : worker[t] # "none" => worker'[t] # "none"

LEMMA QuietKeeps ==
  ASSUME TaskInv, TypeOK', Quiet
  PROVE  TaskInv'
<1>1. UnusedAreAbsent' /\ WrittenByThen' /\ LossNeedsFault'
  BY DEF TaskInv, Quiet, diskVars, UnusedAreAbsent, WrittenByThen, LossNeedsFault
<1>2. WorkingHasWorker'
  BY DEF TaskInv, Quiet, diskVars, WorkingHasWorker, IsWorking, IsRunning
<1> QED
  BY <1>1, <1>2 DEF TaskInv

LEMMA DropToolIs ==
  ASSUME TypeOK, NEW t \in Task, DropTool(t)
  PROVE  /\ tool' \in [Task -> {"none", "waiting", "working", "value", "error", "orphan"}]
         /\ dropping' \subseteq Task
BY DEF TypeOK, DropTool

LEMMA QuietSteps ==
  ASSUME TaskInv,
         \/ \E t \in Task : Start(t) \/ Join(t) \/ ToolStep(t) \/ Expire(t)
         \/ UNCHANGED vars
  PROVE  TypeOK' /\ Quiet
<1> USE DEF TaskInv, diskVars
<1>1. ASSUME NEW t \in Task, Start(t) PROVE TypeOK' /\ Quiet
  BY <1>1 DEF TypeOK, Start, Quiet
<1>2. ASSUME NEW t \in Task, Join(t) PROVE TypeOK' /\ Quiet
  <2>1. /\ tool' \in [Task -> {"none", "waiting", "working", "value", "error", "orphan"}]
        /\ dropping' \subseteq Task
        /\ outcome' \in [Task -> {"none", "value", "error", "ttl"}]
    BY <1>2, DropToolIs DEF TypeOK, Join
  <2> QED
    BY <1>2, <2>1 DEF TypeOK, Join, Quiet
<1>3. ASSUME NEW t \in Task, ToolStarts(t) PROVE TypeOK' /\ Quiet
  BY <1>3 DEF TypeOK, ToolStarts, Quiet
<1>4. ASSUME NEW t \in Task, ToolReturns(t) PROVE TypeOK' /\ Quiet
  BY <1>4 DEF TypeOK, ToolReturns, Quiet
<1>5. ASSUME NEW t \in Task, ToolDropped(t) PROVE TypeOK' /\ Quiet
  BY <1>5 DEF TypeOK, ToolDropped, Quiet
<1>6. ASSUME NEW t \in Task, Expire(t) PROVE TypeOK' /\ Quiet
  BY <1>6 DEF TypeOK, Expire, Quiet
<1>7. ASSUME UNCHANGED vars PROVE TypeOK' /\ Quiet
  BY <1>7 DEF TypeOK, vars, Quiet
<1> QED
  BY <1>1, <1>2, <1>3, <1>4, <1>5, <1>6, <1>7 DEF ToolStep

-----------------------------------------------------------------------------
\* Steps that start a task, or die over it.

\* A place is made in the store for an id that nobody has.
LEMMA PlacedIs ==
  ASSUME TaskInv, NEW t \in Unused, NEW gone \in Victims, NEW now \in Clock,
         NEW r \in {Absent, Empty, NewRecord(now)}, Place(t, r, gone),
         spent' = [spent EXCEPT !.ids = t]
  PROVE  /\ t \in Task /\ t > spent.ids
         /\ spent' \in [ids : 0..MaxCreated, progress : 0..MaxProgress] /\ spent'.ids = t
         /\ store' \in [Task -> Records] /\ older' \in [Task -> SUBSET Records]
         /\ store'[t].why = "none"
         /\ \A u \in Task : u # t => store'[u] \in {store[u], Absent}
         /\ \A u \in Task : \A q \in older'[u] \cup {store'[u]} : q.by <= instance
         /\ \A u \in Task : u > spent'.ids => store'[u] = Absent /\ older'[u] = {}
<1>1. t = spent.ids + 1 /\ spent.ids \in Nat /\ t \in Task /\ t \in 0..MaxCreated
  BY TasksAssumption DEF TaskInv, TypeOK, Unused, Task
<1>2. spent' \in [ids : 0..MaxCreated, progress : 0..MaxProgress] /\ spent'.ids = t
  BY <1>1 DEF TaskInv, TypeOK
<1>3. instance \in Nat /\ store \in [Task -> Records] /\ older \in [Task -> SUBSET Records]
  BY TasksAssumption DEF TaskInv, TypeOK
<1>4. r \in Records /\ r.why = "none" /\ r.by <= instance
  BY <1>3, RecordType, NewRecordIs DEF TaskInv
<1>5. /\ store' \in [Task -> Records] /\ store'[t] = r
      /\ \A u \in Task : u # t => store'[u] \in {store[u], Absent}
  BY <1>1, <1>3, <1>4, RecordType DEF Place, StoreWith
<1>6. older' \in [Task -> SUBSET Records] /\ \A u \in Task : older'[u] \in {older[u], {}}
  BY <1>3 DEF Place
<1>7. \A u \in Task : \A q \in older'[u] \cup {store'[u]} : q.by <= instance
  BY <1>1, <1>3, <1>4, <1>5, <1>6, RecordType DEF TaskInv, WrittenByThen
<1>8. \A u \in Task : u > t => store'[u] = Absent /\ older'[u] = {}
  BY <1>1, <1>5, <1>6 DEF TaskInv, UnusedAreAbsent, Task
<1> QED
  BY <1>1, <1>2, <1>4, <1>5, <1>6, <1>7, <1>8

LEMMA CreateKeeps ==
  ASSUME TaskInv, NEW t \in Task, Create(t)
  PROVE  TaskInv'
<1>1. PICK gone \in Victims, now \in Clock : Place(t, NewRecord(now), gone)
  BY DEF Create
<1>2. /\ t \in Unused /\ spent' = [spent EXCEPT !.ids = t] /\ NoFault
      /\ instance' = instance /\ aborting' = aborting /\ registered' = registered \cup {t}
      /\ worker' = [worker EXCEPT ![t] = "spawned"]
  BY DEF Create
<1>3. /\ t > spent.ids
      /\ spent' \in [ids : 0..MaxCreated, progress : 0..MaxProgress] /\ spent'.ids = t
      /\ store' \in [Task -> Records] /\ older' \in [Task -> SUBSET Records]
      /\ store'[t].why = "none"
      /\ \A u \in Task : u # t => store'[u] \in {store[u], Absent}
      /\ \A u \in Task : \A q \in older'[u] \cup {store'[u]} : q.by <= instance
      /\ \A u \in Task : u > spent'.ids => store'[u] = Absent /\ older'[u] = {}
  <2>1. NewRecord(now) \in {Absent, Empty, NewRecord(now)}
    OBVIOUS
  <2> QED
    BY <1>1, <1>2, <2>1, PlacedIs
<1>4. TypeOK'
  <2>1. Recorded
    BY <1>2, FaultIs DEF TaskInv
  <2>2. registered' \subseteq Task /\ worker' \in [Task -> {"none", "spawned", "running", "ending"}]
    BY <1>2 DEF TaskInv, TypeOK
  <2>3. UNCHANGED <<instance, outcome, aborting, tool, dropping, expired>>
    BY DEF Create
  <2> QED
    BY <1>3, <2>1, <2>2, <2>3 DEF TaskInv, TypeOK, Recorded
<1>5. UnusedAreAbsent'
  BY <1>2, <1>3, TasksAssumption DEF TaskInv, TypeOK, UnusedAreAbsent, Task
<1>6. WrittenByThen'
  BY <1>2, <1>3 DEF WrittenByThen
<1>7. WorkingHasWorker'
  <2> SUFFICES ASSUME NEW u \in Task, store'[u].status = "Working", store'[u].by = instance,
                      u \notin unsaved \cup damaged
               PROVE  u \in registered' /\ worker'[u] # "none" /\ u \notin aborting
    BY <1>2 DEF WorkingHasWorker, IsWorking, IsRunning, NoFault
  <2>1. CASE u = t
    BY <2>1, <1>2, <1>3 DEF TaskInv, TypeOK, UnusedAreAbsent
  <2>2. CASE u # t
    <3>1. store'[u] = store[u]
      BY <2>2, <1>3 DEF Absent
    <3> QED
      BY <2>2, <3>1, <1>2 DEF TaskInv, TypeOK, WorkingHasWorker, IsWorking, IsRunning
  <2> QED
    BY <2>1, <2>2
<1>8. LossNeedsFault'
  BY <1>2, <1>3, RecordType DEF TaskInv, LossNeedsFault, NoFault
<1> QED
  BY <1>4, <1>5, <1>6, <1>7, <1>8 DEF TaskInv

LEMMA CreateFailsKeeps ==
  ASSUME TaskInv, NEW t \in Task, CreateFails(t)
  PROVE  TaskInv'
<1>1. PICK gone \in Victims, now \in Clock :
        \E r \in {Absent, Empty, NewRecord(now)} : Place(t, r, gone)
  BY DEF CreateFails
<1>2. /\ t \in Unused /\ spent' = [spent EXCEPT !.ids = t] /\ SaveFault(t)
      /\ instance' = instance /\ aborting' = aborting
      /\ registered' = registered /\ worker' = worker
  BY DEF CreateFails
<1>3. /\ t > spent.ids
      /\ spent' \in [ids : 0..MaxCreated, progress : 0..MaxProgress] /\ spent'.ids = t
      /\ store' \in [Task -> Records] /\ older' \in [Task -> SUBSET Records]
      /\ \A u \in Task : u # t => store'[u] \in {store[u], Absent}
      /\ \A u \in Task : \A q \in older'[u] \cup {store'[u]} : q.by <= instance
      /\ \A u \in Task : u > spent'.ids => store'[u] = Absent /\ older'[u] = {}
  BY <1>1, <1>2, PlacedIs
<1>4. Recorded /\ t \in unsaved'
  BY <1>2, FaultIs DEF TaskInv
<1>5. TypeOK'
  BY <1>2, <1>3, <1>4 DEF TaskInv, TypeOK, CreateFails, Recorded
<1>6. UnusedAreAbsent'
  BY <1>2, <1>3, TasksAssumption DEF TaskInv, TypeOK, UnusedAreAbsent, Task
<1>7. WrittenByThen'
  BY <1>2, <1>3 DEF WrittenByThen
<1>8. WorkingHasWorker'
  <2> SUFFICES ASSUME NEW u \in Task, store'[u].status = "Working", store'[u].by = instance,
                      u \notin unsaved' \cup damaged'
               PROVE  u \in registered /\ worker[u] # "none" /\ u \notin aborting
    BY <1>2 DEF WorkingHasWorker, IsWorking, IsRunning
  <2>1. u # t
    BY <1>4
  <2>2. store'[u] = store[u]
    BY <2>1, <1>3 DEF Absent
  <2> QED
    BY <2>2, <1>4 DEF TaskInv, WorkingHasWorker, IsWorking, IsRunning, Recorded
<1>9. LossNeedsFault'
  BY <1>3, <1>4, RecordType DEF TaskInv, LossNeedsFault, Recorded
<1> QED
  BY <1>5, <1>6, <1>7, <1>8, <1>9 DEF TaskInv

\* What is left of a task that was to be removed: some of its records.
LEMMA HalfRemovedIs ==
  ASSUME TaskInv, NEW v \in UNION Victims, HalfRemoved(v)
  PROVE  v \in Task /\ ~(v > spent.ids) /\ IsTerminal(v) /\ Replaces(v)
<1>1. v \in Task /\ IsTerminal(v)
  BY DEF Victims
<1>2. ~(v > spent.ids)
  BY <1>1, ThereIsUsed, WorkingIsThere
<1>3. store \in [Task -> Records] /\ older \in [Task -> SUBSET Records] /\ instance \in Nat
  BY TasksAssumption DEF TaskInv, TypeOK
<1> DEFINE snapshots == {store[v]} \cup older[v]
<1>4. PICK newest \in snapshots \cup {Empty}, rest \in SUBSET snapshots :
        /\ store' = [store EXCEPT ![v] = newest]
        /\ older' = [older EXCEPT ![v] = rest]
  BY DEF HalfRemoved
<1>5. \A q \in snapshots \cup {Empty} : q \in Records /\ q.by <= instance
  BY <1>1, <1>3, RecordType DEF TaskInv, WrittenByThen
<1>6. store'[v] = newest /\ older'[v] = rest
  BY <1>1, <1>3, <1>4
<1>7. newest \in Records /\ rest \subseteq Records /\ \A q \in rest \cup {newest} : q.by <= instance
  BY <1>5
<1> HIDE DEF snapshots
<1>8. Replaces(v)
  BY <1>1, <1>2, <1>3, <1>4, <1>6, <1>7 DEF Replaces
<1> QED
  BY <1>1, <1>2, <1>8

\* What a death leaves on the disk.
DeathLeaves ==
  /\ Recorded
  /\ spent' \in [ids : 0..MaxCreated, progress : 0..MaxProgress]
  /\ store' \in [Task -> Records] /\ older' \in [Task -> SUBSET Records]
  /\ \A u \in Task : u > spent'.ids => store'[u] = Absent /\ older'[u] = {}
  /\ \A u \in Task : \A q \in older'[u] \cup {store'[u]} : q.by <= instance
  /\ \A u \in Task : \/ store'[u] \in {store[u], Absent}
                     \/ store'[u].why = "none" /\ ~IsTerminal(u)
                     \/ u \in damaged'

LEMMA DeathIs ==
  ASSUME TaskInv, Restart
  PROVE  DeathLeaves
<1>1. CASE UNCHANGED diskVars
  BY <1>1 DEF DeathLeaves, TaskInv, TypeOK, UnusedAreAbsent, WrittenByThen, Recorded, diskVars
<1>2. ASSUME NEW t \in Unused, NEW gone \in Victims, NEW now \in Clock,
             NEW r \in {Absent, Empty, NewRecord(now)}, Place(t, r, gone),
             spent' = [spent EXCEPT !.ids = t], NoFault
      PROVE  DeathLeaves
  <2>1. Recorded
    BY <1>2, FaultIs DEF TaskInv, Unused
  <2>2. /\ t \in Task /\ t > spent.ids
        /\ spent' \in [ids : 0..MaxCreated, progress : 0..MaxProgress] /\ spent'.ids = t
        /\ store' \in [Task -> Records] /\ older' \in [Task -> SUBSET Records]
        /\ store'[t].why = "none"
        /\ \A u \in Task : u # t => store'[u] \in {store[u], Absent}
        /\ \A u \in Task : \A q \in older'[u] \cup {store'[u]} : q.by <= instance
        /\ \A u \in Task : u > spent'.ids => store'[u] = Absent /\ older'[u] = {}
    BY <1>2, PlacedIs
  <2>3. ~IsTerminal(t)
    BY <2>2, ThereIsUsed, WorkingIsThere
  <2> QED
    BY <2>1, <2>2, <2>3 DEF DeathLeaves
<1>3. ASSUME NEW v \in UNION Victims, HalfRemoved(v), DirectoryFault(v), UNCHANGED spent
      PROVE  DeathLeaves
  <2>1. v \in Task /\ ~(v > spent.ids) /\ Replaces(v)
    BY <1>3, HalfRemovedIs
  <2>2. Recorded /\ v \in damaged'
    BY <1>3, <2>1, FaultIs DEF TaskInv
  <2>3. /\ \A u \in Task : u # v => store'[u] = store[u] /\ older'[u] = older[u]
        /\ \A q \in older'[v] \cup {store'[v]} : q.by <= instance
    BY <2>1 DEF Replaces
  <2>4. \A u \in Task : u > spent'.ids => store'[u] = Absent /\ older'[u] = {}
    BY <1>3, <2>1, <2>3 DEF TaskInv, UnusedAreAbsent
  <2>5. \A u \in Task : \A q \in older'[u] \cup {store'[u]} : q.by <= instance
    BY <2>3 DEF TaskInv, WrittenByThen
  <2> QED
    BY <1>3, <2>1, <2>2, <2>3, <2>4, <2>5 DEF DeathLeaves, Replaces, TaskInv, TypeOK
<1> QED
  BY <1>1, <1>2, <1>3 DEF Restart

LEMMA RestartKeeps ==
  ASSUME TaskInv, Restart
  PROVE  TaskInv'
<1> USE DEF DeathLeaves
<1>1. instance' = instance + 1 /\ instance \in Nat /\ instance' \in 0..MaxRestarts
  BY TasksAssumption DEF TaskInv, TypeOK, Restart
<1>2. DeathLeaves
  BY DeathIs
<1>3. TypeOK'
  BY <1>1, <1>2 DEF TaskInv, TypeOK, Restart, Recorded
<1>4. UnusedAreAbsent'
  BY <1>2 DEF UnusedAreAbsent, Restart
<1>5. \A u \in Task : \A q \in older'[u] \cup {store'[u]} : q.by \in Nat
  BY <1>2, TasksAssumption DEF Records
<1>6. WrittenByThen'
  BY <1>1, <1>2, <1>5 DEF WrittenByThen
<1>7. WorkingHasWorker'
  <2>1. \A u \in Task : store'[u].by # instance'
    BY <1>1, <1>2, <1>5
  <2> QED
    BY <2>1 DEF WorkingHasWorker
<1>8. LossNeedsFault'
  BY <1>2, RecordType DEF TaskInv, LossNeedsFault, Recorded
<1> QED
  BY <1>3, <1>4, <1>6, <1>7, <1>8 DEF TaskInv

-----------------------------------------------------------------------------
\* Steps about one task, and what they leave alone.
Touches(t) ==
  /\ Replaces(t) /\ Recorded
  /\ instance' = instance /\ spent'.ids = spent.ids
  /\ t > spent.ids => t \notin aborting'
  /\ \A u \in Task : u # t => /\ u \in registered => u \in registered'
                              /\ u \in aborting' => u \in aborting
                              /\ worker[u] # "none" => worker'[u] # "none"

\* What is left to be said is about the task itself, as long as no fault has
\* touched it.
Settles(t) ==
  t \notin unsaved' \cup damaged' =>
    /\ IsWorking(t)' /\ store'[t].by = instance => IsRunning(t)' /\ t \notin aborting'
    /\ store'[t].why \notin {"lost", "unsaved"}

LEMMA TouchesKeeps ==
  ASSUME TaskInv, TypeOK', NEW t \in Task, Touches(t), Settles(t)
  PROVE  TaskInv'
<1>1. /\ \A u \in Task : u # t => store'[u] = store[u] /\ older'[u] = older[u]
      /\ \A r \in older'[t] \cup {store'[t]} : r.by <= instance
      /\ t > spent.ids => store'[t] = Absent /\ older'[t] = {} /\ t \notin aborting'
      /\ spent'.ids = spent.ids /\ instance' = instance
      /\ unsaved \subseteq unsaved' /\ damaged \subseteq damaged'
  BY DEF Touches, Replaces, Recorded
<1>2. UnusedAreAbsent'
  BY <1>1 DEF TaskInv, UnusedAreAbsent, Touches
<1>3. WrittenByThen'
  BY <1>1 DEF TaskInv, WrittenByThen
<1>4. WorkingHasWorker'
  <2> SUFFICES ASSUME NEW u \in Task, IsWorking(u)', store'[u].by = instance,
                      u \notin unsaved' \cup damaged'
               PROVE  IsRunning(u)' /\ u \notin aborting'
    BY <1>1 DEF WorkingHasWorker
  <2>1. CASE u = t
    BY <2>1 DEF Settles
  <2>2. CASE u # t
    BY <2>2, <1>1 DEF TaskInv, WorkingHasWorker, IsWorking, IsRunning, Touches
  <2> QED
    BY <2>1, <2>2
<1>5. LossNeedsFault'
  BY <1>1 DEF TaskInv, LossNeedsFault, Settles
<1> QED
  BY <1>2, <1>3, <1>4, <1>5 DEF TaskInv

\* An end that the step finds is left, unless the directory was misread.
KeepsEnd(t) == IsTerminal(t) => store'[t] = store[t] \/ t \in damaged'

LEMMA PruneFailsIs ==
  ASSUME TaskInv, NEW t \in Task, PruneFails(t)
  PROVE  TypeOK' /\ Touches(t) /\ Settles(t) /\ KeepsEnd(t)
<1>1. t \in UNION Victims /\ HalfRemoved(t) /\ DirectoryFault(t)
  BY DEF PruneFails
<1>2. ~(t > spent.ids) /\ Replaces(t)
  BY <1>1, HalfRemovedIs
<1>3. Recorded /\ t \in damaged'
  BY <1>1, FaultIs DEF TaskInv
<1>4. UNCHANGED <<instance, registered, worker, outcome, aborting, tool, dropping, expired, spent>>
  BY DEF PruneFails
<1>5. TypeOK'
  BY <1>2, <1>3, <1>4 DEF TaskInv, TypeOK, Replaces, Recorded
<1>6. Touches(t)
  BY <1>2, <1>3, <1>4 DEF Touches
<1> QED
  BY <1>3, <1>5, <1>6 DEF Settles, KeepsEnd

LEMMA ProgressIs ==
  ASSUME TaskInv, NEW t \in Task, Progress(t)
  PROVE  TypeOK' /\ Touches(t) /\ Settles(t) /\ KeepsEnd(t)
<1>1. PICK r \in Loadable(t), now \in Clock :
        /\ Load(t, r) /\ r.status = "Working"
        /\ Publish(t, [r EXCEPT !.at = NextUpdate(@, now)])
  BY DEF Progress
<1> DEFINE q == [r EXCEPT !.at = NextUpdate(@, now)]
           n == spent.progress + 1
<1>2. /\ r \in Records /\ r.by <= instance /\ Recorded
      /\ r = store[t] \/ t \in damaged'
      /\ ~(t > spent.ids)
  BY <1>1, LoadIs DEF Absent
<1>3. q \in Records /\ q.at > r.at /\ q.by = r.by /\ q.status = r.status /\ q.why = r.why
  <2>1. r.at \in Nat
    BY <1>2 DEF Records
  <2>2. NextUpdate(r.at, now) \in Nat /\ NextUpdate(r.at, now) > r.at
    BY <2>1, Later
  <2> QED
    BY <1>2, <2>2 DEF Records
<1>4. Publish(t, q)
  BY <1>1
<1>5. n \in 0..MaxProgress
  BY TasksAssumption DEF TaskInv, TypeOK, Progress
<1>6. spent' = [spent EXCEPT !.progress = n]
  BY DEF Progress
<1> HIDE DEF q, n
<1>7. spent' \in [ids : 0..MaxCreated, progress : 0..MaxProgress] /\ spent'.ids = spent.ids
  BY <1>5, <1>6 DEF TaskInv, TypeOK
<1>8. Replaces(t) /\ (q.at > store[t].at => store'[t] = q)
  BY <1>2, <1>3, <1>4, PublishIs
<1>9. UNCHANGED <<instance, registered, worker, outcome, aborting, tool, dropping, expired>>
  BY DEF Progress
<1>10. TypeOK'
  BY <1>2, <1>7, <1>8, <1>9 DEF TaskInv, TypeOK, Replaces, Recorded
<1>11. Touches(t)
  BY <1>2, <1>7, <1>8, <1>9 DEF Touches
<1>12. ASSUME t \notin damaged' PROVE IsWorking(t) /\ store'[t] = q /\ r = store[t]
  BY <1>1, <1>2, <1>3, <1>8, <1>12 DEF IsWorking
<1>13. Settles(t)
  BY <1>2, <1>3, <1>9, <1>12
  DEF Settles, TaskInv, WorkingHasWorker, LossNeedsFault, IsWorking, IsRunning, Recorded
<1>14. KeepsEnd(t)
  BY <1>12 DEF KeepsEnd, IsWorking, IsTerminal, Terminal
<1> QED
  BY <1>10, <1>11, <1>13, <1>14

\* A result that meets a fault leaves a failure, the result, both or nothing.
LEMMA ResultUnsavedIs ==
  ASSUME TaskInv, NEW t \in Task, IsWorking(t), ResultUnsaved(t)
  PROVE  Replaces(t) /\ Recorded /\ t \in unsaved'
<1>1. store \in [Task -> Records] /\ older \in [Task -> SUBSET Records]
  BY DEF TaskInv, TypeOK
<1>2. store[t] \in Records /\ store[t].by <= instance /\ ~(t > spent.ids)
  BY <1>1, ThereIsUsed, WorkingIsThere DEF TaskInv, WrittenByThen
<1>3. PICK now \in Clock, later \in Clock :
        LET result == Result(t, store[t], now)
            failure == Ended(result, "Failed", "unsaved", later)
        IN /\ SaveFault(t)
           /\ \/ UNCHANGED <<store, older>>
              \/ Publish(t, result) \/ Publish(t, failure)
              \/ /\ store' = [store EXCEPT ![t] = failure]
                 /\ older' = [older EXCEPT ![t] = @ \cup {store[t], result}]
  BY DEF ResultUnsaved
<1> DEFINE result == Result(t, store[t], now)
           failure == Ended(result, "Failed", "unsaved", later)
<1>4. result \in Records /\ result.by = store[t].by
  BY <1>2, ResultIs DEF TaskInv
<1>5. failure \in Records /\ failure.by = result.by
  <2>1. "Failed" \in Terminal /\ "unsaved" \in Reason
    BY DEF Terminal, Reason
  <2> HIDE DEF result
  <2> QED
    BY <1>4, <2>1, EndedIs
<1>6. /\ SaveFault(t)
      /\ \/ UNCHANGED <<store, older>>
         \/ Publish(t, result) \/ Publish(t, failure)
         \/ /\ store' = [store EXCEPT ![t] = failure]
            /\ older' = [older EXCEPT ![t] = @ \cup {store[t], result}]
  BY <1>3
<1> HIDE DEF result, failure
<1>7. Recorded /\ t \in unsaved'
  BY <1>6, FaultIs DEF TaskInv
<1>8. CASE UNCHANGED <<store, older>>
  BY <1>7, <1>8, UntouchedIs
<1>9. CASE Publish(t, result) \/ Publish(t, failure)
  BY <1>2, <1>4, <1>5, <1>7, <1>9, PublishIs
<1>10. CASE /\ store' = [store EXCEPT ![t] = failure]
            /\ older' = [older EXCEPT ![t] = @ \cup {store[t], result}]
  <2>1. store'[t] = failure /\ older'[t] = older[t] \cup {store[t], result}
    BY <1>1, <1>10
  <2>2. \A q \in older'[t] \cup {store'[t]} : q.by <= instance
    BY <1>2, <1>4, <1>5, <2>1 DEF TaskInv, WrittenByThen
  <2> QED
    BY <1>1, <1>2, <1>4, <1>5, <1>7, <1>10, <2>2 DEF Replaces
<1> QED
  BY <1>6, <1>8, <1>9, <1>10

LEMMA FinishIs ==
  ASSUME TaskInv, NEW t \in Task, Finish(t)
  PROVE  TypeOK' /\ Touches(t) /\ Settles(t) /\ KeepsEnd(t)
<1>1. /\ worker' = [worker EXCEPT ![t] = "none"]
      /\ outcome' = [outcome EXCEPT ![t] = "none"]
      /\ registered' = registered \ {t} /\ aborting' = aborting \ {t}
      /\ UNCHANGED <<instance, tool, dropping, expired, spent>>
  BY DEF Finish, WorkerEnds
<1>2. /\ Replaces(t) /\ Recorded /\ KeepsEnd(t)
      /\ t \notin unsaved' \cup damaged' =>
           ~IsWorking(t)' /\ store'[t].why \notin {"lost", "unsaved"}
  <2>1. ASSUME NEW r \in Loadable(t), Load(t, r), r.status # "Working", UNCHANGED <<store, older>>
        PROVE  <1>2
    <3>1. Recorded /\ (r = store[t] \/ t \in damaged')
      BY <2>1, LoadIs
    <3>2. Replaces(t)
      BY <2>1, UntouchedIs
    <3> QED
      BY <2>1, <3>1, <3>2 DEF IsWorking, KeepsEnd, TaskInv, LossNeedsFault, Recorded
  <2>2. ASSUME NEW r \in Loadable(t), Load(t, r), r.status = "Working",
               NEW now \in Clock, Publish(t, Result(t, r, now))
        PROVE  <1>2
    <3>1. /\ r \in Records /\ r.by <= instance /\ Recorded
          /\ r = store[t] \/ t \in damaged'
          /\ ~(t > spent.ids)
      BY <2>2, LoadIs DEF Absent
    <3> DEFINE q == Result(t, r, now)
    <3>2. /\ q \in Records /\ q.status \in Terminal /\ q.why \notin {"lost", "unsaved"}
          /\ q.by = r.by /\ q.at > r.at
      BY <3>1, ResultIs DEF TaskInv
    <3>3. Publish(t, q)
      BY <2>2
    <3> HIDE DEF q
    <3>4. Replaces(t) /\ (q.at > store[t].at => store'[t] = q)
      BY <3>1, <3>2, <3>3, PublishIs
    <3> QED
      BY <2>2, <3>1, <3>2, <3>4 DEF IsWorking, IsTerminal, Terminal, KeepsEnd
  <2>3. CASE IsWorking(t) /\ ResultUnsaved(t)
    <3>1. Replaces(t) /\ Recorded /\ t \in unsaved'
      BY <2>3, ResultUnsavedIs
    <3> QED
      BY <2>3, <3>1 DEF IsWorking, IsTerminal, Terminal, KeepsEnd
  <2> QED
    BY <2>1, <2>2, <2>3 DEF Finish
<1>3. TypeOK'
  BY <1>1, <1>2 DEF TaskInv, TypeOK, Replaces, Recorded
<1>4. Touches(t)
  <2>1. t > spent.ids => t \notin aborting'
    BY <1>1
  <2> QED
    BY <1>1, <1>2, <2>1 DEF Touches, TaskInv, TypeOK
<1>5. Settles(t)
  BY <1>2 DEF Settles
<1> QED
  BY <1>2, <1>3, <1>4, <1>5

LEMMA AbortedIs ==
  ASSUME TaskInv, NEW t \in Task, Aborted(t)
  PROVE  TypeOK' /\ Touches(t) /\ Settles(t) /\ KeepsEnd(t)
<1>1. /\ t \in aborting
      /\ worker' = [worker EXCEPT ![t] = "none"]
      /\ aborting' = aborting \ {t}
      /\ UNCHANGED <<diskVars, instance, registered, outcome, expired>>
  BY DEF Aborted
<1>2. /\ tool' \in [Task -> {"none", "waiting", "working", "value", "error", "orphan"}]
      /\ dropping' \subseteq Task
  BY DropToolIs DEF TaskInv, TypeOK, Aborted
<1>3. TypeOK'
  BY <1>1, <1>2 DEF TaskInv, TypeOK, diskVars
<1>4. Recorded
  BY <1>1 DEF TaskInv, TypeOK, diskVars, Recorded
<1>5. Touches(t)
  BY <1>1, <1>4, UntouchedIs DEF Touches, diskVars, TaskInv, TypeOK
<1>6. ~(IsWorking(t) /\ store[t].by = instance /\ t \notin unsaved \cup damaged)
  BY <1>1 DEF TaskInv, WorkingHasWorker
<1>7. Settles(t)
  BY <1>1, <1>6 DEF Settles, diskVars, IsWorking, TaskInv, LossNeedsFault
<1> QED
  BY <1>1, <1>3, <1>5, <1>7 DEF KeepsEnd, diskVars

\* A poll finds a reason only in a Working record, and a task is lost only
\* without a worker.
LEMMA VerdictIs ==
  ASSUME TaskInv, NEW t \in Task, NEW r \in Records, Verdict(t, r) # "none"
  PROVE  /\ Verdict(t, r) \in Reason \ {"unsaved"}
         /\ r.status = "Working" /\ r # Absent
         /\ Verdict(t, r) = "lost" /\ r = store[t] => t \in unsaved \cup damaged
<1>1. Verdict(t, r) = "lost" => r.status = "Working" /\ r.by = instance /\ ~IsRunning(t)
  BY DEF Verdict
<1>2. Verdict(t, r) = "lost" /\ r = store[t] => t \in unsaved \cup damaged
  BY <1>1 DEF TaskInv, WorkingHasWorker, IsWorking
<1>3. Verdict(t, r) \in {"restart", "ttl", "lost"} /\ r.status = "Working"
  BY DEF Verdict
<1> QED
  BY <1>2, <1>3 DEF Reason, Absent

\* The worker and the abort of a task that is looked at, and of no other.
Others(t) ==
  /\ registered' \subseteq Task /\ aborting' \subseteq Task
  /\ t > spent.ids => t \notin aborting'
  /\ \A u \in Task : u # t => /\ u \in registered => u \in registered'
                              /\ u \in aborting' => u \in aborting

LEMMA AbortIs ==
  ASSUME TaskInv, NEW t \in Task, ~(t > spent.ids),
         \/ Abort(t)
         \/ registered' \in {registered, registered \ {t}} /\ aborting' = aborting
  PROVE  Others(t)
BY DEF TaskInv, TypeOK, Abort, Others

\* An end that is saved over the record that was loaded.
EndIs(t) ==
  /\ Replaces(t) /\ Recorded /\ KeepsEnd(t)
  /\ t \notin unsaved' \cup damaged' =>
       ~IsWorking(t)' /\ store'[t].why \notin {"lost", "unsaved"}

LEMMA LookedAtIs ==
  ASSUME TaskInv, NEW t \in Task, EndIs(t), Others(t),
         UNCHANGED <<instance, worker, outcome, tool, dropping, expired, spent>>
  PROVE  TypeOK' /\ Touches(t) /\ Settles(t) /\ KeepsEnd(t)
<1>1. TypeOK'
  BY DEF TaskInv, TypeOK, EndIs, Others, Replaces, Recorded
<1>2. Touches(t)
  BY DEF EndIs, Others, Touches
<1> QED
  BY <1>1, <1>2 DEF EndIs, Settles

\* The record that was loaded is over: nothing is saved.
LEMMA OverIs ==
  ASSUME TaskInv, NEW t \in Task, NEW r \in Loadable(t), Load(t, r), r.status \in Terminal,
         UNCHANGED <<store, older>>
  PROVE  EndIs(t) /\ ~(t > spent.ids)
<1>1. /\ Recorded /\ (r = store[t] \/ t \in damaged')
      /\ ~(t > spent.ids)
  BY LoadIs DEF Absent, Terminal
<1>2. Replaces(t)
  BY UntouchedIs
<1> QED
  BY <1>1, <1>2 DEF EndIs, IsWorking, Terminal, KeepsEnd, TaskInv, LossNeedsFault, Recorded

\* The record that was loaded gets the end that is due.
LEMMA SavedIs ==
  ASSUME TaskInv, NEW t \in Task, NEW r \in Loadable(t), Load(t, r), r.status = "Working",
         NEW status \in Terminal, NEW why \in Reason \ {"unsaved"}, NEW now \in Clock,
         why = "lost" /\ r = store[t] => t \in unsaved \cup damaged,
         Publish(t, Ended(r, status, why, now))
  PROVE  EndIs(t) /\ ~(t > spent.ids)
<1>1. /\ r \in Records /\ r.by <= instance /\ Recorded
      /\ r = store[t] \/ t \in damaged'
      /\ ~(t > spent.ids)
  BY LoadIs DEF Absent
<1> DEFINE q == Ended(r, status, why, now)
<1>2. q \in Records /\ q.status = status /\ q.why = why /\ q.by = r.by /\ q.at > r.at
  BY <1>1, EndedIs
<1>3. Publish(t, q)
  OBVIOUS
<1> HIDE DEF q
<1>4. Replaces(t) /\ (q.at > store[t].at => store'[t] = q)
  BY <1>1, <1>2, <1>3, PublishIs
<1>5. KeepsEnd(t)
  BY <1>1 DEF KeepsEnd, IsTerminal, Terminal
<1>6. ASSUME t \notin unsaved' \cup damaged'
      PROVE  ~IsWorking(t)' /\ store'[t].why \notin {"lost", "unsaved"}
  <2>1. r = store[t] /\ t \notin unsaved \cup damaged
    BY <1>1, <1>6 DEF Recorded
  <2> QED
    BY <1>2, <1>4, <2>1 DEF IsWorking, Terminal
<1> QED
  BY <1>1, <1>4, <1>5, <1>6 DEF EndIs

\* The save of that end fails: it is there, or it is not.
LEMMA UnsavedIs ==
  ASSUME TaskInv, NEW t \in Task, IsWorking(t), SaveFault(t),
         NEW status \in Terminal, NEW why \in Reason,
         \/ UNCHANGED <<store, older>>
         \/ \E now \in Clock : Publish(t, Ended(store[t], status, why, now))
  PROVE  EndIs(t) /\ ~(t > spent.ids)
<1>1. store[t] \in Records /\ store[t].by <= instance /\ ~(t > spent.ids)
  BY ThereIsUsed, WorkingIsThere DEF TaskInv, TypeOK, WrittenByThen
<1>2. Recorded /\ t \in unsaved'
  BY FaultIs DEF TaskInv
<1>3. Replaces(t)
  <2>1. CASE UNCHANGED <<store, older>>
    BY <2>1, UntouchedIs
  <2>2. ASSUME NEW now \in Clock, Publish(t, Ended(store[t], status, why, now))
        PROVE  Replaces(t)
    <3> DEFINE q == Ended(store[t], status, why, now)
    <3>1. q \in Records /\ q.by = store[t].by
      BY <1>1, EndedIs
    <3>2. Publish(t, q)
      BY <2>2
    <3> HIDE DEF q
    <3> QED
      BY <1>1, <3>1, <3>2, PublishIs
  <2> QED
    BY <2>1, <2>2
<1> QED
  BY <1>1, <1>2, <1>3 DEF EndIs, KeepsEnd, IsWorking, IsTerminal, Terminal

LEMMA PollIs ==
  ASSUME TaskInv, NEW t \in Task, Poll(t)
  PROVE  TypeOK' /\ Touches(t) /\ Settles(t) /\ KeepsEnd(t)
<1>1. UNCHANGED <<instance, worker, outcome, tool, dropping, expired, spent>>
  BY DEF Poll
<1>2. "Failed" \in Terminal
  BY DEF Terminal
<1>3. ASSUME NEW r \in Loadable(t), Load(t, r), r.status \in Terminal,
             registered' = registered \ {t}, UNCHANGED <<store, older, aborting>>
      PROVE  EndIs(t) /\ Others(t)
  BY <1>3, OverIs, AbortIs
<1>4. ASSUME NEW r \in Loadable(t), NEW now \in Clock, Load(t, r), Verdict(t, r) # "none",
             Publish(t, Ended(r, "Failed", Verdict(t, r), now)),
             IF Verdict(t, r) = "ttl" THEN Abort(t)
             ELSE registered' = registered \ {t} /\ UNCHANGED aborting
      PROVE  EndIs(t) /\ Others(t)
  <2>1. r \in Records
    BY <1>4, LoadIs
  <2>2. /\ Verdict(t, r) \in Reason \ {"unsaved"} /\ r.status = "Working"
        /\ Verdict(t, r) = "lost" /\ r = store[t] => t \in unsaved \cup damaged
    BY <1>4, <2>1, VerdictIs
  <2>3. EndIs(t) /\ ~(t > spent.ids)
    BY <1>2, <1>4, <2>2, SavedIs
  <2> QED
    BY <1>4, <2>3, AbortIs
<1>5. ASSUME Verdict(t, store[t]) # "none", SaveFault(t),
             \/ UNCHANGED <<store, older>>
             \/ \E now \in Clock : Publish(t, Ended(store[t], "Failed", Verdict(t, store[t]), now)),
             IF Verdict(t, store[t]) = "ttl" THEN Abort(t) ELSE UNCHANGED <<registered, aborting>>
      PROVE  EndIs(t) /\ Others(t)
  <2>1. store[t] \in Records
    BY DEF TaskInv, TypeOK
  <2>2. Verdict(t, store[t]) \in Reason /\ IsWorking(t)
    BY <1>5, <2>1, VerdictIs DEF IsWorking
  <2>3. EndIs(t) /\ ~(t > spent.ids)
    BY <1>2, <1>5, <2>2, UnsavedIs
  <2> QED
    BY <1>5, <2>3, AbortIs
<1>6. EndIs(t) /\ Others(t)
  BY <1>3, <1>4, <1>5 DEF Poll
<1> QED
  BY <1>1, <1>6, LookedAtIs

LEMMA CancelIs ==
  ASSUME TaskInv, NEW t \in Task, Cancel(t)
  PROVE  TypeOK' /\ Touches(t) /\ Settles(t) /\ KeepsEnd(t)
<1>1. UNCHANGED <<instance, worker, outcome, tool, dropping, expired, spent>> /\ Abort(t)
  BY DEF Cancel
<1>2. "Cancelled" \in Terminal /\ "none" \in Reason \ {"unsaved", "lost"}
  BY DEF Terminal, Reason
<1>3. EndIs(t) /\ ~(t > spent.ids)
  <2>1. ASSUME NEW r \in Loadable(t), Load(t, r), r.status \in Terminal, UNCHANGED <<store, older>>
        PROVE  <1>3
    BY <2>1, OverIs
  <2>2. ASSUME NEW r \in Loadable(t), Load(t, r), r.status = "Working", NEW now \in Clock,
               Publish(t, Ended(r, "Cancelled", "none", now))
        PROVE  <1>3
    BY <1>2, <2>2, SavedIs
  <2>3. ASSUME IsWorking(t), SaveFault(t),
               \/ UNCHANGED <<store, older>>
               \/ \E now \in Clock : Publish(t, Ended(store[t], "Cancelled", "none", now))
        PROVE  <1>3
    BY <1>2, <2>3, UnsavedIs
  <2> QED
    BY <2>1, <2>2, <2>3 DEF Cancel
<1>4. Others(t)
  BY <1>1, <1>3, AbortIs
<1> QED
  BY <1>1, <1>3, <1>4, LookedAtIs

-----------------------------------------------------------------------------
LEMMA InitTasks == Init => TaskInv
<1> SUFFICES ASSUME Init PROVE TaskInv
  OBVIOUS
<1>1. TypeOK
  BY RecordType, TasksAssumption DEF Init, TypeOK
<1>2. UnusedAreAbsent /\ WorkingHasWorker /\ LossNeedsFault /\ WrittenByThen
  BY RecordType DEF Init, UnusedAreAbsent, WorkingHasWorker, LossNeedsFault, WrittenByThen,
     IsWorking, Absent
<1> QED
  BY <1>1, <1>2 DEF TaskInv

\* The steps about one task that is there already.
LEMMA OneTask ==
  ASSUME TaskInv, NEW t \in Task,
         PruneFails(t) \/ Finish(t) \/ Aborted(t) \/ Progress(t) \/ Poll(t) \/ Cancel(t)
  PROVE  TypeOK' /\ Touches(t) /\ Settles(t) /\ KeepsEnd(t)
BY PruneFailsIs, FinishIs, AbortedIs, ProgressIs, PollIs, CancelIs

LEMMA StepKeeps == TaskInv /\ [Next]_vars => TaskInv'
<1> SUFFICES ASSUME TaskInv, [Next]_vars PROVE TaskInv'
  OBVIOUS
<1>1. ASSUME NEW t \in Task, Create(t) \/ CreateFails(t) PROVE TaskInv'
  BY <1>1, CreateKeeps, CreateFailsKeeps
<1>2. ASSUME NEW t \in Task,
             PruneFails(t) \/ Finish(t) \/ Aborted(t) \/ Progress(t) \/ Poll(t) \/ Cancel(t)
      PROVE  TaskInv'
  BY <1>2, OneTask, TouchesKeeps
<1>3. ASSUME NEW t \in Task, Start(t) \/ Join(t) \/ ToolStep(t) \/ Expire(t) PROVE TaskInv'
  BY <1>3, QuietSteps, QuietKeeps
<1>4. CASE Restart
  BY <1>4, RestartKeeps
<1>5. CASE UNCHANGED vars
  BY <1>5, QuietSteps, QuietKeeps
<1> QED
  BY <1>1, <1>2, <1>3, <1>4, <1>5 DEF Next, WorkerStep

THEOREM TasksInvariant == Spec => []TaskInv
BY InitTasks, StepKeeps, PTL DEF Spec

\* Every variable of the durable tasks has its type.
THEOREM TasksTypeCorrect == Spec => []TypeOK
<1>1. TaskInv => TypeOK
  BY DEF TaskInv
<1> QED
  BY <1>1, TasksInvariant, PTL

\* reconcile_task_record says that a worker ended without a durable result
\* only of tasks that had a save, a read or a removal fail (tasks.rs, store.rs).
THEOREM LossIsReal == Spec => []LossNeedsFault
<1>1. TaskInv => LossNeedsFault
  BY DEF TaskInv
<1> QED
  BY <1>1, TasksInvariant, PTL

-----------------------------------------------------------------------------
\* Ends are kept: by every operation, for a record that is over.
EndKept ==
  \A t \in Task : IsTerminal(t) => store'[t] \in {store[t], Absent} \/ t \in damaged'

LEMMA PlaceKeepsEnds ==
  ASSUME TaskInv, NEW t \in Unused, NEW gone \in Victims, NEW now \in Clock,
         NEW r \in {Absent, Empty, NewRecord(now)}, Place(t, r, gone),
         spent' = [spent EXCEPT !.ids = t]
  PROVE  EndKept
<1>1. /\ t \in Task /\ t > spent.ids
      /\ \A u \in Task : u # t => store'[u] \in {store[u], Absent}
  BY PlacedIs
<1>2. ~IsTerminal(t)
  BY <1>1, ThereIsUsed, WorkingIsThere
<1> QED
  BY <1>1, <1>2 DEF EndKept

LEMMA StepKeepsEnds == TaskInv /\ [Next]_vars => EndKept
<1> SUFFICES ASSUME TaskInv, [Next]_vars PROVE EndKept
  OBVIOUS
<1>1. ASSUME NEW t \in Task, Create(t) \/ CreateFails(t) PROVE EndKept
  <2>1. t \in Unused /\ spent' = [spent EXCEPT !.ids = t]
    BY <1>1 DEF Create, CreateFails
  <2>2. \E gone \in Victims, now \in Clock :
          \E r \in {Absent, Empty, NewRecord(now)} : Place(t, r, gone)
    BY <1>1 DEF Create, CreateFails
  <2> QED
    BY <2>1, <2>2, PlaceKeepsEnds
<1>2. ASSUME NEW t \in Task,
             PruneFails(t) \/ Finish(t) \/ Aborted(t) \/ Progress(t) \/ Poll(t) \/ Cancel(t)
      PROVE  EndKept
  <2>1. Touches(t) /\ KeepsEnd(t)
    BY <1>2, OneTask
  <2> QED
    BY <2>1 DEF EndKept, Touches, Replaces, KeepsEnd
<1>3. CASE Restart
  <2>1. DeathLeaves
    BY <1>3, DeathIs
  <2> QED
    BY <2>1 DEF DeathLeaves, EndKept
<1>4. CASE UNCHANGED store
  BY <1>4 DEF EndKept
<1> QED
  BY <1>1, <1>2, <1>3, <1>4
  DEF Next, WorkerStep, ToolStep, Start, Join, ToolStarts, ToolReturns, ToolDropped,
      Expire, vars, diskVars

\* A saved end is final: no worker, poll, cancellation, save that fails, clock
\* or restart takes it back, and only a fault of its own directory, misread or
\* half removed, can have another record in its place (tasks.rs, store.rs).
THEOREM EndsAreFinal == Spec => TerminalIsFinal
<1>1. TaskInv /\ [Next]_vars =>
        [\A t \in Task : IsTerminal(t) => store'[t] \in {store[t], Absent} \/ t \in damaged']_vars
  BY StepKeepsEnds DEF EndKept
<1> QED
  BY <1>1, TasksInvariant, PTL DEF Spec, TerminalIsFinal
=============================================================================
