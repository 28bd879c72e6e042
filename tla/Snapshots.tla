------------------------------ MODULE Snapshots ------------------------------
(***************************************************************************)
(* The files behind the execution of a reconciliation plan: src/           *)
(* reconciliation/execution_store.rs.  Every update of a plan becomes a    *)
(* file of its own, named by its time stamp; a load takes the newest file  *)
(* that can be read.  All plans share a directory of a fixed size.         *)
(***************************************************************************)
EXTENDS Naturals, FiniteSets

CONSTANTS
  Plan, NOFILE,
  MaxSnapshots,    \* MAX_EXECUTION_SNAPSHOTS
  MaxClock,        \* bound: the clock
  MaxStamp,        \* bound: the stamps, which run ahead of the clock
  MaxStarts        \* bound: how often plans start from nothing

VARIABLES
  clock,    \* now_ms, which can be set back
  files,    \* the directory; the file of an update that failed is torn
  update,   \* per plan: the update that holds its transaction lock
  starts,   \* how often a plan has started from nothing
  known     \* per plan: the newest state that was loaded, or stored and acknowledged

vars == <<clock, files, update, starts, known>>

\* A state of a plan: which start it comes from, the updates since, and what the last one did.
State == [line : 0..MaxStarts, version : 0..MaxStamp, change : 0..2, stamp : 0..MaxStamp]
File == [plan : Plan, state : State, whole : BOOLEAN]

Constants ==
  /\ {MaxStamp, MaxStarts} \subseteq Nat /\ MaxClock \in 0..MaxStamp
  /\ NOFILE \notin File

Zero == [line |-> 0, version |-> 0, change |-> 0, stamp |-> 0]
Idle == [at |-> "idle", state |-> Zero]

TypeOK ==
  /\ clock \in 0..MaxClock
  /\ files \in SUBSET File
  /\ update \in [Plan -> [at : {"idle", "loaded", "created", "written"}, state : State]]
  /\ starts \in 0..MaxStarts
  /\ known \in [Plan -> State]

Init ==
  /\ clock = 0
  /\ files = {}
  /\ update = [p \in Plan |-> Idle]
  /\ starts = 0
  /\ known = [p \in Plan |-> Zero]

Older(s, t) == s.line < t.line \/ (s.line = t.line /\ s.version < t.version)
Newer(s, t) == IF Older(s, t) THEN t ELSE s

-----------------------------------------------------------------------------
\* load: names are sorted, and files that cannot be read are passed over.
Readable(p) == {f \in files : f.plan = p /\ f.whole}

Newest(p) ==
  IF Readable(p) = {} THEN NOFILE
  ELSE CHOOSE f \in Readable(p) : \A g \in Readable(p) : g.state.stamp <= f.state.stamp

\* A status read, at any time and without the transaction lock.
Look(p) ==
  /\ Newest(p) # NOFILE
  /\ known' = [known EXCEPT ![p] = Newer(Newest(p).state, @)]
  /\ UNCHANGED <<clock, files, update, starts>>

\* update_or_insert, under the lock of the plan: load, or from_plan ...
Load(p) ==
  /\ update[p].at = "idle"
  /\ IF Newest(p) # NOFILE
       THEN /\ update' = [update EXCEPT ![p] = [at |-> "loaded", state |-> Newest(p).state]]
            /\ known' = [known EXCEPT ![p] = Newer(Newest(p).state, @)]
            /\ UNCHANGED starts
       ELSE /\ starts < MaxStarts
            /\ starts' = starts + 1
            /\ update' = [update EXCEPT ![p] = [at |-> "loaded",
                  state |-> [Zero EXCEPT !.line = starts + 1, !.stamp = clock]]]
            /\ UNCHANGED known
  /\ UNCHANGED <<clock, files>>

\* Mutant of Touch: a state is stamped with the clock as it is.
TouchByClock(stamp) == clock

\* ... and change it: touch keeps the stamps of a plan in order.
Touch(stamp) == IF clock > stamp + 1 THEN clock ELSE stamp + 1

Changed(s, change) ==
  [s EXCEPT !.version = @ + 1, !.change = change, !.stamp = Touch(@)]

\* persist: the name of the file holds the stamp, the plan and the digest of
\* the state.  A file of that name is taken for the state, and not looked at.
Torn(p, s) == [plan |-> p, state |-> s, whole |-> FALSE]
Whole(p, s) == [plan |-> p, state |-> s, whole |-> TRUE]

Create(p) ==
  /\ update[p].at = "loaded"
  /\ update[p].state.version < MaxStamp /\ Touch(update[p].state.stamp) <= MaxStamp
  /\ \E change \in 1..2 :
       LET s == Changed(update[p].state, change) IN
       IF Torn(p, s) \in files \/ Whole(p, s) \in files
         THEN update' = [update EXCEPT ![p] = Idle] /\ UNCHANGED files
         ELSE /\ files' = files \cup {Torn(p, s)}
              /\ update' = [update EXCEPT ![p] = [at |-> "created", state |-> s]]
  /\ UNCHANGED <<clock, starts, known>>

\* The file may have been pruned by an update of another plan.
Write(p) ==
  /\ update[p].at = "created"
  /\ files' = {IF f = Torn(p, update[p].state) THEN Whole(p, f.state) ELSE f : f \in files}
  /\ update' = [update EXCEPT ![p].at = "written"]
  /\ UNCHANGED <<clock, starts, known>>

\* The change is refused, or writing fails, which leaves a torn file.
Fail(p) ==
  /\ update[p].at \in {"loaded", "created"}
  /\ update' = [update EXCEPT ![p] = Idle]
  /\ UNCHANGED <<clock, files, starts, known>>

\* prune_directory: the oldest go, whosever they are; then it is acknowledged.
Excess == IF Cardinality(files) > MaxSnapshots THEN Cardinality(files) - MaxSnapshots ELSE 0

Prune(p) ==
  /\ update[p].at = "written"
  /\ \E gone \in SUBSET files :
       /\ Cardinality(gone) = Excess
       /\ \A f \in gone, g \in files \ gone : f.state.stamp <= g.state.stamp
       /\ files' = files \ gone
  /\ known' = [known EXCEPT ![p] = Newer(update[p].state, @)]
  /\ update' = [update EXCEPT ![p] = Idle]
  /\ UNCHANGED <<clock, starts>>

Crash ==
  /\ update' = [p \in Plan |-> Idle]
  /\ UNCHANGED <<clock, files, starts, known>>

SetClock ==
  /\ clock' \in 0..MaxClock
  /\ UNCHANGED <<files, update, starts, known>>

Next ==
  \/ \E p \in Plan : Look(p) \/ Load(p) \/ Create(p) \/ Write(p) \/ Fail(p) \/ Prune(p)
  \/ Crash \/ SetClock

Spec == Init /\ [][Next]_vars

-----------------------------------------------------------------------------
\* What a load returns is never older than what was loaded or stored before,
\* whatever files are torn, pushed out by other plans, or stamped by a clock
\* that was set back.  It may be that there is nothing left to load.
LoadsNeverGoBack ==
  \A p \in Plan : Newest(p) # NOFILE => ~Older(Newest(p).state, known[p])
=============================================================================
