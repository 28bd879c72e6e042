----------------------------- MODULE CacheFlight -----------------------------
(***************************************************************************)
(* One cached report of a repository (its conventions, a repo map) and the *)
(* flight its validations share: src/runtime/harness/cache_flight.rs, as   *)
(* convention_cache.rs and repo_map.rs use it.  Overlapping callers queue  *)
(* behind one gate; a caller may take over the answer of a validation that *)
(* began after it arrived, and anybody else scans the repository again.    *)
(* Meanwhile files are edited, by others, which only their stamps show,    *)
(* and by this process, which invalidates the flight and the cache.        *)
(***************************************************************************)
EXTENDS Naturals, FiniteSets

CONSTANTS
  Caller, NOBODY,
  MaxEdits,        \* bound: edits in a behaviour
  MaxGeneration    \* bound: no caller arrives at an older flight

Constants == NOBODY \notin Caller /\ {MaxEdits, MaxGeneration} \subseteq Nat

VARIABLES
  disk,        \* [version, stamp] of the repository: what is in it, and its fingerprint
  settled,     \* the newest version whose edit is over
  editing,     \* how far an edit of this process is: "no", "written", "marked"
  generation,  \* of the flight: odd while a validation runs
  revision,    \* of the flight: invalidations so far
  success,     \* [generation, revision] of the last validation that succeeded
  gate,        \* the caller that holds the flight's gate
  cache,       \* [version, stamp] of the cached report, a version of 0 is none
  call         \* per caller: where it is, and its local variables

vars == <<disk, settled, editing, generation, revision, success, gate, cache, call>>

flight == <<generation, revision, success>>
world == <<disk, settled, editing>>

\* Versions count from 1; a report of version 0 stands for none.
Report == [version : 0..(MaxEdits + 1), stamp : 0..(MaxEdits + 1)]
NoReport == [version |-> 0, stamp |-> 0]

Place == {"idle", "observed", "queued", "in", "reuse", "begun", "scanned", "hit",
          "built", "confirmed", "stored", "answered"}

Idle == [at |-> "idle", observed |-> 0, floor |-> 0, began |-> 0, scan |-> 0, report |-> NoReport]

TypeOK ==
  /\ disk \in Report /\ settled \in 0..(MaxEdits + 1)
  /\ editing \in {"no", "written", "marked"}
  /\ generation \in Nat /\ revision \in Nat
  /\ success \in [generation : Nat, revision : Nat]
  /\ gate \in Caller \cup {NOBODY}
  /\ cache \in Report
  /\ call \in [Caller -> [at : Place, observed : Nat, floor : Nat, began : Nat,
                          scan : Nat, report : Report]]

Init ==
  /\ disk = [version |-> 1, stamp |-> 1]
  /\ settled = 1
  /\ editing = "no"
  /\ generation = 0 /\ revision = 0
  /\ success = [generation |-> 0, revision |-> 0]
  /\ gate = NOBODY
  /\ cache = NoReport
  /\ call = [c \in Caller |-> Idle]

Even(n) == n % 2 = 0

\* The registry holds a flight weakly: it lives while a caller does.
Alive == \E c \in Caller : call[c].at # "idle"

Moves(c, from, to) == call[c].at = from /\ call' = [call EXCEPT ![c].at = to]

\* ValidationParticipant: callers that could share what the next owner finds.
Coalescible(c) == call[c].at \notin {"idle", "observed"} /\ Even(call[c].observed)
HasPeer(c) == Coalescible(c) /\ \E d \in Caller \ {c} : Coalescible(d)

IsCurrent(c) == call[c].began = revision

\* Mutant of CanReuse: a caller that came while a validation ran takes its answer.
CanReuseRunning(c) ==
  /\ generation # call[c].observed
  /\ success = [generation |-> generation, revision |-> revision]

CanReuse(c) ==
  /\ Even(call[c].observed)
  /\ generation # call[c].observed
  /\ success = [generation |-> generation, revision |-> revision]

-----------------------------------------------------------------------------
\* A caller finds or creates the flight and reads its generation ...
Arrive(c) ==
  /\ call[c].at = "idle"
  /\ IF Alive THEN generation <= MaxGeneration /\ UNCHANGED flight
     ELSE generation' = 0 /\ revision' = 0 /\ success' = [generation |-> 0, revision |-> 0]
  /\ call' = [call EXCEPT ![c] = [Idle EXCEPT !.at = "observed",
                                              !.observed = generation', !.floor = settled]]
  /\ UNCHANGED <<world, gate, cache>>

\* ... and then joins as a participant.
Join(c) == Moves(c, "observed", "queued") /\ UNCHANGED <<world, flight, gate, cache>>

Acquire(c) ==
  /\ gate = NOBODY
  /\ Moves(c, "queued", "in")
  /\ gate' = c
  /\ UNCHANGED <<world, flight, cache>>

TryReuse(c) ==
  /\ CanReuse(c)
  /\ Moves(c, "in", "reuse")
  /\ UNCHANGED <<world, flight, gate, cache>>

\* The cached report may have been removed since; then the caller validates.
Reuse(c) ==
  /\ call[c].at = "reuse"
  /\ cache # NoReport
  /\ call' = [call EXCEPT ![c].at = "answered", ![c].report = cache]
  /\ gate' = NOBODY
  /\ UNCHANGED <<world, flight, cache>>

\* ValidationGuard::begin.
Begin(c) ==
  /\ \/ call[c].at = "in" /\ ~CanReuse(c)
     \/ call[c].at = "reuse" /\ cache = NoReport
  /\ generation' = generation + 1
  /\ call' = [call EXCEPT ![c].at = "begun", ![c].began = revision]
  /\ UNCHANGED <<world, revision, success, gate, cache>>

\* The fingerprint is taken from the stamps of the files.
Scan(c) ==
  /\ call[c].at = "begun"
  /\ call' = [call EXCEPT ![c].at = "scanned", ![c].scan = disk.stamp]
  /\ UNCHANGED <<world, flight, gate, cache>>

\* A cached report with this fingerprint is the answer ...
Hit(c) ==
  /\ call[c].at = "scanned"
  /\ cache # NoReport /\ cache.stamp = call[c].scan
  /\ call' = [call EXCEPT ![c].at = "hit", ![c].report = cache]
  /\ UNCHANGED <<world, flight, gate, cache>>

\* ... and otherwise a report is built from the files as they are by then.
Build(c) ==
  /\ call[c].at = "scanned"
  /\ cache.stamp # call[c].scan
  /\ call' = [call EXCEPT ![c].at = "built",
                          ![c].report = [version |-> disk.version, stamp |-> call[c].scan]]
  /\ UNCHANGED <<world, flight, gate, cache>>

\* A report others may share is confirmed by a second scan.
Confirmed(c) == HasPeer(c) => disk.stamp = call[c].scan

ConfirmHit(c) ==
  /\ Confirmed(c)
  /\ Moves(c, "hit", "stored")
  /\ UNCHANGED <<world, flight, gate, cache>>

ConfirmBuilt(c) ==
  /\ IsCurrent(c) /\ Confirmed(c)
  /\ Moves(c, "built", "confirmed")
  /\ UNCHANGED <<world, flight, gate, cache>>

\* The report is stored under the cache's lock, which an invalidation needs
\* too, after one more look at the flight's revision.
MayStore(c) == IsCurrent(c)

Store(c) ==
  /\ MayStore(c)
  /\ Moves(c, "confirmed", "stored")
  /\ cache' = call[c].report
  /\ UNCHANGED <<world, flight, gate>>

\* The guards are dropped: the validation's, and then the gate's.
Complete(c) ==
  /\ Moves(c, "stored", "answered")
  /\ generation' = generation + 1
  /\ success' = IF IsCurrent(c)
                  THEN [generation |-> generation + 1, revision |-> call[c].began]
                  ELSE success
  /\ gate' = NOBODY
  /\ UNCHANGED <<world, revision, cache>>

\* A scan or a build fails, a check above does not hold, or the caller waited
\* five seconds for the gate: it returns an error and drops its guards.
Fail(c) ==
  /\ call[c].at \in {"queued", "begun", "scanned", "hit", "built", "confirmed"}
  /\ call' = [call EXCEPT ![c] = Idle]
  /\ IF call[c].at = "queued" THEN UNCHANGED <<gate, generation>>
     ELSE gate' = NOBODY /\ generation' = generation + 1
  /\ UNCHANGED <<world, revision, success, cache>>

Leave(c) ==
  /\ call[c].at = "answered"
  /\ call' = [call EXCEPT ![c] = Idle]
  /\ UNCHANGED <<world, flight, gate, cache>>

-----------------------------------------------------------------------------
\* Somebody else edits a file: its stamp changes with it.
ExternalEdit ==
  /\ disk.version <= MaxEdits
  /\ disk' = [version |-> disk.version + 1, stamp |-> disk.version + 1]
  /\ settled' = disk.version + 1
  /\ UNCHANGED <<editing, flight, gate, cache, call>>

\* This process writes a file, which may keep its stamp; invalidate_code_file
\* then marks the flight, if there is one, and removes the cached report.
Write ==
  /\ editing = "no"
  /\ disk.version <= MaxEdits
  /\ disk' = [disk EXCEPT !.version = @ + 1]
  /\ editing' = "written"
  /\ UNCHANGED <<settled, flight, gate, cache, call>>

Mark ==
  /\ editing = "written"
  /\ editing' = "marked"
  /\ revision' = IF Alive THEN revision + 1 ELSE revision
  /\ UNCHANGED <<disk, settled, generation, success, gate, cache, call>>

Forget ==
  /\ editing = "marked"
  /\ editing' = "no"
  /\ cache' = NoReport
  /\ settled' = disk.version
  /\ UNCHANGED <<disk, flight, gate, call>>

CallStep(c) ==
  \/ Arrive(c) \/ Join(c) \/ Acquire(c) \/ TryReuse(c) \/ Reuse(c) \/ Begin(c)
  \/ Scan(c) \/ Hit(c) \/ Build(c) \/ ConfirmHit(c) \/ ConfirmBuilt(c)
  \/ Store(c) \/ Complete(c) \/ Fail(c) \/ Leave(c)

Next == (\E c \in Caller : CallStep(c)) \/ ExternalEdit \/ Write \/ Mark \/ Forget

Spec == Init /\ [][Next]_vars

-----------------------------------------------------------------------------
\* An answer is never older than the call that gets it: it shows every edit
\* that was over when the call arrived, whether it was computed, taken from
\* the cache, or taken over from another caller's validation.
AnswersAreFresh ==
  \A c \in Caller : call[c].at = "answered" => call[c].report.version >= call[c].floor
=============================================================================
