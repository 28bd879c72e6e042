------------------------------- MODULE Inbox --------------------------------
(***************************************************************************)
(* The durable inbox of webhook deliveries (src/integrations/git/inbox.rs, *)
(* inbox_archive.rs, receiver.rs, publish_lock.rs).  A receiver stores     *)
(* deliveries and acknowledges those that are on disk; one worker at a     *)
(* time publishes a delivery, with at most MAX_ATTEMPTS attempts; an       *)
(* operator moves the finished ones to an archive.                         *)
(*                                                                         *)
(* A snapshot replaces the file by a rename, and the directory is synced   *)
(* after it.  When that fails the snapshot is there and the call has       *)
(* failed; a power failure may still take the snapshot back.  Every        *)
(* operation on the file is made under inbox.lock, so it is one step.      *)
(* A process that dies before the rename leaves its file in the directory, *)
(* which no operation removes and whose size every operation checks.       *)
(*                                                                         *)
(* The bodies stand for themselves, and the clock for the retry times that *)
(* have not come.  The generation only says that an operator has seen the  *)
(* state he archives.                                                      *)
(***************************************************************************)
EXTENDS Naturals, FiniteSets

CONSTANTS
  Delivery,        \* signed bodies, by their digest
  Commit, CommitOf, \* the commits, and the one whose check a delivery publishes
  Contended,       \* the heads that other publishers serve too, or whose lock can break
  Key,             \* the webhook secrets
  MaxAttempts,     \* MAX_ATTEMPTS
  MaxEvents,       \* MAX_EVENTS
  MaxTombstones,   \* MAX_REPLAY_TOMBSTONES
  MaxUnconfirmed,  \* bound: writes whose directory sync fails
  Room,            \* the files an inbox can have besides its own three
  NONE

Constants ==
  /\ CommitOf \in [Delivery -> Commit]
  /\ Contended \subseteq Commit
  /\ MaxAttempts \in Nat \ {0}
  /\ {MaxEvents, MaxTombstones, MaxUnconfirmed, Room} \subseteq Nat
  /\ NONE \notin Delivery
  /\ Key # {}

VARIABLES
  file,         \* inbox.json as it is read
  synced,       \* inbox.json as a power failure would leave it
  archives,     \* deliveries in a confirmed archive file
  secret,       \* the secret of the receiver and of the worker
  busy,         \* heads whose publication lock another publisher holds
  broken,       \* heads whose publication lock is unsafe or unavailable
  attempt,      \* the publication under way, which holds worker.lock, or NONE
  resting,      \* attempted deliveries whose retry time has not come
  acknowledged, \* deliveries whose sender was told 202 Accepted
  begun,        \* per delivery: publications that began
  reported,     \* deliveries whose publication was reported as finished
  unconfirmed,  \* writes whose directory sync failed
  leftover      \* files of writes that died before their rename

vars == <<file, synced, archives, secret, busy, broken, attempt, resting, acknowledged,
          begun, reported, unconfirmed, leftover>>
world == <<secret, busy, broken, leftover>>

\* DeliveryState, with the two states of a delivery that has no entry: unknown,
\* and a tombstone.  "behind" has the entries in front of this one.
Entry == [state : {"absent", "queued", "publishing", "retry", "completed", "exhausted", "archived"},
          attempts : 0..MaxAttempts, key : Key \cup {NONE}, behind : SUBSET Delivery]
Snapshot == [Delivery -> Entry]

Absent == [state |-> "absent", attempts |-> 0, key |-> NONE, behind |-> {}]
Empty == [d \in Delivery |-> Absent]

Open(e) == e.state \in {"queued", "publishing", "retry"}
Terminal(e) == e.state \in {"completed", "exhausted"}
Entries(f) == {d \in Delivery : Open(f[d]) \/ Terminal(f[d])}
Tombstones(f) == {d \in Delivery : f[d].state = "archived"}

TypeOK ==
  /\ file \in Snapshot /\ synced \in Snapshot
  /\ archives \subseteq Delivery
  /\ secret \in Key
  /\ busy \subseteq Contended /\ broken \subseteq Contended
  /\ attempt \in Delivery \cup {NONE} /\ resting \subseteq Delivery
  /\ acknowledged \subseteq Delivery
  /\ begun \in [Delivery -> 0..MaxAttempts]
  /\ reported \subseteq Delivery
  /\ unconfirmed \in 0..MaxUnconfirmed /\ leftover \in 0..Room + 1

Init ==
  /\ file = Empty /\ synced = Empty
  /\ archives = {} /\ busy = {} /\ broken = {} /\ resting = {}
  /\ acknowledged = {} /\ reported = {}
  /\ secret = CHOOSE k \in Key : TRUE
  /\ attempt = NONE
  /\ begun = [d \in Delivery |-> 0]
  /\ unconfirmed = 0 /\ leftover = 0

-----------------------------------------------------------------------------
\* check_directory, which every operation makes.
Usable == leftover <= Room

\* write: what a call wrote before is confirmed with it.
Confirmed(f) == file' = f /\ synced' = f /\ unconfirmed' = unconfirmed

\* The sync of the directory fails after the rename; the call fails too.
Unconfirmed(f) ==
  /\ unconfirmed < MaxUnconfirmed
  /\ file' = f /\ synced' = synced
  /\ unconfirmed' = unconfirmed + 1

-----------------------------------------------------------------------------
\* enqueue of a delivery that the present secret has authenticated.
Fresh(d) == file[d].state = "absent"

\* The saved signature of an entry that waits is from an earlier secret.
Outdated(d) == file[d].state \in {"queued", "retry"} /\ file[d].key # secret

\* The snapshot that enqueue writes.
Enqueued(d) ==
  IF Fresh(d)
  THEN [file EXCEPT ![d] = [state |-> "queued", attempts |-> 0, key |-> secret,
                            behind |-> Entries(file)]]
  ELSE [file EXCEPT ![d] = [file[d] EXCEPT !.key = secret]]

Enqueue(d) ==
  /\ Usable
  /\ Fresh(d) \/ Outdated(d)
  /\ Fresh(d) => Cardinality(Entries(file)) < MaxEvents
  /\ \/ Confirmed(Enqueued(d)) /\ acknowledged' = acknowledged \cup {d}
     \/ Unconfirmed(Enqueued(d)) /\ acknowledged' = acknowledged
  /\ UNCHANGED <<archives, world, attempt, resting, begun, reported>>

\* Mutant of Redeliver: a duplicate is acknowledged as it is.
RedeliverUnsynced(d) ==
  /\ Usable /\ ~Fresh(d) /\ ~Outdated(d)
  /\ acknowledged' = acknowledged \cup {d}
  /\ UNCHANGED <<file, synced, archives, world, attempt, resting, begun, reported, unconfirmed>>

\* A duplicate confirms the snapshot that has it, whose sync may have failed.
Redeliver(d) ==
  /\ Usable /\ ~Fresh(d) /\ ~Outdated(d)
  /\ Confirmed(file)
  /\ acknowledged' = acknowledged \cup {d}
  /\ UNCHANGED <<archives, world, attempt, resting, begun, reported>>

-----------------------------------------------------------------------------
\* process_admitted_at.  Attempts that were interrupted for the last time.
Interrupted(d) == file[d].state = "publishing" /\ file[d].attempts = MaxAttempts
Recovered ==
  [d \in Delivery |-> IF Interrupted(d) THEN [file[d] EXCEPT !.state = "exhausted"] ELSE file[d]]

Waits(d) == Open(file[d]) /\ file[d].attempts < MaxAttempts

\* What a call looks at: the retry time has come, and the signature is valid.
Due(d) == Waits(d) /\ d \notin resting /\ file[d].key = secret
Free(d) == CommitOf[d] \notin busy \cup broken

\* Mutant of Selected: an entry that cannot be authenticated blocks the line.
SelectedInLine(d) ==
  /\ Due(d) /\ Free(d)
  /\ \A b \in file[d].behind : Waits(b) /\ b \notin resting => CommitOf[b] \in busy

\* The first of them whose head is free.  A head that is busy is passed over;
\* one whose lock is broken ends the call.
Selected(d) ==
  /\ Due(d) /\ Free(d)
  /\ \A b \in file[d].behind : Due(b) => CommitOf[b] \in busy

\* The snapshot of the attempt, after the recovery of the same call.
Attempted(d) ==
  [Recovered EXCEPT ![d] = [file[d] EXCEPT !.state = "publishing", !.attempts = @ + 1]]

\* The time of the next attempt, if there is one to come.
Rest(d) ==
  resting' = IF file'[d].attempts < MaxAttempts THEN resting \cup {d} ELSE resting

\* The call ends after the recovery: nothing can be taken, or it fails.
Recover ==
  /\ Usable /\ attempt = NONE
  /\ \E d \in Delivery : Interrupted(d)
  /\ Confirmed(Recovered) \/ Unconfirmed(Recovered)
  /\ UNCHANGED <<archives, world, attempt, resting, acknowledged, begun, reported>>

Begin(d) ==
  /\ Usable /\ attempt = NONE
  /\ Selected(d)
  /\ Confirmed(Attempted(d)) /\ Rest(d)
  /\ attempt' = d
  /\ begun' = [begun EXCEPT ![d] = @ + 1]
  /\ UNCHANGED <<archives, world, acknowledged, reported>>

\* The recovery, if there was one, is confirmed, and the attempt is not: nothing
\* is published.
BeginFails(d) ==
  /\ Usable /\ attempt = NONE
  /\ Selected(d)
  /\ unconfirmed < MaxUnconfirmed
  /\ file' = Attempted(d) /\ Rest(d)
  /\ synced' = IF \E b \in Delivery : Interrupted(b) THEN Recovered ELSE synced
  /\ unconfirmed' = unconfirmed + 1
  /\ UNCHANGED <<archives, world, attempt, acknowledged, begun, reported>>

\* The publication has succeeded, or not.
Finished(d, ok) ==
  [file EXCEPT ![d] = [file[d] EXCEPT
     !.state = IF ok THEN "completed" ELSE IF file[d].attempts = MaxAttempts THEN "exhausted" ELSE "retry"]]

Finish(d, ok) ==
  /\ Usable /\ attempt = d
  /\ file[d].state = "publishing"
  /\ \/ /\ Confirmed(Finished(d, ok))
        /\ reported' = IF ok THEN reported \cup {d} ELSE reported
     \/ Unconfirmed(Finished(d, ok)) /\ reported' = reported
  /\ Rest(d)
  /\ attempt' = NONE
  /\ UNCHANGED <<archives, world, acknowledged, begun>>

\* The worker dies, or cannot have inbox.lock when it comes back: nothing is written.
Abandon ==
  /\ attempt # NONE
  /\ attempt' = NONE
  /\ UNCHANGED <<file, synced, archives, world, resting, acknowledged, begun, reported,
                 unconfirmed>>

-----------------------------------------------------------------------------
\* archive_terminal: the archive is on disk before the entries become tombstones.
Archive ==
  LET done == {d \in Delivery : Terminal(file[d])} IN
  /\ Usable /\ attempt = NONE
  /\ done # {}
  /\ Cardinality(Tombstones(file)) + Cardinality(done) <= MaxTombstones
  /\ archives' = archives \cup done
  /\ LET compacted ==
           [d \in Delivery |-> IF d \in done
                               THEN [Absent EXCEPT !.state = "archived", !.attempts = file[d].attempts]
                               ELSE [file[d] EXCEPT !.behind = @ \ done]]
     IN \/ Confirmed(compacted) \/ Unconfirmed(compacted)
        \/ UNCHANGED <<file, synced, unconfirmed>>
  /\ resting' = resting \ done
  /\ UNCHANGED <<world, attempt, acknowledged, begun, reported>>

-----------------------------------------------------------------------------
\* The environment.  Receiver and worker are stopped and started with another secret.
Rotate(k) ==
  /\ k # secret /\ attempt = NONE
  /\ secret' = k
  /\ UNCHANGED <<file, synced, archives, busy, broken, attempt, resting, acknowledged, begun,
                 reported, unconfirmed, leftover>>

\* Another publisher takes or leaves the lock of a head (PublicationGuard), or
\* its file is damaged, or mended.
Contend(h) ==
  /\ attempt # NONE => CommitOf[attempt] # h
  /\ \/ busy' = busy \cup {h} /\ broken' = broken \ {h}
     \/ busy' = busy \ {h} /\ broken' = broken \cup {h}
     \/ busy' = busy \ {h} /\ broken' = broken \ {h}
  /\ UNCHANGED <<file, synced, archives, secret, attempt, resting, acknowledged, begun,
                 reported, unconfirmed, leftover>>

\* The clock goes on.
Ripen(d) ==
  /\ d \in resting
  /\ resting' = resting \ {d}
  /\ UNCHANGED <<file, synced, archives, world, attempt, acknowledged, begun, reported,
                 unconfirmed>>

\* The system writes the directory of its own accord.
Flush ==
  /\ synced # file
  /\ Confirmed(file)
  /\ UNCHANGED <<archives, world, attempt, resting, acknowledged, begun, reported>>

\* A process dies in write before the rename, and a worker's attempt with it.
Leave ==
  /\ Usable /\ leftover' = leftover + 1
  /\ \/ attempt # NONE /\ attempt' = NONE
     \/ /\ \E d \in Delivery :
             \/ Fresh(d) \/ Outdated(d)
             \/ attempt = NONE /\ (Interrupted(d) \/ Selected(d) \/ Terminal(file[d]))
        /\ attempt' = attempt
  /\ UNCHANGED <<file, synced, archives, secret, busy, broken, resting, acknowledged, begun,
                 reported, unconfirmed>>

\* An entry that is set back has an earlier retry time, or none.
PowerFails ==
  /\ file' = synced
  /\ attempt' = NONE
  /\ resting' \in SUBSET {d \in resting : synced[d].attempts > 0}
  /\ leftover' \in 0..leftover
  /\ UNCHANGED <<synced, archives, secret, busy, broken, acknowledged, begun, reported,
                 unconfirmed>>

Next ==
  \/ \E d \in Delivery : Enqueue(d) \/ Redeliver(d)
  \/ Recover
  \/ \E d \in Delivery : Begin(d) \/ BeginFails(d)
  \/ \E d \in Delivery, ok \in BOOLEAN : Finish(d, ok)
  \/ Abandon
  \/ Archive
  \/ \E k \in Key : Rotate(k)
  \/ \E h \in Contended : Contend(h)
  \/ \E d \in Delivery : Ripen(d)
  \/ Flush \/ Leave \/ PowerFails

\* The worker polls (github_worker.rs), retry times come and publications end.
Fairness ==
  /\ WF_vars(Recover)
  /\ WF_vars(\E d \in Delivery : Begin(d))
  /\ \A d \in Delivery : WF_vars(Ripen(d))
  /\ WF_vars(Abandon \/ \E d \in Delivery, ok \in BOOLEAN : Finish(d, ok))

Spec == Init /\ [][Next]_vars /\ Fairness

-----------------------------------------------------------------------------
\* What was acknowledged survives a power failure: it has an entry, or a
\* tombstone and its body is in an archive.
Kept(f, d) == d \in Entries(f) \/ (d \in Tombstones(f) /\ d \in archives)

\* Every publication that began is counted, also after a power failure, and a
\* reported one does not begin again.
Counted(f, d) ==
  /\ begun[d] <= f[d].attempts
  /\ d \in reported => f[d].state \in {"completed", "archived"}

\* The entry of an attempt is the attempt's own.
Owned(f, d) == attempt = d => f[d].state = "publishing"

\* receiver.rs: "Enqueue acknowledges only confirmed local persistence",
\* inbox.rs: "never report rollback or success".
DeliveriesKept ==
  \A f \in {file, synced}, d \in Delivery :
    /\ d \in acknowledged => Kept(f, d)
    /\ Counted(f, d) /\ Owned(f, d)

\* A delivery is held up by its own head, or by an entry in front of it that the
\* call cannot pass.
HeldUp(d) ==
  \/ ~Free(d)
  \/ \E b \in file[d].behind : Due(b) /\ CommitOf[b] \in broken

\* Nothing that can be published waits for ever, behind entries that cannot be
\* or not: through lost attempts, new secrets and power failures, there comes a
\* time when every open delivery with a valid signature is held up by a lock,
\* or the directory is over its bound.
DeliveriesEnd ==
  []<>(Usable => \A d \in Delivery : Open(file[d]) /\ file[d].key = secret => HeldUp(d))
=============================================================================
