------------------------------ MODULE RunFlight ------------------------------
(***************************************************************************)
(* Verification runs that are asked for again while they run:              *)
(* src/runtime/harness/verification_cache.rs.  The first caller of a key   *)
(* leads, runs the checks and publishes the report; the others follow and  *)
(* sleep on a Notify, which wakes those that armed it before it fires.     *)
(***************************************************************************)
CONSTANTS Client, Revision, NOKEY

Constants == NOKEY \notin Revision

VARIABLES
  repository,  \* the revision of the workspace; it is part of the key
  runs,        \* per key: the flight's slot, and whether its Notify has fired
  client       \* per client: where it is, its key, and whether it armed too late

vars == <<repository, runs, client>>

\* A flight is held by its leader and its followers; without them it is gone.
NoRun == [slot |-> "empty", fired |-> FALSE]
Away == [at |-> "away", key |-> NOKEY, late |-> FALSE]

TypeOK ==
  /\ repository \in Revision
  /\ runs \in [Revision -> [slot : {"empty", "report", "error"}, fired : BOOLEAN]]
  /\ client \in [Client -> [at : {"away", "leads", "published", "follows", "armed", "looked", "sleeps"},
                            key : Revision \cup {NOKEY}, late : BOOLEAN]]

Init ==
  /\ repository \in Revision
  /\ runs = [r \in Revision |-> NoRun]
  /\ client = [c \in Client |-> Away]

Holders(r) == {c \in Client : client[c].key = r}

\* claim_verification_run, under the registry's lock.
Claim(c) ==
  /\ client[c] = Away
  /\ LET r == repository IN
     IF Holders(r) = {}
       THEN /\ runs' = [runs EXCEPT ![r] = NoRun]
            /\ client' = [client EXCEPT ![c] = [at |-> "leads", key |-> r, late |-> FALSE]]
       ELSE /\ client' = [client EXCEPT ![c] = [at |-> "follows", key |-> r, late |-> FALSE]]
            /\ UNCHANGED runs
  /\ UNCHANGED repository

\* The leader completes with its result, or is dropped before it can, which
\* publishes an error in its place.  The slot is set before the Notify fires.
Publish(c) ==
  /\ client[c].at = "leads"
  /\ \E s \in {"report", "error"} : runs' = [runs EXCEPT ![client[c].key].slot = s]
  /\ client' = [client EXCEPT ![c].at = "published"]
  /\ UNCHANGED repository

Fire(c) ==
  /\ client[c].at = "published"
  /\ runs' = [runs EXCEPT ![client[c].key].fired = TRUE]
  /\ client' = [client EXCEPT ![c] = Away]
  /\ UNCHANGED repository

\* VerificationRunFlight::wait arms the Notify before it looks at the slot.
Arm(c) ==
  /\ client[c].at = "follows"
  /\ client' = [client EXCEPT ![c].at = "armed", ![c].late = runs[client[c].key].fired]
  /\ UNCHANGED <<repository, runs>>

Look(c) ==
  /\ client[c].at = "armed"
  /\ client' = IF runs[client[c].key].slot = "empty"
                 THEN [client EXCEPT ![c].at = "looked"]
                 ELSE [client EXCEPT ![c] = Away]
  /\ UNCHANGED <<repository, runs>>

\* Mutant of Sleep: the Notify is armed only when the follower goes to sleep.
ArmAndSleep(c) ==
  /\ client[c].at = "looked"
  /\ client' = [client EXCEPT ![c].at = "sleeps", ![c].late = runs[client[c].key].fired]
  /\ UNCHANGED <<repository, runs>>

Sleep(c) ==
  /\ client[c].at = "looked"
  /\ client' = [client EXCEPT ![c].at = "sleeps"]
  /\ UNCHANGED <<repository, runs>>

Fired(c) == runs[client[c].key].fired /\ ~client[c].late

Wake(c) ==
  /\ client[c].at = "sleeps"
  /\ Fired(c)
  /\ client' = [client EXCEPT ![c].at = "follows"]
  /\ UNCHANGED <<repository, runs>>

\* A follower's call is dropped.
GoAway(c) ==
  /\ client[c].at \in {"follows", "looked", "sleeps"}
  /\ client' = [client EXCEPT ![c] = Away]
  /\ UNCHANGED <<repository, runs>>

Edit == \E r \in Revision \ {repository} : repository' = r /\ UNCHANGED <<runs, client>>

Next ==
  \/ \E c \in Client : \/ Claim(c) \/ Publish(c) \/ Fire(c)
                       \/ Arm(c) \/ Look(c) \/ Sleep(c) \/ Wake(c) \/ GoAway(c)
  \/ Edit

Spec == Init /\ [][Next]_vars

-----------------------------------------------------------------------------
\* Nobody sleeps for ever: whoever sleeps has been woken, or its flight has a
\* leader that will still wake it, in whatever order the report, the look at
\* the slot and the sleep come, and when the leader's call is dropped too.
SleepersWake ==
  \A c \in Client : client[c].at = "sleeps" =>
    \/ Fired(c)
    \/ \E d \in Holders(client[c].key) : client[d].at \in {"leads", "published"}
=============================================================================
