----------------------------- MODULE Host_proofs -----------------------------
(***************************************************************************)
(* What holds of the parts of MCHost for all values of their constants.    *)
(* The sum takes only steps of its parts, so that an invariant of a part   *)
(* is one of the sum.                                                      *)
(***************************************************************************)
EXTENDS MCHost, Tasks_proofs, FiniteSetTheorems, WellFoundedInduction, TLAPS

LEMMA HostSteps ==
  [HostNext]_hostVars =>
    /\ [Next]_vars
    /\ [Cache!Next]_Cache!vars
    /\ [Runs!Next]_Runs!vars
    /\ [Tools!Next]_Tools!vars
    /\ [Batch!Next]_Batch!vars
    /\ [Tokens!Next]_Tokens!vars
    /\ [Cpu!Next]_Cpu!vars
    /\ [Plans!Next]_Plans!vars
    /\ [Net!Next]_Net!vars
    /\ [Post!Next]_Post!vars
BY DEF HostNext, hostVars, cacheVars, runsVars, cpuVars, toolsVars, batchVars, plansVars, tokensVars,
       netVars, postVars, vars, Cache!vars, Runs!vars, Tools!vars, Batch!vars, Tokens!vars, Cpu!vars,
       Plans!vars, Net!vars, Post!vars

LEMMA HostStarts ==
  HostInit => /\ Init /\ Cache!Init /\ Runs!Init /\ Tools!Init /\ Batch!Init
              /\ Tokens!Init /\ Cpu!Init /\ Plans!Init /\ Net!Init /\ Post!Init
BY DEF HostInit

-----------------------------------------------------------------------------
\* Coalesced verification runs.

At(c, r, place) == follower[c].key = r /\ follower[c].at = place

\* A run that is held has a leader, or its end is published.
Led(r) ==
  \/ runs[r].slot = "empty" /\ ~runs[r].fired /\ \E d \in Follower : At(d, r, "leads")
  \/ runs[r].slot # "empty" /\ ~runs[r].fired /\ \E d \in Follower : At(d, r, "published")
  \/ runs[r].slot # "empty" /\ runs[r].fired

\* Who arms too late finds the end in the slot, and does not sleep.
LateLooks(c) ==
  /\ follower[c].at = "published" => runs[follower[c].key].slot # "empty"
  /\ follower[c].at = "armed" /\ follower[c].late => runs[follower[c].key].slot # "empty"
  /\ follower[c].at \in {"looked", "sleeps"} => ~follower[c].late

RunsType ==
  /\ NOKEY \notin Revision
  /\ Runs!TypeOK
  /\ \A c \in Follower : IF follower[c].at = "away" THEN follower[c] = Runs!Away
                         ELSE follower[c].key \in Revision

RunsInv ==
  /\ RunsType
  /\ \A r \in Revision : (\E c \in Follower : follower[c].key = r) => Led(r)
  /\ \A c \in Follower : LateLooks(c)

LEMMA RunsStart == NOKEY \notin Revision /\ Runs!Init => RunsInv
BY DEF Runs!Init, Runs!NoRun, Runs!Away, Runs!TypeOK, RunsInv, RunsType, LateLooks

LEMMA RunsTypeStep == RunsType /\ [Runs!Next]_Runs!vars => RunsType'
<1> SUFFICES ASSUME RunsType, [Runs!Next]_Runs!vars PROVE RunsType'
  OBVIOUS
<1> USE DEF RunsType, Runs!TypeOK, Runs!Away, Runs!NoRun
<1>1. ASSUME NEW c \in Follower, Runs!Claim(c) PROVE RunsType'
  <2>1. PICK r \in Revision : r = repository
    OBVIOUS
  <2>2. PICK place \in {"leads", "follows"} :
          follower' = [follower EXCEPT ![c] = [at |-> place, key |-> r, late |-> FALSE]]
    BY <1>1, <2>1 DEF Runs!Claim
  <2>3. runs' = runs \/ runs' = [runs EXCEPT ![r] = [slot |-> "empty", fired |-> FALSE]]
    BY <1>1, <2>1 DEF Runs!Claim
  <2>4. repository' = repository
    BY <1>1 DEF Runs!Claim
  <2>5. Runs!TypeOK'
    <3>1. [at |-> place, key |-> r, late |-> FALSE]
            \in [at : {"away", "leads", "published", "follows", "armed", "looked", "sleeps"},
                 key : Revision \cup {NOKEY}, late : BOOLEAN]
      OBVIOUS
    <3>2. [slot |-> "empty", fired |-> FALSE]
            \in [slot : {"empty", "report", "error"}, fired : BOOLEAN]
      OBVIOUS
    <3>3. runs' \in [Revision -> [slot : {"empty", "report", "error"}, fired : BOOLEAN]]
      BY <2>3, <3>2
    <3>4. follower' \in [Follower ->
                           [at : {"away", "leads", "published", "follows", "armed", "looked", "sleeps"},
                            key : Revision \cup {NOKEY}, late : BOOLEAN]]
      BY <2>2, <3>1
    <3> QED
      BY <2>4, <3>3, <3>4
  <2>6. follower'[c].at = place /\ follower'[c].key = r
    BY <2>2
  <2> QED
    BY <2>2, <2>5, <2>6
<1>2. ASSUME NEW c \in Follower, Runs!Publish(c) PROVE RunsType'
  <2>1. PICK s \in {"report", "error"} : runs' = [runs EXCEPT ![follower[c].key].slot = s]
    BY <1>2 DEF Runs!Publish
  <2>2. /\ follower' = [follower EXCEPT ![c].at = "published"]
        /\ follower[c].at = "leads" /\ repository' = repository
    BY <1>2 DEF Runs!Publish
  <2>3. Runs!TypeOK'
    BY <2>1, <2>2
  <2> QED
    BY <2>2, <2>3
<1>3. ASSUME NEW c \in Follower, Runs!Fire(c) PROVE RunsType'
  BY <1>3 DEF Runs!Fire
<1>4. ASSUME NEW c \in Follower, Runs!Arm(c) PROVE RunsType'
  BY <1>4 DEF Runs!Arm
<1>5. ASSUME NEW c \in Follower, Runs!Look(c) PROVE RunsType'
  BY <1>5 DEF Runs!Look
<1>6. ASSUME NEW c \in Follower, Runs!Sleep(c) PROVE RunsType'
  BY <1>6 DEF Runs!Sleep
<1>7. ASSUME NEW c \in Follower, Runs!Wake(c) PROVE RunsType'
  BY <1>7 DEF Runs!Wake
<1>8. ASSUME NEW c \in Follower, Runs!GoAway(c) PROVE RunsType'
  BY <1>8 DEF Runs!GoAway
<1>9. CASE Runs!Edit
  BY <1>9 DEF Runs!Edit
<1>10. CASE UNCHANGED Runs!vars
  BY <1>10 DEF Runs!vars
<1> QED
  BY <1>1, <1>2, <1>3, <1>4, <1>5, <1>6, <1>7, <1>8, <1>9, <1>10 DEF Runs!Next


\* What a step of c, at the run r, leaves as it was.
RunStepOf(c, r) ==
  /\ \A d \in Follower : d # c => follower'[d] = follower[d]
  /\ \A q \in Revision : q # r => runs'[q] = runs[q]
  /\ \A q \in Revision : q # r => ~At(c, q, "leads") /\ ~At(c, q, "published")
  /\ follower'[c].key \in {r, NOKEY}

LEMMA RunsStepOf ==
  ASSUME RunsInv, RunsType', NEW c \in Follower, NEW r \in Revision, RunStepOf(c, r),
         (\E d \in Follower : follower'[d].key = r) => Led(r)',
         \A d \in Follower : follower'[d].key = r => LateLooks(d)',
         follower'[c].key = NOKEY => LateLooks(c)'
  PROVE  RunsInv'
<1>1. NOKEY \notin Revision
  BY DEF RunsInv, RunsType
<1>2. ASSUME NEW d \in Follower PROVE LateLooks(d)'
  <2>1. CASE d = c
    BY <2>1 DEF RunStepOf
  <2>2. CASE d # c /\ follower[d].key # r
    <3>1. follower'[d] = follower[d] /\ LateLooks(d)
      BY <2>2 DEF RunStepOf, RunsInv
    <3>2. follower[d].at = "away" \/ follower[d].key \in Revision
      BY DEF RunsInv, RunsType
    <3> QED
      BY <2>2, <3>1, <3>2 DEF LateLooks, RunStepOf
  <2> QED
    BY <2>1, <2>2 DEF RunStepOf
<1>3. ASSUME NEW q \in Revision, NEW d \in Follower, follower'[d].key = q PROVE Led(q)'
  <2>1. CASE q = r
    BY <1>3, <2>1
  <2>2. CASE q # r
    <3>1. d # c /\ follower'[d] = follower[d]
      BY <1>1, <1>3, <2>2 DEF RunStepOf
    <3>2. Led(q) /\ runs'[q] = runs[q]
      BY <1>3, <2>2, <3>1 DEF RunsInv, RunStepOf
    <3>3. ASSUME NEW e \in Follower PROVE /\ At(e, q, "leads") => At(e, q, "leads")'
                                          /\ At(e, q, "published") => At(e, q, "published")'
      BY <2>2 DEF RunStepOf, At
    <3> QED
      BY <3>2, <3>3 DEF Led
  <2> QED
    BY <2>1, <2>2
<1> QED
  BY <1>2, <1>3 DEF RunsInv

\* Steps that leave the runs alone, of followers that stay followers.
FollowerStep(c) ==
  /\ runs' = runs
  /\ \A d \in Follower : d # c => follower'[d] = follower[d]
  /\ follower[c].at \in {"follows", "armed", "looked", "sleeps"}
  /\ follower'[c].key \in {follower[c].key, NOKEY}

LEMMA FollowersStep ==
  ASSUME RunsInv, RunsType', NEW c \in Follower, FollowerStep(c), LateLooks(c)'
  PROVE  RunsInv'
<1>1. PICK r \in Revision : r = follower[c].key
  BY DEF RunsInv, RunsType, FollowerStep
<1>2. Led(r)
  BY <1>1 DEF RunsInv
<1>3. ASSUME NEW e \in Follower PROVE /\ At(e, r, "leads") => At(e, r, "leads")'
                                      /\ At(e, r, "published") => At(e, r, "published")'
  BY DEF FollowerStep, At
<1>4. Led(r)'
  BY <1>2, <1>3 DEF Led, FollowerStep
<1>5. RunStepOf(c, r)
  BY <1>1 DEF RunStepOf, FollowerStep, At
<1>6. \A d \in Follower : LateLooks(d)'
  BY DEF RunsInv, LateLooks, FollowerStep
<1> QED
  BY <1>4, <1>5, <1>6, RunsStepOf

LEMMA ClaimKeeps ==
  ASSUME RunsInv, RunsType', NEW c \in Follower, Runs!Claim(c)
  PROVE  RunsInv'
<1>1. PICK r \in Revision : r = repository
  BY DEF RunsInv, RunsType, Runs!TypeOK
<1>2. follower[c] = Runs!Away /\ Runs!Away.key = NOKEY /\ Runs!Away.at = "away" /\ NOKEY \notin Revision
  BY DEF RunsInv, RunsType, Runs!Claim, Runs!Away
<1>3. follower \in [Follower -> [at : {"away", "leads", "published", "follows", "armed", "looked", "sleeps"},
                                 key : Revision \cup {NOKEY}, late : BOOLEAN]]
      /\ runs \in [Revision -> [slot : {"empty", "report", "error"}, fired : BOOLEAN]]
  BY DEF RunsInv, RunsType, Runs!TypeOK
<1>4. CASE Runs!Holders(repository) = {}
  <2>1. /\ follower' = [follower EXCEPT ![c] = [at |-> "leads", key |-> r, late |-> FALSE]]
        /\ runs' = [runs EXCEPT ![r] = Runs!NoRun]
    BY <1>1, <1>4 DEF Runs!Claim
  <2>2. RunStepOf(c, r)
    BY <1>2, <1>3, <2>1 DEF RunStepOf, At
  <2>3. At(c, r, "leads")' /\ runs'[r].slot = "empty" /\ ~runs'[r].fired
    BY <1>3, <2>1 DEF At, Runs!NoRun
  <2>4. \A d \in Follower : d # c => follower'[d].key # r
    BY <1>1, <1>3, <1>4, <2>1 DEF Runs!Holders
  <2>5. LateLooks(c)'
    BY <1>3, <2>1 DEF LateLooks
  <2> QED
    BY <2>2, <2>3, <2>4, <2>5, RunsStepOf DEF Led
<1>5. CASE Runs!Holders(repository) # {}
  <2>1. /\ follower' = [follower EXCEPT ![c] = [at |-> "follows", key |-> r, late |-> FALSE]]
        /\ runs' = runs
    BY <1>1, <1>5 DEF Runs!Claim
  <2>2. RunStepOf(c, r)
    BY <1>2, <1>3, <2>1 DEF RunStepOf, At
  <2>3. Led(r)
    BY <1>1, <1>5 DEF Runs!Holders, RunsInv
  <2>4. ASSUME NEW e \in Follower PROVE /\ At(e, r, "leads") => At(e, r, "leads")'
                                        /\ At(e, r, "published") => At(e, r, "published")'
    BY <1>2, <1>3, <2>1 DEF At
  <2>5. Led(r)'
    BY <2>1, <2>3, <2>4 DEF Led
  <2>6. \A d \in Follower : LateLooks(d)'
    BY <1>3, <2>1 DEF LateLooks, RunsInv
  <2> QED
    BY <2>2, <2>5, <2>6, RunsStepOf
<1> QED
  BY <1>4, <1>5

LEMMA LeaderKeeps ==
  ASSUME RunsInv, RunsType', NEW c \in Follower, Runs!Publish(c) \/ Runs!Fire(c)
  PROVE  RunsInv'
<1>1. PICK r \in Revision : r = follower[c].key
  BY DEF RunsInv, RunsType, Runs!Publish, Runs!Fire
<1>2. follower \in [Follower -> [at : {"away", "leads", "published", "follows", "armed", "looked", "sleeps"},
                                 key : Revision \cup {NOKEY}, late : BOOLEAN]]
      /\ runs \in [Revision -> [slot : {"empty", "report", "error"}, fired : BOOLEAN]]
  BY DEF RunsInv, RunsType, Runs!TypeOK
<1>3. CASE Runs!Publish(c)
  <2>1. PICK s \in {"report", "error"} : runs' = [runs EXCEPT ![r].slot = s]
    BY <1>1, <1>3 DEF Runs!Publish
  <2>2. follower' = [follower EXCEPT ![c].at = "published"]
    BY <1>3 DEF Runs!Publish
  <2>3. RunStepOf(c, r)
    BY <1>1, <1>2, <2>1, <2>2 DEF RunStepOf, At
  <2>4. runs'[r].slot # "empty" /\ At(c, r, "published")'
    BY <1>1, <1>2, <2>1, <2>2 DEF At
  <2>5. \A d \in Follower : follower'[d].key = r => LateLooks(d)'
    BY <1>2, <2>2, <2>4 DEF LateLooks, RunsInv
  <2>6. r # NOKEY
    BY DEF RunsInv, RunsType
  <2> QED
    BY <2>3, <2>4, <2>5, <2>6, RunsStepOf DEF Led, At
<1>4. CASE Runs!Fire(c)
  <2>1. /\ runs' = [runs EXCEPT ![r].fired = TRUE]
        /\ follower' = [follower EXCEPT ![c] = Runs!Away]
        /\ runs[r].slot # "empty"
    BY <1>1, <1>4 DEF Runs!Fire, RunsInv, LateLooks
  <2>2. Runs!Away.at = "away" /\ Runs!Away.key = NOKEY
    BY DEF Runs!Away
  <2>3. RunStepOf(c, r)
    BY <1>1, <1>2, <2>1, <2>2 DEF RunStepOf, At
  <2>4. runs'[r].slot # "empty" /\ runs'[r].fired
    BY <1>2, <2>1
  <2>5. \A d \in Follower : LateLooks(d)'
    BY <1>2, <2>1, <2>2 DEF LateLooks, RunsInv
  <2> QED
    BY <2>3, <2>4, <2>5, RunsStepOf DEF Led
<1> QED
  BY <1>3, <1>4

LEMMA FollowerKeeps ==
  ASSUME RunsInv, RunsType', NEW c \in Follower,
         Runs!Arm(c) \/ Runs!Look(c) \/ Runs!Sleep(c) \/ Runs!Wake(c) \/ Runs!GoAway(c)
  PROVE  RunsInv'
<1>1. follower \in [Follower -> [at : {"away", "leads", "published", "follows", "armed", "looked", "sleeps"},
                                 key : Revision \cup {NOKEY}, late : BOOLEAN]]
      /\ runs \in [Revision -> [slot : {"empty", "report", "error"}, fired : BOOLEAN]]
      /\ LateLooks(c)
  BY DEF RunsInv, RunsType, Runs!TypeOK
<1>2. Runs!Away.at = "away" /\ Runs!Away.key = NOKEY
  BY DEF Runs!Away
<1>3. CASE Runs!Arm(c)
  <2>1. FollowerStep(c)
    BY <1>1, <1>3 DEF Runs!Arm, FollowerStep
  <2>2. PICK r \in Revision : r = follower[c].key
    BY <1>3 DEF RunsInv, RunsType, Runs!Arm
  <2>3. runs[r].fired => runs[r].slot # "empty"
    <3>1. Led(r)
      BY <2>2 DEF RunsInv
    <3> QED
      BY <3>1 DEF Led
  <2>4. LateLooks(c)'
    BY <1>1, <1>3, <2>2, <2>3 DEF Runs!Arm, LateLooks
  <2> QED
    BY <2>1, <2>4, FollowersStep
<1>4. CASE Runs!Look(c)
  <2>1. FollowerStep(c) /\ LateLooks(c)'
    BY <1>1, <1>2, <1>4 DEF Runs!Look, FollowerStep, LateLooks
  <2> QED
    BY <2>1, FollowersStep
<1>5. CASE Runs!Sleep(c)
  <2>1. FollowerStep(c) /\ LateLooks(c)'
    BY <1>1, <1>5 DEF Runs!Sleep, FollowerStep, LateLooks
  <2> QED
    BY <2>1, FollowersStep
<1>6. CASE Runs!Wake(c) \/ Runs!GoAway(c)
  <2>1. FollowerStep(c) /\ LateLooks(c)'
    BY <1>1, <1>2, <1>6 DEF Runs!Wake, Runs!GoAway, FollowerStep, LateLooks
  <2> QED
    BY <2>1, FollowersStep
<1> QED
  BY <1>3, <1>4, <1>5, <1>6

LEMMA RunsStep == RunsInv /\ [Runs!Next]_Runs!vars => RunsInv'
<1> SUFFICES ASSUME RunsInv, [Runs!Next]_Runs!vars PROVE RunsInv'
  OBVIOUS
<1>1. RunsType'
  BY RunsTypeStep DEF RunsInv
<1>2. CASE Runs!Edit \/ UNCHANGED Runs!vars
  BY <1>1, <1>2 DEF Runs!Edit, Runs!vars, RunsInv, Led, At, LateLooks
<1> QED
  BY <1>1, <1>2, ClaimKeeps, LeaderKeeps, FollowerKeeps DEF Runs!Next

LEMMA RunsWake == RunsInv => SleepersWake
<1> SUFFICES ASSUME RunsInv, NEW c \in Follower, follower[c].at = "sleeps"
             PROVE  Runs!Fired(c) \/ \E d \in Runs!Holders(follower[c].key) : follower[d].at \in {"leads", "published"}
  BY DEF SleepersWake, Runs!SleepersWake
<1>1. PICK r \in Revision : r = follower[c].key
  BY DEF RunsInv, RunsType
<1>2. Led(r) /\ ~follower[c].late
  BY <1>1 DEF RunsInv, LateLooks
<1> QED
  BY <1>1, <1>2 DEF Led, At, Runs!Fired, Runs!Holders

\* No follower of a verification run sleeps for ever (verification_cache.rs).
THEOREM NobodyIsForgotten == HostSpec => []SleepersWake
<1>1. HostInit => RunsInv
  BY HostStarts, RunsStart, HostAssumption DEF Runs!Constants
<1>2. RunsInv /\ [HostNext]_hostVars => RunsInv'
  BY HostSteps, RunsStep
<1> QED
  BY <1>1, <1>2, RunsWake, PTL DEF HostSpec

-----------------------------------------------------------------------------
\* OAuth tokens.

NoToken(s, auth) == \A t \in auth.access \cup auth.refresh : t.session # s

Op == [kind : {"free", "register", "issue", "revoke"}, session : Session \cup {NONE},
       saved : Tokens!Auth \cup {NONE}, stored : BOOLEAN]

TokensType ==
  /\ time \in 1..MaxTime
  /\ memory \in Tokens!Auth /\ stored \in Tokens!Auth
  /\ code \in [Session -> {"none", "pending", "used"}]
  /\ pairs \in [Session -> 0..MaxPairs]
  /\ op \in Op
  /\ op.kind = "free" => op = Tokens!Free
  /\ op.kind \in {"register", "issue"} => op.saved \in Tokens!Auth
  /\ op.kind \in {"issue", "revoke"} => op.session \in Session
  /\ given \in [Session -> Tokens!Token \cup {NONE}]
  /\ revoked \in SUBSET Session

\* The pair that an operation makes is in memory until it is answered.
HasNew(s) == \E t \in memory.refresh : t.session = s /\ t.n = pairs[s]

TokensInv ==
  /\ TokensType
  /\ \A s \in Session : pairs[s] > 0 => code[s] = "used"
  /\ \A s \in Session : given[s] # NONE => given[s].session = s /\ pairs[s] > 0
  /\ \A s \in revoked : /\ NoToken(s, memory) /\ NoToken(s, stored) /\ pairs[s] > 0
                        /\ op.kind = "issue" => op.session # s /\ NoToken(s, op.saved)
  /\ op.kind = "issue" => HasNew(op.session)
  /\ op.kind = "revoke" => NoToken(op.session, memory) /\ pairs[op.session] > 0
  /\ op.stored => stored = memory

LEMMA TokensStart == Tokens!Constants /\ Tokens!Init => TokensInv
BY DEF Tokens!Constants, Tokens!Init, Tokens!Empty, Tokens!Free, Tokens!Auth, Tokens!Token, Op, TokensInv,
       TokensType, NoToken

LEMMA FreshIsLess ==
  ASSUME NEW auth \in Tokens!Auth
  PROVE  /\ Tokens!Fresh(auth) \in Tokens!Auth
         /\ \A s : NoToken(s, auth) => NoToken(s, Tokens!Fresh(auth))
BY DEF Tokens!Auth, Tokens!Fresh, NoToken

LEMMA WithoutIsLess ==
  ASSUME NEW auth \in Tokens!Auth, NEW u
  PROVE  /\ Tokens!Without(u, auth) \in Tokens!Auth
         /\ NoToken(u, Tokens!Without(u, auth))
         /\ \A s : NoToken(s, auth) => NoToken(s, Tokens!Without(u, auth))
BY DEF Tokens!Auth, Tokens!Without, Tokens!Of, NoToken

LEMMA RoomIsLess ==
  ASSUME NEW auth \in Tokens!Auth, NEW room \in Tokens!Rooms(auth), NEW k \in Client
  PROVE  LET new == [room EXCEPT !.clients = @ \cup {k}] IN
         new \in Tokens!Auth /\ \A s : NoToken(s, auth) => NoToken(s, new)
<1>1. PICK base \in {auth, Tokens!Fresh(auth)} :
        room = base \/ \E c \in base.clients : room = [base EXCEPT !.clients = @ \ {c}]
  BY DEF Tokens!Rooms, Tokens!Fresh
<1>2. base \in Tokens!Auth /\ \A s : NoToken(s, auth) => NoToken(s, base)
  BY FreshIsLess
<1>3. room \in Tokens!Auth /\ room.access = base.access /\ room.refresh = base.refresh
  BY <1>1, <1>2 DEF Tokens!Auth
<1> QED
  BY <1>2, <1>3 DEF Tokens!Auth, NoToken

LEMMA RegisterKeeps ==
  ASSUME TokensInv, NEW k \in Client, Tokens!Register(k)
  PROVE  TokensInv'
<1>1. op.kind = "free" /\ op.stored = FALSE
  BY DEF Tokens!Register, Tokens!Free
<1>2. memory' \in Tokens!Auth /\ \A s \in Session : NoToken(s, memory) => NoToken(s, memory')
  BY RoomIsLess, FreshIsLess DEF Tokens!Register, TokensInv, TokensType
<1>3. op' = op \/ op' = [kind |-> "register", session |-> NONE, saved |-> memory, stored |-> FALSE]
  BY DEF Tokens!Register
<1>4. UNCHANGED <<time, stored, code, pairs, given, revoked>>
  BY DEF Tokens!Register
<1>5. TokensType'
  <2>1. CASE op' = op
    BY <1>2, <1>4, <2>1 DEF TokensInv, TokensType
  <2>2. CASE op' = [kind |-> "register", session |-> NONE, saved |-> memory, stored |-> FALSE]
    <3>1. op' \in Op /\ op'.saved \in Tokens!Auth /\ op'.kind = "register"
      BY <2>2 DEF TokensInv, TokensType, Op
    <3> QED
      BY <1>2, <1>4, <3>1 DEF TokensInv, TokensType
  <2> QED
    BY <1>3, <2>1, <2>2
<1>6. \A s \in revoked : NoToken(s, memory')
  BY <1>2 DEF TokensInv, TokensType
<1> QED
  BY <1>1, <1>3, <1>4, <1>5, <1>6 DEF TokensInv

LEMMA IssueKeeps ==
  ASSUME Tokens!Constants, TokensInv, NEW s \in Session, NEW rotated, op = Tokens!Free, s \notin revoked,
         code'[s] = "used", \A r \in Session : r # s => code'[r] = code[r],
         code' \in [Session -> {"none", "pending", "used"}],
         Tokens!Issue(s, rotated), UNCHANGED <<time, stored, given, revoked>>
  PROVE  TokensInv'
<1> DEFINE n == pairs[s] + 1
           new == [session |-> s, at |-> time, n |-> n]
<1>1. n \in 1..MaxPairs
  BY DEF Tokens!Issue, TokensInv, TokensType, Tokens!Constants
<1>2. pairs' = [pairs EXCEPT ![s] = n]
  BY DEF Tokens!Issue, TokensInv, TokensType
<1>3. new \in Tokens!Token
  BY <1>1 DEF TokensInv, TokensType, Tokens!Token
<1>4. PICK a \in SUBSET memory.access, r \in SUBSET memory.refresh :
        memory' = [memory EXCEPT !.access = a \cup {new}, !.refresh = r \cup {new}]
  <2> DEFINE kept == Tokens!Fresh(memory)
             access == IF rotated = {} THEN kept.access ELSE kept.access \ Tokens!Of(s, kept.access)
  <2>1. kept.access \subseteq memory.access /\ kept.refresh \subseteq memory.refresh
    BY DEF Tokens!Fresh, TokensInv, TokensType, Tokens!Auth
  <2>2. access \subseteq memory.access /\ kept.refresh \ rotated \subseteq memory.refresh
    BY <2>1
  <2>3. \A tokens : \A e \in Tokens!Evicted(tokens) : e \subseteq tokens
    BY DEF Tokens!Evicted
  <2>4. PICK a \in Tokens!Evicted(access), r \in Tokens!Evicted(kept.refresh \ rotated) :
          memory' = [memory EXCEPT !.access = a \cup {new}, !.refresh = r \cup {new}]
    BY DEF Tokens!Issue
  <2> HIDE DEF kept, access, new
  <2>5. a \in SUBSET memory.access /\ r \in SUBSET memory.refresh
    BY <2>2, <2>3
  <2> QED
    BY <2>4, <2>5
<1>5. op' = [kind |-> "issue", session |-> s, saved |-> memory, stored |-> FALSE]
  BY DEF Tokens!Issue
<1>6. new.session = s /\ new.n = n
  OBVIOUS
<1> HIDE DEF n, new
<1>7. memory' \in Tokens!Auth
  BY <1>3, <1>4 DEF Tokens!Auth, TokensInv, TokensType
<1>8. \A u \in Session : u # s /\ NoToken(u, memory) => NoToken(u, memory')
  BY <1>4, <1>6 DEF NoToken, TokensInv, TokensType, Tokens!Auth
<1>9. HasNew(s)'
  BY <1>1, <1>2, <1>4, <1>6 DEF HasNew, TokensInv, TokensType, Tokens!Auth
<1>10. pairs' \in [Session -> 0..MaxPairs] /\ \A u \in Session : u # s => pairs'[u] = pairs[u]
  BY <1>1, <1>2 DEF TokensInv, TokensType
<1>11. TokensType'
  BY <1>5, <1>7, <1>10 DEF TokensInv, TokensType, Op
<1>12. \A u \in revoked : u # s
  OBVIOUS
<1>13. \A u \in revoked : u \in Session /\ NoToken(u, memory') /\ NoToken(u, stored') /\ pairs'[u] > 0
  BY <1>8, <1>10, <1>12 DEF TokensInv, TokensType
<1>14. pairs'[s] > 0
  BY <1>1, <1>2 DEF n, TokensInv, TokensType
<1>15. \A u \in Session : /\ pairs'[u] > 0 => code'[u] = "used"
                          /\ given[u] # NONE => given[u].session = u /\ pairs'[u] > 0
  BY <1>10, <1>14 DEF TokensInv
<1>16. /\ op'.kind = "issue" /\ op'.session = s /\ op'.saved = memory /\ op'.stored = FALSE
  BY <1>5
<1>17. \A u \in revoked : NoToken(u, op'.saved)
  BY <1>16 DEF TokensInv
<1>18. HasNew(op.session)'
  BY <1>9, <1>16 DEF HasNew
<1> QED
  BY <1>11, <1>12, <1>13, <1>15, <1>16, <1>17, <1>18 DEF TokensInv

LEMMA ExchangeKeeps ==
  ASSUME Tokens!Constants, TokensInv, NEW s \in Session, Tokens!Exchange(s)
  PROVE  TokensInv'
<1>1. s \notin revoked
  BY DEF Tokens!Exchange, TokensInv, TokensType
<1>2. /\ code' \in [Session -> {"none", "pending", "used"}] /\ code'[s] = "used"
      /\ \A r \in Session : r # s => code'[r] = code[r]
  BY DEF Tokens!Exchange, TokensInv, TokensType
<1> QED
  BY <1>1, <1>2, IssueKeeps DEF Tokens!Exchange

LEMMA RefreshKeeps ==
  ASSUME Tokens!Constants, TokensInv, NEW s \in Session, Tokens!Refresh(s)
  PROVE  TokensInv'
<1>1. given[s] \in memory.refresh /\ given[s] \in Tokens!Token
  BY DEF Tokens!Refresh, TokensInv, TokensType, Tokens!Auth
<1>2. given[s].session = s /\ pairs[s] > 0
  BY <1>1 DEF TokensInv, Tokens!Constants
<1>3. s \notin revoked
  BY <1>1, <1>2 DEF TokensInv, NoToken
<1>4. code[s] = "used"
  BY <1>2 DEF TokensInv
<1> QED
  BY <1>3, <1>4, IssueKeeps DEF Tokens!Refresh, TokensInv, TokensType

LEMMA RevokeKeeps ==
  ASSUME TokensInv, NEW s \in Session, Tokens!Revoke(s)
  PROVE  TokensInv'
<1>1. /\ memory' \in Tokens!Auth /\ NoToken(s, memory')
      /\ \A u : NoToken(u, memory) => NoToken(u, memory')
  BY WithoutIsLess DEF Tokens!Revoke, TokensInv, TokensType
<1>2. op' = [kind |-> "revoke", session |-> s, saved |-> NONE, stored |-> FALSE]
  BY DEF Tokens!Revoke
<1>3. pairs[s] > 0 /\ UNCHANGED <<time, stored, code, pairs, given, revoked>>
  BY DEF Tokens!Revoke
<1>4. TokensType'
  BY <1>1, <1>2, <1>3 DEF TokensInv, TokensType, Op
<1> QED
  BY <1>1, <1>2, <1>3, <1>4 DEF TokensInv

LEMMA PersistKeeps ==
  ASSUME TokensInv, Tokens!Persist
  PROVE  TokensInv'
<1>1. op' = [op EXCEPT !.stored = TRUE] /\ op \in Op
  BY DEF Tokens!Persist, TokensInv, TokensType
<1>2. /\ op'.kind = op.kind /\ op'.session = op.session /\ op'.saved = op.saved
      /\ op' \in Op
  BY <1>1 DEF Op
<1>3. /\ op'.kind # "free" /\ stored' = memory
      /\ UNCHANGED <<time, memory, code, pairs, given, revoked>>
  BY <1>2 DEF Tokens!Persist, TokensInv, TokensType
<1>4. TokensType'
  BY <1>2, <1>3 DEF TokensInv, TokensType
<1> QED
  BY <1>2, <1>3, <1>4 DEF TokensInv, HasNew

LEMMA NotPersistedKeeps ==
  ASSUME TokensInv, Tokens!NotPersisted
  PROVE  TokensInv'
<1>1. /\ Tokens!RolledBack \in Tokens!Auth
      /\ \A s \in revoked : NoToken(s, Tokens!RolledBack)
  <2>1. op.kind \in {"register", "issue", "revoke"}
    BY DEF Tokens!NotPersisted, TokensInv, TokensType, Op
  <2>2. CASE op.kind = "register"
    BY <2>2 DEF Tokens!RolledBack, TokensInv, TokensType, Tokens!Auth, NoToken
  <2>3. CASE op.kind = "issue"
    BY <2>3 DEF Tokens!RolledBack, TokensInv, TokensType, Tokens!Auth, NoToken
  <2>4. CASE op.kind = "revoke"
    BY <2>4 DEF Tokens!RolledBack, TokensInv, TokensType
  <2> QED
    BY <2>1, <2>2, <2>3, <2>4
<1>2. /\ memory' = Tokens!RolledBack /\ op' = Tokens!Free
      /\ UNCHANGED <<time, stored, code, pairs, given, revoked>>
  BY DEF Tokens!NotPersisted
<1>3. TokensType'
  BY <1>1, <1>2 DEF TokensInv, TokensType, Op, Tokens!Free
<1> QED
  BY <1>1, <1>2, <1>3 DEF TokensInv, Tokens!Free

LEMMA AnswerKeeps ==
  ASSUME Tokens!Constants, TokensInv, Tokens!Answer
  PROVE  TokensInv'
<1>1. op' = Tokens!Free /\ op.stored /\ UNCHANGED <<time, memory, stored, code, pairs>>
  BY DEF Tokens!Answer
<1>2. CASE op.kind = "issue"
  <2>1. PICK s \in Session : s = op.session
    BY <1>2 DEF TokensInv, TokensType
  <2> DEFINE new == CHOOSE t \in Tokens!Of(s, memory.refresh) : t.n = pairs[s]
  <2>2. given' = [given EXCEPT ![s] = new] /\ revoked' = revoked
    BY <1>2, <2>1 DEF Tokens!Answer
  <2>3. new \in Tokens!Of(s, memory.refresh) /\ new.n = pairs[s]
    BY <1>2, <2>1 DEF TokensInv, HasNew, Tokens!Of
  <2>4. new \in Tokens!Token /\ new.session = s /\ pairs[s] > 0
    BY <2>3 DEF Tokens!Of, TokensInv, TokensType, Tokens!Auth, Tokens!Token, Tokens!Constants
  <2> HIDE DEF new
  <2>5. TokensType'
    BY <1>1, <2>2, <2>4 DEF TokensInv, TokensType, Op, Tokens!Free
  <2> QED
    BY <1>1, <2>2, <2>4, <2>5 DEF TokensInv, TokensType, Tokens!Free
<1>3. CASE op.kind # "issue"
  <2>1. given' = given /\ revoked' = IF op.kind = "revoke" THEN revoked \cup {op.session} ELSE revoked
    BY <1>3 DEF Tokens!Answer
  <2>2. TokensType'
    BY <1>1, <2>1 DEF TokensInv, TokensType, Op, Tokens!Free
  <2> QED
    BY <1>1, <2>1, <2>2 DEF TokensInv, Tokens!Free
<1> QED
  BY <1>2, <1>3

LEMMA RestartKeepsTokens ==
  ASSUME TokensInv, Tokens!Restart
  PROVE  TokensInv'
<1>1. /\ memory' = Tokens!Fresh(stored) /\ op' = Tokens!Free
      /\ code' = [s \in Session |-> IF code[s] = "pending" THEN "used" ELSE code[s]]
      /\ UNCHANGED <<time, stored, pairs, given, revoked>>
  BY DEF Tokens!Restart
<1>2. memory' \in Tokens!Auth /\ \A s : NoToken(s, stored) => NoToken(s, memory')
  BY <1>1, FreshIsLess DEF TokensInv, TokensType
<1>3. TokensType'
  BY <1>1, <1>2 DEF TokensInv, TokensType, Op, Tokens!Free
<1> QED
  BY <1>1, <1>2, <1>3 DEF TokensInv, TokensType, Tokens!Free

LEMMA TokensStep == Tokens!Constants /\ TokensInv /\ [Tokens!Next]_Tokens!vars => TokensInv'
<1> SUFFICES ASSUME Tokens!Constants, TokensInv, [Tokens!Next]_Tokens!vars PROVE TokensInv'
  OBVIOUS
<1>1. ASSUME NEW s \in Session, Tokens!Authorize(s) PROVE TokensInv'
  <2>1. code' = [code EXCEPT ![s] = "pending"] /\ code[s] = "none"
    BY <1>1 DEF Tokens!Authorize
  <2>2. UNCHANGED <<time, memory, stored, pairs, op, given, revoked>>
    BY <1>1 DEF Tokens!Authorize
  <2>3. TokensType'
    BY <2>1, <2>2 DEF TokensInv, TokensType
  <2>4. \A r \in Session : pairs[r] > 0 => code'[r] = "used"
    BY <2>1 DEF TokensInv, TokensType
  <2> QED
    BY <2>2, <2>3, <2>4 DEF TokensInv, HasNew
<1>2. CASE Tokens!Tick
  <2>1. time' \in 1..MaxTime
    BY <1>2 DEF Tokens!Tick, TokensInv, TokensType, Tokens!Constants
  <2>2. UNCHANGED <<memory, stored, code, pairs, op, given, revoked>>
    BY <1>2 DEF Tokens!Tick
  <2>3. TokensType'
    BY <2>1, <2>2 DEF TokensInv, TokensType
  <2> QED
    BY <2>2, <2>3 DEF TokensInv, HasNew
<1>3. CASE UNCHANGED Tokens!vars
  <2>1. UNCHANGED <<time, memory, stored, code, pairs, op, given, revoked>>
    BY <1>3 DEF Tokens!vars
  <2> QED
    BY <2>1 DEF TokensInv, TokensType, HasNew
<1> QED
  BY <1>1, <1>2, <1>3, RegisterKeeps, ExchangeKeeps, RefreshKeeps, RevokeKeeps, PersistKeeps,
     NotPersistedKeeps, AnswerKeeps, RestartKeepsTokens DEF Tokens!Next

\* An acknowledged revocation is final, whatever else the server does, at a
\* rollback and at a restart (auth/tokens.rs).
THEOREM RevocationIsFinal == HostSpec => []RevokedStaysRevoked
<1>1. HostInit => TokensInv
  BY HostStarts, TokensStart, HostAssumption
<1>2. TokensInv /\ [HostNext]_hostVars => TokensInv'
  BY HostSteps, TokensStep, HostAssumption
<1>3. TokensInv => RevokedStaysRevoked
  BY DEF TokensInv, NoToken, RevokedStaysRevoked, Tokens!RevokedStaysRevoked
<1> QED
  BY <1>1, <1>2, <1>3, PTL DEF HostSpec

\* A session whose client holds a token that should work.
Live(s) == given[s] # NONE /\ s \notin gone /\ Tokens!Current(given[s], RefreshTtl)

\* No token is from the future: what has expired stays expired.
PastTokens ==
  /\ \A t \in memory.refresh \cup stored.refresh : t.at <= time
  /\ op.kind = "issue" => \A t \in op.saved.refresh : t.at <= time
  /\ \A s \in Session : given[s] # NONE => given[s].at <= time

\* Where the token of a live session is: in memory, or in what a rollback puts
\* back; and in the file, until an answer with a new token is due.
TokenKept(s) ==
  /\ op.kind # "issue" => given[s] \in memory.refresh
  /\ op.kind = "issue" => given[s] \in op.saved.refresh
  /\ op.kind = "issue" /\ op.stored /\ op.session # s => given[s] \in memory.refresh
  /\ ~(op.kind = "issue" /\ op.stored /\ op.session = s) => given[s] \in stored.refresh

SessionInv ==
  /\ TokensInv /\ PastTokens
  /\ gone \in SUBSET Session
  /\ \A s \in Session : Live(s) => TokenKept(s)

LEMMA SessionStart == Tokens!Constants /\ Tokens!Init => SessionInv
BY TokensStart DEF Tokens!Init, Tokens!Empty, Tokens!Free, SessionInv, PastTokens, Live

LEMMA FreshKeepsLive ==
  ASSUME NEW auth \in Tokens!Auth
  PROVE  /\ Tokens!Fresh(auth).refresh \subseteq auth.refresh
         /\ \A t \in auth.refresh : Tokens!Current(t, RefreshTtl) => t \in Tokens!Fresh(auth).refresh
BY DEF Tokens!Auth, Tokens!Fresh

LEMMA RegisterKeepsSession ==
  ASSUME SessionInv, NEW k \in Client, Tokens!Register(k)
  PROVE  PastTokens' /\ \A s \in Session : Live(s)' => TokenKept(s)'
<1>1. op.kind = "free" /\ op.stored = FALSE /\ memory \in Tokens!Auth
  BY DEF Tokens!Register, Tokens!Free, SessionInv, TokensInv, TokensType
<1>2. memory'.refresh \in {memory.refresh, Tokens!Fresh(memory).refresh}
  <2>1. CASE memory' = Tokens!Fresh(memory)
    BY <2>1
  <2>2. ASSUME NEW auth \in Tokens!Rooms(memory), memory' = [auth EXCEPT !.clients = @ \cup {k}]
        PROVE  memory'.refresh \in {memory.refresh, Tokens!Fresh(memory).refresh}
    <3>1. PICK base \in {memory, Tokens!Fresh(memory)} :
            auth = base \/ \E c \in base.clients : auth = [base EXCEPT !.clients = @ \ {c}]
      BY <2>2 DEF Tokens!Rooms, Tokens!Fresh
    <3>2. base \in Tokens!Auth
      BY <1>1, FreshIsLess
    <3>3. auth.refresh = base.refresh /\ auth \in Tokens!Auth
      BY <3>1, <3>2 DEF Tokens!Auth
    <3>4. memory'.refresh = auth.refresh
      BY <2>2, <3>3 DEF Tokens!Auth
    <3> QED
      BY <3>3, <3>4
  <2> QED
    BY <2>1, <2>2 DEF Tokens!Register
<1>3. op'.kind # "issue" /\ UNCHANGED <<time, stored, given, gone>>
  BY <1>1 DEF Tokens!Register
<1>4. PastTokens'
  BY <1>1, <1>2, <1>3, FreshKeepsLive DEF SessionInv, PastTokens
<1>5. \A s \in Session : Live(s)' => Live(s)
  BY <1>3 DEF Live, Tokens!Current
<1> QED
  BY <1>1, <1>2, <1>3, <1>4, <1>5, FreshKeepsLive DEF SessionInv, TokenKept, Live

LEMMA IssueKeepsSession ==
  ASSUME Tokens!Constants, SessionInv, NEW s \in Session, NEW rotated, op = Tokens!Free,
         Tokens!Issue(s, rotated), UNCHANGED <<time, stored, given, gone>>
  PROVE  PastTokens' /\ \A u \in Session : Live(u)' => TokenKept(u)'
<1> DEFINE new == [session |-> s, at |-> time, n |-> pairs[s] + 1]
<1>1. op.kind = "free" /\ op.stored = FALSE /\ memory \in Tokens!Auth /\ time \in 1..MaxTime /\ MaxTime \in Nat
  BY DEF Tokens!Free, Tokens!Constants, SessionInv, TokensInv, TokensType
<1>2. op' = [kind |-> "issue", session |-> s, saved |-> memory, stored |-> FALSE]
  BY DEF Tokens!Issue
<1>3. op'.kind = "issue" /\ op'.saved = memory /\ op'.stored = FALSE
  BY <1>2
<1>4. PICK r \in SUBSET memory.refresh : memory'.refresh = r \cup {new}
  <2> DEFINE kept == Tokens!Fresh(memory)
             access == IF rotated = {} THEN kept.access ELSE kept.access \ Tokens!Of(s, kept.access)
  <2>1. PICK a \in Tokens!Evicted(access), r \in Tokens!Evicted(kept.refresh \ rotated) :
          memory' = [memory EXCEPT !.access = a \cup {new}, !.refresh = r \cup {new}]
    BY DEF Tokens!Issue
  <2>2. \A tokens : \A e \in Tokens!Evicted(tokens) : e \subseteq tokens
    BY DEF Tokens!Evicted
  <2>3. kept.refresh \ rotated \subseteq memory.refresh
    BY <1>1, FreshKeepsLive
  <2> HIDE DEF kept, access, new
  <2>4. memory'.refresh = r \cup {new}
    BY <1>1, <2>1 DEF Tokens!Auth
  <2> QED
    BY <2>1, <2>2, <2>3, <2>4
<1>5. new.at <= time
  BY <1>1
<1> HIDE DEF new
<1>6. PastTokens'
  BY <1>1, <1>3, <1>4, <1>5 DEF SessionInv, PastTokens
<1>7. \A u \in Session : Live(u)' => Live(u)
  BY DEF Live, Tokens!Current
<1> QED
  BY <1>1, <1>3, <1>6, <1>7 DEF SessionInv, TokenKept

LEMMA RevokeKeepsSession ==
  ASSUME SessionInv, NEW s \in Session, Tokens!Revoke(s)
  PROVE  PastTokens' /\ \A u \in Session : Live(u)' => TokenKept(u)'
<1>1. op.kind = "free" /\ op.stored = FALSE /\ memory \in Tokens!Auth
  BY DEF Tokens!Revoke, Tokens!Free, SessionInv, TokensInv, TokensType
<1>2. memory'.refresh = memory.refresh \ Tokens!Of(s, memory.refresh)
  BY <1>1 DEF Tokens!Revoke, Tokens!Without, Tokens!Auth
<1>3. /\ op'.kind = "revoke" /\ op'.stored = FALSE /\ gone' = gone \cup {s}
      /\ UNCHANGED <<time, stored, given>>
  BY DEF Tokens!Revoke
<1>4. PastTokens'
  BY <1>2, <1>3 DEF SessionInv, PastTokens
<1>5. \A u \in Session : Live(u)' => Live(u) /\ u # s
  BY <1>3 DEF Live, Tokens!Current
<1>6. \A u \in Session : Live(u)' => given[u] \in memory.refresh /\ given[u].session # s
  BY <1>1, <1>5 DEF SessionInv, TokensInv, TokenKept, Live
<1> QED
  BY <1>1, <1>2, <1>3, <1>4, <1>5, <1>6 DEF SessionInv, TokenKept, Tokens!Of

LEMMA PersistKeepsSession ==
  ASSUME SessionInv, Tokens!Persist
  PROVE  /\ PastTokens' /\ gone' \in SUBSET Session
         /\ \A s \in Session : Live(s)' => TokenKept(s)'
<1>1. /\ op'.kind = op.kind /\ op'.session = op.session /\ op'.saved = op.saved /\ op'.stored
  BY DEF Tokens!Persist, SessionInv, TokensInv, TokensType, Op
<1>2. stored' = memory /\ UNCHANGED <<time, memory, given>>
  BY DEF Tokens!Persist
<1>3. gone' = IF op.kind # "issue" THEN gone
              ELSE gone \cup {t.session : t \in {u \in op.saved.refresh \ memory.refresh :
                                                   u.session # op.session}}
  BY DEF Tokens!Persist
<1>4. gone' \in SUBSET Session
  <2>1. op.kind = "issue" => \A t \in op.saved.refresh : t.session \in Session
    BY DEF SessionInv, TokensInv, TokensType, Tokens!Auth, Tokens!Token
  <2> QED
    BY <1>3, <2>1 DEF SessionInv
<1>5. PastTokens'
  BY <1>1, <1>2 DEF SessionInv, PastTokens
<1>6. ASSUME NEW s \in Session, Live(s)' PROVE TokenKept(s)'
  <2>1. Live(s) /\ s \notin gone'
    BY <1>2, <1>3, <1>6 DEF Live, Tokens!Current
  <2>2. TokenKept(s) /\ given[s].session = s
    BY <2>1 DEF SessionInv, TokensInv, Live
  <2>3. op.kind = "issue" /\ op.session # s => given[s] \in memory.refresh
    BY <1>3, <2>1, <2>2 DEF TokenKept
  <2> QED
    BY <1>1, <1>2, <2>2, <2>3 DEF TokenKept
<1> QED
  BY <1>4, <1>5, <1>6

LEMMA NotPersistedKeepsSession ==
  ASSUME SessionInv, Tokens!NotPersisted
  PROVE  PastTokens' /\ \A s \in Session : Live(s)' => TokenKept(s)'
<1>1. op.kind \in {"register", "issue", "revoke"} /\ op.stored = FALSE /\ memory \in Tokens!Auth
  BY DEF Tokens!NotPersisted, SessionInv, TokensInv, TokensType, Op
<1>2. memory' = Tokens!RolledBack /\ op' = Tokens!Free /\ UNCHANGED <<time, stored, given, gone>>
  BY DEF Tokens!NotPersisted
<1>3. memory'.refresh = IF op.kind = "issue" THEN op.saved.refresh ELSE memory.refresh
  BY <1>1, <1>2 DEF Tokens!RolledBack, Tokens!Auth
<1>4. op'.kind = "free" /\ op'.stored = FALSE
  BY <1>2 DEF Tokens!Free
<1>5. PastTokens'
  BY <1>2, <1>3, <1>4 DEF SessionInv, PastTokens
<1>6. \A s \in Session : Live(s)' => Live(s)
  BY <1>2 DEF Live, Tokens!Current
<1> QED
  BY <1>1, <1>2, <1>3, <1>4, <1>5, <1>6 DEF SessionInv, TokenKept

LEMMA AnswerKeepsSession ==
  ASSUME Tokens!Constants, SessionInv, Tokens!Answer
  PROVE  PastTokens' /\ \A s \in Session : Live(s)' => TokenKept(s)'
<1>1. op' = Tokens!Free /\ op.stored /\ UNCHANGED <<time, memory, stored, gone>>
  BY DEF Tokens!Answer
<1>2. op'.kind = "free" /\ op'.stored = FALSE
  BY <1>1 DEF Tokens!Free
<1>3. stored = memory
  BY <1>1 DEF SessionInv, TokensInv
<1>4. \A s \in Session : given'[s] = given[s] \/ (given'[s] \in memory.refresh)
  <2>1. CASE op.kind = "issue"
    <3>1. op.session \in Session /\ HasNew(op.session)
      BY <2>1 DEF SessionInv, TokensInv, TokensType
    <3> DEFINE new == CHOOSE t \in Tokens!Of(op.session, memory.refresh) : t.n = pairs[op.session]
    <3>2. new \in Tokens!Of(op.session, memory.refresh)
      BY <3>1 DEF HasNew, Tokens!Of
    <3>3. given' = [given EXCEPT ![op.session] = new]
      BY <2>1 DEF Tokens!Answer
    <3> HIDE DEF new
    <3> QED
      BY <3>1, <3>2, <3>3 DEF Tokens!Of, SessionInv, TokensInv, TokensType
  <2>2. CASE op.kind # "issue"
    BY <2>2 DEF Tokens!Answer
  <2> QED
    BY <2>1, <2>2
<1>5. op.kind = "issue" => given'[op.session] \in memory.refresh
  <2> SUFFICES ASSUME op.kind = "issue" PROVE given'[op.session] \in memory.refresh
    OBVIOUS
  <2>1. op.session \in Session /\ HasNew(op.session)
    BY DEF SessionInv, TokensInv, TokensType
  <2> DEFINE new == CHOOSE t \in Tokens!Of(op.session, memory.refresh) : t.n = pairs[op.session]
  <2>2. new \in Tokens!Of(op.session, memory.refresh)
    BY <2>1 DEF HasNew, Tokens!Of
  <2>3. given' = [given EXCEPT ![op.session] = new]
    BY DEF Tokens!Answer
  <2> HIDE DEF new
  <2> QED
    BY <2>1, <2>2, <2>3 DEF Tokens!Of, SessionInv, TokensInv, TokensType
<1>6. PastTokens'
  BY <1>1, <1>2, <1>4 DEF SessionInv, PastTokens
<1>7. ASSUME NEW s \in Session, Live(s)' PROVE given'[s] \in memory.refresh
  <2>1. CASE given'[s] = given[s] /\ ~(op.kind = "issue" /\ op.session = s)
    <3>1. Live(s)
      BY <1>1, <1>7, <2>1 DEF Live, Tokens!Current
    <3> QED
      BY <1>1, <2>1, <3>1 DEF SessionInv, TokenKept
  <2> QED
    BY <1>4, <1>5, <2>1
<1> QED
  BY <1>1, <1>2, <1>3, <1>6, <1>7 DEF TokenKept

LEMMA RestartKeepsSession ==
  ASSUME SessionInv, Tokens!Restart
  PROVE  /\ PastTokens' /\ gone' \in SUBSET Session
         /\ \A s \in Session : Live(s)' => TokenKept(s)'
<1>1. /\ memory' = Tokens!Fresh(stored) /\ op' = Tokens!Free
      /\ gone' = IF op.stored /\ op.kind = "issue" THEN gone \cup {op.session} ELSE gone
      /\ UNCHANGED <<time, stored, given>>
  BY DEF Tokens!Restart
<1>2. stored \in Tokens!Auth /\ gone' \in SUBSET Session
  BY <1>1 DEF SessionInv, TokensInv, TokensType
<1>3. op'.kind = "free" /\ op'.stored = FALSE
  BY <1>1 DEF Tokens!Free
<1>4. PastTokens'
  BY <1>1, <1>2, <1>3, FreshKeepsLive DEF SessionInv, PastTokens
<1>5. \A s \in Session : Live(s)' => Live(s) /\ ~(op.kind = "issue" /\ op.stored /\ op.session = s)
  BY <1>1 DEF Live, Tokens!Current
<1>6. \A s \in Session : Live(s)' => given[s] \in stored.refresh
  BY <1>5 DEF SessionInv, TokenKept
<1> QED
  BY <1>1, <1>2, <1>3, <1>4, <1>5, <1>6, FreshKeepsLive DEF TokenKept, Live

LEMMA SessionStep == Tokens!Constants /\ SessionInv /\ [Tokens!Next]_Tokens!vars => SessionInv'
<1> SUFFICES ASSUME Tokens!Constants, SessionInv, [Tokens!Next]_Tokens!vars PROVE SessionInv'
  OBVIOUS
<1>1. TokensInv'
  BY TokensStep DEF SessionInv
<1> DEFINE Goal == PastTokens' /\ gone' \in SUBSET Session
                   /\ \A s \in Session : Live(s)' => TokenKept(s)'
<1>2. ASSUME UNCHANGED <<time, memory, stored, op, given, gone>> PROVE Goal
  BY <1>2 DEF SessionInv, PastTokens, Live, Tokens!Current, TokenKept
<1>3. ASSUME Tokens!Tick PROVE Goal
  <2>1. time' = time + 1 /\ UNCHANGED <<memory, stored, op, given, gone>>
    BY <1>3 DEF Tokens!Tick
  <2>2. time \in Nat /\ RefreshTtl \in Nat
    BY DEF SessionInv, TokensInv, TokensType, Tokens!Constants
  <2>3. /\ \A t \in memory.refresh \cup stored.refresh : t.at \in Nat
        /\ op.kind = "issue" => \A t \in op.saved.refresh : t.at \in Nat
        /\ \A s \in Session : given[s] # NONE => given[s].at \in Nat
    BY DEF SessionInv, TokensInv, TokensType, Tokens!Auth, Tokens!Token
  <2>4. PastTokens'
    BY <2>1, <2>2, <2>3 DEF SessionInv, PastTokens
  <2>5. \A s \in Session : Live(s)' => Live(s)
    BY <2>1, <2>2, <2>3 DEF SessionInv, PastTokens, Live, Tokens!Current
  <2> QED
    BY <2>1, <2>4, <2>5 DEF SessionInv, TokenKept
<1>4. ASSUME NEW s \in Session, Tokens!Exchange(s) \/ Tokens!Refresh(s) PROVE Goal
  BY <1>4, IssueKeepsSession DEF Tokens!Exchange, Tokens!Refresh, SessionInv
<1>5. ASSUME NEW s \in Session, Tokens!Revoke(s) PROVE Goal
  <2>1. gone' \in SUBSET Session
    BY <1>5 DEF Tokens!Revoke, SessionInv
  <2> QED
    BY <1>5, <2>1, RevokeKeepsSession
<1>6. ASSUME NEW k \in Client, Tokens!Register(k) PROVE Goal
  BY <1>6, RegisterKeepsSession DEF Tokens!Register, SessionInv
<1>7. ASSUME Tokens!NotPersisted PROVE Goal
  BY <1>7, NotPersistedKeepsSession DEF Tokens!NotPersisted, SessionInv
<1>8. ASSUME Tokens!Answer PROVE Goal
  BY <1>8, AnswerKeepsSession DEF Tokens!Answer, SessionInv
<1>9. ASSUME NEW s \in Session, Tokens!Authorize(s) PROVE Goal
  BY <1>2, <1>9 DEF Tokens!Authorize
<1>10. ASSUME UNCHANGED Tokens!vars PROVE Goal
  BY <1>2, <1>10 DEF Tokens!vars
<1>11. Goal
  BY <1>3, <1>4, <1>5, <1>6, <1>7, <1>8, <1>9, <1>10, PersistKeepsSession, RestartKeepsSession
     DEF Tokens!Next
<1> QED
  BY <1>1, <1>11 DEF SessionInv

\* auth/tokens.rs: whatever fails, rolls back or restarts, the refresh token a
\* client was last given works until it expires, unless the session was revoked
\* or pushed out, or a crash swallowed the answer that replaced it.
THEOREM SessionsSurvive == HostSpec => []ClientKeepsSession
<1>1. HostInit => SessionInv
  BY HostStarts, SessionStart, HostAssumption
<1>2. SessionInv /\ [HostNext]_hostVars => SessionInv'
  BY HostSteps, SessionStep, HostAssumption
<1>3. SessionInv => ClientKeepsSession
  BY DEF SessionInv, TokenKept, Live, Tokens!Free, ClientKeepsSession, Tokens!ClientKeepsSession
<1> QED
  BY <1>1, <1>2, <1>3, PTL DEF HostSpec

-----------------------------------------------------------------------------
\* The debt of the CPU governor.

\* The governor's instance has finite sets of its own name.
LEMMA SameCount ==
  \A S : (Cpu!IsFiniteSet(S) <=> IsFiniteSet(S)) /\ Cpu!Cardinality(S) = Cardinality(S)
BY DEF Cpu!IsFiniteSet, IsFiniteSet, Cpu!Cardinality, Cardinality

Busy == {w \in Interactive : thread[w] = "working"}

\* What k working threads leave the slots to cost.
Share(k) == MaxCost * (Threads - k)

CpuInv ==
  /\ credit.tokens \in Int /\ credit.tokens <= Burst
  /\ thread \in [Interactive \cup Background -> {"away", "waiting", "ready", "seated", "working"}]
  /\ Cardinality(Cpu!Active) <= Threads
  /\ credit.tokens >= 1 - Debt - Share(Cardinality(Busy))

LEMMA ShareFacts ==
  ASSUME Cpu!Constants, NEW k \in Nat
  PROVE  /\ Share(k) \in Int
         /\ k <= Threads => Share(k) >= 0
         /\ k < Threads => Share(k) >= 1
         /\ Share(k) = Share(k + 1) + MaxCost
<1>1. MaxCost \in Nat /\ Threads \in Nat
  BY DEF Cpu!Constants
<1>2. \A m, n \in Int : m * n \in Int
  OBVIOUS
<1>3. \A m, n \in Nat : m * n >= 0
  OBVIOUS
<1>4. Share(k) = Share(k + 1) + MaxCost
  <2>1. \A m, n \in Int : m * n = m * (n - 1) + m
    OBVIOUS
  <2>2. (Threads - k) - 1 = Threads - (k + 1) /\ Threads - k \in Int
    BY <1>1
  <2> QED
    BY <1>1, <2>1, <2>2 DEF Share
<1>5. /\ k <= Threads => Threads - k \in Nat
      /\ k < Threads => Threads - k \in Nat \ {0}
  BY <1>1
<1>6. \A m, n \in Nat \ {0} : m * n >= 1
  OBVIOUS
<1>7. k < Threads => Share(k) >= 1
  <2>1. MaxCost \in Nat \ {0}
    BY DEF Cpu!Constants
  <2> QED
    BY <1>5, <1>6, <2>1 DEF Share
<1> QED
  BY <1>1, <1>2, <1>3, <1>4, <1>5, <1>7 DEF Share

LEMMA CountFacts ==
  ASSUME Cpu!Constants
  PROVE  /\ IsFiniteSet(Busy) /\ IsFiniteSet(Cpu!Active)
         /\ Cardinality(Busy) \in Nat /\ Cardinality(Busy) <= Cardinality(Cpu!Active)
<1>1. IsFiniteSet(Interactive \cup Background)
  BY SameCount, FS_Union DEF Cpu!Constants
<1>2. IsFiniteSet(Cpu!Active)
  BY <1>1, FS_Subset DEF Cpu!Active, Cpu!Worker
<1>3. Busy \in SUBSET Cpu!Active
  BY DEF Busy, Cpu!Active, Cpu!Worker
<1> QED
  BY <1>2, <1>3, FS_Subset, FS_CardinalityType

LEMMA CpuStart == Cpu!Constants /\ Cpu!Init => CpuInv
<1> SUFFICES ASSUME Cpu!Constants, Cpu!Init PROVE CpuInv
  OBVIOUS
<1>1. Busy = {} /\ Cpu!Active = {}
  BY DEF Cpu!Init, Busy, Cpu!Active, Cpu!Worker
<1>2. Cardinality(Busy) = 0 /\ Cardinality(Cpu!Active) = 0
  BY <1>1, FS_EmptySet
<1>3. Share(0) \in Int /\ Share(0) >= 1
  BY ShareFacts DEF Cpu!Constants
<1>4. credit.tokens = Burst /\ thread = [w \in Cpu!Worker |-> "away"]
  BY DEF Cpu!Init
<1>5. thread \in [Interactive \cup Background -> {"away", "waiting", "ready", "seated", "working"}]
  BY <1>4 DEF Cpu!Worker
<1> QED
  <2>1. Burst \in Nat /\ Debt \in Nat /\ Threads \in Nat
    BY DEF Cpu!Constants
  <2>2. Share(Cardinality(Busy)) = Share(0)
    BY <1>2
  <2>3. credit.tokens >= 1 - Debt - Share(Cardinality(Busy))
    BY <1>3, <1>4, <2>1, <2>2
  <2>4. credit.tokens \in Int /\ credit.tokens <= Burst /\ Cardinality(Cpu!Active) <= Threads
    BY <1>2, <1>4, <2>1
  <2> QED
    BY <1>5, <2>3, <2>4 DEF CpuInv

\* No thread begins to work without credit, and who has paid leaves a share.
LEMMA CpuWork ==
  ASSUME Cpu!Constants, CpuInv, NEW w \in Interactive \cup Background, Cpu!Work(w)
  PROVE  CpuInv'
<1>1. /\ thread' = [thread EXCEPT ![w] = "working"] /\ credit' = credit
      /\ thread[w] = "seated"
  BY DEF Cpu!Work, Cpu!Goes
<1>2. Cpu!Active' = Cpu!Active
  BY <1>1 DEF CpuInv, Cpu!Active, Cpu!Worker
<1>3. thread' \in [Interactive \cup Background -> {"away", "waiting", "ready", "seated", "working"}]
  BY <1>1 DEF CpuInv
<1>4. CASE w \notin Interactive
  <2>1. Busy' = Busy
    BY <1>1, <1>4 DEF CpuInv, Busy
  <2> QED
    BY <1>1, <1>2, <1>3, <2>1 DEF CpuInv, Share
<1>5. CASE w \in Interactive
  <2>1. credit.tokens >= 1 - Debt
    BY <1>5 DEF Cpu!Work, Cpu!HasCredit
  <2>2. Busy' \in SUBSET Cpu!Active'
    BY DEF Busy, Cpu!Active, Cpu!Worker
  <2>3. PICK k \in Nat : k = Cardinality(Busy')
    BY <1>2, <2>2, CountFacts, FS_Subset, FS_CardinalityType
  <2>4. k <= Threads
    BY <1>2, <2>2, <2>3, CountFacts, FS_Subset, FS_CardinalityType DEF CpuInv, Cpu!Constants
  <2>5. Share(k) \in Int /\ Share(k) >= 0
    BY <2>4, ShareFacts
  <2>6. credit.tokens >= 1 - Debt - Share(k)
    BY <2>1, <2>5 DEF CpuInv, Cpu!Constants
  <2> QED
    BY <1>1, <1>2, <1>3, <2>3, <2>6 DEF CpuInv, Share
<1> QED
  BY <1>4, <1>5

LEMMA CpuFinish ==
  ASSUME Cpu!Constants, CpuInv, NEW w \in Interactive \cup Background, Cpu!Finish(w)
  PROVE  CpuInv'
<1>1. thread' = [thread EXCEPT ![w] = "away"] /\ thread[w] = "working"
  BY DEF Cpu!Finish, Cpu!Goes
<1>2. thread' \in [Interactive \cup Background -> {"away", "waiting", "ready", "seated", "working"}]
  BY <1>1 DEF CpuInv
<1>3. Cpu!Active' \in SUBSET Cpu!Active
  BY <1>1 DEF CpuInv, Cpu!Active, Cpu!Worker
<1>4. Cardinality(Cpu!Active') <= Threads
  BY <1>3, CountFacts, FS_Subset, FS_CardinalityType DEF CpuInv, Cpu!Constants
<1>5. PICK cost \in 0..MaxCost :
        credit'.tokens = IF w \in Interactive THEN credit.tokens - cost ELSE credit.tokens
  BY DEF Cpu!Finish
<1>6. CASE w \notin Interactive
  <2>1. Busy' = Busy
    BY <1>1, <1>6 DEF CpuInv, Busy
  <2> QED
    BY <1>2, <1>4, <1>5, <1>6, <2>1 DEF CpuInv, Share
<1>7. CASE w \in Interactive
  <2>1. Busy' = Busy \ {w} /\ w \in Busy
    BY <1>1, <1>7 DEF CpuInv, Busy
  <2>2. PICK k \in Nat : k = Cardinality(Busy')
    BY <2>1, CountFacts, FS_RemoveElement, FS_CardinalityType
  <2>3. Cardinality(Busy) = k + 1
    <3>1. IsFiniteSet(Busy) /\ Cardinality(Busy) \in Nat
      BY CountFacts
    <3>2. Cardinality(Busy \ {w}) = Cardinality(Busy) - 1
      BY <2>1, <3>1, FS_RemoveElement
    <3>3. k = Cardinality(Busy) - 1
      BY <2>1, <2>2, <3>2
    <3> QED
      BY <3>1, <3>3
  <2>4. Share(k) = Share(k + 1) + MaxCost /\ Share(k) \in Int /\ Share(k + 1) \in Int
    BY ShareFacts
  <2>5. credit.tokens >= 1 - Debt - Share(k + 1)
    BY <2>3 DEF CpuInv
  <2>6. credit'.tokens = credit.tokens - cost
    BY <1>5, <1>7
  <2>7. credit'.tokens \in Int /\ credit'.tokens <= Burst /\ credit'.tokens >= 1 - Debt - Share(k)
    BY <2>4, <2>5, <2>6 DEF CpuInv, Cpu!Constants
  <2> QED
    BY <1>2, <1>4, <2>2, <2>7 DEF CpuInv, Share
<1> QED
  BY <1>6, <1>7

LEMMA CpuStep == Cpu!Constants /\ CpuInv /\ [Cpu!Next]_Cpu!vars => CpuInv'
<1> SUFFICES ASSUME Cpu!Constants, CpuInv, [Cpu!Next]_Cpu!vars PROVE CpuInv'
  OBVIOUS
\* A thread that moves between two places outside of the slots, or leaves one.
<1>1. ASSUME NEW w \in Interactive \cup Background, NEW to \in {"waiting", "ready"},
             thread' = [thread EXCEPT ![w] = to], thread[w] # "working", credit' = credit
      PROVE  CpuInv'
  <2>1. thread' \in [Interactive \cup Background -> {"away", "waiting", "ready", "seated", "working"}]
    BY <1>1 DEF CpuInv
  <2>2. Busy' = Busy /\ Cpu!Active' \in SUBSET Cpu!Active
    BY <1>1 DEF CpuInv, Busy, Cpu!Active, Cpu!Worker
  <2>3. Cardinality(Cpu!Active') <= Threads
    BY <2>2, CountFacts, FS_Subset, FS_CardinalityType DEF CpuInv, Cpu!Constants
  <2> QED
    BY <1>1, <2>1, <2>2, <2>3 DEF CpuInv, Share
<1>2. ASSUME NEW w \in Interactive \cup Background, Cpu!GetSlot(w)
      PROVE  CpuInv'
  <2>1. thread' = [thread EXCEPT ![w] = "seated"] /\ thread[w] = "ready" /\ credit' = credit
    BY <1>2 DEF Cpu!GetSlot, Cpu!Goes
  <2>2. thread' \in [Interactive \cup Background -> {"away", "waiting", "ready", "seated", "working"}]
    BY <2>1 DEF CpuInv
  <2>3. Busy' = Busy /\ Cpu!Active' = Cpu!Active \cup {w}
    BY <2>1 DEF CpuInv, Busy, Cpu!Active, Cpu!Worker
  <2>4. Cardinality(Cpu!Active) < Threads
    BY <1>2, SameCount DEF Cpu!GetSlot, Cpu!SlotFree
  <2>5. Cardinality(Cpu!Active') <= Threads
    <3>1. IsFiniteSet(Cpu!Active) /\ Cardinality(Cpu!Active) \in Nat /\ Threads \in Nat
      BY CountFacts, FS_CardinalityType DEF Cpu!Constants
    <3>2. Cardinality(Cpu!Active \cup {w}) <= Cardinality(Cpu!Active) + 1
      BY <3>1, FS_AddElement
    <3>3. Cardinality(Cpu!Active \cup {w}) \in Nat
      BY <3>1, FS_AddElement, FS_CardinalityType
    <3>4. Cardinality(Cpu!Active \cup {w}) <= Threads
      BY <2>4, <3>1, <3>2, <3>3
    <3> QED
      BY <2>3, <3>4
  <2> QED
    BY <2>1, <2>2, <2>3, <2>5 DEF CpuInv, Share
<1>3. CASE Cpu!Refill
  <2>1. /\ thread' = thread
        /\ credit'.tokens = IF credit.tokens < Burst THEN credit.tokens + 1 ELSE Burst
    BY <1>3 DEF Cpu!Refill
  <2>2. Busy' = Busy /\ Cpu!Active' = Cpu!Active
    BY <2>1 DEF Busy, Cpu!Active
  <2>3. Burst \in Int /\ Debt \in Int /\ Share(Cardinality(Busy)) \in Int
    BY CountFacts, ShareFacts DEF Cpu!Constants
  <2>4. /\ credit'.tokens \in Int /\ credit'.tokens <= Burst
        /\ credit'.tokens >= 1 - Debt - Share(Cardinality(Busy))
    BY <2>1, <2>3 DEF CpuInv
  <2> QED
    BY <2>1, <2>2, <2>4 DEF CpuInv, Share
<1>4. CASE UNCHANGED Cpu!vars
  BY <1>4 DEF Cpu!vars, CpuInv, Busy, Share, Cpu!Active
<1>5. ASSUME NEW w \in Interactive \cup Background,
             Cpu!Ask(w) \/ Cpu!GetCredit(w) \/ Cpu!GiveBack(w)
      PROVE  CpuInv'
  BY <1>1, <1>5 DEF Cpu!Ask, Cpu!GetCredit, Cpu!GiveBack, Cpu!Goes
<1> QED
  BY <1>2, <1>3, <1>4, <1>5, CpuWork, CpuFinish DEF Cpu!Next, Cpu!Worker

\* However many threads there are, they do not spend one credit twice
\* (resource.rs).
THEOREM DebtStaysBounded == HostSpec => []DebtBounded
<1>1. HostInit => CpuInv
  BY HostStarts, CpuStart, HostAssumption
<1>2. CpuInv /\ [HostNext]_hostVars => CpuInv'
  BY HostSteps, CpuStep, HostAssumption
<1>3. CpuInv => DebtBounded
  BY SameCount DEF CpuInv, Busy, Share, DebtBounded, Cpu!DebtBounded
<1> QED
  BY <1>1, <1>2, <1>3, PTL DEF HostSpec

-----------------------------------------------------------------------------
\* The snapshots of plans.

LEMMA Greatest ==
  ASSUME NEW N \in Nat, NEW T \in SUBSET (0..N), T # {}
  PROVE  \E x \in T : \A y \in T : y <= x
<1> DEFINE D == {N - x : x \in T}
<1>1. D \subseteq Nat
  <2>1. \A x \in 0..N : N - x \in Nat
    OBVIOUS
  <2> QED
    BY <2>1
<1>2. D # {}
  OBVIOUS
<1>3. PICK d \in D : \A e \in D : ~(<<e, d>> \in OpToRel(<, Nat))
  <2> HIDE DEF D
  <2> QED
    BY <1>1, <1>2, WFMin, NatLessThanWellFounded
<1>4. \A e \in D : ~(e < d)
  BY <1>1, <1>3 DEF OpToRel
<1>5. PICK x \in T : d = N - x
  OBVIOUS
<1>6. ASSUME NEW y \in T PROVE y <= x
  <2>1. ~(N - y < N - x)
    BY <1>4, <1>5
  <2>2. x \in Int /\ y \in Int /\ N \in Int
    OBVIOUS
  <2> QED
    BY <2>1, <2>2
<1> QED
  BY <1>6

States == [line : Nat, version : Nat, change : 0..2, stamp : Nat]

\* The order of the stamps agrees with the order of the states.
Above(s, t) == s.stamp < t.stamp /\ Plans!Older(s, t)

LEMMA OrderFacts ==
  \A r, s, t \in States :
    /\ Plans!Older(r, s) => ~Plans!Older(s, r)
    /\ Above(r, s) /\ Above(s, t) => Above(r, t)
    /\ ~Plans!Older(r, t) /\ Plans!Older(r, s) => ~Plans!Older(s, t)
    /\ Above(r, s) => ~(s.stamp <= r.stamp)
BY DEF States, Above, Plans!Older

PlansType ==
  /\ clock \in 0..MaxClock /\ starts \in 0..MaxStarts
  /\ files \in SUBSET Plans!File
  /\ \A f \in files : f.state.line <= starts
  /\ update \in [Plan -> [at : {"idle", "loaded", "created", "written"}, state : States]]
  /\ known \in [Plan -> States]
  /\ \A p \in Plan : /\ known[p].line <= starts /\ update[p].state.line <= starts
                      /\ update[p].state.version <= MaxStamp

Reads(p) == {f \in files : f.plan = p /\ f.whole}

\* The files of a plan that can be read are a chain, and what is left of it
\* is not older than what is known.
Chain(p) ==
  /\ \A f, g \in Reads(p) : f = g \/ Above(f.state, g.state) \/ Above(g.state, f.state)
  /\ Reads(p) # {} => \E f \in Reads(p) : ~Plans!Older(f.state, known[p])

\* An update is ahead of the chain; when its own file is pushed out, so is the chain.
Ahead(p) ==
  LET s == update[p].state IN
  /\ update[p].at # "idle" => ~Plans!Older(s, known[p])
  /\ update[p].at = "loaded" => \A f \in Reads(p) : f.state = s \/ Above(f.state, s)
  /\ update[p].at = "created" => /\ \A f \in Reads(p) : Above(f.state, s)
                                 /\ Plans!Torn(p, s) \notin files => Reads(p) = {}
  /\ update[p].at = "written" => /\ \A f \in Reads(p) : f = Plans!Whole(p, s) \/ Above(f.state, s)
                                 /\ Plans!Whole(p, s) \notin files => Reads(p) = {}

PlansInv == PlansType /\ \A p \in Plan : Chain(p) /\ Ahead(p)

LEMMA PlansStart == Plans!Constants /\ Plans!Init => PlansInv
BY DEF Plans!Constants, Plans!Init, Plans!Idle, Plans!Zero, PlansInv, PlansType, Chain, Ahead, Reads, States

LEMMA FileFacts ==
  ASSUME Plans!Constants, NEW f \in Plans!File
  PROVE  f.plan \in Plan /\ f.whole \in BOOLEAN /\ f.state \in States
BY DEF Plans!File, Plans!State, States, Plans!Constants

\* A load finds the end of the chain, which is not older than what is known.
LEMMA NewestIsEnd ==
  ASSUME Plans!Constants, PlansInv, NEW p \in Plan
  PROVE  /\ Plans!Newest(p) = NOFILE => Reads(p) = {}
         /\ Plans!Newest(p) # NOFILE =>
              /\ Plans!Newest(p) \in Reads(p)
              /\ ~Plans!Older(Plans!Newest(p).state, known[p])
              /\ \A f \in Reads(p) : f.state = Plans!Newest(p).state
                                       \/ Above(f.state, Plans!Newest(p).state)
<1>1. Plans!Readable(p) = Reads(p)
  BY DEF Plans!Readable, Reads
<1>2. CASE Reads(p) = {}
  BY <1>1, <1>2 DEF Plans!Newest
<1>3. CASE Reads(p) # {}
  <2> DEFINE T == {f.state.stamp : f \in Reads(p)}
             n == Plans!Newest(p)
  <2>1. T \in SUBSET (0..MaxStamp) /\ T # {}
    BY <1>3 DEF Reads, PlansInv, PlansType, Plans!File, Plans!State, Plans!Constants
  <2>2. PICK x \in T : \A y \in T : y <= x
    BY <2>1, Greatest DEF Plans!Constants
  <2>3. \E f \in Reads(p) : \A g \in Reads(p) : g.state.stamp <= f.state.stamp
    BY <2>2
  <2>4. n \in Reads(p) /\ \A g \in Reads(p) : g.state.stamp <= n.state.stamp
    BY <1>1, <1>3, <2>3 DEF Plans!Newest
  <2> HIDE DEF n
  <2>5. \A f \in Reads(p) : f.state \in States /\ f \in Plans!File
    BY FileFacts DEF Reads, PlansInv, PlansType
  <2>6. \A f \in Reads(p) : f = n \/ Above(f.state, n.state)
    BY <2>4, <2>5, OrderFacts DEF PlansInv, Chain
  <2>7. PICK f \in Reads(p) : ~Plans!Older(f.state, known[p])
    BY <1>3 DEF PlansInv, Chain
  <2>8. ~Plans!Older(n.state, known[p])
    BY <2>4, <2>5, <2>6, <2>7, OrderFacts DEF Above, PlansInv, PlansType
  <2> QED
    BY <1>3, <2>4, <2>5, <2>6, <2>8 DEF n, Plans!Constants
<1> QED
  BY <1>2, <1>3

\* What a step that leaves plan q alone keeps of it.
LEMMA PlanFrame ==
  ASSUME Plans!Constants, PlansInv, NEW q \in Plan, Reads(q)' = Reads(q),
         update'[q] = update[q], known'[q] = known[q],
         \A s : Plans!Torn(q, s) \in files => Plans!Torn(q, s) \in files',
         \A s : Plans!Whole(q, s) \in files => Plans!Whole(q, s) \in files'
  PROVE  Chain(q)' /\ Ahead(q)'
<1>1. Chain(q) /\ Ahead(q)
  BY DEF PlansInv
<1>2. Chain(q)'
  BY <1>1 DEF Chain
<1>3. Ahead(q)'
  BY <1>1 DEF Ahead
<1> QED
  BY <1>2, <1>3

LEMMA NewerFacts ==
  ASSUME NEW s \in States, NEW t \in States
  PROVE  /\ Plans!Newer(s, t) \in States
         /\ Plans!Newer(s, t) \in {s, t}
         /\ ~Plans!Older(s, t) => Plans!Newer(s, t) = s
BY DEF Plans!Newer

LEMMA LookKeeps ==
  ASSUME Plans!Constants, PlansInv, NEW p \in Plan, Plans!Look(p)
  PROVE  PlansInv'
<1> DEFINE n == Plans!Newest(p)
<1>1. UNCHANGED <<clock, files, update, starts>> /\ n # NOFILE
  BY DEF Plans!Look
<1>2. /\ n \in Reads(p) /\ ~Plans!Older(n.state, known[p])
      /\ \A f \in Reads(p) : f.state = n.state \/ Above(f.state, n.state)
  BY <1>1, NewestIsEnd
<1>3. n.state \in States /\ n.state.line <= starts
  BY <1>2, FileFacts DEF Reads, PlansInv, PlansType
<1>4. known' = [known EXCEPT ![p] = n.state]
  BY <1>2, <1>3, NewerFacts DEF Plans!Look, PlansInv, PlansType
<1> HIDE DEF n
<1>5. PlansType'
  BY <1>1, <1>3, <1>4 DEF PlansInv, PlansType
<1>6. ASSUME NEW q \in Plan, q # p PROVE Chain(q)' /\ Ahead(q)'
  BY <1>1, <1>4, <1>6, PlanFrame DEF Reads, PlansInv, PlansType
<1>7. known'[p] = n.state /\ Reads(p)' = Reads(p)
  BY <1>1, <1>4 DEF Reads, PlansInv, PlansType
<1>8. Chain(p)'
  <2>1. ~Plans!Older(n.state, n.state)
    BY <1>3, OrderFacts
  <2> QED
    BY <1>2, <1>7, <2>1 DEF Chain, PlansInv
<1>9. Ahead(p)'
  <2>1. update[p].at # "idle" => ~Plans!Older(update[p].state, n.state)
    <3>1. update[p].at # "idle" => n.state = update[p].state \/ Above(n.state, update[p].state)
      <4>1. update[p].at \in {"idle", "loaded", "created", "written"}
        BY DEF PlansInv, PlansType
      <4>2. Plans!Whole(p, update[p].state).state = update[p].state
        BY DEF Plans!Whole
      <4> QED
        BY <1>2, <4>1, <4>2 DEF PlansInv, Ahead
    <3>2. update[p].state \in States
      BY DEF PlansInv, PlansType
    <3> QED
      BY <1>3, <3>1, <3>2, OrderFacts DEF Above
  <2> QED
    BY <1>1, <1>7, <2>1 DEF Ahead, PlansInv
<1> QED
  BY <1>5, <1>6, <1>8, <1>9 DEF PlansInv

LEMMA LoadKeeps ==
  ASSUME Plans!Constants, PlansInv, NEW p \in Plan, Plans!Load(p)
  PROVE  PlansInv'
<1> DEFINE n == Plans!Newest(p)
<1>1. UNCHANGED <<clock, files>>
  BY DEF Plans!Load
<1>2. CASE n # NOFILE
  <2>1. /\ n \in Reads(p) /\ ~Plans!Older(n.state, known[p])
        /\ \A f \in Reads(p) : f.state = n.state \/ Above(f.state, n.state)
    BY <1>2, NewestIsEnd
  <2>2. n.state \in States /\ n.state.line <= starts /\ n.state.version <= MaxStamp
    BY <2>1, FileFacts DEF Reads, PlansInv, PlansType, Plans!File, Plans!State
  <2>3. /\ known' = [known EXCEPT ![p] = n.state] /\ starts' = starts
        /\ update' = [update EXCEPT ![p] = [at |-> "loaded", state |-> n.state]]
    BY <1>2, <2>1, <2>2, NewerFacts DEF Plans!Load, PlansInv, PlansType
  <2> HIDE DEF n
  <2>4. PlansType'
    BY <1>1, <2>2, <2>3 DEF PlansInv, PlansType
  <2>5. ASSUME NEW q \in Plan, q # p PROVE Chain(q)' /\ Ahead(q)'
    BY <1>1, <2>3, <2>5, PlanFrame DEF Reads, PlansInv, PlansType
  <2>6. /\ known'[p] = n.state /\ Reads(p)' = Reads(p)
        /\ update'[p].at = "loaded" /\ update'[p].state = n.state
    BY <1>1, <2>3 DEF Reads, PlansInv, PlansType
  <2>7. ~Plans!Older(n.state, n.state)
    BY <2>2, OrderFacts
  <2>8. Chain(p)' /\ Ahead(p)'
    BY <2>1, <2>6, <2>7 DEF Chain, Ahead, PlansInv
  <2> QED
    BY <2>4, <2>5, <2>8 DEF PlansInv
<1>3. CASE n = NOFILE
  <2>1. Reads(p) = {}
    BY <1>3, NewestIsEnd
  <2> DEFINE m == starts + 1
             s == [line |-> m, version |-> 0, change |-> 0, stamp |-> clock]
  <2>2. /\ starts < MaxStarts /\ starts' = m /\ known' = known
        /\ update' = [update EXCEPT ![p] = [at |-> "loaded", state |-> s]]
    BY <1>3 DEF Plans!Load, Plans!Zero
  <2>3. m \in 0..MaxStarts /\ starts < m /\ m \in Nat
    BY <2>2 DEF PlansInv, PlansType, Plans!Constants
  <2>4. s \in States /\ s.line = m /\ s.version = 0
    BY <2>3 DEF States, PlansInv, PlansType, Plans!Constants
  <2>5. known[p].line < m
    BY <2>3 DEF PlansInv, PlansType, States, Plans!Constants
  <2> HIDE DEF m, s
  <2>6. ~Plans!Older(s, known[p])
    BY <2>3, <2>4, <2>5 DEF Plans!Older, PlansInv, PlansType, States
  <2>7. PlansType'
    <3>1. \A k \in Nat : k <= starts => k <= m
      BY <2>3 DEF PlansInv, PlansType
    <3>2. \A f \in files : f.state.line \in Nat
      BY FileFacts DEF PlansInv, PlansType, States
    <3>3. \A q \in Plan : known[q].line \in Nat /\ update[q].state.line \in Nat
      BY DEF PlansInv, PlansType, States
    <3>4. update' \in [Plan -> [at : {"idle", "loaded", "created", "written"}, state : States]]
      BY <2>2, <2>4 DEF PlansInv, PlansType
    <3>5. \A q \in Plan : /\ known'[q].line <= m /\ update'[q].state.line <= m
                          /\ update'[q].state.version <= MaxStamp
      BY <2>2, <2>3, <2>4, <3>1, <3>3 DEF PlansInv, PlansType, Plans!Constants
    <3> QED
      BY <1>1, <2>2, <2>3, <3>1, <3>2, <3>4, <3>5 DEF PlansInv, PlansType
  <2>8. ASSUME NEW q \in Plan, q # p PROVE Chain(q)' /\ Ahead(q)'
    BY <1>1, <2>2, <2>8, PlanFrame DEF Reads, PlansInv, PlansType
  <2>9. Reads(p)' = {} /\ known'[p] = known[p] /\ update'[p].at = "loaded" /\ update'[p].state = s
    BY <1>1, <2>1, <2>2 DEF Reads, PlansInv, PlansType
  <2>10. Chain(p)' /\ Ahead(p)'
    BY <2>6, <2>9 DEF Chain, Ahead
  <2> QED
    BY <2>7, <2>8, <2>10 DEF PlansInv
<1> QED
  BY <1>2, <1>3

LEMMA CreateKeepsPlans ==
  ASSUME Plans!Constants, PlansInv, NEW p \in Plan, Plans!Create(p)
  PROVE  PlansInv'
<1> DEFINE u == update[p].state
<1>1. UNCHANGED <<clock, starts, known>> /\ update[p].at = "loaded"
  BY DEF Plans!Create
<1>2. PICK change \in 1..2 :
        LET s == Plans!Changed(u, change) IN
        IF Plans!Torn(p, s) \in files \/ Plans!Whole(p, s) \in files
          THEN update' = [update EXCEPT ![p] = Plans!Idle] /\ UNCHANGED files
          ELSE /\ files' = files \cup {Plans!Torn(p, s)}
               /\ update' = [update EXCEPT ![p] = [at |-> "created", state |-> s]]
  BY DEF Plans!Create
<1> DEFINE s == Plans!Changed(u, change)
<1>3. u \in States /\ u.line <= starts /\ u.version < MaxStamp /\ Plans!Touch(u.stamp) <= MaxStamp
  BY DEF Plans!Create, PlansInv, PlansType
<1>4. /\ s \in States /\ s.line = u.line /\ s.version = u.version + 1
      /\ s.stamp = Plans!Touch(u.stamp)
  <2> DEFINE v == u.version + 1
             t == Plans!Touch(u.stamp)
  <2>1. v \in Nat /\ t \in Nat
    BY <1>3 DEF States, Plans!Touch, PlansInv, PlansType, Plans!Constants
  <2>2. s = [u EXCEPT !.version = v, !.change = change, !.stamp = t]
    BY DEF Plans!Changed
  <2> HIDE DEF v, t, u, s
  <2>3. s \in States /\ s.line = u.line /\ s.version = v /\ s.stamp = t
    <3>1. PICK c \in 0..2 : c = change
      OBVIOUS
    <3>2. s = [u EXCEPT !.version = v, !.change = c, !.stamp = t]
      BY <2>2, <3>1
    <3>3. s = [line |-> u.line, version |-> v, change |-> c, stamp |-> t]
      BY <1>3, <3>2 DEF States
    <3>4. u.line \in Nat
      BY <1>3 DEF States
    <3> QED
      BY <2>1, <3>3, <3>4 DEF States
  <2> QED
    BY <2>3 DEF v, t
<1>5. Above(u, s)
  BY <1>3, <1>4 DEF Above, Plans!Older, States, Plans!Touch, PlansInv, PlansType, Plans!Constants
<1>6. ~Plans!Older(s, known[p]) /\ Plans!Older(u, s)
  BY <1>1, <1>3, <1>4, <1>5, OrderFacts DEF Above, PlansInv, PlansType, Ahead
<1> HIDE DEF u, s
<1>7. CASE update' = [update EXCEPT ![p] = Plans!Idle] /\ UNCHANGED files
  <2>1. PlansType'
    BY <1>1, <1>7 DEF PlansInv, PlansType, Plans!Idle, Plans!Zero, States, Plans!Constants
  <2>2. ASSUME NEW q \in Plan, q # p PROVE Chain(q)' /\ Ahead(q)'
    BY <1>1, <1>7, <2>2, PlanFrame DEF Reads, PlansInv, PlansType
  <2>3. Reads(p)' = Reads(p) /\ known'[p] = known[p] /\ update'[p].at = "idle"
    BY <1>1, <1>7 DEF Reads, PlansInv, PlansType, Plans!Idle
  <2>4. Chain(p)' /\ Ahead(p)'
    BY <2>3 DEF Chain, Ahead, PlansInv
  <2> QED
    BY <2>1, <2>2, <2>4 DEF PlansInv
<1>8. CASE /\ files' = files \cup {Plans!Torn(p, s)}
           /\ update' = [update EXCEPT ![p] = [at |-> "created", state |-> s]]
  <2> DEFINE t == Plans!Torn(p, s)
  <2>1. t \in Plans!File /\ t.state = s /\ t.whole = FALSE /\ t.plan = p
    BY <1>3, <1>4 DEF Plans!Torn, Plans!File, Plans!State, States, PlansInv, PlansType, Plans!Constants
  <2>2. \A q \in Plan : Reads(q)' = Reads(q)
    BY <1>8, <2>1 DEF Reads
  <2> HIDE DEF t
  <2>3. s.version <= MaxStamp
    BY <1>3, <1>4 DEF States, Plans!Constants
  <2>4. PlansType'
    BY <1>1, <1>3, <1>4, <1>8, <2>1, <2>3 DEF t, PlansInv, PlansType
  <2>5. ASSUME NEW q \in Plan, q # p PROVE Chain(q)' /\ Ahead(q)'
    BY <1>1, <1>8, <2>2, <2>5, PlanFrame DEF PlansInv, PlansType
  <2>6. known'[p] = known[p] /\ update'[p].at = "created" /\ update'[p].state = s
    BY <1>1, <1>8 DEF PlansInv, PlansType
  <2>7. \A f \in Reads(p) : Above(f.state, s)
    <3>1. \A f \in Reads(p) : f.state = u \/ Above(f.state, u)
      BY <1>1 DEF u, PlansInv, Ahead
    <3>2. \A f \in Reads(p) : f.state \in States
      BY FileFacts DEF Reads, PlansInv, PlansType
    <3> QED
      BY <1>3, <1>4, <1>5, <3>1, <3>2, OrderFacts
  <2>8. Chain(p)' /\ Ahead(p)'
    BY <1>6, <1>8, <2>2, <2>6, <2>7 DEF Chain, Ahead, PlansInv
  <2> QED
    BY <2>4, <2>5, <2>8 DEF PlansInv
<1> QED
  BY <1>2, <1>7, <1>8 DEF s

LEMMA WriteKeeps ==
  ASSUME Plans!Constants, PlansInv, NEW p \in Plan, Plans!Write(p)
  PROVE  PlansInv'
<1> DEFINE s == update[p].state
           t == Plans!Torn(p, s)
           w == Plans!Whole(p, s)
<1>1. /\ UNCHANGED <<clock, starts, known>> /\ update[p].at = "created"
      /\ update' = [update EXCEPT ![p].at = "written"]
      /\ files' = {IF f = t THEN Plans!Whole(p, f.state) ELSE f : f \in files}
  BY DEF Plans!Write
<1>2. s \in States /\ s.line <= starts
  BY DEF PlansInv, PlansType
<1>3. /\ t.state = s /\ t.plan = p /\ t.whole = FALSE
      /\ w.state = s /\ w.plan = p /\ w.whole = TRUE
  BY DEF Plans!Torn, Plans!Whole
<1>4. /\ \A f \in files : f # t => f \in files'
      /\ \A f \in files' : f \in files \/ (f = w /\ t \in files)
      /\ t \in files => w \in files'
  BY <1>1, <1>3
<1>5. t \in files => w \in Plans!File /\ s.line <= starts
  BY <1>2, <1>3 DEF Plans!Whole, Plans!Torn, Plans!File, PlansInv, PlansType
<1>6. /\ update'[p].at = "written" /\ update'[p].state = s /\ known'[p] = known[p]
      /\ \A q \in Plan : q # p => update'[q] = update[q]
      /\ \A q \in Plan : update'[q].state = update[q].state
      /\ update' \in [Plan -> [at : {"idle", "loaded", "created", "written"}, state : States]]
  BY <1>1 DEF PlansInv, PlansType
<1>7. /\ \A f \in Reads(p) : Above(f.state, s)
      /\ t \notin files => Reads(p) = {}
      /\ ~Plans!Older(s, known[p])
  BY <1>1 DEF PlansInv, Ahead
<1> HIDE DEF s, t, w
<1>8. PlansType'
  BY <1>1, <1>3, <1>4, <1>5, <1>6 DEF PlansInv, PlansType
<1>9. ASSUME NEW q \in Plan, q # p PROVE Chain(q)' /\ Ahead(q)'
  <2>1. Reads(q)' = Reads(q)
    BY <1>3, <1>4, <1>9 DEF Reads
  <2>2. \A v : Plans!Torn(q, v).plan = q /\ Plans!Whole(q, v).plan = q
    BY DEF Plans!Torn, Plans!Whole
  <2> QED
    BY <1>1, <1>3, <1>4, <1>6, <1>9, <2>1, <2>2, PlanFrame
<1>10. Reads(p)' = IF t \in files THEN Reads(p) \cup {w} ELSE {}
  <2>1. CASE t \in files
    BY <1>3, <1>4, <2>1 DEF Reads
  <2>2. CASE t \notin files
    BY <1>4, <1>7, <2>2 DEF Reads
  <2> QED
    BY <2>1, <2>2
<1>11. Chain(p)'
  BY <1>3, <1>6, <1>7, <1>10 DEF Chain, PlansInv
<1>12. Ahead(p)'
  <2>1. \A f \in Reads(p)' : f = w \/ Above(f.state, s)
    BY <1>7, <1>10
  <2>2. w \notin files' => Reads(p)' = {}
    BY <1>4, <1>10
  <2> QED
    BY <1>6, <1>7, <2>1, <2>2 DEF Ahead, w
<1> QED
  BY <1>8, <1>9, <1>11, <1>12 DEF PlansInv

LEMMA PruneKeeps ==
  ASSUME Plans!Constants, PlansInv, NEW p \in Plan, Plans!Prune(p)
  PROVE  PlansInv'
<1> DEFINE s == update[p].state
           w == Plans!Whole(p, s)
<1>1. /\ UNCHANGED <<clock, starts>> /\ update[p].at = "written"
      /\ update' = [update EXCEPT ![p] = Plans!Idle]
      /\ known' = [known EXCEPT ![p] = Plans!Newer(s, @)]
  BY DEF Plans!Prune
<1>2. PICK out \in SUBSET files :
        /\ \A f \in out, g \in files \ out : f.state.stamp <= g.state.stamp
        /\ files' = files \ out
  BY DEF Plans!Prune
<1>3. s \in States /\ s.line <= starts /\ ~Plans!Older(s, known[p])
  BY <1>1 DEF PlansInv, PlansType, Ahead
<1>4. known' = [known EXCEPT ![p] = s]
  BY <1>1, <1>3, NewerFacts DEF PlansInv, PlansType
<1>5. w.state = s /\ w.plan = p /\ w.whole = TRUE
  BY DEF Plans!Whole
<1>6. /\ \A f \in Reads(p) : f = w \/ Above(f.state, s)
      /\ w \notin files => Reads(p) = {}
  BY <1>1 DEF PlansInv, Ahead
<1> HIDE DEF s, w
<1>7. PlansType'
  BY <1>1, <1>2, <1>3, <1>4 DEF PlansInv, PlansType, Plans!Idle, Plans!Zero, States, Plans!Constants
<1>8. \A q \in Plan : Reads(q)' = Reads(q) \ out
  BY <1>2 DEF Reads
<1>9. \A f \in files : f.state \in States
  BY FileFacts DEF PlansInv, PlansType
<1>10. \A f \in files : f \in files' \/ \A g \in files' : ~Above(g.state, f.state)
  BY <1>2, <1>9, OrderFacts
<1>11. ASSUME NEW q \in Plan
       PROVE  \A f, g \in Reads(q)' : f = g \/ Above(f.state, g.state) \/ Above(g.state, f.state)
  BY <1>8 DEF PlansInv, Chain
<1>12. ASSUME NEW q \in Plan, q # p PROVE Chain(q)'
  <2>1. known'[q] = known[q] /\ known[q] \in States
    BY <1>4, <1>12 DEF PlansInv, PlansType
  <2>2. ASSUME NEW g \in Reads(q)' PROVE \E f \in Reads(q)' : ~Plans!Older(f.state, known[q])
    <3>1. g \in Reads(q) /\ g \in files' /\ g \in files
      BY <1>2, <1>8 DEF Reads
    <3>2. PICK f \in Reads(q) : ~Plans!Older(f.state, known[q])
      BY <3>1 DEF PlansInv, Chain
    <3>3. CASE f \in files'
      BY <1>2, <1>8, <3>2, <3>3
    <3>4. CASE f \notin files'
      <4>1. f \in files /\ f.state \in States /\ g.state \in States
        BY <1>9, <3>1 DEF Reads
      <4>2. Above(f.state, g.state)
        BY <1>10, <3>1, <3>4, <4>1 DEF PlansInv, Chain
      <4>3. ~Plans!Older(g.state, known[q])
        BY <2>1, <3>2, <4>1, <4>2, OrderFacts DEF Above
      <4> QED
        BY <4>3
    <3> QED
      BY <3>3, <3>4
  <2>3. Reads(q)' # {} => \E f \in Reads(q)' : ~Plans!Older(f.state, known'[q])
    BY <2>1, <2>2
  <2> QED
    BY <1>11, <2>3 DEF Chain
<1>13. ASSUME NEW q \in Plan, q # p PROVE Ahead(q)'
  <2> DEFINE v == update[q].state
             tv == Plans!Torn(q, v)
             wv == Plans!Whole(q, v)
  <2>1. update'[q] = update[q] /\ known'[q] = known[q]
    BY <1>1, <1>4, <1>13 DEF PlansInv, PlansType
  <2>2. Ahead(q)
    BY DEF PlansInv
  <2>3. tv.state = v /\ wv.state = v
    BY DEF Plans!Torn, Plans!Whole
  <2>4. \A g \in Reads(q)' : g \in Reads(q) /\ g \in files'
    BY <1>2, <1>8 DEF Reads
  <2>5. ASSUME update[q].at = "created", tv \notin files' PROVE Reads(q)' = {}
    BY <1>10, <2>2, <2>3, <2>4, <2>5 DEF Ahead
  <2>6. ASSUME update[q].at = "written", wv \notin files' PROVE Reads(q)' = {}
    BY <1>10, <2>2, <2>3, <2>4, <2>6 DEF Ahead
  <2> QED
    BY <2>1, <2>2, <2>4, <2>5, <2>6 DEF Ahead
<1>14. known'[p] = s /\ update'[p].at = "idle"
  BY <1>1, <1>4 DEF PlansInv, PlansType, Plans!Idle
<1>15. Chain(p)' /\ Ahead(p)'
  <2>1. ASSUME NEW g \in Reads(p)' PROVE w \in Reads(p)'
    <3>1. g \in Reads(p) /\ g \in files' /\ w \in files
      BY <1>2, <1>6, <1>8 DEF Reads
    <3>2. w \in files'
      BY <1>5, <1>6, <1>10, <3>1
    <3> QED
      BY <1>5, <3>2 DEF Reads
  <2>2. ~Plans!Older(s, s)
    BY <1>3, OrderFacts
  <2>3. Reads(p)' # {} => \E f \in Reads(p)' : ~Plans!Older(f.state, known'[p])
    BY <1>5, <1>14, <2>1, <2>2
  <2>4. Chain(p)'
    BY <1>11, <2>3 DEF Chain
  <2>5. Ahead(p)'
    BY <1>14 DEF Ahead
  <2> QED
    BY <2>4, <2>5
<1> QED
  BY <1>7, <1>12, <1>13, <1>15 DEF PlansInv

LEMMA PlansStep == Plans!Constants /\ PlansInv /\ [Plans!Next]_Plans!vars => PlansInv'
<1> SUFFICES ASSUME Plans!Constants, PlansInv, [Plans!Next]_Plans!vars PROVE PlansInv'
  OBVIOUS
\* Updates that end without an acknowledgement, and the clock.
<1>1. ASSUME UNCHANGED <<files, starts, known>>, clock' \in 0..MaxClock,
             update' \in [Plan -> [at : {"idle", "loaded", "created", "written"}, state : States]],
             \A q \in Plan : update'[q] = update[q] \/ update'[q] = Plans!Idle
      PROVE  PlansInv'
  <2>1. PlansType'
    BY <1>1 DEF PlansInv, PlansType, Plans!Idle, Plans!Zero, Plans!Constants
  <2>2. ASSUME NEW q \in Plan PROVE Chain(q)' /\ Ahead(q)'
    <3>1. CASE update'[q] = update[q]
      BY <1>1, <3>1, PlanFrame DEF Reads
    <3>2. CASE update'[q] = Plans!Idle
      <4>1. Chain(q)'
        BY <1>1 DEF PlansInv, Chain, Reads
      <4>2. Ahead(q)'
        BY <3>2 DEF Ahead, Plans!Idle
      <4> QED
        BY <4>1, <4>2
    <3> QED
      BY <1>1, <3>1, <3>2
  <2> QED
    BY <2>1, <2>2 DEF PlansInv
<1>2. Plans!Idle \in [at : {"idle", "loaded", "created", "written"}, state : States]
  BY DEF Plans!Idle, Plans!Zero, States
<1>3. ASSUME NEW p \in Plan, Plans!Fail(p) PROVE PlansInv'
  BY <1>1, <1>2, <1>3 DEF Plans!Fail, PlansInv, PlansType
<1>4. CASE Plans!Crash
  BY <1>1, <1>2, <1>4 DEF Plans!Crash, PlansInv, PlansType
<1>5. CASE Plans!SetClock
  BY <1>1, <1>5 DEF Plans!SetClock, PlansInv, PlansType
<1>6. CASE UNCHANGED Plans!vars
  BY <1>1, <1>6 DEF Plans!vars, PlansInv, PlansType
<1> QED
  BY <1>3, <1>4, <1>5, <1>6, LookKeeps, LoadKeeps, CreateKeepsPlans, WriteKeeps, PruneKeeps DEF Plans!Next

\* What a load of a plan returns is never older than what was loaded or stored
\* before, whatever is torn, pushed out or stamped late (execution_store.rs).
THEOREM PlansGoForward == HostSpec => []LoadsNeverGoBack
<1>1. HostInit => PlansInv
  BY HostStarts, PlansStart, HostAssumption
<1>2. PlansInv /\ [HostNext]_hostVars => PlansInv'
  BY HostSteps, PlansStep, HostAssumption
<1>3. PlansInv => LoadsNeverGoBack
  BY NewestIsEnd, HostAssumption DEF LoadsNeverGoBack, Plans!LoadsNeverGoBack
<1> QED
  BY <1>1, <1>2, <1>3, PTL DEF HostSpec

-----------------------------------------------------------------------------
\* The public endpoints.

Named(u, e) == [url |-> u, epoch |-> e]
\* The registration of an address is on its way to the loop.
OnItsWay(u) == registry[u] # 0 /\ Net!Coming(u, registry[u])
Holds(u) == u \in retained \/ \E t \in tunnels : t.url = u

NetType == Owners \in [Url -> Provider] /\ HERE \notin Url /\ MaxEpoch \in Nat /\ MaxLease \in Nat
           /\ MaxStarting \in Nat /\ Net!TypeOK

\* A tunnel has the epoch it was adopted under, and an adopted one is not on its way.
TunnelsAdopted ==
  /\ \A t \in tunnels : epochs[t.url] = t.epoch /\ t.url \notin retained
  /\ \A u \in Url : Holds(u) => registry[u] # 0
  /\ \A u \in Url : Named(u, epochs[u]) \notin coming

\* What the loop knows while it waits.
LoopKnows ==
  /\ loop.at = "adopting" => /\ OnItsWay(loop.url)
                             /\ Named(loop.url, loop.epoch) \notin coming
  /\ loop.at \in {"recycling", "recycled", "burying", "buried"} =>
       \A t \in tunnels : t.url # loop.url
  /\ loop.at = "recycled" => loop.url \notin retained
  /\ loop.at \in {"burying", "buried"} => (loop.keep <=> loop.url \in retained)

Watched == \A u \in Url : Net!AddressWatched(u)
Owned == \A u \in Url : Net!AddressOwned(u)
Remembered == \A p \in Provider : Net!ProviderRemembered(p)

NetShape == NetType /\ TunnelsAdopted /\ LoopKnows
NetInv == NetShape /\ Watched /\ Owned /\ Remembered

LEMMA NetStart == Net!Constants /\ Net!Init => NetInv
BY DEF Net!Constants, Net!Init, Net!NoLease, Net!Verified, Net!Checked, Net!Idle, Net!TypeOK, Net!Tunnel, Net!Probe, Net!Lease, NetInv, NetShape, NetType,
       TunnelsAdopted, LoopKnows, Holds, Watched, Owned, Remembered, Net!AddressWatched, Net!AddressOwned,
       Net!ProviderRemembered

LEMMA LoopTyped ==
  ASSUME NetType
  PROVE  /\ loop.at = "adopting" => loop.url \in Url /\ loop.epoch \in Net!Epoch /\ ~loop.keep
         /\ loop.at \in {"recycling", "recycled", "burying", "buried"} =>
              /\ loop.url \in Url /\ loop.epoch = 0 /\ loop.keep \in BOOLEAN
              /\ loop = Net!At(loop.at, loop.url, 0, loop.keep)
         /\ loop.at \notin {"adopting", "recycling", "recycled", "burying", "buried"} => loop.epoch = 0
<1>1. CASE loop = Net!Idle
  BY <1>1 DEF Net!Idle
<1>2. CASE loop = [Net!Idle EXCEPT !.at = "maintaining"]
  BY <1>2 DEF Net!Idle
<1>3. CASE loop \in [at : {"adopting"}, url : Url, epoch : Net!Epoch, keep : {FALSE}]
  BY <1>3
<1>4. CASE loop \in [at : {"recycling", "recycled", "burying", "buried"},
                    url : Url, epoch : {0}, keep : BOOLEAN]
  BY <1>4 DEF Net!At
<1> QED
  BY <1>1, <1>2, <1>3, <1>4 DEF NetType, Net!TypeOK

\* The address that is displayed is one the loop has, so that it is registered.
LEMMA DisplayKeeps ==
  ASSUME NetShape, Net!Refresh
  PROVE  registry' = registry /\ primary' \in Url \cup {HERE}
<1>1. PICK live \in SUBSET {u \in Url : Net!Eligible(u)} : \E next \in Net!Displayed(live) :
        /\ primary' = next
        /\ IF next = primary \/ next = HERE \/ registry[next] # 0
           THEN registry' = registry
           ELSE /\ Net!FreeEpochs(next) # {}
                /\ registry' = [registry EXCEPT ![next] = Net!AnyOf(Net!FreeEpochs(next))]
  BY DEF Net!Refresh
<1>2. PICK next \in Net!Displayed(live) :
        /\ primary' = next
        /\ IF next = primary \/ next = HERE \/ registry[next] # 0
           THEN registry' = registry
           ELSE /\ Net!FreeEpochs(next) # {}
                /\ registry' = [registry EXCEPT ![next] = Net!AnyOf(Net!FreeEpochs(next))]
  BY <1>1
<1>3. next = HERE \/ next \in retained \/ next \in {t.url : t \in tunnels}
  BY DEF Net!Displayed
<1>4. next = HERE \/ (next \in Url /\ Holds(next))
  BY <1>3 DEF NetShape, NetType, Net!TypeOK, Net!Tunnel, Holds
<1>5. next = HERE \/ registry[next] # 0
  BY <1>4 DEF NetShape, TunnelsAdopted
<1> QED
  BY <1>2, <1>4, <1>5

\* An epoch nothing carries.
LEMMA FreeEpoch ==
  ASSUME NEW u \in Url, Net!FreeEpochs(u) # {}, NEW e, e = Net!AnyOf(Net!FreeEpochs(u))
  PROVE  /\ e \in Net!Epoch /\ e # epochs[u] /\ e # loop.epoch
         /\ Named(u, e) \notin coming
BY DEF Net!AnyOf, Net!FreeEpochs, Named

LEMMA FreeLease ==
  ASSUME NEW u \in Url, Net!FreeLeases(u) # {}
  PROVE  Net!AnyOf(Net!FreeLeases(u)) \in 1..MaxLease
BY DEF Net!AnyOf, Net!FreeLeases

\* A worker publishes: the registration it replaces may lose its owner, the new
\* one is on its way.
LEMMA PublishKeeps ==
  ASSUME NetInv, NEW u \in Url, Net!Publish(u),
         UNCHANGED <<failed, tunnels, epochs, leases, retained, pending, probes, loop>>,
         \/ starting' = starting /\ first' = first \ {Owners[u]}
         \/ starting' = [starting EXCEPT ![Owners[u]] = @ - 1] /\ first' = first /\ starting[Owners[u]] > 0,
         primary' \in Url \cup {HERE}
  PROVE  NetInv'
<1> DEFINE e == Net!AnyOf(Net!FreeEpochs(u))
<1>1. /\ e \in Net!Epoch /\ e # epochs[u] /\ e # loop.epoch
      /\ registry' = [registry EXCEPT ![u] = e]
      /\ coming' = coming \cup {Named(u, e)}
  BY FreeEpoch DEF Net!Publish, Named
<1> HIDE DEF e
<1>t. NetType
  BY DEF NetInv, NetShape
<1>e. e # 0 /\ e \in 1..MaxEpoch
  BY <1>1, <1>t DEF Net!Epoch, NetType
<1>2. NetType'
  <2>1. registry' \in [Url -> 0..MaxEpoch] /\ coming' \subseteq Net!Tunnel
    BY <1>1, <1>e, <1>t DEF NetType, Net!TypeOK, Net!Tunnel, Named
  <2>2. starting' \in [Provider -> 0..MaxStarting] /\ first' \subseteq Provider
    BY <1>t DEF NetType, Net!TypeOK
  <2> QED
    BY <2>1, <2>2, <1>t DEF NetType, Net!TypeOK
<1>3. registry'[u] = e /\ \A v \in Url : v # u => registry'[v] = registry[v]
  BY <1>1, <1>t DEF NetType, Net!TypeOK
<1>5. OnItsWay(u)'
  BY <1>1, <1>3, <1>e DEF OnItsWay, Net!Coming, Named
<1>4. \A v \in Url : OnItsWay(v) => OnItsWay(v)'
  BY <1>1, <1>3, <1>5 DEF OnItsWay, Net!Coming
<1>6. TunnelsAdopted'
  BY <1>1, <1>3, <1>e DEF NetInv, NetShape, TunnelsAdopted, Holds, Named
<1>7. LoopKnows'
  <2>1. loop.at = "adopting" => loop.url \in Url
    BY <1>t, LoopTyped
  <2> QED
    BY <2>1, <1>1, <1>3, <1>4 DEF NetInv, NetShape, LoopKnows, Named
<1>8. Watched'
  BY DEF NetInv, Watched, Net!AddressWatched
<1>9. Owned'
  <2> SUFFICES ASSUME NEW v \in Url, registry'[v] # 0 PROVE Net!AddressOwned(v)'
    BY DEF Owned, Net!AddressOwned
  <2>1. CASE v = u
    BY <2>1, <1>5 DEF Net!AddressOwned, OnItsWay
  <2>2. CASE v # u
    BY <2>2, <1>3, <1>4 DEF NetInv, Owned, Net!AddressOwned, Net!Leaving, OnItsWay
  <2> QED
    BY <2>1, <2>2
<1>10. Remembered'
  <2> SUFFICES ASSUME NEW p \in Provider PROVE Net!ProviderRemembered(p)'
    BY DEF Remembered
  <2>1. CASE p = Owners[u]
    BY <2>1, <1>3, <1>5, <1>e DEF Net!ProviderRemembered, OnItsWay
  <2>2. CASE p # Owners[u]
    <3>1. starting'[p] = starting[p] /\ (p \in first => p \in first')
      BY <2>2, <1>t DEF NetType, Net!TypeOK
    <3> QED
      BY <3>1, <1>4 DEF NetInv, Remembered, Net!ProviderRemembered, Net!HasTunnel, OnItsWay
  <2> QED
    BY <2>1, <2>2
<1> QED
  BY <1>2, <1>6, <1>7, <1>8, <1>9, <1>10 DEF NetInv, NetShape

LEMMA TakeConnectedKeeps ==
  ASSUME NetInv, NEW t \in coming, Net!TakeConnected(t)
  PROVE  NetInv'
<1> DEFINE u == t.url
<1>t. NetType /\ u \in Url /\ t.epoch \in Net!Epoch /\ t = Named(u, t.epoch)
  BY DEF NetInv, NetShape, NetType, Net!TypeOK, Net!Tunnel, Named
<1>1. /\ loop = Net!Idle /\ loop.at = "idle"
      /\ coming' = coming \ {t}
      /\ UNCHANGED <<registry, primary, first, starting, failed, tunnels, epochs, leases,
                     retained, pending, probes>>
  BY DEF Net!TakeConnected, Net!Idle
<1>2. \/ registry[u] = t.epoch /\ loop' = Net!At("adopting", u, t.epoch, FALSE)
      \/ registry[u] # t.epoch /\ loop' = loop
  BY <1>1 DEF Net!TakeConnected
<1> HIDE DEF u
<1>3. NetType'
  <2>1. Net!At("adopting", u, t.epoch, FALSE)
          \in [at : {"adopting"}, url : Url, epoch : Net!Epoch, keep : {FALSE}]
    BY <1>t DEF Net!At
  <2> QED
    BY <1>1, <1>2, <2>1, <1>t DEF NetType, Net!TypeOK
<1>4. \A v \in Url : OnItsWay(v) => OnItsWay(v)'
  BY <1>1, <1>2, <1>t DEF OnItsWay, Net!Coming, Net!At, Named
<1>5. TunnelsAdopted'
  BY <1>1 DEF NetInv, NetShape, TunnelsAdopted, Holds
<1>6. LoopKnows'
  <2>1. CASE registry[u] = t.epoch /\ loop' = Net!At("adopting", u, t.epoch, FALSE)
    <3>1. OnItsWay(u)'
      BY <1>1, <2>1, <1>t DEF OnItsWay, Net!Coming, Net!At, Net!Epoch
    <3>2. Named(u, t.epoch) \notin coming'
      BY <1>1, <1>t
    <3> QED
      BY <3>1, <3>2, <2>1 DEF LoopKnows, Net!At
  <2>2. CASE loop' = loop
    BY <1>1, <2>2 DEF LoopKnows
  <2> QED
    BY <1>2, <2>1, <2>2
<1>7. Watched'
  BY <1>1 DEF NetInv, Watched, Net!AddressWatched
<1>8. Owned'
  BY <1>1, <1>4 DEF NetInv, Owned, Net!AddressOwned, OnItsWay, Net!Leaving
<1>9. Remembered'
  BY <1>1, <1>4 DEF NetInv, Remembered, Net!ProviderRemembered, Net!HasTunnel, OnItsWay
<1> QED
  BY <1>3, <1>5, <1>6, <1>7, <1>8, <1>9 DEF NetInv, NetShape

LEMMA StopPreviousKeeps ==
  ASSUME NetInv, NEW t \in tunnels, Net!StopPrevious(t)
  PROVE  NetInv'
<1>t. NetType
  BY DEF NetInv, NetShape
<1>1. /\ loop.at = "adopting" /\ t.url = loop.url /\ loop.url \in Url
      /\ tunnels' = tunnels \ {t}
      /\ UNCHANGED <<registry, primary, first, starting, failed, coming, epochs, leases,
                     retained, pending, probes, loop>>
  BY <1>t, LoopTyped DEF Net!StopPrevious
<1>2. OnItsWay(loop.url)
  BY <1>1 DEF NetInv, NetShape, LoopKnows
<1>3. NetType'
  BY <1>1, <1>t DEF NetType, Net!TypeOK
<1>4. TunnelsAdopted' /\ LoopKnows'
  BY <1>1 DEF NetInv, NetShape, TunnelsAdopted, LoopKnows, Holds, OnItsWay, Net!Coming
<1>5. Watched'
  BY <1>1 DEF NetInv, Watched, Net!AddressWatched
<1>6. Owned'
  <2> SUFFICES ASSUME NEW v \in Url PROVE Net!AddressOwned(v)'
    BY DEF Owned
  <2>1. CASE v = loop.url
    BY <2>1, <1>1, <1>2 DEF Net!AddressOwned, OnItsWay, Net!Coming
  <2>2. CASE v # loop.url
    BY <2>2, <1>1 DEF NetInv, Owned, Net!AddressOwned, Net!Coming, Net!Leaving
  <2> QED
    BY <2>1, <2>2
<1>7. Remembered'
  <2> SUFFICES ASSUME NEW p \in Provider PROVE Net!ProviderRemembered(p)'
    BY DEF Remembered
  <2>1. CASE p = Owners[t.url]
    BY <2>1, <1>1, <1>2 DEF Net!ProviderRemembered, OnItsWay, Net!Coming
  <2>2. CASE p # Owners[t.url]
    BY <2>2, <1>1 DEF NetInv, Remembered, Net!ProviderRemembered, Net!HasTunnel, Net!Coming
  <2> QED
    BY <2>1, <2>2
<1> QED
  BY <1>3, <1>4, <1>5, <1>6, <1>7 DEF NetInv, NetShape

LEMMA AdoptKeeps ==
  ASSUME NetInv, Net!Adopt
  PROVE  NetInv'
<1> DEFINE u == loop.url
<1>t. NetType
  BY DEF NetInv, NetShape
<1>1. /\ loop.at = "adopting" /\ u \in Url /\ loop.epoch \in Net!Epoch
      /\ \A t \in tunnels : t.url # u
      /\ loop' = Net!Idle /\ loop'.at = "idle"
      /\ UNCHANGED <<registry, primary, first, starting, failed, coming, probes>>
  BY <1>t, LoopTyped DEF Net!Adopt, Net!Idle
<1>2. OnItsWay(u) /\ Named(u, loop.epoch) \notin coming
  BY <1>1 DEF NetInv, NetShape, LoopKnows
<1>3. CASE registry[u] = loop.epoch
  <2>1. /\ Net!FreeLeases(u) # {}
        /\ retained' = retained \ {u}
        /\ epochs' = [epochs EXCEPT ![u] = loop.epoch]
        /\ pending' = pending \ {Owners[u]}
        /\ leases' = [leases EXCEPT ![u] = Net!Verified(Net!AnyOf(Net!FreeLeases(u)))]
        /\ tunnels' = tunnels \cup {Named(u, loop.epoch)}
    BY <1>3 DEF Net!Adopt, Named
  <2> DEFINE e == Net!AnyOf(Net!FreeLeases(u))
             lease == Net!Verified(e)
  <2>2. e \in 1..MaxLease
    BY <1>1, <2>1, FreeLease
  <2>3. leases' = [leases EXCEPT ![u] = lease]
    BY <2>1
  <2> HIDE DEF e
  <2>4. lease \in Net!Lease /\ lease # Net!NoLease /\ ~lease.probing
    <3>1. e \in 0..MaxLease /\ e # 0
      BY <2>2, <1>t DEF NetType
    <3>2. lease.epoch = e /\ Net!NoLease.epoch = 0 /\ ~lease.probing
      BY DEF Net!NoLease, Net!Verified, Net!Checked
    <3>3. lease \in Net!Lease
      BY <3>1 DEF Net!Lease, Net!Verified, Net!Checked
    <3> QED
      BY <3>1, <3>2, <3>3
  <2> HIDE DEF lease, u
  <2>5. NetType'
    <3>1. /\ retained' \subseteq Url /\ epochs' \in [Url -> 0..MaxEpoch] /\ pending' \subseteq Provider
          /\ leases' \in [Url -> Net!Lease] /\ tunnels' \subseteq Net!Tunnel
      BY <1>1, <1>t, <2>1, <2>3, <2>4 DEF NetType, Net!TypeOK, Net!Tunnel, Net!Epoch, Named
    <3> QED
      BY <3>1, <1>1, <1>t DEF NetType, Net!TypeOK
  <2>6. epochs'[u] = loop.epoch /\ \A v \in Url : v # u => epochs'[v] = epochs[v]
    BY <1>1, <1>t, <2>1 DEF NetType, Net!TypeOK
  <2>7. leases'[u] = lease /\ \A v \in Url : v # u => leases'[v] = leases[v]
    BY <1>1, <1>t, <2>3 DEF NetType, Net!TypeOK
  <2>8. \A t \in tunnels' : t = Named(u, loop.epoch) \/ (t \in tunnels /\ t.url \in Url /\ t.url # u)
    BY <1>1, <1>t, <2>1 DEF NetType, Net!TypeOK, Net!Tunnel, u
  <2>9. TunnelsAdopted'
    <3>1. \A t \in tunnels' : epochs'[t.url] = t.epoch /\ t.url \notin retained'
      BY <2>1, <2>6, <2>8 DEF NetInv, NetShape, TunnelsAdopted, Named
    <3>2. \A v \in Url : Holds(v)' => registry'[v] # 0
      BY <1>1, <1>2, <2>1, <2>8 DEF NetInv, NetShape, TunnelsAdopted, Holds, Named, OnItsWay
    <3>3. \A v \in Url : Named(v, epochs'[v]) \notin coming'
      BY <1>1, <1>2, <2>6 DEF NetInv, NetShape, TunnelsAdopted, Named
    <3> QED
      BY <3>1, <3>2, <3>3 DEF TunnelsAdopted, Named
  <2>10. LoopKnows'
    BY <1>1 DEF LoopKnows
  <2>11. Watched'
    <3> SUFFICES ASSUME NEW v \in Url PROVE Net!AddressWatched(v)'
      BY DEF Watched
    <3>1. CASE v = u
      BY <3>1, <2>4, <2>7 DEF Net!AddressWatched
    <3>2. CASE v # u
      BY <3>2, <1>1, <2>1, <2>7, <2>8 DEF NetInv, Watched, Net!AddressWatched, Named
    <3> QED
      BY <3>1, <3>2
  <2>12. Owned'
    <3> SUFFICES ASSUME NEW v \in Url PROVE Net!AddressOwned(v)'
      BY DEF Owned
    <3>1. CASE v = u
      BY <3>1, <1>1, <1>3, <2>1, <2>6 DEF Net!AddressOwned, Named, u
    <3>2. CASE v # u
      BY <3>2, <1>1, <2>1, <2>6 DEF NetInv, Owned, Net!AddressOwned, Net!Coming, Net!Leaving, u
    <3> QED
      BY <3>1, <3>2
  <2>13. Remembered'
    <3> SUFFICES ASSUME NEW p \in Provider PROVE Net!ProviderRemembered(p)'
      BY DEF Remembered
    <3>1. CASE p = Owners[u]
      <4>1. Named(u, loop.epoch) \in tunnels' /\ Named(u, loop.epoch).url = u
        BY <2>1 DEF Named
      <4> QED
        BY <3>1, <4>1 DEF Net!ProviderRemembered, Net!HasTunnel
    <3>2. CASE p # Owners[u]
      BY <3>2, <1>1, <2>1 DEF NetInv, Remembered, Net!ProviderRemembered, Net!HasTunnel, Net!Coming, u
    <3> QED
      BY <3>1, <3>2
  <2> QED
    BY <2>5, <2>9, <2>10, <2>11, <2>12, <2>13 DEF NetInv, NetShape
<1>4. CASE registry[u] # loop.epoch
  <2>1. UNCHANGED <<retained, epochs, pending, leases, tunnels>>
    BY <1>4 DEF Net!Adopt
  <2>2. \A v \in Url : OnItsWay(v) => OnItsWay(v)'
    BY <1>1, <1>4 DEF OnItsWay, Net!Coming
  <2>3. NetType'
    BY <1>1, <1>t, <2>1 DEF NetType, Net!TypeOK
  <2>4. TunnelsAdopted' /\ LoopKnows' /\ Watched'
    BY <1>1, <2>1 DEF NetInv, NetShape, TunnelsAdopted, LoopKnows, Holds, Watched, Net!AddressWatched
  <2>5. Owned'
    BY <1>1, <2>1, <2>2 DEF NetInv, Owned, Net!AddressOwned, OnItsWay, Net!Leaving
  <2>6. Remembered'
    BY <1>1, <2>1, <2>2 DEF NetInv, Remembered, Net!ProviderRemembered, Net!HasTunnel, OnItsWay
  <2> QED
    BY <2>3, <2>4, <2>5, <2>6 DEF NetInv, NetShape
<1> QED
  BY <1>3, <1>4

LEMMA FailureKeeps ==
  ASSUME NetInv, NEW p \in Provider, Net!AttemptFails(p) \/ Net!TakeFailure(p)
  PROVE  NetInv'
<1>t. NetType
  BY DEF NetInv, NetShape
<1>1. UNCHANGED <<registry, primary, first, coming, tunnels, epochs, leases, retained, probes, loop>>
  BY DEF Net!AttemptFails, Net!TakeFailure
<1>2. NetType'
  <2>1. /\ starting \in [Provider -> 0..MaxStarting] /\ failed \in [Provider -> 0..MaxStarting]
        /\ MaxStarting \in Nat /\ pending \subseteq Provider
    BY <1>t DEF NetType, Net!TypeOK
  <2>2. starting' \in [Provider -> 0..MaxStarting] /\ failed' \in [Provider -> 0..MaxStarting]
    BY <2>1 DEF Net!AttemptFails, Net!TakeFailure
  <2>3. pending' \subseteq Provider
    BY <2>1 DEF Net!AttemptFails, Net!TakeFailure
  <2> QED
    BY <1>1, <2>2, <2>3, <1>t DEF NetType, Net!TypeOK
<1>3. TunnelsAdopted' /\ LoopKnows' /\ Watched' /\ Owned'
  BY <1>1 DEF NetInv, NetShape, TunnelsAdopted, LoopKnows, Holds, OnItsWay, Net!Coming,
              Watched, Net!AddressWatched, Owned, Net!AddressOwned, Net!Leaving
<1>4. Remembered'
  <2> SUFFICES ASSUME NEW q \in Provider PROVE Net!ProviderRemembered(q)'
    BY DEF Remembered
  <2>1. CASE q = p
    <3>1. failed'[p] > 0 \/ p \in pending' \/ Net!HasTunnel(p)'
      BY <1>1, <1>t DEF Net!AttemptFails, Net!TakeFailure, Net!HasTunnel, NetType, Net!TypeOK
    <3> QED
      BY <2>1, <3>1 DEF Net!ProviderRemembered
  <2>2. CASE q # p
    <3>1. starting'[q] = starting[q] /\ failed'[q] = failed[q] /\ (q \in pending => q \in pending')
      BY <2>2, <1>t DEF Net!AttemptFails, Net!TakeFailure, NetType, Net!TypeOK
    <3> QED
      BY <3>1, <1>1 DEF NetInv, Remembered, Net!ProviderRemembered, Net!HasTunnel, Net!Coming
  <2> QED
    BY <2>1, <2>2
<1> QED
  BY <1>2, <1>3, <1>4 DEF NetInv, NetShape

\* An answer of a probe, as a change of one lease.
LEMMA AnswerKeepsWatch ==
  ASSUME NetInv, NEW probe \in probes, probes' = probes \ {probe},
         tunnels' \subseteq tunnels, retained' = retained,
         \/ ~Net!Answered(probe) /\ leases' = leases
         \/ \E lease \in Net!Lease : /\ lease # Net!NoLease /\ ~lease.probing
                                     /\ leases' = [leases EXCEPT ![probe.url] = lease]
  PROVE  leases' \in [Url -> Net!Lease] /\ Watched'
<1>t. /\ NetType /\ leases \in [Url -> Net!Lease]
      /\ probe \in Net!Probe /\ probe.url \in Url /\ probe = Named(probe.url, probe.epoch)
  BY DEF NetInv, NetShape, NetType, Net!TypeOK, Net!Probe, Named
<1>1. CASE ~Net!Answered(probe) /\ leases' = leases
  BY <1>1, <1>t DEF NetInv, Watched, Net!AddressWatched, Net!Answered, Named
<1>2. ASSUME NEW lease \in Net!Lease, lease # Net!NoLease, ~lease.probing,
             leases' = [leases EXCEPT ![probe.url] = lease]
      PROVE  leases' \in [Url -> Net!Lease] /\ Watched'
  <2>1. leases'[probe.url] = lease /\ \A v \in Url : v # probe.url => leases'[v] = leases[v]
    BY <1>2, <1>t
  <2>2. \A v \in Url : v # probe.url => Named(v, leases[v].epoch) # probe
    BY <1>t DEF Named
  <2>3. leases' \in [Url -> Net!Lease]
    BY <1>2, <1>t
  <2>4. Watched'
    <3> SUFFICES ASSUME NEW v \in Url PROVE Net!AddressWatched(v)'
      BY DEF Watched
    <3>1. CASE v = probe.url
      BY <3>1, <2>1, <1>2 DEF Net!AddressWatched
    <3>2. CASE v # probe.url
      BY <3>2, <2>1, <2>2 DEF NetInv, Watched, Net!AddressWatched, Named
    <3> QED
      BY <3>1, <3>2
  <2> QED
    BY <2>3, <2>4
<1> QED
  BY <1>1, <1>2

LEMMA SettledLease ==
  ASSUME NEW lease \in Net!Lease, NEW e \in 1..MaxLease, MaxLease \in Nat,
         NEW after \in {Net!Healthier(lease, e), Net!Sicker(lease, e)}
  PROVE  after \in Net!Lease /\ after # Net!NoLease /\ ~after.probing
<1>1. PICK f \in 0..2, s \in 0..1 : after = Net!Checked(f, s, e)
  <2>1. lease.failures \in 0..2
    BY DEF Net!Lease
  <2> QED
    BY <2>1 DEF Net!Healthier, Net!Sicker, Net!Verified
<1>2. after \in Net!Lease /\ after.epoch = e /\ ~after.probing
  BY <1>1 DEF Net!Lease, Net!Checked
<1>3. Net!NoLease.epoch = 0 /\ e # 0
  BY DEF Net!NoLease, Net!Verified, Net!Checked, Net!Checked
<1> QED
  BY <1>2, <1>3

LEMMA ProbeSettlesKeeps ==
  ASSUME NetInv, NEW probe \in probes, Net!ProbeSettles(probe)
  PROVE  NetInv'
<1> DEFINE u == probe.url
           e == Net!AnyOf(Net!FreeLeases(u))
<1>t. NetShape /\ NetType /\ u \in Url /\ leases[u] \in Net!Lease /\ MaxLease \in Nat
  BY DEF NetInv, NetShape, NetType, Net!TypeOK, Net!Probe
<1>1. /\ probes' = probes \ {probe}
      /\ UNCHANGED <<first, starting, failed, coming, tunnels, epochs, retained, pending, loop>>
      /\ Net!Refresh
  BY DEF Net!ProbeSettles
<1>2. registry' = registry /\ primary' \in Url \cup {HERE}
  BY <1>t, <1>1, DisplayKeeps
<1>3. \/ ~Net!Answered(probe) /\ leases' = leases
      \/ \E lease \in Net!Lease : /\ lease # Net!NoLease /\ ~lease.probing
                                  /\ leases' = [leases EXCEPT ![u] = lease]
  <2>1. CASE ~Net!Answered(probe)
    BY <2>1 DEF Net!ProbeSettles
  <2>2. CASE Net!Answered(probe)
    <3>1. Net!FreeLeases(u) # {}
      BY <2>2 DEF Net!ProbeSettles
    <3>2. e \in 1..MaxLease
      BY <3>1, <1>t, FreeLease
    <3>3. PICK new \in {Net!Healthier(leases[u], e), Net!Sicker(leases[u], e)} :
            leases' = [leases EXCEPT ![u] = new]
      BY <2>2 DEF Net!ProbeSettles
    <3> HIDE DEF e, u
    <3> QED
      BY <3>2, <3>3, <1>t, SettledLease
  <2> QED
    BY <2>1, <2>2
<1>4. leases' \in [Url -> Net!Lease] /\ Watched'
  BY <1>1, <1>3, AnswerKeepsWatch
<1>5. NetType'
  BY <1>1, <1>2, <1>4, <1>t DEF NetType, Net!TypeOK
<1>6. TunnelsAdopted' /\ LoopKnows' /\ Owned' /\ Remembered'
  BY <1>1, <1>2 DEF NetInv, NetShape, TunnelsAdopted, LoopKnows, Holds, OnItsWay, Net!Coming,
              Owned, Net!AddressOwned, Net!Leaving, Remembered, Net!ProviderRemembered, Net!HasTunnel
<1> QED
  BY <1>4, <1>5, <1>6 DEF NetInv, NetShape

LEMMA ProbeRevokesKeeps ==
  ASSUME NetInv, NEW probe \in probes, Net!ProbeRevokes(probe)
  PROVE  NetInv'
<1> DEFINE u == probe.url
           e == Net!AnyOf(Net!FreeLeases(u))
<1>t. NetType /\ u \in Url /\ leases[u] \in Net!Lease /\ MaxLease \in Nat
  BY DEF NetInv, NetShape, NetType, Net!TypeOK, Net!Probe
<1>1. /\ probes' = probes \ {probe}
      /\ tunnels' = {t \in tunnels : t.url # u}
      /\ loop.at = "idle" /\ loop' = Net!At("recycling", u, 0, FALSE)
      /\ leases' = [leases EXCEPT ![u] = Net!Sicker(leases[u], e)]
      /\ UNCHANGED <<registry, primary, first, starting, failed, coming, epochs, retained, pending>>
      /\ e \in 1..MaxLease
  BY <1>t, FreeLease DEF Net!ProbeRevokes, Net!Idle
<1> HIDE DEF e, u
<1>2. \E lease \in Net!Lease : /\ lease # Net!NoLease /\ ~lease.probing
                               /\ leases' = [leases EXCEPT ![u] = lease]
  BY <1>1, <1>t, SettledLease
<1>3. leases' \in [Url -> Net!Lease] /\ Watched'
  BY <1>1, <1>2, AnswerKeepsWatch DEF u
<1>4. NetType'
  <2>1. Net!At("recycling", u, 0, FALSE)
          \in [at : {"recycling", "recycled", "burying", "buried"}, url : Url, epoch : {0}, keep : BOOLEAN]
    BY <1>t DEF Net!At
  <2> QED
    BY <2>1, <1>1, <1>3, <1>t DEF NetType, Net!TypeOK
<1>5. loop'.at = "recycling" /\ loop'.url = u
  BY <1>1 DEF Net!At
<1>6. TunnelsAdopted' /\ LoopKnows'
  BY <1>1, <1>5 DEF NetInv, NetShape, TunnelsAdopted, LoopKnows, Holds
<1>7. Owned'
  <2> SUFFICES ASSUME NEW v \in Url PROVE Net!AddressOwned(v)'
    BY DEF Owned
  <2>1. CASE v = u
    BY <2>1, <1>1, <1>5 DEF NetInv, Owned, Net!AddressOwned, Net!Coming, Net!Leaving
  <2>2. CASE v # u
    BY <2>2, <1>1, <1>5 DEF NetInv, Owned, Net!AddressOwned, Net!Coming, Net!Leaving
  <2> QED
    BY <2>1, <2>2
<1>8. Remembered'
  <2> SUFFICES ASSUME NEW p \in Provider PROVE Net!ProviderRemembered(p)'
    BY DEF Remembered
  <2>1. CASE p = Owners[u]
    BY <2>1, <1>5 DEF Net!ProviderRemembered
  <2>2. CASE p # Owners[u]
    BY <2>2, <1>1 DEF NetInv, Remembered, Net!ProviderRemembered, Net!HasTunnel, Net!Coming
  <2> QED
    BY <2>1, <2>2
<1> QED
  BY <1>3, <1>4, <1>6, <1>7, <1>8 DEF NetInv, NetShape

\* An address that nobody holds any more loses its lease, and its registration
\* unless that was replaced.
LEMMA WithdrawKeeps ==
  ASSUME NetInv, NEW u \in Url, ~Holds(u)', loop.at # "adopting", loop'.at # "adopting",
         tunnels' = tunnels, retained' = retained \ {u},
         leases' = [leases EXCEPT ![u] = Net!NoLease], Net!Withdraw(u),
         UNCHANGED <<coming, probes>>,
         loop.url = u
  PROVE  /\ registry' \in [Url -> 0..MaxEpoch] /\ epochs' \in [Url -> 0..MaxEpoch]
         /\ leases' \in [Url -> Net!Lease]
         /\ TunnelsAdopted' /\ Watched' /\ Owned'
         /\ \A v \in Url : OnItsWay(v) => OnItsWay(v)'
<1>t. /\ NetType /\ registry \in [Url -> 0..MaxEpoch] /\ epochs \in [Url -> 0..MaxEpoch]
      /\ leases \in [Url -> Net!Lease] /\ MaxLease \in Nat /\ MaxEpoch \in Nat /\ tunnels \subseteq Net!Tunnel
  BY DEF NetInv, NetShape, NetType, Net!TypeOK
<1>1. Net!NoLease \in Net!Lease
  BY <1>t DEF Net!NoLease, Net!Verified, Net!Checked, Net!Lease
<1>2. registry' = registry \/ (registry' = [registry EXCEPT ![u] = 0] /\ epochs[u] # 0 /\ registry[u] = epochs[u])
  BY DEF Net!Withdraw, Net!Withdraws
<1>3. epochs' = [epochs EXCEPT ![u] = 0]
  BY DEF Net!Withdraw
<1>4. /\ \A v \in Url : v # u => registry'[v] = registry[v] /\ epochs'[v] = epochs[v] /\ leases'[v] = leases[v]
      /\ epochs'[u] = 0
      /\ registry'[u] = 0 \/ (registry'[u] = registry[u] /\ registry[u] # epochs[u])
  BY <1>2, <1>3, <1>t DEF Net!Withdraw, Net!Withdraws
<1>5. \A v \in Url : OnItsWay(v) => OnItsWay(v)'
  <2> SUFFICES ASSUME NEW v \in Url, OnItsWay(v) PROVE OnItsWay(v)'
    OBVIOUS
  <2>1. Named(v, registry[v]) \in coming
    BY DEF OnItsWay, Net!Coming, Named
  <2>2. Named(v, epochs[v]) \notin coming
    BY DEF NetInv, NetShape, TunnelsAdopted
  <2>3. registry'[v] = registry[v]
    BY <2>1, <2>2, <1>2, <1>4, <1>t
  <2> QED
    BY <2>1, <2>3 DEF OnItsWay, Net!Coming, Named
<1>6. TunnelsAdopted'
  <2>1. \A t \in tunnels : t.url \in Url /\ t.url # u
    BY <1>t DEF Holds, Net!Tunnel
  <2>2. \A v \in Url : Named(v, epochs'[v]) \notin coming
    <3>1. Named(u, 0) \notin coming
      BY <1>t DEF Named, NetType, Net!TypeOK, Net!Tunnel, Net!Epoch
    <3> QED
      BY <3>1, <1>4 DEF NetInv, NetShape, TunnelsAdopted
  <2>3. \A v \in Url : Holds(v)' => registry'[v] # 0
    BY <1>4 DEF NetInv, NetShape, TunnelsAdopted, Holds
  <2> QED
    BY <2>1, <2>2, <2>3, <1>4 DEF NetInv, NetShape, TunnelsAdopted
<1>7. Watched'
  BY <1>4 DEF NetInv, Watched, Net!AddressWatched, Holds
<1>8. Owned'
  <2> SUFFICES ASSUME NEW v \in Url, registry'[v] # 0 PROVE Net!AddressOwned(v)'
    BY DEF Owned, Net!AddressOwned
  <2>1. CASE v = u
    <3>1. registry'[u] = registry[u] /\ registry[u] # epochs[u]
      BY <2>1, <1>4
    <3>2. Named(u, registry[u]) \in coming
      BY <2>1, <3>1 DEF NetInv, Owned, Net!AddressOwned, Net!Coming, Named
    <3> QED
      BY <2>1, <3>1, <3>2 DEF Net!AddressOwned, Net!Coming, Named
  <2>2. CASE v # u
    BY <2>2, <1>4 DEF NetInv, Owned, Net!AddressOwned, Net!Coming, Net!Leaving
  <2> QED
    BY <2>1, <2>2
<1>9. registry' \in [Url -> 0..MaxEpoch] /\ epochs' \in [Url -> 0..MaxEpoch] /\ leases' \in [Url -> Net!Lease]
  BY <1>1, <1>2, <1>3, <1>t
<1> QED
  BY <1>5, <1>6, <1>7, <1>8, <1>9

\* A provider whose address is being dealt with is remembered for that.
LEMMA DealtWithIsRemembered ==
  ASSUME NetInv, loop.at \in {"recycling", "burying"}, loop'.at \in {"recycled", "buried"}, loop'.url = loop.url,
         UNCHANGED <<first, starting, failed, tunnels, pending>>,
         \A v \in Url : OnItsWay(v) => OnItsWay(v)'
  PROVE  Remembered'
<1> SUFFICES ASSUME NEW p \in Provider PROVE Net!ProviderRemembered(p)'
  BY DEF Remembered
<1>1. CASE p = Owners[loop.url]
  BY <1>1 DEF Net!ProviderRemembered
<1>2. CASE p # Owners[loop.url]
  BY <1>2 DEF NetInv, Remembered, Net!ProviderRemembered, Net!HasTunnel, OnItsWay
<1> QED
  BY <1>1, <1>2

LEMMA RecycleKeeps ==
  ASSUME NetInv, Net!Recycle
  PROVE  NetInv'
<1> DEFINE u == loop.url
<1>t. NetType
  BY DEF NetInv, NetShape
<1>1. /\ loop.at = "recycling" /\ u \in Url
      /\ leases' = [leases EXCEPT ![u] = Net!NoLease]
      /\ retained' = retained \ {u}
      /\ Net!Withdraw(u)
      /\ loop' = Net!At("recycled", u, 0, Net!Withdraws(u))
      /\ UNCHANGED <<primary, first, starting, failed, coming, tunnels, pending, probes>>
  BY <1>t, LoopTyped DEF Net!Recycle
<1>2. loop'.at = "recycled" /\ loop'.url = u
  BY <1>1 DEF Net!At
<1>3. \A t \in tunnels : t.url # u
  BY <1>1 DEF NetInv, NetShape, LoopKnows
<1>4. ~Holds(u)'
  BY <1>1, <1>2, <1>3 DEF Holds
<1>5. /\ registry' \in [Url -> 0..MaxEpoch] /\ epochs' \in [Url -> 0..MaxEpoch]
      /\ leases' \in [Url -> Net!Lease]
      /\ TunnelsAdopted' /\ Watched' /\ Owned'
      /\ \A v \in Url : OnItsWay(v) => OnItsWay(v)'
  BY <1>1, <1>2, <1>4, WithdrawKeeps
<1>6. NetType'
  <2>1. Net!Withdraws(u) \in BOOLEAN
    BY DEF Net!Withdraws
  <2>2. Net!At("recycled", u, 0, Net!Withdraws(u))
          \in [at : {"recycling", "recycled", "burying", "buried"}, url : Url, epoch : {0}, keep : BOOLEAN]
    BY <2>1, <1>1 DEF Net!At
  <2> QED
    BY <2>2, <1>1, <1>5, <1>t DEF NetType, Net!TypeOK
<1>7. LoopKnows'
  BY <1>1, <1>2, <1>3 DEF LoopKnows
<1>8. Remembered'
  BY <1>1, <1>2, <1>5, DealtWithIsRemembered
<1> QED
  BY <1>5, <1>6, <1>7, <1>8 DEF NetInv, NetShape

LEMMA BuriedKeeps ==
  ASSUME NetInv, Net!Buried
  PROVE  NetInv'
<1> DEFINE u == loop.url
<1>t. NetType
  BY DEF NetInv, NetShape
<1>1. /\ loop.at = "burying" /\ u \in Url /\ loop.keep \in BOOLEAN
      /\ loop' = [loop EXCEPT !.at = "buried"]
      /\ UNCHANGED <<primary, first, starting, failed, coming, tunnels, retained, pending, probes>>
  BY <1>t, LoopTyped DEF Net!Buried
<1>2. loop' = Net!At("buried", u, 0, loop.keep)
  <2>1. loop = Net!At("burying", u, 0, loop.keep)
    BY <1>1, <1>t, LoopTyped
  <2> QED
    BY <2>1, <1>1 DEF Net!At
<1>3. loop'.at = "buried" /\ loop'.url = u /\ loop'.keep = loop.keep
  BY <1>2 DEF Net!At
<1>4. (\A t \in tunnels : t.url # u) /\ (loop.keep <=> u \in retained)
  BY <1>1 DEF NetInv, NetShape, LoopKnows
<1>5. /\ registry' \in [Url -> 0..MaxEpoch] /\ epochs' \in [Url -> 0..MaxEpoch]
      /\ leases' \in [Url -> Net!Lease]
      /\ TunnelsAdopted' /\ Watched' /\ Owned'
      /\ \A v \in Url : OnItsWay(v) => OnItsWay(v)'
  <2>1. CASE loop.keep
    <3>1. UNCHANGED <<registry, epochs, leases>>
      BY <2>1 DEF Net!Buried
    <3>2. \A v \in Url : OnItsWay(v) => OnItsWay(v)'
      BY <1>1, <3>1 DEF OnItsWay, Net!Coming
    <3>3. TunnelsAdopted' /\ Watched'
      BY <1>1, <3>1 DEF NetInv, NetShape, TunnelsAdopted, Holds, Watched, Net!AddressWatched
    <3>4. Owned'
      BY <1>1, <1>4, <2>1, <3>1, <3>2 DEF NetInv, Owned, Net!AddressOwned, OnItsWay, Net!Leaving
    <3> QED
      BY <3>1, <3>2, <3>3, <3>4, <1>t DEF NetType, Net!TypeOK
  <2>2. CASE ~loop.keep
    <3>1. leases' = [leases EXCEPT ![u] = Net!NoLease] /\ Net!Withdraw(u)
      BY <2>2 DEF Net!Buried
    <3>2. retained' = retained \ {u}
      BY <1>1, <1>4, <2>2
    <3>3. ~Holds(u)'
      BY <1>1, <1>4, <2>2 DEF Holds
    <3> QED
      BY <3>1, <3>2, <3>3, <1>1, <1>3, WithdrawKeeps
  <2> QED
    BY <2>1, <2>2
<1>6. NetType'
  <2>1. Net!At("buried", u, 0, loop.keep)
          \in [at : {"recycling", "recycled", "burying", "buried"}, url : Url, epoch : {0}, keep : BOOLEAN]
    BY <1>1 DEF Net!At
  <2> QED
    BY <2>1, <1>1, <1>2, <1>5, <1>t DEF NetType, Net!TypeOK
<1>7. LoopKnows'
  BY <1>1, <1>3, <1>4 DEF LoopKnows
<1>8. Remembered'
  BY <1>1, <1>3, <1>5, DealtWithIsRemembered
<1> QED
  BY <1>5, <1>6, <1>7, <1>8 DEF NetInv, NetShape

\* When the loop is done with an address, its provider has another attempt, a
\* tunnel, or a replacement on its way.
LEMMA DoneKeeps ==
  ASSUME NetInv, loop.at \in {"recycled", "buried"}, loop' \in {Net!Idle, [Net!Idle EXCEPT !.at = "maintaining"]},
         primary' \in Url \cup {HERE},
         UNCHANGED <<registry, first, starting, failed, coming, tunnels, epochs, leases, retained, probes>>,
         pending' \in {pending, pending \cup {Owners[loop.url]}},
         Owners[loop.url] \in pending' \/ Net!HasTunnel(Owners[loop.url]) \/ OnItsWay(loop.url)
  PROVE  NetInv'
<1>t. NetType /\ loop.url \in Url
  BY LoopTyped DEF NetInv, NetShape
<1>1. loop'.at \in {"idle", "maintaining"}
  BY DEF Net!Idle
<1>2. \A v \in Url : OnItsWay(v) => OnItsWay(v)'
  BY DEF OnItsWay, Net!Coming
<1>3. NetType'
  BY <1>t DEF NetType, Net!TypeOK
<1>4. TunnelsAdopted' /\ Watched' /\ LoopKnows'
  BY <1>1 DEF NetInv, NetShape, TunnelsAdopted, Holds, Watched, Net!AddressWatched, LoopKnows
<1>5. Owned'
  BY <1>2 DEF NetInv, Owned, Net!AddressOwned, OnItsWay, Net!Leaving
<1>6. Remembered'
  <2> SUFFICES ASSUME NEW p \in Provider PROVE Net!ProviderRemembered(p)'
    BY DEF Remembered
  <2>1. CASE p = Owners[loop.url]
    BY <2>1, <1>2, <1>t DEF Net!ProviderRemembered, Net!HasTunnel, OnItsWay
  <2>2. CASE p # Owners[loop.url]
    BY <2>2, <1>2 DEF NetInv, Remembered, Net!ProviderRemembered, Net!HasTunnel, OnItsWay
  <2> QED
    BY <2>1, <2>2
<1> QED
  BY <1>3, <1>4, <1>5, <1>6 DEF NetInv, NetShape

LEMMA RecycledKeeps ==
  ASSUME NetInv, Net!Recycled
  PROVE  NetInv'
<1> DEFINE u == loop.url
<1>t. NetType /\ NetShape
  BY DEF NetInv, NetShape
<1>1. /\ loop.at = "recycled" /\ u \in Url
      /\ loop' = Net!Idle
      /\ UNCHANGED <<first, starting, failed, coming, tunnels, epochs, leases, retained, probes>>
      /\ Net!Refresh
  BY <1>t, LoopTyped DEF Net!Recycled
<1>2. registry' = registry /\ primary' \in Url \cup {HERE}
  BY <1>1, <1>t, DisplayKeeps
<1>3. pending' = IF (~loop.keep /\ registry[u] # 0) \/ Net!HasTunnel(Owners[u])
                 THEN pending ELSE pending \cup {Owners[u]}
  BY DEF Net!Recycled
<1>4. ASSUME registry[u] # 0 PROVE OnItsWay(u)
  BY <1>1, <1>4 DEF NetInv, NetShape, LoopKnows, Owned, Net!AddressOwned, Net!Leaving, OnItsWay
<1>5. Owners[u] \in pending' \/ Net!HasTunnel(Owners[u]) \/ OnItsWay(u)
  BY <1>3, <1>4
<1> QED
  BY <1>1, <1>2, <1>3, <1>5, DoneKeeps

LEMMA RetryKeeps ==
  ASSUME NetInv, Net!Retry
  PROVE  NetInv'
<1> DEFINE u == loop.url
<1>t. NetType /\ NetShape
  BY DEF NetInv, NetShape
<1>1. /\ loop.at = "buried" /\ u \in Url
      /\ loop' = [Net!Idle EXCEPT !.at = "maintaining"]
      /\ UNCHANGED <<registry, primary, first, starting, failed, coming, tunnels, epochs, leases, retained, probes>>
      /\ pending' = IF ~loop.keep /\ registry[u] # 0 THEN pending ELSE pending \cup {Owners[u]}
  BY <1>t, LoopTyped DEF Net!Retry, Net!Replaced
<1>2. ASSUME ~loop.keep, registry[u] # 0 PROVE OnItsWay(u)
  BY <1>1, <1>2 DEF NetInv, NetShape, LoopKnows, Owned, Net!AddressOwned, Net!Leaving, OnItsWay
<1>3. Owners[u] \in pending' \/ OnItsWay(u)
  BY <1>1, <1>2
<1>4. primary' \in Url \cup {HERE}
  BY <1>1, <1>t DEF NetType, Net!TypeOK
<1> QED
  BY <1>1, <1>3, <1>4, DoneKeeps

LEMMA BuryKeeps ==
  ASSUME NetInv, NEW t \in tunnels, Net!Bury(t)
  PROVE  NetInv'
<1> DEFINE u == t.url
<1>t. NetType /\ u \in Url /\ registry[u] # 0 /\ t.url \notin retained /\ epochs[u] = t.epoch
  BY DEF NetInv, NetShape, NetType, Net!TypeOK, Net!Tunnel, TunnelsAdopted, Holds
<1>1. PICK young \in BOOLEAN :
        LET keep == /\ Owners[u] \in Stable /\ Net!Eligible(u) /\ young
                    /\ (u \in retained \/ Net!Cardinality(retained) < MaxRetained) IN
        /\ retained' = IF keep THEN retained \cup {u} ELSE retained
        /\ loop' = Net!At("burying", u, 0, keep)
  BY DEF Net!Bury
<1>2. PICK keep \in BOOLEAN :
        /\ keep => Net!Eligible(u)
        /\ retained' = IF keep THEN retained \cup {u} ELSE retained
        /\ loop' = Net!At("burying", u, 0, keep)
  BY <1>1
<1>3. /\ loop.at = "maintaining"
      /\ tunnels' = tunnels \ {t}
      /\ UNCHANGED <<registry, primary, first, starting, failed, coming, epochs, leases, pending, probes>>
  BY DEF Net!Bury
<1> HIDE DEF u
<1>4. loop'.at = "burying" /\ loop'.url = u /\ loop'.keep = keep
  BY <1>2 DEF Net!At
<1>5. NetType'
  <2>1. loop' \in [at : {"recycling", "recycled", "burying", "buried"}, url : Url, epoch : {0}, keep : BOOLEAN]
    BY <1>2, <1>t DEF Net!At
  <2> QED
    BY <2>1, <1>2, <1>3, <1>t DEF NetType, Net!TypeOK
<1>6. \A s \in tunnels' : s \in tunnels /\ s.url # u
  <2> SUFFICES ASSUME NEW s \in tunnels', s.url = u PROVE FALSE
    BY <1>3
  <2>1. s \in tunnels /\ s.epoch = t.epoch /\ s.url = t.url
    BY <1>3, <1>t DEF NetInv, NetShape, TunnelsAdopted, u
  <2>2. s = t
    BY <2>1, <1>t DEF NetType, Net!TypeOK, Net!Tunnel
  <2> QED
    BY <2>2, <1>3
<1>7. TunnelsAdopted'
  BY <1>2, <1>3, <1>6, <1>t DEF NetInv, NetShape, TunnelsAdopted, Holds, u
<1>8. LoopKnows'
  BY <1>2, <1>4, <1>6, <1>t DEF LoopKnows, u
<1>9. Watched'
  BY <1>2, <1>3, <1>t DEF NetInv, Watched, Net!AddressWatched, Net!Eligible, u
<1>10. Owned'
  <2> SUFFICES ASSUME NEW v \in Url PROVE Net!AddressOwned(v)'
    BY DEF Owned
  <2>1. CASE v = u
    BY <2>1, <1>3, <1>4 DEF NetInv, Owned, Net!AddressOwned, Net!Coming, Net!Leaving
  <2>2. CASE v # u
    BY <2>2, <1>2, <1>3, <1>4 DEF NetInv, Owned, Net!AddressOwned, Net!Coming, Net!Leaving, u
  <2> QED
    BY <2>1, <2>2
<1>11. Remembered'
  <2> SUFFICES ASSUME NEW p \in Provider PROVE Net!ProviderRemembered(p)'
    BY DEF Remembered
  <2>1. CASE p = Owners[u]
    BY <2>1, <1>4 DEF Net!ProviderRemembered
  <2>2. CASE p # Owners[u]
    BY <2>2, <1>3 DEF NetInv, Remembered, Net!ProviderRemembered, Net!HasTunnel, Net!Coming, u
  <2> QED
    BY <2>1, <2>2
<1> QED
  BY <1>5, <1>7, <1>8, <1>9, <1>10, <1>11 DEF NetInv, NetShape

LEMMA BeginMaintenanceKeeps ==
  ASSUME NetInv, Net!BeginMaintenance
  PROVE  NetInv'
<1> DEFINE lease(u) == [leases[u] EXCEPT !.probing = TRUE, !.epoch = Net!AnyOf(Net!FreeLeases(u))]
<1>t. /\ NetType /\ leases \in [Url -> Net!Lease] /\ starting \in [Provider -> 0..MaxStarting]
      /\ MaxLease \in Nat /\ MaxStarting \in Nat /\ tunnels \subseteq Net!Tunnel /\ retained \subseteq Url
      /\ probes \subseteq Net!Probe
  BY DEF NetInv, NetShape, NetType, Net!TypeOK
<1>1. PICK probed \in SUBSET {u \in {t.url : t \in tunnels} \cup retained :
                                leases[u] # Net!NoLease /\ ~leases[u].probing /\ Net!FreeLeases(u) # {}},
           due \in SUBSET {p \in pending : starting[p] < MaxStarting} :
        /\ leases' = [u \in Url |-> IF u \in probed THEN lease(u) ELSE leases[u]]
        /\ probes' = probes \cup {[url |-> u, epoch |-> Net!AnyOf(Net!FreeLeases(u))] : u \in probed}
        /\ pending' = pending \ due
        /\ starting' = [p \in Provider |-> IF p \in due THEN starting[p] + 1 ELSE starting[p]]
  BY DEF Net!BeginMaintenance
<1>2. /\ loop.at = "idle" /\ loop' = [Net!Idle EXCEPT !.at = "maintaining"] /\ loop'.at = "maintaining"
      /\ UNCHANGED <<registry, primary, first, failed, coming, tunnels, epochs, retained>>
  BY DEF Net!BeginMaintenance, Net!Idle
<1>3. \A u \in probed : u \in Url /\ Net!FreeLeases(u) # {}
  BY <1>1, <1>t DEF Net!Tunnel
<1>4. \A u \in probed : Net!AnyOf(Net!FreeLeases(u)) \in 1..MaxLease
  BY <1>3, FreeLease
<1>5. \A u \in probed : /\ lease(u) \in Net!Lease /\ lease(u) # Net!NoLease
                        /\ Named(u, lease(u).epoch) \in probes'
  <2> SUFFICES ASSUME NEW u \in probed
               PROVE  /\ lease(u) \in Net!Lease /\ lease(u) # Net!NoLease
                      /\ Named(u, lease(u).epoch) \in probes'
    OBVIOUS
  <2> DEFINE e == Net!AnyOf(Net!FreeLeases(u))
  <2>1. e \in 1..MaxLease /\ Named(u, e) \in probes'
    BY <1>1, <1>4 DEF Named
  <2>2. leases[u] \in Net!Lease
    BY <1>3, <1>t
  <2>3. lease(u) = [leases[u] EXCEPT !.probing = TRUE, !.epoch = e]
    OBVIOUS
  <2> HIDE DEF e, lease
  <2>4. e \in 0..MaxLease /\ e # 0
    BY <2>1, <1>t
  <2>5. lease(u) \in Net!Lease /\ lease(u).epoch = e
    BY <2>2, <2>3, <2>4 DEF Net!Lease
  <2>6. Net!NoLease.epoch = 0
    BY DEF Net!NoLease, Net!Verified, Net!Checked
  <2> QED
    BY <2>1, <2>4, <2>5, <2>6
<1>6. \A u \in Url : leases'[u] = IF u \in probed THEN lease(u) ELSE leases[u]
  BY <1>1
<1>7. leases' \in [Url -> Net!Lease]
  BY <1>1, <1>5, <1>t
<1> HIDE DEF lease
<1>8. NetType'
  <2>1. probes' \subseteq Net!Probe
    BY <1>1, <1>3, <1>4, <1>t DEF Net!Probe
  <2>2. starting' \in [Provider -> 0..MaxStarting] /\ pending' \subseteq Provider
    BY <1>1, <1>t DEF NetType, Net!TypeOK
  <2> QED
    BY <1>2, <1>7, <2>1, <2>2, <1>t DEF NetType, Net!TypeOK
<1>9. TunnelsAdopted' /\ LoopKnows'
  BY <1>2 DEF NetInv, NetShape, TunnelsAdopted, Holds, LoopKnows
<1>10. Watched'
  <2> SUFFICES ASSUME NEW u \in Url PROVE Net!AddressWatched(u)'
    BY DEF Watched
  <2>1. CASE u \in probed
    BY <2>1, <1>5, <1>6 DEF Net!AddressWatched, Named
  <2>2. CASE u \notin probed
    BY <2>2, <1>1, <1>2, <1>6 DEF NetInv, Watched, Net!AddressWatched
  <2> QED
    BY <2>1, <2>2
<1>11. Owned'
  BY <1>2 DEF NetInv, Owned, Net!AddressOwned, Net!Coming, Net!Leaving
<1>12. Remembered'
  <2> SUFFICES ASSUME NEW p \in Provider PROVE Net!ProviderRemembered(p)'
    BY DEF Remembered
  <2>1. starting'[p] >= starting[p] /\ (p \in due => starting'[p] > 0)
    BY <1>1, <1>t
  <2>2. p \in pending => p \in pending' \/ starting'[p] > 0
    BY <1>1, <2>1
  <2>3. starting[p] > 0 => starting'[p] > 0
    BY <2>1, <1>1, <1>t
  <2> QED
    BY <2>2, <2>3, <1>2 DEF NetInv, Remembered, Net!ProviderRemembered, Net!HasTunnel, Net!Coming
<1> QED
  BY <1>8, <1>9, <1>10, <1>11, <1>12 DEF NetInv, NetShape

LEMMA EndMaintenanceKeeps ==
  ASSUME NetInv, Net!EndMaintenance
  PROVE  NetInv'
<1>t. NetType /\ NetShape
  BY DEF NetInv, NetShape
<1>1. /\ loop.at = "maintaining" /\ loop' = Net!Idle /\ loop'.at = "idle"
      /\ UNCHANGED <<first, starting, failed, coming, tunnels, epochs, leases, retained, pending, probes>>
      /\ Net!Refresh
  BY DEF Net!EndMaintenance, Net!Idle
<1>2. registry' = registry /\ primary' \in Url \cup {HERE}
  BY <1>1, <1>t, DisplayKeeps
<1>3. NetType'
  BY <1>1, <1>2, <1>t DEF NetType, Net!TypeOK
<1>4. TunnelsAdopted' /\ LoopKnows' /\ Watched'
  BY <1>1, <1>2 DEF NetInv, NetShape, TunnelsAdopted, LoopKnows, Holds, Watched, Net!AddressWatched
<1>5. Owned' /\ Remembered'
  BY <1>1, <1>2 DEF NetInv, Owned, Net!AddressOwned, Net!Coming, Net!Leaving, Remembered,
                    Net!ProviderRemembered, Net!HasTunnel
<1> QED
  BY <1>3, <1>4, <1>5 DEF NetInv, NetShape

LEMMA NetStep == Net!Constants /\ NetInv /\ [Net!Next]_Net!vars => NetInv'
<1> SUFFICES ASSUME NetInv, [Net!Next]_Net!vars PROVE NetInv'
  OBVIOUS
<1>1. ASSUME NEW u \in Url, Net!InitialConnects(u) PROVE NetInv'
  <2>1. primary' \in Url \cup {HERE}
    BY <1>1 DEF Net!InitialConnects, NetInv, NetShape, NetType, Net!TypeOK
  <2> QED
    BY <1>1, <2>1, PublishKeeps DEF Net!InitialConnects
<1>2. ASSUME NEW u \in Url, Net!AttemptConnects(u) PROVE NetInv'
  <2>1. primary' \in Url \cup {HERE}
    BY <1>2 DEF Net!AttemptConnects, NetInv, NetShape, NetType, Net!TypeOK
  <2> QED
    BY <1>2, <2>1, PublishKeeps DEF Net!AttemptConnects
<1>3. CASE UNCHANGED Net!vars
  BY <1>3 DEF Net!vars, NetInv, NetShape, NetType, Net!TypeOK, TunnelsAdopted, LoopKnows, OnItsWay, Holds, Net!Coming,
              Watched, Net!AddressWatched, Owned, Net!AddressOwned, Net!Leaving, Remembered,
              Net!ProviderRemembered, Net!HasTunnel
<1> QED
  BY <1>1, <1>2, <1>3, FailureKeeps, TakeConnectedKeeps, StopPreviousKeeps, BuryKeeps, AdoptKeeps,
     ProbeSettlesKeeps, ProbeRevokesKeeps, RecycleKeeps, RecycledKeeps, BeginMaintenanceKeeps,
     BuriedKeeps, RetryKeeps, EndMaintenanceKeeps DEF Net!Next

\* tunnel_lifecycle.rs: whatever workers publish while the loop waits, every
\* address that is registered has an owner and a watch, and no provider is forgotten.
THEOREM EndpointsStaySupervised == HostSpec => []EndpointsSupervised
<1>1. HostInit => NetInv
  BY HostStarts, NetStart, HostAssumption
<1>2. NetInv /\ [HostNext]_hostVars => NetInv'
  BY HostSteps, NetStep, HostAssumption
<1>3. NetInv => EndpointsSupervised
  BY DEF NetInv, Watched, Owned, Remembered, EndpointsSupervised, Net!EndpointsSupervised
<1> QED
  BY <1>1, <1>2, <1>3, PTL DEF HostSpec

\* Only an adopted registration is withdrawn, and one that is on its way is not adopted.
LEMMA WithdrawsNoReplacement ==
  ASSUME NetInv, [Net!Next]_Net!vars
  PROVE  \A u \in Url : OnItsWay(u) => registry'[u] # 0
<1>t. NetShape /\ NetType /\ registry \in [Url -> 0..MaxEpoch]
  BY DEF NetInv, NetShape, NetType, Net!TypeOK
<1>1. ASSUME NEW v \in Url, Net!Publish(v) PROVE \A u \in Url : OnItsWay(u) => registry'[u] # 0
  <2> DEFINE e == Net!AnyOf(Net!FreeEpochs(v))
  <2>1. e \in Net!Epoch /\ registry' = [registry EXCEPT ![v] = e]
    BY <1>1, FreeEpoch DEF Net!Publish
  <2> HIDE DEF e
  <2>2. e # 0
    BY <2>1 DEF Net!Epoch
  <2> QED
    BY <2>1, <2>2, <1>t DEF OnItsWay
<1>2. CASE Net!Refresh
  BY <1>2, <1>t, DisplayKeeps DEF OnItsWay
<1>3. CASE /\ loop.at \in {"recycling", "burying"}
           /\ Net!Withdraw(loop.url)
  <2> SUFFICES ASSUME NEW u \in Url, OnItsWay(u) PROVE registry'[u] # 0
    OBVIOUS
  <2>1. Named(u, registry[u]) \in coming
    BY <1>3 DEF OnItsWay, Net!Coming, Named
  <2>2. registry[u] # epochs[u]
    BY <2>1 DEF NetInv, NetShape, TunnelsAdopted
  <2>3. registry'[u] = registry[u]
    BY <2>2, <1>3, <1>t DEF Net!Withdraw, Net!Withdraws
  <2> QED
    BY <2>3 DEF OnItsWay
<1>4. CASE registry' = registry
  BY <1>4 DEF OnItsWay
<1> QED
  BY <1>1, <1>2, <1>3, <1>4 DEF Net!Next, Net!InitialConnects, Net!AttemptConnects, Net!AttemptFails, Net!TakeFailure,
     Net!TakeConnected, Net!StopPrevious, Net!Bury, Net!Adopt, Net!ProbeSettles, Net!ProbeRevokes, Net!Recycle,
     Net!Recycled, Net!BeginMaintenance, Net!Buried, Net!Retry, Net!EndMaintenance, Net!vars

\* docs/manual/development.md:93: the cleanup of what an address was before does
\* not withdraw its replacement (withdraw_endpoint, unregister_if_epoch).
THEOREM CleanupSparesReplacements == HostSpec => ReplacementsKept
<1>1. HostInit => NetInv
  BY HostStarts, NetStart, HostAssumption
<1>2. NetInv /\ [HostNext]_hostVars => NetInv'
  BY HostSteps, NetStep, HostAssumption
<1>3. NetInv /\ [HostNext]_hostVars =>
        [\A u \in Url : registry[u] # 0 /\ Net!Coming(u, registry[u]) => registry'[u] # 0]_Net!vars
  BY HostSteps, WithdrawsNoReplacement DEF OnItsWay
<1> QED
  BY <1>1, <1>2, <1>3, PTL DEF HostSpec, ReplacementsKept, Net!ReplacementsKept

-----------------------------------------------------------------------------
\* The inbox of deliveries.

\* What holds of the file as it is read and as a power failure would leave it.
Sound(f) ==
  /\ f \in Post!Snapshot
  /\ \A d \in Delivery :
       /\ f[d].state = "absent" => f[d].attempts = 0
       /\ f[d].state = "archived" => d \in archives
       /\ d \in acknowledged => f[d].state # "absent"
       /\ Post!Counted(f, d) /\ Post!Owned(f, d)

PostInv ==
  /\ secret \in Key
  /\ archives \subseteq Delivery
  /\ attempt \in Delivery \cup {NONE}
  /\ begun \in [Delivery -> 0..MaxAttempts]
  /\ Sound(file) /\ Sound(synced)

\* An entry with one field changed.
LEMMA Rekeyed ==
  ASSUME NEW e \in Post!Entry, NEW k \in Key
  PROVE  /\ [e EXCEPT !.key = k] \in Post!Entry
         /\ [e EXCEPT !.key = k].state = e.state
         /\ [e EXCEPT !.key = k].attempts = e.attempts
<1> e = [state |-> e.state, attempts |-> e.attempts, key |-> e.key, behind |-> e.behind]
  BY DEF Post!Entry
<1> QED BY DEF Post!Entry

LEMMA Restated ==
  ASSUME NEW e \in Post!Entry, NEW s \in {"retry", "completed", "exhausted"}
  PROVE  /\ [e EXCEPT !.state = s] \in Post!Entry
         /\ [e EXCEPT !.state = s].state = s
         /\ [e EXCEPT !.state = s].attempts = e.attempts
<1> e = [state |-> e.state, attempts |-> e.attempts, key |-> e.key, behind |-> e.behind]
  BY DEF Post!Entry
<1> QED BY DEF Post!Entry

LEMMA Retried ==
  ASSUME NEW e \in Post!Entry, NEW n \in 0..MaxAttempts
  PROVE  /\ [e EXCEPT !.state = "publishing", !.attempts = n] \in Post!Entry
         /\ [e EXCEPT !.state = "publishing", !.attempts = n].state = "publishing"
         /\ [e EXCEPT !.state = "publishing", !.attempts = n].attempts = n
<1> e = [state |-> e.state, attempts |-> e.attempts, key |-> e.key, behind |-> e.behind]
  BY DEF Post!Entry
<1> QED BY DEF Post!Entry

LEMMA Advanced ==
  ASSUME NEW e \in Post!Entry, NEW b \in SUBSET Delivery
  PROVE  /\ [e EXCEPT !.behind = b] \in Post!Entry
         /\ [e EXCEPT !.behind = b].state = e.state
         /\ [e EXCEPT !.behind = b].attempts = e.attempts
<1> e = [state |-> e.state, attempts |-> e.attempts, key |-> e.key, behind |-> e.behind]
  BY DEF Post!Entry
<1> QED BY DEF Post!Entry

LEMMA Buried ==
  ASSUME NEW e \in Post!Entry, NEW n \in 0..MaxAttempts
  PROVE  /\ [e EXCEPT !.state = "archived", !.attempts = n] \in Post!Entry
         /\ [e EXCEPT !.state = "archived", !.attempts = n].state = "archived"
         /\ [e EXCEPT !.state = "archived", !.attempts = n].attempts = n
<1> e = [state |-> e.state, attempts |-> e.attempts, key |-> e.key, behind |-> e.behind]
  BY DEF Post!Entry
<1> QED BY DEF Post!Entry

LEMMA PostStart == Post!Constants /\ Post!Init => PostInv
<1> SUFFICES ASSUME Post!Constants, Post!Init PROVE PostInv
  OBVIOUS
<1>1. /\ Post!Empty \in Post!Snapshot
      /\ \A d \in Delivery : Post!Empty[d].state = "absent" /\ Post!Empty[d].attempts = 0
  <2>1. \A d \in Delivery : Post!Absent \in Post!Entry
    BY DEF Post!Constants, Post!Absent, Post!Entry
  <2>2. Post!Absent.state = "absent" /\ Post!Absent.attempts = 0
    BY DEF Post!Absent
  <2> QED BY <2>1, <2>2 DEF Post!Empty, Post!Snapshot
<1>2. secret \in Key
  BY DEF Post!Init, Post!Constants
<1>3. begun \in [Delivery -> 0..MaxAttempts] /\ \A d \in Delivery : begun[d] = 0
  BY DEF Post!Init, Post!Constants
<1>4. Sound(Post!Empty)
  BY <1>1, <1>3 DEF Sound, Post!Init, Post!Counted, Post!Owned, Post!Constants
<1> QED BY <1>2, <1>3, <1>4 DEF PostInv, Post!Init

LEMMA EnqueueKeeps ==
  ASSUME Post!Constants, PostInv, NEW d \in Delivery, Post!Enqueue(d)
  PROVE  PostInv'
<1> DEFINE g == Post!Enqueued(d)
<1>1. g \in Post!Snapshot
  <2>1. CASE Post!Fresh(d)
    <3> DEFINE e == [state |-> "queued", attempts |-> 0, key |-> secret, behind |-> Post!Entries(file)]
    <3>1. e \in Post!Entry
      BY DEF Post!Entry, Post!Entries, PostInv, Post!Constants
    <3> QED BY <2>1, <3>1 DEF Post!Enqueued, Post!Snapshot, PostInv, Sound
  <2>2. CASE ~Post!Fresh(d)
    <3>1. [file[d] EXCEPT !.key = secret] \in Post!Entry
      BY Rekeyed DEF PostInv, Sound, Post!Snapshot
    <3> QED BY <2>2, <3>1 DEF Post!Enqueued, Post!Snapshot, PostInv, Sound
  <2> QED BY <2>1, <2>2
<1>2. \A b \in Delivery : b # d => g[b] = file[b]
  BY DEF Post!Enqueued, PostInv, Sound, Post!Snapshot
<1>3. /\ g[d].attempts = file[d].attempts
      /\ g[d].state = IF file[d].state = "absent" THEN "queued" ELSE file[d].state
  <2>1. file[d] \in Post!Entry /\ secret \in Key
    BY DEF PostInv, Sound, Post!Snapshot
  <2>2. CASE Post!Fresh(d)
    BY <2>1, <2>2 DEF Post!Enqueued, Post!Fresh, PostInv, Sound, Post!Snapshot
  <2>3. CASE ~Post!Fresh(d)
    <3> DEFINE e == [file[d] EXCEPT !.key = secret]
    <3>1. e.state = file[d].state /\ e.attempts = file[d].attempts
      BY <2>1, Rekeyed
    <3>2. g[d] = e
      BY <2>3 DEF Post!Enqueued, PostInv, Sound, Post!Snapshot
    <3> HIDE DEF e, g
    <3> QED BY <2>3, <3>1, <3>2 DEF Post!Fresh
  <2> QED BY <2>2, <2>3
<1>4. /\ UNCHANGED <<archives, secret, attempt, begun, reported>>
      /\ file' = g
      /\ \/ synced' = g /\ acknowledged' = acknowledged \cup {d}
         \/ synced' = synced /\ acknowledged' = acknowledged
  BY DEF Post!Enqueue, Post!Confirmed, Post!Unconfirmed, Post!world
<1>5. \A b \in Delivery :
        /\ g[b].state = "absent" => g[b].attempts = 0
        /\ g[b].state = "archived" => b \in archives
        /\ b \in acknowledged \cup {d} => g[b].state # "absent"
        /\ Post!Counted(g, b) /\ Post!Owned(g, b)
  <2> TAKE b \in Delivery
  <2>1. CASE b = d
    BY <1>3, <2>1 DEF PostInv, Sound, Post!Counted, Post!Owned
  <2>2. CASE b # d
    BY <1>2, <2>2 DEF PostInv, Sound, Post!Counted, Post!Owned
  <2> QED BY <2>1, <2>2
<1> HIDE DEF g
<1>6. Sound(file)'
  BY <1>1, <1>4, <1>5 DEF Sound, Post!Counted, Post!Owned
<1>7. Sound(synced)'
  <2>1. CASE synced' = g
    BY <1>6, <1>4, <2>1 DEF Sound, Post!Counted, Post!Owned
  <2>2. CASE synced' = synced /\ acknowledged' = acknowledged
    BY <1>4, <2>2 DEF PostInv, Sound, Post!Counted, Post!Owned
  <2> QED BY <1>4, <2>1, <2>2
<1> QED BY <1>4, <1>6, <1>7 DEF PostInv

LEMMA RecoveredIsSound ==
  ASSUME Post!Constants, PostInv, attempt = NONE
  PROVE  /\ Sound(Post!Recovered)
         /\ \A b \in Delivery : /\ Post!Recovered[b].attempts = file[b].attempts
                                /\ Post!Recovered[b].state =
                                     IF Post!Interrupted(b) THEN "exhausted" ELSE file[b].state
<1> DEFINE g == Post!Recovered
<1>1. ASSUME NEW b \in Delivery
      PROVE  /\ g[b] \in Post!Entry
             /\ g[b].attempts = file[b].attempts
             /\ g[b].state = IF Post!Interrupted(b) THEN "exhausted" ELSE file[b].state
  <2>1. file[b] \in Post!Entry
    BY DEF PostInv, Sound, Post!Snapshot
  <2>2. g[b] = IF Post!Interrupted(b) THEN [file[b] EXCEPT !.state = "exhausted"] ELSE file[b]
    BY DEF Post!Recovered
  <2> DEFINE e == [file[b] EXCEPT !.state = "exhausted"]
  <2>3. e \in Post!Entry /\ e.state = "exhausted" /\ e.attempts = file[b].attempts
    BY <2>1, Restated
  <2> HIDE DEF e, g
  <2> QED BY <2>1, <2>2, <2>3 DEF e
<1>2. g \in Post!Snapshot
  BY <1>1 DEF Post!Recovered, Post!Snapshot
<1>3. ASSUME NEW b \in Delivery
      PROVE  /\ g[b].state = "absent" => g[b].attempts = 0
             /\ g[b].state = "archived" => b \in archives
             /\ b \in acknowledged => g[b].state # "absent"
             /\ Post!Counted(g, b) /\ Post!Owned(g, b)
  BY <1>1, <1>3 DEF PostInv, Sound, Post!Counted, Post!Owned, Post!Interrupted, Post!Constants
<1> HIDE DEF g
<1>4. Sound(g)
  BY <1>2, <1>3 DEF Sound
<1> QED BY <1>1, <1>4 DEF g

LEMMA AttemptedIsSound ==
  ASSUME Post!Constants, PostInv, NEW d \in Delivery, Post!Selected(d), attempt = NONE
  PROVE  /\ Post!Attempted(d) \in Post!Snapshot
         /\ Post!Attempted(d)[d].state = "publishing"
         /\ Post!Attempted(d)[d].attempts = file[d].attempts + 1
         /\ \A b \in Delivery : b # d => Post!Attempted(d)[b] = Post!Recovered[b]
         /\ d \notin reported
         /\ begun[d] \in 0..file[d].attempts /\ file[d].attempts \in 0..(MaxAttempts - 1)
<1> DEFINE e == [file[d] EXCEPT !.state = "publishing", !.attempts = file[d].attempts + 1]
<1>1. /\ file[d] \in Post!Entry /\ Post!Open(file[d])
      /\ file[d].attempts \in Nat /\ file[d].attempts < MaxAttempts
  <2>1. file[d] \in Post!Entry
    BY DEF PostInv, Sound, Post!Snapshot
  <2> QED BY <2>1 DEF Post!Selected, Post!Due, Post!Waits, Post!Entry
<1>2. ~Post!Interrupted(d)
  BY <1>1 DEF Post!Interrupted
<1>3. Post!Recovered \in Post!Snapshot
  BY RecoveredIsSound DEF Sound
<1>4. file[d].attempts + 1 \in 0..MaxAttempts
  BY <1>1 DEF Post!Constants
<1>5. e \in Post!Entry /\ e.state = "publishing" /\ e.attempts = file[d].attempts + 1
  BY <1>1, <1>4, Retried
<1>6. Post!Recovered[d] = file[d]
  BY <1>2 DEF Post!Recovered
<1>7. Post!Attempted(d) = [Post!Recovered EXCEPT ![d] = e]
  BY <1>6 DEF Post!Attempted
<1> HIDE DEF e
<1>8. d \notin reported /\ begun[d] \in 0..file[d].attempts
  BY <1>1 DEF PostInv, Sound, Post!Counted, Post!Open, Post!Constants
<1> QED BY <1>1, <1>3, <1>5, <1>7, <1>8 DEF Post!Snapshot, Post!Constants

LEMMA BeginKeeps ==
  ASSUME Post!Constants, PostInv, NEW d \in Delivery, Post!Begin(d)
  PROVE  PostInv'
<1> DEFINE g == Post!Attempted(d)
<1>1. /\ attempt = NONE /\ Post!Selected(d)
      /\ file' = g /\ synced' = g
      /\ attempt' = d /\ begun' = [begun EXCEPT ![d] = @ + 1]
      /\ UNCHANGED <<archives, secret, acknowledged, reported>>
  BY DEF Post!Begin, Post!Confirmed, Post!world
<1>2. /\ g \in Post!Snapshot /\ g[d].state = "publishing" /\ g[d].attempts = file[d].attempts + 1
      /\ \A b \in Delivery : b # d => g[b] = Post!Recovered[b]
      /\ d \notin reported
      /\ begun[d] \in 0..file[d].attempts /\ file[d].attempts \in 0..(MaxAttempts - 1)
  BY <1>1, AttemptedIsSound
<1>3. Sound(Post!Recovered)
  BY <1>1, RecoveredIsSound
<1>4. begun' \in [Delivery -> 0..MaxAttempts] /\ begun'[d] = begun[d] + 1
      /\ \A b \in Delivery : b # d => begun'[b] = begun[b]
  BY <1>1, <1>2 DEF PostInv, Post!Constants
<1> HIDE DEF g
<1>5. ASSUME NEW b \in Delivery
      PROVE  /\ g[b].state = "absent" => g[b].attempts = 0
             /\ g[b].state = "archived" => b \in archives
             /\ b \in acknowledged => g[b].state # "absent"
             /\ begun'[b] <= g[b].attempts
             /\ b \in reported => g[b].state \in {"completed", "archived"}
             /\ d = b => g[b].state = "publishing"
  <2>1. CASE b = d
    BY <1>2, <1>4, <2>1
  <2>2. CASE b # d
    BY <1>2, <1>3, <1>4, <2>2 DEF Sound, Post!Counted
  <2> QED BY <2>1, <2>2
<1>6. Sound(file)'
  BY <1>1, <1>2, <1>5 DEF Sound, Post!Counted, Post!Owned
<1>7. Sound(synced)'
  BY <1>1, <1>2, <1>5 DEF Sound, Post!Counted, Post!Owned
<1> QED BY <1>1, <1>4, <1>6, <1>7 DEF PostInv

LEMMA BeginFailsKeeps ==
  ASSUME Post!Constants, PostInv, NEW d \in Delivery, Post!BeginFails(d)
  PROVE  PostInv'
<1> DEFINE g == Post!Attempted(d)
<1>1. /\ attempt = NONE /\ Post!Selected(d)
      /\ file' = g /\ synced' \in {Post!Recovered, synced}
      /\ UNCHANGED <<archives, secret, attempt, acknowledged, begun, reported>>
  BY DEF Post!BeginFails, Post!world
<1>2. /\ g \in Post!Snapshot /\ g[d].state = "publishing" /\ g[d].attempts = file[d].attempts + 1
      /\ \A b \in Delivery : b # d => g[b] = Post!Recovered[b]
      /\ d \notin reported
      /\ begun[d] \in 0..file[d].attempts /\ file[d].attempts \in 0..(MaxAttempts - 1)
  BY <1>1, AttemptedIsSound
<1>3. Sound(Post!Recovered)
  BY <1>1, RecoveredIsSound
<1> HIDE DEF g
<1>4. ASSUME NEW b \in Delivery
      PROVE  /\ g[b].state = "absent" => g[b].attempts = 0
             /\ g[b].state = "archived" => b \in archives
             /\ b \in acknowledged => g[b].state # "absent"
             /\ begun[b] <= g[b].attempts
             /\ b \in reported => g[b].state \in {"completed", "archived"}
             /\ attempt = b => g[b].state = "publishing"
  <2>1. CASE b = d
    BY <1>1, <1>2, <2>1 DEF Post!Constants
  <2>2. CASE b # d
    BY <1>2, <1>3, <2>2 DEF Sound, Post!Counted, Post!Owned
  <2> QED BY <2>1, <2>2
<1>5. Sound(file)'
  BY <1>1, <1>2, <1>4 DEF Sound, Post!Counted, Post!Owned
<1>6. Sound(synced)'
  <2>1. ASSUME NEW f, Sound(f), synced' = f
        PROVE  Sound(synced)'
    BY <1>1, <2>1 DEF Sound, Post!Counted, Post!Owned
  <2> QED BY <1>1, <1>3, <2>1 DEF PostInv
<1> QED BY <1>1, <1>5, <1>6 DEF PostInv

LEMMA FinishKeepsDelivery ==
  ASSUME Post!Constants, PostInv, NEW d \in Delivery, NEW ok \in BOOLEAN, Post!Finish(d, ok)
  PROVE  PostInv'
<1> DEFINE g == Post!Finished(d, ok)
           s == IF ok THEN "completed" ELSE IF file[d].attempts = MaxAttempts THEN "exhausted" ELSE "retry"
           e == [file[d] EXCEPT !.state = s]
<1>1. /\ attempt = d /\ file[d].state = "publishing" /\ file' = g
      /\ \/ synced' = g /\ reported' = IF ok THEN reported \cup {d} ELSE reported
         \/ synced' = synced /\ reported' = reported
      /\ attempt' = NONE
      /\ UNCHANGED <<archives, secret, acknowledged, begun>>
  BY DEF Post!Finish, Post!Confirmed, Post!Unconfirmed, Post!world
<1>2. e \in Post!Entry /\ e.state = s /\ e.attempts = file[d].attempts
  <2>1. file[d] \in Post!Entry /\ s \in {"retry", "completed", "exhausted"}
    BY DEF PostInv, Sound, Post!Snapshot
  <2> HIDE DEF s
  <2> QED BY <2>1, Restated
<1>3. g = [file EXCEPT ![d] = e]
  BY DEF Post!Finished
<1>4. ok => s = "completed"
  OBVIOUS
<1>5. s \in {"retry", "completed", "exhausted"}
  OBVIOUS
<1> HIDE DEF e, g, s
<1>6. g \in Post!Snapshot /\ g[d] = e /\ \A b \in Delivery : b # d => g[b] = file[b]
  BY <1>2, <1>3 DEF PostInv, Sound, Post!Snapshot
<1>7. ASSUME NEW b \in Delivery
      PROVE  /\ g[b].state = "absent" => g[b].attempts = 0
             /\ g[b].state = "archived" => b \in archives
             /\ b \in acknowledged => g[b].state # "absent"
             /\ begun[b] <= g[b].attempts
             /\ b \in reported => g[b].state \in {"completed", "archived"}
             /\ b = d /\ ok => g[b].state = "completed"
  <2>1. CASE b = d
    BY <1>1, <1>2, <1>4, <1>5, <1>6, <2>1 DEF PostInv, Sound, Post!Counted
  <2>2. CASE b # d
    BY <1>6, <2>2 DEF PostInv, Sound, Post!Counted
  <2> QED BY <2>1, <2>2
<1>8. Sound(file)'
  BY <1>1, <1>6, <1>7 DEF Sound, Post!Counted, Post!Owned, Post!Constants
<1>9. Sound(synced)'
  <2>1. CASE synced' = g
    BY <1>1, <1>8, <2>1 DEF Sound, Post!Counted, Post!Owned
  <2>2. CASE synced' = synced /\ reported' = reported
    BY <1>1, <2>2 DEF PostInv, Sound, Post!Counted, Post!Owned, Post!Constants
  <2> QED BY <1>1, <2>1, <2>2
<1> QED BY <1>1, <1>8, <1>9 DEF PostInv

LEMMA ArchiveKeeps ==
  ASSUME Post!Constants, PostInv, Post!Archive
  PROVE  PostInv'
<1> DEFINE done == {d \in Delivery : Post!Terminal(file[d])}
           tomb(d) == [Post!Absent EXCEPT !.state = "archived", !.attempts = file[d].attempts]
           rest(d) == [file[d] EXCEPT !.behind = @ \ done]
           g == [d \in Delivery |-> IF d \in done THEN tomb(d) ELSE rest(d)]
<1>1. /\ archives' = archives \cup done
      /\ \/ file' = g /\ synced' = g
         \/ file' = g /\ synced' = synced
         \/ file' = file /\ synced' = synced
      /\ attempt = NONE
      /\ UNCHANGED <<secret, attempt, acknowledged, begun, reported>>
  BY DEF Post!Archive, Post!Confirmed, Post!Unconfirmed, Post!world
<1>2. ASSUME NEW d \in Delivery
      PROVE  /\ tomb(d) \in Post!Entry
             /\ tomb(d).state = "archived"
             /\ tomb(d).attempts = file[d].attempts
  <2>1. file[d].attempts \in 0..MaxAttempts
    BY DEF PostInv, Sound, Post!Snapshot, Post!Entry
  <2>2. Post!Absent \in Post!Entry
    BY DEF Post!Absent, Post!Entry, Post!Constants
  <2> QED BY <2>1, <2>2, Buried
<1>3. ASSUME NEW d \in Delivery
      PROVE  /\ rest(d) \in Post!Entry
             /\ rest(d).state = file[d].state
             /\ rest(d).attempts = file[d].attempts
  <2> DEFINE b == file[d].behind \ done
  <2>1. file[d] \in Post!Entry /\ b \in SUBSET Delivery
    BY DEF PostInv, Sound, Post!Snapshot, Post!Entry
  <2>2. rest(d) = [file[d] EXCEPT !.behind = b]
    OBVIOUS
  <2> HIDE DEF b, rest
  <2>3. /\ [file[d] EXCEPT !.behind = b] \in Post!Entry
        /\ [file[d] EXCEPT !.behind = b].state = file[d].state
        /\ [file[d] EXCEPT !.behind = b].attempts = file[d].attempts
    BY <2>1, Advanced
  <2> QED BY <2>2, <2>3
<1> HIDE DEF tomb, rest
<1>4. g \in Post!Snapshot
  BY <1>2, <1>3 DEF Post!Snapshot
<1>5. ASSUME NEW d \in Delivery
      PROVE  /\ g[d].state = IF d \in done THEN "archived" ELSE file[d].state
             /\ g[d].attempts = file[d].attempts
  BY <1>2, <1>3
<1>6. \A d \in done : file[d].state \in {"completed", "exhausted"}
  BY DEF Post!Terminal
<1> HIDE DEF g, done
<1>7. ASSUME NEW d \in Delivery
      PROVE  /\ g[d].state = "absent" => g[d].attempts = 0
             /\ g[d].state = "archived" => d \in archives \cup done
             /\ d \in acknowledged => g[d].state # "absent"
             /\ begun[d] <= g[d].attempts
             /\ d \in reported => g[d].state \in {"completed", "archived"}
             /\ attempt # d
  BY <1>1, <1>5, <1>6 DEF PostInv, Sound, Post!Counted, Post!Constants
<1>8. ASSUME file' = g PROVE Sound(file)'
  BY <1>1, <1>4, <1>7, <1>8 DEF Sound, Post!Counted, Post!Owned
<1>9. ASSUME file' = file PROVE Sound(file)'
  BY <1>1, <1>9 DEF PostInv, Sound, Post!Counted, Post!Owned
<1>10. ASSUME synced' = g PROVE Sound(synced)'
  BY <1>1, <1>4, <1>7, <1>10 DEF Sound, Post!Counted, Post!Owned
<1>11. ASSUME synced' = synced PROVE Sound(synced)'
  BY <1>1, <1>11 DEF PostInv, Sound, Post!Counted, Post!Owned
<1>12. archives' \subseteq Delivery
  BY <1>1 DEF PostInv, done
<1> QED BY <1>1, <1>8, <1>9, <1>10, <1>11, <1>12 DEF PostInv

LEMMA RedeliverKeeps ==
  ASSUME Post!Constants, PostInv, NEW d \in Delivery, Post!Redeliver(d)
  PROVE  PostInv'
<1>1. /\ file' = file /\ synced' = file /\ file[d].state # "absent"
      /\ acknowledged' = acknowledged \cup {d}
      /\ UNCHANGED <<archives, secret, attempt, begun, reported>>
  BY DEF Post!Redeliver, Post!Fresh, Post!Confirmed, Post!world
<1>2. Sound(file)'
  BY <1>1 DEF PostInv, Sound, Post!Counted, Post!Owned
<1>3. Sound(synced)'
  BY <1>1 DEF PostInv, Sound, Post!Counted, Post!Owned
<1> QED BY <1>1, <1>2, <1>3 DEF PostInv

LEMMA RecoverKeeps ==
  ASSUME Post!Constants, PostInv, Post!Recover
  PROVE  PostInv'
<1> DEFINE g == Post!Recovered
<1>1. /\ attempt = NONE /\ file' = g /\ synced' \in {g, synced}
      /\ UNCHANGED <<archives, secret, attempt, acknowledged, begun, reported>>
  BY DEF Post!Recover, Post!Confirmed, Post!Unconfirmed, Post!world
<1>2. Sound(g)
  BY <1>1, RecoveredIsSound
<1> HIDE DEF g
<1>3. Sound(file)'
  BY <1>1, <1>2 DEF Sound, Post!Counted, Post!Owned
<1>4. Sound(synced)'
  <2>1. ASSUME NEW f, Sound(f), synced' = f
        PROVE  Sound(synced)'
    BY <1>1, <2>1 DEF Sound, Post!Counted, Post!Owned
  <2> QED BY <1>1, <1>2, <2>1 DEF PostInv
<1> QED BY <1>1, <1>3, <1>4 DEF PostInv

\* The steps that write nothing, or only confirm or lose what was written.
LEMMA OthersKeep ==
  ASSUME Post!Constants, PostInv,
         \/ Post!Abandon \/ (\E k \in Key : Post!Rotate(k)) \/ (\E h \in Contended : Post!Contend(h))
         \/ (\E d \in Delivery : Post!Ripen(d))
         \/ Post!Flush \/ Post!Leave \/ Post!PowerFails \/ UNCHANGED Post!vars
  PROVE  PostInv'
<1>1. /\ file' \in {file, synced} /\ synced' \in {file, synced}
      /\ attempt' \in {attempt, NONE} /\ secret' \in Key
      /\ UNCHANGED <<archives, acknowledged, begun, reported>>
  BY DEF PostInv, Post!Abandon, Post!Rotate, Post!Contend, Post!Ripen, Post!Flush, Post!Confirmed,
         Post!Leave, Post!PowerFails, Post!world, Post!vars
<1>2. ASSUME NEW f, Sound(f), file' = f
      PROVE  Sound(file)'
  BY <1>1, <1>2 DEF Sound, Post!Counted, Post!Owned, Post!Constants
<1>3. ASSUME NEW f, Sound(f), synced' = f
      PROVE  Sound(synced)'
  BY <1>1, <1>3 DEF Sound, Post!Counted, Post!Owned, Post!Constants
<1> QED BY <1>1, <1>2, <1>3 DEF PostInv

LEMMA PostStep == Post!Constants /\ PostInv /\ [Post!Next]_Post!vars => PostInv'
<1> SUFFICES ASSUME Post!Constants, PostInv, [Post!Next]_Post!vars PROVE PostInv'
  OBVIOUS
<1>1. CASE \E d \in Delivery : Post!Enqueue(d)
  BY <1>1, EnqueueKeeps
<1>2. CASE \E d \in Delivery : Post!Redeliver(d)
  BY <1>2, RedeliverKeeps
<1>3. CASE Post!Recover
  BY <1>3, RecoverKeeps
<1>4. CASE \E d \in Delivery : Post!Begin(d)
  BY <1>4, BeginKeeps
<1>5. CASE \E d \in Delivery : Post!BeginFails(d)
  BY <1>5, BeginFailsKeeps
<1>6. CASE \E d \in Delivery, ok \in BOOLEAN : Post!Finish(d, ok)
  BY <1>6, FinishKeepsDelivery
<1>7. CASE Post!Archive
  BY <1>7, ArchiveKeeps
<1>8. CASE \/ Post!Abandon \/ (\E k \in Key : Post!Rotate(k)) \/ (\E h \in Contended : Post!Contend(h))
           \/ (\E d \in Delivery : Post!Ripen(d))
           \/ Post!Flush \/ Post!Leave \/ Post!PowerFails \/ UNCHANGED Post!vars
  BY <1>8, OthersKeep
<1> QED BY <1>1, <1>2, <1>3, <1>4, <1>5, <1>6, <1>7, <1>8 DEF Post!Next

\* What the receiver has acknowledged survives every power failure, with every
\* attempt that was begun on it.
THEOREM DeliveriesStayKept == HostSpec => []DeliveriesKept
<1>1. HostInit => PostInv
  BY HostStarts, PostStart, HostAssumption
<1>2. PostInv /\ [HostNext]_hostVars => PostInv'
  BY HostSteps, PostStep, HostAssumption
<1>3. PostInv => DeliveriesKept
  BY DEF PostInv, Sound, DeliveriesKept, Post!DeliveriesKept, Post!Kept, Post!Entries, Post!Tombstones,
         Post!Open, Post!Terminal, Post!Snapshot, Post!Entry
<1> QED
  BY <1>1, <1>2, <1>3, PTL DEF HostSpec

-----------------------------------------------------------------------------
\* A batch of parallel tools.

LEMMA Least ==
  ASSUME NEW T \in SUBSET Nat, T # {}
  PROVE  \E x \in T : \A y \in T : x <= y
<1>1. PICK x \in T : \A y \in T : ~(<<y, x>> \in OpToRel(<, Nat))
  BY WFMin, NatLessThanWellFounded
<1>2. ASSUME NEW y \in T PROVE x <= y
  <2>1. x \in Nat /\ y \in Nat /\ ~(y < x)
    BY <1>1 DEF OpToRel
  <2> QED
    BY <2>1
<1> QED
  BY <1>2

Over == {"ok", "failed"}

\* The names an item is found under on the disk.
RootsFit(e) == e.path \in Seq(STRING) /\ Roots[e.root] \in Seq(STRING)

\* An item that was started waits for nobody, and what it works on was left in
\* order by the items before it.
StartedInOrder(j) ==
  /\ j \in ready => progress[j] = "waiting"
  /\ j \in ready \/ progress[j] # "waiting" => remaining[j] = {}
  /\ progress[j] \in {"running", "ok"} =>
       \A i \in Batch!Predecessors(j) : progress[i] = "ok"

\* An item is waited for until it is over.
WaitedFor(j) == \A i \in Batch!Predecessors(j) : i \in remaining[j] \/ progress[i] \in Over

BatchInv ==
  /\ Batch!TypeOK
  /\ ending \in {"new", "rejected"} =>
       ready = {} /\ \A i \in Batch!Index : progress[i] = "waiting"
  /\ ending \notin {"new", "rejected"} =>
       Batch!Coalesces /\ \A j \in Batch!Active : WaitedFor(j)
  /\ \A j \in Batch!Active : StartedInOrder(j)

\* Nothing that is derived from the items changes with the run.
LEMMA BatchFrame ==
  ASSUME UNCHANGED items
  PROVE  /\ Batch!Index' = Batch!Index /\ Batch!Active' = Batch!Active
         /\ \A j : Batch!Predecessors(j)' = Batch!Predecessors(j)
         /\ Batch!Coalesces' = Batch!Coalesces
BY DEF Batch!Index, Batch!Active, Batch!Merged, Batch!SameFile, Batch!Predecessors, Batch!Before,
       Batch!Conflict, Batch!ConflictAt, Batch!Physical, Batch!ParentFirst, Batch!CreatesParentOf,
       Batch!Coalesces, Batch!MayMerge, Batch!IsPrimary, Batch!InTheWay, Batch!Mutates

LEMMA BatchStart == Batch!Init => BatchInv
<1> SUFFICES ASSUME Batch!Init PROVE BatchInv
  OBVIOUS
<1>1. Batch!TypeOK
  BY DEF Batch!Init, Batch!TypeOK
<1>2. Batch!Active \subseteq Batch!Index
  BY DEF Batch!Active
<1>3. /\ ready = {} /\ ending = "new"
      /\ \A j \in Batch!Index : progress[j] = "waiting" /\ remaining[j] = {}
  BY DEF Batch!Init
<1> QED
  BY <1>1, <1>2, <1>3 DEF BatchInv, StartedInOrder

LEMMA ScheduleKeeps == BatchInv /\ Batch!Schedule => BatchInv'
<1> SUFFICES ASSUME BatchInv, Batch!Schedule PROVE BatchInv'
  OBVIOUS
<1>1. /\ UNCHANGED <<items, progress>> /\ ending = "new" /\ ending' = "running" /\ Batch!Coalesces
      /\ remaining' = [i \in Batch!Index |-> IF i \in Batch!Active THEN Batch!Predecessors(i) ELSE {}]
      /\ ready' = {i \in Batch!Active : Batch!Predecessors(i) = {}}
  BY DEF Batch!Schedule
<1>2. Batch!Active \subseteq Batch!Index /\ \A j : Batch!Predecessors(j) \subseteq Batch!Active
  BY DEF Batch!Active, Batch!Predecessors
<1>3. Batch!TypeOK'
  BY <1>1, <1>2, BatchFrame DEF BatchInv, Batch!TypeOK
<1>4. \A j \in Batch!Active : WaitedFor(j)' /\ StartedInOrder(j)'
  BY <1>1, <1>2, BatchFrame DEF BatchInv, WaitedFor, StartedInOrder
<1> QED
  BY <1>1, <1>3, <1>4, BatchFrame DEF BatchInv

LEMMA LaunchKeeps == BatchInv /\ Batch!Start => BatchInv'
<1> SUFFICES ASSUME BatchInv, Batch!Start PROVE BatchInv'
  OBVIOUS
<1>1. /\ UNCHANGED <<items, remaining, ending>> /\ ending = "running" /\ ready' = {}
      /\ progress' = [i \in Batch!Index |->
                        IF i \notin ready THEN progress[i]
                        ELSE IF Batch!DependencyFailed(i) THEN "skipped" ELSE "running"]
  BY DEF Batch!Start
<1>2. Batch!Active \subseteq Batch!Index /\ \A j : Batch!Predecessors(j) \subseteq Batch!Active
  BY DEF Batch!Active, Batch!Predecessors
<1>3. Batch!TypeOK'
  BY <1>1, BatchFrame DEF BatchInv, Batch!TypeOK
<1>4. \A i \in Batch!Active : progress[i] \in Over => progress'[i] = progress[i]
  BY <1>1, <1>2 DEF BatchInv, StartedInOrder, Over
<1>5. ASSUME NEW j \in Batch!Active PROVE WaitedFor(j)'
  BY <1>1, <1>2, <1>4, BatchFrame DEF BatchInv, WaitedFor
<1>6. ASSUME NEW j \in Batch!Active PROVE StartedInOrder(j)'
  <2>1. CASE j \notin ready
    BY <1>1, <1>2, <1>4, <2>1, BatchFrame DEF BatchInv, StartedInOrder, Over
  <2>2. CASE j \in ready
    <3>1. remaining[j] = {} /\ WaitedFor(j)
      BY <1>1, <2>2 DEF BatchInv, StartedInOrder
    <3>2. progress'[j] = "running" => \A i \in Batch!Predecessors(j) : progress[i] = "ok"
      BY <1>1, <1>2, <2>2, <3>1 DEF WaitedFor, Over, Batch!DependencyFailed
    <3>3. progress'[j] \in {"running", "skipped"}
      BY <1>1, <1>2, <2>2
    <3> QED
      BY <1>1, <1>2, <1>4, <3>1, <3>2, <3>3, BatchFrame DEF StartedInOrder, Over
  <2> QED
    BY <2>1, <2>2
<1> QED
  BY <1>1, <1>3, <1>5, <1>6, BatchFrame DEF BatchInv

LEMMA JoinKeeps ==
  ASSUME BatchInv, NEW n \in Batch!Index, Batch!Join(n)
  PROVE  BatchInv'
<1>1. PICK s \in Over : /\ progress' = [progress EXCEPT ![n] = s]
                        /\ s = "ok" => progress[n] = "running"
  BY DEF Batch!Join, Over
<1>2. /\ UNCHANGED <<items, ending>> /\ ending = "running" /\ ready = {}
      /\ progress[n] \in {"running", "skipped"}
      /\ remaining' = [j \in Batch!Index |-> remaining[j] \ {n}]
      /\ ready' = {j \in Batch!Active : remaining[j] # {} /\ remaining'[j] = {}}
  BY DEF Batch!Join, Batch!Complete
<1>3. Batch!Active \subseteq Batch!Index /\ \A j : Batch!Predecessors(j) \subseteq Batch!Active
  BY DEF Batch!Active, Batch!Predecessors
<1>4. Batch!TypeOK'
  BY <1>1, <1>2, <1>3, BatchFrame DEF BatchInv, Batch!TypeOK, Over
<1>5. \A i \in Batch!Index : progress'[i] = IF i = n THEN s ELSE progress[i]
  BY <1>1 DEF BatchInv, Batch!TypeOK
<1>6. ASSUME NEW j \in Batch!Active PROVE WaitedFor(j)'
  BY <1>2, <1>3, <1>5, BatchFrame DEF BatchInv, WaitedFor, Over
<1>7. ASSUME NEW j \in Batch!Active PROVE StartedInOrder(j)'
  <2>1. /\ j \in ready' => remaining[j] # {} /\ progress[j] = "waiting"
        /\ progress'[j] # "waiting" => progress[j] # "waiting"
        /\ remaining[j] = {} => remaining'[j] = {}
    BY <1>2, <1>3, <1>5 DEF BatchInv, StartedInOrder
  <2>2. j \in ready' => progress'[j] = "waiting" /\ remaining'[j] = {}
    BY <1>2, <1>3, <1>5, <2>1
  <2>3. \A i \in Batch!Predecessors(j) : progress[i] = "ok" => progress'[i] = "ok"
    BY <1>2, <1>3, <1>5
  <2>4. progress'[j] \in {"running", "ok"} => progress[j] \in {"running", "ok"}
    BY <1>1, <1>3, <1>5 DEF Over
  <2>5. /\ j \in ready' => progress'[j] = "waiting" /\ remaining'[j] = {}
        /\ progress'[j] # "waiting" => remaining'[j] = {}
    BY <2>1, <2>2 DEF BatchInv, StartedInOrder
  <2>6. ASSUME progress'[j] \in {"running", "ok"}, NEW i \in Batch!Predecessors(j)
        PROVE  progress'[i] = "ok"
    BY <2>3, <2>4, <2>6 DEF BatchInv, StartedInOrder
  <2> QED
    BY <1>2, <2>5, <2>6, BatchFrame DEF StartedInOrder
<1> QED
  BY <1>2, <1>4, <1>6, <1>7, BatchFrame DEF BatchInv

LEMMA BatchStep == BatchInv /\ [Batch!Next]_Batch!vars => BatchInv'
<1> SUFFICES ASSUME BatchInv, [Batch!Next]_Batch!vars PROVE BatchInv'
  OBVIOUS
<1>1. ASSUME UNCHANGED <<items, remaining, ready, progress>>,
             ending' \in {"new", "running", "done", "rejected", "stalled", "cancelled"},
             ending' = ending \/ (ending = "new" /\ ending' = "rejected")
               \/ (ending = "running" /\ ending' # "new" /\ ending' # "rejected")
      PROVE  BatchInv'
  BY <1>1, BatchFrame DEF BatchInv, Batch!TypeOK, WaitedFor, StartedInOrder
<1>2. CASE Batch!Reject
  BY <1>1, <1>2 DEF Batch!Reject
<1>3. CASE Batch!End
  BY <1>1, <1>3 DEF Batch!End
<1>4. CASE Batch!Cancel
  BY <1>1, <1>4 DEF Batch!Cancel
<1>5. CASE UNCHANGED Batch!vars
  <2>1. ending' \in {"new", "running", "done", "rejected", "stalled", "cancelled"}
    BY <1>5 DEF Batch!vars, BatchInv, Batch!TypeOK
  <2> QED
    BY <1>1, <1>5, <2>1 DEF Batch!vars
<1> QED
  BY <1>2, <1>3, <1>4, <1>5, ScheduleKeeps, LaunchKeeps, JoinKeeps DEF Batch!Next

\* Every item is done by one that is not merged into another: itself, or the
\* first edit of its file.
LEMMA PrimaryFacts ==
  ASSUME Batch!Constants, Batch!TypeOK, NEW j \in Batch!Index
  PROVE  LET p == Batch!Primary(j) IN
         /\ p \in Batch!Active /\ Batch!IsPrimary(p, j)
         /\ p = j \/ (p < j /\ Batch!SameFile(p, j))
<1>1. Batch!Index \subseteq Nat
  BY DEF Batch!Constants, Batch!TypeOK, Batch!Index
<1>2. \E i \in Batch!Index : Batch!IsPrimary(i, j)
  <2>1. CASE j \in Batch!Active
    BY <2>1 DEF Batch!IsPrimary
  <2>2. CASE j \notin Batch!Active
    <3> DEFINE T == {i \in Batch!Index : i < j /\ Batch!SameFile(i, j)}
    <3>1. T \in SUBSET Nat /\ T # {}
      BY <1>1, <2>2 DEF Batch!Active, Batch!Merged
    <3>2. PICK i \in T : \A k \in T : i <= k
      BY <3>1, Least
    <3>3. ASSUME NEW k \in Batch!Index, k < i, Batch!SameFile(k, i) PROVE FALSE
      <4>1. i \in Batch!Index /\ i < j /\ Batch!SameFile(i, j)
        BY <3>2
      <4>2. Batch!SameFile(k, j)
        BY <3>3, <4>1 DEF Batch!SameFile
      <4>3. k < j
        BY <1>1, <3>3, <4>1
      <4> QED
        BY <1>1, <3>2, <3>3, <4>2, <4>3
    <3> QED
      BY <3>2, <3>3 DEF Batch!Active, Batch!Merged, Batch!IsPrimary
  <2> QED
    BY <2>1, <2>2
<1>3. Batch!Primary(j) \in Batch!Index /\ Batch!IsPrimary(Batch!Primary(j), j)
  BY <1>2 DEF Batch!Primary
<1> QED
  BY <1>3 DEF Batch!IsPrimary

\* Two paths below one directory overlap on the disk when they do as given.
LEMMA OverlapBelow ==
  ASSUME NEW r \in Seq(STRING), NEW p \in Seq(STRING), NEW q \in Seq(STRING),
         Batch!Within(r \o p, r \o q)
  PROVE  Batch!Within(p, q)
<1>1. Len(p) <= Len(q)
  BY DEF Batch!Within
<1>2. ASSUME NEW k \in 1..Len(p) PROVE q[k] = p[k]
  <2>1. Len(r) \in Nat /\ Len(p) \in Nat /\ Len(q) \in Nat
    OBVIOUS
  <2>2. Len(r) + k \in 1..Len(r \o p) /\ k \in 1..Len(q)
    BY <1>1, <2>1
  <2>3. (r \o q)[Len(r) + k] = (r \o p)[Len(r) + k]
    BY <2>2 DEF Batch!Within
  <2>4. (r \o p)[Len(r) + k] = p[k] /\ (r \o q)[Len(r) + k] = q[k]
    BY <1>1, <2>1, <2>2
  <2> QED
    BY <2>3, <2>4
<1> QED
  BY <1>1, <1>2 DEF Batch!Within

\* Where two items do not agree about a path, their primaries do not either,
\* and run in the order the caller asked for.
LEMMA PrimariesInOrder ==
  ASSUME Batch!Constants, Batch!TypeOK, Batch!Coalesces,
         NEW i \in Batch!Index, NEW j \in Batch!Index,
         i < j, Batch!Conflict(i, j), ~Batch!SameFile(i, j)
  PROVE  IF Batch!ParentFirst(j, i) THEN Batch!Before(Batch!Primary(j), Batch!Primary(i))
         ELSE Batch!Before(Batch!Primary(i), Batch!Primary(j))
<1> DEFINE a == Batch!Primary(i)
           b == Batch!Primary(j)
<1>1. Batch!Index \subseteq Nat
  BY DEF Batch!Constants, Batch!TypeOK, Batch!Index
<1>2. /\ a \in Batch!Active /\ Batch!IsPrimary(a, i) /\ (a = i \/ (a < i /\ Batch!SameFile(a, i)))
      /\ b \in Batch!Active /\ Batch!IsPrimary(b, j) /\ (b = j \/ (b < j /\ Batch!SameFile(b, j)))
  BY PrimaryFacts
<1>3. a \in Batch!Index /\ b \in Batch!Index
  BY <1>2 DEF Batch!Active
<1> HIDE DEF a, b
<1>4. a # b
  BY <1>1, <1>2 DEF Batch!SameFile
<1>5. /\ items[a].tool = items[i].tool /\ items[a].root = items[i].root
      /\ items[a].path = items[i].path
      /\ items[b].tool = items[j].tool /\ items[b].root = items[j].root
      /\ items[b].path = items[j].path
  BY <1>2 DEF Batch!SameFile
<1>6. Batch!Physical(a) = Batch!Physical(i) /\ Batch!Physical(b) = Batch!Physical(j)
  BY <1>5 DEF Batch!Physical
<1>7. Batch!Conflict(a, b) /\ Batch!Conflict(b, a)
  BY <1>5, <1>6 DEF Batch!Conflict, Batch!ConflictAt, Batch!Mutates, Batch!Overlap
<1>8. /\ Batch!ParentFirst(a, b) <=> Batch!ParentFirst(i, j)
      /\ Batch!ParentFirst(b, a) <=> Batch!ParentFirst(j, i)
  BY <1>5, <1>6 DEF Batch!ParentFirst, Batch!CreatesParentOf
<1>9. a < b
  <2> SUFFICES ASSUME b < a PROVE FALSE
    BY <1>1, <1>3, <1>4
  <2>1. b < a /\ a < j /\ j \in Batch!Merged
    BY <1>1, <1>2, <1>3 DEF Batch!Merged
  <2>2. ~Batch!InTheWay(a, j)
    BY <1>2, <2>1 DEF Batch!Coalesces, Batch!MayMerge
  <2>3. /\ items[a].root = items[j].root
        /\ ~Batch!ConflictAt(a, j, items[a].path, items[j].path)
    BY <2>2 DEF Batch!InTheWay
  <2>4. RootsFit(items[a]) /\ RootsFit(items[j])
    <3>1. items[a] \in Batch!Item /\ items[j] \in Batch!Item
      BY <1>3 DEF Batch!Constants, Batch!TypeOK, Batch!Index
    <3>2. \A e \in Batch!Item : e.path \in Seq(STRING) /\ e.root \in DOMAIN Roots
      BY DEF Batch!Item
    <3> QED
      BY <3>1, <3>2 DEF Batch!Constants, RootsFit
  <2>5. ~Batch!Overlap(items[a].path, items[j].path)
    BY <1>5, <1>7, <2>3 DEF Batch!Conflict, Batch!ConflictAt, Batch!Mutates
  <2>6. ~Batch!Overlap(Batch!Physical(a), Batch!Physical(j))
    BY <2>3, <2>4, <2>5, OverlapBelow DEF Batch!Overlap, Batch!Physical, RootsFit
  <2> QED
    BY <1>6, <1>7, <2>6 DEF Batch!Conflict, Batch!ConflictAt
<1> QED
  <2>1. IF Batch!ParentFirst(j, i) THEN Batch!Before(b, a) ELSE Batch!Before(a, b)
    BY <1>1, <1>3, <1>4, <1>7, <1>8, <1>9 DEF Batch!Before
  <2> QED
    BY <2>1 DEF a, b

LEMMA BatchOrdered == Batch!Constants /\ BatchInv => InputOrder
<1> SUFFICES ASSUME Batch!Constants, BatchInv, NEW i \in Batch!Index, NEW j \in Batch!Index,
                    i < j, Batch!Conflict(i, j), ~Batch!SameFile(i, j)
             PROVE  LET one == IF Batch!ParentFirst(j, i) THEN j ELSE i
                        other == IF Batch!ParentFirst(j, i) THEN i ELSE j
                    IN  progress[Batch!Primary(other)] \in {"running", "ok"} =>
                          progress[Batch!Primary(one)] = "ok"
  BY DEF InputOrder, Batch!InputOrder
<1>1. Batch!Primary(i) \in Batch!Active /\ Batch!Primary(j) \in Batch!Active
  BY PrimaryFacts DEF BatchInv
<1>2. CASE ending \in {"new", "rejected"}
  BY <1>1, <1>2 DEF BatchInv, Batch!Active
<1>3. CASE ending \notin {"new", "rejected"}
  <2>1. IF Batch!ParentFirst(j, i) THEN Batch!Before(Batch!Primary(j), Batch!Primary(i))
        ELSE Batch!Before(Batch!Primary(i), Batch!Primary(j))
    BY <1>3, PrimariesInOrder DEF BatchInv
  <2>2. ASSUME NEW a \in Batch!Active, NEW b \in Batch!Active, Batch!Before(a, b),
               progress[b] \in {"running", "ok"}
        PROVE  progress[a] = "ok"
    BY <2>2 DEF BatchInv, StartedInOrder, Batch!Predecessors
  <2> QED
    BY <1>1, <2>1, <2>2
<1> QED
  BY <1>2, <1>3

\* scheduler.rs: of two items that touch the same path on the disk the later
\* one works only after the earlier one has succeeded, for batches of any
\* length and any merging of edits, in a workspace and the one nested in it.
THEOREM BatchesRunInOrder == HostSpec => []InputOrder
<1>1. HostInit => BatchInv
  BY HostStarts, BatchStart
<1>2. BatchInv /\ [HostNext]_hostVars => BatchInv'
  BY HostSteps, BatchStep
<1>3. BatchInv => InputOrder
  BY BatchOrdered, HostAssumption
<1> QED
  BY <1>1, <1>2, <1>3, PTL DEF HostSpec

-----------------------------------------------------------------------------
\* The admission of tool calls.

\* All calls take what they need in this order; a reader and a writer of the
\* cargo lock of a workspace exclude each other and stand in one place.
Rank == [execution |-> 1, slot |-> 2, tests |-> 3, read |-> 4, write |-> 4,
         registry |-> 5, local |-> 6, host |-> 7]

Ascending(p) ==
  \A i \in 1..Len(p) : /\ p[i] \in Tools!Resource
                       /\ \A j \in 1..Len(p) : i < j => Rank[p[i]] < Rank[p[j]]

\* The admission's instance has its own name for the size of a set.
LEMMA SameSize == \A S : Tools!Cardinality(S) = Cardinality(S)
BY DEF Tools!Cardinality, Cardinality

Below(p, q) == \A i \in 1..Len(p), j \in 1..Len(q) : Rank[p[i]] < Rank[q[j]]

LEMMA AscendingJoined ==
  ASSUME NEW p \in Seq(Tools!Resource), NEW q \in Seq(Tools!Resource),
         Ascending(p), Ascending(q), Below(p, q)
  PROVE  p \o q \in Seq(Tools!Resource) /\ Ascending(p \o q)
<1> DEFINE s == p \o q
<1>1. /\ s \in Seq(Tools!Resource) /\ Len(p) \in Nat /\ Len(q) \in Nat
      /\ Len(s) = Len(p) + Len(q)
  OBVIOUS
<1>2. \A i \in 1..Len(s) : s[i] = IF i <= Len(p) THEN p[i] ELSE q[i - Len(p)]
  OBVIOUS
<1>3. \A i \in 1..Len(s) : i <= Len(p) => i \in 1..Len(p)
  BY <1>1
<1>4. \A i \in 1..Len(s) : ~(i <= Len(p)) => i - Len(p) \in 1..Len(q)
  BY <1>1
<1> HIDE DEF s
<1>5. ASSUME NEW i \in 1..Len(s), NEW j \in 1..Len(s), i < j PROVE Rank[s[i]] < Rank[s[j]]
  <2>1. CASE j <= Len(p)
    <3>1. i <= Len(p)
      BY <1>1, <1>5, <2>1
    <3>2. s[i] = p[i] /\ s[j] = p[j] /\ i \in 1..Len(p) /\ j \in 1..Len(p)
      BY <1>2, <1>3, <2>1, <3>1
    <3> QED
      BY <1>5, <3>2 DEF Ascending
  <2>2. CASE i <= Len(p) /\ ~(j <= Len(p))
    BY <1>2, <1>3, <1>4, <2>2 DEF Below
  <2>3. CASE ~(i <= Len(p)) /\ ~(j <= Len(p))
    <3>1. /\ s[i] = q[i - Len(p)] /\ s[j] = q[j - Len(p)]
          /\ i - Len(p) \in 1..Len(q) /\ j - Len(p) \in 1..Len(q)
      BY <1>2, <1>4, <2>3
    <3>2. i - Len(p) < j - Len(p)
      BY <1>1, <1>5
    <3> QED
      BY <3>1, <3>2 DEF Ascending
  <2> QED
    BY <1>1, <1>5, <2>1, <2>2, <2>3
<1>6. \A i \in 1..Len(s) : s[i] \in Tools!Resource
  BY <1>1
<1>7. Ascending(s)
  BY <1>5, <1>6 DEF Ascending
<1> QED
  BY <1>1, <1>7 DEF s

\* The gates of a command stand between the slots of the harness and the child slots.
LEMMA GatesAscend ==
  ASSUME NEW lane \in Tools!Lane
  PROVE  /\ Tools!Gates(lane) \in Seq(Tools!Resource) /\ Ascending(Tools!Gates(lane))
         /\ \A i \in 1..Len(Tools!Gates(lane)) : Rank[Tools!Gates(lane)[i]] \in 3..5
<1> DEFINE Fits(g) == /\ g \in Seq(Tools!Resource) /\ Ascending(g)
                      /\ \A i \in 1..Len(g) : Rank[g[i]] \in 3..5
<1>1. /\ Rank["registry"] = 5 /\ Rank["tests"] = 3 /\ Rank["read"] = 4 /\ Rank["write"] = 4
      /\ {"registry", "tests", "read", "write"} \subseteq Tools!Resource
  BY DEF Rank, Tools!Resource
<1>2. Fits(<<>>)
  BY DEF Ascending
<1>3. Fits(<<"registry">>) /\ Fits(<<"write">>)
  BY <1>1 DEF Ascending
<1>4. Fits(<<"tests", "read">>) /\ Fits(<<"write", "registry">>)
  BY <1>1 DEF Ascending
<1> HIDE DEF Fits
<1>5. Fits(Tools!Gates(lane))
  BY <1>2, <1>3, <1>4 DEF Tools!Gates, Tools!Lane
<1> QED
  BY <1>5 DEF Fits

LEMMA PathAscends ==
  ASSUME Tools!Constants, NEW c \in Call
  PROVE  Len(Tools!Path(c)) \in Nat \ {0} /\ Ascending(Tools!Path(c))
<1>1. /\ Rank["execution"] = 1 /\ Rank["slot"] = 2 /\ Rank["local"] = 6 /\ Rank["host"] = 7
      /\ {"execution", "slot", "local", "host"} \subseteq Tools!Resource
  BY DEF Rank, Tools!Resource
<1>2. CASE c = "read"
  BY <1>1, <1>2 DEF Tools!Path, Tools!Harness, Ascending
<1>3. CASE c # "read"
  <2> DEFINE lane == Lanes[c]
             g == Tools!Gates(lane)
             h == <<"execution", "slot">>
             k == <<"local", "host">>
  <2>1. lane \in Tools!Lane
    BY <1>3 DEF Tools!Constants
  <2>2. Tools!Path(c) = (h \o g) \o k
    BY <1>3 DEF Tools!Path, Tools!Harness, Tools!Children
  <2>3. h \in Seq(Tools!Resource) /\ Ascending(h) /\ \A i \in 1..Len(h) : Rank[h[i]] \in 1..2
    BY <1>1 DEF Ascending
  <2>4. k \in Seq(Tools!Resource) /\ Ascending(k) /\ \A i \in 1..Len(k) : Rank[k[i]] \in 6..7
    BY <1>1 DEF Ascending
  <2>5. g \in Seq(Tools!Resource) /\ Ascending(g) /\ \A i \in 1..Len(g) : Rank[g[i]] \in 3..5
    BY <2>1, GatesAscend
  <2>6. Len(h) = 2 /\ Len(k) = 2
    OBVIOUS
  <2> HIDE DEF g, h, k, lane
  <2>7. Below(h, g)
    BY <2>3, <2>5 DEF Below
  <2>8. h \o g \in Seq(Tools!Resource) /\ Ascending(h \o g)
    BY <2>3, <2>5, <2>7, AscendingJoined
  <2>9. Below(h \o g, k)
    <3>1. Len(h \o g) = Len(h) + Len(g) /\ Len(h) \in Nat /\ Len(g) \in Nat
      BY <2>3, <2>5
    <3>2. ASSUME NEW i \in 1..Len(h \o g) PROVE Rank[(h \o g)[i]] \in 1..5
      <4>1. CASE i <= Len(h)
        <5>1. i \in 1..Len(h) /\ (h \o g)[i] = h[i]
          BY <2>3, <2>5, <3>1, <4>1
        <5> QED
          BY <2>3, <5>1
      <4>2. CASE ~(i <= Len(h))
        <5>1. i - Len(h) \in 1..Len(g) /\ (h \o g)[i] = g[i - Len(h)]
          BY <2>3, <2>5, <3>1, <4>2
        <5> QED
          BY <2>5, <5>1
      <4> QED
        BY <4>1, <4>2
    <3>3. ASSUME NEW i \in 1..Len(h \o g), NEW j \in 1..Len(k)
          PROVE  Rank[(h \o g)[i]] < Rank[k[j]]
      <4>1. Rank[(h \o g)[i]] \in 1..5 /\ Rank[k[j]] \in 6..7
        BY <2>4, <3>2
      <4> QED
        BY <4>1
    <3> QED
      BY <3>3 DEF Below
  <2>10. Ascending((h \o g) \o k)
    BY <2>4, <2>8, <2>9, AscendingJoined
  <2>11. Len((h \o g) \o k) \in Nat \ {0}
    <3> DEFINE u == h \o g
    <3>0. u \in Seq(Tools!Resource)
      BY <2>8
    <3> HIDE DEF u
    <3>1. Len(u) \in Nat /\ Len(u \o k) = Len(u) + Len(k)
      <4>1. k \in Seq(Tools!Resource)
        BY <2>4
      <4> QED
        BY <3>0, <4>1
    <3>2. Len(u \o k) \in Nat \ {0}
      BY <2>6, <3>1
    <3> QED
      BY <3>2 DEF u
  <2> QED
    BY <2>2, <2>10, <2>11
<1> QED
  BY <1>2, <1>3

\* A call holds a beginning of its path.
Halfway(c, n) ==
  /\ n < Len(Tools!Path(c))
  /\ Cardinality(held[c]) = n
  /\ held[c] = {Tools!Path(c)[i] : i \in 1..n}

ToolsInv ==
  /\ Tools!TypeOK
  /\ \A c \in Call : /\ IsFiniteSet(held[c])
                     /\ state[c] = "away" => held[c] = {}
                     /\ state[c] = "waiting" => \E n \in Nat : Halfway(c, n)

LEMMA ToolsStart == Tools!Init => ToolsInv
BY FS_EmptySet DEF Tools!Init, ToolsInv, Tools!TypeOK, Halfway

\* Everything a call that waits has is below what it waits for.
LEMMA WantsMore ==
  ASSUME Tools!Constants, ToolsInv, NEW c \in Call, state[c] = "waiting"
  PROVE  /\ Tools!Wanted(c) \in Tools!Resource
         /\ \A r \in held[c] : r \in Tools!Resource /\ Rank[r] < Rank[Tools!Wanted(c)]
<1> DEFINE p == Tools!Path(c)
<1>1. PICK n \in Nat : Halfway(c, n)
  BY DEF ToolsInv
<1>2. Len(p) \in Nat /\ Ascending(p)
  BY PathAscends
<1>3. Tools!Wanted(c) = p[n + 1] /\ held[c] = {p[i] : i \in 1..n} /\ n < Len(p)
  <2>1. Cardinality(held[c]) = n /\ held[c] = {p[i] : i \in 1..n} /\ n < Len(p)
    BY <1>1 DEF Halfway
  <2> QED
    BY <2>1, SameSize DEF Tools!Wanted
<1> HIDE DEF p
<1>4. n + 1 \in 1..Len(p) /\ \A i \in 1..n : i \in 1..Len(p) /\ i < n + 1
  BY <1>2, <1>3
<1> QED
  BY <1>2, <1>3, <1>4 DEF Ascending

LEMMA TakeKeeps ==
  ASSUME Tools!Constants, ToolsInv, NEW c \in Call, Tools!Take(c)
  PROVE  ToolsInv'
<1> DEFINE p == Tools!Path(c)
           r == Tools!Wanted(c)
<1>1. /\ state[c] = "waiting"
      /\ held' = [held EXCEPT ![c] = held[c] \cup {r}]
      /\ state' = [state EXCEPT ![c] = IF Cardinality(held[c]) + 1 = Len(p) THEN "working"
                                       ELSE state[c]]
  BY SameSize DEF Tools!Take
<1>2. PICK n \in Nat : Halfway(c, n)
  BY <1>1 DEF ToolsInv
<1>3. r \in Tools!Resource /\ r \notin held[c]
  <2>1. \A q \in Tools!Resource : Rank[q] \in Nat
    BY DEF Rank, Tools!Resource
  <2> QED
    BY <1>1, <2>1, WantsMore
<1>4. r = p[n + 1] /\ Len(p) \in Nat
  <2>1. Cardinality(held[c]) = n
    BY <1>2 DEF Halfway
  <2> QED
    BY <2>1, PathAscends, SameSize DEF Tools!Wanted
<1> HIDE DEF r
<1>5. IsFiniteSet(held[c] \cup {r}) /\ Cardinality(held[c] \cup {r}) = n + 1
  BY <1>2, <1>3, FS_AddElement DEF ToolsInv, Halfway
<1>6. held[c] \cup {r} = {p[i] : i \in 1..(n + 1)}
  <2>1. 1..(n + 1) = (1..n) \cup {n + 1}
    OBVIOUS
  <2> QED
    BY <1>2, <1>4, <2>1 DEF Halfway
<1>7. Tools!TypeOK'
  BY <1>1, <1>3 DEF ToolsInv, Tools!TypeOK
<1>8. /\ held'[c] = held[c] \cup {r}
      /\ \A d \in Call \ {c} : held'[d] = held[d] /\ state'[d] = state[d]
      /\ state'[c] = IF n + 1 = Len(p) THEN "working" ELSE "waiting"
  <2>1. Cardinality(held[c]) = n
    BY <1>2 DEF Halfway
  <2> QED
    BY <1>1, <2>1 DEF ToolsInv, Tools!TypeOK
<1>9. state'[c] = "waiting" => Halfway(c, n + 1)'
  <2>1. n < Len(p)
    BY <1>2 DEF Halfway
  <2>2. state'[c] = "waiting" => n + 1 < Len(p)
    BY <1>4, <1>8, <2>1
  <2>3. Tools!Path(c)' = p
    BY DEF Tools!Path, Tools!Harness, Tools!Gates, Tools!Children
  <2> HIDE DEF p
  <2> QED
    BY <1>5, <1>6, <1>8, <2>2, <2>3 DEF Halfway
<1>10. \A d \in Call \ {c}, m \in Nat : Halfway(d, m) => Halfway(d, m)'
  BY <1>8 DEF Halfway, Tools!Path, Tools!Harness, Tools!Gates, Tools!Children
<1>11. ASSUME NEW d \in Call \ {c}
       PROVE  /\ IsFiniteSet(held'[d])
              /\ state'[d] = "away" => held'[d] = {}
              /\ state'[d] = "waiting" => \E m \in Nat : Halfway(d, m)'
  BY <1>8, <1>10 DEF ToolsInv
<1>12. /\ IsFiniteSet(held'[c]) /\ state'[c] # "away"
       /\ state'[c] = "waiting" => \E m \in Nat : Halfway(c, m)'
  <2>1. n + 1 \in Nat /\ IsFiniteSet(held'[c])
    BY <1>5, <1>8
  <2> QED
    BY <1>8, <1>9, <2>1
<1>13. ASSUME NEW d \in Call
       PROVE  /\ IsFiniteSet(held'[d])
              /\ state'[d] = "away" => held'[d] = {}
              /\ state'[d] = "waiting" => \E m \in Nat : Halfway(d, m)'
  <2>1. CASE d = c
    BY <1>12, <2>1
  <2>2. CASE d # c
    BY <1>11, <2>2
  <2> QED
    BY <2>1, <2>2
<1> QED
  BY <1>7, <1>13 DEF ToolsInv

\* What a call goes away with: nothing.
LEMMA GiveAllBackKeeps ==
  ASSUME ToolsInv, NEW c \in Call, Tools!GiveAllBack(c)
  PROVE  ToolsInv'
<1>1. /\ held' = [held EXCEPT ![c] = {}] /\ state' = [state EXCEPT ![c] = "away"]
  BY DEF Tools!GiveAllBack
<1>2. Tools!TypeOK'
  BY <1>1 DEF ToolsInv, Tools!TypeOK
<1>3. /\ held'[c] = {} /\ state'[c] = "away"
      /\ \A d \in Call \ {c} : held'[d] = held[d] /\ state'[d] = state[d]
  BY <1>1 DEF ToolsInv, Tools!TypeOK
<1>4. \A d \in Call \ {c}, m \in Nat : Halfway(d, m) => Halfway(d, m)'
  BY <1>3 DEF Halfway, Tools!Path, Tools!Harness, Tools!Gates, Tools!Children
<1> QED
  BY <1>2, <1>3, <1>4, FS_EmptySet DEF ToolsInv

LEMMA ToolsStep == Tools!Constants /\ ToolsInv /\ [Tools!Next]_Tools!vars => ToolsInv'
<1> SUFFICES ASSUME Tools!Constants, ToolsInv, [Tools!Next]_Tools!vars PROVE ToolsInv'
  OBVIOUS
<1>1. ASSUME UNCHANGED held PROVE \A d \in Call, m \in Nat : Halfway(d, m) => Halfway(d, m)'
  BY <1>1 DEF Halfway, Tools!Path, Tools!Harness, Tools!Gates, Tools!Children
<1>2. ASSUME NEW c \in Call, Tools!Ask(c) PROVE ToolsInv'
  <2>1. state[c] = "away" /\ state' = [state EXCEPT ![c] = "waiting"] /\ held' = held
    BY <1>2 DEF Tools!Ask
  <2>2. held[c] = {} /\ Cardinality({}) = 0 /\ Len(Tools!Path(c)) \in Nat \ {0}
    BY <2>1, FS_EmptySet, PathAscends DEF ToolsInv
  <2>3. Halfway(c, 0)
    BY <2>2 DEF Halfway
  <2>4. Tools!TypeOK'
    BY <2>1 DEF ToolsInv, Tools!TypeOK
  <2>5. /\ state'[c] = "waiting" /\ \A d \in Call \ {c} : state'[d] = state[d]
    BY <2>1 DEF ToolsInv, Tools!TypeOK
  <2> QED
    BY <1>1, <2>1, <2>3, <2>4, <2>5 DEF ToolsInv
<1>3. ASSUME NEW c \in Call, Tools!Abandon(c) PROVE ToolsInv'
  <2>1. CASE Tools!GiveAllBack(c)
    BY <2>1, GiveAllBackKeeps
  <2>2. CASE state' = [state EXCEPT ![c] = "orphan"] /\ UNCHANGED held
    BY <1>1, <2>2 DEF ToolsInv, Tools!TypeOK
  <2> QED
    BY <1>3, <2>1, <2>2 DEF Tools!Abandon
<1>4. CASE UNCHANGED Tools!vars
  BY <1>1, <1>4 DEF Tools!vars, ToolsInv, Tools!TypeOK
<1> QED
  BY <1>2, <1>3, <1>4, TakeKeeps, GiveAllBackKeeps DEF Tools!Next, Tools!Done, Tools!GiveUp

\* Who has to wait waits for somebody that is as far, or further.
LEMMA BlockedBySomebody ==
  ASSUME Tools!Constants, NEW c \in Call, NEW r \in Tools!Resource, ~Tools!Free(c, r)
  PROVE  \E d \in Call : \E q \in held[d] : q \in Tools!Resource /\ Rank[r] <= Rank[q]
<1>1. ASSUME NEW q \in Tools!Resource, NEW S \in SUBSET Tools!Holders(q), S # {},
             Rank[r] <= Rank[q]
      PROVE  \E d \in Call : \E t \in held[d] : t \in Tools!Resource /\ Rank[r] <= Rank[t]
  BY <1>1 DEF Tools!Holders
<1>2. \A q \in Tools!Resource : Rank[q] \in Nat
  BY DEF Rank, Tools!Resource
<1>3. \A q : Tools!Nearby(c, q) \in SUBSET Tools!Holders(q)
  BY DEF Tools!Nearby
<1>4. Rank["read"] = Rank["write"] /\ {"read", "write"} \subseteq Tools!Resource
  BY DEF Rank, Tools!Resource
<1>5. 0 < Slots /\ 0 < LocalChildren /\ 0 < HostChildren
  BY DEF Tools!Constants
<1>6. 0 < Tools!ExecutionLimit
  BY DEF Tools!Constants, Tools!ExecutionLimit, Tools!Greater, Tools!Lesser, Tools!CeilDiv
<1>7. Tools!Cardinality({}) = 0
  BY FS_EmptySet, SameSize
<1>8. CASE r \in {"read", "write"}
  <2>1. Tools!Nearby(c, "write") # {} \/ Tools!Nearby(c, "read") # {}
    BY <1>8 DEF Tools!Free
  <2> QED
    BY <1>1, <1>2, <1>3, <1>4, <1>8, <2>1
<1>9. CASE r \notin {"read", "write"}
  <2>1. ASSUME r = "execution" PROVE Tools!Holders(r) # {}
    BY <1>6, <1>7, <2>1 DEF Tools!Free
  <2>2. ASSUME r = "slot" PROVE Tools!Holders(r) # {}
    BY <1>5, <1>7, <2>2 DEF Tools!Free
  <2>3. ASSUME r = "host" PROVE Tools!Holders(r) # {}
    BY <1>5, <1>7, <2>3 DEF Tools!Free
  <2>4. ASSUME r = "registry" PROVE Tools!Holders(r) # {}
    BY <2>4 DEF Tools!Free
  <2>5. ASSUME r \in {"tests", "local"} PROVE Tools!Holders(r) # {}
    <3>1. Tools!Nearby(c, r) # {}
      BY <1>5, <1>7, <2>5 DEF Tools!Free
    <3> QED
      BY <1>3, <3>1
  <2>6. Tools!Holders(r) # {}
    BY <1>9, <2>1, <2>2, <2>3, <2>4, <2>5 DEF Tools!Resource
  <2> QED
    BY <1>1, <1>2, <2>6
<1> QED
  BY <1>8, <1>9

LEMMA NoCircle == Tools!Constants /\ ToolsInv => SomeoneCanGo
<1> SUFFICES ASSUME Tools!Constants, ToolsInv, NEW c0 \in Call, state[c0] = "waiting",
                    \A c \in Call : /\ state[c] \notin {"working", "orphan"}
                                    /\ state[c] = "waiting" => ~Tools!Free(c, Tools!Wanted(c))
             PROVE  FALSE
  BY DEF SomeoneCanGo, Tools!SomeoneCanGo
<1> DEFINE W == {c \in Call : state[c] = "waiting"}
           T == {Rank[Tools!Wanted(c)] : c \in W}
<1>1. \A q \in Tools!Resource : Rank[q] \in 0..7
  BY DEF Rank, Tools!Resource
<1>2. \A c \in W : Rank[Tools!Wanted(c)] \in 0..7
  BY <1>1, WantsMore
<1>3. T \in SUBSET (0..7) /\ T # {}
  BY <1>2
<1>4. PICK x \in T : \A y \in T : y <= x
  BY <1>3, Greatest
<1>5. PICK c \in W : x = Rank[Tools!Wanted(c)]
  OBVIOUS
<1>6. PICK d \in Call : \E q \in held[d] : q \in Tools!Resource /\ x <= Rank[q]
  BY <1>5, WantsMore, BlockedBySomebody
<1>7. d \in W
  BY <1>6 DEF ToolsInv, Tools!TypeOK
<1>8. x < Rank[Tools!Wanted(d)]
  BY <1>1, <1>2, <1>5, <1>6, <1>7, WantsMore
<1> QED
  BY <1>2, <1>4, <1>5, <1>7, <1>8

\* admission.rs, execution.rs, subspace.rs: the waits of any calls, in any
\* workspaces and with any limits, form no circle.
THEOREM NobodyWaitsInCircles == HostSpec => []SomeoneCanGo
<1>1. HostInit => ToolsInv
  BY HostStarts, ToolsStart
<1>2. ToolsInv /\ [HostNext]_hostVars => ToolsInv'
  BY HostSteps, ToolsStep, HostAssumption
<1>3. ToolsInv => SomeoneCanGo
  BY NoCircle, HostAssumption
<1> QED
  BY <1>1, <1>2, <1>3, PTL DEF HostSpec

-----------------------------------------------------------------------------
\* The shared validations of a cached report.

CallState == [at : Cache!Place, observed : Nat, floor : Nat, began : Nat,
              scan : Nat, report : Cache!Report]

\* Where a caller holds the flight's gate, and where it validates.
Running == {"begun", "scanned", "hit", "built", "confirmed", "stored"}
Inside == Running \cup {"in", "reuse"}

\* Stamps follow versions, and a cached report with the stamp of the files
\* shows what is settled.
CacheFine ==
  /\ disk.stamp \in 1..disk.version
  /\ settled <= disk.version /\ cache.stamp <= disk.version
  /\ cache # Cache!NoReport /\ cache.stamp = disk.stamp => cache.version >= settled
  /\ success.generation <= generation
  /\ gate = NOBODY => Cache!Even(generation)

\* A validation runs while the generation is odd; a report that was built, and
\* may be stored, is as new as the files unless their stamp or the flight's
\* revision will show that it is not.
CallFine(c) ==
  /\ call[c].at \in Inside <=> gate = c
  /\ call[c].at \in Inside => (call[c].at \in Running <=> ~Cache!Even(generation))
  /\ /\ call[c].floor <= settled /\ call[c].scan <= disk.version
     /\ call[c].report.stamp <= disk.version
  /\ call[c].at # "idle" => call[c].began <= revision
  /\ call[c].at = "hit" => cache \in {Cache!NoReport, call[c].report}
  /\ call[c].at \in {"hit", "built", "confirmed", "stored", "answered"} =>
        call[c].report.version >= call[c].floor
  /\ call[c].at \in {"built", "confirmed"} /\ call[c].began = revision
     /\ call[c].report.stamp = disk.stamp =>
        /\ call[c].report.version >= settled
        /\ editing # "written" => call[c].report.version = disk.version

\* What a caller may take over from a validation that began after it came.
ShareFine(c) ==
  /\ call[c].at \in {"observed", "queued", "in"} /\ Cache!Even(call[c].observed)
     /\ call[c].observed # generation /\ success.generation = generation
     /\ cache # Cache!NoReport => cache.version >= call[c].floor
  /\ call[c].at = "reuse" /\ cache # Cache!NoReport => cache.version >= call[c].floor

\* A validation serves its own caller, and those that came before it began.
Served(d, c) ==
  c = d \/ (call[c].at \in {"observed", "queued", "in", "reuse"} /\ Cache!Even(call[c].observed))

Serves(d, c) ==
  /\ call[d].at = "scanned" /\ cache # Cache!NoReport /\ cache.stamp = call[d].scan =>
        cache.version >= call[c].floor
  /\ call[d].at \in {"hit", "built", "confirmed"} => call[d].report.version >= call[c].floor
  /\ call[d].at = "stored" /\ cache # Cache!NoReport => cache.version >= call[c].floor

CacheType ==
  /\ disk \in Cache!Report /\ settled \in 0..(MaxEdits + 1)
  /\ editing \in {"no", "written", "marked"}
  /\ generation \in Nat /\ revision \in Nat
  /\ success \in [generation : Nat, revision : Nat]
  /\ gate \in Caller \cup {NOBODY}
  /\ cache \in Cache!Report
  /\ call \in [Caller -> CallState]

CacheInv ==
  /\ CacheType /\ CacheFine
  /\ \A c \in Caller : CallFine(c)
  /\ \A c \in Caller : ShareFine(c)
  /\ \A d, c \in Caller : Served(d, c) => Serves(d, c)

LEMMA Parity == \A n \in Nat : Cache!Even(n) <=> ~Cache!Even(n + 1)
BY DEF Cache!Even

LEMMA CacheStart == Cache!Constants /\ Cache!Init => CacheInv
BY DEF Cache!Constants, Cache!Init, Cache!Idle, Cache!Even, Cache!NoReport, Cache!Report, Cache!Place, CallState, Running, Inside, CacheFine,
       CallFine, ShareFine, Served, Serves, CacheType, CacheInv

\* One caller moves, to a state k.
Goes(c, k) ==
  /\ k \in CallState
  /\ call' \in [Caller -> CallState]
  /\ call'[c] = k
  /\ \A d \in Caller \ {c} : call'[d] = call[d]

LEMMA CallGoes ==
  ASSUME CacheType, NEW c \in Caller, NEW k \in CallState, call' = [call EXCEPT ![c] = k]
  PROVE  Goes(c, k)
BY DEF CacheType, Goes

\* All that differs is the place.
Alike(k, j, to) ==
  /\ k.at = to
  /\ k.observed = j.observed /\ k.floor = j.floor /\ k.began = j.began
  /\ k.scan = j.scan /\ k.report = j.report

LEMMA CallMoves ==
  ASSUME CacheType, NEW c \in Caller, NEW from, NEW to \in Cache!Place, Cache!Moves(c, from, to)
  PROVE  /\ call[c].at = from
         /\ \E k \in CallState : Goes(c, k) /\ Alike(k, call[c], to)
<1> DEFINE k == [call[c] EXCEPT !.at = to]
<1>1. k \in CallState /\ k.at = to
  BY DEF CacheType, CallState
<1>2. /\ k.observed = call[c].observed /\ k.floor = call[c].floor
      /\ k.began = call[c].began /\ k.scan = call[c].scan /\ k.report = call[c].report
  BY DEF CacheType, CallState
<1>3. call' = [call EXCEPT ![c] = k] /\ call[c].at = from
  BY DEF Cache!Moves
<1> HIDE DEF k
<1>4. Goes(c, k)
  BY <1>1, <1>3, CallGoes
<1> QED
  BY <1>1, <1>2, <1>3, <1>4 DEF Alike

\* A step to the next place.
LEMMA CacheMoves ==
  ASSUME Cache!Constants, CacheInv, NEW c \in Caller,
         \/ Cache!Join(c) \/ Cache!Acquire(c) \/ Cache!TryReuse(c) \/ Cache!ConfirmHit(c)
         \/ Cache!ConfirmBuilt(c)
  PROVE  CacheInv'
<1> USE DEF CacheInv
<1>1. CASE Cache!Join(c)
  <2>1. /\ call[c].at = "observed"
        /\ UNCHANGED <<disk, settled, editing, generation, revision, success, gate, cache>>
    BY <1>1 DEF Cache!Join, Cache!Moves, Cache!world, Cache!flight
  <2>2. PICK k \in CallState : Goes(c, k) /\ Alike(k, call[c], "queued")
    BY <1>1, CallMoves DEF Cache!Join, Cache!Place
  <2>3. CacheType' /\ CacheFine'
    BY <2>1, <2>2 DEF Alike, CacheType, CacheFine, Goes
  <2>4. \A d \in Caller : CallFine(d)' /\ ShareFine(d)'
    BY <2>1, <2>2 DEF Alike, CallFine, ShareFine, Goes, Inside, Running
  <2>5. \A d, e \in Caller : Served(d, e)' => Serves(d, e)'
    BY <2>1, <2>2 DEF Alike, Served, Serves, Goes
  <2> QED
    BY <2>3, <2>4, <2>5
<1>2. CASE Cache!Acquire(c)
  <2>1. /\ call[c].at = "queued" /\ gate = NOBODY /\ gate' = c
        /\ UNCHANGED <<disk, settled, editing, generation, revision, success, cache>>
    BY <1>2 DEF Cache!Acquire, Cache!Moves, Cache!world, Cache!flight
  <2>2. PICK k \in CallState : Goes(c, k) /\ Alike(k, call[c], "in")
    BY <1>2, CallMoves DEF Cache!Acquire, Cache!Place
  <2>3. CacheType' /\ CacheFine'
    BY <2>1, <2>2 DEF Alike, CacheType, CacheFine, Goes
  <2>4. \A d \in Caller : CallFine(d)' /\ ShareFine(d)'
    BY <2>1, <2>2 DEF Alike, CallFine, ShareFine, CacheFine, Goes, Inside, Running, Cache!Constants
  <2>5. \A d, e \in Caller : Served(d, e)' => Serves(d, e)'
    BY <2>1, <2>2 DEF Alike, Served, Serves, Goes
  <2> QED
    BY <2>3, <2>4, <2>5
<1>3. CASE Cache!TryReuse(c)
  <2>1. /\ call[c].at = "in" /\ Cache!CanReuse(c)
        /\ UNCHANGED <<disk, settled, editing, generation, revision, success, gate, cache>>
    BY <1>3 DEF Cache!TryReuse, Cache!Moves, Cache!world, Cache!flight
  <2>2. PICK k \in CallState : Goes(c, k) /\ Alike(k, call[c], "reuse")
    BY <1>3, CallMoves DEF Cache!TryReuse, Cache!Place
  <2>3. CacheType' /\ CacheFine'
    BY <2>1, <2>2 DEF Alike, CacheType, CacheFine, Goes
  <2>4. \A d \in Caller : CallFine(d)' /\ ShareFine(d)'
    BY <2>1, <2>2 DEF Alike, CallFine, ShareFine, Goes, Inside, Running, Cache!CanReuse
  <2>5. \A d, e \in Caller : Served(d, e)' => Serves(d, e)'
    BY <2>1, <2>2 DEF Alike, Served, Serves, Goes
  <2> QED
    BY <2>3, <2>4, <2>5
<1>4. CASE Cache!ConfirmHit(c)
  <2>1. /\ call[c].at = "hit"
        /\ UNCHANGED <<disk, settled, editing, generation, revision, success, gate, cache>>
    BY <1>4 DEF Cache!ConfirmHit, Cache!Moves, Cache!world, Cache!flight
  <2>2. PICK k \in CallState : Goes(c, k) /\ Alike(k, call[c], "stored")
    BY <1>4, CallMoves DEF Cache!ConfirmHit, Cache!Place
  <2>3. CacheType' /\ CacheFine'
    BY <2>1, <2>2 DEF Alike, CacheType, CacheFine, Goes
  <2>4. \A d \in Caller : CallFine(d)' /\ ShareFine(d)'
    BY <2>1, <2>2 DEF Alike, CallFine, ShareFine, Goes, Inside, Running
  <2>5. \A d, e \in Caller : Served(d, e)' => Serves(d, e)'
    BY <2>1, <2>2 DEF Alike, Served, Serves, Goes, CallFine
  <2> QED
    BY <2>3, <2>4, <2>5
<1>5. CASE Cache!ConfirmBuilt(c)
  <2>1. /\ call[c].at = "built"
        /\ UNCHANGED <<disk, settled, editing, generation, revision, success, gate, cache>>
    BY <1>5 DEF Cache!ConfirmBuilt, Cache!Moves, Cache!world, Cache!flight
  <2>2. PICK k \in CallState : Goes(c, k) /\ Alike(k, call[c], "confirmed")
    BY <1>5, CallMoves DEF Cache!ConfirmBuilt, Cache!Place
  <2>3. CacheType' /\ CacheFine'
    BY <2>1, <2>2 DEF Alike, CacheType, CacheFine, Goes
  <2>4. \A d \in Caller : CallFine(d)' /\ ShareFine(d)'
    BY <2>1, <2>2 DEF Alike, CallFine, ShareFine, Goes, Inside, Running
  <2>5. \A d, e \in Caller : Served(d, e)' => Serves(d, e)'
    BY <2>1, <2>2 DEF Alike, Served, Serves, Goes
  <2> QED
    BY <2>3, <2>4, <2>5
<1> QED
  BY <1>1, <1>2, <1>3, <1>4, <1>5

\* A call takes a report, a scan or the revision with it to the next place.
LEMMA CacheLooks ==
  ASSUME Cache!Constants, CacheInv, NEW c \in Caller,
         Cache!Reuse(c) \/ Cache!Scan(c) \/ Cache!Hit(c) \/ Cache!Build(c)
  PROVE  CacheInv'
<1> USE DEF CacheInv
<1>1. CASE Cache!Reuse(c)
  <2> DEFINE k == [call[c] EXCEPT !.at = "answered", !.report = cache]
  <2>1. /\ call[c].at = "reuse" /\ cache # Cache!NoReport /\ gate' = NOBODY
        /\ call' = [call EXCEPT ![c] = k]
        /\ UNCHANGED <<disk, settled, editing, generation, revision, success, cache>>
    BY <1>1 DEF Cache!Reuse, Cache!world, Cache!flight
  <2>2. k \in CallState /\ k.at = "answered" /\ k.report = cache /\ k.floor = call[c].floor
        /\ k.began = call[c].began /\ k.scan = call[c].scan
    BY DEF CacheType, CallState, Cache!Place
  <2> HIDE DEF k
  <2>3. Goes(c, k)
    BY <2>1, <2>2, CallGoes
  <2>4. CacheType' /\ CacheFine'
    BY <2>1, <2>3 DEF CacheType, CacheFine, CallFine, Goes, Inside, Running
  <2>5. \A d \in Caller : CallFine(d)' /\ ShareFine(d)'
    BY <2>1, <2>2, <2>3 DEF CallFine, ShareFine, CacheFine, Goes, Inside, Running, Cache!Constants
  <2>6. \A d, e \in Caller : Served(d, e)' => Serves(d, e)'
    BY <2>1, <2>2, <2>3 DEF Served, Serves, Goes
  <2> QED
    BY <2>4, <2>5, <2>6
<1>2. CASE Cache!Scan(c)
  <2> DEFINE k == [call[c] EXCEPT !.at = "scanned", !.scan = disk.stamp]
  <2>1. /\ call[c].at = "begun"
        /\ call' = [call EXCEPT ![c] = k]
        /\ UNCHANGED <<disk, settled, editing, generation, revision, success, gate, cache>>
    BY <1>2 DEF Cache!Scan, Cache!world, Cache!flight
  <2>2. k \in CallState /\ k.at = "scanned" /\ k.report = call[c].report /\ k.floor = call[c].floor
        /\ k.began = call[c].began /\ k.scan = disk.stamp
    <3>1. disk.stamp \in Nat
      BY DEF CacheType, Cache!Report, Cache!Constants
    <3> QED
      BY <3>1 DEF CacheType, CallState, Cache!Place
  <2> HIDE DEF k
  <2>3. Goes(c, k)
    BY <2>1, <2>2, CallGoes
  <2>4. CacheType' /\ CacheFine'
    BY <2>1, <2>3 DEF CacheType, CacheFine, Goes
  <2>5. \A d \in Caller : CallFine(d)' /\ ShareFine(d)'
    BY <2>1, <2>2, <2>3 DEF CallFine, ShareFine, CacheFine, CacheType, Cache!Report, Goes, Inside, Running
  <2>6. \A d, e \in Caller : Served(d, e)' => Serves(d, e)'
    BY <2>1, <2>2, <2>3 DEF Served, Serves, Goes, CallFine, CacheFine, CacheType, Cache!Report, CallState
  <2> QED
    BY <2>4, <2>5, <2>6
<1>3. CASE Cache!Hit(c)
  <2> DEFINE k == [call[c] EXCEPT !.at = "hit", !.report = cache]
  <2>1. /\ call[c].at = "scanned" /\ cache # Cache!NoReport /\ cache.stamp = call[c].scan
        /\ call' = [call EXCEPT ![c] = k]
        /\ UNCHANGED <<disk, settled, editing, generation, revision, success, gate, cache>>
    BY <1>3 DEF Cache!Hit, Cache!world, Cache!flight
  <2>2. k \in CallState /\ k.at = "hit" /\ k.report = cache /\ k.floor = call[c].floor
        /\ k.began = call[c].began /\ k.scan = call[c].scan
    BY DEF CacheType, CallState, Cache!Place
  <2> HIDE DEF k
  <2>3. Goes(c, k)
    BY <2>1, <2>2, CallGoes
  <2>4. CacheType' /\ CacheFine'
    BY <2>1, <2>3 DEF CacheType, CacheFine, Goes
  <2>5. \A d \in Caller : CallFine(d)' /\ ShareFine(d)'
    BY <2>1, <2>2, <2>3 DEF CallFine, ShareFine, CacheFine, Goes, Inside, Running, Served, Serves
  <2>6. \A d, e \in Caller : Served(d, e)' => Serves(d, e)'
    BY <2>1, <2>2, <2>3 DEF Served, Serves, Goes
  <2> QED
    BY <2>4, <2>5, <2>6
<1>4. CASE Cache!Build(c)
  <2> DEFINE r == [version |-> disk.version, stamp |-> call[c].scan]
             k == [call[c] EXCEPT !.at = "built", !.report = r]
  <2>1. /\ call[c].at = "scanned"
        /\ call' = [call EXCEPT ![c] = k]
        /\ UNCHANGED <<disk, settled, editing, generation, revision, success, gate, cache>>
    BY <1>4 DEF Cache!Build, Cache!world, Cache!flight
  <2>2. r.version = disk.version /\ r.stamp = call[c].scan /\ r \in Cache!Report
    <3>1. /\ disk.version \in 0..(MaxEdits + 1) /\ MaxEdits \in Nat
          /\ call[c].scan \in Nat /\ call[c].scan <= disk.version
      BY DEF CacheType, CallState, CallFine, Cache!Report, Cache!Constants
    <3> QED
      BY <3>1 DEF Cache!Report
  <2> HIDE DEF r
  <2>3. k \in CallState /\ k.at = "built" /\ k.report = r /\ k.floor = call[c].floor
        /\ k.began = call[c].began /\ k.scan = call[c].scan
    BY <2>2 DEF CacheType, CallState, Cache!Place
  <2> HIDE DEF k
  <2>4. Goes(c, k)
    BY <2>1, <2>3, CallGoes
  <2>5. CacheType' /\ CacheFine'
    BY <2>1, <2>4 DEF CacheType, CacheFine, Goes
  <2>6. \A d \in Caller : call[d].floor <= disk.version
    BY DEF CallFine, CacheFine, CacheType, CallState, Cache!Report
  <2>7. \A d \in Caller : CallFine(d)' /\ ShareFine(d)'
    BY <2>1, <2>2, <2>3, <2>4, <2>6 DEF CallFine, ShareFine, CacheFine, CacheType, Cache!Report, Goes, Inside, Running
  <2>8. \A d, e \in Caller : Served(d, e)' => Serves(d, e)'
    BY <2>1, <2>2, <2>3, <2>4, <2>6 DEF Served, Serves, Goes
  <2> QED
    BY <2>5, <2>7, <2>8
<1> QED
  BY <1>1, <1>2, <1>3, <1>4

\* The validation begins, stores, and ends.
LEMMA CacheValidates ==
  ASSUME Cache!Constants, CacheInv, NEW c \in Caller,
         Cache!Begin(c) \/ Cache!Store(c) \/ Cache!Complete(c)
  PROVE  CacheInv'
<1> USE DEF CacheInv
<1>1. CASE Cache!Begin(c)
  <2> DEFINE k == [call[c] EXCEPT !.at = "begun", !.began = revision]
  <2>1. /\ call[c].at \in {"in", "reuse"} /\ generation' = generation + 1
        /\ call' = [call EXCEPT ![c] = k]
        /\ UNCHANGED <<disk, settled, editing, revision, success, gate, cache>>
    BY <1>1 DEF Cache!Begin, Cache!world
  <2>2. k \in CallState /\ k.at = "begun" /\ k.report = call[c].report /\ k.floor = call[c].floor
        /\ k.began = revision /\ k.scan = call[c].scan
    BY DEF CacheType, CallState, Cache!Place
  <2> HIDE DEF k
  <2>3. Goes(c, k)
    BY <2>1, <2>2, CallGoes
  <2>4. CacheType' /\ CacheFine'
    BY <2>1, <2>3 DEF CacheType, CacheFine, CallFine, Goes, Inside, Cache!Constants
  <2>5. /\ \A d \in Caller \ {c} : call[d].at \notin Inside
        /\ success.generation # generation + 1
    BY <2>1 DEF CallFine, CacheFine, CacheType, Inside
  <2>6. ~Cache!Even(generation + 1)
    BY <2>1, Parity DEF CacheType, CallFine, Inside, Running
  <2>7. \A d \in Caller : CallFine(d)' /\ ShareFine(d)'
    BY <2>1, <2>2, <2>3, <2>5, <2>6 DEF CallFine, ShareFine, CacheType, Goes, Inside, Running
  <2>8. \A d, e \in Caller : Served(d, e)' => Serves(d, e)'
    BY <2>1, <2>2, <2>3, <2>5 DEF Serves, Goes, Inside, Running
  <2> QED
    BY <2>4, <2>7, <2>8
<1>2. CASE Cache!Store(c)
  <2>1. /\ call[c].at = "confirmed" /\ call[c].began = revision /\ cache' = call[c].report
        /\ UNCHANGED <<disk, settled, editing, generation, revision, success, gate>>
    BY <1>2 DEF Cache!Store, Cache!Moves, Cache!MayStore, Cache!IsCurrent, Cache!world, Cache!flight
  <2>2. PICK k \in CallState : Goes(c, k) /\ Alike(k, call[c], "stored")
    BY <1>2, CallMoves DEF Cache!Store, Cache!Place
  <2>3. \A d \in Caller \ {c} : call[d].at \notin Inside
    BY <2>1 DEF CallFine, Inside, Running
  <2>4. call[c].report \in Cache!Report
    BY DEF CacheType, CallState
  <2>5. CacheType' /\ CacheFine'
    BY <2>1, <2>2, <2>4 DEF CacheType, CacheFine, CallFine, Goes
  <2>6. ~Cache!Even(generation) /\ success.generation <= generation
    BY <2>1 DEF CallFine, CacheFine, Inside, Running
  <2>7. \A d \in Caller : CallFine(d)'
    BY <2>1, <2>2, <2>3 DEF Alike, CallFine, Goes, Inside, Running
  <2>8. \A d \in Caller : Served(c, d) => call[c].report.version >= call[d].floor
    BY <2>1 DEF Serves
  <2>9. \A d \in Caller : ShareFine(d)'
    BY <2>1, <2>2, <2>3, <2>8 DEF Alike, ShareFine, Served, Goes, Inside, Running
  <2>10. \A d, e \in Caller : Served(d, e)' => Serves(d, e)'
    BY <2>1, <2>2, <2>3, <2>8 DEF Alike, Served, Serves, Goes, Inside, Running
  <2> QED
    BY <2>5, <2>7, <2>9, <2>10
<1>3. CASE Cache!Complete(c)
  <2>1. /\ call[c].at = "stored" /\ generation' = generation + 1 /\ gate' = NOBODY
        /\ success' \in {success, [generation |-> generation + 1, revision |-> call[c].began]}
        /\ UNCHANGED <<disk, settled, editing, revision, cache>>
    BY <1>3 DEF Cache!Complete, Cache!Moves, Cache!world
  <2>2. PICK k \in CallState : Goes(c, k) /\ Alike(k, call[c], "answered")
    BY <1>3, CallMoves DEF Cache!Complete, Cache!Place
  <2>3. \A d \in Caller \ {c} : call[d].at \notin Inside
    BY <2>1 DEF CallFine, Inside, Running
  <2>4. Cache!Even(generation + 1)
    BY <2>1, Parity DEF CallFine, CacheType, Inside, Running
  <2>5. /\ success' \in [generation : Nat, revision : Nat]
        /\ success'.generation <= generation + 1
    BY <2>1 DEF CacheType, CacheFine, CallState
  <2>6. CacheType' /\ CacheFine'
    BY <2>1, <2>2, <2>4, <2>5 DEF CacheType, CacheFine, Goes
  <2>7. \A d \in Caller : CallFine(d)'
    BY <2>1, <2>2, <2>3 DEF Alike, CallFine, Goes, Inside, Running, Cache!Constants
  <2>8. \A d \in Caller : Served(c, d) /\ cache # Cache!NoReport => cache.version >= call[d].floor
    BY <2>1 DEF Serves
  <2>9. \A d \in Caller : ShareFine(d)'
    BY <2>1, <2>2, <2>3, <2>8 DEF Alike, ShareFine, Served, Goes, Inside, Running
  <2>10. \A d, e \in Caller : Served(d, e)' => Serves(d, e)'
    BY <2>1, <2>2, <2>3 DEF Alike, Serves, Goes, Inside, Running
  <2> QED
    BY <2>6, <2>7, <2>9, <2>10
<1> QED
  BY <1>1, <1>2, <1>3

\* A call comes, fails, or goes.
LEMMA CacheComesAndGoes ==
  ASSUME Cache!Constants, CacheInv, NEW c \in Caller,
         Cache!Arrive(c) \/ Cache!Fail(c) \/ Cache!Leave(c)
  PROVE  CacheInv'
<1> USE DEF CacheInv
<1>0. /\ Cache!Idle \in CallState /\ Cache!Idle.at = "idle" /\ Cache!Idle.floor = 0
      /\ Cache!Idle.scan = 0 /\ Cache!Idle.report.stamp = 0 /\ Cache!Idle.began = 0
  BY DEF Cache!Idle, CallState, Cache!Place, Cache!Report, Cache!NoReport, Cache!Constants
<1>1. CASE Cache!Leave(c)
  <2>1. /\ call[c].at = "answered" /\ call' = [call EXCEPT ![c] = Cache!Idle]
        /\ UNCHANGED <<disk, settled, editing, generation, revision, success, gate, cache>>
    BY <1>1 DEF Cache!Leave, Cache!world, Cache!flight
  <2>2. Goes(c, Cache!Idle)
    BY <1>0, <2>1, CallGoes
  <2>3. CacheType' /\ CacheFine'
    BY <2>1, <2>2 DEF CacheType, CacheFine, Goes
  <2>4. \A d \in Caller : CallFine(d)' /\ ShareFine(d)'
    BY <1>0, <2>1, <2>2 DEF CallFine, ShareFine, CacheType, Cache!Report, Goes, Inside, Running
  <2>5. \A d, e \in Caller : Served(d, e)' => Serves(d, e)'
    BY <1>0, <2>1, <2>2 DEF Served, Serves, Goes
  <2> QED
    BY <2>3, <2>4, <2>5
<1>2. CASE Cache!Fail(c) /\ call[c].at = "queued"
  <2>1. /\ call' = [call EXCEPT ![c] = Cache!Idle]
        /\ UNCHANGED <<disk, settled, editing, generation, revision, success, gate, cache>>
    BY <1>2 DEF Cache!Fail, Cache!world
  <2>2. Goes(c, Cache!Idle)
    BY <1>0, <2>1, CallGoes
  <2>3. CacheType' /\ CacheFine'
    BY <2>1, <2>2 DEF CacheType, CacheFine, Goes
  <2>4. \A d \in Caller : CallFine(d)' /\ ShareFine(d)'
    BY <1>0, <1>2, <2>1, <2>2 DEF CallFine, ShareFine, CacheType, Cache!Report, Goes, Inside, Running
  <2>5. \A d, e \in Caller : Served(d, e)' => Serves(d, e)'
    BY <1>0, <2>1, <2>2 DEF Served, Serves, Goes
  <2> QED
    BY <2>3, <2>4, <2>5
<1>3. CASE Cache!Fail(c) /\ call[c].at # "queued"
  <2>1. /\ call[c].at \in Running /\ call' = [call EXCEPT ![c] = Cache!Idle]
        /\ gate' = NOBODY /\ generation' = generation + 1
        /\ UNCHANGED <<disk, settled, editing, revision, success, cache>>
    BY <1>3 DEF Cache!Fail, Cache!world, Running
  <2>2. Goes(c, Cache!Idle)
    BY <1>0, <2>1, CallGoes
  <2>3. \A d \in Caller \ {c} : call[d].at \notin Inside
    BY <2>1 DEF CallFine, Inside
  <2>4. Cache!Even(generation + 1) /\ success.generation # generation + 1
    BY <2>1, Parity DEF CallFine, CacheFine, CacheType, Inside
  <2>5. CacheType' /\ CacheFine'
    BY <2>1, <2>2, <2>4 DEF CacheType, CacheFine, Goes
  <2>6. \A d \in Caller : CallFine(d)' /\ ShareFine(d)'
    BY <1>0, <2>1, <2>2, <2>3, <2>4 DEF CallFine, ShareFine, CacheType, Cache!Report, Goes, Inside, Running, Cache!Constants
  <2>7. \A d, e \in Caller : Served(d, e)' => Serves(d, e)'
    BY <1>0, <2>1, <2>2, <2>3 DEF Serves, Goes, Inside, Running
  <2> QED
    BY <2>5, <2>6, <2>7
<1>4. CASE Cache!Arrive(c)
  <2> DEFINE k == [Cache!Idle EXCEPT !.at = "observed", !.observed = generation', !.floor = settled]
  <2>1. /\ call[c].at = "idle" /\ call' = [call EXCEPT ![c] = k]
        /\ UNCHANGED <<disk, settled, editing, gate, cache>>
    BY <1>4 DEF Cache!Arrive, Cache!world
  <2>2. \/ UNCHANGED <<generation, revision, success>>
        \/ /\ \A d \in Caller : call[d].at = "idle"
           /\ generation' = 0 /\ revision' = 0 /\ success' = [generation |-> 0, revision |-> 0]
    BY <1>4 DEF Cache!Arrive, Cache!Alive, Cache!flight
  <2>3. /\ generation' \in Nat /\ revision' \in Nat /\ success' \in [generation : Nat, revision : Nat]
        /\ success'.generation <= generation'
        /\ gate = NOBODY => Cache!Even(generation')
    BY <2>2 DEF CacheType, CacheFine, Cache!Even
  <2>4. /\ k \in CallState /\ k.at = "observed" /\ k.observed = generation' /\ k.floor = settled
        /\ k.scan = 0 /\ k.report.stamp = 0 /\ k.began = 0
    <3>1. settled \in Nat
      BY DEF CacheType, Cache!Constants
    <3> QED
      BY <1>0, <2>3, <3>1 DEF CallState, Cache!Place
  <2> HIDE DEF k
  <2>5. Goes(c, k)
    BY <2>1, <2>4, CallGoes
  <2>6. CacheType' /\ CacheFine'
    BY <2>1, <2>3, <2>5 DEF CacheType, CacheFine, Goes
  <2>7. \A d \in Caller : CallFine(d)' /\ ShareFine(d)'
    BY <2>1, <2>2, <2>3, <2>4, <2>5 DEF CallFine, ShareFine, CacheType, Cache!Report, Goes, Inside, Running
  <2>8. \A d \in Caller : call[d].at \in Running => ~Cache!Even(generation')
    BY <2>2 DEF CallFine, Inside, Running
  <2>9. \A d, e \in Caller : Served(d, e)' => Serves(d, e)'
    BY <2>1, <2>4, <2>5, <2>8 DEF Served, Serves, Goes, Running
  <2> QED
    BY <2>6, <2>7, <2>9
<1> QED
  BY <1>1, <1>2, <1>3, <1>4

\* Files change.
LEMMA FilesChange ==
  ASSUME Cache!Constants, CacheInv,
         Cache!ExternalEdit \/ Cache!Write \/ Cache!Mark \/ Cache!Forget
  PROVE  CacheInv'
<1> USE DEF CacheInv
<1>0. /\ disk.version \in Nat /\ disk.stamp \in Nat /\ settled \in Nat /\ cache.stamp \in Nat
      /\ cache.version \in Nat /\ MaxEdits \in Nat
      /\ \A c \in Caller : /\ call[c].floor \in Nat /\ call[c].scan \in Nat /\ call[c].began \in Nat
                           /\ call[c].report.stamp \in Nat /\ call[c].report.version \in Nat
  BY DEF CacheType, CallState, Cache!Report, Cache!Constants
<1>1. CASE Cache!ExternalEdit
  <2>1. /\ disk' \in Cache!Report /\ disk'.version = disk.version + 1
        /\ disk'.stamp = disk.version + 1 /\ settled' = disk.version + 1
        /\ settled' \in 0..(MaxEdits + 1)
        /\ UNCHANGED <<editing, generation, revision, success, gate, cache, call>>
    BY <1>0, <1>1 DEF Cache!ExternalEdit, Cache!flight, Cache!Report
  <2>2. CacheType' /\ CacheFine'
    BY <1>0, <2>1 DEF CacheType, CacheFine
  <2>3. \A d \in Caller : CallFine(d)' /\ ShareFine(d)'
    BY <1>0, <2>1 DEF CallFine, ShareFine, CacheFine
  <2>4. \A d, e \in Caller : Served(d, e)' => Serves(d, e)'
    BY <2>1 DEF Served, Serves
  <2> QED
    BY <2>2, <2>3, <2>4
<1>2. CASE Cache!Write
  <2>1. /\ disk' \in Cache!Report /\ disk'.version = disk.version + 1 /\ disk'.stamp = disk.stamp
        /\ editing' = "written"
        /\ UNCHANGED <<settled, generation, revision, success, gate, cache, call>>
    BY <1>0, <1>2 DEF Cache!Write, Cache!flight, Cache!Report, CacheType
  <2>2. CacheType' /\ CacheFine'
    BY <1>0, <2>1 DEF CacheType, CacheFine
  <2>3. \A d \in Caller : CallFine(d)' /\ ShareFine(d)'
    BY <1>0, <2>1 DEF CallFine, ShareFine, CacheFine
  <2>4. \A d, e \in Caller : Served(d, e)' => Serves(d, e)'
    BY <2>1 DEF Served, Serves
  <2> QED
    BY <2>2, <2>3, <2>4
<1>3. CASE Cache!Mark
  <2>1. /\ editing = "written" /\ editing' = "marked"
        /\ revision' \in {revision, revision + 1}
        /\ (\E c \in Caller : call[c].at # "idle") => revision' = revision + 1
        /\ UNCHANGED <<disk, settled, generation, success, gate, cache, call>>
    BY <1>3 DEF Cache!Mark, Cache!Alive
  <2>2. CacheType' /\ CacheFine'
    BY <2>1 DEF CacheType, CacheFine
  <2>3. \A d \in Caller : CallFine(d)' /\ ShareFine(d)'
    BY <1>0, <2>1 DEF CallFine, ShareFine, CacheType
  <2>4. \A d, e \in Caller : Served(d, e)' => Serves(d, e)'
    BY <2>1 DEF Served, Serves
  <2> QED
    BY <2>2, <2>3, <2>4
<1>4. CASE Cache!Forget
  <2>1. /\ editing = "marked" /\ editing' = "no" /\ cache' = Cache!NoReport /\ settled' = disk.version
        /\ UNCHANGED <<disk, generation, revision, success, gate, call>>
    BY <1>4 DEF Cache!Forget, Cache!flight
  <2>2. cache' \in Cache!Report /\ cache'.stamp = 0
    BY <1>0, <2>1 DEF Cache!NoReport, Cache!Report
  <2>3. CacheType' /\ CacheFine'
    BY <1>0, <2>1, <2>2 DEF CacheType, CacheFine, Cache!Report
  <2>4. \A d \in Caller : CallFine(d)' /\ ShareFine(d)'
    BY <1>0, <2>1 DEF CallFine, ShareFine, CacheFine
  <2>5. \A d, e \in Caller : Served(d, e)' => Serves(d, e)'
    BY <2>1 DEF Served, Serves
  <2> QED
    BY <2>3, <2>4, <2>5
<1> QED
  BY <1>1, <1>2, <1>3, <1>4

LEMMA CacheStep == Cache!Constants /\ CacheInv /\ [Cache!Next]_Cache!vars => CacheInv'
<1> SUFFICES ASSUME Cache!Constants, CacheInv, [Cache!Next]_Cache!vars PROVE CacheInv'
  OBVIOUS
<1>1. CASE UNCHANGED Cache!vars
  BY <1>1 DEF Cache!vars, CacheInv, CacheType, CacheFine, CallFine, ShareFine, Served, Serves
<1>2. ASSUME NEW c \in Caller, Cache!CallStep(c) PROVE CacheInv'
  BY <1>2, CacheMoves, CacheLooks, CacheValidates, CacheComesAndGoes DEF Cache!CallStep
<1> QED
  BY <1>1, <1>2, FilesChange DEF Cache!Next

\* cache_flight.rs, convention_cache.rs, repo_map.rs: no caller, of any number of
\* callers, edits and validations, gets a report older than its call.
THEOREM CachedAnswersAreFresh == HostSpec => []AnswersAreFresh
<1>1. HostInit => CacheInv
  BY HostStarts, CacheStart, HostAssumption
<1>2. CacheInv /\ [HostNext]_hostVars => CacheInv'
  BY HostSteps, CacheStep, HostAssumption
<1>3. CacheInv => AnswersAreFresh
  BY DEF CacheInv, CallFine, AnswersAreFresh, Cache!AnswersAreFresh
<1> QED
  BY <1>1, <1>2, <1>3, PTL DEF HostSpec

-----------------------------------------------------------------------------
\* Every part has its type.

\* What the threads of the governor could still spend together.
Owing(k) == MaxCost * (Cardinality(Cpu!Worker) - k)

CpuTyped ==
  /\ CpuInv
  /\ credit.background \in Int /\ credit.background <= IdleBurst
  /\ credit.tokens >= -(Debt + Owing(Cardinality(Busy)))

LEMMA OwingFacts ==
  ASSUME Cpu!Constants, NEW k \in Nat
  PROVE  /\ Owing(k) \in Int /\ Owing(k) = Owing(k + 1) + MaxCost
         /\ k <= Cardinality(Cpu!Worker) => Owing(k) >= 0
         /\ Owing(k) <= Cardinality(Cpu!Worker) * MaxCost
<1>1. PICK n \in Nat : n = Cardinality(Cpu!Worker)
  BY SameCount, FS_Union, FS_CardinalityType DEF Cpu!Constants, Cpu!Worker
<1>2. MaxCost \in Nat
  BY DEF Cpu!Constants
<1>3. \A a, b \in Int : a * b \in Int /\ a * b = a * (b - 1) + a
  OBVIOUS
<1>4. \A a, b \in Nat : a * b >= 0
  OBVIOUS
<1>5. MaxCost * (n - k) \in Int /\ MaxCost * (n - k) = MaxCost * (n - (k + 1)) + MaxCost
  <2>1. n - k \in Int /\ (n - k) - 1 = n - (k + 1)
    OBVIOUS
  <2> QED
    BY <1>2, <1>3, <2>1
<1>6. k <= n => MaxCost * (n - k) >= 0
  <2>1. k <= n => n - k \in Nat
    OBVIOUS
  <2> QED
    BY <1>2, <1>4, <2>1
<1>7. MaxCost * (n - k) <= n * MaxCost
  <2>1. \A a, b, c \in Nat : a * (b - c) = b * a - a * c
    OBVIOUS
  <2>2. MaxCost * (n - k) = n * MaxCost - MaxCost * k
    BY <1>2, <2>1
  <2>3. MaxCost * k \in Int /\ MaxCost * k >= 0 /\ n * MaxCost \in Int
    BY <1>2, <1>3, <1>4
  <2> QED
    BY <2>2, <2>3
<1> QED
  BY <1>1, <1>5, <1>6, <1>7 DEF Owing

\* As many work as there are threads.
LEMMA BusyFacts ==
  ASSUME Cpu!Constants
  PROVE  /\ IsFiniteSet(Busy) /\ Cardinality(Busy) \in Nat
         /\ Cardinality(Busy) <= Cardinality(Cpu!Worker)
<1>1. IsFiniteSet(Cpu!Worker) /\ Busy \in SUBSET Cpu!Worker
  BY SameCount, FS_Union DEF Cpu!Constants, Cpu!Worker, Busy
<1> QED
  BY <1>1, FS_Subset, FS_CardinalityType

LEMMA CpuTypedStart == Cpu!Constants /\ Cpu!Init => CpuTyped
<1> SUFFICES ASSUME Cpu!Constants, Cpu!Init PROVE CpuTyped
  OBVIOUS
<1>1. credit.tokens = Burst /\ credit.background = IdleBurst
  BY DEF Cpu!Init
<1>2. PICK k \in Nat : k = Cardinality(Busy)
  BY BusyFacts
<1>3. Owing(k) \in Int /\ Owing(k) >= 0
  BY <1>2, OwingFacts, BusyFacts
<1>4. Burst \in Nat /\ Debt \in Nat /\ IdleBurst \in Nat
  BY DEF Cpu!Constants
<1>5. credit.tokens >= -(Debt + Owing(k))
  BY <1>1, <1>3, <1>4
<1> QED
  BY <1>1, <1>2, <1>4, <1>5, CpuStart DEF CpuTyped

LEMMA CpuTypedStep == Cpu!Constants /\ CpuTyped /\ [Cpu!Next]_Cpu!vars => CpuTyped'
<1> SUFFICES ASSUME Cpu!Constants, CpuTyped, [Cpu!Next]_Cpu!vars PROVE CpuTyped'
  OBVIOUS
<1> DEFINE N == Cardinality(Cpu!Worker)
<1>1. CpuInv' /\ CpuInv
  BY CpuStep DEF CpuTyped
<1>2. PICK k \in Nat, m \in Nat : /\ k = Cardinality(Busy) /\ m = Cardinality(Busy')
                                  /\ k <= N /\ m <= N
  <2>1. IsFiniteSet(Cpu!Worker) /\ Busy' \in SUBSET Cpu!Worker
    BY SameCount, FS_Union DEF Cpu!Constants, Cpu!Worker, Busy
  <2>2. Cardinality(Busy') \in Nat /\ Cardinality(Busy') <= N
    BY <2>1, FS_Subset, FS_CardinalityType
  <2> QED
    BY <2>2, BusyFacts
<1>3. /\ Owing(k) \in Int /\ Owing(m) \in Int /\ Owing(k) >= 0 /\ Owing(m) >= 0
      /\ Owing(m) = Owing(m + 1) + MaxCost /\ Owing(m + 1) \in Int
  BY <1>2, OwingFacts
<1>4. /\ {Burst, Debt, IdleBurst, MaxCost} \subseteq Nat
      /\ credit.tokens \in Int /\ credit.background \in Int /\ credit.background <= IdleBurst
      /\ credit.tokens >= -(Debt + Owing(k))
  BY <1>2 DEF Cpu!Constants, CpuTyped, CpuInv
<1>5. Owing(m)' = Owing(m)
  BY DEF Owing, Cpu!Worker
<1> SUFFICES /\ credit'.background \in Int /\ credit'.background <= IdleBurst
             /\ credit'.tokens >= -(Debt + Owing(m))
  BY <1>1, <1>2, <1>5 DEF CpuTyped, Owing, Cpu!Worker
<1>6. ASSUME credit' = credit, m = k
      PROVE  /\ credit'.background \in Int /\ credit'.background <= IdleBurst
             /\ credit'.tokens >= -(Debt + Owing(m))
  BY <1>4, <1>6
<1>7. ASSUME NEW w \in Cpu!Worker, NEW from, NEW to, Cpu!Goes(w, from, to), credit' = credit,
             from # "working", to # "working"
      PROVE  /\ credit'.background \in Int /\ credit'.background <= IdleBurst
             /\ credit'.tokens >= -(Debt + Owing(m))
  <2>1. Busy' = Busy
    BY <1>1, <1>7 DEF Cpu!Goes, Busy, CpuInv
  <2> QED
    BY <1>2, <1>6, <1>7, <2>1
<1>8. ASSUME NEW w \in Cpu!Worker, Cpu!Work(w)
      PROVE  /\ credit'.background \in Int /\ credit'.background <= IdleBurst
             /\ credit'.tokens >= -(Debt + Owing(m))
  <2>1. credit' = credit /\ thread' = [thread EXCEPT ![w] = "working"]
    BY <1>8 DEF Cpu!Work, Cpu!Goes
  <2>2. CASE w \in Interactive
    <3>1. credit.tokens >= 1 - Debt
      BY <1>8, <2>2 DEF Cpu!Work, Cpu!HasCredit
    <3> QED
      BY <1>3, <1>4, <2>1, <3>1
  <2>3. CASE w \notin Interactive
    <3>1. Busy' = Busy
      BY <1>1, <2>1, <2>3 DEF Busy, CpuInv
    <3> QED
      BY <1>2, <1>6, <2>1, <3>1
  <2> QED
    BY <2>2, <2>3
<1>9. ASSUME NEW w \in Cpu!Worker, Cpu!Finish(w)
      PROVE  /\ credit'.background \in Int /\ credit'.background <= IdleBurst
             /\ credit'.tokens >= -(Debt + Owing(m))
  <2>1. thread[w] = "working" /\ thread' = [thread EXCEPT ![w] = "away"]
    BY <1>9 DEF Cpu!Finish, Cpu!Goes
  <2>2. PICK cost \in 0..MaxCost :
          /\ credit'.tokens = IF w \in Interactive THEN credit.tokens - cost ELSE credit.tokens
          /\ credit'.background = credit.background - cost
    BY <1>9 DEF Cpu!Finish
  <2>3. CASE w \in Interactive
    <3>1. Busy' = Busy \ {w} /\ w \in Busy
      BY <1>1, <2>1, <2>3 DEF CpuInv, Busy
    <3>2. m = k - 1
      BY <1>2, <3>1, BusyFacts, FS_RemoveElement
    <3>3. k = m + 1
      BY <1>2, <3>2
    <3> QED
      BY <1>3, <1>4, <2>2, <2>3, <3>3
  <2>4. CASE w \notin Interactive
    <3>1. Busy' = Busy
      BY <1>1, <2>1, <2>4 DEF CpuInv, Busy
    <3>2. m = k
      BY <1>2, <3>1
    <3> QED
      BY <1>3, <1>4, <2>2, <2>4, <3>2
  <2> QED
    BY <2>3, <2>4
<1>10. CASE Cpu!Refill
  <2>1. PICK slow \in 0..1 :
          /\ credit'.tokens = IF credit.tokens < Burst THEN credit.tokens + 1 ELSE Burst
          /\ credit'.background = IF credit.background < IdleBurst
                                  THEN credit.background + slow ELSE IdleBurst
          /\ thread' = thread
    BY <1>10 DEF Cpu!Refill
  <2>2. m = k
    BY <1>2, <2>1 DEF Busy
  <2> QED
    BY <1>1, <1>3, <1>4, <2>1, <2>2 DEF CpuInv
<1>11. CASE UNCHANGED Cpu!vars
  <2>1. credit' = credit /\ Busy' = Busy
    BY <1>11 DEF Cpu!vars, Busy
  <2> QED
    BY <1>2, <1>6, <2>1
<1>12. ASSUME NEW w \in Cpu!Worker,
              Cpu!Ask(w) \/ Cpu!GetCredit(w) \/ Cpu!GetSlot(w) \/ Cpu!GiveBack(w)
       PROVE  /\ credit'.background \in Int /\ credit'.background <= IdleBurst
              /\ credit'.tokens >= -(Debt + Owing(m))
  BY <1>7, <1>12 DEF Cpu!Ask, Cpu!GetCredit, Cpu!GetSlot, Cpu!GiveBack
<1> QED
  BY <1>8, <1>9, <1>10, <1>11, <1>12 DEF Cpu!Next

LEMMA CpuTypeOK == Cpu!Constants /\ CpuTyped => Cpu!TypeOK
<1> SUFFICES ASSUME Cpu!Constants, CpuTyped PROVE Cpu!TypeOK
  OBVIOUS
<1>1. PICK k \in Nat : k = Cardinality(Busy)
  BY BusyFacts
<1>2. Owing(k) \in Int /\ Owing(k) <= Cpu!Cardinality(Cpu!Worker) * MaxCost
  BY OwingFacts, SameCount
<1>3. Cpu!Cardinality(Cpu!Worker) * MaxCost \in Int
  <2>1. Cpu!Cardinality(Cpu!Worker) \in Nat /\ MaxCost \in Nat
    BY SameCount, FS_Union, FS_CardinalityType DEF Cpu!Constants, Cpu!Worker
  <2> QED
    BY <2>1
<1>4. /\ credit.tokens \in Int /\ credit.tokens <= Burst /\ credit.tokens >= -(Debt + Owing(k))
      /\ Burst \in Nat /\ Debt \in Nat
  BY <1>1 DEF CpuTyped, CpuInv, Cpu!Constants
<1>5. credit.tokens \in Cpu!Least..Burst
  <2> DEFINE n == Cpu!Cardinality(Cpu!Worker) * MaxCost
  <2>1. n \in Int /\ Owing(k) <= n
    BY <1>2, <1>3
  <2> HIDE DEF n
  <2>2. credit.tokens >= -(Debt + n)
    BY <1>2, <1>4, <2>1
  <2>3. Cpu!Least = -(Debt + n)
    BY DEF n, Cpu!Least
  <2> QED
    BY <1>4, <2>1, <2>2, <2>3
<1> QED
  BY <1>5 DEF CpuTyped, CpuInv, Cpu!TypeOK, Cpu!Worker

\* A new state stays within the bounds of the stamps.
LEMMA ChangedIsState ==
  ASSUME Plans!Constants, NEW s \in Plans!State, NEW change \in 1..2, clock \in 0..MaxClock,
         s.version < MaxStamp, Plans!Touch(s.stamp) <= MaxStamp
  PROVE  Plans!Changed(s, change) \in Plans!State
<1> DEFINE t == Plans!Touch(s.stamp)
<1>1. s.stamp \in 0..MaxStamp /\ s.version \in 0..MaxStamp /\ MaxStamp \in Nat
  BY DEF Plans!State, Plans!Constants
<1>2. t \in 0..MaxStamp
  BY <1>1 DEF Plans!Touch, Plans!Constants
<1> HIDE DEF t
<1>3. s.version + 1 \in 0..MaxStamp /\ change \in 0..2
  BY <1>1
<1>4. Plans!Changed(s, change) = [s EXCEPT !.version = s.version + 1, !.change = change, !.stamp = t]
  BY DEF Plans!Changed, t
<1> QED
  BY <1>2, <1>3, <1>4 DEF Plans!State

LEMMA PlansTypedStep ==
  Plans!Constants /\ PlansInv /\ Plans!TypeOK /\ [Plans!Next]_Plans!vars => Plans!TypeOK'
<1> SUFFICES ASSUME Plans!Constants, PlansInv, Plans!TypeOK, [Plans!Next]_Plans!vars
             PROVE  Plans!TypeOK'
  OBVIOUS
<1> DEFINE Places == {"idle", "loaded", "created", "written"}
<1>1. Plans!Idle \in [at : Places, state : Plans!State] /\ Plans!Zero \in Plans!State
  BY DEF Plans!Idle, Plans!Zero, Plans!State, Plans!Constants
<1>2. \A s, t \in Plans!State : Plans!Newer(s, t) \in Plans!State
  BY DEF Plans!Newer
<1>3. ASSUME NEW p \in Plan, Plans!Newest(p) # NOFILE PROVE Plans!Newest(p).state \in Plans!State
  BY <1>3, NewestIsEnd DEF Reads, Plans!TypeOK, Plans!File
<1>4. \A p \in Plan, s \in Plans!State, w \in BOOLEAN :
        [plan |-> p, state |-> s, whole |-> w] \in Plans!File
  BY DEF Plans!File
<1>5. ASSUME NEW p \in Plan, NEW u \in [at : Places, state : Plans!State],
             update' = [update EXCEPT ![p] = u]
      PROVE  update' \in [Plan -> [at : Places, state : Plans!State]]
  BY <1>5 DEF Plans!TypeOK
<1>6. ASSUME NEW p \in Plan, Plans!Look(p) PROVE Plans!TypeOK'
  BY <1>2, <1>3, <1>6 DEF Plans!Look, Plans!TypeOK
<1>7. ASSUME NEW p \in Plan, Plans!Load(p) PROVE Plans!TypeOK'
  <2>1. CASE Plans!Newest(p) # NOFILE
    <3>1. PICK s \in Plans!State : s = Plans!Newest(p).state
      BY <1>3, <2>1
    <3>2. [at |-> "loaded", state |-> s] \in [at : Places, state : Plans!State]
      OBVIOUS
    <3>3. update' \in [Plan -> [at : Places, state : Plans!State]]
      BY <1>5, <1>7, <2>1, <3>1, <3>2 DEF Plans!Load
    <3> QED
      BY <1>2, <1>7, <2>1, <3>1, <3>3 DEF Plans!Load, Plans!TypeOK
  <2>2. CASE Plans!Newest(p) = NOFILE
    <3> DEFINE s == [Plans!Zero EXCEPT !.line = starts + 1, !.stamp = clock]
    <3>1. starts < MaxStarts /\ starts' = starts + 1 /\ UNCHANGED <<clock, files, known>>
      BY <1>7, <2>2 DEF Plans!Load
    <3>2. starts + 1 \in 0..MaxStarts /\ clock \in 0..MaxStamp
      BY <3>1 DEF Plans!TypeOK, Plans!Constants
    <3>3. s \in Plans!State
      BY <1>1, <3>2 DEF Plans!State
    <3> HIDE DEF s
    <3>4. [at |-> "loaded", state |-> s] \in [at : Places, state : Plans!State]
      BY <3>3
    <3>5. update' = [update EXCEPT ![p] = [at |-> "loaded", state |-> s]]
      BY <1>7, <2>2 DEF Plans!Load, s
    <3>6. update' \in [Plan -> [at : Places, state : Plans!State]]
      BY <1>5, <3>4, <3>5
    <3> QED
      BY <3>1, <3>2, <3>6 DEF Plans!TypeOK
  <2> QED
    BY <2>1, <2>2
<1>8. ASSUME NEW p \in Plan, Plans!Create(p) PROVE Plans!TypeOK'
  <2>1. PICK change \in 1..2 :
          LET s == Plans!Changed(update[p].state, change) IN
          IF Plans!Torn(p, s) \in files \/ Plans!Whole(p, s) \in files
            THEN update' = [update EXCEPT ![p] = Plans!Idle] /\ UNCHANGED files
            ELSE /\ files' = files \cup {Plans!Torn(p, s)}
                 /\ update' = [update EXCEPT ![p] = [at |-> "created", state |-> s]]
    BY <1>8 DEF Plans!Create
  <2> DEFINE s == Plans!Changed(update[p].state, change)
  <2>2. s \in Plans!State
    <3>1. update[p].state \in Plans!State /\ clock \in 0..MaxClock
      BY DEF Plans!TypeOK
    <3> QED
      BY <1>8, <3>1, ChangedIsState DEF Plans!Create
  <2>3. \/ update' = [update EXCEPT ![p] = Plans!Idle] /\ UNCHANGED files
        \/ /\ files' = files \cup {Plans!Torn(p, s)}
           /\ update' = [update EXCEPT ![p] = [at |-> "created", state |-> s]]
    BY <2>1
  <2> HIDE DEF s
  <2>4. [at |-> "created", state |-> s] \in [at : Places, state : Plans!State]
    BY <2>2
  <2>5. update' \in [Plan -> [at : Places, state : Plans!State]]
    BY <1>1, <1>5, <2>3, <2>4
  <2>6. files' \in SUBSET Plans!File
    <3>1. Plans!Torn(p, s) \in Plans!File
      BY <1>4, <2>2 DEF Plans!Torn
    <3> QED
      BY <2>3, <3>1 DEF Plans!TypeOK
  <2> QED
    BY <1>8, <2>5, <2>6 DEF Plans!Create, Plans!TypeOK
<1>9. ASSUME NEW p \in Plan, Plans!Write(p) PROVE Plans!TypeOK'
  <2>1. \A f \in files : f.state \in Plans!State
    BY DEF Plans!TypeOK, Plans!File
  <2>2. files' \in SUBSET Plans!File
    BY <1>4, <1>9, <2>1 DEF Plans!Write, Plans!Whole, Plans!TypeOK
  <2>3. update' \in [Plan -> [at : Places, state : Plans!State]]
    BY <1>9 DEF Plans!Write, Plans!TypeOK
  <2> QED
    BY <1>9, <2>2, <2>3 DEF Plans!Write, Plans!TypeOK
<1>10. ASSUME NEW p \in Plan, Plans!Fail(p) \/ Plans!Prune(p) PROVE Plans!TypeOK'
  <2>1. update' = [update EXCEPT ![p] = Plans!Idle] /\ files' \in SUBSET files
    BY <1>10 DEF Plans!Fail, Plans!Prune
  <2>2. update' \in [Plan -> [at : Places, state : Plans!State]]
    BY <1>1, <1>5, <2>1
  <2>3. known' \in [Plan -> Plans!State]
    BY <1>2, <1>10 DEF Plans!Fail, Plans!Prune, Plans!TypeOK
  <2> QED
    BY <1>10, <2>1, <2>2, <2>3 DEF Plans!Fail, Plans!Prune, Plans!TypeOK
<1>11. CASE Plans!Crash \/ Plans!SetClock \/ UNCHANGED Plans!vars
  BY <1>1, <1>11 DEF Plans!Crash, Plans!SetClock, Plans!vars, Plans!TypeOK
<1> QED
  BY <1>6, <1>7, <1>8, <1>9, <1>10, <1>11 DEF Plans!Next

\* The inbox, with what its safety does not need.
PostTyped ==
  /\ PostInv
  /\ busy \in SUBSET Contended /\ broken \in SUBSET Contended
  /\ resting \in SUBSET Delivery /\ acknowledged \in SUBSET Delivery /\ reported \in SUBSET Delivery
  /\ unconfirmed \in 0..MaxUnconfirmed /\ leftover \in 0..Room + 1

LEMMA PostTypedStep == Post!Constants /\ PostTyped /\ [Post!Next]_Post!vars => PostTyped'
<1> SUFFICES ASSUME Post!Constants, PostTyped, [Post!Next]_Post!vars PROVE PostTyped'
  OBVIOUS
<1>1. PostInv'
  BY PostStep DEF PostTyped
<1> DEFINE Goal == /\ busy' \in SUBSET Contended /\ broken' \in SUBSET Contended
                   /\ resting' \in SUBSET Delivery /\ acknowledged' \in SUBSET Delivery
                   /\ reported' \in SUBSET Delivery
                   /\ unconfirmed' \in 0..MaxUnconfirmed /\ leftover' \in 0..Room + 1
<1>2. ASSUME unconfirmed < MaxUnconfirmed PROVE unconfirmed + 1 \in 0..MaxUnconfirmed
  BY <1>2 DEF PostTyped, Post!Constants
<1>3. ASSUME NEW f, Post!Confirmed(f) \/ Post!Unconfirmed(f)
      PROVE  unconfirmed' \in 0..MaxUnconfirmed
  BY <1>2, <1>3 DEF Post!Confirmed, Post!Unconfirmed, PostTyped
<1>4. ASSUME NEW d \in Delivery, Post!Enqueue(d) \/ Post!Redeliver(d) PROVE Goal
  BY <1>3, <1>4 DEF Post!Enqueue, Post!Redeliver, Post!world, PostTyped
<1>5. ASSUME NEW d \in Delivery, Post!Rest(d) PROVE resting' \in SUBSET Delivery
  BY <1>5 DEF Post!Rest, PostTyped
<1>6. ASSUME NEW d \in Delivery, Post!Begin(d) PROVE Goal
  BY <1>3, <1>5, <1>6 DEF Post!Begin, Post!world, PostTyped
<1>7. ASSUME NEW d \in Delivery, Post!BeginFails(d) PROVE Goal
  BY <1>2, <1>5, <1>7 DEF Post!BeginFails, Post!world, PostTyped
<1>8. ASSUME NEW d \in Delivery, NEW ok \in BOOLEAN, Post!Finish(d, ok) PROVE Goal
  BY <1>3, <1>5, <1>8 DEF Post!Finish, Post!world, PostTyped
<1>9. ASSUME Post!Recover \/ Post!Archive PROVE Goal
  BY <1>3, <1>9 DEF Post!Recover, Post!Archive, Post!world, PostTyped
<1>10. ASSUME Post!Flush PROVE Goal
  BY <1>3, <1>10 DEF Post!Flush, Post!world, PostTyped
<1>11. ASSUME NEW h \in Contended, Post!Contend(h) PROVE Goal
  BY <1>11 DEF Post!Contend, PostTyped
<1>12. ASSUME Post!Leave PROVE Goal
  BY <1>12 DEF Post!Leave, Post!Usable, Post!Constants, PostTyped
<1>13. ASSUME Post!PowerFails PROVE Goal
  BY <1>13 DEF Post!PowerFails, Post!Constants, PostTyped
<1>14. ASSUME Post!Abandon \/ (\E k \in Key : Post!Rotate(k)) \/ (\E d \in Delivery : Post!Ripen(d))
              \/ UNCHANGED Post!vars
       PROVE  Goal
  BY <1>14 DEF Post!Abandon, Post!Rotate, Post!Ripen, Post!world, Post!vars, PostTyped
<1>15. Goal
  BY <1>4, <1>6, <1>7, <1>8, <1>9, <1>10, <1>11, <1>12, <1>13, <1>14 DEF Post!Next
<1> QED
  BY <1>1, <1>15 DEF PostTyped

\* What the parts keep together.
HostInv ==
  /\ TaskInv /\ CacheInv /\ RunsInv /\ CpuTyped /\ ToolsInv /\ BatchInv
  /\ PlansInv /\ Plans!TypeOK /\ SessionInv /\ NetInv /\ PostTyped

LEMMA HostInvStart == HostInit => HostInv
<1> SUFFICES ASSUME HostInit PROVE HostInv
  OBVIOUS
<1>1. /\ Init /\ Cache!Init /\ Runs!Init /\ Tools!Init /\ Batch!Init
      /\ Tokens!Init /\ Cpu!Init /\ Plans!Init /\ Net!Init /\ Post!Init
  BY HostStarts
<1>2. TaskInv /\ CacheInv /\ ToolsInv /\ BatchInv /\ SessionInv
  BY <1>1, InitTasks, CacheStart, ToolsStart, BatchStart, SessionStart, HostAssumption
<1>3. RunsInv
  BY <1>1, RunsStart, HostAssumption DEF Runs!Constants
<1>4. CpuTyped /\ PlansInv /\ NetInv
  BY <1>1, CpuTypedStart, PlansStart, NetStart, HostAssumption
<1>5. Plans!TypeOK
  BY <1>1, HostAssumption DEF Plans!Constants, Plans!Init, Plans!Idle, Plans!Zero, Plans!State, Plans!TypeOK
<1>6. PostTyped
  BY <1>1, PostStart, HostAssumption DEF Post!Init, Post!Constants, PostTyped
<1> QED
  BY <1>2, <1>3, <1>4, <1>5, <1>6 DEF HostInv

LEMMA HostInvStep == HostInv /\ [HostNext]_hostVars => HostInv'
<1> SUFFICES ASSUME HostInv, [HostNext]_hostVars PROVE HostInv'
  OBVIOUS
<1>1. TaskInv' /\ CacheInv' /\ RunsInv' /\ ToolsInv' /\ BatchInv'
  BY HostSteps, StepKeeps, CacheStep, RunsStep, ToolsStep, BatchStep, HostAssumption DEF HostInv
<1>2. CpuTyped' /\ PlansInv' /\ Plans!TypeOK'
  BY HostSteps, CpuTypedStep, PlansStep, PlansTypedStep, HostAssumption DEF HostInv
<1>3. SessionInv' /\ NetInv' /\ PostTyped'
  BY HostSteps, SessionStep, NetStep, PostTypedStep, HostAssumption DEF HostInv
<1> QED
  BY <1>1, <1>2, <1>3 DEF HostInv

LEMMA HostInvTyped == HostInv => HostTypeOK
<1> SUFFICES ASSUME HostInv PROVE HostTypeOK
  OBVIOUS
<1>1. TypeOK /\ Runs!TypeOK /\ Tools!TypeOK /\ Batch!TypeOK /\ Plans!TypeOK /\ Net!TypeOK
  BY DEF HostInv, TaskInv, RunsInv, RunsType, ToolsInv, BatchInv, NetInv, NetShape, NetType
<1>2. Cache!TypeOK
  BY DEF HostInv, CacheInv, CacheType, CallState, Cache!TypeOK
<1>3. Cpu!TypeOK
  BY CpuTypeOK, HostAssumption DEF HostInv
<1>4. Tokens!TypeOK
  <2>1. op.kind \in {"free", "register", "issue", "revoke"} /\ op.stored \in BOOLEAN
        /\ op.session \in Session \cup {NONE} /\ (op.saved = NONE \/ op.saved \in Tokens!Auth)
    BY DEF HostInv, SessionInv, TokensInv, TokensType, Op
  <2> QED
    BY <2>1 DEF HostInv, SessionInv, TokensInv, TokensType, Tokens!TypeOK
<1>5. Post!TypeOK
  BY DEF HostInv, PostTyped, PostInv, Sound, Post!TypeOK
<1> QED
  BY <1>1, <1>2, <1>3, <1>4, <1>5 DEF HostTypeOK

\* Every part keeps its type: no stamp, counter, bucket or place of any of them
\* leaves its range, whatever steps the others take in between.
THEOREM HostTypeCorrect == HostSpec => []HostTypeOK
BY HostInvStart, HostInvStep, HostInvTyped, PTL DEF HostSpec
=============================================================================
