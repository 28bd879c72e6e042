----------------------------- MODULE TokenStore -----------------------------
(***************************************************************************)
(* The OAuth state of a server and its file: src/integrations/auth.  All   *)
(* changes happen under one mutation lock, in memory first; then the whole *)
(* state is written, and taken back if that fails.  Memory is lost with    *)
(* the process, and so are the answers that were not sent.                 *)
(***************************************************************************)
EXTENDS Naturals, FiniteSets

CONSTANTS
  Client, Session, NONE,
  ClientOf,      \* the client of a session
  MaxClients,    \* MAX_REGISTERED_CLIENTS
  MaxTokens,     \* MAX_ACCESS_TOKENS and MAX_REFRESH_TOKENS
  AccessTtl, RefreshTtl,
  MaxTime,       \* bound: the clock
  MaxPairs       \* bound: pairs of tokens per session

VARIABLES
  now,       \* the clock
  memory,    \* [clients, access, refresh]
  disk,      \* the same in the file
  code,      \* per session: the authorization code that starts it
  pairs,     \* per session: pairs made for it
  op,        \* the operation that holds the mutation lock
  held,      \* per session: the refresh token its client was last given
  revoked,   \* sessions whose revocation was acknowledged
  gone       \* sessions that lost their tokens otherwise

vars == <<now, memory, disk, code, pairs, op, held, revoked, gone>>

\* Both tokens of a pair are told apart by what they are a member of.
Token == [session : Session, at : 1..MaxTime, n : 1..MaxPairs]
Auth == [clients : SUBSET Client, access : SUBSET Token, refresh : SUBSET Token]
Constants ==
  /\ MaxTime \in Nat \ {0} /\ {MaxPairs, AccessTtl, RefreshTtl} \subseteq Nat
  /\ NONE \notin Token
Free == [kind |-> "free", session |-> NONE, saved |-> NONE, stored |-> FALSE]

TypeOK ==
  /\ now \in 1..MaxTime
  /\ memory \in Auth /\ disk \in Auth
  /\ code \in [Session -> {"none", "pending", "used"}]
  /\ pairs \in [Session -> 0..MaxPairs]
  /\ op.kind \in {"free", "register", "issue", "revoke"} /\ op.stored \in BOOLEAN
  /\ op.session \in Session \cup {NONE}
  /\ op.saved = NONE \/ op.saved \in Auth
  /\ held \in [Session -> Token \cup {NONE}]
  /\ revoked \in SUBSET Session /\ gone \in SUBSET Session

Empty == [clients |-> {}, access |-> {}, refresh |-> {}]

Init ==
  /\ now = 1
  /\ memory = Empty /\ disk = Empty
  /\ code = [s \in Session |-> "none"]
  /\ pairs = [s \in Session |-> 0]
  /\ op = Free
  /\ held = [s \in Session |-> NONE]
  /\ revoked = {} /\ gone = {}

-----------------------------------------------------------------------------
Current(t, ttl) == t.at <= now /\ now - t.at < ttl

Fresh(auth) ==
  [auth EXCEPT !.access = {t \in @ : Current(t, AccessTtl)},
               !.refresh = {t \in @ : Current(t, RefreshTtl)}]

Of(s, tokens) == {t \in tokens : t.session = s}
Without(s, auth) ==
  [auth EXCEPT !.access = @ \ Of(s, @), !.refresh = @ \ Of(s, @)]

\* validate: what may be written, and what a restart accepts.
Valid(auth) ==
  /\ Cardinality(auth.clients) <= MaxClients
  /\ Cardinality(auth.access) <= MaxTokens /\ Cardinality(auth.refresh) <= MaxTokens
  /\ \A t \in auth.access \cup auth.refresh : ClientOf[t.session] \in auth.clients

\* make_client_room: a client without live tokens makes place for another.
Bound(auth) == {ClientOf[t.session] : t \in auth.access \cup auth.refresh}

Rooms(auth) ==
  IF Cardinality(auth.clients) < MaxClients THEN {auth}
  ELSE {[Fresh(auth) EXCEPT !.clients = @ \ {c}] : c \in auth.clients \ Bound(Fresh(auth))}

\* register_client, and persist_recovered_client for one that was forgotten.
Register(c) ==
  /\ op = Free
  /\ c \notin memory.clients
  /\ \/ /\ Rooms(memory) = {}
        /\ memory' = Fresh(memory)
        /\ UNCHANGED op
     \/ \E auth \in Rooms(memory) :
          /\ memory' = [auth EXCEPT !.clients = @ \cup {c}]
          /\ op' = [kind |-> "register", session |-> NONE, saved |-> memory, stored |-> FALSE]
  /\ UNCHANGED <<now, disk, code, pairs, held, revoked, gone>>

Authorize(s) ==
  /\ code[s] = "none"
  /\ ClientOf[s] \in memory.clients
  /\ code' = [code EXCEPT ![s] = "pending"]
  /\ UNCHANGED <<now, memory, disk, pairs, op, held, revoked, gone>>

\* At its limit a set of tokens loses an oldest one.
Evicted(tokens) ==
  IF Cardinality(tokens) < MaxTokens THEN {tokens}
  ELSE {tokens \ {t} : t \in {u \in tokens : \A v \in tokens : u.at <= v.at}}

\* issue_tokens_locked: access tokens of the session and the refresh token it
\* was asked with make place for a new pair.
Issue(s, rotated) ==
  LET new == [session |-> s, at |-> now, n |-> pairs[s] + 1]
      kept == Fresh(memory)
      access == IF rotated = {} THEN kept.access ELSE kept.access \ Of(s, kept.access)
  IN  /\ pairs[s] < MaxPairs
      /\ \E a \in Evicted(access), r \in Evicted(kept.refresh \ rotated) :
           memory' = [memory EXCEPT !.access = a \cup {new}, !.refresh = r \cup {new}]
      /\ pairs' = [pairs EXCEPT ![s] = @ + 1]
      /\ op' = [kind |-> "issue", session |-> s, saved |-> memory, stored |-> FALSE]

\* exchange_code: the code goes first, whatever comes of it.
Exchange(s) ==
  /\ op = Free
  /\ code[s] = "pending"
  /\ code' = [code EXCEPT ![s] = "used"]
  /\ Issue(s, {})
  /\ UNCHANGED <<now, disk, held, revoked, gone>>

\* refresh_access_token.
Refresh(s) ==
  /\ op = Free
  /\ held[s] \in memory.refresh /\ Current(held[s], RefreshTtl)
  /\ Issue(s, {held[s]})
  /\ UNCHANGED <<now, disk, code, held, revoked, gone>>

\* revoke_operator_session.
Revoke(s) ==
  /\ op = Free
  /\ pairs[s] > 0
  /\ memory' = Without(s, memory)
  /\ op' = [kind |-> "revoke", session |-> s, saved |-> NONE, stored |-> FALSE]
  /\ gone' = gone \cup {s}
  /\ UNCHANGED <<now, disk, code, pairs, held, revoked>>

\* persist: the file is replaced by a rename.
Persist ==
  /\ op # Free /\ ~op.stored
  /\ Valid(memory)
  /\ disk' = memory
  /\ op' = [op EXCEPT !.stored = TRUE]
  /\ gone' = IF op.kind # "issue" THEN gone
             ELSE gone \cup {t.session : t \in {u \in op.saved.refresh \ memory.refresh :
                                                  u.session # op.session}}
  /\ UNCHANGED <<now, memory, code, pairs, held, revoked>>

\* Mutant of RolledBack: only the access tokens of an issue are put back.
AccessRolledBack ==
  CASE op.kind = "register" -> [memory EXCEPT !.clients = op.saved.clients]
    [] op.kind = "issue" -> [memory EXCEPT !.access = op.saved.access]
    [] op.kind = "revoke" -> memory

\* Nothing is written: what was saved is put back, but not what was revoked.
RolledBack ==
  CASE op.kind = "register" -> [memory EXCEPT !.clients = op.saved.clients]
    [] op.kind = "issue" -> [memory EXCEPT !.access = op.saved.access, !.refresh = op.saved.refresh]
    [] op.kind = "revoke" -> memory

\* Mutant of NotPersisted: a revocation is acknowledged all the same.
NotPersistedButAnswered ==
  /\ op # Free /\ ~op.stored
  /\ memory' = RolledBack
  /\ op' = Free
  /\ revoked' = IF op.kind = "revoke" THEN revoked \cup {op.session} ELSE revoked
  /\ UNCHANGED <<now, disk, code, pairs, held, gone>>

NotPersisted ==
  /\ op # Free /\ ~op.stored
  /\ memory' = RolledBack
  /\ op' = Free
  /\ UNCHANGED <<now, disk, code, pairs, held, revoked, gone>>

\* The answer is sent, and the lock given back.
Answer ==
  /\ op # Free /\ op.stored
  /\ op' = Free
  /\ held' = IF op.kind # "issue" THEN held
             ELSE [held EXCEPT ![op.session] =
                     CHOOSE t \in Of(op.session, memory.refresh) : t.n = pairs[op.session]]
  /\ revoked' = IF op.kind = "revoke" THEN revoked \cup {op.session} ELSE revoked
  /\ UNCHANGED <<now, memory, disk, code, pairs, gone>>

\* A restart reads the file and drops what has expired; a client whose answer
\* was lost holds a token that has been replaced.
Restart ==
  /\ memory' = Fresh(disk)
  /\ code' = [s \in Session |-> IF code[s] = "pending" THEN "used" ELSE code[s]]
  /\ op' = Free
  /\ gone' = IF op.stored /\ op.kind = "issue" THEN gone \cup {op.session} ELSE gone
  /\ UNCHANGED <<now, disk, pairs, held, revoked>>

Tick == now < MaxTime /\ now' = now + 1
        /\ UNCHANGED <<memory, disk, code, pairs, op, held, revoked, gone>>

Next ==
  \/ \E c \in Client : Register(c)
  \/ \E s \in Session : Authorize(s) \/ Exchange(s) \/ Refresh(s) \/ Revoke(s)
  \/ Persist \/ NotPersisted \/ Answer \/ Restart \/ Tick

Spec == Init /\ [][Next]_vars

-----------------------------------------------------------------------------
\* A revocation that was acknowledged is final: no refresh, rollback of another
\* operation or restart brings a token of the session back, in memory or in
\* the file (revoke_operator_session).
RevokedStaysRevoked ==
  \A s \in revoked : \A t \in memory.access \cup memory.refresh
                              \cup disk.access \cup disk.refresh : t.session # s

\* The refresh token a client was last given works, also after a restart, when
\* a later refresh failed, or when the file could not be written; unless the
\* session was revoked or pushed out, or its answer was lost in a crash.
ClientKeepsSession ==
  \A s \in Session :
    op = Free /\ held[s] # NONE /\ s \notin gone /\ Current(held[s], RefreshTtl)
    => held[s] \in memory.refresh \cap disk.refresh
=============================================================================
