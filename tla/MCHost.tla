------------------------------- MODULE MCHost -------------------------------
(***************************************************************************)
(* Ten parts of the server that share nothing but the process: the        *)
(* durable tasks (whose names are this module's), the flights of cache     *)
(* validations and of verification runs, the CPU governor, the admission   *)
(* of tool calls, a batch of parallel tools, the snapshots of plans, the   *)
(* OAuth tokens, the public endpoints and the inbox of webhook deliveries. *)
(* A behaviour exercises one of them, so that their states add up instead  *)
(* of multiplying; none reads what another writes.                         *)
(***************************************************************************)
EXTENDS Tasks, Integers, Sequences

CONSTANTS
  Part,         \* the parts that are exercised
  c1, c2, c3, NOBODY, NOKEY, NOFILE, NONE,
  Caller, MaxEdits, MaxGeneration,
  Follower, Revision,
  Interactive, Background, Threads, Burst, Debt, IdleBurst, MaxCost,
  Call, Slots, LocalChildren, HostChildren,
  Batches,
  Plan, MaxSnapshots, MaxStamp, MaxStarts,
  Client, Session, MaxClients, MaxTokens, AccessTtl, RefreshTtl, MaxTime, MaxPairs,
  Provider, Url, Stable, HERE, MaxRetained, MaxEpoch, MaxLease, MaxStarting,
  Delivery, Commit, CommitOf, Contended, Key, MaxAttempts, MaxEvents, MaxTombstones, MaxUnconfirmed,
  Room

VARIABLES
  part,
  disk, settled, editing, generation, revision, success, gate, cache, call,
  repository, runs, follower,
  credit, thread,
  held, state,
  items, remaining, ready, progress, ending,
  clock, files, update, starts, known,
  time, memory, stored, code, pairs, op, given, revoked, gone,
  registry, primary, first, starting, failed, coming, tunnels, epochs, leases,
  retained, pending, probes, loop,
  file, synced, archives, secret, busy, broken, attempt, resting, acknowledged, begun,
  reported, unconfirmed, leftover

-----------------------------------------------------------------------------
Lanes == [read |-> "none", test |-> "test", check |-> "test", build |-> "exclusive",
          update |-> "update", run |-> "none", other |-> "registry"]

Workspaces == [read |-> "w1", test |-> "w1", check |-> "w1", build |-> "w1",
               update |-> "w1", run |-> "w1", other |-> "w2"]

\* Items that touch one directory, its file and another file, in a workspace
\* and in the one that lies in it.
Roots == [top |-> <<>>, sub |-> <<"a">>]
Item(t, r, p, s) == [tool |-> t, root |-> r, path |-> p, sha |-> s]
Items == {Item("read", "top", <<"a">>, 0), Item("read", "top", <<"b">>, 0),
          Item("edit", "top", <<"a", "x">>, 1), Item("edit", "top", <<"a", "x">>, 2),
          Item("edit", "sub", <<"x">>, 1), Item("delete", "sub", <<"x">>, 0),
          Item("create", "top", <<"a">>, 0), Item("create", "top", <<"a", "x">>, 0)}
Threes == [1..3 -> Items]
Fours == [1..4 -> Items]

\* Two sessions of one client; the other client wants its place.
ClientOfSession == [s \in Session |-> "k"]

\* The checks of two deliveries, of different commits.
Commits == [d |-> "h", e |-> "i"]

\* The addresses are those of one provider.
Owners == [u \in Url |-> CHOOSE p \in Provider : TRUE]

Cache == INSTANCE CacheFlight
Runs == INSTANCE RunFlight WITH Client <- Follower, client <- follower
Cpu == INSTANCE CpuBudget
Tools == INSTANCE ToolAdmission WITH
           LaneOf <- Lanes, WorkspaceOf <- Workspaces, Readers <- {"read"}
Batch == INSTANCE Batch WITH RootOf <- Roots, state <- progress, outcome <- ending
Plans == INSTANCE Snapshots
Tokens == INSTANCE TokenStore WITH
            ClientOf <- ClientOfSession, disk <- stored, held <- given, now <- time
Net == INSTANCE Tunnel WITH OwnerOf <- Owners
Post == INSTANCE Inbox

ASSUME HostAssumption ==
  /\ Cache!Constants /\ Runs!Constants /\ Cpu!Constants /\ Tools!Constants /\ Batch!Constants
  /\ Plans!Constants /\ Tokens!Constants /\ Net!Constants /\ Post!Constants

cacheVars == <<disk, settled, editing, generation, revision, success, gate, cache, call>>
runsVars == <<repository, runs, follower>>
cpuVars == <<credit, thread>>
toolsVars == <<held, state>>
batchVars == <<items, remaining, ready, progress, ending>>
plansVars == <<clock, files, update, starts, known>>
tokensVars == <<time, memory, stored, code, pairs, op, given, revoked, gone>>
netVars == <<registry, primary, first, starting, failed, coming, tunnels, epochs, leases,
             retained, pending, probes, loop>>
postVars == <<file, synced, archives, secret, busy, broken, attempt, resting, acknowledged,
              begun, reported, unconfirmed, leftover>>

hostVars == <<part, vars, cacheVars, runsVars, cpuVars, toolsVars, batchVars, plansVars,
              tokensVars, netVars, postVars>>

\* A part that is not exercised starts, and stays, in one of its states.
HostInit ==
  /\ part \in Part
  /\ Init
  /\ Cache!Init /\ Runs!Init /\ Cpu!Init /\ Tools!Init
  /\ Batch!Init /\ Plans!Init /\ Tokens!Init /\ Net!Init /\ Post!Init
  /\ part # "runs" => repository = CHOOSE r \in Revision : TRUE
  /\ part # "batch" => items = CHOOSE b \in Batches : TRUE

HostNext ==
  \/ part = "tasks" /\ Next
     /\ UNCHANGED <<part, cacheVars, runsVars, cpuVars, toolsVars, batchVars, plansVars, tokensVars, netVars, postVars>>
  \/ part = "cache" /\ Cache!Next
     /\ UNCHANGED <<part, vars, runsVars, cpuVars, toolsVars, batchVars, plansVars, tokensVars, netVars, postVars>>
  \/ part = "runs" /\ Runs!Next
     /\ UNCHANGED <<part, vars, cacheVars, cpuVars, toolsVars, batchVars, plansVars, tokensVars, netVars, postVars>>
  \/ part = "cpu" /\ Cpu!Next
     /\ UNCHANGED <<part, vars, cacheVars, runsVars, toolsVars, batchVars, plansVars, tokensVars, netVars, postVars>>
  \/ part = "tools" /\ Tools!Next
     /\ UNCHANGED <<part, vars, cacheVars, runsVars, cpuVars, batchVars, plansVars, tokensVars, netVars, postVars>>
  \/ part = "batch" /\ Batch!Next
     /\ UNCHANGED <<part, vars, cacheVars, runsVars, cpuVars, toolsVars, plansVars, tokensVars, netVars, postVars>>
  \/ part = "plans" /\ Plans!Next
     /\ UNCHANGED <<part, vars, cacheVars, runsVars, cpuVars, toolsVars, batchVars, tokensVars, netVars, postVars>>
  \/ part = "tokens" /\ Tokens!Next
     /\ UNCHANGED <<part, vars, cacheVars, runsVars, cpuVars, toolsVars, batchVars, plansVars, netVars, postVars>>
  \/ part = "tunnel" /\ Net!Next
     /\ UNCHANGED <<part, vars, cacheVars, runsVars, cpuVars, toolsVars, batchVars, plansVars, tokensVars, postVars>>
  \/ part = "inbox" /\ Post!Next
     /\ UNCHANGED <<part, vars, cacheVars, runsVars, cpuVars, toolsVars, batchVars, plansVars, tokensVars, netVars>>

\* Parts that do not start ask for no fairness.
HostSpec == HostInit /\ [][HostNext]_hostVars /\ Fairness /\ Post!Fairness

-----------------------------------------------------------------------------
\* Every variable of the ten parts has its type.
HostTypeOK ==
  /\ part = "tasks" => TypeOK
  /\ part = "cache" => Cache!TypeOK
  /\ part = "runs" => Runs!TypeOK
  /\ part = "cpu" => Cpu!TypeOK
  /\ part = "tools" => Tools!TypeOK
  /\ part = "batch" => Batch!TypeOK
  /\ part = "plans" => Plans!TypeOK
  /\ part = "tokens" => Tokens!TypeOK
  /\ part = "tunnel" => Net!TypeOK
  /\ part = "inbox" => Post!TypeOK

\* cache_flight.rs: an answer shows every edit that was over when it was asked for.
AnswersAreFresh == Cache!AnswersAreFresh

\* verification_cache.rs: no follower of a verification run sleeps for ever.
SleepersWake == Runs!SleepersWake

\* resource.rs: a queue of threads does not spend one CPU credit twice.
DebtBounded == Cpu!DebtBounded

\* admission.rs, execution.rs, subspace.rs: no circle of waits.
SomeoneCanGo == Tools!SomeoneCanGo

\* scheduler.rs: items that touch the same path work in the order of the call.
InputOrder == Batch!InputOrder

\* execution_store.rs: the state of a plan never goes back.
LoadsNeverGoBack == Plans!LoadsNeverGoBack

\* auth/tokens.rs: an acknowledged revocation is final.
RevokedStaysRevoked == Tokens!RevokedStaysRevoked

\* auth/tokens.rs: a client keeps the session it was given.
ClientKeepsSession == Tokens!ClientKeepsSession

\* tunnel_lifecycle.rs: every address is owned and watched, no provider is forgotten.
EndpointsSupervised == Net!EndpointsSupervised

\* origin.rs, tunnel_lifecycle.rs: a replacement survives the cleanup of what it replaces.
ReplacementsKept == Net!ReplacementsKept

\* inbox.rs, receiver.rs: what was acknowledged survives, what began is counted.
DeliveriesKept == Post!DeliveriesKept

\* inbox.rs, github_worker.rs: a delivery that can be published does not wait for ever.
DeliveriesEnd == Post!DeliveriesEnd

\* docs/manual/development.md:62: "Invalid overlap is rejected before execution."
RejectedBeforeExecution == Batch!RejectedBeforeExecution
=============================================================================
