---------------------------- MODULE ToolAdmission ----------------------------
(***************************************************************************)
(* What a tool call has to get before it works, and in which order.  The   *)
(* harness (src/runtime/harness/admission.rs) gives an execution slot to   *)
(* calls that start processes, and a slot to every call.  A command then   *)
(* passes the cargo gates (src/workspace/operations/execution.rs) and the  *)
(* child slots of its workspace and of the host (src/runtime/resource).    *)
(* Every wait has a deadline, a caller can go away at any time, and work   *)
(* that blocks a thread keeps what it holds until it is done.              *)
(***************************************************************************)
EXTENDS Naturals, FiniteSets, Sequences

CONSTANTS
  Call,            \* tool calls
  Readers,         \* those that start no process
  LaneOf,          \* of the others: the cargo lane of their command
  WorkspaceOf,     \* and the workspace it runs in
  Slots,           \* the harness's limit, max_parallel
  LocalChildren,   \* processes of a workspace, and tests of a workspace
  HostChildren     \* processes of the host

\* CargoContentionLane of a command.
Lane == {"none", "registry", "test", "exclusive", "update"}

Constants ==
  /\ Readers \subseteq Call
  /\ \A c \in Call \ Readers : LaneOf[c] \in Lane
  /\ {Slots, LocalChildren, HostChildren} \subseteq Nat \ {0}

VARIABLES
  held,     \* per call: the resources it holds
  state     \* per call: "away", "waiting", "working", or "orphan"

vars == <<held, state>>

\* execution_limit_for: some slots are kept for calls that start no process.
CeilDiv(n, d) == (n + d - 1) \div d
Lesser(a, b) == IF a < b THEN a ELSE b
Greater(a, b) == IF a > b THEN a ELSE b

ExecutionLimit == Greater(Slots - Lesser(CeilDiv(Slots, 8), 4), 1)

Resource == {"execution", "slot", "tests", "read", "write", "registry", "local", "host"}

\* What a command takes before its child slots: acquire_cargo_contention_gate.
Gates(lane) ==
  CASE lane = "none" -> <<>>
    [] lane = "registry" -> <<"registry">>
    [] lane = "test" -> <<"tests", "read">>
    [] lane = "exclusive" -> <<"write">>
    [] lane = "update" -> <<"write", "registry">>

\* acquire_after_resources, and acquire_child_for_workspace_with_wait.
Harness(c) == IF c \in Readers THEN <<"slot">> ELSE <<"execution", "slot">>
\* Mutant of Children: a plain command takes its host slot first.
HostFirst(c) == IF LaneOf[c] = "none" THEN <<"host", "local">> ELSE <<"local", "host">>

Children(c) == <<"local", "host">>

\* What a call takes, in this order.
Path(c) == IF c \in Readers THEN Harness(c) ELSE Harness(c) \o Gates(LaneOf[c]) \o Children(c)

TypeOK ==
  /\ held \in [Call -> SUBSET Resource]
  /\ state \in [Call -> {"away", "waiting", "working", "orphan"}]

Init ==
  /\ held = [c \in Call |-> {}]
  /\ state = [c \in Call |-> "away"]

Holders(r) == {c \in Call : r \in held[c]}
Nearby(c, r) == {d \in Holders(r) : WorkspaceOf[d] = WorkspaceOf[c]}

\* Whether a call could have a resource now.
Free(c, r) ==
  CASE r = "execution" -> Cardinality(Holders(r)) < ExecutionLimit
    [] r = "slot" -> Cardinality(Holders(r)) < Slots
    [] r = "tests" -> Cardinality(Nearby(c, r)) < LocalChildren
    [] r = "read" -> Nearby(c, "write") = {}
    [] r = "write" -> Nearby(c, "write") = {} /\ Nearby(c, "read") = {}
    [] r = "registry" -> Holders(r) = {}
    [] r = "local" -> Cardinality(Nearby(c, r)) < LocalChildren
    [] r = "host" -> Cardinality(Holders(r)) < HostChildren

Wanted(c) == Path(c)[Cardinality(held[c]) + 1]

Ask(c) ==
  /\ state[c] = "away"
  /\ state' = [state EXCEPT ![c] = "waiting"]
  /\ UNCHANGED held

Take(c) ==
  /\ state[c] = "waiting"
  /\ Free(c, Wanted(c))
  /\ held' = [held EXCEPT ![c] = @ \cup {Wanted(c)}]
  /\ state' = [state EXCEPT ![c] =
                 IF Cardinality(held[c]) + 1 = Len(Path(c)) THEN "working" ELSE @]

\* Everything a call holds is dropped with its permit.
GiveAllBack(c) ==
  /\ held' = [held EXCEPT ![c] = {}]
  /\ state' = [state EXCEPT ![c] = "away"]

Done(c) == state[c] \in {"working", "orphan"} /\ GiveAllBack(c)

\* A wait is over its deadline, or its caller has gone.
GiveUp(c) == state[c] = "waiting" /\ GiveAllBack(c)

\* The caller of working code has gone: a process is killed with its handle,
\* and so is waiting code; a blocking worker keeps its permit (run_blocking).
Abandon(c) ==
  /\ state[c] = "working"
  /\ IF "host" \in held[c]
       THEN GiveAllBack(c)
       ELSE state' = [state EXCEPT ![c] = "orphan"] /\ UNCHANGED held

Next == \E c \in Call : Ask(c) \/ Take(c) \/ Done(c) \/ GiveUp(c) \/ Abandon(c)

Spec == Init /\ [][Next]_vars

-----------------------------------------------------------------------------
\* No circle of waiting calls is broken by deadlines only: while a call waits
\* there is one that works, or one whose next resource is free.
SomeoneCanGo ==
  (\E c \in Call : state[c] = "waiting") =>
     \E c \in Call : \/ state[c] \in {"working", "orphan"}
                     \/ state[c] = "waiting" /\ Free(c, Wanted(c))
=============================================================================
