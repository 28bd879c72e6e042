------------------------------ MODULE CpuBudget ------------------------------
(***************************************************************************)
(* The governor of CPU work, src/runtime/resource.rs: a pool of slots and  *)
(* two buckets of credit that time refills.  A thread waits for credit,    *)
(* then for a slot, and pays for its work when it is done.  The wait for   *)
(* credit is outside of the lane, so credit is looked at once more inside. *)
(***************************************************************************)
EXTENDS Integers, FiniteSets

CONSTANTS
  Interactive, Background,    \* threads, by the class of their work
  Threads,                    \* cpu_burst_threads
  Burst, Debt,                \* of interactive credit: its cap, and how far it may go below 0
  IdleBurst,                  \* cap of background credit
  MaxCost                     \* bound: what one slice of work can cost

Constants ==
  /\ IsFiniteSet(Interactive) /\ IsFiniteSet(Background)
  /\ Interactive \cap Background = {}
  /\ Threads \in Nat \ {0} /\ MaxCost \in Nat \ {0}
  /\ {Burst, Debt, IdleBurst} \subseteq Nat

VARIABLES
  credit,    \* [tokens, background]: the two buckets
  thread     \* per thread: what it is doing

vars == <<credit, thread>>

Worker == Interactive \cup Background

Least == -(Debt + Cardinality(Worker) * MaxCost)

TypeOK ==
  /\ credit.tokens \in Least..Burst
  /\ credit.background \in Int /\ credit.background <= IdleBurst
  /\ thread \in [Worker -> {"away", "waiting", "ready", "seated", "working"}]

Init ==
  /\ credit = [tokens |-> Burst, background |-> IdleBurst]
  /\ thread = [w \in Worker |-> "away"]

Active == {w \in Worker : thread[w] \in {"seated", "working"}}

\* MIN_TOKEN is the smallest unit here.
HasCredit(w) ==
  IF w \in Interactive THEN credit.tokens >= 1 - Debt ELSE credit.background >= 1

Goes(w, from, to) == thread[w] = from /\ thread' = [thread EXCEPT ![w] = to]

Ask(w) == Goes(w, "away", "waiting") /\ UNCHANGED credit

\* wait_for_cpu_credit.
GetCredit(w) == HasCredit(w) /\ Goes(w, "waiting", "ready") /\ UNCHANGED credit

\* acquire_cpu_slot: background work wants the host for itself.
SlotFree(w) ==
  /\ Cardinality(Active) < Threads
  /\ w \in Background => Active = {}

GetSlot(w) == SlotFree(w) /\ Goes(w, "ready", "seated") /\ UNCHANGED credit

\* Mutant of Work: credit is not looked at once more inside of the lane.
WorkOnOldCredit(w) == Goes(w, "seated", "working") /\ UNCHANGED credit

\* begin_cpu_work looks again: without credit the slot is given back.
Work(w) == HasCredit(w) /\ Goes(w, "seated", "working") /\ UNCHANGED credit

GiveBack(w) == ~HasCredit(w) /\ Goes(w, "seated", "waiting") /\ UNCHANGED credit

\* finish_cpu_work: interactive work pays from both buckets.
Finish(w) ==
  /\ Goes(w, "working", "away")
  /\ \E cost \in 0..MaxCost :
       credit' = [tokens |-> IF w \in Interactive THEN credit.tokens - cost ELSE credit.tokens,
                  background |-> credit.background - cost]

\* Mutant of Refill: the buckets have no cap.
RefillWithoutCap ==
  /\ credit' = [tokens |-> credit.tokens + 1, background |-> credit.background + 1]
  /\ UNCHANGED thread

\* refill_budget: time refills both, each up to its cap; the background's
\* share of the time is the smaller one.
Refill ==
  \E slow \in 0..1 :
    /\ credit' = [tokens |-> IF credit.tokens < Burst THEN credit.tokens + 1 ELSE Burst,
                  background |-> IF credit.background < IdleBurst
                                   THEN credit.background + slow ELSE IdleBurst]
    /\ credit' # credit
    /\ UNCHANGED thread

\* Bound: the background bucket is not followed below the interactive one's least.
InBounds == credit.background >= Least

Next ==
  \/ \E w \in Worker : \/ Ask(w) \/ GetCredit(w) \/ GetSlot(w) \/ Work(w) \/ GiveBack(w)
                       \/ (InBounds /\ Finish(w))
  \/ Refill

Spec == Init /\ [][Next]_vars

-----------------------------------------------------------------------------
\* However many threads queue for a slot, the debt they run up together is
\* what the slots can cost at once: a queue does not spend one credit twice.
DebtBounded ==
  credit.tokens >= 1 - Debt - MaxCost * (Threads - Cardinality({w \in Interactive : thread[w] = "working"}))
=============================================================================
