----------------------------- MODULE ThreadPlan -----------------------------
(***************************************************************************)
(* How a run's threads are budgeted (ThreadPlan in src/src/parallel.rs),   *)
(* followed from the host's parallelism to the threads at work: a budget   *)
(* is split, digest threads are seated for the object, the pipeline sizes  *)
(* its queues, and the governor then moves the count of admitted readers.  *)
(***************************************************************************)
EXTENDS ReaderGovernor

CONSTANTS
  Parallelisms,  \* what available_parallelism may report
  Overrides,     \* values of AFF4TOOLS_THREADS; 0 stands for none that parses
  Algorithms,    \* counts of digests an object may record
  BevySizes      \* MiB one decompressed bevy may take

ASSUME PlanAssumption ==
  /\ Parallelisms \subseteq Nat \ {0}
  /\ Overrides \subseteq Nat
  /\ Algorithms \subseteq Nat
  /\ BevySizes \subseteq Nat \ {0}

VARIABLES
  phase,     \* "host", "planned", "seated", "running" or "inline"
  plan,      \* the ThreadPlan
  override,  \* AFF4TOOLS_THREADS as forced_threads reads it, 0 for none
  queues     \* slots, depth and lookahead of the pipeline

planVars == <<phase, plan, override, queues>>
vars == <<planVars, runVars, governorVars>>

MaxReaders == 8
BudgetNumerator == 90
BudgetDenominator == 100
ReorderBudget == 1024  \* REORDER_BUDGET_BYTES in MiB

Least(a, b) == IF a < b THEN a ELSE b
Most(a, b) == IF a > b THEN a ELSE b
\* Mutant: a subtraction that does not saturate.
PlainSub(a, b) == a - b

SaturatingSub(a, b) == IF a > b THEN a - b ELSE 0
Clamp(x, low, high) == Least(Most(x, low), high)

\* budget_for: ninety percent, never zero.
BudgetFor(available) == Most((available * BudgetNumerator) \div BudgetDenominator, 1)

\* from_budget.
FromBudget(available, asked) ==
  LET budget == Most(asked, 1)
      readers == IF budget < 2 THEN 1 ELSE Least(2, budget - 1)
  IN [readers |-> readers,
      workers |-> IF budget < 2 THEN 0 ELSE budget - readers,
      digesters |-> 0, available |-> available, budget |-> budget]

Total(p) == p.readers + p.workers + p.digesters
IsParallel(p) == p.readers >= 1 /\ p.workers >= 1 /\ Total(p) > 1

\* Mutant: a digest thread for every algorithm, seated on top of the workers.
DigestThreadsOnTop(p, algorithms) ==
  [p EXCEPT !.digesters = Least(SaturatingSub(algorithms, 1), p.budget)]

\* with_digest_threads: one algorithm stays inline, workers yield down to one.
WithDigestThreads(p, algorithms) ==
  LET digesters == Least(SaturatingSub(algorithms, 1),
                         SaturatingSub(p.budget, p.readers + 1))
  IN [p EXCEPT
        !.digesters = digesters,
        !.workers = Most(SaturatingSub(p.budget, p.readers + digesters),
                         IF p.workers > 0 THEN 1 ELSE 0)]

\* reader_ceiling: readers trade against workers but for the last one.
ReaderCeiling(p, pinned) ==
  IF pinned THEN p.readers
  ELSE Most(Least(MaxReaders, p.readers + SaturatingSub(p.workers, 1)), p.readers)

\* read_all_parallel's sizing of the window and the raw queue.
Slots(p, bevy) == Clamp(((ReorderBudget * 2) \div 3) \div bevy, 2, Most(p.workers * 3, 4))

QueueDepth(p, bevy) == Clamp((ReorderBudget \div 3) \div bevy, p.readers + 2, 12)

Lookahead(p, bevy) == Slots(p, bevy) + QueueDepth(p, bevy) + p.workers

Forced == override > 0

NoQueues == [slots |-> 0, depth |-> 0, lookahead |-> 0]

PlanInit ==
  /\ phase = "host"
  /\ plan = FromBudget(0, 1)
  /\ override \in Overrides
  /\ queues = NoQueues
  /\ initial = 1 /\ ceiling = 1 /\ GovernorInit

\* for_host: the override is the budget, or ninety percent of the host is.
ForHost ==
  /\ phase = "host"
  /\ \E available \in Parallelisms :
       plan' = FromBudget(available, IF Forced THEN override ELSE BudgetFor(available))
  /\ phase' = "planned"
  /\ UNCHANGED <<override, queues, runVars, governorVars>>

\* budgeted_hasher: as many digests as the object records.
SeatDigests ==
  /\ phase = "planned"
  /\ \E a \in Algorithms : plan' = WithDigestThreads(plan, a)
  /\ phase' = "seated"
  /\ UNCHANGED <<override, queues, runVars, governorVars>>

\* read_stream on a stream long enough to pipeline.
StartPipeline ==
  /\ phase = "seated" /\ IsParallel(plan)
  /\ \E bevy \in BevySizes :
       queues' = [slots |-> Slots(plan, bevy), depth |-> QueueDepth(plan, bevy),
                  lookahead |-> Lookahead(plan, bevy)]
  /\ NewGovernor(plan.readers, ReaderCeiling(plan, Forced))
  /\ phase' = "running"
  /\ UNCHANGED <<plan, override>>

\* read_stream inline: the calling thread alone.
ReadInline ==
  /\ phase = "seated"
  /\ phase' = "inline"
  /\ UNCHANGED <<plan, override, queues, runVars, governorVars>>

\* A reader of the run reports a bevy to the governor.
ReaderReports ==
  /\ phase = "running"
  /\ Observed
  /\ UNCHANGED <<planVars, runVars>>

\* The next object of the container is planned afresh.
NextObject ==
  /\ phase \in {"running", "inline"}
  /\ phase' = "host"
  /\ queues' = NoQueues
  /\ UNCHANGED <<plan, override, runVars, governorVars>>

PlanNext ==
  ForHost \/ SeatDigests \/ StartPipeline \/ ReadInline \/ ReaderReports \/ NextObject

PlanSpec == PlanInit /\ [][PlanNext]_vars

-----------------------------------------------------------------------------
(* Properties *)

Plans == [readers : Nat, workers : Nat, digesters : Nat, available : Nat, budget : Nat]

TypeOK ==
  /\ phase \in {"host", "planned", "seated", "running", "inline"}
  /\ plan \in Plans
  /\ override \in Overrides
  /\ queues \in [slots : Nat, depth : Nat, lookahead : Nat]
  /\ GovernorTypeOK

(* The plan reported to the examiner names exactly the budget: seating       *)
(* digest threads takes them from the workers, and neither adds a thread     *)
(* past the cap nor leaves one of it idle.                                   *)
PlanSpendsTheBudget == Total(plan) = plan.budget

(* However many digests an object records, a run that was worth pipelining   *)
(* keeps a reader and a worker, or it would wait for ever on a stage with no *)
(* thread.                                                                   *)
EveryStageIsStaffed == plan.budget >= 2 => IsParallel(plan)

(* reader_ceiling: "one worker is always kept" and digest threads are not    *)
(* borrowed from, so whatever the governor admits leaves room in the budget  *)
(* for the digest threads and a worker.                                      *)
RampTradesWithinBudget ==
  phase = "running" => admitted + 1 + plan.digesters <= plan.budget

(* Every admitted reader can hold a bevy past the one the consumer waits     *)
(* for, so a reader the governor pays for is never held at the gate by the   *)
(* others alone.                                                             *)
LookaheadFeedsEveryReader ==
  phase = "running" => admitted <= queues.lookahead

(* Up to a budget of five the raw queue holds a bevy of every reader the     *)
(* governor can admit, which is what lets the shutdown join them (module     *)
(* BevyPipeline, JoinReleasesEveryReader); from six on it may not.           *)
SmallBudgetsShutDown ==
  phase = "running" /\ plan.budget <= 5 => ceiling <= queues.depth

(* "Probing must stop once settled": while one stream is read, a governor    *)
(* that has settled never moves again, whatever the next windows measure.    *)
SettledIsFinal ==
  [][phase = "running" /\ phase' = "running" /\ settled
       => UNCHANGED <<admitted, settled>>]_vars
=============================================================================
