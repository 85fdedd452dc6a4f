--------------------------- MODULE CommandsProofs ---------------------------
(***************************************************************************)
(* What the commands promise, for every host, command line, folder and     *)
(* name: the threads a run is given, the readers admitted to it, the files *)
(* that calls at once make, the bytes and names that are recorded, and the *)
(* stream that several files share.                                        *)
(***************************************************************************)
EXTENDS ThreadPlan, ReaderGovernor, CommandLine, RecordedNames, SharedStream, Inductions,
        SequenceTheorems, FiniteSetTheorems, TLAPS

-----------------------------------------------------------------------------
(* The readers admitted to a run *)

(* AdmittedInRange needs no strengthening but the types; StepsBackOnce needs *)
(* that probing, while it lasts, has only ever gone up.                      *)
RampOnlyGoesUp == ~settled => admitted >= initial
GovernorInv == GovernorTypeOK /\ AdmittedInRange /\ StepsBackOnce /\ RampOnlyGoesUp

(* A governor just made for a run has admitted what the run starts with.     *)
LEMMA NewGovernorKeepsInv ==
  ASSUME NEW readers \in Nat \ {0}, NEW most \in Nat, readers <= most,
         NewGovernor(readers, most)
  PROVE  GovernorInv'
<1>1. GovernorTypeOK'
  <2>1. initial' \in Nat \ {0} /\ ceiling' \in Nat /\ initial' <= ceiling'
        /\ admitted' \in 0..ceiling' /\ bevies' \in 0..Warmup
    BY GovernorAssumption DEF NewGovernor
  <2>2. previous' \in Rates \cup {Unmeasured} /\ settled' \in BOOLEAN
    BY Zenon DEF NewGovernor
  <2>3. QED BY <2>1, <2>2 DEF GovernorTypeOK
<1>2. AdmittedInRange' /\ StepsBackOnce' /\ RampOnlyGoesUp'
  BY DEF NewGovernor, AdmittedInRange, StepsBackOnce, RampOnlyGoesUp
<1>3. QED BY <1>1, <1>2 DEF GovernorInv

(* What a closed window decides keeps the count in range, and steps back     *)
(* only as it stops probing.                                                 *)
LEMMA ApplyRateKeepsInv ==
  ASSUME GovernorInv, ~settled, NEW rate \in Rates, ApplyRate(rate),
         bevies' \in 0..Warmup, UNCHANGED <<initial, ceiling>>
  PROVE  GovernorInv'
<1> USE GovernorAssumption
    DEF GovernorInv, GovernorTypeOK, AdmittedInRange, StepsBackOnce, RampOnlyGoesUp, Unmeasured
<1>1. CASE FirstWindow(rate)
  BY <1>1 DEF FirstWindow
<1>2. CASE RampUp(rate)
  BY <1>2 DEF RampUp
<1>3. CASE SettleDown(rate)
  BY <1>3 DEF SettleDown
<1>4. QED BY <1>1, <1>2, <1>3 DEF ApplyRate

(* Every bevy reported to the governor keeps its invariant.                  *)
LEMMA ObservedKeepsInv ==
  GovernorInv /\ [Observed]_governorVars /\ UNCHANGED runVars => GovernorInv'
<1> SUFFICES ASSUME GovernorInv, [Observed]_governorVars, UNCHANGED <<initial, ceiling>>
             PROVE  GovernorInv'
  BY DEF runVars
<1>1. CASE WindowOpen
  BY <1>1, GovernorAssumption
  DEF WindowOpen, CountBevy, GovernorInv, GovernorTypeOK, AdmittedInRange, StepsBackOnce,
      RampOnlyGoesUp
<1>2. CASE WindowCloses
  <2>1. bevies' \in 0..Warmup /\ ~settled
    BY <1>2, GovernorAssumption DEF WindowCloses, CountBevy, GovernorInv, GovernorTypeOK
  <2>2. PICK rate \in Rates : ApplyRate(rate)
    BY <1>2 DEF WindowCloses
  <2>3. QED BY <2>1, <2>2, ApplyRateKeepsInv
<1>3. CASE UNCHANGED governorVars
  BY <1>3
  DEF governorVars, GovernorInv, GovernorTypeOK, AdmittedInRange, StepsBackOnce, RampOnlyGoesUp
<1>4. QED BY <1>1, <1>2, <1>3 DEF Observed

-----------------------------------------------------------------------------
(* The thread budget *)

(* A plan as from_budget and with_digest_threads leave it: the whole budget  *)
(* spent, one or two readers, and a worker wherever there are two threads.   *)
SplitPlan(p) ==
  /\ p \in Plans
  /\ p.budget >= 1
  /\ p.readers = (IF p.budget <= 2 THEN 1 ELSE 2)
  /\ p.readers + p.workers + p.digesters = p.budget
  /\ p.budget >= 2 => p.workers >= 1

(* What a run in progress keeps besides.                                     *)
RunningInv ==
  phase = "running" =>
    /\ IsParallel(plan)
    /\ ceiling = ReaderCeiling(plan, Forced)
    /\ queues.depth >= plan.readers + 2
    /\ queues.lookahead >= queues.depth + plan.workers

PlanInv == TypeOK /\ SplitPlan(plan) /\ RunningInv /\ GovernorInv

(* Ninety percent of a host is a number of threads, and never none.          *)
LEMMA BudgetForIsPositive ==
  ASSUME NEW a \in Nat PROVE BudgetFor(a) \in Nat \ {0}
  BY DEF BudgetFor, Most, BudgetNumerator, BudgetDenominator

(* from_budget spends what it was asked to, one thread at the least.         *)
LEMMA FromBudgetSplits ==
  ASSUME NEW a \in Nat, NEW b \in Nat
  PROVE  SplitPlan(FromBudget(a, b))
<1>1. Most(b, 1) \in Nat /\ Most(b, 1) >= 1
  BY DEF Most
<1> DEFINE budget == Most(b, 1)
           readers == IF budget < 2 THEN 1 ELSE Least(2, budget - 1)
           workers == IF budget < 2 THEN 0 ELSE budget - readers
<1>2. readers \in Nat /\ readers = (IF budget <= 2 THEN 1 ELSE 2)
  BY <1>1 DEF Least
<1>3. workers \in Nat /\ readers + workers = budget /\ (budget >= 2 => workers >= 1)
  BY <1>1, <1>2
<1>4. FromBudget(a, b) = [readers |-> readers, workers |-> workers, digesters |-> 0,
                          available |-> a, budget |-> budget]
  BY DEF FromBudget
<1> HIDE DEF budget, readers, workers
<1>5. budget \in Nat /\ budget >= 1
  BY <1>1 DEF budget
<1>6. FromBudget(a, b) \in Plans
  BY <1>2, <1>3, <1>4, <1>5 DEF Plans
<1>7. QED BY <1>2, <1>3, <1>4, <1>5, <1>6 DEF SplitPlan

(* Digest threads are paid for by workers, to the thread.                    *)
LEMMA WithDigestThreadsSplits ==
  ASSUME NEW p, SplitPlan(p), NEW n \in Nat
  PROVE  SplitPlan(WithDigestThreads(p, n))
<1> DEFINE digesters == Least(SaturatingSub(n, 1), SaturatingSub(p.budget, p.readers + 1))
           workers == Most(SaturatingSub(p.budget, p.readers + digesters),
                           IF p.workers > 0 THEN 1 ELSE 0)
<1>1. p \in Plans /\ p.budget \in Nat /\ p.readers \in Nat /\ p.workers \in Nat
        /\ p.available \in Nat /\ p.digesters \in Nat
  BY DEF SplitPlan, Plans
<1>2. /\ p.budget >= 1
      /\ p.readers = (IF p.budget <= 2 THEN 1 ELSE 2)
      /\ p.readers + p.workers + p.digesters = p.budget
      /\ p.budget >= 2 => p.workers >= 1
  BY DEF SplitPlan
<1>3. digesters \in Nat /\ (p.budget >= 2 => p.readers + 1 + digesters <= p.budget)
        /\ (p.budget = 1 => digesters = 0)
  BY <1>1, <1>2 DEF Least, SaturatingSub
<1> HIDE DEF digesters
<1>4. workers \in Nat /\ p.readers + workers + digesters = p.budget
        /\ (p.budget >= 2 => workers >= 1)
  BY <1>1, <1>2, <1>3 DEF Most, SaturatingSub
<1>5. WithDigestThreads(p, n) =
        [p EXCEPT !.digesters = digesters, !.workers = workers]
  BY DEF WithDigestThreads, digesters
<1> HIDE DEF workers
<1> DEFINE q == [p EXCEPT !.digesters = digesters, !.workers = workers]
<1>6. q \in Plans /\ q.readers = p.readers /\ q.budget = p.budget
        /\ q.workers = workers /\ q.digesters = digesters
  BY <1>1, <1>3, <1>4 DEF Plans
<1> HIDE DEF q
<1>7. SplitPlan(q)
  BY <1>2, <1>4, <1>6 DEF SplitPlan
<1>8. QED BY <1>5, <1>7 DEF q

(* The queue is at least as deep as read_all_parallel's lower clamp, and the *)
(* lookahead covers the queue and the workers.                               *)
LEMMA SizingFloors ==
  ASSUME NEW p, SplitPlan(p), NEW bevy \in Nat \ {0}
  PROVE  /\ Slots(p, bevy) \in Nat
         /\ QueueDepth(p, bevy) \in Nat
         /\ QueueDepth(p, bevy) >= p.readers + 2
         /\ Lookahead(p, bevy) \in Nat
         /\ Lookahead(p, bevy) >= QueueDepth(p, bevy) + p.workers
<1>1. p.readers \in 1..2 /\ p.workers \in Nat
  BY DEF SplitPlan, Plans
<1>2. ((ReorderBudget * 2) \div 3) \div bevy \in Nat /\ (ReorderBudget \div 3) \div bevy \in Nat
  BY DEF ReorderBudget
<1> DEFINE wide == ((ReorderBudget * 2) \div 3) \div bevy
           deep == (ReorderBudget \div 3) \div bevy
<1> HIDE DEF wide, deep
<1>3. Slots(p, bevy) = Clamp(wide, 2, Most(p.workers * 3, 4))
      /\ QueueDepth(p, bevy) = Clamp(deep, p.readers + 2, 12)
  BY DEF Slots, QueueDepth, wide, deep
<1>4. wide \in Nat /\ deep \in Nat
  BY <1>2 DEF wide, deep
<1>5. Slots(p, bevy) \in Nat
  BY <1>1, <1>3, <1>4 DEF Clamp, Least, Most
<1>6. QueueDepth(p, bevy) \in Nat /\ QueueDepth(p, bevy) >= p.readers + 2
  BY <1>1, <1>3, <1>4 DEF Clamp, Least, Most
<1>7. QED BY <1>1, <1>5, <1>6 DEF Lookahead

(* The ceiling lies between the plan's readers and the pool they share with  *)
(* all workers but one.                                                      *)
LEMMA CeilingBounds ==
  ASSUME NEW p, SplitPlan(p), NEW pinned \in BOOLEAN
  PROVE  /\ ReaderCeiling(p, pinned) \in Nat
         /\ p.readers <= ReaderCeiling(p, pinned)
         /\ ReaderCeiling(p, pinned) <= Most(MaxReaders, p.readers)
         /\ p.budget >= 2 => ReaderCeiling(p, pinned) + 1 <= p.readers + p.workers
<1>1. p.readers \in Nat /\ p.workers \in Nat /\ p.budget \in Nat
      /\ (p.budget >= 2 => p.workers >= 1)
  BY DEF SplitPlan, Plans
<1>2. CASE pinned
  BY <1>1, <1>2 DEF ReaderCeiling, Most, MaxReaders
<1>3. CASE ~pinned
  BY <1>1, <1>3 DEF ReaderCeiling, Most, Least, SaturatingSub, MaxReaders
<1>4. QED BY <1>2, <1>3

\* The override is in force or not.
LEMMA ForcedIsBoolean == Forced \in BOOLEAN
  BY DEF Forced

(* A plan is worth a pipeline exactly when its budget is two or more.        *)
LEMMA ParallelBudgets ==
  ASSUME NEW p, SplitPlan(p) PROVE IsParallel(p) <=> p.budget >= 2
  BY DEF SplitPlan, Plans, IsParallel, Total

\* A run starts from the plan of a host of unknown shape.
LEMMA PlanInitially == PlanInit => PlanInv
<1> SUFFICES ASSUME PlanInit PROVE PlanInv
  OBVIOUS
<1>1. SplitPlan(plan)
  BY FromBudgetSplits DEF PlanInit
<1>2. GovernorTypeOK
  <2>1. initial = 1 /\ ceiling = 1 /\ admitted = 1 /\ bevies = 0
    BY DEF PlanInit, GovernorInit
  <2>2. previous \in Rates \cup {Unmeasured} /\ settled \in BOOLEAN
    BY Zenon DEF PlanInit, GovernorInit
  <2>3. QED BY <2>1, <2>2, GovernorAssumption DEF GovernorTypeOK
<1>3. GovernorInv
  BY <1>2 DEF PlanInit, GovernorInit, GovernorInv, AdmittedInRange, StepsBackOnce,
              RampOnlyGoesUp
<1>4. TypeOK
  BY <1>1, <1>2, PlanAssumption DEF PlanInit, TypeOK, SplitPlan, NoQueues
<1>5. QED BY <1>1, <1>3, <1>4 DEF PlanInit, PlanInv, RunningInv

\* What leaves the governor alone leaves its invariant alone.
LEMMA GovernorIdle ==
  GovernorInv /\ UNCHANGED runVars /\ UNCHANGED governorVars => GovernorInv'
  BY DEF runVars, governorVars, GovernorInv, GovernorTypeOK, AdmittedInRange, StepsBackOnce,
         RampOnlyGoesUp

\* Every step of a run keeps its plan split and its queues deep enough.
LEMMA PlanStep == PlanInv /\ [PlanNext]_vars => PlanInv'
<1> SUFFICES ASSUME PlanInv, [PlanNext]_vars PROVE PlanInv'
  OBVIOUS
<1> USE PlanAssumption
<1>0. TypeOK /\ SplitPlan(plan) /\ RunningInv /\ GovernorInv
  BY DEF PlanInv
<1> USE DEF PlanInv, TypeOK, RunningInv, SplitPlan
<1>a. GovernorInv' => GovernorTypeOK'
  BY DEF GovernorInv
<1>1. CASE ForHost
  <2>1. PICK available \in Parallelisms :
          plan' = FromBudget(available, IF Forced THEN override ELSE BudgetFor(available))
    BY <1>1 DEF ForHost, runVars
  <2>2. (IF Forced THEN override ELSE BudgetFor(available)) \in Nat
    BY <1>0, BudgetForIsPositive
  <2>3. SplitPlan(plan')
    BY <2>1, <2>2, FromBudgetSplits
  <2>4. GovernorInv'
    BY <1>0, <1>1, GovernorIdle DEF ForHost
  <2>5. QED BY <1>0, <1>a, <1>1, <2>3, <2>4 DEF ForHost, runVars
<1>2. CASE SeatDigests
  <2>1. PICK a \in Algorithms : plan' = WithDigestThreads(plan, a)
    BY <1>2 DEF SeatDigests, runVars
  <2>2. SplitPlan(plan')
    BY <1>0, <2>1, WithDigestThreadsSplits
  <2>3. GovernorInv'
    BY <1>0, <1>2, GovernorIdle DEF SeatDigests
  <2>4. QED BY <1>0, <1>a, <1>2, <2>2, <2>3 DEF SeatDigests, runVars
<1>3. CASE StartPipeline
  <2>1. PICK bevy \in BevySizes :
          queues' = [slots |-> Slots(plan, bevy), depth |-> QueueDepth(plan, bevy),
                     lookahead |-> Lookahead(plan, bevy)]
    BY <1>3 DEF StartPipeline
  <2>2. plan' = plan /\ override' = override /\ phase' = "running" /\ IsParallel(plan)
        /\ NewGovernor(plan.readers, ReaderCeiling(plan, Forced))
    BY <1>3 DEF StartPipeline
  <2>3. queues' \in [slots : Nat, depth : Nat, lookahead : Nat]
        /\ queues'.depth >= plan.readers + 2
        /\ queues'.lookahead >= queues'.depth + plan.workers
    BY <1>0, <2>1, SizingFloors
  <2>4. GovernorInv' /\ ceiling' = ReaderCeiling(plan', Forced')
    <3>1. plan.readers <= ReaderCeiling(plan, Forced) /\ ReaderCeiling(plan, Forced) \in Nat
      BY <1>0, CeilingBounds, ForcedIsBoolean
    <3>2. plan.readers \in Nat \ {0}
      BY <1>0 DEF Plans
    <3>3. GovernorInv'
      BY <2>2, <3>1, <3>2, NewGovernorKeepsInv
    <3>4. QED BY <2>2, <3>3 DEF NewGovernor, Forced
  <2>5. QED BY <1>0, <1>a, <2>2, <2>3, <2>4
<1>4. CASE ReadInline
  <2>1. GovernorInv'
    BY <1>0, <1>4, GovernorIdle DEF ReadInline
  <2>2. QED BY <1>0, <1>a, <1>4, <2>1 DEF ReadInline, runVars
<1>5. CASE ReaderReports
  <2>1. GovernorInv' /\ ceiling' = ceiling
    BY <1>0, <1>5, ObservedKeepsInv
    DEF ReaderReports, runVars
  <2>2. QED BY <1>0, <1>a, <1>5, <2>1 DEF ReaderReports, planVars, Forced
<1>6. CASE NextObject
  <2>1. GovernorInv'
    BY <1>0, <1>6, GovernorIdle DEF NextObject
  <2>2. QED BY <1>0, <1>a, <1>6, <2>1 DEF NextObject, NoQueues, runVars
<1>7. CASE UNCHANGED vars
  <2>1. GovernorInv'
    BY <1>0, <1>7, GovernorIdle DEF vars
  <2>2. QED BY <1>0, <1>a, <1>7, <2>1 DEF vars, planVars, runVars, Forced
<1>8. QED BY <1>1, <1>2, <1>3, <1>4, <1>5, <1>6, <1>7 DEF PlanNext

\* Hence the invariant, from which the theorems below follow.
LEMMA PlanInvariant == PlanSpec => []PlanInv
  BY PlanInitially, PlanStep, PTL DEF PlanSpec

(* The threads of a plan are its budget, whatever the digests seated.        *)
THEOREM BudgetIsSpent == PlanSpec => []PlanSpendsTheBudget
<1>1. PlanInv => PlanSpendsTheBudget
  BY DEF PlanInv, SplitPlan, Plans, PlanSpendsTheBudget, Total
<1>2. QED BY <1>1, PlanInvariant, PTL

(* No count of digests leaves a pipeline without a reader or a worker.       *)
THEOREM StagesAreStaffed == PlanSpec => []EveryStageIsStaffed
<1>1. PlanInv => EveryStageIsStaffed
  BY ParallelBudgets DEF PlanInv, EveryStageIsStaffed
<1>2. QED BY <1>1, PlanInvariant, PTL

(* What a run in progress knows of its readers: no more are admitted than    *)
(* the plan's readers and all workers but one.                               *)
LEMMA AdmittedWithinPool ==
  ASSUME PlanInv, phase = "running"
  PROVE  /\ admitted \in Nat /\ plan.workers \in Nat /\ plan.readers \in Nat
         /\ plan.digesters \in Nat /\ plan.budget \in Nat
         /\ admitted + 1 <= plan.readers + plan.workers
<1>1. SplitPlan(plan) /\ IsParallel(plan) /\ ceiling = ReaderCeiling(plan, Forced)
  BY DEF PlanInv, RunningInv
<1>2. admitted \in 1..ceiling /\ ceiling \in Nat
  BY DEF PlanInv, GovernorInv, AdmittedInRange, GovernorTypeOK
<1>3. ceiling + 1 <= plan.readers + plan.workers
  BY <1>1, CeilingBounds, ParallelBudgets, ForcedIsBoolean
<1>4. QED BY <1>1, <1>2, <1>3 DEF SplitPlan, Plans

(* A fully extended ramp, one worker and the digest threads fit the budget.  *)
THEOREM RampFitsBudget == PlanSpec => []RampTradesWithinBudget
<1>1. ASSUME PlanInv PROVE RampTradesWithinBudget
  BY <1>1, AdmittedWithinPool DEF RampTradesWithinBudget, PlanInv, SplitPlan
<1>2. QED BY <1>1, PlanInvariant, PTL

(* The gate never starves a reader the governor has admitted.                *)
THEOREM ReadersAreFed == PlanSpec => []LookaheadFeedsEveryReader
<1>1. ASSUME PlanInv PROVE LookaheadFeedsEveryReader
  <2>1. SUFFICES ASSUME phase = "running" PROVE admitted <= queues.lookahead
    BY DEF LookaheadFeedsEveryReader
  <2>2. /\ queues.depth >= plan.readers + 2
        /\ queues.lookahead >= queues.depth + plan.workers
        /\ queues.depth \in Nat /\ queues.lookahead \in Nat
    BY <1>1, <2>1 DEF PlanInv, RunningInv, TypeOK
  <2>3. QED BY <1>1, <2>1, <2>2, AdmittedWithinPool
<1>2. QED BY <1>1, PlanInvariant, PTL

(* Up to a budget of five the raw queue holds a bevy of every reader, which  *)
(* is what DeepQueueReleasesReaders (BevyPipelineProofs) asks for.           *)
THEOREM SmallBudgetsAreSafe == PlanSpec => []SmallBudgetsShutDown
<1>1. ASSUME PlanInv PROVE SmallBudgetsShutDown
  <2>1. SUFFICES ASSUME phase = "running", plan.budget <= 5 PROVE ceiling <= queues.depth
    BY DEF SmallBudgetsShutDown
  <2>2. /\ SplitPlan(plan) /\ IsParallel(plan) /\ ceiling = ReaderCeiling(plan, Forced)
        /\ queues.depth >= plan.readers + 2 /\ queues.depth \in Nat /\ ceiling \in Nat
    BY <1>1, <2>1 DEF PlanInv, RunningInv, TypeOK, GovernorTypeOK
  <2>3. ceiling + 1 <= plan.readers + plan.workers /\ plan.budget >= 2
    BY <2>2, CeilingBounds, ParallelBudgets, ForcedIsBoolean
  <2>4. /\ plan.readers \in Nat /\ plan.workers \in Nat /\ plan.digesters \in Nat
        /\ plan.budget \in Nat
        /\ plan.readers + plan.workers + plan.digesters = plan.budget
        /\ plan.readers = (IF plan.budget <= 2 THEN 1 ELSE 2)
    BY <2>2 DEF SplitPlan, Plans
  <2>5. QED BY <2>1, <2>2, <2>3, <2>4
<1>2. QED BY <1>1, PlanInvariant, PTL

(* Some reader is always admitted, and never more than were spawned.         *)
THEOREM AlwaysInRange == PlanSpec => []AdmittedInRange
  BY PlanInvariant, PTL DEF PlanInv, GovernorInv

(* A run steps back at most one reader below its start, and only to stay.    *)
THEOREM StepsBackAtMostOnce == PlanSpec => []StepsBackOnce
  BY PlanInvariant, PTL DEF PlanInv, GovernorInv

(* A settled count is not probed again while its stream is read.             *)
THEOREM SettledStaysSettled == PlanSpec => SettledIsFinal
<1>1. [PlanNext]_vars =>
        [phase = "running" /\ phase' = "running" /\ settled
           => UNCHANGED <<admitted, settled>>]_vars
  BY DEF PlanNext, ForHost, SeatDigests, StartPipeline, ReadInline, ReaderReports,
         NextObject, Observed, WindowOpen, WindowCloses, vars, governorVars
<1>2. QED BY <1>1, PTL DEF PlanSpec, SettledIsFinal

-----------------------------------------------------------------------------
(* Acquisitions into one folder at once *)

Before == {"typed", "log", "opened", "guard", "create"}
PastLog == {"opened", "guard", "create", "fill", "finish", "report", "verify", "close"}

\* The folder, the places and the parts are functions, and a file is a file.
Shape ==
  /\ folder = [n \in Names |-> folder[n]]
  /\ \A n \in Names : folder[n] = File(folder[n].owner, folder[n].is)
  /\ at = [c \in Calls |-> at[c]]
  /\ parts = [c \in Calls |-> parts[c]]
  /\ asked \in [Calls -> CommandLines]
  /\ \A c \in Calls : Acquiring(c) => parts[c] \in Seq(Names)

\* Where a call may be.
Places ==
  \A c \in Calls :
    /\ at[c] \in PastLog \cup {"log"} => Acquiring(c)
    /\ Acquiring(c) /\ at[c] \in {"typed", "log"} => parts[c] = <<>>
    /\ Acquiring(c) /\ at[c] \in Before => NextPart(c) \in Names
    /\ at[c] \in {"fill", "finish"} => parts[c] # <<>>

\* A call that has come past its log made it, and no two made the same one.
Logged(c) == Acquiring(c) /\ (at[c] \in PastLog \/ parts[c] # <<>>)
LogsAreTheirOwn ==
  /\ \A c \in Calls : Logged(c) => Exists(LogPath(c))
  /\ \A c, d \in Calls : Logged(c) /\ Logged(d) /\ c # d => LogPath(c) # LogPath(d)

\* What a call has created is there, and some call's.
PartsAreMade ==
  \A c \in Calls : Acquiring(c) =>
    \A n \in PartNames(c) : Exists(n) /\ folder[n].owner \in Calls

\* What a call is about to create was not there: if it is now, another made it.
OnlyLateComers ==
  \A c \in Calls : at[c] = "create" /\ Exists(NextPart(c)) =>
    folder[NextPart(c)].owner \in Calls \ {c}

\* The part a call has open is open, unless another call has it too.
LastPart(c) == parts[c][Len(parts[c])]
OpenUnlessShared ==
  \A c \in Calls : at[c] \in {"fill", "finish"} /\ folder[LastPart(c)].owner = c =>
    folder[LastPart(c)].is = "open" \/ \E d \in Calls \ {c} : Shares(d, LastPart(c))

CommandInv ==
  Shape /\ Places /\ LogsAreTheirOwn /\ PartsAreMade /\ OnlyLateComers /\ OpenUnlessShared

-----------------------------------------------------------------------------
(* Before any call has begun, the invariant holds: no folder entry is a       *)
(* call's.                                                                    *)
LEMMA StartsSound == CommandInit => CommandInv
<1>. SUFFICES ASSUME CommandInit PROVE CommandInv
  OBVIOUS
<1>1. \A c \in Calls : at[c] = "typed" /\ parts[c] = <<>> /\ asked[c] \in CommandLines
  BY DEF CommandInit
<1>2. Shape
  BY <1>1 DEF CommandInit, Shape, File, NoFile
<1>3. \A c \in Calls : Acquiring(c) => NextPart(c) \in Names
  BY <1>1, CommandAssumption DEF Acquiring, NextPart, Output
<1>4. Places
  BY <1>1, <1>3 DEF Places, PastLog
<1>5. \A c \in Calls : ~Logged(c) /\ PartNames(c) = {}
  BY <1>1 DEF Logged, PartNames, PastLog
<1>. QED
  BY <1>1, <1>2, <1>4, <1>5
  DEF CommandInv, LogsAreTheirOwn, PartsAreMade, OnlyLateComers, OpenUnlessShared

(* What Append does, element by element.                                      *)
LEMMA Appended ==
  ASSUME NEW S, NEW s \in Seq(S), NEW e \in S
  PROVE  /\ Append(s, e) \in Seq(S) /\ Append(s, e) # <<>> /\ Len(Append(s, e)) = Len(s) + 1
         /\ Append(s, e)[Len(Append(s, e))] = e
         /\ {Append(s, e)[i] : i \in 1..Len(Append(s, e))} = {s[i] : i \in 1..Len(s)} \cup {e}
<1>1. /\ Append(s, e) \in Seq(S) /\ Append(s, e) # <<>> /\ Len(Append(s, e)) = Len(s) + 1
      /\ Append(s, e)[Len(s) + 1] = e
      /\ \A i \in 1..Len(s) : Append(s, e)[i] = s[i]
      /\ Len(s) \in Nat
  BY AppendProperties, LenProperties
<1>2. 1..(Len(s) + 1) = 1..Len(s) \cup {Len(s) + 1}
  BY <1>1
<1>. QED BY <1>1, <1>2

(* Most steps touch no part and no file, or make one where there was none; a  *)
(* command that only reads adds to what it has looked at.  They keep the      *)
(* invariant if they go no further along the path of an acquisition than the  *)
(* next place.                                                                *)
LEMMA SmallStep ==
  ASSUME CommandInv, NEW c \in Calls, UNCHANGED asked, Shape',
         \A n \in Names : Exists(n) => folder'[n] = folder[n],
         \A n \in Names : ~Exists(n) /\ folder'[n].is # "absent" => folder'[n].owner = c,
         \A d \in Calls : Acquiring(d) \/ d # c => parts'[d] = parts[d],
         \A d \in Calls : d # c => at'[d] = at[d],
         at'[c] \in PastLog => at[c] \in PastLog,
         at'[c] = "log" => at[c] = "typed" /\ Acquiring(c),
         at'[c] = "typed" => at[c] = "typed",
         at'[c] \in {"opened", "guard", "create"} => at[c] \in {"opened", "guard"},
         at'[c] = "create" => UNCHANGED folder /\ ~Exists(NextPart(c)),
         at'[c] \in {"fill", "finish"} => at[c] = "fill"
  PROVE  CommandInv'
<1>1. \A d \in Calls : Acquiring(d)' = Acquiring(d) /\ LogPath(d)' = LogPath(d)
  BY DEF Acquiring, LogPath
<1>2. \A d \in Calls : Acquiring(d) =>
        NextPart(d)' = NextPart(d) /\ PartNames(d)' = PartNames(d) /\ LastPart(d)' = LastPart(d)
  BY DEF NextPart, Output, PartNames, LastPart
<1>3. \A d \in Calls : at'[d] \in PastLog \cup {"log"} => Acquiring(d)
  BY DEF CommandInv, Places, PastLog
<1>4. \A d \in Calls : Acquiring(d) => LogPath(d) \in Names /\ PartNames(d) \subseteq Names
  <2>. TAKE d \in Calls
  <2>. HAVE Acquiring(d)
  <2>1. LogPath(d) \in Names
    BY CommandAssumption DEF CommandInv, Shape, LogPath, Acquiring
  <2>2. PartNames(d) \subseteq Names
    BY DEF CommandInv, Shape, PartNames
  <2>. QED BY <2>1, <2>2
<1>5. Places'
  <2>. SUFFICES ASSUME NEW d \in Calls
                PROVE  /\ at'[d] \in PastLog \cup {"log"} => Acquiring(d)
                       /\ Acquiring(d) /\ at'[d] \in {"typed", "log"} => parts'[d] = <<>>
                       /\ Acquiring(d) /\ at'[d] \in Before => NextPart(d)' \in Names
                       /\ at'[d] \in {"fill", "finish"} => parts'[d] # <<>>
    BY <1>1 DEF Places
  <2>1. Acquiring(d) /\ at'[d] \in {"typed", "log"} => parts'[d] = <<>>
    BY DEF CommandInv, Places
  <2>2. Acquiring(d) /\ at'[d] \in Before => NextPart(d)' \in Names
    BY <1>2 DEF CommandInv, Places, Before
  <2>3. at'[d] \in {"fill", "finish"} => parts'[d] # <<>>
    BY <1>3 DEF CommandInv, Places, PastLog
  <2>. QED BY <2>1, <2>2, <2>3, <1>3
<1>6. LogsAreTheirOwn'
  <2>1. \A d \in Calls : Logged(d)' => Logged(d)
    BY <1>1 DEF Logged
  <2>2. \A d \in Calls : Logged(d) => folder'[LogPath(d)].is # "absent"
    BY <1>4 DEF CommandInv, LogsAreTheirOwn, Logged, Exists
  <2>. QED BY <2>1, <2>2, <1>1 DEF CommandInv, LogsAreTheirOwn, Exists
<1>7. PartsAreMade'
  BY <1>1, <1>2, <1>4 DEF CommandInv, PartsAreMade, Exists
<1>8. OnlyLateComers'
  <2>. SUFFICES ASSUME NEW d \in Calls, at'[d] = "create", folder'[NextPart(d)].is # "absent"
                PROVE  folder'[NextPart(d)].owner \in Calls \ {d}
    BY <1>2, <1>3 DEF OnlyLateComers, Exists, PastLog
  <2>1. CASE d = c
    BY <2>1 DEF Exists
  <2>2. CASE d # c
    <3>1. at[d] = "create" /\ NextPart(d) \in Names
      BY <2>2 DEF CommandInv, Places, Before, PastLog
    <3>. QED BY <2>2, <3>1 DEF CommandInv, OnlyLateComers, Exists
  <2>. QED BY <2>1, <2>2
<1>9. OpenUnlessShared'
  <2>. SUFFICES ASSUME NEW d \in Calls, at'[d] \in {"fill", "finish"}, folder'[LastPart(d)].owner = d
                PROVE  folder'[LastPart(d)].is = "open" \/ \E e \in Calls \ {d} : Shares(e, LastPart(d))
    BY <1>1, <1>2, <1>3 DEF OpenUnlessShared, Shares, PastLog
  <2>1. at[d] \in {"fill", "finish"}
    OBVIOUS
  <2>2. Acquiring(d) /\ LastPart(d) \in PartNames(d)
    BY <2>1 DEF CommandInv, Places, Shape, PastLog, LastPart, PartNames
  <2>3. folder'[LastPart(d)] = folder[LastPart(d)]
    BY <2>2, <1>4 DEF CommandInv, PartsAreMade
  <2>. QED BY <2>1, <2>3 DEF CommandInv, OpenUnlessShared
<1>. QED BY <1>5, <1>6, <1>7, <1>8, <1>9 DEF CommandInv

-----------------------------------------------------------------------------
(* Making the log (setup_log): a name that was free is claimed, so no call    *)
(* past its own log has the same.                                             *)
LEMMA LogStep == ASSUME CommandInv, NEW c \in Calls, OpenLog(c) PROVE CommandInv'
<1>. DEFINE name == LogPath(c)
<1>1. /\ at' = [d \in Calls |-> IF d = c THEN "opened" ELSE at[d]]
      /\ at[c] = "log" /\ Acquiring(c) /\ ~Exists(name)
      /\ UNCHANGED <<asked, parts>>
  BY DEF OpenLog, Moves, CommandInv, Shape, Places
<1>2. name \in Names
  BY <1>1, CommandAssumption DEF CommandInv, Shape, LogPath, Acquiring
<1>3. \A n \in Names : folder'[n] = IF n = name THEN File(c, "log") ELSE folder[n]
  BY DEF OpenLog, CommandInv, Shape
<1>4. \A n \in Names : Exists(n) => Exists(n)' /\ folder'[n] = folder[n]
  BY <1>1, <1>3 DEF Exists
<1>5. Shape'
  BY <1>1, <1>3 DEF OpenLog, CommandInv, Shape, Acquiring, File
<1>6. Places'
  BY <1>1 DEF CommandInv, Places, Acquiring, NextPart, Output, Before, PastLog
<1>7. \A d \in Calls : Acquiring(d) => LogPath(d) \in Names
  BY CommandAssumption DEF CommandInv, Shape, LogPath, Acquiring
<1>8. LogsAreTheirOwn'
  <2>1. \A d \in Calls : Logged(d)' => Logged(d) \/ d = c
    BY <1>1 DEF Logged, Acquiring
  <2>2. folder'[name].is # "absent"
    BY <1>2, <1>3 DEF File
  <2>3. \A d \in Calls : LogPath(d)' = LogPath(d)
    BY <1>1 DEF LogPath
  <2>4. \A d \in Calls : Logged(d) => Exists(LogPath(d)) /\ LogPath(d) # name
    BY <1>1 DEF CommandInv, LogsAreTheirOwn
  <2>5. ASSUME NEW d \in Calls, Logged(d)' PROVE folder'[LogPath(d)].is # "absent"
    <3>1. CASE d = c
      BY <3>1, <2>2
    <3>2. CASE Logged(d)
      BY <3>2, <2>4, <1>4, <1>7 DEF Logged, Exists
    <3>. QED BY <2>1, <2>5, <3>1, <3>2
  <2>6. \A d, e \in Calls : Logged(d)' /\ Logged(e)' /\ d # e => LogPath(d) # LogPath(e)
    BY <2>1, <2>4 DEF CommandInv, LogsAreTheirOwn
  <2>. QED BY <2>3, <2>5, <2>6 DEF LogsAreTheirOwn, Exists
<1>9. \A d \in Calls : Acquiring(d) => PartNames(d) \subseteq Names
  BY DEF CommandInv, Shape, PartNames
<1>10. PartsAreMade'
  BY <1>1, <1>4, <1>9 DEF CommandInv, PartsAreMade, Acquiring, PartNames
<1>11. OnlyLateComers'
  <2>. SUFFICES ASSUME NEW d \in Calls, at'[d] = "create", Exists(NextPart(d))'
                PROVE  folder'[NextPart(d)].owner \in Calls \ {d}
    BY <1>1 DEF OnlyLateComers, NextPart, Output
  <2>1. at[d] = "create" /\ d # c /\ NextPart(d)' = NextPart(d) /\ NextPart(d) \in Names
    BY <1>1 DEF CommandInv, Places, Before, PastLog, NextPart, Output
  <2>2. CASE Exists(NextPart(d))
    BY <2>1, <2>2, <1>4 DEF CommandInv, OnlyLateComers
  <2>3. CASE ~Exists(NextPart(d))
    BY <2>1, <2>3, <1>3 DEF Exists, File
  <2>. QED BY <2>2, <2>3
<1>12. OpenUnlessShared'
  <2>. SUFFICES ASSUME NEW d \in Calls, at'[d] \in {"fill", "finish"}, folder'[LastPart(d)].owner = d
                PROVE  folder'[LastPart(d)].is = "open" \/ \E e \in Calls \ {d} : Shares(e, LastPart(d))'
    BY <1>1 DEF OpenUnlessShared, LastPart
  <2>1. at[d] \in {"fill", "finish"} /\ LastPart(d) \in PartNames(d) /\ Acquiring(d) /\ LastPart(d)' = LastPart(d)
    BY <1>1 DEF CommandInv, Places, Shape, LastPart, PartNames, PastLog
  <2>2. folder'[LastPart(d)] = folder[LastPart(d)]
    BY <2>1, <1>4, <1>9 DEF CommandInv, PartsAreMade
  <2>. QED BY <2>1, <2>2, <1>1 DEF CommandInv, OpenUnlessShared, Shares, Acquiring, PartNames, LastPart
<1>. QED BY <1>5, <1>6, <1>8, <1>10, <1>11, <1>12 DEF CommandInv

(* Creating a part (WriteSink::create): whatever has appeared since the look  *)
(* is another acquisition's, which then has another log.                      *)
LEMMA CreateStep == ASSUME CommandInv, NEW c \in Calls, Create(c) PROVE CommandInv'
<1>. DEFINE name == NextPart(c)
<1>1. /\ at' = [d \in Calls |-> IF d = c THEN "fill" ELSE at[d]]
      /\ at[c] = "create" /\ Acquiring(c) /\ UNCHANGED asked /\ name \in Names
  BY DEF Create, Moves, CommandInv, Shape, Places, PastLog, Before
<1>2. \A n \in Names : folder'[n] = IF n = name THEN File(c, "open") ELSE folder[n]
  BY DEF Create, CommandInv, Shape
<1>3. \A d \in Calls : parts'[d] = IF d = c THEN Append(parts[c], name) ELSE parts[d]
  BY DEF Create, CommandInv, Shape
<1>. HIDE DEF name
<1>4. /\ parts[c] \in Seq(Names) /\ parts'[c] = Append(parts[c], name)
      /\ Append(parts[c], name) \in Seq(Names)
  <2>1. parts[c] \in Seq(Names)
    BY <1>1 DEF CommandInv, Shape
  <2>. QED BY <2>1, <1>1, <1>3, Appended
<1>5. LastPart(c)' = name /\ parts'[c] # <<>>
  BY <1>1, <1>4, Appended DEF LastPart
<1>6. /\ \A d \in Calls \ {c} : PartNames(d)' = PartNames(d)
      /\ PartNames(c)' = PartNames(c) \cup {name}
  <2>1. PartNames(c)' = PartNames(c) \cup {name}
    BY <1>1, <1>4, Appended DEF PartNames
  <2>. QED BY <2>1, <1>3 DEF PartNames
<1>7. \A d \in Calls : Acquiring(d)' = Acquiring(d) /\ LogPath(d)' = LogPath(d)
  BY <1>1 DEF Acquiring, LogPath
<1>8. \A n \in Names : Exists(n) => Exists(n)'
  BY <1>2 DEF Exists, File
<1>9. Shape'
  <2>1. folder' = [n \in Names |-> folder'[n]] /\ parts' = [d \in Calls |-> parts'[d]]
    BY DEF Create, CommandInv, Shape
  <2>2. \A n \in Names : folder'[n] = File(folder'[n].owner, folder'[n].is)
    BY <1>2 DEF CommandInv, Shape, File
  <2>3. \A d \in Calls : Acquiring(d)' => parts'[d] \in Seq(Names)
    BY <1>3, <1>4, <1>7 DEF CommandInv, Shape
  <2>. QED BY <2>1, <2>2, <2>3, <1>1 DEF CommandInv, Shape
<1>10. Places'
  BY <1>1, <1>3, <1>5 DEF CommandInv, Places, Acquiring, NextPart, Output, Before, PastLog
<1>11. LogsAreTheirOwn'
  <2>1. \A d \in Calls : Logged(d)' => Logged(d)
    BY <1>1, <1>3 DEF Logged, Acquiring, PastLog
  <2>2. \A d \in Calls : Acquiring(d) => LogPath(d) \in Names
    BY CommandAssumption DEF CommandInv, Shape, LogPath, Acquiring
  <2>. QED BY <2>1, <2>2, <1>7, <1>8 DEF CommandInv, LogsAreTheirOwn, Logged, LogPath
<1>12. PartsAreMade'
  <2>. SUFFICES ASSUME NEW d \in Calls, Acquiring(d), NEW n \in PartNames(d)'
                PROVE  Exists(n)' /\ folder'[n].owner \in Calls
    BY <1>7 DEF PartsAreMade
  <2>1. CASE n = name
    BY <2>1, <1>1, <1>2 DEF Exists, File
  <2>2. CASE n # name
    <3>1. n \in PartNames(d)
      BY <2>2, <1>6
    <3>2. n \in Names
      BY <3>1 DEF CommandInv, Shape, PartNames
    <3>. QED BY <2>2, <3>1, <3>2, <1>2, <1>8 DEF CommandInv, PartsAreMade
  <2>. QED BY <2>1, <2>2
<1>13. OnlyLateComers'
  <2>. SUFFICES ASSUME NEW d \in Calls, at'[d] = "create", Exists(NextPart(d))'
                PROVE  folder'[NextPart(d)'].owner \in Calls \ {d}
    BY DEF OnlyLateComers
  <2>1. at[d] = "create" /\ d # c /\ NextPart(d)' = NextPart(d) /\ NextPart(d) \in Names
    BY <1>1, <1>3 DEF CommandInv, Places, Before, PastLog, NextPart, Output
  <2>2. CASE NextPart(d) = name
    BY <2>1, <2>2, <1>1, <1>2 DEF File
  <2>3. CASE NextPart(d) # name
    BY <2>1, <2>3, <1>2 DEF Exists, CommandInv, OnlyLateComers
  <2>. QED BY <2>2, <2>3
<1>14. OpenUnlessShared'
  <2>. SUFFICES ASSUME NEW d \in Calls, at'[d] \in {"fill", "finish"}, folder'[LastPart(d)'].owner = d
                PROVE  folder'[LastPart(d)'].is = "open" \/ \E e \in Calls \ {d} : Shares(e, LastPart(d))'
    BY DEF OpenUnlessShared
  <2>1. CASE d = c
    BY <2>1, <1>1, <1>2, <1>5 DEF File
  <2>2. CASE d # c
    <3>1. at[d] \in {"fill", "finish"} /\ LastPart(d)' = LastPart(d) /\ LastPart(d) \in Names
      BY <2>2, <1>1, <1>3 DEF CommandInv, Places, Shape, LastPart, PastLog
    <3>2. LastPart(d) # name /\ folder'[LastPart(d)] = folder[LastPart(d)]
      BY <2>2, <3>1, <1>1, <1>2 DEF File
    <3>. QED BY <2>2, <3>1, <3>2, <1>6, <1>7 DEF CommandInv, OpenUnlessShared, Shares
  <2>. QED BY <2>1, <2>2
<1>. QED BY <1>9, <1>10, <1>11, <1>12, <1>13, <1>14 DEF CommandInv

(* Finishing a part changes how far it got and nothing else.                  *)
LEMMA FinishStep == ASSUME CommandInv, NEW c \in Calls, Finish(c) PROVE CommandInv'
<1>. DEFINE name == LastPart(c)
<1>1. /\ at[c] = "finish" /\ Acquiring(c) /\ UNCHANGED <<asked, parts>>
      /\ name \in PartNames(c) /\ name \in Names /\ Exists(name)
  <2>1. at[c] = "finish" /\ Acquiring(c) /\ parts[c] # <<>> /\ UNCHANGED <<asked, parts>>
    BY DEF Finish, CommandInv, Places, PastLog
  <2>2. parts[c] \in Seq(Names)
    BY <2>1 DEF CommandInv, Shape
  <2>3. name \in PartNames(c) /\ name \in Names
    BY <2>1, <2>2 DEF PartNames, LastPart
  <2>. QED BY <2>1, <2>3 DEF CommandInv, PartsAreMade
<1>2. PICK to \in {"report", "guard"} :
        /\ at' = [d \in Calls |-> IF d = c THEN to ELSE at[d]]
        /\ to = "guard" => Len(parts[c]) < Len(PartPath[Output(c)])
  BY DEF Finish, Moves, CommandInv, Shape
<1>3. PICK end \in {"whole", "mixed"} :
        \A n \in Names : folder'[n] = IF n = name THEN File(folder[n].owner, end) ELSE folder[n]
  BY <1>1 DEF Finish, CommandInv, Shape, File, LastPart
<1>. HIDE DEF name
<1>4. \A n \in Names : (Exists(n) => Exists(n)') /\ folder'[n].owner = folder[n].owner
                       /\ (Exists(n)' => Exists(n))
  <2>. TAKE n \in Names
  <2>1. CASE n = name
    <3>0. folder'[n] = File(folder[n].owner, end)
      BY <2>1, <1>3
    <3>1. folder'[n].owner = folder[n].owner /\ folder'[n].is = end
      BY <3>0 DEF File
    <3>2. end # "absent"
      OBVIOUS
    <3>. QED BY <2>1, <3>1, <3>2, <1>1 DEF Exists
  <2>2. CASE n # name
    BY <2>2, <1>3 DEF Exists
  <2>. QED BY <2>1, <2>2
<1>5. \A d \in Calls : Acquiring(d)' = Acquiring(d) /\ PartNames(d)' = PartNames(d)
  BY <1>1 DEF Acquiring, PartNames
<1>6. \A d \in Calls : LogPath(d)' = LogPath(d) /\ NextPart(d)' = NextPart(d)
  BY <1>1 DEF LogPath, NextPart, Output
<1>7. Shape'
  <2>1. folder' = [n \in Names |-> folder'[n]]
    BY DEF Finish, CommandInv, Shape
  <2>2. \A n \in Names : folder'[n] = File(folder'[n].owner, folder'[n].is)
    BY <1>3 DEF CommandInv, Shape, File
  <2>. QED BY <2>1, <2>2, <1>1, <1>2, <1>5 DEF CommandInv, Shape
<1>8. Places'
  <2>1. to = "guard" => NextPart(c) \in Names
    <3>1. asked[c] \in CommandLines /\ asked[c].does = "acquire" /\ parts[c] \in Seq(Names)
      BY <1>1 DEF CommandInv, Shape, Acquiring
    <3>2. PartPath[Output(c)] \in Seq(Names)
      BY <3>1, CommandAssumption DEF Output
    <3>3. Len(parts[c]) + 1 \in 1..Len(PartPath[Output(c)]) \/ to # "guard"
      BY <3>1, <3>2, <1>2, LenProperties
    <3>. QED BY <3>2, <3>3, ElementOfSeq DEF NextPart
  <2>. QED BY <2>1, <1>1, <1>2, <1>5, <1>6 DEF CommandInv, Places, Before, PastLog
<1>9. LogsAreTheirOwn'
  <2>1. \A d \in Calls : Logged(d)' => Logged(d)
    BY <1>1, <1>2, <1>5 DEF Logged, PastLog
  <2>2. \A d \in Calls : Acquiring(d) => LogPath(d) \in Names
    BY CommandAssumption DEF CommandInv, Shape, LogPath, Acquiring
  <2>. QED BY <2>1, <2>2, <1>4, <1>6 DEF CommandInv, LogsAreTheirOwn, Logged, Exists
<1>10. \A d \in Calls : Acquiring(d) => PartNames(d) \subseteq Names
  BY DEF CommandInv, Shape, PartNames
<1>11. PartsAreMade'
  BY <1>4, <1>5, <1>10 DEF CommandInv, PartsAreMade
<1>12. OnlyLateComers'
  <2>. SUFFICES ASSUME NEW d \in Calls, at'[d] = "create", folder'[NextPart(d)].is # "absent"
                PROVE  folder'[NextPart(d)].owner \in Calls \ {d}
    BY <1>6 DEF OnlyLateComers, Exists
  <2>1. at[d] = "create" /\ NextPart(d) \in Names
    BY <1>2 DEF CommandInv, Places, Before, PastLog
  <2>. QED BY <2>1, <1>4 DEF CommandInv, OnlyLateComers, Exists
<1>13. OpenUnlessShared'
  <2>. SUFFICES ASSUME NEW d \in Calls, at'[d] \in {"fill", "finish"}, folder'[LastPart(d)].owner = d
                PROVE  folder'[LastPart(d)].is = "open" \/ \E e \in Calls \ {d} : Shares(e, LastPart(d))
    BY <1>1, <1>5 DEF OpenUnlessShared, LastPart, Shares
  <2>1. at[d] \in {"fill", "finish"} /\ d # c
    BY <1>2
  <2>2. LastPart(d) \in Names
    BY <2>1 DEF CommandInv, Shape, Places, PastLog, LastPart
  <2>3. CASE LastPart(d) = name
    BY <2>1, <2>3, <1>1 DEF Shares
  <2>4. CASE LastPart(d) # name
    BY <2>1, <2>2, <2>4, <1>3 DEF CommandInv, OpenUnlessShared
  <2>. QED BY <2>3, <2>4
<1>. QED BY <1>7, <1>8, <1>9, <1>11, <1>12, <1>13 DEF CommandInv

-----------------------------------------------------------------------------
MakesFile(c) ==
  \E name, is : ~Exists(name) /\ folder' = [folder EXCEPT ![name] = File(c, is)]

(* A file made where there was none, or none made, takes nothing from any.    *)
LEMMA FileMade ==
  ASSUME CommandInv, NEW c \in Calls, UNCHANGED folder \/ MakesFile(c)
  PROVE  /\ folder' = [n \in Names |-> folder'[n]]
         /\ \A n \in Names : folder'[n] = File(folder'[n].owner, folder'[n].is)
         /\ \A n \in Names : Exists(n) => folder'[n] = folder[n]
         /\ \A n \in Names : ~Exists(n) /\ folder'[n].is # "absent" => folder'[n].owner = c
<1>1. CASE UNCHANGED folder
  BY <1>1 DEF CommandInv, Shape, Exists
<1>2. CASE MakesFile(c)
  BY <1>2 DEF MakesFile, CommandInv, Shape, Exists, File
<1>. QED BY <1>1, <1>2

\* The place a call moves to, of those that leave the folder and the parts.
LEMMA QuietMove ==
  ASSUME CommandInv, NEW c \in Calls, NEW to, Moves(c, to), UNCHANGED <<asked, parts>>,
         UNCHANGED folder \/ MakesFile(c),
         to \in PastLog => at[c] \in PastLog,
         to = "log" => at[c] = "typed" /\ Acquiring(c),
         to # "typed",
         to \in {"opened", "guard", "create"} => at[c] \in {"opened", "guard"},
         to = "create" => UNCHANGED folder /\ ~Exists(NextPart(c)),
         to \in {"fill", "finish"} => at[c] = "fill"
  PROVE  CommandInv' /\ TouchesNothingFinished
<1>1. at' = [d \in Calls |-> IF d = c THEN to ELSE at[d]]
  BY DEF Moves, CommandInv, Shape
<1>2. Shape'
  BY <1>1, FileMade DEF CommandInv, Shape, Acquiring
<1>3. CommandInv'
  BY <1>1, <1>2, FileMade, SmallStep
<1>4. TouchesNothingFinished
  BY <1>1, FileMade DEF TouchesNothingFinished
<1>. QED BY <1>3, <1>4

(* run_info, run_verify and run_conformance leave a listing at most.          *)
LEMMA SetLookedAt ==
  ASSUME CommandInv, NEW c \in Calls,
         \/ \E with : SetRefused(c, with)
         \/ SetDescribed(c) \/ \E answer : SetVerified(c, answer)
  PROVE  CommandInv' /\ TouchesNothingFinished
<1>1. /\ Looking(c) /\ UNCHANGED <<asked, at>>
      /\ parts' = [parts EXCEPT ![c] = Append(@, AtSet(c))]
      /\ UNCHANGED folder \/ MakesFile(c)
  BY DEF SetRefused, SetDescribed, SetVerified, Looks, Listing, MakesFile
<1>2. ~Acquiring(c) /\ at[c] = "typed"
  BY <1>1 DEF Looking
<1>3. \A d \in Calls : Acquiring(d) \/ d # c => parts'[d] = parts[d]
  BY <1>1, <1>2 DEF CommandInv, Shape
<1>4. Shape'
  BY <1>1, <1>3, FileMade DEF CommandInv, Shape, Acquiring
<1>5. CommandInv'
  BY <1>1, <1>2, <1>3, <1>4, FileMade, SmallStep DEF PastLog
<1>6. TouchesNothingFinished
  BY <1>1, FileMade DEF TouchesNothingFinished
<1>. QED BY <1>5, <1>6

(* Setting out to create a part: the name was looked at and was free.         *)
LEMMA MayCreateStep ==
  ASSUME CommandInv, NEW c \in Calls, MayCreate(c)
  PROVE  CommandInv' /\ TouchesNothingFinished
<1>1. /\ at' = [d \in Calls |-> IF d = c THEN "create" ELSE at[d]]
      /\ at[c] = "guard" /\ ~Exists(NextPart(c)) /\ UNCHANGED <<folder, asked, parts>>
  BY DEF MayCreate, Free, Moves, CommandInv, Shape
<1>2. CommandInv'
  BY <1>1, SmallStep DEF PastLog, CommandInv, Shape, Acquiring, Exists
<1>3. TouchesNothingFinished
  BY <1>1 DEF TouchesNothingFinished
<1>. QED BY <1>2, <1>3

\* The steps of an acquisition that make no part, each with the place it moves to.
QuietSteps(c) ==
  \/ Refuse(c) \/ Accept(c) \/ LogFails(c) \/ Register(c) \/ NotBegun(c) \/ MayNotCreate(c)
  \/ (\E with : WriteFails(c, with)) \/ (\E short : Fill(c, short))
  \/ Report(c) \/ Declined(c) \/ Close(c) \/ (\E answer : Verified(c, answer))
  \/ (\E with : NotReread(c, with)) \/ AllSeen(c) \/ Killed(c)

(* The steps that leave the folder and the parts alone keep the invariant and *)
(* touch nothing finished.                                                    *)
LEMMA QuietStepsAreSmall ==
  ASSUME CommandInv, NEW c \in Calls, QuietSteps(c)
  PROVE  CommandInv' /\ TouchesNothingFinished
<1>1. CASE \/ Refuse(c) \/ NotBegun(c) \/ MayNotCreate(c) \/ Close(c) \/ AllSeen(c)
           \/ \E with : WriteFails(c, with)
  <2>1. Moves(c, "exited") /\ UNCHANGED <<folder, asked, parts>>
    BY <1>1 DEF Refuse, NotBegun, MayNotCreate, Close, AllSeen, WriteFails, Ends
  <2>. QED BY <2>1, QuietMove DEF PastLog
<1>2. CASE LogFails(c)
  <2>1. Moves(c, "exited") /\ UNCHANGED <<asked, parts>> /\ (UNCHANGED folder \/ MakesFile(c))
    BY <1>2 DEF LogFails, Ends, MakesFile
  <2>. QED BY <2>1, QuietMove DEF PastLog
<1>3. CASE Killed(c)
  <2>1. Moves(c, "killed") /\ UNCHANGED <<folder, asked, parts>>
    BY <1>3 DEF Killed
  <2>. QED BY <2>1, QuietMove DEF PastLog
<1>4. CASE Accept(c)
  <2>1. /\ Moves(c, "log") /\ UNCHANGED <<folder, asked, parts>>
        /\ at[c] = "typed" /\ Acquiring(c)
    BY <1>4 DEF Accept
  <2>. QED BY <2>1, QuietMove DEF PastLog
<1>5. CASE Register(c)
  <2>1. Moves(c, "guard") /\ UNCHANGED <<folder, asked, parts>> /\ at[c] = "opened"
    BY <1>5 DEF Register
  <2>. QED BY <2>1, QuietMove DEF PastLog
<1>6. CASE \E short : Fill(c, short)
  <2>1. Moves(c, "finish") /\ UNCHANGED <<folder, asked, parts>> /\ at[c] = "fill"
    BY <1>6 DEF Fill
  <2>. QED BY <2>1, QuietMove DEF PastLog
<1>7. CASE Report(c)
  <2>1. PICK to \in {"close", "verify"} : Moves(c, to)
    BY <1>7 DEF Report
  <2>2. UNCHANGED <<folder, asked, parts>> /\ at[c] = "report"
    BY <1>7 DEF Report
  <2>. QED BY <2>1, <2>2, QuietMove DEF PastLog
<1>8. CASE Declined(c) \/ (\E answer : Verified(c, answer)) \/ \E with : NotReread(c, with)
  <2>1. Moves(c, "close") /\ UNCHANGED <<folder, asked, parts>> /\ at[c] = "verify"
    BY <1>8 DEF Declined, Verified, NotReread
  <2>. QED BY <2>1, QuietMove DEF PastLog
<1>. QED BY <1>1, <1>2, <1>3, <1>4, <1>5, <1>6, <1>7, <1>8 DEF QuietSteps

-----------------------------------------------------------------------------
(* The two steps that may touch a file already there.                         *)
LEMMA CreateTouches ==
  ASSUME CommandInv, NEW c \in Calls, Create(c)
  PROVE  TouchesNothingFinished
<1>. DEFINE name == NextPart(c)
<1>1. /\ at' = [d \in Calls |-> IF d = c THEN "fill" ELSE at[d]]
      /\ at[c] = "create" /\ Acquiring(c) /\ UNCHANGED asked /\ name \in Names
      /\ parts[c] \in Seq(Names)
      /\ parts' = [d \in Calls |-> IF d = c THEN Append(parts[c], name) ELSE parts[d]]
      /\ \A n \in Names : n # name => folder'[n] = folder[n]
  BY DEF Create, Moves, CommandInv, Shape, Places, PastLog, Before
<1>2. name \in PartNames(c)'
  <2>1. PartNames(c)' = {Append(parts[c], name)[i] : i \in 1..Len(Append(parts[c], name))}
    BY <1>1 DEF PartNames
  <2>. HIDE DEF name
  <2>. QED BY <2>1, <1>1, Appended
<1>3. Acquiring(c)' /\ Logged(c)
  BY <1>1 DEF Acquiring, Logged, PastLog
<1>4. ASSUME Exists(name)
      PROVE  /\ folder[name].owner \in Calls
             /\ \E d \in Calls \ {folder[name].owner} :
                  /\ Acquiring(d)' /\ name \in PartNames(d)'
                  /\ Shares(folder[name].owner, name) => LogPath(folder[name].owner) # LogPath(d)
  <2>1. folder[name].owner \in Calls \ {c}
    BY <1>1, <1>4 DEF CommandInv, OnlyLateComers
  <2>2. ASSUME Shares(folder[name].owner, name)
        PROVE  LogPath(folder[name].owner) # LogPath(c)
    <3>1. Logged(folder[name].owner)
      BY <2>1, <2>2 DEF Logged, Shares, PartNames
    <3>. QED BY <2>1, <3>1, <1>3 DEF CommandInv, LogsAreTheirOwn
  <2>. QED BY <2>1, <2>2, <1>2, <1>3
<1>. QED BY <1>1, <1>4 DEF TouchesNothingFinished, Shares

(* A writer that finishes completes its own last part, which was not          *)
(* finished.                                                                  *)
LEMMA FinishTouches ==
  ASSUME CommandInv, NEW c \in Calls, Finish(c)
  PROVE  TouchesNothingFinished
<1>. DEFINE name == LastPart(c)  maker == folder[name].owner
<1>1. /\ at[c] = "finish" /\ Acquiring(c) /\ UNCHANGED <<asked, parts>>
      /\ parts[c] # <<>> /\ parts[c] \in Seq(Names)
  BY DEF Finish, CommandInv, Places, Shape, PastLog
<1>2. name \in PartNames(c) /\ name \in Names
  BY <1>1 DEF LastPart, PartNames
<1>3. maker \in Calls
  BY <1>1, <1>2 DEF CommandInv, PartsAreMade
<1>4. /\ \A n \in Names : n # name => folder'[n] = folder[n]
      /\ folder'[name].owner = maker
  BY <1>2 DEF Finish, CommandInv, Shape, File, LastPart
<1>5. Logged(c) /\ Shares(c, name)
  BY <1>1, <1>2 DEF Logged, Shares
<1>6. \A d \in Calls : Shares(d, name) => Acquiring(d)' /\ name \in PartNames(d)' /\ Logged(d)
  <2>. TAKE d \in Calls
  <2>. HAVE Shares(d, name)
  <2>1. Acquiring(d)' /\ PartNames(d)' = PartNames(d)
    BY <1>1 DEF Shares, Acquiring, PartNames
  <2>2. parts[d] # <<>>
    BY DEF Shares, PartNames
  <2>. QED BY <2>1, <2>2 DEF Shares, Logged
<1>7. \/ folder[name].is = "open"
      \/ \E d \in Calls \ {maker} : Shares(d, name)
  <2>1. CASE maker = c
    BY <2>1, <1>1 DEF CommandInv, OpenUnlessShared
  <2>2. CASE maker # c
    BY <2>2, <1>5
  <2>. QED BY <2>1, <2>2
<1>8. \A d \in Calls \ {maker} : Shares(d, name) =>
        (Shares(maker, name) => LogPath(maker) # LogPath(d))
  BY <1>3, <1>6 DEF CommandInv, LogsAreTheirOwn
<1>9. \A d \in Calls : at'[d] # "create" \/ at[d] = "create"
  BY DEF Finish, Moves, CommandInv, Shape
<1>10. \/ folder[name].is = "open"
       \/ \E d \in Calls \ {maker} :
            /\ Acquiring(d)' /\ name \in PartNames(d)'
            /\ Shares(maker, name) => LogPath(maker) # LogPath(d)
  BY <1>6, <1>7, <1>8
<1>. HIDE DEF name
<1>. QED BY <1>3, <1>4, <1>9, <1>10 DEF TouchesNothingFinished, Shares

(* A log that is opened empties no container another call has finished.       *)
LEMMA OpenLogTouches ==
  ASSUME CommandInv, NEW c \in Calls, OpenLog(c)
  PROVE  TouchesNothingFinished
<1>1. MakesFile(c) /\ \A d \in Calls : at'[d] # "create" \/ at[d] = "create"
  BY DEF OpenLog, MakesFile, Moves, CommandInv, Shape
<1>. QED BY <1>1, FileMade DEF TouchesNothingFinished

(* Every step keeps the invariant and leaves finished containers as they are. *)
LEMMA CommandStep ==
  CommandInv /\ [CommandNext]_lineVars => CommandInv' /\ [TouchesNothingFinished]_lineVars
<1>. SUFFICES ASSUME CommandInv, [CommandNext]_lineVars
              PROVE  CommandInv' /\ [TouchesNothingFinished]_lineVars
  OBVIOUS
<1>1. CASE UNCHANGED lineVars
  <2>1. UNCHANGED <<folder, asked, at, parts>>
    BY <1>1 DEF lineVars
  <2>2. Shape' /\ Places'
    BY <2>1 DEF CommandInv, Shape, Places, Acquiring, NextPart, Output
  <2>3. LogsAreTheirOwn'
    BY <2>1 DEF CommandInv, LogsAreTheirOwn, Logged, Acquiring, LogPath, Exists
  <2>4. PartsAreMade' /\ OnlyLateComers'
    BY <2>1 DEF CommandInv, PartsAreMade, OnlyLateComers, Acquiring, PartNames, Exists, NextPart, Output
  <2>5. OpenUnlessShared'
    BY <2>1 DEF CommandInv, OpenUnlessShared, LastPart, Shares, Acquiring, PartNames
  <2>. QED BY <1>1, <2>2, <2>3, <2>4, <2>5 DEF CommandInv
<1>2. CASE CommandNext
  <2>. PICK c \in Calls :
         \/ QuietSteps(c) \/ OpenLog(c) \/ MayCreate(c) \/ Create(c) \/ Finish(c)
         \/ (\E with : SetRefused(c, with)) \/ SetDescribed(c) \/ \E answer : SetVerified(c, answer)
    BY <1>2 DEF CommandNext, QuietSteps
  <2>1. CASE QuietSteps(c)
    BY <2>1, QuietStepsAreSmall
  <2>2. CASE OpenLog(c)
    BY <2>2, LogStep, OpenLogTouches
  <2>3. CASE MayCreate(c)
    BY <2>3, MayCreateStep
  <2>4. CASE Create(c)
    BY <2>4, CreateStep, CreateTouches
  <2>5. CASE Finish(c)
    BY <2>5, FinishStep, FinishTouches
  <2>6. CASE (\E with : SetRefused(c, with)) \/ SetDescribed(c) \/ \E answer : SetVerified(c, answer)
    BY <2>6, SetLookedAt
  <2>. QED BY <2>1, <2>2, <2>3, <2>4, <2>5, <2>6
<1>. QED BY <1>1, <1>2

(* "Refuses an existing file outright: overwriting evidence is the one        *)
(* mistake that cannot be undone" (write/sink.rs), as far as it holds, for    *)
(* any number of calls in one folder: what was there before is never touched, *)
(* what an acquisition has finished only by another that looked for the file  *)
(* at the same moment, and those two have different logs.                     *)
THEOREM EvidenceIsNotOverwritten == CommandSpec => NothingIsOverwritten
<1>. QED BY StartsSound, CommandStep, PTL DEF CommandSpec, NothingIsOverwritten

-----------------------------------------------------------------------------
(* What a call tells of itself *)

Kept == {"unreadable", "skipped", "changed"}
Finds == Kept \cup Against \cup {"unopened"}
Early == {"typed", "log", "opened", "guard", "create", "fill", "finish", "report"}
LogLines == Kept \cup Against \cup
  {"error", "acquired", "scope", "verified", "not reread", "conformance", "completed"}
LinesOf(lines) == {lines[i] : i \in 1..Len(lines)}

ToldTypes ==
  /\ found \in [Calls -> SUBSET Finds]
  /\ said \in [Calls -> Seq(LogLines)]
  /\ code \in [Calls -> 0..9]

\* What a split acquisition has not said yet: run_acquire_split has the reader.
Unsaid(c) == IF asked[c].split THEN Kept ELSE {}

\* Once an acquisition has reported: the code k and the log, of lines S, have
\* every finding of F but the unsaid.
Reported(c, F, S, k) ==
  /\ "completed" \notin S
  /\ k # 1 /\ (k = Usage => "not reread" \in S)
  /\ k \in 1..(Finding - 1) => "unopened" \in F
  /\ k = 0 => F \subseteq Unsaid(c)
  /\ F \ {"unopened"} \subseteq S \cup Unsaid(c)

\* Once a call has ended.
Ended(c, F, S, k) ==
  /\ k = 0 => F = {}
  /\ Acquiring(c) /\ (k = 0 \/ k >= Finding) => "completed" \in S
  /\ "completed" \in S =>
       /\ F \ {"unopened"} \subseteq S
       /\ k = Usage => "not reread" \in S
       /\ k \in 1..(Finding - 1) => "unopened" \in F

TellsSo(c, place, F, S, k) ==
  /\ Acquiring(c) /\ place \in Early => k = 0 /\ S = {} /\ F \subseteq Kept
  /\ place \in {"verify", "close"} => Reported(c, F, S, k)
  /\ ~Acquiring(c) => S = {} /\ (k = 0 => F = {})
  /\ place = "exited" => Ended(c, F, S, k)
Tells(c) == TellsSo(c, at[c], found[c], LinesOf(said[c]), code[c])

(* What a concatenation of lines says.                                        *)
LEMMA LinesTogether ==
  ASSUME NEW s \in Seq(LogLines), NEW t \in Seq(LogLines)
  PROVE  s \o t \in Seq(LogLines) /\ LinesOf(s \o t) = LinesOf(s) \cup LinesOf(t)
<1>1. /\ s \o t \in Seq(LogLines) /\ Len(s \o t) = Len(s) + Len(t)
      /\ \A i \in 1..(Len(s) + Len(t)) : (s \o t)[i] = IF i <= Len(s) THEN s[i] ELSE t[i - Len(s)]
      /\ Len(s) \in Nat /\ Len(t) \in Nat
  BY ConcatProperties, LenProperties
<1>2. LinesOf(s \o t) \subseteq LinesOf(s) \cup LinesOf(t)
  <2>. SUFFICES ASSUME NEW i \in 1..(Len(s) + Len(t))
                PROVE  (s \o t)[i] \in LinesOf(s) \cup LinesOf(t)
    BY <1>1 DEF LinesOf
  <2>1. CASE i <= Len(s)
    BY <2>1, <1>1 DEF LinesOf
  <2>2. CASE i > Len(s)
    <3>1. i - Len(s) \in 1..Len(t) /\ (s \o t)[i] = t[i - Len(s)]
      BY <2>2, <1>1
    <3>. QED BY <3>1 DEF LinesOf
  <2>. QED BY <2>1, <2>2, <1>1
<1>3. ASSUME NEW i \in 1..Len(s) PROVE s[i] \in LinesOf(s \o t)
  <2>1. i \in 1..(Len(s) + Len(t)) /\ (s \o t)[i] = s[i]
    BY <1>1
  <2>. QED BY <2>1, <1>1 DEF LinesOf
<1>4. ASSUME NEW i \in 1..Len(t) PROVE t[i] \in LinesOf(s \o t)
  <2>1. i + Len(s) \in 1..(Len(s) + Len(t)) /\ (s \o t)[i + Len(s)] = t[i]
    BY <1>1
  <2>. QED BY <2>1, <1>1 DEF LinesOf
<1>. QED BY <1>1, <1>2, <1>3, <1>4 DEF LinesOf

(* A line said on a condition, and lines said one by one.                     *)
LEMMA SaidIf ==
  ASSUME NEW line \in LogLines, NEW lines
  PROVE  LineIf(line, lines) \in Seq(LogLines) /\ LinesOf(LineIf(line, lines)) = {line} \cap lines
<1>1. Len(<<line>>) = 1 /\ <<line>>[1] = line
  OBVIOUS
<1>3. <<line>> \in Seq(LogLines)
  OBVIOUS
<1>4. LinesOf(<<line>>) = {line}
  BY <1>1 DEF LinesOf
<1>2. Len(<<>>) = 0 /\ <<>> \in Seq(LogLines)
  OBVIOUS
<1>5. LinesOf(<<>>) = {}
  BY <1>2 DEF LinesOf
<1>. QED BY <1>2, <1>3, <1>4, <1>5 DEF LineIf

(* A line said alone.                                                         *)
LEMMA SaidOne ==
  ASSUME NEW line \in LogLines
  PROVE  <<line>> \in Seq(LogLines) /\ LinesOf(<<line>>) = {line}
<1>1. Len(<<line>>) = 1 /\ <<line>>[1] = line
  OBVIOUS
<1>2. <<line>> \in Seq(LogLines)
  OBVIOUS
<1>. QED BY <1>1, <1>2 DEF LinesOf

(* No line said.                                                              *)
LEMMA SaidNone == <<>> \in Seq(LogLines) /\ LinesOf(<<>>) = {}
<1>1. Len(<<>>) = 0 /\ <<>> \in Seq(LogLines)
  OBVIOUS
<1>. QED BY <1>1 DEF LinesOf

(* Three lines, each said if it applies.                                      *)
LEMMA ThreeTogether ==
  ASSUME NEW s \in Seq(LogLines), NEW t \in Seq(LogLines), NEW u \in Seq(LogLines)
  PROVE  s \o t \o u \in Seq(LogLines) /\ LinesOf(s \o t \o u) = LinesOf(s) \cup LinesOf(t) \cup LinesOf(u)
<1>1. s \o t \in Seq(LogLines) /\ LinesOf(s \o t) = LinesOf(s) \cup LinesOf(t)
  BY LinesTogether
<1>2. (s \o t) \o u \in Seq(LogLines) /\ LinesOf((s \o t) \o u) = LinesOf(s \o t) \cup LinesOf(u)
  BY <1>1, LinesTogether
<1>. QED BY <1>1, <1>2

(* The lines of a report name what the source kept back, and nothing else.    *)
LEMMA ShortIsSaid ==
  ASSUME NEW c
  PROVE  ShortLines(c) \in Seq(LogLines) /\ LinesOf(ShortLines(c)) = Short(c)
<1>. DEFINE s == LineIf("unreadable", Short(c))
            t == LineIf("skipped", Short(c))
            u == LineIf("changed", Short(c))
<1>1. s \in Seq(LogLines) /\ LinesOf(s) = {"unreadable"} \cap Short(c)
  BY SaidIf DEF LogLines, Kept
<1>2. t \in Seq(LogLines) /\ LinesOf(t) = {"skipped"} \cap Short(c)
  BY SaidIf DEF LogLines, Kept
<1>3. u \in Seq(LogLines) /\ LinesOf(u) = {"changed"} \cap Short(c)
  BY SaidIf DEF LogLines, Kept
<1>4. ShortLines(c) = s \o t \o u
  BY DEF ShortLines
<1>. HIDE DEF s, t, u
<1>5. ShortLines(c) \in Seq(LogLines) /\ LinesOf(ShortLines(c)) = LinesOf(s) \cup LinesOf(t) \cup LinesOf(u)
  BY <1>1, <1>2, <1>3, <1>4, ThreeTogether
<1>. QED BY <1>1, <1>2, <1>3, <1>5 DEF Short

(* A call's own step leaves what the others tell; if what it tells holds, the *)
(* telling goes on.                                                           *)
LEMMA Telling ==
  ASSUME CommandInv, ToldTypes, \A d \in Calls : Tells(d), NEW c \in Calls, UNCHANGED asked,
         NEW to, NEW F \in SUBSET Finds, NEW lines \in Seq(LogLines), NEW k \in 0..9,
         at' = [at EXCEPT ![c] = to], found' = [found EXCEPT ![c] = F],
         said' = [said EXCEPT ![c] = @ \o lines], code' = [code EXCEPT ![c] = k],
         TellsSo(c, to, F, LinesOf(said[c]) \cup LinesOf(lines), k)
  PROVE  ToldTypes' /\ \A d \in Calls : Tells(d)'
<1>1. said[c] \o lines \in Seq(LogLines) /\ LinesOf(said[c] \o lines) = LinesOf(said[c]) \cup LinesOf(lines)
  BY LinesTogether DEF ToldTypes
<1>2. ToldTypes'
  BY <1>1 DEF ToldTypes
<1>3. /\ at'[c] = to /\ found'[c] = F /\ said'[c] = said[c] \o lines /\ code'[c] = k
      /\ \A d \in Calls \ {c} : at'[d] = at[d] /\ found'[d] = found[d] /\ said'[d] = said[d] /\ code'[d] = code[d]
  BY DEF ToldTypes, CommandInv, Shape
<1>4. ASSUME NEW d \in Calls \ {c} PROVE Tells(d)'
  <2>1. at'[d] = at[d] /\ found'[d] = found[d] /\ said'[d] = said[d] /\ code'[d] = code[d]
    BY <1>3
  <2>2. LinesOf(said'[d]) = LinesOf(said[d])
    BY <2>1
  <2>3. \A place, G, S, m : TellsSo(d, place, G, S, m)' <=> TellsSo(d, place, G, S, m)
    <3>1. Acquiring(d)' = Acquiring(d)
      BY DEF Acquiring
    <3>2. \A G, S, m : Reported(d, G, S, m)' <=> Reported(d, G, S, m)
      BY Zenon DEF Reported, Unsaid
    <3>3. \A G, S, m : Ended(d, G, S, m)' <=> Ended(d, G, S, m)
      BY <3>1, Zenon DEF Ended
    <3>4. Acquiring(d)' <=> Acquiring(d)
      BY <3>1
    <3>5. ASSUME NEW place, NEW G, NEW S, NEW m
          PROVE  TellsSo(d, place, G, S, m)' <=> TellsSo(d, place, G, S, m)
      BY <3>2, <3>3, <3>4, SMT DEF TellsSo
    <3>. QED BY <3>5
  <2>4. TellsSo(d, at'[d], found'[d], LinesOf(said'[d]), code'[d])
    BY <2>1, <2>2 DEF Tells
  <2>5. TellsSo(d, at[d], found[d], LinesOf(said[d]), code[d])'
    BY <2>3, <2>4
  <2>. QED BY <2>5 DEF Tells
<1>5. Tells(c)'
  BY <1>1, <1>3 DEF Tells, TellsSo, Acquiring, Reported, Ended, Unsaid
<1>. QED BY <1>2, <1>4, <1>5

\* What a call says and finds, as changes of what it had.
TellsOn(c, to, F, lines, k) ==
  /\ at' = [at EXCEPT ![c] = to] /\ found' = [found EXCEPT ![c] = F]
  /\ said' = [said EXCEPT ![c] = @ \o lines] /\ code' = [code EXCEPT ![c] = k]
  /\ UNCHANGED asked

(* Most steps say and find nothing.                                           *)
LEMMA SaysNothing ==
  ASSUME CommandInv, ToldTypes, NEW c \in Calls
  PROVE  /\ UNCHANGED said => said' = [said EXCEPT ![c] = @ \o <<>>]
         /\ UNCHANGED found => found' = [found EXCEPT ![c] = found[c]]
         /\ UNCHANGED code => code' = [code EXCEPT ![c] = code[c]]
         /\ UNCHANGED at => at' = [at EXCEPT ![c] = at[c]]
         /\ found[c] \in SUBSET Finds /\ code[c] \in 0..9 /\ said[c] \in Seq(LogLines)
<1>1. \A s \in Seq(LogLines) : s \o <<>> = s
  OBVIOUS
<1>2. said[c] \o <<>> = said[c]
  BY <1>1 DEF ToldTypes
<1>. QED BY <1>2 DEF ToldTypes, CommandInv, Shape

(* Up to the report an acquisition has nothing to say; if it gives up, it     *)
(* ends with a code that says so.                                             *)
LEMMA EarlyTells ==
  ASSUME CommandInv, ToldTypes, \A d \in Calls : Tells(d), NEW c \in Calls,
         \/ Accept(c) \/ OpenLog(c) \/ Register(c) \/ MayCreate(c) \/ Create(c) \/ Finish(c)
         \/ Killed(c) \/ \E short \in SUBSET {"unreadable", "skipped", "changed"} : Fill(c, short)
  PROVE  ToldTypes' /\ \A d \in Calls : Tells(d)'
<1>1. CASE Killed(c)
  <2>1. TellsOn(c, "killed", found[c], <<>>, code[c])
    BY <1>1, SaysNothing DEF Killed, Moves, TellsOn
  <2>2. TellsSo(c, "killed", found[c], LinesOf(said[c]) \cup LinesOf(<<>>), code[c])
    BY SaidNone DEF Tells, TellsSo, Early
  <2>. QED BY <2>1, <2>2, SaidNone, SaysNothing, Telling DEF TellsOn
<1>2. CASE \/ Accept(c) \/ OpenLog(c) \/ Register(c) \/ MayCreate(c) \/ Create(c) \/ Finish(c)
  <2>1. at[c] \in Early /\ UNCHANGED <<asked, found, said, code>> /\ Acquiring(c)
    BY <1>2 DEF Accept, OpenLog, Register, MayCreate, Create, Finish, Early, CommandInv, Places, PastLog
  <2>2. \E to \in Early : Moves(c, to)
    BY <1>2 DEF Accept, OpenLog, Register, MayCreate, Create, Finish, Early
  <2>. PICK to \in Early : Moves(c, to)
    BY <2>2
  <2>3. TellsOn(c, to, found[c], <<>>, code[c])
    BY <2>1, SaysNothing DEF Moves, TellsOn
  <2>4. TellsSo(c, to, found[c], LinesOf(said[c]) \cup LinesOf(<<>>), code[c])
    BY <2>1, SaidNone DEF Tells, TellsSo, Early
  <2>. QED BY <2>3, <2>4, SaidNone, SaysNothing, Telling DEF TellsOn
<1>3. ASSUME NEW short \in SUBSET {"unreadable", "skipped", "changed"}, Fill(c, short)
      PROVE  ToldTypes' /\ \A d \in Calls : Tells(d)'
  <2>1. at[c] = "fill" /\ Acquiring(c) /\ UNCHANGED <<asked, said, code>>
    BY <1>3 DEF Fill, CommandInv, Places, PastLog
  <2>2. TellsOn(c, "finish", found[c] \cup short, <<>>, code[c])
    BY <1>3, <2>1, SaysNothing DEF Fill, Moves, TellsOn, ToldTypes
  <2>3. TellsSo(c, "finish", found[c] \cup short, LinesOf(said[c]) \cup LinesOf(<<>>), code[c])
    BY <2>1, SaidNone DEF Tells, TellsSo, Early, Kept
  <2>4. found[c] \cup short \in SUBSET Finds
    BY SaysNothing DEF Finds, Kept
  <2>. QED BY <2>2, <2>3, <2>4, SaidNone, SaysNothing, Telling DEF TellsOn
<1>. QED BY <1>1, <1>2, <1>3

(* What is refused has a code of its own.                                     *)
LEMMA RefusedCodes == \A c : Refused(c) \in {0, Usage, Io, Malformed, Unsupported}
  BY DEF Refused, DeviceRefused, ContainerRefused, FilesRefused

(* An acquisition that gives up ends with a code, and no stamp.               *)
LEMMA GivesUpTells ==
  ASSUME CommandInv, ToldTypes, \A d \in Calls : Tells(d), NEW c \in Calls,
         \/ Refuse(c) \/ LogFails(c) \/ NotBegun(c) \/ MayNotCreate(c)
         \/ \E with \in {Io, Malformed} : WriteFails(c, with)
  PROVE  ToldTypes' /\ \A d \in Calls : Tells(d)'
<1>1. at[c] \in Early /\ Acquiring(c) /\ UNCHANGED <<asked, found>>
  BY DEF Refuse, LogFails, NotBegun, MayNotCreate, WriteFails, Early, CommandInv, Places, PastLog
<1>2. \E k \in {Usage, Io, Malformed, Unsupported} : Ends(c, k)
  BY RefusedCodes DEF Refuse, LogFails, NotBegun, MayNotCreate, WriteFails
<1>. PICK k \in {Usage, Io, Malformed, Unsupported} : Ends(c, k)
  BY <1>2
<1>3. \E lines \in {<<>>, <<"error">>} : said' = [said EXCEPT ![c] = @ \o lines]
  BY SaysNothing DEF Refuse, LogFails, NotBegun, MayNotCreate, WriteFails, Says
<1>. PICK lines \in {<<>>, <<"error">>} : said' = [said EXCEPT ![c] = @ \o lines]
  BY <1>3
<1>4. lines \in Seq(LogLines) /\ "completed" \notin LinesOf(lines)
  <2>1. "error" \in LogLines
    BY DEF LogLines
  <2>2. <<"error">> \in Seq(LogLines) /\ LinesOf(<<"error">>) = {"error"}
    BY <2>1, SaidOne
  <2>3. CASE lines = <<>>
    BY <2>3, SaidNone
  <2>4. CASE lines = <<"error">>
    BY <2>2, <2>4
  <2>. QED BY <2>3, <2>4
<1>5. TellsOn(c, "exited", found[c], lines, k)
  BY <1>1, SaysNothing DEF Ends, Moves, TellsOn
<1>6. TellsSo(c, "exited", found[c], LinesOf(said[c]) \cup LinesOf(lines), k)
  <2>1. LinesOf(said[c]) = {}
    BY <1>1 DEF Tells, TellsSo
  <2>2. "completed" \notin LinesOf(said[c]) \cup LinesOf(lines)
    BY <1>4, <2>1
  <2>3. k # 0 /\ ~(k >= Finding)
    BY DEF Usage, Io, Malformed, Unsupported, Finding
  <2>4. Ended(c, found[c], LinesOf(said[c]) \cup LinesOf(lines), k)
    BY <2>2, <2>3, Zenon DEF Ended
  <2>. QED BY <1>1, <2>4 DEF TellsSo, Early
<1>7. k \in 0..9
  BY DEF Usage, Io, Malformed, Unsupported
<1>. QED BY <1>4, <1>5, <1>6, <1>7, SaysNothing, Telling DEF TellsOn

(* The report: every finding is on a line, or left for the close of a split.  *)
LEMMA ReportTells ==
  ASSUME CommandInv, ToldTypes, \A d \in Calls : Tells(d), NEW c \in Calls, Report(c)
  PROVE  ToldTypes' /\ \A d \in Calls : Tells(d)'
<1>1. /\ at[c] = "report" /\ Acquiring(c) /\ UNCHANGED <<asked, found>>
      /\ code[c] = 0 /\ LinesOf(said[c]) = {} /\ found[c] \subseteq Kept
  BY DEF Report, Tells, TellsSo, Early, CommandInv, Places, PastLog
<1>. PICK to \in {"close", "verify"} : Moves(c, to)
  BY DEF Report
<1>2. Short(c) = found[c]
  BY <1>1 DEF Short, Kept
<1>3. <<"acquired">> \in Seq(LogLines) /\ LinesOf(<<"acquired">>) = {"acquired"}
  <2>1. "acquired" \in LogLines
    BY DEF LogLines
  <2>. QED BY <2>1, SaidOne
<1>4. CASE asked[c].split
  <2>1. TellsOn(c, to, found[c], <<"acquired">>, 0)
    BY <1>1, <1>4, SaysNothing DEF Report, Says, Moves, TellsOn
  <2>2. TellsSo(c, to, found[c], LinesOf(said[c]) \cup LinesOf(<<"acquired">>), 0)
    BY <1>1, <1>3, <1>4 DEF TellsSo, Reported, Unsaid, Early, Usage, Finding
  <2>3. 0 \in 0..9 /\ found[c] \in SUBSET Finds
    BY SaysNothing
  <2>. QED BY <1>3, <2>1, <2>2, <2>3, Telling DEF TellsOn
<1>5. CASE ~asked[c].split
  <2>. DEFINE lines == ShortLines(c) \o <<"acquired">>  k == ShortCode(c)
  <2>1. lines \in Seq(LogLines) /\ LinesOf(lines) = found[c] \cup {"acquired"}
    <3>1. ShortLines(c) \in Seq(LogLines) /\ LinesOf(ShortLines(c)) = Short(c)
      BY ShortIsSaid
    <3>2. lines \in Seq(LogLines) /\ LinesOf(lines) = LinesOf(ShortLines(c)) \cup LinesOf(<<"acquired">>)
      BY <3>1, <1>3, LinesTogether
    <3>. QED BY <3>1, <3>2, <1>2, <1>3
  <2>2. Append(ShortLines(c), "acquired") = lines
    <3>1. ShortLines(c) \in Seq(LogLines) /\ "acquired" \in LogLines
      BY ShortIsSaid DEF LogLines
    <3>. QED BY <3>1, AppendIsConcat
  <2>3. k \in {0, Finding} /\ (k = 0 <=> found[c] = {}) /\ Worse(code[c], k) = k
    BY <1>1, <1>2 DEF ShortCode, Worse, Finding
  <2>4. said' = [said EXCEPT ![c] = @ \o lines]
    BY <1>5, <2>2 DEF Report, Says
  <2>5. code' = [code EXCEPT ![c] = k]
    BY <1>5, <2>3, SaysNothing DEF Report, Raises, ToldTypes
  <2>. HIDE DEF lines, k
  <2>6. TellsOn(c, to, found[c], lines, k)
    BY <1>1, <2>4, <2>5, SaysNothing DEF Moves, TellsOn
  <2>7. TellsSo(c, to, found[c], LinesOf(said[c]) \cup LinesOf(lines), k)
    <3>. DEFINE S == LinesOf(said[c]) \cup LinesOf(lines)
    <3>1. S = found[c] \cup {"acquired"}
      BY <1>1, <2>1
    <3>2. k # 1 /\ k # Usage /\ k \notin 1..(Finding - 1)
      BY <2>3 DEF Usage, Finding
    <3>3. "completed" \notin S
      BY <1>1, <3>1 DEF Kept
    <3>. HIDE DEF S
    <3>4. Reported(c, found[c], S, k)
      BY <2>3, <3>1, <3>2, <3>3 DEF Reported
    <3>. QED BY <1>1, <3>4 DEF TellsSo, Early, S
  <2>8. k \in 0..9
    BY <2>3 DEF Finding
  <2>. QED BY <2>1, <2>6, <2>7, <2>8, SaysNothing, Telling DEF TellsOn
<1>. QED BY <1>4, <1>5

(* What a reading back finds is on a line too.                                *)
LEMMA VerifiedTells ==
  ASSUME CommandInv, ToldTypes, \A d \in Calls : Tells(d), NEW c \in Calls,
         NEW answer \in SUBSET Against, Verified(c, answer)
  PROVE  ToldTypes' /\ \A d \in Calls : Tells(d)'
<1>. DEFINE s == LineIf("mismatch", answer)  t == LineIf("unread", answer)  u == <<"verified">>
            lines == s \o t \o u
            k == Worse(code[c], AnswerCode(answer))
<1>1. at[c] = "verify" /\ Acquiring(c) /\ UNCHANGED asked /\ Reported(c, found[c], LinesOf(said[c]), code[c])
  BY DEF Verified, Tells, TellsSo, CommandInv, Places, PastLog
<1>2. s \in Seq(LogLines) /\ LinesOf(s) = {"mismatch"} \cap answer
  BY SaidIf DEF LogLines, Against
<1>3. t \in Seq(LogLines) /\ LinesOf(t) = {"unread"} \cap answer
  BY SaidIf DEF LogLines, Against
<1>4. u \in Seq(LogLines) /\ LinesOf(u) = {"verified"}
  <2>1. "verified" \in LogLines
    BY DEF LogLines
  <2>. QED BY <2>1, SaidOne
<1>. HIDE DEF s, t, u
<1>5. lines \in Seq(LogLines) /\ LinesOf(lines) = answer \cup {"verified"}
  <2>1. LinesOf(lines) = LinesOf(s) \cup LinesOf(t) \cup LinesOf(u) /\ lines \in Seq(LogLines)
    BY <1>2, <1>3, <1>4, ThreeTogether
  <2>. QED BY <2>1, <1>2, <1>3, <1>4 DEF Against
<1>6. /\ AnswerCode(answer) \in {0, Mismatch, Unverifiable}
      /\ AnswerCode(answer) = 0 => answer = {}
  BY DEF AnswerCode, Against, Mismatch, Unverifiable
<1>7. /\ k \in 0..9 /\ (k = 0 => code[c] = 0 /\ answer = {})
      /\ k \in 1..(Finding - 1) => k = code[c]
      /\ k \in {1, Usage} => k = code[c]
  BY <1>6, SaysNothing DEF Worse, Mismatch, Unverifiable, Finding, Usage
<1>8. said' = [said EXCEPT ![c] = @ \o lines]
  BY DEF Verified, Says, s, t, u
<1>9. code' = [code EXCEPT ![c] = k]
  BY DEF Verified, AnswerRaises, Raises, ToldTypes
<1>10. found' = [found EXCEPT ![c] = found[c] \cup answer]
  BY DEF Verified, ToldTypes
<1>11. TellsOn(c, "close", found[c] \cup answer, lines, k)
  BY <1>1, <1>8, <1>9, <1>10 DEF Verified, Moves, TellsOn
<1>. HIDE DEF lines, k
<1>12. TellsSo(c, "close", found[c] \cup answer, LinesOf(said[c]) \cup LinesOf(lines), k)
  BY <1>1, <1>5, <1>7 DEF TellsSo, Reported, Early, Against
<1>13. found[c] \cup answer \in SUBSET Finds
  BY SaysNothing DEF Finds
<1>. QED BY <1>5, <1>7, <1>11, <1>12, <1>13, Telling DEF TellsOn

(* A container that cannot be opened again says so in the code.               *)
LEMMA DeclinedTells ==
  ASSUME CommandInv, ToldTypes, \A d \in Calls : Tells(d), NEW c \in Calls,
         Declined(c) \/ \E with \in {Usage, Io, NotAff4, Malformed, Unsupported, Unverifiable} : NotReread(c, with)
  PROVE  ToldTypes' /\ \A d \in Calls : Tells(d)'
<1>1. /\ at[c] = "verify" /\ Acquiring(c) /\ UNCHANGED asked /\ Moves(c, "close")
      /\ Reported(c, found[c], LinesOf(said[c]), code[c])
  BY DEF Declined, NotReread, Tells, TellsSo, CommandInv, Places, PastLog
<1>2. "scope" \in LogLines /\ "not reread" \in LogLines
  BY DEF LogLines
<1>3. CASE Declined(c)
  <2>1. TellsOn(c, "close", found[c], <<"scope">>, code[c])
    BY <1>1, <1>3, SaysNothing DEF Declined, Moves, Says, TellsOn
  <2>2. <<"scope">> \in Seq(LogLines) /\ LinesOf(<<"scope">>) = {"scope"}
    BY <1>2, SaidOne
  <2>3. TellsSo(c, "close", found[c], LinesOf(said[c]) \cup LinesOf(<<"scope">>), code[c])
    BY <1>1, <2>2 DEF TellsSo, Reported, Early
  <2>. QED BY <2>1, <2>2, <2>3, SaysNothing, Telling DEF TellsOn
<1>4. ASSUME NEW with \in {Usage, Io, NotAff4, Malformed, Unsupported, Unverifiable}, NotReread(c, with)
      PROVE  ToldTypes' /\ \A d \in Calls : Tells(d)'
  <2>. DEFINE k == Worse(code[c], with)  F == found[c] \cup {"unopened"}
  <2>1. TellsOn(c, "close", F, <<"not reread">>, k)
    BY <1>1, <1>4 DEF NotReread, Moves, Says, Raises, TellsOn, ToldTypes
  <2>2. <<"not reread">> \in Seq(LogLines) /\ LinesOf(<<"not reread">>) = {"not reread"}
    BY <1>2, SaidOne
  <2>3. k \in 0..9 /\ k # 0 /\ k # 1
    BY SaysNothing DEF Worse, Io, NotAff4, Malformed, Unsupported, Usage, Unverifiable
  <2>. HIDE DEF k
  <2>4. TellsSo(c, "close", F, LinesOf(said[c]) \cup LinesOf(<<"not reread">>), k)
    <3>1. Reported(c, F, LinesOf(said[c]) \cup {"not reread"}, k)
      BY <1>1, <2>3 DEF Reported
    <3>. QED BY <3>1, <2>2, <1>1 DEF TellsSo, Early
  <2>5. F \in SUBSET Finds
    BY SaysNothing DEF Finds
  <2>. QED BY <2>1, <2>2, <2>3, <2>4, <2>5, Telling DEF TellsOn
<1>. QED BY <1>3, <1>4

(* The last stamp: what was left unsaid is said before it.                    *)
LEMMA CloseTells ==
  ASSUME CommandInv, ToldTypes, \A d \in Calls : Tells(d), NEW c \in Calls, Close(c)
  PROVE  /\ ToldTypes' /\ \A d \in Calls : Tells(d)'
         /\ "completed" \in LinesOf(said'[c])
<1>1. /\ at[c] = "close" /\ Acquiring(c) /\ UNCHANGED <<asked, found>>
      /\ Reported(c, found[c], LinesOf(said[c]), code[c])
  BY DEF Close, Tells, TellsSo, CommandInv, Places, PastLog
<1>2. <<"completed">> \in Seq(LogLines) /\ LinesOf(<<"completed">>) = {"completed"}
  <2>1. "completed" \in LogLines
    BY DEF LogLines
  <2>. QED BY <2>1, SaidOne
<1>3. CASE asked[c].split
  <2>. DEFINE lines == ShortLines(c) \o <<"completed">>  k == Worse(code[c], ShortCode(c))
  <2>1. lines \in Seq(LogLines) /\ LinesOf(lines) = Short(c) \cup {"completed"}
    <3>1. ShortLines(c) \in Seq(LogLines) /\ LinesOf(ShortLines(c)) = Short(c)
      BY ShortIsSaid
    <3>2. lines \in Seq(LogLines) /\ LinesOf(lines) = LinesOf(ShortLines(c)) \cup LinesOf(<<"completed">>)
      BY <3>1, <1>2, LinesTogether
    <3>. QED BY <3>1, <3>2, <1>2
  <2>2. Append(ShortLines(c), "completed") = lines
    <3>1. ShortLines(c) \in Seq(LogLines) /\ "completed" \in LogLines
      BY ShortIsSaid DEF LogLines
    <3>. QED BY <3>1, AppendIsConcat
  <2>3. ShortCode(c) \in {0, Finding} /\ (ShortCode(c) = 0 <=> Short(c) = {})
    BY DEF ShortCode, Finding
  <2>4. /\ k \in 0..9 /\ (k = 0 => code[c] = 0 /\ Short(c) = {})
        /\ k \in 1..(Finding - 1) => k = code[c]
        /\ k = Usage => k = code[c]
    BY <2>3, SaysNothing DEF Worse, Finding, Usage
  <2>5. TellsOn(c, "exited", found[c], lines, k)
    BY <1>1, <1>3, <2>2, SaysNothing DEF Close, Ends, Moves, Says, TellsOn
  <2>. HIDE DEF lines, k
  <2>6. Kept \cap found[c] \subseteq Short(c)
    BY DEF Short, Kept
  <2>7. TellsSo(c, "exited", found[c], LinesOf(said[c]) \cup LinesOf(lines), k)
    BY <1>1, <1>3, <2>1, <2>4, <2>6 DEF TellsSo, Reported, Ended, Unsaid, Early
  <2>8. "completed" \in LinesOf(said'[c])
    BY <2>1, <2>5, SaysNothing, LinesTogether DEF TellsOn, ToldTypes
  <2>. QED BY <2>1, <2>4, <2>5, <2>7, <2>8, SaysNothing, Telling DEF TellsOn
<1>4. CASE ~asked[c].split
  <2>. DEFINE first == IF asked[c].mode = "device" THEN <<>> ELSE <<"conformance">>
              lines == first \o <<"completed">>
  <2>1. first \in Seq(LogLines)
    <3>1. "conformance" \in LogLines
      BY DEF LogLines
    <3>2. <<"conformance">> \in Seq(LogLines)
      BY <3>1, SaidOne
    <3>. QED BY <3>2, SaidNone
  <2>2. TellsOn(c, "exited", found[c], lines, code[c])
    BY <1>1, <1>4, SaysNothing DEF Close, Ends, Moves, Says, TellsOn
  <2>. HIDE DEF first
  <2>3. lines \in Seq(LogLines) /\ "completed" \in LinesOf(lines)
    BY <1>2, <2>1, LinesTogether
  <2>4. TellsSo(c, "exited", found[c], LinesOf(said[c]) \cup LinesOf(lines), code[c])
    BY <1>1, <1>4, <2>3 DEF TellsSo, Reported, Ended, Unsaid, Early
  <2>5. "completed" \in LinesOf(said'[c])
    <3>1. said[c] \in Seq(LogLines)
      BY SaysNothing
    <3>2. said'[c] = said[c] \o lines
      BY <2>2 DEF TellsOn, ToldTypes
    <3>. HIDE DEF lines
    <3>3. LinesOf(said[c] \o lines) = LinesOf(said[c]) \cup LinesOf(lines)
      BY <2>3, <3>1, LinesTogether
    <3>. QED BY <2>3, <3>2, <3>3
  <2>. QED BY <2>2, <2>3, <2>4, <2>5, SaysNothing, Telling DEF TellsOn
<1>. QED BY <1>3, <1>4

(* A command that only reads says nothing in a log; its code is at least each *)
(* container's own.                                                           *)
LEMMA LookTells ==
  ASSUME CommandInv, ToldTypes, \A d \in Calls : Tells(d), NEW c \in Calls,
         \/ \E with \in {Usage, Io, NotAff4, Unverifiable} : SetRefused(c, with)
         \/ SetDescribed(c) \/ \E answer \in SUBSET Against : SetVerified(c, answer)
  PROVE  ToldTypes' /\ \A d \in Calls : Tells(d)'
<1>1. /\ at[c] = "typed" /\ ~Acquiring(c) /\ UNCHANGED <<asked, at, said>>
      /\ LinesOf(said[c]) = {} /\ (code[c] = 0 => found[c] = {})
  BY DEF SetRefused, SetDescribed, SetVerified, Looking, Tells, TellsSo
<1>2. \E F \in SUBSET Finds, k \in 0..9 :
        /\ found' = [found EXCEPT ![c] = F] /\ code' = [code EXCEPT ![c] = k]
        /\ k = 0 => F = {}
  <2>1. ASSUME NEW with \in {Usage, Io, NotAff4, Unverifiable}, SetRefused(c, with)
        PROVE  \E F \in SUBSET Finds, k \in 0..9 :
                 /\ found' = [found EXCEPT ![c] = F] /\ code' = [code EXCEPT ![c] = k]
                 /\ k = 0 => F = {}
    <3>. DEFINE F == found[c] \cup {"unopened"}  k == Worse(code[c], with)
    <3>1. F \in SUBSET Finds
      BY SaysNothing DEF Finds
    <3>2. k \in 0..9 /\ k # 0
      BY SaysNothing DEF Worse, Usage, Io, NotAff4, Unverifiable
    <3>3. found' = [found EXCEPT ![c] = F] /\ code' = [code EXCEPT ![c] = k]
      BY <2>1 DEF SetRefused, Looks, Raises, ToldTypes
    <3>. QED BY <3>1, <3>2, <3>3
  <2>2. ASSUME NEW answer \in SUBSET Against, NEW sofar \in {0, Mismatch, Unverifiable},
               sofar = 0 => answer = {}, Looks(c, answer), Listing(c, sofar)
        PROVE  \E F \in SUBSET Finds, k \in 0..9 :
                 /\ found' = [found EXCEPT ![c] = F] /\ code' = [code EXCEPT ![c] = k]
                 /\ k = 0 => F = {}
    <3>. DEFINE F == found[c] \cup answer
    <3>1. \E to \in {sofar, Worse(sofar, ListingIo)} : Raises(c, to)
      BY <2>2 DEF Listing
    <3>. PICK to \in {sofar, Worse(sofar, ListingIo)} : Raises(c, to)
      BY <3>1
    <3>2. to \in 0..9 /\ (to = 0 => answer = {})
      BY <2>2 DEF Worse, ListingIo, Mismatch, Unverifiable
    <3>. DEFINE k == Worse(code[c], to)
    <3>3. k \in 0..9 /\ (k = 0 => F = {})
      BY <1>1, <3>2, SaysNothing DEF Worse
    <3>4. F \in SUBSET Finds
      BY SaysNothing DEF Finds
    <3>5. found' = [found EXCEPT ![c] = F] /\ code' = [code EXCEPT ![c] = k]
      BY <2>2 DEF Looks, Raises, ToldTypes
    <3>. QED BY <3>3, <3>4, <3>5
  <2>3. ASSUME NEW answer \in SUBSET Against
        PROVE  /\ AnswerCode(answer) \in {0, Mismatch, Unverifiable}
               /\ AnswerCode(answer) = 0 => answer = {}
    BY DEF AnswerCode, Against, Mismatch, Unverifiable
  <2>4. {} \in SUBSET Against
    OBVIOUS
  <2>5. SetDescribed(c) => Looks(c, {}) /\ Listing(c, 0)
    BY DEF SetDescribed
  <2>6. \A answer : SetVerified(c, answer) => Looks(c, answer) /\ Listing(c, AnswerCode(answer))
    BY DEF SetVerified
  <2>. QED BY <2>1, <2>2, <2>3, <2>4, <2>5, <2>6
<1>. PICK F \in SUBSET Finds, k \in 0..9 :
        /\ found' = [found EXCEPT ![c] = F] /\ code' = [code EXCEPT ![c] = k]
        /\ k = 0 => F = {}
  BY <1>2
<1>3. TellsOn(c, at[c], F, <<>>, k)
  BY <1>1, SaysNothing DEF TellsOn
<1>4. TellsSo(c, at[c], F, LinesOf(said[c]) \cup LinesOf(<<>>), k)
  BY <1>1, SaidNone DEF TellsSo
<1>. QED BY <1>3, <1>4, SaidNone, Telling DEF TellsOn

(* It ends with the worst of them.                                            *)
LEMMA AllSeenTells ==
  ASSUME CommandInv, ToldTypes, \A d \in Calls : Tells(d), NEW c \in Calls, AllSeen(c)
  PROVE  ToldTypes' /\ \A d \in Calls : Tells(d)'
<1>1. /\ ~Acquiring(c) /\ UNCHANGED <<asked, found, said>> /\ Ends(c, code[c])
      /\ LinesOf(said[c]) = {} /\ (code[c] = 0 => found[c] = {})
  BY DEF AllSeen, Looking, Tells, TellsSo
<1>2. TellsOn(c, "exited", found[c], <<>>, code[c])
  BY <1>1, SaysNothing DEF Ends, Moves, TellsOn
<1>3. TellsSo(c, "exited", found[c], LinesOf(said[c]) \cup LinesOf(<<>>), code[c])
  BY <1>1, SaidNone DEF TellsSo, Ended
<1>. QED BY <1>2, <1>3, SaidNone, SaysNothing, Telling DEF TellsOn

(* Every step keeps what the calls tell.                                      *)
LEMMA StepTells ==
  CommandInv /\ ToldTypes /\ (\A c \in Calls : Tells(c)) /\ [CommandNext]_lineVars =>
    ToldTypes' /\ \A c \in Calls : Tells(c)'
<1>. SUFFICES ASSUME CommandInv, ToldTypes, \A c \in Calls : Tells(c), [CommandNext]_lineVars
              PROVE  ToldTypes' /\ \A c \in Calls : Tells(c)'
  OBVIOUS
<1>1. CASE UNCHANGED lineVars
  BY <1>1 DEF lineVars, ToldTypes, Tells, TellsSo, Acquiring, Reported, Ended, Unsaid
<1>2. CASE CommandNext
  <2>. PICK c \in Calls :
         \/ Refuse(c) \/ Accept(c) \/ OpenLog(c) \/ LogFails(c) \/ Register(c) \/ NotBegun(c)
         \/ MayCreate(c) \/ MayNotCreate(c) \/ Create(c) \/ Finish(c)
         \/ \E with \in {Io, Malformed} : WriteFails(c, with)
         \/ \E short \in SUBSET {"unreadable", "skipped", "changed"} : Fill(c, short)
         \/ Report(c) \/ Declined(c) \/ Close(c)
         \/ \E answer \in SUBSET Against : Verified(c, answer) \/ SetVerified(c, answer)
         \/ \E with \in {Usage, Io, NotAff4, Malformed, Unsupported, Unverifiable} : NotReread(c, with)
         \/ \E with \in {Usage, Io, NotAff4, Unverifiable} : SetRefused(c, with)
         \/ SetDescribed(c) \/ AllSeen(c) \/ Killed(c)
    BY <1>2 DEF CommandNext
  <2>1. CASE \/ Accept(c) \/ OpenLog(c) \/ Register(c) \/ MayCreate(c) \/ Create(c) \/ Finish(c)
             \/ Killed(c) \/ \E short \in SUBSET {"unreadable", "skipped", "changed"} : Fill(c, short)
    BY <2>1, EarlyTells
  <2>2. CASE \/ Refuse(c) \/ LogFails(c) \/ NotBegun(c) \/ MayNotCreate(c)
             \/ \E with \in {Io, Malformed} : WriteFails(c, with)
    BY <2>2, GivesUpTells
  <2>3. CASE Report(c) \/ Close(c) \/ AllSeen(c)
    BY <2>3, ReportTells, CloseTells, AllSeenTells
  <2>4. CASE Declined(c) \/ \E with \in {Usage, Io, NotAff4, Malformed, Unsupported, Unverifiable} : NotReread(c, with)
    BY <2>4, DeclinedTells
  <2>5. CASE \E answer \in SUBSET Against : Verified(c, answer)
    BY <2>5, VerifiedTells
  <2>6. CASE \/ \E with \in {Usage, Io, NotAff4, Unverifiable} : SetRefused(c, with)
             \/ SetDescribed(c) \/ \E answer \in SUBSET Against : SetVerified(c, answer)
    BY <2>6, LookTells
  <2>. QED BY <2>1, <2>2, <2>3, <2>4, <2>5, <2>6
<1>. QED BY <1>1, <1>2

-----------------------------------------------------------------------------
(* What an acquisition leaves in the folder *)

\* A call that ends with a usage error, and no stamp, never came to make a file.
EndsUnbegun(c) == at[c] = "exited" /\ code[c] = Usage /\ "completed" \notin LinesOf(said[c])
LeavesNothing(c) ==
  Acquiring(c) /\ (at[c] \in {"typed", "log"} \/ EndsUnbegun(c)) =>
    \A n \in Names : folder[n].owner # c

\* The parts of an acquisition nobody else writes to: whole but for the one in
\* hand, and the next is none of them.
InHand(c, n) == at[c] \in {"fill", "finish"} /\ n = LastPart(c)
WholeParts(c) ==
  Acquiring(c) /\ Alone(c) /\ (at[c] \in PastLog \/ (at[c] = "exited" /\ "completed" \in LinesOf(said[c]))) =>
    /\ \A n \in PartNames(c) : folder[n] = File(c, IF InHand(c, n) THEN "open" ELSE "whole")
    /\ at[c] = "create" => NextPart(c) \notin PartNames(c)

TellInv ==
  /\ CommandInv /\ ToldTypes
  /\ \A c \in Calls : Tells(c) /\ LeavesNothing(c) /\ WholeParts(c)

\* A step of c, as the others see it: they stand as they stood, and of the
\* folder what changed is a new file of c's, or is a part of its own.
Stands(d) ==
  at'[d] = at[d] /\ parts'[d] = parts[d] /\ said'[d] = said[d] /\ code'[d] = code[d]
LeavesOthers(c) ==
  /\ UNCHANGED asked
  /\ \A d \in Calls \ {c} : Stands(d)
  /\ Acquiring(c) => PartNames(c) \subseteq PartNames(c)'
  /\ \A n \in Names : folder'[n].owner \in {folder[n].owner, c}
  /\ \A n \in Names : folder'[n] # folder[n] => ~Exists(n) \/ (Acquiring(c) /\ n \in PartNames(c)')

(* Who is alone after a step was so before.                                   *)
LEMMA WasAlone ==
  ASSUME NEW c \in Calls, LeavesOthers(c), NEW d \in Calls
  PROVE  Acquiring(d) /\ Alone(d)' => Alone(d)
<1>1. \A e \in Calls : Acquiring(e)' = Acquiring(e)
  BY DEF LeavesOthers, Acquiring
<1>2. \A e \in Calls : Acquiring(e) => PartNames(e) \subseteq PartNames(e)'
  <2>1. \A e \in Calls \ {c} : parts'[e] = parts[e]
    BY DEF LeavesOthers, Stands
  <2>2. \A e \in Calls \ {c} : PartNames(e)' = PartNames(e)
    BY <2>1 DEF PartNames
  <2>. QED BY <2>2 DEF LeavesOthers
<1>. QED BY <1>1, <1>2 DEF Alone

(* So what the others have left in the folder stays as they left it.          *)
LEMMA OthersKeepTheirs ==
  ASSUME TellInv, NEW c \in Calls, LeavesOthers(c), NEW d \in Calls \ {c}
  PROVE  LeavesNothing(d)' /\ WholeParts(d)'
<1>1. Stands(d) /\ UNCHANGED asked /\ Acquiring(d)' = Acquiring(d) /\ Acquiring(c)' = Acquiring(c)
  BY DEF LeavesOthers, Acquiring
<1>2. LeavesNothing(d)'
  BY <1>1 DEF TellInv, LeavesOthers, Stands, LeavesNothing, EndsUnbegun
<1>3. PartNames(d)' = PartNames(d) /\ NextPart(d)' = NextPart(d) /\ LastPart(d)' = LastPart(d)
  BY <1>1 DEF Stands, PartNames, NextPart, Output, LastPart
<1>4. WholeParts(d)'
  <2>. SUFFICES ASSUME Acquiring(d), Alone(d)',
                       at[d] \in PastLog \/ (at[d] = "exited" /\ "completed" \in LinesOf(said[d]))
                PROVE  /\ \A n \in PartNames(d) : folder'[n] = File(d, IF InHand(d, n) THEN "open" ELSE "whole")
                       /\ at[d] = "create" => NextPart(d) \notin PartNames(d)
    BY <1>1, <1>3 DEF WholeParts, Stands, InHand
  <2>1. Alone(d)
    BY WasAlone
  <2>2. /\ \A n \in PartNames(d) : folder[n] = File(d, IF InHand(d, n) THEN "open" ELSE "whole")
        /\ at[d] = "create" => NextPart(d) \notin PartNames(d)
    BY <2>1 DEF TellInv, WholeParts
  <2>3. ASSUME NEW n \in PartNames(d) PROVE folder'[n] = folder[n]
    <3>1. n \in Names /\ Exists(n)
      <4>1. Exists(n)
        BY DEF TellInv, CommandInv, PartsAreMade
      <4>2. parts[d] \in Seq(Names)
        BY DEF TellInv, CommandInv, Shape
      <4>. QED BY <4>1, <4>2 DEF PartNames
    <3>2. ~(Acquiring(c) /\ n \in PartNames(c)')
      BY <1>1, <1>3 DEF Alone
    <3>. QED BY <3>1, <3>2 DEF LeavesOthers
  <2>. QED BY <2>2, <2>3
<1>. QED BY <1>2, <1>4

(* The steps that make no part, and those that only read.                     *)
LEMMA QuietLeavesOthers ==
  ASSUME TellInv, NEW c \in Calls,
         \/ QuietSteps(c) \/ OpenLog(c) \/ MayCreate(c)
         \/ (\E with : SetRefused(c, with)) \/ SetDescribed(c) \/ \E answer : SetVerified(c, answer)
  PROVE  LeavesOthers(c) /\ (Acquiring(c) => UNCHANGED parts)
<1>1. UNCHANGED asked /\ (UNCHANGED folder \/ MakesFile(c))
  BY DEF QuietSteps, Refuse, Accept, LogFails, Register, NotBegun, MayNotCreate, WriteFails, Fill, Report,
         Declined, Close, Verified, NotReread, AllSeen, Killed, OpenLog, MayCreate, SetRefused, SetDescribed,
         SetVerified, Looks, Listing, MakesFile
<1>2. \A d \in Calls \ {c} : at'[d] = at[d]
  BY DEF QuietSteps, Refuse, Accept, LogFails, Register, NotBegun, MayNotCreate, WriteFails, Fill, Report,
         Declined, Close, Verified, NotReread, AllSeen, Killed, OpenLog, MayCreate, SetRefused, SetDescribed,
         SetVerified, Ends, Moves, TellInv, CommandInv, Shape
<1>3. \A d \in Calls \ {c} : said'[d] = said[d]
  BY DEF QuietSteps, Refuse, Accept, LogFails, Register, NotBegun, MayNotCreate, WriteFails, Fill, Report,
         Declined, Close, Verified, NotReread, AllSeen, Killed, OpenLog, MayCreate, SetRefused, SetDescribed,
         SetVerified, Says, TellInv, ToldTypes
<1>4. \A d \in Calls \ {c} : code'[d] = code[d]
  BY DEF QuietSteps, Refuse, Accept, LogFails, Register, NotBegun, MayNotCreate, WriteFails, Fill, Report,
         Declined, Close, Verified, NotReread, AllSeen, Killed, OpenLog, MayCreate, SetRefused, SetDescribed,
         SetVerified, Listing, Ends, Raises, AnswerRaises, TellInv, ToldTypes
<1>5. (\A d \in Calls \ {c} : parts'[d] = parts[d]) /\ (Acquiring(c) => UNCHANGED parts)
  BY DEF QuietSteps, Refuse, Accept, LogFails, Register, NotBegun, MayNotCreate, WriteFails, Fill, Report,
         Declined, Close, Verified, NotReread, AllSeen, Killed, OpenLog, MayCreate, SetRefused, SetDescribed,
         SetVerified, Looks, Looking, TellInv, CommandInv, Shape
<1>6. /\ \A n \in Names : folder'[n].owner \in {folder[n].owner, c}
      /\ \A n \in Names : folder'[n] # folder[n] => ~Exists(n)
  BY <1>1 DEF MakesFile, Exists, File, TellInv, CommandInv, Shape
<1>. QED BY <1>1, <1>2, <1>3, <1>4, <1>5, <1>6 DEF LeavesOthers, Stands, PartNames

(* Creating a part, and finishing one, are steps upon a part of one's own.    *)
LEMMA CreateLeavesOthers ==
  ASSUME TellInv, NEW c \in Calls, Create(c)
  PROVE  LeavesOthers(c)
<1>. DEFINE name == NextPart(c)
<1>1. /\ at[c] = "create" /\ Acquiring(c) /\ UNCHANGED <<asked, said, code>>
      /\ name \in Names /\ parts[c] \in Seq(Names)
  BY DEF Create, TellInv, CommandInv, Shape, Places, PastLog, Before
<1>2. /\ \A d \in Calls \ {c} : at'[d] = at[d] /\ parts'[d] = parts[d]
      /\ parts'[c] = Append(parts[c], name)
  BY DEF Create, Moves, TellInv, CommandInv, Shape
<1>3. \A n \in Names : folder'[n] = IF n = name THEN File(c, "open") ELSE folder[n]
  BY DEF Create, TellInv, CommandInv, Shape
<1>. HIDE DEF name
<1>4. PartNames(c)' = PartNames(c) \cup {name}
  BY <1>1, <1>2, Appended DEF PartNames
<1>5. \A n \in Names : folder'[n].owner \in {folder[n].owner, c}
  BY <1>3 DEF File
<1>6. \A n \in Names : folder'[n] # folder[n] => n \in PartNames(c)'
  BY <1>3, <1>4
<1>. QED BY <1>1, <1>2, <1>4, <1>5, <1>6 DEF LeavesOthers, Stands

(* Finishing a part is a step upon one's own.                                 *)
LEMMA FinishLeavesOthers ==
  ASSUME TellInv, NEW c \in Calls, Finish(c)
  PROVE  LeavesOthers(c)
<1>. DEFINE name == LastPart(c)
<1>1. /\ at[c] = "finish" /\ Acquiring(c) /\ UNCHANGED <<asked, parts, said, code>>
      /\ parts[c] # <<>> /\ parts[c] \in Seq(Names)
  BY DEF Finish, TellInv, CommandInv, Places, Shape, PastLog
<1>2. name \in PartNames(c) /\ name \in Names
  BY <1>1 DEF LastPart, PartNames
<1>3. /\ \A n \in Names : n # name => folder'[n] = folder[n]
      /\ folder'[name].owner = folder[name].owner
  BY <1>2 DEF Finish, TellInv, CommandInv, Shape, File, LastPart
<1>4. \A d \in Calls \ {c} : at'[d] = at[d]
  BY DEF Finish, Moves, TellInv, CommandInv, Shape
<1>5. PartNames(c)' = PartNames(c)
  BY <1>1 DEF PartNames
<1>. HIDE DEF name
<1>. QED BY <1>1, <1>2, <1>3, <1>4, <1>5 DEF LeavesOthers, Stands

\* What an acquisition does that makes no part; how it gives up.
GivesUp(c) ==
  LogFails(c) \/ NotBegun(c) \/ MayNotCreate(c) \/ \E with \in {Io, Malformed} : WriteFails(c, with)
GoesOn(c) ==
  \/ Register(c) \/ Report(c) \/ Declined(c)
  \/ \E short \in SUBSET {"unreadable", "skipped", "changed"} : Fill(c, short)
  \/ \E answer \in SUBSET Against : Verified(c, answer)
  \/ \E with \in {Usage, Io, NotAff4, Malformed, Unsupported, Unverifiable} : NotReread(c, with)

(* It ends with a usage error and no stamp only where it began.               *)
LEMMA OwnNothing ==
  ASSUME TellInv, NEW c \in Calls, UNCHANGED asked,
         \/ Refuse(c) \/ Accept(c) \/ GivesUp(c) \/ GoesOn(c) \/ Close(c) \/ AllSeen(c) \/ Killed(c)
         \/ OpenLog(c) \/ MayCreate(c) \/ Create(c) \/ Finish(c)
  PROVE  LeavesNothing(c)'
<1>. SUFFICES ASSUME Acquiring(c), at'[c] \in {"typed", "log"} \/ EndsUnbegun(c)'
              PROVE  \A n \in Names : folder'[n].owner # c
  BY DEF LeavesNothing, Acquiring
<1>1. CASE Refuse(c) \/ Accept(c)
  BY <1>1 DEF Refuse, Accept, TellInv, LeavesNothing
<1>2. CASE GivesUp(c)
  <2>1. at'[c] = "exited" /\ code'[c] \in {Io, Malformed}
    BY <1>2 DEF GivesUp, LogFails, NotBegun, MayNotCreate, WriteFails, Ends, Moves, TellInv, CommandInv, Shape, ToldTypes
  <2>. QED BY <2>1 DEF EndsUnbegun, Usage, Io, Malformed
<1>3. CASE Close(c)
  <2>1. at'[c] = "exited"
    BY <1>3 DEF Close, Ends, Moves, TellInv, CommandInv, Shape
  <2>2. "completed" \in LinesOf(said'[c])
    BY <1>3, CloseTells DEF TellInv
  <2>. QED BY <2>1, <2>2 DEF EndsUnbegun
<1>4. CASE GoesOn(c) \/ Killed(c) \/ OpenLog(c) \/ MayCreate(c) \/ Create(c) \/ Finish(c)
  <2>1. \E to \in PastLog \cup {"killed"} : Moves(c, to)
    BY <1>4 DEF GoesOn, Register, Report, Declined, Fill, Verified, NotReread, Killed, OpenLog, MayCreate,
                Create, Finish, PastLog
  <2>2. at'[c] \in PastLog \cup {"killed"}
    BY <2>1 DEF Moves, TellInv, CommandInv, Shape
  <2>. QED BY <2>2 DEF PastLog, EndsUnbegun
<1>5. CASE AllSeen(c)
  BY <1>5 DEF AllSeen, Looking
<1>. QED BY <1>1, <1>2, <1>3, <1>4, <1>5

(* A part just created is the one in hand; those before it are whole.         *)
LEMMA CreateKeepsWhole ==
  ASSUME TellInv, NEW c \in Calls, Create(c)
  PROVE  WholeParts(c)'
<1>. DEFINE name == NextPart(c)
<1>1. /\ at[c] = "create" /\ at'[c] = "fill" /\ Acquiring(c)
      /\ name \in Names /\ parts[c] \in Seq(Names) /\ parts'[c] = Append(parts[c], name)
  BY DEF Create, Moves, TellInv, CommandInv, Shape, Places, PastLog, Before
<1>2. \A n \in Names : folder'[n] = IF n = name THEN File(c, "open") ELSE folder[n]
  BY DEF Create, TellInv, CommandInv, Shape
<1>. HIDE DEF name
<1>3. PartNames(c)' = PartNames(c) \cup {name} /\ LastPart(c)' = name
  BY <1>1, Appended DEF PartNames, LastPart
<1>4. PartNames(c) \subseteq Names
  BY <1>1 DEF PartNames
<1>5. SUFFICES ASSUME Alone(c)', NEW n \in PartNames(c)'
               PROVE  folder'[n] = File(c, IF n = name THEN "open" ELSE "whole")
  BY <1>1, <1>3 DEF WholeParts, InHand
<1>6. Alone(c)
  BY <1>1, <1>5, CreateLeavesOthers, WasAlone
<1>7. (\A m \in PartNames(c) : folder[m] = File(c, "whole")) /\ name \notin PartNames(c)
  BY <1>1, <1>6 DEF TellInv, WholeParts, InHand, PastLog, name
<1>. QED BY <1>1, <1>2, <1>3, <1>4, <1>7

(* A part finished is whole, as nobody else has written to it.                *)
LEMMA FinishKeepsWhole ==
  ASSUME TellInv, NEW c \in Calls, Finish(c)
  PROVE  WholeParts(c)'
<1>. DEFINE name == LastPart(c)
<1>1. /\ at[c] = "finish" /\ at'[c] \in {"report", "guard"} /\ Acquiring(c) /\ UNCHANGED parts
      /\ parts[c] # <<>> /\ parts[c] \in Seq(Names)
  BY DEF Finish, Moves, TellInv, CommandInv, Places, Shape, PastLog
<1>2. name \in PartNames(c) /\ name \in Names /\ PartNames(c) \subseteq Names /\ PartNames(c)' = PartNames(c)
  BY <1>1 DEF LastPart, PartNames
<1>3. SUFFICES ASSUME Alone(c)', NEW n \in PartNames(c)
               PROVE  folder'[n] = File(c, "whole")
  BY <1>1, <1>2 DEF WholeParts, InHand
<1>4. Alone(c)
  BY <1>1, <1>3, FinishLeavesOthers, WasAlone
<1>5. \A m \in PartNames(c) : folder[m] = File(c, IF m = name THEN "open" ELSE "whole")
  BY <1>1, <1>4 DEF TellInv, WholeParts, InHand, PastLog
<1>6. /\ \A m \in Names : m # name => folder'[m] = folder[m]
      /\ folder[name] = File(c, "open") => folder'[name] = File(folder[name].owner, "whole")
  BY <1>2 DEF Finish, TellInv, CommandInv, Shape, File, LastPart
<1>. HIDE DEF name
<1>7. folder'[name] = File(c, "whole")
  BY <1>2, <1>5, <1>6 DEF File
<1>. QED BY <1>2, <1>3, <1>5, <1>6, <1>7

(* The other steps leave its parts as they are; one that closes the log has   *)
(* none in hand.                                                              *)
LEMMA QuietKeepsWhole ==
  ASSUME TellInv, NEW c \in Calls, LeavesOthers(c), Tells(c)', UNCHANGED parts,
         \/ Refuse(c) \/ Accept(c) \/ GivesUp(c) \/ GoesOn(c) \/ Close(c) \/ AllSeen(c) \/ Killed(c)
         \/ OpenLog(c) \/ MayCreate(c)
  PROVE  WholeParts(c)'
<1>1. /\ Acquiring(c)' = Acquiring(c) /\ PartNames(c)' = PartNames(c)
      /\ NextPart(c)' = NextPart(c) /\ LastPart(c)' = LastPart(c)
  BY DEF LeavesOthers, Acquiring, PartNames, NextPart, Output, LastPart
<1>2. SUFFICES ASSUME Acquiring(c), Alone(c)',
                      at'[c] \in PastLog \/ (at'[c] = "exited" /\ "completed" \in LinesOf(said'[c]))
               PROVE  /\ \A n \in PartNames(c) : folder'[n] = File(c, IF InHand(c, n)' THEN "open" ELSE "whole")
                      /\ at'[c] = "create" => NextPart(c) \notin PartNames(c)
  BY <1>1 DEF WholeParts
<1>3. Alone(c)
  BY <1>2, WasAlone
<1>4. CASE Refuse(c) \/ GivesUp(c)
  <2>1. at[c] \in Early /\ UNCHANGED found
    BY <1>4 DEF Refuse, GivesUp, LogFails, NotBegun, MayNotCreate, WriteFails, Early
  <2>2. \E k \in {Usage, Io, Malformed, Unsupported} : Ends(c, k)
    BY <1>4, RefusedCodes DEF Refuse, GivesUp, LogFails, NotBegun, MayNotCreate, WriteFails
  <2>3. at'[c] = "exited" /\ code'[c] \in 1..(Finding - 1)
    BY <2>2 DEF Ends, Moves, TellInv, CommandInv, Shape, ToldTypes, Usage, Io, Malformed, Unsupported, Finding
  <2>4. found'[c] \subseteq Kept
    BY <1>2, <2>1 DEF TellInv, Tells, TellsSo
  <2>5. "completed" \notin LinesOf(said'[c])
    BY <2>3, <2>4 DEF Tells, TellsSo, Ended, Kept
  <2>. QED BY <1>2, <2>3, <2>5 DEF PastLog
<1>5. CASE Accept(c) \/ Killed(c)
  <2>1. at'[c] \in {"log", "killed"}
    BY <1>5 DEF Accept, Killed, Moves, TellInv, CommandInv, Shape
  <2>. QED BY <1>2, <2>1 DEF PastLog
<1>6. CASE OpenLog(c)
  <2>1. at'[c] = "opened" /\ parts[c] = <<>>
    BY <1>2, <1>6 DEF OpenLog, Moves, TellInv, CommandInv, Shape, Places
  <2>. QED BY <2>1 DEF PartNames
<1>7. CASE GoesOn(c) \/ Close(c) \/ MayCreate(c)
  <2>1. at[c] \in PastLog /\ UNCHANGED folder
    BY <1>7 DEF GoesOn, Register, Report, Declined, Fill, Verified, NotReread, Close, MayCreate, PastLog
  <2>2. \A n \in PartNames(c) : folder'[n] = File(c, IF InHand(c, n) THEN "open" ELSE "whole")
    BY <1>2, <1>3, <2>1 DEF TellInv, WholeParts
  <2>3. at'[c] \in {"fill", "finish"} <=> at[c] \in {"fill", "finish"}
    BY <1>7 DEF GoesOn, Register, Report, Declined, Fill, Verified, NotReread, Close, MayCreate, Ends, Moves,
                TellInv, CommandInv, Shape
  <2>4. \A n : InHand(c, n)' <=> InHand(c, n)
    BY <1>1, <2>3 DEF InHand
  <2>5. at'[c] = "create" => ~Exists(NextPart(c))
    BY <1>7 DEF GoesOn, Register, Report, Declined, Fill, Verified, NotReread, Close, MayCreate, Free, Ends,
                Moves, TellInv, CommandInv, Shape
  <2>6. \A n \in PartNames(c) : Exists(n)
    BY <1>2 DEF TellInv, CommandInv, PartsAreMade
  <2>. QED BY <2>2, <2>4, <2>5, <2>6
<1>8. CASE AllSeen(c)
  BY <1>2, <1>8 DEF AllSeen, Looking
<1>. QED BY <1>4, <1>5, <1>6, <1>7, <1>8

(* Every step keeps what calls tell and leave.                                *)
LEMMA StepKeepsTelling == TellInv /\ [CommandNext]_lineVars => TellInv'
<1>. SUFFICES ASSUME TellInv, [CommandNext]_lineVars PROVE TellInv'
  OBVIOUS
<1>1. CommandInv'
  BY CommandStep DEF TellInv
<1>2. ToldTypes' /\ \A c \in Calls : Tells(c)'
  BY StepTells DEF TellInv
<1>3. CASE UNCHANGED lineVars
  <2>1. UNCHANGED <<folder, asked, at, parts, said, code>>
    BY <1>3 DEF lineVars
  <2>2. \A c \in Calls : LeavesNothing(c)'
    BY <2>1 DEF TellInv, LeavesNothing, EndsUnbegun, Acquiring
  <2>3. \A c \in Calls : WholeParts(c)'
    <3>. TAKE c \in Calls
    <3>1. WholeParts(c)' = WholeParts(c)
      BY <2>1 DEF WholeParts, Alone, Acquiring, PartNames, NextPart, Output, InHand, LastPart
    <3>. QED BY <3>1 DEF TellInv
  <2>. QED BY <1>1, <1>2, <2>2, <2>3 DEF TellInv
<1>4. CASE CommandNext
  <2>. PICK c \in Calls :
         \/ Refuse(c) \/ Accept(c) \/ GivesUp(c) \/ GoesOn(c) \/ Close(c) \/ AllSeen(c) \/ Killed(c)
         \/ OpenLog(c) \/ MayCreate(c) \/ Create(c) \/ Finish(c)
         \/ (\E with : SetRefused(c, with)) \/ SetDescribed(c) \/ \E answer : SetVerified(c, answer)
    BY <1>4 DEF CommandNext, GivesUp, GoesOn
  <2>1. CASE \/ Refuse(c) \/ Accept(c) \/ GivesUp(c) \/ GoesOn(c) \/ Close(c) \/ AllSeen(c) \/ Killed(c)
             \/ OpenLog(c) \/ MayCreate(c)
    <3>1. QuietSteps(c) \/ OpenLog(c) \/ MayCreate(c)
      BY <2>1 DEF QuietSteps, GivesUp, GoesOn
    <3>2. LeavesOthers(c) /\ (Acquiring(c) => UNCHANGED parts)
      BY <3>1, QuietLeavesOthers
    <3>3. LeavesNothing(c)'
      BY <2>1, <3>2, OwnNothing DEF LeavesOthers
    <3>4. WholeParts(c)'
      <4>1. CASE Acquiring(c)
        BY <4>1, <1>2, <2>1, <3>2, QuietKeepsWhole
      <4>2. CASE ~Acquiring(c)
        BY <4>2, <3>2 DEF LeavesOthers, WholeParts, Acquiring
      <4>. QED BY <4>1, <4>2
    <3>. QED BY <1>1, <1>2, <3>2, <3>3, <3>4, OthersKeepTheirs DEF TellInv
  <2>2. CASE Create(c)
    <3>1. LeavesOthers(c) /\ LeavesNothing(c)' /\ WholeParts(c)'
      BY <2>2, CreateLeavesOthers, OwnNothing, CreateKeepsWhole DEF LeavesOthers
    <3>. QED BY <1>1, <1>2, <3>1, OthersKeepTheirs DEF TellInv
  <2>3. CASE Finish(c)
    <3>1. LeavesOthers(c) /\ LeavesNothing(c)' /\ WholeParts(c)'
      BY <2>3, FinishLeavesOthers, OwnNothing, FinishKeepsWhole DEF LeavesOthers
    <3>. QED BY <1>1, <1>2, <3>1, OthersKeepTheirs DEF TellInv
  <2>4. CASE (\E with : SetRefused(c, with)) \/ SetDescribed(c) \/ \E answer : SetVerified(c, answer)
    <3>1. LeavesOthers(c)
      BY <2>4, QuietLeavesOthers
    <3>2. ~Acquiring(c) /\ Acquiring(c)' = Acquiring(c)
      BY <2>4, <3>1 DEF SetRefused, SetDescribed, SetVerified, Looking, LeavesOthers, Acquiring
    <3>3. LeavesNothing(c)' /\ WholeParts(c)'
      BY <3>2 DEF LeavesNothing, WholeParts
    <3>. QED BY <1>1, <1>2, <3>1, <3>3, OthersKeepTheirs DEF TellInv
  <2>. QED BY <2>1, <2>2, <2>3, <2>4
<1>. QED BY <1>3, <1>4

(* Before a call has begun it has nothing to tell, and no file is its own.    *)
LEMMA TellingStarts == CommandInit => TellInv
<1>. SUFFICES ASSUME CommandInit PROVE TellInv
  OBVIOUS
<1>1. CommandInv
  BY StartsSound
<1>2. \A c \in Calls : /\ at[c] = "typed" /\ parts[c] = <<>> /\ found[c] = {} /\ said[c] = <<>> /\ code[c] = 0
  BY DEF CommandInit
<1>3. ToldTypes
  BY SaidNone DEF CommandInit, ToldTypes
<1>4. \A c \in Calls : Tells(c)
  BY <1>2, SaidNone DEF Tells, TellsSo
<1>5. \A c \in Calls, n \in Names : folder[n].owner # c
  BY CommandAssumption DEF CommandInit, File, NoFile
<1>6. \A c \in Calls : WholeParts(c)
  BY <1>2 DEF WholeParts, PartNames
<1>. QED BY <1>1, <1>3, <1>4, <1>5, <1>6 DEF TellInv, LeavesNothing

(* Whatever the calls, and however they overlap or are killed: success means  *)
(* that nothing was found amiss, a finding's code that the acquisition ran to *)
(* its end, a usage error that it left nothing or could not read its parts    *)
(* again, as its log says; and a log closed with "Completed" that its parts   *)
(* are whole, if no other call wrote to them, and that every finding is on a  *)
(* line of it (main.rs, run_acquire_device).                                  *)
THEOREM LogAndCodeAreTrue == CommandSpec => []LogAndCodeTellTheCall
<1>1. TellInv => LogAndCodeTellTheCall
  <2>. SUFFICES ASSUME TellInv, NEW c \in Calls, at[c] = "exited"
                PROVE  /\ code[c] = 0 => found[c] = {}
                       /\ code[c] = Usage /\ Acquiring(c) =>
                            Stamped(c, "not reread") \/ \A n \in Names : folder[n].owner # c
                       /\ Acquiring(c) /\ (code[c] = 0 \/ code[c] >= Finding) => Stamped(c, "completed")
                       /\ Stamped(c, "completed") =>
                            /\ Alone(c) => Whole(PartNames(c))
                            /\ \A f \in found[c] \ {"unopened"} : Stamped(c, f)
                            /\ code[c] \in 1..(Finding - 1) => "unopened" \in found[c]
    BY DEF LogAndCodeTellTheCall
  <2>1. \A line : Stamped(c, line) <=> line \in LinesOf(said[c])
    BY DEF Stamped, LinesOf
  <2>2. Ended(c, found[c], LinesOf(said[c]), code[c]) /\ (~Acquiring(c) => LinesOf(said[c]) = {})
    BY DEF TellInv, Tells, TellsSo
  <2>3. code[c] = Usage /\ Acquiring(c) =>
          Stamped(c, "not reread") \/ \A n \in Names : folder[n].owner # c
    BY <2>1, <2>2 DEF TellInv, LeavesNothing, EndsUnbegun, Ended
  <2>4. Stamped(c, "completed") /\ Alone(c) => Whole(PartNames(c))
    <3>1. SUFFICES ASSUME "completed" \in LinesOf(said[c]), Alone(c)
                   PROVE  Whole(PartNames(c))
      BY <2>1
    <3>2. Acquiring(c)
      BY <2>2, <3>1
    <3>3. \A n \in PartNames(c) : folder[n] = File(c, "whole")
      BY <3>1, <3>2 DEF TellInv, WholeParts, InHand
    <3>. QED BY <3>3 DEF Whole, File
  <2>. QED BY <2>1, <2>2, <2>3, <2>4 DEF Ended
<1>. QED BY <1>1, TellingStarts, StepKeepsTelling, PTL DEF CommandSpec

-----------------------------------------------------------------------------
(* What is encoded comes back *)

Octets == 0..255

(* What is left of the groups' characters without the padding stands for      *)
(* what was there.                                                            *)
LEMMA ProducedAgain ==
  ASSUME NEW n \in Nat, NEW G \in Nat, G # 0
  PROVE  /\ n = 3 * G => Produced(4 * G) = n
         /\ n = 3 * G - 1 => Produced(4 * G - 1) = n
         /\ n = 3 * G - 2 => Produced(4 * G - 2) = n
<1>1. (4 * G) \div 4 = G /\ (4 * G) % 4 = 0
  BY SMTT(30)
<1>2. (4 * G - 1) \div 4 = G - 1 /\ (4 * G - 1) % 4 = 3
  BY SMTT(30)
<1>3. (4 * G - 2) \div 4 = G - 1 /\ (4 * G - 2) % 4 = 2
  BY SMTT(30)
<1>4. Produced(4 * G) = 3 * G
  BY <1>1 DEF Produced
<1>5. Produced(4 * G - 1) = 3 * (G - 1) + (3 - 1)
  BY <1>2 DEF Produced
<1>6. Produced(4 * G - 2) = 3 * (G - 1) + (2 - 1)
  BY <1>3 DEF Produced
<1>. QED BY <1>4, <1>5, <1>6

(* The groups of a text, and the padding that is left in the last.            *)
LEMMA GroupsOfBytes ==
  ASSUME NEW bytes \in Seq(Octets), bytes # <<>>
  PROVE  /\ Len(bytes) \in Nat /\ Groups(bytes) \in Nat /\ Len(bytes) # 0 /\ Groups(bytes) # 0
         /\ \/ Len(bytes) = 3 * Groups(bytes)
            \/ Len(bytes) = 3 * Groups(bytes) - 1
            \/ Len(bytes) = 3 * Groups(bytes) - 2
<1>1. Len(bytes) \in Nat /\ Len(bytes) # 0
  BY LenProperties, EmptySeq
<1>. QED BY <1>1, SMTT(30) DEF Groups

(* An octet is below 256.                                                     *)
LEMMA OctetBound == \A x \in Octets : x \in Nat /\ x < 256
BY DEF Octets

(* Three bytes, put together as a group's are.                                *)
Together(a, b, c) == a * 65536 + b * 256 + c
(* Three bytes are four characters of six bits, and the other way.            *)
LEMMA TogetherAgain ==
  ASSUME NEW a \in Nat, a < 256, NEW b \in Nat, b < 256, NEW c \in Nat, c < 256
  PROVE  /\ \A place \in {0, 1, 2, 3} : Sextet(Together(a, b, c), place) \in Nat
         /\ Together(a, b, c) = Sextet(Together(a, b, c), 0) * 262144
              + Sextet(Together(a, b, c), 1) * 4096 + Sextet(Together(a, b, c), 2) * 64
              + Sextet(Together(a, b, c), 3)
         /\ OctetAt(Together(a, b, c), 0) = a /\ OctetAt(Together(a, b, c), 1) = b
         /\ OctetAt(Together(a, b, c), 2) = c
         /\ c = 0 => Sextet(Together(a, b, c), 3) = 0
         /\ b = 0 /\ c = 0 => Sextet(Together(a, b, c), 2) = 0
<1>. DEFINE p == Together(a, b, c)
<1>1. p = a * 65536 + b * 256 + c
  BY DEF Together
<1>2. p \in Nat
  BY <1>1
<1>. HIDE DEF p
<1>3. /\ Sextet(p, 0) = (p \div 262144) % 64 /\ Sextet(p, 1) = (p \div 4096) % 64
      /\ Sextet(p, 2) = (p \div 64) % 64 /\ Sextet(p, 3) = p % 64
  BY DEF Sextet
<1>4. OctetAt(p, 0) = (p \div 65536) % 256 /\ OctetAt(p, 1) = (p \div 256) % 256 /\ OctetAt(p, 2) = p % 256
  BY DEF OctetAt
<1>5. /\ (p \div 262144) % 64 \in Nat /\ (p \div 4096) % 64 \in Nat
      /\ (p \div 64) % 64 \in Nat /\ p % 64 \in Nat
  BY <1>2
<1>6. p < 16777216
  BY <1>1, <1>2, SMTT(30)
<1>7. p = ((p \div 262144) % 64) * 262144 + ((p \div 4096) % 64) * 4096 + ((p \div 64) % 64) * 64
          + (p % 64)
  BY <1>1, <1>2, <1>6, SMTT(30)
<1>8. (p \div 65536) % 256 = a /\ (p \div 256) % 256 = b /\ p % 256 = c
  BY <1>1, <1>2, SMTT(30)
<1>9. c = 0 => p % 64 = 0
  BY <1>1, <1>2, SMTT(30)
<1>10. b = 0 /\ c = 0 => (p \div 64) % 64 = 0
  BY <1>1, <1>2, SMTT(30)
<1>. QED BY <1>3, <1>4, <1>5, <1>7, <1>8, <1>9, <1>10 DEF p

(* The bytes of a group: its own, and zeros for those it lacks.               *)
LEMMA GroupOctets ==
  ASSUME NEW bytes \in Seq(Octets), NEW i \in Nat, i # 0
  PROVE  /\ Octet(bytes, i) \in Nat /\ Octet(bytes, i) < 256
         /\ i > Len(bytes) => Octet(bytes, i) = 0
         /\ i <= Len(bytes) => Octet(bytes, i) = bytes[i]
<1>1. Len(bytes) \in Nat
  BY LenProperties
<1>2. CASE i <= Len(bytes)
  <2>1. bytes[i] \in Octets
    BY <1>1, <1>2, ElementOfSeq
  <2>2. bytes[i] \in Nat /\ bytes[i] < 256
    BY <2>1, OctetBound
  <2>3. Octet(bytes, i) = bytes[i]
    BY <1>2 DEF Octet
  <2>. QED BY <1>1, <1>2, <2>2, <2>3
<1>3. CASE i > Len(bytes)
  BY <1>1, <1>3 DEF Octet
<1>. QED BY <1>1, <1>2, <1>3

(* Of a group's four characters, those past its bytes are padding and stand   *)
(* for nothing.                                                               *)
LEMMA GroupCharacters ==
  ASSUME NEW bytes \in Seq(Octets), bytes # <<>>, NEW g \in Nat, g < Groups(bytes),
         NEW place \in {0, 1, 2, 3}
  PROVE  /\ Sextet(Packed(bytes, g), place) \in Nat
         /\ 4 * g + place + 1 <= Groups(bytes) + Len(bytes) =>
              Character(bytes, g, place) = Sextet(Packed(bytes, g), place)
         /\ 4 * g + place + 1 > Groups(bytes) + Len(bytes) =>
              Character(bytes, g, place) = PadChar /\ Sextet(Packed(bytes, g), place) = 0
<1>. DEFINE n == Len(bytes)  G == Groups(bytes)  p == Packed(bytes, g)
            a == Octet(bytes, 3 * g + 1)  b == Octet(bytes, 3 * g + 2)  c == Octet(bytes, 3 * g + 3)
<1>1. /\ n \in Nat /\ G \in Nat /\ n # 0 /\ G # 0
      /\ n = 3 * G \/ n = 3 * G - 1 \/ n = 3 * G - 2
  BY GroupsOfBytes
<1>2. /\ 3 * g + 1 \in Nat /\ 3 * g + 1 # 0 /\ 3 * g + 2 \in Nat /\ 3 * g + 2 # 0
      /\ 3 * g + 3 \in Nat /\ 3 * g + 3 # 0
  OBVIOUS
<1>3. /\ a \in Nat /\ a < 256 /\ b \in Nat /\ b < 256 /\ c \in Nat /\ c < 256
      /\ (3 * g + 2 > n => b = 0) /\ (3 * g + 3 > n => c = 0)
  BY <1>2, GroupOctets
<1>4. p = Together(a, b, c)
  BY DEF Packed, Together
<1>5. Character(bytes, g, place) =
        IF place >= 2 /\ 3 * g + place > n THEN PadChar ELSE Sextet(p, place)
  BY DEF Character
<1>. HIDE DEF n, G, p, a, b, c
<1>7. /\ \A q \in {0, 1, 2, 3} : Sextet(p, q) \in Nat
      /\ c = 0 => Sextet(p, 3) = 0
      /\ b = 0 /\ c = 0 => Sextet(p, 2) = 0
  BY <1>3, <1>4, TogetherAgain
<1>8. g \in Nat /\ g < G
  BY DEF G
<1>9. 4 * g + place + 1 > G + n <=> place >= 2 /\ 3 * g + place > n
  BY <1>1, <1>8
<1>10. 4 * g + place + 1 > G + n => Sextet(p, place) = 0
  <2>1. SUFFICES ASSUME place >= 2 /\ 3 * g + place > n PROVE Sextet(p, place) = 0
    BY <1>9
  <2>2. CASE place = 3
    BY <1>1, <1>3, <1>7, <1>8, <2>1, <2>2
  <2>3. CASE place = 2
    BY <1>1, <1>3, <1>7, <1>8, <2>1, <2>3
  <2>. QED BY <2>1, <2>2, <2>3
<1>11. 4 * g + place + 1 > G + n => Character(bytes, g, place) = PadChar
  BY <1>5, <1>9
<1>12. 4 * g + place + 1 <= G + n => Character(bytes, g, place) = Sextet(p, place)
  BY <1>1, <1>5, <1>8, <1>9
<1>. QED BY <1>7, <1>10, <1>11, <1>12 DEF n, G, p

(* The text: four characters to a group, the padding at its end.              *)
LEMMA TextCharacters ==
  ASSUME NEW bytes \in Seq(Octets), bytes # <<>>
  PROVE  /\ DOMAIN Base64Encode(bytes) = 1..(4 * Groups(bytes))
         /\ Len(Base64Encode(bytes)) = 4 * Groups(bytes)
         /\ \A g \in Nat, place \in {0, 1, 2, 3} : g < Groups(bytes) =>
              Base64Encode(bytes)[4 * g + place + 1] = Character(bytes, g, place)
<1>. DEFINE G == Groups(bytes)  text == Base64Encode(bytes)
<1>1. G \in Nat /\ G # 0
  BY GroupsOfBytes
<1>2. text = [c \in 1..(4 * G) |-> Character(bytes, (c - 1) \div 4, (c - 1) % 4)]
  BY DEF Base64Encode
<1>. HIDE DEF G, text
<1>3. DOMAIN text = 1..(4 * G)
  BY <1>2
<1>4. Len(text) = 4 * G
  BY <1>1, <1>2
<1>5. ASSUME NEW g \in Nat, NEW place \in {0, 1, 2, 3}, g < G
      PROVE  text[4 * g + place + 1] = Character(bytes, g, place)
  <2>. DEFINE c == 4 * g + place + 1
  <2>1. c \in 1..(4 * G)
    BY <1>1, <1>5
  <2>2. text[c] = Character(bytes, (c - 1) \div 4, (c - 1) % 4)
    BY <1>2, <2>1
  <2>3. (c - 1) \div 4 = g /\ (c - 1) % 4 = place
    BY SMTT(30)
  <2>. QED BY <2>2, <2>3
<1>. QED BY <1>3, <1>4, <1>5 DEF G, text

(* Every place of a text is one of a group's.                                 *)
LEMMA PlacesOfText ==
  ASSUME NEW G \in Nat, NEW i \in Nat, i # 0, i <= 4 * G
  PROVE  \E g \in Nat, place \in {0, 1, 2, 3} : g < G /\ i = 4 * g + place + 1
<1>. DEFINE g == (i - 1) \div 4  place == (i - 1) % 4
<1>1. g \in Nat /\ place \in {0, 1, 2, 3}
  BY SMTT(30)
<1>2. g < G /\ i = 4 * g + place + 1
  BY SMTT(30)
<1>. QED BY <1>1, <1>2

(* As many characters mean something as there are bytes and groups; the rest  *)
(* are padding, two at most.                                                  *)
LEMMA KeptCharacters ==
  ASSUME NEW bytes \in Seq(Octets), bytes # <<>>, NEW i \in Nat, i # 0, i <= 4 * Groups(bytes)
  PROVE  /\ i <= Groups(bytes) + Len(bytes) => Base64Encode(bytes)[i] \in Nat
         /\ i > Groups(bytes) + Len(bytes) => Base64Encode(bytes)[i] = PadChar
<1>1. Groups(bytes) \in Nat
  BY GroupsOfBytes
<1>2. PICK g \in Nat, place \in {0, 1, 2, 3} : g < Groups(bytes) /\ i = 4 * g + place + 1
  BY <1>1, PlacesOfText
<1>3. Base64Encode(bytes)[i] = Character(bytes, g, place)
  BY <1>2, TextCharacters
<1>4. /\ Sextet(Packed(bytes, g), place) \in Nat
      /\ 4 * g + place + 1 <= Groups(bytes) + Len(bytes) =>
           Character(bytes, g, place) = Sextet(Packed(bytes, g), place)
      /\ 4 * g + place + 1 > Groups(bytes) + Len(bytes) => Character(bytes, g, place) = PadChar
  BY <1>2, GroupCharacters
<1>. QED BY <1>2, <1>3, <1>4

(* The padding found is the padding put there.                                *)
LEMMA PaddingAgain ==
  ASSUME NEW bytes \in Seq(Octets), bytes # <<>>
  PROVE  Padding(Base64Encode(bytes)) = 3 * Groups(bytes) - Len(bytes)
<1>. DEFINE G == Groups(bytes)  n == Len(bytes)  k == 3 * G - n  text == Base64Encode(bytes)
            PadsBehind(m) == /\ \A i \in (Len(text) - m + 1)..Len(text) : text[i] = PadChar
                             /\ m < Len(text) => text[Len(text) - m] # PadChar
<1>1. G \in Nat /\ G # 0 /\ n \in Nat /\ n # 0 /\ k \in {0, 1, 2}
  BY GroupsOfBytes
<1>2. Len(text) = 4 * G
  BY TextCharacters
<1>3. \A i \in Nat : i # 0 /\ i <= 4 * G =>
        (i <= G + n => text[i] \in Nat) /\ (i > G + n => text[i] = PadChar)
  BY KeptCharacters
<1>4. G + n = 4 * G - k
  BY <1>1
<1>5. Padding(text) = CHOOSE m \in 0..Len(text) : PadsBehind(m)
  BY DEF Padding
<1>. HIDE DEF G, n, k, text
<1>6. PadChar \notin Nat
  BY NamingAssumption
<1>7. k \in 0..Len(text) /\ PadsBehind(k)
  <2>1. ASSUME NEW i \in (Len(text) - k + 1)..Len(text) PROVE text[i] = PadChar
    BY <1>1, <1>2, <1>3, <1>4, <2>1
  <2>2. 4 * G - k \in Nat /\ 4 * G - k # 0 /\ 4 * G - k <= 4 * G
    BY <1>1
  <2>3. text[Len(text) - k] \in Nat
    BY <1>1, <1>2, <1>3, <1>4, <2>2
  <2>. QED BY <1>1, <1>2, <1>6, <2>1, <2>3
<1>8. ASSUME NEW m \in 0..Len(text), PadsBehind(m) PROVE m = k
  <2>1. m \in Nat /\ m <= 4 * G
    BY <1>1, <1>2
  <2>2. ~(m < k)
    <3>1. SUFFICES ASSUME m < k PROVE FALSE
      OBVIOUS
    <3>2. 4 * G - m \in Nat /\ 4 * G - m # 0 /\ 4 * G - m <= 4 * G /\ 4 * G - m > G + n
      BY <1>1, <1>4, <2>1, <3>1
    <3>3. text[4 * G - m] = PadChar
      BY <1>3, <3>2
    <3>. QED BY <1>1, <1>2, <1>8, <3>1, <3>3
  <2>3. ~(m > k)
    <3>1. SUFFICES ASSUME m > k PROVE FALSE
      OBVIOUS
    <3>2. 4 * G - k \in Nat /\ 4 * G - k # 0 /\ 4 * G - k <= 4 * G /\ 4 * G - k >= 4 * G - m + 1
      BY <1>1, <2>1, <3>1
    <3>3. text[4 * G - k] \in Nat
      BY <1>3, <1>4, <3>2
    <3>. QED BY <1>2, <1>6, <1>8, <3>2, <3>3
  <2>. QED BY <1>1, <2>1, <2>2, <2>3
<1>9. Padding(text) = k
  <2>. HIDE DEF PadsBehind
  <2>. QED BY <1>5, <1>7, <1>8
<1>. QED BY <1>9 DEF k, G, n, text

(* The characters before the padding.                                         *)
Body(bytes) == SubSeq(Base64Encode(bytes), 1, Groups(bytes) + Len(bytes))

(* The body: the characters before the padding, each a value.                 *)
LEMMA BodyCharacters ==
  ASSUME NEW bytes \in Seq(Octets), bytes # <<>>
  PROVE  /\ Len(Body(bytes)) = Groups(bytes) + Len(bytes)
         /\ DOMAIN Body(bytes) = 1..(Groups(bytes) + Len(bytes))
         /\ \A i \in 1..(Groups(bytes) + Len(bytes)) :
              Body(bytes)[i] = Base64Encode(bytes)[i] /\ Body(bytes)[i] \in Nat
<1>. DEFINE m == Groups(bytes) + Len(bytes)  text == Base64Encode(bytes)
<1>1. /\ Groups(bytes) \in Nat /\ Len(bytes) \in Nat
      /\ m \in Nat /\ m # 0 /\ m <= 4 * Groups(bytes)
  BY GroupsOfBytes
<1>2. ASSUME NEW i \in 1..m PROVE text[i] \in Nat
  <2>1. i \in Nat /\ i # 0 /\ i <= 4 * Groups(bytes) /\ i <= m
    BY <1>1
  <2>. QED BY <2>1, KeptCharacters
<1>. HIDE DEF m, text
<1>3. /\ SubSeq(text, 1, m) \in Seq(Nat)
      /\ Len(SubSeq(text, 1, m)) = IF 1 <= m THEN m - 1 + 1 ELSE 0
      /\ \A i \in 1..(m - 1 + 1) : SubSeq(text, 1, m)[i] = text[1 + i - 1]
  BY <1>1, <1>2
<1>4. Len(SubSeq(text, 1, m)) = m /\ \A i \in 1..m : SubSeq(text, 1, m)[i] = text[i]
  BY <1>1, <1>3
<1>5. DOMAIN SubSeq(text, 1, m) = 1..m
  BY <1>3, <1>4, LenProperties
<1>. QED BY <1>2, <1>4, <1>5 DEF Body, m, text

(* Each of the body's groups is packed as it was, whatever it lacks.          *)
LEMMA BodyGroups ==
  ASSUME NEW bytes \in Seq(Octets), bytes # <<>>, NEW g \in Nat, g < Groups(bytes)
  PROVE  Gathered(Body(bytes), g) = Packed(bytes, g)
<1>. DEFINE body == Body(bytes)  m == Groups(bytes) + Len(bytes)  p == Packed(bytes, g)
            a == Octet(bytes, 3 * g + 1)  b == Octet(bytes, 3 * g + 2)  c == Octet(bytes, 3 * g + 3)
<1>1. Groups(bytes) \in Nat /\ Len(bytes) \in Nat
  BY GroupsOfBytes
<1>2. ASSUME NEW place \in {0, 1, 2, 3}, NEW spot \in Nat, spot = 4 * g + place + 1
      PROVE  Value(body, spot) = Sextet(p, place)
  <2>1. spot # 0 /\ m \in Nat
    BY <1>1, <1>2
  <2>2. /\ 4 * g + place + 1 <= m => Character(bytes, g, place) = Sextet(p, place)
        /\ 4 * g + place + 1 > m => Sextet(p, place) = 0
    BY GroupCharacters
  <2>3. Base64Encode(bytes)[4 * g + place + 1] = Character(bytes, g, place)
    BY TextCharacters
  <2>4. Len(body) = m /\ \A j \in 1..m : body[j] = Base64Encode(bytes)[j]
    BY BodyCharacters
  <2>5. Value(body, spot) = IF spot <= Len(body) THEN body[spot] ELSE 0
    BY DEF Value
  <2>. HIDE DEF m, body, p
  <2>6. /\ spot <= m => Base64Encode(bytes)[spot] = Sextet(p, place)
        /\ spot > m => Sextet(p, place) = 0
    BY <1>2, <2>2, <2>3
  <2>7. CASE spot <= m
    <3>1. spot \in 1..m
      BY <2>1, <2>7
    <3>. QED BY <2>4, <2>5, <2>6, <2>7, <3>1
  <2>8. CASE spot > m
    <3>1. ~(spot <= Len(body))
      BY <2>1, <2>4, <2>8
    <3>. QED BY <2>5, <2>6, <2>8, <3>1
  <2>. QED BY <2>1, <2>7, <2>8
<1>3. Gathered(body, g) =
        Value(body, 4 * g + 1) * 262144 + Value(body, 4 * g + 2) * 4096
        + Value(body, 4 * g + 3) * 64 + Value(body, 4 * g + 4)
  BY DEF Gathered
<1>4. /\ Value(body, 4 * g + 1) = Sextet(p, 0) /\ Value(body, 4 * g + 2) = Sextet(p, 1)
      /\ Value(body, 4 * g + 3) = Sextet(p, 2) /\ Value(body, 4 * g + 4) = Sextet(p, 3)
  <2>1. /\ 4 * g + 1 \in Nat /\ 4 * g + 2 \in Nat /\ 4 * g + 3 \in Nat /\ 4 * g + 4 \in Nat
        /\ 4 * g + 1 = 4 * g + 0 + 1 /\ 4 * g + 2 = 4 * g + 1 + 1
        /\ 4 * g + 3 = 4 * g + 2 + 1 /\ 4 * g + 4 = 4 * g + 3 + 1
    OBVIOUS
  <2>. HIDE DEF body, p
  <2>. QED BY <1>2, <2>1
<1>5. /\ a \in Nat /\ a < 256 /\ b \in Nat /\ b < 256 /\ c \in Nat /\ c < 256
  BY GroupOctets
<1>6. p = Together(a, b, c)
  BY DEF Packed, Together
<1>. HIDE DEF body, p, a, b, c
<1>7. p = Sextet(p, 0) * 262144 + Sextet(p, 1) * 4096 + Sextet(p, 2) * 64 + Sextet(p, 3)
  BY <1>5, <1>6, TogetherAgain
<1>8. Gathered(body, g) = p
  BY <1>3, <1>4, <1>7
<1>. QED BY <1>8 DEF body, p

(* The bytes come out of their groups in their order.                         *)
LEMMA BytesAgain ==
  ASSUME NEW bytes \in Seq(Octets), bytes # <<>>
  PROVE  Unpacked(Body(bytes)) = bytes
<1>. DEFINE n == Len(bytes)  G == Groups(bytes)  body == Body(bytes)
<1>1. /\ n \in Nat /\ G \in Nat /\ n # 0 /\ G # 0
      /\ n = 3 * G \/ n = 3 * G - 1 \/ n = 3 * G - 2
  BY GroupsOfBytes
<1>2. Produced(Len(body)) = n
  <2>1. Len(body) = G + n
    BY BodyCharacters
  <2>. HIDE DEF n, G, body
  <2>2. CASE n = 3 * G
    <3>1. Len(body) = 4 * G
      BY <1>1, <2>1, <2>2
    <3>2. Produced(4 * G) = n
      BY <1>1, <2>2, ProducedAgain, ZenonT(30)
    <3>. QED BY <3>1, <3>2
  <2>3. CASE n = 3 * G - 1
    <3>1. Len(body) = 4 * G - 1
      BY <1>1, <2>1, <2>3
    <3>2. Produced(4 * G - 1) = n
      BY <1>1, <2>3, ProducedAgain, ZenonT(30)
    <3>. QED BY <3>1, <3>2
  <2>4. CASE n = 3 * G - 2
    <3>1. Len(body) = 4 * G - 2
      BY <1>1, <2>1, <2>4
    <3>2. Produced(4 * G - 2) = n
      BY <1>1, <2>4, ProducedAgain, ZenonT(30)
    <3>. QED BY <3>1, <3>2
  <2>. QED BY <1>1, <2>2, <2>3, <2>4
<1>3. Unpacked(body) = [k \in 1..n |-> OctetAt(Gathered(body, (k - 1) \div 3), (k - 1) % 3)]
  BY <1>2 DEF Unpacked
<1>4. ASSUME NEW k \in 1..n
      PROVE  OctetAt(Gathered(body, (k - 1) \div 3), (k - 1) % 3) = bytes[k]
  <2>. DEFINE g == (k - 1) \div 3  place == (k - 1) % 3
              a == Octet(bytes, 3 * g + 1)  b == Octet(bytes, 3 * g + 2)  c == Octet(bytes, 3 * g + 3)
  <2>1. k \in Nat /\ k # 0 /\ k <= n
    BY <1>1
  <2>2. g \in Nat /\ place \in {0, 1, 2} /\ k = 3 * g + place + 1
    BY <2>1, SMTT(30)
  <2>3. g < G
    BY <1>1, <2>1, <2>2
  <2>4. Gathered(body, g) = Packed(bytes, g)
    BY <2>2, <2>3, BodyGroups
  <2>. HIDE DEF g, place
  <2>5. /\ a \in Nat /\ a < 256 /\ b \in Nat /\ b < 256 /\ c \in Nat /\ c < 256
    BY <2>2, GroupOctets
  <2>6. Packed(bytes, g) = Together(a, b, c)
    BY DEF Packed, Together
  <2>7. Octet(bytes, k) = bytes[k]
    BY <2>1, GroupOctets
  <2>. HIDE DEF a, b, c
  <2>8. /\ OctetAt(Packed(bytes, g), 0) = a /\ OctetAt(Packed(bytes, g), 1) = b
        /\ OctetAt(Packed(bytes, g), 2) = c
    BY <2>5, <2>6, TogetherAgain
  <2>9. OctetAt(Packed(bytes, g), place) = Octet(bytes, 3 * g + place + 1)
    <3>1. CASE place = 0
      BY <2>2, <2>8, <3>1 DEF a
    <3>2. CASE place = 1
      BY <2>2, <2>8, <3>2 DEF b
    <3>3. CASE place = 2
      BY <2>2, <2>8, <3>3 DEF c
    <3>. QED BY <2>2, <3>1, <3>2, <3>3
  <2>10. OctetAt(Gathered(body, g), place) = bytes[k]
    BY <2>2, <2>4, <2>7, <2>9
  <2>. QED BY <2>10 DEF g, place
<1>5. bytes = [k \in 1..n |-> bytes[k]]
  BY LenProperties
<1>. HIDE DEF n, body
<1>6. Unpacked(body) = bytes
  BY <1>3, <1>4, <1>5
<1>. QED BY <1>6 DEF body

(* Base64Decode undoes Base64Encode, for bytes of any length.                 *)
LEMMA DecodedAgain ==
  ASSUME NEW bytes \in Seq(Octets)
  PROVE  /\ Base64Decode(Base64Encode(bytes)) = bytes
         /\ bytes # <<>> => Base64Encode(bytes) # <<>>
<1>1. CASE bytes = <<>>
  <2>1. Groups(<<>>) = 0
    <3>1. Len(<<>>) = 0 /\ (0 + 2) \div 3 = 0
      BY EmptySeq
    <3>. QED BY <3>1 DEF Groups
  <2>2. Base64Encode(<<>>) = [c \in 1..(4 * Groups(<<>>)) |->
                                Character(<<>>, (c - 1) \div 4, (c - 1) % 4)]
    BY DEF Base64Encode
  <2>3. Base64Encode(<<>>) = <<>>
    BY <2>1, <2>2
  <2>4. Base64Decode(<<>>) = <<>>
    BY DEF Base64Decode
  <2>. QED BY <1>1, <2>3, <2>4, EmptySeq
<1>2. CASE bytes # <<>>
  <2>. DEFINE text == Base64Encode(bytes)  G == Groups(bytes)  n == Len(bytes)  body == Body(bytes)
              padding == Padding(text)
  <2>1. /\ n \in Nat /\ G \in Nat /\ n # 0 /\ G # 0
        /\ n = 3 * G \/ n = 3 * G - 1 \/ n = 3 * G - 2
    BY <1>2, GroupsOfBytes
  <2>2. Len(text) = 4 * G /\ DOMAIN text = 1..(4 * G)
    BY <1>2, TextCharacters
  <2>3. padding = 3 * G - n
    BY <1>2, PaddingAgain
  <2>4. /\ Len(body) = G + n /\ DOMAIN body = 1..(G + n)
        /\ \A i \in 1..(G + n) : body[i] \in Nat
    BY <1>2, BodyCharacters
  <2>5. Unpacked(body) = bytes
    BY <1>2, BytesAgain
  <2>6. body = SubSeq(text, 1, G + n)
    BY DEF Body
  <2>7. Base64Decode(text) =
          IF text = <<>> THEN <<>>
          ELSE IF \/ Len(text) % 4 # 0 \/ padding > 2
                  \/ \E i \in DOMAIN SubSeq(text, 1, Len(text) - padding) :
                       SubSeq(text, 1, Len(text) - padding)[i] \in {PadChar, Foreign}
               THEN NoValue
               ELSE Unpacked(SubSeq(text, 1, Len(text) - padding))
    BY DEF Base64Decode
  <2>8. PadChar \notin Nat /\ Foreign \notin Nat
    BY NamingAssumption
  <2>. HIDE DEF text, G, n, body, padding
  <2>9. Len(text) - padding = G + n /\ ~(padding > 2) /\ (4 * G) % 4 = 0
    BY <2>1, <2>2, <2>3, SMTT(30)
  <2>10. text # <<>>
    BY <2>1, <2>2, EmptySeq
  <2>11. SubSeq(text, 1, Len(text) - padding) = body
    BY <2>6, <2>9
  <2>12. ~ \E i \in DOMAIN body : body[i] \in {PadChar, Foreign}
    BY <2>4, <2>8
  <2>13. Base64Decode(text) = bytes
    BY <2>2, <2>5, <2>7, <2>9, <2>10, <2>11, <2>12
  <2>. QED BY <1>2, <2>10, <2>13 DEF text
<1>. QED BY <1>1, <1>2

-----------------------------------------------------------------------------
(* A displayed name tells its bytes *)

Capitals == 48..57 \cup 65..70

(* A byte is shown as itself, or as a percent sign and two capital digits     *)
(* that tell it.                                                              *)
ShownPlaces(x) ==
  \/ /\ IsEscaped(x) /\ Len(Shown(x)) = 3 /\ Shown(x)[1] = Percent
     /\ Shown(x)[2] = HexDigit(x \div 16) /\ Shown(x)[3] = HexDigit(x % 16)
  \/ ~IsEscaped(x) /\ Len(Shown(x)) = 1 /\ Shown(x)[1] = x /\ x # Percent
LEMMA ShownByte ==
  ASSUME NEW x \in Octets
  PROVE  /\ ~IsEscaped(x) => Shown(x) = <<x>> /\ x # Percent
         /\ IsEscaped(x) => /\ Shown(x) = <<Percent, HexDigit(x \div 16), HexDigit(x % 16)>>
                            /\ HexDigit(x \div 16) \in Capitals /\ HexDigit(x % 16) \in Capitals
         /\ Shown(x) \in Seq(Octets) /\ Shown(x) # <<>> /\ ShownPlaces(x)
<1>1. x \in Nat /\ x < 256
  BY OctetBound
<1>2. x \div 16 \in 0..15 /\ x % 16 \in 0..15
  BY <1>1, SMTT(30)
<1>3. \A n \in 0..15 : HexDigit(n) \in Capitals
  BY DEF HexDigit, Capitals
<1>4. Capitals \subseteq Octets /\ Percent \in Octets
  BY DEF Capitals, Octets, Percent
<1>5. CASE ~IsEscaped(x)
  <2>1. Shown(x) = <<x>> /\ x # Percent
    BY <1>5 DEF Shown, IsEscaped
  <2>. QED BY <1>5, <2>1 DEF ShownPlaces
<1>6. CASE IsEscaped(x)
  <2>. DEFINE u == HexDigit(x \div 16)  v == HexDigit(x % 16)
  <2>1. Shown(x) = <<Percent, u, v>>
    BY <1>6 DEF Shown
  <2>2. u \in Capitals /\ v \in Capitals
    BY <1>2, <1>3
  <2>. HIDE DEF u, v
  <2>3. <<Percent, u, v>> \in Seq(Octets) /\ <<Percent, u, v>> # <<>>
    BY <1>4, <2>2
  <2>4. Len(Shown(x)) = 3 /\ Shown(x)[1] = Percent /\ Shown(x)[2] = u /\ Shown(x)[3] = v
    BY <2>1
  <2>5. ShownPlaces(x)
    BY <1>6, <2>4 DEF ShownPlaces, u, v
  <2>. QED BY <1>6, <2>1, <2>2, <2>3, <2>5 DEF u, v
<1>. QED BY <1>5, <1>6

(* Two bytes with the same digits are one.                                    *)
LEMMA DigitsTell ==
  ASSUME NEW x \in Octets, NEW y \in Octets,
         HexDigit(x \div 16) = HexDigit(y \div 16), HexDigit(x % 16) = HexDigit(y % 16)
  PROVE  x = y
<1>1. x \in Nat /\ x < 256 /\ y \in Nat /\ y < 256
  BY OctetBound
<1>2. \A m, n \in 0..15 : HexDigit(m) = HexDigit(n) => m = n
  BY DEF HexDigit
<1>3. /\ x \div 16 \in 0..15 /\ x % 16 \in 0..15 /\ x = 16 * (x \div 16) + (x % 16)
      /\ y \div 16 \in 0..15 /\ y % 16 \in 0..15 /\ y = 16 * (y \div 16) + (y % 16)
  BY <1>1, SMTT(30)
<1>4. x \div 16 = y \div 16 /\ x % 16 = y % 16
  BY <1>2, <1>3
<1>. QED BY <1>3, <1>4

(* The bytes of a name, each shown.                                           *)
ShownEach(bytes) == [i \in DOMAIN bytes |-> Shown(bytes[i])]

(* They are as many as the bytes.                                             *)
LEMMA ShownInPlace ==
  ASSUME NEW bytes \in Seq(Octets)
  PROVE  /\ ShownEach(bytes) \in Seq(Seq(Octets)) /\ Len(ShownEach(bytes)) = Len(bytes)
         /\ \A i \in 1..Len(bytes) : ShownEach(bytes)[i] = Shown(bytes[i])
<1>. DEFINE n == Len(bytes)
<1>1. n \in Nat /\ DOMAIN bytes = 1..n /\ \A i \in 1..n : bytes[i] \in Octets
  BY LenProperties, ElementOfSeq
<1>2. ShownEach(bytes) = [i \in 1..n |-> Shown(bytes[i])]
  BY <1>1 DEF ShownEach
<1>3. \A i \in 1..n : Shown(bytes[i]) \in Seq(Octets)
  BY <1>1, ShownByte
<1>. HIDE DEF n
<1>4. ShownEach(bytes) \in [1..n -> Seq(Octets)]
  BY <1>2, <1>3
<1>. QED BY <1>1, <1>2, <1>4 DEF n

(* A name is displayed from its first byte on.                                *)
LEMMA DisplayedFirst ==
  ASSUME NEW x \in Octets, NEW rest \in Seq(Octets)
  PROVE  /\ DisplayForm(<<x>> \o rest) = Shown(x) \o DisplayForm(rest)
         /\ DisplayForm(rest) \in Seq(Octets)
<1>. DEFINE one == <<x>>  all == <<x>> \o rest
<1>1. one \in Seq(Octets) /\ Len(one) = 1 /\ one[1] = x
  OBVIOUS
<1>2. /\ all \in Seq(Octets) /\ Len(all) = 1 + Len(rest) /\ Len(rest) \in Nat
      /\ all[1] = x /\ \A i \in 1..Len(rest) : all[i + 1] = rest[i]
  BY LenProperties
<1>. HIDE DEF one, all
<1>3. /\ ShownEach(one) \in Seq(Seq(Octets)) /\ Len(ShownEach(one)) = 1
      /\ ShownEach(one)[1] = Shown(x)
  <2>1. 1 \in 1..Len(one)
    BY <1>1
  <2>. QED BY <1>1, <2>1, ShownInPlace
<1>4. ShownEach(one) = <<Shown(x)>>
  BY <1>3
<1>5. /\ ShownEach(rest) \in Seq(Seq(Octets)) /\ Len(ShownEach(rest)) = Len(rest)
      /\ \A i \in 1..Len(rest) : ShownEach(rest)[i] = Shown(rest[i])
  BY ShownInPlace
<1>6. /\ ShownEach(all) \in Seq(Seq(Octets)) /\ Len(ShownEach(all)) = 1 + Len(rest)
      /\ \A i \in 1..(1 + Len(rest)) : ShownEach(all)[i] = Shown(all[i])
  BY <1>2, ShownInPlace
<1>. DEFINE joined == ShownEach(one) \o ShownEach(rest)
<1>7. /\ joined \in Seq(Seq(Octets)) /\ Len(joined) = 1 + Len(rest) /\ joined[1] = Shown(x)
      /\ \A i \in 1..Len(rest) : joined[i + 1] = Shown(rest[i])
  <2>1. PICK a : a = ShownEach(one)
    OBVIOUS
  <2>2. PICK b : b = ShownEach(rest)
    OBVIOUS
  <2>3. a \in Seq(Seq(Octets)) /\ Len(a) = 1 /\ a[1] = Shown(x)
    BY <1>3, <2>1
  <2>4. b \in Seq(Seq(Octets)) /\ Len(b) = Len(rest) /\ \A i \in 1..Len(rest) : b[i] = Shown(rest[i])
    BY <1>5, <2>2
  <2>5. JoinedOf(Seq(Octets), a, b)
    BY <2>3, <2>4, JoinedPlaces
  <2>6. 1 \in 1..Len(a) /\ \A i \in 1..Len(rest) : Len(a) + i = i + 1
    BY <1>2, <2>3
  <2>. QED BY <2>1, <2>2, <2>3, <2>4, <2>5, <2>6 DEF JoinedOf
<1>. HIDE DEF joined
<1>8. \A i \in 1..(1 + Len(rest)) : ShownEach(all)[i] = joined[i]
  <2>. TAKE i \in 1..(1 + Len(rest))
  <2>1. CASE i = 1
    BY <1>2, <1>6, <1>7, <2>1
  <2>2. CASE i # 1
    <3>1. i - 1 \in 1..Len(rest) /\ (i - 1) + 1 = i
      BY <1>2, <2>2
    <3>2. all[i] = rest[i - 1] /\ joined[i] = Shown(rest[i - 1])
      BY <1>2, <1>7, <3>1
    <3>. QED BY <1>6, <3>2
  <2>. QED BY <2>1, <2>2
<1>9. ShownEach(all) = joined
  BY <1>2, <1>6, <1>7, <1>8, SeqEqual
<1>10. FlattenSeq(joined) = FlattenSeq(ShownEach(one)) \o FlattenSeq(ShownEach(rest))
  BY <1>3, <1>5, FlattenTogether DEF joined
<1>11. FlattenSeq(ShownEach(one)) = Shown(x)
  BY <1>4, ShownByte, FlattenOne
<1>12. FlattenSeq(ShownEach(rest)) \in Seq(Octets)
  BY <1>5, FlattenedIsSequence
<1>. QED BY <1>9, <1>10, <1>11, <1>12 DEF all, DisplayForm, ShownEach

(* Of nothing there is nothing to display.                                    *)
LEMMA DisplayedNone == DisplayForm(<<>>) = <<>>
<1>1. Len(ShownEach(<<>>)) = 0 /\ ShownEach(<<>>) \in Seq(Seq(Octets))
  BY ShownInPlace, EmptySeq
<1>2. ShownEach(<<>>) = <<>>
  BY <1>1, EmptySeq
<1>. QED BY <1>2, FlattenNone DEF DisplayForm, ShownEach


(* Every percent sign of a displayed name is an escape with capital digits,   *)
(* and a byte that is escaped leaves one.                                     *)
PercentsTell(bytes) ==
  LET display == DisplayForm(bytes)
  IN /\ display \in Seq(Octets)
     /\ \A i \in 1..Len(display) : display[i] = Percent =>
          i + 2 <= Len(display) /\ display[i + 1] \in Capitals /\ display[i + 2] \in Capitals
     /\ (\E k \in 1..Len(bytes) : IsEscaped(bytes[k])) => \E i \in 1..Len(display) : display[i] = Percent

LEMMA DisplayedPercents ==
  ASSUME NEW bytes \in Seq(Octets)
  PROVE  PercentsTell(bytes)
<1>. DEFINE T == {b \in Seq(Octets) : PercentsTell(b)}
<1>1. <<>> \in T
  <2>1. Len(<<>>) = 0 /\ <<>> \in Seq(Octets)
    BY EmptySeq
  <2>2. 1..0 = {}
    OBVIOUS
  <2>3. PercentsTell(<<>>)
    BY <2>1, <2>2, DisplayedNone DEF PercentsTell
  <2>. QED BY <2>1, <2>3
<1>2. ASSUME NEW x \in Octets, NEW rest \in Seq(Octets), rest \in T
      PROVE  <<x>> \o rest \in T
  <2>. DEFINE all == <<x>> \o rest  tail == DisplayForm(rest)  own == Shown(x)
  <2>1. all \in Seq(Octets) /\ Len(all) = Len(rest) + 1 /\ all[1] = x
        /\ \A i \in 1..Len(rest) : all[i + 1] = rest[i]
    OBVIOUS
  <2>2. DisplayForm(all) = own \o tail /\ tail \in Seq(Octets)
    BY DisplayedFirst
  <2>3. own \in Seq(Octets) /\ own # <<>>
    BY ShownByte
  <2>4. JoinedOf(Octets, own, tail)
    BY <2>2, <2>3, JoinedPlaces
  <2>5. /\ \A i \in 1..Len(tail) : tail[i] = Percent =>
             i + 2 <= Len(tail) /\ tail[i + 1] \in Capitals /\ tail[i + 2] \in Capitals
        /\ (\E k \in 1..Len(rest) : IsEscaped(rest[k])) => \E i \in 1..Len(tail) : tail[i] = Percent
    BY <1>2 DEF PercentsTell
  <2>6. \A c \in Capitals : c # Percent
    BY DEF Capitals, Percent
  <2>7. \/ IsEscaped(x) /\ Len(own) = 3 /\ own[1] = Percent /\ own[2] \in Capitals /\ own[3] \in Capitals
        \/ ~IsEscaped(x) /\ Len(own) = 1 /\ own[1] = x /\ x # Percent
    BY ShownByte
  <2>8. DisplayForm(all) = own \o tail
    BY <2>2
  <2>. DEFINE whole == own \o tail
  <2>9. /\ whole \in Seq(Octets) /\ Len(whole) = Len(own) + Len(tail)
        /\ Len(own) \in Nat /\ Len(tail) \in Nat
        /\ \A i \in 1..Len(own) : whole[i] = own[i]
        /\ \A i \in 1..Len(tail) : whole[Len(own) + i] = tail[i]
    BY <2>4 DEF JoinedOf
  <2>. HIDE DEF whole, own, tail, all
  <2>10. ASSUME NEW i \in 1..Len(whole), whole[i] = Percent
         PROVE  i + 2 <= Len(whole) /\ whole[i + 1] \in Capitals /\ whole[i + 2] \in Capitals
    <3>1. CASE i <= Len(own)
      <4>1. whole[i] = own[i]
        BY <2>9, <3>1
      <4>2. Len(own) = 3 /\ own[2] \in Capitals /\ own[3] \in Capitals /\ i = 1
        <5>1. own[i] = Percent /\ i \in Nat /\ i >= 1
          BY <2>10, <4>1
        <5>2. CASE ~IsEscaped(x)
          BY <2>7, <3>1, <5>1, <5>2
        <5>3. CASE IsEscaped(x)
          <6>1. Len(own) = 3 /\ own[2] \in Capitals /\ own[3] \in Capitals
            BY <2>7, <5>3
          <6>2. i = 1 \/ i = 2 \/ i = 3
            BY <3>1, <5>1, <6>1
          <6>. QED BY <2>6, <5>1, <6>1, <6>2
        <5>. QED BY <5>2, <5>3
      <4>. QED BY <2>9, <4>2
    <3>2. CASE i > Len(own)
      <4>. DEFINE k == i - Len(own)
      <4>1. k \in 1..Len(tail) /\ i = Len(own) + k
        BY <2>9, <3>2
      <4>. HIDE DEF k
      <4>2. tail[k] = Percent
        BY <2>9, <2>10, <4>1
      <4>3. k + 2 <= Len(tail) /\ tail[k + 1] \in Capitals /\ tail[k + 2] \in Capitals
        BY <2>5, <4>1, <4>2
      <4>4. k + 1 \in 1..Len(tail) /\ k + 2 \in 1..Len(tail)
            /\ i + 1 = Len(own) + (k + 1) /\ i + 2 = Len(own) + (k + 2) /\ i + 2 <= Len(whole)
        BY <2>9, <4>1, <4>3
      <4>5. whole[Len(own) + (k + 1)] = tail[k + 1] /\ whole[Len(own) + (k + 2)] = tail[k + 2]
        BY <2>9, <4>4
      <4>. QED BY <4>3, <4>4, <4>5
    <3>. QED BY <2>9, <3>1, <3>2
  <2>11. ASSUME NEW k \in 1..Len(all), IsEscaped(all[k])
         PROVE  \E i \in 1..Len(whole) : whole[i] = Percent
    <3>1. CASE k = 1
      <4>1. IsEscaped(x)
        BY <2>1, <2>11, <3>1
      <4>2. Len(own) = 3 /\ own[1] = Percent
        BY <2>7, <4>1
      <4>3. 1 \in 1..Len(own) /\ 1 \in 1..Len(whole)
        BY <2>9, <4>2
      <4>. QED BY <2>9, <4>2, <4>3
    <3>2. CASE k # 1
      <4>1. Len(rest) \in Nat
        BY LenProperties
      <4>2. k - 1 \in 1..Len(rest) /\ (k - 1) + 1 = k
        BY <2>1, <3>2, <4>1
      <4>3. IsEscaped(rest[k - 1])
        BY <2>1, <2>11, <4>2
      <4>4. PICK i \in 1..Len(tail) : tail[i] = Percent
        BY <2>5, <4>2, <4>3
      <4>5. Len(own) + i \in 1..Len(whole) /\ whole[Len(own) + i] = Percent
        BY <2>9, <4>4
      <4>. QED BY <4>5
    <3>. QED BY <3>1, <3>2
  <2>12. DisplayForm(all) = whole
    BY <2>8 DEF whole
  <2>13. PercentsTell(all)
    BY <2>9, <2>10, <2>11, <2>12 DEF PercentsTell
  <2>. QED BY <2>1, <2>13 DEF all
<1>. HIDE DEF T
<1>3. Seq(Octets) \subseteq T
  BY <1>1, <1>2, SequencesByInduction
<1>. QED BY <1>3 DEF T

(* No two names are displayed alike.                                          *)
LEMMA DisplayTells ==
  ASSUME NEW a \in Seq(Octets), NEW b \in Seq(Octets), DisplayForm(a) = DisplayForm(b)
  PROVE  a = b
<1>. DEFINE T == {s \in Seq(Octets) : \A t \in Seq(Octets) : DisplayForm(s) = DisplayForm(t) => s = t}
<1>1. ASSUME NEW x \in Octets, NEW rest \in Seq(Octets)
      PROVE  DisplayForm(<<x>> \o rest) # <<>>
  <2>1. DisplayForm(<<x>> \o rest) = Shown(x) \o DisplayForm(rest) /\ DisplayForm(rest) \in Seq(Octets)
    BY DisplayedFirst
  <2>2. Shown(x) \in Seq(Octets) /\ Shown(x) # <<>>
    BY ShownByte
  <2>3. Len(Shown(x)) \in Nat /\ Len(Shown(x)) # 0
    BY <2>2, EmptySeq, LenProperties
  <2>4. JoinedOf(Octets, Shown(x), DisplayForm(rest))
    BY <2>1, <2>2, JoinedPlaces
  <2>5. Len(Shown(x) \o DisplayForm(rest)) # 0
    BY <2>3, <2>4 DEF JoinedOf
  <2>. QED BY <2>1, <2>5, EmptySeq
<1>2. <<>> \in T
  <2>1. SUFFICES ASSUME NEW t \in Seq(Octets), DisplayForm(<<>>) = DisplayForm(t), t # <<>> PROVE FALSE
    BY EmptySeq
  <2>2. t[1] \in Octets /\ Tail(t) \in Seq(Octets) /\ t = <<t[1]>> \o Tail(t)
    BY <2>1, FirstAndRest
  <2>. QED BY <1>1, <2>1, <2>2, DisplayedNone
<1>3. ASSUME NEW x \in Octets, NEW s \in Seq(Octets), s \in T
      PROVE  <<x>> \o s \in T
  <2>1. <<x>> \o s \in Seq(Octets)
    OBVIOUS
  <2>2. SUFFICES ASSUME NEW t \in Seq(Octets), DisplayForm(<<x>> \o s) = DisplayForm(t)
                 PROVE  <<x>> \o s = t
    BY <2>1
  <2>3. t # <<>>
    BY <1>1, <2>2, DisplayedNone
  <2>4. PICK y : y = t[1]
    OBVIOUS
  <2>5. PICK r : r = Tail(t)
    OBVIOUS
  <2>6. y \in Octets /\ r \in Seq(Octets) /\ t = <<y>> \o r
    BY <2>3, <2>4, <2>5, FirstAndRest
  <2>7. /\ DisplayForm(<<x>> \o s) = Shown(x) \o DisplayForm(s) /\ DisplayForm(s) \in Seq(Octets)
        /\ DisplayForm(<<y>> \o r) = Shown(y) \o DisplayForm(r) /\ DisplayForm(r) \in Seq(Octets)
    BY <2>6, DisplayedFirst
  <2>8. Shown(x) \o DisplayForm(s) = Shown(y) \o DisplayForm(r)
    BY <2>2, <2>6, <2>7
  <2>. DEFINE d == DisplayForm(s)  e == DisplayForm(r)  u == Shown(x)  v == Shown(y)
  <2>9. JoinedOf(Octets, u, d) /\ JoinedOf(Octets, v, e)
    BY <2>6, <2>7, ShownByte, JoinedPlaces
  <2>. DEFINE whole == u \o d
  <2>10. /\ \A i \in 1..Len(u) : whole[i] = u[i]
         /\ \A i \in 1..Len(v) : whole[i] = v[i]
    BY <2>8, <2>9 DEF JoinedOf
  <2>11. /\ \/ IsEscaped(x) /\ Len(u) = 3 /\ u[1] = Percent /\ u[2] = HexDigit(x \div 16)
               /\ u[3] = HexDigit(x % 16)
            \/ ~IsEscaped(x) /\ Len(u) = 1 /\ u[1] = x /\ x # Percent
         /\ \/ IsEscaped(y) /\ Len(v) = 3 /\ v[1] = Percent /\ v[2] = HexDigit(y \div 16)
               /\ v[3] = HexDigit(y % 16)
            \/ ~IsEscaped(y) /\ Len(v) = 1 /\ v[1] = y /\ y # Percent
    <3>1. ShownPlaces(x) /\ ShownPlaces(y)
      BY <2>6, ShownByte
    <3>. QED BY <3>1 DEF ShownPlaces
  <2>. HIDE DEF whole, u, v
  <2>12. x = y
    <3>1. whole[1] = u[1] /\ whole[1] = v[1]
      BY <2>10, <2>11
    <3>2. CASE IsEscaped(x) /\ IsEscaped(y)
      <4>1. Len(u) = 3 /\ Len(v) = 3
        BY <2>11, <3>2
      <4>2. whole[2] = u[2] /\ whole[2] = v[2] /\ whole[3] = u[3] /\ whole[3] = v[3]
        BY <2>10, <4>1
      <4>3. HexDigit(x \div 16) = HexDigit(y \div 16) /\ HexDigit(x % 16) = HexDigit(y % 16)
        BY <2>11, <3>2, <4>2
      <4>. QED BY <2>6, <4>3, DigitsTell
    <3>. QED BY <2>11, <3>1, <3>2
  <2>13. u \o d = u \o e
    BY <2>8, <2>12 DEF u, v
  <2>14. d = e
    BY <2>7, <2>13, ShownByte, RestsAgree DEF u
  <2>15. s = r
    BY <1>3, <2>6, <2>14
  <2>. QED BY <2>6, <2>12, <2>15
<1>. HIDE DEF T
<1>4. Seq(Octets) \subseteq T
  BY <1>2, <1>3, SequencesByInduction
<1>. QED BY <1>4 DEF T

-----------------------------------------------------------------------------
(* What is a character of a path is one of its last component *)

(* A byte below 128 leads, and follows no other.                              *)
LEMMA SmallBytes ==
  \A x \in Octets : x < 128 => x \in 0..127 /\ x \in Leads /\ x \notin 128..191
BY DEF Octets, Leads

(* A byte below 128 is a character; another's following bytes are not.        *)
LEMMA FollowingBytes ==
  /\ \A lead : Follow(lead) \in Nat
  /\ \A lead \in Nat : lead < 128 => Follow(lead) = 0
  /\ \A lead : Second(lead) \subseteq 128..191
<1>1. ASSUME NEW lead PROVE Follow(lead) \in Nat
  <2>. DEFINE longer == {first \in {194, 224, 240} : first <= lead}
  <2>1. IsFiniteSet(194..240)
    <3>1. 194 \in Int /\ 240 \in Int
      OBVIOUS
    <3>. QED BY <3>1, FS_Interval, Zenon
  <2>2. longer \subseteq 194..240
    OBVIOUS
  <2>3. IsFiniteSet(longer)
    BY <2>1, <2>2, FS_Subset
  <2>. QED BY <2>3, FS_CardinalityType DEF Follow
<1>2. ASSUME NEW lead \in Nat, lead < 128 PROVE Follow(lead) = 0
  <2>1. {longer \in {194, 224, 240} : longer <= lead} = {}
    BY <1>2
  <2>. QED BY <2>1, FS_EmptySet DEF Follow
<1>3. ASSUME NEW lead PROVE Second(lead) \subseteq 128..191
  BY DEF Second
<1>. QED BY <1>1, <1>2, <1>3

(* The bytes of a name from after place m to place e.                         *)
CutOf(s, bytes, m, e) ==
  /\ s \in Seq(Octets) /\ m \in Nat /\ e \in Nat /\ m <= e /\ e <= Len(bytes) /\ Len(s) = e - m
  /\ \A i \in 1..(e - m) : s[i] = bytes[m + i]

(* Names of bytes below 128 are UTF-8.                                        *)
LEMMA SmallBytesAreUtf8 ==
  ASSUME NEW bytes \in Seq(Octets), \A i \in 1..Len(bytes) : bytes[i] < 128
  PROVE  IsUtf8(bytes)
<1>1. Len(bytes) \in Nat /\ DOMAIN bytes = 1..Len(bytes)
  BY LenProperties
<1>2. ASSUME NEW i \in 1..Len(bytes)
      PROVE  CharacterAt(bytes, i) /\ i <= i + Follow(bytes[i]) /\ i \in 1..i
  <2>1. bytes[i] \in Octets /\ bytes[i] < 128
    BY <1>1, ElementOfSeq
  <2>2. Follow(bytes[i]) = 0
    BY <2>1, FollowingBytes, OctetBound
  <2>3. bytes[i] \in Leads /\ 1..0 = {}
    BY <2>1, SmallBytes
  <2>. QED BY <1>1, <2>2, <2>3 DEF CharacterAt
<1>. QED BY <1>1, <1>2 DEF IsUtf8

(* Cut where a byte below 128 is left out, or at an end, UTF-8 stays UTF-8.   *)
LEMMA CutsAreUtf8 ==
  ASSUME NEW bytes \in Seq(Octets), IsUtf8(bytes), NEW s, NEW m, NEW e, CutOf(s, bytes, m, e),
         m > 0 => bytes[m] < 128, e < Len(bytes) => bytes[e + 1] < 128
  PROVE  IsUtf8(s)
<1>1. /\ Len(bytes) \in Nat /\ DOMAIN bytes = 1..Len(bytes)
      /\ m \in Nat /\ e \in Nat /\ m <= e /\ e <= Len(bytes) /\ Len(s) = e - m /\ DOMAIN s = 1..(e - m)
      /\ \A i \in 1..(e - m) : s[i] = bytes[m + i]
  BY LenProperties DEF CutOf
<1>2. ASSUME NEW i \in 1..(e - m)
      PROVE  \E j \in 1..i : CharacterAt(s, j) /\ i <= j + Follow(s[j])
  <2>1. m + i \in DOMAIN bytes
    BY <1>1
  <2>2. PICK j \in 1..(m + i) : CharacterAt(bytes, j) /\ m + i <= j + Follow(bytes[j])
    BY <2>1 DEF IsUtf8
  <2>. DEFINE more == Follow(bytes[j])
  <2>3. j \in Nat /\ more \in Nat /\ m + i <= j + more /\ j <= m + i /\ j \in 1..Len(bytes)
    BY <1>1, <2>2, FollowingBytes
  <2>4. /\ bytes[j] \in Leads /\ j + more <= Len(bytes)
        /\ \A k \in 1..more : bytes[j + k] \in (IF k = 1 THEN Second(bytes[j]) ELSE 128..191)
    BY <2>2 DEF CharacterAt
  <2>5. \A k \in 1..more : bytes[j + k] \in 128..191
    BY <2>4, FollowingBytes
  <2>6. bytes[j] \in Nat /\ (bytes[j] < 128 => more = 0)
    <3>1. bytes[j] \in Octets
      BY <1>1, <2>3, ElementOfSeq
    <3>. QED BY <3>1, FollowingBytes, OctetBound
  <2>. HIDE DEF more
  <2>7. j > m
    <3>1. SUFFICES ASSUME j <= m PROVE FALSE
      BY <1>1, <2>3
    <3>2. CASE j = m
      BY <1>1, <2>3, <2>6, <3>2
    <3>3. CASE j < m
      <4>1. m - j \in 1..more /\ j + (m - j) = m
        BY <1>1, <2>3, <3>3
      <4>2. bytes[m] \in 128..191
        BY <2>5, <4>1
      <4>3. m \in 1..Len(bytes) /\ m > 0
        BY <1>1, <2>3, <3>3
      <4>4. bytes[m] \in Octets
        BY <4>3, ElementOfSeq
      <4>. QED BY <4>2, <4>3, <4>4, SmallBytes
    <3>. QED BY <1>1, <2>3, <3>1, <3>2, <3>3
  <2>8. j + more <= e
    <3>1. SUFFICES ASSUME j + more > e PROVE FALSE
      BY <1>1, <2>3
    <3>2. (e + 1) - j \in 1..more /\ j + ((e + 1) - j) = e + 1
      BY <1>1, <2>3, <3>1
    <3>3. bytes[e + 1] \in 128..191
      BY <2>5, <3>2
    <3>4. e < Len(bytes)
      BY <1>1, <2>3, <2>4, <3>1
    <3>5. bytes[e + 1] \in Octets
      BY <1>1, <3>4, ElementOfSeq
    <3>. QED BY <3>3, <3>4, <3>5, SmallBytes
  <2>9. j - m \in 1..i /\ m + (j - m) = j /\ j - m \in 1..(e - m)
    BY <1>1, <2>3, <2>7
  <2>10. s[j - m] = bytes[j] /\ Follow(s[j - m]) = more
    BY <1>1, <2>9 DEF more
  <2>11. ASSUME NEW k \in 1..more
         PROVE  s[(j - m) + k] \in (IF k = 1 THEN Second(bytes[j]) ELSE 128..191)
    <3>1. (j - m) + k \in 1..(e - m) /\ m + ((j - m) + k) = j + k
      BY <1>1, <2>3, <2>7, <2>8
    <3>. QED BY <1>1, <2>4, <3>1
  <2>12. CharacterAt(s, j - m)
    <3>1. (j - m) + more <= Len(s)
      BY <1>1, <2>3, <2>8
    <3>. QED BY <2>4, <2>10, <2>11, <3>1 DEF CharacterAt
  <2>13. i <= (j - m) + more
    BY <1>1, <2>3
  <2>. QED BY <2>9, <2>10, <2>12, <2>13
<1>. QED BY <1>1, <1>2 DEF IsUtf8

(* The last place of a set's bytes, or none.                                  *)
LEMMA LastPlace ==
  ASSUME NEW bytes \in Seq(Octets), NEW S
  PROVE  /\ LastOf(bytes, S) \in 0..Len(bytes)
         /\ LastOf(bytes, S) > 0 => bytes[LastOf(bytes, S)] \in S
         /\ \A i \in (LastOf(bytes, S) + 1)..Len(bytes) : bytes[i] \notin S
<1>. DEFINE N == Len(bytes)  Here == {i \in 1..N : bytes[i] \in S}
            Final(n) == (n > 0 => bytes[n] \in S) /\ \A i \in (n + 1)..N : bytes[i] \notin S
<1>1. N \in Nat
  BY LenProperties
<1>2. \E n \in 0..N : Final(n)
  <2>1. CASE Here = {}
    <3>1. Final(0) /\ 0 \in 0..N
      BY <1>1, <2>1
    <3>. QED BY <3>1
  <2>2. CASE Here # {}
    <3>1. Max(Here) \in Here /\ \A y \in Here : y <= Max(Here)
      BY <1>1, <2>2, LargestNumber
    <3>2. PICK n : n = Max(Here)
      OBVIOUS
    <3>3. n \in 1..N /\ bytes[n] \in S /\ \A y \in Here : y <= n
      BY <3>1, <3>2
    <3>4. \A i \in (n + 1)..N : bytes[i] \notin S
      BY <1>1, <3>3
    <3>. QED BY <1>1, <3>3, <3>4
  <2>. QED BY <2>1, <2>2
<1>3. LastOf(bytes, S) = CHOOSE n \in 0..N : Final(n)
  BY DEF LastOf
<1>. HIDE DEF Final
<1>4. LastOf(bytes, S) \in 0..N /\ Final(LastOf(bytes, S))
  BY <1>2, <1>3
<1>. QED BY <1>4 DEF Final

(* The bytes that a SubSeq is of.                                             *)
LEMMA CutBySubSeq ==
  ASSUME NEW bytes \in Seq(Octets), NEW m \in Nat, NEW e \in Nat, m <= e, e <= Len(bytes)
  PROVE  CutOf(SubSeq(bytes, m + 1, e), bytes, m, e)
<1>1. Len(bytes) \in Nat
  BY LenProperties
<1>2. /\ SubSeq(bytes, m + 1, e) \in Seq(Octets) /\ Len(SubSeq(bytes, m + 1, e)) = e - m
      /\ \A i \in 1..(e - m) : SubSeq(bytes, m + 1, e)[i] = bytes[m + i]
  <2>1. CASE m = e
    BY <1>1, <2>1
  <2>2. CASE m < e
    BY <1>1, <2>2
  <2>. QED BY <2>1, <2>2
<1>. QED BY <1>2 DEF CutOf

(* A path's last component is cut from it at separators, or at its end.       *)
LEMMA ComponentIsCut ==
  ASSUME NEW bytes \in Seq(Octets)
  PROVE  \E m, e : /\ CutOf(LastComponent(bytes), bytes, m, e)
                   /\ m > 0 => bytes[m] < 128
                   /\ e < Len(bytes) => bytes[e + 1] < 128
<1>. DEFINE N == Len(bytes)
            end == LastOf(bytes, 0..255 \ Separators)
            trimmed == IF end = 0 THEN bytes ELSE SubSeq(bytes, 1, end)
            m == LastOf(trimmed, Separators)
<1>1. N \in Nat /\ \A i \in 1..N : bytes[i] \in Octets
  BY LenProperties, ElementOfSeq
<1>2. \A c \in Separators : c < 128
  BY DEF Separators
<1>3. /\ end \in 0..N /\ \A i \in (end + 1)..N : bytes[i] \notin 0..255 \ Separators
  BY LastPlace
<1>4. \A i \in (end + 1)..N : bytes[i] \in Separators
  <2>. TAKE i \in (end + 1)..N
  <2>1. i \in 1..N
    BY <1>1, <1>3
  <2>. QED BY <1>1, <1>3, <2>1 DEF Octets
<1>5. LastComponent(bytes) = SubSeq(trimmed, m + 1, Len(trimmed))
  BY DEF LastComponent
<1>. HIDE DEF N, end, m
<1>6. CASE end = 0
  <2>1. trimmed = bytes
    BY <1>6
  <2>. HIDE DEF trimmed
  <2>2. /\ m \in 0..N /\ (m > 0 => bytes[m] \in Separators)
        /\ \A i \in (m + 1)..N : bytes[i] \notin Separators
    BY <2>1, LastPlace DEF m, N
  <2>3. CutOf(LastComponent(bytes), bytes, m, N)
    BY <1>1, <1>5, <2>1, <2>2, CutBySubSeq DEF N
  <2>. QED BY <1>2, <2>2, <2>3 DEF N
<1>7. CASE end # 0
  <2>1. trimmed = SubSeq(bytes, 1, end)
    BY <1>7
  <2>. HIDE DEF trimmed
  <2>2. end \in Nat /\ end <= N
    BY <1>1, <1>3
  <2>3. CutOf(trimmed, bytes, 0, end)
    <3>1. CutOf(SubSeq(bytes, 0 + 1, end), bytes, 0, end)
      BY <2>2, CutBySubSeq DEF N
    <3>. QED BY <2>1, <3>1
  <2>4. trimmed \in Seq(Octets) /\ Len(trimmed) = end /\ \A i \in 1..end : trimmed[i] = bytes[i]
    BY <2>2, <2>3 DEF CutOf
  <2>5. m \in 0..end /\ (m > 0 => trimmed[m] \in Separators)
    BY <2>4, LastPlace DEF m
  <2>6. CutOf(LastComponent(bytes), trimmed, m, end)
    BY <1>5, <2>2, <2>4, <2>5, CutBySubSeq
  <2>7. CutOf(LastComponent(bytes), bytes, m, end)
    <3>1. \A i \in 1..(end - m) : m + i \in 1..end
      BY <2>2, <2>5
    <3>. QED BY <2>2, <2>4, <2>6, <3>1 DEF CutOf, N
  <2>8. m > 0 => bytes[m] \in Separators
    BY <2>2, <2>4, <2>5
  <2>9. end < N => bytes[end + 1] \in Separators
    BY <1>1, <1>4, <2>2
  <2>. QED BY <1>2, <2>7, <2>8, <2>9 DEF N
<1>. QED BY <1>6, <1>7

(* A path that is recorded as it is has a last component that is.             *)
LEMMA ComponentNeedsNoMore ==
  ASSUME NEW bytes \in Seq(Octets)
  PROVE  /\ LastComponent(bytes) \in Seq(Octets)
         /\ NeedsRawForm(LastComponent(bytes)) => NeedsRawForm(bytes)
<1>1. PICK m, e : /\ CutOf(LastComponent(bytes), bytes, m, e)
                  /\ m > 0 => bytes[m] < 128
                  /\ e < Len(bytes) => bytes[e + 1] < 128
  BY ComponentIsCut
<1>. DEFINE s == LastComponent(bytes)
<1>2. /\ s \in Seq(Octets) /\ m \in Nat /\ e \in Nat /\ m <= e /\ e <= Len(bytes) /\ Len(s) = e - m
      /\ \A i \in 1..(e - m) : s[i] = bytes[m + i]
  BY <1>1 DEF CutOf
<1>3. IsUtf8(bytes) => IsUtf8(s)
  BY <1>1, CutsAreUtf8
<1>. HIDE DEF s
<1>4. ASSUME NEW i \in DOMAIN s PROVE m + i \in DOMAIN bytes /\ s[i] = bytes[m + i]
  BY <1>2, LenProperties
<1>5. NeedsRawForm(s) => NeedsRawForm(bytes)
  BY <1>3, <1>4 DEF NeedsRawForm
<1>. QED BY <1>2, <1>5 DEF s

-----------------------------------------------------------------------------
(* A text is read for what it stands for *)

Sextets == 0..63
Texts == Seq(Sextets \cup {PadChar, Foreign})

(* The characters of a text are none of the others.                           *)
LEMMA CharactersApart ==
  /\ \A c \in Sextets : c \in Nat /\ c < 64 /\ c # PadChar /\ c # Foreign
  /\ PadChar # Foreign
<1>1. \A c \in Sextets : c \in Nat /\ c < 64
  BY DEF Sextets
<1>. QED BY <1>1, NamingAssumption

(* The padding is all that stands at the end.                                 *)
LEMMA PaddingOf ==
  ASSUME NEW text \in Texts
  PROVE  /\ Padding(text) \in 0..Len(text)
         /\ \A i \in (Len(text) - Padding(text) + 1)..Len(text) : text[i] = PadChar
         /\ Padding(text) < Len(text) => text[Len(text) - Padding(text)] # PadChar
<1>. DEFINE N == Len(text)  Other == {i \in 1..N : text[i] # PadChar}
            Pads(n) == /\ \A i \in (N - n + 1)..N : text[i] = PadChar
                       /\ n < N => text[N - n] # PadChar
<1>1. N \in Nat
  BY LenProperties DEF Texts
<1>2. \E n \in 0..N : Pads(n)
  <2>1. CASE Other = {}
    <3>1. Pads(N) /\ N \in 0..N
      BY <1>1, <2>1
    <3>. QED BY <3>1
  <2>2. CASE Other # {}
    <3>1. Max(Other) \in Other /\ \A y \in Other : y <= Max(Other)
      BY <1>1, <2>2, LargestNumber
    <3>2. PICK m : m = Max(Other)
      OBVIOUS
    <3>3. m \in 1..N /\ text[m] # PadChar /\ \A y \in Other : y <= m
      BY <3>1, <3>2
    <3>4. N - m \in 0..N /\ N - (N - m) = m
      BY <1>1, <3>3
    <3>5. \A i \in (N - (N - m) + 1)..N : text[i] = PadChar
      BY <1>1, <3>3, <3>4
    <3>. QED BY <3>3, <3>4, <3>5
  <2>. QED BY <2>1, <2>2
<1>3. Padding(text) = CHOOSE n \in 0..N : Pads(n)
  BY DEF Padding
<1>. HIDE DEF Pads
<1>4. Padding(text) \in 0..N /\ Pads(Padding(text))
  BY <1>2, <1>3
<1>. QED BY <1>4 DEF Pads

(* What a text must be to stand for something.                                *)
WellFormed(text) ==
  /\ Len(text) % 4 = 0
  /\ \A i \in {i \in DOMAIN text : text[i] # PadChar} : text[i] # Foreign
  /\ \A i \in DOMAIN text :
       text[i] = PadChar => i > Len(text) - 2 /\ (i < Len(text) => text[i + 1] = PadChar)

(* The places before the padding.                                             *)
KeptLength(text) == Len(text) - Padding(text)

(* A well-formed text is sextets and then two pads at most.                   *)
LEMMA WellFormedPlaces ==
  ASSUME NEW text \in Texts
  PROVE  WellFormed(text) <=> /\ Len(text) % 4 = 0 /\ Padding(text) <= 2
                              /\ \A i \in 1..KeptLength(text) : text[i] \in Sextets
<1>. DEFINE N == Len(text)  p == Padding(text)  m == KeptLength(text)
<1>1. /\ N \in Nat /\ DOMAIN text = 1..N
      /\ \A i \in 1..N : text[i] \in Sextets \cup {PadChar, Foreign}
  BY LenProperties, ElementOfSeq DEF Texts
<1>2. /\ p \in 0..N /\ m = N - p
      /\ \A i \in (N - p + 1)..N : text[i] = PadChar
      /\ p < N => text[N - p] # PadChar
  BY PaddingOf DEF KeptLength
<1>3. m \in 0..N /\ (\A i \in (m + 1)..N : text[i] = PadChar) /\ (m > 0 => text[m] # PadChar)
  BY <1>1, <1>2
<1>4. WellFormed(text) <=>
        /\ N % 4 = 0
        /\ \A i \in 1..N : text[i] # PadChar => text[i] # Foreign
        /\ \A i \in 1..N : text[i] = PadChar => i > N - 2 /\ (i < N => text[i + 1] = PadChar)
  BY <1>1 DEF WellFormed
<1>. HIDE DEF N, p, m
<1>5. ASSUME WellFormed(text) PROVE N % 4 = 0 /\ p <= 2 /\ \A i \in 1..m : text[i] \in Sextets
  <2>1. N % 4 = 0 /\ p <= 2
    <3>1. SUFFICES ASSUME p > 2 PROVE FALSE
      BY <1>2, <1>4, <1>5
    <3>2. N - 2 \in 1..N /\ N - 2 \in (m + 1)..N /\ ~(N - 2 > N - 2)
      BY <1>1, <1>2, <3>1
    <3>. QED BY <1>3, <1>4, <1>5, <3>2, Zenon
  <2>2. ASSUME NEW i \in 1..m PROVE text[i] # PadChar
    <3>1. SUFFICES ASSUME text[i] = PadChar PROVE FALSE
      OBVIOUS
    <3>2. i \in 1..N /\ i > N - 2 /\ (i < N => text[i + 1] = PadChar)
      BY <1>1, <1>3, <1>4, <1>5, <3>1
    <3>3. i = m \/ (i + 1 = m /\ i < N)
      BY <1>1, <1>2, <1>3, <3>2
    <3>. QED BY <1>3, <3>1, <3>2, <3>3
  <2>3. ASSUME NEW i \in 1..m PROVE text[i] \in Sextets
    <3>1. i \in 1..N
      BY <1>1, <1>3
    <3>. QED BY <1>1, <1>4, <1>5, <2>2, <3>1
  <2>. QED BY <2>1, <2>3
<1>6. ASSUME N % 4 = 0, p <= 2, \A i \in 1..m : text[i] \in Sextets PROVE WellFormed(text)
  <2>1. ASSUME NEW i \in 1..N, text[i] # PadChar PROVE text[i] # Foreign
    <3>1. i \in 1..m \/ i \in (m + 1)..N
      BY <1>1, <1>3, <2>1
    <3>2. i \in 1..m
      BY <1>3, <2>1, <3>1
    <3>3. text[i] \in Sextets
      BY <1>6, <3>2
    <3>. QED BY <3>3, CharactersApart
  <2>2. ASSUME NEW i \in 1..N, text[i] = PadChar PROVE i > N - 2 /\ (i < N => text[i + 1] = PadChar)
    <3>1. i \notin 1..m
      BY <1>6, <2>2, CharactersApart
    <3>2. i > m /\ i > N - 2 /\ (i < N => i + 1 \in (m + 1)..N)
      BY <1>1, <1>2, <1>3, <1>6, <3>1
    <3>. QED BY <1>3, <3>2
  <2>3. N % 4 = 0
    BY <1>6
  <2>. QED BY <1>4, <2>1, <2>2, <2>3, Zenon
<1>. QED BY <1>5, <1>6 DEF N, p, m

-----------------------------------------------------------------------------
(* A bit of a sextet.                                                         *)
BitOf(s, r) == (s \div <<32, 16, 8, 4, 2, 1>>[1 + r]) % 2

(* A sextet, and its parts, by bits.                                          *)
LEMMA SextetBits ==
  ASSUME NEW s \in Sextets
  PROVE  /\ s = BitOf(s, 0) * 32 + BitOf(s, 1) * 16 + BitOf(s, 2) * 8 + BitOf(s, 3) * 4
                + BitOf(s, 4) * 2 + BitOf(s, 5)
         /\ s \div 16 = BitOf(s, 0) * 2 + BitOf(s, 1)
         /\ s % 16 = BitOf(s, 2) * 8 + BitOf(s, 3) * 4 + BitOf(s, 4) * 2 + BitOf(s, 5)
         /\ s \div 4 = BitOf(s, 0) * 8 + BitOf(s, 1) * 4 + BitOf(s, 2) * 2 + BitOf(s, 3)
         /\ s % 4 = BitOf(s, 4) * 2 + BitOf(s, 5)
         /\ \A r \in 0..5 : BitOf(s, r) \in {0, 1}
<1>1. s \in Nat /\ s < 64
  BY CharactersApart
<1>2. /\ BitOf(s, 0) = (s \div 32) % 2 /\ BitOf(s, 1) = (s \div 16) % 2 /\ BitOf(s, 2) = (s \div 8) % 2
      /\ BitOf(s, 3) = (s \div 4) % 2 /\ BitOf(s, 4) = (s \div 2) % 2 /\ BitOf(s, 5) = s % 2
  <2>1. s \div 1 = s
    BY <1>1, SMTT(30)
  <2>. QED BY <2>1 DEF BitOf
<1>3. /\ (s \div 32) % 2 \in {0, 1} /\ (s \div 16) % 2 \in {0, 1} /\ (s \div 8) % 2 \in {0, 1}
      /\ (s \div 4) % 2 \in {0, 1} /\ (s \div 2) % 2 \in {0, 1} /\ s % 2 \in {0, 1}
  BY <1>1, SMTT(30)
<1>4. s = ((s \div 32) % 2) * 32 + ((s \div 16) % 2) * 16 + ((s \div 8) % 2) * 8 + ((s \div 4) % 2) * 4
          + ((s \div 2) % 2) * 2 + (s % 2)
  BY <1>1, SMTT(30)
<1>5. s \div 16 = ((s \div 32) % 2) * 2 + ((s \div 16) % 2)
  BY <1>1, SMTT(30)
<1>6. s % 16 = ((s \div 8) % 2) * 8 + ((s \div 4) % 2) * 4 + ((s \div 2) % 2) * 2 + (s % 2)
  BY <1>1, SMTT(30)
<1>7. s \div 4 = ((s \div 32) % 2) * 8 + ((s \div 16) % 2) * 4 + ((s \div 8) % 2) * 2 + ((s \div 4) % 2)
  BY <1>1, SMTT(30)
<1>8. s % 4 = ((s \div 2) % 2) * 2 + (s % 2)
  BY <1>1, SMTT(30)
<1>9. \A r \in 0..5 : BitOf(s, r) \in {0, 1}
  BY <1>2, <1>3
<1>. QED BY <1>2, <1>4, <1>5, <1>6, <1>7, <1>8, <1>9

(* Four sextets are three octets.                                             *)
LEMMA OctetsOfSextets ==
  ASSUME NEW a \in Sextets, NEW b \in Sextets, NEW c \in Sextets, NEW d \in Sextets, NEW p,
         p = a * 262144 + b * 4096 + c * 64 + d
  PROVE  /\ OctetAt(p, 0) = a * 4 + (b \div 16)
         /\ OctetAt(p, 1) = (b % 16) * 16 + (c \div 4)
         /\ OctetAt(p, 2) = (c % 4) * 64 + d
<1>1. a \in Nat /\ a < 64 /\ b \in Nat /\ b < 64 /\ c \in Nat /\ c < 64 /\ d \in Nat /\ d < 64
  BY CharactersApart
<1>2. OctetAt(p, 0) = (p \div 65536) % 256 /\ OctetAt(p, 1) = (p \div 256) % 256 /\ OctetAt(p, 2) = p % 256
  BY DEF OctetAt
<1>3. p \in Nat
  BY <1>1
<1>4. (p \div 65536) % 256 = a * 4 + (b \div 16)
  BY <1>1, <1>3, SMTT(30)
<1>5. (p \div 256) % 256 = (b % 16) * 16 + (c \div 4)
  BY <1>1, <1>3, SMTT(30)
<1>6. p % 256 = (c % 4) * 64 + d
  BY <1>1, <1>3, SMTT(30)
<1>. QED BY <1>2, <1>4, <1>5, <1>6

(* Where a bit of a text is.                                                  *)
LEMMA PlaceOfBit ==
  ASSUME NEW text, NEW g \in Nat, NEW q \in 0..3, NEW r \in 0..5, NEW n, n = 24 * g + 6 * q + r
  PROVE  Bit(text, n) = BitOf(text[4 * g + q + 1], r)
<1>1. n \div 6 = 4 * g + q /\ n % 6 = r
  BY SMTT(30)
<1>2. 1 + (4 * g + q) = 4 * g + q + 1
  OBVIOUS
<1>. QED BY <1>1, <1>2, Zenon DEF Bit, BitOf

(* As many octets as a text's characters have whole eights of bits.           *)
LEMMA WholeOctets ==
  ASSUME NEW q \in Nat, NEW p \in 0..2, NEW m \in Nat, m = 4 * q - p
  PROVE  Produced(m) = (6 * m) \div 8 /\ Produced(m) = 3 * q - p
<1>1. CASE p = 0
  <2>1. m \div 4 = q /\ m % 4 = 0 /\ (6 * m) \div 8 = 3 * q
    BY <1>1, SMTT(30)
  <2>. QED BY <1>1, <2>1 DEF Produced
<1>2. CASE p = 1
  <2>1. m \div 4 = q - 1 /\ m % 4 = 3 /\ (6 * m) \div 8 = 3 * q - 1
    BY <1>2, SMTT(30)
  <2>. QED BY <1>2, <2>1 DEF Produced
<1>3. CASE p = 2
  <2>1. m \div 4 = q - 1 /\ m % 4 = 2 /\ (6 * m) \div 8 = 3 * q - 2
    BY <1>3, SMTT(30)
  <2>. QED BY <1>3, <2>1 DEF Produced
<1>. QED BY <1>1, <1>2, <1>3

(* The places of a well-formed text that are no padding, and the octets they  *)
(* make.                                                                      *)
LEMMA KeptPlaces ==
  ASSUME NEW text \in Texts, WellFormed(text)
  PROVE  /\ KeptLength(text) \in Nat /\ KeptLength(text) <= Len(text)
         /\ \A i \in 1..KeptLength(text) : text[i] \in Sextets
         /\ Cardinality({i \in DOMAIN text : text[i] # PadChar}) = KeptLength(text)
         /\ \E q \in Nat, p \in 0..2 : KeptLength(text) = 4 * q - p
<1>. DEFINE N == Len(text)  p == Padding(text)  m == KeptLength(text)
<1>1. N \in Nat /\ DOMAIN text = 1..N
  BY LenProperties DEF Texts
<1>2. /\ p \in 0..N /\ m = N - p
      /\ \A i \in (N - p + 1)..N : text[i] = PadChar
  BY PaddingOf DEF KeptLength
<1>3. N % 4 = 0 /\ p <= 2 /\ \A i \in 1..m : text[i] \in Sextets
  BY WellFormedPlaces
<1>. HIDE DEF N, p, m
<1>4. m \in Nat /\ m <= N
  BY <1>1, <1>2
<1>5. {i \in DOMAIN text : text[i] # PadChar} = 1..m
  <2>1. ASSUME NEW i \in 1..m PROVE i \in DOMAIN text /\ text[i] # PadChar
    BY <1>1, <1>3, <1>4, <2>1, CharactersApart
  <2>2. ASSUME NEW i \in DOMAIN text, text[i] # PadChar PROVE i \in 1..m
    <3>1. i \in 1..m \/ i \in (N - p + 1)..N
      BY <1>1, <1>2
    <3>. QED BY <1>2, <2>2, <3>1
  <2>. QED BY <2>1, <2>2
<1>6. Cardinality(1..m) = m
  <2>1. 1 \in Int /\ m \in Int /\ (IF 1 > m THEN 0 ELSE m - 1 + 1) = m
    BY <1>4
  <2>. QED BY <2>1, FS_Interval
<1>7. \E q \in Nat, x \in 0..2 : m = 4 * q - x
  <2>1. N \div 4 \in Nat /\ N = 4 * (N \div 4)
    BY <1>1, <1>3, SMTT(30)
  <2>2. p \in 0..2 /\ m = 4 * (N \div 4) - p
    BY <1>1, <1>2, <1>3, <2>1
  <2>. QED BY <2>1, <2>2
<1>. QED BY <1>3, <1>4, <1>5, <1>6, <1>7 DEF N, m

(* Eight bits of a text.                                                      *)
Eight(text, k) ==
  Bit(text, 8 * k - 8) * 128 + Bit(text, 8 * k - 7) * 64 + Bit(text, 8 * k - 6) * 32
  + Bit(text, 8 * k - 5) * 16 + Bit(text, 8 * k - 4) * 8 + Bit(text, 8 * k - 3) * 4
  + Bit(text, 8 * k - 2) * 2 + Bit(text, 8 * k - 1)

(* Each octet of a group is the eight bits that are its.                      *)
LEMMA EightOfGroup ==
  ASSUME NEW text, NEW g \in Nat, NEW a, NEW b, NEW c, NEW d,
         a = text[4 * g + 1], b = text[4 * g + 2], c = text[4 * g + 3], d = text[4 * g + 4]
  PROVE  /\ a \in Sextets /\ b \in Sextets => Eight(text, 3 * g + 1) = a * 4 + (b \div 16)
         /\ b \in Sextets /\ c \in Sextets => Eight(text, 3 * g + 2) = (b % 16) * 16 + (c \div 4)
         /\ c \in Sextets /\ d \in Sextets => Eight(text, 3 * g + 3) = (c % 4) * 64 + d
<1>1. /\ a = text[4 * g + 0 + 1] /\ b = text[4 * g + 1 + 1]
      /\ c = text[4 * g + 2 + 1] /\ d = text[4 * g + 3 + 1]
  <2>1. /\ 4 * g + 0 + 1 = 4 * g + 1 /\ 4 * g + 1 + 1 = 4 * g + 2
        /\ 4 * g + 2 + 1 = 4 * g + 3 /\ 4 * g + 3 + 1 = 4 * g + 4
    OBVIOUS
  <2>. QED BY <2>1
<1>2. ASSUME a \in Sextets, b \in Sextets PROVE Eight(text, 3 * g + 1) = a * 4 + (b \div 16)
  <2>. DEFINE k == 3 * g + 1
  <2>1. /\ 8 * k - 8 = 24 * g + 6 * 0 + 0 /\ 8 * k - 7 = 24 * g + 6 * 0 + 1
        /\ 8 * k - 6 = 24 * g + 6 * 0 + 2 /\ 8 * k - 5 = 24 * g + 6 * 0 + 3
        /\ 8 * k - 4 = 24 * g + 6 * 0 + 4 /\ 8 * k - 3 = 24 * g + 6 * 0 + 5
        /\ 8 * k - 2 = 24 * g + 6 * 1 + 0 /\ 8 * k - 1 = 24 * g + 6 * 1 + 1
    OBVIOUS
  <2>. HIDE DEF k
  <2>2. /\ Bit(text, 8 * k - 8) = BitOf(a, 0) /\ Bit(text, 8 * k - 7) = BitOf(a, 1)
        /\ Bit(text, 8 * k - 6) = BitOf(a, 2) /\ Bit(text, 8 * k - 5) = BitOf(a, 3)
        /\ Bit(text, 8 * k - 4) = BitOf(a, 4) /\ Bit(text, 8 * k - 3) = BitOf(a, 5)
        /\ Bit(text, 8 * k - 2) = BitOf(b, 0) /\ Bit(text, 8 * k - 1) = BitOf(b, 1)
    BY <1>1, <2>1, PlaceOfBit
  <2>3. /\ a = BitOf(a, 0) * 32 + BitOf(a, 1) * 16 + BitOf(a, 2) * 8 + BitOf(a, 3) * 4
               + BitOf(a, 4) * 2 + BitOf(a, 5)
        /\ b \div 16 = BitOf(b, 0) * 2 + BitOf(b, 1)
        /\ \A r \in 0..5 : BitOf(a, r) \in {0, 1} /\ BitOf(b, r) \in {0, 1}
    BY <1>2, SextetBits
  <2>4. Eight(text, k) =
          BitOf(a, 0) * 128 + BitOf(a, 1) * 64 + BitOf(a, 2) * 32 + BitOf(a, 3) * 16
          + BitOf(a, 4) * 8 + BitOf(a, 5) * 4 + BitOf(b, 0) * 2 + BitOf(b, 1)
    BY <2>2 DEF Eight
  <2>. QED BY <2>3, <2>4 DEF k
<1>3. ASSUME b \in Sextets, c \in Sextets PROVE Eight(text, 3 * g + 2) = (b % 16) * 16 + (c \div 4)
  <2>. DEFINE k == 3 * g + 2
  <2>1. /\ 8 * k - 8 = 24 * g + 6 * 1 + 2 /\ 8 * k - 7 = 24 * g + 6 * 1 + 3
        /\ 8 * k - 6 = 24 * g + 6 * 1 + 4 /\ 8 * k - 5 = 24 * g + 6 * 1 + 5
        /\ 8 * k - 4 = 24 * g + 6 * 2 + 0 /\ 8 * k - 3 = 24 * g + 6 * 2 + 1
        /\ 8 * k - 2 = 24 * g + 6 * 2 + 2 /\ 8 * k - 1 = 24 * g + 6 * 2 + 3
    OBVIOUS
  <2>. HIDE DEF k
  <2>2. /\ Bit(text, 8 * k - 8) = BitOf(b, 2) /\ Bit(text, 8 * k - 7) = BitOf(b, 3)
        /\ Bit(text, 8 * k - 6) = BitOf(b, 4) /\ Bit(text, 8 * k - 5) = BitOf(b, 5)
        /\ Bit(text, 8 * k - 4) = BitOf(c, 0) /\ Bit(text, 8 * k - 3) = BitOf(c, 1)
        /\ Bit(text, 8 * k - 2) = BitOf(c, 2) /\ Bit(text, 8 * k - 1) = BitOf(c, 3)
    BY <1>1, <2>1, PlaceOfBit
  <2>3. /\ b % 16 = BitOf(b, 2) * 8 + BitOf(b, 3) * 4 + BitOf(b, 4) * 2 + BitOf(b, 5)
        /\ c \div 4 = BitOf(c, 0) * 8 + BitOf(c, 1) * 4 + BitOf(c, 2) * 2 + BitOf(c, 3)
        /\ \A r \in 0..5 : BitOf(b, r) \in {0, 1} /\ BitOf(c, r) \in {0, 1}
    BY <1>3, SextetBits
  <2>4. Eight(text, k) =
          BitOf(b, 2) * 128 + BitOf(b, 3) * 64 + BitOf(b, 4) * 32 + BitOf(b, 5) * 16
          + BitOf(c, 0) * 8 + BitOf(c, 1) * 4 + BitOf(c, 2) * 2 + BitOf(c, 3)
    BY <2>2 DEF Eight
  <2>. QED BY <2>3, <2>4 DEF k
<1>4. ASSUME c \in Sextets, d \in Sextets PROVE Eight(text, 3 * g + 3) = (c % 4) * 64 + d
  <2>. DEFINE k == 3 * g + 3
  <2>1. /\ 8 * k - 8 = 24 * g + 6 * 2 + 4 /\ 8 * k - 7 = 24 * g + 6 * 2 + 5
        /\ 8 * k - 6 = 24 * g + 6 * 3 + 0 /\ 8 * k - 5 = 24 * g + 6 * 3 + 1
        /\ 8 * k - 4 = 24 * g + 6 * 3 + 2 /\ 8 * k - 3 = 24 * g + 6 * 3 + 3
        /\ 8 * k - 2 = 24 * g + 6 * 3 + 4 /\ 8 * k - 1 = 24 * g + 6 * 3 + 5
    OBVIOUS
  <2>. HIDE DEF k
  <2>2. /\ Bit(text, 8 * k - 8) = BitOf(c, 4) /\ Bit(text, 8 * k - 7) = BitOf(c, 5)
        /\ Bit(text, 8 * k - 6) = BitOf(d, 0) /\ Bit(text, 8 * k - 5) = BitOf(d, 1)
        /\ Bit(text, 8 * k - 4) = BitOf(d, 2) /\ Bit(text, 8 * k - 3) = BitOf(d, 3)
        /\ Bit(text, 8 * k - 2) = BitOf(d, 4) /\ Bit(text, 8 * k - 1) = BitOf(d, 5)
    BY <1>1, <2>1, PlaceOfBit
  <2>3. /\ c % 4 = BitOf(c, 4) * 2 + BitOf(c, 5)
        /\ d = BitOf(d, 0) * 32 + BitOf(d, 1) * 16 + BitOf(d, 2) * 8 + BitOf(d, 3) * 4
               + BitOf(d, 4) * 2 + BitOf(d, 5)
        /\ \A r \in 0..5 : BitOf(c, r) \in {0, 1} /\ BitOf(d, r) \in {0, 1}
    BY <1>4, SextetBits
  <2>4. Eight(text, k) =
          BitOf(c, 4) * 128 + BitOf(c, 5) * 64 + BitOf(d, 0) * 32 + BitOf(d, 1) * 16
          + BitOf(d, 2) * 8 + BitOf(d, 3) * 4 + BitOf(d, 4) * 2 + BitOf(d, 5)
    BY <2>2 DEF Eight
  <2>. QED BY <2>3, <2>4 DEF k
<1>. QED BY <1>2, <1>3, <1>4

(* Every octet read is eight of the text's bits.                              *)
LEMMA OctetsOfText ==
  ASSUME NEW text \in Texts, WellFormed(text), NEW body, body = SubSeq(text, 1, KeptLength(text))
  PROVE  /\ Len(body) = KeptLength(text) /\ \A i \in DOMAIN body : body[i] \in Sextets
         /\ Unpacked(body) = [k \in 1..Produced(KeptLength(text)) |-> Eight(text, k)]
         /\ Unpacked(body) \in Seq(Octets)
<1>. DEFINE m == KeptLength(text)
<1>1. /\ m \in Nat /\ m <= Len(text) /\ Len(text) \in Nat
      /\ \A i \in 1..m : text[i] \in Sextets
  BY KeptPlaces, LenProperties DEF Texts
<1>2. PICK q \in Nat, p \in 0..2 : m = 4 * q - p
  BY KeptPlaces
<1>. HIDE DEF m
<1>3. Produced(m) = 3 * q - p
  BY <1>1, <1>2, WholeOctets
<1>4. Len(body) = m /\ DOMAIN body = 1..m /\ \A i \in 1..m : body[i] = text[i]
  <2>1. body = SubSeq(text, 1, m)
    BY DEF m
  <2>. QED BY <1>1, <2>1, FirstPlaces DEF Texts
<1>5. ASSUME NEW i \in Nat, i # 0
      PROVE  Value(body, i) \in Sextets /\ (i <= m => Value(body, i) = text[i] /\ text[i] \in Sextets)
  <2>1. Value(body, i) = IF i <= m THEN body[i] ELSE 0
    BY <1>4 DEF Value
  <2>2. CASE i <= m
    <3>1. i \in 1..m
      BY <1>1, <1>5, <2>2
    <3>. QED BY <1>1, <1>4, <2>1, <2>2, <3>1
  <2>3. CASE ~(i <= m)
    BY <2>1, <2>3 DEF Sextets
  <2>. QED BY <2>2, <2>3
<1>6. ASSUME NEW k \in 1..Produced(m)
      PROVE  /\ OctetAt(Gathered(body, (k - 1) \div 3), (k - 1) % 3) = Eight(text, k)
             /\ Eight(text, k) \in Octets
  <2>. DEFINE g == (k - 1) \div 3  place == (k - 1) % 3
              a == Value(body, 4 * g + 1)  b == Value(body, 4 * g + 2)
              c == Value(body, 4 * g + 3)  d == Value(body, 4 * g + 4)
              packed == Gathered(body, g)
  <2>1. k \in Nat /\ k # 0 /\ k <= 3 * q - p
    BY <1>2, <1>3
  <2>2. g \in Nat /\ place \in {0, 1, 2} /\ k = 3 * g + place + 1
    BY <2>1, SMTT(30)
  <2>3. packed = a * 262144 + b * 4096 + c * 64 + d
    BY DEF Gathered
  <2>. HIDE DEF g, place, packed
  <2>4. /\ 4 * g + 1 \in Nat /\ 4 * g + 1 # 0 /\ 4 * g + 2 \in Nat /\ 4 * g + 2 # 0
        /\ 4 * g + 3 \in Nat /\ 4 * g + 3 # 0 /\ 4 * g + 4 \in Nat /\ 4 * g + 4 # 0
    BY <2>2
  <2>5. a \in Sextets /\ b \in Sextets /\ c \in Sextets /\ d \in Sextets
    BY <1>5, <2>4
  <2>. DEFINE u == text[4 * g + 1]  v == text[4 * g + 2]  w == text[4 * g + 3]  x == text[4 * g + 4]
  <2>6. /\ (4 * g + 1 <= m => a = u) /\ (4 * g + 2 <= m => b = v)
        /\ (4 * g + 3 <= m => c = w) /\ (4 * g + 4 <= m => d = x)
    BY <1>5, <2>4
  <2>. HIDE DEF a, b, c, d
  <2>7. /\ OctetAt(packed, 0) = a * 4 + (b \div 16)
        /\ OctetAt(packed, 1) = (b % 16) * 16 + (c \div 4)
        /\ OctetAt(packed, 2) = (c % 4) * 64 + d
    BY <2>3, <2>5, OctetsOfSextets
  <2>8. /\ u \in Sextets /\ v \in Sextets => Eight(text, 3 * g + 1) = u * 4 + (v \div 16)
        /\ v \in Sextets /\ w \in Sextets => Eight(text, 3 * g + 2) = (v % 16) * 16 + (w \div 4)
        /\ w \in Sextets /\ x \in Sextets => Eight(text, 3 * g + 3) = (w % 4) * 64 + x
    BY <2>2, EightOfGroup
  <2>. HIDE DEF u, v, w, x
  <2>9. OctetAt(packed, place) = Eight(text, k)
    <3>1. CASE place = 0
      <4>1. k = 3 * g + 1 /\ 4 * g + 1 <= m /\ 4 * g + 2 <= m
        BY <1>2, <2>1, <2>2, <3>1
      <4>2. a = u /\ b = v
        BY <2>6, <4>1
      <4>. QED BY <2>5, <2>7, <2>8, <3>1, <4>1, <4>2
    <3>2. CASE place = 1
      <4>1. k = 3 * g + 2 /\ 4 * g + 2 <= m /\ 4 * g + 3 <= m
        BY <1>2, <2>1, <2>2, <3>2
      <4>2. b = v /\ c = w
        BY <2>6, <4>1
      <4>. QED BY <2>5, <2>7, <2>8, <3>2, <4>1, <4>2
    <3>3. CASE place = 2
      <4>1. k = 3 * g + 3 /\ 4 * g + 3 <= m /\ 4 * g + 4 <= m
        BY <1>2, <2>1, <2>2, <3>3
      <4>2. c = w /\ d = x
        BY <2>6, <4>1
      <4>. QED BY <2>5, <2>7, <2>8, <3>3, <4>1, <4>2
    <3>. QED BY <2>2, <3>1, <3>2, <3>3
  <2>10. OctetAt(packed, place) \in Octets
    <3>1. a \in Nat /\ b \in Nat /\ c \in Nat /\ d \in Nat
      BY <2>5, CharactersApart
    <3>2. packed \in Nat
      BY <2>3, <3>1
    <3>3. OctetAt(packed, place) \in 0..255
      <4>1. (packed \div 65536) % 256 \in 0..255 /\ (packed \div 256) % 256 \in 0..255 /\ packed % 256 \in 0..255
        BY <3>2, SMTT(30)
      <4>. QED BY <4>1 DEF OctetAt
    <3>. QED BY <3>3 DEF Octets
  <2>. QED BY <2>9, <2>10 DEF packed, g, place
<1>7. Unpacked(body) = [k \in 1..Produced(m) |-> Eight(text, k)]
  <2>1. Unpacked(body) = [k \in 1..Produced(m) |-> OctetAt(Gathered(body, (k - 1) \div 3), (k - 1) % 3)]
    BY <1>4 DEF Unpacked
  <2>. QED BY <1>6, <2>1
<1>8. Unpacked(body) \in Seq(Octets)
  <2>1. Produced(m) \in Nat
    BY <1>1, <1>2, <1>3
  <2>2. Unpacked(body) \in [1..Produced(m) -> Octets]
    BY <1>6, <1>7
  <2>. QED BY <2>1, <2>2
<1>. QED BY <1>1, <1>4, <1>7, <1>8 DEF m

(* base64_decode is strict: it reads a text for what RFC 4648 says it stands  *)
(* for, or not at all.                                                        *)
LEMMA TextsRead ==
  ASSUME NEW text \in Texts
  PROVE  Base64Decode(text) = StandsFor(text) /\ Base64Decode(text) \in Seq(Octets) \cup {NoValue}
<1>. DEFINE m == KeptLength(text)  p == Padding(text)  body == SubSeq(text, 1, m)
            chars == {i \in DOMAIN text : text[i] # PadChar}
            meant == [k \in 1..((6 * Cardinality(chars)) \div 8) |-> Eight(text, k)]
<1>1. StandsFor(text) = IF WellFormed(text) THEN meant ELSE NoValue
  BY DEF StandsFor, WellFormed, Eight
<1>2. Base64Decode(text) =
        IF text = <<>> THEN <<>>
        ELSE IF \/ Len(text) % 4 # 0 \/ p > 2 \/ \E i \in DOMAIN body : body[i] \in {PadChar, Foreign}
             THEN NoValue ELSE Unpacked(body)
  BY DEF Base64Decode, KeptLength
<1>3. /\ p \in 0..Len(text) /\ m = Len(text) - p /\ Len(text) \in Nat /\ m \in Nat /\ m <= Len(text)
      /\ \A i \in 1..Len(text) : text[i] \in Sextets \cup {PadChar, Foreign}
  <2>1. p \in 0..Len(text) /\ m = Len(text) - p
    BY PaddingOf DEF KeptLength
  <2>2. Len(text) \in Nat /\ \A i \in 1..Len(text) : text[i] \in Sextets \cup {PadChar, Foreign}
    BY LenProperties, ElementOfSeq DEF Texts
  <2>. QED BY <2>1, <2>2
<1>4. WellFormed(text) <=> Len(text) % 4 = 0 /\ p <= 2 /\ \A i \in 1..m : text[i] \in Sextets
  BY WellFormedPlaces
<1>5. DOMAIN body = 1..m /\ \A i \in 1..m : body[i] = text[i]
  BY <1>3, FirstPlaces DEF Texts
<1>6. CASE WellFormed(text)
  <2>1. /\ Len(body) = m /\ \A i \in DOMAIN body : body[i] \in Sextets
        /\ Unpacked(body) = [k \in 1..Produced(m) |-> Eight(text, k)]
        /\ Unpacked(body) \in Seq(Octets)
    BY <1>6, OctetsOfText
  <2>2. Cardinality(chars) = m
    BY <1>6, KeptPlaces
  <2>3. PICK q \in Nat, x \in 0..2 : m = 4 * q - x
    BY <1>6, KeptPlaces
  <2>. HIDE DEF m, p, body, chars
  <2>4. Produced(m) = (6 * m) \div 8 /\ Produced(m) = 3 * q - x
    BY <1>3, <2>3, WholeOctets
  <2>5. Unpacked(body) = meant
    BY <2>1, <2>2, <2>4
  <2>. HIDE DEF meant
  <2>6. ~ \E i \in DOMAIN body : body[i] \in {PadChar, Foreign}
    BY <2>1, CharactersApart
  <2>7. CASE text = <<>>
    <3>1. m = 0
      BY <1>3, <2>7, EmptySeq
    <3>2. x = 0 /\ q = 0
      BY <2>3, <3>1
    <3>3. Produced(m) = 0
      BY <2>4, <3>2
    <3>4. Unpacked(body) = <<>>
      <4>1. Unpacked(body) = [k \in 1..0 |-> Eight(text, k)]
        BY <2>1, <3>3
      <4>2. [k \in 1..0 |-> Eight(text, k)] = <<>>
        OBVIOUS
      <4>. QED BY <4>1, <4>2
    <3>. QED BY <1>1, <1>2, <1>6, <2>1, <2>5, <2>7, <3>4
  <2>8. CASE text # <<>>
    <3>1. Base64Decode(text) = Unpacked(body)
      BY <1>2, <1>3, <1>4, <1>6, <2>6, <2>8
    <3>. QED BY <1>1, <1>6, <2>1, <2>5, <3>1
  <2>. QED BY <2>7, <2>8
<1>7. CASE ~WellFormed(text)
  <2>1. text # <<>>
    <3>1. SUFFICES ASSUME text = <<>> PROVE FALSE
      OBVIOUS
    <3>2. Len(text) = 0 /\ 0 % 4 = 0 /\ 1..0 = {}
      BY <3>1, EmptySeq, SMTT(30)
    <3>3. p = 0 /\ m = 0
      BY <1>3, <3>2
    <3>. QED BY <1>4, <1>7, <3>2, <3>3
  <2>. HIDE DEF m, p, body
  <2>2. \/ Len(text) % 4 # 0 \/ p > 2 \/ \E i \in DOMAIN body : body[i] \in {PadChar, Foreign}
    <3>1. SUFFICES ASSUME Len(text) % 4 = 0, p <= 2
                   PROVE  \E i \in DOMAIN body : body[i] \in {PadChar, Foreign}
      BY <1>3
    <3>2. PICK i \in 1..m : text[i] \notin Sextets
      BY <1>4, <1>7, <3>1
    <3>3. i \in 1..Len(text)
      BY <1>3
    <3>4. text[i] \in {PadChar, Foreign}
      BY <1>3, <3>2, <3>3
    <3>. QED BY <1>5, <3>2, <3>4
  <2>3. Base64Decode(text) = NoValue
    BY <1>2, <2>1, <2>2
  <2>. QED BY <1>1, <1>7, <2>3
<1>. QED BY <1>6, <1>7

(* An encoded text is a value, and of a name it is not empty.                 *)
LEMMA RawIsGiven ==
  ASSUME NEW bytes \in Seq(Octets), bytes # <<>>
  PROVE  Base64Encode(bytes) \notin {NoValue, <<>>}
<1>. DEFINE text == Base64Encode(bytes)  N == 4 * Groups(bytes)
<1>1. Groups(bytes) \in Nat /\ Len(bytes) \in Nat
  BY GroupsOfBytes
<1>2. Len(text) = N /\ DOMAIN text = 1..N
  BY TextCharacters
<1>3. ASSUME NEW i \in 1..N PROVE text[i] \in Nat \cup {PadChar}
  <2>1. i \in Nat /\ i # 0 /\ i <= N
    BY <1>1
  <2>. QED BY <1>1, <2>1, KeptCharacters
<1>4. text = [c \in 1..N |-> Character(bytes, (c - 1) \div 4, (c - 1) % 4)]
  BY DEF Base64Encode
<1>. HIDE DEF text, N
<1>5. N \in Nat
  BY <1>1 DEF N
<1>6. text \in [1..N -> Nat \cup {PadChar}]
  BY <1>3, <1>4
<1>7. text \in Seq(Nat \cup {PadChar, Foreign})
  BY <1>5, <1>6
<1>8. text # NoValue
  BY <1>7, NamingAssumption
<1>9. text # <<>>
  BY DecodedAgain DEF text
<1>. QED BY <1>8, <1>9 DEF text

-----------------------------------------------------------------------------
(* What the check of the names finds *)

(* The raw form a check works with, and what is in it.                        *)
Given(raw) == raw \notin {NoValue, <<>>}
Reads(raw) == IF Given(raw) THEN Base64Decode(raw) ELSE NoValue
(* A pair in which there is nothing to find.                                  *)
Sound(display, raw) ==
  /\ ~HasLowercaseEscape(display)
  /\ ~Given(raw) => Escapes(display) = {}
  /\ Given(raw) => /\ Reads(raw) # NoValue /\ NeedsRawForm(Reads(raw))
                   /\ RecordedName(Reads(raw)).display = display

LEMMA NothingToFind ==
  ASSUME NEW display, NEW raw, display # NoValue
  PROVE  ReportName(display, raw) = {} <=> Sound(display, raw)
<1>. DEFINE bytes == Reads(raw)
            read == Given(raw) /\ bytes # NoValue
            findings == [LowercaseNameEscape |-> HasLowercaseEscape(display),
                      MissingRawName |-> ~Given(raw) /\ Escapes(display) # {},
                      MalformedRawName |-> Given(raw) /\ bytes = NoValue,
                      RedundantRawName |-> read /\ ~NeedsRawForm(bytes),
                      ContradictoryRawName |-> read /\ RecordedName(bytes).display # display]
<1>1. ReportName(display, raw) = {kind \in DOMAIN findings : findings[kind]}
  BY DEF ReportName, Given, Reads
<1>2. DOMAIN findings = {"LowercaseNameEscape", "MissingRawName", "MalformedRawName",
                      "RedundantRawName", "ContradictoryRawName"}
  OBVIOUS
<1>3. /\ findings["LowercaseNameEscape"] <=> HasLowercaseEscape(display)
      /\ findings["MissingRawName"] <=> ~Given(raw) /\ Escapes(display) # {}
      /\ findings["MalformedRawName"] <=> Given(raw) /\ bytes = NoValue
      /\ findings["RedundantRawName"] <=> read /\ ~NeedsRawForm(bytes)
      /\ findings["ContradictoryRawName"] <=> read /\ RecordedName(bytes).display # display
  BY Zenon
<1>. HIDE DEF findings
<1>4. ReportName(display, raw) = {} <=>
        /\ ~findings["LowercaseNameEscape"] /\ ~findings["MissingRawName"] /\ ~findings["MalformedRawName"]
        /\ ~findings["RedundantRawName"] /\ ~findings["ContradictoryRawName"]
  BY <1>1, <1>2, Zenon
<1>. QED BY <1>3, <1>4, Zenon DEF Sound

(* A name that needed its raw form leaves an escape; one that did not has no  *)
(* percent sign.                                                              *)
LEMMA EscapesOfName ==
  ASSUME NEW bytes \in Seq(Octets)
  PROVE  /\ NeedsRawForm(bytes) => Escapes(DisplayForm(bytes)) # {} /\ ~HasLowercaseEscape(DisplayForm(bytes))
         /\ ~NeedsRawForm(bytes) => Escapes(bytes) = {} /\ ~HasLowercaseEscape(bytes)
<1>1. Len(bytes) \in Nat /\ DOMAIN bytes = 1..Len(bytes) /\ \A i \in 1..Len(bytes) : bytes[i] \in Octets
  BY LenProperties, ElementOfSeq
<1>2. ASSUME NeedsRawForm(bytes)
      PROVE  Escapes(DisplayForm(bytes)) # {} /\ ~HasLowercaseEscape(DisplayForm(bytes))
  <2>. DEFINE d == DisplayForm(bytes)
  <2>1. \E k \in 1..Len(bytes) : IsEscaped(bytes[k])
    <3>1. ASSUME \A k \in 1..Len(bytes) : ~IsEscaped(bytes[k]) PROVE FALSE
      <4>1. \A x \in Octets : ~IsEscaped(x) => x < 128 /\ ~(x <= 31) /\ x # Percent /\ x # 127
        BY DEF Octets, IsEscaped, Percent
      <4>2. \A k \in 1..Len(bytes) : bytes[k] < 128 /\ ~(bytes[k] <= 31) /\ bytes[k] # Percent /\ bytes[k] # 127
        BY <1>1, <3>1, <4>1
      <4>3. IsUtf8(bytes)
        BY <4>2, SmallBytesAreUtf8
      <4>. QED BY <1>1, <1>2, <4>2, <4>3 DEF NeedsRawForm
    <3>. QED BY <3>1
  <2>2. PercentsTell(bytes)
    BY DisplayedPercents
  <2>3. /\ d \in Seq(Octets)
        /\ \A i \in 1..Len(d) : d[i] = Percent =>
             i + 2 <= Len(d) /\ d[i + 1] \in Capitals /\ d[i + 2] \in Capitals
        /\ \E i \in 1..Len(d) : d[i] = Percent
    BY <2>1, <2>2 DEF PercentsTell
  <2>. HIDE DEF d
  <2>4. Len(d) \in Nat
    BY <2>3, LenProperties
  <2>5. \A c \in Capitals : IsHex(c) /\ c \notin 97..102
    BY DEF Capitals, IsHex
  <2>6. PICK i \in 1..Len(d) : d[i] = Percent
    BY <2>3
  <2>7. i \in 1..(Len(d) - 2)
    BY <2>3, <2>4, <2>6
  <2>8. EscapeAt(d, i)
    BY <2>3, <2>5, <2>6 DEF EscapeAt
  <2>9. i \in Escapes(d)
    BY <2>7, <2>8 DEF Escapes
  <2>10. ASSUME NEW j \in Escapes(d) PROVE {d[j + 1], d[j + 2]} \cap (97..102) = {}
    <3>1. j \in 1..Len(d) /\ d[j] = Percent
      BY <2>4 DEF Escapes, EscapeAt
    <3>2. d[j + 1] \in Capitals /\ d[j + 2] \in Capitals
      BY <2>3, <3>1
    <3>. QED BY <2>5, <3>2
  <2>11. ~HasLowercaseEscape(d)
    BY <2>10 DEF HasLowercaseEscape
  <2>. QED BY <2>9, <2>11 DEF d
<1>3. ASSUME ~NeedsRawForm(bytes) PROVE Escapes(bytes) = {} /\ ~HasLowercaseEscape(bytes)
  <2>1. \A i \in 1..Len(bytes) : bytes[i] # Percent
    BY <1>1, <1>3 DEF NeedsRawForm
  <2>2. ASSUME NEW i \in Escapes(bytes) PROVE FALSE
    <3>1. i \in 1..Len(bytes) /\ bytes[i] = Percent
      BY <1>1 DEF Escapes, EscapeAt
    <3>. QED BY <2>1, <3>1
  <2>. QED BY <2>2 DEF HasLowercaseEscape
<1>. QED BY <1>2, <1>3

(* A name, and what is displayed of it, is a value.                           *)
LEMMA NamesAreValues ==
  ASSUME NEW bytes \in Seq(Octets)
  PROVE  bytes # NoValue /\ DisplayForm(bytes) # NoValue /\ DisplayForm(bytes) \in Seq(Octets)
<1>1. Octets \subseteq Nat \cup {PadChar, Foreign}
  BY OctetBound
<1>2. \A s \in Seq(Octets) : s # NoValue
  <2>. TAKE s \in Seq(Octets)
  <2>1. s \in Seq(Nat \cup {PadChar, Foreign})
    BY <1>1, SeqMonotonic
  <2>. QED BY <2>1, NamingAssumption
<1>3. DisplayForm(bytes) \in Seq(Octets)
  BY DisplayedPercents DEF PercentsTell
<1>. QED BY <1>2, <1>3

(* Of a name as it was recorded there is nothing to find.                     *)
LEMMA RecordedIsSound ==
  ASSUME NEW bytes \in Seq(Octets)
  PROVE  LET name == RecordedName(bytes) IN ReportName(name.display, name.raw) = {}
<1>1. CASE NeedsRawForm(bytes)
  <2>. DEFINE d == DisplayForm(bytes)  raw == Base64Encode(bytes)
  <2>1. RecordedName(bytes).display = d /\ RecordedName(bytes).raw = raw
    BY <1>1 DEF RecordedName
  <2>2. bytes # <<>>
    <3>1. SUFFICES ASSUME bytes = <<>> PROVE FALSE
      OBVIOUS
    <3>2. DOMAIN bytes = {}
      BY <3>1
    <3>. QED BY <1>1, <3>2 DEF NeedsRawForm, IsUtf8
  <2>3. Given(raw) /\ Base64Decode(raw) = bytes
    BY <2>2, RawIsGiven, DecodedAgain DEF Given
  <2>4. Reads(raw) = bytes
    BY <2>3 DEF Reads
  <2>5. ~HasLowercaseEscape(d) /\ d # NoValue /\ bytes # NoValue
    BY <1>1, EscapesOfName, NamesAreValues
  <2>. HIDE DEF d, raw
  <2>6. Sound(d, raw)
    BY <1>1, <2>1, <2>3, <2>4, <2>5 DEF Sound
  <2>. QED BY <2>1, <2>5, <2>6, NothingToFind
<1>2. CASE ~NeedsRawForm(bytes)
  <2>1. RecordedName(bytes).display = bytes /\ RecordedName(bytes).raw = NoValue
    BY <1>2 DEF RecordedName
  <2>2. ~Given(NoValue)
    BY DEF Given
  <2>3. ~HasLowercaseEscape(bytes) /\ Escapes(bytes) = {} /\ bytes # NoValue
    BY <1>2, EscapesOfName, NamesAreValues
  <2>4. Sound(bytes, NoValue)
    BY <2>2, <2>3 DEF Sound
  <2>. QED BY <2>1, <2>3, <2>4, NothingToFind
<1>. QED BY <1>1, <1>2

(* A raw form with which a displayed name passes the check is of that name.   *)
LEMMA SoundIsTrue ==
  ASSUME NEW bytes \in Seq(Octets), NeedsRawForm(bytes), NEW raw \in Texts \cup {NoValue},
         ReportName(DisplayForm(bytes), raw) = {}
  PROVE  Given(raw) /\ Base64Decode(raw) = bytes
<1>1. Sound(DisplayForm(bytes), raw)
  BY NothingToFind, NamesAreValues
<1>2. Given(raw)
  BY <1>1, EscapesOfName DEF Sound
<1>3. raw \in Texts
  BY <1>2 DEF Given
<1>. DEFINE other == Base64Decode(raw)
<1>4. Reads(raw) = other
  BY <1>2 DEF Reads
<1>5. other # NoValue /\ NeedsRawForm(other) /\ RecordedName(other).display = DisplayForm(bytes)
  BY <1>1, <1>2, <1>4 DEF Sound
<1>6. other \in Seq(Octets)
  BY <1>3, <1>5, TextsRead
<1>7. RecordedName(other).display = DisplayForm(other)
  BY <1>5 DEF RecordedName
<1>8. other = bytes
  BY <1>5, <1>6, <1>7, DisplayTells
<1>. QED BY <1>2, <1>8

-----------------------------------------------------------------------------
(* The record of the file is what RecordFile made of it, but for one property *)
(* that may have been altered; what has been told and read is of the record   *)
(* as it is.                                                                  *)
RecordOf(f) ==
  LET path == RecordedName(f.path)
      last == RecordedName(LastComponent(f.path))
  IN [originalPathName |-> path.display, originalPathNameRaw |-> path.raw,
      fileName |-> last.display, fileNameRaw |-> last.raw,
      dataStream |-> Base64Encode(f.content)]
Properties == {"originalPathName", "originalPathNameRaw", "fileName", "fileNameRaw", "dataStream"}

Nothing == altered = NoValue /\ told = NotTold /\ recovered = NotRead /\ resident = NotRead
OfTheFile ==
  /\ DOMAIN record = Properties /\ altered \in Properties \cup {NoValue}
  /\ \A property \in Properties : property # altered => record[property] = RecordOf(named)[property]
  /\ \A property \in Encoded : record[property] \in Texts \cup {NoValue}
WhatIsTold ==
  ReportName(record.fileName, record.fileNameRaw)
  \cup ReportName(record.originalPathName, record.originalPathNameRaw)
WhatIsRecovered ==
  [ok |-> TRUE, data |-> IF RecordedPathBytes # NoValue THEN RecordedPathBytes ELSE RecordedPath]
OfTheRecord ==
  /\ told \in {NotTold, WhatIsTold}
  /\ recovered \in {NotRead, WhatIsRecovered}
  /\ altered = NoValue => resident \in {NotRead, [ok |-> TRUE, data |-> named.content]}
NamesInv ==
  /\ named \in FilesNamed
  /\ record = Unrecorded => Nothing
  /\ record # Unrecorded => OfTheFile /\ OfTheRecord

(* The parts of a file, and of its record.                                    *)
FileParts(f) ==
  /\ f.path \in Seq(Octets) /\ f.path # <<>> /\ f.path # NoValue
  /\ f.content \in Seq(Octets) /\ f.content # NoValue
  /\ LastComponent(f.path) \in Seq(Octets)
  /\ NeedsRawForm(LastComponent(f.path)) => NeedsRawForm(f.path)
LEMMA PartsOfFile ==
  ASSUME NEW f \in FilesNamed
  PROVE  FileParts(f)
<1>1. f.path \in Seq(Octets) /\ f.path # <<>> /\ f.content \in Seq(Octets)
  BY NamingAssumption DEF Octets
<1>2. f.path # NoValue /\ f.content # NoValue
  BY <1>1, NamesAreValues
<1>. QED BY <1>1, <1>2, ComponentNeedsNoMore DEF FileParts

(* A text that was encoded is a text.                                         *)
LEMMA EncodedIsText ==
  ASSUME NEW bytes \in Seq(Octets)
  PROVE  Base64Encode(bytes) \in Texts
<1>. DEFINE N == 4 * Groups(bytes)
<1>1. Groups(bytes) \in Nat
  <2>1. Len(bytes) \in Nat
    BY LenProperties
  <2>. QED BY <2>1, SMTT(30) DEF Groups
<1>2. ASSUME NEW g \in Nat, NEW place PROVE Character(bytes, g, place) \in Sextets \cup {PadChar, Foreign}
  <2>1. /\ 3 * g + 1 \in Nat /\ 3 * g + 1 # 0 /\ 3 * g + 2 \in Nat /\ 3 * g + 2 # 0
        /\ 3 * g + 3 \in Nat /\ 3 * g + 3 # 0
    OBVIOUS
  <2>2. /\ Octet(bytes, 3 * g + 1) \in Nat /\ Octet(bytes, 3 * g + 2) \in Nat
        /\ Octet(bytes, 3 * g + 3) \in Nat
    BY <2>1, GroupOctets
  <2>3. Packed(bytes, g) \in Nat
    BY <2>2 DEF Packed
  <2>4. \A p \in Nat : /\ (p \div 262144) % 64 \in 0..63 /\ (p \div 4096) % 64 \in 0..63
                       /\ (p \div 64) % 64 \in 0..63 /\ p % 64 \in 0..63
    BY SMTT(30)
  <2>5. Sextet(Packed(bytes, g), place) \in Sextets
    BY <2>3, <2>4 DEF Sextet, Sextets
  <2>. QED BY <2>5 DEF Character
<1>3. \A c \in 1..N : (c - 1) \div 4 \in Nat
  BY SMTT(30)
<1>4. Base64Encode(bytes) = [c \in 1..N |-> Character(bytes, (c - 1) \div 4, (c - 1) % 4)]
  BY DEF Base64Encode
<1>. HIDE DEF N
<1>5. Base64Encode(bytes) \in [1..N -> Sextets \cup {PadChar, Foreign}]
  BY <1>2, <1>3, <1>4
<1>6. N \in Nat
  BY <1>1 DEF N
<1>. QED BY <1>5, <1>6 DEF Texts

(* A record just made is of its file.                                         *)
LEMMA RecordParts ==
  ASSUME NEW f \in FilesNamed
  PROVE  /\ DOMAIN RecordOf(f) = Properties
         /\ \A property \in Encoded : RecordOf(f)[property] \in Texts \cup {NoValue}
<1>. DEFINE path == RecordedName(f.path)  last == RecordedName(LastComponent(f.path))
<1>1. FileParts(f)
  BY PartsOfFile
<1>2. path.raw \in Texts \cup {NoValue} /\ last.raw \in Texts \cup {NoValue}
  BY <1>1, EncodedIsText DEF RecordedName, FileParts
<1>3. Base64Encode(f.content) \in Texts
  BY <1>1, EncodedIsText DEF FileParts
<1>4. /\ RecordOf(f)["originalPathNameRaw"] = path.raw /\ RecordOf(f)["fileNameRaw"] = last.raw
      /\ RecordOf(f)["dataStream"] = Base64Encode(f.content)
  BY DEF RecordOf
<1>5. DOMAIN RecordOf(f) = Properties
  BY DEF RecordOf, Properties
<1>. HIDE DEF path, last
<1>. QED BY <1>2, <1>3, <1>4, <1>5 DEF Encoded

(* Before anything is recorded, nothing has been altered or read.             *)
LEMMA NamesStart == NamesInit => NamesInv
BY DEF NamesInit, NamesInv, Nothing

(* What a text becomes when it is damaged is a text, or nothing.              *)
LEMMA DamagedIsText ==
  ASSUME NEW text \in Texts, text # <<>>,
         NEW value \in Damaged(text, {0, 17, PadChar, Foreign})
  PROVE  value \in Texts \cup {NoValue}
<1>1. Len(text) \in Nat /\ DOMAIN text = 1..Len(text) /\ Len(text) # 0
  BY LenProperties, EmptySeq DEF Texts
<1>2. CASE value = SubSeq(text, 1, Len(text) - 1)
  <2>1. SubSeq(text, 1, Len(text) - 1) \in Texts
    BY <1>1 DEF Texts
  <2>. QED BY <1>2, <2>1
<1>3. CASE \E i \in DOMAIN text, c \in {0, 17, PadChar, Foreign} : value = [text EXCEPT ![i] = c]
  <2>1. PICK i \in DOMAIN text, c \in {0, 17, PadChar, Foreign} : value = [text EXCEPT ![i] = c]
    BY <1>3
  <2>2. c \in Sextets \cup {PadChar, Foreign}
    BY DEF Sextets
  <2>. QED BY <1>1, <2>1, <2>2, ExceptSeq DEF Texts
<1>. QED BY <1>2, <1>3 DEF Damaged

(* Recording a file makes the record its own.                                 *)
LEMMA RecordingKeepsNames == ASSUME NamesInv, RecordFile PROVE NamesInv'
<1>1. /\ record = Unrecorded /\ record' = RecordOf(named)
      /\ UNCHANGED <<named, altered, told, recovered, resident>>
  BY DEF RecordFile, RecordOf
<1>2. named \in FilesNamed /\ Nothing
  BY <1>1 DEF NamesInv
<1>3. DOMAIN record' = Properties /\ \A property \in Encoded : record'[property] \in Texts \cup {NoValue}
  BY <1>1, <1>2, RecordParts
<1>4. OfTheFile'
  BY <1>1, <1>2, <1>3 DEF OfTheFile, Nothing
<1>5. OfTheRecord'
  BY <1>1, <1>2 DEF OfTheRecord, Nothing
<1>6. record' # Unrecorded
  BY <1>3 DEF Unrecorded, Properties
<1>. QED BY <1>1, <1>2, <1>4, <1>5, <1>6 DEF NamesInv

(* An alteration changes one property, before anything is read.               *)
LEMMA AlteringKeepsNames ==
  ASSUME NamesInv, record # Unrecorded, NEW property \in DOMAIN record, AlterRecord(property)
  PROVE  NamesInv'
<1>. DEFINE changes == IF property \in {"originalPathName", "fileName"} THEN {97, Percent}
                       ELSE {0, 17, PadChar, Foreign}
<1>1. /\ altered = NoValue /\ told = NotTold /\ recovered = NotRead /\ resident = NotRead
      /\ record[property] \notin {NoValue, <<>>} /\ altered' = property
      /\ UNCHANGED <<named, told, recovered, resident>>
  BY DEF AlterRecord
<1>2. PICK value \in Damaged(record[property], changes) : record' = [record EXCEPT ![property] = value]
  BY DEF AlterRecord
<1>3. named \in FilesNamed /\ OfTheFile
  BY DEF NamesInv
<1>4. DOMAIN record = Properties /\ property \in Properties
  BY <1>3 DEF OfTheFile
<1>5. /\ DOMAIN record' = Properties /\ record'[property] = value
      /\ \A other \in Properties : other # property => record'[other] = record[other]
  BY <1>2, <1>4
<1>6. \A other \in Properties : other # property => record'[other] = RecordOf(named)[other]
  <2>1. NoValue \notin Properties
    BY NamingAssumption DEF Properties
  <2>. QED BY <1>1, <1>3, <1>5, <2>1 DEF OfTheFile
<1>7. \A other \in Encoded : record'[other] \in Texts \cup {NoValue}
  <2>. SUFFICES ASSUME NEW other \in Encoded PROVE record'[other] \in Texts \cup {NoValue}
    OBVIOUS
  <2>1. other \in Properties /\ record[other] \in Texts \cup {NoValue}
    BY <1>3 DEF OfTheFile, Encoded, Properties
  <2>2. CASE other = property
    <3>1. changes = {0, 17, PadChar, Foreign}
      BY <2>2 DEF Encoded
    <3>2. record[property] \in Texts /\ record[property] # <<>>
      BY <1>1, <2>1, <2>2
    <3>. QED BY <1>2, <1>5, <2>2, <3>1, <3>2, DamagedIsText
  <2>3. CASE other # property
    BY <1>5, <2>1, <2>3
  <2>. QED BY <2>2, <2>3
<1>8. OfTheFile'
  BY <1>1, <1>4, <1>5, <1>6, <1>7 DEF OfTheFile
<1>9. OfTheRecord'
  BY <1>1 DEF OfTheRecord
<1>10. record' # Unrecorded
  BY <1>5 DEF Unrecorded, Properties
<1>. QED BY <1>1, <1>3, <1>8, <1>9, <1>10 DEF NamesInv

(* Of a record that was not altered, the content is read for the file's.      *)
LEMMA ResidentIsRead ==
  ASSUME NamesInv, ReadResident, altered = NoValue
  PROVE  resident' = [ok |-> TRUE, data |-> named.content]
<1>1. record # Unrecorded /\ named \in FilesNamed /\ OfTheFile
  BY DEF NamesInv, ReadResident
<1>2. record.dataStream = Base64Encode(named.content)
  <2>1. "dataStream" \in Properties /\ NoValue \notin Properties
    BY NamingAssumption DEF Properties
  <2>2. record["dataStream"] = RecordOf(named)["dataStream"]
    BY <1>1, <2>1 DEF OfTheFile
  <2>. QED BY <2>2 DEF RecordOf
<1>3. named.content \in Seq(Octets) /\ named.content # NoValue
  BY <1>1, PartsOfFile DEF FileParts
<1>4. Base64Decode(record.dataStream) = named.content
  BY <1>2, <1>3, DecodedAgain
<1>. QED BY <1>3, <1>4 DEF ReadResident

(* Every step of the writer, of the alteration and of the readers keeps the   *)
(* invariant.                                                                 *)
LEMMA NamesStep == NamesInv /\ [NamesNext]_nameVars => NamesInv'
<1>. SUFFICES ASSUME NamesInv, [NamesNext]_nameVars PROVE NamesInv'
  OBVIOUS
<1>1. CASE RecordFile
  BY <1>1, RecordingKeepsNames
<1>2. ASSUME record # Unrecorded, NEW property \in DOMAIN record, AlterRecord(property) PROVE NamesInv'
  BY <1>2, AlteringKeepsNames
<1>3. CASE ReportNames
  <2>1. told' = WhatIsTold /\ record # Unrecorded /\ UNCHANGED <<named, record, altered, recovered, resident>>
    BY <1>3 DEF ReportNames, WhatIsTold
  <2>. QED BY <2>1
    DEF NamesInv, Nothing, OfTheFile, OfTheRecord, WhatIsTold, WhatIsRecovered, RecordedPathBytes, RecordedPath
<1>4. CASE RecoverName
  <2>1. recovered' = WhatIsRecovered /\ record # Unrecorded /\ UNCHANGED <<named, record, altered, told, resident>>
    BY <1>4 DEF RecoverName, WhatIsRecovered
  <2>. QED BY <2>1
    DEF NamesInv, Nothing, OfTheFile, OfTheRecord, WhatIsTold, WhatIsRecovered, RecordedPathBytes, RecordedPath
<1>5. CASE ReadResident
  <2>1. record # Unrecorded /\ UNCHANGED <<named, record, altered, told, recovered>>
    BY <1>5 DEF ReadResident
  <2>2. altered = NoValue => resident' = [ok |-> TRUE, data |-> named.content]
    BY <1>5, ResidentIsRead
  <2>. QED BY <2>1, <2>2
    DEF NamesInv, Nothing, OfTheFile, OfTheRecord, WhatIsTold, WhatIsRecovered, RecordedPathBytes, RecordedPath
<1>6. CASE UNCHANGED nameVars
  BY <1>6
  DEF nameVars, NamesInv, Nothing, OfTheFile, OfTheRecord, WhatIsTold, WhatIsRecovered, RecordedPathBytes,
      RecordedPath
<1>7. CASE \E property \in (IF record = Unrecorded THEN {} ELSE DOMAIN record) : AlterRecord(property)
  BY <1>2, <1>7
<1>. QED BY <1>1, <1>3, <1>4, <1>5, <1>6, <1>7 DEF NamesNext

(* What a record that was not altered has of its file's path.                 *)
LEMMA UnalteredHas ==
  ASSUME NamesInv, record # Unrecorded, altered = NoValue
  PROVE  LET path == RecordedName(named.path)
             last == RecordedName(LastComponent(named.path))
         IN /\ record.originalPathName = path.display /\ record.originalPathNameRaw = path.raw
            /\ record.fileName = last.display /\ record.fileNameRaw = last.raw
<1>1. OfTheFile
  BY DEF NamesInv
<1>2. /\ "originalPathName" \in Properties /\ "originalPathNameRaw" \in Properties
      /\ "fileName" \in Properties /\ "fileNameRaw" \in Properties /\ altered \notin Properties
  BY NamingAssumption DEF Properties
<1>3. /\ record["originalPathName"] = RecordOf(named)["originalPathName"]
      /\ record["originalPathNameRaw"] = RecordOf(named)["originalPathNameRaw"]
      /\ record["fileName"] = RecordOf(named)["fileName"]
      /\ record["fileNameRaw"] = RecordOf(named)["fileNameRaw"]
  BY <1>1, <1>2 DEF OfTheFile
<1>. QED BY <1>3 DEF RecordOf

(* With the raw form of a path, the path is what is recovered.                *)
LEMMA RawIsRecovered ==
  ASSUME NEW f \in FilesNamed, Given(record.originalPathNameRaw),
         Base64Decode(record.originalPathNameRaw) = f.path
  PROVE  WhatIsRecovered = [ok |-> TRUE, data |-> f.path]
<1>1. f.path # NoValue
  BY PartsOfFile DEF FileParts
<1>2. RecordedPathBytes = f.path
  BY DEF RecordedPathBytes, Fuller, Given
<1>. QED BY <1>1, <1>2 DEF WhatIsRecovered

(* A record nobody altered gives the check nothing to find, and the path.     *)
LEMMA UnalteredIsLossless ==
  ASSUME NamesInv, record # Unrecorded, altered = NoValue
  PROVE  /\ WhatIsTold = {}
         /\ WhatIsRecovered = [ok |-> TRUE, data |-> named.path]
         /\ record.fileNameRaw # NoValue => record.originalPathNameRaw # NoValue
<1>. DEFINE path == RecordedName(named.path)  last == RecordedName(LastComponent(named.path))
<1>1. named \in FilesNamed
  BY DEF NamesInv
<1>2. FileParts(named)
  BY <1>1, PartsOfFile
<1>3. /\ record.originalPathName = path.display /\ record.originalPathNameRaw = path.raw
      /\ record.fileName = last.display /\ record.fileNameRaw = last.raw
  BY UnalteredHas
<1>4. ReportName(path.display, path.raw) = {} /\ ReportName(last.display, last.raw) = {}
  BY <1>2, RecordedIsSound DEF FileParts
<1>5. WhatIsTold = {}
  <2>. HIDE DEF path, last
  <2>. QED BY <1>3, <1>4 DEF WhatIsTold
<1>6. CASE NeedsRawForm(named.path)
  <2>1. path.raw = Base64Encode(named.path)
    BY <1>6 DEF RecordedName
  <2>2. Given(record.originalPathNameRaw) /\ Base64Decode(record.originalPathNameRaw) = named.path
    BY <1>2, <1>3, <2>1, RawIsGiven, DecodedAgain DEF Given, FileParts
  <2>3. record.originalPathNameRaw # NoValue
    BY <2>2 DEF Given
  <2>. QED BY <1>1, <1>5, <2>2, <2>3, RawIsRecovered
<1>7. CASE ~NeedsRawForm(named.path)
  <2>1. path.raw = NoValue /\ path.display = named.path /\ last.raw = NoValue
    BY <1>2, <1>7 DEF RecordedName, FileParts
  <2>2. named.path \notin {NoValue, <<>>} /\ NoValue # <<>>
    <3>1. <<>> \in Seq(Octets)
      BY EmptySeq
    <3>. QED BY <1>2, <3>1, NamesAreValues DEF FileParts
  <2>3. RecordedPathBytes = NoValue
    BY <1>3, <2>1, <2>2 DEF RecordedPathBytes, Fuller
  <2>4. RecordedPath = named.path
    BY <1>3, <2>1, <2>2 DEF RecordedPath, Fuller
  <2>5. WhatIsRecovered = [ok |-> TRUE, data |-> named.path]
    BY <2>3, <2>4 DEF WhatIsRecovered
  <2>. QED BY <1>3, <1>5, <2>1, <2>5
<1>. QED BY <1>6, <1>7

(* Whatever was altered, a name that needed its raw form and passes the check *)
(* is recovered.                                                              *)
LEMMA AlteredIsSeen ==
  ASSUME NamesInv, record # Unrecorded, altered # NoValue, NeedsRawForm(named.path), WhatIsTold = {}
  PROVE  WhatIsRecovered = [ok |-> TRUE, data |-> named.path]
<1>1. named \in FilesNamed /\ OfTheFile
  BY DEF NamesInv
<1>2. FileParts(named)
  BY <1>1, PartsOfFile
<1>3. /\ RecordOf(named)["originalPathName"] = DisplayForm(named.path)
      /\ RecordOf(named)["originalPathNameRaw"] = Base64Encode(named.path)
  BY DEF RecordOf, RecordedName
<1>4. "originalPathName" \in Properties /\ "originalPathNameRaw" \in Properties
      /\ "originalPathNameRaw" \in Encoded /\ "originalPathName" # "originalPathNameRaw"
  BY DEF Properties, Encoded
<1>5. CASE altered = "originalPathNameRaw"
  <2>1. record["originalPathName"] = DisplayForm(named.path)
    BY <1>1, <1>3, <1>4, <1>5 DEF OfTheFile
  <2>2. ReportName(record["originalPathName"], record["originalPathNameRaw"]) = {}
    BY DEF WhatIsTold
  <2>3. record["originalPathNameRaw"] \in Texts \cup {NoValue}
    BY <1>1, <1>4 DEF OfTheFile
  <2>4. Given(record["originalPathNameRaw"]) /\ Base64Decode(record["originalPathNameRaw"]) = named.path
    BY <1>2, <2>1, <2>2, <2>3, SoundIsTrue DEF FileParts
  <2>. QED BY <1>1, <2>4, RawIsRecovered
<1>6. CASE altered # "originalPathNameRaw"
  <2>1. record["originalPathNameRaw"] = Base64Encode(named.path)
    BY <1>1, <1>3, <1>4, <1>6 DEF OfTheFile
  <2>2. Given(record["originalPathNameRaw"]) /\ Base64Decode(record["originalPathNameRaw"]) = named.path
    BY <1>2, <2>1, RawIsGiven, DecodedAgain DEF Given, FileParts
  <2>. QED BY <1>1, <2>2, RawIsRecovered
<1>. QED BY <1>5, <1>6

(* What is read so far, and what is told, keeps what it promises.             *)
LEMMA NamesInvKeeps == NamesInv => NamesAreKept
<1>. SUFFICES ASSUME NamesInv PROVE NamesAreKept
  OBVIOUS
<1>1. record = Unrecorded => Nothing
  BY DEF NamesInv
<1>2. record # Unrecorded => OfTheRecord
  BY DEF NamesInv
<1>3. NotTold # {}
  BY DEF NotTold
<1>4. CASE record = Unrecorded
  <2>1. NamesAreLossless
    BY <1>1, <1>4 DEF NamesAreLossless, KeptBytesReadBack, Unaltered, Nothing
  <2>. QED BY <1>4, <2>1 DEF NamesAreKept, TextsAreReadStrictly
<1>5. CASE record # Unrecorded
  <2>1. TextsAreReadStrictly
    <3>1. \A property \in Encoded : record[property] \in Texts \cup {NoValue}
      BY <1>5 DEF NamesInv, OfTheFile
    <3>. QED BY <3>1, TextsRead DEF TextsAreReadStrictly
  <2>2. KeptBytesReadBack
    BY <1>2, <1>5, UnalteredIsLossless DEF OfTheRecord, KeptBytesReadBack
  <2>3. Unaltered =>
          /\ told \in {NotTold, {}}
          /\ recovered \in {NotRead, [ok |-> TRUE, data |-> named.path]}
          /\ record.fileNameRaw # NoValue => record.originalPathNameRaw # NoValue
    BY <1>2, <1>5, UnalteredIsLossless DEF OfTheRecord, Unaltered
  <2>4. altered # NoValue /\ told = {} /\ NeedsRawForm(named.path) =>
          recovered \in {NotRead, [ok |-> TRUE, data |-> named.path]}
    BY <1>2, <1>3, <1>5, AlteredIsSeen DEF OfTheRecord
  <2>. QED BY <2>1, <2>2, <2>3, <2>4 DEF NamesAreKept, NamesAreLossless
<1>. QED BY <1>4, <1>5

(* "Together they are lossless", and "silently recovering part of it would    *)
(* present a guess as the recorded name" (naming.rs): for names, contents and *)
(* texts of any length.                                                       *)
THEOREM NamesComeBack == NamesSpec => []NamesAreKept
  BY NamesStart, NamesStep, NamesInvKeeps, PTL DEF NamesSpec

-----------------------------------------------------------------------------
(* Files that share a stream: what is counted *)

PlacementOK == [file : Nat, offset : Nat, size : Nat]
Unit == Nat \X Nat

\* A file is skipped or placed at its turn, and once.
FilesInOrder ==
  /\ skipped \subseteq 1..file
  /\ \A i \in 1..Len(placements) : placements[i].file \in 1..file
  /\ stage = "appending" => file \notin skipped /\ file \notin PlacedFiles /\ file \in 1..file
  /\ stage = "mapping" => file \in PlacedFiles

\* What was pushed before the file at hand: what is counted, and what was left.
Base == size + Cardinality(Left)

\* The bytes of the file at hand are the last, in order, and no others are its.
HandIsLast ==
  stage = "appending" => \A place \in 1..Len(pushed) :
    /\ place > Base => pushed[place] = <<file, place - Base>>
    /\ ~(place > Base) => pushed[place][1] # file

CountInv ==
  /\ size \in Nat /\ taken \in Nat /\ file \in Nat
  /\ placements \in Seq(PlacementOK) /\ pushed \in Seq(Unit)
  /\ FilesInOrder
  /\ \A place \in 1..Len(pushed) : pushed[place][1] \in 1..file
  /\ Len(pushed) = Base + Pending
  /\ HandIsLast
  /\ \A i \in 1..Len(placements) : RangeIsOwn(placements[i])
  /\ \A place \in 1..Len(pushed) : Accounted(place)

\* A range, and what lies in it, when the left bytes of the stream s are at L.
BeginsAt(L, s, p) == p.offset + Cardinality({place \in L : s[place][1] < p.file})
Holds(L, s, p) ==
  /\ BeginsAt(L, s, p) + p.size <= Len(s)
  /\ \A j \in 1..p.size : s[BeginsAt(L, s, p) + j] = <<p.file, j>>
Lies(L, s, p, place) == BeginsAt(L, s, p) < place /\ place <= BeginsAt(L, s, p) + p.size

(* Of a stream bytes are left at finitely many places.                       *)
LEMMA LeftIsFinite ==
  ASSUME NEW s \in Seq(Unit), NEW L \in SUBSET (1..Len(s))
  PROVE  IsFiniteSet(L) /\ Cardinality(L) \in Nat
<1>1. Len(s) \in Nat /\ IsFiniteSet(1..Len(s))
  BY FS_Interval
<1>. QED BY <1>1, FS_Subset, FS_CardinalityType

(* The places are of the stream; a range as the model has it.                *)
LEMMA LeftIsOfStream ==
  ASSUME CountInv
  PROVE  /\ Left \in SUBSET (1..Len(pushed)) /\ Len(pushed) \in Nat
         /\ Cardinality(Left) \in Nat /\ Base \in Nat
<1>1. Left \in SUBSET (1..Len(pushed)) /\ pushed \in Seq(Unit)
  BY DEF Left, CountInv
<1>2. Cardinality(Left) \in Nat
  BY <1>1, LeftIsFinite
<1>. QED BY <1>1, <1>2 DEF Base, CountInv

(* A range stays where it is, with what it holds, while the stream goes on    *)
(* and no byte is left of a file before its own.                             *)
LEMMA RangeStays ==
  ASSUME NEW s \in Seq(Unit), NEW t \in Seq(Unit), Len(s) <= Len(t),
         \A place \in 1..Len(s) : t[place] = s[place],
         NEW L \in SUBSET (1..Len(s)), NEW M, L \subseteq M,
         NEW p \in PlacementOK, \A place \in M \ L : ~(t[place][1] < p.file)
  PROVE  /\ BeginsAt(M, t, p) = BeginsAt(L, s, p)
         /\ Holds(L, s, p) => Holds(M, t, p)
         /\ \A place : Lies(L, s, p, place) => Lies(M, t, p, place)
<1>1. \A place \in L : t[place] = s[place]
  OBVIOUS
<1>2. {place \in M : t[place][1] < p.file} = {place \in L : s[place][1] < p.file}
  BY <1>1
<1>3. BeginsAt(M, t, p) = BeginsAt(L, s, p)
  BY <1>2 DEF BeginsAt
<1>4. ASSUME Holds(L, s, p) PROVE Holds(M, t, p)
  <2>. DEFINE b == BeginsAt(L, s, p)
  <2>1. b \in Nat /\ p.size \in Nat /\ Len(s) \in Nat /\ Len(t) \in Nat
    <3>1. {place \in L : s[place][1] < p.file} \in SUBSET (1..Len(s))
      OBVIOUS
    <3>2. Cardinality({place \in L : s[place][1] < p.file}) \in Nat
      BY <3>1, LeftIsFinite
    <3>. QED BY <3>2 DEF BeginsAt, PlacementOK
  <2>2. b + p.size <= Len(s) /\ \A j \in 1..p.size : s[b + j] = <<p.file, j>>
    BY <1>4 DEF Holds
  <2>. HIDE DEF b
  <2>3. \A j \in 1..p.size : b + j \in 1..Len(s)
    BY <2>1, <2>2
  <2>4. \A j \in 1..p.size : t[b + j] = <<p.file, j>>
    BY <2>2, <2>3
  <2>6. b + p.size <= Len(t)
    <3>1. \A x, y, z \in Nat : x <= y /\ y <= z => x <= z
      OBVIOUS
    <3>2. b + p.size \in Nat
      BY <2>1
    <3>. QED BY <2>1, <2>2, <3>1, <3>2
  <2>5. BeginsAt(M, t, p) = b
    BY <1>3 DEF b
  <2>. QED BY <2>4, <2>5, <2>6 DEF Holds
<1>. QED BY <1>3, <1>4 DEF Lies

(* A step that pushes on, leaves what it leaves at the end, and places no     *)
(* file keeps the ranges.                                                     *)
LEMMA RangesStay ==
  ASSUME CountInv, pushed' \in Seq(Unit), Len(pushed) <= Len(pushed'),
         \A place \in 1..Len(pushed) : pushed'[place] = pushed[place],
         Left \subseteq Left',
         \A place \in Left' \ Left : ~(pushed'[place][1] < file)
  PROVE  /\ \A i \in 1..Len(placements) :
              Holds(Left', pushed', placements[i])
         /\ \A i \in 1..Len(placements) : \A place :
              Within(placements[i], place) => Lies(Left', pushed', placements[i], place)
<1>1. Left \in SUBSET (1..Len(pushed)) /\ pushed \in Seq(Unit)
  BY LeftIsOfStream DEF CountInv
<1>2. ASSUME NEW i \in 1..Len(placements)
      PROVE  /\ Holds(Left', pushed', placements[i])
             /\ \A place : Within(placements[i], place) => Lies(Left', pushed', placements[i], place)
  <2>. DEFINE p == placements[i]
  <2>1. p \in PlacementOK /\ p.file \in Nat /\ file \in Nat /\ p.file <= file
    <3>1. p \in PlacementOK
      BY DEF CountInv
    <3>. QED BY <3>1 DEF CountInv, FilesInOrder, PlacementOK
  <2>2. Holds(Left, pushed, p)
    BY DEF CountInv, RangeIsOwn, Start, LeftBefore, Holds, BeginsAt
  <2>3. \A place : Within(p, place) => Lies(Left, pushed, p, place)
    BY DEF Within, Start, LeftBefore, Lies, BeginsAt
  <2>. HIDE DEF p
  <2>4. \A place \in Left' \ Left : ~(pushed'[place][1] < p.file)
    <3>. TAKE place \in Left' \ Left
    <3>1. place \in 1..Len(pushed')
      BY DEF Left
    <3>2. pushed'[place][1] \in Nat
      BY <3>1 DEF Unit
    <3>. QED BY <2>1, <3>2
  <2>5. /\ Holds(Left, pushed, p) => Holds(Left', pushed', p)
        /\ \A place : Lies(Left, pushed, p, place) => Lies(Left', pushed', p, place)
    BY <1>1, <2>1, <2>4, RangeStays
  <2>. QED BY <2>2, <2>3, <2>5 DEF p
<1>. QED BY <1>2

(* What ranges are after a step.                                             *)
LEMMA RangesThen ==
  ASSUME NEW n, n = Len(placements'),
         \A i \in 1..n : Holds(Left', pushed', placements'[i]),
         \A place \in 1..Len(pushed') :
           \/ place \in Left'
           \/ stage' = "appending" /\ pushed'[place][1] = file'
           \/ \E i \in 1..n : Lies(Left', pushed', placements'[i], place)
  PROVE  /\ (\A i \in 1..Len(placements) : RangeIsOwn(placements[i]))'
         /\ (\A place \in 1..Len(pushed) : Accounted(place))'
BY DEF RangeIsOwn, Accounted, Within, Start, LeftBefore, Holds, Lies, BeginsAt

(* Steps that push nothing and leave nothing.                                *)
LEMMA QuietCounts ==
  ASSUME CountInv, UNCHANGED <<size, pushed, placements>>, taken' \in Nat, file' \in Nat,
         FilesInOrder', Left' = Left, Pending' = Pending,
         \/ UNCHANGED <<stage, file>>
         \/ /\ stage # "appending" /\ file' \in {file, file + 1}
            /\ stage' = "appending" => file' = file + 1
  PROVE  CountInv'
<1>1. /\ Left \in SUBSET (1..Len(pushed)) /\ Len(pushed) \in Nat /\ pushed \in Seq(Unit)
      /\ Base \in Nat /\ Base' = Base /\ file \in Nat /\ size \in Nat /\ taken \in Nat
  BY LeftIsOfStream DEF CountInv, Base
<1>2. \A place \in 1..Len(pushed) : pushed[place][1] \in 1..file
  BY DEF CountInv
<1>3. (\A place \in 1..Len(pushed) : pushed[place][1] \in 1..file)'
  BY <1>1, <1>2
<1>4. (Len(pushed) = Base + Pending)'
  BY <1>1 DEF CountInv
<1>5. HandIsLast'
  <2>1. CASE UNCHANGED <<stage, file>>
    BY <1>1, <2>1 DEF CountInv, HandIsLast
  <2>2. CASE stage # "appending" /\ (stage' = "appending" => file' = file + 1)
    <3>. SUFFICES ASSUME stage' = "appending", NEW place \in 1..Len(pushed)
                  PROVE  ~(place > Base) /\ pushed[place][1] # file'
      BY <1>1 DEF HandIsLast
    <3>1. Len(pushed) = Base
      BY <1>1, <2>2 DEF CountInv, Pending
    <3>. QED BY <1>1, <1>2, <2>2, <3>1
  <2>. QED BY <2>1, <2>2
<1>6. /\ \A i \in 1..Len(placements) : Holds(Left', pushed', placements[i])
      /\ \A i \in 1..Len(placements) : \A place :
           Within(placements[i], place) => Lies(Left', pushed', placements[i], place)
  <2>1. pushed' \in Seq(Unit) /\ Len(pushed) <= Len(pushed') /\ Left' \ Left = {}
    BY <1>1
  <2>. QED BY <2>1, RangesStay
<1>7. ASSUME NEW place \in 1..Len(pushed)
      PROVE  \/ place \in Left'
             \/ stage' = "appending" /\ pushed'[place][1] = file'
             \/ \E i \in 1..Len(placements) : Lies(Left', pushed', placements[i], place)
  BY <1>6 DEF CountInv, Accounted
<1>8. /\ (\A i \in 1..Len(placements) : RangeIsOwn(placements[i]))'
      /\ (\A place \in 1..Len(pushed) : Accounted(place))'
  BY <1>6, <1>7, RangesThen
<1>. QED BY <1>1, <1>3, <1>4, <1>5, <1>8 DEF CountInv

(* What a stream is once bytes of the file at hand are pushed.               *)
LEMMA TurnPushed ==
  ASSUME CountInv, stage = "appending", NEW k \in Nat, pushed' = pushed \o Bytes(file, taken, k)
  PROVE  /\ pushed' \in Seq(Unit) /\ Bytes(file, taken, k) \in Seq(Unit)
         /\ Len(Bytes(file, taken, k)) = k
         /\ Len(pushed') = Base + (taken + k) /\ Len(pushed) <= Len(pushed')
         /\ \A place \in 1..Len(pushed) : pushed'[place] = pushed[place]
         /\ \A place \in 1..Len(pushed') :
              /\ pushed'[place][1] \in 1..file
              /\ place > Base => pushed'[place] = <<file, place - Base>> /\ pushed'[place][1] = file
              /\ ~(place > Base) => place \in 1..Len(pushed) /\ pushed'[place][1] # file /\ pushed[place][1] # file
              /\ place \notin 1..Len(pushed) => place > Base
         /\ \A j \in 1..(taken + k) : Base + j \in 1..Len(pushed') /\ pushed'[Base + j] = <<file, j>>
<1>1. /\ taken \in Nat /\ file \in Nat /\ file \in 1..file /\ Base \in Nat
      /\ pushed \in Seq(Unit) /\ Len(pushed) \in Nat /\ Len(pushed) = Base + taken
  BY LeftIsOfStream DEF CountInv, FilesInOrder, Pending
<1>2. PICK bytes : bytes = Bytes(file, taken, k)
  OBVIOUS
<1>3. bytes \in Seq(Unit) /\ Len(bytes) = k
  <2>1. \A i \in 1..k : <<file, taken + i>> \in Unit
    BY <1>1 DEF Unit
  <2>2. bytes = [i \in 1..k |-> <<file, taken + i>>]
    BY <1>2 DEF Bytes
  <2>3. \A n \in Nat : \A f : (\A i \in 1..n : f[i] \in Unit) /\ f = [i \in 1..n |-> f[i]]
          => f \in Seq(Unit) /\ Len(f) = n
    OBVIOUS
  <2>. QED BY <2>1, <2>2, <2>3
<1>4. \A i \in 1..k : bytes[i] = <<file, taken + i>>
  BY <1>2 DEF Bytes
<1>5. PICK t : t = pushed \o bytes
  OBVIOUS
<1>6. /\ t \in Seq(Unit) /\ Len(t) = Len(pushed) + k
      /\ \A place \in 1..(Len(pushed) + k) : t[place] = IF place <= Len(pushed) THEN pushed[place] ELSE bytes[place - Len(pushed)]
  BY <1>1, <1>3, <1>5, ConcatProperties
<1>7. pushed' = t
  BY <1>2, <1>5
<1>8. \A place \in 1..Len(pushed) : place \in 1..Len(t) /\ t[place] = pushed[place]
  BY <1>1, <1>6
<1>9. ASSUME NEW place \in 1..Len(t), place \notin 1..Len(pushed)
      PROVE  place > Base /\ t[place] = <<file, place - Base>>
  <2>1. PICK i : i = place - Len(pushed)
    OBVIOUS
  <2>2. i \in 1..k /\ place > Base /\ taken + i = place - Base /\ ~(place <= Len(pushed))
    BY <1>1, <1>6, <1>9, <2>1
  <2>3. place \in 1..(Len(pushed) + k)
    BY <1>6
  <2>4. t[place] = bytes[i]
    BY <1>6, <2>1, <2>2, <2>3
  <2>. QED BY <1>4, <2>2, <2>4
<1>10. \A place \in 1..Len(t) : place > Base => t[place] = <<file, place - Base>>
  BY <1>8, <1>9 DEF CountInv, HandIsLast
<1>11. \A place \in 1..Len(t) : ~(place > Base) => place \in 1..Len(pushed) /\ t[place][1] # file /\ pushed[place][1] # file
  BY <1>8, <1>9 DEF CountInv, HandIsLast
<1>12. \A place \in 1..Len(t) : t[place][1] \in 1..file
  <2>. TAKE place \in 1..Len(t)
  <2>1. CASE place \in 1..Len(pushed)
    BY <1>8, <2>1 DEF CountInv
  <2>2. CASE place \notin 1..Len(pushed)
    BY <1>1, <1>9, <2>2
  <2>. QED BY <2>1, <2>2
<1>13. Len(t) = Base + (taken + k) /\ Len(pushed) <= Len(t)
  BY <1>1, <1>6
<1>14. ASSUME NEW j \in 1..(taken + k)
       PROVE  Base + j \in 1..Len(t) /\ t[Base + j] = <<file, j>>
  <2>1. Base + j \in 1..Len(t) /\ Base + j > Base /\ (Base + j) - Base = j
    <3>1. \A x, y \in Nat : \A z \in 1..y : x + z \in 1..(x + y) /\ x + z > x /\ (x + z) - x = z
      OBVIOUS
    <3>2. taken + k \in Nat
      BY <1>1
    <3>. QED BY <1>1, <1>13, <3>1, <3>2
  <2>2. t[Base + j] = <<file, (Base + j) - Base>>
    BY <1>10, <2>1
  <2>. QED BY <2>1, <2>2
<1>15. \A place \in 1..Len(t) : place > Base => t[place][1] = file
  BY <1>10
<1>. QED BY <1>2, <1>3, <1>6, <1>7, <1>8, <1>9, <1>10, <1>11, <1>12, <1>13, <1>14, <1>15

(* While the file at hand is not skipped, its bytes are none of those left.   *)
LEMMA LeftStays ==
  ASSUME CountInv, stage = "appending", NEW k \in Nat, pushed' = pushed \o Bytes(file, taken, k),
         skipped' = skipped, PlacedFiles \subseteq PlacedFiles', PlacedFiles' \subseteq PlacedFiles \cup {file}
  PROVE  Left' = Left /\ \A place \in Left : pushed[place][1] \in 1..file /\ pushed[place][1] # file
<1>1. /\ Len(pushed) \in Nat /\ Len(pushed') \in Nat /\ Len(pushed) <= Len(pushed')
      /\ \A place \in 1..Len(pushed) : pushed'[place] = pushed[place]
      /\ \A place \in 1..Len(pushed') : place \notin 1..Len(pushed) => pushed'[place][1] = file
  <2>1. Len(pushed) \in Nat
    BY LeftIsOfStream
  <2>2. /\ pushed' \in Seq(Unit) /\ Len(pushed) <= Len(pushed')
        /\ \A place \in 1..Len(pushed) : pushed'[place] = pushed[place]
    BY TurnPushed
  <2>3. \A place \in 1..Len(pushed') : place \notin 1..Len(pushed) => pushed'[place][1] = file
    BY TurnPushed
  <2>. QED BY <2>1, <2>2, <2>3
<1>2. file \notin skipped
  BY DEF CountInv, FilesInOrder
<1>3. skipped' \ PlacedFiles' = skipped \ PlacedFiles
  BY <1>2
<1>4. Interrupted' = Interrupted /\ file \notin Interrupted
  <2>1. Interrupted' = {f \in skipped \ PlacedFiles : \E place \in 1..Len(pushed') : pushed'[place][1] = f}
    BY <1>3 DEF Interrupted
  <2>2. ASSUME NEW f \in skipped \ PlacedFiles
        PROVE  (\E place \in 1..Len(pushed') : pushed'[place][1] = f) <=> \E place \in 1..Len(pushed) : pushed[place][1] = f
    BY <1>1, <1>2
  <2>. QED BY <1>2, <2>1, <2>2 DEF Interrupted
<1>5. Left' = {place \in 1..Len(pushed') : pushed'[place][1] \in Interrupted'}
  BY DEF Left
<1>6. Left' = Left
  BY <1>1, <1>4, <1>5 DEF Left
<1>. QED BY <1>4, <1>6 DEF Left, CountInv

(* A turn that goes on.                                                      *)
LEMMA AppendTurnCounts == ASSUME CountInv, AppendTurn PROVE CountInv'
<1>1. /\ stage = "appending" /\ pushed' = pushed \o Bytes(file, taken, ChunkSize)
      /\ taken' = taken + ChunkSize /\ UNCHANGED <<stage, file, size, placements, skipped>>
      /\ ChunkSize \in Nat
  BY SharedAssumption DEF AppendTurn, Push, Turn, fileVars
<1>2. PlacedFiles' = PlacedFiles
  BY <1>1 DEF PlacedFiles
<1>3. Left' = Left
  BY <1>1, <1>2, LeftStays
<1>4. /\ Base' = Base /\ Base \in Nat /\ size \in Nat /\ taken \in Nat /\ file \in Nat
      /\ Len(pushed) \in Nat
  BY <1>1, <1>3, LeftIsOfStream DEF Base, CountInv
<1>5. /\ pushed' \in Seq(Unit) /\ Len(pushed) <= Len(pushed')
      /\ Len(pushed') = Base + (taken + ChunkSize)
      /\ \A place \in 1..Len(pushed) : pushed'[place] = pushed[place]
      /\ \A place \in 1..Len(pushed') :
           /\ pushed'[place][1] \in 1..file
           /\ place > Base => pushed'[place] = <<file, place - Base>>
           /\ ~(place > Base) => pushed'[place][1] # file
  BY <1>1, TurnPushed
<1>14. \A place \in 1..Len(pushed') : place \notin 1..Len(pushed) => pushed'[place][1] = file
  BY <1>1, TurnPushed
<1>6. FilesInOrder'
  BY <1>1, <1>2 DEF CountInv, FilesInOrder
<1>7. /\ \A i \in 1..Len(placements) : Holds(Left', pushed', placements[i])
      /\ \A i \in 1..Len(placements) : \A place :
           Within(placements[i], place) => Lies(Left', pushed', placements[i], place)
  <2>1. Left' \ Left = {} /\ Left \subseteq Left'
    BY <1>3
  <2>. QED BY <1>5, <2>1, RangesStay
<1>8. ASSUME NEW place \in 1..Len(pushed')
      PROVE  \/ place \in Left'
             \/ stage' = "appending" /\ pushed'[place][1] = file'
             \/ \E i \in 1..Len(placements) : Lies(Left', pushed', placements[i], place)
  <2>1. CASE place \in 1..Len(pushed)
    BY <1>1, <1>3, <1>5, <1>7, <2>1 DEF CountInv, Accounted
  <2>2. CASE place \notin 1..Len(pushed)
    BY <1>1, <1>14, <2>2
  <2>. QED BY <2>1, <2>2
<1>9. /\ (\A i \in 1..Len(placements) : RangeIsOwn(placements[i]))'
      /\ (\A place \in 1..Len(pushed) : Accounted(place))'
  BY <1>1, <1>7, <1>8, RangesThen
<1>10. HandIsLast'
  BY <1>1, <1>4, <1>5 DEF HandIsLast
<1>11. (Len(pushed) = Base + Pending)'
  BY <1>1, <1>4, <1>5 DEF Pending
<1>12. (\A place \in 1..Len(pushed) : pushed[place][1] \in 1..file)'
  BY <1>1, <1>5
<1>13. size' \in Nat /\ taken' \in Nat /\ file' \in Nat /\ placements' \in Seq(PlacementOK)
  BY <1>1, <1>4 DEF CountInv
<1>. QED BY <1>5, <1>6, <1>9, <1>10, <1>11, <1>12, <1>13 DEF CountInv

(* The turn that ends an append: the file's range begins at the base.        *)
LEMMA AppendEndsCounts ==
  ASSUME CountInv, NEW count \in 0..(ChunkSize - 1), AppendEnds(count)
  PROVE  CountInv'
<1>. DEFINE new == [file |-> file, offset |-> size, size |-> taken + count]
<1>1. /\ stage = "appending" /\ pushed' = pushed \o Bytes(file, taken, count)
      /\ stage' = "mapping" /\ size' = size + taken + count /\ taken' = taken + count
      /\ placements' = Append(placements, new)
      /\ UNCHANGED <<file, skipped>> /\ count \in Nat
  BY SharedAssumption DEF AppendEnds, Push, Turn
<1>2. PICK n : n = Len(placements)
  OBVIOUS
<1>3. /\ size \in Nat /\ taken \in Nat /\ file \in Nat /\ Base \in Nat /\ Len(pushed) \in Nat
      /\ Left \in SUBSET (1..Len(pushed)) /\ Cardinality(Left) \in Nat /\ Base = size + Cardinality(Left)
      /\ placements \in Seq(PlacementOK)
  BY LeftIsOfStream DEF CountInv, Base
<1>4. new \in PlacementOK /\ new.file = file /\ new.offset = size /\ new.size = taken + count
  BY <1>1, <1>3 DEF PlacementOK
<1>. HIDE DEF new
<1>5. /\ n \in Nat /\ placements' \in Seq(PlacementOK) /\ Len(placements') = n + 1
      /\ placements'[n + 1] = new /\ \A i \in 1..n : placements'[i] = placements[i]
  BY <1>1, <1>2, <1>3, <1>4
<1>6. \A i \in 1..(n + 1) : i \in 1..n \/ i = n + 1
  BY <1>5
<1>7. PlacedFiles' = PlacedFiles \cup {file}
  <2>1. n + 1 \in 1..(n + 1) /\ \A i \in 1..n : i \in 1..(n + 1)
    BY <1>5
  <2>2. PlacedFiles' = {placements'[i].file : i \in 1..(n + 1)}
    BY <1>5 DEF PlacedFiles
  <2>3. PlacedFiles = {placements[i].file : i \in 1..n}
    BY <1>2 DEF PlacedFiles
  <2>. QED BY <1>4, <1>5, <1>6, <2>1, <2>2, <2>3
<1>8. Left' = Left /\ \A place \in Left : pushed[place][1] \in 1..file /\ pushed[place][1] # file
  BY <1>1, <1>7, LeftStays
<1>9. /\ pushed' \in Seq(Unit) /\ Len(pushed) <= Len(pushed')
      /\ \A place \in 1..Len(pushed) : pushed'[place] = pushed[place]
      /\ \A place \in 1..Len(pushed') : pushed'[place][1] \in 1..file
  BY <1>1, TurnPushed
<1>21. Len(pushed') = Base + (taken + count)
  BY <1>1, TurnPushed
<1>22. \A place \in 1..Len(pushed') : ~(place > Base) => place \in 1..Len(pushed) /\ pushed[place][1] # file
  BY <1>1, TurnPushed
<1>23. \A j \in 1..(taken + count) : Base + j \in 1..Len(pushed') /\ pushed'[Base + j] = <<file, j>>
  BY <1>1, TurnPushed
<1>10. BeginsAt(Left', pushed', new) = Base
  <2>1. \A place \in Left : pushed'[place][1] < file
    <3>1. \A x \in 1..file : x # file => x < file
      BY <1>3
    <3>2. \A place \in Left : pushed'[place] = pushed[place]
      BY <1>3, <1>9
    <3>. QED BY <1>8, <3>1, <3>2
  <2>2. {place \in Left' : pushed'[place][1] < new.file} = Left
    BY <1>4, <1>8, <2>1
  <2>. QED BY <1>3, <1>4, <2>2 DEF BeginsAt
<1>11. Holds(Left', pushed', new)
  <2>1. Base + (taken + count) <= Len(pushed')
    BY <1>1, <1>3, <1>21
  <2>. QED BY <1>4, <1>10, <1>23, <2>1 DEF Holds
<1>12. /\ \A i \in 1..n : Holds(Left', pushed', placements[i])
       /\ \A i \in 1..n : \A place : Within(placements[i], place) => Lies(Left', pushed', placements[i], place)
  <2>1. Left' \ Left = {} /\ Left \subseteq Left'
    BY <1>8
  <2>. QED BY <1>2, <1>9, <2>1, RangesStay
<1>13. \A i \in 1..(n + 1) : Holds(Left', pushed', placements'[i])
  BY <1>5, <1>6, <1>11, <1>12
<1>14. ASSUME NEW place \in 1..Len(pushed')
       PROVE  \/ place \in Left'
              \/ \E i \in 1..(n + 1) : Lies(Left', pushed', placements'[i], place)
  <2>1. CASE place > Base
    <3>1. Lies(Left', pushed', new, place)
      BY <1>1, <1>3, <1>4, <1>10, <1>21, <2>1 DEF Lies
    <3>2. n + 1 \in 1..(n + 1)
      BY <1>5
    <3>. QED BY <1>5, <3>1, <3>2
  <2>2. CASE ~(place > Base)
    <3>1. place \in 1..Len(pushed) /\ pushed[place][1] # file
      BY <1>22, <2>2
    <3>2. place \in Left \/ \E i \in 1..n : Within(placements[i], place)
      BY <1>2, <3>1 DEF CountInv, Accounted
    <3>3. \A i \in 1..n : i \in 1..(n + 1)
      BY <1>5
    <3>. QED BY <1>5, <1>8, <1>12, <3>2, <3>3
  <2>. QED BY <2>1, <2>2
<1>15. /\ (\A i \in 1..Len(placements) : RangeIsOwn(placements[i]))'
       /\ (\A place \in 1..Len(pushed) : Accounted(place))'
  BY <1>5, <1>13, <1>14, RangesThen
<1>16. FilesInOrder'
  <2>1. FilesInOrder /\ file \in 1..file
    BY <1>1 DEF CountInv, FilesInOrder
  <2>2. \A i \in 1..(n + 1) : placements'[i].file \in 1..file
    BY <1>2, <1>4, <1>5, <1>6, <2>1 DEF FilesInOrder
  <2>. QED BY <1>1, <1>5, <1>7, <2>1, <2>2 DEF FilesInOrder
<1>17. (Len(pushed) = Base + Pending)'
  <2>1. Base' = (size + taken + count) + Cardinality(Left) /\ Pending' = 0
    BY <1>1, <1>8 DEF Base, Pending
  <2>. QED BY <1>1, <1>3, <1>21, <2>1
<1>18. HandIsLast'
  BY <1>1 DEF HandIsLast
<1>19. (\A place \in 1..Len(pushed) : pushed[place][1] \in 1..file)'
  BY <1>1, <1>9
<1>20. size' \in Nat /\ taken' \in Nat /\ file' \in Nat
  BY <1>1, <1>3
<1>. QED BY <1>5, <1>9, <1>15, <1>16, <1>17, <1>18, <1>19, <1>20 DEF CountInv

(* An append that fails leaves the bytes of its file at the end.             *)
LEMMA AppendFailsCounts ==
  ASSUME CountInv, stage = "appending", NEW k \in Nat, pushed' = pushed \o Bytes(file, taken, k),
         stage' = "walking", skipped' = skipped \cup {file}, UNCHANGED <<file, taken, size, placements>>
  PROVE  CountInv'
<1>1. /\ size \in Nat /\ taken \in Nat /\ file \in Nat /\ Base \in Nat /\ Len(pushed) \in Nat
      /\ Left \in SUBSET (1..Len(pushed)) /\ Cardinality(Left) \in Nat /\ Base = size + Cardinality(Left)
      /\ IsFiniteSet(Left)
  BY LeftIsOfStream, LeftIsFinite DEF CountInv, Base
<1>2. /\ pushed' \in Seq(Unit) /\ Len(pushed) <= Len(pushed')
      /\ \A place \in 1..Len(pushed) : pushed'[place] = pushed[place]
      /\ \A place \in 1..Len(pushed') : pushed'[place][1] \in 1..file
  BY TurnPushed
<1>17. Len(pushed') = Base + (taken + k)
  BY TurnPushed
<1>18. \A place \in 1..Len(pushed') : ~(place > Base) => place \in 1..Len(pushed) /\ pushed[place][1] # file
  BY TurnPushed
<1>3. PlacedFiles' = PlacedFiles /\ file \notin PlacedFiles /\ file \notin skipped
  BY DEF PlacedFiles, CountInv, FilesInOrder
<1>4. \A place \in 1..Len(pushed') : pushed'[place][1] = file <=> place > Base
  BY TurnPushed
<1>. DEFINE more == (Base + 1)..(Base + (taken + k))
<1>5. \A place \in 1..Len(pushed') : pushed'[place][1] \in Interrupted' <=> place \in Left \/ place \in more
  <2>. TAKE place \in 1..Len(pushed')
  <2>1. Interrupted' = {f \in (skipped \cup {file}) \ PlacedFiles :
                          \E x \in 1..Len(pushed') : pushed'[x][1] = f}
    BY <1>3 DEF Interrupted
  <2>2. pushed'[place][1] \in Interrupted' <=> pushed'[place][1] \in (skipped \cup {file}) \ PlacedFiles
    BY <2>1
  <2>3. CASE place > Base
    <3>1. place \in more
      BY <1>1, <1>17, <2>3
    <3>2. pushed'[place][1] = file
      BY <1>4, <2>3
    <3>. QED BY <1>3, <2>2, <3>1, <3>2
  <2>4. CASE ~(place > Base)
    <3>1. place \in 1..Len(pushed) /\ pushed[place][1] # file
      BY <1>18, <2>4
    <3>2. pushed'[place] = pushed[place] /\ place \notin more
      BY <1>1, <1>2, <2>4, <3>1
    <3>3. place \in Left <=> pushed[place][1] \in skipped \ PlacedFiles
      BY <3>1 DEF Left, Interrupted
    <3>. QED BY <2>2, <3>1, <3>2, <3>3
  <2>. QED BY <2>3, <2>4
<1>6. Left' = Left \cup more
  <2>1. Left' = {place \in 1..Len(pushed') : pushed'[place][1] \in Interrupted'}
    BY DEF Left
  <2>2. Left \subseteq 1..Len(pushed')
    BY <1>1, <1>2
  <2>3. more \subseteq 1..Len(pushed')
    BY <1>1, <1>17
  <2>. HIDE DEF more
  <2>. QED BY <1>5, <2>1, <2>2, <2>3
<1>7. Left \cap more = {}
  <2>1. SUFFICES ASSUME NEW place \in Left, place > Base PROVE FALSE
    <3>1. \A place \in more : place > Base
      BY <1>1
    <3>. QED BY <3>1
  <2>2. place \in 1..Len(pushed') /\ place \in 1..Len(pushed)
    <3>1. \A x, y \in Nat : x <= y => 1..x \subseteq 1..y
      OBVIOUS
    <3>2. Len(pushed') \in Nat
      BY <1>2
    <3>. QED BY <1>1, <1>2, <3>1, <3>2
  <2>3. pushed[place][1] = file
    BY <1>2, <1>4, <2>1, <2>2
  <2>. QED BY <1>3, <2>1, <2>3 DEF Left, Interrupted
<1>8. Cardinality(Left') = Cardinality(Left) + taken + k
  <2>1. IsFiniteSet(more) /\ Cardinality(more) = taken + k
    <3>1. Base + 1 \in Int /\ Base + (taken + k) \in Int
      BY <1>1
    <3>2. /\ IsFiniteSet(more)
          /\ Cardinality(more) = IF Base + 1 > Base + (taken + k) THEN 0 ELSE (Base + (taken + k)) - (Base + 1) + 1
      BY <3>1, FS_Interval
    <3>. QED BY <1>1, <3>2
  <2>. HIDE DEF more
  <2>2. Cardinality(Left \cup more) = Cardinality(Left) + Cardinality(more) - Cardinality(Left \cap more)
    BY <1>1, <2>1, FS_Union
  <2>3. Cardinality(Left \cap more) = 0
    BY <1>7, FS_EmptySet
  <2>. QED BY <1>1, <1>6, <2>1, <2>2, <2>3
<1>9. /\ \A i \in 1..Len(placements) : Holds(Left', pushed', placements[i])
      /\ \A i \in 1..Len(placements) : \A place :
           Within(placements[i], place) => Lies(Left', pushed', placements[i], place)
  <2>1. Len(pushed) <= Len(pushed') /\ Left \subseteq Left'
    BY <1>2, <1>6
  <2>2. \A place \in Left' \ Left : pushed'[place][1] = file
    <3>1. \A place \in more : place \in 1..Len(pushed') /\ place > Base
      BY <1>1, <1>17
    <3>. QED BY <1>4, <1>6, <3>1
  <2>3. \A place \in Left' \ Left : ~(pushed'[place][1] < file)
    <3>1. ~(file < file)
      BY <1>1
    <3>. QED BY <2>2, <3>1
  <2>. QED BY <1>2, <2>1, <2>3, RangesStay
<1>10. ASSUME NEW place \in 1..Len(pushed')
       PROVE  \/ place \in Left'
              \/ \E i \in 1..Len(placements) : Lies(Left', pushed', placements[i], place)
  <2>1. CASE place > Base
    <3>1. place \in more
      BY <1>1, <1>17, <2>1
    <3>. QED BY <1>6, <3>1
  <2>2. CASE ~(place > Base)
    <3>1. place \in 1..Len(pushed) /\ pushed[place][1] # file
      BY <1>18, <2>2
    <3>. QED BY <1>6, <1>9, <3>1 DEF CountInv, Accounted
  <2>. QED BY <2>1, <2>2
<1>11. /\ (\A i \in 1..Len(placements) : RangeIsOwn(placements[i]))'
       /\ (\A place \in 1..Len(pushed) : Accounted(place))'
  BY <1>9, <1>10, RangesThen
<1>12. FilesInOrder'
  BY <1>3 DEF CountInv, FilesInOrder
<1>13. (Len(pushed) = Base + Pending)'
  <2>1. Base' = size + Cardinality(Left') /\ Pending' = 0
    BY DEF Base, Pending
  <2>. QED BY <1>1, <1>8, <1>17, <2>1
<1>14. HandIsLast'
  BY DEF HandIsLast
<1>15. (\A place \in 1..Len(pushed) : pushed[place][1] \in 1..file)'
  BY <1>2
<1>16. size' \in Nat /\ taken' \in Nat /\ file' \in Nat /\ placements' \in Seq(PlacementOK)
  BY <1>1 DEF CountInv
<1>. QED BY <1>2, <1>11, <1>12, <1>13, <1>14, <1>15, <1>16 DEF CountInv

\* The stream is of bytes, and the chunk in hand is not full.
StreamShape ==
  /\ partial \in Seq(Unit) /\ Len(partial) < ChunkSize
  /\ builder \in Seq(Seq(Unit))
  /\ storedBevies \in Seq(Seq(Seq(Unit)))

\* A sequence is its beginning and the rest.
LEMMA CutInTwo ==
  ASSUME NEW S, NEW s \in Seq(S), NEW n \in 0..Len(s)
  PROVE  /\ SubSeq(s, 1, n) \in Seq(S) /\ SubSeq(s, n + 1, Len(s)) \in Seq(S)
         /\ Len(SubSeq(s, 1, n)) = n /\ Len(SubSeq(s, n + 1, Len(s))) = Len(s) - n
         /\ SubSeq(s, 1, n) \o SubSeq(s, n + 1, Len(s)) = s
<1> DEFINE a == SubSeq(s, 1, n)
           b == SubSeq(s, n + 1, Len(s))
<1>1. Len(s) \in Nat /\ n \in Nat /\ n <= Len(s)
  OBVIOUS
<1>2. \A i \in 1..Len(s) : s[i] \in S
  OBVIOUS
<1>3. a \in Seq(S) /\ Len(a) = n /\ \A i \in 1..n : a[i] = s[i]
  BY <1>1, <1>2
<1>4. b \in Seq(S) /\ Len(b) = Len(s) - n
  BY <1>1, <1>2
<1>5. \A i \in 1..(Len(s) - n) : b[i] = s[i + n]
  BY <1>1, <1>2
<1> HIDE DEF a, b
<1>6. a \o b \in Seq(S) /\ Len(a \o b) = Len(s)
  BY <1>1, <1>3, <1>4
<1>7. ASSUME NEW i \in 1..Len(s) PROVE (a \o b)[i] = s[i]
  <2>1. CASE i <= n
    BY <1>1, <1>3, <1>4, <2>1
  <2>2. CASE i > n
    <3>1. i - n \in 1..(Len(s) - n) /\ (i - n) + n = i
      BY <1>1, <2>2
    <3>2. (a \o b)[i] = b[i - n]
      BY <1>1, <1>3, <1>4, <2>2
    <3>3. b[i - n] = s[(i - n) + n]
      BY <1>5, <3>1
    <3>4. QED BY <3>1, <3>2, <3>3
  <2>3. i <= n \/ i > n
    BY <1>1
  <2>4. QED BY <2>1, <2>2, <2>3, Zenon
<1>8. a \o b = s
  BY <1>6, <1>7, SeqEqual
<1>9. QED BY <1>3, <1>4, <1>8 DEF a, b

\* Bytes stay in order when a chunk is cut off the front of those in hand.
InOrderStill(S, a, b, c, r, p, x) == (a \o (b \o c)) \o r = ((a \o b) \o p) \o x
\* So they do when chunk and rest are what was in hand and what came.
LEMMA StillInOrder ==
  ASSUME NEW S, NEW a, NEW b, NEW c, NEW r, NEW p, NEW x,
         a \in Seq(S), b \in Seq(S), c \in Seq(S), r \in Seq(S), p \in Seq(S), x \in Seq(S),
         c \o r = p \o x
  PROVE  InOrderStill(S, a, b, c, r, p, x)
<1>1. PICK u : u = a \o b
  OBVIOUS
<1>2. u \in Seq(S)
  BY <1>1
<1>3. Regroups(S, a, b, c)
  BY Regrouped
<1>4. Regroups(S, u, c, r)
  BY <1>2, Regrouped
<1>5. Regroups(S, u, p, x)
  BY <1>2, Regrouped
<1>6. QED BY <1>1, <1>3, <1>4, <1>5, Zenon DEF Regroups, InOrderStill

\* And its bytes more.
LEMMA BevyAppended ==
  ASSUME NEW S, NEW s \in Seq(Seq(Seq(S))), NEW x \in Seq(Seq(S))
  PROVE  /\ FlattenSeq(FlattenSeq(Append(s, x))) = FlattenSeq(FlattenSeq(s)) \o FlattenSeq(x)
         /\ FlattenSeq(FlattenSeq(s)) \in Seq(S) /\ FlattenSeq(x) \in Seq(S)
<1>1. PICK y : y = FlattenSeq(s)
  OBVIOUS
<1>2. y \in Seq(Seq(S))
  BY <1>1, FlattenedIsSequence
<1>3. FlattenSeq(Append(s, x)) = y \o x
  BY <1>1, FlattenAppend
<1>4. FlattenSeq(y \o x) = FlattenSeq(y) \o FlattenSeq(x)
  BY <1>2, FlattenTogether
<1>5. FlattenSeq(y) \in Seq(S)
  BY <1>2, FlattenedIsSequence
<1>6. FlattenSeq(x) \in Seq(S)
  BY FlattenedIsSequence
<1>7. QED BY <1>1, <1>3, <1>4, <1>5, <1>6

\* What the stream holds, stored or in hand, is a sequence of bytes.
LEMMA ContentIsBytes ==
  ASSUME StreamShape
  PROVE  /\ StoredBytes \in Seq(Unit) /\ FlattenSeq(builder) \in Seq(Unit)
         /\ Content \in Seq(Unit)
<1>1. FlattenSeq(builder) \in Seq(Unit)
  BY FlattenedIsSequence DEF StreamShape
<1>2. PICK y : y = FlattenSeq(storedBevies)
  OBVIOUS
<1>3. y \in Seq(Seq(Unit))
  BY <1>2, FlattenedIsSequence DEF StreamShape
<1>4. StoredBytes \in Seq(Unit)
  BY <1>2, <1>3, FlattenedIsSequence DEF StoredBytes
<1>5. partial \in Seq(Unit)
  BY DEF StreamShape
<1>6. QED BY <1>1, <1>4, <1>5 DEF Content

\* What is pushed is what the stream has more.
LEMMA PushExtends ==
  ASSUME StreamShape, NEW bytes \in Seq(Unit), Len(bytes) <= ChunkSize, Push(bytes)
  PROVE  StreamShape' /\ Content' = Content \o bytes
<1>0. ChunkSize \in Nat /\ ChunkSize > 0
  BY SharedAssumption
<1>1. partial \in Seq(Unit)
  BY DEF StreamShape
<1>2. StoredBytes \in Seq(Unit)
  BY ContentIsBytes
<1>3. FlattenSeq(builder) \in Seq(Unit)
  BY ContentIsBytes
<1>4. PICK j : j = Joined(bytes)
  OBVIOUS
<1>5. j \in Seq(Unit)
  BY <1>1, <1>4 DEF Joined
<1>6. Len(j) = Len(partial) + Len(bytes)
  BY <1>1, <1>4 DEF Joined
<1>7. Len(partial) \in Nat /\ Len(bytes) \in Nat /\ Len(partial) < ChunkSize
  BY DEF StreamShape
<1>8. CASE ~ Completes(bytes)
  <2>1. partial' = j /\ builder' = builder /\ storedBevies' = storedBevies
    BY <1>4, <1>8 DEF Push, FillsBevy, Builder
  <2>2. Len(j) < ChunkSize
    BY <1>0, <1>4, <1>6, <1>7, <1>8 DEF Completes
  <2>3. StreamShape'
    BY <1>5, <2>1, <2>2 DEF StreamShape
  <2>4. PICK u : u = StoredBytes \o FlattenSeq(builder)
    OBVIOUS
  <2>5. u \in Seq(Unit)
    BY <1>2, <1>3, <2>4
  <2>6. Content' = u \o (partial \o bytes)
    BY <1>4, <2>1, <2>4 DEF Content, StoredBytes, Joined
  <2>7. Content = u \o partial
    BY <2>4 DEF Content
  <2>8. (u \o partial) \o bytes = u \o (partial \o bytes)
    BY <1>1, <2>5, Regrouped
  <2>9. QED BY <2>3, <2>6, <2>7, <2>8
<1>9. CASE Completes(bytes)
  <2>0. ChunkSize \in 0..Len(j)
    BY <1>0, <1>4, <1>6, <1>7, <1>9 DEF Completes
  <2> DEFINE chunk == SubSeq(j, 1, ChunkSize)
             rest == SubSeq(j, ChunkSize + 1, Len(j))
  <2>1. chunk \in Seq(Unit)
    BY <1>5, <2>0, CutInTwo
  <2>2. rest \in Seq(Unit)
    BY <1>5, <2>0, CutInTwo
  <2>3. chunk \o rest = j
    BY <1>5, <2>0, CutInTwo
  <2>4. Len(rest) = Len(j) - ChunkSize
    BY <1>5, <2>0, CutInTwo
  <2>5. partial' = rest
    BY <1>4, <1>9 DEF Push
  <2>6. Builder(bytes) = Append(builder, chunk)
    BY <1>4, <1>9 DEF Builder
  <2> HIDE DEF chunk, rest
  <2>7. Len(rest) < ChunkSize
    BY <1>0, <1>6, <1>7, <2>4
  <2>8. builder \in Seq(Seq(Unit)) /\ storedBevies \in Seq(Seq(Seq(Unit)))
    BY DEF StreamShape
  <2>9. PICK more : more = Append(builder, chunk)
    OBVIOUS
  <2>10. more \in Seq(Seq(Unit))
    BY <2>1, <2>8, <2>9
  <2>11. FlattenSeq(more) = FlattenSeq(builder) \o chunk
    BY <2>1, <2>8, <2>9, FlattenAppend
  <2>12. (StoredBytes \o (FlattenSeq(builder) \o chunk)) \o rest
           = ((StoredBytes \o FlattenSeq(builder)) \o partial) \o bytes
    <3>1. chunk \o rest = partial \o bytes
      BY <1>4, <2>3 DEF Joined
    <3>2. PICK a : a = StoredBytes
      OBVIOUS
    <3>3. PICK b : b = FlattenSeq(builder)
      OBVIOUS
    <3>4. a \in Seq(Unit)
      BY <1>2, <3>2
    <3>5. b \in Seq(Unit)
      BY <1>3, <3>3
    <3>6. InOrderStill(Unit, a, b, chunk, rest, partial, bytes)
      BY <1>1, <2>1, <2>2, <3>1, <3>4, <3>5, StillInOrder
    <3>7. QED BY <3>2, <3>3, <3>6, Zenon DEF InOrderStill
  <2>13. CASE ~ FillsBevy(bytes)
    <3>1. builder' = more /\ storedBevies' = storedBevies
      BY <2>6, <2>9, <2>13 DEF Push
    <3>2. StreamShape'
      BY <2>2, <2>5, <2>7, <2>8, <2>10, <3>1 DEF StreamShape
    <3>3. Content' = (StoredBytes \o (FlattenSeq(builder) \o chunk)) \o rest
      BY <2>5, <2>11, <3>1 DEF Content, StoredBytes
    <3>4. QED BY <2>12, <3>2, <3>3 DEF Content
  <2>14. CASE FillsBevy(bytes)
    <3>1. builder' = <<>> /\ storedBevies' = Append(storedBevies, more)
      BY <2>6, <2>9, <2>14 DEF Push
    <3>2. <<>> \in Seq(Seq(Unit)) /\ Append(storedBevies, more) \in Seq(Seq(Seq(Unit)))
      BY <2>8, <2>10
    <3>3. StreamShape'
      BY <2>2, <2>5, <2>7, <3>1, <3>2 DEF StreamShape
    <3>4. StoredBytes' = StoredBytes \o (FlattenSeq(builder) \o chunk)
      BY <2>8, <2>10, <2>11, <3>1, BevyAppended DEF StoredBytes
    <3>5. FlattenSeq(builder') = <<>>
      BY <3>1, FlattenNone
    <3>6. PICK s : s = StoredBytes'
      OBVIOUS
    <3>7. s \in Seq(Unit)
      BY <1>2, <1>3, <2>1, <3>4, <3>6
    <3>8. s \o <<>> = s
      BY <3>7
    <3>9. Content' = s \o rest
      BY <2>5, <3>5, <3>6, <3>8 DEF Content
    <3>10. QED BY <2>12, <3>3, <3>4, <3>6, <3>9 DEF Content
  <2>15. QED BY <2>13, <2>14
<1>10. QED BY <1>8, <1>9

\* The last chunk is padded, and all that was in hand is stored.
LEMMA CloseExtends ==
  ASSUME StreamShape, CloseStream
  PROVE  \E x \in Seq(Unit) : Content' = Content \o x
<1>0. ChunkSize \in Nat
  BY SharedAssumption
<1>1. StoredBytes \in Seq(Unit)
  BY ContentIsBytes
<1>2. FlattenSeq(builder) \in Seq(Unit)
  BY ContentIsBytes
<1>3. partial \in Seq(Unit)
  BY DEF StreamShape
<1>4. builder \in Seq(Seq(Unit))
  BY DEF StreamShape
<1>5. storedBevies \in Seq(Seq(Seq(Unit)))
  BY DEF StreamShape
<1>6. partial' = <<>> /\ builder' = <<>>
      /\ storedBevies' = IF LastBuilder = <<>> THEN storedBevies ELSE Append(storedBevies, LastBuilder)
  BY DEF CloseStream
<1>7. PICK stored : stored = StoredBytes'
  OBVIOUS
<1>8. stored \in Seq(Unit) => Content' = stored
  <2>1. FlattenSeq(builder') = <<>>
    BY <1>6, FlattenNone
  <2>2. stored \in Seq(Unit) => (stored \o <<>>) \o <<>> = stored
    OBVIOUS
  <2>3. QED BY <1>6, <1>7, <2>1, <2>2 DEF Content
<1>9. PICK a : a = StoredBytes
  OBVIOUS
<1>10. PICK b : b = FlattenSeq(builder)
  OBVIOUS
<1>11. a \in Seq(Unit)
  BY <1>1, <1>9
<1>12. b \in Seq(Unit)
  BY <1>2, <1>10
<1>13. Content = (a \o b) \o partial
  BY <1>9, <1>10 DEF Content
<1>14. CASE LastBuilder = <<>>
  <2>1. partial = <<>> /\ builder = <<>>
    <3>1. Append(builder, LastChunk) # <<>>
      <4>1. PICK X : X = Seq(Unit) \cup {LastChunk}
        OBVIOUS
      <4>2. builder \in Seq(X) /\ LastChunk \in X
        BY <1>4, <4>1
      <4>3. Len(Append(builder, LastChunk)) = Len(builder) + 1 /\ Len(builder) \in Nat
        BY <4>2
      <4>4. QED BY <4>3
    <3>2. QED BY <1>14, <3>1 DEF LastBuilder
  <2>2. stored = a
    BY <1>6, <1>7, <1>9, <1>14 DEF StoredBytes
  <2>3. b = <<>>
    BY <1>10, <2>1, FlattenNone
  <2>4. ((a \o <<>>) \o <<>>) \o <<>> = a
    BY <1>11
  <2>5. Content' = Content \o <<>>
    BY <1>8, <1>11, <1>13, <2>1, <2>2, <2>3, <2>4
  <2>6. <<>> \in Seq(Unit)
    OBVIOUS
  <2>7. QED BY <2>5, <2>6
<1>15. CASE LastBuilder # <<>> /\ partial = <<>>
  <2>1. storedBevies' = Append(storedBevies, builder)
    BY <1>6, <1>15 DEF LastBuilder
  <2>2. stored = a \o b
    BY <1>4, <1>5, <1>7, <1>9, <1>10, <2>1, BevyAppended DEF StoredBytes
  <2>3. a \o b \in Seq(Unit)
    BY <1>11, <1>12
  <2>4. (stored \o <<>>) \o <<>> = stored
    BY <2>2, <2>3
  <2>5. Content' = Content \o <<>>
    BY <1>8, <1>13, <1>15, <2>2, <2>3, <2>4
  <2>6. <<>> \in Seq(Unit)
    OBVIOUS
  <2>7. QED BY <2>5, <2>6
<1>16. CASE LastBuilder # <<>> /\ partial # <<>>
  <2>1. PICK pad : pad = [i \in 1..(ChunkSize - Len(partial)) |-> Pad]
    OBVIOUS
  <2>2. pad \in Seq(Unit)
    <3>1. Pad \in Unit
      BY DEF Pad, Unit
    <3>2. ChunkSize - Len(partial) \in Nat
      BY <1>0 DEF StreamShape
    <3>3. \A n \in Nat : [i \in 1..n |-> Pad] \in Seq(Unit)
      BY <3>1
    <3>4. QED BY <2>1, <3>2, <3>3
  <2>3. PICK chunk : chunk = partial \o pad
    OBVIOUS
  <2>4. chunk \in Seq(Unit)
    BY <1>3, <2>2, <2>3
  <2>5. PICK last : last = Append(builder, chunk)
    OBVIOUS
  <2>6. last \in Seq(Seq(Unit))
    BY <1>4, <2>4, <2>5
  <2>7. storedBevies' = Append(storedBevies, last)
    BY <1>6, <1>16, <2>1, <2>3, <2>5 DEF LastBuilder, LastChunk
  <2>8. FlattenSeq(last) = b \o chunk
    BY <1>4, <1>10, <2>4, <2>5, FlattenAppend
  <2>9. stored = a \o (b \o chunk)
    BY <1>5, <1>7, <1>9, <2>6, <2>7, <2>8, BevyAppended DEF StoredBytes
  <2>10. Regroups(Unit, a, b, chunk)
    BY <1>11, <1>12, <2>4, Regrouped
  <2>11. PICK u : u = a \o b
    OBVIOUS
  <2>12. u \in Seq(Unit)
    BY <1>11, <1>12, <2>11
  <2>13. Regroups(Unit, u, partial, pad)
    BY <1>3, <2>2, <2>12, Regrouped
  <2>14. stored = Content \o pad
    BY <1>13, <2>3, <2>9, <2>10, <2>11, <2>13, Zenon DEF Regroups
  <2>15. stored \in Seq(Unit)
    BY <1>11, <1>12, <2>4, <2>9
  <2>16. QED BY <1>8, <2>2, <2>14, <2>15
<1>17. QED BY <1>14, <1>15, <1>16

(* Nothing more is left where only files without bytes of their own, or files *)
(* placed, are skipped.                                                      *)
LEMMA NothingMoreLeft ==
  ASSUME UNCHANGED <<pushed, placements>>, skipped \subseteq skipped',
         \A f \in skipped' \ skipped :
           f \in PlacedFiles \/ \A place \in 1..Len(pushed) : pushed[place][1] # f
  PROVE  Left' = Left
<1>1. PlacedFiles' = PlacedFiles
  BY DEF PlacedFiles
<1>2. Interrupted' = Interrupted
  BY <1>1 DEF Interrupted
<1>. QED BY <1>2 DEF Left

(* Every step keeps the count.                                               *)
LEMMA StepCounts == StreamShape /\ CountInv /\ [SharedNext]_sharedVars => CountInv'
<1>. SUFFICES ASSUME StreamShape, CountInv, [SharedNext]_sharedVars PROVE CountInv'
  OBVIOUS
<1>n. \A n \in Nat : n + 1 \in 1..(n + 1) /\ n + 1 \notin 1..n /\ 1..n \subseteq 1..(n + 1)
  OBVIOUS
<1>f. file \in Nat /\ taken \in Nat /\ FilesInOrder
  BY DEF CountInv
<1>p. PlacedFiles \subseteq 1..file
  BY <1>f DEF FilesInOrder, PlacedFiles
<1>1. CASE OpenFile
  <2>1. /\ stage = "walking" /\ file' = file + 1 /\ taken' = 0 /\ stage' = "appending"
        /\ UNCHANGED <<size, pushed, placements, skipped>>
    BY <1>1 DEF OpenFile, fileVars
  <2>2. PlacedFiles' = PlacedFiles
    BY <2>1 DEF PlacedFiles
  <2>3. FilesInOrder'
    BY <1>n, <1>f, <1>p, <2>1, <2>2 DEF FilesInOrder
  <2>4. Pending' = Pending
    BY <2>1 DEF Pending
  <2>5. Left' = Left
    BY <2>1, NothingMoreLeft
  <2>6. taken' \in Nat /\ file' \in Nat
    BY <1>f, <2>1
  <2>7. QED BY <2>1, <2>3, <2>4, <2>5, <2>6, QuietCounts
<1>2. CASE OpenFails
  <2>1. /\ stage = "walking" /\ file' = file + 1 /\ taken' = 0 /\ stage' = stage
        /\ skipped' = skipped \cup {file + 1}
        /\ UNCHANGED <<size, pushed, placements>>
    BY <1>2 DEF OpenFails, streamVars
  <2>2. PlacedFiles' = PlacedFiles
    BY <2>1 DEF PlacedFiles
  <2>3. FilesInOrder'
    BY <1>n, <1>f, <2>1, <2>2 DEF FilesInOrder
  <2>4. Pending' = Pending
    BY <2>1 DEF Pending
  <2>5. Left' = Left
    <3>1. \A place \in 1..Len(pushed) : pushed[place][1] # file + 1
      BY <1>n, <1>f DEF CountInv
    <3>2. QED BY <2>1, <3>1, NothingMoreLeft
  <2>6. taken' \in Nat /\ file' \in Nat
    BY <1>f, <2>1
  <2>7. QED BY <2>1, <2>3, <2>4, <2>5, <2>6, QuietCounts
<1>3. CASE AppendTurn
  BY <1>3, AppendTurnCounts
<1>4. CASE AppendReadFails
  <2>1. /\ stage = "appending" /\ stage' = "walking" /\ skipped' = skipped \cup {file}
        /\ UNCHANGED <<file, taken, size, pushed, placements>>
    BY <1>4 DEF AppendReadFails, Skip, streamVars
  <2>2. pushed' = pushed \o Bytes(file, taken, 0)
    <3>1. PICK none : none = Bytes(file, taken, 0)
      OBVIOUS
    <3>2. none = <<>>
      BY <3>1 DEF Bytes
    <3>3. pushed \in Seq(Unit)
      BY DEF CountInv
    <3>4. pushed \o <<>> = pushed
      BY <3>3
    <3>5. QED BY <2>1, <3>1, <3>2, <3>4
  <2>3. QED BY <2>1, <2>2, AppendFailsCounts
<1>5. CASE \E count \in 0..(ChunkSize - 1) : AppendEnds(count)
  BY <1>5, AppendEndsCounts
<1>6. CASE \E count \in 0..ChunkSize : AppendFlushFails(count)
  <2>1. PICK count \in 0..ChunkSize : AppendFlushFails(count)
    BY <1>6
  <2>2. PICK k : k = ChunkSize - Len(partial)
    OBVIOUS
  <2>3. /\ stage = "appending" /\ stage' = "walking" /\ skipped' = skipped \cup {file}
        /\ pushed' = pushed \o SubSeq(Turn(count), 1, k) /\ Completes(Turn(count))
        /\ UNCHANGED <<file, taken, size, placements>>
    BY <2>1, <2>2 DEF AppendFlushFails, PushFails, Skip, FillsBevy
  <2>4. ChunkSize \in Nat /\ count \in Nat /\ partial \in Seq(Unit) /\ Len(partial) < ChunkSize
    BY SharedAssumption DEF StreamShape
  <2>5. PICK bytes : bytes = Turn(count)
    OBVIOUS
  <2>6. bytes \in Seq(Unit) /\ Len(bytes) = count
    <3>1. \A i \in 1..count : <<file, taken + i>> \in Unit
      BY <1>f, <2>4 DEF Unit
    <3>2. bytes = [i \in 1..count |-> <<file, taken + i>>]
      BY <2>5 DEF Turn, Bytes
    <3>3. \A n \in Nat : \A f : (\A i \in 1..n : f[i] \in Unit) /\ f = [i \in 1..n |-> f[i]]
            => f \in Seq(Unit) /\ Len(f) = n
      OBVIOUS
    <3>4. QED BY <2>4, <3>1, <3>2, <3>3
  <2>7. k \in Nat /\ k <= count
    <3>1. Len(partial \o bytes) >= ChunkSize
      BY <2>3, <2>5 DEF Completes, Joined
    <3>2. Len(partial \o bytes) = Len(partial) + count
      BY <2>4, <2>6
    <3>3. QED BY <2>2, <2>4, <3>1, <3>2
  <2>8. SubSeq(bytes, 1, k) = Bytes(file, taken, k)
    <3>1. PICK s : s = SubSeq(bytes, 1, k)
      OBVIOUS
    <3>2. s \in Seq(Unit) /\ Len(s) = k /\ \A i \in 1..k : s[i] = bytes[i]
      BY <2>4, <2>6, <2>7, <3>1
    <3>3. \A i \in 1..k : bytes[i] = <<file, taken + i>>
      BY <2>4, <2>5, <2>7 DEF Turn, Bytes
    <3>4. s = [i \in 1..k |-> s[i]]
      BY <3>2
    <3>5. s = [i \in 1..k |-> <<file, taken + i>>]
      BY <3>2, <3>3, <3>4
    <3>6. QED BY <3>1, <3>5 DEF Bytes
  <2>9. QED BY <2>3, <2>5, <2>7, <2>8, AppendFailsCounts
<1>7. CASE WriteMap
  <2>1. /\ stage = "mapping" /\ stage' = "walking"
        /\ UNCHANGED <<file, taken, size, pushed, placements, skipped>>
    BY <1>7 DEF WriteMap, streamVars
  <2>2. PlacedFiles' = PlacedFiles
    BY <2>1 DEF PlacedFiles
  <2>3. FilesInOrder'
    BY <1>f, <2>1, <2>2 DEF FilesInOrder
  <2>4. Pending' = Pending
    BY <2>1 DEF Pending
  <2>5. Left' = Left
    BY <2>1, NothingMoreLeft
  <2>6. QED BY <1>f, <2>1, <2>3, <2>4, <2>5, QuietCounts
<1>8. CASE WriteMapFails
  <2>1. /\ stage = "mapping" /\ stage' = "walking" /\ skipped' = skipped \cup {file}
        /\ UNCHANGED <<file, taken, size, pushed, placements>>
    BY <1>8 DEF WriteMapFails, Skip, streamVars
  <2>2. PlacedFiles' = PlacedFiles /\ file \in PlacedFiles
    BY <1>f, <2>1 DEF PlacedFiles, FilesInOrder
  <2>3. FilesInOrder'
    BY <1>f, <1>p, <2>1, <2>2 DEF FilesInOrder
  <2>4. Pending' = Pending
    BY <2>1 DEF Pending
  <2>5. Left' = Left
    BY <2>1, <2>2, NothingMoreLeft
  <2>6. QED BY <1>f, <2>1, <2>3, <2>4, <2>5, QuietCounts
<1>9. CASE WalkEnds /\ stage' \in {"finished", "failed"}
                    /\ UNCHANGED <<file, taken, size, pushed, fileVars>>
  <2>1. /\ stage = "walking" /\ stage' \in {"finished", "failed"}
        /\ UNCHANGED <<file, taken, size, pushed, placements, skipped>>
    BY <1>9 DEF WalkEnds, fileVars
  <2>2. PlacedFiles' = PlacedFiles
    BY <2>1 DEF PlacedFiles
  <2>3. FilesInOrder'
    BY <1>f, <2>1, <2>2 DEF FilesInOrder
  <2>4. Pending' = Pending
    BY <2>1 DEF Pending
  <2>5. Left' = Left
    BY <2>1, NothingMoreLeft
  <2>6. QED BY <1>f, <2>1, <2>3, <2>4, <2>5, QuietCounts
<1>10. CASE CloseStream
  BY <1>9, <1>10 DEF CloseStream
<1>11. CASE CloseFails
  BY <1>9, <1>11 DEF CloseFails, streamVars
<1>12. CASE UNCHANGED sharedVars
  <2>1. UNCHANGED <<stage, file, taken, size, pushed, placements, skipped>>
    BY <1>12 DEF sharedVars, streamVars, fileVars
  <2>2. PlacedFiles' = PlacedFiles
    BY <2>1 DEF PlacedFiles
  <2>3. FilesInOrder'
    BY <1>f, <2>1, <2>2 DEF FilesInOrder
  <2>4. Pending' = Pending
    BY <2>1 DEF Pending
  <2>5. Left' = Left
    BY <2>1, NothingMoreLeft
  <2>6. QED BY <1>f, <2>1, <2>3, <2>4, <2>5, QuietCounts
<1>. QED
  BY <1>1, <1>2, <1>3, <1>4, <1>5, <1>6, <1>7, <1>8, <1>10, <1>11, <1>12
  DEF SharedNext, Over

-----------------------------------------------------------------------------
(* Files that share a stream: what it holds *)

\* The stream is what was pushed, and its padding once it is closed.
HoldsPushed ==
  dropped = 0 =>
    \E x \in Seq(Unit) : Content = pushed \o x /\ (stage # "finished" => x = <<>>)

SharedInv ==
  /\ CountInv /\ StreamShape /\ dropped \in Nat /\ HoldsPushed
  /\ stage = "finished" => partial = <<>> /\ builder = <<>>

(* A step that leaves the stream alone before its close, or after it.        *)
LEMMA QuietHolds ==
  ASSUME SharedInv, UNCHANGED <<partial, builder, storedBevies, dropped, pushed>>,
         stage' = "finished" <=> stage = "finished"
  PROVE  /\ StreamShape' /\ dropped' \in Nat /\ HoldsPushed'
         /\ stage' = "finished" => partial' = <<>> /\ builder' = <<>>
<1>1. StreamShape' /\ Content' = Content
  BY DEF SharedInv, StreamShape, Content, StoredBytes
<1>2. HoldsPushed'
  BY <1>1 DEF SharedInv, HoldsPushed
<1>. QED BY <1>1, <1>2 DEF SharedInv

(* A turn's bytes are the stream's.                                          *)
LEMMA TurnHolds ==
  ASSUME SharedInv, stage # "finished", stage' # "finished",
         NEW count \in 0..ChunkSize, Push(Turn(count))
  PROVE  /\ StreamShape' /\ dropped' \in Nat /\ HoldsPushed'
         /\ stage' = "finished" => partial' = <<>> /\ builder' = <<>>
<1>1. taken \in Nat /\ file \in Nat /\ count \in Nat /\ count <= ChunkSize /\ ChunkSize \in Nat
      /\ pushed \in Seq(Unit)
  BY SharedAssumption DEF SharedInv, CountInv
<1>2. PICK bytes : bytes = Turn(count)
  OBVIOUS
<1>3. bytes \in Seq(Unit) /\ Len(bytes) = count
  <2>1. \A i \in 1..count : <<file, taken + i>> \in Unit
    BY <1>1 DEF Unit
  <2>2. bytes = [i \in 1..count |-> <<file, taken + i>>]
    BY <1>2 DEF Turn, Bytes
  <2>3. \A n \in Nat : \A f : (\A i \in 1..n : f[i] \in Unit) /\ f = [i \in 1..n |-> f[i]]
          => f \in Seq(Unit) /\ Len(f) = n
    OBVIOUS
  <2>4. QED BY <1>1, <2>1, <2>2, <2>3
<1>4. StreamShape' /\ Content' = Content \o bytes
  BY <1>1, <1>2, <1>3, PushExtends DEF SharedInv
<1>5. pushed' = pushed \o bytes /\ dropped' = dropped
  BY <1>2 DEF Push
<1>6. HoldsPushed'
  <2>. SUFFICES ASSUME dropped = 0 PROVE Content' = pushed' \o <<>>
    <3>1. PICK none : none = <<>>
      OBVIOUS
    <3>2. none \in Seq(Unit)
      BY <3>1
    <3>3. QED BY <1>5, <3>1, <3>2, Zenon DEF HoldsPushed
  <2>1. pushed \o <<>> = pushed /\ (pushed \o bytes) \o <<>> = pushed \o bytes
    <3>1. pushed \o bytes \in Seq(Unit)
      BY <1>1, <1>3
    <3>2. QED BY <1>1, <3>1
  <2>2. Content = pushed
    BY <2>1 DEF SharedInv, HoldsPushed
  <2>3. QED BY <1>4, <1>5, <2>1, <2>2
<1>. QED BY <1>4, <1>5, <1>6 DEF SharedInv

(* The close stores what is in hand, padded.                                 *)
LEMMA CloseHolds ==
  ASSUME SharedInv, CloseStream
  PROVE  /\ StreamShape' /\ dropped' \in Nat /\ HoldsPushed'
         /\ stage' = "finished" => partial' = <<>> /\ builder' = <<>>
<1>1. StreamShape /\ pushed \in Seq(Unit)
  BY DEF SharedInv, CountInv
<1>2. PICK x \in Seq(Unit) : Content' = Content \o x
  BY <1>1, CloseExtends
<1>3. /\ partial' = <<>> /\ builder' = <<>> /\ stage' = "finished" /\ stage = "walking"
      /\ UNCHANGED <<dropped, pushed>>
      /\ storedBevies' = IF LastBuilder = <<>> THEN storedBevies
                         ELSE Append(storedBevies, LastBuilder)
  BY DEF CloseStream, WalkEnds
<1>7. StreamShape'
  <2>1. ChunkSize \in Nat /\ ChunkSize > 0 /\ Len(<<>>) = 0
    BY SharedAssumption
  <2>2. LastBuilder \in Seq(Seq(Unit))
    <3>1. CASE partial = <<>>
      BY <1>1, <3>1 DEF LastBuilder, StreamShape
    <3>2. CASE partial # <<>>
      <4>1. PICK pad : pad = [i \in 1..(ChunkSize - Len(partial)) |-> Pad]
        OBVIOUS
      <4>2. Pad \in Unit
        BY DEF Pad, Unit
      <4>3. partial \in Seq(Unit) /\ ChunkSize - Len(partial) \in Nat
        BY <1>1, <2>1 DEF StreamShape
      <4>4. \A n \in Nat : [i \in 1..n |-> Pad] \in Seq(Unit)
        BY <4>2
      <4>5. pad \in Seq(Unit)
        BY <4>1, <4>3, <4>4
      <4>6. LastChunk \in Seq(Unit)
        BY <4>1, <4>3, <4>5 DEF LastChunk
      <4>7. QED BY <1>1, <3>2, <4>6 DEF LastBuilder, StreamShape
    <3>3. QED BY <3>1, <3>2
  <2>3. storedBevies' \in Seq(Seq(Seq(Unit)))
    BY <1>1, <1>3, <2>2 DEF StreamShape
  <2>4. <<>> \in Seq(Unit) /\ <<>> \in Seq(Seq(Unit))
    OBVIOUS
  <2>5. Len(partial') < ChunkSize
    BY <1>3, <2>1
  <2>6. QED BY <1>3, <2>3, <2>4, <2>5 DEF StreamShape
<1>8. HoldsPushed'
  <2>. SUFFICES ASSUME dropped = 0 PROVE Content' = pushed \o x
    BY <1>3 DEF HoldsPushed
  <2>1. pushed \o <<>> = pushed
    BY <1>1
  <2>2. Content = pushed
    BY <1>3, <2>1 DEF SharedInv, HoldsPushed
  <2>3. QED BY <1>2, <2>2
<1>9. QED BY <1>3, <1>7, <1>8 DEF SharedInv

(* Every step keeps the count, and the stream as it is counted.              *)
LEMMA StepKeepsShared == SharedInv /\ [SharedNext]_sharedVars => SharedInv'
<1>. SUFFICES ASSUME SharedInv, [SharedNext]_sharedVars PROVE SharedInv'
  OBVIOUS
<1>1. CountInv'
  BY StepCounts DEF SharedInv
<1>. DEFINE Rest == /\ StreamShape /\ dropped \in Nat /\ HoldsPushed
                    /\ stage = "finished" => partial = <<>> /\ builder = <<>>
<1>. SUFFICES Rest'
  BY <1>1 DEF SharedInv
<1>2. CASE UNCHANGED <<partial, builder, storedBevies, dropped, pushed>>
           /\ (stage' = "finished" <=> stage = "finished")
  BY <1>2, QuietHolds
<1>3. CASE AppendTurn
  <2>1. stage = "appending" /\ stage' = stage /\ Push(Turn(ChunkSize)) /\ ChunkSize \in 0..ChunkSize
    BY <1>3, SharedAssumption DEF AppendTurn
  <2>2. QED BY <2>1, TurnHolds
<1>4. CASE \E count \in 0..(ChunkSize - 1) : AppendEnds(count)
  <2>1. PICK count \in 0..(ChunkSize - 1) : AppendEnds(count)
    BY <1>4
  <2>2. stage = "appending" /\ stage' = "mapping" /\ Push(Turn(count)) /\ count \in 0..ChunkSize
    BY <2>1, SharedAssumption DEF AppendEnds
  <2>3. QED BY <2>2, TurnHolds
<1>5. CASE \E count \in 0..ChunkSize : AppendFlushFails(count)
  <2>1. /\ stage' = "walking" /\ partial' = <<>> /\ builder' = <<>> /\ dropped' = dropped + 1
        /\ storedBevies' = storedBevies
    BY <1>5 DEF AppendFlushFails, PushFails, Skip
  <2>2. dropped' \in Nat /\ dropped' # 0
    BY <2>1 DEF SharedInv
  <2>3. StreamShape'
    <3>1. Len(<<>>) = 0
      OBVIOUS
    <3>2. <<>> \in Seq(Unit) /\ <<>> \in Seq(Seq(Unit))
      OBVIOUS
    <3>3. Len(partial') < ChunkSize
      BY <2>1, <3>1, SharedAssumption
    <3>4. QED BY <2>1, <3>2, <3>3 DEF SharedInv, StreamShape
  <2>4. QED BY <2>1, <2>2, <2>3 DEF HoldsPushed
<1>6. CASE CloseStream
  BY <1>6, CloseHolds
<1>7. CASE OpenFile
  BY <1>2, <1>7 DEF OpenFile
<1>8. CASE OpenFails
  BY <1>2, <1>8 DEF OpenFails, streamVars
<1>9. CASE AppendReadFails
  BY <1>2, <1>9 DEF AppendReadFails, Skip, streamVars
<1>10. CASE WriteMap
  BY <1>2, <1>10 DEF WriteMap, streamVars
<1>11. CASE WriteMapFails
  BY <1>2, <1>11 DEF WriteMapFails, Skip, streamVars
<1>12. CASE CloseFails
  BY <1>2, <1>12 DEF CloseFails, WalkEnds, streamVars
<1>13. CASE UNCHANGED sharedVars
  BY <1>2, <1>13 DEF sharedVars, streamVars
<1>. QED
  BY <1>3, <1>4, <1>5, <1>6, <1>7, <1>8, <1>9, <1>10, <1>11, <1>12, <1>13
  DEF SharedNext, Over

LEMMA SharedBegins == SharedInit => SharedInv
<1>. SUFFICES ASSUME SharedInit PROVE SharedInv
  OBVIOUS
<1>1. /\ partial = <<>> /\ builder = <<>> /\ storedBevies = <<>> /\ placements = <<>>
      /\ skipped = {} /\ stage = "walking" /\ dropped = 0 /\ file = 0 /\ size = 0 /\ taken = 0
      /\ pushed = <<>>
  BY DEF SharedInit
<1>2. /\ Len(<<>>) = 0 /\ 1..0 = {} /\ 0 < ChunkSize /\ <<>> \in Seq(PlacementOK)
      /\ <<>> \in Seq(Unit) /\ <<>> \in Seq(Seq(Unit)) /\ <<>> \in Seq(Seq(Seq(Unit)))
  BY SharedAssumption
<1>3. StreamShape
  BY <1>1, <1>2 DEF StreamShape
<1>4. 1..Len(placements) = {} /\ 1..Len(pushed) = {}
  BY <1>1, <1>2
<1>5. FilesInOrder
  BY <1>1, <1>4 DEF FilesInOrder
<1>6. Left = {} /\ Cardinality({}) = 0
  BY <1>4, FS_EmptySet DEF Left
<1>7. Len(pushed) = Base + Pending
  BY <1>1, <1>2, <1>6 DEF Base, Pending
<1>8. CountInv
  BY <1>1, <1>2, <1>4, <1>5, <1>7 DEF CountInv, HandIsLast
<1>9. Content = pushed \o <<>>
  <2>1. StoredBytes = <<>>
    BY <1>1, FlattenNone DEF StoredBytes
  <2>2. (<<>> \o <<>>) \o <<>> = <<>> /\ <<>> \o <<>> = <<>>
    OBVIOUS
  <2>3. QED BY <1>1, <2>1, <2>2, FlattenNone DEF Content
<1>10. HoldsPushed
  BY <1>2, <1>9 DEF HoldsPushed
<1>. QED BY <1>1, <1>3, <1>8, <1>10 DEF SharedInv

(* Whatever fails and whatever the sizes of files, chunks and bevies, the    *)
(* bytes pushed to the shared stream are those counted, at their places in   *)
(* their files' ranges, those of the file at hand, and those failed appends  *)
(* left; and unless a write failed the stream holds them, in order.          *)
THEOREM SharedBytesAreCounted == SharedSpec => []PushedBytesAreCountedOrLeft
<1>1. SharedInv => PushedBytesAreCountedOrLeft
  <2>. SUFFICES ASSUME SharedInv PROVE PushedBytesAreCountedOrLeft
    OBVIOUS
  <2>1. pushed \in Seq(Unit) /\ size \in Nat /\ taken \in Nat /\ Cardinality(Left) \in Nat
        /\ Len(pushed) = Base + Pending
    BY LeftIsOfStream DEF SharedInv, CountInv
  <2>2. Len(pushed) = size + Pending + Cardinality(Left)
    BY <2>1 DEF Base, Pending
  <2>3. ASSUME dropped = 0
        PROVE  IF stage = "finished" THEN IsPrefix(pushed, Content) ELSE Content = pushed
    <3>1. PICK x \in Seq(Unit) : Content = pushed \o x /\ (stage # "finished" => x = <<>>)
      BY <2>3 DEF SharedInv, HoldsPushed
    <3>2. IsPrefix(pushed, pushed \o x)
      <4>1. PICK t : t = pushed \o x
        OBVIOUS
      <4>2. t \in Seq(Unit) /\ Len(pushed) \in Nat /\ Len(pushed) <= Len(t)
        <5>1. Len(t) = Len(pushed) + Len(x) /\ Len(x) \in Nat /\ Len(pushed) \in Nat
          BY <2>1, <4>1, LenProperties, ConcatProperties
        <5>2. t \in Seq(Unit)
          BY <2>1, <4>1, ConcatProperties
        <5>3. QED BY <5>1, <5>2
      <4>3. \A i \in 1..Len(pushed) : t[i] = pushed[i]
        BY <2>1, <4>1
      <4>4. SubSeq(t, 1, Len(pushed)) = SubSeq(pushed, 1, Len(pushed))
        <5>1. PICK a : a = SubSeq(t, 1, Len(pushed))
          OBVIOUS
        <5>2. PICK b : b = SubSeq(pushed, 1, Len(pushed))
          OBVIOUS
        <5>3. a \in Seq(Unit) /\ Len(a) = Len(pushed) /\ \A i \in 1..Len(pushed) : a[i] = t[i]
          BY <4>2, <5>1
        <5>4. b \in Seq(Unit) /\ Len(b) = Len(pushed) /\ \A i \in 1..Len(pushed) : b[i] = pushed[i]
          BY <2>1, <4>2, <5>2
        <5>5. a = b
          BY <4>3, <5>3, <5>4, SeqEqual
        <5>6. QED BY <5>1, <5>2, <5>5
      <4>5. QED BY <4>1, <4>2, <4>4 DEF IsPrefix
    <3>3. pushed \o <<>> = pushed
      BY <2>1
    <3>4. QED BY <3>1, <3>2, <3>3
  <2>4. QED BY <2>2, <2>3 DEF PushedBytesAreCountedOrLeft, SharedInv, CountInv
<1>. QED BY <1>1, SharedBegins, StepKeepsShared, PTL DEF SharedSpec

(* Each file placed in the shared stream reads back its own bytes once the  *)
(* stream is closed, for files of every length and chunks and bevies of     *)
(* every size, unless a write failed or a failed append left bytes behind.  *)
THEOREM AcquiredFilesComeBack == SharedSpec => []AcquiredFilesReadBack
<1>2. SharedInv => AcquiredFilesReadBack
  <2>. SUFFICES ASSUME SharedInv, stage = "finished", dropped = 0, Interrupted = {},
                       NEW i \in 1..Len(placements)
                PROVE  ReadsBack(placements[i])
    BY DEF AcquiredFilesReadBack
  <2>1. StreamShape /\ partial = <<>> /\ builder = <<>> /\ pushed \in Seq(Unit)
        /\ placements[i] \in PlacementOK /\ RangeIsOwn(placements[i])
    BY DEF SharedInv, CountInv
  <2>2. StoredBytes \in Seq(Unit)
    BY <2>1, ContentIsBytes
  <2>3. PICK stored : stored = StoredBytes
    OBVIOUS
  <2>4. stored \in Seq(Unit) /\ Content = stored
    <3>1. stored \in Seq(Unit)
      BY <2>2, <2>3
    <3>2. (stored \o <<>>) \o <<>> = stored
      BY <3>1
    <3>3. QED BY <2>1, <2>3, <3>1, <3>2, FlattenNone DEF Content
  <2>5. PICK x \in Seq(Unit) : stored = pushed \o x
    BY <2>4 DEF SharedInv, HoldsPushed
  <2>6. PICK o : o = placements[i].offset
    OBVIOUS
  <2>7. PICK n : n = placements[i].size
    OBVIOUS
  <2>8. o \in Nat /\ n \in Nat
    BY <2>1, <2>6, <2>7 DEF PlacementOK
  <2>13. Start(placements[i]) = o
    <3>1. LeftBefore(placements[i].file) = {}
      BY DEF LeftBefore, Left
    <3>2. Start(placements[i]) = o + 0
      BY <2>6, <3>1, FS_EmptySet DEF Start
    <3>3. QED BY <2>8, <3>2
  <2>14. o + n <= Len(pushed) /\ \A j \in 1..n : pushed[o + j] = <<placements[i].file, j>>
    BY <2>1, <2>7, <2>13 DEF RangeIsOwn
  <2>9. o + n <= Len(stored) /\ \A j \in 1..n : stored[o + j] = <<placements[i].file, j>>
    <3>1. /\ Len(pushed) \in Nat /\ Len(stored) \in Nat /\ Len(pushed) <= Len(stored)
          /\ \A place \in 1..Len(pushed) : stored[place] = pushed[place]
      BY <2>1, <2>5
    <3>2. \A a, b, c \in Nat : a + b <= c => \A j \in 1..b : a + j \in 1..c
      OBVIOUS
    <3>3. \A j \in 1..n : o + j \in 1..Len(pushed)
      BY <2>8, <2>14, <3>1, <3>2
    <3>4. \A a, b, c, d \in Nat : a + b <= c /\ c <= d => a + b <= d
      OBVIOUS
    <3>5. o + n <= Len(stored)
      BY <2>8, <2>14, <3>1, <3>4
    <3>6. QED BY <2>14, <3>1, <3>3, <3>5
  <2>10. SubSeq(stored, o + 1, o + n) = [j \in 1..n |-> <<placements[i].file, j>>]
    <3>1. PICK s : s = SubSeq(stored, o + 1, o + n)
      OBVIOUS
    <3>2. PICK r : r = [j \in 1..n |-> <<placements[i].file, j>>]
      OBVIOUS
    <3>3. o + 1 \in Nat /\ o + n \in Nat /\ (o + n) - (o + 1) + 1 = n
      BY <2>8
    <3>4. s \in Seq(Unit) /\ Len(s) = n
      BY <2>4, <2>8, <2>9, <3>1, <3>3
    <3>5. \A j \in 1..n : s[j] = stored[o + j]
      BY <2>4, <2>8, <2>9, <3>1, <3>3
    <3>6. \A j \in 1..n : s[j] \in Unit /\ r[j] = s[j]
      BY <2>9, <3>2, <3>4, <3>5
    <3>7. r = [j \in 1..n |-> s[j]]
      BY <3>2, <3>6
    <3>8. s = [j \in 1..n |-> s[j]]
      BY <3>4
    <3>9. QED BY <3>1, <3>2, <3>7, <3>8
  <2>11. Bytes(placements[i].file, 0, n) = [j \in 1..n |-> <<placements[i].file, j>>]
    BY <2>8 DEF Bytes
  <2>12. QED BY <2>3, <2>6, <2>7, <2>9, <2>10, <2>11 DEF ReadsBack, Placed
<1>3. QED BY <1>2, SharedBegins, StepKeepsShared, PTL DEF SharedSpec

=============================================================================
