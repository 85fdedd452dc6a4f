--------------------------- MODULE ReaderGovernor ---------------------------
(***************************************************************************)
(* The reader governor of src/src/parallel.rs.  All reader threads are     *)
(* spawned at the start; those whose ordinal is at or above "admitted"     *)
(* park.  Readers report each bevy they finish; when a throughput window   *)
(* closes the governor admits one more reader, or steps back and settles.  *)
(***************************************************************************)
EXTENDS Naturals

CONSTANTS
  Warmup,    \* WARMUP_BEVIES: bevies finished before probing begins
  Rates      \* the throughputs a window can measure (bounded for TLC)

ASSUME GovernorAssumption ==
  /\ Warmup \in Nat \ {0}
  /\ Rates \subseteq Nat \ {0}

VARIABLES
  initial,   \* ThreadPlan::readers, the count the run starts with
  ceiling,   \* ThreadPlan::reader_ceiling, the threads spawned
  admitted,  \* readers currently allowed to claim work
  bevies,    \* bevies finished, counted up to Warmup: only "< Warmup" is tested
  previous,  \* throughput at the previous count, Unmeasured before the first
  settled    \* set once probing has stopped

\* initial and ceiling belong to the run: the governor never moves them.
runVars == <<initial, ceiling>>
governorVars == <<admitted, bevies, previous, settled>>

\* Option::None: no window has closed yet.  Rates are positive.
Unmeasured == 0

\* MEANINGFUL_GAIN, 8%, with the comparison rate > before * 1.08 in integers.
MeaningfulGain == 8
Gained(rate, before) == rate * 100 > before * (100 + MeaningfulGain)

GovernorInit ==
  /\ admitted = initial
  /\ bevies = 0
  /\ previous = Unmeasured
  /\ settled = FALSE

\* ReaderGovernor::new, for a run with this many readers and this ceiling.
NewGovernor(readers, most) ==
  /\ initial' = readers /\ ceiling' = most
  /\ admitted' = readers
  /\ bevies' = 0
  /\ previous' = Unmeasured
  /\ settled' = FALSE

\* ReaderGovernor::admits.
Admits(ordinal) == ordinal < admitted

\* apply_rate, the None arm: nothing to compare with yet, so try one more.
FirstWindow(rate) ==
  /\ previous = Unmeasured
  /\ previous' = rate
  /\ admitted' = IF admitted < ceiling THEN admitted + 1 ELSE admitted
  /\ UNCHANGED settled

\* The added reader paid for itself and another may be tried.
RampUp(rate) ==
  /\ previous # Unmeasured
  /\ Gained(rate, previous) /\ admitted < ceiling
  /\ previous' = rate
  /\ admitted' = admitted + 1
  /\ UNCHANGED settled

\* Mutant: the step back that forgets to stop probing.
SettleDownStillProbing(rate) ==
  /\ previous # Unmeasured
  /\ ~(Gained(rate, previous) /\ admitted < ceiling)
  /\ admitted' = IF rate < previous /\ admitted > 1 THEN admitted - 1 ELSE admitted
  /\ UNCHANGED <<previous, settled>>

\* It did not, or there is no other to try: settle, one step back after a loss.
SettleDown(rate) ==
  /\ previous # Unmeasured
  /\ ~(Gained(rate, previous) /\ admitted < ceiling)
  /\ admitted' = IF rate < previous /\ admitted > 1 THEN admitted - 1 ELSE admitted
  /\ settled' = TRUE
  /\ UNCHANGED previous

ApplyRate(rate) == FirstWindow(rate) \/ RampUp(rate) \/ SettleDown(rate)

CountBevy == bevies' = IF bevies < Warmup THEN bevies + 1 ELSE bevies

\* observed: a finished bevy while warming up, settled, or inside the window.
\* The window is four seconds of clock, so it may always still be open.
WindowOpen ==
  /\ CountBevy
  /\ UNCHANGED <<admitted, previous, settled>>

\* observed: the bevy that finds the window closed decides the next count.
WindowCloses ==
  /\ CountBevy
  /\ bevies' >= Warmup
  /\ ~settled
  /\ \E rate \in Rates : ApplyRate(rate)

Observed == WindowOpen \/ WindowCloses

-----------------------------------------------------------------------------
(* Properties *)

GovernorTypeOK ==
  /\ initial \in Nat \ {0} /\ ceiling \in Nat /\ initial <= ceiling
  /\ admitted \in 0..ceiling
  /\ bevies \in 0..Warmup
  /\ previous \in Rates \cup {Unmeasured}
  /\ settled \in BOOLEAN

(* Some reader is always admitted and no more than were spawned: stepping   *)
(* back to zero would leave every reader parked and the consumer waiting    *)
(* for ever, and stepping past the ceiling would admit a missing thread.    *)
AdmittedInRange == admitted \in 1..ceiling

(* Stepping back happens once, when probing stops: a governor that kept     *)
(* stepping back on a device with noisy throughput would starve a run that  *)
(* started with two readers down to one, window after window.  It may still *)
(* go one below the start, although reader_ceiling says that "a run holds   *)
(* between `readers` and this many reader threads": at the ceiling the      *)
(* first window admits nobody, and a slower second one steps back.          *)
StepsBackOnce ==
  /\ admitted + 1 >= initial
  /\ admitted < initial => settled
=============================================================================
