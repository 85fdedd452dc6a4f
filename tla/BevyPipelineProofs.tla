------------------------- MODULE BevyPipelineProofs -------------------------
(***************************************************************************)
(* The pipeline's safety for every number of readers and workers, every    *)
(* queue and every stream: how far the readers may run ahead, that the     *)
(* consumer is never left waiting for nobody, that the shutdown frees      *)
(* every reader while the queue has room for all of them, that no bevy is  *)
(* lost or doubled on its way, and that an error blames a bevy that is bad.*)
(***************************************************************************)
EXTENDS BevyPipeline, StreamContentsProofs, FiniteSetTheorems

Shutdown == {"draining", "joining", "returned"}
Live == {w \in Workers : worker[w] # "done"}
InFlight == {r \in Readers : reader[r] \in {"standing", "gate", "claiming", "reading", "sending"}}

(* The types the arguments need.                                             *)
Types ==
  /\ nextBevy \in Nat
  /\ reader \in [Readers -> ReaderPcs]
  /\ worker \in [Workers -> WorkerPcs]
  /\ queue \in Seq(Nat)
  /\ claimed \in [Readers -> Nat]
  /\ taken \in [Workers -> Nat]
  /\ wanted \in Nat /\ nextExpected \in Nat /\ liveWorkers \in Nat

(* What each part of the invariant says.                                     *)
ClosedByShutdown == closed <=> consumer \in Shutdown
WindowEmptied == closed => ready = {}
WantedIsPast == wanted <= nextExpected
LiveCounted == liveWorkers = Cardinality(Live)
WaitIsOwed ==
  consumer \in {"committed", "asleep"} => nextExpected \notin ready /\ liveWorkers # 0
FlightFits ==
  consumer \in {"joining", "returned"} => Len(queue) + Cardinality(InFlight) <= Ceiling

-----------------------------------------------------------------------------
(* What the steps of one kind of thread leave alone *)

\* A reader step touches the claims, the failures, the raw queue and its own
\* pc, never a worker, the window or the consumer.
LEMMA ReaderFrame ==
  ASSUME NEW r \in Readers, ReaderStep(r)
  PROVE  UNCHANGED <<stored, workerVars, windowVars, consumerVars>>
  BY DEF ReaderStep, ParkedReaderLeaves, ReaderAdmitted, OpenReader, OpenReaderFails,
         ReaderLeaves, ReaderGoesOn, StandDown, StandUp, PassGate, HeldAtGate, Claim,
         ReadBevy, ReadBevyFails, Send, ReaderOnly

\* A worker step leaves the claims, the readers and the consumer's place alone.
LEMMA WorkerFrame ==
  ASSUME NEW w \in Workers, WorkerStep(w)
  PROVE  UNCHANGED <<governorVars, stored, nextBevy, readerVars, wanted, closed,
                     nextExpected, delivered, outcome>>
  BY DEF WorkerStep, TakeRaw, QueueEmpty, QueueDisconnected, IdleWorkerLeaves,
         IdleWorkerPolls, DropRaw, StartDecode, DecodeBevy, DecodeBevyFails, Deposit,
         DepositRefused, WorkerExit, WorkerOnly, WorkerAndConsumer, windowVars, consumerVars

\* A consumer step moves no reader and no worker.
LEMMA ConsumerFrame ==
  ASSUME ConsumerStep \/ SpuriousWake
  PROVE  UNCHANGED <<governorVars, stored, nextBevy, failure, readerVars, workerVars,
                     liveWorkers>>
  BY DEF ConsumerStep, SpuriousWake, Publish, LeaveLoop, TakeReady, GiveUp, DecideToWait,
         Wait, Deliver, DeliverRefused, SinkFails, Close, DrainOne, DrainEnds, Return,
         ConsumerOnly, windowVars

-----------------------------------------------------------------------------
(* Types *)

\* There are as many reader threads as the ceiling, a finite number.
LEMMA ReadersFinite == IsFiniteSet(Readers) /\ Cardinality(Readers) = Ceiling
  BY FS_Interval, PipelineAssumption DEF Readers

\* One reader's pc moves, the others stay.
LEMMA ReaderMoves ==
  ASSUME Types, NEW r \in Readers, ReaderStep(r)
  PROVE  \E to \in ReaderPcs :
           /\ reader' = [reader EXCEPT ![r] = to]
           /\ to = "claiming" => reader[r] = "gate"
           /\ reader[r] = "claiming" => nextBevy' = nextBevy + 1
           /\ reader[r] # "claiming" => nextBevy' = nextBevy
           /\ to # reader[r]
  BY DEF Types, ReaderPcs, ReaderStep, ReaderAt, ReaderOnly, ParkedReaderLeaves,
         ReaderAdmitted, OpenReader, OpenReaderFails, ReaderLeaves, ReaderGoesOn, StandDown,
         StandUp, PassGate, HeldAtGate, Claim, ReadBevy, ReadBevyFails, Send

\* One worker's pc moves, the others stay.
LEMMA WorkerMoves ==
  ASSUME Types, NEW w \in Workers, WorkerStep(w)
  PROVE  \E to \in WorkerPcs :
           /\ worker' = [worker EXCEPT ![w] = to]
           /\ worker[w] # "done"
           /\ to = "done" => liveWorkers' = liveWorkers - 1
           /\ to # "done" => liveWorkers' = liveWorkers
  BY DEF Types, WorkerPcs, WorkerStep, WorkerAt, WorkerOnly, WorkerAndConsumer, TakeRaw,
         QueueEmpty, QueueDisconnected, IdleWorkerLeaves, IdleWorkerPolls, DropRaw,
         StartDecode, DecodeBevy, DecodeBevyFails, Deposit, DepositRefused, WorkerExit,
         windowVars

\* The threads start at the first pc of their loops.
LEMMA TypesInitially == PipelineInit => Types
<1> SUFFICES ASSUME PipelineInit PROVE Types
  OBVIOUS
<1>1. Cardinality(Workers) \in Nat
  BY FS_CardinalityType, PipelineAssumption
<1>2. QED BY <1>1 DEF PipelineInit, Types, ReaderPcs, WorkerPcs

\* No step takes a thread off its loop or a count out of its range.
LEMMA TypesStep == Types /\ LiveCounted /\ [Next]_vars => Types'
<1> SUFFICES ASSUME Types, LiveCounted, [Next]_vars PROVE Types'
  OBVIOUS
<1>1. ASSUME NEW r \in Readers, ReaderStep(r) PROVE Types'
  <2>1. reader' \in [Readers -> ReaderPcs] /\ nextBevy' \in Nat
    <3>1. PICK to \in ReaderPcs :
            /\ reader' = [reader EXCEPT ![r] = to]
            /\ reader[r] = "claiming" => nextBevy' = nextBevy + 1
            /\ reader[r] # "claiming" => nextBevy' = nextBevy
      BY <1>1, ReaderMoves
    <3>2. QED BY <3>1 DEF Types
  <2>2. claimed' = claimed \/ claimed' = [claimed EXCEPT ![r] = nextBevy]
    BY <1>1 DEF ReaderStep, ReaderAt, ReaderOnly, ParkedReaderLeaves,
         ReaderAdmitted, OpenReader, OpenReaderFails, ReaderLeaves, ReaderGoesOn, StandDown,
         StandUp, PassGate, HeldAtGate, Claim, ReadBevy, ReadBevyFails, Send
  <2>3. queue' = queue \/ queue' = Append(queue, claimed[r])
    BY <1>1 DEF ReaderStep, ReaderAt, ReaderOnly, ParkedReaderLeaves,
         ReaderAdmitted, OpenReader, OpenReaderFails, ReaderLeaves, ReaderGoesOn, StandDown,
         StandUp, PassGate, HeldAtGate, Claim, ReadBevy, ReadBevyFails, Send
  <2>4. claimed[r] \in Nat /\ claimed' \in [Readers -> Nat]
    BY <2>2 DEF Types
  <2>5. queue' \in Seq(Nat)
    <3>1. queue \in Seq(Nat)
      BY DEF Types
    <3>2. Append(queue, claimed[r]) \in Seq(Nat)
      BY <2>4, <3>1
    <3>3. QED BY <2>3, <3>1, <3>2
  <2>6. QED BY <1>1, <2>1, <2>4, <2>5, ReaderFrame
            DEF Types, workerVars, windowVars, consumerVars
<1>2. ASSUME NEW w \in Workers, WorkerStep(w) PROVE Types'
  <2>1. worker' \in [Workers -> WorkerPcs]
    BY <1>2, WorkerMoves DEF Types
  <2>2. \/ taken' = taken /\ queue' = queue
        \/ /\ queue # <<>> /\ queue' = Tail(queue)
           /\ taken' = [taken EXCEPT ![w] = Head(queue)]
    BY <1>2 DEF WorkerStep, WorkerAt, WorkerOnly, WorkerAndConsumer, TakeRaw,
         QueueEmpty, QueueDisconnected, IdleWorkerLeaves, IdleWorkerPolls, DropRaw,
         StartDecode, DecodeBevy, DecodeBevyFails, Deposit, DepositRefused, WorkerExit
  <2>3. liveWorkers' \in Nat
    <3>1. IsFiniteSet(Live) /\ w \in Live
      <4>1. Live \subseteq Workers
        BY DEF Live
      <4>2. w \in Live
        BY <1>2, WorkerMoves DEF Live
      <4>3. QED BY <4>1, <4>2, FS_Subset, PipelineAssumption
    <3>2. Cardinality(Live) \in Nat /\ Cardinality(Live \ {w}) = Cardinality(Live) - 1
          /\ Cardinality(Live \ {w}) \in Nat
      BY <3>1, FS_RemoveElement, FS_CardinalityType
    <3>3. liveWorkers' = liveWorkers \/ liveWorkers' = liveWorkers - 1
      BY <1>2, WorkerMoves
    <3>4. QED BY <3>2, <3>3 DEF LiveCounted, Types
  <2>4. taken' \in [Workers -> Nat] /\ queue' \in Seq(Nat)
    <3>1. queue # <<>> => Head(queue) \in Nat /\ Tail(queue) \in Seq(Nat)
      BY DEF Types
    <3>2. QED BY <2>2, <3>1 DEF Types
  <2>5. QED BY <1>2, <2>1, <2>3, <2>4, WorkerFrame DEF Types, readerVars
<1>3. ASSUME ConsumerStep \/ SpuriousWake PROVE Types'
  <2>1. /\ wanted' = wanted \/ wanted' = nextExpected
        /\ nextExpected' = nextExpected \/ nextExpected' = nextExpected + 1
        /\ queue' = queue \/ (queue # <<>> /\ queue' = Tail(queue))
    BY <1>3
    DEF ConsumerStep, SpuriousWake, Publish, LeaveLoop, TakeReady, GiveUp,
        DecideToWait, Wait, Deliver, DeliverRefused, SinkFails, Close, DrainOne, DrainEnds,
        Return, ConsumerOnly, windowVars
  <2>2. queue \in Seq(Nat) /\ (queue # <<>> => Tail(queue) \in Seq(Nat))
    BY DEF Types
  <2>3. queue' \in Seq(Nat)
    BY <2>1, <2>2
  <2>4. wanted' \in Nat /\ nextExpected' \in Nat
    BY <2>1 DEF Types
  <2>5. QED BY <1>3, <2>3, <2>4, ConsumerFrame DEF Types, readerVars, workerVars
<1>4. CASE UNCHANGED vars
  BY <1>4 DEF vars, readerVars, workerVars, windowVars, consumerVars, Types
<1>5. QED BY <1>1, <1>2, <1>3, <1>4 DEF Next, Returned

-----------------------------------------------------------------------------
(* The consumer is never left waiting for nobody *)

WaitInv == LiveCounted /\ WaitIsOwed

\* The consumer starts awake.
LEMMA WaitInitially == PipelineInit => WaitInv
<1> SUFFICES ASSUME PipelineInit PROVE WaitInv
  OBVIOUS
<1>1. Live = Workers
  BY DEF PipelineInit, Live
<1>2. QED BY <1>1 DEF PipelineInit, WaitInv, LiveCounted, WaitIsOwed

\* No step puts the consumer to sleep on a bevy nobody owes it, and none
\* strands it there.
LEMMA WaitStep == Types /\ WaitInv /\ [Next]_vars => WaitInv'
<1> SUFFICES ASSUME Types, WaitInv, [Next]_vars PROVE WaitInv'
  OBVIOUS
<1>0. LiveCounted /\ WaitIsOwed
  BY DEF WaitInv
<1>1. ASSUME NEW r \in Readers, ReaderStep(r) PROVE WaitInv'
  BY <1>0, <1>1, ReaderFrame
  DEF WaitInv, LiveCounted, WaitIsOwed, Live, workerVars, windowVars, consumerVars
<1>2. ASSUME NEW w \in Workers, WorkerStep(w) PROVE WaitInv'
  <2>1. LiveCounted'
    <3>1. PICK to \in WorkerPcs :
            /\ worker' = [worker EXCEPT ![w] = to]
            /\ worker[w] # "done"
            /\ to = "done" => liveWorkers' = liveWorkers - 1
            /\ to # "done" => liveWorkers' = liveWorkers
      BY <1>2, WorkerMoves
    <3>2. Live \subseteq Workers /\ w \in Live
      BY <3>1 DEF Live
    <3>3. IsFiniteSet(Live)
      BY <3>2, FS_Subset, PipelineAssumption
    <3>4. CASE to = "done"
      <4>1. Live' = Live \ {w}
        BY <3>1, <3>4 DEF Live, Types
      <4>2. Cardinality(Live \ {w}) = Cardinality(Live) - 1
        BY <3>2, <3>3, FS_RemoveElement
      <4>3. QED BY <1>0, <3>1, <3>4, <4>1, <4>2 DEF LiveCounted
    <3>5. CASE to # "done"
      <4>1. Live' = Live
        BY <3>1, <3>5 DEF Live, Types
      <4>2. QED BY <1>0, <3>1, <3>5, <4>1 DEF LiveCounted
    <3>6. QED BY <3>4, <3>5
  <2>2. WaitIsOwed'
    BY <1>0, <1>2
    DEF Types, WaitIsOwed, WorkerStep, WorkerOnly, WorkerAndConsumer, TakeRaw, QueueEmpty,
        QueueDisconnected, IdleWorkerLeaves, IdleWorkerPolls, DropRaw, StartDecode,
        DecodeBevy, DecodeBevyFails, Deposit, DepositRefused, WorkerExit, NotifyFilled,
        WindowFree, windowVars, consumerVars
  <2>3. QED BY <2>1, <2>2 DEF WaitInv
<1>3. ASSUME ConsumerStep \/ SpuriousWake PROVE WaitInv'
  <2>1. LiveCounted'
    BY <1>0, <1>3, ConsumerFrame DEF LiveCounted, Live, workerVars
  <2>2. WaitIsOwed'
    BY <1>0, <1>3
    DEF WaitIsOwed, ConsumerStep, SpuriousWake, ConsumerAt, Publish, LeaveLoop, TakeReady,
        GiveUp, DecideToWait, Wait, Deliver, DeliverRefused, SinkFails, Close, DrainOne,
        DrainEnds, Return, ConsumerOnly, windowVars
  <2>3. QED BY <2>1, <2>2 DEF WaitInv
<1>4. CASE UNCHANGED vars
  BY <1>0, <1>4
  DEF vars, workerVars, windowVars, consumerVars, WaitInv, LiveCounted, WaitIsOwed, Live
<1>5. QED BY <1>1, <1>2, <1>3, <1>4 DEF Next, Returned

\* Hence a sleeping consumer is owed a wake in every reachable state.
LEMMA WaitInvariant == PipelineSpec => [](Types /\ WaitInv)
<1>1. PipelineInit => Types /\ WaitInv
  BY TypesInitially, WaitInitially
<1>2. Types /\ WaitInv /\ [Next]_vars => Types' /\ WaitInv'
  BY TypesStep, WaitStep DEF WaitInv
<1>3. QED BY <1>1, <1>2, PTL DEF PipelineSpec

(* A consumer that sleeps is always owed a wake, so no stream and no order   *)
(* of failures can leave it waiting for a bevy nobody will bring.            *)
THEOREM ConsumerIsOwedAWake == PipelineSpec => []WaitingConsumerIsOwedAWake
<1>1. ASSUME Types, WaitInv PROVE WaitingConsumerIsOwedAWake
  <2>1. Live # {} => \E w \in Workers : worker[w] # "done"
    BY DEF Live
  <2>2. Live = {} => Cardinality(Live) = 0
    BY FS_EmptySet
  <2>3. QED BY <1>1, <2>1, <2>2
            DEF WaitInv, LiveCounted, WaitIsOwed, WaitingConsumerIsOwedAWake
<1>2. QED BY <1>1, WaitInvariant, PTL

-----------------------------------------------------------------------------
(* How far the readers run ahead *)

ClaimInv == WantedIsPast /\ ClaimsBounded

\* No bevy is claimed at the start.
LEMMA ClaimInitially == PipelineInit => ClaimInv
<1> SUFFICES ASSUME PipelineInit PROVE ClaimInv
  OBVIOUS
<1>1. Claiming = {}
  BY DEF PipelineInit, Claiming
<1>2. Cardinality(Claiming) = 0
  BY <1>1, FS_EmptySet
<1>3. Ceiling \in Nat /\ Ceiling >= 1 /\ Lookahead \in Nat
  BY PipelineAssumption
<1>4. QED BY <1>2, <1>3 DEF PipelineInit, ClaimInv, WantedIsPast, ClaimsBounded

\* A claim passes the gate only one past what is already bounded.
LEMMA ClaimStep == Types /\ ClaimInv /\ [Next]_vars => ClaimInv'
<1> SUFFICES ASSUME Types, ClaimInv, [Next]_vars PROVE ClaimInv'
  OBVIOUS
<1>0. WantedIsPast /\ ClaimsBounded
  BY DEF ClaimInv
<1>1. ASSUME NEW r \in Readers, ReaderStep(r) PROVE ClaimInv'
  <2>1. PICK to \in ReaderPcs :
          /\ reader' = [reader EXCEPT ![r] = to]
          /\ to = "claiming" => reader[r] = "gate"
          /\ reader[r] = "claiming" => nextBevy' = nextBevy + 1
          /\ reader[r] # "claiming" => nextBevy' = nextBevy
          /\ to # reader[r]
    BY <1>1, ReaderMoves
  <2>2. Claiming \subseteq Readers /\ IsFiniteSet(Claiming)
    BY ReadersFinite, FS_Subset DEF Claiming
  <2>3. Cardinality(Claiming) \in Nat
    BY <2>2, FS_CardinalityType
  <2>4. wanted' = wanted /\ nextExpected' = nextExpected
    BY <1>1, ReaderFrame DEF windowVars, consumerVars
  <2>5. nextBevy \in Nat /\ wanted \in Nat /\ Lookahead \in Nat /\ Ceiling \in Nat
    BY PipelineAssumption DEF Types
  <2>6. ClaimsBounded'
    <3>1. CASE reader[r] = "claiming"
      <4>1. Claiming' = Claiming \ {r} /\ r \in Claiming
        BY <2>1, <3>1 DEF Claiming, Types
      <4>2. Cardinality(Claiming') = Cardinality(Claiming) - 1
        BY <2>2, <4>1, FS_RemoveElement
      <4>3. nextBevy' = nextBevy + 1
        BY <2>1, <3>1
      <4>4. QED BY <1>0, <2>3, <2>4, <2>5, <4>2, <4>3 DEF ClaimsBounded
    <3>2. CASE to = "claiming"
      <4>1. Claiming' = Claiming \cup {r} /\ r \notin Claiming
        BY <2>1, <3>2 DEF Claiming, Types
      <4>2. Cardinality(Claiming') = Cardinality(Claiming) + 1
        BY <2>2, <4>1, FS_AddElement
      <4>3. Cardinality(Claiming) <= Ceiling - 1
        <5>1. IsFiniteSet(Readers \ {r}) /\ Cardinality(Readers \ {r}) = Ceiling - 1
          BY <1>1, ReadersFinite, FS_RemoveElement
        <5>2. Claiming \subseteq Readers \ {r}
          BY <2>2, <4>1
        <5>3. QED BY <5>1, <5>2, FS_Subset
      <4>4. nextBevy < wanted + Lookahead /\ nextBevy' = nextBevy
        BY <1>1, <2>1, <3>2
        DEF Types, ReaderStep, ReaderAt, ReaderOnly, ParkedReaderLeaves, ReaderAdmitted,
            OpenReader, OpenReaderFails, ReaderLeaves, ReaderGoesOn, StandDown, StandUp,
            PassGate, HeldAtGate, Claim, ReadBevy, ReadBevyFails, Send
      <4>5. QED BY <2>3, <2>4, <2>5, <4>2, <4>3, <4>4 DEF ClaimsBounded
    <3>3. CASE reader[r] # "claiming" /\ to # "claiming"
      <4>1. Claiming' = Claiming /\ nextBevy' = nextBevy
        BY <2>1, <3>3 DEF Claiming, Types
      <4>2. QED BY <1>0, <2>4, <4>1 DEF ClaimsBounded
    <3>4. QED BY <3>1, <3>2, <3>3
  <2>7. QED BY <1>0, <2>4, <2>6 DEF ClaimInv, WantedIsPast
<1>2. ASSUME NEW w \in Workers, WorkerStep(w) PROVE ClaimInv'
  BY <1>0, <1>2, WorkerFrame
  DEF ClaimInv, WantedIsPast, ClaimsBounded, Claiming, readerVars
<1>3. ASSUME ConsumerStep \/ SpuriousWake PROVE ClaimInv'
  <2>1. reader' = reader /\ nextBevy' = nextBevy
    BY <1>3, ConsumerFrame DEF readerVars
  <2>2. \/ wanted' = wanted /\ (nextExpected' = nextExpected \/ nextExpected' = nextExpected + 1)
        \/ wanted' = nextExpected /\ nextExpected' = nextExpected
    BY <1>3
    DEF ConsumerStep, SpuriousWake, Publish, LeaveLoop, TakeReady, GiveUp, DecideToWait,
        Wait, Deliver, DeliverRefused, SinkFails, Close, DrainOne, DrainEnds, Return,
        ConsumerOnly, windowVars
  <2>3. WantedIsPast' /\ wanted' >= wanted /\ wanted' \in Nat
    BY <1>0, <2>2 DEF WantedIsPast, Types
  <2>4. Claiming' = Claiming
    BY <2>1 DEF Claiming
  <2>5. Cardinality(Claiming) \in Nat
    <3>1. Claiming \subseteq Readers
      BY DEF Claiming
    <3>2. QED BY <3>1, ReadersFinite, FS_Subset, FS_CardinalityType
  <2>6. nextBevy \in Nat /\ wanted \in Nat /\ Lookahead \in Nat /\ Ceiling \in Nat
    BY PipelineAssumption DEF Types
  <2>7. ClaimsBounded'
    BY <1>0, <2>1, <2>3, <2>4, <2>5, <2>6 DEF ClaimsBounded
  <2>8. QED BY <2>3, <2>7 DEF ClaimInv
<1>4. CASE UNCHANGED vars
  BY <1>0, <1>4
  DEF vars, readerVars, windowVars, consumerVars, ClaimInv, WantedIsPast, ClaimsBounded,
      Claiming
<1>5. QED BY <1>1, <1>2, <1>3, <1>4 DEF Next, Returned

(* The bevies in flight are bounded whatever the device and the schedule do. *)
THEOREM ClaimsAreBounded == PipelineSpec => []ClaimsBounded
<1>1. PipelineInit => Types /\ WaitInv /\ ClaimInv
  BY TypesInitially, WaitInitially, ClaimInitially
<1>2. Types /\ WaitInv /\ ClaimInv /\ [Next]_vars => Types' /\ WaitInv' /\ ClaimInv'
  BY TypesStep, WaitStep, ClaimStep DEF WaitInv
<1>3. Types /\ WaitInv /\ ClaimInv => ClaimsBounded
  BY DEF ClaimInv
<1>4. QED BY <1>1, <1>2, <1>3, PTL DEF PipelineSpec

-----------------------------------------------------------------------------
(* The shutdown *)

ShutInv == ClosedByShutdown /\ WindowEmptied /\ FlightFits

\* The window starts open and empty.
LEMMA ShutInitially == PipelineInit => ShutInv
  BY DEF PipelineInit, ShutInv, ClosedByShutdown, WindowEmptied, FlightFits, Shutdown

\* Once the window is closed no reader comes back for another bevy, and each
\* bevy a reader sends takes the reader out of flight.
LEMMA FlightStep ==
  ASSUME Types, ShutInv, NEW r \in Readers, ReaderStep(r)
  PROVE  FlightFits'
<1>1. CASE consumer \in {"joining", "returned"}
  <2>1. closed /\ consumer' = consumer
    BY <1>1, ReaderFrame DEF ShutInv, ClosedByShutdown, Shutdown, consumerVars
  <2>2. InFlight \subseteq Readers /\ IsFiniteSet(InFlight)
    BY ReadersFinite, FS_Subset DEF InFlight
  <2>3. Cardinality(InFlight) \in Nat /\ Len(queue) \in Nat
    BY <2>2, FS_CardinalityType DEF Types
  <2>4. Len(queue) + Cardinality(InFlight) <= Ceiling
    BY <1>1 DEF ShutInv, FlightFits
  <2>5. CASE Send(r)
    <3>1. InFlight' = InFlight \ {r} /\ r \in InFlight
      BY <2>5 DEF Send, ReaderAt, InFlight, Types
    <3>2. Cardinality(InFlight') = Cardinality(InFlight) - 1
      BY <2>2, <3>1, FS_RemoveElement
    <3>3. Len(queue') = Len(queue) + 1
      <4>1. queue' = Append(queue, claimed[r]) /\ queue \in Seq(Nat)
        BY <2>5 DEF Send, Types
      <4>2. QED BY <4>1
    <3>4. QED BY <2>3, <2>4, <3>2, <3>3, PipelineAssumption DEF FlightFits
  <2>6. CASE ~Send(r)
    <3>1. queue' = queue /\ InFlight' \subseteq InFlight
      BY <2>1, <2>6, ReaderFrame
      DEF Types, InFlight, ReaderStep, ReaderAt, ReaderOnly, ParkedReaderLeaves,
          ReaderAdmitted, OpenReader, OpenReaderFails, ReaderLeaves, ReaderGoesOn,
          StandDown, StandUp, PassGate, HeldAtGate, Claim, ReadBevy, ReadBevyFails,
          GoOnSeen
    <3>2. Cardinality(InFlight') <= Cardinality(InFlight) /\ Cardinality(InFlight') \in Nat
      BY <2>2, <3>1, FS_Subset, FS_CardinalityType
    <3>3. QED BY <2>3, <2>4, <3>1, <3>2, PipelineAssumption DEF FlightFits
  <2>7. QED BY <2>5, <2>6
<1>2. CASE consumer \notin {"joining", "returned"}
  BY <1>2, ReaderFrame DEF FlightFits, consumerVars
<1>3. QED BY <1>1, <1>2

\* No step of the shutdown leaves more readers in flight than the raw queue
\* has room for.
LEMMA ShutStep == Types /\ ShutInv /\ [Next]_vars => ShutInv'
<1> SUFFICES ASSUME Types, ShutInv, [Next]_vars PROVE ShutInv'
  OBVIOUS
<1>0. ClosedByShutdown /\ WindowEmptied /\ FlightFits
  BY DEF ShutInv
<1>1. ASSUME NEW r \in Readers, ReaderStep(r) PROVE ShutInv'
  <2>1. FlightFits'
    BY <1>1, FlightStep
  <2>2. QED BY <1>0, <1>1, <2>1, ReaderFrame
            DEF ShutInv, ClosedByShutdown, WindowEmptied, windowVars, consumerVars
<1>2. ASSUME NEW w \in Workers, WorkerStep(w) PROVE ShutInv'
  <2>1. closed' = closed /\ reader' = reader
    BY <1>2, WorkerFrame DEF readerVars
  <2>2. consumer' = consumer \/ (consumer = "asleep" /\ consumer' = "looking")
    BY <1>2
    DEF WorkerStep, WorkerOnly, WorkerAndConsumer, TakeRaw, QueueEmpty,
        QueueDisconnected, IdleWorkerLeaves, IdleWorkerPolls, DropRaw, StartDecode,
        DecodeBevy, DecodeBevyFails, Deposit, DepositRefused, WorkerExit, NotifyFilled,
        consumerVars
  <2>3. ready' = ready \/ ~closed
    BY <1>2
    DEF WorkerStep, TakeRaw, QueueEmpty, QueueDisconnected, IdleWorkerLeaves,
        IdleWorkerPolls, DropRaw, StartDecode, DecodeBevy, DecodeBevyFails, Deposit,
        DepositRefused, WorkerExit, windowVars
  <2>4. queue' = queue \/ (queue # <<>> /\ queue' = Tail(queue))
    BY <1>2
    DEF WorkerStep, TakeRaw, QueueEmpty, QueueDisconnected, IdleWorkerLeaves,
        IdleWorkerPolls, DropRaw, StartDecode, DecodeBevy, DecodeBevyFails, Deposit,
        DepositRefused, WorkerExit
  <2>5. Len(queue') <= Len(queue) /\ Len(queue') \in Nat /\ Len(queue) \in Nat
    BY <2>4 DEF Types
  <2>6. InFlight' = InFlight /\ Cardinality(InFlight) \in Nat
    <3>1. InFlight' = InFlight
      BY <2>1 DEF InFlight
    <3>2. InFlight \subseteq Readers
      BY DEF InFlight
    <3>3. QED BY <3>1, <3>2, ReadersFinite, FS_Subset, FS_CardinalityType
  <2>7. FlightFits'
    BY <1>0, <2>2, <2>5, <2>6, PipelineAssumption DEF FlightFits
  <2>8. ClosedByShutdown' /\ WindowEmptied'
    BY <1>0, <2>1, <2>2, <2>3 DEF ClosedByShutdown, WindowEmptied, Shutdown
  <2>9. QED BY <2>7, <2>8 DEF ShutInv
<1>3. ASSUME ConsumerStep \/ SpuriousWake PROVE ShutInv'
  <2>1. ClosedByShutdown' /\ WindowEmptied'
    BY <1>0, <1>3
    DEF ClosedByShutdown, WindowEmptied, Shutdown, ConsumerStep, SpuriousWake, ConsumerAt,
        Publish, LeaveLoop, TakeReady, GiveUp, DecideToWait, Wait, Deliver, DeliverRefused,
        SinkFails, Close, DrainOne, DrainEnds, Return, ConsumerOnly, windowVars
  <2>2. InFlight' = InFlight /\ Cardinality(InFlight) \in Nat /\ Cardinality(InFlight) <= Ceiling
    <3>1. InFlight' = InFlight
      BY <1>3, ConsumerFrame DEF InFlight, readerVars
    <3>2. InFlight \subseteq Readers
      BY DEF InFlight
    <3>3. QED BY <3>1, <3>2, ReadersFinite, FS_Subset, FS_CardinalityType
  <2>3. consumer' \in {"joining", "returned"} =>
          \/ queue = <<>> /\ queue' = <<>>
          \/ consumer \in {"joining", "returned"} /\ queue' = queue
    BY <1>3
    DEF ConsumerStep, SpuriousWake, ConsumerAt, Publish, LeaveLoop, TakeReady, GiveUp,
        DecideToWait, Wait, Deliver, DeliverRefused, SinkFails, Close, DrainOne, DrainEnds,
        Return, ConsumerOnly
  <2>4. FlightFits'
    <3>1. CASE queue' = <<>>
      <4>1. Len(queue') = 0
        BY <3>1
      <4>2. QED BY <2>2, <4>1, PipelineAssumption DEF FlightFits
    <3>2. CASE consumer \in {"joining", "returned"} /\ queue' = queue
      BY <1>0, <2>2, <3>2 DEF FlightFits
    <3>3. QED BY <2>3, <3>1, <3>2 DEF FlightFits
  <2>5. QED BY <2>1, <2>4 DEF ShutInv
<1>4. CASE UNCHANGED vars
  BY <1>0, <1>4
  DEF vars, readerVars, windowVars, consumerVars, ShutInv, ClosedByShutdown, WindowEmptied,
      FlightFits, InFlight
<1>5. QED BY <1>1, <1>2, <1>3, <1>4 DEF Next, Returned

\* Hence the invariant the two shutdown theorems rest on.
LEMMA ShutInvariant == PipelineSpec => [](Types /\ ShutInv)
<1>1. PipelineInit => Types /\ WaitInv /\ ShutInv
  BY TypesInitially, WaitInitially, ShutInitially
<1>2. Types /\ WaitInv /\ ShutInv /\ [Next]_vars => Types' /\ WaitInv' /\ ShutInv'
  BY TypesStep, WaitStep, ShutStep DEF WaitInv
<1>3. QED BY <1>1, <1>2, PTL DEF PipelineSpec

(* Nothing is deposited behind the shutdown's back.                          *)
THEOREM ClosedStaysEmpty == PipelineSpec => []ClosedWindowStaysEmpty
<1>1. Types /\ ShutInv => ClosedWindowStaysEmpty
  BY DEF ShutInv, WindowEmptied, ClosedWindowStaysEmpty
<1>2. QED BY <1>1, ShutInvariant, PTL

(* With a raw queue as deep as the readers are many the shutdown joins them  *)
(* all: no sender is left blocked behind the drain.                          *)
THEOREM DeepQueueReleasesReaders ==
  PipelineSpec => [](Ceiling <= QueueDepth => JoinReleasesEveryReader)
<1>1. ASSUME Types, ShutInv PROVE Ceiling <= QueueDepth => JoinReleasesEveryReader
  <2>1. SUFFICES ASSUME Ceiling <= QueueDepth, consumer = "joining", NEW r \in Readers,
                        Blocked(r)
                 PROVE  FALSE
    BY DEF JoinReleasesEveryReader
  <2>2. r \in InFlight /\ Len(queue) = QueueDepth
    BY <2>1 DEF Blocked, InFlight
  <2>3. IsFiniteSet(InFlight) /\ Cardinality(InFlight) # 0 /\ Cardinality(InFlight) \in Nat
    <3>1. InFlight \subseteq Readers
      BY DEF InFlight
    <3>2. IsFiniteSet(InFlight)
      BY <3>1, ReadersFinite, FS_Subset
    <3>3. QED BY <2>2, <3>2, FS_EmptySet, FS_CardinalityType
  <2>4. Len(queue) + Cardinality(InFlight) <= Ceiling
    BY <1>1, <2>1 DEF ShutInv, FlightFits
  <2>5. QED BY <2>1, <2>2, <2>3, <2>4, PipelineAssumption
<1>2. QED BY <1>1, ShutInvariant, PTL

-----------------------------------------------------------------------------
(* Every claimed bevy is in exactly one place *)

Running == ~FailureSet /\ ~closed /\ outcome = "reading"
HasBevy == {"reading", "sending"}
HasRaw == {"took", "decoding", "depositing"}

\* A bevy in somebody's hands is a bevy of the stream, and a failure recorded
\* is one of them.
HandsHoldBevies ==
  /\ failure \in Nat /\ failure <= BevyCount
  /\ \A r \in Readers : reader[r] \in HasBevy => claimed[r] < BevyCount
  /\ \A i \in 1..Len(queue) : queue[i] < BevyCount
  /\ \A w \in Workers : worker[w] \in HasRaw => taken[w] < BevyCount

\* A stream has a whole number of bevies, none when it is empty.
LEMMA BevyCountType == BevyCount \in Nat
  BY BeviesSpanTheStream

\* Each of the places a bevy can be in is a finite set.
LEMMA PlacesFinite ==
  ASSUME Types, NEW b
  PROVE  /\ IsFiniteSet(WithReader(b)) /\ Cardinality(WithReader(b)) \in Nat
         /\ IsFiniteSet(InQueue(b)) /\ Cardinality(InQueue(b)) \in Nat
         /\ IsFiniteSet(WithWorker(b)) /\ Cardinality(WithWorker(b)) \in Nat
         /\ IsFiniteSet(InWindow(b)) /\ Cardinality(InWindow(b)) \in Nat
         /\ IsFiniteSet(WithConsumer(b)) /\ Cardinality(WithConsumer(b)) \in Nat
<1>1. IsFiniteSet(WithReader(b))
  <2>1. WithReader(b) \subseteq Readers
    BY DEF WithReader
  <2>2. QED BY <2>1, ReadersFinite, FS_Subset
<1>2. IsFiniteSet(InQueue(b))
  <2>1. InQueue(b) \subseteq 1..Len(queue) /\ Len(queue) \in Nat
    BY DEF InQueue, Types
  <2>2. IsFiniteSet(1..Len(queue))
    BY <2>1, FS_Interval
  <2>3. QED BY <2>1, <2>2, FS_Subset
<1>3. IsFiniteSet(WithWorker(b))
  <2>1. WithWorker(b) \subseteq Workers
    BY DEF WithWorker
  <2>2. QED BY <2>1, PipelineAssumption, FS_Subset
<1>4. IsFiniteSet({b})
  BY FS_Singleton
<1>5. IsFiniteSet(InWindow(b))
  <2>1. InWindow(b) \subseteq {b}
    BY DEF InWindow
  <2>2. QED BY <2>1, <1>4, FS_Subset
<1>6. IsFiniteSet(WithConsumer(b))
  <2>1. WithConsumer(b) \subseteq {b}
    BY DEF WithConsumer
  <2>2. QED BY <2>1, <1>4, FS_Subset
<1>7. QED BY <1>1, <1>2, <1>3, <1>5, <1>6, FS_CardinalityType

\* With one holder of a bevy, whichever place has it has it alone.
LEMMA OnlyPlace ==
  ASSUME Types, NEW b, Holders(b) = 1
  PROVE  /\ WithReader(b) # {} =>
              /\ \E x : WithReader(b) = {x}
              /\ InQueue(b) = {} /\ WithWorker(b) = {} /\ InWindow(b) = {}
              /\ WithConsumer(b) = {}
         /\ InQueue(b) # {} =>
              /\ \E x : InQueue(b) = {x}
              /\ WithReader(b) = {} /\ WithWorker(b) = {} /\ InWindow(b) = {}
              /\ WithConsumer(b) = {}
         /\ WithWorker(b) # {} =>
              /\ \E x : WithWorker(b) = {x}
              /\ WithReader(b) = {} /\ InQueue(b) = {} /\ InWindow(b) = {}
              /\ WithConsumer(b) = {}
         /\ InWindow(b) # {} =>
              /\ \E x : InWindow(b) = {x}
              /\ WithReader(b) = {} /\ InQueue(b) = {} /\ WithWorker(b) = {}
              /\ WithConsumer(b) = {}
<1>1. /\ Cardinality(WithReader(b)) = 0 <=> WithReader(b) = {}
      /\ Cardinality(InQueue(b)) = 0 <=> InQueue(b) = {}
      /\ Cardinality(WithWorker(b)) = 0 <=> WithWorker(b) = {}
      /\ Cardinality(InWindow(b)) = 0 <=> InWindow(b) = {}
      /\ Cardinality(WithConsumer(b)) = 0 <=> WithConsumer(b) = {}
  BY PlacesFinite, FS_EmptySet
<1>2. /\ Cardinality(WithReader(b)) = 1 => \E x : WithReader(b) = {x}
      /\ Cardinality(InQueue(b)) = 1 => \E x : InQueue(b) = {x}
      /\ Cardinality(WithWorker(b)) = 1 => \E x : WithWorker(b) = {x}
      /\ Cardinality(InWindow(b)) = 1 => \E x : InWindow(b) = {x}
  BY PlacesFinite, FS_Singleton
<1> DEFINE R == Cardinality(WithReader(b))
           Q == Cardinality(InQueue(b))
           W == Cardinality(WithWorker(b))
           D == Cardinality(InWindow(b))
           C == Cardinality(WithConsumer(b))
<1>3. R \in Nat /\ Q \in Nat /\ W \in Nat /\ D \in Nat /\ C \in Nat
  BY PlacesFinite
<1>4. R + Q + W + D + C = 1
  BY DEF Holders
<1> HIDE DEF R, Q, W, D, C
<1>5. /\ R # 0 => R = 1 /\ Q = 0 /\ W = 0 /\ D = 0 /\ C = 0
      /\ Q # 0 => Q = 1 /\ R = 0 /\ W = 0 /\ D = 0 /\ C = 0
      /\ W # 0 => W = 1 /\ R = 0 /\ Q = 0 /\ D = 0 /\ C = 0
      /\ D # 0 => D = 1 /\ R = 0 /\ Q = 0 /\ W = 0 /\ C = 0
  BY <1>3, <1>4
<1>6. QED BY <1>1, <1>2, <1>5 DEF R, Q, W, D, C

\* A bevy nobody holds is in no place.
LEMMA NoPlace ==
  ASSUME Types, NEW b, Holders(b) = 0
  PROVE  /\ WithReader(b) = {} /\ InQueue(b) = {} /\ WithWorker(b) = {}
         /\ InWindow(b) = {} /\ WithConsumer(b) = {}
<1>1. /\ Cardinality(WithReader(b)) = 0 => WithReader(b) = {}
      /\ Cardinality(InQueue(b)) = 0 => InQueue(b) = {}
      /\ Cardinality(WithWorker(b)) = 0 => WithWorker(b) = {}
      /\ Cardinality(InWindow(b)) = 0 => InWindow(b) = {}
      /\ Cardinality(WithConsumer(b)) = 0 => WithConsumer(b) = {}
  BY PlacesFinite, FS_EmptySet
<1> DEFINE R == Cardinality(WithReader(b))
           Q == Cardinality(InQueue(b))
           W == Cardinality(WithWorker(b))
           D == Cardinality(InWindow(b))
           C == Cardinality(WithConsumer(b))
<1>2. R \in Nat /\ Q \in Nat /\ W \in Nat /\ D \in Nat /\ C \in Nat
  BY PlacesFinite
<1>3. R + Q + W + D + C = 0
  BY DEF Holders
<1> HIDE DEF R, Q, W, D, C
<1>4. R = 0 /\ Q = 0 /\ W = 0 /\ D = 0 /\ C = 0
  BY <1>2, <1>3
<1>5. QED BY <1>1, <1>4 DEF R, Q, W, D, C

\* Failures only ever fall, and what a hand holds is a bevy of the stream.
LEMMA HandsInitially == PipelineInit => HandsHoldBevies
  BY BevyCountType
  DEF PipelineInit, HandsHoldBevies, NoFailure, HasBevy, HasRaw

\* No step puts into a hand, or into the record of failures, what is no bevy.
LEMMA HandsStep ==
  Types /\ HandsHoldBevies /\ [Next]_vars => HandsHoldBevies' /\ failure' <= failure
<1> SUFFICES ASSUME Types, HandsHoldBevies, [Next]_vars
             PROVE  HandsHoldBevies' /\ failure' <= failure
  OBVIOUS
<1>0. BevyCount \in Nat
  BY BevyCountType
<1>1. ASSUME NEW r \in Readers, ReaderStep(r) PROVE HandsHoldBevies' /\ failure' <= failure
  <2>1. /\ \/ failure' = failure
           \/ Record(0)
           \/ reader[r] = "reading" /\ Record(claimed[r])
        /\ \/ queue' = queue
           \/ reader[r] = "sending" /\ queue' = Append(queue, claimed[r])
        /\ \/ /\ claimed' = claimed
              /\ reader' = [reader EXCEPT ![r] = reader'[r]]
              /\ reader'[r] \in HasBevy => reader[r] \in HasBevy
           \/ /\ claimed' = [claimed EXCEPT ![r] = nextBevy]
              /\ reader' = [reader EXCEPT ![r] = reader'[r]]
              /\ reader'[r] \in HasBevy => nextBevy < BevyCount
    BY <1>1
    DEF Types, HasBevy, ReaderStep, ReaderAt, ReaderOnly, ParkedReaderLeaves, ReaderAdmitted,
        OpenReader, OpenReaderFails, ReaderLeaves, ReaderGoesOn, StandDown, StandUp,
        PassGate, HeldAtGate, Claim, ReadBevy, ReadBevyFails, Send
  <2>2. reader[r] \in HasBevy => claimed[r] < BevyCount
    BY DEF HandsHoldBevies
  <2>3. failure' \in Nat /\ failure' <= BevyCount /\ failure' <= failure
    BY <1>0, <2>1, <2>2 DEF HandsHoldBevies, Record, HasBevy, Types
  <2>4. \A q \in Readers : reader'[q] \in HasBevy => claimed'[q] < BevyCount
    BY <2>1 DEF HandsHoldBevies, Types
  <2>5. \A i \in 1..Len(queue') : queue'[i] < BevyCount
    <3>1. CASE queue' = queue
      BY <3>1 DEF HandsHoldBevies
    <3>2. CASE reader[r] = "sending" /\ queue' = Append(queue, claimed[r])
      <4>1. claimed[r] < BevyCount /\ claimed[r] \in Nat
        BY <2>2, <3>2 DEF HasBevy, Types
      <4>2. queue \in Seq(Nat)
        BY DEF Types
      <4>3. Len(queue') = Len(queue) + 1 /\ Len(queue) \in Nat
        BY <3>2, <4>1, <4>2
      <4>4. \A i \in 1..Len(queue') :
              queue'[i] = IF i = Len(queue) + 1 THEN claimed[r] ELSE queue[i]
        BY <3>2, <4>1, <4>2, <4>3
      <4>5. \A i \in 1..Len(queue') : i = Len(queue) + 1 \/ i \in 1..Len(queue)
        BY <4>3
      <4>6. QED BY <4>1, <4>4, <4>5 DEF HandsHoldBevies
    <3>3. QED BY <2>1, <3>1, <3>2
  <2>6. QED BY <1>1, <2>3, <2>4, <2>5, ReaderFrame DEF HandsHoldBevies, workerVars
<1>2. ASSUME NEW w \in Workers, WorkerStep(w) PROVE HandsHoldBevies' /\ failure' <= failure
  <2>1. /\ \/ failure' = failure
           \/ worker[w] = "decoding" /\ Record(taken[w])
        /\ worker' = [worker EXCEPT ![w] = worker'[w]]
        /\ \/ /\ queue' = queue /\ taken' = taken
              /\ worker'[w] \in HasRaw => worker[w] \in HasRaw
           \/ /\ queue # <<>> /\ queue' = Tail(queue)
              /\ taken' = [taken EXCEPT ![w] = Head(queue)]
    BY <1>2
    DEF Types, HasRaw, WorkerStep, WorkerAt, WorkerOnly, WorkerAndConsumer, TakeRaw,
        QueueEmpty, QueueDisconnected, IdleWorkerLeaves, IdleWorkerPolls, DropRaw,
        StartDecode, DecodeBevy, DecodeBevyFails, Deposit, DepositRefused, WorkerExit
  <2>2. worker[w] \in HasRaw => taken[w] < BevyCount
    BY DEF HandsHoldBevies
  <2>3. failure' \in Nat /\ failure' <= BevyCount /\ failure' <= failure
    BY <1>0, <2>1, <2>2 DEF HandsHoldBevies, Record, HasRaw, Types
  <2>4. queue \in Seq(Nat)
    BY DEF Types
  <2>5. queue # <<>> => /\ Head(queue) = queue[1] /\ 1 \in 1..Len(queue)
                        /\ Len(Tail(queue)) = Len(queue) - 1
                        /\ \A i \in 1..Len(Tail(queue)) :
                             Tail(queue)[i] = queue[i + 1] /\ i + 1 \in 1..Len(queue)
    BY <2>4
  <2>6. \A i \in 1..Len(queue') : queue'[i] < BevyCount
    BY <2>1, <2>5 DEF HandsHoldBevies
  <2>7. \A q \in Workers : worker'[q] \in HasRaw => taken'[q] < BevyCount
    BY <2>1, <2>5 DEF HandsHoldBevies, Types
  <2>8. QED BY <1>2, <2>3, <2>6, <2>7, WorkerFrame DEF HandsHoldBevies, readerVars
<1>3. ASSUME ConsumerStep \/ SpuriousWake PROVE HandsHoldBevies' /\ failure' <= failure
  <2>1. queue' = queue \/ (queue # <<>> /\ queue' = Tail(queue))
    BY <1>3
    DEF ConsumerStep, SpuriousWake, Publish, LeaveLoop, TakeReady, GiveUp, DecideToWait,
        Wait, Deliver, DeliverRefused, SinkFails, Close, DrainOne, DrainEnds, Return,
        ConsumerOnly, windowVars
  <2>2. queue \in Seq(Nat)
    BY DEF Types
  <2>3. queue # <<>> => /\ Len(Tail(queue)) = Len(queue) - 1
                        /\ \A i \in 1..Len(Tail(queue)) :
                             Tail(queue)[i] = queue[i + 1] /\ i + 1 \in 1..Len(queue)
    BY <2>2
  <2>4. \A i \in 1..Len(queue') : queue'[i] < BevyCount
    BY <2>1, <2>3 DEF HandsHoldBevies
  <2>5. QED BY <1>3, <2>4, ConsumerFrame DEF HandsHoldBevies, readerVars, workerVars
<1>4. CASE UNCHANGED vars
  BY <1>4 DEF vars, readerVars, workerVars, HandsHoldBevies
<1>5. QED BY <1>1, <1>2, <1>3, <1>4 DEF Next, Returned

\* A run that goes on after a step went on before it.
LEMMA WentOn ==
  ASSUME Types, HandsHoldBevies, [Next]_vars, Running'
  PROVE  Running /\ failure' = failure
<1>1. failure' <= failure /\ failure \in Nat /\ failure <= BevyCount /\ failure' = BevyCount
  BY HandsStep DEF HandsHoldBevies, Running, FailureSet, NoFailure
<1>2. failure' = failure
  BY <1>1, BevyCountType
<1>3. closed => closed'
  <2>1. ASSUME NEW r \in Readers, ReaderStep(r) PROVE closed' = closed
    BY <2>1, ReaderFrame DEF windowVars
  <2>2. ASSUME NEW w \in Workers, WorkerStep(w) PROVE closed' = closed
    BY <2>2, WorkerFrame
  <2>3. ASSUME ConsumerStep \/ SpuriousWake PROVE closed' = closed \/ closed'
    BY <2>3
    DEF ConsumerStep, SpuriousWake, Publish, LeaveLoop, TakeReady, GiveUp, DecideToWait,
        Wait, Deliver, DeliverRefused, SinkFails, Close, DrainOne, DrainEnds, Return,
        ConsumerOnly, windowVars
  <2>4. CASE UNCHANGED vars
    BY <2>4 DEF vars, windowVars
  <2>5. QED BY <2>1, <2>2, <2>3, <2>4 DEF Next, Returned
<1>4. outcome' = "reading" => outcome = "reading"
  <2>1. ASSUME NEW r \in Readers, ReaderStep(r) PROVE outcome' = outcome
    BY <2>1, ReaderFrame DEF consumerVars
  <2>2. ASSUME NEW w \in Workers, WorkerStep(w) PROVE outcome' = outcome
    BY <2>2, WorkerFrame
  <2>3. ASSUME ConsumerStep \/ SpuriousWake
        PROVE  outcome' \in {outcome, "refused", "sink", Result}
    BY <2>3
    DEF ConsumerStep, SpuriousWake, Publish, LeaveLoop, TakeReady, GiveUp, DecideToWait,
        Wait, Deliver, DeliverRefused, SinkFails, Close, DrainOne, DrainEnds, Return,
        ConsumerOnly, windowVars
  <2>4. Result # "reading"
    BY DEF Result
  <2>5. CASE UNCHANGED vars
    BY <2>5 DEF vars, consumerVars
  <2>6. QED BY <2>1, <2>2, <2>3, <2>4, <2>5 DEF Next, Returned
<1>5. QED BY <1>2, <1>3, <1>4 DEF Running, FailureSet

\* A step that leaves every place of a bevy alone leaves its holders alone.
LEMMA SamePlaces ==
  ASSUME NEW b,
         WithReader(b)' = WithReader(b), InQueue(b)' = InQueue(b),
         WithWorker(b)' = WithWorker(b), InWindow(b)' = InWindow(b),
         WithConsumer(b)' = WithConsumer(b)
  PROVE  Holders(b)' = Holders(b)
  BY DEF Holders

\* A bevy that a step leaves in one place by itself has one holder after it.
LEMMA OneHolder ==
  ASSUME NEW b,
         \/ /\ \E x : WithReader(b)' = {x}
            /\ InQueue(b)' = {} /\ WithWorker(b)' = {} /\ InWindow(b)' = {}
            /\ WithConsumer(b)' = {}
         \/ /\ \E x : InQueue(b)' = {x}
            /\ WithReader(b)' = {} /\ WithWorker(b)' = {} /\ InWindow(b)' = {}
            /\ WithConsumer(b)' = {}
         \/ /\ \E x : WithWorker(b)' = {x}
            /\ WithReader(b)' = {} /\ InQueue(b)' = {} /\ InWindow(b)' = {}
            /\ WithConsumer(b)' = {}
         \/ /\ \E x : InWindow(b)' = {x}
            /\ WithReader(b)' = {} /\ InQueue(b)' = {} /\ WithWorker(b)' = {}
            /\ WithConsumer(b)' = {}
         \/ /\ \E x : WithConsumer(b)' = {x}
            /\ WithReader(b)' = {} /\ InQueue(b)' = {} /\ WithWorker(b)' = {}
            /\ InWindow(b)' = {}
  PROVE  Holders(b)' = 1
<1> DEFINE R == Cardinality(WithReader(b)')
           Q == Cardinality(InQueue(b)')
           W == Cardinality(WithWorker(b)')
           D == Cardinality(InWindow(b)')
           C == Cardinality(WithConsumer(b)')
<1>1. /\ (\E x : WithReader(b)' = {x}) => R = 1
      /\ (\E x : InQueue(b)' = {x}) => Q = 1
      /\ (\E x : WithWorker(b)' = {x}) => W = 1
      /\ (\E x : InWindow(b)' = {x}) => D = 1
      /\ (\E x : WithConsumer(b)' = {x}) => C = 1
  BY FS_Singleton
<1>2. /\ WithReader(b)' = {} => R = 0
      /\ InQueue(b)' = {} => Q = 0
      /\ WithWorker(b)' = {} => W = 0
      /\ InWindow(b)' = {} => D = 0
      /\ WithConsumer(b)' = {} => C = 0
  BY FS_EmptySet
<1>3. Holders(b)' = R + Q + W + D + C
  BY DEF Holders
<1> HIDE DEF R, Q, W, D, C
<1>4. \/ R = 1 /\ Q = 0 /\ W = 0 /\ D = 0 /\ C = 0
      \/ R = 0 /\ Q = 1 /\ W = 0 /\ D = 0 /\ C = 0
      \/ R = 0 /\ Q = 0 /\ W = 1 /\ D = 0 /\ C = 0
      \/ R = 0 /\ Q = 0 /\ W = 0 /\ D = 1 /\ C = 0
      \/ R = 0 /\ Q = 0 /\ W = 0 /\ D = 0 /\ C = 1
  BY <1>1, <1>2
<1>5. QED BY <1>3, <1>4

OneHolderEach == \A b \in BevyNumbers : Holders(b) = IF b < nextBevy THEN 1 ELSE 0

\* A reader brings a bevy into its own hands by claiming it, and hands it to
\* the queue by sending it.
LEMMA HeldByReaders ==
  ASSUME Types, HandsHoldBevies, OneHolderEach, Running', failure' = failure,
         NEW r \in Readers, ReaderStep(r)
  PROVE  OneHolderEach'
<1> SUFFICES ASSUME NEW b \in BevyNumbers
             PROVE  Holders(b)' = IF b < nextBevy' THEN 1 ELSE 0
  BY DEF OneHolderEach
<1>0. /\ Holders(b) = IF b < nextBevy THEN 1 ELSE 0
      /\ b \in Nat /\ b < BevyCount /\ nextBevy \in Nat /\ BevyCount \in Nat
  BY BevyCountType DEF OneHolderEach, BevyNumbers, Types
<1>1. /\ WithWorker(b)' = WithWorker(b) /\ InWindow(b)' = InWindow(b)
      /\ WithConsumer(b)' = WithConsumer(b)
  BY ReaderFrame DEF WithWorker, InWindow, WithConsumer, workerVars, windowVars, consumerVars
<1>2. CASE Claim(r)
  <2>1. /\ nextBevy' = nextBevy + 1 /\ reader[r] = "claiming"
        /\ reader' = [reader EXCEPT ![r] = IF nextBevy < BevyCount THEN "reading" ELSE "done"]
        /\ claimed' = [claimed EXCEPT ![r] = nextBevy] /\ queue' = queue
    BY <1>2 DEF Claim, ReaderOnly
  <2>2. InQueue(b)' = InQueue(b)
    BY <2>1 DEF InQueue
  <2>3. CASE b # nextBevy
    <3>1. WithReader(b)' = WithReader(b)
      BY <2>1, <2>3 DEF WithReader, Types
    <3>2. Holders(b)' = Holders(b)
      BY <1>1, <2>2, <3>1, SamePlaces
    <3>3. QED BY <1>0, <2>1, <2>3, <3>2
  <2>4. CASE b = nextBevy
    <3>1. /\ WithReader(b) = {} /\ InQueue(b) = {} /\ WithWorker(b) = {}
          /\ InWindow(b) = {} /\ WithConsumer(b) = {}
      BY <1>0, <2>4, NoPlace
    <3>2. WithReader(b)' = {r}
      BY <1>0, <2>1, <2>4, <3>1 DEF WithReader, Types
    <3>3. Holders(b)' = 1
      BY <1>1, <2>2, <3>1, <3>2, OneHolder
    <3>4. QED BY <1>0, <2>1, <2>4, <3>3
  <2>5. QED BY <2>3, <2>4
<1>3. CASE Send(r)
  <2>1. /\ nextBevy' = nextBevy /\ claimed' = claimed /\ reader[r] = "sending"
        /\ reader' = [reader EXCEPT ![r] = "top"] /\ queue' = Append(queue, claimed[r])
    BY <1>3 DEF Send, ReaderAt
  <2>2. queue \in Seq(Nat) /\ Len(queue) \in Nat /\ claimed[r] \in Nat
    BY DEF Types
  <2>3. /\ Len(queue') = Len(queue) + 1
        /\ \A i \in 1..Len(queue) : queue'[i] = queue[i]
        /\ queue'[Len(queue) + 1] = claimed[r]
    BY <2>1, <2>2
  <2>4. CASE claimed[r] # b
    <3>1. WithReader(b)' = WithReader(b)
      BY <2>1, <2>4 DEF WithReader, Types
    <3>2. InQueue(b)' = InQueue(b)
      BY <2>2, <2>3, <2>4 DEF InQueue
    <3>3. Holders(b)' = Holders(b)
      BY <1>1, <3>1, <3>2, SamePlaces
    <3>4. QED BY <1>0, <2>1, <3>3
  <2>5. CASE claimed[r] = b
    <3>1. r \in WithReader(b)
      BY <2>1, <2>5 DEF WithReader
    <3>2. WithReader(b) # {}
      BY <3>1
    <3>3. Holders(b) = 1
      BY <1>0, <3>2, NoPlace
    <3>4. /\ \E x : WithReader(b) = {x}
          /\ InQueue(b) = {} /\ WithWorker(b) = {} /\ InWindow(b) = {}
          /\ WithConsumer(b) = {}
      BY <3>2, <3>3, OnlyPlace
    <3>5. WithReader(b)' = {}
      <4>1. WithReader(b) = {r}
        BY <3>1, <3>4
      <4>2. WithReader(b)' \subseteq WithReader(b) \ {r}
        BY <2>1 DEF WithReader, Types
      <4>3. QED BY <4>1, <4>2
    <3>6. InQueue(b)' = {Len(queue) + 1}
      <4>1. \A i \in 1..Len(queue) : queue[i] # b
        BY <3>4 DEF InQueue
      <4>2. QED BY <2>2, <2>3, <2>5, <4>1 DEF InQueue
    <3>7. Holders(b)' = 1
      BY <1>1, <3>4, <3>5, <3>6, OneHolder
    <3>8. b < nextBevy
      BY <1>0, <3>3
    <3>9. QED BY <2>1, <3>7, <3>8
  <2>6. QED BY <2>4, <2>5
<1>4. CASE ~Claim(r) /\ ~Send(r)
  <2>1. /\ nextBevy' = nextBevy /\ claimed' = claimed /\ queue' = queue
        /\ reader' = [reader EXCEPT ![r] = reader'[r]]
        /\ \/ reader'[r] \in HasBevy <=> reader[r] \in HasBevy
           \/ reader[r] = "reading" /\ Record(claimed[r])
    BY <1>4
    DEF Types, HasBevy, ReaderStep, ReaderAt, ReaderOnly, ParkedReaderLeaves, ReaderAdmitted,
        OpenReader, OpenReaderFails, ReaderLeaves, ReaderGoesOn, StandDown, StandUp,
        PassGate, HeldAtGate, ReadBevy, ReadBevyFails
  <2>2. ~(reader[r] = "reading" /\ Record(claimed[r]))
    BY DEF HandsHoldBevies, HasBevy, Record, Running, FailureSet, NoFailure, Types
  <2>3. WithReader(b)' = WithReader(b) /\ InQueue(b)' = InQueue(b)
    BY <2>1, <2>2 DEF WithReader, InQueue, HasBevy, Types
  <2>4. Holders(b)' = Holders(b)
    BY <1>1, <2>3, SamePlaces
  <2>5. QED BY <1>0, <2>1, <2>4
<1>5. QED BY <1>2, <1>3, <1>4

\* A worker takes a bevy off the head of the queue and puts it in the window.
LEMMA HeldByWorkers ==
  ASSUME Types, HandsHoldBevies, OneHolderEach, Running, Running', failure' = failure,
         NEW w \in Workers, WorkerStep(w)
  PROVE  OneHolderEach'
<1> SUFFICES ASSUME NEW b \in BevyNumbers
             PROVE  Holders(b)' = IF b < nextBevy' THEN 1 ELSE 0
  BY DEF OneHolderEach
<1>0. /\ Holders(b) = IF b < nextBevy THEN 1 ELSE 0
      /\ b \in Nat /\ b < BevyCount /\ nextBevy \in Nat /\ nextBevy' = nextBevy
  BY BevyCountType, WorkerFrame DEF OneHolderEach, BevyNumbers, Types
<1>1. WithReader(b)' = WithReader(b)
  BY WorkerFrame DEF WithReader, readerVars
<1>2. WithConsumer(b)' = WithConsumer(b)
  <2>1. consumer' = consumer \/ (consumer = "asleep" /\ consumer' = "looking")
    BY DEF WorkerStep, WorkerOnly, WorkerAndConsumer, TakeRaw, QueueEmpty,
        QueueDisconnected, IdleWorkerLeaves, IdleWorkerPolls, DropRaw, StartDecode,
        DecodeBevy, DecodeBevyFails, Deposit, DepositRefused, WorkerExit, NotifyFilled,
        consumerVars
  <2>2. QED BY <2>1, WorkerFrame DEF WithConsumer
<1>3. CASE TakeRaw(w)
  <2>1. /\ queue # <<>> /\ queue' = Tail(queue) /\ ready' = ready
        /\ worker[w] = "polling" /\ worker' = [worker EXCEPT ![w] = "took"]
        /\ taken' = [taken EXCEPT ![w] = Head(queue)]
    BY <1>3 DEF TakeRaw, WorkerAt, windowVars
  <2>2. InWindow(b)' = InWindow(b)
    BY <2>1 DEF InWindow
  <2>3. /\ Head(queue) = queue[1] /\ Len(queue) \in Nat /\ 1 \in 1..Len(queue)
        /\ Len(queue') = Len(queue) - 1
        /\ \A i \in 1..Len(queue') : queue'[i] = queue[i + 1] /\ i + 1 \in 1..Len(queue)
    <3>1. queue \in Seq(Nat)
      BY DEF Types
    <3>2. QED BY <2>1, <3>1
  <2>4. CASE queue[1] # b
    <3>1. WithWorker(b)' = WithWorker(b)
      BY <2>1, <2>3, <2>4 DEF WithWorker, Types
    <3>2. CASE InQueue(b) = {}
      <4>1. \A i \in 1..Len(queue) : queue[i] # b
        BY <3>2 DEF InQueue
      <4>2. InQueue(b)' = InQueue(b)
        <5>1. \A i \in 1..Len(queue') : queue'[i] # b
          BY <2>3, <4>1
        <5>2. InQueue(b)' = {}
          BY <5>1 DEF InQueue
        <5>3. QED BY <3>2, <5>2
      <4>3. Holders(b)' = Holders(b)
        BY <1>1, <1>2, <2>2, <3>1, <4>2, SamePlaces
      <4>4. QED BY <1>0, <4>3
    <3>3. CASE InQueue(b) # {}
      <4>1. Holders(b) = 1
        BY <1>0, <3>3, NoPlace
      <4>2. PICK i : InQueue(b) = {i}
        BY <3>3, <4>1, OnlyPlace
      <4>3. /\ WithReader(b) = {} /\ WithWorker(b) = {} /\ InWindow(b) = {}
            /\ WithConsumer(b) = {}
        BY <3>3, <4>1, OnlyPlace
      <4>4. i \in 1..Len(queue) /\ queue[i] = b /\ \A j \in 1..Len(queue) : queue[j] = b => j = i
        BY <4>2 DEF InQueue
      <4>5. i - 1 \in 1..Len(queue')
        BY <2>3, <2>4, <4>4
      <4>6. InQueue(b)' = {i - 1}
        <5>1. \A j \in 1..Len(queue') : queue'[j] = b <=> j = i - 1
          <6>1. SUFFICES ASSUME NEW j \in 1..Len(queue')
                         PROVE  queue'[j] = b <=> j = i - 1
            OBVIOUS
          <6>2. queue'[j] = queue[j + 1] /\ j + 1 \in 1..Len(queue)
            BY <2>3
          <6>3. queue[j + 1] = b <=> j + 1 = i
            BY <4>4, <6>2
          <6>4. j + 1 = i <=> j = i - 1
            BY <2>3, <4>4
          <6>5. QED BY <6>2, <6>3, <6>4
        <5>2. InQueue(b)' = {j \in 1..Len(queue') : queue'[j] = b}
          BY DEF InQueue
        <5>3. QED BY <4>5, <5>1, <5>2
      <4>7. Holders(b)' = 1
        BY <1>1, <1>2, <2>2, <3>1, <4>3, <4>6, OneHolder
      <4>8. b < nextBevy
        BY <1>0, <4>1
      <4>9. QED BY <1>0, <4>7, <4>8
    <3>4. QED BY <3>2, <3>3
  <2>5. CASE queue[1] = b
    <3>1. 1 \in InQueue(b)
      BY <2>3, <2>5 DEF InQueue
    <3>2. Holders(b) = 1
      BY <1>0, <3>1, NoPlace
    <3>3. /\ \E x : InQueue(b) = {x}
          /\ WithReader(b) = {} /\ WithWorker(b) = {} /\ InWindow(b) = {}
          /\ WithConsumer(b) = {}
      BY <3>1, <3>2, OnlyPlace
    <3>4. \A j \in 1..Len(queue) : queue[j] = b => j = 1
      BY <3>1, <3>3 DEF InQueue
    <3>5. InQueue(b)' = {}
      BY <2>3, <3>4 DEF InQueue
    <3>6. WithWorker(b)' = {w}
      BY <2>1, <2>3, <2>5, <3>3 DEF WithWorker, Types
    <3>7. Holders(b)' = 1
      BY <1>1, <1>2, <2>2, <3>3, <3>5, <3>6, OneHolder
    <3>8. b < nextBevy
      BY <1>0, <3>2
    <3>9. QED BY <1>0, <3>7, <3>8
  <2>6. QED BY <2>4, <2>5
<1>4. CASE Deposit(w)
  <2>1. /\ queue' = queue /\ taken' = taken /\ ready' = ready \cup {taken[w]}
        /\ worker[w] = "depositing" /\ worker' = [worker EXCEPT ![w] = "polling"]
    BY <1>4 DEF Deposit, WorkerAt
  <2>2. InQueue(b)' = InQueue(b)
    BY <2>1 DEF InQueue
  <2>3. CASE taken[w] # b
    <3>1. WithWorker(b)' = WithWorker(b) /\ InWindow(b)' = InWindow(b)
      BY <2>1, <2>3 DEF WithWorker, InWindow, Types
    <3>2. Holders(b)' = Holders(b)
      BY <1>1, <1>2, <2>2, <3>1, SamePlaces
    <3>3. QED BY <1>0, <3>2
  <2>4. CASE taken[w] = b
    <3>1. w \in WithWorker(b)
      BY <2>1, <2>4 DEF WithWorker
    <3>2. Holders(b) = 1
      BY <1>0, <3>1, NoPlace
    <3>3. /\ \E x : WithWorker(b) = {x}
          /\ WithReader(b) = {} /\ InQueue(b) = {} /\ InWindow(b) = {}
          /\ WithConsumer(b) = {}
      BY <3>1, <3>2, OnlyPlace
    <3>4. WithWorker(b)' = {}
      <4>1. WithWorker(b) = {w}
        BY <3>1, <3>3
      <4>2. WithWorker(b)' \subseteq WithWorker(b) \ {w}
        BY <2>1 DEF WithWorker, Types
      <4>3. QED BY <4>1, <4>2
    <3>5. InWindow(b)' = {b}
      BY <2>1, <2>4 DEF InWindow
    <3>6. Holders(b)' = 1
      BY <1>1, <1>2, <2>2, <3>3, <3>4, <3>5, OneHolder
    <3>7. b < nextBevy
      BY <1>0, <3>2
    <3>8. QED BY <1>0, <3>6, <3>7
  <2>5. QED BY <2>3, <2>4
<1>5. CASE ~TakeRaw(w) /\ ~Deposit(w)
  <2>1. /\ queue' = queue /\ taken' = taken /\ ready' = ready
        /\ worker' = [worker EXCEPT ![w] = worker'[w]]
        /\ \/ worker'[w] \in HasRaw <=> worker[w] \in HasRaw
           \/ FailureSet \/ closed
           \/ worker[w] = "decoding" /\ Record(taken[w])
    BY <1>5
    DEF Types, HasRaw, WorkerStep, WorkerAt, WorkerOnly, WorkerAndConsumer, QueueEmpty,
        QueueDisconnected, IdleWorkerLeaves, IdleWorkerPolls, DropRaw, StartDecode,
        DecodeBevy, DecodeBevyFails, DepositRefused, WorkerExit, windowVars
  <2>2. ~(worker[w] = "decoding" /\ Record(taken[w]))
    BY DEF HandsHoldBevies, HasRaw, Record, Running, FailureSet, NoFailure, Types
  <2>3. WithWorker(b)' = WithWorker(b) /\ InQueue(b)' = InQueue(b) /\ InWindow(b)' = InWindow(b)
    BY <2>1, <2>2 DEF WithWorker, InQueue, InWindow, HasRaw, Types, Running
  <2>4. Holders(b)' = Holders(b)
    BY <1>1, <1>2, <2>3, SamePlaces
  <2>5. QED BY <1>0, <2>4
<1>6. QED BY <1>3, <1>4, <1>5

\* The consumer takes a bevy out of the window and keeps it for good.
LEMMA HeldByConsumer ==
  ASSUME Types, ClosedByShutdown, OneHolderEach, Running, Running',
         ConsumerStep \/ SpuriousWake
  PROVE  OneHolderEach'
<1> SUFFICES ASSUME NEW b \in BevyNumbers
             PROVE  Holders(b)' = IF b < nextBevy' THEN 1 ELSE 0
  BY DEF OneHolderEach
<1>0. /\ Holders(b) = IF b < nextBevy THEN 1 ELSE 0
      /\ b \in Nat /\ nextBevy \in Nat /\ nextBevy' = nextBevy /\ nextExpected \in Nat
  BY ConsumerFrame DEF OneHolderEach, BevyNumbers, Types
<1>1. WithReader(b)' = WithReader(b) /\ WithWorker(b)' = WithWorker(b)
  BY ConsumerFrame DEF WithReader, WithWorker, readerVars, workerVars
<1>2. InQueue(b)' = InQueue(b)
  <2>1. queue' = queue \/ consumer = "draining"
    BY DEF ConsumerStep, SpuriousWake, Publish, LeaveLoop, TakeReady, GiveUp, DecideToWait,
        Wait, Deliver, DeliverRefused, SinkFails, Close, DrainOne, DrainEnds, Return,
        ConsumerAt
  <2>2. QED BY <2>1 DEF InQueue, Running, ClosedByShutdown, Shutdown
<1>3. CASE TakeReady
  <2>1. /\ nextExpected \in ready /\ ready' = ready \ {nextExpected}
        /\ consumer = "looking" /\ consumer' = "delivering" /\ nextExpected' = nextExpected
    BY <1>3 DEF TakeReady, ConsumerAt
  <2>2. CASE nextExpected # b
    <3>1. InWindow(b)' = InWindow(b) /\ WithConsumer(b)' = WithConsumer(b)
      BY <2>1, <2>2 DEF InWindow, WithConsumer
    <3>2. Holders(b)' = Holders(b)
      BY <1>1, <1>2, <3>1, SamePlaces
    <3>3. QED BY <1>0, <3>2
  <2>3. CASE nextExpected = b
    <3>1. b \in InWindow(b)
      BY <2>1, <2>3 DEF InWindow
    <3>2. Holders(b) = 1
      BY <1>0, <3>1, NoPlace
    <3>3. WithReader(b) = {} /\ InQueue(b) = {} /\ WithWorker(b) = {}
      BY <3>1, <3>2, OnlyPlace
    <3>4. InWindow(b)' = {}
      BY <2>1, <2>3 DEF InWindow
    <3>5. WithConsumer(b)' = {b}
      BY <2>1, <2>3 DEF WithConsumer
    <3>6. Holders(b)' = 1
      BY <1>1, <1>2, <3>3, <3>4, <3>5, OneHolder
    <3>7. b < nextBevy
      BY <1>0, <3>2
    <3>8. QED BY <1>0, <3>6, <3>7
  <2>4. QED BY <2>2, <2>3
<1>4. CASE ~TakeReady
  <2>1. InWindow(b)' = InWindow(b)
    <3>1. ready' = ready \/ closed'
      BY <1>4
      DEF ConsumerStep, SpuriousWake, Publish, LeaveLoop, GiveUp, DecideToWait,
          Wait, Deliver, DeliverRefused, SinkFails, Close, DrainOne, DrainEnds, Return,
          windowVars
    <3>2. QED BY <3>1 DEF InWindow, Running
  <2>2. \/ /\ nextExpected' = nextExpected
           /\ consumer # "delivering" /\ consumer' # "delivering"
        \/ /\ nextExpected' = nextExpected + 1
           /\ consumer = "delivering" /\ consumer' = "publish"
        \/ outcome' # "reading"
    BY <1>4
    DEF ConsumerStep, SpuriousWake, Publish, LeaveLoop, GiveUp, DecideToWait,
        Wait, Deliver, DeliverRefused, SinkFails, Close, DrainOne, DrainEnds, Return,
        ConsumerAt, Result
  <2>3. WithConsumer(b)' = WithConsumer(b)
    <3>1. CASE /\ nextExpected' = nextExpected
               /\ consumer # "delivering" /\ consumer' # "delivering"
      BY <3>1 DEF WithConsumer
    <3>2. CASE /\ nextExpected' = nextExpected + 1
               /\ consumer = "delivering" /\ consumer' = "publish"
      <4>1. b < nextExpected + 1 <=> b < nextExpected \/ b = nextExpected
        BY <1>0
      <4>2. QED BY <3>2, <4>1 DEF WithConsumer
    <3>3. QED BY <2>2, <3>1, <3>2 DEF Running
  <2>4. Holders(b)' = Holders(b)
    BY <1>1, <1>2, <2>1, <2>3, SamePlaces
  <2>5. QED BY <1>0, <2>4
<1>5. QED BY <1>3, <1>4

\* No bevy is claimed at the start, and none is anywhere.
LEMMA HeldInitially == PipelineInit => OneHolderEach
<1> SUFFICES ASSUME PipelineInit, NEW b \in BevyNumbers PROVE Holders(b) = 0 /\ ~(b < nextBevy)
  BY DEF OneHolderEach
<1>1. /\ WithReader(b) = {} /\ InQueue(b) = {} /\ WithWorker(b) = {}
      /\ InWindow(b) = {} /\ WithConsumer(b) = {}
  BY BevyCountType
  DEF PipelineInit, WithReader, InQueue, WithWorker, InWindow, WithConsumer, BevyNumbers
<1>2. Holders(b) = 0
  BY <1>1, FS_EmptySet DEF Holders
<1>3. QED BY <1>2, BevyCountType DEF PipelineInit, BevyNumbers

\* No step of a run that goes on loses a bevy or makes a second of it.
LEMMA HeldStep ==
  Types /\ ClosedByShutdown /\ HandsHoldBevies /\ EveryClaimedBevyHasOneHolder /\ [Next]_vars
    => EveryClaimedBevyHasOneHolder'
<1> SUFFICES ASSUME Types, ClosedByShutdown, HandsHoldBevies, EveryClaimedBevyHasOneHolder,
                    [Next]_vars, Running'
             PROVE  OneHolderEach'
  BY DEF EveryClaimedBevyHasOneHolder, OneHolderEach, Running
<1>1. Running /\ failure' = failure
  BY WentOn
<1>2. OneHolderEach
  BY <1>1 DEF EveryClaimedBevyHasOneHolder, OneHolderEach, Running
<1>3. ASSUME NEW r \in Readers, ReaderStep(r) PROVE OneHolderEach'
  BY <1>1, <1>2, <1>3, HeldByReaders
<1>4. ASSUME NEW w \in Workers, WorkerStep(w) PROVE OneHolderEach'
  BY <1>1, <1>2, <1>4, HeldByWorkers
<1>5. CASE ConsumerStep \/ SpuriousWake
  BY <1>1, <1>2, <1>5, HeldByConsumer
<1>6. CASE UNCHANGED vars
  BY <1>2, <1>6
  DEF vars, readerVars, workerVars, windowVars, consumerVars, OneHolderEach, Holders,
      WithReader, InQueue, WithWorker, InWindow, WithConsumer
<1>7. QED BY <1>3, <1>4, <1>5, <1>6 DEF Next, Returned

(* No bevy of a stream is lost between its claim and its delivery, and none  *)
(* is hashed twice, with any number of readers and workers and any queue.    *)
THEOREM NoBevyIsLostOrDoubled == PipelineSpec => []EveryClaimedBevyHasOneHolder
<1>1. PipelineInit => HandsHoldBevies /\ EveryClaimedBevyHasOneHolder
  BY HandsInitially, HeldInitially DEF EveryClaimedBevyHasOneHolder, OneHolderEach
<1>2. Types /\ ShutInv /\ HandsHoldBevies /\ EveryClaimedBevyHasOneHolder /\ [Next]_vars
        => HandsHoldBevies' /\ EveryClaimedBevyHasOneHolder'
  <2> SUFFICES ASSUME Types, ShutInv, HandsHoldBevies, EveryClaimedBevyHasOneHolder,
                      [Next]_vars
               PROVE  HandsHoldBevies' /\ EveryClaimedBevyHasOneHolder'
    OBVIOUS
  <2>1. ClosedByShutdown
    BY DEF ShutInv
  <2>2. QED BY <2>1, HandsStep, HeldStep
<1>3. QED BY <1>1, <1>2, ShutInvariant, PTL DEF PipelineSpec

-----------------------------------------------------------------------------
(* What a failure blames *)

BlameIsReal == FailureSet => Bad(failure) \/ (failure = 0 /\ FaultyHandles # {})
FailedIsRecorded == outcome = "failed" => FailureSet

\* A failure is recorded for a bevy that is bad or a handle that did not open,
\* and the call fails only with one recorded.
LEMMA BlameStep ==
  ASSUME Types, HandsHoldBevies, BlameIsReal, FailedIsRecorded, [Next]_vars
  PROVE  BlameIsReal' /\ FailedIsRecorded'
<1>0. /\ failure' <= failure /\ failure \in Nat /\ failure' \in Nat
      /\ failure <= BevyCount /\ failure' <= BevyCount /\ BevyCount \in Nat
  BY HandsStep, BevyCountType DEF HandsHoldBevies
<1>1. FailureSet => FailureSet'
  BY <1>0 DEF FailureSet, NoFailure
<1>2. ASSUME NEW r \in Readers, ReaderStep(r) PROVE BlameIsReal' /\ FailedIsRecorded'
  <2>1. stored' = stored /\ outcome' = outcome
    BY <1>2, ReaderFrame DEF consumerVars
  <2>2. \/ failure' = failure
        \/ Record(0) /\ FaultyHandles # {}
        \/ Record(claimed[r]) /\ ~stored[claimed[r]].readable
    BY <1>2
    DEF ReaderStep, ReaderAt, ReaderOnly, ParkedReaderLeaves, ReaderAdmitted, OpenReader,
        OpenReaderFails, ReaderLeaves, ReaderGoesOn, StandDown, StandUp, PassGate,
        HeldAtGate, Claim, ReadBevy, ReadBevyFails, Send
  <2>3. \/ failure' = failure
        \/ failure' = 0 /\ FaultyHandles # {}
        \/ failure' = claimed[r] /\ ~stored[claimed[r]].readable
    BY <1>0, <2>2 DEF Record
  <2>4. QED BY <1>1, <2>1, <2>3 DEF BlameIsReal, FailedIsRecorded, FailureSet, Bad
<1>3. ASSUME NEW w \in Workers, WorkerStep(w) PROVE BlameIsReal' /\ FailedIsRecorded'
  <2>1. stored' = stored /\ outcome' = outcome
    BY <1>3, WorkerFrame
  <2>2. failure' = failure \/ (Record(taken[w]) /\ ~Decodes(stored[taken[w]]))
    BY <1>3
    DEF WorkerStep, WorkerOnly, WorkerAndConsumer, TakeRaw, QueueEmpty, QueueDisconnected,
        IdleWorkerLeaves, IdleWorkerPolls, DropRaw, StartDecode, DecodeBevy,
        DecodeBevyFails, Deposit, DepositRefused, WorkerExit
  <2>3. failure' = failure \/ (failure' = taken[w] /\ ~Decodes(stored[taken[w]]))
    BY <2>2 DEF Record
  <2>4. QED BY <1>1, <2>1, <2>3 DEF BlameIsReal, FailedIsRecorded, FailureSet, Bad
<1>4. ASSUME ConsumerStep \/ SpuriousWake PROVE BlameIsReal' /\ FailedIsRecorded'
  <2>1. stored' = stored /\ failure' = failure
    BY <1>4, ConsumerFrame
  <2>2. outcome' \in {outcome, "refused", "sink", Result}
    BY <1>4
    DEF ConsumerStep, SpuriousWake, Publish, LeaveLoop, TakeReady, GiveUp, DecideToWait,
        Wait, Deliver, DeliverRefused, SinkFails, Close, DrainOne, DrainEnds, Return
  <2>3. Result = "failed" => FailureSet
    BY DEF Result, FailedIsRecorded
  <2>4. QED BY <1>1, <2>1, <2>2, <2>3 DEF BlameIsReal, FailedIsRecorded, FailureSet, Bad
<1>5. CASE UNCHANGED vars
  BY <1>5 DEF vars, consumerVars, BlameIsReal, FailedIsRecorded, FailureSet, Bad
<1>6. QED BY <1>2, <1>3, <1>4, <1>5 DEF Next, Returned

(* Whatever the order the threads fail in, an error of the call names a bevy *)
(* that cannot be read or decoded, or bevy 0 for a handle that did not open. *)
THEOREM BlamedBevyIsBad == PipelineSpec => []ReportedFailureIsReal
<1>1. PipelineInit => HandsHoldBevies /\ BlameIsReal /\ FailedIsRecorded
  BY HandsInitially DEF PipelineInit, BlameIsReal, FailedIsRecorded, FailureSet
<1>2. Types /\ HandsHoldBevies /\ BlameIsReal /\ FailedIsRecorded /\ [Next]_vars
        => HandsHoldBevies' /\ BlameIsReal' /\ FailedIsRecorded'
  BY HandsStep, BlameStep
<1>3. BlameIsReal /\ FailedIsRecorded => ReportedFailureIsReal
  BY DEF BlameIsReal, FailedIsRecorded, ReportedFailureIsReal
<1>4. QED BY <1>1, <1>2, <1>3, ShutInvariant, PTL DEF PipelineSpec

-----------------------------------------------------------------------------
(* What reaches the sink *)

Looping == {"publish", "looking", "committed", "asleep", "delivering"}
Leaving == {"closing", "draining", "joining"}

\* A bevy past a reader is readable, and one past a worker decodes.
BeviesAreRead ==
  /\ \A r \in Readers : reader[r] = "sending" => stored[claimed[r]].readable
  /\ \A i \in 1..Len(queue) : stored[queue[i]].readable
  /\ \A w \in Workers : worker[w] \in HasRaw => stored[taken[w]].readable
BeviesAreDecoded ==
  /\ \A w \in Workers : worker[w] = "depositing" => Decodes(stored[taken[w]])
  /\ \A b \in ready : stored[b].readable /\ Decodes(stored[b])
  /\ consumer = "delivering" =>
       stored[nextExpected].readable /\ Decodes(stored[nextExpected])

\* While nothing has failed a reader ends only when the bevies have run out,
\* and a worker only when the readers have and the queue is empty.
NothingLeft ==
  ~FailureSet /\ ~closed =>
    /\ \A r \in Readers : reader[r] = "done" => nextBevy >= BevyCount
    /\ \A w \in Workers : worker[w] \in {"leaving", "done"} => queue = <<>> /\ SendersGone

\* The consumer stands where the serial recursion does, bevy by bevy, until
\* its loop ends for a reason.
DeliveredInOrder ==
  /\ stored \in Streams
  /\ nextExpected \in 0..BevyCount /\ delivered \in 0..Size
  /\ delivered <= SerialBytes(stored)
  /\ outcome = "reading" => Bevywise(stored)[nextExpected] = Started(delivered)
LoopEndsForAReason ==
  /\ consumer \in Looping \cup Leaving \cup {"returned"}
  /\ consumer \in Looping => outcome = "reading"
  /\ consumer \in Looping \ {"publish"} => LoopGoesOn
  /\ consumer \in Leaving =>
       \/ outcome = "reading" /\ (~LoopGoesOn \/ FailureSet)
       \/ outcome = "refused" /\ SerialOutcome(stored) = "refused"
       \/ outcome = "sink" /\ SinkMayFail

\* No step touches the stream.
LEMMA StreamStays == [Next]_vars => stored' = stored
<1>1. ASSUME NEW r \in Readers, ReaderStep(r) PROVE stored' = stored
  BY <1>1, ReaderFrame
<1>2. ASSUME NEW w \in Workers, WorkerStep(w) PROVE stored' = stored
  BY <1>2, WorkerFrame
<1>3. ASSUME ConsumerStep \/ SpuriousWake PROVE stored' = stored
  BY <1>3, ConsumerFrame
<1>4. QED BY <1>1, <1>2, <1>3 DEF Next, Returned, vars

\* A bevy is handed on only by a thread that has read it.
LEMMA ReadStep == Types /\ BeviesAreRead /\ [Next]_vars => BeviesAreRead'
<1> SUFFICES ASSUME Types, BeviesAreRead, [Next]_vars PROVE BeviesAreRead'
  OBVIOUS
<1>0. queue \in Seq(Nat) /\ Len(queue) \in Nat
  BY DEF Types
<1>1. ASSUME NEW r \in Readers, ReaderStep(r) PROVE BeviesAreRead'
  <2>1. /\ stored' = stored /\ worker' = worker /\ taken' = taken
    BY <1>1, ReaderFrame DEF workerVars
  <2>2. \/ /\ queue' = queue
           /\ reader' = [reader EXCEPT ![r] = reader'[r]]
           /\ reader'[r] = "sending" => stored[claimed[r]].readable /\ claimed' = claimed
           /\ \/ claimed' = claimed
              \/ claimed' = [claimed EXCEPT ![r] = nextBevy] /\ reader'[r] # "sending"
        \/ /\ queue' = Append(queue, claimed[r]) /\ claimed' = claimed
           /\ reader[r] = "sending" /\ reader' = [reader EXCEPT ![r] = "top"]
    BY <1>1
    DEF Types, ReaderStep, ReaderAt, ReaderOnly, ParkedReaderLeaves, ReaderAdmitted, OpenReader,
        OpenReaderFails, ReaderLeaves, ReaderGoesOn, StandDown, StandUp, PassGate,
        HeldAtGate, Claim, ReadBevy, ReadBevyFails, Send
  <2>3. \A i \in 1..Len(queue') : stored[queue'[i]].readable
    <3>1. CASE queue' = queue
      BY <3>1 DEF BeviesAreRead
    <3>2. CASE queue' = Append(queue, claimed[r]) /\ reader[r] = "sending"
      <4>1. stored[claimed[r]].readable
        BY <3>2 DEF BeviesAreRead
      <4>2. \A i \in 1..Len(queue') : queue'[i] = claimed[r] \/ (i \in 1..Len(queue) /\ queue'[i] = queue[i])
        BY <1>0, <3>2 DEF Types
      <4>3. QED BY <4>1, <4>2 DEF BeviesAreRead
    <3>3. QED BY <2>2, <3>1, <3>2
  <2>4. \A q \in Readers : reader'[q] = "sending" => stored[claimed'[q]].readable
    BY <2>2 DEF BeviesAreRead, Types
  <2>5. QED BY <2>1, <2>3, <2>4 DEF BeviesAreRead
<1>2. ASSUME NEW w \in Workers, WorkerStep(w) PROVE BeviesAreRead'
  <2>1. stored' = stored /\ reader' = reader /\ claimed' = claimed
    BY <1>2, WorkerFrame DEF readerVars
  <2>2. \/ /\ queue' = queue /\ taken' = taken
           /\ worker' = [worker EXCEPT ![w] = worker'[w]]
           /\ worker'[w] \in HasRaw => worker[w] \in HasRaw
        \/ /\ queue # <<>> /\ queue' = Tail(queue)
           /\ taken' = [taken EXCEPT ![w] = Head(queue)]
           /\ worker' = [worker EXCEPT ![w] = "took"]
    BY <1>2
    DEF Types, HasRaw, WorkerStep, WorkerAt, WorkerOnly, WorkerAndConsumer, TakeRaw, QueueEmpty,
        QueueDisconnected, IdleWorkerLeaves, IdleWorkerPolls, DropRaw, StartDecode,
        DecodeBevy, DecodeBevyFails, Deposit, DepositRefused, WorkerExit
  <2>3. CASE queue' = queue /\ taken' = taken
    BY <2>1, <2>2, <2>3 DEF BeviesAreRead, Types, HasRaw
  <2>4. CASE /\ queue # <<>> /\ queue' = Tail(queue)
             /\ taken' = [taken EXCEPT ![w] = Head(queue)]
             /\ worker' = [worker EXCEPT ![w] = "took"]
    <3>1. /\ Head(queue) = queue[1] /\ 1 \in 1..Len(queue)
          /\ \A i \in 1..Len(queue') : queue'[i] = queue[i + 1] /\ i + 1 \in 1..Len(queue)
      BY <1>0, <2>4
    <3>2. QED BY <2>1, <2>4, <3>1 DEF BeviesAreRead, Types, HasRaw
  <2>5. QED BY <2>2, <2>3, <2>4
<1>3. ASSUME ConsumerStep \/ SpuriousWake PROVE BeviesAreRead'
  <2>1. /\ stored' = stored /\ reader' = reader /\ claimed' = claimed
        /\ worker' = worker /\ taken' = taken
    BY <1>3, ConsumerFrame DEF readerVars, workerVars
  <2>2. queue' = queue \/ (queue # <<>> /\ queue' = Tail(queue))
    BY <1>3
    DEF ConsumerStep, SpuriousWake, Publish, LeaveLoop, TakeReady, GiveUp, DecideToWait,
        Wait, Deliver, DeliverRefused, SinkFails, Close, DrainOne, DrainEnds, Return,
        ConsumerOnly
  <2>3. \A i \in 1..Len(queue') : \E j \in 1..Len(queue) : queue'[i] = queue[j]
    <3>1. CASE queue' = queue
      BY <3>1
    <3>2. CASE queue # <<>> /\ queue' = Tail(queue)
      BY <1>0, <3>2
    <3>3. QED BY <2>2, <3>1, <3>2
  <2>4. QED BY <2>1, <2>3 DEF BeviesAreRead
<1>4. CASE UNCHANGED vars
  BY <1>4 DEF vars, readerVars, workerVars, BeviesAreRead
<1>5. QED BY <1>1, <1>2, <1>3, <1>4 DEF Next, Returned

\* The window takes only bevies that decode, and the consumer only from it.
LEMMA DecodedStep == Types /\ BeviesAreRead /\ BeviesAreDecoded /\ [Next]_vars => BeviesAreDecoded'
<1> SUFFICES ASSUME Types, BeviesAreRead, BeviesAreDecoded, [Next]_vars PROVE BeviesAreDecoded'
  OBVIOUS
<1>1. ASSUME NEW r \in Readers, ReaderStep(r) PROVE BeviesAreDecoded'
  BY <1>1, ReaderFrame DEF BeviesAreDecoded, workerVars, windowVars, consumerVars, Decodes, IndexAccepted
<1>2. ASSUME NEW w \in Workers, WorkerStep(w) PROVE BeviesAreDecoded'
  <2>1. stored' = stored /\ nextExpected' = nextExpected
    BY <1>2, WorkerFrame
  <2>2. /\ worker' = [worker EXCEPT ![w] = worker'[w]]
        /\ \/ taken' = taken
           \/ taken' = [taken EXCEPT ![w] = taken'[w]] /\ worker'[w] = "took"
        /\ worker'[w] = "depositing" => Decodes(stored[taken[w]]) /\ taken' = taken
        /\ ready' = ready \/ (worker[w] = "depositing" /\ ready' = ready \cup {taken[w]})
        /\ consumer' = "delivering" => consumer = "delivering"
    BY <1>2
    DEF Types, WorkerStep, WorkerAt, WorkerOnly, WorkerAndConsumer, TakeRaw, QueueEmpty,
        QueueDisconnected, IdleWorkerLeaves, IdleWorkerPolls, DropRaw, StartDecode,
        DecodeBevy, DecodeBevyFails, Deposit, DepositRefused, WorkerExit, NotifyFilled,
        windowVars, consumerVars
  <2>3. \A v \in Workers : worker'[v] = "depositing" => Decodes(stored[taken'[v]])
    BY <2>2 DEF BeviesAreDecoded, Types
  <2>4. \A b \in ready' : stored[b].readable /\ Decodes(stored[b])
    BY <2>2 DEF BeviesAreDecoded, BeviesAreRead, HasRaw
  <2>5. QED BY <2>1, <2>2, <2>3, <2>4 DEF BeviesAreDecoded, Decodes, IndexAccepted
<1>3. ASSUME ConsumerStep \/ SpuriousWake PROVE BeviesAreDecoded'
  <2>1. /\ stored' = stored /\ worker' = worker /\ taken' = taken
    BY <1>3, ConsumerFrame DEF workerVars
  <2>2. /\ ready' \subseteq ready
        /\ consumer' = "delivering" => nextExpected' = nextExpected /\ nextExpected \in ready
    BY <1>3
    DEF ConsumerStep, SpuriousWake, Publish, LeaveLoop, TakeReady, GiveUp, DecideToWait,
        Wait, Deliver, DeliverRefused, SinkFails, Close, DrainOne, DrainEnds, Return,
        ConsumerOnly, ConsumerAt, windowVars
  <2>3. QED BY <2>1, <2>2 DEF BeviesAreDecoded, Decodes, IndexAccepted
<1>4. CASE UNCHANGED vars
  BY <1>4 DEF vars, workerVars, windowVars, consumerVars, BeviesAreDecoded, Decodes, IndexAccepted
<1>5. QED BY <1>1, <1>2, <1>3, <1>4 DEF Next, Returned

\* While nothing has failed the threads end in order: the readers once the
\* bevies are all claimed, the workers once the queue is empty behind them.
LEMMA NothingLeftStep ==
  ASSUME Types, ShutInv, HandsHoldBevies, NothingLeft, [Next]_vars
  PROVE  NothingLeft'
<1> SUFFICES ASSUME ~FailureSet', ~closed'
             PROVE  /\ \A r \in Readers : reader'[r] = "done" => nextBevy' >= BevyCount
                    /\ \A w \in Workers : worker'[w] \in {"leaving", "done"} =>
                         queue' = <<>> /\ SendersGone'
  BY DEF NothingLeft
<1>0. /\ BevyCount \in Nat /\ nextBevy \in Nat /\ failure \in Nat /\ failure <= BevyCount
      /\ failure' = BevyCount /\ failure' <= failure
  BY BevyCountType, HandsStep DEF Types, HandsHoldBevies, FailureSet, NoFailure
<1>1. ~FailureSet /\ failure' = failure /\ failure = BevyCount
  BY <1>0 DEF FailureSet, NoFailure
<1>2. \A b : b < BevyCount => ~Record(b)
  BY <1>0, <1>1 DEF Record
<1>3. closed => consumer \in Shutdown
  BY DEF ShutInv, ClosedByShutdown
<1>4. ASSUME NEW r \in Readers, ReaderStep(r)
      PROVE  /\ \A q \in Readers : reader'[q] = "done" => nextBevy' >= BevyCount
             /\ \A w \in Workers : worker'[w] \in {"leaving", "done"} =>
                  queue' = <<>> /\ SendersGone'
  <2>1. worker' = worker /\ closed' = closed
    BY <1>4, ReaderFrame DEF workerVars, windowVars
  <2>2. ~StopSeen
    BY <1>1, <2>1 DEF StopSeen
  <2>3. /\ reader' = [reader EXCEPT ![r] = reader'[r]] /\ reader[r] # "done"
        /\ nextBevy' = nextBevy \/ nextBevy' = nextBevy + 1
    BY <1>4
    DEF Types, ReaderStep, ReaderAt, ReaderOnly, ParkedReaderLeaves, ReaderAdmitted,
        OpenReader, OpenReaderFails, ReaderLeaves, ReaderGoesOn, StandDown, StandUp, PassGate,
        HeldAtGate, Claim, ReadBevy, ReadBevyFails, Send
  <2>4. \/ reader'[r] # "done"
        \/ Record(0)
        \/ Record(claimed[r]) /\ reader[r] = "reading"
        \/ ~(nextBevy < BevyCount) /\ nextBevy' = nextBevy + 1
    BY <1>4, <2>2
    DEF Types, ReaderStep, ReaderAt, ReaderOnly, ParkedReaderLeaves, ReaderAdmitted,
        OpenReader, OpenReaderFails, ReaderLeaves, ReaderGoesOn, StandDown, StandUp, PassGate,
        HeldAtGate, Claim, ReadBevy, ReadBevyFails, Send
  <2>5. reader'[r] = "done" => nextBevy' >= BevyCount
    <3>1. CASE Record(0)
      BY <1>0, <1>2, <2>3, <3>1
    <3>2. CASE Record(claimed[r]) /\ reader[r] = "reading"
      BY <1>2, <3>2 DEF HandsHoldBevies, HasBevy
    <3>3. CASE ~(nextBevy < BevyCount) /\ nextBevy' = nextBevy + 1
      BY <1>0, <3>3
    <3>4. QED BY <2>4, <3>1, <3>2, <3>3
  <2>6. \A q \in Readers : reader'[q] = "done" => nextBevy' >= BevyCount
    BY <1>0, <1>1, <2>1, <2>3, <2>5 DEF NothingLeft, Types
  <2>7. \A w \in Workers : ~(worker[w] \in {"leaving", "done"})
    BY <1>1, <2>1, <2>3 DEF NothingLeft, SendersGone
  <2>8. QED BY <2>1, <2>6, <2>7
<1>5. ASSUME NEW w \in Workers, WorkerStep(w)
      PROVE  /\ \A r \in Readers : reader'[r] = "done" => nextBevy' >= BevyCount
             /\ \A v \in Workers : worker'[v] \in {"leaving", "done"} =>
                  queue' = <<>> /\ SendersGone'
  <2>1. nextBevy' = nextBevy /\ reader' = reader /\ closed' = closed
    BY <1>5, WorkerFrame DEF readerVars
  <2>2. ~StopSeen /\ ~closed
    BY <1>1, <2>1 DEF StopSeen
  <2>3. /\ worker' = [worker EXCEPT ![w] = worker'[w]]
        /\ queue' = queue \/ queue # <<>>
        /\ \/ worker'[w] \notin {"leaving", "done"}
           \/ worker[w] = "leaving" /\ queue' = queue
           \/ queue = <<>> /\ SendersGone /\ queue' = queue
           \/ worker[w] = "decoding" /\ Record(taken[w])
    BY <1>1, <1>5, <2>2
    DEF Types, WorkerStep, WorkerAt, WorkerOnly, WorkerAndConsumer, TakeRaw, QueueEmpty,
        QueueDisconnected, IdleWorkerLeaves, IdleWorkerPolls, DropRaw, StartDecode,
        DecodeBevy, DecodeBevyFails, Deposit, DepositRefused, WorkerExit
  <2>4. ~(worker[w] = "decoding" /\ Record(taken[w]))
    BY <1>2 DEF HandsHoldBevies, HasRaw
  <2>5. SendersGone' = SendersGone
    BY <2>1 DEF SendersGone
  <2>6. \A r \in Readers : reader[r] = "done" => nextBevy >= BevyCount
    BY <1>1, <2>2 DEF NothingLeft
  <2>7. \A v \in Workers : worker[v] \in {"leaving", "done"} => queue = <<>> /\ SendersGone
    BY <1>1, <2>2 DEF NothingLeft
  <2>8. \A v \in Workers : worker'[v] \in {"leaving", "done"} => queue' = <<>> /\ SendersGone
    BY <2>3, <2>4, <2>7 DEF Types
  <2>9. QED BY <2>1, <2>5, <2>6, <2>8
<1>6. ASSUME ConsumerStep \/ SpuriousWake
      PROVE  /\ \A r \in Readers : reader'[r] = "done" => nextBevy' >= BevyCount
             /\ \A w \in Workers : worker'[w] \in {"leaving", "done"} =>
                  queue' = <<>> /\ SendersGone'
  <2>1. nextBevy' = nextBevy /\ reader' = reader /\ worker' = worker
    BY <1>6, ConsumerFrame DEF readerVars, workerVars
  <2>2. ~closed /\ queue' = queue
    BY <1>3, <1>6
    DEF ConsumerStep, SpuriousWake, Publish, LeaveLoop, TakeReady, GiveUp, DecideToWait,
        Wait, Deliver, DeliverRefused, SinkFails, Close, DrainOne, DrainEnds, Return,
        ConsumerOnly, ConsumerAt, windowVars, Shutdown, ShutInv, ClosedByShutdown
  <2>3. SendersGone' = SendersGone
    BY <2>1 DEF SendersGone
  <2>4. QED BY <1>1, <2>1, <2>2, <2>3 DEF NothingLeft
<1>7. CASE UNCHANGED vars
  BY <1>1, <1>7 DEF vars, readerVars, workerVars, windowVars, NothingLeft, SendersGone
<1>8. QED BY <1>4, <1>5, <1>6, <1>7 DEF Next, Returned

\* Nobody left to produce a bevy, and none failed: every bevy has been
\* delivered or is in the window.
LEMMA NobodyLeftNoneMissing ==
  ASSUME Types, WaitInv, ShutInv, EveryClaimedBevyHasOneHolder, NothingLeft,
         outcome = "reading", consumer = "looking", liveWorkers = 0, ~FailureSet,
         nextExpected < BevyCount
  PROVE  nextExpected \in ready
<1> SUFFICES ASSUME nextExpected \notin ready PROVE FALSE
  OBVIOUS
<1>1. ~closed
  BY DEF ShutInv, ClosedByShutdown, Shutdown
<1>2. \A w \in Workers : worker[w] = "done"
  <2>1. Live \subseteq Workers
    BY DEF Live
  <2>2. IsFiniteSet(Live)
    BY <2>1, FS_Subset, PipelineAssumption
  <2>3. Live = {}
    BY <2>2, FS_EmptySet DEF WaitInv, LiveCounted
  <2>4. QED BY <2>3 DEF Live
<1>3. queue = <<>> /\ SendersGone
  BY <1>1, <1>2, PipelineAssumption DEF NothingLeft
<1>4. nextBevy >= BevyCount
  <2>1. 0 \in Readers
    BY PipelineAssumption DEF Readers
  <2>2. QED BY <1>1, <1>3, <2>1 DEF NothingLeft, SendersGone
<1>5. nextExpected \in BevyNumbers /\ nextExpected < nextBevy
  BY <1>4, BevyCountType DEF Types, BevyNumbers
<1>6. Holders(nextExpected) = 1
  BY <1>1, <1>5 DEF EveryClaimedBevyHasOneHolder
<1>7. /\ WithReader(nextExpected) = {} /\ InQueue(nextExpected) = {}
      /\ WithWorker(nextExpected) = {} /\ InWindow(nextExpected) = {}
      /\ WithConsumer(nextExpected) = {}
  <2>1. WithReader(nextExpected) = {}
    BY <1>3 DEF WithReader, SendersGone
  <2>2. InQueue(nextExpected) = {}
    BY <1>3 DEF InQueue
  <2>3. WithWorker(nextExpected) = {}
    BY <1>2 DEF WithWorker
  <2>4. ~(nextExpected < nextExpected)
    BY DEF Types
  <2>5. QED BY <2>1, <2>2, <2>3, <2>4 DEF InWindow, WithConsumer
<1>8. Holders(nextExpected) = 0
  BY <1>7, FS_EmptySet DEF Holders
<1>9. QED BY <1>6, <1>8

\* The bevy being delivered takes the serial recursion one bevy on.
LEMMA DeliveryFollows ==
  ASSUME DeliveredInOrder, LoopEndsForAReason, BeviesAreDecoded, consumer = "delivering"
  PROVE  /\ nextExpected + 1 \in 0..BevyCount
         /\ Bevywise(stored)[nextExpected + 1] = AfterBevy
         /\ AfterBevy \in Progress /\ AfterBevy.status # "failed"
         /\ AfterBevy.at >= delivered /\ AfterBevy.at <= SerialBytes(stored)
         /\ AfterBevy.status = "refused" => SerialOutcome(stored) = "refused"
<1> DEFINE b == nextExpected
           g == Bevywise(stored)
<1>1. /\ stored \in StoredStreams /\ b \in 0..BevyCount /\ BevyCount \in Nat
      /\ b < BevyCount /\ delivered < Size /\ g[b] = Started(delivered)
      /\ delivered \in 0..Size /\ Size \in Nat
  BY PipelineAssumption, BevyCountType, StreamAssumption
  DEF DeliveredInOrder, LoopEndsForAReason, Looping, LoopGoesOn, StoredStreams
<1>2. b \in BevyNumbers
  BY <1>1 DEF BevyNumbers
<1>3. g[b].status = "reading" /\ g[b].at = delivered
  BY <1>1 DEF Started
<1>4. stored[b].readable /\ Decodes(stored[b]) /\ IndexAccepted(stored[b])
  BY DEF BeviesAreDecoded, Decodes
<1>5. /\ b + 1 \in 0..BevyCount /\ stored[b] \in Bevies
      /\ g[b + 1] = DeliverBevy(stored[b], delivered)
  BY <1>1, <1>2, <1>3, <1>4, BevyOpened
<1>6. g[b + 1] = AfterBevy
  BY <1>5 DEF AfterBevy
<1>7. b + 1 \in b..BevyCount
  BY <1>1
<1>8. g[b + 1] \in Progress /\ g[b].at <= g[b + 1].at
  BY <1>1, <1>7, BeviesGoOn
<1>9. AfterBevy.status # "failed"
  BY <1>1, <1>4, <1>5, DecodedNeverFails DEF AfterBevy
<1>10. /\ g[b + 1].at <= SerialBytes(stored)
       /\ g[b + 1].status # "reading" => SerialOutcome(stored) = g[b + 1].status
  BY <1>1, <1>5, SerialEnd
<1> HIDE DEF g
<1>11. /\ AfterBevy \in Progress /\ delivered <= AfterBevy.at
       /\ AfterBevy.at <= SerialBytes(stored)
       /\ AfterBevy.status # "reading" => SerialOutcome(stored) = AfterBevy.status
  BY <1>3, <1>6, <1>8, <1>10
<1>12. AfterBevy.at \in 0..Size
  BY <1>11 DEF Progress
<1>13. QED BY <1>1, <1>5, <1>6, <1>9, <1>11, <1>12 DEF g

\* Every step keeps the consumer where the recursion is, and ends its loop
\* only for a reason.
LEMMA ConsumeStep ==
  ASSUME Types, WaitInv, ShutInv, HandsHoldBevies, EveryClaimedBevyHasOneHolder, NothingLeft,
         BeviesAreDecoded, DeliveredInOrder, LoopEndsForAReason, [Next]_vars
  PROVE  DeliveredInOrder' /\ LoopEndsForAReason'
<1>0. /\ failure' <= failure /\ failure \in Nat /\ failure' \in Nat /\ failure <= BevyCount
      /\ stored' = stored /\ BevyCount \in Nat
  BY HandsStep, StreamStays, BevyCountType DEF HandsHoldBevies
<1>1. FailureSet => FailureSet'
  BY <1>0 DEF FailureSet, NoFailure
<1>2. ASSUME UNCHANGED <<nextExpected, delivered, outcome>>,
             consumer' = consumer \/ (consumer = "asleep" /\ consumer' = "looking")
      PROVE  DeliveredInOrder' /\ LoopEndsForAReason'
  BY <1>0, <1>1, <1>2
  DEF DeliveredInOrder, LoopEndsForAReason, LoopGoesOn, Looping, Leaving
<1>3. ASSUME NEW r \in Readers, ReaderStep(r) PROVE DeliveredInOrder' /\ LoopEndsForAReason'
  BY <1>2, <1>3, ReaderFrame DEF consumerVars
<1>4. ASSUME NEW w \in Workers, WorkerStep(w) PROVE DeliveredInOrder' /\ LoopEndsForAReason'
  <2>1. UNCHANGED <<nextExpected, delivered, outcome>>
    BY <1>4, WorkerFrame
  <2>2. consumer' = consumer \/ (consumer = "asleep" /\ consumer' = "looking")
    BY <1>4
    DEF WorkerStep, WorkerOnly, WorkerAndConsumer, TakeRaw, QueueEmpty, QueueDisconnected,
        IdleWorkerLeaves, IdleWorkerPolls, DropRaw, StartDecode, DecodeBevy,
        DecodeBevyFails, Deposit, DepositRefused, WorkerExit, NotifyFilled, consumerVars
  <2>3. QED BY <1>2, <2>1, <2>2
<1>5. CASE Deliver
  <2>1. /\ consumer = "delivering" /\ consumer' = "publish" /\ AfterBevy.status = "reading"
        /\ delivered' = AfterBevy.at /\ nextExpected' = nextExpected + 1 /\ outcome' = outcome
    BY <1>5 DEF Deliver, ConsumerAt
  <2>2. /\ nextExpected + 1 \in 0..BevyCount
        /\ Bevywise(stored)[nextExpected + 1] = AfterBevy /\ AfterBevy \in Progress
        /\ AfterBevy.at <= SerialBytes(stored)
    BY <2>1, DeliveryFollows
  <2>3. AfterBevy = Started(AfterBevy.at) /\ AfterBevy.at \in 0..Size
    BY <2>1, <2>2 DEF Started, Progress
  <2>4. DeliveredInOrder'
    BY <1>0, <2>1, <2>2, <2>3 DEF DeliveredInOrder
  <2>5. QED BY <2>1, <2>4 DEF LoopEndsForAReason, Looping, Leaving
<1>6. CASE DeliverRefused
  <2>1. /\ consumer = "delivering" /\ consumer' = "closing" /\ AfterBevy.status = "refused"
        /\ delivered' = AfterBevy.at /\ nextExpected' = nextExpected /\ outcome' = "refused"
    BY <1>6 DEF DeliverRefused, ConsumerAt, windowVars
  <2>2. /\ SerialOutcome(stored) = "refused" /\ AfterBevy \in Progress
        /\ AfterBevy.at <= SerialBytes(stored)
    BY <2>1, DeliveryFollows
  <2>3. AfterBevy.at \in 0..Size
    BY <2>2 DEF Progress
  <2>4. QED
    BY <1>0, <2>1, <2>2, <2>3 DEF DeliveredInOrder, LoopEndsForAReason, Looping, Leaving
<1>7. CASE SinkFails
  BY <1>0, <1>7
  DEF SinkFails, ConsumerAt, windowVars, DeliveredInOrder, LoopEndsForAReason, Looping, Leaving
<1>8. CASE GiveUp
  <2>1. /\ consumer = "looking" /\ consumer' = "closing" /\ nextExpected \notin ready
        /\ FailureSet \/ liveWorkers = 0
        /\ UNCHANGED <<nextExpected, delivered, outcome>>
    BY <1>8 DEF GiveUp, ConsumerAt
  <2>2. outcome = "reading" /\ LoopGoesOn
    BY <2>1 DEF LoopEndsForAReason, Looping
  <2>3. FailureSet
    BY <2>1, <2>2, NobodyLeftNoneMissing DEF LoopGoesOn
  <2>4. QED
    BY <1>0, <1>1, <2>1, <2>2, <2>3 DEF DeliveredInOrder, LoopEndsForAReason, Looping, Leaving
<1>9. CASE Return
  <2>1. /\ consumer' = "returned" /\ outcome' = Result /\ UNCHANGED <<nextExpected, delivered>>
        /\ consumer = "joining"
    BY <1>9 DEF Return, ConsumerAt
  <2>2. Result # "reading"
    BY DEF Result
  <2>3. QED
    BY <1>0, <2>1, <2>2 DEF DeliveredInOrder, LoopEndsForAReason, Looping, Leaving
<1>10. CASE \/ Publish \/ LeaveLoop \/ TakeReady \/ DecideToWait \/ Wait \/ Close \/ DrainOne
            \/ DrainEnds \/ SpuriousWake
  <2>1. UNCHANGED <<nextExpected, delivered, outcome>>
    BY <1>10
    DEF Publish, LeaveLoop, TakeReady, DecideToWait, Wait, Close, DrainOne, DrainEnds,
        SpuriousWake, ConsumerOnly
  <2>2. \/ consumer = "publish" /\ consumer' = "looking" /\ LoopGoesOn
        \/ consumer = "publish" /\ consumer' = "closing" /\ ~LoopGoesOn
        \/ consumer \in Looping \ {"publish"} /\ consumer' \in Looping \ {"publish"}
        \/ consumer \in Leaving /\ consumer' \in Leaving
    BY <1>10
    DEF Publish, LeaveLoop, TakeReady, DecideToWait, Wait, Close, DrainOne, DrainEnds,
        SpuriousWake, ConsumerAt, Looping, Leaving
  <2>3. DeliveredInOrder'
    BY <1>0, <2>1 DEF DeliveredInOrder
  <2>4. QED
    BY <1>0, <1>1, <2>1, <2>2, <2>3 DEF LoopEndsForAReason, LoopGoesOn, Looping, Leaving
<1>11. CASE UNCHANGED vars
  BY <1>2, <1>11 DEF vars, consumerVars
<1>12. QED
  BY <1>3, <1>4, <1>5, <1>6, <1>7, <1>8, <1>9, <1>10, <1>11 DEF Next, ConsumerStep, Returned

\* The call starts with nothing read, nothing delivered and nothing wrong.
LEMMA SinkInitially ==
  PipelineInit => /\ BeviesAreRead /\ BeviesAreDecoded /\ NothingLeft
                  /\ DeliveredInOrder /\ LoopEndsForAReason
<1> SUFFICES ASSUME PipelineInit
             PROVE  /\ BeviesAreRead /\ BeviesAreDecoded /\ NothingLeft
                    /\ DeliveredInOrder /\ LoopEndsForAReason
  OBVIOUS
<1>1. /\ stored \in StoredStreams /\ stored \in Streams /\ nextExpected = 0 /\ delivered = 0
      /\ BevyCount \in Nat /\ Size \in Nat /\ consumer = "publish" /\ outcome = "reading"
  BY PipelineAssumption, BevyCountType, StreamAssumption DEF PipelineInit, StoredStreams
<1>2. Bevywise(stored)[0] = Started(0)
  BY <1>1, StreamIsReadBevywise DEF IsBevywise
<1>3. SerialBytes(stored) \in 0..Size
  <2>1. 0 \in 0..BevyCount
    BY <1>1
  <2>2. QED BY <1>1, <2>1, SerialEnd
<1>4. DeliveredInOrder /\ LoopEndsForAReason
  BY <1>1, <1>2, <1>3 DEF DeliveredInOrder, LoopEndsForAReason, Looping, Leaving
<1>5. BeviesAreRead /\ BeviesAreDecoded /\ NothingLeft
  BY DEF PipelineInit, BeviesAreRead, BeviesAreDecoded, NothingLeft, HasRaw
<1>6. QED BY <1>4, <1>5

SinkInv ==
  /\ Types /\ WaitInv /\ ShutInv /\ HandsHoldBevies /\ EveryClaimedBevyHasOneHolder
  /\ BlameIsReal /\ FailedIsRecorded /\ BeviesAreRead /\ BeviesAreDecoded /\ NothingLeft
  /\ DeliveredInOrder /\ LoopEndsForAReason

\* Together they hold of every state.
LEMMA SinkInvariant == PipelineSpec => []SinkInv
<1>1. PipelineInit => SinkInv
  BY TypesInitially, WaitInitially, ShutInitially, HandsInitially, HeldInitially, SinkInitially
  DEF SinkInv, EveryClaimedBevyHasOneHolder, OneHolderEach, PipelineInit, BlameIsReal,
      FailedIsRecorded, FailureSet
<1>2. SinkInv /\ [Next]_vars => SinkInv'
  <2> SUFFICES ASSUME SinkInv, [Next]_vars PROVE SinkInv'
    OBVIOUS
  <2> USE DEF SinkInv
  <2>1. Types' /\ WaitInv' /\ ShutInv'
    BY TypesStep, WaitStep, ShutStep DEF WaitInv
  <2>2. HandsHoldBevies' /\ EveryClaimedBevyHasOneHolder'
    BY HandsStep, HeldStep DEF ShutInv
  <2>3. BlameIsReal' /\ FailedIsRecorded'
    BY BlameStep
  <2>4. BeviesAreRead' /\ BeviesAreDecoded' /\ NothingLeft'
    BY ReadStep, DecodedStep, NothingLeftStep
  <2>5. DeliveredInOrder' /\ LoopEndsForAReason'
    BY ConsumeStep
  <2>6. QED BY <2>1, <2>2, <2>3, <2>4, <2>5
<1>3. QED BY <1>1, <1>2, PTL DEF PipelineSpec

-----------------------------------------------------------------------------
(* The promise to the caller *)

\* The promise's own copy of the recursion is the recursion.
LEMMA PromiseReadsTheSame ==
  /\ Promise!BevyNumbers = BevyNumbers /\ Promise!Bevies = Bevies
  /\ \A s : /\ Promise!SerialBytes(s) = SerialBytes(s)
           /\ Promise!SerialOutcome(s) = SerialOutcome(s)
           /\ Promise!HasBadSpare(s) = HasBadSpare(s)
<1>1. \A s : Promise!SerialAfter(s) = SerialAfter(s)
  BY DEF Promise!SerialAfter, Promise!SerialBevy, Promise!DeliverBevy, Promise!DeliverChunk,
         Promise!Truncated, Promise!ShortAt, Promise!Undecodable, Promise!IndexAccepted,
         Promise!BevyCount, Promise!BevyBytes, Promise!FoldLeft, Promise!MapThenFoldSet,
         Promise!Max, SerialAfter, SerialBevy, DeliverBevy, DeliverChunk, Truncated, ShortAt,
         Undecodable, IndexAccepted, BevyCount, BevyBytes, FoldLeft, MapThenFoldSet, Max
<1>2. /\ Promise!BevyNumbers = BevyNumbers /\ Promise!Bevies = Bevies
      /\ \A s : Promise!HasBadSpare(s) = HasBadSpare(s)
  BY DEF Promise!BevyNumbers, Promise!Bevies, Promise!BevyCount, Promise!BevyBytes,
         Promise!Chunks, Promise!Undecodable, Promise!HasBadSpare, Promise!ChunkCount,
         BevyNumbers, Bevies, BevyCount, BevyBytes, Chunks, Undecodable, HasBadSpare, ChunkCount
<1>3. QED
  BY <1>1, <1>2 DEF Promise!SerialBytes, Promise!SerialOutcome, SerialBytes, SerialOutcome

\* A call that returns success has delivered a sound stream whole, and one
\* that returns an error has one to return.
LEMMA ReturnIsKept ==
  ASSUME SinkInv, consumer = "joining"
  PROVE  /\ Result = "ok" => delivered = Size /\ SerialOutcome(stored) = "ok"
         /\ Result # "ok" =>
              \/ SinkMayFail \/ FaultyHandles # {}
              \/ SerialOutcome(stored) # "ok" \/ HasBadSpare(stored)
<1>1. /\ stored \in StoredStreams /\ nextExpected \in 0..BevyCount /\ delivered \in 0..Size
      /\ BevyCount \in Nat /\ Size \in Nat
      /\ outcome = "reading" => Bevywise(stored)[nextExpected] = Started(delivered)
      /\ failure \in Nat /\ failure <= BevyCount
  BY PipelineAssumption, BevyCountType, StreamAssumption
  DEF SinkInv, DeliveredInOrder, StoredStreams, HandsHoldBevies
<1>2. \/ outcome = "reading" /\ (~LoopGoesOn \/ FailureSet)
      \/ outcome = "refused" /\ SerialOutcome(stored) = "refused"
      \/ outcome = "sink" /\ SinkMayFail
  BY DEF SinkInv, LoopEndsForAReason, Leaving
<1>3. ASSUME FailureSet
      PROVE  FaultyHandles # {} \/ SerialOutcome(stored) # "ok" \/ HasBadSpare(stored)
  <2>1. failure \in BevyNumbers
    BY <1>1, <1>3 DEF FailureSet, NoFailure, BevyNumbers
  <2>2. Bad(failure) \/ FaultyHandles # {}
    BY <1>3 DEF SinkInv, BlameIsReal
  <2>3. QED BY <1>1, <2>1, <2>2, SoundReadOpensEveryBevy DEF Bad
<1>4. ASSUME outcome = "reading", nextExpected = BevyCount \/ delivered = Size
      PROVE  SerialOutcome(stored) = IF delivered = Size THEN "ok" ELSE "short"
  <2>1. Bevywise(stored)[nextExpected].status = "reading" /\ Bevywise(stored)[nextExpected].at = delivered
    BY <1>1, <1>4 DEF Started
  <2>2. QED BY <1>1, <1>4, <2>1, SerialEnd
<1>5. CASE outcome # "reading"
  BY <1>2, <1>5 DEF Result
<1>6. CASE outcome = "reading" /\ delivered = Size
  BY <1>1, <1>3, <1>4, <1>6 DEF Result
<1>7. CASE outcome = "reading" /\ delivered # Size
  <2>1. Result # "ok"
    BY <1>7 DEF Result
  <2>2. FailureSet \/ nextExpected = BevyCount
    BY <1>1, <1>2, <1>7 DEF LoopGoesOn
  <2>3. QED BY <1>3, <1>4, <1>7, <2>1, <2>2
<1>8. QED BY <1>5, <1>6, <1>7

\* The parallel read implements what a whole-stream read promises, with any
\* number of threads, any queue and any window: the sink receives a growing
\* prefix of what a serial read delivers, success means a sound stream
\* delivered whole, an error that the stream, a handle or the sink has one.
THEOREM PipelineKeepsThePromise == PipelineSpec => ImplementsStreamRead
<1>1. PipelineInit => Promise!ReadInit
  BY PipelineAssumption, PromiseReadsTheSame DEF PipelineInit, Promise!ReadInit, AbstractOutcome
<1>2. SinkInv /\ [Next]_vars => [Promise!ReadNext]_(Promise!readVars)
  <2> SUFFICES ASSUME SinkInv, [Next]_vars
               PROVE  Promise!ReadNext \/ UNCHANGED Promise!readVars
    OBVIOUS
  <2>0. stored' = stored
    BY StreamStays
  <2>1. ASSUME delivered' = delivered, consumer # "returned", consumer' # "returned"
        PROVE  UNCHANGED Promise!readVars
    BY <2>0, <2>1 DEF Promise!readVars, AbstractOutcome
  <2>2. ASSUME NEW r \in Readers, ReaderStep(r) PROVE UNCHANGED Promise!readVars
    BY <2>0, <2>2, ReaderFrame DEF consumerVars, Promise!readVars, AbstractOutcome
  <2>3. ASSUME NEW w \in Workers, WorkerStep(w) PROVE UNCHANGED Promise!readVars
    <3>1. delivered' = delivered /\ outcome' = outcome
      BY <2>3, WorkerFrame
    <3>2. consumer' = consumer \/ (consumer = "asleep" /\ consumer' = "looking")
      BY <2>3
      DEF WorkerStep, WorkerOnly, WorkerAndConsumer, TakeRaw, QueueEmpty, QueueDisconnected,
          IdleWorkerLeaves, IdleWorkerPolls, DropRaw, StartDecode, DecodeBevy,
          DecodeBevyFails, Deposit, DepositRefused, WorkerExit, NotifyFilled, consumerVars
    <3>3. QED BY <2>0, <3>1, <3>2 DEF Promise!readVars, AbstractOutcome
  <2>4. ASSUME Deliver \/ DeliverRefused PROVE Promise!ReadNext \/ UNCHANGED Promise!readVars
    <3>1. /\ consumer = "delivering" /\ consumer' # "returned" /\ delivered' = AfterBevy.at
      BY <2>4 DEF Deliver, DeliverRefused, ConsumerAt
    <3>2. /\ AfterBevy.at >= delivered /\ AfterBevy.at <= SerialBytes(stored)
          /\ AfterBevy \in Progress
      BY <3>1, DeliveryFollows DEF SinkInv
    <3>3. SerialBytes(stored) \in 0..Size
      <4>1. stored \in StoredStreams /\ 0 \in 0..BevyCount
        BY PipelineAssumption, BevyCountType DEF SinkInv, DeliveredInOrder, StoredStreams
      <4>2. QED BY <4>1, SerialEnd
    <3>4. delivered' = delivered \/ delivered' \in (delivered + 1)..SerialBytes(stored)
      BY <3>1, <3>2, <3>3, StreamAssumption DEF SinkInv, DeliveredInOrder, Progress
    <3>5. QED
      BY <2>0, <2>1, <3>1, <3>4, PromiseReadsTheSame
      DEF Promise!ReadNext, Promise!DeliverMore, AbstractOutcome
  <2>5. ASSUME Return PROVE Promise!ReadNext
    <3>1. /\ consumer = "joining" /\ consumer' = "returned" /\ outcome' = Result
          /\ delivered' = delivered
      BY <2>5 DEF Return, ConsumerAt
    <3>2. /\ Result = "ok" => delivered = Size /\ SerialOutcome(stored) = "ok"
          /\ Result # "ok" =>
               \/ SinkMayFail \/ FaultyHandles # {}
               \/ SerialOutcome(stored) # "ok" \/ HasBadSpare(stored)
      BY <3>1, ReturnIsKept
    <3>3. CASE Result = "ok"
      BY <2>0, <3>1, <3>2, <3>3, PromiseReadsTheSame
      DEF Promise!ReadNext, Promise!ReturnOk, AbstractOutcome
    <3>4. CASE Result # "ok"
      BY <2>0, <3>1, <3>2, <3>4, PromiseReadsTheSame
      DEF Promise!ReadNext, Promise!ReturnError, AbstractOutcome
    <3>5. QED BY <3>3, <3>4
  <2>6. ASSUME \/ Publish \/ LeaveLoop \/ TakeReady \/ DecideToWait \/ Wait \/ Close \/ DrainOne
               \/ DrainEnds \/ SpuriousWake \/ GiveUp \/ SinkFails
        PROVE  UNCHANGED Promise!readVars
    <3>1. delivered' = delivered /\ consumer # "returned" /\ consumer' # "returned"
      BY <2>6
      DEF Publish, LeaveLoop, TakeReady, DecideToWait, Wait, Close, DrainOne, DrainEnds,
          SpuriousWake, GiveUp, SinkFails, ConsumerOnly, ConsumerAt
    <3>2. QED BY <2>1, <3>1
  <2>7. CASE UNCHANGED vars
    BY <2>7 DEF vars, consumerVars, Promise!readVars, AbstractOutcome
  <2>8. QED BY <2>2, <2>3, <2>4, <2>5, <2>6, <2>7 DEF Next, ConsumerStep, Returned
<1>3. QED
  BY <1>1, <1>2, SinkInvariant, PTL DEF PipelineSpec, ImplementsStreamRead, Promise!ReadSpec
=============================================================================
