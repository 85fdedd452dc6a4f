---------------------------- MODULE BevyPipeline ----------------------------
(***************************************************************************)
(* read_all_parallel in src/src/parallel.rs: reader threads claim bevies   *)
(* from a shared cursor and read them, worker threads take them from a     *)
(* bounded queue, decode them and put them in a reorder window, and the    *)
(* calling thread delivers them to the sink in stream order.  One step is  *)
(* one critical section or one atomic access; a mutex held across several  *)
(* steps shows in the pc of its holder.                                    *)
(***************************************************************************)
EXTENDS StreamContents, FiniteSets

CONSTANTS
  Initial,       \* ThreadPlan::readers
  Ceiling,       \* ThreadPlan::reader_ceiling, the reader threads spawned
  Warmup, Rates, \* the governor's, see ReaderGovernor
  Workers,       \* the worker threads of the plan
  QueueDepth,    \* capacity of the raw queue
  Lookahead,     \* how far past "wanted" a reader may claim
  Streams,       \* the stored streams a run chooses from
  FaultyHandles, \* readers whose open_reader may fail
  SinkMayFail    \* whether the caller's sink may return an error

Readers == 0..(Ceiling - 1)

ASSUME PipelineAssumption ==
  /\ Initial \in Nat \ {0} /\ Ceiling \in Nat /\ Initial <= Ceiling
  /\ Warmup \in Nat \ {0} /\ Rates \subseteq Nat \ {0}
  /\ IsFiniteSet(Workers) /\ Workers # {}
  /\ QueueDepth \in Nat \ {0} /\ Lookahead \in Nat \ {0}
  /\ Streams \subseteq [BevyNumbers -> Bevies]
  /\ FaultyHandles \subseteq Readers /\ SinkMayFail \in BOOLEAN

VARIABLES
  admitted, bevies, previous, settled,  \* the governor
  stored,       \* the stream being read
  nextBevy,     \* the shared cursor, an AtomicU64
  failure,      \* FirstError: the lowest bevy recorded, NoFailure before one
  reader,       \* where each reader thread is
  claimed,      \* the bevy in a reader's hands
  queue,        \* raw bevies between readers and workers
  worker,       \* where each worker thread is
  taken,        \* the bevy in a worker's hands
  ready,        \* Window: decoded bevies awaiting their turn
  wanted,       \* Window: the bevy the consumer waits for
  closed,       \* Window: set when the consumer needs no more
  liveWorkers,  \* Window: workers that have not left
  consumer,     \* where the calling thread is
  nextExpected, \* bevies consumed
  delivered,    \* bytes the sink has accepted
  outcome       \* how the loop left, then how the call returned

governorVars == <<admitted, bevies, previous, settled>>
windowVars == <<ready, wanted, closed, liveWorkers>>
readerVars == <<reader, claimed>>
workerVars == <<worker, taken>>
consumerVars == <<consumer, nextExpected, delivered, outcome>>
vars == <<governorVars, stored, nextBevy, failure, readerVars, queue,
          workerVars, windowVars, consumerVars>>

Governor == INSTANCE ReaderGovernor WITH initial <- Initial, ceiling <- Ceiling

NoFailure == BevyCount
FailureSet == failure # NoFailure

\* FirstError::record keeps the lowest sequence number.
Record(seq) == failure' = IF seq < failure THEN seq ELSE failure

PipelineInit ==
  /\ Governor!GovernorInit
  /\ stored \in Streams
  /\ nextBevy = 0 /\ failure = NoFailure
  /\ reader = [r \in Readers |-> "parked"] /\ claimed = [r \in Readers |-> 0]
  /\ queue = <<>>
  /\ worker = [w \in Workers |-> "polling"] /\ taken = [w \in Workers |-> 0]
  /\ ready = {} /\ wanted = 0 /\ closed = FALSE
  /\ liveWorkers = Cardinality(Workers)
  /\ consumer = "publish" /\ nextExpected = 0 /\ delivered = 0
  /\ outcome = "reading"

\* The consumer keeps the window's mutex from the moment it looks until it
\* takes a bevy, leaves, or waits.
WindowFree == consumer \notin {"looking", "committed"}

\* What every thread asks before it goes on.  Both flags only ever rise, so
\* reading one after the other is reading them together at the first.
StopSeen == FailureSet \/ (WindowFree /\ closed)
GoOnSeen == ~FailureSet /\ WindowFree /\ ~closed

-----------------------------------------------------------------------------
(* Readers: read_bevies *)

ReaderAt(r, from, to) == reader[r] = from /\ reader' = [reader EXCEPT ![r] = to]
ReaderOnly == UNCHANGED <<governorVars, stored, queue, workerVars, windowVars, consumerVars>>

\* A reader the governor has not admitted waits before it pays for a handle.
ParkedReaderLeaves(r) ==
  /\ ReaderAt(r, "parked", "done") /\ ~Governor!Admits(r) /\ StopSeen
  /\ ReaderOnly /\ UNCHANGED <<claimed, nextBevy, failure>>

ReaderAdmitted(r) ==
  /\ ReaderAt(r, "parked", "opening") /\ Governor!Admits(r)
  /\ ReaderOnly /\ UNCHANGED <<claimed, nextBevy, failure>>

OpenReader(r) ==
  /\ ReaderAt(r, "opening", "top")
  /\ ReaderOnly /\ UNCHANGED <<claimed, nextBevy, failure>>

\* An open that fails is recorded against bevy 0, the reader having none yet.
OpenReaderFails(r) ==
  /\ r \in FaultyHandles
  /\ ReaderAt(r, "opening", "done")
  /\ Record(0)
  /\ ReaderOnly /\ UNCHANGED <<claimed, nextBevy>>

ReaderLeaves(r) ==
  /\ ReaderAt(r, "top", "done") /\ StopSeen
  /\ ReaderOnly /\ UNCHANGED <<claimed, nextBevy, failure>>

ReaderGoesOn(r) ==
  /\ ReaderAt(r, "top", "standing") /\ GoOnSeen
  /\ ReaderOnly /\ UNCHANGED <<claimed, nextBevy, failure>>

\* A reader beyond the admitted count sleeps and looks again.
StandDown(r) ==
  /\ ReaderAt(r, "standing", "top") /\ ~Governor!Admits(r)
  /\ ReaderOnly /\ UNCHANGED <<claimed, nextBevy, failure>>

StandUp(r) ==
  /\ ReaderAt(r, "standing", "gate") /\ Governor!Admits(r)
  /\ ReaderOnly /\ UNCHANGED <<claimed, nextBevy, failure>>

\* wanted is read under the lock and the cursor after it; both only grow, so a
\* cursor found close enough to an older wanted is close enough to this one.
PassGate(r) ==
  /\ WindowFree /\ nextBevy < wanted + Lookahead
  /\ ReaderAt(r, "gate", "claiming")
  /\ ReaderOnly /\ UNCHANGED <<claimed, nextBevy, failure>>

HeldAtGate(r) ==
  /\ WindowFree /\ nextBevy >= wanted + Lookahead
  /\ ReaderAt(r, "gate", "top")
  /\ ReaderOnly /\ UNCHANGED <<claimed, nextBevy, failure>>

\* fetch_add, whether or not a bevy of that number exists.
Claim(r) ==
  /\ reader[r] = "claiming"
  /\ nextBevy' = nextBevy + 1
  /\ reader' = [reader EXCEPT ![r] = IF nextBevy < BevyCount THEN "reading" ELSE "done"]
  /\ claimed' = [claimed EXCEPT ![r] = nextBevy]
  /\ ReaderOnly /\ UNCHANGED failure

\* Index and member read: the governor hears of it before the send.
ReadBevy(r) ==
  /\ ReaderAt(r, "reading", "sending")
  /\ stored[claimed[r]].readable
  /\ Governor!Observed
  /\ UNCHANGED <<stored, nextBevy, failure, claimed, queue, workerVars, windowVars,
                 consumerVars>>

\* Nobody is notified: the workers and the consumer find out by polling.
ReadBevyFails(r) ==
  /\ ReaderAt(r, "reading", "done")
  /\ ~stored[claimed[r]].readable
  /\ Record(claimed[r])
  /\ ReaderOnly /\ UNCHANGED <<claimed, nextBevy>>

\* Mutant: the channel holds one bevy more than was asked for.
SendPastDepth(r) ==
  /\ Len(queue) <= QueueDepth
  /\ ReaderAt(r, "sending", "top")
  /\ queue' = Append(queue, claimed[r])
  /\ UNCHANGED <<governorVars, stored, nextBevy, failure, claimed, workerVars,
                 windowVars, consumerVars>>

\* A full queue blocks the send.
Send(r) ==
  /\ Len(queue) < QueueDepth
  /\ ReaderAt(r, "sending", "top")
  /\ queue' = Append(queue, claimed[r])
  /\ UNCHANGED <<governorVars, stored, nextBevy, failure, claimed, workerVars,
                 windowVars, consumerVars>>

ReaderStep(r) ==
  \/ ParkedReaderLeaves(r) \/ ReaderAdmitted(r) \/ OpenReader(r) \/ OpenReaderFails(r)
  \/ ReaderLeaves(r) \/ ReaderGoesOn(r) \/ StandDown(r) \/ StandUp(r)
  \/ PassGate(r) \/ HeldAtGate(r) \/ Claim(r) \/ ReadBevy(r) \/ ReadBevyFails(r)
  \/ Send(r)

-----------------------------------------------------------------------------
(* Workers: decode_bevies *)

WorkerAt(w, from, to) == worker[w] = from /\ worker' = [worker EXCEPT ![w] = to]
WorkerOnly == UNCHANGED <<governorVars, stored, nextBevy, readerVars, consumerVars>>
WorkerAndConsumer ==
  UNCHANGED <<governorVars, stored, nextBevy, readerVars, nextExpected, delivered, outcome>>

\* filled.notify_all: a consumer that waits takes the mutex back and looks.
NotifyFilled == consumer' = IF consumer = "asleep" THEN "looking" ELSE consumer

SendersGone == \A r \in Readers : reader[r] = "done"

\* Mutant: the worker looks at the head of the queue and leaves it there.
PeekRaw(w) ==
  /\ queue # <<>>
  /\ WorkerAt(w, "polling", "took")
  /\ taken' = [taken EXCEPT ![w] = Head(queue)]
  /\ WorkerOnly /\ UNCHANGED <<failure, queue, windowVars>>

TakeRaw(w) ==
  /\ queue # <<>>
  /\ WorkerAt(w, "polling", "took")
  /\ taken' = [taken EXCEPT ![w] = Head(queue)]
  /\ queue' = Tail(queue)
  /\ WorkerOnly /\ UNCHANGED <<failure, windowVars>>

QueueEmpty(w) ==
  /\ queue = <<>> /\ ~SendersGone
  /\ WorkerAt(w, "polling", "idle")
  /\ WorkerOnly /\ UNCHANGED <<failure, queue, taken, windowVars>>

QueueDisconnected(w) ==
  /\ queue = <<>> /\ SendersGone
  /\ WorkerAt(w, "polling", "leaving")
  /\ WorkerOnly /\ UNCHANGED <<failure, queue, taken, windowVars>>

IdleWorkerLeaves(w) ==
  /\ WorkerAt(w, "idle", "leaving") /\ StopSeen
  /\ WorkerOnly /\ UNCHANGED <<failure, queue, taken, windowVars>>

IdleWorkerPolls(w) ==
  /\ WorkerAt(w, "idle", "polling") /\ GoOnSeen
  /\ WorkerOnly /\ UNCHANGED <<failure, queue, taken, windowVars>>

\* A bevy in hand is dropped once any bevy has failed, decoded or not.
DropRaw(w) ==
  /\ FailureSet
  /\ WorkerAt(w, "took", "leaving")
  /\ WorkerOnly /\ UNCHANGED <<failure, queue, taken, windowVars>>

StartDecode(w) ==
  /\ ~FailureSet
  /\ WorkerAt(w, "took", "decoding")
  /\ WorkerOnly /\ UNCHANGED <<failure, queue, taken, windowVars>>

DecodeBevy(w) ==
  /\ WorkerAt(w, "decoding", "depositing")
  /\ Decodes(stored[taken[w]])
  /\ WorkerOnly /\ UNCHANGED <<failure, queue, taken, windowVars>>

\* Mutant: a failure is put down to the bevy the consumer waits for.
DecodeBevyFailsWanted(w) ==
  /\ WorkerAt(w, "decoding", "leaving")
  /\ ~Decodes(stored[taken[w]])
  /\ Record(wanted)
  /\ NotifyFilled
  /\ WorkerAndConsumer /\ UNCHANGED <<queue, taken, windowVars>>

\* The failure is notified without the mutex: a consumer between its look and
\* its wait misses it, and is woken by this worker's exit.
DecodeBevyFails(w) ==
  /\ WorkerAt(w, "decoding", "leaving")
  /\ ~Decodes(stored[taken[w]])
  /\ Record(taken[w])
  /\ NotifyFilled
  /\ WorkerAndConsumer /\ UNCHANGED <<queue, taken, windowVars>>

\* Never blocks on a full window: the reader gate is what bounds it.
Deposit(w) ==
  /\ WindowFree /\ ~closed /\ ~FailureSet
  /\ WorkerAt(w, "depositing", "polling")
  /\ ready' = ready \cup {taken[w]}
  /\ NotifyFilled
  /\ WorkerAndConsumer /\ UNCHANGED <<failure, queue, taken, wanted, closed, liveWorkers>>

DepositRefused(w) ==
  /\ WindowFree /\ (closed \/ FailureSet)
  /\ WorkerAt(w, "depositing", "leaving")
  /\ WorkerOnly /\ UNCHANGED <<failure, queue, taken, windowVars>>

\* Mutant: a worker leaves without a word to the consumer.
WorkerExitSilent(w) ==
  /\ WindowFree
  /\ WorkerAt(w, "leaving", "done")
  /\ liveWorkers' = liveWorkers - 1
  /\ WorkerOnly /\ UNCHANGED <<failure, queue, taken, ready, wanted, closed>>

\* WorkerExit::drop, on every way out of the loop.
WorkerExit(w) ==
  /\ WindowFree
  /\ WorkerAt(w, "leaving", "done")
  /\ liveWorkers' = liveWorkers - 1
  /\ NotifyFilled
  /\ WorkerAndConsumer /\ UNCHANGED <<failure, queue, taken, ready, wanted, closed>>

WorkerStep(w) ==
  \/ TakeRaw(w) \/ QueueEmpty(w) \/ QueueDisconnected(w)
  \/ IdleWorkerLeaves(w) \/ IdleWorkerPolls(w) \/ DropRaw(w) \/ StartDecode(w)
  \/ DecodeBevy(w) \/ DecodeBevyFails(w) \/ Deposit(w) \/ DepositRefused(w)
  \/ WorkerExit(w)

-----------------------------------------------------------------------------
(* The calling thread: consume_in_order, then the shutdown *)

ConsumerAt(from, to) == consumer = from /\ consumer' = to
ConsumerOnly == UNCHANGED <<governorVars, stored, nextBevy, failure, readerVars, workerVars>>
LoopGoesOn == nextExpected < BevyCount /\ delivered < Size

\* Mutant: what the consumer waits for is never published.
PublishNothing ==
  /\ ConsumerAt("publish", "looking") /\ LoopGoesOn
  /\ ConsumerOnly /\ UNCHANGED <<queue, windowVars, nextExpected, delivered, outcome>>

\* The mutex is taken and what this thread waits for is published.
Publish ==
  /\ ConsumerAt("publish", "looking") /\ LoopGoesOn
  /\ wanted' = nextExpected
  /\ ConsumerOnly
  /\ UNCHANGED <<queue, ready, closed, liveWorkers, nextExpected, delivered, outcome>>

LeaveLoop ==
  /\ ConsumerAt("publish", "closing") /\ ~LoopGoesOn
  /\ ConsumerOnly /\ UNCHANGED <<queue, windowVars, nextExpected, delivered, outcome>>

TakeReady ==
  /\ nextExpected \in ready
  /\ ConsumerAt("looking", "delivering")
  /\ ready' = ready \ {nextExpected}
  /\ ConsumerOnly
  /\ UNCHANGED <<queue, wanted, closed, liveWorkers, nextExpected, delivered, outcome>>

\* Nothing to wait for: a bevy failed, or no worker is left to produce one.
GiveUp ==
  /\ nextExpected \notin ready
  /\ FailureSet \/ liveWorkers = 0
  /\ ConsumerAt("looking", "closing")
  /\ ConsumerOnly /\ UNCHANGED <<queue, windowVars, nextExpected, delivered, outcome>>

\* Both flags have been read as clear, and the wait has not begun.
DecideToWait ==
  /\ nextExpected \notin ready
  /\ ~FailureSet /\ liveWorkers # 0
  /\ ConsumerAt("looking", "committed")
  /\ ConsumerOnly /\ UNCHANGED <<queue, windowVars, nextExpected, delivered, outcome>>

Wait ==
  /\ ConsumerAt("committed", "asleep")
  /\ ConsumerOnly /\ UNCHANGED <<queue, windowVars, nextExpected, delivered, outcome>>

\* Condvar::wait may return unasked.
SpuriousWake ==
  /\ ConsumerAt("asleep", "looking")
  /\ ConsumerOnly /\ UNCHANGED <<queue, windowVars, nextExpected, delivered, outcome>>

\* The chunk loop of one bevy, on this thread alone.
AfterBevy == DeliverBevy(stored[nextExpected], delivered)

Deliver ==
  /\ ConsumerAt("delivering", "publish")
  /\ AfterBevy.status = "reading"
  /\ delivered' = AfterBevy.at
  /\ nextExpected' = nextExpected + 1
  /\ ConsumerOnly /\ UNCHANGED <<queue, windowVars, outcome>>

DeliverRefused ==
  /\ ConsumerAt("delivering", "closing")
  /\ AfterBevy.status = "refused"
  /\ delivered' = AfterBevy.at
  /\ outcome' = "refused"
  /\ ConsumerOnly /\ UNCHANGED <<queue, windowVars, nextExpected>>

\* The sink may fail on any chunk of the bevy; what it took before is lost to
\* nobody, since the error alone is returned.
SinkFails ==
  /\ SinkMayFail
  /\ ConsumerAt("delivering", "closing")
  /\ outcome' = "sink"
  /\ ConsumerOnly /\ UNCHANGED <<queue, windowVars, nextExpected, delivered>>

Close ==
  /\ ConsumerAt("closing", "draining")
  /\ closed' = TRUE /\ ready' = {}
  /\ ConsumerOnly
  /\ UNCHANGED <<queue, wanted, liveWorkers, nextExpected, delivered, outcome>>

DrainOne ==
  /\ queue # <<>>
  /\ ConsumerAt("draining", "draining")
  /\ queue' = Tail(queue)
  /\ ConsumerOnly /\ UNCHANGED <<windowVars, nextExpected, delivered, outcome>>

\* Mutant: nothing is drained before the join.
JoinUndrained ==
  /\ ConsumerAt("draining", "joining")
  /\ ConsumerOnly /\ UNCHANGED <<queue, windowVars, nextExpected, delivered, outcome>>

\* The drain ends at the first empty look, and is not taken up again.
DrainEnds ==
  /\ queue = <<>>
  /\ ConsumerAt("draining", "joining")
  /\ ConsumerOnly /\ UNCHANGED <<queue, windowVars, nextExpected, delivered, outcome>>

AllJoined == SendersGone /\ \A w \in Workers : worker[w] = "done"

\* What the call returns once the scope has joined every thread.
Result ==
  IF outcome # "reading" THEN outcome
  ELSE IF FailureSet /\ (failure < nextExpected \/ delivered < Size) THEN "failed"
  ELSE IF delivered # Size THEN "short" ELSE "ok"

\* Mutant: nothing ties the end of the loop to the declared size.
ReturnUnchecked ==
  /\ AllJoined
  /\ ConsumerAt("joining", "returned")
  /\ outcome' = IF Result = "short" THEN "ok" ELSE Result
  /\ ConsumerOnly /\ UNCHANGED <<queue, windowVars, nextExpected, delivered>>

Return ==
  /\ AllJoined
  /\ ConsumerAt("joining", "returned")
  /\ outcome' = Result
  /\ ConsumerOnly /\ UNCHANGED <<queue, windowVars, nextExpected, delivered>>

\* Every step of the calling thread but the wake nobody asked for.
ConsumerStep ==
  \/ Publish \/ LeaveLoop \/ TakeReady \/ GiveUp \/ DecideToWait \/ Wait
  \/ Deliver \/ DeliverRefused \/ SinkFails
  \/ Close \/ DrainOne \/ DrainEnds \/ Return

Returned == consumer = "returned" /\ UNCHANGED vars

Next ==
  \/ \E r \in Readers : ReaderStep(r)
  \/ \E w \in Workers : WorkerStep(w)
  \/ ConsumerStep \/ SpuriousWake \/ Returned

(***************************************************************************)
(* The operating system runs every thread that can run: polls end after    *)
(* WORKER_POLL and reads and decodes end.  A reader or worker that keeps   *)
(* asking for the window's mutex gets it in the end, however often the     *)
(* consumer takes it in between, hence strong fairness for them.  Nobody   *)
(* promises a spurious wake.                                               *)
(***************************************************************************)
Fairness ==
  /\ \A r \in Readers : SF_vars(ReaderStep(r))
  /\ \A w \in Workers : SF_vars(WorkerStep(w))
  /\ WF_vars(ConsumerStep)

PipelineSpec == PipelineInit /\ [][Next]_vars /\ Fairness

-----------------------------------------------------------------------------
(* Properties *)

ReaderPcs == {"parked", "opening", "top", "standing", "gate", "claiming", "reading",
              "sending", "done"}
WorkerPcs == {"polling", "idle", "took", "decoding", "depositing", "leaving", "done"}
ConsumerPcs == {"publish", "looking", "committed", "asleep", "delivering", "closing",
                "draining", "joining", "returned"}

TypeOK ==
  /\ Governor!GovernorTypeOK
  /\ stored \in Streams
  /\ nextBevy \in 0..(BevyCount + Ceiling)
  /\ failure \in 0..NoFailure
  /\ reader \in [Readers -> ReaderPcs]
  /\ claimed \in [Readers -> 0..(BevyCount + Ceiling)]
  /\ queue \in Seq(BevyNumbers) /\ Len(queue) <= QueueDepth
  /\ worker \in [Workers -> WorkerPcs]
  /\ taken \in [Workers -> 0..BevyCount]
  /\ ready \subseteq BevyNumbers
  /\ wanted \in 0..BevyCount /\ closed \in BOOLEAN
  /\ liveWorkers \in 0..Cardinality(Workers)
  /\ consumer \in ConsumerPcs
  /\ nextExpected \in 0..BevyCount /\ delivered \in 0..Size
  /\ outcome \in {"reading", "ok", "failed", "refused", "short", "sink"}

\* Where a bevy can be between its claim and its delivery.
WithReader(b) == {r \in Readers : reader[r] \in {"reading", "sending"} /\ claimed[r] = b}
InQueue(b) == {i \in 1..Len(queue) : queue[i] = b}
WithWorker(b) ==
  {w \in Workers : worker[w] \in {"took", "decoding", "depositing"} /\ taken[w] = b}
InWindow(b) == {x \in ready : x = b}
WithConsumer(b) ==
  {x \in {nextExpected} : x = b /\ consumer = "delivering"} \cup {x \in {b} : x < nextExpected}
Holders(b) ==
  Cardinality(WithReader(b)) + Cardinality(InQueue(b)) + Cardinality(WithWorker(b))
    + Cardinality(InWindow(b)) + Cardinality(WithConsumer(b))

(* While the run goes on, every bevy claimed is in exactly one place: read   *)
(* by one reader, queued once, decoded by one worker, waiting in the window, *)
(* or delivered.  A bevy in no place would stall the consumer for ever, one  *)
(* in two would be hashed twice.                                             *)
EveryClaimedBevyHasOneHolder ==
  ~FailureSet /\ ~closed /\ outcome = "reading" =>
    \A b \in BevyNumbers : Holders(b) = IF b < nextBevy THEN 1 ELSE 0

(* "Never claim a bevy further ahead than the pipeline can hold", to within  *)
(* what the code does: the gate loads the cursor and claims with a later     *)
(* fetch_add, so readers that look together all pass, and the cursor exceeds *)
(* the lookahead by as many as there are readers, less one.                  *)
Claiming == {r \in Readers : reader[r] = "claiming"}
ClaimsBounded == nextBevy + Cardinality(Claiming) <= wanted + Lookahead + Ceiling - 1

(* A consumer that waits is owed a wake: the bevy it wants is not in the     *)
(* window already, and some worker is left whose deposit or exit will        *)
(* notify it, whatever has failed.  The decode failure's own notification,   *)
(* sent without the window's lock, can be missed.                            *)
WaitingConsumerIsOwedAWake ==
  consumer = "asleep" =>
    /\ nextExpected \notin ready
    /\ \E w \in Workers : worker[w] # "done"

(* WorkerExit: a closed window takes nothing more, or the memory cleared at  *)
(* the shutdown would grow again while the scope waits for a slow reader.    *)
ClosedWindowStaysEmpty == closed => ready = {}

(* An error blames a bevy that really is bad, or a handle that would not     *)
(* open, which is recorded as bevy 0.                                        *)
Bad(b) == ~stored[b].readable \/ ~Decodes(stored[b])
ReportedFailureIsReal ==
  outcome = "failed" => Bad(failure) \/ (failure = 0 /\ FaultyHandles # {})

(* "Release every waiting thread before the scope joins them": no reader is  *)
(* left blocked on a full queue with nobody to empty it.  Violated where     *)
(* more readers are in flight than the queue holds and the workers are gone. *)
Blocked(r) == reader[r] = "sending" /\ Len(queue) = QueueDepth
JoinReleasesEveryReader ==
  consumer = "joining" /\ (\A w \in Workers : worker[w] = "done")
    => \A r \in Readers : ~Blocked(r)

(* The call returns, whatever the stream holds, however the threads run.     *)
Terminates == <>(consumer = "returned")

(* The pipeline implements the promise of StreamRead: the sink receives a    *)
(* prefix of what a serial read delivers, and success means a sound stream   *)
(* delivered whole.  It is not the equivalence read_all_parallel documents:  *)
(* an undecodable chunk past the end fails this reader alone (HasBadSpare).  *)
AbstractOutcome ==
  CASE consumer # "returned" -> "reading"
    [] consumer = "returned" /\ outcome = "ok" -> "ok"
    [] OTHER -> "error"
Promise == INSTANCE StreamRead
  WITH outcome <- AbstractOutcome,
       FaultsPossible <- SinkMayFail \/ FaultyHandles # {}
ImplementsStreamRead == Promise!ReadSpec
=============================================================================
