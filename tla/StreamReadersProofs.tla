------------------------ MODULE StreamReadersProofs -------------------------
(***************************************************************************)
(* The two readers of one stored stream.  The reading loop of SerialReader *)
(* follows the recursion of StreamContents turn by turn, so it ends as     *)
(* that recursion does and implements the promise of StreamRead; a region  *)
(* RangedReader reads is its stream's, whatever its caches hold.           *)
(***************************************************************************)
EXTENDS SerialReader, RangedReader, StreamContentsProofs, SequenceTheorems

\* The progress the recursion has before the open bevy, and in it.
Before == Bevywise(stored)[bevy]
InBevy == Chunkwise(stored[bevy].chunks, Before.at)

Ended == outcome \notin {"reading", "sink"}

\* Types that the induction needs; chunk keeps the count of the last bevy.
LoopTypes ==
  /\ stored \in Streams
  /\ bevy \in 0..BevyCount
  /\ chunk \in Nat
  /\ open \in BOOLEAN
  /\ delivered \in 0..Size
  /\ completed \in 0..BevyCount
  /\ outcome \in Outcomes

\* Between bevies the loop stands where the recursion does.
BetweenBevies == Reading /\ ~open => Before = Started(delivered)

\* InBevy a bevy it stands where the recursion does in that bevy's chunks.
WithinBevy ==
  Reading /\ open =>
    /\ bevy < BevyCount
    /\ stored[bevy].readable /\ IndexAccepted(stored[bevy])
    /\ Before.status = "reading" /\ Before.at < Size
    /\ chunk \in 0..Len(stored[bevy].chunks)
    /\ InBevy[chunk] = Started(delivered)

NoByteTooMany == delivered <= SerialBytes(stored)
EndsAsSerial == Ended => outcome = SerialOutcome(stored) /\ delivered = SerialBytes(stored)

LoopFollows ==
  LoopTypes /\ BetweenBevies /\ WithinBevy /\ NoByteTooMany /\ EndsAsSerial

-----------------------------------------------------------------------------
(* Where the recursion goes from here *)

\* What is known of the open bevy while the loop reads it.
LEMMA OpenBevyFollows ==
  ASSUME LoopFollows, Reading, open
  PROVE  /\ stored \in StoredStreams /\ bevy \in BevyNumbers /\ stored[bevy] \in Bevies
         /\ bevy \in 0..BevyCount /\ bevy + 1 \in 0..BevyCount /\ BevyCount \in Nat
         /\ Before.at \in 0..Size
         /\ Len(stored[bevy].chunks) \in 1..ChunksPerBevy
         /\ IsChunkwise(InBevy, stored[bevy].chunks, Before.at)
         /\ Bevywise(stored)[bevy + 1] = InBevy[Len(stored[bevy].chunks)]
         /\ Size \in Nat /\ delivered \in 0..Size
<1>1. stored \in StoredStreams /\ bevy \in BevyNumbers /\ BevyCount \in Nat
  BY SerialAssumption, BeviesSpanTheStream
  DEF LoopFollows, LoopTypes, WithinBevy, StoredStreams, BevyNumbers
<1>2. Before.status = "reading" /\ Before.at < Size
  BY DEF LoopFollows, WithinBevy
<1>3. /\ bevy \in 0..BevyCount /\ bevy + 1 \in 0..BevyCount /\ stored[bevy] \in Bevies
      /\ Before.at \in 0..Size
      /\ Bevywise(stored)[bevy + 1] = DeliverBevy(stored[bevy], Before.at)
  BY <1>1, <1>2, BevyOpened DEF Before, LoopFollows, WithinBevy
<1>4. /\ IsChunkwise(InBevy, stored[bevy].chunks, Before.at)
      /\ DeliverBevy(stored[bevy], Before.at) = InBevy[Len(stored[bevy].chunks)]
  BY <1>3, ChunksAreFolded DEF InBevy
<1>5. QED
  BY <1>1, <1>3, <1>4, StreamAssumption DEF LoopFollows, WithinBevy, IndexAccepted, LoopTypes

\* What stops in a bevy stops the stream, and the recursion ends there.
LEMMA StoppedWithin ==
  ASSUME LoopFollows, Reading, open, NEW k \in 0..Len(stored[bevy].chunks),
         InBevy[k].status # "reading"
  PROVE  SerialOutcome(stored) = InBevy[k].status /\ SerialBytes(stored) = InBevy[k].at
<1>1. /\ stored \in StoredStreams /\ stored[bevy] \in Bevies /\ Before.at \in 0..Size
      /\ bevy + 1 \in 0..BevyCount
      /\ Len(stored[bevy].chunks) \in Nat
      /\ Bevywise(stored)[bevy + 1] = InBevy[Len(stored[bevy].chunks)]
  BY OpenBevyFollows
<1>2. Len(stored[bevy].chunks) \in k..Len(stored[bevy].chunks)
  BY <1>1
<1>3. InBevy[Len(stored[bevy].chunks)] = InBevy[k]
  BY <1>1, <1>2, ChunksGoOn DEF InBevy
<1>4. QED BY <1>1, <1>3, SerialEnd

\* The chunk at hand takes the recursion one turn on.
LEMMA ChunkFollows ==
  ASSUME LoopFollows, AtChunk
  PROVE  /\ chunk + 1 \in 0..Len(stored[bevy].chunks)
         /\ Plain \in Chunks
         /\ InBevy[chunk + 1] = DeliverChunk(Started(delivered), Plain)
         /\ InBevy[chunk + 1] \in Progress
         /\ InBevy[chunk + 1].at <= SerialBytes(stored)
<1>1. Reading /\ open /\ chunk < Len(stored[bevy].chunks)
  BY DEF AtChunk
<1>2. /\ stored \in StoredStreams /\ stored[bevy] \in Bevies /\ Before.at \in 0..Size
      /\ bevy + 1 \in 0..BevyCount
      /\ Len(stored[bevy].chunks) \in Nat
      /\ IsChunkwise(InBevy, stored[bevy].chunks, Before.at)
      /\ Bevywise(stored)[bevy + 1] = InBevy[Len(stored[bevy].chunks)]
  BY <1>1, OpenBevyFollows
<1>3. chunk \in 0..Len(stored[bevy].chunks) /\ InBevy[chunk] = Started(delivered)
  BY <1>1 DEF LoopFollows, WithinBevy
<1> DEFINE L == Len(stored[bevy].chunks)
<1>4. /\ chunk + 1 \in 1..L /\ chunk + 1 \in 0..L /\ (chunk + 1) - 1 = chunk
      /\ L \in (chunk + 1)..L
  BY <1>1, <1>2, <1>3
<1>5. Plain \in Chunks
  BY <1>2, <1>4 DEF Plain, Bevies
<1>6. InBevy[chunk + 1] = DeliverChunk(Started(delivered), Plain)
  BY <1>2, <1>3, <1>4 DEF IsChunkwise, Plain
<1>7. InBevy[chunk + 1] \in Progress /\ InBevy[chunk + 1].at <= InBevy[L].at
  BY <1>2, <1>4, ChunksGoOn DEF InBevy
<1>8. /\ InBevy[L].at <= SerialBytes(stored) /\ InBevy[L] \in Progress
      /\ SerialBytes(stored) \in 0..Size
  BY <1>2, SerialEnd, StreamIsReadBevywise DEF IsBevywise
<1>9. InBevy[chunk + 1].at <= SerialBytes(stored)
  BY <1>7, <1>8, StreamAssumption DEF Progress
<1>10. QED BY <1>4, <1>5, <1>6, <1>7, <1>9

\* The turns a chunk at hand can take.
LEMMA ChunkTurns ==
  ASSUME LoopFollows, AtChunk
  PROVE  /\ Plain = Undecodable => InBevy[chunk + 1] = [status |-> "failed", at |-> delivered]
         /\ Plain # Undecodable /\ ShortAt(Plain, delivered) =>
              InBevy[chunk + 1] = [status |-> "refused", at |-> delivered]
         /\ Plain # Undecodable /\ ~ShortAt(Plain, delivered) =>
              /\ InBevy[chunk + 1] = Started(delivered + Truncated(Plain, delivered))
              /\ delivered + Truncated(Plain, delivered) > delivered
              /\ delivered + Truncated(Plain, delivered) \in 0..Size
<1>1. /\ Plain \in Chunks /\ InBevy[chunk + 1] = DeliverChunk(Started(delivered), Plain)
  BY ChunkFollows
<1>2. delivered \in 0..Size /\ delivered < Size /\ Size \in Nat /\ ChunkSize \in Nat \ {0}
  BY StreamAssumption DEF LoopFollows, LoopTypes, AtChunk
<1>3. /\ Started(delivered).status = "reading" /\ Started(delivered).at = delivered
      /\ [Started(delivered) EXCEPT !.status = "failed"] = [status |-> "failed", at |-> delivered]
      /\ [Started(delivered) EXCEPT !.status = "refused"] = [status |-> "refused", at |-> delivered]
      /\ [Started(delivered) EXCEPT !.at = delivered + Truncated(Plain, delivered)]
           = Started(delivered + Truncated(Plain, delivered))
  BY DEF Started
<1>4. ~(Started(delivered).status # "reading" \/ Started(delivered).at >= Size)
  BY <1>2, <1>3
<1>5. DeliverChunk(Started(delivered), Plain) =
        IF Plain = Undecodable THEN [status |-> "failed", at |-> delivered]
        ELSE IF ShortAt(Plain, delivered) THEN [status |-> "refused", at |-> delivered]
        ELSE Started(delivered + Truncated(Plain, delivered))
  BY <1>3, <1>4 DEF DeliverChunk
<1>6. ~ShortAt(Plain, delivered) =>
        /\ delivered + Truncated(Plain, delivered) > delivered
        /\ delivered + Truncated(Plain, delivered) \in 0..Size
  BY <1>1, <1>2 DEF ShortAt, Truncated, Chunks, Undecodable
<1>7. QED BY <1>1, <1>5, <1>6

\* Where the loop has ended the recursion has too.
LEMMA LoopEndFollows ==
  ASSUME LoopFollows, Reading, ~open, LoopEnded
  PROVE  /\ SerialOutcome(stored) = IF delivered = Size THEN "ok" ELSE "short"
         /\ SerialBytes(stored) = delivered
<1>1. Before = Started(delivered) /\ bevy \in 0..BevyCount /\ stored \in StoredStreams
  BY SerialAssumption DEF LoopFollows, BetweenBevies, LoopTypes, StoredStreams
<1>2. Before.status = "reading" /\ Before.at = delivered
  BY <1>1 DEF Started
<1>3. QED BY <1>1, <1>2, SerialEnd DEF Before, LoopEnded

\* A bevy that is not read ends the recursion as it ends the loop.
LEMMA UnreadableFollows ==
  ASSUME LoopFollows, Reading, ~open, ~LoopEnded,
         ~stored[bevy].readable \/ ~IndexAccepted(stored[bevy])
  PROVE  SerialOutcome(stored) = "failed" /\ SerialBytes(stored) = delivered
<1>1. Before = Started(delivered) /\ bevy \in 0..BevyCount /\ stored \in StoredStreams
      /\ BevyCount \in Nat /\ bevy # BevyCount /\ delivered < Size
  BY SerialAssumption, BeviesSpanTheStream, StreamAssumption
  DEF LoopFollows, BetweenBevies, LoopTypes, StoredStreams, LoopEnded
<1>2. Before.status = "reading" /\ Before.at = delivered /\ bevy \in BevyNumbers
  BY <1>1 DEF Started, BevyNumbers
<1>3. /\ bevy + 1 \in 0..BevyCount
      /\ Bevywise(stored)[bevy + 1] = [status |-> "failed", at |-> delivered]
  BY <1>1, <1>2, BevyOpened DEF Before
<1>4. QED BY <1>1, <1>3, SerialEnd

-----------------------------------------------------------------------------
(* Every step follows the recursion *)

\* Before the first bevy the loop is where the recursion begins.
LEMMA SerialStarts == SerialInit => LoopFollows
<1> SUFFICES ASSUME SerialInit PROVE LoopFollows
  OBVIOUS
<1> USE DEF SerialInit
<1>1. BevyCount \in Nat /\ Size \in Nat /\ stored \in StoredStreams
  BY BeviesSpanTheStream, StreamAssumption, SerialAssumption DEF StoredStreams
<1>2. LoopTypes
  <2>1. bevy \in 0..BevyCount /\ chunk \in Nat /\ delivered \in 0..Size /\ completed \in 0..BevyCount
    BY <1>1
  <2>2. open \in BOOLEAN /\ outcome \in Outcomes /\ stored \in Streams
    BY DEF Outcomes
  <2>3. QED BY <2>1, <2>2 DEF LoopTypes
<1>3. Before = Started(delivered)
  BY <1>1, StreamIsReadBevywise DEF Before, IsBevywise
<1>4. SerialBytes(stored) \in 0..Size
  <2>1. 0 \in 0..BevyCount
    BY <1>1
  <2>2. QED BY <1>1, <2>1, SerialEnd
<1>5. QED
  BY <1>1, <1>2, <1>3, <1>4
  DEF LoopFollows, BetweenBevies, WithinBevy, NoByteTooMany, EndsAsSerial, Ended

\* Every step of the loop follows the recursion.
LEMMA SerialFollows == LoopFollows /\ [SerialNext]_serialVars => LoopFollows'
<1> SUFFICES ASSUME LoopFollows, [SerialNext]_serialVars PROVE LoopFollows'
  OBVIOUS
<1> USE DEF LoopFollows
<1>1. BevyCount \in Nat /\ Size \in Nat /\ stored \in StoredStreams /\ SerialBytes(stored) \in 0..Size
  <2>1. BevyCount \in Nat /\ Size \in Nat /\ stored \in StoredStreams /\ 0 \in 0..BevyCount
    BY BeviesSpanTheStream, StreamAssumption, SerialAssumption DEF LoopTypes, StoredStreams
  <2>2. QED BY <2>1, SerialEnd
<1>2. CASE OpenBevy
  <2> USE <1>2 DEF OpenBevy
  <2>1. stored' = stored /\ bevy' = bevy /\ delivered' = delivered /\ open' /\ chunk' = 0
        /\ outcome' = "reading" /\ completed' = completed /\ Reading /\ ~open
    BY DEF Reading
  <2>2. LoopTypes'
    BY <2>1 DEF LoopTypes, Outcomes
  <2>3. Before = Started(delivered) /\ Before' = Before /\ InBevy' = InBevy
    BY <2>1 DEF BetweenBevies, Before, InBevy
  <2>4. /\ bevy < BevyCount /\ Before.status = "reading" /\ Before.at < Size /\ Before.at \in 0..Size
        /\ stored[bevy] \in Bevies
    <3>1. bevy < BevyCount /\ delivered < Size
      BY <1>1 DEF LoopEnded, LoopTypes
    <3>2. Before.status = "reading" /\ Before.at = delivered
      BY <2>3 DEF Started
    <3>3. stored[bevy] \in Bevies
      BY <1>1, <3>1 DEF StoredStreams, BevyNumbers, LoopTypes
    <3>4. QED BY <3>1, <3>2, <3>3 DEF LoopTypes
  <2>5. InBevy[0] = Started(delivered)
    BY <2>3, <2>4, ChunksAreFolded DEF InBevy, IsChunkwise, Started
  <2>6. 0 \in 0..Len(stored[bevy].chunks)
    BY <2>4 DEF Bevies
  <2>7. WithinBevy'
    BY <2>1, <2>3, <2>4, <2>5, <2>6 DEF WithinBevy, IndexAccepted
  <2>8. QED
    BY <1>1, <2>1, <2>2, <2>7 DEF BetweenBevies, NoByteTooMany, EndsAsSerial, Ended
<1>3. CASE BevyUnreadable
  <2> USE <1>3 DEF BevyUnreadable, Fails
  <2>1. SerialOutcome(stored) = "failed" /\ SerialBytes(stored) = delivered
    BY UnreadableFollows
  <2>2. QED
    BY <2>1 DEF LoopTypes, Outcomes, BetweenBevies, WithinBevy, NoByteTooMany, EndsAsSerial, Ended, Reading
<1>4. CASE ChunkUndecodable
  <2> USE <1>4 DEF ChunkUndecodable, Fails
  <2>1. InBevy[chunk + 1] = [status |-> "failed", at |-> delivered] /\ Reading /\ open
        /\ chunk + 1 \in 0..Len(stored[bevy].chunks)
    BY ChunkTurns, ChunkFollows DEF AtChunk
  <2>2. SerialOutcome(stored) = "failed" /\ SerialBytes(stored) = delivered
    BY <2>1, StoppedWithin
  <2>3. QED
    BY <2>2 DEF LoopTypes, Outcomes, BetweenBevies, WithinBevy, NoByteTooMany, EndsAsSerial, Ended, Reading
<1>5. CASE ChunkRefused
  <2> USE <1>5 DEF ChunkRefused, Fails
  <2>1. InBevy[chunk + 1] = [status |-> "refused", at |-> delivered] /\ Reading /\ open
        /\ chunk + 1 \in 0..Len(stored[bevy].chunks)
    BY ChunkTurns, ChunkFollows DEF AtChunk
  <2>2. SerialOutcome(stored) = "refused" /\ SerialBytes(stored) = delivered
    BY <2>1, StoppedWithin
  <2>3. QED
    BY <2>2 DEF LoopTypes, Outcomes, BetweenBevies, WithinBevy, NoByteTooMany, EndsAsSerial, Ended, Reading
<1>6. CASE SinkFails
  BY <1>6 DEF SinkFails, Fails, LoopTypes, Outcomes, BetweenBevies, WithinBevy, NoByteTooMany,
              EndsAsSerial, Ended, Reading
<1>7. CASE Deliver
  <2> USE <1>7 DEF Deliver
  <2>1. /\ Reading /\ open /\ stored' = stored /\ bevy' = bevy /\ open' = open /\ outcome' = outcome
        /\ completed' = completed
    BY DEF AtChunk
  <2>2. /\ InBevy[chunk + 1] = Started(delivered') /\ delivered' \in 0..Size
        /\ chunk' = chunk + 1 /\ chunk' \in 0..Len(stored[bevy].chunks)
        /\ InBevy[chunk + 1].at <= SerialBytes(stored)
    BY ChunkTurns, ChunkFollows
  <2>3. delivered' <= SerialBytes(stored)
    BY <2>2 DEF Started
  <2>4. chunk' \in Nat
    BY <2>2 DEF LoopTypes
  <2>5. LoopTypes'
    BY <2>1, <2>2, <2>4 DEF LoopTypes
  <2>6. Before' = Before /\ InBevy' = InBevy /\ stored'[bevy'] = stored[bevy]
    BY <2>1 DEF Before, InBevy
  <2>7. WithinBevy'
    BY <2>1, <2>2, <2>6 DEF WithinBevy, IndexAccepted
  <2>8. QED
    BY <2>1, <2>3, <2>5, <2>7 DEF BetweenBevies, NoByteTooMany, EndsAsSerial, Ended, Reading
<1>8. CASE BevyDone
  <2> USE <1>8 DEF BevyDone
  <2> DEFINE L == Len(stored[bevy].chunks)
  <2>1. /\ bevy \in 0..BevyCount /\ bevy + 1 \in 0..BevyCount /\ L \in Nat
        /\ stored[bevy] \in Bevies /\ Before.at \in 0..Size
        /\ Bevywise(stored)[bevy + 1] = InBevy[L]
    BY OpenBevyFollows
  <2>2. /\ chunk \in 0..L /\ InBevy[chunk] = Started(delivered)
    BY DEF WithinBevy
  <2>3. L \in chunk..L
    BY <2>1, <2>2
  <2>4. InBevy[L] = Started(delivered)
    <3>1. CASE chunk = L
      BY <2>2, <3>1
    <3>2. CASE chunk # L
      <4>1. delivered >= Size
        BY <1>1, <2>1, <2>2, <3>2 DEF AtChunk, LoopTypes
      <4>2. InBevy[chunk].at = delivered
        BY <2>2 DEF Started
      <4>3. QED BY <2>1, <2>2, <2>3, <4>1, <4>2, ChunksGoOn DEF InBevy
    <3>3. QED BY <3>1, <3>2
  <2>5. Before' = Started(delivered)
    BY <2>1, <2>4 DEF Before
  <2>6. LoopTypes'
    BY <2>1 DEF LoopTypes
  <2>7. QED
    BY <2>5, <2>6 DEF BetweenBevies, WithinBevy, NoByteTooMany, EndsAsSerial, Ended, Reading
<1>9. CASE Return
  <2> USE <1>9 DEF Return, Fails
  <2>1. /\ SerialOutcome(stored) = IF delivered = Size THEN "ok" ELSE "short"
        /\ SerialBytes(stored) = delivered
    BY LoopEndFollows
  <2>2. QED
    BY <2>1 DEF LoopTypes, Outcomes, BetweenBevies, WithinBevy, NoByteTooMany, EndsAsSerial, Ended, Reading
<1>10. CASE UNCHANGED serialVars
  <2>1. /\ stored' = stored /\ bevy' = bevy /\ chunk' = chunk /\ open' = open
        /\ delivered' = delivered /\ completed' = completed /\ outcome' = outcome
    BY <1>10 DEF serialVars
  <2>2. LoopTypes' /\ NoByteTooMany' /\ EndsAsSerial' /\ BetweenBevies'
    BY <2>1 DEF LoopTypes, NoByteTooMany, EndsAsSerial, Ended, BetweenBevies, Reading, Before
  <2>3. WithinBevy'
    BY <2>1 DEF WithinBevy, Reading, Before, InBevy, IndexAccepted
  <2>4. QED BY <2>2, <2>3
<1>11. QED
  BY <1>2, <1>3, <1>4, <1>5, <1>6, <1>7, <1>8, <1>9, <1>10 DEF SerialNext, Returned

\* The loop stands where the recursion does in every state.
LEMMA SerialLoopFollows == SerialSpec => []LoopFollows
BY SerialStarts, SerialFollows, PTL DEF SerialSpec

-----------------------------------------------------------------------------
(* Theorems *)

\* However a whole-stream read ends, short of a sink that fails, the sink has
\* the bytes the recursion gives and the caller the end it gives
\* (read_all_observed).
THEOREM SerialReadsAsTheRecursion == SerialSpec => []AgreesWithSerialOutcome
<1>1. LoopFollows => AgreesWithSerialOutcome
  BY DEF LoopFollows, EndsAsSerial, Ended, AgreesWithSerialOutcome
<1>2. QED BY <1>1, SerialLoopFollows, PTL

\* The promise's own copy of the recursion is the recursion.
LEMMA PromiseReadsTheSame ==
  /\ Promise!BevyNumbers = BevyNumbers /\ Promise!Bevies = Bevies
  /\ \A s : /\ Promise!SerialBytes(s) = SerialBytes(s)
           /\ Promise!SerialOutcome(s) = SerialOutcome(s)
<1>1. \A s : Promise!SerialAfter(s) = SerialAfter(s)
  BY DEF Promise!SerialAfter, Promise!SerialBevy, Promise!DeliverBevy, Promise!DeliverChunk,
         Promise!Truncated, Promise!ShortAt, Promise!Undecodable, Promise!IndexAccepted,
         Promise!BevyCount, Promise!BevyBytes, Promise!FoldLeft, Promise!MapThenFoldSet,
         Promise!Max, SerialAfter, SerialBevy, DeliverBevy, DeliverChunk, Truncated, ShortAt,
         Undecodable, IndexAccepted, BevyCount, BevyBytes, FoldLeft, MapThenFoldSet, Max
<1>2. QED
  BY <1>1 DEF Promise!BevyNumbers, Promise!Bevies, Promise!BevyCount, Promise!BevyBytes,
              Promise!Chunks, Promise!Undecodable, BevyNumbers, Bevies, BevyCount, BevyBytes,
              Chunks, Undecodable, Promise!SerialBytes, Promise!SerialOutcome, SerialBytes,
              SerialOutcome

\* The serial reader implements what a whole-stream read promises its caller:
\* a growing prefix of the recursion's bytes, success exactly for a complete
\* and sound stream, an error only where the stream or the sink has one.
THEOREM SerialReaderKeepsThePromise == SerialSpec => ImplementsStreamRead
<1>1. SerialInit => Promise!ReadInit
  BY SerialAssumption, PromiseReadsTheSame DEF SerialInit, Promise!ReadInit, AbstractOutcome
<1>2. LoopFollows /\ [SerialNext]_serialVars => [Promise!ReadNext]_(Promise!readVars)
  <2> SUFFICES ASSUME LoopFollows, [SerialNext]_serialVars
               PROVE  Promise!ReadNext \/ UNCHANGED Promise!readVars
    OBVIOUS
  <2> USE DEF Promise!readVars, Promise!ReadNext
  <2>1. ASSUME Reading, Fails("failed") \/ Fails("refused") \/ Fails("short"),
               SerialOutcome(stored) # "ok"
        PROVE  Promise!ReturnError
    BY <2>1, PromiseReadsTheSame DEF Reading, Fails, Promise!ReturnError, AbstractOutcome
  <2>2. CASE OpenBevy
    BY <2>2 DEF OpenBevy, AbstractOutcome
  <2>3. CASE BevyUnreadable
    <3>1. SerialOutcome(stored) = "failed"
      BY <2>3, UnreadableFollows DEF BevyUnreadable
    <3>2. QED BY <2>1, <2>3, <3>1 DEF BevyUnreadable
  <2>4. CASE ChunkUndecodable
    <3>1. InBevy[chunk + 1] = [status |-> "failed", at |-> delivered] /\ Reading /\ open
          /\ chunk + 1 \in 0..Len(stored[bevy].chunks)
      BY <2>4, ChunkTurns, ChunkFollows DEF AtChunk, ChunkUndecodable
    <3>2. SerialOutcome(stored) = "failed"
      BY <3>1, StoppedWithin
    <3>3. QED BY <2>1, <2>4, <3>1, <3>2 DEF ChunkUndecodable
  <2>5. CASE ChunkRefused
    <3>1. InBevy[chunk + 1] = [status |-> "refused", at |-> delivered] /\ Reading /\ open
          /\ chunk + 1 \in 0..Len(stored[bevy].chunks)
      BY <2>5, ChunkTurns, ChunkFollows DEF AtChunk, ChunkRefused
    <3>2. SerialOutcome(stored) = "refused"
      BY <3>1, StoppedWithin
    <3>3. QED BY <2>1, <2>5, <3>1, <3>2 DEF ChunkRefused
  <2>6. CASE SinkFails
    BY <2>6 DEF SinkFails, AtChunk, Reading, Fails, Promise!ReturnError, AbstractOutcome
  <2>7. CASE Deliver
    <3>1. /\ InBevy[chunk + 1] = Started(delivered') /\ delivered' > delivered
          /\ delivered' \in 0..Size /\ InBevy[chunk + 1].at <= SerialBytes(stored)
      BY <2>7, ChunkTurns, ChunkFollows DEF Deliver
    <3>2. delivered' <= SerialBytes(stored)
      BY <3>1 DEF Started
    <3>3. SerialBytes(stored) \in 0..Size
      <4>1. stored \in StoredStreams /\ 0 \in 0..BevyCount
        BY SerialAssumption, BeviesSpanTheStream DEF LoopFollows, LoopTypes, StoredStreams
      <4>2. QED BY <4>1, SerialEnd
    <3>4. delivered' \in (delivered + 1)..SerialBytes(stored)
      BY <3>1, <3>2, <3>3, StreamAssumption DEF LoopFollows, LoopTypes
    <3>5. QED
      BY <2>7, <3>4, PromiseReadsTheSame
      DEF Deliver, AtChunk, Reading, Promise!DeliverMore, AbstractOutcome
  <2>8. CASE BevyDone
    BY <2>8 DEF BevyDone, AbstractOutcome
  <2>9. CASE Return
    <3>1. /\ SerialOutcome(stored) = IF delivered = Size THEN "ok" ELSE "short"
          /\ Reading
      BY <2>9, LoopEndFollows DEF Return
    <3>2. CASE delivered = Size
      BY <2>9, <3>1, <3>2, PromiseReadsTheSame
      DEF Return, Fails, Reading, Promise!ReturnOk, AbstractOutcome
    <3>3. CASE delivered # Size
      BY <2>1, <2>9, <3>1, <3>3 DEF Return
    <3>4. QED BY <3>2, <3>3
  <2>10. CASE UNCHANGED serialVars
    BY <2>10 DEF serialVars, AbstractOutcome
  <2>11. QED
    BY <2>2, <2>3, <2>4, <2>5, <2>6, <2>7, <2>8, <2>9, <2>10 DEF SerialNext, Returned
<1>3. QED
  BY <1>1, <1>2, SerialLoopFollows, PTL DEF SerialSpec, ImplementsStreamRead, Promise!ReadSpec

-----------------------------------------------------------------------------
(* Numbers of chunks and bevies *)

\* A place in a chunk has that chunk's number.
LEMMA PlaceInChunk ==
  ASSUME NEW C \in Nat \ {0}, NEW q \in Nat, NEW r \in 0..(C - 1)
  PROVE  (q * C + r) \div C = q /\ (q * C + r) % C = r
<1>. DEFINE x == q * C + r
<1>1. x \in Nat /\ q * C \in Nat
  OBVIOUS
<1>2. x = q * C + r
  OBVIOUS
<1>. HIDE DEF x
<1>3. x \div C \in Int /\ x % C \in 0..(C - 1) /\ x = C * (x \div C) + (x % C)
  BY <1>1
<1>4. PICK p \in Int : p = x \div C
  BY <1>3
<1>5. x = C * p + (x % C)
  BY <1>3, <1>4
<1>6. ~(p >= q + 1)
  <2>. SUFFICES ASSUME p >= q + 1 PROVE FALSE
    OBVIOUS
  <2>1. C * p >= C * (q + 1)
    OBVIOUS
  <2>2. C * (q + 1) = q * C + C
    OBVIOUS
  <2>. QED BY <1>1, <1>2, <1>3, <1>5, <2>1, <2>2
<1>7. ~(p <= q - 1)
  <2>. SUFFICES ASSUME p <= q - 1 PROVE FALSE
    OBVIOUS
  <2>1. C * p <= C * (q - 1)
    OBVIOUS
  <2>2. C * (q - 1) = q * C - C
    OBVIOUS
  <2>. QED BY <1>1, <1>2, <1>3, <1>5, <2>1, <2>2
<1>8. p = q
  BY <1>6, <1>7
<1>. QED BY <1>2, <1>3, <1>4, <1>5, <1>8

\* The quotient and the rest, of a symbolic divisor.
LEMMA Divided ==
  ASSUME NEW C \in Nat \ {0}, NEW x \in Nat
  PROVE  /\ x \div C \in Nat /\ x % C \in 0..(C - 1)
         /\ x = (x \div C) * C + (x % C)
<1>1. x \div C \in Int /\ x % C \in 0..(C - 1) /\ x = C * (x \div C) + (x % C)
  OBVIOUS
<1>2. PICK p \in Int : p = x \div C
  BY <1>1
<1>3. ~(p < 0)
  <2>. SUFFICES ASSUME p <= 0 - 1 PROVE FALSE
    OBVIOUS
  <2>1. C * p <= C * (0 - 1)
    OBVIOUS
  <2>2. C * (0 - 1) = 0 - C
    OBVIOUS
  <2>. QED BY <1>1, <1>2, <2>1, <2>2
<1>. QED BY <1>1, <1>2, <1>3

\* A chunk within the declared size is in a bevy of the stream.
LEMMA HomeIsABevy ==
  ASSUME NEW n \in Nat, n * ChunkSize < Size
  PROVE  HomeBevy(n) \in BevyNumbers /\ HomeBevy(n) \in Nat /\ Place(n) \in 1..ChunksPerBevy
<1>1. ChunkSize \in Nat \ {0} /\ ChunksPerBevy \in Nat \ {0} /\ Size \in Nat
  BY StreamAssumption
<1>2. PICK b \in Nat : b = HomeBevy(n)
  BY <1>1, Divided DEF HomeBevy
<1>3. n = b * ChunksPerBevy + (n % ChunksPerBevy) /\ n % ChunksPerBevy \in 0..(ChunksPerBevy - 1)
  BY <1>1, <1>2, Divided DEF HomeBevy
<1>4. b * BevyBytes <= n * ChunkSize
  <2>1. b * ChunksPerBevy <= n
    BY <1>1, <1>3
  <2>2. (b * ChunksPerBevy) * ChunkSize <= n * ChunkSize
    BY <1>1, <2>1
  <2>3. (b * ChunksPerBevy) * ChunkSize = b * BevyBytes
    BY <1>1 DEF BevyBytes
  <2>. QED BY <2>2, <2>3
<1>5. BevyBytes \in Nat \ {0} /\ BevyCount \in Nat /\ Size <= BevyCount * BevyBytes
  BY BeviesSpanTheStream
<1>6. ~(b >= BevyCount)
  <2>. SUFFICES ASSUME b >= BevyCount PROVE FALSE
    OBVIOUS
  <2>1. BevyCount * BevyBytes <= b * BevyBytes /\ BevyCount * BevyBytes \in Nat /\ b * BevyBytes \in Nat /\ n * ChunkSize \in Nat
    BY <1>1, <1>5
  <2>. QED BY <1>1, <1>4, <1>5, <2>1
<1>. QED BY <1>1, <1>2, <1>3, <1>5, <1>6 DEF BevyNumbers, Place

-----------------------------------------------------------------------------
(* The caches *)

\* What a reader without caches could have had of chunk n.
Had(s, n) ==
  /\ IndexServes(s, HomeBevy(n)) /\ Sound(s, n)
  /\ MemberOf(s, HomeBevy(n)).addressable \/ MemberOf(s, HomeBevy(n)).whole

Caches ==
  [stream : Names, chunk : UNION {[D -> [of : Names, number : Nat, length : Nat]] : D \in SUBSET Nat},
   order : Seq(Nat), held : Int, resident : Seq(Nat), index : SUBSET Nat]

\* The order of eviction lists the chunks held, each once.
OrderIsOfTheHeld(c) ==
  /\ DOMAIN c.chunk = {c.order[i] : i \in 1..Len(c.order)}
  /\ \A i, j \in 1..Len(c.order) : c.order[i] = c.order[j] => i = j

\* A chunk held is its stream's, cut at the declared size, and could be had.
ChunksAreTheStreams(c) ==
  \A n \in DOMAIN c.chunk :
    n * ChunkSize < Size /\ c.chunk[n] = PlainChunk(c.stream, n) /\ Had(c.stream, n)

\* A bevy held was read whole, by its index.
BeviesAreRead(c) ==
  \A i \in 1..Len(c.resident) :
    MemberOf(c.stream, c.resident[i]).whole /\ IndexServes(c.stream, c.resident[i])

Cached(c) == c \in Caches /\ OrderIsOfTheHeld(c) /\ ChunksAreTheStreams(c) /\ BeviesAreRead(c)

\* Eviction leaves a cache of less.
IsLess(d, c) ==
  /\ Cached(d) /\ d.stream = c.stream /\ d.index = c.index
  /\ DOMAIN d.chunk \subseteq DOMAIN c.chunk

\* A chunk that can be had is of some bytes, no more than a chunk has.
LEMMA CutsAreBytes ==
  ASSUME NEW s \in Names, NEW n \in Nat, n * ChunkSize < Size, Sound(s, n),
         thisStored \in [BevyNumbers -> Bevies]
  PROVE  CutAtSize(s, n) \in 0..ChunkSize /\ PlainChunk(s, n) \in [of : Names, number : Nat, length : Nat]
<1>1. ChunkSize \in Nat \ {0} /\ Size \in Nat /\ n * ChunkSize \in Nat
  BY StreamAssumption
<1>2. HomeBevy(n) \in BevyNumbers /\ HomeBevy(n) \in Nat /\ Place(n) \in 1..ChunksPerBevy
  BY HomeIsABevy
<1>3. StoredPlain(s, n) \in 0..ChunkSize
  <2>1. CASE s = This
    <3>1. thisStored[HomeBevy(n)].chunks \in Seq(Chunks)
      BY <1>2 DEF Bevies
    <3>2. BevyOf(s, HomeBevy(n)).chunks = thisStored[HomeBevy(n)].chunks
      BY <2>1 DEF BevyOf
    <3>3. Place(n) \in 1..Len(thisStored[HomeBevy(n)].chunks)
      BY <1>2, <3>1, <3>2, StreamAssumption DEF Sound, Listed
    <3>4. StoredPlain(s, n) \in Chunks
      BY <3>1, <3>2, <3>3, ElementOfSeq DEF StoredPlain
    <3>. QED BY <1>1, <3>4 DEF Sound, Chunks, Undecodable
  <2>2. CASE s # This
    <3>1. SoundChunks(HomeBevy(n)) \in Int
      BY <1>1, <1>2, StreamAssumption, Divided DEF SoundChunks, ChunkCount
    <3>2. BevyOf(s, HomeBevy(n)).chunks = [i \in 1..SoundChunks(HomeBevy(n)) |-> ChunkSize]
      BY <2>2 DEF BevyOf, SoundBevy
    <3>. DEFINE m == SoundChunks(HomeBevy(n))
    <3>3. Place(n) <= Len([i \in 1..m |-> ChunkSize]) /\ StoredPlain(s, n) = [i \in 1..m |-> ChunkSize][Place(n)]
      BY <3>2 DEF Sound, Listed, StoredPlain
    <3>. HIDE DEF m
    <3>4. CASE m \in Nat
      <4>1. Len([i \in 1..m |-> ChunkSize]) = m
        BY <3>4
      <4>2. Place(n) \in 1..m
        BY <1>2, <3>3, <3>4, <4>1, StreamAssumption
      <4>. QED BY <1>1, <3>3, <4>2
    <3>5. CASE m \notin Nat
      <4>1. 1..m = {}
        BY <3>1, <3>5 DEF m
      <4>2. [i \in 1..m |-> ChunkSize] = <<>>
        BY <4>1
      <4>3. Place(n) <= Len(<<>>)
        BY <3>3, <4>2
      <4>4. Len(<<>>) = 0
        OBVIOUS
      <4>. QED BY <1>2, <4>3, <4>4, StreamAssumption
    <3>. QED BY <3>4, <3>5
  <2>. QED BY <2>1, <2>2
<1>4. CutAtSize(s, n) \in 0..ChunkSize
  BY <1>1, <1>3 DEF CutAtSize, Truncated
<1>. QED BY <1>1, <1>4 DEF PlainChunk

\* The oldest chunk goes, and its place in the order.
LEMMA EvictionLeavesLess ==
  ASSUME NEW c, Cached(c), Len(c.order) > 1
  PROVE  IsLess(EvictOldest(c), c) /\ EvictOldest(c).resident = c.resident
<1>. DEFINE d == EvictOldest(c)  victim == Head(c.order)
<1>1. /\ c \in Caches /\ c.order \in Seq(Nat) /\ c.order # <<>> /\ Len(c.order) \in Nat
      /\ DOMAIN c.chunk = {c.order[i] : i \in 1..Len(c.order)}
  BY DEF Cached, Caches, OrderIsOfTheHeld
<1>2. /\ Tail(c.order) \in Seq(Nat) /\ Len(Tail(c.order)) = Len(c.order) - 1
      /\ \A i \in 1..(Len(c.order) - 1) : Tail(c.order)[i] = c.order[i + 1]
      /\ victim = c.order[1]
  BY <1>1
<1>3. PICK D \in SUBSET Nat : c.chunk \in [D -> [of : Names, number : Nat, length : Nat]]
  BY <1>1 DEF Caches
<1>4. victim \in D /\ victim \in DOMAIN c.chunk
  BY <1>1, <1>2, <1>3
<1>. HIDE DEF victim
<1>5. Without(c.chunk, victim) \in [D \ {victim} -> [of : Names, number : Nat, length : Nat]]
  BY <1>3 DEF Without
<1>6. d = [c EXCEPT !.order = Tail(c.order), !.chunk = Without(c.chunk, victim), !.held = c.held - c.chunk[victim].length]
  BY DEF EvictOldest, victim
<1>7. c.chunk[victim].length \in Nat /\ c.held \in Int
  BY <1>1, <1>3, <1>4 DEF Caches
<1>. HIDE DEF d
<1>8. /\ d.stream = c.stream /\ d.index = c.index /\ d.resident = c.resident
      /\ d.order = Tail(c.order) /\ d.chunk = Without(c.chunk, victim)
  BY <1>1, <1>6 DEF Caches
<1>9. d \in Caches
  <2>1. Without(c.chunk, victim) \in UNION {[E -> [of : Names, number : Nat, length : Nat]] : E \in SUBSET Nat}
    BY <1>5
  <2>2. c.held - c.chunk[victim].length \in Int
    BY <1>7
  <2>. QED BY <1>1, <1>2, <1>6, <2>1, <2>2 DEF Caches
<1>10. DOMAIN d.chunk = DOMAIN c.chunk \ {victim} /\ \A n \in DOMAIN d.chunk : d.chunk[n] = c.chunk[n]
  BY <1>8 DEF Without
<1>11. OrderIsOfTheHeld(d)
  <2>1. \A i, j \in 1..Len(d.order) : d.order[i] = d.order[j] => i = j
    BY <1>1, <1>2, <1>8 DEF Cached, OrderIsOfTheHeld
  <2>2. ASSUME NEW i \in 1..Len(d.order) PROVE d.order[i] \in DOMAIN d.chunk
    <3>1. d.order[i] = c.order[i + 1] /\ i + 1 \in 1..Len(c.order) /\ 1 \in 1..Len(c.order) /\ i + 1 # 1
      BY <1>1, <1>2, <1>8
    <3>2. c.order[i + 1] # c.order[1]
      BY <3>1 DEF Cached, OrderIsOfTheHeld
    <3>. QED BY <1>1, <1>2, <1>10, <3>1, <3>2
  <2>3. ASSUME NEW n \in DOMAIN d.chunk PROVE \E i \in 1..Len(d.order) : d.order[i] = n
    <3>1. PICK i \in 1..Len(c.order) : c.order[i] = n
      BY <1>1, <1>10
    <3>2. i # 1
      BY <1>2, <1>10, <3>1
    <3>3. i - 1 \in 1..(Len(c.order) - 1) /\ (i - 1) + 1 = i
      BY <1>1, <3>2
    <3>4. Tail(c.order)[i - 1] = c.order[(i - 1) + 1]
      BY <1>2, <3>3
    <3>. QED BY <1>2, <1>8, <3>1, <3>3, <3>4
  <2>. QED BY <2>1, <2>2, <2>3 DEF OrderIsOfTheHeld
<1>12. ChunksAreTheStreams(d) /\ BeviesAreRead(d)
  BY <1>8, <1>10 DEF Cached, ChunksAreTheStreams, BeviesAreRead
<1>. QED BY <1>8, <1>9, <1>10, <1>11, <1>12 DEF Cached, IsLess, d

\* Making room leaves a cache of less.
LEMMA RoomLeavesLess ==
  ASSUME NEW c, Cached(c), NEW incoming \in Nat
  PROVE  IsLess(MadeRoom(c, incoming), c) /\ MadeRoom(c, incoming).resident = c.resident
<1>. DEFINE X == {d \in Caches : IsLess(d, c) /\ d.resident = c.resident}
            N == Len(c.order)
            F == [k \in 1..N |-> [d \in X |-> OldestGoes(d, incoming)]]
            Turn(it, s) == IF s = {} THEN c ELSE OldestGoes(it[s \ {Max(s)}], incoming)
            iter == CHOOSE it : it = [s \in SUBSET DOMAIN c.order |-> Turn(it, s)]
<1>1. N \in Nat /\ DOMAIN c.order = 1..N
  BY DEF Cached, Caches
<1>2. c \in X
  BY DEF IsLess, Cached
<1>3. ASSUME NEW d \in X PROVE OldestGoes(d, incoming) \in X
  <2>1. Cached(d) /\ d.stream = c.stream /\ d.index = c.index /\ d.resident = c.resident
        /\ DOMAIN d.chunk \subseteq DOMAIN c.chunk
    BY DEF IsLess
  <2>2. CASE Len(d.order) > 1 /\ d.held + incoming > ChunkCacheBytes
    <3>1. IsLess(EvictOldest(d), d) /\ EvictOldest(d).resident = d.resident
      BY <2>1, <2>2, EvictionLeavesLess
    <3>2. IsLess(EvictOldest(d), c) /\ EvictOldest(d) \in Caches
      BY <2>1, <3>1 DEF IsLess, Cached
    <3>. QED BY <2>1, <2>2, <3>1, <3>2 DEF OldestGoes
  <2>3. CASE ~(Len(d.order) > 1 /\ d.held + incoming > ChunkCacheBytes)
    BY <2>3 DEF OldestGoes
  <2>. QED BY <2>2, <2>3
<1>. HIDE DEF X
<1>4. F \in [1..N -> [X -> X]]
  BY <1>3
<1>5. MadeRoom(c, incoming) = iter[DOMAIN c.order]
  BY DEF MadeRoom, FoldLeft, MapThenFoldSet
<1>. HIDE DEF N
<1>6. iter = [s \in SUBSET DOMAIN c.order |-> Turn(iter, s)]
  <2>1. PICK it \in [SUBSET (1..N) -> X] : \A s \in SUBSET (1..N) :
          it[s] = IF s = {} THEN c ELSE F[Max(s)][it[s \ {Max(s)}]]
    <3>1. HasFold(N, X, c, F)
      BY <1>1, <1>2, <1>4, FoldExists
    <3>. QED BY <3>1 DEF HasFold
  <2>2. ASSUME NEW s \in SUBSET (1..N) PROVE it[s] = Turn(it, s)
    <3>1. CASE s = {}
      BY <2>1, <3>1
    <3>2. CASE s # {}
      <4>1. Max(s) \in 1..N
        BY <1>1, <3>2, LargestNumber
      <4>2. it[s \ {Max(s)}] \in X
        OBVIOUS
      <4>. QED BY <2>1, <3>2, <4>1, <4>2
    <3>. QED BY <3>1, <3>2
  <2>3. it = [s \in SUBSET DOMAIN c.order |-> Turn(it, s)]
    BY <1>1, <2>2
  <2>. QED BY <2>3
<1>. HIDE DEF iter, F
<1>7. \A s \in SUBSET (1..N) : iter[s] = Turn(iter, s)
  BY <1>1, <1>6
<1>8. iter[{}] \in X
  BY <1>2, <1>7
<1>9. \A s \in SUBSET (1..N) : s # {} /\ iter[s \ {Max(s)}] \in X => iter[s] \in X
  BY <1>3, <1>7
<1>10. iter[1..N] \in X
  BY <1>1, <1>8, <1>9, FoldStays
<1>. QED BY <1>1, <1>5, <1>10 DEF X

\* The least recently used bevies go.
LEMMA FewerBeviesAreLess ==
  ASSUME NEW c, Cached(c), NEW b
  PROVE  IsLess(RoomForBevy(c, b), c) /\ RoomForBevy(c, b).chunk = c.chunk
<1>. DEFINE X == {d \in Caches : IsLess(d, c) /\ d.chunk = c.chunk}
            N == Len(c.resident)
            F == [k \in 1..N |-> [d \in X |-> LeastRecentGoes(d, b)]]
            Turn(it, s) == IF s = {} THEN c ELSE LeastRecentGoes(it[s \ {Max(s)}], b)
            iter == CHOOSE it : it = [s \in SUBSET DOMAIN c.resident |-> Turn(it, s)]
<1>1. N \in Nat /\ DOMAIN c.resident = 1..N
  BY DEF Cached, Caches
<1>2. c \in X
  BY DEF IsLess, Cached
<1>3. ASSUME NEW d \in X PROVE LeastRecentGoes(d, b) \in X
  <2>1. /\ Cached(d) /\ d.stream = c.stream /\ d.index = c.index /\ d.chunk = c.chunk
        /\ d \in Caches /\ d.resident \in Seq(Nat)
    BY DEF IsLess, Caches
  <2>2. CASE Len(d.resident) # 0
    <3>. DEFINE e == [d EXCEPT !.resident = Tail(d.resident)]
    <3>1. d.resident # <<>> /\ Len(d.resident) \in Nat
      BY <2>1, <2>2
    <3>2. /\ Tail(d.resident) \in Seq(Nat) /\ Len(Tail(d.resident)) = Len(d.resident) - 1
          /\ \A i \in 1..(Len(d.resident) - 1) : Tail(d.resident)[i] = d.resident[i + 1]
      BY <2>1, <3>1
    <3>3. /\ e \in Caches /\ e.stream = d.stream /\ e.chunk = d.chunk /\ e.order = d.order
          /\ e.index = d.index /\ e.resident = Tail(d.resident)
      BY <2>1, <3>2 DEF Caches
    <3>. HIDE DEF e
    <3>4. BeviesAreRead(e)
      <4>. SUFFICES ASSUME NEW i \in 1..Len(e.resident)
                    PROVE  MemberOf(e.stream, e.resident[i]).whole /\ IndexServes(e.stream, e.resident[i])
        BY DEF BeviesAreRead
      <4>1. i + 1 \in 1..Len(d.resident) /\ e.resident[i] = d.resident[i + 1]
        BY <3>1, <3>2, <3>3
      <4>. QED BY <2>1, <3>3, <4>1 DEF Cached, BeviesAreRead
    <3>5. OrderIsOfTheHeld(e) /\ ChunksAreTheStreams(e)
      BY <2>1, <3>3 DEF Cached, OrderIsOfTheHeld, ChunksAreTheStreams
    <3>6. e \in X
      BY <2>1, <3>3, <3>4, <3>5 DEF IsLess, Cached
    <3>. QED BY <3>6 DEF LeastRecentGoes, e
  <2>3. CASE Len(d.resident) = 0
    BY <2>3 DEF LeastRecentGoes
  <2>. QED BY <2>2, <2>3
<1>4. F \in [1..N -> [X -> X]]
  BY <1>3
<1>5. RoomForBevy(c, b) = iter[DOMAIN c.resident]
  BY DEF RoomForBevy, FoldLeft, MapThenFoldSet
<1>. HIDE DEF N, X
<1>6. iter = [s \in SUBSET DOMAIN c.resident |-> Turn(iter, s)]
  <2>1. PICK it \in [SUBSET (1..N) -> X] : \A s \in SUBSET (1..N) :
          it[s] = IF s = {} THEN c ELSE F[Max(s)][it[s \ {Max(s)}]]
    <3>1. HasFold(N, X, c, F)
      BY <1>1, <1>2, <1>4, FoldExists
    <3>. QED BY <3>1 DEF HasFold
  <2>2. ASSUME NEW s \in SUBSET (1..N) PROVE it[s] = Turn(it, s)
    <3>1. CASE s = {}
      BY <2>1, <3>1
    <3>2. CASE s # {}
      <4>1. Max(s) \in 1..N
        BY <1>1, <3>2, LargestNumber
      <4>2. it[s \ {Max(s)}] \in X
        OBVIOUS
      <4>. QED BY <2>1, <3>2, <4>1, <4>2
    <3>. QED BY <3>1, <3>2
  <2>3. it = [s \in SUBSET DOMAIN c.resident |-> Turn(it, s)]
    BY <1>1, <2>2
  <2>. QED BY <2>3
<1>. HIDE DEF iter, F
<1>7. \A s \in SUBSET (1..N) : iter[s] = Turn(iter, s)
  BY <1>1, <1>6
<1>8. iter[{}] \in X
  BY <1>2, <1>7
<1>9. \A s \in SUBSET (1..N) : s # {} /\ iter[s \ {Max(s)}] \in X => iter[s] \in X
  BY <1>3, <1>7
<1>10. iter[1..N] \in X
  BY <1>1, <1>8, <1>9, FoldStays
<1>11. RoomForBevy(c, b) \in X
  BY <1>1, <1>5, <1>10
<1>12. RoomForBevy(c, b) \in {d \in Caches : IsLess(d, c) /\ d.chunk = c.chunk}
  BY <1>11 DEF X
<1>. QED BY <1>12, Zenon
-----------------------------------------------------------------------------
(* Taking in *)

\* A chunk that could be had without caches is held as what it is.
LEMMA HoldChunkKeeps ==
  ASSUME NEW c, Cached(c), NEW n \in Nat, n \notin DOMAIN c.chunk, n * ChunkSize < Size,
         Had(c.stream, n), thisStored \in [BevyNumbers -> Bevies]
  PROVE  Cached(HoldChunk(c, n, PlainChunk(c.stream, n)))
         /\ HoldChunk(c, n, PlainChunk(c.stream, n)).stream = c.stream
<1>. DEFINE plain == PlainChunk(c.stream, n)
            room == MadeRoom(c, plain.length)
            kept == [k \in DOMAIN room.chunk \cup {n} |-> IF k = n THEN plain ELSE room.chunk[k]]
            d == HoldChunk(c, n, plain)
<1>1. c.stream \in Names
  BY DEF Cached, Caches
<1>2. plain \in [of : Names, number : Nat, length : Nat] /\ plain.length \in Nat
  BY <1>1, CutsAreBytes DEF Had
<1>3. IsLess(room, c)
  BY <1>2, RoomLeavesLess
<1>4. /\ Cached(room) /\ room \in Caches /\ room.stream = c.stream /\ room.order \in Seq(Nat)
      /\ n \notin DOMAIN room.chunk /\ room.held \in Int
  BY <1>3 DEF IsLess, Cached, Caches
<1>5. d = [room EXCEPT !.held = room.held + plain.length, !.order = Append(room.order, n), !.chunk = kept]
  BY DEF HoldChunk
<1>6. PICK D \in SUBSET Nat : room.chunk \in [D -> [of : Names, number : Nat, length : Nat]]
  BY <1>4 DEF Caches
<1>. HIDE DEF plain, room
<1>7. kept \in [D \cup {n} -> [of : Names, number : Nat, length : Nat]] /\ D \cup {n} \in SUBSET Nat
  BY <1>2, <1>6
<1>8. DOMAIN kept = DOMAIN room.chunk \cup {n} /\ kept[n] = plain
      /\ \A k \in DOMAIN room.chunk : kept[k] = room.chunk[k]
  BY <1>4
<1>. HIDE DEF kept, d
<1>9. /\ d.stream = c.stream /\ d.order = Append(room.order, n) /\ d.chunk = kept
      /\ d.resident = room.resident
  BY <1>4, <1>5 DEF Caches
<1>10. d \in Caches
  <2>1. kept \in UNION {[E -> [of : Names, number : Nat, length : Nat]] : E \in SUBSET Nat}
    BY <1>7
  <2>2. Append(room.order, n) \in Seq(Nat) /\ room.held + plain.length \in Int
    BY <1>2, <1>4
  <2>. QED BY <1>4, <1>5, <2>1, <2>2 DEF Caches
<1>11. OrderIsOfTheHeld(d)
  <2>. DEFINE N == Len(room.order)
  <2>1. /\ N \in Nat /\ Len(d.order) = N + 1 /\ d.order[N + 1] = n
        /\ \A i \in 1..N : d.order[i] = room.order[i]
    BY <1>4, <1>9
  <2>2. DOMAIN room.chunk = {room.order[i] : i \in 1..N}
    BY <1>4 DEF Cached, OrderIsOfTheHeld
  <2>3. \A i, j \in 1..N : room.order[i] = room.order[j] => i = j
    BY <1>4 DEF Cached, OrderIsOfTheHeld
  <2>. HIDE DEF N
  <2>4. \A i \in 1..N : room.order[i] # n
    BY <1>4, <2>2
  <2>5. DOMAIN d.chunk = {d.order[i] : i \in 1..(N + 1)}
    <3>1. \A i \in 1..(N + 1) : i \in 1..N \/ i = N + 1
      BY <2>1
    <3>2. \A i \in 1..N : i \in 1..(N + 1)
      BY <2>1
    <3>3. N + 1 \in 1..(N + 1)
      BY <2>1
    <3>. QED BY <1>8, <1>9, <2>1, <2>2, <3>1, <3>2, <3>3
  <2>6. ASSUME NEW i \in 1..(N + 1), NEW j \in 1..(N + 1), d.order[i] = d.order[j] PROVE i = j
    BY <2>1, <2>3, <2>4, <2>6
  <2>. QED BY <2>1, <2>5, <2>6 DEF OrderIsOfTheHeld
<1>12. ChunksAreTheStreams(d)
  <2>. SUFFICES ASSUME NEW k \in DOMAIN d.chunk
                PROVE  k * ChunkSize < Size /\ d.chunk[k] = PlainChunk(d.stream, k) /\ Had(d.stream, k)
    BY DEF ChunksAreTheStreams
  <2>1. CASE k = n
    BY <1>8, <1>9, <2>1 DEF plain
  <2>2. CASE k # n
    BY <1>4, <1>8, <1>9, <2>2 DEF Cached, ChunksAreTheStreams
  <2>. QED BY <2>1, <2>2
<1>13. BeviesAreRead(d)
  BY <1>4, <1>9 DEF Cached, BeviesAreRead
<1>. QED BY <1>9, <1>10, <1>11, <1>12, <1>13 DEF Cached, d, plain

\* What is left when one element goes was there before.
LEMMA FirstRemoved ==
  ASSUME NEW s \in Seq(Nat), NEW b \in Nat, \E i \in DOMAIN s : s[i] = b
  PROVE  /\ RemoveFirst(s, b) \in Seq(Nat)
         /\ \A i \in 1..Len(RemoveFirst(s, b)) : \E j \in 1..Len(s) : RemoveFirst(s, b)[i] = s[j]
<1>. DEFINE I == {i \in 1..Len(s) : s[i] = b}
<1>1. Len(s) \in Nat /\ DOMAIN s = 1..Len(s)
  OBVIOUS
<1>2. I # {} /\ I \in SUBSET Nat /\ I \subseteq 1..Len(s)
  BY <1>1
<1>3. Min(I) \in I
  <2>. HIDE DEF I
  <2>1. \E m \in I : \A y \in I : m <= y
    BY <1>2, SmallestNumber
  <2>. QED BY <2>1, Zenon DEF Min
<1>4. PICK p \in 1..Len(s) : p = Min(I)
  BY <1>2, <1>3
<1>5. RemoveFirst(s, b) = SubSeq(s, 1, p - 1) \o SubSeq(s, p + 1, Len(s))
  BY <1>1, <1>2, <1>4 DEF RemoveFirst, RemoveAt, SelectInSeq
<1>6. PICK x : x = SubSeq(s, 1, p - 1)
  OBVIOUS
<1>7. PICK y : y = SubSeq(s, p + 1, Len(s))
  OBVIOUS
<1>10. x \in Seq(Nat) /\ Len(x) = p - 1 /\ \A i \in 1..(p - 1) : x[i] = s[i]
  <2>1. \A i \in 1..(p - 1) : s[i] \in Nat
    BY <1>1
  <2>2. 1 \in Int /\ p - 1 \in Int
    BY <1>1
  <2>3. /\ x \in Seq(Nat) /\ Len(x) = IF 1 <= p - 1 THEN p - 1 - 1 + 1 ELSE 0
        /\ \A i \in 1..(p - 1 - 1 + 1) : x[i] = s[1 + i - 1]
    BY <1>6, <2>1, <2>2, SubSeqProperties
  <2>. QED BY <1>1, <2>3
<1>11. y \in Seq(Nat) /\ Len(y) = Len(s) - p /\ \A i \in 1..(Len(s) - p) : y[i] = s[p + i]
  <2>1. \A i \in (p + 1)..Len(s) : s[i] \in Nat
    BY <1>1
  <2>2. p + 1 \in Int /\ Len(s) \in Int
    BY <1>1
  <2>3. /\ y \in Seq(Nat) /\ Len(y) = IF p + 1 <= Len(s) THEN Len(s) - (p + 1) + 1 ELSE 0
        /\ \A i \in 1..(Len(s) - (p + 1) + 1) : y[i] = s[p + 1 + i - 1]
    BY <1>7, <2>1, <2>2, SubSeqProperties
  <2>4. Len(s) - (p + 1) + 1 = Len(s) - p /\ p <= Len(s) /\ (p + 1 <= Len(s) \/ p = Len(s))
    <3>1. \A a \in Nat : \A q \in 1..a : a - (q + 1) + 1 = a - q /\ q <= a /\ (q + 1 <= a \/ q = a)
      OBVIOUS
    <3>. QED BY <1>1, <3>1, Zenon
  <2>5. \A i \in 1..(Len(s) - p) : p + 1 + i - 1 = p + i
    BY <1>1
  <2>6. \A i \in 1..(Len(s) - p) : y[i] = s[p + i]
    BY <2>3, <2>4, <2>5
  <2>7. Len(y) = Len(s) - p
    <3>1. \A a \in Nat : \A q \in 1..a : q = a => a - q = 0 /\ ~(q + 1 <= a)
      OBVIOUS
    <3>2. CASE p + 1 <= Len(s)
      BY <2>3, <2>4, <3>2
    <3>3. CASE p = Len(s)
      <4>1. Len(s) - p = 0 /\ ~(p + 1 <= Len(s))
        BY <1>1, <3>1, <3>3, Zenon
      <4>. QED BY <2>3, <4>1
    <3>. QED BY <2>4, <3>2, <3>3
  <2>. QED BY <2>3, <2>6, <2>7
<1>8. /\ x \o y \in Seq(Nat) /\ Len(x \o y) = Len(x) + Len(y)
      /\ \A i \in 1..(Len(x) + Len(y)) : (x \o y)[i] = IF i <= Len(x) THEN x[i] ELSE y[i - Len(x)]
  BY <1>10, <1>11, ConcatProperties
<1>9. ASSUME NEW i \in 1..Len(x \o y) PROVE \E j \in 1..Len(s) : (x \o y)[i] = s[j]
  <2>1. i \in Nat /\ i <= Len(s) - 1 /\ i >= 1
    BY <1>1, <1>8, <1>10, <1>11
  <2>2. (x \o y)[i] = IF i <= p - 1 THEN x[i] ELSE y[i - (p - 1)]
    BY <1>8, <1>10, <1>11, <2>1
  <2>3. CASE i <= p - 1
    <3>1. i \in 1..(p - 1) /\ i \in 1..Len(s)
      BY <1>1, <2>1, <2>3
    <3>. QED BY <1>10, <2>2, <2>3, <3>1
  <2>4. CASE ~(i <= p - 1)
    <3>1. i - (p - 1) \in 1..(Len(s) - p) /\ p + (i - (p - 1)) \in 1..Len(s)
      BY <1>1, <2>1, <2>4
    <3>. QED BY <1>11, <2>2, <2>4, <3>1
  <2>. QED BY <2>3, <2>4
<1>12. RemoveFirst(s, b) = x \o y
  BY <1>5, <1>6, <1>7
<1>. QED BY <1>8, <1>9, <1>12

\* A bevy that is resident, or can be read whole, is held.
LEMMA HoldBevyKeeps ==
  ASSUME NEW c, Cached(c), NEW b \in Nat,
         IsResident(c, b) \/ (MemberOf(c.stream, b).whole /\ IndexServes(c.stream, b))
  PROVE  /\ Cached(HoldBevy(c, b)) /\ HoldBevy(c, b).stream = c.stream
         /\ HoldBevy(c, b).chunk = c.chunk
<1>. DEFINE room == IF IsResident(c, b) THEN [c EXCEPT !.resident = RemoveFirst(c.resident, b)]
                    ELSE RoomForBevy(c, b)
            d == [room EXCEPT !.resident = Append(room.resident, b)]
<1>1. c \in Caches /\ c.resident \in Seq(Nat) /\ HoldBevy(c, b) = d
  BY DEF Cached, Caches, HoldBevy
<1>2. Cached(room) /\ room.stream = c.stream /\ room.chunk = c.chunk
  <2>1. CASE IsResident(c, b)
    <3>. DEFINE rest == RemoveFirst(c.resident, b)
                e == [c EXCEPT !.resident = rest]
    <3>1. /\ rest \in Seq(Nat)
          /\ \A i \in 1..Len(rest) : \E j \in 1..Len(c.resident) : rest[i] = c.resident[j]
      BY <1>1, <2>1, FirstRemoved DEF IsResident
    <3>. HIDE DEF rest
    <3>2. /\ e \in Caches /\ e.stream = c.stream /\ e.chunk = c.chunk /\ e.order = c.order
          /\ e.resident = rest
      BY <1>1, <3>1 DEF Caches
    <3>. HIDE DEF e
    <3>3. OrderIsOfTheHeld(e) /\ ChunksAreTheStreams(e)
      BY <3>2 DEF Cached, OrderIsOfTheHeld, ChunksAreTheStreams
    <3>5. BeviesAreRead(e)
      <4>. SUFFICES ASSUME NEW i \in 1..Len(e.resident)
                    PROVE  MemberOf(e.stream, e.resident[i]).whole /\ IndexServes(e.stream, e.resident[i])
        BY DEF BeviesAreRead
      <4>1. PICK j \in 1..Len(c.resident) : e.resident[i] = c.resident[j]
        BY <3>1, <3>2
      <4>. QED BY <3>2, <4>1 DEF Cached, BeviesAreRead
    <3>4. room = e
      BY <2>1 DEF e, rest
    <3>. QED BY <3>2, <3>3, <3>4, <3>5 DEF Cached
  <2>2. CASE ~IsResident(c, b)
    BY <2>2, FewerBeviesAreLess DEF IsLess
  <2>. QED BY <2>1, <2>2
<1>3. MemberOf(c.stream, b).whole /\ IndexServes(c.stream, b)
  BY <1>1 DEF IsResident, Cached, BeviesAreRead
<1>. HIDE DEF room
<1>4. room \in Caches /\ room.resident \in Seq(Nat) /\ Append(room.resident, b) \in Seq(Nat)
  BY <1>2 DEF Cached, Caches
<1>5. /\ d \in Caches /\ d.stream = c.stream /\ d.chunk = c.chunk /\ d.order = room.order
      /\ d.resident = Append(room.resident, b)
  BY <1>2, <1>4 DEF Caches
<1>. HIDE DEF d
<1>6. BeviesAreRead(d)
  <2>. SUFFICES ASSUME NEW i \in 1..Len(d.resident)
                PROVE  MemberOf(d.stream, d.resident[i]).whole /\ IndexServes(d.stream, d.resident[i])
    BY DEF BeviesAreRead
  <2>1. /\ Len(d.resident) = Len(room.resident) + 1 /\ d.resident[Len(room.resident) + 1] = b
        /\ Len(room.resident) \in Nat /\ \A k \in 1..Len(room.resident) : d.resident[k] = room.resident[k]
    BY <1>4, <1>5
  <2>2. CASE i \in 1..Len(room.resident)
    BY <1>2, <1>5, <2>1, <2>2 DEF Cached, BeviesAreRead
  <2>3. CASE i = Len(room.resident) + 1
    BY <1>3, <1>5, <2>1, <2>3
  <2>. QED BY <2>1, <2>2, <2>3
<1>7. OrderIsOfTheHeld(d) /\ ChunksAreTheStreams(d)
  BY <1>2, <1>5 DEF Cached, OrderIsOfTheHeld, ChunksAreTheStreams
<1>. QED BY <1>1, <1>5, <1>6, <1>7 DEF Cached

LEMMA EmptyIsCached ==
  ASSUME NEW s \in Names
  PROVE  Cached(Empty(s)) /\ Empty(s).stream = s
<1>. DEFINE c == Empty(s)
<1>1. c = [stream |-> s, chunk |-> <<>>, order |-> <<>>, held |-> 0, resident |-> <<>>, index |-> {}]
  BY DEF Empty
<1>2. <<>> \in [{} -> [of : Names, number : Nat, length : Nat]] /\ {} \in SUBSET Nat
  OBVIOUS
<1>3. <<>> \in UNION {[E -> [of : Names, number : Nat, length : Nat]] : E \in SUBSET Nat}
  BY <1>2
<1>4. c \in Caches
  <2>1. <<>> \in Seq(Nat) /\ 0 \in Int /\ {} \in SUBSET Nat
    OBVIOUS
  <2>2. PICK f : f = <<>> /\ f \in UNION {[E -> [of : Names, number : Nat, length : Nat]] : E \in SUBSET Nat}
    BY <1>3
  <2>3. c = [stream |-> s, chunk |-> f, order |-> <<>>, held |-> 0, resident |-> <<>>, index |-> {}]
    BY <1>1, <2>2
  <2>. HIDE DEF c
  <2>. QED BY <2>1, <2>2, <2>3 DEF Caches
<1>5. DOMAIN c.chunk = {} /\ c.order = <<>> /\ c.resident = <<>> /\ c.stream = s
  BY <1>1
<1>6. Len(<<>>) = 0 /\ 1..0 = {}
  OBVIOUS
<1>. HIDE DEF c
<1>. QED BY <1>4, <1>5, <1>6 DEF Cached, OrderIsOfTheHeld, ChunksAreTheStreams, BeviesAreRead, c

\* The caches are handed on within one stream only.
LEMMA CarryingKeeps ==
  ASSUME NEW c, Cached(c), NEW s \in Names
  PROVE  Cached(CarriedTo(c, s)) /\ CarriedTo(c, s).stream = s
BY EmptyIsCached DEF CarriedTo

\* The index of a bevy is kept.
LEMMA IndexingKeeps ==
  ASSUME NEW c, Cached(c), NEW b \in Nat
  PROVE  LET d == [c EXCEPT !.index = @ \cup {b}]
         IN  Cached(d) /\ d.stream = c.stream /\ d.chunk = c.chunk /\ d.resident = c.resident
<1>. DEFINE d == [c EXCEPT !.index = c.index \cup {b}]
<1>1. c \in Caches
  BY DEF Cached
<1>2. c.index \cup {b} \in SUBSET Nat
  BY <1>1 DEF Caches
<1>3. /\ d \in Caches /\ d.stream = c.stream /\ d.chunk = c.chunk /\ d.order = c.order
      /\ d.resident = c.resident
  BY <1>1, <1>2 DEF Caches
<1>. HIDE DEF d
<1>4. OrderIsOfTheHeld(d) /\ ChunksAreTheStreams(d)
  BY <1>3 DEF Cached, OrderIsOfTheHeld, ChunksAreTheStreams
<1>5. BeviesAreRead(d)
  BY <1>3 DEF Cached, BeviesAreRead
<1>. QED BY <1>3, <1>4, <1>5 DEF Cached, d

-----------------------------------------------------------------------------
(* The regions *)

Statuses == {"idle", "reading", "ok", "refused", "error", "sink"}
CallsOfRegions ==
  [stream : Names, from : Nat, end : Nat, at : Nat, got : Seq(Names \X Nat \X Nat),
   status : Statuses, count : Nat]

\* A region being read lies in its stream, and the caches are that stream's.
ReadsWithin(c, k) ==
  /\ c \in CallsOfRegions /\ c.from <= c.at
  /\ c.status = "reading" => k.stream = c.stream /\ c.at <= c.end /\ c.end <= Size

\* What a call has had so far, and how it ended.
Gives(c) ==
  c.got = [k \in 1..(c.at - c.from) |->
             <<c.stream, (c.from + k - 1) \div ChunkSize, (c.from + k - 1) % ChunkSize>>]
EndsRight(c) ==
  /\ c.status = "ok" => c.at = c.end
  /\ c.status = "error" => ~Obtainable(c.stream, c.at)
  /\ \A p \in c.from..(c.at - 1) : Obtainable(c.stream, p)

RangedInv ==
  /\ thisStored \in [BevyNumbers -> Bevies]
  /\ Cached(cache) /\ ReadsWithin(call, cache)
  /\ Gives(call) /\ EndsRight(call)

LEMMA RangedInvInit == RangedInit => RangedInv
<1>. SUFFICES ASSUME RangedInit PROVE RangedInv
  OBVIOUS
<1>1. This \in Names
  BY DEF Names
<1>2. Cached(cache)
  BY <1>1, EmptyIsCached DEF RangedInit
<1>3. call = [stream |-> This, from |-> 0, end |-> 0, at |-> 0, got |-> <<>>, status |-> "idle", count |-> 0]
  BY DEF RangedInit, NoCall
<1>4. ReadsWithin(call, cache)
  BY <1>1, <1>3 DEF ReadsWithin, CallsOfRegions, Statuses
<1>5. Gives(call)
  BY <1>3 DEF Gives
<1>6. EndsRight(call)
  BY <1>3 DEF EndsRight
<1>. QED BY <1>2, <1>4, <1>5, <1>6 DEF RangedInit, RangedInv

\* The streams stay, so what can be had of them does.
LEMMA RegionsStay ==
  ASSUME thisStored \in [BevyNumbers -> Bevies], UNCHANGED <<thisStored, members>>,
         Cached(cache'), ReadsWithin(call', cache'), Gives(call'), EndsRight(call')
  PROVE  RangedInv'
<1>1. Cached(cache)'
  BY DEF Cached, OrderIsOfTheHeld, ChunksAreTheStreams, BeviesAreRead, Had, PlainChunk,
         CutAtSize, Sound, Listed, StoredPlain, IndexServes, MemberOf, BevyOf
<1>2. EndsRight(call)'
  BY DEF EndsRight, Obtainable, Reaches,
         CutAtSize, Sound, Listed, StoredPlain, IndexServes, MemberOf, BevyOf
<1>3. ReadsWithin(call, cache)' /\ Gives(call)'
  BY DEF ReadsWithin, Gives
<1>. QED BY <1>1, <1>2, <1>3 DEF RangedInv

\* The place a call has come to.
LEMMA PlaceOfTheCall ==
  ASSUME RangedInv, Wanting
  PROVE  /\ Number \in Nat /\ Within \in 0..(ChunkSize - 1)
         /\ call.at = Number * ChunkSize + Within
         /\ Number * ChunkSize < Size /\ Home \in Nat
         /\ cache.stream = call.stream /\ call.stream \in Names
<1>1. ChunkSize \in Nat \ {0} /\ ChunksPerBevy \in Nat \ {0} /\ Size \in Nat
  BY StreamAssumption
<1>2. call.at \in Nat /\ call.end \in Nat /\ call.stream \in Names
  BY DEF RangedInv, ReadsWithin, CallsOfRegions
<1>3. call.at < call.end /\ call.end <= Size /\ cache.stream = call.stream
  BY DEF RangedInv, ReadsWithin, Wanting
<1>4. /\ Number \in Nat /\ Within \in 0..(ChunkSize - 1)
      /\ call.at = Number * ChunkSize + Within
  BY <1>1, <1>2, Divided DEF Number, Within
<1>5. Number * ChunkSize \in Nat
  BY <1>1, <1>4
<1>6. Number * ChunkSize < Size
  BY <1>1, <1>2, <1>3, <1>4, <1>5
<1>7. Home \in Nat
  BY <1>1, <1>4, Divided DEF Home, HomeBevy
<1>. QED BY <1>2, <1>3, <1>4, <1>6, <1>7

\* A chunk held can be had, to its length.
LEMMA HeldCanBeHad ==
  ASSUME RangedInv, Present
  PROVE  /\ HeldChunk = [of |-> call.stream, number |-> Number, length |-> HeldChunk.length]
         /\ HeldChunk.length \in 0..ChunkSize
         /\ Reaches(call.stream, Number) = HeldChunk.length
<1>1. /\ Number \in Nat /\ Number * ChunkSize < Size
      /\ cache.stream = call.stream /\ call.stream \in Names
  BY PlaceOfTheCall DEF Present
<1>2. HeldChunk = PlainChunk(call.stream, Number) /\ Had(call.stream, Number)
  BY <1>1 DEF RangedInv, Cached, ChunksAreTheStreams, Present, HeldChunk
<1>3. CutAtSize(call.stream, Number) \in 0..ChunkSize
  BY <1>1, <1>2, CutsAreBytes DEF RangedInv, Had
<1>4. HeldChunk = [of |-> call.stream, number |-> Number, length |-> CutAtSize(call.stream, Number)]
  BY <1>2 DEF PlainChunk
<1>5. HeldChunk.length = CutAtSize(call.stream, Number)
  BY <1>4
<1>6. Reaches(call.stream, Number) = CutAtSize(call.stream, Number)
  BY <1>2 DEF Reaches, Had
<1>. QED BY <1>3, <1>4, <1>5, <1>6

\* A read that fails leaves the caches good, and fails where no byte can be had.
LEMMA FailingKeeps ==
  ASSUME RangedInv, Wanting, NEW c, Cached(c), Failed(c), UNCHANGED <<thisStored, members>>,
         Within >= Reaches(call.stream, Number)
  PROVE  RangedInv'
<1>1. Within \in 0..(ChunkSize - 1)
  BY PlaceOfTheCall
<1>2. call \in CallsOfRegions
  BY DEF RangedInv, ReadsWithin
<1>3. cache' = c /\ call' = [call EXCEPT !.status = "error"]
  BY DEF Failed
<1>4. /\ call' \in CallsOfRegions /\ call'.status = "error" /\ call'.stream = call.stream
      /\ call'.at = call.at /\ call'.from = call.from /\ call'.got = call.got
  BY <1>2, <1>3 DEF CallsOfRegions, Statuses
<1>5. ReadsWithin(call', cache')
  BY <1>4 DEF RangedInv, ReadsWithin
<1>6. Gives(call')
  BY <1>4 DEF RangedInv, Gives
<1>7. ~(Within < Reaches(call.stream, Number))
  <2>1. CASE Reaches(call.stream, Number) \in Int
    BY <1>1, <2>1
  <2>2. CASE Reaches(call.stream, Number) \notin Int
    <3>1. Reaches(call.stream, Number) \in Int
      <4>1. CASE ~Had(call.stream, Number)
        BY <4>1 DEF Reaches, Had
      <4>2. CASE Had(call.stream, Number)
        <5>1. CutAtSize(call.stream, Number) \in 0..ChunkSize
          BY <4>2, PlaceOfTheCall, CutsAreBytes DEF RangedInv, Had
        <5>. QED BY <5>1, StreamAssumption DEF Reaches
      <4>. QED BY <4>1, <4>2
    <3>. QED BY <2>2, <3>1
  <2>. QED BY <2>1, <2>2
<1>8. ~Obtainable(call.stream, call.at)
  BY <1>7 DEF Obtainable, Within, Number
<1>9. EndsRight(call')
  BY <1>4, <1>8 DEF RangedInv, EndsRight
<1>. QED BY <1>3, <1>5, <1>6, <1>9, RegionsStay DEF RangedInv

\* A chunk that can be had is taken in.
LEMMA FetchingKeeps ==
  ASSUME RangedInv, Wanting, NEW c, Cached(c), c.stream = call.stream,
         Number \notin DOMAIN c.chunk, Had(call.stream, Number),
         Fetched(c, Number), UNCHANGED <<thisStored, members>>
  PROVE  RangedInv'
<1>1. Number \in Nat /\ Number * ChunkSize < Size /\ cache.stream = call.stream
  BY PlaceOfTheCall
<1>2. PICK n \in Nat : n = Number
  BY <1>1
<1>3. thisStored \in [BevyNumbers -> Bevies]
  BY DEF RangedInv
<1>4. cache' = HoldChunk(c, n, PlainChunk(c.stream, n)) /\ call' = call
  BY <1>2 DEF Fetched
<1>5. Cached(cache') /\ cache'.stream = c.stream
  BY <1>1, <1>2, <1>3, <1>4, HoldChunkKeeps
<1>6. ReadsWithin(call', cache')
  BY <1>1, <1>4, <1>5 DEF RangedInv, ReadsWithin
<1>. QED BY <1>3, <1>4, <1>5, <1>6, RegionsStay DEF RangedInv

\* Bytes are given from the chunk at hand.
LEMMA GivingKeeps ==
  ASSUME RangedInv, Give
  PROVE  RangedInv'
<1>. DEFINE left == HeldChunk.length - Within
            take == IF call.end - call.at < left THEN call.end - call.at ELSE left
<1>1. /\ call \in CallsOfRegions /\ call.from <= call.at /\ call.at <= call.end /\ call.end <= Size
      /\ cache.stream = call.stream /\ call.at < call.end /\ call.status = "reading"
  BY DEF RangedInv, ReadsWithin, Give, Present, Wanting
<1>2. /\ call.at \in Nat /\ call.end \in Nat /\ call.from \in Nat /\ call.stream \in Names
      /\ call.got \in Seq(Names \X Nat \X Nat)
  BY <1>1 DEF CallsOfRegions
<1>3. /\ Number \in Nat /\ Within \in 0..(ChunkSize - 1) /\ call.at = Number * ChunkSize + Within
  BY PlaceOfTheCall DEF Give, Present
<1>4. /\ HeldChunk = [of |-> call.stream, number |-> Number, length |-> HeldChunk.length]
      /\ HeldChunk.length \in 0..ChunkSize
      /\ Reaches(call.stream, Number) = HeldChunk.length
  BY HeldCanBeHad DEF Give
<1>5. Within < HeldChunk.length /\ ChunkSize \in Nat \ {0}
  BY StreamAssumption DEF Give
<1>6. take \in Nat /\ Within + take <= HeldChunk.length /\ call.at + take <= call.end
  <2>1. \A a, e, w, l \in Nat : a < e /\ w < l =>
          LET t == IF e - a < l - w THEN e - a ELSE l - w
          IN  t \in Nat /\ w + t <= l /\ a + t <= e
    OBVIOUS
  <2>2. Within \in Nat /\ HeldChunk.length \in Nat
    BY <1>3, <1>4, <1>5
  <2>. QED BY <1>1, <1>2, <1>5, <2>1, <2>2
<1>7. call' = [call EXCEPT !.at = call.at + take, !.got = call.got \o Slice(HeldChunk, Within, take)]
      /\ UNCHANGED <<thisStored, members, cache>>
  BY DEF Give
<1>. DEFINE more == Slice(HeldChunk, Within, take)
<1>8. more = [k \in 1..take |-> <<call.stream, Number, Within + k - 1>>]
  BY <1>4 DEF Slice
<1>. HIDE DEF more, take
<1>9. more \in Seq(Names \X Nat \X Nat) /\ Len(more) = take
  <2>1. ASSUME NEW k \in 1..take PROVE <<call.stream, Number, Within + k - 1>> \in Names \X Nat \X Nat
    BY <1>2, <1>3, <1>6
  <2>. QED BY <1>6, <1>8, <2>1
<1>10. /\ call.got \o more \in Seq(Names \X Nat \X Nat)
       /\ Len(call.got \o more) = Len(call.got) + take
       /\ \A k \in 1..(Len(call.got) + take) :
            (call.got \o more)[k] = IF k <= Len(call.got) THEN call.got[k] ELSE more[k - Len(call.got)]
  BY <1>2, <1>9, ConcatProperties
<1>11. /\ call' \in CallsOfRegions /\ call'.at = call.at + take /\ call'.got = call.got \o more
       /\ call'.from = call.from /\ call'.stream = call.stream /\ call'.status = "reading"
       /\ call'.end = call.end
  <2>1. call.at + take \in Nat
    BY <1>2, <1>6
  <2>. QED BY <1>1, <1>7, <1>10, <2>1 DEF CallsOfRegions, more
<1>12. ReadsWithin(call', cache')
  BY <1>1, <1>2, <1>6, <1>7, <1>11 DEF ReadsWithin
<1>13. ASSUME NEW j \in 0..(take - 1)
       PROVE  /\ (call.at + j) \div ChunkSize = Number
              /\ (call.at + j) % ChunkSize = Within + j
              /\ Within + j < HeldChunk.length
  <2>1. Within + j \in 0..(ChunkSize - 1) /\ Within + j < HeldChunk.length
    BY <1>3, <1>4, <1>5, <1>6
  <2>2. Number * ChunkSize \in Nat
    BY <1>3, <1>5
  <2>3. call.at + j = Number * ChunkSize + (Within + j)
    BY <1>3, <2>1, <2>2
  <2>4. PICK q \in Nat : q = Number
    BY <1>3
  <2>5. PICK r \in 0..(ChunkSize - 1) : r = Within + j
    BY <2>1
  <2>6. (q * ChunkSize + r) \div ChunkSize = q /\ (q * ChunkSize + r) % ChunkSize = r
    BY <1>5, PlaceInChunk
  <2>. QED BY <2>1, <2>3, <2>4, <2>5, <2>6
<1>14. Gives(call')
  <2>. DEFINE had == call.at - call.from
              byte(k) == <<call.stream, (call.from + k - 1) \div ChunkSize, (call.from + k - 1) % ChunkSize>>
  <2>1. had \in Nat
    BY <1>1, <1>2
  <2>2. call.got = [k \in 1..had |-> byte(k)]
    BY DEF RangedInv, Gives
  <2>3. Len(call.got) = had
    BY <2>1, <2>2
  <2>4. ASSUME NEW k \in 1..(had + take) PROVE (call.got \o more)[k] = byte(k)
    <3>1. CASE k <= had
      <4>1. k \in 1..had
        BY <2>1, <3>1
      <4>2. (call.got \o more)[k] = call.got[k]
        BY <1>10, <2>3, <3>1
      <4>. QED BY <2>2, <4>1, <4>2
    <3>2. CASE ~(k <= had)
      <4>. DEFINE j == k - had - 1
      <4>1. j \in 0..(take - 1) /\ j + 1 \in 1..take /\ j + 1 = k - had
            /\ call.from + k - 1 = call.at + j /\ Within + (j + 1) - 1 = Within + j
        <5>1. \A h, t, f, w \in Nat : \A i \in 1..(h + t) : ~(i <= h) =>
                /\ i - h - 1 \in 0..(t - 1) /\ (i - h - 1) + 1 \in 1..t /\ (i - h - 1) + 1 = i - h
                /\ f + i - 1 = f + h + (i - h - 1) /\ w + ((i - h - 1) + 1) - 1 = w + (i - h - 1)
          OBVIOUS
        <5>2. Within \in Nat /\ take \in Nat /\ call.from \in Nat
          BY <1>2, <1>3, <1>6
        <5>3. call.at = call.from + had
          BY <1>2
        <5>. HIDE DEF had
        <5>4. /\ j \in 0..(take - 1) /\ j + 1 \in 1..take /\ j + 1 = k - had
              /\ call.from + k - 1 = call.from + had + j /\ Within + (j + 1) - 1 = Within + j
          BY <2>1, <3>2, <5>1, <5>2
        <5>. QED BY <5>3, <5>4
      <4>2. (call.got \o more)[k] = more[j + 1]
        BY <1>10, <2>3, <3>2, <4>1
      <4>3. more[j + 1] = <<call.stream, Number, Within + j>>
        BY <1>8, <4>1
      <4>4. (call.at + j) \div ChunkSize = Number /\ (call.at + j) % ChunkSize = Within + j
        BY <1>13, <4>1
      <4>5. byte(k) = <<call.stream, (call.at + j) \div ChunkSize, (call.at + j) % ChunkSize>>
        BY <4>1
      <4>. QED BY <4>2, <4>3, <4>4, <4>5
    <3>. QED BY <3>1, <3>2
  <2>5. call.got \o more = [k \in 1..(had + take) |-> byte(k)]
    <3>1. call.got \o more = [k \in 1..Len(call.got \o more) |-> (call.got \o more)[k]]
      <4>1. PICK z \in Seq(Names \X Nat \X Nat) : z = call.got \o more
        BY <1>10
      <4>2. z = [k \in 1..Len(z) |-> z[k]]
        OBVIOUS
      <4>. QED BY <4>1, <4>2
    <3>2. Len(call.got \o more) = had + take
      BY <1>10, <2>3
    <3>. QED BY <2>4, <3>1, <3>2
  <2>6. call'.at - call'.from = had + take
    BY <1>2, <1>6, <1>11
  <2>7. \A k \in 1..(had + take) :
          byte(k) = <<call'.stream, (call'.from + k - 1) \div ChunkSize, (call'.from + k - 1) % ChunkSize>>
    BY <1>11
  <2>. HIDE DEF byte, had
  <2>. QED BY <1>11, <2>5, <2>6, <2>7 DEF Gives
<1>15. EndsRight(call')
  <2>1. ASSUME NEW p \in call.from..((call.at + take) - 1) PROVE Obtainable(call.stream, p)
    <3>1. p \in call.from..(call.at - 1) \/ p - call.at \in 0..(take - 1)
      BY <1>2, <1>6
    <3>2. CASE p \in call.from..(call.at - 1)
      BY <3>2 DEF RangedInv, EndsRight
    <3>3. CASE p - call.at \in 0..(take - 1)
      <4>1. PICK j \in 0..(take - 1) : p = call.at + j
        BY <1>2, <3>3
      <4>. QED BY <1>4, <1>13, <4>1 DEF Obtainable
    <3>. QED BY <3>1, <3>2, <3>3
  <2>2. \A p \in call'.from..(call'.at - 1) : Obtainable(call'.stream, p)
    <3>1. PICK a : a = call'.at /\ a = call.at + take
      BY <1>11
    <3>2. a - 1 = (call.at + take) - 1
      BY <3>1, Zenon
    <3>3. \A p \in call.from..((call.at + take) - 1) : Obtainable(call.stream, p)
      BY <2>1, Zenon
    <3>4. \A p \in call.from..(a - 1) : Obtainable(call.stream, p)
      BY <3>2, <3>3, Zenon
    <3>. QED BY <1>11, <3>1, <3>4, Zenon
  <2>. QED BY <1>11, <2>2, Zenon DEF EndsRight
<1>. QED BY <1>7, <1>12, <1>14, <1>15, RegionsStay DEF RangedInv

LEMMA RangedInvStep == RangedInv /\ [RangedNext]_rangedVars => RangedInv'
<1>. SUFFICES ASSUME RangedInv, [RangedNext]_rangedVars PROVE RangedInv'
  OBVIOUS
<1>1. Cached(cache) /\ thisStored \in [BevyNumbers -> Bevies]
  BY DEF RangedInv
<1>2. ASSUME NEW s \in Names, NEW region \in Regions, CallRegion(s, region) PROVE RangedInv'
  <2>. DEFINE end == region[1] + region[2]
  <2>1. region[1] \in Nat /\ end \in Nat /\ Size \in Nat /\ call.count + 1 \in Nat
    BY RangedAssumption, StreamAssumption DEF RangedInv, ReadsWithin, CallsOfRegions
  <2>2. /\ cache' = CarriedTo(cache, s) /\ UNCHANGED <<thisStored, members>>
        /\ call' = [stream |-> s, from |-> region[1], end |-> end, at |-> region[1],
                    got |-> <<>>, count |-> call.count + 1,
                    status |-> IF end > Size THEN "refused" ELSE "reading"]
    BY <1>2 DEF CallRegion
  <2>3. Cached(cache') /\ cache'.stream = s
    BY <1>1, <2>2, CarryingKeeps
  <2>. HIDE DEF end
  <2>4. call' \in CallsOfRegions
    <3>1. <<>> \in Seq(Names \X Nat \X Nat)
      OBVIOUS
    <3>2. (IF end > Size THEN "refused" ELSE "reading") \in Statuses
      BY DEF Statuses
    <3>. QED BY <2>1, <2>2, <3>1, <3>2 DEF CallsOfRegions
  <2>5. /\ call'.from = region[1] /\ call'.at = region[1] /\ call'.end = end /\ call'.got = <<>>
        /\ call'.stream = s /\ call'.status = IF end > Size THEN "refused" ELSE "reading"
    BY <2>2
  <2>6. ReadsWithin(call', cache')
    <3>1. call'.status = "reading" => end <= Size
      BY <2>1, <2>5
    <3>2. region[1] <= end /\ region[1] <= region[1]
      BY <2>1, RangedAssumption DEF end
    <3>. QED BY <2>3, <2>4, <2>5, <3>1, <3>2, Zenon DEF ReadsWithin
  <2>7. Gives(call')
    BY <2>1, <2>5 DEF Gives
  <2>8. EndsRight(call')
    BY <2>1, <2>5 DEF EndsRight
  <2>. QED BY <1>1, <2>2, <2>3, <2>6, <2>7, <2>8, RegionsStay
<1>3. CASE FetchByRange
  <2>1. /\ Wanting /\ Number \notin DOMAIN cache.chunk /\ Had(call.stream, Number)
        /\ Fetched(Indexed(cache), Number) /\ UNCHANGED <<thisStored, members>>
    BY <1>3 DEF FetchByRange, RangeServes, RangeTried, Missing, Had, Sound, Home
  <2>2. Home \in Nat /\ cache.stream = call.stream
    BY <2>1, PlaceOfTheCall
  <2>3. Cached(Indexed(cache)) /\ Indexed(cache).stream = cache.stream /\ Indexed(cache).chunk = cache.chunk
    BY <1>1, <2>2, IndexingKeeps DEF Indexed
  <2>. QED BY <2>1, <2>2, <2>3, FetchingKeeps
<1>4. CASE RangeUndecodable
  <2>1. /\ Wanting /\ ~Sound(call.stream, Number) /\ Failed(Indexed(cache))
        /\ UNCHANGED <<thisStored, members>>
    BY <1>4 DEF RangeUndecodable, RangeServes, RangeTried, Missing, Sound
  <2>2. Home \in Nat /\ Within \in Nat
    BY <2>1, PlaceOfTheCall
  <2>3. Cached(Indexed(cache))
    BY <1>1, <2>2, IndexingKeeps DEF Indexed
  <2>4. Within >= Reaches(call.stream, Number)
    BY <2>1, <2>2 DEF Reaches
  <2>. QED BY <2>1, <2>3, <2>4, FailingKeeps
<1>5. CASE IndexRefused
  <2>1. /\ Wanting /\ ~IndexServes(call.stream, HomeBevy(Number)) /\ Failed(cache)
        /\ UNCHANGED <<thisStored, members>>
    BY <1>5 DEF IndexRefused, RangeTried, Missing, Home
  <2>2. Within \in Nat
    BY <2>1, PlaceOfTheCall
  <2>3. Within >= Reaches(call.stream, Number)
    BY <2>1, <2>2 DEF Reaches
  <2>. QED BY <1>1, <2>1, <2>3, FailingKeeps
<1>. DEFINE Seen(c) == Cached(c) /\ c.stream = call.stream /\ c.chunk = cache.chunk /\ c.resident = cache.resident
<1>6. ASSUME Wanting PROVE Seen(Looked)
  <2>1. Home \in Nat /\ cache.stream = call.stream
    BY <1>6, PlaceOfTheCall
  <2>2. Seen(Indexed(cache))
    BY <1>1, <2>1, IndexingKeeps DEF Indexed
  <2>. QED BY <1>1, <2>1, <2>2 DEF Looked
<1>7. ASSUME ByBevy, BevyLoads
      PROVE  /\ Wanting /\ Number \notin DOMAIN cache.chunk
             /\ MemberOf(call.stream, Home).whole /\ IndexServes(call.stream, Home)
             /\ Cached(HoldBevy(Looked, Home)) /\ HoldBevy(Looked, Home).stream = call.stream
             /\ HoldBevy(Looked, Home).chunk = cache.chunk
  <2>1. Wanting /\ Number \notin DOMAIN cache.chunk
    BY <1>7 DEF ByBevy, Missing
  <2>2. Home \in Nat /\ cache.stream = call.stream /\ Seen(Looked)
    BY <1>6, <2>1, PlaceOfTheCall
  <2>3. MemberOf(call.stream, Home).whole /\ IndexServes(call.stream, Home)
    <3>1. CASE IsResident(cache, Home)
      <4>1. cache.resident \in Seq(Nat)
        BY <1>1 DEF Cached, Caches
      <4>2. PICK i \in 1..Len(cache.resident) : cache.resident[i] = Home
        BY <3>1, <4>1 DEF IsResident
      <4>. QED BY <1>1, <2>2, <4>2 DEF Cached, BeviesAreRead
    <3>2. CASE ~IsResident(cache, Home)
      BY <1>7, <3>2 DEF BevyLoads
    <3>. QED BY <3>1, <3>2
  <2>. QED BY <2>1, <2>2, <2>3, HoldBevyKeeps
<1>8. CASE FetchByBevy
  <2>1. /\ ByBevy /\ BevyLoads /\ Sound(call.stream, Number) /\ UNCHANGED <<thisStored, members>>
        /\ Fetched(HoldBevy(Looked, Home), Number)
    BY <1>8 DEF FetchByBevy
  <2>2. Had(call.stream, Number)
    BY <1>7, <2>1 DEF Had, Home
  <2>. QED BY <1>7, <2>1, <2>2, FetchingKeeps
<1>9. CASE ChunkNotInBevy
  <2>1. /\ ByBevy /\ BevyLoads /\ ~Sound(call.stream, Number) /\ UNCHANGED <<thisStored, members>>
        /\ Failed(HoldBevy(Looked, Home))
    BY <1>9 DEF ChunkNotInBevy
  <2>2. Within \in Nat
    BY <1>7, <2>1, PlaceOfTheCall
  <2>3. Within >= Reaches(call.stream, Number)
    BY <2>1, <2>2 DEF Reaches
  <2>. QED BY <1>7, <2>1, <2>3, FailingKeeps
<1>10. CASE BevyUnreadableHere
  <2>1. /\ ByBevy /\ ~BevyLoads /\ UNCHANGED <<thisStored, members>> /\ Failed(Looked)
    BY <1>10 DEF BevyUnreadableHere
  <2>2. Wanting
    BY <2>1 DEF ByBevy, Missing
  <2>3. ~Had(call.stream, Number)
    BY <2>1 DEF ByBevy, BevyLoads, Had, Home, IndexServes
  <2>4. Within \in Nat
    BY <2>2, PlaceOfTheCall
  <2>5. Within >= Reaches(call.stream, Number)
    BY <2>3, <2>4 DEF Reaches, Had
  <2>. QED BY <1>6, <2>1, <2>2, <2>5, FailingKeeps
<1>11. CASE ChunkTooShort
  <2>1. /\ Present /\ Within >= HeldChunk.length /\ Failed(cache) /\ UNCHANGED <<thisStored, members>>
    BY <1>11 DEF ChunkTooShort
  <2>2. Wanting /\ Within >= Reaches(call.stream, Number)
    BY <2>1, HeldCanBeHad DEF Present
  <2>. QED BY <1>1, <2>1, <2>2, FailingKeeps
<1>12. CASE Give
  BY <1>12, GivingKeeps
<1>13. ASSUME NEW status \in Statuses \ {"reading", "error"},
             call' = [call EXCEPT !.status = status], UNCHANGED <<thisStored, members, cache>>,
             status = "ok" => call.at = call.end
       PROVE  RangedInv'
  <2>1. /\ call' \in CallsOfRegions /\ call'.status = status /\ call'.stream = call.stream
        /\ call'.at = call.at /\ call'.from = call.from /\ call'.got = call.got /\ call'.end = call.end
    BY <1>13 DEF RangedInv, ReadsWithin, CallsOfRegions
  <2>2. ReadsWithin(call', cache')
    BY <2>1 DEF RangedInv, ReadsWithin
  <2>3. Gives(call')
    BY <2>1 DEF RangedInv, Gives
  <2>4. EndsRight(call')
    BY <1>13, <2>1 DEF RangedInv, EndsRight
  <2>. QED BY <1>1, <1>13, <2>2, <2>3, <2>4, RegionsStay
<1>14. CASE SinkRefuses
  BY <1>13, <1>14 DEF SinkRefuses, Statuses
<1>15. CASE RegionEnds
  BY <1>13, <1>15 DEF RegionEnds, Statuses
<1>16. CASE UNCHANGED rangedVars
  BY <1>1, <1>16, RegionsStay DEF RangedInv, rangedVars
<1>. QED BY <1>2, <1>3, <1>4, <1>5, <1>8, <1>9, <1>10, <1>11, <1>12, <1>14, <1>15, <1>16 DEF RangedNext

\* Whatever regions of whichever streams are read in whatever order, and
\* whatever is cached and evicted on the way, a region yields its own stream's
\* bytes and stops only at one that cannot be had (read_region of stream.rs).
THEOREM RegionsAreTheirStreams == RangedSpec => []RegionIsItsStream
<1>1. RangedInv => RegionIsItsStream
  BY DEF RangedInv, RegionIsItsStream, Gives, EndsRight
<1>. QED BY <1>1, RangedInvInit, RangedInvStep, PTL DEF RangedSpec
=============================================================================
