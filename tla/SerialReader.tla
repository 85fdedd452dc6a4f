---------------------------- MODULE SerialReader ----------------------------
(***************************************************************************)
(* ImageStream::read_all_observed in src/src/stream.rs, one step per bevy  *)
(* opened and per chunk delivered: the reader every other one is measured  *)
(* against.                                                                *)
(***************************************************************************)
EXTENDS StreamContents

CONSTANTS
  Streams,     \* the stored streams a run chooses from
  SinkMayFail  \* whether the caller's sink may return an error

ASSUME SerialAssumption ==
  /\ Streams \subseteq [BevyNumbers -> Bevies]
  /\ SinkMayFail \in BOOLEAN

VARIABLES
  stored,     \* the stream being read
  bevy,       \* the loop over 0..bevy_count
  chunk,      \* chunks of the open bevy already handled
  open,       \* a bevy has been read and its index accepted
  delivered,  \* bytes the sink has accepted
  completed,  \* the last count given to on_bevy
  outcome     \* "reading", then how the call returned

serialVars == <<stored, bevy, chunk, open, delivered, completed, outcome>>

Outcomes == {"reading", "ok", "failed", "refused", "short", "sink"}

SerialInit ==
  /\ stored \in Streams
  /\ bevy = 0 /\ chunk = 0 /\ open = FALSE
  /\ delivered = 0 /\ completed = 0
  /\ outcome = "reading"

LoopEnded == bevy = BevyCount \/ delivered >= Size

Reading == outcome = "reading"
Fails(kind) ==
  /\ outcome' = kind
  /\ UNCHANGED <<stored, bevy, chunk, open, delivered, completed>>

\* Name, index and member are read and the index parsed before any chunk is.
OpenBevy ==
  /\ Reading /\ ~open /\ ~LoopEnded
  /\ stored[bevy].readable /\ IndexAccepted(stored[bevy])
  /\ open' = TRUE /\ chunk' = 0
  /\ UNCHANGED <<stored, bevy, delivered, completed, outcome>>

BevyUnreadable ==
  /\ Reading /\ ~open /\ ~LoopEnded
  /\ ~stored[bevy].readable \/ ~IndexAccepted(stored[bevy])
  /\ Fails("failed")

\* The chunk loop goes on while chunks are listed and bytes are missing.
AtChunk == Reading /\ open /\ chunk < Len(stored[bevy].chunks) /\ delivered < Size
Plain == stored[bevy].chunks[chunk + 1]

ChunkUndecodable == AtChunk /\ Plain = Undecodable /\ Fails("failed")

ChunkRefused ==
  /\ AtChunk /\ Plain # Undecodable
  /\ ShortAt(Plain, delivered)
  /\ Fails("refused")

\* Mutant: the padding of the last chunk is delivered with the evidence.
DeliverPadded ==
  /\ AtChunk /\ Plain # Undecodable /\ ~ShortAt(Plain, delivered)
  /\ delivered' = delivered + Plain
  /\ chunk' = chunk + 1
  /\ UNCHANGED <<stored, bevy, open, completed, outcome>>

\* Mutant: short chunks are joined to the next one.
DeliverShort ==
  /\ AtChunk /\ Plain # Undecodable
  /\ delivered' = delivered + Truncated(Plain, delivered)
  /\ chunk' = chunk + 1
  /\ UNCHANGED <<stored, bevy, open, completed, outcome>>

\* delivered counts what the sink accepted: a count the code takes before the
\* call is lost with the error.
SinkFails ==
  /\ SinkMayFail
  /\ AtChunk /\ Plain # Undecodable /\ ~ShortAt(Plain, delivered)
  /\ Fails("sink")

Deliver ==
  /\ AtChunk /\ Plain # Undecodable /\ ~ShortAt(Plain, delivered)
  /\ delivered' = delivered + Truncated(Plain, delivered)
  /\ chunk' = chunk + 1
  /\ UNCHANGED <<stored, bevy, open, completed, outcome>>

\* on_bevy after the last chunk of a bevy, or the last one needed.
BevyDone ==
  /\ Reading /\ open /\ ~AtChunk
  /\ bevy' = bevy + 1
  /\ completed' = bevy + 1
  /\ open' = FALSE
  /\ UNCHANGED <<stored, chunk, delivered, outcome>>

\* Mutant: the end of the bevies is taken for the end of the stream.
ReturnUnchecked ==
  /\ Reading /\ ~open /\ LoopEnded
  /\ Fails("ok")

\* The length check that ends the call.
Return ==
  /\ Reading /\ ~open /\ LoopEnded
  /\ Fails(IF delivered = Size THEN "ok" ELSE "short")

Returned == ~Reading /\ UNCHANGED serialVars

SerialNext ==
  \/ OpenBevy \/ BevyUnreadable
  \/ ChunkUndecodable \/ ChunkRefused \/ SinkFails \/ Deliver \/ BevyDone
  \/ Return \/ Returned

SerialSpec == SerialInit /\ [][SerialNext]_serialVars

-----------------------------------------------------------------------------
(* Properties *)

TypeOK ==
  /\ stored \in Streams
  /\ bevy \in 0..BevyCount
  /\ chunk \in 0..ChunksPerBevy
  /\ open \in BOOLEAN
  /\ delivered \in 0..Size
  /\ completed \in 0..BevyCount
  /\ outcome \in Outcomes

(* The loop ends as its functional reading says it does: the same bytes and *)
(* the same kind of end, unless the sink failed.                            *)
AgreesWithSerialOutcome ==
  outcome \notin {"reading", "sink"} =>
    /\ outcome = SerialOutcome(stored)
    /\ delivered = SerialBytes(stored)

(* refuse_short_chunk: "Every chunk before this one was full, or it would   *)
(* have been refused", so chunk n is delivered at n * chunkSize and its     *)
(* error can name the chunk by dividing.  It is not so of every stream: an  *)
(* index that lists fewer than chunksInSegment chunks before the last bevy  *)
(* is accepted, and every byte after it lands at the wrong offset.          *)
ChunkPosition == bevy * ChunksPerBevy + chunk
ChunkAtItsOffset == AtChunk => delivered = ChunkPosition * ChunkSize

(* The reader implements the promise of StreamRead.                         *)
AbstractOutcome ==
  CASE outcome = "reading" -> "reading" [] outcome = "ok" -> "ok" [] OTHER -> "error"
Promise == INSTANCE StreamRead
  WITH outcome <- AbstractOutcome, FaultsPossible <- SinkMayFail
ImplementsStreamRead == Promise!ReadSpec
=============================================================================
