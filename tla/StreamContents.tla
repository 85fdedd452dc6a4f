--------------------------- MODULE StreamContents ---------------------------
(***************************************************************************)
(* The stored form of one ImageStream as its readers meet it               *)
(* (src/src/stream.rs): numbered bevies, each a ZIP member of chunks with  *)
(* an index.  A chunk is abstracted to the number of bytes it decompresses *)
(* to, with Undecodable for one that does not decompress; a stream is      *)
(* read by read_all_observed and by the parallel pipeline alike.           *)
(***************************************************************************)
EXTENDS Naturals, Sequences, SequencesExt

CONSTANTS
  ChunkSize,      \* aff4:chunkSize
  ChunksPerBevy,  \* aff4:chunksInSegment
  Size            \* aff4:size, the declared length of the stream

ASSUME StreamAssumption ==
  /\ ChunkSize \in Nat \ {0}
  /\ ChunksPerBevy \in Nat \ {0}
  /\ Size \in Nat

\* ImageStream::bevy_count, a ceiling division.
BevyBytes == ChunkSize * ChunksPerBevy
BevyCount == (Size + BevyBytes - 1) \div BevyBytes
BevyNumbers == 0..(BevyCount - 1)

\* A chunk that slice_chunk or decompress_chunk rejects, as the latter rejects
\* one that grows past chunkSize.
Undecodable == ChunkSize + 1
Chunks == 0..Undecodable

\* A bevy whose member or index cannot be read has readable = FALSE; one named
\* by another volume is the same to a reader.
Bevies == [readable : BOOLEAN, chunks : Seq(Chunks)]

\* parse_index_bounded: an empty index and an over-long one are both refused.
IndexAccepted(bevy) == Len(bevy.chunks) \in 1..ChunksPerBevy

\* decode_bevy decompresses every chunk the index lists, needed or not.
Decodes(bevy) ==
  /\ IndexAccepted(bevy)
  /\ \A i \in 1..Len(bevy.chunks) : bevy.chunks[i] # Undecodable

\* refuse_short_chunk: short of chunkSize with stream bytes still to follow.
ShortAt(plain, delivered) == plain < ChunkSize /\ delivered + plain < Size

\* The chunk is truncated to the declared size before it reaches the sink.
Truncated(plain, delivered) ==
  IF plain > Size - delivered THEN Size - delivered ELSE plain

(***************************************************************************)
(* The chunk loop, one turn per chunk: at counts the bytes delivered and   *)
(* status says how the loop left, "reading" while it has not.  The serial  *)
(* reader decompresses a chunk in its turn; the pipeline's consumer meets  *)
(* only bevies that decoded, so the same turn serves both.                 *)
(***************************************************************************)
Progress == [status : {"reading", "failed", "refused"}, at : 0..Size]

DeliverChunk(progress, plain) ==
  IF progress.status # "reading" \/ progress.at >= Size THEN progress
  ELSE IF plain = Undecodable THEN [progress EXCEPT !.status = "failed"]
  ELSE IF ShortAt(plain, progress.at) THEN [progress EXCEPT !.status = "refused"]
  ELSE [progress EXCEPT !.at = @ + Truncated(plain, @)]

\* One bevy's chunks from a given position.
DeliverBevy(bevy, delivered) ==
  FoldLeft(DeliverChunk, [status |-> "reading", at |-> delivered], bevy.chunks)

(***************************************************************************)
(* read_all_observed as a function of the stored stream: the progress      *)
(* after each bevy.  A bevy is opened only while bytes are still missing.  *)
(***************************************************************************)
SerialBevy(bevy, before) ==
  IF before.status # "reading" \/ before.at >= Size THEN before
  ELSE IF ~bevy.readable \/ ~IndexAccepted(bevy)
       THEN [before EXCEPT !.status = "failed"]
  ELSE DeliverBevy(bevy, before.at)

SerialAfter(stored) ==
  LET read[n \in 0..BevyCount] ==
        IF n = 0 THEN [status |-> "reading", at |-> 0]
        ELSE SerialBevy(stored[n - 1], read[n - 1])
  IN read[BevyCount]

\* The bytes a serial read hands to the sink, and the final length check.
SerialBytes(stored) == SerialAfter(stored).at
SerialOutcome(stored) ==
  LET last == SerialAfter(stored)
  IN IF last.status # "reading" THEN last.status
     ELSE IF last.at = Size THEN "ok" ELSE "short"

(***************************************************************************)
(* A stream exactly as a writer lays it out: every bevy readable, every    *)
(* chunk padded to chunkSize, and no more chunks than the size needs.      *)
(***************************************************************************)
ChunkCount == (Size + ChunkSize - 1) \div ChunkSize
SoundChunks(b) ==
  LET left == ChunkCount - b * ChunksPerBevy
  IN IF left < ChunksPerBevy THEN left ELSE ChunksPerBevy
SoundBevy(b) == [readable |-> TRUE, chunks |-> [i \in 1..SoundChunks(b) |-> ChunkSize]]
SoundStream == [b \in BevyNumbers |-> SoundBevy(b)]

\* Chunks the index lists past the ones the declared size needs: the serial
\* reader never opens them.
HasBadSpare(stored) ==
  \E b \in BevyNumbers : \E i \in 1..Len(stored[b].chunks) :
    stored[b].chunks[i] = Undecodable /\ b * ChunksPerBevy + i > ChunkCount
=============================================================================
