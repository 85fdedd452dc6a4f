---------------------------- MODULE SharedStream ----------------------------
(***************************************************************************)
(* The shared ImageStream of a logical acquisition: files walked one after *)
(* another are appended end to end to one stream, each is given a          *)
(* one-entry map over the range it took, and the stream is closed after    *)
(* the last (src/src/write/shared_stream.rs, and record_shared_file in     *)
(* src/src/write/logical.rs).  A byte is abstracted to the file it belongs *)
(* to and its place in it.                                                 *)
(***************************************************************************)
EXTENDS Naturals, Sequences, SequencesExt

CONSTANTS
  ChunkSize,        \* StreamOptions::chunk_size
  ChunksPerBevy,    \* StreamOptions::chunks_per_segment
  FileCount,        \* files of the walk stored in this form
  MaxLength,        \* the most bytes one source yields (bounds the model)
  SourceMayFail,    \* whether opening or reading a source may fail
  ContainerMayFail  \* whether writing a member to the container may fail

ASSUME SharedAssumption ==
  /\ ChunkSize \in Nat \ {0} /\ ChunksPerBevy \in Nat \ {0}
  /\ FileCount \in Nat \ {0} /\ MaxLength \in Nat
  /\ SourceMayFail \in BOOLEAN /\ ContainerMayFail \in BOOLEAN

Files == 1..FileCount
Pad == <<0, 0>>
Bytes(f, from, count) == [i \in 1..count |-> <<f, from + i>>]

VARIABLES
  stage,       \* "walking", "appending", "mapping", "finished" or "failed"
  file,        \* the file at hand, and the one before the next
  taken,       \* bytes read from it: file_size
  opened,      \* the stream exists; it is created by the first file opened
  size,        \* bytes appended, "which is also the next file's offset"
  partial,     \* bytes of the chunk being assembled
  builder,     \* chunks of the bevy being filled
  storedBevies, \* bevies written
  placements,  \* offset and size of each file append returned
  mapped,      \* files whose map was written: they are acquired
  skipped,     \* files recorded as skipped
  dropped,     \* bevies a failed write took with it
  pushed       \* history: every byte pushed so far, in order

streamVars == <<opened, size, partial, builder, storedBevies, dropped, pushed>>
fileVars == <<placements, mapped, skipped>>
sharedVars == <<stage, file, taken, streamVars, fileVars>>

SharedInit ==
  /\ stage = "walking" /\ file = 0 /\ taken = 0
  /\ opened = FALSE /\ size = 0 /\ partial = <<>> /\ builder = <<>> /\ storedBevies = <<>>
  /\ placements = <<>> /\ mapped = {} /\ skipped = {}
  /\ dropped = 0 /\ pushed = <<>>

-----------------------------------------------------------------------------
(* Filling the stream *)

\* push: the bytes complete the partial chunk, and a full bevy is written.  At
\* most a chunk arrives, so at most one chunk is completed.
Joined(bytes) == partial \o bytes
Completes(bytes) == Len(Joined(bytes)) >= ChunkSize
Builder(bytes) ==
  IF Completes(bytes) THEN Append(builder, SubSeq(Joined(bytes), 1, ChunkSize)) ELSE builder

\* Mutant: a bevy is full one chunk too late.
FillsBevyLate(bytes) == Completes(bytes) /\ Len(Builder(bytes)) > ChunksPerBevy

FillsBevy(bytes) == Completes(bytes) /\ Len(Builder(bytes)) >= ChunksPerBevy

Push(bytes) ==
  /\ partial' = IF Completes(bytes)
                THEN SubSeq(Joined(bytes), ChunkSize + 1, Len(Joined(bytes)))
                ELSE Joined(bytes)
  /\ builder' = IF FillsBevy(bytes) THEN <<>> ELSE Builder(bytes)
  /\ storedBevies' = IF FillsBevy(bytes) THEN Append(storedBevies, Builder(bytes)) ELSE storedBevies
  /\ pushed' = pushed \o bytes
  /\ UNCHANGED <<opened, dropped>>

\* flush fails: the builder has given up its chunks, and the bytes after the
\* chunk that completed the bevy are not pushed.
PushFails(bytes) ==
  /\ ContainerMayFail /\ FillsBevy(bytes)
  /\ partial' = <<>> /\ builder' = <<>>
  /\ dropped' = dropped + 1
  /\ pushed' = pushed \o SubSeq(bytes, 1, ChunkSize - Len(partial))
  /\ UNCHANGED <<opened, storedBevies>>

-----------------------------------------------------------------------------
(* record_shared_file *)

Skip == skipped' = skipped \cup {file} /\ stage' = "walking"

\* The stream is created with the first file that opens.
OpenFile ==
  /\ stage = "walking" /\ file < FileCount
  /\ file' = file + 1 /\ taken' = 0
  /\ opened' = TRUE
  /\ stage' = "appending"
  /\ UNCHANGED <<size, partial, builder, storedBevies, dropped, pushed, fileVars>>

OpenFails ==
  /\ SourceMayFail
  /\ stage = "walking" /\ file < FileCount
  /\ file' = file + 1 /\ taken' = 0
  /\ skipped' = skipped \cup {file + 1}
  /\ UNCHANGED <<stage, streamVars, placements, mapped>>

\* append, a turn that fills the buffer and goes on.
Turn(count) == Bytes(file, taken, count)
AppendTurn ==
  /\ stage = "appending" /\ taken + ChunkSize <= MaxLength
  /\ Push(Turn(ChunkSize))
  /\ taken' = taken + ChunkSize
  /\ UNCHANGED <<stage, file, size, fileVars>>

\* Mutant: only the last turn's bytes are counted.
AppendEndsShort(count) ==
  /\ stage = "appending" /\ taken + count <= MaxLength
  /\ Push(Turn(count))
  /\ placements' = Append(placements, [file |-> file, offset |-> size, size |-> taken + count])
  /\ size' = size + count
  /\ taken' = taken + count
  /\ stage' = "mapping"
  /\ UNCHANGED <<file, mapped, skipped>>

\* append, the turn that finds the end of the source: at least one byte short.
AppendEnds(count) ==
  /\ stage = "appending" /\ taken + count <= MaxLength
  /\ Push(Turn(count))
  /\ placements' = Append(placements, [file |-> file, offset |-> size, size |-> taken + count])
  /\ size' = size + taken + count
  /\ taken' = taken + count
  /\ stage' = "mapping"
  /\ UNCHANGED <<file, mapped, skipped>>

\* append, a turn whose read fails: the bytes of earlier turns stay pushed.
AppendReadFails ==
  /\ SourceMayFail
  /\ stage = "appending"
  /\ Skip
  /\ UNCHANGED <<file, taken, streamVars, placements, mapped>>

\* append, a turn whose bevy cannot be written.
AppendFlushFails(count) ==
  /\ stage = "appending" /\ taken + count <= MaxLength
  /\ PushFails(Turn(count))
  /\ Skip
  /\ UNCHANGED <<file, taken, size, placements, mapped>>

WriteMap ==
  /\ stage = "mapping"
  /\ mapped' = mapped \cup {file}
  /\ stage' = "walking"
  /\ UNCHANGED <<file, taken, streamVars, placements, skipped>>

WriteMapFails ==
  /\ ContainerMayFail
  /\ stage = "mapping"
  /\ Skip
  /\ UNCHANGED <<file, taken, streamVars, placements, mapped>>

-----------------------------------------------------------------------------
(* finish_shared_stream *)

\* Now a short chunk is genuinely the last: it is padded.
LastChunk == partial \o [i \in 1..(ChunkSize - Len(partial)) |-> Pad]
LastBuilder == IF partial = <<>> THEN builder ELSE Append(builder, LastChunk)

WalkEnds == stage = "walking" /\ file = FileCount

\* Mutant: the chunk being assembled is forgotten.
CloseWithoutPartial ==
  /\ WalkEnds
  /\ partial' = <<>> /\ builder' = <<>>
  /\ storedBevies' = IF builder = <<>> THEN storedBevies ELSE Append(storedBevies, builder)
  /\ stage' = "finished"
  /\ UNCHANGED <<file, taken, opened, size, dropped, pushed, fileVars>>

\* A walk that opened no file writes no stream: everything is empty still.
CloseStream ==
  /\ WalkEnds
  /\ partial' = <<>> /\ builder' = <<>>
  /\ storedBevies' = IF LastBuilder = <<>> THEN storedBevies ELSE Append(storedBevies, LastBuilder)
  /\ stage' = "finished"
  /\ UNCHANGED <<file, taken, opened, size, dropped, pushed, fileVars>>

CloseFails ==
  /\ ContainerMayFail
  /\ WalkEnds /\ opened /\ LastBuilder # <<>>
  /\ stage' = "failed"
  /\ UNCHANGED <<file, taken, streamVars, fileVars>>

Over == stage \in {"finished", "failed"} /\ UNCHANGED sharedVars

SharedNext ==
  \/ OpenFile \/ OpenFails
  \/ AppendTurn \/ AppendReadFails
  \/ \E count \in 0..(ChunkSize - 1) : AppendEnds(count)
  \/ \E count \in 0..ChunkSize : AppendFlushFails(count)
  \/ WriteMap \/ WriteMapFails
  \/ CloseStream \/ CloseFails
  \/ Over

SharedSpec == SharedInit /\ [][SharedNext]_sharedVars

-----------------------------------------------------------------------------
(* What a reader finds *)

StoredBytes == FlattenSeq(FlattenSeq(storedBevies))
Content == StoredBytes \o FlattenSeq(builder) \o partial

\* A file read through its map.
Placed(p) == SubSeq(StoredBytes, p.offset + 1, p.offset + p.size)
ReadsBack(p) ==
  /\ p.offset + p.size <= Len(StoredBytes)
  /\ Placed(p) = Bytes(p.file, 0, p.size)

PlacedFiles == {placements[i].file : i \in 1..Len(placements)}

\* Files whose append failed after pushing bytes, which size does not count; the
\* places of those bytes in the stream, and of the ones before a file's own.
Interrupted ==
  {f \in skipped \ PlacedFiles : \E place \in 1..Len(pushed) : pushed[place][1] = f}
Left == {place \in 1..Len(pushed) : pushed[place][1] \in Interrupted}
LeftBefore(f) == {place \in Left : pushed[place][1] < f}

\* Bytes of the file at hand, which size does not count yet.
Pending == IF stage = "appending" THEN taken ELSE 0

\* The byte before a placement's first: the offset is short of it by the bytes
\* left before the file.
Start(p) == p.offset + Cardinality(LeftBefore(p.file))
Within(p, place) == Start(p) < place /\ place <= Start(p) + p.size
RangeIsOwn(p) ==
  /\ Start(p) + p.size <= Len(pushed)
  /\ \A j \in 1..p.size : pushed[Start(p) + j] = <<p.file, j>>
Accounted(place) ==
  \/ place \in Left
  \/ stage = "appending" /\ pushed[place][1] = file
  \/ \E i \in 1..Len(placements) : Within(placements[i], place)

-----------------------------------------------------------------------------
(* Properties *)

Byte == (Files \X (1..MaxLength)) \cup {Pad}
Chunk == {c \in Seq(Byte) : Len(c) = ChunkSize}

SharedTypeOK ==
  /\ stage \in {"walking", "appending", "mapping", "finished", "failed"}
  /\ file \in 0..FileCount /\ taken \in 0..MaxLength
  /\ opened \in BOOLEAN
  /\ size \in 0..(FileCount * MaxLength)
  /\ partial \in Seq(Byte) /\ Len(partial) < ChunkSize
  /\ \A i \in 1..Len(builder) : builder[i] \in Chunk
  /\ Len(builder) < ChunksPerBevy
  /\ \A b \in 1..Len(storedBevies) : Len(storedBevies[b]) \in 1..ChunksPerBevy
  /\ placements \in Seq([file : Files, offset : Nat, size : 0..MaxLength])
  /\ mapped \subseteq PlacedFiles /\ skipped \subseteq Files \ mapped
  /\ dropped \in 0..(FileCount * MaxLength)
  /\ pushed \in Seq(Files \X (1..MaxLength))

(* "Bytes appended so far, which is also the next file's offset": of the     *)
(* bytes pushed, size counts all but those a failed append left and those of *)
(* the file at hand; each counted byte is at its place in its file's range,  *)
(* which begins as far past the offset as bytes were left before it; and     *)
(* unless a bevy was dropped the stream holds what was pushed, in order, and *)
(* before its close nothing else.                                            *)
PushedBytesAreCountedOrLeft ==
  /\ Len(pushed) = size + Pending + Cardinality(Left)
  /\ \A i \in 1..Len(placements) : RangeIsOwn(placements[i])
  /\ \A place \in 1..Len(pushed) : Accounted(place)
  /\ dropped = 0 =>
       IF stage = "finished" THEN IsPrefix(pushed, Content) ELSE Content = pushed

(* "The file's first byte, as an offset into the shared stream": what a      *)
(* placement's offset is documented to be.                                   *)
OffsetsAreFirstBytes ==
  \A i \in 1..Len(placements) :
    placements[i].size > 0 => pushed[placements[i].offset + 1] = <<placements[i].file, 1>>

(* A file recorded as acquired reads back its own bytes through its map, as  *)
(* long as every append that failed had pushed nothing.                      *)
AcquiredFilesReadBack ==
  stage = "finished" /\ dropped = 0 /\ Interrupted = {} =>
    \A i \in 1..Len(placements) : placements[i].file \in mapped => ReadsBack(placements[i])

=============================================================================
