---------------------------- MODULE ImageWriter ----------------------------
(***************************************************************************)
(* How acquire stores an image and the digests over it:                    *)
(* write_image_stream_observed with the BevyBuilder it fills               *)
(* (src/src/write/stream_writer.rs, bevy.rs) and write_map                 *)
(* (src/src/write/map_writer.rs).  What is written is what DigestTree      *)
(* verifies, in its terms: a place, and what is there.                     *)
(***************************************************************************)
EXTENDS DigestTree

CONSTANTS
  Sources,   \* what a source may hold: sequences of bytes
  Settings,  \* [blocks, algorithm, hashes, declined]: StreamOptions, and what --hash asks for
  Stream,    \* the name of the stream
  Offered(_) \* what may become of a finished container before it is verified

VARIABLES
  source,    \* what the source holds
  settings,  \* how it is to be stored
  writing,   \* where the writer is
  buffer,    \* bytes read towards a chunk
  given,     \* how many bytes the source has returned
  builder,   \* the bevy's chunks, each as [stored, digest]
  flushed,   \* bevies written
  hashed,    \* what the MultiHasher was fed
  members,   \* what is in the container
  graph      \* what its metadata records, in the order it was added

writeVars == <<source, settings, writing, buffer, given, builder, flushed, hashed, members, graph>>

-----------------------------------------------------------------------------
(* Options *)

Unset == "unset"

\* resolved_block_algorithm, of what block_algorithm_from finds in --hash.
BlockAlgorithm ==
  IF ~settings.blocks THEN Unset
  ELSE IF settings.algorithm = Unset THEN "sha256" ELSE settings.algorithm

-----------------------------------------------------------------------------
(* read_full: the source may return less than was asked for, any number of  *)
(* times; only nothing means its end.                                       *)

SourceReads(count) ==
  /\ writing = "filling"
  /\ count \in 1..(ChunkSize - Len(buffer)) /\ given + count <= Len(source)
  /\ buffer' = buffer \o SubSeq(source, given + 1, given + count)
  /\ given' = given + count
  /\ writing' = IF Len(buffer') = ChunkSize THEN "chunk" ELSE "filling"
  /\ UNCHANGED <<source, settings, builder, flushed, hashed, members, graph>>

SourceEnds ==
  /\ writing = "filling" /\ given = Len(source)
  /\ writing' = IF buffer = <<>> THEN "ended" ELSE "chunk"
  /\ UNCHANGED <<source, settings, buffer, given, builder, flushed, hashed, members, graph>>

-----------------------------------------------------------------------------
(* The stream *)

\* The last chunk is padded before it is compressed.
Padded(bytes) == [i \in 1..ChunkSize |-> IF i <= Len(bytes) THEN bytes[i] ELSE 0]

\* Mutant: the digest is over the chunk as it is stored.
DigestStored(algorithm, bytes) == <<algorithm, Padded(bytes)>>

\* "which for a short final chunk means the trimmed bytes, not the padded ones"
ChunkDigest(algorithm, bytes) == <<algorithm, bytes>>

BuilderFull(chunks) == Len(chunks) = ChunksPerBevy

\* hasher.update and push_chunk; a codec this build declines fails the first chunk.
PushChunk ==
  /\ writing = "chunk"
  /\ hashed' = hashed \o buffer
  /\ buffer' = <<>>
  /\ IF settings.declined
     THEN writing' = "failed" /\ UNCHANGED builder
     ELSE /\ builder' = Append(builder, [stored |-> Padded(buffer),
                                         digest |-> ChunkDigest(BlockAlgorithm, buffer)])
          /\ writing' = IF Len(buffer) < ChunkSize THEN "ended"
                        ELSE IF BuilderFull(builder') THEN "full" ELSE "filling"
  /\ UNCHANGED <<source, settings, given, flushed, members, graph>>

FinishedBevy(number) ==
  LET chunks == [i \in DOMAIN builder |-> builder[i].stored]
      bytes[n \in 0..Len(chunks)] == IF n = 0 THEN <<>> ELSE bytes[n - 1] \o chunks[n]
      index == [i \in DOMAIN builder |-> Stream]
      digests == [i \in DOMAIN builder |-> builder[i].digest]
  IN [place \in {<<"data", 1, Stream, number>>, <<"index", 1, Stream, number>>}
                \cup (IF BlockAlgorithm = Unset THEN {} ELSE {<<"blocks", 1, Stream, BlockAlgorithm, number>>})
        |-> CASE place[1] = "data" -> bytes[Len(chunks)]
              [] place[1] = "index" -> index
              [] place[1] = "blocks" -> digests]

Together(these, those) ==
  [place \in DOMAIN these \cup DOMAIN those |-> IF place \in DOMAIN those THEN those[place] ELSE these[place]]

\* flush_bevy, when the bevy is full or the source has ended.
BevyFlushed ==
  /\ writing = "full" \/ (writing = "ended" /\ builder # <<>>)
  /\ members' = Together(members, FinishedBevy(flushed + 1))
  /\ builder' = <<>>
  /\ flushed' = flushed + 1
  /\ writing' = IF writing = "full" THEN "filling" ELSE writing
  /\ UNCHANGED <<source, settings, buffer, given, hashed, graph>>

\* write_stream_metadata: the stream, and the digest of the segments kept.
KeptSegments ==
  LET f[n \in 0..flushed] ==
        IF n = 0 THEN <<>> ELSE f[n - 1] \o members[<<"blocks", 1, Stream, BlockAlgorithm, n>>]
  IN f[flushed]
HasSegments == BlockAlgorithm # Unset /\ flushed > 0
BlockHashesHash == Digest("sha512", KeptSegments)

StreamDescribed ==
  /\ writing = "ended" /\ builder = <<>>
  /\ graph' =
       <<[kind |-> "stream", name |-> Stream, size |-> given,
          recorded |-> [d \in (IF settings.hashes THEN {"hash"} ELSE {}) |-> Digest("sha512", hashed)]]>>
       \o (IF HasSegments
           THEN <<[kind |-> "blocks", name |-> <<Stream, BlockAlgorithm>>, stream |-> Stream,
                   algorithm |-> BlockAlgorithm, recorded |-> [d \in {"hash"} |-> BlockHashesHash]]>>
           ELSE <<>>)
  /\ writing' = "map"
  /\ UNCHANGED <<source, settings, buffer, given, builder, flushed, hashed, members>>

-----------------------------------------------------------------------------
(* The map and the image.  One entry covers the stream. *)

Entry == [mapped |-> 0, length |-> given, offset |-> 0, target |-> 0]
MapMember == [place \in {<<"map", 1>>, <<"idx", 1>>, <<"path", 1>>} |->
                CASE place[1] = "map" -> <<Entry>>
                  [] place[1] = "idx" -> <<Stream>>
                  [] place[1] = "path" -> <<>>]
SegmentDigest(kind) == Digest("sha512", MapMember[<<kind, 1>>])

\* compose_block_map_digest
ComposeBlockMap ==
  Digest("sha512", <<BlockHashesHash, SegmentDigest("map"), SegmentDigest("idx"), SegmentDigest("path")>>)

\* write_map_segments and write_block_map_digest: "Nothing is written when the
\* stream records no block hashes".
MapDigests ==
  [d \in SegmentDigests \cup (IF HasSegments THEN {"blockMapHash"} ELSE {}) |->
     CASE d = "mapHash" -> Digest("sha512", <<Entry, Stream>>)
       [] d = "blockMapHash" -> ComposeBlockMap
       [] OTHER -> SegmentDigest(MapPart[d])]

MapWritten ==
  /\ writing = "map"
  /\ members' = Together(members, MapMember)
  /\ graph' = graph
       \o <<[kind |-> "map", name |-> <<"map", 1>>, volume |-> 1, recorded |-> MapDigests]>>
       \o (IF HasSegments
           THEN <<[kind |-> "image", name |-> <<"disk">>, recorded |-> [d \in {"root"} |-> ComposeBlockMap]]>>
           ELSE <<>>)
  /\ writing' = "finish"
  /\ UNCHANGED <<source, settings, buffer, given, builder, flushed, hashed>>

\* A read or a write that fails: the container is never finished.
WriterFails ==
  /\ writing \in {"filling", "full", "ended", "map", "finish"}
  /\ writing' = "failed"
  /\ UNCHANGED <<source, settings, buffer, given, builder, flushed, hashed, members, graph>>

-----------------------------------------------------------------------------
(* ContainerWriter::finish, and verify_after_acquire of what is then there, *)
(* its objects in whatever order the metadata is read in.                   *)

Reversed(objects) == [i \in DOMAIN objects |-> objects[Len(objects) + 1 - i]]

WriterFinished(found, backwards) ==
  /\ writing = "finish"
  /\ found \in Offered(members)
  /\ evidence' = [volumes |-> <<[declares |-> TRUE, file |-> 1, map |-> 1, stream |-> 1]>>,
                  objects |-> IF backwards THEN Reversed(graph) ELSE graph,
                  written |-> members, found |-> found]
  /\ left' = evidence'.objects
  /\ writing' = "done"
  /\ UNCHANGED <<reading, verdicts, remarks, source, settings, buffer, given, builder, flushed, hashed,
                 members, graph>>

WriteInit ==
  /\ source \in Sources /\ settings \in Settings
  /\ writing = "filling" /\ buffer = <<>> /\ given = 0
  /\ builder = <<>> /\ flushed = 0 /\ hashed = <<>>
  /\ members = [place \in {} |-> <<>>] /\ graph = <<>>

WriteNext ==
  \/ \E count \in 1..ChunkSize : SourceReads(count)
  \/ SourceEnds \/ PushChunk \/ BevyFlushed \/ StreamDescribed \/ MapWritten \/ WriterFails

-----------------------------------------------------------------------------
(* Properties *)

IsAcquired == writing = "done" /\ evidence.found = members

(* "the digests recorded during acquisition are recomputed from the written   *)
(* container", and "Digests are computed from the bytes written": however the *)
(* source is sliced and wherever it ends, the finished container serves the   *)
(* source's bytes and no others, and every digest acquire recorded, and every *)
(* chunk's, is recomputed by verify and matches; none is declined.            *)
AcquiredImagesVerify ==
  (IsAcquired /\ ReportIsOut) =>
    /\ DataOf(members, 1, Stream) = source
    /\ \A i \in DOMAIN verdicts : verdicts[i].outcome = "match"
    /\ {<<verdicts[i].subject, verdicts[i].digest>> : i \in DOMAIN verdicts} =
         UNION {{<<graph[i].name, d>> : d \in DOMAIN graph[i].recorded} : i \in DOMAIN graph}
         \cup (IF HasSegments THEN {<<Stream, BlockAlgorithm>>} ELSE {})
=============================================================================
