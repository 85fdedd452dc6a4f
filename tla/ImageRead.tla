----------------------------- MODULE ImageRead ------------------------------
(***************************************************************************)
(* Reading an image through its map.  read_all takes the map entry by      *)
(* entry, a region of a stream at a time (src/src/map.rs);                 *)
(* read_from_set_parallel takes each stream whole and cuts it at the ends  *)
(* of the entries that name it (src/src/image.rs); read_at serves one      *)
(* range.  The first two are told step by step, as the verification of a   *)
(* set drives them.                                                        *)
(***************************************************************************)
EXTENDS ImageMap

CONSTANTS
  SetChunkSize   \* aff4:chunkSize of every stream

ASSUME ChunkAssumption == SetChunkSize \in Nat \ {0}

VARIABLES
  map,     \* the map of the image, parsed, or Refused
  health,  \* what the volumes given hold of each stream, fixed for the run
  read     \* the traversal of the image at hand

readVars == <<map, health, read>>

-----------------------------------------------------------------------------
(* A stream as its readers find it: described by no volume, by one the      *)
(* stream's own verification does not look at, or where it looks; its data  *)
(* held by a volume or not; the chunks that do not decompress, and whether  *)
(* the members' CRCs hold, which only a reader of whole members sees.       *)

Health == [described : {"nowhere", "elsewhere", "where_read"}, held : BOOLEAN,
           crc : BOOLEAN, broken : SUBSET Nat]

ChunkOf(place) == place \div SetChunkSize
Readable(s, place) == ChunkOf(place) \notin health[s].broken

\* Mutant: a range that ends where the stream does is taken to pass its end.
RegionBytesShortOfEnd(s, from, count) ==
  IF ~health[s].held \/ from + count >= StreamSize[s] THEN 0
  ELSE LET lost == {k \in 0..(count - 1) : ~Readable(s, from + k)}
       IN IF lost = {} THEN count ELSE CHOOSE k \in lost : \A l \in lost : k <= l

\* ChunkReader::read_region: refused outright past the declared size, else the
\* bytes up to the first chunk that cannot be had.
RegionBytes(s, from, count) ==
  IF ~health[s].held \/ from + count > StreamSize[s] THEN 0
  ELSE LET lost == {k \in 0..(count - 1) : ~Readable(s, from + k)}
       IN IF lost = {} THEN count ELSE CHOOSE k \in lost : \A l \in lost : k <= l

\* The bytes of entry i a reader gets from a place within it.
EntryYields(i, from, count) ==
  LET e == map.entries[i]
  IN IF IsDescribed(map, i) THEN count
     ELSE IF IsStored(map, i) THEN RegionBytes(TargetOf(map, i).of, e.at + from, count)
     ELSE 0

-----------------------------------------------------------------------------
(* read_at *)

\* Mutant: an unknown region is served from where its entry begins.
ServedFromEntryStart(i, from, count) == EntryBytes(map, i, 0, count)

\* The bytes an entry hands to the caller's buffer.
Served(i, from, count) == EntryBytes(map, i, from, count)

Answer(ok, bytes) == [ok |-> ok, bytes |-> bytes]

\* read_at_impl from offset for count bytes; report is UnknownRegions::Report.
\* serve[p] is the call resumed at p, first its offset.
ReadAt(offset, count, report) ==
  LET stop == offset + count
      serve[p \in offset..stop] ==
        IF p = stop THEN Answer(TRUE, <<>>)
        ELSE LET i == EntryAt(map, p)
                 into == p - map.entries[i].offset
                 left == EndOf(map.entries[i]) - p
                 want == IF left < stop - p THEN left ELSE stop - p
                 rest == serve[p + want]
             IN IF i = 0 THEN Answer(TRUE, <<>>)
                ELSE IF report /\ TargetOf(map, i).kind = "unknown" THEN Answer(p > offset, <<>>)
                ELSE IF EntryYields(i, into, want) # want THEN Answer(FALSE, <<>>)
                ELSE Answer(rest.ok, Served(i, into, want) \o rest.bytes)
  IN serve[offset]

-----------------------------------------------------------------------------
(* Delivery of described entries, shared by every traversal: a progress is  *)
(* any record with position, delivered and account.                         *)

NothingCounted == [stored |-> 0, described |-> 0, unknown |-> 0, gap |-> 0]
Total(account) == account.stored + account.described + account.unknown + account.gap

\* Mutant: a filled hole is counted as a run the imager measured.
DescribedAsRun(i) == IF TargetOf(map, i).kind = "unknown" THEN "unknown" ELSE "described"

\* How read_all and emit_described count an entry they did not read.
DescribedAs(i) ==
  IF TargetOf(map, i).kind = "unknown" THEN "unknown"
  ELSE IF map.entries[i].target = map.gap THEN "gap" ELSE "described"

EmitDescribed(progress, i) ==
  [progress EXCEPT !.position = i + 1,
                   !.delivered = @ \o WholeEntry(map, i),
                   !.account[DescribedAs(i)] = @ + map.entries[i].length]

\* The first stored entry from a position on, or one past the last entry.
NextStored(position) ==
  LET after == {i \in position..Len(map.entries) : IsStored(map, i)}
  IN IF after = {} THEN Len(map.entries) + 1
     ELSE CHOOSE i \in after : \A j \in after : i <= j

\* emit_described_entries, and emit_described_until_stored of a fused image.
EmitUntilStored(progress) ==
  LET from == progress.position
  IN FoldLeft(EmitDescribed, progress,
              [k \in 1..(NextStored(from) - from) |-> from + k - 1])

-----------------------------------------------------------------------------
(* The whole image *)

NoStream == "none"
Idle == [status |-> "idle", how |-> "serial", position |-> 1, left |-> 0, stream |-> NoStream,
         at |-> 0, delivered |-> <<>>, account |-> NothingCounted]

StreamAt(position) ==
  IF position \in DOMAIN map.entries /\ IsStored(map, position)
  THEN TargetOf(map, position).of ELSE NoStream
LengthAt(position) == map.entries[position].length

\* read_from_set_parallel, up to its loop: the choice of reader and, for the
\* cutting one, the described entries the image begins with.
StartedRead ==
  IF IsSequential(map)
  THEN [EmitUntilStored(Idle) EXCEPT !.status = "reading", !.how = "cut"]
  ELSE [Idle EXCEPT !.status = "reading"]

ReadingBy(how) == read.status = "reading" /\ read.how = how

\* read_all: the bytes of one entry, or as many as come before it fails.
SerialEntry ==
  /\ ReadingBy("serial") /\ read.position \in DOMAIN map.entries
  /\ LET i == read.position
         length == LengthAt(i)
         yields == EntryYields(i, 0, length)
     IN read' = IF yields < length
                THEN [read EXCEPT !.status = "error",
                                  !.delivered = @ \o EntryBytes(map, i, 0, yields)]
                ELSE IF IsStored(map, i)
                THEN [read EXCEPT !.position = i + 1,
                                  !.delivered = @ \o WholeEntry(map, i),
                                  !.account.stored = @ + length]
                ELSE EmitDescribed(read, i)
  /\ UNCHANGED <<map, health>>

\* Both traversals end by holding what they delivered against the map.
Conclude(complete) ==
  read' = [read EXCEPT !.status =
             IF complete /\ Total(read.account) = map.size THEN "ok" ELSE "error"]

SerialReturns ==
  /\ ReadingBy("serial") /\ read.position \notin DOMAIN map.entries
  /\ Conclude(TRUE)
  /\ UNCHANGED <<map, health>>

\* stream_in_set: the next stored entry's stream is begun, if it is held.
CutOpens ==
  /\ ReadingBy("cut") /\ read.stream = NoStream
  /\ LET s == StreamAt(read.position)
     IN /\ s # NoStream
        /\ read' = IF health[s].held
                   THEN [read EXCEPT !.stream = s, !.at = 0, !.left = LengthAt(read.position)]
                   ELSE [read EXCEPT !.status = "error"]
  /\ UNCHANGED <<map, health>>

\* One byte through feed: delivered to the entry at hand, and at its end the
\* described entries that follow, then the stream's next entry if it has one.
FeedByte(progress, place) ==
  LET s == progress.stream
      fed == [progress EXCEPT !.delivered = Append(@, ByteOf(Stored(s), place)),
                              !.account.stored = @ + 1, !.left = @ - 1]
      cut == EmitUntilStored([fed EXCEPT !.position = @ + 1])
  IN IF progress.status # "reading" THEN progress
     ELSE IF progress.left = 0 THEN [progress EXCEPT !.status = "error"]
     ELSE IF fed.left > 0 THEN fed
     ELSE IF StreamAt(cut.position) = s THEN [cut EXCEPT !.left = LengthAt(cut.position)]
     ELSE cut

\* read_stream hands over a chunk, the last one truncated to the stream's size.
ChunkAt(s, at) ==
  LET end == at + SetChunkSize
  IN [k \in 1..(IF end > StreamSize[s] THEN StreamSize[s] - at ELSE SetChunkSize) |-> at + k - 1]

\* The member's CRC is checked before any of its chunks is handed over.
ChunkComes(s, at) == health[s].held /\ health[s].crc /\ Readable(s, at)

CutFeeds ==
  /\ ReadingBy("cut") /\ read.stream # NoStream /\ read.at < StreamSize[read.stream]
  /\ LET chunk == ChunkAt(read.stream, read.at)
     IN read' = IF ChunkComes(read.stream, read.at)
                THEN [FoldLeft(FeedByte, read, chunk) EXCEPT !.at = @ + Len(chunk)]
                ELSE [read EXCEPT !.status = "error"]
  /\ UNCHANGED <<map, health>>

CutStreamEnds ==
  /\ ReadingBy("cut") /\ read.stream # NoStream /\ read.at = StreamSize[read.stream]
  /\ read' = IF read.left # 0 THEN [read EXCEPT !.status = "error"]
             ELSE [read EXCEPT !.stream = NoStream]
  /\ UNCHANGED <<map, health>>

CutReturns ==
  /\ ReadingBy("cut") /\ read.stream = NoStream /\ StreamAt(read.position) = NoStream
  /\ Conclude(read.position \notin DOMAIN map.entries)
  /\ UNCHANGED <<map, health>>

ReadStep ==
  \/ SerialEntry \/ SerialReturns
  \/ CutOpens \/ CutFeeds \/ CutStreamEnds \/ CutReturns
=============================================================================
