--------------------------- MODULE LogicalAcquire ---------------------------
(***************************************************************************)
(* A logical acquisition (run_acquire_logical in src/src/main.rs,          *)
(* src/src/write/logical.rs): the walk's items, taken from the scanner's   *)
(* queue as they come, from a list made before, or from an inline walk of  *)
(* each root, are recorded one after another in the metadata and stored in *)
(* the volume.  The file and the graph are written by one thread; what can *)
(* fail is each read of the source and each write to the volume.           *)
(***************************************************************************)
EXTENDS ScanWalk, ChunkPool, ZipVolume, FiniteSets

CONSTANTS
  Modes,           \* of "scanned", "prescanned" and "inline"
  Forms,           \* of "legacy", "v21" and "dedupe": profile, --deduplicate
  ContentOf,       \* file -> the bytes it may be found to hold
  BigAttribute,    \* files with an attribute too large for the metadata
  ReservedFiles,   \* files whose segment would have a reserved name
  ZipsegLimit,     \* ZIPSEGMENT_THRESHOLD
  CommonMapLimit,  \* COMMONMAP_THRESHOLD
  ChunksPerBevy,   \* StreamOptions::chunks_per_segment
  MaxFaults        \* failed reads, writes and mintings (bounds the model)

ASSUME LogicalAssumption ==
  /\ Modes \subseteq {"scanned", "prescanned", "inline"}
  /\ Forms \subseteq {"legacy", "v21", "dedupe"}
  /\ BigAttribute \subseteq Entries /\ ReservedFiles \subseteq Entries
  /\ ZipsegLimit \in Nat /\ CommonMapLimit \in Nat
  /\ ChunksPerBevy \in Nat \ {0} /\ MaxFaults \in Nat

Files == {p \in Entries : Kind[p] = "file"}
TaskArn == "the acquisition task"

VARIABLES
  mode,      \* how the items reach the acquisition
  form,      \* what the options say of storage
  phase,     \* where run_acquire_logical stands
  feed,      \* items already collected
  rootsLeft, \* roots the inline walk has still to collect
  open,      \* acquire_from_items' stack of open directories
  roots,     \* acquired roots
  inHand,    \* the file being recorded
  edges,     \* aff4:child and aff4:filesystemRoot
  types,     \* <<subject, type>>
  attributes,\* files whose large attribute the graph names
  skipped,   \* result.skipped: <<path, why>>
  changed,   \* result.changed
  held,      \* acquired file -> the form that holds it and the bytes it read
  pending,   \* result.deduped: file -> its target IDs
  pool,      \* the chunk pool
  shared,    \* the shared stream has been opened
  volume,    \* ZipVolume
  faults

feedVars == <<mode, form, feed, rootsLeft>>
treeVars == <<open, roots, edges>>
storeVars == <<types, attributes, held, changed, pending, pool, shared, volume>>
logicalVars == <<scanVars, feedVars, treeVars, storeVars, phase, inHand, skipped, faults>>

Fault == faults < MaxFaults /\ faults' = faults + 1
NoFault == UNCHANGED faults

LogicalInit ==
  /\ mode \in Modes /\ form \in Forms
  /\ ScanInit /\ scanner = (IF mode = "prescanned" THEN "walking" ELSE "unborn")
  /\ phase = (IF mode = "prescanned" THEN "collecting" ELSE "creating")
  /\ feed = <<>> /\ rootsLeft = <<>>
  /\ open = <<>> /\ roots = {} /\ edges = {} /\ inHand = NoItem
  /\ types = {} /\ attributes = {} /\ skipped = {} /\ changed = {}
  /\ held = <<>> /\ pending = <<>> /\ pool = EmptyPool /\ shared = FALSE
  /\ volume = NewVolume /\ faults = 0

-----------------------------------------------------------------------------
(* Before the first item: run_acquire_logical *)

\* scanner.items.iter().collect()
Collect ==
  /\ phase = "collecting" /\ channel # <<>>
  /\ feed' = Append(feed, Head(channel)) /\ channel' = Tail(channel)
  /\ UNCHANGED <<walk, item, scanner, totals, receiving, sent, mode, form, rootsLeft,
                 treeVars, storeVars, phase, inHand, skipped, faults>>

\* The channel has no sender left, and the scanner is joined.
CollectEnds ==
  /\ phase = "collecting" /\ channel = <<>> /\ scanner = "gone"
  /\ phase' = "creating"
  /\ UNCHANGED <<scanVars, feedVars, treeVars, storeVars, inHand, skipped, faults>>

Segment(what, owner, number, data) ==
  [name |-> <<what, owner, number>>, data |-> data, large |-> FALSE]
Preamble == << Segment("container.description", "volume", 0, <<0>>),
               Segment("version.txt", "volume", 0, <<0>>) >>

\* ContainerWriter::create; a scanned acquisition then spawns its scanner, an
\* inline one collects its roots one by one.
Create ==
  /\ phase = "creating"
  /\ \E members \in {Preamble} : volume' = AddAll(volume, members)
  /\ scanner' = IF mode = "scanned" THEN "walking" ELSE scanner
  /\ rootsLeft' = IF mode = "inline" THEN Roots ELSE <<>>
  /\ phase' = "items"
  /\ UNCHANGED <<walk, item, totals, channel, receiving, sent, mode, form, feed, treeVars,
                 types, attributes, held, changed, pending, pool, shared, inHand, skipped, faults>>

CreateFails ==
  /\ phase = "creating" /\ Fault
  /\ phase' = "failed"
  /\ UNCHANGED <<scanVars, feedVars, treeVars, storeVars, inHand, skipped>>

-----------------------------------------------------------------------------
(* acquire_from_items *)

Ready == phase = "items" /\ inHand = NoItem
Next1 == IF mode = "scanned" THEN channel ELSE feed
Arrived(kind) == Ready /\ Next1 # <<>> /\ Head(Next1).kind = kind
Path == Head(Next1).path
Take ==
  IF mode = "scanned"
  THEN channel' = Tail(channel) /\ UNCHANGED <<walk, item, scanner, totals, receiving, sent, feed>>
  ELSE feed' = Tail(feed) /\ UNCHANGED scanVars

\* collect_items, for the next root.
NextRoot ==
  /\ Ready /\ feed = <<>> /\ rootsLeft # <<>>
  /\ feed' = InlineItems[Head(rootsLeft)] /\ rootsLeft' = Tail(rootsLeft)
  /\ UNCHANGED <<scanVars, mode, form, treeVars, storeVars, phase, inHand, skipped, faults>>

TakeSkipped ==
  /\ Arrived("Skipped") /\ Take
  /\ skipped' = skipped \cup {<<Path, "not walked">>}
  /\ UNCHANGED <<mode, form, rootsLeft, treeVars, storeVars, phase, inHand, faults>>

TakeDir ==
  /\ Arrived("Dir") /\ Take
  /\ types' = types \cup {<<Path, "Folder">>}
  /\ open' = Append(open, [dir |-> Path, children |-> {}])
  /\ UNCHANGED <<mode, form, rootsLeft, roots, edges, attributes, held, changed, pending,
                 pool, shared, volume, phase, inHand, skipped, faults>>

\* An entry that was acquired becomes a child of the innermost open directory,
\* or a root.
Joins(stack, path) ==
  IF stack = <<>> THEN roots' = roots \cup {path} /\ open' = stack
  ELSE /\ open' = [stack EXCEPT ![Len(stack)].children = @ \cup {path}]
       /\ UNCHANGED roots

ChildEdges(dir) == {<<dir.dir, child>> : child \in dir.children}
WritesChildren == form # "v21"

\* Mutant: a closed directory is a root.
TakeDirEndAsRoot ==
  /\ Arrived("DirEnd") /\ Take
  /\ open' = Front(open) /\ roots' = roots \cup {Last(open).dir}
  /\ edges' = edges \cup (IF WritesChildren THEN ChildEdges(Last(open)) ELSE {})
  /\ UNCHANGED <<mode, form, rootsLeft, storeVars, phase, inHand, skipped, faults>>

\* The v2.1 profile defines no child edge.
TakeDirEnd ==
  /\ Arrived("DirEnd") /\ Take /\ open # <<>>
  /\ Joins(Front(open), Last(open).dir)
  /\ edges' = edges \cup (IF WritesChildren THEN ChildEdges(Last(open)) ELSE {})
  /\ UNCHANGED <<mode, form, rootsLeft, storeVars, phase, inHand, skipped, faults>>

\* Mutant: the scanner is joined with its channel still held.
MintFailsHoldingTheQueue ==
  /\ (Arrived("Dir") \/ Arrived("File")) /\ form = "v21" /\ Fault /\ Take
  /\ phase' = IF mode = "scanned" THEN "abandoning" ELSE "failed"
  /\ UNCHANGED <<mode, form, rootsLeft, treeVars, storeVars, inHand, skipped>>

\* No ARN can be minted: the items are dropped on the way out, and with them
\* the channel.
MintFails ==
  /\ (Arrived("Dir") \/ Arrived("File")) /\ form = "v21" /\ Fault
  /\ IF mode = "scanned"
     THEN /\ phase' = "abandoning" /\ receiving' = FALSE /\ channel' = <<>>
          /\ UNCHANGED <<walk, item, scanner, totals, sent>>
     ELSE phase' = "failed" /\ UNCHANGED scanVars
  /\ UNCHANGED <<feedVars, treeVars, storeVars, inHand, skipped>>

\* Table 3 and the file's types; write_extended_attributes, where a large
\* value takes a segment of its own before the parent's edge to it.
Attribute(path) == Segment("attribute", path, 0, <<0>>)
HasSegmentAttribute(path) == form = "v21" /\ path \in BigAttribute
FileTaken ==
  /\ Arrived("File") /\ Take
  /\ inHand' = Head(Next1)
  /\ types' = types \cup {<<Path, "FileImage">>}

TakeFile ==
  /\ FileTaken /\ NoFault
  /\ IF HasSegmentAttribute(Path)
     THEN volume' = Add(volume, Attribute(Path)) /\ attributes' = attributes \cup {Path}
     ELSE UNCHANGED <<volume, attributes>>
  /\ UNCHANGED <<mode, form, rootsLeft, treeVars, held, changed, pending, pool, shared,
                 phase, skipped>>

TakeFileAttributeFails ==
  /\ FileTaken /\ Fault /\ HasSegmentAttribute(Path)
  /\ volume' \in AddBreaks(volume, Attribute(Path))
  /\ skipped' = skipped \cup {<<Path, "attribute">>}
  /\ UNCHANGED <<mode, form, rootsLeft, treeVars, attributes, held, changed, pending, pool,
                 shared, phase>>

-----------------------------------------------------------------------------
(* record_file: where the content goes *)

\* choose_storage, for a file's own content and no forced form; deduplication
\* comes before it.
Storage(path) ==
  CASE form = "dedupe" -> "pool"
    [] form = "legacy" -> IF SizeOf[path] <= SegmentLimit THEN "segment" ELSE "stream"
    [] OTHER -> IF SizeOf[path] <= ZipsegLimit THEN "segment"
                ELSE IF SizeOf[path] <= CommonMapLimit THEN "shared" ELSE "stream"

File == inHand.path
Recording(storage) == phase = "items" /\ inHand # NoItem /\ Storage(File) = storage
recordFrame == <<scanVars, feedVars, edges, phase, attributes>>

\* The file is a child of its directory whether or not its bytes were stored.
FileRecorded == inHand' = NoItem /\ Joins(open, File)
Passed == FileRecorded /\ skipped' = skipped \cup {<<File, "not stored">>} /\ UNCHANGED held
Acquired(bytes) ==
  /\ FileRecorded /\ UNCHANGED skipped
  /\ held' = [p \in DOMAIN held \cup {File} |->
                IF p = File THEN [storage |-> Storage(File), bytes |-> bytes] ELSE held[p]]

\* The length recorded is what was read, and a difference is reported.
Compared(bytes) ==
  changed' = changed \cup (IF Len(bytes) # SizeOf[File] THEN {File} ELSE {})

\* Opening the file fails, or reading it whole does.
RecordUnreadable ==
  /\ phase = "items" /\ inHand # NoItem /\ Fault
  /\ Passed
  /\ UNCHANGED <<recordFrame, types, changed, pending, pool, shared, volume>>

Content(bytes) ==
  [name |-> <<"segment", File, 0>>, data |-> bytes, large |-> form = "v21"]
SegmentTyped == types' = types \cup {<<File, "ZipSegment">>}

StoreSegment(bytes) ==
  /\ Recording("segment") /\ File \notin ReservedFiles /\ NoFault
  /\ Acquired(bytes) /\ Compared(bytes)
  /\ SegmentTyped
  /\ volume' = Add(volume, Content(bytes))
  /\ UNCHANGED <<recordFrame, pending, pool, shared>>

StoreReserved(bytes) ==
  /\ Recording("segment") /\ File \in ReservedFiles /\ NoFault
  /\ Passed /\ Compared(bytes)
  /\ UNCHANGED <<recordFrame, types, pending, pool, shared, volume>>

StoreSegmentFails(bytes) ==
  /\ Recording("segment") /\ File \notin ReservedFiles /\ Fault
  /\ Passed /\ Compared(bytes)
  /\ SegmentTyped
  /\ volume' \in AddBreaks(volume, Content(bytes))
  /\ UNCHANGED <<recordFrame, pending, pool, shared>>

\* The bevies of a stream, each with its index and, if asked for, its digests.
Bevy(chunks, k) ==
  SubSeq(chunks, (k - 1) * ChunksPerBevy + 1, Smaller(k * ChunksPerBevy, Len(chunks)))
Bevies(chunks) == (Len(chunks) + ChunksPerBevy - 1) \div ChunksPerBevy
BevyMembers(owner, chunks, hashed) ==
  FlattenSeq([k \in 1..Bevies(chunks) |->
    << [name |-> <<"bevy", owner, k>>, large |-> TRUE,
        data |-> FlattenSeq([i \in 1..Len(Bevy(chunks, k)) |-> Padded(Bevy(chunks, k)[i])])],
       Segment("index", owner, k, [i \in 1..Len(Bevy(chunks, k)) |-> PoolChunkSize]) >>
    \o (IF hashed THEN <<Segment("blockHash", owner, k, Bevy(chunks, k))>> ELSE <<>>)])

\* record_large_file: block hashes whatever the options say.
OwnStream(bytes) == BevyMembers(File, Chunks(bytes), TRUE)

StoreStream(bytes) ==
  /\ Recording("stream") /\ NoFault
  /\ Acquired(bytes) /\ Compared(bytes)
  /\ types' = types \cup {<<File, "ImageStream">>}
  /\ \E members \in {OwnStream(bytes)} : volume' = AddAll(volume, members)
  /\ UNCHANGED <<recordFrame, pending, pool, shared>>

\* A chunk cannot be read: the bevies full by then are in the volume.
StoreStreamUnread(bytes, n) ==
  /\ Recording("stream") /\ Fault /\ n * ChunksPerBevy * PoolChunkSize <= Len(bytes)
  /\ Passed
  /\ volume' = AddAll(volume, BevyMembers(File, SubSeq(Chunks(bytes), 1, n * ChunksPerBevy), TRUE))
  /\ UNCHANGED <<recordFrame, types, changed, pending, pool, shared>>

StoreStreamFails(bytes) ==
  /\ Recording("stream") /\ Fault
  /\ Passed
  /\ volume' \in AddAllBreaks(volume, OwnStream(bytes))
  /\ UNCHANGED <<recordFrame, types, changed, pending, pool, shared>>

\* record_deduplicated_file: the map waits until every file has been pooled.
StorePooled(bytes) ==
  /\ Recording("pool") /\ NoFault
  /\ Acquired(bytes) /\ Compared(bytes)
  /\ \E absorbed \in {Absorbed(pool, bytes)} :
       /\ pool' = absorbed
       /\ pending' = Append(pending, [file |-> File, size |-> Len(bytes),
                                      targets |-> Targets(absorbed, bytes)])
  /\ UNCHANGED <<recordFrame, types, shared, volume>>

\* A chunk cannot be read: the chunks before it stay in the pool.
StorePooledUnread(bytes, n) ==
  /\ Recording("pool") /\ Fault /\ n * PoolChunkSize <= Len(bytes)
  /\ Passed
  /\ pool' = Absorbed(pool, SubSeq(bytes, 1, n * PoolChunkSize))
  /\ UNCHANGED <<recordFrame, types, changed, pending, shared, volume>>

\* record_shared_file.  SharedStream has what becomes of the bytes; here the
\* stream is one the first file opened, and the file's own map is written.
MapMembers(owner, entries, targets) ==
  << Segment("map", owner, 0, entries), Segment("idx", owner, 0, targets),
     Segment("mapPath", owner, 0, <<>>) >>
SharedMap(bytes) ==
  MapMembers(File, <<[at |-> 0, length |-> Len(bytes), local |-> 0]>>, <<"shared">>)

StoreShared(bytes) ==
  /\ Recording("shared") /\ NoFault
  /\ Acquired(bytes) /\ Compared(bytes)
  /\ shared' = TRUE
  /\ types' = types \cup {<<File, "Map">>}
  /\ \E members \in {SharedMap(bytes)} : volume' = AddAll(volume, members)
  /\ UNCHANGED <<recordFrame, pending, pool>>

\* append fails: the stream stays open for the files to come.
StoreSharedUnplaced ==
  /\ Recording("shared") /\ Fault
  /\ Passed
  /\ shared' = TRUE
  /\ UNCHANGED <<recordFrame, types, changed, pending, pool, volume>>

StoreSharedUnmapped(bytes) ==
  /\ Recording("shared") /\ Fault
  /\ Passed /\ Compared(bytes)
  /\ shared' = TRUE
  /\ volume' \in AddAllBreaks(volume, SharedMap(bytes))
  /\ UNCHANGED <<recordFrame, types, pending, pool>>

StoreFile ==
  /\ inHand # NoItem
  /\ \E bytes \in ContentOf[File] :
       \/ StoreSegment(bytes) \/ StoreReserved(bytes) \/ StoreStream(bytes)
       \/ StorePooled(bytes) \/ StoreShared(bytes)

StoreFileFails ==
  \/ RecordUnreadable \/ StoreSharedUnplaced
  \/ /\ inHand # NoItem
     /\ \E bytes \in ContentOf[File] :
          \/ StoreSegmentFails(bytes) \/ StoreStreamFails(bytes) \/ StoreSharedUnmapped(bytes)
          \/ \E n \in 0..Len(bytes) : StoreStreamUnread(bytes, n) \/ StorePooledUnread(bytes, n)

-----------------------------------------------------------------------------
(* After the last item *)

\* The stream of items has ended.  Directories still open then get the edges
\* they have, are reported, and are nobody's children.
Exhausted ==
  /\ Ready /\ Next1 = <<>> /\ rootsLeft = <<>>
  /\ mode = "scanned" => scanner = "gone"

ItemsEnd ==
  /\ Exhausted
  /\ edges' = edges \cup (IF WritesChildren
                          THEN UNION {ChildEdges(open[i]) : i \in 1..Len(open)} ELSE {})
  /\ skipped' = skipped \cup {<<open[i].dir, "not closed">> : i \in 1..Len(open)}
  /\ open' = <<>>
  /\ phase' = "joining"
  /\ UNCHANGED <<scanVars, feedVars, roots, storeVars, inHand, faults>>

\* run.join(), which returns when the thread has ended; then the roots' edges.
Join ==
  /\ phase = "joining"
  /\ mode = "scanned" => scanner = "gone"
  /\ edges' = edges \cup {<<TaskArn, root>> : root \in roots}
  /\ phase' = "finishing"
  /\ UNCHANGED <<scanVars, feedVars, open, roots, storeVars, inHand, skipped, faults>>

JoinAbandoned ==
  /\ phase = "abandoning" /\ scanner = "gone"
  /\ phase' = "failed"
  /\ UNCHANGED <<scanVars, feedVars, treeVars, storeVars, inHand, skipped, faults>>

\* finish_dedupe: the stream of chunks, then each file's map.
\* finish_shared_stream: the shared stream's last bevy.
FileMap(file) ==
  MapMembers(file.file, SliceEntries(file.targets, file.size), LocalTargets(file.targets))
FinishMembers ==
  IF form = "dedupe"
  THEN BevyMembers("blocks", pool.unique, FALSE)
       \o FlattenSeq([i \in 1..Len(pending) |-> FileMap(pending[i])])
  ELSE IF shared THEN <<Segment("bevy", "shared", 0, <<0>>)>> ELSE <<>>

FinishStorage ==
  /\ phase = "finishing"
  /\ \E members \in {FinishMembers} : volume' = AddAll(volume, members)
  /\ types' = types \cup {<<pending[i].file, "Map">> : i \in 1..Len(pending)}
  /\ phase' = "closing"
  /\ UNCHANGED <<scanVars, feedVars, treeVars, attributes, held, changed, pending, pool,
                 shared, inHand, skipped, faults>>

FinishStorageFails ==
  /\ phase = "finishing" /\ Fault
  /\ volume' \in AddAllBreaks(volume, FinishMembers)
  /\ phase' = "failed"
  /\ UNCHANGED <<scanVars, feedVars, treeVars, types, attributes, held, changed, pending,
                 pool, shared, inHand, skipped>>

\* ContainerWriter::finish: the metadata, its digests, the central directory.
Closing == << Segment("information.turtle", "volume", 0, <<0>>),
              Segment("information.turtle.hash", "volume", 0, <<0>>) >>
CloseVolume ==
  /\ phase = "closing"
  /\ \E written \in {AddAll(volume, Closing)} : volume' = Close(written)
  /\ phase' = "done"
  /\ UNCHANGED <<scanVars, feedVars, treeVars, types, attributes, held, changed, pending,
                 pool, shared, inHand, skipped, faults>>

CloseVolumeFails ==
  /\ phase = "closing" /\ Fault
  /\ volume' \in AddAllBreaks(volume, Closing)
  /\ phase' = "failed"
  /\ UNCHANGED <<scanVars, feedVars, treeVars, types, attributes, held, changed, pending,
                 pool, shared, inHand, skipped>>

Acquire ==
  \/ Collect \/ CollectEnds \/ Create
  \/ NextRoot \/ TakeSkipped \/ TakeDir \/ TakeDirEnd \/ TakeFile \/ StoreFile
  \/ ItemsEnd \/ Join \/ JoinAbandoned \/ FinishStorage \/ CloseVolume

LogicalFails ==
  \/ CreateFails \/ MintFails \/ TakeFileAttributeFails \/ StoreFileFails
  \/ FinishStorageFails \/ CloseVolumeFails

Scan ==
  /\ ScanStep
  /\ UNCHANGED <<feedVars, treeVars, storeVars, phase, inHand, skipped, faults>>

LogicalNext == Scan \/ Acquire \/ LogicalFails

\* Two threads, neither of which the operating system starves; nothing has to
\* fail.  A finished acquisition does nothing more.
LogicalSpec == LogicalInit /\ [][LogicalNext]_logicalVars /\ WF_logicalVars(Scan) /\ WF_logicalVars(Acquire)

-----------------------------------------------------------------------------
(* What the finished container says and holds *)

Walked(what) == {WalkItems[i].path : i \in {j \in 1..Len(WalkItems) : WalkItems[j].kind = what}}
Entered == Walked("Dir") \cup Walked("File")
ComesOnce(path) ==
  \A i, j \in DOMAIN WalkItems :
    WalkItems[i] = Of("File", path) /\ WalkItems[j] = Of("File", path) => i = j
TreeEdges ==
  {<<TaskArn, root>> : root \in Range(Roots) \cap Entered}
  \cup (IF WritesChildren
        THEN {edge \in Entered \X Entered :
                edge[1] \in Listable /\ edge[2] \in Range(Children[edge[1]])}
        ELSE {})

BeviesRead(owner, count) ==
  FlattenSeq([k \in 1..count |-> Fetch(volume, <<"bevy", owner, k>>)])
HoldsBevies(owner, count) ==
  \A k \in 1..count : \A what \in {"bevy", "index"} : Holds(volume, <<what, owner, k>>)

ReadsAs(path, storage, bytes) ==
  CASE storage = "segment" ->
         /\ Holds(volume, <<"segment", path, 0>>)
         /\ Fetch(volume, <<"segment", path, 0>>) = bytes
    [] storage = "stream" ->
         LET count == Bevies(Chunks(bytes))
         IN HoldsBevies(path, count) /\ IsPrefix(bytes, BeviesRead(path, count))
    [] storage = "pool" ->
         LET count == Bevies(pool.unique)
         IN /\ HoldsBevies("blocks", count)
            /\ Holds(volume, <<"map", path, 0>>) /\ Holds(volume, <<"idx", path, 0>>)
            /\ ReadThrough(Fetch(volume, <<"map", path, 0>>), Fetch(volume, <<"idx", path, 0>>),
                           BeviesRead("blocks", count)) = bytes
    [] OTHER -> Holds(volume, <<"map", path, 0>>)

-----------------------------------------------------------------------------
(* Properties *)

LogicalTypeOK ==
  /\ ScanTypeOK
  /\ phase \in {"collecting", "creating", "items", "joining", "abandoning", "finishing",
                "closing", "done", "failed"}
  /\ feed \in Seq(Item) /\ rootsLeft \in Seq(Entries)
  /\ open \in Seq([dir : Entries, children : SUBSET Entries])
  /\ roots \subseteq Entries
  /\ inHand \in {NoItem} \cup {Of("File", p) : p \in Files}
  /\ edges \subseteq (Entries \cup {TaskArn}) \X Entries
  /\ attributes \subseteq Files /\ changed \subseteq Files
  /\ DOMAIN held \subseteq Files
  /\ \A i \in 1..Len(pending) : \A t \in Range(pending[i].targets) : t \in 0..LastTarget
  /\ faults \in 0..MaxFaults

(* "An acquisition may skip what it cannot read; it may not omit it          *)
(* silently": an acquisition that succeeds has entered every directory and   *)
(* file of the walk in the graph, each under the directory it was found in,  *)
(* has reported every other path, and has for each file either its bytes or  *)
(* a report that it has not - never both, of a file the walk comes to once   *)
(* (two roots of which one is in the other are not refused).                 *)
NothingIsLostSilently ==
  phase = "done" =>
    /\ edges = TreeEdges
    /\ \A p \in Walked("Dir") : <<p, "Folder">> \in types
    /\ \A p \in Walked("Skipped") : <<p, "not walked">> \in skipped
    /\ \A p \in Walked("File") :
         /\ <<p, "FileImage">> \in types
         /\ p \in DOMAIN held \/ <<p, "not stored">> \in skipped
         /\ ComesOnce(p) => ~(p \in DOMAIN held /\ <<p, "not stored">> \in skipped)

(* A file counted as acquired reads back, from the finished volume and       *)
(* through the form its metadata names, as the bytes that were read of it;   *)
(* one that was found longer or shorter than the walk said is reported as    *)
(* changed; an attribute the graph names has its segment.  (Short of a write *)
(* torn in the middle, and of more chunks than a target ID can count.)       *)
HeldFilesReadBack ==
  phase = "done" /\ ~volume.torn =>
    /\ \A p \in DOMAIN held :
         /\ Saturated(pool) \/ ReadsAs(p, held[p].storage, held[p].bytes)
         /\ p \in changed <=> Len(held[p].bytes) # SizeOf[p]
    /\ \A p \in attributes : Holds(volume, <<"attribute", p, 0>>)

(* The acquisition ends, and its scanner with it, whatever fails: neither    *)
(* waits for the other for ever, though the queue is bounded.                *)
AcquisitionEnds ==
  <>(phase \in {"done", "failed"} /\ scanner \in {"unborn", "gone"})
=============================================================================
