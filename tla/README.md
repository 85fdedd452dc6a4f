# aff4tools in TLA+

A verification development kept beside the aff4tools sources. It models what the
library does where an order of steps, a failure or a damaged input decides the
outcome (threads, a device that fails, a walk whose sources fail, sets of volumes
that contradict one another, evidence that was altered) and measures it against
what its comments promise: TLC explores small instances, TLAPS proves the central
facts for every value of the parameters. Source paths are relative to `src/src/`.

Contents: [the system](#1-the-system) · [modules and the code](#2-modules-and-the-code) ·
[runs](#3-runs) · [what does not hold](#4-what-does-not-hold) · [proofs](#5-proofs) ·
[assumptions](#6-assumptions-and-abstractions) · [not modelled](#7-not-modelled) · [plan](#8-plan)

## 1. The system

aff4tools reads, verifies, exports and writes AFF4 forensic containers. A
container is a ZIP volume (or a set of them) holding *ImageStreams* (bytes cut
into chunks, chunks grouped in bevies, each bevy a ZIP member with an index),
*maps* (a stream's address space assembled from ranges of other streams), files of
their own, and metadata in Turtle.

| Component | State it keeps | Operations | What is hard | What makes it correct | Module |
|---|---|---|---|---|---|
| Bevy pipeline (`parallel.rs`) | cursor, raw queue, reorder window under a mutex, first failure, live workers | `read_bevies`, `decode_bevies`, `consume_in_order`, shutdown | every interleaving of readers, workers and consumer; wakes; shutdown | bytes in order once each; no lost wake; every thread joins; the error is a real one | BevyPipeline |
| Reader governor (`parallel.rs`) | admitted count, previous throughput, settled | `observed`, `apply_rate`, `admits` | decisions from noisy windows | never zero readers, never more than spawned, stops probing | ReaderGovernor |
| Thread plan (`cpu.rs`, `parallel.rs`, `verify.rs`) | counts of readers, workers, digesters | `from_budget`, `with_digest_threads`, `reader_ceiling`, queue sizes | subtraction on small hosts, clamps | budget spent exactly, no stage without a thread | ThreadPlan |
| Stream, whole reader (`stream.rs`) | position in bevies and chunks | `read_all_observed` | short chunks, bad indexes, truncation | a prefix of the true stream, success only when whole | StreamContents, SerialReader |
| Stream, ranged reader (`stream.rs`) | chunk, bevy and index caches with budgets, shared by the streams of an image | `read_region`, `decompress_by_range`, `load_bevy` | eviction during a region, two decoding paths, another stream's residue | same bytes as the stream has there | RangedReader |
| Map (`map.rs`) | ordered entries, gap defaults | `parse_with`, `entry_at`, `read_at`, the walk, coverage | borders, gaps, symbolic targets, deduplicated chunks | every offset resolves to one source | ImageMap |
| Image over a set (`image.rs`) | volumes, open streams | `read_from_set_parallel`, `read_all`, `stream_in_set` | one stream cut by several entries | the sum of the pieces is the map | ImageRead |
| Verification (`verify.rs`, `hash.rs`) | digests in progress, checks, accounts | `verify_stream`, the fused image pass, block digests, map and composite digests | the image's digest taken from stream passes; what could not be read | each digest answered once, over the whole of what it names; a match means the evidence is as written | SetVerify, DigestTree |
| Container sets (`multi_part.rs`, `disk_image.rs`, `zip_volume_set.rs`, `container.rs`) | volumes in order, who holds a stream (remembered), conflicts | discovery, `open_with`, `add_volume`, lookups, choice of an image | siblings missing, damaged, foreign, in any order | a complete set opens whole from any of its parts | VolumeSet, OpenSet |
| ZIP reader (`zip.rs`) | member sizes from a scan of its own, remembered data offsets, a handle | `open`, `read_segment`, `read_segment_range` | 64-bit fields only where needed, two ways to the same bytes | a member reads true, whole or in part | ZipReader |
| Export (`export.rs`, `main.rs`) | paths taken, a report | `run_export_logical` | paths that become equal, unreadable content | each file has a place of its own and is written or counted | LogicalExport |
| Metadata, findings, conformance (`model.rs`, `rdf.rs`, `container.rs`, `report.rs`) | subjects in hand, references deferred, counters | `deviations_only`, `summarize`, `summarize_brief`, `order_objects` | only the last block is known to be the last | what is reported is what the metadata shows as a whole | ObjectFindings, ConformanceScan, ObjectListing |
| Names (`naming.rs`) | nothing | base64, display and raw form, `report_v21_names` | bytes that are no text | two forms together lose nothing; alteration is not silent | RecordedNames |
| Command line (`main.rs`, `write/guard.rs`, `hash_selection.rs`) | files and logs of a folder, exit code | `acquire`, `verify`, `info`, `conformance` | calls at once, killed in the middle | no evidence is overwritten; log and code tell what happened | CommandLine |
| Device reader (`write/device.rs`) | own position, assumed descriptor position, buffer, unreadable regions | `read`, block read, narrowing to sectors | partial failures, seeks elided | an image sector is its own or is recorded | DeviceReader |
| Numbered source (`write/acquire.rs`) | files found, position | discovery, `ConcatReader` | gaps in the numbers, empty files | files whole, in order | SplitSource |
| Multi-part writer (`write/multi_part_writer.rs`, `hash.rs`) | open part, probed byte, digest threads behind bounded channels | `write_multi_part`, `MultiHasher` | cut points, failures between parts, a digest thread that ends early | parts concatenate to the source, digests cover it | MultiPartWriter, ImageAcquire |
| Shared stream (`write/shared_stream.rs`) | chunk and bevy in assembly, size | `append`, `push`, `flush`, `finish` | a source failing in the middle | each acquired file reads back | SharedStream |
| Logical acquisition (`write/logical.rs`, `scan.rs`, `dedupe.rs`) | the walk, totals, a bounded queue, pool of chunks | `record_*`, scanner thread | scanner and consumer, skipped files | every path acquired or reported | ScanWalk, ChunkPool, LogicalAcquire |
| Image writer (`write/stream_writer.rs`, `bevy.rs`, `map_writer.rs`) | chunk, bevy, block digests | `write_image_stream_observed`, `write_map` | last chunk, slicing of the source | what is acquired verifies | ImageWriter |
| Volume file (`write/sink.rs`, `zip_writer.rs`) | position, members, directory | `add_member`, `finish` | a write that fails in part | the directory names each member where it is | ZipVolume |
| C interface | none | pointer conversions | | | not modelled |

How they meet. A command opens a path into a set (OpenSet over VolumeSet), whose
volumes are ZIP files (ZipReader). Reading an image walks its map (ImageMap,
ImageRead), and the thread plan decides whether a stream is read by the serial loop
or the pipeline; random access goes through the ranged reader. Verification
(SetVerify) makes one pass over the objects, DigestTree says what digests cover
what. An acquisition reads a source (DeviceReader, SplitSource or a walk) and
writes streams, maps and metadata into a volume; the command verifies it
afterwards. `PROJECT.json` lists each component with its status, and the hazards
at the lines where they bite, each with the properties that would catch it.

## 2. Modules and the code

```
ImageMap ── ImageRead ── SetVerify ──────────────────────┐
StreamContents ── StreamRead (promise) <── SerialReader ─┤
      |                  ^                 RangedReader ─┴── ReadingMC
      |                  └──────────────── BevyPipeline  ── BevyPipelineMC
      |                                        | INSTANCE
      |                                   ReaderGovernor <── ThreadPlan ─┐
      └── (INSTANCE) SharedStream ───────────────────────────────────────┤
CommandLine ─────────────────────────────────────────────────────────────┼─ CommandsMC
ObjectFindings ── ConformanceScan ── ObjectListing ──────────────────────┤
RecordedNames ───────────────────────────────────────────────────────────┘
VolumeSet ── OpenSet ──────────────────┐
DigestTree ── ImageWriter ─────────────┼─ ContainerMC
LogicalExport, ZipReader ──────────────┘
DeviceReader ─┬─ DeviceReaderMC
SplitSource ──┼─ ImageAcquire ─────────────────────┐
MultiPartWriter ┘                                  |
ScanWalk, ChunkPool, ZipVolume ── LogicalAcquire ──┴── AcquireMC
```

The proofs, each with what it proves about:

```
Inductions (numbers, sequences, recursive functions, folds, flattening)
  ├── StreamContentsProofs ──┬── StreamReadersProofs (SerialReader, RangedReader)
  |    (StreamContents)      └── BevyPipelineProofs  (BevyPipeline)
  ├── CommandsProofs (ThreadPlan, ReaderGovernor, CommandLine, RecordedNames, SharedStream)
  ├── ImageAcquireProofs (ImageAcquire, DeviceReader, MultiPartWriter, SplitSource)
  ├── LogicalAcquireProofs (LogicalAcquire, ScanWalk)
  └── ContainerProofs (OpenSet, VolumeSet, LogicalExport, ZipReader)
```

### Reading a stream

**StreamContents** is the stored stream as data: a bevy is readable or not and
lists chunks, a chunk is the length it decodes to or `Undecodable`. It holds the
functions the readers share (`IndexAccepted`, `ShortAt`, `Truncated`,
`DeliverBevy`) and the functional reading `SerialOutcome`, a fold over bevies.

**StreamRead** is the abstract specification: a read delivers a growing prefix of
what a serial read delivers and then says *ok*, only for a sound stream wholly
delivered, or *error*, only for a reason.

**SerialReader** is `read_all_observed`, a step per bevy opened and per chunk. A
bevy's name, index and member are all read before its first chunk, hence one step.

**RangedReader** is `ChunkReader`. `chunks`, `bevies` and `indexes` are the three
caches, in order of use, handed from reader to reader as a `Residency`; a call
walks a region chunk by chunk, each fetched from a cache, by its range or with its
whole bevy, and an eviction happens where `insert` evicts. Two streams of one
shape share the caches, so a residue of the wrong stream would be seen.

**BevyPipeline** is `read_all_parallel`. The program counters `reader`, `worker`
and `consumer` name the places where threads can interleave; `queue` is the
bounded `sync_channel`, `ready`/`wanted`/`closed`/`liveWorkers` are the `Window`
under its mutex, `failure` is `FirstError`, `nextBevy` the atomic cursor. A step is one
critical section or one atomic access. A mutex that is held over two steps (the
consumer's look and its wait) shows as `WindowFree` being false, so the gap in
which a failure is notified without the mutex is in the model. The reader's gate
loads the cursor and claims by a later `fetch_add`, so those are two steps.

**ReaderGovernor**: a finished bevy is counted, and if the window has closed the
rate measured (any of `Rates`) decides. BevyPipeline instantiates it with fixed
parameters, ThreadPlan extends it with a run's. **ThreadPlan** follows one object
from the host's parallelism to readers at work, then plans the next, with
saturating subtraction where the code saturates.

### Reading a container

**ImageMap** is the parser of `map.rs` and the shape tests made on its result
(`part_layout`, `is_sequential`). A byte is where it comes from (kind, source,
place), so that an image is right exactly when its sequence of bytes is.
`Acceptable` and `MeantBy` say what a segment means address by address, without
sorting or walking it. **ImageRead** reads an image through its map: `ReadAt` is
`read_at_impl` under both policies for unknown regions, `SerialEntry` a turn of
`read_all`, the `Cut...` actions `read_from_set_parallel`. Whole streams come as
StreamRead promises them: a prefix, then an end or an error.

**SetVerify** is the loop of `verify.rs` over the objects of a set: the fused image is
prepared, rides the passes of the streams (`before_stream`, `feed`, `after_stream`,
`abandon`) and finishes, or `verify_image_in_set` answers in its place. A check
keeps the bytes its digest was computed over.

**DigestTree** is the rest of verification: block digests, the digests of map
segments, `blockMapHash`, the root of a striped image, files of their own, and the
accounts and the code they end in. What is stored is a function from places to
contents; a digest *is* what it was computed over with its algorithm, so an
alteration anywhere shows in every digest above it and in no other.

**VolumeSet** is `ZipVolumeSet` as data with everything asked of it: who declares
an object, who holds a stream, which hashes, which conflicts, which images.
**OpenSet** drives it: `discover`, the primary and its siblings opened one by one,
`open_striped_inner`, the image chosen, its streams looked up, and a caller who
adds volumes afterwards.

**ZipReader** is `ZipVolume`: opening, the volume's name from comment or
description and what is noted about it, `central_directory_sizes`, the local
header and the memo of data offsets, a member whole or in part. How the zip library
resolves a name recorded twice is left open.

**LogicalExport** is `run_export_logical` with `rebase`, `deconflict` and the
rules for names. A path is a sequence of components, each abstracted to what the
rules look at.

**RecordedNames** is `naming.rs` with its writer and readers: the record written,
any one property of it altered, then checked, exported and read back.

**ObjectFindings** is what is found of one subject while it is in hand,
**ConformanceScan** the three passes that meet the subjects one by one and settle
at the end what one says of another, **ObjectListing** the order in which a summary
is shown (`order_objects`, `walk_spine`).

### Writing

**DeviceReader** is `DeviceReader::read` and `read_tolerantly`. The descriptor
(the operating system's) and `sought` (where the reader takes it to be) are two
variables: the reader seeks only when its position is not `sought`. A sector is
good, bad, or *marginal* (may fail and later succeed), the medium may end early,
and a failed read leaves the descriptor anywhere from its start to the sector at fault.

**SplitSource** is discovery of `name.001`, `name.002`, … and `ConcatReader`;
**MultiPartWriter** is `write_multi_part` with the bounded loop of the stream
writer it drives and `MultiHasher` with its workers; **ImageAcquire** composes
them: the writer's read of its source is a call, which the device or the files
answer.

**ImageWriter** is `write_image_stream_observed` and `write_map`: what it writes
is in DigestTree's terms, so the same state goes on to be verified there.

**ScanWalk** is the scanner thread and the inline walk, **ChunkPool** the
deduplicating pool with the map that puts a file together again, **ZipVolume** the
sink and the ZIP writer; **LogicalAcquire** composes them with the three ways items
arrive and the forms a file is stored in. Each read of the source and each write to
the volume may fail.

**SharedStream** is `append`, `push`, `flush` and `finish`, driven as
`record_shared_file` and `finish_shared_stream` drive them. A byte is the file it
came from and its place in it. `pushed` is a history variable, every byte pushed in
order, which no guard reads: what `size` counts is compared with it. A file is read
back as the range its map names of the chunks stored.

**CommandLine** is the commands over one folder: a call's steps are the look for
the output, the log, the guard, each part created, filled and finished, the
report, the verification afterwards and the exit. Calls interleave at those steps
and may be killed between them. The look (`path.exists`) and the creation that
truncates are two steps, as in `sink.rs`.

Names follow the source where TLA+ allows. Definitions headed `Mutant:` are
variants of the one below them with a plausible mistake; no specification uses
them. They serve to show that each property can fail: `PROJECT.json` pairs them.

## 3. Runs

Passing runs. `MC` modules that hold several machines run each from its own
initial states while the others stand still: the machines share nothing.

| Run | Instance | States | Shows |
|---|---|---|---|
| `pipeline` | 1 worker, ramp 1→2 readers, 4 bevies, queue 2, lookahead 3, a torn bevy or a spare chunk, sink may fail | 773,622 | each claimed bevy has one holder; a reported failure is real; no reader is blocked at the join |
| `pipeline_live` | 2 workers, 2 readers, lookahead 1, six stream shapes, a handle and the sink may fail | 213,126 | no wake is lost, every call returns under fairness, the pipeline implements StreamRead |
| `reading` | see below | 224,507 | the serial loop agrees with its functional reading and implements StreamRead; a region is its own stream's bytes and the caches keep their books; a map segment is refused or means what it says; any range reads the image's bytes; a digest compared for a stream or for the image's content covers it whole (those over the map's segments are in section 4), each is answered once, what can be read is compared |
| `containers` | see below | 113,375 | sets open whole, exports are as they say, intact sets match, matches mean sound evidence, acquired images verify, members read true |
| `acquire` | see below | 383,503 | every sector is its own or recorded; none recorded reads whenever it is tried; parts, digests and the written set are the source; both walks of a tree agree, nothing of it is lost silently, what was stored reads back; each acquisition ends, and its threads with it |
| `commands` | see below | 479,609 | the plan spends its budget; nothing is overwritten; log and exit code agree with what happened; each byte of the shared stream is counted, at hand or left by a failure, and files read back; findings, summary and listing tell of every object; names are kept |

`reading` holds three machines. *Whole*: 13 bytes in 4-byte chunks, 2 per bevy; every
stream of 2 bevies with up to 3 chunks each. *Ranged*: five bevy shapes, four ways a
member may be held, three calls of four regions on two streams, caches of 2 chunks
and 3 chunks' worth of bevies. *A set*: streams of 4 and 3 bytes in chunks of 2;
every map of two entries of up to 2 bytes at 3 offsets (with each gap policy), and 12
layouts as they are, reversed, and with an entry left out; one stream damaged in 6
ways; 3 orders of the objects.

`acquire` holds two. *An image*: a device of 5 sectors in blocks of 3, with every set
of bad and marginal sectors (none marginal at a block's end, see `device_shift`), or
every folder of 4 numbered files of 0 to 2 units; parts of 3 units, at most 3; one
digest thread behind a channel of depth one. *A tree*: 7 paths in 3 levels under 2
roots; 3 ways of arriving, 3 forms of storage; a queue of 2; up to 2 failures.

`containers` holds five. *Sets*: folders of up to four files (sound striped,
multi-part and single sets; with a part damaged, repeated, of another generation or
gone; with volumes that contradict one another; that are no set), opened from any
of their files, in every order of the siblings. *Archives*: up to three files with
thirteen kinds of path, on hosts that do and do not compare case. *Evidence*: one
volume, two stripes, two parts, files of their own; as written and with any one
element of any member altered, or a member torn or gone; objects in both orders.
*Images*: six sources from nothing to more than a bevy, with every setting, then
verified as written or damaged. *ZIP files*: up to four members at sizes and offsets
on both sides of the width of a narrow field, which is `Max32` = 4 here;
`Ceiling` = 8 and `Expansion` = 5 bound what may be inflated.

`commands` holds five. *Plans*: hosts of 1 to 24 threads, six overrides, 0 to 6
digests, five bevy sizes. *Commands*: every pair of the command lines of `CommandsMC` at once
over ten kinds of source; outputs, logs, listings and parts share names. *The shared
stream*: 3 files of 0 to 6 bytes, 2-byte chunks, 2 per bevy. *Metadata*: nine
kinds of subject in every order of three, five of a data path in every order of
four, files held every way, volumes that agree and not; a summary's cap is 2.
*Names*: 1 and 2 bytes of seven kinds, 3 bytes of four, `%0A` and a character of two
bytes; any one property altered.

Why the bounds are enough. A bevy of two chunks is the least with an inner and a
last chunk, and the declared sizes leave a last chunk short, a last bevy not full,
and room for a spare chunk. Two readers and a lookahead of one let the gate be
passed by both; two workers let bevies finish out of order and let one fail while
the other holds an earlier bevy; queue 2 fills. Caches of two chunks and of less
than two bevies evict within a region, and the third call meets what the first two
left. Five sectors in blocks of three give one full and one clamped block, with
failures on both sides of the border. A folder of four numbers has room for a gap,
an empty file, and a file before and after each. Six bytes is a bevy and a chunk, so
a file ends within a chunk, on one, within a bevy and on one, and three files give a
failure a predecessor and a successor. Two small entries in any place meet each way
two intervals can, with a hole before, between and after; the layouts add what needs
more. Three volumes are the least in which two siblings can come in either order
before and after one that disagrees. One alteration at every place of the evidence
reaches every digest of the tree. Two overlapping calls are the least that can race
for a name, and the theorem of section 5 covers more. A subject, what refers to
it and what stands between are three; a data path of image, map, stream and volume is
four. Three bytes are one group of base64, one and two the padded ones; the
theorem covers the rest. Twenty-four threads is past the host where the last bound
of the plan (eight readers, queue of twelve) bites.

Deadlock is checked except in `acquire`, where an acquisition that has finished or
failed stops; `AcquisitionsEnd` says that stopping is finishing. In the other runs a
finished state stutters explicitly.

**Fairness.** `pipeline_live` assumes that the calling thread runs when it can
(weak fairness) and that each reader and worker makes progress if it is again and
again able to (strong fairness: they compete for the window's mutex with a consumer
that takes it over and over, and the operating system's mutex does not starve a
waiter for ever). Polls are timed and end; a spurious wake is allowed but never
assumed. `acquire` assumes that the acquiring thread and the digest's thread each
run when they can, of a tree's acquisition the scanner and the acquiring thread, and
that a call into the system returns. Nothing is assumed of what a call returns.
The other specifications are safety only.

## 4. What does not hold

Six runs each check one property that a comment states and the code does not keep.

| Run | The text | The code |
|---|---|---|
| `pipeline_shutdown` | "Drain anything still in flight so readers blocked on `send` can exit" (`parallel.rs:1066`) | the drain is one pass; at the plan of a budget of six, five readers still in a read refill the queue of four after the workers have left, and the fifth blocks in `send` while the call waits to join it |
| `device_shift` | "the descriptor is wherever the last one left it" (`write/device.rs:205`), "recorded, never fabricated" (line 3) | after a block whose last sector was given up, `sought` is set to the position, not to where the descriptor is; if the sector then reads, the next block is shifted by one and nothing is recorded |
| `unread_evidence` | "Evidence that could not be read is a third answer … Reporting it as success would let a container whose evidence will not decompress pass a scripted check" (`main.rs:1571`) | a stream that records block hashes and no digest of its own, and will not decompress, leaves no check, and a block-hash segment that cannot be read leaves a note: the command ends as if everything had matched |
| `stream_conflicts` | "`verify` already declines on these …; before this, `info` absorbed the same conflict silently" (`container.rs:1143`) | `info` and `conformance` open the first volume without keeping its graph, so what it says of a stream is compared with nothing |
| `shared_offsets` | "The file's first byte, as an offset into the shared stream" (`write/shared_stream.rs:60`), "Every byte in it belongs to some file" (`write/logical.rs:1275`) | the bytes of an append that fails partway stay in the stream and are not counted in `size`, so each later file is given an offset that many bytes before its own |
| `map_digest_rides` | "Each is a digest of the map's own bytes, **not** of the image's content" (`verify.rs:2348`), "they must never join the whole-image traversal" (line 2817) | `prepare_fused_image` chooses by the algorithm alone, so a digest over a segment of the map under `aff4:SHA512` rides the traversal and is compared with the image's bytes; `verify_image_in_set` takes care to avoid that |

`pipeline_shutdown` explores one family of schedules (a CONSTRAINT, `SlowReaders`)
of the plan at a budget of six: slow reads and fast workers. The counterexample
needs no other assumption. Below that budget `SmallBudgetsShutDown` and
`DeepQueueReleasesReaders` together exclude it.

The rest was seen while modelling and has no run of its own. Where the model could
follow the code or the text, it follows the code.

Reading:

- A reader admitted late that cannot open its handle records bevy 0 and fails a read
  that delivered everything (`parallel.rs:648`), while a failure is said to count "only
  if the serial reader would have reached that bevy at all" (`parallel.rs:1081`).
- "When several bevies fail, the one earliest in stream order is reported"
  (`parallel.rs:950`): a worker that sees a failure drops the bevy in its hand
  undecoded, so an earlier failure may never be recorded.
- The budget is "a ceiling the run may meet but never exceed" (`parallel.rs:42`):
  all of the plan's workers run beside the readers admitted beyond the plan's.
- The gate's load and claim are not atomic: the lookahead is exceeded by up to one
  bevy per reader (`ClaimsBounded` states what does hold).
- The parallel reader decodes a whole bevy, so an undecodable chunk past the
  declared size fails it and not the serial reader. `StreamRead` allows this
  (`HasBadSpare`), although the documentation speaks of the same outcome. The ranged
  reader reads streams the serial one refuses (`image.rs:589`).
- `parse_index_bounded` accepts an index shorter than chunksInSegment before the
  last bevy; later chunks then move, and the comment in `refuse_short_chunk`
  (`stream.rs:73`) that every earlier chunk was full does not help.
- A governor at its ceiling can step one reader below the count it started with,
  though `reader_ceiling` says a run holds at least that count.

Verifying:

- A map that cuts its one stream by described runs is never verified in the streams'
  pass: the image is read again. Slower, never wrong.
- Holes filled from a stream or an unknown region are counted as stored or unknown,
  not as filled; the composition derived without a traversal counts unknown regions
  as described.
- A striped root is checked for intact stripes against every `blockMapHash` met so
  far, in that set or not (`verify.rs:3146`); the cost estimate asks for MD5 and SHA-1
  block hashes where five algorithms are verified (`verify.rs:1138`); a metadata
  digest that cannot be read is only noted; `compressionMethod` and `chunksInSegment` are not
  among the conflicts looked for; `MultiHasher::finish` documents an order it does
  not keep (`hash.rs:392`).
- `EXIT_UNVERIFIABLE` (9) is greater than `EXIT_MISMATCH` (8), so the larger wins
  where `main.rs:78` says a mismatch does.

Opening:

- `disk_image.rs:150` "falls back to the named file alone rather than guessing", but
  discovery compares numbers and never base names, so a neighbour's part joins; a
  missing first or last part is not noticed, though line 160 says a set found is complete;
  `add_volume`'s refusal is ignored at line 88.
- `objects_across_volumes` keeps only the declaration with more hashes; one unreadable
  namespace ends the loop over volumes (`container.rs:1728`).
- The scan of the directory "feeds a cost estimate … Nothing here is used for a
  correctness claim" (`zip.rs:233`), but range reads and the storage rules use it.
  Of a name recorded twice the scan keeps the last, where the comment at 658 says reads
  resolve to the first. A range is checked against the declared inflated size. A
  header that cannot be read once is remembered as not locatable. A comment with a
  leading space is noted as padded with NULs, and one with a NUL before a space keeps it.

Reporting:

- A subject written twice: `order_objects` drops one half (`report.rs:859`, against
  `rdf.rs:236`), and a second block of the volume's own subject without `contains`
  switches the contains check off (`container.rs:657`).
- `count_storage_form` counts an ambiguous file as recorded without content; `info
  --brief` loses a type of a map or stream that has types of an object besides;
  maps with a `blockMapHash` use up its cap of candidates.
- `--full-listing` with several containers lists the first. The conformance line after
  an acquisition leaves out the checks of metadata digests and part names, so it is
  weaker than `conformance` (`main.rs:5067`).

- "Library errors start at 3 … so no failure can be mistaken for a mistyped command
  line" (`main.rs:43`): `check_stripe_set` makes a usage error of metadata that cannot
  be read (lines 5750, 5863), so an acquisition in parts that were written and cannot be
  read back may exit with 2. `LogAndCodeTellTheCall` allows it where the log says so.

Writing:

- "Refuses an existing file outright" (`write/sink.rs`): `create` looks and then
  creates with truncation, so a second call can slip in between (lines 39–51).
  `NothingIsOverwritten` states what does hold.
- `AcquiredFilesReadBack` is stated of acquisitions in which no append failed after it
  had pushed something (`shared_offsets`), `PushedBytesAreCountedOrLeft` of all.
  A failed flush loses earlier files' chunks; a container write that fails inside
  `record_*` is recorded as a skipped source. A zero-length file in the shared
  form gets an empty map, which `Map::parse_with` refuses (`map.rs:517`).
- `--image`, `--device` and re-acquisition record fixed SHA-256 and MD5 whatever
  `--hash` says, while the log prints the selection (`main.rs:3465`, `4371`); a split
  `--image` or AFF4 acquisition is never verified afterwards (`main.rs:3486`), though
  `verify_after_acquire` says every mode is.
- A gap of two or more numbers ends a source (`acquire.rs:119`); a next part that exists
  already is refused before the probe; a torn write leaves the sink's position behind
  (`sink.rs:65`); the `ZipSegment` type is recorded before the segment is written
  (`logical.rs:1881`).
- A sector that reads at its second attempt is still filled and reported as a
  "short read" (`write/device.rs:193`); the branch at line 173 cannot be reached. The caller
  is said to map regions to `aff4:UnreadableData` (line 12), and `main.rs:4733` writes
  one entry over the whole stream.
- Export: `apply_times` reports success when only one time is recorded or none can
  be parsed; `deconflict`'s comment speaks of hosts that fold case, `taken` compares exactly;
  names that are raw bytes skip the rules for reserved names. A Windows path
  that is no text is recorded by its lossy display alone (`logical.rs:511`).

## 5. Proofs

All proofs are checked by tlapm with Z3, Zenon and LS4. The parameters are
arbitrary under the named assumptions of each module (`StreamAssumption`,
`SerialAssumption`, `RangedAssumption`, `PipelineAssumption`, `PlanAssumption`,
`GovernorAssumption`, `DeviceAssumption`, `SplitAssumption`, `MultiPartAssumption`,
`ImageAcquireAssumption`, `ScanAssumption`, `LogicalAssumption`, `SharedAssumption`, `CommandAssumption`,
`NamingAssumption`, `OpenAssumption`, `ExportAssumption`, `ReaderAssumption`), which TLC evaluates on every run.

**Induction.** Much of the model is recursive functions and folds over data. The
library's induction theorems take an operator, which the provers cannot instantiate;
`Inductions` therefore states induction over *sets* of numbers (a set with zero and
every successor has all of `Nat`), from the library's theorem that every non-empty
set of numbers has a least element. From it follow that a function defined by its
previous value exists and is the one chosen (`TurnByTurn`), that a fold over `1..N`
is its turns, that what every turn preserves the fold keeps (`FoldStays`), and what
flattening a sequence of sequences gives. `StreamContentsProofs` unfolds with these
what a stored stream amounts to bevy by bevy and chunk by chunk, `ImageAcquireProofs`
the files end to end, `LogicalAcquireProofs` the walk of a tree level by level. A set of
sequences with the empty one and every sequence whose rest it has, has them all
(`SequencesByInduction`), which `CommandsProofs` uses for names, byte by byte.

### Reading

| Module | Theorem | Argument |
|---|---|---|
| BevyPipelineProofs | `ConsumerIsOwedAWake` | `LiveCounted` (`liveWorkers` is the number of workers not done) and `WaitIsOwed` (from the decision to wait on, the wanted bevy is not in the window and `liveWorkers` is not zero) are inductive together; the conjunct about the *decision* is needed because the wait itself looks at nothing. |
| | `ClaimsAreBounded` | `wanted <= nextExpected` (it is only ever set to it, and that only grows) with `ClaimsBounded` itself, counting the readers between gate and claim. |
| | `ClosedStaysEmpty` | closed exactly in the shutdown, and a deposit looks at `closed` under the mutex. |
| | `DeepQueueReleasesReaders` | from the end of the drain, what is queued plus the readers in flight is at most the ceiling, since a closed window stops every new claim. If the queue is as deep as that, it is never full with a sender waiting. |
| | `NoBevyIsLostOrDoubled` | `OneHolderEach` (every bevy below the cursor is in one place, none beyond it in any) is inductive with `HandsHoldBevies` and `ClosedByShutdown` while the run goes on: a claim puts the next number into one place, and every other step moves one bevy from one place to the next. A run that goes on after a step went on before it (`WentOn`), so the shutdown may drop what it likes. |
| | `BlamedBevyIsBad` | `BlameIsReal`: the failure recorded is a bevy that cannot be read or decoded, or 0 for a handle that would not open; the lower of two such is another such. `FailedIsRecorded`: the call fails only with one recorded. |
| | `PipelineKeepsThePromise` | the refinement of StreamRead. `SinkInv`: what lies behind each hand was read (`BeviesAreRead`) and decoded (`BeviesAreDecoded`), the consumer has delivered exactly the serial reader's bytes of the bevies below `nextExpected` (`DeliveredInOrder`), and the loop is left for a reason (`LoopEndsForAReason`). While nothing has failed a reader ends only when the bevies have run out, and a worker only when the readers have and the queue is empty (`NothingLeft`): so a consumer that finds no worker alive misses no bevy that was still to come. A delivery is an abstract delivery of one bevy's bytes, a return an abstract end, all else stutters. |
| StreamReadersProofs | `SerialReadsAsTheRecursion` | the loop between bevies stands where the fold over the bevies so far stands, and within a bevy where the fold over its chunks so far stands (`BetweenBevies`, `WithinBevy`); so it ends as the fold over all of them ends, whether that ends it early or not. |
| | `SerialReaderKeepsThePromise` | the same invariant with `NoByteTooMany`: each chunk handed on is an abstract delivery. |
| | `RegionsAreTheirStreams` | for any regions of any streams, in any order, with any cache sizes. `RangedInv`: each cache's order lists exactly the entries it holds, each once; a chunk held is the chunk its stream's index cuts there and could be had without any cache; a bevy held was read whole by its index. So a cache changes how often a member is read and never what a read returns, which gives the rest: what a call has handed on is its stream's bytes from its start (`Gives`), within bounds (`ReadsWithin`), and it stops only at a byte that cannot be had (`EndsRight`). |

### Writing

| Module | Theorem | Argument |
|---|---|---|
| ImageAcquireProofs | `OwnOrRecorded` | `DeviceInv`: image, buffer and block are each `Sound` at their offset, and where the reader will not seek the descriptor is `Aligned`: at the position, or lagging on a sector the medium never returns, so that a read from it fails. Assumes no marginal sector; with one the statement is false (`device_shift`). |
| | `ReportIsExact` | holds of every medium. The regions are apart, in order and end by the position, and they cover exactly the placeholders of image, buffer and block so far, each a sector that some attempt does not return (`Tried`, kept since only a sector given up becomes a placeholder); a recorded sector either lengthens the last region or opens one past it. |
| | `WriterTilesTheImage` | whatever a source answers. `PartsTileTheImage` and `NoPartIsLeftOpen` need what is in hand at each place of the loop (`InHand`: a part is open exactly while it is written, and between parts only the probed byte is held), that no part is empty (`NoEmptyPart`: it begins with the probed byte), and that a chunk has room while it is being filled (`ReadsFit`). |
| | `WriterDigestsTheImage` | `DigestsFollow`: what a digest thread has absorbed and the slices on their way to it stand in the image in order, up to what has been sent to it; once the threads are joined nothing is on its way. |
| | `WrittenIsTheSource` | `AcquireInv`: writer, report, and that the reader is within a call only while the writer waits for it (`Asked`), that what was handed over is the source up to where its reader stands (`SourceRead`), and that the writer ends only once the source has (`Ending`). For numbered files the files found are a run of numbers without a gap, and the concatenation up to an offset within one of them is what was read. |
| | `AcquiredPartsAreTheImage`, `AcquiredReportIsExact`, `AcquiredSectorsAreTheirOwn` | the writer's and the device's theorems hold of the two composed, since a step of the composition is a step of one that the other permits. |
| LogicalAcquireProofs | `BothWalksAreOne` | for any tree, any queue bound, wherever the acquisition hangs up. `OnCourse`: what was sent, the item being sent and what the tasks left on the scanner's stack will yield (`WalkedBy`) are together the inline walk of the roots. A task replaced by the tasks it stands for leaves that as it was, a send moves the item over, and what is not the scanner's step may start it or hang up, no more (`ScanFrame`). That `InlineItems` is its own recursion (`InlineIsTheRecursion`) is shown by building it level by level: there is one walk for each depth (`WalkExists`), two such agree (`WalkIsOne`). |
| | `NothingGoesUnsaid` | for any tree, way the items come, form of storage, interleaving and failure. `LogicalInv` splits the walk at every moment into the items taken, the file in hand and what is ahead, in the queue, the list or the roots left (`Fed`); everything taken has been told (`Told`: in the graph, among the skipped, or held), and the open frames, roots and edges are those the items taken lead to (`Leads`, by `Turn`, a turn of `acquire_from_items`). What remains is about trees alone: the items of one entry, whatever is open around it, leave the frames as they were but for that entry joined to the innermost and the edges of all directories in it (`EntryGrows`, by induction on depth), so at the end nothing is open and the edges are `TreeEdges` (`WalkBuilds`, `TreeHasAllEdges`). A file is never both held and reported as not stored if the walk comes to it once (`NotYetTaken`). |

### Commands and containers

| Module | Theorem | Argument |
|---|---|---|
| CommandsProofs | `BudgetIsSpent`, `StagesAreStaffed`, `RampFitsBudget`, `ReadersAreFed`, `SmallBudgetsAreSafe` | lemmas on `FromBudget`, `WithDigestThreads` and the clamps give `SplitPlan`; `RunningInv` carries the plan into the run. |
| | `AlwaysInRange`, `StepsBackAtMostOnce`, `SettledStaysSettled` | `GovernorInv`, which adds that until it settles the ramp only goes up. |
| | `EvidenceIsNotOverwritten` | for any number of calls. `CommandInv` adds to the shape of the state that a call past its log made it, that no two calls made the same log, that what a call created is there and is some call's, that a name a call has seen free and finds taken was taken by another call since, and that an open part is open unless shared. The log is what separates two acquisitions of one output, since it is made by an exclusive creation and the output is not. |
| | `LogAndCodeAreTrue` | `TellInv` over `CommandInv`: at each place what a call has said so far, the lines its log has and the code it will exit with agree with what has happened to it, and the parts of an acquisition that is alone with its names are whole but for the one in hand (`WholeParts`). A killed call leaves its log short, never wrong. |
| | `SharedBytesAreCounted` | `CountInv`, whatever fails: the bytes pushed are those counted, those of the file at hand, which are the last, and those that failed appends left, and each range given begins as far past its offset as bytes were left before it, so what is pushed or left later moves none of them. `HoldsPushed`: until a bevy is dropped the finished bevies, the bevy and the chunk in hand are the bytes pushed, end to end. |
| | `AcquiredFilesComeBack` | `SharedInv`: `CountInv`, `HoldsPushed`, and that a closed stream has nothing in hand. With no byte left behind a range begins at its offset, so what lies in it is its own file's bytes in what was pushed, hence in what is stored, which at the close goes on with padding alone. |
| | `NamesComeBack` | for paths, contents and texts of any length, whatever property of a record is damaged or lost. `NamesInv`: the record is what `RecordFile` made of the file but for the one property altered, and what was told, recovered and read is of the record as it is. What remains is about the codec and the display form alone. Decoding undoes encoding (`DecodedAgain`): three bytes are four sextets and back, the padding the decoder `CHOOSE`s is the padding put there, and each group packs to the group it came from. Any text is read for RFC 4648's bits or not at all (`TextsRead`): what is padding and what is not is counted, and each octet is the eight bits of its place. No two names are displayed alike (`DisplayTells`, by induction over the bytes), every percent sign displayed is an escape in capitals (`DisplayedPercents`), and a path that needs no raw form has a last component that needs none, since UTF-8 cut at a byte below 128 is UTF-8 (`CutsAreUtf8`, `ComponentNeedsNoMore`). Hence a sound record gives the check nothing to find (`RecordedIsSound`), and a raw form the check accepts beside a displayed name is of that name (`SoundIsTrue`). |
| ContainerProofs | `MemoIsTruth` | who holds a stream depends on the volumes alone, every volume added forgets everything remembered, and asking remembers what a search says; for any folder and any order of opening, adding and asking. |
| | `SetsOpenAsWritten` | for any folder, command and order. Two sets of the same volumes with the same primary (`Alike`) are in conflict about the same streams, since a conflict is any two volumes that state different values (`DisagreeMeans`, not only the first and a later one), and where none is every whole declaration says the same; so an image opens from both alike (`OpenAlike`). Files can be put in order by induction on their number (`FilesCanBeSorted`), and each comes once (`SortedHasAll`). `WrittenInv`: of a folder one writer left, the set is at every moment the first so many of its volumes and what is to be opened is the others; the whole set has one image eligible, finds each stream in the part that keeps it, and takes the digests of a declaration that records all of them. |
| | `ExportsAreAsTheySay` | for any archive and whatever fails. A path made writable is of names that count their underscores and copies and climb nowhere (`RebasedIsWritable`, component by component; what is kept of a path is unfolded by `AmongIs`), it is the recorded one where no reason is given (`UnalteredIsAsRecorded`), and the numbered copies of it are all different (`CopiesDiffer`), so among more of them than are claimed one is free (`DeconflictIsFree`). `ExportInv`: each file the loop is done with is whole at one place or skipped, no later one is anywhere (`CopyInv`: a file is created only where nothing is, and the directories made for it are copies of none), the names taken are as many as their claimants (`TakenInv`), and the name in hand is writable, and the recorded one unless reported (`PathInv`). |
| | `VolumesReadTheirMembers` | for any container, whichever of two members of one name the library resolves. The zip64 values of an entry are the numbers that overflowed, end to end, so the slots filled before one say which is its (`WidenedIsTrue`); what the scan has of a name is what an entry of that name says (`ScanTakesEntries`), hence in a sound container the one member's (`ScanIsTrue`). `ReadInv`: an open volume is what its file says (`Opened`), a remembered offset is where a stored member's header says its data begins, and the last answer is the member's own: a range served ends within the recorded extent, which is the data's length (`ServesItsOwn`). What is noted follows from `Opened` alone (`DoubtsStayNoted`): trimming a padded name removes the padding and no more, and the padding shows in the lengths (`PaddingIsTrimmed`). |

`DeepQueueReleasesReaders` and `SmallBudgetsAreSafe` compose: up to a budget of
five the shutdown of a pipeline whose parameters come from the plan cannot block.
`SerialReaderKeepsThePromise` and `PipelineKeepsThePromise` together say that the
path the plan chooses does not change what a caller is given, but for the spare
chunks of section 4.

Only model-checked:

- `Terminates` and `AcquisitionsEnd`: liveness under fairness is out of the prover's
  reach.
- `FindingsAreTheMetadatas`, `ListingShowsEveryObject`, `SummaryTellsOfEveryObject`,
  and the five properties of `reading` that are about maps and sets: the walks they are about recurse over
  metadata and over map entries that split as they go; their proofs are not attempted.
- `HeldFilesReadBack`: it needs, beside `LogicalInv`, the volume's book-keeping under
  every form of storage and the pool's targets; not attempted.
- `IntactSetsMatch`, `ReportIsTrue`, `AcquiredImagesVerify`: they compare the outcome of one long call with a
  definition of its own, over bounded data, which TLC enumerates.

## 6. Assumptions and abstractions

- A chunk is the length it decodes to; codecs and CRCs are not modelled. A digest is
  its input: two are equal exactly when their inputs are. Sizes are naturals; a width
  is modelled where the code narrows or saturates (`Max32` of a ZIP field, `LastTarget` of a map's
  target number, the plan's subtractions).
- The clock is nondeterministic: a throughput window may stay open or close at any bevy
  once warm, with any rate of `Rates`.
- `Ordering` of atomics: flags that only rise and the mutex make a stale read the
  same as an earlier one; accesses are modelled as sequentially consistent.
- Threads do not panic. A process may be killed in CommandLine, and nowhere else.
  Files change under a reader only where a module says so.
- Formatting, messages and progress bars are left out; a metadata term's spellings
  that a reader takes for one are one.
- SetVerify: each stream is damaged or sound as a whole or by chunks, and stays so; its
  claims are its own digest or none. Offsets are bounded by `LargestOffset`.
- Device: the caller's buffers are of whole sectors; the code's blocks and a device's
  length are multiples of a sector.
- ScanWalk: the source is a tree that does not change during the walk. Only a directory is
  listed, and no entry is below itself (`MaxDepth` bounds how far down any goes): the walk
  tests entries by `symlink_metadata` and follows no link. Two roots may still lie one in the
  other, which the code does not refuse: their common entries come twice, and of such a file
  one turn may store it and the other report it (`ComesOnce` in `NothingIsLostSilently`).
- OpenSet: a file's name is its text and its number, both compared as numbers. Files of one
  name and number (`x.aff4` and `x.aff4l`) may be sorted either way; such a set has a gap.
  The order of the siblings does decide between maps that they give of an image the primary
  gives none of, which `SiblingOrderIsImmaterial` therefore leaves out (`MapIsSettled`).
- LogicalExport: a component that is `..` is known to climb, unless what is illegal in it is
  still to be replaced, and the host takes no other stem for `..` (`ExportAssumption`).
- CommandLine: writing and verifying end well, with findings, or not; what they do
  inside is the other modules' business. A killed call leaves its files as they are.
- ZipReader: the zip library is external. It reads a sound member's bytes, fails on one that
  is not sound, and its answer to a duplicate name is left open. A container is sound when
  directory and local headers say of each member what its writer put there, whatever became
  of the data (`IsContainer`, which says nothing of the others); the directory may still list
  what is no member, lack members, or be cut short. A name the directory gives is one.
- External facts (the file system, the kernel's reads, the library) are definitions
  that `PROJECT.json` marks external.
- Bounds: `Rates`, `MaxLength`, `Media`, `Streams`, `Requests`, `Calls` (of the ranged reader and of
  the command line), `FileCount`, `Folders`, `Archives`, `Trees`, `Sources`, `Containers`, `Evidence`,
  `FilesNamed`, `CommandLines`, `MaxFaults` and the sets of ThreadPlan are model
  parameters; `bevies` of the governor is counted only up to `Warmup`, beyond which
  the code never tells counts apart.

## 7. Not modelled

- The C interface, which converts pointers and calls the library, and the Python utilities.
- The text of things: the Turtle grammar, ARN escaping, times and numbers, the JSON
  and text reports, `version.txt`, the rule catalogue with its citations. Their tests are
  tables, and no property here is about them.
- The byte layout of ZIP records and of segments, segment names, prefix searches,
  the compression of segments.
- Progress, units, the terminal; the estimate of a verification's time.
- In logical acquisition: the in-metadata form's size rule, the own-map form, forced
  storage. In image acquisition: from another AFF4 container. In writers: the in-place
  map of a device part's sectors. In export: a disk image (it copies what
  `RandomReadsServeTheImage` covers).
- The single-volume image reader and the resident bevy of `image.rs`; the platform
  calls that measure a device.

## 8. Plan

What is left, in order of worth:

1. The single-volume reader of `image.rs` beside the set's, and a refinement that
   shows RangedReader to serve what StreamContents reads.
2. The own-map and in-metadata forms in LogicalAcquire, and SharedStream composed into it.
3. Re-acquisition of an AFF4 container: ImageRead as a source of ImageWriter.
4. Theorems wanted: that a held file reads back from the volume, for every content;
   what a verification reports (DigestTree, SetVerify).
