-------------------------- MODULE MultiPartWriter --------------------------
(***************************************************************************)
(* write_multi_part (src/src/write/multi_part_writer.rs) and the loop of   *)
(* write_image_stream_bounded it runs for every part, with the MultiHasher *)
(* (src/src/hash.rs) whose threads digest the whole image while the reader *)
(* feeds them.  A unit is a sector of the source; what a bevy takes on the *)
(* disk is its members' overhead and one to all of its units, compressed.  *)
(***************************************************************************)
EXTENDS Naturals, Sequences

CONSTANTS
  Unit,        \* what a unit of the source may hold
  ChunkSize,   \* StreamOptions::chunk_size, in units
  BevyChunks,  \* StreamOptions::chunks_per_segment
  Overhead,    \* what a bevy's members take besides its chunks
  Threshold,   \* MultiPartOptions::multi_part_after, in units
  MaxParts,    \* MAX_PARTS
  Workers,     \* digests computed on threads of their own
  Depth        \* HashWorker::DEPTH

ASSUME MultiPartAssumption ==
  /\ ChunkSize \in Nat \ {0} /\ BevyChunks \in Nat \ {0}
  /\ Overhead \in Nat /\ Threshold \in Nat \ {0} /\ MaxParts \in Nat \ {0}
  /\ Workers \in Nat /\ Depth \in Nat \ {0}

VARIABLES
  at,         \* where write_multi_part is
  given,      \* every unit the source has returned
  chunk,      \* the buffer being filled, or the byte the probe returned
  fed,        \* workers that have been sent the chunk
  bevy,       \* units the builder holds
  parts,      \* the part files, in order: [stream, sink, closed]
  entries,    \* the map's entries, one per finished part
  total,      \* source units in the finished parts
  exhausted,  \* BoundedOutcome::source_exhausted of the part
  absorbed,   \* what each digest covers; digest 0 runs on this thread
  queue,      \* slices sent to each worker and not yet absorbed
  outcome     \* "running", "written", "refused", "failed" or "too many"

hashVars == <<absorbed, queue>>
partVars == <<parts, entries, total>>
writerVars == <<at, given, chunk, fed, bevy, partVars, exhausted, hashVars, outcome>>

WriterInit ==
  /\ at = "preflight" /\ given = <<>>
  /\ chunk = <<>> /\ fed = 0 /\ bevy = <<>>
  /\ parts = <<>> /\ entries = <<>> /\ total = 0 /\ exhausted = FALSE
  /\ absorbed = [d \in 0..Workers |-> <<>>]
  /\ queue = [w \in 1..Workers |-> <<>>]
  /\ outcome = "running"

Stop(how) == at' = "stopped" /\ outcome' = how

-----------------------------------------------------------------------------
(* Before the first part *)

\* preflight, on the size the source declares.
Preflight(size) ==
  /\ at = "preflight"
  /\ IF size > MaxParts * Threshold
     THEN Stop("refused")
     ELSE at' = "create" /\ UNCHANGED outcome
  /\ UNCHANGED <<given, chunk, fed, bevy, partVars, exhausted, hashVars>>

\* Where a buffer that has just been added to leaves the loop.
Filled(buffer) == at' = IF Len(buffer) = ChunkSize THEN "absorb" ELSE "fill"

\* Mutant: the byte the probe returned does not lead the part.
CreatePartAfterTheProbe ==
  /\ at = "create"
  /\ parts' = Append(parts, [stream |-> <<>>, sink |-> 0, closed |-> FALSE])
  /\ chunk' = <<>>
  /\ exhausted' = FALSE
  /\ at' = "fill"
  /\ UNCHANGED <<given, fed, bevy, entries, total, hashVars, outcome>>

\* ContainerWriter::create; the chained cursor gives the probe's byte first.
CreatePart ==
  /\ at = "create"
  /\ parts' = Append(parts, [stream |-> <<>>, sink |-> 0, closed |-> FALSE])
  /\ exhausted' = FALSE
  /\ Filled(chunk)
  /\ UNCHANGED <<given, chunk, fed, bevy, entries, total, hashVars, outcome>>

-----------------------------------------------------------------------------
(* One call of the source's read: read_full's, or the probe's. *)

Asking == at \in {"fill", "probe"}
Wanted == IF at = "probe" THEN 1 ELSE ChunkSize - Len(chunk)

Answer(units) ==
  /\ Asking
  /\ given' = given \o units
  /\ IF at = "probe"
     THEN chunk' = units /\ at' = "create"
     ELSE chunk' = chunk \o units /\ Filled(chunk')
  /\ UNCHANGED <<fed, bevy, partVars, exhausted, hashVars, outcome>>

AnswerEnd ==
  /\ Asking
  /\ at' = IF at = "probe" THEN "digests" ELSE "absorb"
  /\ UNCHANGED <<given, chunk, fed, bevy, partVars, exhausted, hashVars, outcome>>

-----------------------------------------------------------------------------
(* write_image_stream_bounded, after read_full *)

\* Nothing was read: the source is exhausted and what the builder holds is the
\* last bevy.
NothingRead ==
  /\ at = "absorb" /\ chunk = <<>>
  /\ exhausted' = TRUE
  /\ at' = IF bevy # <<>> THEN "flush" ELSE "part"
  /\ UNCHANGED <<given, chunk, fed, bevy, partVars, hashVars, outcome>>

\* MultiHasher::update: the digests of this thread first.
Absorb ==
  /\ at = "absorb" /\ chunk # <<>>
  /\ absorbed' = [absorbed EXCEPT ![0] = @ \o chunk]
  /\ fed' = 0
  /\ at' = "feed"
  /\ UNCHANGED <<given, chunk, bevy, partVars, exhausted, queue, outcome>>

\* Mutant: a full queue is passed over instead of waited for.
FeedIfRoom ==
  /\ at = "feed" /\ fed < Workers
  /\ queue' = IF Len(queue[fed + 1]) < Depth
              THEN [queue EXCEPT ![fed + 1] = Append(@, chunk)] ELSE queue
  /\ fed' = fed + 1
  /\ UNCHANGED <<at, given, chunk, bevy, partVars, exhausted, absorbed, outcome>>

\* Then each worker in turn, waiting for room in its channel.
Feed ==
  /\ at = "feed" /\ fed < Workers
  /\ Len(queue[fed + 1]) < Depth
  /\ queue' = [queue EXCEPT ![fed + 1] = Append(@, chunk)]
  /\ fed' = fed + 1
  /\ UNCHANGED <<at, given, chunk, bevy, partVars, exhausted, absorbed, outcome>>

\* Every chunk but the last is full, so the builder is full once its units
\* need as many chunks as a bevy has.
BevyFull(units) == Len(units) > (BevyChunks - 1) * ChunkSize

\* push_chunk; a short chunk is the last.
Push ==
  /\ at = "feed" /\ fed = Workers
  /\ bevy' = bevy \o chunk
  /\ chunk' = <<>>
  /\ exhausted' = (Len(chunk) < ChunkSize)
  /\ at' = IF BevyFull(bevy') \/ exhausted' THEN "flush" ELSE "fill"
  /\ UNCHANGED <<given, fed, partVars, hashVars, outcome>>

Part == Len(parts)
\* What the sink holds is counted up to the threshold, all it is compared with.
Grown(sink, by) == IF sink + by < Threshold THEN sink + by ELSE Threshold

\* flush_bevy, and the cut when the part has reached the threshold.
FlushBevy(cost) ==
  /\ at = "flush"
  /\ parts' = [parts EXCEPT ![Part].stream = @ \o bevy,
                            ![Part].sink = Grown(@, Overhead + cost)]
  /\ bevy' = <<>>
  /\ at' = IF exhausted \/ parts'[Part].sink = Threshold THEN "part" ELSE "fill"
  /\ UNCHANGED <<given, chunk, fed, entries, total, exhausted, hashVars, outcome>>

-----------------------------------------------------------------------------
(* The end of a part, and of the set *)

\* The entry, the stub and the close of a later part, and next_part_number,
\* which refuses the number before the source is asked for more.
EndPart ==
  /\ at = "part"
  /\ entries' = Append(entries, [mapped |-> total, length |-> Len(parts[Part].stream)])
  /\ total' = total + Len(parts[Part].stream)
  /\ parts' = [parts EXCEPT ![Part].closed = Part > 1]
  /\ IF exhausted THEN at' = "digests" /\ UNCHANGED outcome
     ELSE IF Part + 1 > MaxParts THEN Stop("too many")
     ELSE at' = "probe" /\ UNCHANGED outcome
  /\ UNCHANGED <<given, chunk, fed, bevy, exhausted, hashVars>>

\* MultiHasher::finish closes every channel and joins every thread.
CollectDigests ==
  /\ at = "digests"
  /\ \A w \in 1..Workers : queue[w] = <<>>
  /\ at' = "map"
  /\ UNCHANGED <<given, chunk, fed, bevy, partVars, exhausted, hashVars, outcome>>

\* finish_first_part
FinishFirstPart ==
  /\ at = "map"
  /\ parts' = [parts EXCEPT ![1].closed = TRUE]
  /\ Stop("written")
  /\ UNCHANGED <<given, chunk, fed, bevy, entries, total, exhausted, hashVars>>

\* A part that cannot be created, a write, a close or a read that fails: the
\* error is returned and every open part is left as it stands.
Fails ==
  /\ at \in {"create", "fill", "probe", "flush", "part", "map"}
  /\ Stop("failed")
  /\ UNCHANGED <<given, chunk, fed, bevy, partVars, exhausted, hashVars>>

\* A worker's loop.
Work(w) ==
  /\ queue[w] # <<>>
  /\ absorbed' = [absorbed EXCEPT ![w] = @ \o Head(queue[w])]
  /\ queue' = [queue EXCEPT ![w] = Tail(@)]
  /\ UNCHANGED <<at, given, chunk, fed, bevy, partVars, exhausted, outcome>>

WriterStep ==
  \/ CreatePart \/ NothingRead \/ Absorb \/ Feed \/ Push
  \/ \E cost \in 1..Len(bevy) : FlushBevy(cost)
  \/ EndPart \/ CollectDigests \/ FinishFirstPart
WorkerStep == \E w \in 1..Workers : Work(w)

\* The writer by itself, over a source that returns anything.
Answers == UNION {[1..n -> Unit] : n \in 1..ChunkSize}
SourceStep ==
  \/ AnswerEnd
  \/ \E units \in Answers : Len(units) <= Wanted /\ Answer(units)
WriterNext ==
  \/ \E size \in Nat : Preflight(size)
  \/ SourceStep \/ WriterStep \/ Fails \/ WorkerStep
WriterSpec == WriterInit /\ [][WriterNext]_writerVars

-----------------------------------------------------------------------------
(* Properties *)

Slices == Answers
WriterTypeOK ==
  /\ at \in {"preflight", "create", "fill", "absorb", "feed", "flush", "part",
             "probe", "digests", "map", "stopped"}
  /\ given \in Seq(Unit)
  /\ chunk \in Seq(Unit) /\ bevy \in Seq(Unit) /\ fed \in 0..Workers
  /\ parts \in Seq([stream : Seq(Unit), sink : 0..Threshold, closed : BOOLEAN])
  /\ entries \in Seq([mapped : Nat, length : Nat])
  /\ total \in Nat /\ exhausted \in BOOLEAN
  /\ absorbed \in [0..Workers -> Seq(Unit)]
  /\ queue \in [1..Workers -> Seq(Seq(Unit))]
  /\ outcome \in {"running", "written", "refused", "failed", "too many"}

\* Where in the image a part begins, and where the bevy being built does.
Base(i) == IF i <= Len(entries) THEN entries[i].mapped ELSE total
Flushed == IF Part > Len(entries) THEN total + Len(parts[Part].stream) ELSE total
IsGiven(units, from) ==
  /\ from + Len(units) <= Len(given)
  /\ \A j \in 1..Len(units) : units[j] = given[from + j]

(* "The peeked byte must lead the part's data, or it would be lost": whatever  *)
(* the parts, the reads and the cuts, every unit the source returned is at one *)
(* place, in the order it came: the map's entries adjoin from zero to total    *)
(* and have their streams' lengths, and each part's stream, the bevy and the   *)
(* chunk in hand follow one another through what was given.                    *)
PartsTileTheImage ==
  /\ \A i \in 1..Len(entries) :
       /\ entries[i].length = Len(parts[i].stream)
       /\ entries[i].mapped = IF i = 1 THEN 0 ELSE entries[i - 1].mapped + entries[i - 1].length
       /\ i = Len(entries) => total = entries[i].mapped + entries[i].length
  /\ \A i \in 1..Part : IsGiven(parts[i].stream, Base(i))
  /\ IsGiven(bevy, Flushed) /\ IsGiven(chunk, Flushed + Len(bevy))
  /\ Flushed + Len(bevy) + Len(chunk) = Len(given)

(* "Digests over the whole image, computed once": when the set is written the *)
(* digest of every algorithm, on this thread or on its own behind a bounded   *)
(* channel, covers every unit of the image in order.                          *)
DigestsCoverTheImage ==
  outcome = "written" => \A d \in 0..Workers : absorbed[d] = given /\ Len(given) = total

(* "a part file with members but no central directory, sitting beside valid   *)
(* evidence": no part but the first is open while another is written or the   *)
(* digests are taken, none but the first is empty, and all are closed once    *)
(* the set is written.                                                        *)
NoPartIsLeftOpen ==
  /\ \A i \in 2..Part : parts[i].closed \/ (i = Part /\ i > Len(entries))
  /\ \A i \in 2..Len(entries) : entries[i].length > 0
  /\ outcome = "written" => Part = Len(entries) /\ \A i \in 1..Part : parts[i].closed

(* A set of parts is the image in order, and none of them is left open.        *)
PartsAreTheImage == PartsTileTheImage /\ NoPartIsLeftOpen
=============================================================================
