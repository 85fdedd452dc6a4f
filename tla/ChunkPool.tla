----------------------------- MODULE ChunkPool -----------------------------
(***************************************************************************)
(* Deduplicated storage: the pool that keeps one copy of each distinct     *)
(* chunk of the files of an acquisition (src/src/write/dedupe.rs), and the *)
(* map that puts a file together again from the chunks it refers to        *)
(* (write_slice_map in src/src/write/map_writer.rs).  A chunk's digest is  *)
(* the chunk itself: two chunks have one digest when they are equal.       *)
(***************************************************************************)
EXTENDS Naturals, Sequences, SequencesExt, FiniteSets

CONSTANTS
  PoolChunkSize,  \* the pool's chunk_size, also the stream's
  LastTarget      \* u32::MAX: the greatest target ID

ASSUME PoolAssumption == PoolChunkSize \in Nat \ {0} /\ LastTarget \in Nat

Smaller(a, b) == IF a <= b THEN a ELSE b

\* The chunks read_full fills from a source: all full but the last.
Chunks(bytes) ==
  [i \in 1..((Len(bytes) + PoolChunkSize - 1) \div PoolChunkSize) |->
     SubSeq(bytes, (i - 1) * PoolChunkSize + 1, Smaller(i * PoolChunkSize, Len(bytes)))]

\* A short final chunk is filled with NUL before it is hashed.
Padded(chunk) == chunk \o [i \in 1..(PoolChunkSize - Len(chunk)) |-> 0]

EmptyPool == [unique |-> <<>>, stored |-> 0, presented |-> 0]

\* intern: the target ID of a chunk in a pool that holds it.
TargetOf(pool, chunk) ==
  Smaller((CHOOSE i \in 1..Len(pool.unique) : pool.unique[i] = chunk) - 1, LastTarget)
Interned(pool, chunk) ==
  IF chunk \in Range(pool.unique) THEN pool
  ELSE [pool EXCEPT !.unique = Append(@, chunk), !.stored = @ + Len(chunk)]

\* absorb, of everything a source gives up; what it pooled before a read that
\* fails stays in the pool.
Absorbed(pool, bytes) ==
  [FoldLeft(LAMBDA p, chunk : Interned(p, Padded(chunk)), pool, Chunks(bytes))
   EXCEPT !.presented = @ + Len(bytes)]
Targets(pool, bytes) ==
  [i \in 1..Len(Chunks(bytes)) |-> TargetOf(pool, Padded(Chunks(bytes)[i]))]

\* finish: the slice of the one stream of chunks that a chunk's ARN names.
Slice(target) == [offset |-> target * PoolChunkSize, length |-> PoolChunkSize]

\* A saturated ID stands for more than one chunk.
Saturated(pool) == Len(pool.unique) > LastTarget + 1

-----------------------------------------------------------------------------
(* The map over a file's chunks, write_slice_map *)

\* Mutant: the map covers the padding too.
MappedWhole(size, at) == PoolChunkSize

\* "The map must describe the file, not the pool."
MappedLength(size, at) == IF at >= size THEN 0 ELSE Smaller(PoolChunkSize, size - at)

\* A target's place among the file's own, which are listed once each in the
\* order of first use.
FirstUse(targets, i) ==
  CHOOSE j \in 1..i : targets[j] = targets[i] /\ \A k \in 1..(j - 1) : targets[k] # targets[i]
LocalId(targets, i) == Cardinality({targets[j] : j \in 1..(FirstUse(targets, i) - 1)})
LocalTargets(targets) ==
  FoldLeft(LAMBDA listed, t : IF t \in Range(listed) THEN listed ELSE Append(listed, t),
           <<>>, targets)

SliceEntries(targets, size) ==
  [i \in 1..Len(targets) |->
     [at |-> (i - 1) * PoolChunkSize,
      length |-> MappedLength(size, (i - 1) * PoolChunkSize),
      local |-> LocalId(targets, i)]]

\* The bytes of a file read through its entries and its list of targets, from
\* the stream of chunks.
ReadThrough(entries, locals, stream) ==
  FlattenSeq([i \in 1..Len(entries) |->
                LET slice == Slice(locals[entries[i].local + 1])
                IN SubSeq(stream, slice.offset + 1, slice.offset + entries[i].length)])
=============================================================================
