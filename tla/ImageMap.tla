------------------------------ MODULE ImageMap ------------------------------
(***************************************************************************)
(* The Map of an image (src/src/map.rs): a segment of entries over a list  *)
(* of targets, parsed into a gapless sorted view of the address space.  A  *)
(* byte is abstracted to where it comes from, <<kind, source, place>>, so  *)
(* two images are the same exactly when their sequences of bytes are.      *)
(***************************************************************************)
EXTENDS Integers, Sequences, FiniteSets, TLC, SequencesExt

CONSTANTS
  SetStreams,    \* the ImageStreams a set of volumes may hold
  StreamSize,    \* aff4:size of each
  UnknownBlock,  \* BLOCK of emit_unknown, after which its filler restarts
  LargestOffset  \* u64::MAX, the last offset an entry may end at

ASSUME ImageMapAssumption ==
  /\ StreamSize \in [SetStreams -> Nat]
  /\ UnknownBlock \in Nat \ {0}
  /\ LargestOffset \in Nat

\* Target: a deduplicated chunk carries the slice of a stream its dataStream
\* names, or <<>> where the metadata names none.
Target(kind, of) == [kind |-> kind, of |-> of]
Stored(stream) == Target("stored", stream)
Entry(offset, length, at, target) ==
  [offset |-> offset, length |-> length, at |-> at, target |-> target]
EndOf(e) == e.offset + e.length

Refused == [ok |-> FALSE]

-----------------------------------------------------------------------------
(* Parsing.  A segment is the record of what parse_with is given: entries,  *)
(* targets, the declared size, and fill and gap, the gap policy.            *)

\* Checked on the entries as stored, before any of them is sorted.
Validated(seg) ==
  /\ seg.targets # <<>> /\ seg.entries # <<>>
  /\ \A i \in DOMAIN seg.entries :
       LET e == seg.entries[i]
       IN e.length > 0 /\ e.target \in DOMAIN seg.targets /\ EndOf(e) <= LargestOffset

ByOffset(entries) == SortSeq(entries, LAMBDA a, b : a.offset < b.offset)

\* gap_target_of: one target is appended for all the holes of a map.
GapTarget(seg) == Len(seg.targets) + 1
Hole(seg, from, to) == Entry(from, to - from, 0, GapTarget(seg))

\* Mutant: an entry that begins inside the one before it is let through.
CoverEntryOverlapping(seg, walk, e) ==
  IF walk.refused \/ (e.offset > walk.end /\ ~seg.fill)
  THEN [walk EXCEPT !.refused = TRUE]
  ELSE [refused |-> FALSE, end |-> EndOf(e),
        covered |-> walk.covered + EndOf(e) - walk.end,
        holes |-> IF e.offset > walk.end THEN Append(walk.holes, Hole(seg, walk.end, e.offset))
                  ELSE walk.holes]

\* resolve_coverage, one turn: a hole is filled or refused, an overlap refused.
CoverEntry(seg, walk, e) ==
  IF walk.refused \/ e.offset < walk.end \/ (e.offset > walk.end /\ ~seg.fill)
  THEN [walk EXCEPT !.refused = TRUE]
  ELSE [refused |-> FALSE, end |-> EndOf(e),
        covered |-> walk.covered + (e.offset - walk.end) + e.length,
        holes |-> IF e.offset > walk.end THEN Append(walk.holes, Hole(seg, walk.end, e.offset))
                  ELSE walk.holes]

\* A hole at the end of the address space is filled like any other.
CoverTail(seg, walk) ==
  IF walk.end < seg.size /\ seg.fill
  THEN [walk EXCEPT !.covered = @ + seg.size - walk.end,
                    !.holes = Append(@, Hole(seg, walk.end, seg.size))]
  ELSE walk

ResolveCoverage(seg) ==
  CoverTail(seg, FoldLeft(LAMBDA walk, e : CoverEntry(seg, walk, e),
                          [refused |-> FALSE, end |-> 0, covered |-> 0, holes |-> <<>>],
                          ByOffset(seg.entries)))

\* A chunk whose slice is known becomes a read of its stream, and the slice's
\* start moves into every entry that names it; another stays unreadable.
Resolvable(target) == target.kind = "block" /\ target.of # <<>>
ResolveBlockHashes(map) ==
  [map EXCEPT
    !.targets = [t \in DOMAIN @ |->
                   IF Resolvable(@[t]) THEN Stored(@[t].of[1]) ELSE @[t]],
    !.entries = [i \in DOMAIN @ |->
                   IF Resolvable(map.targets[@[i].target])
                   THEN [@[i] EXCEPT !.at = @ + map.targets[map.entries[i].target].of[2]]
                   ELSE @[i]]]

Parse(seg) ==
  LET coverage == ResolveCoverage(seg)
      filled == coverage.holes # <<>>
  IN IF ~Validated(seg) THEN Refused
     ELSE IF coverage.refused \/ coverage.covered # seg.size THEN Refused
     ELSE ResolveBlockHashes(
            [ok |-> TRUE, size |-> seg.size,
             entries |-> IF filled THEN ByOffset(seg.entries \o coverage.holes)
                         ELSE ByOffset(seg.entries),
             targets |-> IF filled THEN Append(seg.targets, seg.gap) ELSE seg.targets,
             gap |-> IF filled THEN GapTarget(seg) ELSE 0])

-----------------------------------------------------------------------------
(* The parsed map *)

TargetOf(map, i) == map.targets[map.entries[i].target]
IsStored(map, i) == TargetOf(map, i).kind = "stored"
IsDescribed(map, i) == TargetOf(map, i).kind \in {"repeated", "unknown"}

\* The byte a target yields at one of its offsets.
ByteOf(target, place) ==
  <<target.kind, target.of,
    CASE target.kind = "stored" -> place
      [] target.kind = "unknown" -> place % UnknownBlock
      [] OTHER -> 0>>

\* count bytes of an entry from a place within it.
EntryBytes(map, i, from, count) ==
  [k \in 1..count |-> ByteOf(TargetOf(map, i), map.entries[i].at + from + k - 1)]
WholeEntry(map, i) == EntryBytes(map, i, 0, map.entries[i].length)

\* entry_at: the binary search over disjoint sorted entries; 0 past the end.
EntryAt(map, offset) ==
  LET covers == {i \in DOMAIN map.entries :
                   map.entries[i].offset <= offset /\ offset < EndOf(map.entries[i])}
  IN IF covers = {} THEN 0 ELSE CHOOSE i \in covers : TRUE

DependentStreams(map) ==
  {map.targets[t].of : t \in {u \in DOMAIN map.targets : map.targets[u].kind = "stored"}}

\* The stored targets in the order the image visits them, a run of entries of
\* one target counted once.
VisitedTargets(map) ==
  FoldLeft(LAMBDA seen, e :
             IF map.targets[e.target].kind # "stored" THEN seen
             ELSE IF seen # <<>> /\ Last(seen) = e.target THEN seen
             ELSE Append(seen, e.target),
           <<>>, map.entries)

PartLayout(map) ==
  LET runs == VisitedTargets(map)
      distinct == Cardinality(ToSet(runs))
  IN IF distinct < 2 THEN "single"
     ELSE IF Len(runs) = distinct THEN "sequential" ELSE "striped"

\* Mutant: the entries of a stream are taken to ascend without a look at them.
AdvanceUnchecked(map, walk, e) ==
  LET target == map.targets[e.target]
  IN IF target.kind \in {"repeated", "unknown"} THEN walk
     ELSE IF target.kind # "stored" THEN [walk EXCEPT !.sequential = FALSE]
     ELSE [walk EXCEPT
             !.sequential = @ /\ (target.of = walk.last \/ target.of \notin DOMAIN walk.next),
             !.last = target.of,
             !.next = (target.of :> (IF target.of \in DOMAIN @ THEN @[target.of] ELSE 0) + e.length)
                      @@ @]

\* is_sequential, one entry: a stream goes on where it stopped and is not
\* taken up again once another has intervened.
Advance(map, walk, e) ==
  LET target == map.targets[e.target]
      expected == IF target.of \in DOMAIN walk.next THEN walk.next[target.of] ELSE 0
  IN IF target.kind \in {"repeated", "unknown"} THEN walk
     ELSE IF target.kind # "stored" THEN [walk EXCEPT !.sequential = FALSE]
     ELSE [walk EXCEPT
             !.sequential = @ /\ e.at = expected
                              /\ (target.of = walk.last \/ target.of \notin DOMAIN walk.next),
             !.last = target.of,
             !.next = (target.of :> expected + e.length) @@ @]

\* Each stream forms one ascending group that covers the whole of it.
IsSequential(map) ==
  LET walk == FoldLeft(LAMBDA w, e : Advance(map, w, e),
                       [sequential |-> TRUE, last |-> "none", next |-> <<>>], map.entries)
  IN /\ PartLayout(map) # "striped"
     /\ walk.sequential
     /\ \A s \in DependentStreams(map) \cap DOMAIN walk.next : walk.next[s] = StreamSize[s]

-----------------------------------------------------------------------------
(* What a segment means, apart from how it is parsed *)

\* The image a map describes, byte by byte.
Content(map) ==
  [k \in 1..map.size |->
     LET i == EntryAt(map, k - 1)
     IN ByteOf(TargetOf(map, i), map.entries[i].at + (k - 1) - map.entries[i].offset)]

Covering(seg, a) == {i \in DOMAIN seg.entries :
                       seg.entries[i].offset <= a /\ a < EndOf(seg.entries[i])}
Addresses(seg) == 0..(seg.size - 1)

\* Every entry is usable, no address is claimed twice or lies past the end,
\* and none is unclaimed unless holes are to be filled.
Acceptable(seg) ==
  /\ Validated(seg)
  /\ \A i \in DOMAIN seg.entries : EndOf(seg.entries[i]) <= seg.size
  /\ \A a \in Addresses(seg) :
       Cardinality(Covering(seg, a)) \in (IF seg.fill THEN {0, 1} ELSE {1})

\* Where a hole begins: after the last claimed address before it.
HoleStart(seg, a) ==
  CHOOSE h \in 0..a : /\ \A b \in h..a : Covering(seg, b) = {}
                      /\ h = 0 \/ Covering(seg, h - 1) # {}

Claimed(target, place) ==
  IF Resolvable(target) THEN ByteOf(Stored(target.of[1]), target.of[2] + place)
  ELSE ByteOf(target, place)

MeantBy(seg) ==
  [k \in 1..seg.size |->
     LET a == k - 1
     IN IF Covering(seg, a) = {} THEN Claimed(seg.gap, a - HoleStart(seg, a))
        ELSE LET e == seg.entries[CHOOSE i \in Covering(seg, a) : TRUE]
             IN Claimed(seg.targets[e.target], e.at + a - e.offset)]
=============================================================================
