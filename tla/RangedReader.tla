---------------------------- MODULE RangedReader ----------------------------
(***************************************************************************)
(* ChunkReader of src/src/stream.rs: regions of a stream read on demand,   *)
(* through a cache of decompressed chunks, a cache of whole bevies and a   *)
(* cache of bevy indexes, the three handed from reader to reader as a      *)
(* Residency (src/src/image.rs).  Two streams of the same shape are read:  *)
(* the one of StreamContents, as a run finds it, and a sound one.          *)
(***************************************************************************)
EXTENDS StreamContents, FiniteSetsExt

CONSTANTS
  This, Other,      \* the two streams
  Members,          \* the ways the bevies of This may be stored
  Regions,          \* the regions asked for, <<offset, length>>
  ChunkCacheBytes,  \* CHUNK_CACHE_BYTES
  BevyCacheBytes,   \* BEVY_CACHE_BYTES, counted in stored chunks
  Calls             \* bound: regions read in one behaviour

\* addressable: the member is stored, not deflated, behind a legible header, so
\* that a range of it can be read; whole: it can be read to its end and its CRC
\* holds; indexed: its index is there and can be read.
Member == [addressable : BOOLEAN, whole : BOOLEAN, indexed : BOOLEAN]

ASSUME RangedAssumption ==
  /\ This # Other
  /\ Members \subseteq [BevyNumbers -> Member]
  /\ Regions \subseteq Nat \X Nat
  /\ ChunkCacheBytes \in Nat /\ BevyCacheBytes \in Nat /\ Calls \in Nat

VARIABLES
  thisStored,  \* the bevies of This
  members,     \* how they are stored
  cache,       \* the residency at hand
  call         \* the region being read

rangedVars == <<thisStored, members, cache, call>>

-----------------------------------------------------------------------------
(* The streams *)

Names == {This, Other}
BevyOf(s, b) == IF s = This THEN thisStored[b] ELSE SoundBevy(b)
MemberOf(s, b) ==
  IF s = This THEN members[b] ELSE [addressable |-> TRUE, whole |-> TRUE, indexed |-> TRUE]

HomeBevy(n) == n \div ChunksPerBevy
Place(n) == (n % ChunksPerBevy) + 1
Listed(s, n) == Place(n) <= Len(BevyOf(s, HomeBevy(n)).chunks)
StoredPlain(s, n) == BevyOf(s, HomeBevy(n)).chunks[Place(n)]

\* A chunk the index lists, of bytes that decompress.
Sound(s, n) == Listed(s, n) /\ StoredPlain(s, n) # Undecodable

\* Mutant: the final chunk keeps its padding.
Uncut(s, n) == StoredPlain(s, n)

\* The final chunk is cut at the declared size.
CutAtSize(s, n) == Truncated(StoredPlain(s, n), n * ChunkSize)

\* A decompressed chunk remembers what it is a chunk of.
PlainChunk(s, n) == [of |-> s, number |-> n, length |-> CutAtSize(s, n)]

IndexServes(s, b) == MemberOf(s, b).indexed /\ IndexAccepted(BevyOf(s, b))

-----------------------------------------------------------------------------
(* The caches *)

\* A reader over s that has read nothing.
Empty(s) ==
  [stream |-> s, chunk |-> <<>>, order |-> <<>>, held |-> 0,
   resident |-> <<>>, index |-> {}]

\* Mutant: whatever the last reader held is taken over.
CarriedWhatever(residency, s) == [residency EXCEPT !.stream = s]

\* SetStreams hands a residency on only within one stream, and restore checks
\* it again.
CarriedTo(residency, s) == IF residency.stream = s THEN residency ELSE Empty(s)

IsResident(c, b) == \E i \in DOMAIN c.resident : c.resident[i] = b
Without(f, key) == [k \in DOMAIN f \ {key} |-> f[k]]

\* Mutant: the evicted chunk's bytes are counted on.
EvictUncounted(c) ==
  LET victim == Head(c.order)
  IN [c EXCEPT !.order = Tail(@), !.chunk = Without(@, victim)]

EvictOldest(c) ==
  LET victim == Head(c.order)
  IN [c EXCEPT !.order = Tail(@), !.chunk = Without(@, victim),
               !.held = @ - c.chunk[victim].length]

\* chunk_bytes: the oldest go until the newcomer fits, but one always stays.
OldestGoes(d, incoming) ==
  IF Len(d.order) > 1 /\ d.held + incoming > ChunkCacheBytes THEN EvictOldest(d) ELSE d
MadeRoom(c, incoming) == FoldLeft(LAMBDA d, k : OldestGoes(d, incoming), c, c.order)

HoldChunk(c, n, plain) ==
  LET room == MadeRoom(c, plain.length)
  IN [room EXCEPT !.held = @ + plain.length, !.order = Append(@, n),
                  !.chunk = [k \in DOMAIN @ \cup {n} |-> IF k = n THEN plain ELSE @[k]]]

\* A bevy costs what its member occupies.
BevyCost(s, b) == Len(BevyOf(s, b).chunks)
ResidentCost(c) == FoldLeft(LAMBDA sum, b : sum + BevyCost(c.stream, b), 0, c.resident)

\* load_bevy: a hit moves to the recent end; a newcomer evicts the least
\* recent until it fits, all of them if need be.
LeastRecentGoes(d, b) ==
  IF Len(d.resident) = 0 \/ ResidentCost(d) + BevyCost(d.stream, b) <= BevyCacheBytes THEN d
  ELSE [d EXCEPT !.resident = Tail(@)]
RoomForBevy(c, b) == FoldLeft(LAMBDA d, k : LeastRecentGoes(d, b), c, c.resident)
HoldBevy(c, b) ==
  LET room == IF IsResident(c, b) THEN [c EXCEPT !.resident = RemoveFirst(@, b)]
              ELSE RoomForBevy(c, b)
  IN [room EXCEPT !.resident = Append(@, b)]

-----------------------------------------------------------------------------
(* The calls *)

NoCall == [stream |-> This, from |-> 0, end |-> 0, at |-> 0, got |-> <<>>,
           status |-> "idle", count |-> 0]

RangedInit ==
  /\ thisStored \in [BevyNumbers -> Bevies]
  /\ members \in Members
  /\ cache = Empty(This)
  /\ call = NoCall

\* read_region of the map's stream source.
CallRegion(s, region) ==
  /\ call.status # "reading" /\ call.count < Calls
  /\ cache' = CarriedTo(cache, s)
  /\ LET end == region[1] + region[2]
     IN call' = [stream |-> s, from |-> region[1], end |-> end, at |-> region[1],
                 got |-> <<>>, count |-> call.count + 1,
                 status |-> IF end > Size THEN "refused" ELSE "reading"]
  /\ UNCHANGED <<thisStored, members>>

Wanting == call.status = "reading" /\ call.at < call.end
Number == call.at \div ChunkSize
Within == call.at % ChunkSize
Missing == Wanting /\ Number \notin DOMAIN cache.chunk
Home == HomeBevy(Number)

Fetched(c, n) == cache' = HoldChunk(c, n, PlainChunk(call.stream, n)) /\ UNCHANGED call
Failed(c) == cache' = c /\ call' = [call EXCEPT !.status = "error"]

\* The index is read and kept as soon as the range path looks for a chunk.
Indexed(c) == [c EXCEPT !.index = @ \cup {Home}]

\* decompress_by_range is tried for a bevy that is not resident; a chunk whose
\* index entry is empty, or passes the member's end, cannot be served by it.
RangeTried == Missing /\ ~IsResident(cache, Home)
RangeServes ==
  /\ RangeTried
  /\ IndexServes(call.stream, Home) /\ Listed(call.stream, Number)
  /\ MemberOf(call.stream, Home).addressable

FetchByRange ==
  /\ RangeServes
  /\ StoredPlain(call.stream, Number) # Undecodable
  /\ Fetched(Indexed(cache), Number)
  /\ UNCHANGED <<thisStored, members>>

\* A chunk the range path reads but cannot decompress ends the read: falling
\* back would hide it.
RangeUndecodable ==
  /\ RangeServes
  /\ StoredPlain(call.stream, Number) = Undecodable
  /\ Failed(Indexed(cache))
  /\ UNCHANGED <<thisStored, members>>

\* An index that is there but refused ends the read too.
IndexRefused ==
  /\ RangeTried
  /\ MemberOf(call.stream, Home).indexed /\ ~IndexServes(call.stream, Home)
  /\ Failed(cache)
  /\ UNCHANGED <<thisStored, members>>

\* What is left to the whole-bevy path: a resident bevy, a member no range can
\* be read of, an index that is missing or too short, or a chunk it misplaces.
ByBevy ==
  /\ Missing
  /\ \/ IsResident(cache, Home)
     \/ ~MemberOf(call.stream, Home).indexed
     \/ /\ IndexServes(call.stream, Home)
        /\ \/ ~MemberOf(call.stream, Home).addressable
           \/ ~Sound(call.stream, Number)

Looked == IF IsResident(cache, Home) \/ ~IndexServes(call.stream, Home) THEN cache
          ELSE Indexed(cache)

BevyLoads ==
  \/ IsResident(cache, Home)
  \/ MemberOf(call.stream, Home).whole /\ IndexServes(call.stream, Home)

FetchByBevy ==
  /\ ByBevy /\ BevyLoads
  /\ Sound(call.stream, Number)
  /\ Fetched(HoldBevy(Looked, Home), Number)
  /\ UNCHANGED <<thisStored, members>>

\* The bevy is held before its chunk is looked for, and stays.
ChunkNotInBevy ==
  /\ ByBevy /\ BevyLoads
  /\ ~Sound(call.stream, Number)
  /\ Failed(HoldBevy(Looked, Home))
  /\ UNCHANGED <<thisStored, members>>

BevyUnreadableHere ==
  /\ ByBevy /\ ~BevyLoads
  /\ Failed(Looked)
  /\ UNCHANGED <<thisStored, members>>

\* The chunk is at hand.
Present == Wanting /\ Number \in DOMAIN cache.chunk
HeldChunk == cache.chunk[Number]

ChunkTooShort ==
  /\ Present /\ Within >= HeldChunk.length
  /\ Failed(cache)
  /\ UNCHANGED <<thisStored, members>>

\* Bytes a place of a chunk gives: which stream, which chunk, where in it.
Slice(plain, from, count) == [k \in 1..count |-> <<plain.of, plain.number, from + k - 1>>]

Give ==
  /\ Present /\ Within < HeldChunk.length
  /\ LET left == HeldChunk.length - Within
         take == IF call.end - call.at < left THEN call.end - call.at ELSE left
     IN call' = [call EXCEPT !.at = @ + take, !.got = @ \o Slice(HeldChunk, Within, take)]
  /\ UNCHANGED <<thisStored, members, cache>>

\* The caller's sink refuses the slice: the caches keep what they took in.
SinkRefuses ==
  /\ Present /\ Within < HeldChunk.length
  /\ call' = [call EXCEPT !.status = "sink"]
  /\ UNCHANGED <<thisStored, members, cache>>

RegionEnds ==
  /\ call.status = "reading" /\ call.at = call.end
  /\ call' = [call EXCEPT !.status = "ok"]
  /\ UNCHANGED <<thisStored, members, cache>>

RangedNext ==
  \/ \E s \in Names, region \in Regions : CallRegion(s, region)
  \/ FetchByRange \/ RangeUndecodable \/ IndexRefused
  \/ FetchByBevy \/ ChunkNotInBevy \/ BevyUnreadableHere
  \/ ChunkTooShort \/ Give \/ SinkRefuses \/ RegionEnds

RangedSpec == RangedInit /\ [][RangedNext]_rangedVars

-----------------------------------------------------------------------------
(* Properties *)

RangedTypeOK ==
  /\ members \in Members
  /\ cache.stream \in Names
  /\ DOMAIN cache.chunk \subseteq 0..(BevyCount * ChunksPerBevy - 1)
  /\ \A n \in DOMAIN cache.chunk :
       /\ cache.chunk[n].length \in 0..ChunkSize
       /\ cache.chunk[n].length <= Size - n * ChunkSize
  /\ cache.held \in Nat
  /\ cache.index \subseteq BevyNumbers
  /\ \A i \in DOMAIN cache.resident : cache.resident[i] \in BevyNumbers
  /\ call.stream \in Names
  /\ call.status \in {"idle", "reading", "ok", "refused", "error", "sink"}
  /\ call.count \in 0..Calls

\* The bytes of a stream a reader without any cache would find, chunk by chunk:
\* how many bytes of chunk n can be had, none if it cannot be reached.
Reaches(s, n) ==
  IF /\ IndexServes(s, HomeBevy(n)) /\ Sound(s, n)
     /\ MemberOf(s, HomeBevy(n)).addressable \/ MemberOf(s, HomeBevy(n)).whole
  THEN CutAtSize(s, n) ELSE 0
Obtainable(s, p) == p % ChunkSize < Reaches(s, p \div ChunkSize)

(* Whatever was read before, whichever stream the caches were filled from   *)
(* and whatever has been evicted since: a region yields its own stream's    *)
(* bytes from its own offset, stops only at a byte that cannot be had, and  *)
(* succeeds when there is none.                                             *)
RegionIsItsStream ==
  /\ call.got = [k \in 1..(call.at - call.from) |->
       <<call.stream, (call.from + k - 1) \div ChunkSize, (call.from + k - 1) % ChunkSize>>]
  /\ call.status = "ok" => call.at = call.end
  /\ call.status = "error" => ~Obtainable(call.stream, call.at)
  /\ \A p \in call.from..(call.at - 1) : Obtainable(call.stream, p)

=============================================================================
