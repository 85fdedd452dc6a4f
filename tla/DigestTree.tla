----------------------------- MODULE DigestTree -----------------------------
(***************************************************************************)
(* The tree of digests a container records over what it stores, and its    *)
(* verification (verify_stream, verify_map, verify_block_hash_segment and  *)
(* verify_striped_block_map_hash of src/src/verify.rs): chunks under block *)
(* hashes, those under a digest of their segments, all of a volume's under *)
(* its blockMapHash, and the volumes' under the root of a striped image.   *)
(*                                                                         *)
(* What is stored is a function from places to contents:                   *)
(*   <<"data", v, s, b>>, <<"index", v, s, b>>  bevy b of stream s, in v   *)
(*   <<"blocks", v, s, a, b>>                   its chunks' digests by a   *)
(*   <<"map", v>>, <<"idx", v>>, <<"path", v>>  the segments of v's map    *)
(*   <<"member", o>>                            the bytes of file o        *)
(* A content is a sequence, or Torn if its member fails its checksum.  A   *)
(* digest is what it is over, with its algorithm: two are equal exactly    *)
(* when their inputs are.                                                  *)
(***************************************************************************)
EXTENDS Naturals, Sequences, FiniteSets

CONSTANTS
  Trees,      \* the sets a run may verify: [volumes, objects, written, found]
  ChunkSize,      \* bytes of a chunk
  ChunksPerBevy,  \* chunks of a bevy
  Bevies,         \* bevies of the longest stream (bounds the model)
  Unread          \* what a torn member holds

Algorithms == <<"md5", "sha1", "sha256">>  \* BLOCK_HASH_ORDER (three of the five)

VARIABLES
  evidence,  \* the set at hand
  left,      \* its objects still to be verified, in the order the metadata has them
  reading,   \* the pass over a stream: [volume, bevy, rest, whole, carry, chunks]
  verdicts,  \* the checks of the report, in order: [subject, digest, outcome]
  remarks    \* its notes: <<"differs", s, a, chunk>>, <<"unread", s, a>>, <<"no map", o>>
             \* or <<"order", key>>

treeVars == <<evidence, left, reading, verdicts, remarks>>

NotReading == [volume |-> 0]
Object == Head(left)
Turn(kind) == left # <<>> /\ reading = NotReading /\ Object.kind = kind

Digest(algorithm, content) == <<algorithm, content>>
Verdict(object, digest, outcome) ==
  [subject |-> object.name, digest |-> digest, outcome |-> outcome]
Compared(object, digest, content) ==
  Verdict(object, digest,
          IF object.recorded[digest] = Digest("sha512", content) THEN "match" ELSE "mismatch")
AllOf(answers) ==
  LET f[digests \in SUBSET DOMAIN answers] ==
        IF digests = {} THEN <<>>
        ELSE LET d == CHOOSE d \in digests : TRUE IN <<answers[d]>> \o f[digests \ {d}]
  IN f[DOMAIN answers]
Claims(object) == DOMAIN object.recorded

-----------------------------------------------------------------------------
(* What is stored *)

Volumes == 1..Len(evidence.volumes)
Exists(place) == place \in DOMAIN evidence.found
IsTorn(place) == evidence.found[place] = Unread
FirstVolume(found) ==
  IF found = {} THEN 0 ELSE CHOOSE v \in found : \A w \in found : v <= w
OrPrimary(v) == IF v = 0 THEN 1 ELSE v

\* Mutant: a volume that has the stream's block hashes has the stream.
HoldsBlocks(v, s) == \E a \in {"md5", "sha1"}, b \in 1..Bevies : Exists(<<"blocks", v, s, a, b>>)

\* volume_holds_stream_data: a bevy, not an index or a block-hash segment.
HoldsBevies(v, s) == \E b \in 1..Bevies : Exists(<<"data", v, s, b>>)

\* block_hash_segments, and the like for indexes: those there are, in bevy order.
BlockSegments(v, s, a) == SelectSeq([b \in 1..Bevies |-> <<"blocks", v, s, a, b>>], Exists)
IndexSegments(v, s) == SelectSeq([b \in 1..Bevies |-> <<"index", v, s, b>>], Exists)

AnyTorn(places) == \E i \in DOMAIN places : IsTorn(places[i])
Joined(places) ==
  LET f[n \in 0..Len(places)] == IF n = 0 THEN <<>> ELSE f[n - 1] \o evidence.found[places[n]]
  IN f[Len(places)]

\* read_map_segments: an absent mapPath is empty.
MapReads(v) ==
  /\ Exists(<<"map", v>>) /\ ~IsTorn(<<"map", v>>)
  /\ Exists(<<"idx", v>>) /\ ~IsTorn(<<"idx", v>>)
  /\ Exists(<<"path", v>>) => ~IsTorn(<<"path", v>>)
MapPath(v) == IF Exists(<<"path", v>>) THEN evidence.found[<<"path", v>>] ELSE <<>>
MapPart == [mapPointHash |-> "map", mapIdxHash |-> "idx", mapPathHash |-> "path"]
MapSegment(v, digest) ==
  LET map == evidence.found[<<"map", v>>]
      idx == evidence.found[<<"idx", v>>]
  IN CASE digest = "mapPointHash" -> map
       [] digest = "mapIdxHash" -> idx
       [] digest = "mapPathHash" -> MapPath(v)
       [] digest = "mapHash" -> map \o idx \o MapPath(v)
SegmentDigests == DOMAIN MapPart \cup {"mapHash"}

\* The streams a map's idx names, one to a line: those whose bevies are beside it.
LocalStreams(v) ==
  LET local(s) == HoldsBevies(v, s)
  IN SelectSeq(evidence.found[<<"idx", v>>], local)

\* block_map_hash_input: one digest for each algorithm a local stream has block
\* hashes by, then the map's three; nothing if a block-hash segment is torn.
BlockParts(v) ==
  LET streams == LocalStreams(v)
      per == Len(Algorithms)
      part(k) == BlockSegments(v, streams[((k - 1) \div per) + 1], Algorithms[((k - 1) % per) + 1])
      some(places) == places # <<>>
  IN SelectSeq([k \in 1..(per * Len(streams)) |-> part(k)], some)
BlockMapReads(v) == \A i \in DOMAIN BlockParts(v) : ~AnyTorn(BlockParts(v)[i])
BlockMapInput(v) ==
  [i \in DOMAIN BlockParts(v) |-> Digest("sha512", Joined(BlockParts(v)[i]))]
    \o <<Digest("sha512", evidence.found[<<"map", v>>]), Digest("sha512", evidence.found[<<"idx", v>>]),
         Digest("sha512", MapPath(v))>>

-----------------------------------------------------------------------------
(* A stream: its index, one pass, then its own digest and its block hashes. *)

StreamVolume(s) == OrPrimary(FirstVolume({v \in Volumes : HoldsBevies(v, s)}))

\* verify_stream_index_hashes
IndexVerdicts(object, v) ==
  LET places == IndexSegments(v, object.name)
  IN AllOf([d \in Claims(object) \ {"hash"} |->
       IF d # "imageStreamIndexHash" \/ AnyTorn(places) THEN Verdict(object, d, "declined")
       ELSE Compared(object, d, Joined(places))])

\* wanted_block_digests
Wanted(v, s) ==
  LET has(a) == BlockSegments(v, s, a) # <<>> IN SelectSeq(Algorithms, has)

StreamPassed ==
  /\ Turn("stream")
  /\ "hash" \notin Claims(Object) /\ Wanted(StreamVolume(Object.name), Object.name) = <<>>
  /\ verdicts' = verdicts \o IndexVerdicts(Object, StreamVolume(Object.name))
  /\ left' = Tail(left)
  /\ UNCHANGED <<evidence, reading, remarks>>

StreamBegun ==
  /\ Turn("stream")
  /\ "hash" \in Claims(Object) \/ Wanted(StreamVolume(Object.name), Object.name) # <<>>
  /\ verdicts' = verdicts \o IndexVerdicts(Object, StreamVolume(Object.name))
  /\ reading' = [volume |-> StreamVolume(Object.name), bevy |-> 0, rest |-> <<>>,
                 whole |-> <<>>, carry |-> <<>>, chunks |-> <<>>]
  /\ UNCHANGED <<evidence, left, remarks>>

InPass == reading # NotReading
NextBevy == <<"data", reading.volume, Object.name, reading.bevy + 1>>
Due == Object.size - Len(reading.whole)
Trimmed(bytes, size) == IF Len(bytes) <= size THEN bytes ELSE SubSeq(bytes, 1, size)

\* The last chunk is stored whole, and trimmed against the declared size.
BevyRead ==
  /\ InPass /\ reading.rest = <<>> /\ Due > 0
  /\ Exists(NextBevy) /\ ~IsTorn(NextBevy)
  /\ reading' = [reading EXCEPT !.bevy = @ + 1, !.rest = Trimmed(evidence.found[NextBevy], Due)]
  /\ UNCHANGED <<evidence, left, verdicts, remarks>>

\* report_stream_read_failure: only a digest of its own is answered for.
BevyFails ==
  /\ InPass /\ reading.rest = <<>> /\ Due > 0
  /\ ~(Exists(NextBevy) /\ ~IsTorn(NextBevy))
  /\ verdicts' = verdicts \o AllOf([d \in Claims(Object) \cap {"hash"} |->
                                   Verdict(Object, d, "unreadable")])
  /\ reading' = NotReading
  /\ left' = Tail(left)
  /\ UNCHANGED <<evidence, remarks>>

\* Mutant: a slice is taken to be a chunk.
FeedSlice(pass, slice) == [pass EXCEPT !.chunks = Append(@, slice)]

\* BlockDigests::feed: slices are cut again where the chunks end.
Feed(pass, slice) ==
  LET bytes == pass.carry \o slice
      full == Len(bytes) \div ChunkSize
  IN [pass EXCEPT
        !.chunks = @ \o [i \in 1..full |-> SubSeq(bytes, (i - 1) * ChunkSize + 1, i * ChunkSize)],
        !.carry = SubSeq(bytes, full * ChunkSize + 1, Len(bytes))]

SliceFed(count) ==
  /\ InPass /\ count <= Len(reading.rest)
  /\ LET slice == SubSeq(reading.rest, 1, count)
     IN reading' = [Feed(reading, slice) EXCEPT
                      !.whole = @ \o slice,
                      !.rest = SubSeq(@, count + 1, Len(@))]
  /\ UNCHANGED <<evidence, left, verdicts, remarks>>

\* first_difference, counting chunks from nought.
FirstDifference(recorded, computed) ==
  LET common == {i \in DOMAIN recorded : i \in DOMAIN computed}
      differ == {i \in common : recorded[i] # computed[i]}
  IN IF differ # {} THEN (CHOOSE i \in differ : \A j \in differ : i <= j) - 1
     ELSE Cardinality(common)

\* verify_block_hashes: a block-hash segment that cannot be read ends it, with
\* a note.
Readable(v, s) ==
  LET wanted == Wanted(v, s)
      torn == {i \in DOMAIN wanted : AnyTorn(BlockSegments(v, s, wanted[i]))}
  IN IF torn = {} THEN wanted
     ELSE SubSeq(wanted, 1, (CHOOSE i \in torn : \A j \in torn : i <= j) - 1)
BlockVerdicts(object, v, chunks) ==
  LET algorithms == Readable(v, object.name)
      computed(a) == [i \in DOMAIN chunks |-> Digest(a, chunks[i])]
      same(a) == Joined(BlockSegments(v, object.name, a)) = computed(a)
  IN [checks |-> [i \in DOMAIN algorithms |->
                    Verdict(object, algorithms[i], IF same(algorithms[i]) THEN "match" ELSE "mismatch")],
      notes |-> {<<"differs", object.name, a,
                   FirstDifference(Joined(BlockSegments(v, object.name, a)), computed(a))>> :
                   a \in {algorithms[i] : i \in {j \in DOMAIN algorithms : ~same(algorithms[j])}}}
                \cup (IF Len(algorithms) < Len(Wanted(v, object.name))
                      THEN {<<"unread", object.name, Wanted(v, object.name)[Len(algorithms) + 1]>>}
                      ELSE {})]

StreamRead ==
  /\ InPass /\ reading.rest = <<>> /\ Due = 0
  /\ LET last == IF reading.carry = <<>> THEN <<>> ELSE <<reading.carry>>
         blocks == BlockVerdicts(Object, reading.volume, reading.chunks \o last)
     IN /\ verdicts' = verdicts \o AllOf([d \in Claims(Object) \cap {"hash"} |->
                                         Compared(Object, d, reading.whole)])
                                \o blocks.checks
        /\ remarks' = remarks \cup blocks.notes
  /\ reading' = NotReading
  /\ left' = Tail(left)
  /\ UNCHANGED evidence

-----------------------------------------------------------------------------
(* The digests over segments *)

Reported(checks) ==
  /\ verdicts' = verdicts \o checks
  /\ left' = Tail(left)
  /\ UNCHANGED <<evidence, reading>>

\* verify_block_hash_segment: from the first volume that has such segments.
VerifyBlocks ==
  /\ Turn("blocks")
  /\ LET v == OrPrimary(FirstVolume({w \in Volumes : BlockSegments(w, Object.stream, Object.algorithm) # <<>>}))
         places == BlockSegments(v, Object.stream, Object.algorithm)
     IN Reported(AllOf([d \in Claims(Object) |->
          IF places = <<>> \/ AnyTorn(places) THEN Verdict(Object, d, "declined")
          ELSE Compared(Object, d, Joined(places))]))
  /\ UNCHANGED remarks

\* verify_map: from the volume that declares it.
VerifyMap ==
  /\ Turn("map")
  /\ LET v == Object.volume
     IN Reported(AllOf([d \in Claims(Object) |->
          IF ~MapReads(v) THEN Verdict(Object, d, "unreadable")
          ELSE IF d \in SegmentDigests THEN Compared(Object, d, MapSegment(v, d))
          ELSE IF d # "blockMapHash" THEN Verdict(Object, d, "declined")
          ELSE IF ~BlockMapReads(v) THEN Verdict(Object, d, "unreadable")
          ELSE Compared(Object, d, BlockMapInput(v))]))
  /\ UNCHANGED remarks

\* verify_zip_segment_image, as verify_image reaches it: a file with no content
\* recorded has nothing to answer for.
VerifyMember ==
  /\ Turn("file")
  /\ LET place == <<"member", Object.name>>
     IN Reported(AllOf([d \in Claims(Object) |->
          IF ~Exists(place) THEN Verdict(Object, d, "declined")
          ELSE IF IsTorn(place) THEN Verdict(Object, d, "unreadable")
          ELSE Compared(Object, d, evidence.found[place])]))
  /\ UNCHANGED remarks

-----------------------------------------------------------------------------
(* The root of an image in a set *)

\* Mutant: the order of the streams' names is not tried.
KeysWithoutStream == <<"file", "map">>

Keys == <<"file", "map", "stream">>

\* The stream's key is the map's when the volume has no stream of its own.
KeyOf(v, key) ==
  IF key = "stream" /\ LocalStreams(v) # <<>> THEN evidence.volumes[v].stream
  ELSE IF key = "file" THEN evidence.volumes[v].file ELSE evidence.volumes[v].map
Stripes == {v \in Volumes : evidence.volumes[v].declares}
InOrder(key) ==
  [i \in 1..Cardinality(Stripes) |->
     CHOOSE v \in Stripes : Cardinality({w \in Stripes : KeyOf(w, key) < KeyOf(v, key)}) = i - 1]

\* Mutant: the recorded digest of a stripe stands for it.
StripeRecorded(v) ==
  LET maps == {o \in {evidence.objects[i] : i \in DOMAIN evidence.objects} : o.kind = "map"}
  IN (CHOOSE o \in maps : o.volume = v).recorded["blockMapHash"]

\* recompute_stripe_digests
StripeDigest(v) == Digest("sha512", BlockMapInput(v))
StripesRead(stripes) == \A v \in stripes : MapReads(v) /\ BlockMapReads(v)

RootOver(key) == [i \in 1..Cardinality(Stripes) |-> StripeDigest(InOrder(key)[i])]
Matching(object) == {k \in DOMAIN Keys : object.recorded["root"] = Digest("sha512", RootOver(Keys[k]))}
StripesIntact ==
  \A i \in DOMAIN verdicts : verdicts[i].digest = "blockMapHash" => verdicts[i].outcome = "match"

\* open, open_in_set: the map and its index must be read, from the first volume
\* that declares the image; one that is not as written may be refused.
MapOf == OrPrimary(FirstVolume(Stripes))
OpeningReads == {<<"map", MapOf>>, <<"idx", MapOf>>}
Opens == {opens \in BOOLEAN :
            /\ opens => \A p \in OpeningReads : Exists(p) /\ ~IsTorn(p)
            /\ ~opens => \E p \in OpeningReads : ~Exists(p) \/ evidence.found[p] # evidence.written[p]}

\* verify_block_map_hash, of a container by itself; and
\* verify_striped_block_map_hash, of a set: one volume's root is its own
\* blockMapHash; of several the order is searched for, and when none will do the
\* stripes say whether that is a finding.
RootOutcome(object) ==
  LET read == StripesRead(Stripes \cup {MapOf})
      alone == IF object.recorded["root"] = StripeDigest(MapOf) THEN "match" ELSE "mismatch"
  IN IF Len(evidence.volumes) = 1 THEN IF read THEN alone ELSE "unreadable"
     ELSE IF ~read THEN "declined"
     ELSE IF Cardinality(Stripes) <= 1 THEN alone
     ELSE IF Matching(object) # {} THEN "match"
     ELSE IF StripesIntact THEN "declined" ELSE "mismatch"

VerifyRoot(opens) ==
  /\ Turn("image") /\ opens \in Opens
  /\ Reported(<<Verdict(Object, "root", IF opens THEN RootOutcome(Object) ELSE "declined")>>)
  /\ remarks' =
       IF ~opens THEN remarks \cup {<<"no map", Object.name>>}
       ELSE IF Cardinality(Stripes) > 1 /\ StripesRead(Stripes) /\ Matching(Object) # {}
            THEN remarks \cup {<<"order", Keys[CHOOSE k \in Matching(Object) :
                                                 \A j \in Matching(Object) : k <= j]>>}
            ELSE remarks

-----------------------------------------------------------------------------
TreeInit ==
  /\ evidence \in Trees
  /\ left = evidence.objects
  /\ reading = NotReading
  /\ verdicts = <<>> /\ remarks = {}

TreeNext ==
  \/ StreamPassed \/ StreamBegun \/ BevyRead \/ BevyFails \/ StreamRead
  \/ \E count \in 1..(ChunkSize + 1) : SliceFed(count)
  \/ VerifyBlocks \/ VerifyMap \/ VerifyMember \/ \E opens \in BOOLEAN : VerifyRoot(opens)
TreeSpec == TreeInit /\ [][TreeNext]_treeVars

-----------------------------------------------------------------------------
(* Properties *)

ReportIsOut == left = <<>> /\ reading = NotReading
\* What a stream's readers are given of a bevy, the padding of its last chunk left out.
ObjectsNamed(name) == LET named(object) == object.name = name IN SelectSeq(evidence.objects, named)
Served(store, place) ==
  IF place[1] # "data" THEN store[place]
  ELSE Trimmed(store[place], ObjectsNamed(place[3])[1].size - (place[4] - 1) * ChunkSize * ChunksPerBevy)
AsWritten(place) ==
  IF ~Exists(place) THEN place[1] = "path" /\ evidence.written[place] = <<>>
  ELSE ~IsTorn(place) /\ Served(evidence.found, place) = Served(evidence.written, place)

\* What a digest of an object is over, as the container was written.
At(kind) == {p \in DOMAIN evidence.written : p[1] = kind}
MapPlaces(v) == {p \in At("map") \cup At("idx") \cup At("path") : p[2] = v}
LocalBlocks(v) ==
  {p \in At("blocks") : p[2] = v /\ <<"data", v, p[3], p[5]>> \in DOMAIN evidence.written}
Under(object, digest) ==
  CASE object.kind = "stream" ->
         {p \in At(IF digest = "imageStreamIndexHash" THEN "index" ELSE "data") : p[3] = object.name}
    [] object.kind = "blocks" ->
         LET kept == {p \in At("blocks") : p[3] = object.stream /\ p[4] = object.algorithm}
         IN {p \in kept : \A q \in kept : p[2] <= q[2]}
    [] object.kind = "map" ->
         CASE digest = "mapHash" -> MapPlaces(object.volume)
           [] digest = "blockMapHash" -> MapPlaces(object.volume) \cup LocalBlocks(object.volume)
           [] OTHER -> At(MapPart[digest]) \cap MapPlaces(object.volume)
    [] object.kind = "image" -> UNION {MapPlaces(v) \cup LocalBlocks(v) : v \in Stripes}
    [] object.kind = "file" -> {<<"member", object.name>>}

SubjectOf(verdict) == ObjectsNamed(verdict.subject)[1]

Recomputable ==
  SegmentDigests \cup {"hash", "imageStreamIndexHash", "blockMapHash"} \cup {Algorithms[i] : i \in DOMAIN Algorithms}

(* On a set nobody has touched, whatever can be recomputed matches: however   *)
(* the reader slices a stream, whichever volume a part of the tree is in, and *)
(* whichever order the metadata has.  Left open are only a digest of unknown  *)
(* input, and a root over several stripes in no order by file name, map or    *)
(* stream: "filename, then map ARN, then stream ARN" (verify.rs:3069).        *)
SortedBy(order, key) ==
  /\ {order[i] : i \in DOMAIN order} = Stripes
  /\ \A i, j \in DOMAIN order : i < j => KeyOf(order[i], key) < KeyOf(order[j], key)
OrderIsKnown(object) ==
  \E order \in [1..Cardinality(Stripes) -> Stripes], key \in {"file", "map", "stream"} :
    /\ SortedBy(order, key)
    /\ object.recorded["root"] = Digest("sha512", [i \in DOMAIN order |-> StripeDigest(order[i])])
MayBeOpen(verdict) ==
  IF verdict.digest = "root"
  THEN Cardinality(Stripes) > 1 /\ ~OrderIsKnown(SubjectOf(verdict))
  ELSE verdict.digest \notin Recomputable
IntactSetsMatch ==
  (ReportIsOut /\ evidence.found = evidence.written) =>
    /\ \A i \in DOMAIN verdicts :
         \/ verdicts[i].outcome = "match"
         \/ verdicts[i].outcome = "declined" /\ MayBeOpen(verdicts[i])
    /\ \A note \in remarks : note[1] = "order"

(* "Feeding the recorded per-stripe digests would make the root match even    *)
(* when a stripe's data is damaged" (verify.rs:3073): a digest that matches   *)
(* was computed over what was written, a root over every stripe's own map     *)
(* and block-hash segments.                                                   *)
MatchMeansAsWritten ==
  \A i \in DOMAIN verdicts :
    verdicts[i].outcome = "match" =>
      \A p \in Under(SubjectOf(verdicts[i]), verdicts[i].digest) : AsWritten(p)

(* "Naming the first differing chunk is what makes a mismatch actionable"     *)
(* (verify.rs:2177): while the block hashes are as written, the chunk a note  *)
(* names is the first that is not.                                            *)
DataOf(store, v, s) ==
  LET bevies == {b \in 1..Bevies : <<"data", v, s, b>> \in DOMAIN store}
      f[b \in 0..Cardinality(bevies)] ==
        IF b = 0 THEN <<>> ELSE f[b - 1] \o Served(store, <<"data", v, s, b>>)
  IN f[Cardinality(bevies)]
ChunkOf(bytes, k) ==
  {<<i, bytes[i]>> : i \in {j \in DOMAIN bytes : (j - 1) \div ChunkSize = k}}
NamedChunkDiffersFirst ==
  \A note \in remarks :
    LET s == note[2]
        v == StreamVolume(s)
        was == DataOf(evidence.written, v, s)
        now == DataOf(evidence.found, v, s)
    IN (note[1] = "differs" /\ \A p \in At("blocks") : p[2] = v => AsWritten(p)) =>
         /\ ChunkOf(was, note[4]) # ChunkOf(now, note[4])
         /\ \A k \in 0..(note[4] - 1) : ChunkOf(was, k) = ChunkOf(now, k)

(* "Evidence that could not be read is a third answer ... Reporting it as     *)
(* success would let a container whose evidence will not decompress pass a    *)
(* scripted check" (main.rs:1571): when something a recorded digest is over   *)
(* is torn, some check is a mismatch or says that evidence was unreadable.    *)
\* The code does neither for a stream that records block hashes alone.
DigestsOf(object) ==
  Claims(object) \cup (IF object.kind # "stream" THEN {}
                       ELSE {a \in {Algorithms[i] : i \in DOMAIN Algorithms} :
                               BlockSegments(StreamVolume(object.name), object.name, a) # <<>>})
Attested ==
  UNION {UNION {Under(object, d) : d \in DigestsOf(object)} :
           object \in {evidence.objects[i] : i \in DOMAIN evidence.objects}}
UnreadEvidenceIsReported ==
  (ReportIsOut /\ \E p \in Attested : Exists(p) /\ IsTorn(p)) =>
    \E i \in DOMAIN verdicts : verdicts[i].outcome \in {"mismatch", "unreadable"}

(* What verification reports is so: a match and a named chunk alike.           *)
ReportIsTrue == MatchMeansAsWritten /\ NamedChunkDiffersFirst
=============================================================================
