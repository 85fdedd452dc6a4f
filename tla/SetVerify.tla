----------------------------- MODULE SetVerify ------------------------------
(***************************************************************************)
(* Verifying the objects of a multi-part set (src/src/verify.rs): each     *)
(* stream is read whole for its own digests, and the digests of the one    *)
(* image ride those passes where image order is stream order.  An image    *)
(* the passes did not cover is traversed on its own.                       *)
(***************************************************************************)
EXTENDS ImageRead

CONSTANTS
  Families,  \* the sets of volumes to verify, as products of their parts (bounds the model)
  Image      \* the ARN of the set's image

(***************************************************************************)
(* Digests an image may record, told apart by how they are answered: one   *)
(* over its bytes, one over a segment of its map (an ordinary algorithm    *)
(* under a predicate of its own), a blockMapHash, one not computable here. *)
(***************************************************************************)
DigestKinds == {"whole", "map_segment", "block_map", "not_computable"}

NoPass == [stream |-> NoStream, at |-> 0, feeding |-> FALSE]
NoFused == [prepared |-> FALSE]

VARIABLES
  set,      \* the set at hand: segment, streams, recorded, claimed, objects
  queue,    \* objects still to be verified
  fused,    \* FusedImage, or NoFused once it is taken or never was
  pass,     \* the stream pass under way: what it has read, who is fed
  checks,   \* the report's checks, in order
  accounts  \* the report's accounting entries of the image

verifyVars == <<set, queue, fused, pass, checks, accounts>>
vars == <<readVars, verifyVars>>

Check(subject, digest, outcome, over) ==
  [subject |-> subject, digest |-> digest, outcome |-> outcome, over |-> over]
WholeImage(outcome) == Check(Image, "whole", outcome, <<>>)

Objects == SetStreams \cup {Image}

\* The sets of a family: any of its segments with any of its streams' health,
\* recorded digests, claimed streams and orders of the objects.
SetsOf(family) == [segment : family.segments, streams : family.streams,
                   recorded : family.recorded, claimed : family.claimed,
                   objects : family.objects]

VerifyInit ==
  /\ \E family \in Families : set \in SetsOf(family)
  /\ health = set.streams
  /\ map = Parse(set.segment)
  /\ read = Idle
  /\ queue = <<"prepare">> \o set.objects
  /\ fused = NoFused /\ pass = NoPass
  /\ checks = <<>> /\ accounts = <<>>

Working == queue # <<>> /\ read.status = "idle" /\ pass = NoPass
Turn(object) == Working /\ Head(queue) = object

-----------------------------------------------------------------------------
(* The fused image *)

\* Image::open_in_set: a stream described by no volume refuses the image, even
\* one no entry of the map names.
ImageOpens ==
  /\ map.ok
  /\ \A s \in DependentStreams(map) : health[s].described # "nowhere"

\* The hashes prepare_fused_image lets ride: by algorithm alone.
Riders == set.recorded \cap {"whole", "map_segment"}

FreshFused == [prepared |-> TRUE, failed |-> FALSE, position |-> 1, delivered |-> <<>>,
               account |-> NothingCounted]

PrepareFusedImage ==
  /\ Turn("prepare")
  /\ fused' = IF Riders # {} /\ ImageOpens
              THEN IF IsSequential(map) THEN FreshFused ELSE NoFused
              ELSE NoFused
  /\ queue' = Tail(queue)
  /\ UNCHANGED <<readVars, set, pass, checks, accounts>>

\* Mutant: a failed pass is forgotten by the fused image and its run counted.
AbandonForgotten(image) == IF image.prepared THEN [image EXCEPT !.position = @ + 1] ELSE image

Abandon(image) == IF image.prepared THEN [image EXCEPT !.failed = TRUE] ELSE image

\* before_stream, and whether the next stored run is this stream's.
BeforeStream == IF fused.prepared
                THEN IF fused.failed THEN fused ELSE EmitUntilStored(fused)
                ELSE fused
Feeds(s) ==
  IF BeforeStream.prepared THEN ~BeforeStream.failed /\ StreamAt(BeforeStream.position) = s
  ELSE FALSE

\* after_stream: one stored run is closed, whatever the stream held.
AfterStream(image) ==
  IF StreamAt(image.position) # NoStream THEN [image EXCEPT !.position = @ + 1] ELSE image

\* finish: nothing failed, every run was delivered and the totals agree.
Covers(image) ==
  /\ ~image.failed
  /\ image.position = Len(map.entries) + 1
  /\ Total(image.account) = map.size

-----------------------------------------------------------------------------
(* verify_stream *)

\* The graph of the volume that holds the stream, or the primary's, describes it.
StreamOpens(s) == health[s].described = "where_read"

StreamUnopened(s) ==
  /\ Turn(s) /\ ~StreamOpens(s)
  /\ fused' = Abandon(fused)
  /\ checks' = IF s \in set.claimed THEN Append(checks, Check(s, "own", "error", <<>>))
               ELSE checks
  /\ queue' = Tail(queue)
  /\ UNCHANGED <<readVars, set, pass, accounts>>

\* No digest, no block hashes and no image waiting: the stream is not read.
StreamPassedOver(s) ==
  /\ Turn(s) /\ StreamOpens(s)
  /\ s \notin set.claimed /\ ~Feeds(s)
  /\ fused' = BeforeStream
  /\ queue' = Tail(queue)
  /\ UNCHANGED <<readVars, set, pass, checks, accounts>>

StreamBegins(s) ==
  /\ Turn(s) /\ StreamOpens(s)
  /\ s \in set.claimed \/ Feeds(s)
  /\ fused' = BeforeStream
  /\ pass' = [stream |-> s, at |-> 0, feeding |-> Feeds(s)]
  /\ UNCHANGED <<readVars, set, queue, checks, accounts>>

StreamBytes(s, from, count) == [k \in 1..count |-> ByteOf(Stored(s), from + k - 1)]

\* FusedImage::feed, when the pass feeds it.
FeedFused(image, s, from, count) ==
  IF pass.feeding
  THEN [image EXCEPT !.delivered = @ \o StreamBytes(s, from, count), !.account.stored = @ + count]
  ELSE image

PassFeeds ==
  /\ pass.stream # NoStream /\ pass.at < StreamSize[pass.stream]
  /\ ChunkComes(pass.stream, pass.at)
  /\ LET taken == Len(ChunkAt(pass.stream, pass.at))
     IN /\ pass' = [pass EXCEPT !.at = @ + taken]
        /\ fused' = FeedFused(fused, pass.stream, pass.at, taken)
  /\ UNCHANGED <<readVars, set, queue, checks, accounts>>

\* report_stream_read_failure.
PassFails ==
  /\ pass.stream # NoStream /\ pass.at < StreamSize[pass.stream]
  /\ ~ChunkComes(pass.stream, pass.at)
  /\ fused' = Abandon(fused)
  /\ checks' = IF pass.stream \in set.claimed
               THEN Append(checks, Check(pass.stream, "own", "error", <<>>)) ELSE checks
  /\ pass' = NoPass
  /\ queue' = Tail(queue)
  /\ UNCHANGED <<readVars, set, accounts>>

PassEnds ==
  /\ pass.stream # NoStream /\ pass.at = StreamSize[pass.stream]
  /\ fused' = IF pass.feeding THEN AfterStream(fused) ELSE fused
  /\ checks' = IF pass.stream \in set.claimed
               THEN Append(checks, Check(pass.stream, "own", "compared",
                                         StreamBytes(pass.stream, 0, pass.at)))
               ELSE checks
  /\ pass' = NoPass
  /\ queue' = Tail(queue)
  /\ UNCHANGED <<readVars, set, accounts>>

-----------------------------------------------------------------------------
(* The image *)

CheckEach(kinds, outcome, over) ==
  SetToSeq({Check(Image, kind, outcome, over) : kind \in kinds})

\* finish on a fused image that covers: its riders are compared, and what it
\* never carries is answered beside it.
FusedCovers ==
  /\ Turn(Image) /\ fused.prepared
  /\ Covers(EmitUntilStored(fused))
  /\ LET whole == EmitUntilStored(fused)
     IN /\ accounts' = <<[traversed |-> TRUE, account |-> whole.account]>>
        /\ checks' = checks \o CheckEach(Riders, "compared", whole.delivered)
                            \o CheckEach(set.recorded \cap {"block_map"}, "composite", <<>>)
                            \o CheckEach(set.recorded \cap {"not_computable"}, "declined", <<>>)
  /\ fused' = NoFused
  /\ queue' = Tail(queue)
  /\ UNCHANGED <<readVars, set, pass>>

\* Mutant: an image that rode in vain is left at that.
NotCoveredGoesOn ==
  /\ fused' = NoFused
  /\ queue' = Tail(queue)
  /\ UNCHANGED <<readVars, set, pass, checks, accounts>>

\* verify_image_in_set: digests that need no traversal are answered, and one
\* is begun if a digest over the image's bytes is recorded.
VerifyImageInSet ==
  /\ fused' = NoFused
  /\ IF ImageOpens
     THEN /\ accounts' = Append(accounts, [traversed |-> FALSE])
          /\ checks' = checks \o CheckEach(set.recorded \cap {"map_segment", "not_computable"},
                                           "declined", <<>>)
                              \o CheckEach(set.recorded \cap {"block_map"}, "composite", <<>>)
          /\ read' = IF "whole" \in set.recorded THEN StartedRead ELSE read
          /\ queue' = IF "whole" \in set.recorded THEN queue ELSE Tail(queue)
     ELSE /\ checks' = checks \o CheckEach(set.recorded, "declined", <<>>)
          /\ queue' = Tail(queue)
          /\ UNCHANGED <<read, accounts>>
  /\ UNCHANGED <<map, health, set, pass>>

FusedFallsBack ==
  /\ Turn(Image) /\ fused.prepared
  /\ ~Covers(EmitUntilStored(fused))
  /\ VerifyImageInSet

ImageBegins ==
  /\ Turn(Image) /\ ~fused.prepared
  /\ VerifyImageInSet

ImageStep == ReadStep /\ UNCHANGED verifyVars

\* verify_whole_image_digests, once the traversal is over: the entry derived
\* from the map makes way for the traversed one.
ImageEnds ==
  /\ read.status \in {"ok", "error"}
  /\ IF read.status = "ok"
     THEN /\ checks' = Append(checks, Check(Image, "whole", "compared", read.delivered))
          /\ accounts' = <<[traversed |-> TRUE, account |-> read.account]>>
     ELSE /\ checks' = Append(checks, WholeImage("error"))
          /\ UNCHANGED accounts
  /\ read' = Idle
  /\ queue' = Tail(queue)
  /\ UNCHANGED <<map, health, set, fused, pass>>

StreamStep ==
  \/ \E s \in SetStreams : StreamUnopened(s) \/ StreamPassedOver(s) \/ StreamBegins(s)
  \/ PassFeeds \/ PassFails \/ PassEnds

\* The report is complete.
Reported == queue = <<>> /\ UNCHANGED vars

VerifyNext ==
  \/ PrepareFusedImage
  \/ StreamStep
  \/ FusedCovers \/ FusedFallsBack \/ ImageBegins
  \/ ImageStep \/ ImageEnds
  \/ Reported

VerifySpec == VerifyInit /\ [][VerifyNext]_vars

-----------------------------------------------------------------------------
(* What is checked *)

Positions == 1..(IF map.ok THEN Len(map.entries) + 1 ELSE 1)
IsAccount(account) == account \in [{"stored", "described", "unknown", "gap"} -> Nat]
Answers(digest) == {i \in DOMAIN checks : checks[i].subject = Image /\ checks[i].digest = digest}

\* Every part of the state keeps its type: a position of a traversal is an
\* entry of the map or the place after the last.
SetTypeOK ==
  /\ health = set.streams /\ map.ok \in BOOLEAN
  /\ read.status \in {"idle", "reading", "ok", "error"} /\ read.how \in {"serial", "cut"}
  /\ read.position \in Positions /\ read.left \in Nat /\ read.at \in Nat
  /\ read.stream \in SetStreams \cup {NoStream} /\ IsAccount(read.account)
  /\ fused.prepared => /\ fused.position \in Positions /\ fused.failed \in BOOLEAN
                       /\ IsAccount(fused.account)
  /\ pass.stream \in SetStreams \cup {NoStream} /\ pass.at \in Nat /\ pass.feeding \in BOOLEAN
  /\ queue \in Seq(Objects \cup {"prepare"})
  /\ \A i \in DOMAIN checks : checks[i].outcome \in {"compared", "composite", "declined", "error"}

(* "entries is left gapless and sorted", and nothing else of the segment is  *)
(* changed: a segment is accepted exactly when each of its entries is usable *)
(* and each address is claimed once, or is a hole that may be filled, and    *)
(* the parsed map then holds at every address what the segment put there.    *)
ParsedMapMeansTheSegment ==
  /\ map.ok <=> Acceptable(set.segment)
  /\ map.ok => /\ Content(map) = MeantBy(set.segment)
               /\ \A i \in 2..Len(map.entries) : map.entries[i].offset = EndOf(map.entries[i - 1])

(* read_at is "short only at the end of the image, or, under Report, where   *)
(* an unknown region begins", and what it serves is the image's own bytes at *)
(* that address, however many entries the range crosses.  It fails exactly   *)
(* when the range holds bytes that cannot be produced, or begins in a region *)
(* that is to be reported.                                                   *)
Requested(offset, count) == {a \in offset..(offset + count - 1) : a < map.size}
UnknownAt(a) == TargetOf(map, EntryAt(map, a)).kind = "unknown"
Unserved(offset, count, report) ==
  IF report THEN {a \in Requested(offset, count) : \E u \in offset..a : UnknownAt(u)} ELSE {}
ProducibleAt(a) ==
  LET i == EntryAt(map, a)
      e == map.entries[i]
      place == e.at + a - e.offset
      s == TargetOf(map, i).of
  IN \/ IsDescribed(map, i)
     \/ /\ IsStored(map, i)
        /\ health[s].held /\ place < StreamSize[s] /\ Readable(s, place)
ServesTheImage(offset, count, report) ==
  LET answer == ReadAt(offset, count, report)
      served == Requested(offset, count) \ Unserved(offset, count, report)
      producible == \A a \in served : ProducibleAt(a)
  IN /\ answer.ok <=> producible /\ ~(report /\ offset \in Unserved(offset, count, report))
     /\ answer.ok => answer.bytes = SubSeq(Content(map), offset + 1, offset + Cardinality(served))
RandomReadsServeTheImage ==
  map.ok /\ queue = <<>> =>
    \A offset \in 0..map.size, count \in 1..(map.size + 1), report \in BOOLEAN :
      ServesTheImage(offset, count, report)

(* "A short traversal must never produce a digest": a digest compared for an *)
(* image's content was computed over the whole of it in address order, and   *)
(* one for a stream over the whole stream, whichever passes the bytes came   *)
(* from.  Digests over the map's own segments are apart: their subject is    *)
(* not the image's content (MapDigestsCoverTheMap).                          *)
ComparedDigestsCoverTheirSubject ==
  \A i \in DOMAIN checks :
    checks[i].outcome = "compared" /\ checks[i].digest # "map_segment" =>
      checks[i].over = IF checks[i].subject = Image THEN Content(map)
                       ELSE StreamBytes(checks[i].subject, 0, StreamSize[checks[i].subject])

\* The bytes of the map's own segments: its entries as they are recorded.
MapBytes == [i \in DOMAIN set.segment.entries |-> <<"entry", "map", i>>]

(* "Each is a digest of the map's own bytes, not of the image's content":    *)
(* what a digest over the map's segments is compared over, where it is.      *)
MapDigestsCoverTheMap ==
  \A i \in DOMAIN checks :
    checks[i].outcome = "compared" /\ checks[i].digest = "map_segment" =>
      checks[i].over = MapBytes

(* Each digest the image records is answered once: not again by the image's  *)
(* own traversal when the fused one answered, nor by neither.                *)
EveryDigestIsAnsweredOnce ==
  queue = <<>> =>
    \A digest \in DigestKinds :
      Cardinality(Answers(digest)) = (IF digest \in set.recorded THEN 1 ELSE 0)

(* "slower and always correct": whatever became of the fused traversal, the  *)
(* digest over the image's bytes is compared exactly when the image can be   *)
(* read, and only a read of whole members is refused for their CRC.          *)
Legible ==
  /\ ImageOpens
  /\ \A a \in 0..(map.size - 1) : ProducibleAt(a)
  /\ IsSequential(map) =>
       \A i \in DOMAIN map.entries : IsStored(map, i) => health[TargetOf(map, i).of].crc
LegibleImagesAreCompared ==
  queue = <<>> /\ "whole" \in set.recorded =>
    (\E i \in Answers("whole") : checks[i].outcome = "compared") <=> Legible

(* The report names the image's composition once, and a traversal's figures  *)
(* are those of the segment address by address: bytes no entry claimed are   *)
(* told from a run the imager measured, and neither is read from storage,    *)
(* unless the policy's target for holes is itself a stream or is unknown.    *)
CountedAs(a) ==
  LET kind == TargetOf(map, EntryAt(map, a)).kind
  IN IF kind \in {"stored", "unknown"} THEN kind
     ELSE IF Covering(set.segment, a) = {} THEN "gap" ELSE "described"
Counted(kind) == Cardinality({a \in 0..(map.size - 1) : CountedAs(a) = kind})

=============================================================================
