---------------------------- MODULE ContainerMC ----------------------------
(* What a container is opened for: the image of a set, its logical files, or  *)
(* the digests it records.                                                    *)
(* Folders of up to four files: sets as the writers of the repository and of  *)
(* the corpus leave them, the same with a part damaged, repeated, of another  *)
(* generation or gone, sets whose volumes contradict one another, and files   *)
(* that are no set.  Archives of up to three files, whose paths are equal, or *)
(* become so once they are made writable, or once the host compares them; one *)
(* may be the directory of another; one name is another's "(2)".              *)
(* Evidence as a writer leaves it, and with any one element of any one member *)
(* altered, or the member torn or gone.  ZIP files of up to four members,     *)
(* stored and deflated, of sizes and at offsets on both sides of what 32 bits *)
(* hold; with data altered, headers gone, or a directory the volume's own     *)
(* scan does not follow.                                                      *)
EXTENDS OpenSet, LogicalExport, ImageWriter, ZipReader

CONSTANTS
  S1, S2, Points1, Points2, Path, Altered,  \* what is stored
  Arn1, Arn2, Url                           \* what a volume is said to be

TwoStreams == {"s1", "s2"}
Nothing == [size |-> Absent, chunk |-> Absent, stored |-> Absent]
Stub(arn) == [Nothing EXCEPT !.stored = arn]
Full(arn) == [size |-> 8, chunk |-> 4, stored |-> arn]

Volume(arn, facts, bevies) ==
  [arn |-> arn, generation |-> "standard", facts |-> facts, bevies |-> bevies,
   images |-> [i \in {"disk"} |-> "DiskImage"], maps |-> [i \in {} |-> {}], refers |-> {},
   hashes |-> [s \in TwoStreams |-> IF s \in bevies THEN {"md5", "sha1"} ELSE {}]]
Facts(one, two) == [s \in TwoStreams |-> IF s = "s1" THEN one ELSE two]
WithMap(volume) == [volume EXCEPT !.maps = [i \in {"disk"} |-> TwoStreams]]

\* A striped set: each volume declares the other's stream as a stub, and a map.
Stripe1 == WithMap(Volume("v1", Facts(Full("v1"), Stub("v2")), {"s1"}))
Stripe2 == WithMap(Volume("v2", Facts(Stub("v1"), Full("v2")), {"s2"}))
\* A multi-part set: the map is in the first part, the others refer to it.
Part1 == WithMap(Volume("v1", Facts(Full("v1"), Nothing), {"s1"}))
Part2 == [Volume("v2", Facts(Nothing, Full("v2")), {"s2"}) EXCEPT !.refers = {"v1"}]
\* A first part that describes what only the second holds.
Described == WithMap(Volume("v1", Facts(Full("v1"), Full("v1")), {"s1"}))
\* A container of one volume, and one that has nothing to do with the others.
Lone == WithMap(Volume("v4", Facts(Full("v4"), Full("v4")), TwoStreams))
Stranger ==
  [Lone EXCEPT !.arn = "v5", !.images = [i \in {"other"} |-> "DiscontiguousImage"],
               !.maps = [i \in {"other"} |-> {"s2"}]]
TwoImages == [Lone EXCEPT !.images = [i \in {"disk", "copy"} |-> "ContiguousImage"]]
NoImages == [Lone EXCEPT !.images = [i \in {} |-> "DiskImage"]]
\* A third volume, which has something of its own to say of the first stream.
Third(size, chunk) ==
  [Volume("v3", Facts([size |-> size, chunk |-> chunk, stored |-> "v1"], Nothing), {})
     EXCEPT !.hashes["s1"] = {"md5"}]

Part(base, number, volume) == [base |-> base, number |-> number, kind |-> "aff4", volume |-> volume]
Raw(number) == [base |-> 3, number |-> number, kind |-> "raw", volume |-> Torn]
Pair(i, first, j, second) == {Part(1, i, first), Part(1, j, second)}

Sound ==
  {Pair(1, Stripe1, 2, Stripe2), Pair(0, Part1, 1, Part2), Pair(9, Stripe1, 10, Stripe2),
   Pair(0, Part1, 1, Part2) \cup {Part(1, 2, Third(Absent, Absent))}, {Part(1, 0, Lone)}}
Damaged ==
  {Pair(0, Part1, 2, Part2), Pair(0, Part1, 1, Torn), Pair(0, Torn, 1, Part2),
   Pair(0, Part1, 1, [Part2 EXCEPT !.generation = "older"]),
   Pair(0, Part1, 1, [Part2 EXCEPT !.generation = Absent]),
   Pair(0, [Part1 EXCEPT !.generation = "unknown"], 1, Part2),
   Pair(0, Part1, 1, Part1), Pair(1, Stripe1, 1, Stripe2), {Part(1, 1, Part2)}, {Part(1, 0, Part1)},
   {Part(1, 0, Described), Part(2, 5, Part2)}, {Part(1, 1, Stripe2)},
   Pair(1, Stripe2, 2, Stripe1)}
Contradicting ==
  {Pair(0, Part1, 1, Part2) \cup {Part(1, 2, Third(size, chunk))} : size, chunk \in {Absent, 8, 4}}
  \cup {Pair(0, Part1, 1, Third(size, chunk)) \cup {Part(1, 2, Part2)} : size, chunk \in {Absent, 8, 4}}
  \cup {Pair(1, Stripe1, 3, Third(4, Absent)) \cup {Part(1, 2, Stripe2)},
        {Part(1, 1, Stripe1), Part(1, 2, Stripe2), Part(1, 3, Third(8, 4)),
         Part(1, 4, [Third(4, 4) EXCEPT !.arn = "v6"])}}
Strangers ==
  {{Part(1, 0, Lone), Part(2, 0, Stranger)}, {Part(1, 0, Lone), Part(2, 5, Stranger)},
   {Part(1, 0, TwoImages)}, {Part(1, 0, NoImages)}, {Raw(1), Raw(2)}, {Part(1, 0, Lone), Raw(1)}}
\* A container and, beside it, the first numbered part of another.
Adjacent == {{Part(1, 0, Lone), Part(2, 1, Stranger)}}

OrdinaryFolders == Sound \cup Damaged \cup Contradicting \cup Strangers
EveryFolder == OrdinaryFolders \cup Adjacent

-----------------------------------------------------------------------------
Component(stem, marks, copies, flaws) ==
  [stem |-> stem, marks |-> marks, copies |-> copies, flaws |-> flaws]
Plain(stem) == Component(stem, 0, <<>>, {})
Flawed(stem, flaw) == Component(stem, 0, <<>>, {flaw})
PathsHere ==
  {Unnamed, <<Plain("a")>>, <<Plain("A")>>, <<Plain("a"), Plain("b")>>,
   <<Component("a", 0, <<2>>, {})>>, <<Component("a", 1, <<>>, {})>>,
   <<Flawed("a", "illegal")>>, <<Flawed("a", "trailing")>>, <<Flawed("a", "drive")>>,
   <<Flawed("..", "up"), Plain("a")>>, <<Flawed("", "empty"), Plain("con")>>,
   <<Flawed("..", "up")>>, <<Flawed("..", "illegal")>>, <<Flawed("", "nothing")>>}
ToExport(p, bytes, form, times) ==
  [path |-> p, arn |-> <<Plain("a")>>, bytes |-> bytes, form |-> form, times |-> times]
Stems == {"", "a", "A", "b", "con", ".."}
Exact == [s \in Stems |-> s]
Folded == [Exact EXCEPT !["A"] = "a"]
Archive(files, escaped, lower) == [files |-> files, escaped |-> escaped, lower |-> lower]
Ordinary(p) == ToExport(p, FALSE, "segment", {})

Colliding ==
  {Archive(<<Ordinary(p), Ordinary(q), Ordinary(r)>>, FALSE, lower) :
     p, r \in {<<Plain("a")>>, <<Plain("a"), Plain("b")>>, <<Component("a", 0, <<2>>, {})>>},
     q \in PathsHere, lower \in {Exact, Folded}}
Alone ==
  {Archive(<<ToExport(p, bytes, form, {})>>, escaped, Exact) :
     p \in PathsHere, bytes, escaped \in BOOLEAN, form \in {"stream", "nowhere"}}
Timed ==
  {Archive(<<ToExport(<<Plain("b")>>, FALSE, "map", times)>>, FALSE, Exact) : times \in SUBSET LogicalTimes}
SomeArchives == Colliding \cup Alone \cup Timed \cup {Archive(<<>>, FALSE, Exact)}

-----------------------------------------------------------------------------
\* What a writer stores: streams of two chunks and a short one, in two bevies,
\* with a digest for each chunk.
Chunks == [s \in {S1, S2} |-> IF s = S1 THEN <<<<1, 2>>, <<3, 4>>, <<5>>>> ELSE <<<<6, 6>>, <<6, 6>>, <<7>>>>]
FirstBevy(s) == Chunks[s][1] \o Chunks[s][2]
OfBevy(s, b) == IF b = 1 THEN <<Chunks[s][1], Chunks[s][2]>> ELSE <<Chunks[s][3]>>
HashesOf(s, a, b) == [i \in DOMAIN OfBevy(s, b) |-> <<a, OfBevy(s, b)[i]>>]
WholeHash(s, a) == <<"sha512", HashesOf(s, a, 1) \o HashesOf(s, a, 2)>>

\* One volume: its map, the bevies of some streams, the block hashes of some.
MapMembers(v, points, streams, third) ==
  [p \in {<<"map", v>>, <<"idx", v>>} \cup (IF third = <<>> THEN {} ELSE {<<"path", v>>}) |->
     IF p[1] = "map" THEN <<points>> ELSE IF p[1] = "idx" THEN streams ELSE third]
BevyMembers(v, streams) ==
  [p \in {k \in {"data", "index"} \X {v} \X streams \X {1, 2} : TRUE} |->
     IF p[1] = "index" THEN <<p[3], p[3]>>
     ELSE IF p[4] = 1 THEN FirstBevy(p[3]) ELSE Append(Chunks[p[3]][3], 0)]
BlockMembers(v, streams, algorithms) ==
  [p \in {"blocks"} \X {v} \X streams \X algorithms \X {1, 2} |-> HashesOf(p[3], p[4], p[5])]
RECURSIVE Join(_)
Join(stores) ==
  IF Len(stores) = 1 THEN stores[1]
  ELSE LET rest == Join(Tail(stores))
       IN [p \in DOMAIN stores[1] \cup DOMAIN rest |->
             IF p \in DOMAIN stores[1] THEN stores[1][p] ELSE rest[p]]

BlockMap(v, points, streams, third, own, algorithms) ==
  LET parts(s) == [i \in DOMAIN algorithms |-> WholeHash(s, algorithms[i])]
  IN <<"sha512", parts(own) \o <<<<"sha512", <<points>>>>, <<"sha512", streams>>,
                                <<"sha512", third>>>>>>

StreamObject(s, digests) ==
  [kind |-> "stream", name |-> s, size |-> 5,
   recorded |-> [d \in digests |->
      <<"sha512", CASE d = "hash" -> FirstBevy(s) \o Chunks[s][3]
                    [] d = "imageStreamIndexHash" -> <<s, s, s, s>>
                    [] d = "imageStreamHash" -> <<>>>>]]
BlocksObject(s, a) ==
  [kind |-> "blocks", name |-> <<s, a>>, stream |-> s, algorithm |-> a,
   recorded |-> [d \in {"hash"} |-> WholeHash(s, a)]]
MapObject(v, points, streams, third, blockMap) ==
  [kind |-> "map", name |-> <<"map", v>>, volume |-> v,
   recorded |-> [mapPointHash |-> <<"sha512", <<points>>>>,
                 mapIdxHash |-> <<"sha512", streams>>,
                 mapPathHash |-> <<"sha512", third>>,
                 mapHash |-> <<"sha512", <<points>> \o streams \o third>>,
                 blockMapHash |-> blockMap, dateHash |-> <<"sha512", <<>>>>]]
RootObject(root) == [kind |-> "image", name |-> <<"disk">>, recorded |-> [d \in {"root"} |-> root]]
FileObject(name, digests) ==
  [kind |-> "file", name |-> name, recorded |-> [d \in digests |-> <<"sha512", <<name>>>>]]

\* One volume with one stream, two algorithms and a map path.
Both == <<"md5", "sha1">>
OneBlockMap == BlockMap(1, Points1, <<S1>>, <<Path>>, S1, Both)
OneStored ==
  Join(<<MapMembers(1, Points1, <<S1>>, <<Path>>), BevyMembers(1, {S1}),
         BlockMembers(1, {S1}, {"md5", "sha1"})>>)
OneObjects ==
  <<StreamObject(S1, {"hash", "imageStreamIndexHash", "imageStreamHash"}), BlocksObject(S1, "md5"),
    BlocksObject(S1, "sha1"), MapObject(1, Points1, <<S1>>, <<Path>>, OneBlockMap),
    RootObject(OneBlockMap)>>
OneVolume == <<[declares |-> TRUE, file |-> 1, map |-> 1, stream |-> 1]>>

\* Two stripes: each with the block hashes of both streams, and its own map.
\* The root is over the stripes in some order of theirs.
StripeMap(v) ==
  BlockMap(v, IF v = 1 THEN Points1 ELSE Points2, <<S1, S2>>, <<>>, IF v = 1 THEN S1 ELSE S2, <<"md5">>)
TwoStored ==
  Join(<<MapMembers(1, Points1, <<S1, S2>>, <<>>), BevyMembers(1, {S1}), BlockMembers(1, {S1, S2}, {"md5"}),
         MapMembers(2, Points2, <<S1, S2>>, <<>>), BevyMembers(2, {S2}), BlockMembers(2, {S1, S2}, {"md5"})>>)
TwoObjects(order) ==
  <<StreamObject(S1, {"hash"}), BlocksObject(S1, "md5"), MapObject(1, Points1, <<S1, S2>>, <<>>, StripeMap(1)),
    StreamObject(S2, {}), BlocksObject(S2, "md5"), MapObject(2, Points2, <<S1, S2>>, <<>>, StripeMap(2)),
    RootObject(<<"sha512", <<StripeMap(order[1]), StripeMap(order[2])>>>>)>>
TwoVolumes(file, map, stream) ==
  <<[declares |-> TRUE, file |-> IF file THEN 1 ELSE 2, map |-> IF map THEN 1 ELSE 2,
     stream |-> IF stream THEN 3 ELSE 4],
    [declares |-> TRUE, file |-> IF file THEN 2 ELSE 1, map |-> IF map THEN 2 ELSE 1,
     stream |-> IF stream THEN 4 ELSE 3]>>

\* Two parts of one image: the first has the map, and describes its own stream.
PartStored ==
  Join(<<MapMembers(1, Points1, <<S1, S2>>, <<>>), BevyMembers(1, {S1}), BlockMembers(1, {S1}, {"md5"}),
         BevyMembers(2, {S2}), BlockMembers(2, {S2}, {"md5"})>>)
PartObjects ==
  <<RootObject(StripeMap(1)), StreamObject(S1, {}), BlocksObject(S2, "md5"), StreamObject(S2, {}),
    MapObject(1, Points1, <<S1, S2>>, <<>>, StripeMap(1))>>
PartVolumes == [v \in 1..2 |-> [declares |-> v = 1, file |-> v, map |-> v, stream |-> v + 2]]

\* Files of their own, and a stream that records block hashes alone.
FileStored ==
  Join(<<BevyMembers(1, {S2}), BlockMembers(1, {S2}, {"sha1"}),
         [p \in {<<"member", <<"f">>>>, <<"member", <<"g">>>>} |-> <<p[2]>>]>>)
FileObjects ==
  <<FileObject(<<"g">>, {}), StreamObject(S2, {}), FileObject(<<"f">>, {"hash", "again"}), StreamObject(S1, {})>>

DamagesTo(stored) ==
  {stored}
  \cup {[p \in DOMAIN stored \ {gone} |-> stored[p]] : gone \in DOMAIN stored}
  \cup {[stored EXCEPT ![torn] = Unread] : torn \in DOMAIN stored}
  \cup UNION {{[stored EXCEPT ![at_][i] = Altered] : i \in DOMAIN stored[at_]} : at_ \in DOMAIN stored}
Evidence(volumes, objects, stored, found) ==
  [volumes |-> volumes, objects |-> objects, written |-> stored, found |-> found]
Backwards(objects) == [i \in DOMAIN objects |-> objects[Len(objects) + 1 - i]]
NoEvidence == Evidence(OneVolume, <<>>, FileStored, FileStored)
SomeEvidence ==
  {NoEvidence}
  \cup {Evidence(OneVolume, objects, OneStored, found) :
          objects \in {OneObjects, Backwards(OneObjects)}, found \in DamagesTo(OneStored)}
  \cup {Evidence(OneVolume, FileObjects, FileStored, found) : found \in DamagesTo(FileStored)}
  \cup {Evidence(PartVolumes, PartObjects, PartStored, found) : found \in DamagesTo(PartStored)}
  \cup {Evidence(TwoVolumes(TRUE, TRUE, FALSE), objects, TwoStored, found) :
          objects \in {TwoObjects(<<1, 2>>), Backwards(TwoObjects(<<2, 1>>))}, found \in DamagesTo(TwoStored)}
  \cup {Evidence(TwoVolumes(file, map, stream), objects, TwoStored, TwoStored) :
          file, map, stream \in BOOLEAN, objects \in {TwoObjects(<<1, 2>>), TwoObjects(<<2, 1>>)}}

-----------------------------------------------------------------------------
\* What is acquired: nothing, part of a chunk, whole chunks, more than a bevy.
SomeSources == {<<>>, <<1>>, <<1, 2>>, <<3, 0, 0>>, <<1, 2, 3, 4>>, <<1, 2, 3, 4, 0>>}
Default == [blocks |-> TRUE, algorithm |-> Unset, hashes |-> TRUE, declined |-> FALSE]
SomeSettings ==
  {[Default EXCEPT !.blocks = blocks, !.algorithm = algorithm, !.hashes = hashes] :
     blocks, hashes \in BOOLEAN, algorithm \in {Unset, "sha1"}}
  \cup {[Default EXCEPT !.declined = TRUE]}

-----------------------------------------------------------------------------
Seqs == INSTANCE SequencesExt

\* ZIP files.  A member is laid down as its header, its name, its extra field
\* and its data; whether the directory has the same extra field is its own
\* affair.
ZipMember(name, method, extra, stored, data) ==
  [name |-> name, method |-> method, extra |-> extra, stored |-> stored, data |-> data,
   size |-> Len(data)]
Bytes(name, n) == [i \in 1..n |-> [kind |-> "byte", of |-> name, at |-> i]]
Plainly(name, extra, n) == ZipMember(name, StoredForm, extra, Bytes(name, n), Bytes(name, n))
Deflated(name, stored, n) ==
  ZipMember(name, "deflated", 0, Bytes(name, stored), [i \in 1..n |-> [kind |-> "inflated", of |-> name, at |-> i]])
Text(text) == [i \in DOMAIN text |-> [kind |-> "text", char |-> text[i]]]
DescribedAs(text) == ZipMember(Description, StoredForm, 0, Text(text), Text(text))

Extent(member) == 2 + member.extra + Len(member.stored)
UnitsOf(member) ==
  <<[kind |-> "header", name |-> 1, extra |-> member.extra]>>
  \o [i \in 1..(1 + member.extra) |-> [kind |-> "name", of |-> member.name, at |-> i]] \o member.stored
Laid(zipMembers) ==
  LET header[i \in 1..Len(zipMembers)] ==
        IF i = 1 THEN 0 ELSE header[i - 1] + Extent(zipMembers[i - 1])
  IN [i \in DOMAIN zipMembers |->
        [name |-> zipMembers[i].name, method |-> zipMembers[i].method, stored |-> zipMembers[i].stored,
         data |-> zipMembers[i].data, size |-> zipMembers[i].size, header |-> header[i],
         begins |-> header[i] + 2 + zipMembers[i].extra]]

EntryOf(member) ==
  LET wide == SelectSeq(<<member.size, Len(member.stored), member.header>>, LAMBDA v : v >= Max32)
  IN [utf8 |-> member.name, method |-> member.method, form |-> "whole",
      uncompressed |-> Narrow(member.size), compressed |-> Narrow(Len(member.stored)),
      header |-> Narrow(member.header),
      extra |-> <<[id |-> 7, values |-> <<1>>]>>
                \o (IF wide = <<>> THEN <<>> ELSE <<[id |-> 1, values |-> wide]>>)]
EndOf(zip64, directory) == [zip64 |-> zip64, directory |-> directory]
ZipFile(zipMembers, comment) ==
  LET laid == Laid(zipMembers)
  IN [archive |-> TRUE, members |-> laid, comment |-> comment, sound |-> TRUE,
      units |-> Seqs!FlattenSeq([i \in DOMAIN zipMembers |-> UnitsOf(zipMembers[i])]),
      ends |-> <<EndOf(TRUE, [i \in DOMAIN laid |-> EntryOf(laid[i])]), EndOf(FALSE, Unknown)>>,
      lists |-> "once", resolves |-> "last"]

ZipMembers ==
  <<DescribedAs(<<Arn1>>), Plainly("a", 2, 3), Deflated("b", 2, 5), Plainly("c", 0, 4)>>
ASoundZip == ZipFile(ZipMembers, <<Arn1>>)
Named1(comment, description) == ZipFile(<<DescribedAs(description), Plainly("a", 2, 3)>>, comment)
WithEnds(ends) == [ASoundZip EXCEPT !.ends = ends]
WithEntry(i, field, value) == [ASoundZip EXCEPT !.ends[1].directory[i][field] = value]
Twice(lists, resolves) ==
  [ZipFile(<<DescribedAs(<<Arn1>>), Plainly("a", 2, 3), Plainly("a", 0, 2)>>, <<>>)
     EXCEPT !.lists = lists, !.resolves = resolves]
NoZip == [ASoundZip EXCEPT !.archive = FALSE]
NotZip == [NoZip EXCEPT !.comment = <<>>]

SomeZips ==
  {ASoundZip, NoZip, NotZip, ZipFile(<<>>, <<Arn1>>), ZipFile(<<Plainly("a", 0, 1)>>, <<>>)}
  \cup {Named1(comment, description) :
          comment \in {<<>>, <<Nul>>, <<Arn1>>, <<Arn1, Nul>>, <<Arn1, Nul, Nul>>, <<Arn2, Nul>>, <<Url>>,
                       <<Space, Arn1>>, <<Arn1, Nul, Space>>},
          description \in {<<>>, <<Arn1>>, <<Arn1, Nul>>, <<Url>>, <<Arn1, Nul, Space>>}}
  \cup {ZipFile(<<Plainly("a", 0, 2)>>, <<Arn1, Nul>>),
        ZipFile(<<Plainly("a", 0, 2), DescribedAs(<<Arn2>>)>>, <<Arn1>>)}
  \cup {Twice(lists, resolves) : lists \in {"each", "once"}, resolves \in {"first", "last"}}
  \* more than may be read; a size that is not the data's
  \cup {ZipFile(<<DescribedAs(<<Arn1>>), Deflated("b", stored, n)>>, <<>>) : stored \in {1, 4}, n \in {4, 6, 9}}
  \cup {[WithEntry(2, "uncompressed", 4) EXCEPT !.sound = FALSE]}
  \* data altered, a header gone
  \cup {[ASoundZip EXCEPT !.units[at_] = [kind |-> "bad"]] :
          at_ \in {1, 3, 4} \cup {Laid(ZipMembers)[i].header + 1 : i \in 2..4}
                 \cup {Laid(ZipMembers)[i].begins + 2 : i \in 2..4}}
  \* a directory the scan does not follow, or follows elsewhere
  \cup {WithEntry(2, "form", form) : form \in {"unsigned", "cut short"}}
  \cup {WithEntry(2, "utf8", "?")}
  \cup {WithEnds(ends) :
          ends \in {<<>>, <<EndOf(FALSE, Unknown)>>, ASoundZip.ends \o <<EndOf(TRUE, <<>>)>>,
                    <<EndOf(TRUE, <<>>)>> \o ASoundZip.ends, ASoundZip.ends \o <<EndOf(FALSE, <<>>)>>,
                    <<EndOf(FALSE, ASoundZip.ends[1].directory)>>}}
SomeRequests == {<<0, 1>>, <<1, 3>>, <<3, 1>>, <<3, 0>>}

-----------------------------------------------------------------------------
Finished ==
  \/ writing = "failed"
  \/ outcome \notin {"running", "open"}
  \/ outcome = "open" /\ DOMAIN served = DOMAIN image.streams
  \/ step \in {"success", "unverifiable", "io", "usage", "error", "no target"}
  \/ evidence # NoEvidence /\ ReportIsOut
  \/ answer # NoAnswer

\* One command runs: on a set, on the files of one container, to verify, to
\* acquire an image and then verify it; or members of one volume are read.
NoSetHere == folder = {Part(1, 0, Lone)}
NoFilesHere == archive = Archive(<<>>, FALSE, Exact)
NoneToVerify == evidence = NoEvidence
NoneToAcquire == source = <<>> /\ settings = Default
NoneToRead == container = NoZip
Init ==
  /\ \/ NoSetHere /\ NoFilesHere /\ NoneToAcquire /\ NoneToRead
     \/ NoSetHere /\ NoneToVerify /\ NoneToAcquire /\ NoneToRead
     \/ NoFilesHere /\ NoneToVerify /\ NoneToAcquire /\ NoneToRead
     \/ NoSetHere /\ NoFilesHere /\ NoneToVerify /\ NoneToRead
     \/ NoSetHere /\ NoFilesHere /\ NoneToVerify /\ NoneToAcquire
  /\ OpenInit /\ ExportInit /\ TreeInit /\ WriteInit /\ ZipInit
Reads == ~NoneToRead
OpensSet == step = "open" /\ evidence = NoEvidence /\ NoneToAcquire /\ NoneToRead
Exports == command = NoCommand /\ evidence = NoEvidence /\ NoneToAcquire /\ NoneToRead
Verifies == command = NoCommand /\ step = "open" /\ NoneToRead
Acquires == Verifies /\ evidence = NoEvidence /\ ~NoneToAcquire
Next ==
  \/ OpensSet /\ OpenNext /\ UNCHANGED <<exportVars, treeVars, writeVars, zipVars>>
  \/ Exports /\ ExportNext /\ UNCHANGED <<openVars, treeVars, writeVars, zipVars>>
  \/ Verifies /\ TreeNext /\ UNCHANGED <<openVars, exportVars, writeVars, zipVars>>
  \/ Acquires /\ WriteNext /\ UNCHANGED <<openVars, exportVars, treeVars, zipVars>>
  \/ /\ Acquires /\ UNCHANGED <<openVars, exportVars, zipVars>>
     /\ \E found \in Offered(members), backwards \in BOOLEAN : WriterFinished(found, backwards)
  \/ Reads /\ ZipNext /\ UNCHANGED <<openVars, exportVars, treeVars, writeVars>>
  \/ Finished /\ UNCHANGED <<openVars, exportVars, treeVars, writeVars, zipVars>>
Spec == Init /\ [][Next]_<<openVars, exportVars, treeVars, writeVars, zipVars>>
=============================================================================
