------------------------------ MODULE CommandsMC ------------------------------
(***************************************************************************)
(* Five machines that share no state, each from its own initial states     *)
(* while the others stand still.                                           *)
(*   "plan": how a command divides the threads of the host.  Hosts from    *)
(* one thread to more than any bound bites on, with no override and with a *)
(* few, bevies from one that lets both queues take their most to one that  *)
(* leaves them their least, and rates that rise by more than eight         *)
(* percent, by less, and fall.                                             *)
(*   "commands": any two commands of a list at once, over a folder with a  *)
(* source of each kind.  Outputs and logs share names: an output is the    *)
(* source, the log another's output, a part another's whole output, a      *)
(* listing a part.                                                         *)
(*   "shared": a walk of three files, each up to a bevy and a chunk long,  *)
(* over two-byte chunks in two-chunk bevies: files end within a chunk, on  *)
(* one, within a bevy and on one.                                          *)
(*   "described": the metadata of an image, its map, their streams and its *)
(* volume, in every order of four, with subjects of other kinds between in *)
(* every order of three; files held every way a file can be; a subject     *)
(* described twice; volumes that agree about a stream, and ones that do    *)
(* not.                                                                    *)
(*   "names": a file whose name has up to three bytes of seven kinds, or   *)
(* whose content has up to four; one property of its record altered.       *)
(***************************************************************************)
EXTENDS ThreadPlan, CommandLine, SharedStream, ObjectListing, RecordedNames

CONSTANTS C1, C2

MCParallelisms == 1..24
MCOverrides == {0, 1, 2, 3, 7, 16}
MCAlgorithms == 0..6
MCBevySizes == {1, 32, 64, 128, 1024}
MCRates == {100, 105, 120}

MCOriginals ==
  [raw |-> "raw", device |-> "device", unsized |-> "unsized", tree |-> "tree",
   later |-> "later part", gapped |-> "gapped", noimage |-> "no image", two |-> "two images",
   old |-> "container", folder |-> "aff4 set"]
Outputs == {"ev", "ev.1", "ev.l", "raw"}
MCNames ==
  DOMAIN MCOriginals \cup Outputs \cup {"ev_log", "ev.1_log", "ev.l_log", "mine", "list", "nowhere"}
MCLogBeside ==
  [o \in Outputs |-> CASE o = "ev.1" -> "ev.1_log" [] o = "ev.l" -> "ev.l_log" [] OTHER -> "ev_log"]
MCPartPath == [o \in Outputs |-> IF o = "ev" THEN <<"ev", "ev.1">> ELSE <<o>>]
MCWithAff4l == [o \in {"ev"} |-> "ev.l"]

Acquire(kind, input, target) ==
  [does |-> "acquire", mode |-> kind, source |-> input, output |-> target, log |-> NoName,
   split |-> FALSE, verify |-> TRUE, v1 |-> FALSE, hash |-> <<>>]
Look(verb, sets, listing) == [does |-> verb, sets |-> sets, listing |-> listing]
Idle == Look("info", <<>>, NoName)
ImageCommands ==
  {Acquire("image", input, "ev") : input \in {"raw", "later", "gapped", "noimage", "two", "old", "folder", "nowhere"}}
  \cup {[Acquire("image", "raw", "ev") EXCEPT !.log = log] : log \in {"mine", "ev"}}
  \cup {[Acquire("image", "raw", "ev") EXCEPT !.hash = names] :
           names \in {<<"md5", "sha1">>, <<"md4", "sha256">>, <<"md5", "sha256", "md5">>}}
  \cup {Acquire("image", "raw", "raw"),
        [Acquire("image", "raw", "ev") EXCEPT !.split = TRUE, !.verify = FALSE]}
DeviceCommands ==
  {[Acquire("device", "device", "ev") EXCEPT !.split = TRUE], Acquire("device", "device", "ev.1"),
   Acquire("device", "unsized", "ev"), Acquire("device", "nowhere", "ev")}
LogicalCommands ==
  {[Acquire("logical", "tree", "ev") EXCEPT !.v1 = TRUE, !.verify = FALSE],
   Acquire("logical", "nowhere", "ev"), [Acquire("logical", "tree", "ev") EXCEPT !.split = TRUE]}
ReadingCommands ==
  {Look("verify", <<"ev", "ev.1">>, "list"), Look("info", <<"raw", "ev">>, "ev.1"),
   Look("conformance", <<"ev.l">>, NoName), Idle}
MCCommandLines == ImageCommands \cup DeviceCommands \cup LogicalCommands \cup ReadingCommands

-----------------------------------------------------------------------------
(* The metadata of a container *)

Refer(by, to) == [by |-> by, to |-> to]
Plain(s) ==
  [subject |-> s, under |-> Absent, form |-> "resource", guid |-> "lower", types |-> {},
   hashes |-> {}, size |-> Absent, short |-> FALSE, chunk |-> Absent, stored |-> "vol",
   refers |-> <<>>, lists |-> Absent, datum |-> Absent, display |-> Absent, raw |-> Absent,
   astray |-> FALSE, case |-> FALSE, ranged |-> FALSE]
Is(s, types) == [Plain(s) EXCEPT !.types = types]
To(b, refers) == [b EXCEPT !.refers = refers]

VolumeBlock == [Is("vol", {"ZipVolume"}) EXCEPT !.lists = <<"disk", "gone", "stream">>]
Disk == To(Is("disk", {"DiskImage", "Image"}), <<Refer("dataStream", "map")>>)
MapBlock ==
  [To(Is("map", {"Map"}), <<Refer("dependentStream", "stream"), Refer("target", "disk"),
                            Refer("dependentStream", "stream"), Refer("target", "zero")>>)
   EXCEPT !.hashes = {"blockMapHash"}]
Stream(chunk) == [To(Is("stream", {"ImageStream"}), <<Refer("target", "map")>>)
                  EXCEPT !.hashes = {"hash"}, !.chunk = chunk]
Hashes == [Is("stream blocks", {"BlockHashes"}) EXCEPT !.under = "stream"]
Case == [To(Is("case", {"CaseDetails"}), <<Refer("target", "disk")>>) EXCEPT !.case = TRUE]
Elsewhere == [Is("other stream", {"ImageStream"}) EXCEPT !.stored = "vol2", !.size = "odd"]
Path == {VolumeBlock, Disk, MapBlock, Stream(1), Elsewhere}
Pool ==
  Path \cup
  {Hashes, Case,
   [Plain("digest") EXCEPT !.form = "digest"],
   [Plain("odd") EXCEPT !.form = "other", !.ranged = TRUE]}

Text(blocks) ==
  [version |-> "2.1", namespace |-> "2016", metadata |-> TRUE, blocks |-> blocks, torn |-> 0,
   siblings |-> <<>>, members |-> {}, digests |-> "strong", names |-> {[style |-> "base", n |-> 0]},
   opened |-> {}]
Orders(n, pool) == {s \in [1..n -> pool] : \A i, j \in 1..n : i # j => s[i] # s[j]}

Holding(of, spelled, part, method, huge) ==
  [of |-> of, spelled |-> spelled, part |-> part, method |-> method, huge |-> huge]
FileMembers ==
  {{}, {Holding("file", "literal", "data", "stored", FALSE)},
   {Holding("file", "escaped", "data", "other", TRUE)}}
Sized(b) == [b EXCEPT !.size = "stated"]
FileBlocks ==
  {[Sized(Is("file", {"FileImage"} \cup types)) EXCEPT !.datum = datum, !.display = "plain"] :
     types \in SUBSET {"ZipSegment", "ImageStream"}, datum \in {"small", "big", "bad", Absent}}
NamedFiles ==
  {[Is("file", {"FileImage"}) EXCEPT !.guid = guid, !.display = display, !.raw = raw] :
     guid \in {"lower", "upper", "none"}, display \in {"plain", "escaped", "lower case escape", Absent},
     raw \in {"exact", "other", "bad", Absent}}
HeldFiles ==
  {[Text(<<f>>) EXCEPT !.members = members, !.version = version] :
     f \in FileBlocks, members \in FileMembers, version \in {"2.1", "1.0"}}
  \cup {Text(<<f>>) : f \in NamedFiles}
  \cup {Text(<<To(Sized(Is("file", {"FileImage"})), <<Refer("dataStream", "map")>>), MapBlock>>)}

Sibling(chunk) == [arn |-> "vol2", chunks |-> [s \in {"stream"} |-> chunk]]
Sets ==
  {[Text(blocks) EXCEPT !.siblings = <<Sibling(chunk)>>] :
     blocks \in {<<Disk, Stream(1)>>, <<Stream(2), Elsewhere>>, <<Elsewhere>>}, chunk \in {1, Absent}}
  \cup {[Text(<<Elsewhere>>) EXCEPT !.siblings = <<Sibling(1), Sibling(2)>>]}
Repeats ==
  {Text([i \in 1..5 |-> [Stream(1) EXCEPT !.subject = <<"s1", "s2", "s3", "s4", "stream">>[i]]]),
   Text(<<Disk, Stream(1), To(Disk, <<Refer("dataStream", "gone")>>)>>),
   Text(<<VolumeBlock, Disk, [VolumeBlock EXCEPT !.lists = Absent]>>)}
Unread ==
  {[Text(<<Disk, MapBlock>>) EXCEPT !.torn = 2]}
  \cup {[Text(<<Disk>>) EXCEPT !.version = v, !.namespace = n, !.metadata = m] :
           v \in {"garbled", "3.0", Absent}, n \in {"2016", "unknown", Absent}, m \in BOOLEAN}
Parts ==
  {[Text(<<Disk>>) EXCEPT !.names = names, !.digests = d, !.opened = o] :
     names \in {{[style |-> "base", n |-> 0], [style |-> "ordinal", n |-> 1]},
                 {[style |-> "base", n |-> 0], [style |-> "other", n |-> 1]}},
     d \in {"weak", Absent}, o \in {{}, {[kind |-> "ArchiveDeparts", of |-> "archive"]}}}
MCEvidence ==
  {Text(blocks) : blocks \in Orders(3, Pool) \cup Orders(4, Path) \cup {<<>>}} \cup HeldFiles \cup Sets \cup Repeats \cup Unread \cup Parts

-----------------------------------------------------------------------------
\* Names of up to three bytes: of a separator, a letter, "%", a newline, the two
\* bytes of a character that is not ASCII, and one that is in no character; one
\* that reads as an escape; and contents of up to four bytes.
NameBytes == {47, 65, Percent, 10, 195, 169, 255}
SomeContents == {<<>>, <<0>>, <<255, 1>>, <<1, 2, 3>>, <<255, 0, 65, 129>>}
OneFile == [path |-> <<65>>, content |-> <<>>]
MCNamed ==
  {[path |-> path, content |-> <<>>] : path \in [1..1 -> NameBytes] \cup [1..2 -> NameBytes]
                                         \cup [1..3 -> {47, Percent, 195, 255}]
                                         \cup {<<Percent, 48, 65>>, <<65, 195, 169>>,
                                               <<226, 130, 172>>, <<237, 160, 128>>}}
  \cup {[path |-> <<65>>, content |-> content] : content \in SomeContents}
NameIsRead == told # NotTold /\ recovered # NotRead

-----------------------------------------------------------------------------
VARIABLE machine  \* the one that runs

Init ==
  /\ machine \in {"plan", "commands", "shared", "described", "names"}
  /\ machine = "plan" \/ override = 0
  /\ machine = "commands" \/ asked = [c \in Calls |-> Idle]
  /\ machine = "described" \/ container = Text(<<>>)
  /\ machine = "names" \/ named = OneFile
  /\ PlanInit /\ CommandInit /\ SharedInit /\ ScanInfoInit /\ NamesInit
Next ==
  /\ UNCHANGED machine
  /\ \/ /\ machine = "plan" /\ PlanNext
        /\ UNCHANGED <<lineVars, sharedVars, scanVars, listingVars, nameVars>>
     \/ /\ machine = "commands" /\ (CommandNext \/ (CommandsOver /\ UNCHANGED lineVars))
        /\ UNCHANGED <<vars, sharedVars, scanVars, listingVars, nameVars>>
     \/ /\ machine = "shared" /\ SharedNext
        /\ UNCHANGED <<vars, lineVars, scanVars, listingVars, nameVars>>
     \/ /\ machine = "described" /\ ScanInfoNext
        /\ UNCHANGED <<vars, lineVars, sharedVars, nameVars>>
     \/ /\ machine = "names" /\ (NamesNext \/ (NameIsRead /\ UNCHANGED nameVars))
        /\ UNCHANGED <<vars, lineVars, sharedVars, scanVars, listingVars>>
Spec == Init /\ [][Next]_<<machine, vars, lineVars, sharedVars, scanVars, listingVars, nameVars>>
=============================================================================
