------------------------------ MODULE OpenSet ------------------------------
(***************************************************************************)
(* From a path to an open image: the parts of a folder (discover of        *)
(* src/src/multi_part.rs), the file named and its siblings opened one by   *)
(* one (open_with of src/src/disk_image.rs, open_striped_inner and verify  *)
(* of src/src/main.rs), the image chosen and opened, and its streams       *)
(* looked up as they are read, while a caller of the library may still     *)
(* add volumes.  A file is [base, number, kind, volume]: its name without  *)
(* the part number, the number, what its extension says, and what it       *)
(* holds, or Torn.                                                         *)
(***************************************************************************)
EXTENDS VolumeSet

CONSTANTS
  Folders,    \* the folders a run may find, each a set of files
  Supported,  \* generations this build reads
  Torn        \* of a file that is no archive, or whose metadata cannot be parsed

\* Texts are compared as numbers are: base stands for a name without its number.
ASSUME OpenAssumption ==
  \A files \in Folders :
    /\ files # {} /\ IsFiniteSet(files)
    /\ \A f \in files :
         /\ f.base \in Nat /\ f.number \in Nat
         /\ f.volume # Torn => \A s \in Streams : IsFiniteSet(f.volume.hashes[s])

VARIABLES
  folder,   \* the files beside the one named
  command,  \* [does, file]: "disk", "folder" or "file", and the file named
  todo,     \* parts still to be opened
  set,      \* the volumes opened
  image,    \* the image opened
  served,   \* stream -> the volume its bytes were read from
  outcome   \* "running", "open", or how the command ended

openVars == <<folder, command, todo, set, image, served, outcome>>

NoCommand == [does |-> "nothing"]
NoSet == [members |-> <<>>, holder |-> Forgotten]

-----------------------------------------------------------------------------
(* The parts of a set *)

\* natural_cmp: the text first, then the number as a number.
NaturallyBefore(a, b) ==
  IF a.base # b.base THEN a.base < b.base ELSE a.number < b.number

\* Two of one position may come in either order.
Arranges(parts, files) ==
  \A i, j \in 1..Cardinality(files) :
    i < j => parts[i] # parts[j] /\ ~NaturallyBefore(parts[j], parts[i])
Sorted(files) == CHOOSE parts \in [1..Cardinality(files) -> files] : Arranges(parts, files)

\* A hole between two parts.  (Two files of one position are one too.)
HasGap(parts) == \E i \in 2..Len(parts) : parts[i].number # parts[i - 1].number + 1

\* discover: the parts, or none if there is no one set without a gap.
Discover(files) ==
  LET aff4 == {f \in files : f.kind = "aff4"}
      raw == {f \in files : f.kind = "raw"}
      parts == Sorted(aff4 \cup raw)
  IN IF (aff4 = {}) = (raw = {}) \/ HasGap(parts) THEN <<>> ELSE parts

\* parts_of: the set the file is a part of, or the file alone.
PartsOf(files, file) ==
  IF file.kind = "aff4" /\ file \in {Discover(files)[i] : i \in DOMAIN Discover(files)}
  THEN Discover(files) ELSE <<file>>

-----------------------------------------------------------------------------
(* Opening *)

OpenInit ==
  /\ folder \in Folders
  /\ command = NoCommand /\ todo = <<>> /\ set = NoSet
  /\ image = NoImage /\ served = Forgotten /\ outcome = "running"

Begin(does, file, parts) ==
  /\ command = NoCommand
  /\ command' = [does |-> does, file |-> file]
  /\ todo' = parts
  /\ UNCHANGED <<folder, set, image, served>>

OpenDisk(file) == Begin("disk", file, PartsOf(folder, file)) /\ UNCHANGED outcome
VerifyFile(file) == Begin("file", file, <<file>>) /\ UNCHANGED outcome
VerifyFolder(file) ==
  /\ Begin("folder", file, Discover(folder))
  /\ outcome' = IF Discover(folder) = <<>> THEN "malformed" ELSE "running"

Opening == outcome = "running" /\ command # NoCommand
NextPart == Head(todo).volume
Ends(how) == outcome' = how /\ UNCHANGED <<todo, set>>

\* Container::open
OpenPrimary ==
  /\ Opening /\ set = NoSet
  /\ IF NextPart = Torn THEN Ends("torn")
     ELSE IF NextPart.generation \notin Supported THEN Ends("unsupported")
     ELSE set' = Single(NextPart) /\ todo' = Tail(todo) /\ UNCHANGED outcome
  /\ UNCHANGED <<folder, command, image, served>>

\* open_with_graph and add_volume: whether the volume was added is noted by one
\* command and not looked at by the others.
OpenSibling ==
  /\ Opening /\ set # NoSet /\ todo # <<>>
  /\ IF NextPart = Torn THEN Ends("torn")
     ELSE set' = AddVolume(set, NextPart) /\ todo' = Tail(todo) /\ UNCHANGED outcome
  /\ UNCHANGED <<folder, command, image, served>>

AllOpened == Opening /\ set # NoSet /\ todo = <<>>

\* check_stripe_set, and the volumes a file named alone refers to.
Unrelated == command.does # "disk" /\ Len(set.members) > 1 /\ ~IsOneImage(set)
Incomplete == command.does = "file" /\ MissingVolumes(set) # {}
RefuseSet ==
  /\ AllOpened /\ (Unrelated \/ Incomplete)
  /\ outcome' = IF Unrelated THEN "usage" ELSE "unverifiable"
  /\ UNCHANGED <<folder, command, todo, set, image, served>>

\* The images a command opens: a disk image of the primary, or every image any
\* volume declares.
Eligible ==
  IF command.does = "disk" THEN Candidates(set.members[1])
  ELSE UNION {DOMAIN set.members[i].images : i \in 1..Len(set.members)}

OpenImage(name) ==
  /\ AllOpened /\ ~Unrelated /\ ~Incomplete
  /\ name \in Eligible
  /\ image' = OpenInSet(set, name)
  /\ outcome' = IF image'.ok THEN "open" ELSE "malformed"
  /\ UNCHANGED <<folder, command, todo, set, served>>

\* No image, or more than a caller that asked for the only one can be given.
NoDiskImage ==
  /\ AllOpened /\ ~Unrelated /\ ~Incomplete
  /\ \/ Eligible = {}
     \/ command.does = "disk" /\ Cardinality(Eligible) > 1
  /\ outcome' = "no one image"
  /\ UNCHANGED <<folder, command, todo, set, image, served>>

-----------------------------------------------------------------------------
(* An open image *)

\* stream_in_set
ReadStream(stream) ==
  /\ outcome = "open"
  /\ stream \in DOMAIN image.streams \ DOMAIN served
  /\ set' = Asked(set, stream)
  /\ IF Holder(set, stream) = None
     THEN outcome' = "not given" /\ UNCHANGED served
     ELSE /\ served' = [s \in DOMAIN served \cup {stream} |->
                          IF s = stream THEN set.members[Holder(set, stream)].arn ELSE served[s]]
          /\ UNCHANGED outcome
  /\ UNCHANGED <<folder, command, todo, image>>

\* A caller of the library adds a volume after a read that found none.
AddLate(file) ==
  /\ outcome = "not given" /\ file.volume # Torn
  /\ set' = AddVolume(set, file.volume)
  /\ outcome' = "open"
  /\ UNCHANGED <<folder, command, todo, image, served>>

OpenNext ==
  \/ \E file \in folder : OpenDisk(file) \/ VerifyFile(file) \/ VerifyFolder(file)
  \/ OpenPrimary \/ OpenSibling \/ RefuseSet
  \/ \E name \in (IF AllOpened THEN Eligible ELSE {}) : OpenImage(name)
  \/ NoDiskImage
  \/ \E stream \in Streams : ReadStream(stream)
  \/ \E file \in folder : AddLate(file)
OpenSpec == OpenInit /\ [][OpenNext]_openVars

-----------------------------------------------------------------------------
(* Properties *)

(* "Which volume holds a stream cannot change once the set is built": what is *)
(* remembered of a stream, found or not found, is what a fresh search says,   *)
(* though volumes may be added after it was asked.                            *)
HolderMemoIsTruth ==
  \A s \in DOMAIN set.holder : set.holder[s] = HolderOf(set, s)

(* "The parameters are taken from one graph, whole"; "a stream whose          *)
(* declarations disagree across volumes is a finding": an image of the set    *)
(* opens or not, and with the same sizes, whatever the order its siblings     *)
(* were added in - if the primary gives its map, or the volumes that do agree *)
(* ("the primary is tried first": of siblings the first added is).            *)
Rearranged(p) ==
  [set EXCEPT !.members = [i \in 1..Len(@) |-> IF i = 1 THEN @[1] ELSE @[p[i]]]]
MapIsSettled(name) ==
  LET declares(i) == name \in DOMAIN set.members[i].maps
  IN \/ declares(1)
     \/ \A i, j \in Indexes(set) :
          declares(i) /\ declares(j) => set.members[i].maps[name] = set.members[j].maps[name]
SiblingOrderIsImmaterial ==
  AllOpened \/ outcome = "open" =>
    LET rest == 2..Len(set.members)
    IN \A p \in [rest -> rest] : {p[i] : i \in rest} = rest =>
         \A name \in UNION {DOMAIN set.members[i].images : i \in Indexes(set)} :
           MapIsSettled(name) => OpenInSet(Rearranged(p), name) = OpenInSet(set, name)

\* A folder one writer left: parts of one name, numbered without a gap from the
\* first, each stream described and held by one of them, whose name the others
\* give, and one image, the first part's; of a stream's digests the others record
\* none the part that holds it does not.
IsOnePart(f, g) == f.kind = "aff4" /\ f.volume # Torn /\ f.base = g.base
Wrote(files) ==
  LET parts == Sorted(files)
      vol(i) == parts[i].volume
  IN /\ \A f, g \in files : IsOnePart(f, g)
     /\ ~HasGap(parts)
     /\ \A i \in 1..Len(parts) :
          /\ vol(i).generation \in Supported /\ vol(i).generation = vol(1).generation
          /\ DOMAIN vol(i).images = DOMAIN vol(1).images
          /\ \A j \in 1..Len(parts) : vol(i).arn = vol(j).arn => i = j
     /\ \E name \in DiskImages(vol(1)) :
          /\ DOMAIN vol(1).images = {name} /\ name \in DOMAIN vol(1).maps
          /\ vol(1).maps[name] = Streams
     /\ \A s \in Streams : \E i \in 1..Len(parts) :
          /\ s \in vol(i).bevies /\ Whole(vol(i).facts[s])
          /\ \A j \in 1..Len(parts) \ {i} :
               /\ s \notin vol(j).bevies
               /\ vol(j).hashes[s] \subseteq vol(i).hashes[s]
               /\ vol(j).facts[s] \in {[size |-> Absent, chunk |-> Absent, stored |-> vol(i).arn],
                                       [size |-> Absent, chunk |-> Absent, stored |-> Absent]}

(* "Any part of a set may be named": whichever part of a written set is given, *)
(* the disk image of the set is opened, and every stream of it is read from    *)
(* the volume that has its bevies.                                             *)
CompleteSetsOpenAsOne ==
  Wrote(folder) /\ command.does = "disk" =>
    /\ outcome \in {"running", "open"}
    /\ outcome = "open" => DOMAIN image.streams = Streams
    /\ \A s \in DOMAIN served :
         \E f \in folder : f.volume.arn = served[s] /\ s \in f.volume.bevies

(* "A container's digests going unchecked while the summary line says          *)
(* everything matched": every digest a volume of a written set records of a    *)
(* stream is among those verification takes up.                                *)
EveryRecordedDigestIsTaken ==
  Wrote(folder) /\ command.does = "folder" /\ outcome = "open" =>
    \A s \in Streams : \A f \in folder : f.volume.hashes[s] \subseteq RecordedHashes(set, s)

(* A set is opened whole: its image from any of its parts, its digests from    *)
(* all of them, and both whatever the order they come in.                      *)
SetsOpenWhole == CompleteSetsOpenAsOne /\ EveryRecordedDigestIsTaken /\ SiblingOrderIsImmaterial
=============================================================================
