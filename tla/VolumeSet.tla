----------------------------- MODULE VolumeSet -----------------------------
(***************************************************************************)
(* The volumes that jointly hold one image: the set a container reads      *)
(* through, as data, with what is asked of it (ZipVolumeSet of             *)
(* src/src/zip_volume_set.rs, Container of src/src/container.rs,           *)
(* open_in_set of src/src/image.rs).  A volume is what its file holds:     *)
(*                                                                         *)
(*   arn, generation   its own name, and the generation it declares        *)
(*   facts             stream -> what its metadata says of the stream:     *)
(*                     size, chunk and stored, each a value or Absent      *)
(*   bevies            the streams whose bevies it stores                  *)
(*   images            image -> its role, for the images it declares       *)
(*   maps              image -> the streams its map names, for the images  *)
(*                     it gives a data stream                              *)
(*   refers            the volumes it says store its other objects         *)
(*   hashes            stream -> the digests it records of it              *)
(*                                                                         *)
(* Each volume keeps its own metadata: they contradict one another.        *)
(***************************************************************************)
EXTENDS Naturals, Sequences, FiniteSets

CONSTANTS
  Streams,  \* streams the images are made of
  Absent    \* a value the metadata does not state

None == 0   \* no member: indexes begin at 1

\* The first member that is so, or None.
First(found) == IF found = {} THEN None ELSE CHOOSE i \in found : \A j \in found : i <= j
Indexes(set) == 1..Len(set.members)

-----------------------------------------------------------------------------
(* Building the set.  holder remembers which member was found to hold a     *)
(* stream, or that none does.                                               *)

Forgotten == [s \in {} |-> None]
Single(volume) == [members |-> <<volume>>, holder |-> Forgotten]

\* Mutant: what was found before the volume came is kept.
PushKeeping(set, volume) ==
  IF First({i \in Indexes(set) : set.members[i].arn = volume.arn}) # None THEN set
  ELSE [set EXCEPT !.members = Append(@, volume)]

\* push: a volume already there is not added again; one that is added makes
\* every remembered answer doubtful.
Push(set, volume) ==
  IF First({i \in Indexes(set) : set.members[i].arn = volume.arn}) # None THEN set
  ELSE [members |-> Append(set.members, volume), holder |-> Forgotten]

\* add_volume: a sibling that readably declares another generation stays out.
Disagrees(set, volume) ==
  volume.generation # Absent /\ volume.generation # set.members[1].generation
AddVolume(set, volume) == IF Disagrees(set, volume) THEN set ELSE Push(set, volume)

-----------------------------------------------------------------------------
(* Asking it *)

\* Mutant: a volume that names the stream is taken to hold it.
HolderByName(set, stream) == First({i \in Indexes(set) : set.members[i].facts[stream].stored # Absent})

\* holds_stream_data: a bevy, not merely a name that resolves.
HolderOf(set, stream) == First({i \in Indexes(set) : stream \in set.members[i].bevies})

\* holder_index: remembered, or found and remembered.
Known(set, stream) == stream \in DOMAIN set.holder
Holder(set, stream) == IF Known(set, stream) THEN set.holder[stream] ELSE HolderOf(set, stream)
Asked(set, stream) ==
  [set EXCEPT !.holder = [s \in DOMAIN @ \cup {stream} |->
                            IF s = stream THEN Holder(set, stream) ELSE set.holder[s]]]

\* describing: the first whose declaration is whole.
Whole(facts) == facts.size # Absent /\ facts.chunk # Absent
Describing(set, stream) == First({i \in Indexes(set) : Whole(set.members[i].facts[stream])})

\* Mutant: a volume is compared with the one before it only.
DisagreeAtTheNext(set, stream, predicate) ==
  \E i \in 2..Len(set.members) :
    LET a == set.members[i - 1].facts[stream][predicate]
        b == set.members[i].facts[stream][predicate]
    IN a # Absent /\ b # Absent /\ a # b

\* stream_conflict: the first volume that states the predicate, and a later one
\* that states another value.
Disagree(set, stream, predicate) ==
  LET says(i) == set.members[i].facts[stream][predicate]
      first == First({i \in Indexes(set) : set.members[i].facts[stream][predicate] # Absent})
  IN first # None /\ \E i \in (first + 1)..Len(set.members) : says(i) \notin {Absent, says(first)}
InConflict(set, stream) == Disagree(set, stream, "size") \/ Disagree(set, stream, "chunk")

\* declaring_index: the first whose metadata gives the image a data stream,
\* else the primary.
Declaring(set, image) ==
  LET first == First({i \in Indexes(set) : image \in DOMAIN set.members[i].maps})
  IN IF first = None THEN 1 ELSE first

\* missing_volume_arns
Held(set) == {set.members[i].arn : i \in 1..Len(set.members)}
StoredAt(volume) == (volume.refers \cup {volume.facts[s].stored : s \in Streams}) \ {Absent}
MissingVolumes(set) ==
  UNION {StoredAt(set.members[i]) : i \in 1..Len(set.members)} \ Held(set)

\* disk_images_per_volume and check_stripe_set: one image of the primary is
\* every volume's.
DiskImages(volume) == {i \in DOMAIN volume.images : volume.images[i] = "DiskImage"}
IsOneImage(set) ==
  \E image \in DiskImages(set.members[1]) :
    \A i \in 1..Len(set.members) : image \in DiskImages(set.members[i])

\* Mutant: the volume reached first speaks for the stream.
FirstDeclarationWins(set, stream) ==
  LET said == First({i \in Indexes(set) : set.members[i].facts[stream].stored # Absent})
  IN set.members[said].hashes[stream]

\* objects_across_volumes: the declaration recording more digests, the first of
\* those that record as many.
RecordedHashes(set, stream) ==
  LET most == First({j \in Indexes(set) :
        \A i \in Indexes(set) :
          Cardinality(set.members[i].hashes[stream]) <= Cardinality(set.members[j].hashes[stream])})
  IN set.members[most].hashes[stream]

-----------------------------------------------------------------------------
(* open_in_set: the image through the map of the volume that declares it,   *)
(* and each stream by the first whole declaration, if no two disagree.      *)

NoImage == [ok |-> FALSE]
OpenInSet(set, image) ==
  LET owner == set.members[Declaring(set, image)]
  IN IF image \notin DOMAIN owner.maps THEN NoImage
     ELSE IF \E s \in owner.maps[image] : InConflict(set, s) \/ Describing(set, s) = None
     THEN NoImage
     ELSE [ok |-> TRUE, name |-> image,
           streams |-> [s \in owner.maps[image] |->
                          LET facts == set.members[Describing(set, s)].facts[s]
                          IN <<facts.size, facts.chunk>>]]

\* choose: the candidates of the first kind the primary has any of; several are
\* refused unless the first will do, as it will for the C interface.
Roles == <<"DiskImage", "DiscontiguousImage", "ContiguousImage">>
OfRole(volume, role) == {i \in DOMAIN volume.images : volume.images[i] = role}
Candidates(volume) ==
  LET kinds == {k \in 1..Len(Roles) : OfRole(volume, Roles[k]) # {}}
  IN IF kinds = {} THEN {}
     ELSE OfRole(volume, Roles[CHOOSE k \in kinds : \A j \in kinds : k <= j])
=============================================================================
