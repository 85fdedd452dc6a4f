----------------------------- MODULE ZipReader -----------------------------
(***************************************************************************)
(* A ZIP-backed volume (src/src/zip.rs): opened read-only, with the names  *)
(* of its members from the zip library and their sizes from a scan of the  *)
(* central directory of its own; a member read whole, by the library, or   *)
(* in part, from where its local header says its data begins.              *)
(*                                                                         *)
(* A container is a sequence of units: a local header, with the lengths of *)
(* its name and its extra field; the name's and the field's own units; and *)
(* the data's.  How the library lists and resolves a name that is recorded *)
(* twice is left open.  The members, as their writer meant them, are for   *)
(* the library's reading and for the properties.                           *)
(***************************************************************************)
EXTENDS Integers, Sequences, FiniteSetsExt

CONSTANTS
  Containers,   \* the containers a run may open
  Requests,     \* the ranges asked for: <<offset, length>>
  Unknown,      \* not known, not given
  Max32,        \* the sentinel: what does not fit a field of 32 bits
  Ceiling,      \* MAX_SEGMENT_SIZE
  Expansion,    \* MAX_EXPANSION_RATIO
  Description,  \* "container.description"
  Nul, Space,   \* what a volume's name may be padded with
  Arns          \* texts that are an ARN

StoredForm == "stored"   \* METHOD_STORED

\* A zip64 field: the first there is.
Wide(entry) ==
  LET fields == {i \in DOMAIN entry.extra : entry.extra[i].id = 1}
  IN IF fields = {} THEN <<>> ELSE entry.extra[Min(fields)].values

\* What a writer says of a member in the directory: a number that does not fit
\* its slot of 32 bits is left to the zip64 field, in the order of the slots.
Narrow(value) == IF value >= Max32 THEN Max32 ELSE value
Overflow(value) == IF value >= Max32 THEN <<value>> ELSE <<>>
Describes(entry, member) ==
  /\ entry.method = member.method /\ entry.uncompressed = Narrow(member.size)
  /\ entry.compressed = Narrow(Len(member.stored)) /\ entry.header = Narrow(member.header)
  /\ Wide(entry) = Overflow(member.size) \o Overflow(Len(member.stored)) \o Overflow(member.header)

\* sound: what directory and local headers say of a member is what its writer
\* put there, whatever became of its data; begins is where that is.
IsSequence(s) == s \in Seq({s[i] : i \in DOMAIN s})
OnlyOneOf(members) == \A i, j \in DOMAIN members : members[i].name = members[j].name => i = j
IsContainer(c) ==
  /\ \A s \in {c.units, c.members, c.comment, c.ends} : IsSequence(s)
  /\ \A i \in DOMAIN c.ends : c.ends[i].directory # Unknown =>
       /\ IsSequence(c.ends[i].directory)
       /\ \A k \in DOMAIN c.ends[i].directory : c.ends[i].directory[k].utf8 # Unknown
  /\ \A i \in DOMAIN c.members :
       LET member == c.members[i]
           header == c.units[member.header + 1]
       IN /\ IsSequence(member.stored) /\ IsSequence(member.data)
          /\ member.size \in Nat /\ member.header \in Nat /\ member.begins \in Nat
          /\ c.sound /\ OnlyOneOf(c.members) =>
               /\ member.method = StoredForm => member.size = Len(member.stored)
               /\ member.header < Len(c.units) /\ header.kind = "header" =>
                    member.begins = member.header + 1 + header.name + header.extra
               /\ \A e \in DOMAIN c.ends : c.ends[e].directory # Unknown =>
                    \A k \in DOMAIN c.ends[e].directory :
                      c.ends[e].directory[k].utf8 = member.name => Describes(c.ends[e].directory[k], member)
ASSUME ReaderAssumption ==
  /\ Max32 \in Nat /\ Ceiling \in Nat /\ Expansion \in Nat
  /\ Nul \notin Arns /\ Space \notin Arns /\ Nul # Space
  /\ Unknown \notin Seq(Arns) /\ Description # Unknown
  /\ \A asked \in Requests : asked[1] \in Nat /\ asked[2] \in Nat
  /\ \A c \in Containers : IsContainer(c)

VARIABLES
  container,  \* the file
  zipVolume,     \* Shut, or the ZipVolume
  noted,      \* the deviations observed while opening
  offsets,    \* data_offsets: member -> where its data begins, or Unknown
  handle,     \* range_file: the handle for range reads is open
  answer      \* what the last call returned

zipVars == <<container, zipVolume, noted, offsets, handle, answer>>

Shut == [arn |-> Unknown]
NoAnswer == [way |-> "none"]
-----------------------------------------------------------------------------
(* The central directory, scanned *)

\* The end record: the last of the zip64 ones if there is any.
EndRecord ==
  LET kind(zip64) == {i \in DOMAIN container.ends : container.ends[i].zip64 = zip64}
  IN IF kind(TRUE) # {} THEN container.ends[Max(kind(TRUE))].directory
     ELSE IF kind(FALSE) # {} THEN container.ends[Max(kind(FALSE))].directory
     ELSE Unknown

\* A zip64 field holds only the values whose 32-bit slot has the sentinel, in
\* this order.
\* Mutant: every value at a place of its own, whichever overflowed.
WidenedAtItsPlace(entry, slot, before) ==
  LET at == 1 + Cardinality(before)
  IN IF entry[slot] = Max32 /\ at <= Len(Wide(entry)) THEN Wide(entry)[at] ELSE entry[slot]
Widened(entry, slot, before) ==
  LET at == 1 + Cardinality({s \in before : entry[s] = Max32})
  IN IF entry[slot] = Max32 /\ at <= Len(Wide(entry)) THEN Wide(entry)[at] ELSE entry[slot]

MemberSize(entry) ==
  [method |-> entry.method,
   uncompressed |-> Widened(entry, "uncompressed", {}),
   compressed |-> Widened(entry, "compressed", {"uncompressed"}),
   header |-> Widened(entry, "header", {"uncompressed", "compressed"})]

\* central_directory_sizes: entries are read up to one without the signature;
\* one cut short leaves nothing; of two of one name the later stays.
CentralDirectorySizes ==
  LET directory == EndRecord
      unsigned == {i \in DOMAIN directory : directory[i].form = "unsigned"}
      read == IF unsigned = {} THEN DOMAIN directory ELSE 1..(Min(unsigned) - 1)
      of(name) == {i \in read : directory[i].utf8 = name}
  IN IF directory = Unknown \/ \E i \in read : directory[i].form = "cut short"
     THEN [name \in {} |-> Unknown]
     ELSE [name \in {directory[i].utf8 : i \in read} |-> MemberSize(directory[Max(of(name))])]

-----------------------------------------------------------------------------
(* The library *)

\* The unit at an offset, counted from 0, if the file is as long.
UnitAt(offset) ==
  IF offset < Len(container.units) THEN container.units[offset + 1] ELSE [kind |-> "end"]
UnitsFrom(offset, length) == SubSeq(container.units, offset + 1, offset + length)

\* file_names
FileNames ==
  LET all == container.members
      first == {i \in DOMAIN all : \A j \in 1..(i - 1) : all[j].name # all[i].name}
      nth(n) == CHOOSE i \in first : Cardinality({j \in first : j <= i}) = n
  IN IF container.lists = "each" THEN [i \in DOMAIN all |-> all[i].name]
     ELSE [n \in 1..Cardinality(first) |-> all[nth(n)].name]

\* by_name, of a name that is there
ByName(name) ==
  LET of == {i \in DOMAIN container.members : container.members[i].name = name}
  IN container.members[IF container.resolves = "first" THEN Min(of) ELSE Max(of)]

\* Where a member's data is: found by its local header.
DataBegins(member) ==
  LET header == UnitAt(member.header)
  IN IF header.kind = "header" THEN member.header + 1 + header.name + header.extra ELSE Unknown

\* read_to_end: the data inflated, which must hash to what was recorded.
Inflated(member) ==
  LET at == DataBegins(member)
  IN IF at # Unknown /\ UnitsFrom(at, Len(member.stored)) = member.stored THEN member.data ELSE Unknown

-----------------------------------------------------------------------------
(* Opening *)

Failed(how) == [ok |-> FALSE, how |-> how]
Deviation(kind, segment) == [kind |-> kind, segment |-> segment]

\* read_member: what it may return.  Finding the member and reading it may fail
\* for the disk's sake too; a read that fails is the evidence's fault only if
\* the library speaks of a checksum.
ReadMember(name) ==
  IF name \notin {container.members[i].name : i \in DOMAIN container.members}
  THEN {Failed("zip")}
  ELSE LET member == ByName(name)
       IN IF DataBegins(member) = Unknown THEN {Failed("zip")}
          ELSE IF \/ member.size > Ceiling
                  \/ Len(member.stored) > 0 /\ member.size \div Len(member.stored) > Expansion
          THEN {Failed("malformed")}
          ELSE IF Inflated(member) = Unknown THEN {Failed("zip"), Failed("malformed"), Failed("io")}
          ELSE {[ok |-> TRUE, data |-> Inflated(member)], Failed("zip"), Failed("io")}

LastOther(text, unit) == Max({0} \cup {i \in DOMAIN text : text[i] # unit})
\* trim_arn: trailing NULs, then spaces at either end.
TrimArn(text) ==
  LET bare == SubSeq(text, 1, LastOther(text, Nul))
      kept == {i \in DOMAIN bare : bare[i] # Space}
  IN IF kept = {} THEN <<>> ELSE SubSeq(bare, Min(kept), Max(kept))

\* comment_arn; and what it notes, whether or not an ARN is left.
CommentArn == IF TrimArn(container.comment) = <<>> THEN Unknown ELSE TrimArn(container.comment)
CommentNotes ==
  IF Len(TrimArn(container.comment)) < LastOther(container.comment, Space)
  THEN {Deviation("NulPaddedComment", Unknown)} ELSE {}

\* description_arn, of a volume whose description could be read.
TextOf(data) == [i \in DOMAIN data |-> data[i].char]
DescriptionArn(read) ==
  IF Description \notin {FileNames[i] : i \in DOMAIN FileNames} \/ TrimArn(TextOf(read.data)) = <<>>
  THEN Unknown ELSE TrimArn(TextOf(read.data))
DescriptionNotes ==
  IF /\ Description \in {FileNames[i] : i \in DOMAIN FileNames}
     /\ FileNames[1] # Description
  THEN {Deviation("InconsistentVolumeArn", Description)} ELSE {}

\* resolve_volume_arn: the description is preferred, and a disagreement noted.
ArnOf(comment, description) ==
  LET both == comment # Unknown /\ description # Unknown
  IN [arn |-> IF description # Unknown THEN description ELSE comment,
      source |-> IF both THEN [from |-> "both", consistent |-> comment = description]
                 ELSE [from |-> IF comment # Unknown THEN "comment" ELSE "description"],
      notes |-> CommentNotes \cup DescriptionNotes
                \cup (IF both /\ comment # description
                      THEN {Deviation("InconsistentVolumeArn", Unknown)} ELSE {})]
\* Mutant: the comment is compared as it was stored.
ResolveVolumeArnUntrimmed(read) ==
  ArnOf(IF container.comment = <<>> THEN Unknown ELSE container.comment, DescriptionArn(read))
ResolveVolumeArn(read) == ArnOf(CommentArn, DescriptionArn(read))

Positions(name) == {i \in DOMAIN FileNames : FileNames[i] = name}
DuplicateNotes ==
  IF \E i \in DOMAIN FileNames : Cardinality(Positions(FileNames[i])) > 1
  THEN {Deviation("DuplicateSegmentName", Unknown)} ELSE {}

ZipInit ==
  /\ container \in Containers
  /\ zipVolume = Shut /\ noted = {} /\ offsets = [name \in {} |-> Unknown]
  /\ handle = FALSE /\ answer = NoAnswer

Refuse(how) ==
  /\ answer' = [way |-> "open", got |-> Failed(how)]
  /\ UNCHANGED <<container, zipVolume, noted, offsets, handle>>

\* What reading the description returns; nothing is read where there is none.
DescriptionRead ==
  IF \E i \in DOMAIN FileNames : FileNames[i] = Description
  THEN ReadMember(Description) ELSE {[ok |-> TRUE, data |-> <<>>]}

\* ZipVolume::open, of a file that can be opened.  Of the two scans of the directory only the library's must
\* succeed.
Open(scans) ==
  /\ zipVolume = Shut /\ answer = NoAnswer
  /\ IF ~container.archive THEN Refuse("zip")
     ELSE IF container.members = <<>> THEN Refuse("empty archive")
     ELSE \E read \in DescriptionRead :
            LET resolved == ResolveVolumeArn(read)
            IN IF ~read.ok THEN Refuse(read.how)
               ELSE IF resolved.arn = Unknown THEN Refuse("no volume ARN")
               ELSE IF resolved.arn[1] \notin Arns THEN Refuse("malformed")
               ELSE /\ zipVolume' = [arn |-> resolved.arn, source |-> resolved.source,
                                  names |-> FileNames,
                                  sizes |-> IF scans THEN CentralDirectorySizes
                                            ELSE [name \in {} |-> Unknown],
                                  index |-> [name \in {FileNames[i] : i \in DOMAIN FileNames} |->
                                               Min(Positions(name))]]
                    /\ noted' = DuplicateNotes \cup resolved.notes
                    /\ answer' = [way |-> "open", got |-> [ok |-> TRUE]]
                    /\ UNCHANGED <<container, offsets, handle>>
OpenFails == zipVolume = Shut /\ answer = NoAnswer /\ \E how \in {"io", "zip"} : Refuse(how)

-----------------------------------------------------------------------------
(* Reading *)

\* read_segment, of the volume or of a parallel reader's own archive.
ReadSegment(name) ==
  /\ zipVolume # Shut
  /\ \E got \in ReadMember(name) : answer' = [way |-> "whole", name |-> name, got |-> got]
  /\ UNCHANGED <<container, zipVolume, noted, offsets, handle>>

HasHeader(name) == name \in DOMAIN zipVolume.sizes /\ zipVolume.sizes[name].method = StoredForm

\* Mutant: the lengths of the directory's entry are taken for the header's.
DataOffsetByEntry(name) ==
  LET header == UnitAt(zipVolume.sizes[name].header)
      entry == CHOOSE i \in DOMAIN EndRecord : EndRecord[i].utf8 = name
  IN IF header.kind = "header"
     THEN zipVolume.sizes[name].header + 1 + header.name + Len(EndRecord[entry].extra) ELSE Unknown

\* resolve_data_offset, of a header that could be read.
DataOffset(name) ==
  LET header == UnitAt(zipVolume.sizes[name].header)
  IN IF header.kind = "header"
     THEN zipVolume.sizes[name].header + 1 + header.name + header.extra ELSE Unknown

Remember(name, offset) ==
  offsets' = [n \in DOMAIN offsets \cup {name} |-> IF n = name THEN offset ELSE offsets[n]]

Answer(name, at, length, got) ==
  answer' = [way |-> "range", name |-> name, at |-> at, length |-> length, got |-> got]
AskTheOtherWay == [ok |-> TRUE, data |-> Unknown]

\* Mutant: the extent is taken for the greatest offset, whatever the length.
ServePastTheEnd(name, start, at, length) ==
  IF start = Unknown \/ at >= zipVolume.sizes[name].uncompressed THEN {AskTheOtherWay}
  ELSE IF length > 0 /\ start + at + length > Len(container.units) THEN {Failed("io")}
  ELSE {[ok |-> TRUE, data |-> UnitsFrom(start + at, length)], Failed("io")}

\* The data, where it begins at start: none past the extent recorded, and an
\* error if the file ends before it; nothing is read for no bytes.
Serve(name, start, at, length) ==
  IF start = Unknown \/ at + length > zipVolume.sizes[name].uncompressed THEN {AskTheOtherWay}
  ELSE IF length = 0 THEN {[ok |-> TRUE, data |-> <<>>]}
  ELSE IF start + at + length > Len(container.units) THEN {Failed("io")}
  ELSE {[ok |-> TRUE, data |-> UnitsFrom(start + at, length)], Failed("io")}

\* read_segment_range where the offset is remembered.
ReadRangeAgain(name, at, length) ==
  /\ zipVolume # Shut /\ name \in DOMAIN offsets
  /\ \E got \in Serve(name, offsets[name], at, length) : Answer(name, at, length, got)
  /\ UNCHANGED <<container, zipVolume, noted, offsets, handle>>

\* member_data_offset, of a member that has no header to look at: it is
\* remembered, and no handle opened.
ReadRangeNoHeader(name, at, length) ==
  /\ zipVolume # Shut /\ name \notin DOMAIN offsets /\ ~HasHeader(name)
  /\ Remember(name, Unknown)
  /\ Answer(name, at, length, AskTheOtherWay)
  /\ UNCHANGED <<container, zipVolume, noted, handle>>

\* A header that cannot be read is one that cannot be located: that is
\* remembered too.
ReadRangeFirst(name, at, length) ==
  /\ zipVolume # Shut /\ name \notin DOMAIN offsets /\ HasHeader(name)
  /\ handle' = TRUE
  /\ \E offset \in {DataOffset(name), Unknown} :
       /\ Remember(name, offset)
       /\ \E got \in Serve(name, offset, at, length) : Answer(name, at, length, got)
  /\ UNCHANGED <<container, zipVolume, noted>>

\* range_file: a handle that cannot be opened is an error, and not remembered.
RangeFileFails(name, at, length) ==
  /\ zipVolume # Shut /\ name \notin DOMAIN offsets /\ HasHeader(name) /\ ~handle
  /\ Answer(name, at, length, Failed("io"))
  /\ UNCHANGED <<container, zipVolume, noted, offsets, handle>>

Names == {container.members[i].name : i \in DOMAIN container.members} \cup {Unknown}
ZipNext ==
  \/ \E scans \in BOOLEAN : Open(scans)
  \/ OpenFails
  \/ \E name \in Names : ReadSegment(name)
  \/ \E name \in Names, asked \in Requests :
       \/ ReadRangeAgain(name, asked[1], asked[2]) \/ ReadRangeNoHeader(name, asked[1], asked[2])
       \/ ReadRangeFirst(name, asked[1], asked[2]) \/ RangeFileFails(name, asked[1], asked[2])
ZipSpec == ZipInit /\ [][ZipNext]_zipVars

-----------------------------------------------------------------------------
(* Properties *)

NamedOnce == OnlyOneOf(container.members)

(* "A request that runs past the member's recorded extent is refused rather   *)
(* than allowed to read a neighbouring member's bytes": what a range read     *)
(* serves is a stored member's own units at that place, whichever header it   *)
(* was found by and whatever failed before; and a whole read that succeeds    *)
(* serves what was written, so that where both serve they agree.              *)
Own(member, at, length) == UnitsFrom(member.begins + at, length)
ReadsAreTheMembers ==
  container.sound /\ NamedOnce /\ answer.way \in {"range", "whole"} /\ answer.name # Unknown =>
    LET member == ByName(answer.name)
    IN /\ answer.way = "range" /\ answer.got.ok /\ answer.got.data # Unknown =>
            /\ member.method = StoredForm
            /\ answer.at + answer.length <= Len(member.stored)
            /\ answer.got.data = Own(member, answer.at, answer.length)
       /\ answer.way = "whole" /\ answer.got.ok => answer.got.data = member.data

(* "Reading compressed at a fixed offset would pick up the wrong number       *)
(* whenever only one of them overflowed": what the volume's own scan takes a  *)
(* member for is what it is, whichever of its numbers do not fit 32 bits.     *)
SizesAreTheMembers ==
  zipVolume # Shut /\ container.sound /\ NamedOnce =>
    \A name \in DOMAIN zipVolume.sizes : name \in {zipVolume.names[i] : i \in DOMAIN zipVolume.names} =>
      zipVolume.sizes[name] =
        [method |-> ByName(name).method, uncompressed |-> ByName(name).size,
         compressed |-> Len(ByName(name).stored), header |-> ByName(name).header]

(* "Paying a seek per chunk to rediscover a constant": an offset remembered    *)
(* from the first range read is where the member's data begins, for as long    *)
(* as the volume is open; failing to read its header leaves no wrong one.      *)
RememberedOffsetsAreTrue ==
  container.sound /\ NamedOnce =>
    \A name \in DOMAIN offsets :
      offsets[name] # Unknown => offsets[name] = ByName(name).begins

(* "A mismatch must never pass silently": the ARN a volume is opened under is  *)
(* one its declarations give once their padding is gone, and what is doubtful  *)
(* about it is noted: a comment and the description read that name two volumes, *)
(* padding, a description out of its place, a name that stands twice.          *)
Bare(text) == [i \in {j \in DOMAIN text : text[j] # Nul} |-> text[i]]
PlainlyPadded(text) ==
  \E n \in 0..Len(text) : \A i \in DOMAIN text : IF i <= n THEN text[i] \in Arns ELSE text[i] = Nul
Descriptions == {i \in DOMAIN container.members : container.members[i].name = Description}
Doubtful ==
  LET comment == Bare(container.comment)
      description == Bare(TextOf(ByName(Description).data))
      disagree == comment # <<>> /\ description # <<>> /\ comment # description
  IN (IF Descriptions # {} /\ disagree
      THEN {Deviation("InconsistentVolumeArn", Unknown)} ELSE {})
     \cup (IF Nul \in {container.comment[i] : i \in DOMAIN container.comment}
           THEN {Deviation("NulPaddedComment", Unknown)} ELSE {})
     \cup (IF Descriptions # {} /\ 1 \notin Descriptions
           THEN {Deviation("InconsistentVolumeArn", Description)} ELSE {})
     \cup (IF container.lists = "each" /\ ~NamedOnce
           THEN {Deviation("DuplicateSegmentName", Unknown)} ELSE {})
DoubtsAreNoted ==
  /\ zipVolume # Shut
  /\ PlainlyPadded(container.comment)
  /\ \A i \in Descriptions : PlainlyPadded(TextOf(container.members[i].data))
  =>
    /\ noted = Doubtful
    /\ zipVolume.source.from = "both" =>
         (zipVolume.source.consistent <=> Deviation("InconsistentVolumeArn", Unknown) \notin noted)
    /\ zipVolume.arn \in {Bare(container.comment)}
                      \cup {Bare(TextOf(container.members[i].data)) : i \in Descriptions}

(* A volume tells what it was opened as, and what it reads is its members'.   *)
VolumesReadTrue ==
  ReadsAreTheMembers /\ SizesAreTheMembers /\ RememberedOffsetsAreTrue /\ DoubtsAreNoted
=============================================================================
