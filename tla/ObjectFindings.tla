--------------------------- MODULE ObjectFindings ---------------------------
(***************************************************************************)
(* What a container's metadata says of one subject, and what is found of   *)
(* it while that subject is in hand (build_object, report_any_generation   *)
(* and report_v21 of src/src/container.rs, src/src/storage_form.rs).  A    *)
(* block of metadata is a record:                                          *)
(*                                                                         *)
(*   subject, under   its name, and the resource that name is a path of    *)
(*   form             "resource", "digest" or "other": what it names       *)
(*   guid             "lower" or "upper" case, or "none"                   *)
(*   types, hashes    what it is, and the properties that are digests      *)
(*   size             "stated", "odd" or Absent                            *)
(*   short            a digest is of the wrong length                      *)
(*   chunk            what it says a chunk holds, or Absent                *)
(*   stored           the volume it is stored in, or Absent                *)
(*   refers           its references: predicate and resource, in order     *)
(*   lists            what it says it contains, or Absent                  *)
(*   datum            bytes held here: "small", "big", "bad" or Absent     *)
(*   display, raw     its name: "plain", "escaped", "lower case escape"    *)
(*                    or Absent; "exact", "other", "bad" or Absent         *)
(*   astray           a term is not in the namespace that defines it       *)
(*   case             it carries a number or a name of the case            *)
(*   ranged           it names a byte range of a resource                  *)
(*                                                                         *)
(* Spellings a reader takes for one term are one term here.  A volume is   *)
(* [version, members]; a member is [of, spelled, part, method, huge], its  *)
(* name "literal" or "escaped", its part "data" or "map".                  *)
(***************************************************************************)
EXTENDS Naturals, Sequences, FiniteSets

CONSTANTS
  Volume,  \* the name of the volume opened first
  Absent   \* what is not stated

-----------------------------------------------------------------------------
(* What an object is *)

\* ObjectRole::from_types: the most specific first.  Of what is none of these
\* the first type stands for the role; a block states one such type at most.
Precedence ==
  <<"DiskImage", "FileImage", "FolderImage", "FileSubStream", "DiscontiguousImage",
    "ContiguousImage", "ImageStream", "Map", "BlockHashes", "CaseDetails", "TimeStamps",
    "ZipVolume", "Image">>
Role(b) ==
  LET stated == {i \in DOMAIN Precedence : Precedence[i] \in b.types}
  IN IF b.types = {} THEN "unknown"
     ELSE IF stated = {} THEN CHOOSE type \in b.types : TRUE
     ELSE Precedence[CHOOSE i \in stated : \A j \in stated : i <= j]
IsImage(b) ==
  Role(b) \in {"DiskImage", "ContiguousImage", "DiscontiguousImage", "Image", "FileImage", "FolderImage"}

\* locality_of.
Local(b) == b.stored = Volume

\* has_bitstream_hash.
HasBitstreamHash(b) == b.hashes \cap {"hash", "blockMapHash"} # {}

Refers(b, predicate) == \E i \in DOMAIN b.refers : b.refers[i].by = predicate

\* The kinds whose condition holds.
Departures(conditions) == {kind \in DOMAIN conditions : conditions[kind]}

-----------------------------------------------------------------------------
(* Every generation *)

\* Generation::from_version and name_mapping.
Alpha(volume) == volume.version = "2.1"
Mapped(volume) == IF Alpha(volume) THEN "literal" ELSE "escaped"
Members(volume, b, spelled, part) ==
  {m \in volume.members : m.of = b.subject /\ m.spelled = spelled /\ m.part = part}

\* build_object.
Building(b, volumes) ==
  Departures([DigestLengthMismatch |-> b.short,
              UnexpectedDatatype |-> b.size = "odd",
              ExternalReference |-> b.stored # Absent /\ b.stored \notin volumes])

AnyGeneration(volume, b) ==
  Departures([
    MissingZipSegmentType |->
      /\ "FileImage" \in b.types /\ b.types \cap {"ZipSegment", "ImageStream"} = {}
      /\ Members(volume, b, Mapped(volume), "data") # {},
    MissingMapSegmentDigest |->
      /\ "Map" \in b.types /\ "mapHash" \notin b.hashes
      /\ Members(volume, b, Mapped(volume), "map") # {}])

-----------------------------------------------------------------------------
(* AFF4-L v1.0-ALPHA *)

\* Mutant: a reference to a stream counts beside a stated form.
StorageFormsAllCounted(b) ==
  (b.types \cap {"ZipSegment", "Map", "ImageStream"})
    \cup (IF b.datum # Absent THEN {"in metadata"} ELSE {})
    \cup (IF Refers(b, "dataStream") THEN {"Map"} ELSE {})

\* storage_form_of_with_reference: a reference says where the bytes are only
\* if nothing else does.
StorageForms(b) ==
  LET stated == (b.types \cap {"ZipSegment", "Map", "ImageStream"})
                  \cup (IF b.datum # Absent THEN {"in metadata"} ELSE {})
  IN IF stated = {} /\ Refers(b, "dataStream") THEN {"Map"} ELSE stated

\* A file recorded without being read states neither size nor digest.
Contentless(b) == b.size # "stated" /\ b.hashes = {}

\* The member that holds the bytes, under either spelling.
Held(volume, b) ==
  LET literal == Members(volume, b, "literal", "data")
  IN IF literal # {} THEN literal ELSE Members(volume, b, "escaped", "data")

StorageForm(volume, b) ==
  LET forms == StorageForms(b)
      segment == forms = {"ZipSegment"}
      resident == forms = {"in metadata"}
      held == Held(volume, b)
  IN IF Role(b) # "FileImage" \/ Contentless(b) THEN {}
     ELSE Departures([
       AmbiguousStorageForm |-> Cardinality(forms) > 1,
       StorageFormNotFound |->
         forms = {} \/ (resident /\ b.datum = "bad") \/ (segment /\ held = {}),
       OversizedResidentStream |-> resident /\ b.datum = "big",
       MissingZipSegmentHash |-> segment /\ held # {} /\ b.hashes = {},
       UnsupportedSegmentCompression |-> segment /\ \E m \in held : m.method = "other",
       OversizedZipSegment |-> segment /\ \E m \in held : m.huge])

Identity(volume, b) ==
  IF b.subject = Volume THEN {}
  ELSE Departures([
    NonGuidArn |-> b.guid = "none",
    UppercaseGuidArn |-> b.guid = "upper",
    MissingRecordedPath |-> "FileImage" \in b.types /\ b.display = Absent,
    EscapedV21MemberName |->
      /\ "FileImage" \in b.types
      /\ Members(volume, b, "literal", "data") = {}
      /\ Members(volume, b, "escaped", "data") # {}])

\* A raw name that decodes to the name displayed is needed only if that name
\* had to be escaped.
RecordedNames(b) ==
  Departures([
    LowercaseNameEscape |-> b.display = "lower case escape",
    MissingRawName |-> b.display \notin {Absent, "plain"} /\ b.raw = Absent,
    MalformedRawName |-> b.display # Absent /\ b.raw = "bad",
    RedundantRawName |-> b.display = "plain" /\ b.raw = "exact",
    ContradictoryRawName |->
      \/ b.display # Absent /\ b.raw = "other"
      \/ b.display = "lower case escape" /\ b.raw = "exact"])

Namespaces(b) == Departures([WrongTermNamespace |-> b.astray])

\* report_v21.
OfAlpha(volume, b) ==
  IF Alpha(volume)
  THEN Identity(volume, b) \cup RecordedNames(b) \cup Namespaces(b) \cup StorageForm(volume, b)
  ELSE {}

\* All that is found of the object while it is in hand.
Found(volume, volumes, b) ==
  {[kind |-> kind, of |-> b.subject] :
     kind \in Building(b, volumes) \cup AnyGeneration(volume, b) \cup OfAlpha(volume, b)}
=============================================================================
