-------------------------- MODULE ConformanceScan --------------------------
(***************************************************************************)
(* One pass over a container's metadata, a subject at a time: the scan of  *)
(* `conformance` (deviations_only), the summary of `info` and `verify`     *)
(* (summarize), and the short one of `info --brief` (summarize_brief), all *)
(* in src/src/container.rs over Graph::stream_by_subject of                *)
(* src/src/rdf.rs.  Only the last block is known to be the last: what one  *)
(* subject says of another is settled once all have passed.                *)
(*                                                                         *)
(* A container is [version, namespace, metadata, blocks, torn, siblings,   *)
(* members, digests, names, opened]: the blocks in the order they were     *)
(* written, no two in a row of one subject, the one the text stops being   *)
(* legal in (or 0), the other volumes given, each [arn, chunks], the       *)
(* segment that holds the metadata's digests, the names of the set's       *)
(* files, and what opening the archive already found.                      *)
(***************************************************************************)
EXTENDS ObjectFindings

CONSTANTS
  Evidence,  \* the containers a run may be given
  Symbolic,  \* streams that stand for a pattern and are described nowhere
  BriefCap   \* BRIEF_CANDIDATE_CAP

ASSUME ScanAssumption == BriefCap \in Nat

VARIABLES
  container,  \* the container given
  command,    \* "conformance", "info", "brief" or "verify"
  outcome,    \* "closed", "scanning", "scanned", or how the command ended
  next,       \* the block to be read
  findings,   \* deviations: [kind, of], and what a dangling reference names
  described,  \* subjects met
  repeats,    \* blocks of a subject that was met before
  deferred,   \* references met: [from, by, to]
  local,      \* objects stored in this volume
  manifest,   \* [declared, names]: what the volume says it contains
  digests,    \* subjects that name content
  kept,       \* indexes of the blocks whose objects the summary retains
  counts,     \* category -> objects counted in it
  candidates, \* objects kept that carry a bitstream digest
  seenTypes   \* types of the image-like objects kept as the first of a type

settledVars == <<described, repeats, deferred, local, manifest, digests>>
summaryVars == <<kept, counts, candidates, seenTypes>>
scanVars == <<container, command, outcome, next, findings, settledVars, summaryVars>>

-----------------------------------------------------------------------------
(* Opening *)

\* identify: the version stated, or without one the namespace of the metadata.
Refusal(c) ==
  CASE c.version \in {"1.0", "1.1", "2.1"} -> Absent
    [] c.version = "garbled" -> "malformed"
    [] c.version # Absent -> "unsupported"
    [] ~c.metadata -> "not AFF4"
    [] c.namespace = Absent -> "malformed"
    [] c.namespace = "unknown" -> "not AFF4"
    [] OTHER -> "unsupported"

Categories ==
  {"total", "images", "maps", "streams", "files", "folders", "substreams", "candidates"}
    \cup {"ZipSegment", "Map", "ImageStream", "in metadata", "not read"}
Zero == [k \in Categories |-> 0]
Volumes == {Volume} \cup {container.siblings[i].arn : i \in DOMAIN container.siblings}

ScanInit ==
  /\ container \in Evidence
  /\ command = Absent /\ outcome = "closed" /\ next = 1
  /\ findings = {} /\ described = {} /\ repeats = 0 /\ deferred = {} /\ local = {}
  /\ manifest = [declared |-> FALSE, names |-> <<>>] /\ digests = 0
  /\ kept = <<>> /\ counts = Zero /\ candidates = 0 /\ seenTypes = {}

\* open, open_without_graph, open_for_conformance: all read the version, and
\* the metadata is needed once the pass begins.  Only open parses it before.
Opened ==
  IF Refusal(container) # Absent THEN Refusal(container)
  ELSE IF container.metadata THEN "scanning" ELSE "not AFF4"
OpenContainer ==
  /\ outcome = "closed"
  /\ command' \in {"conformance", "info", "brief", "verify"}
  /\ outcome' = IF command' = "verify" /\ Opened = "scanning" /\ container.torn # 0
                THEN "malformed" ELSE Opened
  /\ findings' = IF outcome' = "scanning" THEN container.opened ELSE {}
  /\ UNCHANGED <<container, next, settledVars, summaryVars>>

-----------------------------------------------------------------------------
(* A subject *)

Blocks == container.blocks
Block == Blocks[next]
Reading == outcome = "scanning" /\ next <= Len(Blocks) /\ next # container.torn

\* stream_by_subject, and what every pass takes of a subject before it knows
\* what the subject is.  The block read last says whether the volume declares
\* its contents.
Meet ==
  /\ next' = next + 1
  /\ described' = described \cup {Block.subject}
  /\ repeats' = repeats + (IF Block.subject \in described THEN 1 ELSE 0)
  /\ manifest' =
       IF Block.subject # Volume THEN manifest
       ELSE [declared |-> Block.lists # Absent,
             names |-> manifest.names \o (IF Block.lists = Absent THEN <<>> ELSE Block.lists)]

\* A block of a deduplicating writer's index names content.
ReadDigest ==
  /\ Reading /\ Block.form = "digest" /\ Meet
  /\ digests' = digests + 1
  /\ UNCHANGED <<container, command, outcome, findings, deferred, local, summaryVars>>

\* build_object: one odd subject does not hide the rest.
ReadOther ==
  /\ Reading /\ Block.form = "other" /\ Meet
  /\ findings' = findings \cup {[kind |-> "UnexpectedDatatype", of |-> Block.subject]}
  /\ UNCHANGED <<container, command, outcome, deferred, local, digests, summaryVars>>

\* ObjectCounts::observe and count_storage_form: a file whose form is not one
\* is counted with those that were not read.
FormCounted(b) ==
  IF Role(b) # "FileImage" THEN {}
  ELSE IF Contentless(b) \/ Cardinality(StorageForms(b)) # 1 THEN {"not read"}
  ELSE StorageForms(b)
CountedIn(b) ==
  {"total"} \cup FormCounted(b)
    \cup (IF IsImage(b) THEN {"images"} ELSE {})
    \cup (IF HasBitstreamHash(b) /\ (IsImage(b) \/ Role(b) = "ImageStream") THEN {"candidates"} ELSE {})
    \cup (CASE Role(b) = "Map" -> {"maps"} [] Role(b) = "ImageStream" -> {"streams"}
            [] Role(b) = "FileImage" -> {"files"} [] Role(b) = "FolderImage" -> {"folders"}
            [] Role(b) = "FileSubStream" -> {"substreams"} [] OTHER -> {})

ImageLike(b) == IsImage(b) \/ Role(b) \in {"Map", "ImageStream"} \/ "Image" \in b.types
Novel(b) == ImageLike(b) /\ ~(b.types \subseteq seenTypes)

\* Mutant: the cap is spent on image-like objects without a digest too.
BriefRendersAny(b) ==
  IF ImageLike(b) THEN Novel(b) \/ Len(kept) < BriefCap ELSE b.case

\* brief_renders: the first of a type whatever the cap says, carriers of a
\* bitstream digest up to the cap, and what carries a number of the case.
BriefRenders(b) ==
  IF ImageLike(b) THEN Novel(b) \/ (HasBitstreamHash(b) /\ candidates < BriefCap) ELSE b.case

Retained(b) ==
  CASE command = "conformance" -> FALSE [] command = "brief" -> BriefRenders(b) [] OTHER -> TRUE

ReadObject ==
  /\ Reading /\ Block.form = "resource" /\ Meet
  /\ findings' = findings \cup Found(container, Volumes, Block)
  /\ deferred' = deferred \cup
       {[from |-> Block.subject, by |-> Block.refers[i].by, to |-> Block.refers[i].to] :
          i \in DOMAIN Block.refers}
  /\ local' = IF command # "brief" /\ Local(Block) THEN local \cup {Block.subject} ELSE local
  /\ counts' = IF command = "conformance" THEN counts
               ELSE [k \in Categories |-> counts[k] + (IF k \in CountedIn(Block) THEN 1 ELSE 0)]
  /\ kept' = IF Retained(Block) THEN Append(kept, next) ELSE kept
  /\ seenTypes' = IF command = "brief" /\ Novel(Block) THEN seenTypes \cup Block.types ELSE seenTypes
  /\ candidates' = candidates + (IF command = "brief" /\ BriefRenders(Block) /\ HasBitstreamHash(Block)
                                 THEN 1 ELSE 0)
  /\ UNCHANGED <<container, command, outcome, digests>>

\* The text is no longer Turtle: what was found so far is not reported.
TextEnds ==
  /\ outcome = "scanning" /\ next = container.torn
  /\ outcome' = "malformed" /\ findings' = {}
  /\ UNCHANGED <<container, command, next, settledVars, summaryVars>>

-----------------------------------------------------------------------------
(* Once every subject has passed *)

\* Mutant: a reference is looked up among the subjects written before it.
UnresolvedInPass ==
  {r \in deferred :
     r.to \notin Symbolic /\ \A i, j \in DOMAIN Blocks :
       Blocks[i].subject = r.to /\ Blocks[j].subject = r.from => i > j}

\* resolve_deferred_references.
Unresolved == {r \in deferred : r.to \notin described /\ r.to \notin Symbolic}

Dangling(r) == [kind |-> "DanglingReference", of |-> r.from, by |-> r.by, to |-> r.to]

\* compare_manifest: the short summary does not make this check.
Unlisted ==
  IF command = "brief" \/ ~manifest.declared THEN {}
  ELSE {n \in {manifest.names[i] : i \in DOMAIN manifest.names} : n \notin local}

\* What a volume's retained graph says of a stream.  Only `verify` opens the
\* first volume with its graph: the other commands read it here, and once.
ChunkOf(b) == b.chunk
Stated(v, s) ==
  IF v > 0 THEN container.siblings[v].chunks[s]
  ELSE LET says == {i \in DOMAIN Blocks : Blocks[i].subject = s /\ ChunkOf(Blocks[i]) # Absent}
       IN IF says = {} THEN Absent ELSE ChunkOf(Blocks[CHOOSE i \in says : \A j \in says : i <= j])
WithGraphs == (IF command = "verify" THEN {0} ELSE {}) \cup DOMAIN container.siblings
Streams == UNION {DOMAIN container.siblings[i].chunks : i \in DOMAIN container.siblings}
Disagree(s, volumes) ==
  \E v, w \in volumes : Stated(v, s) # Absent /\ Stated(w, s) # Absent /\ Stated(v, s) # Stated(w, s)

\* report_stream_conflicts.
Conflicts == IF container.siblings = <<>> THEN {} ELSE {s \in Streams : Disagree(s, WithGraphs)}

\* report_metadata_hash: a segment that cannot be read is not a finding.
OfMetadataHash ==
  IF command # "conformance" \/ ~Alpha(container) THEN {}
  ELSE Departures([MissingMetadataHash |-> container.digests = Absent,
                   WeakMetadataHash |-> container.digests = "weak"])

\* naming_departure: one file is a set of one, whatever it is called; more are
\* the base and the base with the ordinals from one on.
Departing(names) ==
  Cardinality(names) > 1 /\ names # {[style |-> "base", n |-> 0]}
                                      \cup {[style |-> "ordinal", n |-> n] : n \in 1..(Cardinality(names) - 1)}
OfPartNaming ==
  IF command = "conformance" /\ Alpha(container) /\ Departing(container.names)
  THEN {"MultiPartNamingScheme"} ELSE {}

OfTheText ==
  Departures([ByteRangeArn |-> \E i \in DOMAIN Blocks : Blocks[i].ranged,
              UnexpectedDatatype |-> repeats > 0,
              ContentAddressedSubject |-> digests > 0])

Settle ==
  /\ outcome = "scanning" /\ next > Len(Blocks)
  /\ outcome' = "scanned"
  /\ findings' = findings
       \cup {Dangling(r) : r \in Unresolved}
       \cup {Dangling([from |-> Volume, by |-> "contains", to |-> n]) : n \in Unlisted}
       \cup {[kind |-> "ConflictingStreamValue", of |-> s] : s \in Conflicts}
       \cup {[kind |-> k, of |-> "metadata"] : k \in OfTheText \cup OfMetadataHash \cup OfPartNaming}
  /\ UNCHANGED <<container, command, next, settledVars, summaryVars>>

ScanNext == OpenContainer \/ ReadDigest \/ ReadOther \/ ReadObject \/ TextEnds \/ Settle
=============================================================================
