--------------------------- MODULE ObjectListing ---------------------------
(***************************************************************************)
(* The order in which `info` shows the objects of a summary: order_objects *)
(* and walk_spine of src/src/report.rs.  The data path of each root comes  *)
(* first, followed in either direction along the references that make it,  *)
(* then what the volume says it contains, then the rest.  Objects are      *)
(* indexes of the blocks they were built from.                             *)
(***************************************************************************)
EXTENDS ConformanceScan, TLC

LOCAL INSTANCE SequencesExt

CONSTANT BriefLimit  \* BRIEF_BITSTREAM_LIMIT

ASSUME ListingAssumption == BriefLimit \in Nat /\ BriefLimit <= BriefCap

VARIABLES
  tier,    \* roots that are "images", "maps", "streams", then "contained", "rest", "listed"
  queue,   \* objects reached and not yet placed
  reached, \* names of the objects reached
  order    \* the objects placed

listingVars == <<tier, queue, reached, order>>

Named(i) == Blocks[i].subject
Objects == {kept[i] : i \in DOMAIN kept}

\* The last object of that name, as the index of names keeps it.
WithName(name) == {i \in Objects : Named(i) = name}
ByName(name) == CHOOSE i \in WithName(name) : \A j \in WithName(name) : j <= i
IsKept(name) == WithName(name) # {}

ListingInit == tier = "images" /\ queue = <<>> /\ reached = {} /\ order = <<>>
Walking == outcome = "scanned" /\ command \in {"info", "brief"}

-----------------------------------------------------------------------------
(* The data path *)

HasImageRole == \E i \in Objects : IsImage(Blocks[i])

\* root_passes and is_spine_root: a map or a stream is a root only where there
\* is no image.
Root(i) ==
  CASE tier = "images" -> IsImage(Blocks[i])
    [] tier = "maps" -> ~HasImageRole /\ Role(Blocks[i]) = "Map"
    [] tier = "streams" -> ~HasImageRole /\ Role(Blocks[i]) = "ImageStream"
    [] OTHER -> FALSE
Roots == SelectSeq(kept, LAMBDA i : Named(i) \notin reached /\ Root(i))

\* classify_edge and is_spine_edge: the target of what describes a case is no
\* part of the path.
Spine(b) ==
  SelectSeq(b.refers, LAMBDA r :
    r.by # "target" \/ b.types \cap {"CaseDetails", "TimeStamps"} = {})
Outgoing(i) == LET s == Spine(Blocks[i]) IN [k \in DOMAIN s |-> s[k].to]
Incoming(i) ==
  FlattenSeq([k \in DOMAIN kept |->
    LET to == SelectSeq(Outgoing(kept[k]), LAMBDA n : n = Named(i))
    IN IF Named(kept[k]) = Named(i) THEN <<>> ELSE [m \in DOMAIN to |-> Named(kept[k])]])

\* Mutant: a name met twice among the neighbours is queued twice.
FreshRepeated(names, met) == SelectSeq(names, LAMBDA n : n \notin met /\ IsKept(n))

\* Those names, each once, that were not met.
Fresh(names, met) ==
  LET new == SelectSeq([k \in DOMAIN names |-> k],
               LAMBDA k : /\ names[k] \notin met /\ IsKept(names[k])
                          /\ \A j \in 1..(k - 1) : names[j] # names[k])
  IN [k \in DOMAIN new |-> names[new[k]]]

BeginSpine ==
  /\ Walking /\ queue = <<>> /\ Roots # <<>>
  /\ queue' = <<Head(Roots)>>
  /\ reached' = reached \cup {Named(Head(Roots))}
  /\ UNCHANGED <<tier, order>>

NextTier ==
  /\ Walking /\ queue = <<>> /\ Roots = <<>> /\ tier \in {"images", "maps", "streams"}
  /\ tier' = CASE tier = "images" -> "maps" [] tier = "maps" -> "streams" [] OTHER -> "contained"
  /\ UNCHANGED <<queue, reached, order>>

\* A node is placed with the block hashes that hang off it; then what it leads
\* to, and what leads to it, waits its turn.
Children(i) ==
  LET hashes == SelectSeq(kept, LAMBDA k : Role(Blocks[k]) = "BlockHashes" /\ Blocks[k].under = Named(i))
  IN SelectSeq(hashes, LAMBDA k :
       Named(k) \notin reached /\ \A j \in DOMAIN hashes : hashes[j] < k => Named(hashes[j]) # Named(k))

Visit ==
  /\ Walking /\ queue # <<>>
  /\ LET node == Head(queue)
         children == Children(node)
         met == reached \cup {Named(children[k]) : k \in DOMAIN children}
         onward == Fresh(Outgoing(node) \o Incoming(node), met)
     IN /\ order' = order \o <<node>> \o children
        /\ queue' = Tail(queue) \o [k \in DOMAIN onward |-> ByName(onward[k])]
        /\ reached' = met \cup {onward[k] : k \in DOMAIN onward}
  /\ UNCHANGED tier

-----------------------------------------------------------------------------
(* The rest *)

Contained ==
  /\ Walking /\ tier = "contained"
  /\ LET names == Fresh(manifest.names, reached)
     IN /\ order' = order \o [k \in DOMAIN names |-> ByName(names[k])]
        /\ reached' = reached \cup {names[k] : k \in DOMAIN names}
  /\ tier' = "rest" /\ UNCHANGED queue

\* group_by_role, in the order the roles first appear.
Grouped(objects) ==
  LET first(k) == CHOOSE j \in DOMAIN objects :
        /\ Role(Blocks[objects[j]]) = Role(Blocks[objects[k]])
        /\ \A m \in 1..(j - 1) : Role(Blocks[objects[m]]) # Role(Blocks[objects[k]])
      places == SortSeq([k \in DOMAIN objects |-> k],
                  LAMBDA j, k : first(j) < first(k) \/ (first(j) = first(k) /\ j < k))
  IN [k \in DOMAIN places |-> objects[places[k]]]

Rest ==
  /\ Walking /\ tier = "rest"
  /\ LET remaining == SelectSeq(kept, LAMBDA i : Named(i) \notin reached)
     IN order' = order \o (IF manifest.names = <<>> THEN remaining ELSE Grouped(remaining))
  /\ tier' = "listed" /\ UNCHANGED <<queue, reached>>

ScanOver ==
  /\ \/ outcome \in {"malformed", "unsupported", "not AFF4"}
     \/ outcome = "scanned" /\ ~Walking
     \/ tier = "listed"
  /\ UNCHANGED <<scanVars, listingVars>>

ScanInfoInit == ScanInit /\ ListingInit
ScanInfoNext ==
  \/ ScanNext /\ UNCHANGED listingVars
  \/ (BeginSpine \/ NextTier \/ Visit \/ Contained \/ Rest) /\ UNCHANGED scanVars
  \/ ScanOver
ScanInfoSpec == ScanInfoInit /\ [][ScanInfoNext]_<<scanVars, listingVars>>

-----------------------------------------------------------------------------
(* Properties *)

\* The passes, their fields and what each of them may hold.
ScanTypeOK ==
  /\ container \in Evidence /\ command \in {Absent, "conformance", "info", "brief", "verify"}
  /\ next \in 1..(Len(Blocks) + 1) /\ Objects \subseteq DOMAIN Blocks
  /\ described \subseteq {Blocks[i].subject : i \in DOMAIN Blocks}
  /\ tier \in {"images", "maps", "streams", "contained", "rest", "listed"}
  /\ {order[i] : i \in DOMAIN order} \cup {queue[i] : i \in DOMAIN queue} \subseteq Objects

AllBlocks == {Blocks[i] : i \in DOMAIN Blocks}
Resources == {b \in AllBlocks : b.form = "resource"}
Subjects == {b.subject : b \in AllBlocks}
Once == Cardinality(Subjects) = Len(Blocks)

\* The references the metadata makes as a whole, in whatever order it was
\* written, to what no block describes; and the names the volume says it
\* contains that no object stored in it has.
NowhereDescribed ==
  {d \in UNION {{[from |-> b.subject, by |-> b.refers[i].by, to |-> b.refers[i].to] :
                   i \in DOMAIN b.refers} : b \in Resources} :
     d.to \notin Subjects \cup Symbolic}
NotContained ==
  UNION {{b.lists[i] : i \in DOMAIN b.lists} :
           b \in {c \in AllBlocks : c.subject = Volume /\ c.lists # Absent}}
    \ {b.subject : b \in {c \in Resources : Local(c)}}

\* A pass reports of a container whose subjects each stand in one place what
\* its metadata shows as a whole: a reference to a subject written later is
\* not dangling, one to a subject described nowhere is, and so is a name the
\* volume says it contains and no object stored in it has, wherever the
\* volume's own subject stands; and what is found of one subject is found
\* whatever stands beside it, an odd one or one of an index included.
\* (deviations_only, summarize, summarize_brief: three copies of one pass.)
FindingsAreTheMetadatas ==
  outcome = "scanned" /\ Once =>
    /\ {f \in findings : f.kind = "DanglingReference"} =
         {Dangling(d) : d \in NowhereDescribed}
           \cup {Dangling([from |-> Volume, by |-> "contains", to |-> n]) :
                    n \in IF command = "brief" THEN {} ELSE NotContained}
    /\ {f \in findings : f.of \in Subjects /\ f.kind \notin {"DanglingReference", "ConflictingStreamValue"}} =
         UNION {Found(container, Volumes, b) : b \in Resources}
           \cup {[kind |-> "UnexpectedDatatype", of |-> b.subject] :
                    b \in {c \in AllBlocks : c.form = "other"}}

\* Each object of the summary is shown exactly once, though image and map name
\* each other, streams share maps, block hashes hang off streams, and the
\* volume's list names some of them again.  (order_objects.)
ListingShowsEveryObject ==
  tier = "listed" /\ Once =>
    /\ Len(order) = Len(kept)
    /\ {order[i] : i \in DOMAIN order} = Objects

\* A summary tells of every object, the short one of those it drops too: its
\* counts are the metadata's; a file is counted in one storage form, and if
\* not it was recorded without being read, or draws a finding on where its
\* bytes are; the first disk image is retained; and the short summary has its
\* sample of digests to show while those that cannot be shown leave room.
\* (ObjectCounts::observe, brief_renders, write_brief_bitstream.)
InPlace(i, k) == Blocks[i].form = "resource" /\ k \in CountedIn(Blocks[i])
Carriers == {i \in Objects : HasBitstreamHash(Blocks[i])}
Sampled == {i \in Carriers : InPlace(i, "candidates")}
SummaryTellsOfEveryObject ==
  outcome = "scanned" /\ command # "conformance" =>
    /\ \A k \in Categories : counts[k] = Cardinality({i \in DOMAIN Blocks : InPlace(i, k)})
    /\ counts["files"] = counts["ZipSegment"] + counts["Map"] + counts["ImageStream"]
                           + counts["in metadata"] + counts["not read"]
    /\ Alpha(container) =>
         \A b \in Resources : "not read" \in CountedIn(b) /\ ~Contentless(b) =>
           \E f \in findings : f.of = b.subject /\ f.kind \in {"AmbiguousStorageForm", "StorageFormNotFound"}
    /\ \A i \in DOMAIN Blocks :
         /\ Blocks[i].form = "resource" /\ Role(Blocks[i]) = "DiskImage"
         /\ \A j \in 1..(i - 1) : "DiskImage" \notin Blocks[j].types
         => i \in Objects
    /\ command = "brief" /\ Cardinality(Carriers \ Sampled) <= BriefCap - BriefLimit =>
         Cardinality(Sampled) >= IF counts["candidates"] < BriefLimit THEN counts["candidates"] ELSE BriefLimit

\* Volumes that disagree about a stream are reported by whichever command is
\* given them.  ("verify already declines on these ...; before this, info
\* absorbed the same conflict silently", src/src/container.rs.)
ConflictsAreReported ==
  outcome = "scanned" =>
    \A s \in Streams :
      Disagree(s, {0} \cup DOMAIN container.siblings) => [kind |-> "ConflictingStreamValue", of |-> s] \in findings
=============================================================================
