------------------------------ MODULE ScanWalk ------------------------------
(***************************************************************************)
(* The scanner of a logical acquisition: a thread that walks the roots,    *)
(* raises the totals a progress display reads, and sends one item after    *)
(* another into a bounded queue, until the walk is over or nobody receives *)
(* any more (src/src/write/scan.rs).  The recursion of scan_path is a      *)
(* stack of what is left to do.  The inline walk of logical.rs, which has  *)
(* no thread, is the recursive function InlineItems.                       *)
(***************************************************************************)
EXTENDS Naturals, Sequences, SequencesExt

CONSTANTS
  Entries,        \* paths of the source
  Kind,           \* entry -> "file", "dir", "special" or "unreadable"
  Children,       \* entry -> what read_dir lists, sorted
  Unlisted,       \* entry -> entries read_dir failed to produce
  Listable,       \* directories read_dir opens
  SizeOf,         \* entry -> its length in its metadata
  Roots,          \* the paths named on the command line, in order
  MaxDepth,       \* how far down the tree of any entry goes
  QueueCapacity,  \* SCAN_QUEUE_CAPACITY
  SegmentLimit,   \* MAX_SEGMENT_RESIDENT_SIZE
  PerItemOverhead \* SEGMENT_OVERHEAD

ASSUME ScanAssumption ==
  /\ Kind \in [Entries -> {"file", "dir", "special", "unreadable"}]
  /\ Children \in [Entries -> Seq(Entries)]
  /\ Unlisted \in [Entries -> Nat] /\ SizeOf \in [Entries -> Nat]
  /\ Roots \in Seq(Entries)
  \* Only a directory is listed.
  /\ Listable \subseteq {p \in Entries : Kind[p] = "dir"}
  \* What is followed goes down: a symbolic link is not.
  /\ MaxDepth \in Nat
  /\ \E depth \in [Entries -> 0..MaxDepth] :
       \A dir \in Entries : \A child \in Range(Children[dir]) : depth[child] < depth[dir]
  /\ QueueCapacity \in Nat \ {0}
  /\ SegmentLimit \in Nat /\ PerItemOverhead \in Nat

Item == [kind : {"File", "Dir", "DirEnd", "Skipped"}, path : Entries]
NoItem == [kind |-> "none"]
Task == [do : {"visit", "list", "skip", "end"}, path : Entries]

VARIABLES
  walk,       \* what scan_path has still to do, innermost first
  item,       \* the item being sent
  scanner,    \* "unborn", "walking", "complete" once the totals say so, "gone"
  totals,     \* ScanTotals: files and cost
  channel,    \* items sent and not yet received
  receiving,  \* the channel's receiver is alive
  sent        \* every item ever queued

scanVars == <<walk, item, scanner, totals, channel, receiving, sent>>

Do(what, path) == [do |-> what, path |-> path]
Of(what, path) == [kind |-> what, path |-> path]

-----------------------------------------------------------------------------
(* What a directory yields, children_from_entries and its callers *)

Times(n, x) == [i \in 1..n |-> x]
Visits(paths) == [i \in 1..Len(paths) |-> Do("visit", paths[i])]

\* Mutant: the end of a directory that cannot be listed is not sent.
ListedOnlyIfReadable(dir) ==
  IF dir \in Listable
  THEN Times(Unlisted[dir], Do("skip", dir)) \o Visits(Children[dir]) \o <<Do("end", dir)>>
  ELSE <<Do("skip", dir)>>

\* Entries that could not be produced come before the readable children.
Listed(dir) ==
  (IF dir \in Listable
   THEN Times(Unlisted[dir], Do("skip", dir)) \o Visits(Children[dir])
   ELSE <<Do("skip", dir)>>)
  \o <<Do("end", dir)>>

\* collect_items: the same walk without a thread.
InlineItems[path \in Entries] ==
  CASE Kind[path] \in {"special", "unreadable"} -> <<Of("Skipped", path)>>
    [] Kind[path] = "file" -> <<Of("File", path)>>
    [] OTHER ->
         <<Of("Dir", path)>>
         \o (IF path \in Listable
             THEN Times(Unlisted[path], Of("Skipped", path))
                  \o FlattenSeq([i \in DOMAIN Children[path] |-> InlineItems[Children[path][i]]])
             ELSE <<Of("Skipped", path)>>)
         \o <<Of("DirEnd", path)>>

\* cost_of
CostOf(path) == SizeOf[path] + (IF SizeOf[path] <= SegmentLimit THEN PerItemOverhead ELSE 0)

-----------------------------------------------------------------------------
(* The thread *)

ScanInit ==
  /\ walk = Visits(Roots) /\ item = NoItem
  /\ totals = [files |-> 0, cost |-> 0]
  /\ channel = <<>> /\ receiving = TRUE /\ sent = <<>>

Walking(what) ==
  /\ scanner = "walking" /\ item = NoItem
  /\ walk # <<>> /\ Head(walk).do = what

\* scan_path at a path that is not acquired: it is not counted.
ScanPassedOver ==
  /\ Walking("visit") /\ Kind[Head(walk).path] \in {"special", "unreadable"}
  /\ item' = Of("Skipped", Head(walk).path) /\ walk' = Tail(walk)
  /\ UNCHANGED <<scanner, totals, channel, receiving, sent>>

\* At a file the totals are raised before the item is sent.
ScanFile ==
  /\ Walking("visit") /\ Kind[Head(walk).path] = "file"
  /\ totals' = [files |-> totals.files + 1, cost |-> totals.cost + CostOf(Head(walk).path)]
  /\ item' = Of("File", Head(walk).path) /\ walk' = Tail(walk)
  /\ UNCHANGED <<scanner, channel, receiving, sent>>

ScanDir ==
  /\ Walking("visit") /\ Kind[Head(walk).path] = "dir"
  /\ item' = Of("Dir", Head(walk).path)
  /\ walk' = <<Do("list", Head(walk).path)>> \o Tail(walk)
  /\ UNCHANGED <<scanner, totals, channel, receiving, sent>>

\* read_dir, once the directory's own item is sent.
ScanList ==
  /\ Walking("list")
  /\ walk' = Listed(Head(walk).path) \o Tail(walk)
  /\ UNCHANGED <<item, scanner, totals, channel, receiving, sent>>

ScanSkip ==
  /\ Walking("skip")
  /\ item' = Of("Skipped", Head(walk).path) /\ walk' = Tail(walk)
  /\ UNCHANGED <<scanner, totals, channel, receiving, sent>>

ScanEnd ==
  /\ Walking("end")
  /\ item' = Of("DirEnd", Head(walk).path) /\ walk' = Tail(walk)
  /\ UNCHANGED <<scanner, totals, channel, receiving, sent>>

\* Mutant: a send never waits.
ScanSendAtOnce ==
  /\ scanner = "walking" /\ item # NoItem /\ receiving
  /\ channel' = Append(channel, item) /\ sent' = Append(sent, item) /\ item' = NoItem
  /\ UNCHANGED <<walk, scanner, totals, receiving>>

\* A send waits for room in the channel.
ScanSend ==
  /\ scanner = "walking" /\ item # NoItem /\ receiving /\ Len(channel) < QueueCapacity
  /\ channel' = Append(channel, item) /\ sent' = Append(sent, item) /\ item' = NoItem
  /\ UNCHANGED <<walk, scanner, totals, receiving>>

\* A send fails once the receiver is gone, and every level of the walk returns.
ScanHungUp ==
  /\ scanner = "walking" /\ item # NoItem /\ ~receiving
  /\ item' = NoItem /\ walk' = <<>>
  /\ UNCHANGED <<scanner, totals, channel, receiving, sent>>

ScanComplete ==
  /\ scanner = "walking" /\ item = NoItem /\ walk = <<>>
  /\ scanner' = "complete"
  /\ UNCHANGED <<walk, item, totals, channel, receiving, sent>>

\* The thread ends and takes the sending half of the channel with it.
ScanGone ==
  /\ scanner = "complete"
  /\ scanner' = "gone"
  /\ UNCHANGED <<walk, item, totals, channel, receiving, sent>>

ScanStep ==
  \/ ScanPassedOver \/ ScanFile \/ ScanDir \/ ScanList \/ ScanSkip \/ ScanEnd
  \/ ScanSend \/ ScanHungUp \/ ScanComplete \/ ScanGone

-----------------------------------------------------------------------------
(* Properties *)

ScanTypeOK ==
  /\ walk \in Seq(Task)
  /\ item \in Item \cup {NoItem}
  /\ scanner \in {"unborn", "walking", "complete", "gone"}
  /\ totals \in [files : Nat, cost : Nat]
  /\ channel \in Seq(Item) /\ Len(channel) <= QueueCapacity
  /\ receiving \in BOOLEAN
  /\ sent \in Seq(Item)

(* "They must emit the same items in the same order for the same tree": what *)
(* the thread has sent is the beginning of the inline walk of the roots, and *)
(* all of it once the walk is complete with someone still receiving.         *)
WalkItems == FlattenSeq([i \in DOMAIN Roots |-> InlineItems[Roots[i]]])
BothWalksAgree ==
  /\ IsPrefix(sent, WalkItems)
  /\ scanner \in {"complete", "gone"} /\ receiving => sent = WalkItems

=============================================================================
