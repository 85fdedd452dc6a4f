---------------------------- MODULE SplitSource ----------------------------
(***************************************************************************)
(* A source that is a set of numbered files, name.001, name.002, ...: how  *)
(* run_acquire resolves the one the examiner names (src/src/main.rs,       *)
(* ImageSource::discover_multi_part in src/src/write/acquire.rs), and the  *)
(* ConcatReader that reads what was found as one stream.                   *)
(***************************************************************************)
EXTENDS Naturals, Sequences, FiniteSets
Seqs == INSTANCE SequencesExt

CONSTANTS
  Folders,   \* the folders a run chooses from: file numbers to lengths
  FileBase   \* units of files are numbered from here on

Longest == 9

\* A folder numbers finitely many files, none longer than a unit's number tells.
ASSUME SplitAssumption ==
  /\ FileBase \in Nat
  /\ \A f \in Folders :
       /\ DOMAIN f \subseteq Nat /\ IsFiniteSet(DOMAIN f)
       /\ \A p \in DOMAIN f : f[p] \in 0..Longest

VARIABLES
  folder,    \* the numbered files there are, each with its length
  named,     \* the number of the file the examiner names
  resolved,  \* "no", "yes" or "refused"
  found,     \* ImageSource::parts, as numbers
  index,     \* how many of them the reader has opened
  offset,    \* units read of the last one opened
  current    \* whether the reader has a file open

splitVars == <<folder, named, resolved, found, index, offset, current>>

Present == DOMAIN folder
\* Unit i of file p, a value no other file has.
FileUnit(p, i) == FileBase + p * (Longest + 1) + i
FileUnits(p) == [i \in 1..folder[p] |-> FileUnit(p, i)]
FoundUnits == Seqs!FoldLeft(LAMBDA units, p : units \o FileUnits(p), <<>>, found)
\* ImageSource::total_size
FoundSize == Seqs!FoldLeft(LAMBDA size, p : size + folder[p], 0, found)

SplitInit ==
  /\ folder \in Folders /\ named \in Present
  /\ resolved = "no" /\ found = <<>>
  /\ index = 0 /\ offset = 0 /\ current = FALSE

\* The first number from the one named on that no file has.
Break == CHOOSE n \in named..(named + Cardinality(Present)) :
           n \notin Present /\ named..(n - 1) \subseteq Present

\* preceding_part finds the file before it, or discover_multi_part a file one
\* number after the break.
RefuseSet ==
  /\ resolved = "no"
  /\ named - 1 \in Present \/ Break + 1 \in Present
  /\ resolved' = "refused"
  /\ UNCHANGED <<folder, named, found, index, offset, current>>

\* Mutant: the file at the break is taken as well when another follows it.
ResolveSetAcross ==
  /\ resolved = "no"
  /\ named - 1 \notin Present
  /\ resolved' = "yes"
  /\ found' = Seqs!SetToSortSeq({n \in Present : n >= named}, LAMBDA a, b : a < b)
  /\ index' = 1 /\ current' = TRUE
  /\ UNCHANGED <<folder, named, offset>>

\* Every file up to the break, and ConcatReader::open opens the first.
ResolveSet ==
  /\ resolved = "no"
  /\ named - 1 \notin Present /\ Break + 1 \notin Present
  /\ resolved' = "yes"
  /\ found' = [i \in 1..(Break - named) |-> named + i - 1]
  /\ index' = 1 /\ current' = TRUE
  /\ UNCHANGED <<folder, named, offset>>

\* One read of the file that is open; BufReader returns what it has at hand.
ReadFile(length) ==
  /\ current /\ offset < folder[found[index]]
  /\ length <= folder[found[index]] - offset
  /\ offset' = offset + length
  /\ UNCHANGED <<folder, named, resolved, found, index, current>>
Read(length) ==
  [i \in 1..length |-> FileUnit(found[index], offset + i)]

\* advance: the file is spent, the next is opened, within the same read.
Advance ==
  /\ current /\ offset = folder[found[index]]
  /\ IF index < Len(found) THEN index' = index + 1 /\ UNCHANGED current
                           ELSE current' = FALSE /\ UNCHANGED index
  /\ offset' = 0
  /\ UNCHANGED <<folder, named, resolved, found>>

SplitTypeOK ==
  /\ folder \in Folders /\ named \in Present
  /\ resolved \in {"no", "yes", "refused"}
  /\ found \in Seq(Present)
  /\ index \in 0..Len(found) /\ offset \in 0..Longest /\ current \in BOOLEAN
=============================================================================
