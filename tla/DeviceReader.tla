---------------------------- MODULE DeviceReader ----------------------------
(***************************************************************************)
(* DeviceReader in src/src/write/device.rs: a medium read in blocks, with  *)
(* a failed block narrowed to sectors, and a caller served from a buffer.  *)
(* Everything is counted in sectors; a sector's content is abstracted to   *)
(* the sector it came from, and the placeholder is one value of its own.   *)
(***************************************************************************)
EXTENDS Naturals, Sequences, FiniteSets

CONSTANTS
  Total,     \* the length the device reports
  ReadSize,  \* DeviceOptions::read_size, the block asked of the device
  Requests,  \* the lengths of the buffers the caller passes to read
  Media      \* the media a run chooses from

(***************************************************************************)
(* A medium returns a sector always, never (bad) or from one attempt to    *)
(* the next differently (marginal), and nothing from extent on.            *)
(***************************************************************************)
Sectors == 0..(Total - 1)
AnyMedium == [extent : 0..Total, bad : SUBSET Sectors, marginal : SUBSET Sectors]

ASSUME DeviceAssumption ==
  /\ Total \in Nat \ {0}
  /\ ReadSize \in Nat \ {0}
  /\ Requests \subseteq Nat \ {0} /\ Requests # {}
  /\ Media \subseteq AnyMedium

VARIABLES
  medium,      \* what the device holds, fixed for the run
  descriptor,  \* where the operating system has the descriptor
  position,    \* sectors read or given up, the reader's own count
  sought,      \* where the reader takes the descriptor to be
  unreadable,  \* the regions recorded, in order
  pc,          \* "ready", "block", "sector", "again" or "ended"
  request,     \* length of the caller's buffer
  want,        \* length of the block being filled
  block,       \* the sectors of it filled so far
  buffer,      \* sectors read but not yet handed to the caller
  image        \* sectors handed to the caller

callVars == <<request, want>>
vars == <<medium, descriptor, position, sought, unreadable, pc, callVars, block,
          buffer, image>>

\* u64::MAX: no position, so the next read seeks.
Unknown == Total + 1
\* fill_unreadable's content.
Placeholder == Total

Least(a, b) == IF a < b THEN a ELSE b

DeviceInit ==
  /\ medium \in Media
  /\ descriptor = 0 /\ position = 0 /\ sought = 0
  /\ unreadable = <<>>
  /\ pc = "ready" /\ request = 0 /\ want = 0
  /\ block = <<>> /\ buffer = <<>> /\ image = <<>>

-----------------------------------------------------------------------------
(***************************************************************************)
(* The operating system's side of read(2), looped until the buffer is full *)
(* as read_exact_here and read_at do.  A failed read leaves the descriptor *)
(* somewhere between where it started and the sector that failed.          *)
(***************************************************************************)
Span(from, length) == from..(from + length - 1)

Returned(from, length) ==
  /\ from + length <= medium.extent
  /\ Span(from, length) \cap medium.bad = {}
  /\ descriptor' = from + length

FailedAt(from, length) ==
  \E s \in Span(from, length) :
    /\ s < medium.extent
    /\ s \in medium.bad \cup medium.marginal
    /\ Span(from, s - from) \cap medium.bad = {}
    /\ descriptor' \in from..s

CameShort(from, length) ==
  /\ medium.extent < from + length
  /\ (from..(medium.extent - 1)) \cap medium.bad = {}
  /\ descriptor' = IF from < medium.extent THEN medium.extent ELSE from

-----------------------------------------------------------------------------
(* Read::read and read_tolerantly *)

\* What the caller gets of a filled block: all of it when its own buffer was
\* the block, the first part otherwise.
HandOver(filled) ==
  LET take == IF request >= ReadSize THEN Len(filled) ELSE Least(request, Len(filled))
  IN /\ image' = image \o SubSeq(filled, 1, take)
     /\ buffer' = SubSeq(filled, take + 1, Len(filled))

\* The buffer still holds sectors: no device read.
ServeBuffered(n) ==
  /\ pc = "ready" /\ buffer # <<>>
  /\ image' = image \o SubSeq(buffer, 1, Least(n, Len(buffer)))
  /\ buffer' = SubSeq(buffer, Least(n, Len(buffer)) + 1, Len(buffer))
  /\ UNCHANGED <<medium, descriptor, position, sought, unreadable, pc, callVars, block>>

\* Mutant: the last block is as long as any other.
BeginBlockUnclamped(n) ==
  /\ pc = "ready" /\ buffer = <<>> /\ position < Total
  /\ request' = n
  /\ want' = IF n >= ReadSize THEN n ELSE ReadSize
  /\ block' = <<>>
  /\ pc' = "block"
  /\ UNCHANGED <<medium, descriptor, position, sought, unreadable, buffer, image>>

\* A request as long as the block is read straight into the caller's buffer.
BeginBlock(n) ==
  /\ pc = "ready" /\ buffer = <<>> /\ position < Total
  /\ request' = n
  /\ want' = Least(IF n >= ReadSize THEN n ELSE ReadSize, Total - position)
  /\ block' = <<>>
  /\ pc' = "block"
  /\ UNCHANGED <<medium, descriptor, position, sought, unreadable, buffer, image>>

\* read returns zero and the writer takes it for the end.
EndOfDevice ==
  /\ pc = "ready" /\ buffer = <<>> /\ position >= Total
  /\ pc' = "ended"
  /\ UNCHANGED <<medium, descriptor, position, sought, unreadable, callVars, block, buffer, image>>

\* A sequential read does not seek.
From == IF position = sought THEN descriptor ELSE position

BlockRead ==
  /\ pc = "block"
  /\ Returned(From, want)
  /\ position' = position + want
  /\ sought' = position + want
  /\ HandOver([i \in 1..want |-> From + i - 1])
  /\ pc' = "ready"
  /\ UNCHANGED <<medium, unreadable, callVars, block>>

BlockShort ==
  /\ pc = "block"
  /\ CameShort(From, want)
  /\ sought' = position + (descriptor' - From)
  /\ pc' = "sector"
  /\ UNCHANGED <<medium, position, unreadable, callVars, block, buffer, image>>

BlockFails ==
  /\ pc = "block"
  /\ FailedAt(From, want)
  /\ sought' = Unknown
  /\ pc' = "sector"
  /\ UNCHANGED <<medium, position, unreadable, callVars, block, buffer, image>>

\* The retry loop: each sector is sought and read, and read again if it fails.
Offset == position + Len(block)
AtSector == pc = "sector" /\ Len(block) < want

LastRegion == Len(unreadable)

\* Mutant: every failure extends the last region.
NoteUnreadableAnywhere(s) ==
  unreadable' = IF unreadable # <<>>
                THEN [unreadable EXCEPT ![LastRegion].length = @ + 1]
                ELSE Append(unreadable, [start |-> s, length |-> 1])

\* note_unreadable: one sector more, merged with the region it adjoins.
NoteUnreadable(s) ==
  unreadable' =
    IF unreadable # <<>> /\ unreadable[LastRegion].start + unreadable[LastRegion].length = s
    THEN [unreadable EXCEPT ![LastRegion].length = @ + 1]
    ELSE Append(unreadable, [start |-> s, length |-> 1])

\* Mutant: what is left of a failed block is filled without being tried.
SectorUntried ==
  /\ AtSector
  /\ Returned(Offset, 1)
  /\ NoteUnreadable(Offset)
  /\ block' = Append(block, Placeholder)
  /\ UNCHANGED <<medium, position, sought, pc, callVars, buffer, image>>

SectorRead ==
  /\ AtSector
  /\ Returned(Offset, 1)
  /\ block' = Append(block, Offset)
  /\ UNCHANGED <<medium, position, sought, unreadable, pc, callVars, buffer, image>>

SectorFails ==
  /\ AtSector
  /\ FailedAt(Offset, 1) \/ CameShort(Offset, 1)
  /\ pc' = "again"
  /\ UNCHANGED <<medium, position, sought, unreadable, callVars, block, buffer, image>>

\* Mutant: a sector that reads at the second attempt is not noted.
SectorGivenUpQuietly ==
  /\ pc = "again"
  /\ \/ (FailedAt(Offset, 1) \/ CameShort(Offset, 1)) /\ NoteUnreadable(Offset)
     \/ Returned(Offset, 1) /\ UNCHANGED unreadable
  /\ block' = Append(block, Placeholder)
  /\ pc' = "sector"
  /\ UNCHANGED <<medium, position, sought, callVars, buffer, image>>

\* Mutant: a sector is tried until it reads.
SectorNeverGivenUp ==
  /\ pc = "again"
  /\ FailedAt(Offset, 1) \/ CameShort(Offset, 1) \/ Returned(Offset, 1)
  /\ pc' = "sector"
  /\ UNCHANGED <<medium, position, sought, unreadable, callVars, block, buffer, image>>

\* The second attempt only finds the reason: even one that returns the sector
\* is filled and noted, as a "short read".
SectorGivenUp ==
  /\ pc = "again"
  /\ FailedAt(Offset, 1) \/ CameShort(Offset, 1) \/ Returned(Offset, 1)
  /\ NoteUnreadable(Offset)
  /\ block' = Append(block, Placeholder)
  /\ pc' = "sector"
  /\ UNCHANGED <<medium, position, sought, callVars, buffer, image>>

\* The reader takes the descriptor to be past the block, wherever the last
\* attempt left it.
LeaveRetry ==
  /\ pc = "sector" /\ Len(block) = want
  /\ position' = position + want
  /\ sought' = position + want
  /\ HandOver(block)
  /\ block' = <<>>
  /\ pc' = "ready"
  /\ UNCHANGED <<medium, descriptor, unreadable, callVars>>

Ended == pc = "ended" /\ UNCHANGED vars

ReadCall == \E n \in Requests : ServeBuffered(n) \/ BeginBlock(n)
BlockStep == BlockRead \/ BlockShort \/ BlockFails
SectorStep == SectorRead \/ SectorFails \/ SectorGivenUp \/ LeaveRetry
Step == ReadCall \/ EndOfDevice \/ BlockStep \/ SectorStep

DeviceNext == Step \/ Ended

\* The acquisition reads until the reader returns zero, and read(2) returns.
DeviceSpec == DeviceInit /\ [][DeviceNext]_vars /\ WF_vars(Step)

-----------------------------------------------------------------------------
(* Properties *)

Contents == Sectors \cup {Placeholder}

TypeOK ==
  /\ medium \in Media
  /\ descriptor \in 0..Total /\ position \in 0..Total
  /\ sought \in 0..Unknown
  /\ unreadable \in Seq([start : Sectors, length : 1..Total])
  /\ pc \in {"ready", "block", "sector", "again", "ended"}
  /\ request \in Requests \cup {0} /\ want \in 0..Total
  /\ block \in Seq(Contents) /\ buffer \in Seq(Contents) /\ image \in Seq(Contents)

\* Everything produced so far, in order: sector s is at s + 1.
Produced == image \o buffer \o block
Region(r) == unreadable[r].start..(unreadable[r].start + unreadable[r].length - 1)
Recorded == UNION {Region(r) : r \in 1..LastRegion}

(* "Read errors are recorded, never fabricated": every sector of the image   *)
(* is the medium's sector at that offset, or the placeholder with its offset *)
(* in a recorded region.  A sector of another offset is neither.             *)
EverySectorIsItsOwnOrRecorded ==
  \A i \in 1..Len(image) :
    image[i] = i - 1 \/ (image[i] = Placeholder /\ i - 1 \in Recorded)

\* Sectors an attempt at them alone may fail on.
Refuses(s) == s \in medium.bad \cup medium.marginal \/ s >= medium.extent

(* The report names exactly the sectors filled, whatever the block they were *)
(* in: no region covers a sector that was returned, and a run of failures    *)
(* over several blocks is one region, so regions stand in order and apart.   *)
(* "One bad sector costs one sector, not the whole block" (device.rs:181):   *)
(* none is filled that the medium returns at every attempt.                  *)
ReportNamesExactlyTheFilled ==
  /\ Recorded = {i - 1 : i \in {j \in 1..Len(Produced) : Produced[j] = Placeholder}}
  /\ \A r \in 1..(LastRegion - 1) :
       unreadable[r].start + unreadable[r].length < unreadable[r + 1].start
  /\ \A s \in Recorded : Refuses(s)
=============================================================================
