---------------------------- MODULE ImageAcquire ----------------------------
(***************************************************************************)
(* A multi-part acquisition, run_acquire_split in src/src/main.rs: the     *)
(* writer of MultiPartWriter reading a device through DeviceReader or a    *)
(* set of files through SplitSource.  A read of the source is a call: the  *)
(* source steps only while the writer asks, and the step that returns is a *)
(* step of both.                                                           *)
(***************************************************************************)
EXTENDS DeviceReader, SplitSource, MultiPartWriter

VARIABLE kind    \* "device" or "files", what the command line names
CONSTANT Kinds   \* the kinds a run chooses from

\* What either source holds are units of a stream.
ASSUME ImageAcquireAssumption ==
  /\ Kinds \subseteq {"device", "files"}
  /\ Contents \subseteq Unit
  /\ \A f \in Folders : \A p \in DOMAIN f : \A i \in 1..f[p] : FileUnit(p, i) \in Unit

allVars == <<vars, splitVars, writerVars, kind>>

\* The source the command line does not name is held fixed.
ImageAcquireInit ==
  /\ kind \in Kinds
  /\ IF kind = "device"
     THEN folder = (CHOOSE f \in Folders : TRUE) /\ named = CHOOSE p \in Present : TRUE
     ELSE medium = CHOOSE m \in Media : TRUE
  /\ DeviceInit /\ SplitInit /\ WriterInit

\* A source's step, with what it returns to the writer if it returns.
Returns(units, ended) ==
  IF ended THEN AnswerEnd
  ELSE IF units # <<>> THEN Answer(units)
  ELSE UNCHANGED writerVars

ReadDevice ==
  /\ kind = "device" /\ Asking
  /\ \/ ServeBuffered(Wanted) \/ BeginBlock(Wanted) \/ EndOfDevice
     \/ BlockStep \/ SectorStep
  /\ Returns(SubSeq(image', Len(image) + 1, Len(image')), pc' = "ended")
  /\ UNCHANGED <<splitVars, kind>>

ReadFiles ==
  /\ kind = "files" /\ Asking
  /\ \/ \E n \in 1..Wanted : ReadFile(n) /\ Returns(Read(n), FALSE)
     \/ Advance /\ Returns(<<>>, ~current')
  /\ UNCHANGED <<vars, kind>>

Resolve ==
  /\ kind = "files" /\ at = "preflight"
  /\ \/ ResolveSet /\ UNCHANGED writerVars
     \/ /\ RefuseSet /\ Stop("refused")
        /\ UNCHANGED <<given, chunk, fed, bevy, partVars, exhausted, hashVars>>
  /\ UNCHANGED <<vars, kind>>

Declared == IF kind = "device" THEN Total ELSE FoundSize
Begin ==
  /\ kind = "files" => resolved = "yes"
  /\ Preflight(Declared)
  /\ UNCHANGED <<vars, splitVars, kind>>

Write == WriterStep /\ UNCHANGED <<vars, splitVars, kind>>
Digest == WorkerStep /\ UNCHANGED <<vars, splitVars, kind>>
\* A device's reads do not fail: it records what it could not read.
Abort ==
  /\ Fails
  /\ kind = "device" => ~Asking
  /\ UNCHANGED <<vars, splitVars, kind>>

Acquisition == Resolve \/ Begin \/ ReadDevice \/ ReadFiles \/ Write
ImageAcquireNext == Acquisition \/ Abort \/ Digest

\* The acquiring thread and each digest's thread are scheduled.
ImageAcquireSpec ==
  /\ ImageAcquireInit /\ [][ImageAcquireNext]_allVars
  /\ WF_allVars(Acquisition) /\ WF_allVars(Digest)

-----------------------------------------------------------------------------
(* Properties *)

AcquireTypeOK == TypeOK /\ SplitTypeOK /\ WriterTypeOK /\ kind \in Kinds

\* What a reader finds through the map of the first part.
EntryAt(k) == CHOOSE i \in 1..Len(entries) :
  k \in (entries[i].mapped + 1)..(entries[i].mapped + entries[i].length)
ThroughMap == [k \in 1..total |-> parts[EntryAt(k)].stream[k - entries[EntryAt(k)].mapped]]

(* A set that is reported written reads back as the source: the device's     *)
(* whole length, as the reader returned it, or the files that were found,    *)
(* each whole, in the order of their numbers, with no number missing between *)
(* the named one and the last.                                               *)
WrittenSetIsTheSource ==
  outcome = "written" =>
    IF kind = "device"
    THEN ThroughMap = image /\ total = Total
    ELSE /\ ThroughMap = FoundUnits
         /\ \A i \in 1..Len(found) : found[i] = named + i - 1

(* An acquisition comes to an end, whatever of the device cannot be read:   *)
(* no read is retried for ever, and no full channel keeps the reader and a   *)
(* digest's thread waiting on one another.                                   *)
AcquisitionComesToAnEnd == <>(outcome # "running")
=============================================================================
