----------------------------- MODULE AcquireMC ------------------------------
(***************************************************************************)
(* The two acquisitions, one at a time: they share no state, and each      *)
(* starts from its own states while the other stands still.                *)
(*   "image": a device with every medium of a few sectors, or every folder *)
(* of a few short files, some empty and some missing.                      *)
(*   "logical": a directory "d" with a file, a directory "e" whose listing *)
(* yields a file and an entry that cannot be produced, a special file and  *)
(* a directory that cannot be listed, and a file "f" of two bevies beside  *)
(* it.  The three files share chunks, one of them only once a short chunk  *)
(* is padded; each may be found shorter or longer than the walk said.      *)
(***************************************************************************)
EXTENDS ImageAcquire, LogicalAcquire

EveryKind == {"device", "files"}

AskedFor == 1..ChunkSize

EveryMedium == {m \in AnyMedium : m.bad \cap m.marginal = {}}
\* Sectors that end a block when every request stands below the block size.
BlockEnds == {s \in Sectors : (s + 1) % ReadSize = 0}
SteadyBlockEnds == {m \in EveryMedium : m.marginal \cap BlockEnds = {}}

Numbers == 1..4
\* One folder holds more than the parts allowed, for the preflight to refuse.
EveryFolder == UNION {[s -> 0..2] : s \in SUBSET Numbers \ {{}}} \cup {[p \in Numbers |-> 3]}

AllUnits == Contents \cup {FileUnit(p, i) : p \in Numbers, i \in 1..3}
UnitBase == Total + 1

-----------------------------------------------------------------------------
Paths == {"d", "a", "e", "b", "l", "u", "f"}
Tree == [p \in Paths |->
  CASE p = "d" -> <<"a", "e", "l", "u">>
    [] p = "e" -> <<"b">>
    [] OTHER -> <<>>]
TreeKinds == [p \in Paths |->
  CASE p \in {"d", "e", "u"} -> "dir" [] p = "l" -> "special" [] OTHER -> "file"]
Missing == [p \in Paths |-> IF p = "e" THEN 1 ELSE 0]
Readable == {"d", "e"}
Sizes == [p \in Paths |-> CASE p = "a" -> 1 [] p = "b" -> 2 [] p = "f" -> 4 [] OTHER -> 0]
Found == [p \in Paths |->
  CASE p = "a" -> {<<1>>, <<>>}
    [] p = "b" -> {<<1, 0>>, <<0, 0, 1>>}
    [] p = "f" -> {<<1, 1, 1, 0>>, <<0, 1, 1>>}
    [] OTHER -> {}]
Named2 == <<"d", "f">>
OfA == {"a"}
OfB == {"b"}
AllModes == {"scanned", "prescanned", "inline"}
AllForms == {"legacy", "v21", "dedupe"}

-----------------------------------------------------------------------------
VARIABLE job  \* the acquisition that runs

Init ==
  /\ job \in {"image", "logical"}
  /\ IF job = "logical" THEN kind = "device" /\ medium = CHOOSE m \in Media : TRUE
     ELSE mode = "inline" /\ form = "legacy"
  /\ ImageAcquireInit /\ LogicalInit

Image(A) == job = "image" /\ A /\ UNCHANGED <<job, logicalVars>>
Logical(A) == job = "logical" /\ A /\ UNCHANGED <<job, allVars>>

\* The threads of each are scheduled, as ImageAcquireSpec and LogicalSpec say.
Spec ==
  /\ Init /\ [][Image(ImageAcquireNext) \/ Logical(LogicalNext)]_<<job, allVars, logicalVars>>
  /\ WF_<<job, allVars>>(Image(Acquisition)) /\ WF_<<job, allVars>>(Image(Digest))
  /\ WF_<<job, logicalVars>>(Logical(Scan)) /\ WF_<<job, logicalVars>>(Logical(Acquire))

(* Each acquisition comes to an end, whatever of the source cannot be read   *)
(* and whatever fails: no read of a device is retried for ever, a reader and *)
(* its digests' threads do not wait on one another over a full channel, nor  *)
(* an acquisition and its scanner over a queue.                              *)
AcquisitionsEnd ==
  /\ job = "image" => AcquisitionComesToAnEnd
  /\ job = "logical" => AcquisitionEnds
=============================================================================
