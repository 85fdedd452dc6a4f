----------------------------- MODULE StreamRead -----------------------------
(***************************************************************************)
(* What reading one whole stream promises its caller, whichever reader     *)
(* serves it (read_stream in src/src/parallel.rs picks one): the sink      *)
(* receives a growing prefix of the bytes a serial read would deliver, and *)
(* success is reported exactly when the stream is complete and sound.  An  *)
(* error may also come from the sink, from a file handle, or from an       *)
(* undecodable chunk past the end that only the parallel reader opens.     *)
(***************************************************************************)
EXTENDS StreamContents

CONSTANT
  FaultsPossible  \* whether the sink or a file handle may fail

VARIABLES
  stored,     \* the stream's contents, fixed for the read
  delivered,  \* bytes handed to the sink
  outcome     \* "reading" until the read returns "ok" or "error"

readVars == <<stored, delivered, outcome>>

ReadInit ==
  /\ stored \in [BevyNumbers -> Bevies]
  /\ delivered = 0
  /\ outcome = "reading"

DeliverMore ==
  /\ outcome = "reading"
  /\ delivered' \in (delivered + 1)..SerialBytes(stored)
  /\ UNCHANGED <<stored, outcome>>

ReturnOk ==
  /\ outcome = "reading"
  /\ delivered = Size
  /\ SerialOutcome(stored) = "ok"
  /\ outcome' = "ok"
  /\ UNCHANGED <<stored, delivered>>

ReturnError ==
  /\ outcome = "reading"
  /\ FaultsPossible \/ SerialOutcome(stored) # "ok" \/ HasBadSpare(stored)
  /\ outcome' = "error"
  /\ UNCHANGED <<stored, delivered>>

ReadNext == DeliverMore \/ ReturnOk \/ ReturnError

\* stored is constrained by the run that reads it, so Init's infinite set of
\* streams is never enumerated.
ReadSpec == ReadInit /\ [][ReadNext]_readVars
=============================================================================
