--------------------------- MODULE BevyPipelineMC ---------------------------
(***************************************************************************)
(* The pipeline for TLC.  Two-chunk bevies of two-byte chunks and a        *)
(* declared size that leaves the last bevy one chunk of one byte, so a     *)
(* spare chunk, a truncation and a short chunk all have room to happen.    *)
(***************************************************************************)
EXTENDS BevyPipeline

CONSTANTS w1, w2, w3, w4
OneWorker == {w1}
TwoWorkers == {w1, w2}
FourWorkers == {w1, w2, w3, w4}

LastBevy == BevyCount - 1
With(b, bevy) == [SoundStream EXCEPT ![b] = bevy]

Missing == [readable |-> FALSE, chunks |-> <<>>]
Torn == [readable |-> TRUE, chunks |-> <<ChunkSize, Undecodable>>]
Short == [readable |-> TRUE, chunks |-> <<ChunkSize - 1, ChunkSize>>]
Sparse == [readable |-> TRUE, chunks |-> <<ChunkSize>>]
Overlong == [readable |-> TRUE, chunks |-> <<ChunkSize, ChunkSize, ChunkSize>>]
BadSpare == [readable |-> TRUE, chunks |-> <<ChunkSize, Undecodable>>]
GoodSpare == [readable |-> TRUE, chunks |-> <<ChunkSize - 1, ChunkSize>>]

Sound == {SoundStream}
TornFirst == {With(0, Torn)}
Damaged == {With(1, Torn), With(LastBevy, GoodSpare)}
LiveStreams ==
  {With(LastBevy, GoodSpare), With(LastBevy, BadSpare), With(0, Torn), With(0, Missing), With(0, Sparse),
   With(0, Short)}

NoHandleFault == {}
LastHandleFault == {Ceiling - 1}
MCRates == {1, 2}
RisingRates == {1, 2, 3}

(***************************************************************************)
(* One schedule among those the pipeline allows, for the run that shows a  *)
(* shutdown blocked at the plan a budget of six gives: the governor ramps  *)
(* up to five readers while reader 0 alone has read, the others are then   *)
(* all held in a slow read or just before their send, and the workers look *)
(* at the queue before any of them comes back.                             *)
(***************************************************************************)
SlowReaders ==
  /\ admitted < Ceiling => \A r \in Readers \ {0} : reader[r] = "parked"
  /\ \A r \in Readers \ {0} : reader[r] # "parked" => claimed[r - 1] # 0
  /\ consumer # "joining" /\ (\E w \in Workers : worker[w] # "polling")
       => \A r \in Readers : reader[r] = "sending"
  /\ \A w \in Workers \ {w1} : worker[w] # "polling" => FailureSet
  /\ consumer # "publish" => \A w \in Workers : worker[w] = "done"
=============================================================================
