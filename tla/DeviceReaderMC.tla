---------------------------- MODULE DeviceReaderMC ----------------------------
(***************************************************************************)
(* A device of a few sectors for TLC, every medium of it: any sectors bad, *)
(* others marginal, and an end anywhere.  Requests stand below and at the  *)
(* block size, as chunk sizes do.                                          *)
(***************************************************************************)
EXTENDS DeviceReader

BelowAndAt == {2, 3}

EveryMedium == {m \in AnyMedium : m.bad \cap m.marginal = {}}
=============================================================================
