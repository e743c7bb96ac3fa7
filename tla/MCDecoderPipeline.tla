------------------------- MODULE MCDecoderPipeline -------------------------
(***************************************************************************)
(* Instances of DecoderPipeline for TLC.                                   *)
(***************************************************************************)
EXTENDS DecoderPipeline, TLC

CONSTANTS c1, w1, w2, k1, k2

OneComponent == {c1}
OneWindow == {w1}
TwoWindows == {w1, w2}
OneContract == {k1}
TwoContracts == {k1, k2}

\* Windows and contracts are only ever compared with each other.
Interchangeable == Permutations(TwoWindows) \cup Permutations(TwoContracts)
=============================================================================
