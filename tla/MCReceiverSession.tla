------------------------- MODULE MCReceiverSession -------------------------
(***************************************************************************)
(* Instances of ReceiverSession for TLC.                                   *)
(***************************************************************************)
EXTENDS ReceiverSession, TLC

CONSTANTS s1, s2, k1, k2

OneSender == {s1}
TwoSenders == {s1, s2}
OneContract == {k1}
TwoContracts == {k1, k2}

Interchangeable == Permutations(TwoSenders) \cup Permutations(TwoContracts)
SendersInterchangeable == Permutations(TwoSenders)
=============================================================================
