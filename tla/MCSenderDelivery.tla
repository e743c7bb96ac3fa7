-------------------------- MODULE MCSenderDelivery --------------------------
(***************************************************************************)
(* Instances of SenderDelivery for TLC.                                    *)
(***************************************************************************)
EXTENDS SenderDelivery, TLC

CONSTANTS k1, k2

OneContract == {k1}
TwoContracts == {k1, k2}
=============================================================================
