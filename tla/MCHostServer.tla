--------------------------- MODULE MCHostServer ---------------------------
(***************************************************************************)
(* Instances of HostServer for TLC.                                        *)
(***************************************************************************)
EXTENDS HostServer, TLC

CONSTANTS c1, c2

TwoClients == {c1, c2}
=============================================================================
