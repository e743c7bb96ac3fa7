-------------------------------- MODULE MCRelay --------------------------------
(***************************************************************************)
(* Model-checking instance: two configurations, so that one can overlap    *)
(* with a capture of the other, and access units of two datagrams.         *)
(***************************************************************************)
EXTENDS Relay
================================================================================
