------------------------ MODULE MCCaptureController ------------------------
(* A second capture shows what the first one left. *)
EXTENDS CaptureController
============================================================================
