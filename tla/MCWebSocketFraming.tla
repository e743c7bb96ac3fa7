-------------------------- MODULE MCWebSocketFraming --------------------------
(***************************************************************************)
(* Model-checking instance: any number of connections, so that what one    *)
(* leaves in the decoder could meet the next; messages of up to four units *)
(* in up to four frames, one of which may come before the session begins;  *)
(* a receive returns up to three units.                                    *)
(***************************************************************************)
EXTENDS WebSocketFraming
===============================================================================
