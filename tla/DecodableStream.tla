-------------------------- MODULE DecodableStream --------------------------
(***************************************************************************)
(* What the extension promises of the pictures it puts on a connection: a  *)
(* decoder that starts empty with each connection can decode every one of  *)
(* them, and a stream that had to drop pictures becomes decodable again.   *)
(***************************************************************************)
EXTENDS Naturals

VARIABLES
  open,    \* the connection is open
  chain,   \* the encoder's latest picture was sent on it
  parity   \* number of pictures sent, modulo 2

vars == <<open, chain, parity>>

Init == open = FALSE /\ chain = FALSE /\ parity = 0

Open == ~open /\ open' = TRUE /\ chain' = FALSE /\ UNCHANGED parity

Close == open /\ open' = FALSE /\ chain' = FALSE /\ UNCHANGED parity

SendKey == open /\ chain' = TRUE /\ parity' = 1 - parity /\ UNCHANGED open

\* A picture that refers to the one before it is sent only if that one was.
SendDelta == open /\ chain /\ parity' = 1 - parity /\ UNCHANGED <<open, chain>>

Drop == chain' = FALSE /\ UNCHANGED <<open, parity>>

Next == Open \/ Close \/ SendKey \/ SendDelta \/ Drop

Spec == Init /\ [][Next]_vars

\* A dropped picture is made good by a keyframe, unless the connection goes.
Repaired == []<>(chain \/ ~open)
=============================================================================
