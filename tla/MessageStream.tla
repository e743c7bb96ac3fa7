---------------------------- MODULE MessageStream ----------------------------
(***************************************************************************)
(* What a WebSocket connection promises to the two programs that use it:   *)
(* the receiving one handles the messages that the sending one completed,  *)
(* each once and whole, in the order of their completion.  A connection    *)
(* may end at any time, and the next one starts with nothing of the last.  *)
(***************************************************************************)
EXTENDS SequencesExt

VARIABLES
  owed,    \* messages the sender completed, not yet handled
  handled  \* the message handled last

CONSTANT None  \* no message

Init ==
  /\ owed = <<>>
  /\ handled = None

\* The sender completes one more message, any.
Complete ==
  /\ owed' # <<>>
  /\ Front(owed') = owed
  /\ UNCHANGED handled

Handle ==
  /\ owed # <<>>
  /\ handled' = Head(owed)
  /\ owed' = Tail(owed)

Reconnect ==
  /\ owed' = <<>>
  /\ handled' = None

Next ==
  \/ Complete
  \/ Handle
  \/ Reconnect

Spec == Init /\ [][Next]_<<owed, handled>>
==============================================================================
