------------------------- MODULE MCMdnsResponder -------------------------
(***************************************************************************)
(* The instance of MdnsResponder for TLC: two tablets and the datagrams of *)
(* a Windows client and of a stranger.                                     *)
(***************************************************************************)
EXTENDS MdnsResponder, TLC

TwoHosts == {1, 2}

\* Answered by tablet 1; tablet 2 is told that its answer is known.
WindowsQuery == [Datagram([BuildAQuery EXCEPT !.answers = <<ARecord(2, Fresh)>>])
                   EXCEPT !.hop = 1]
StrayReply   == [Datagram(BuildARecord(3, Fresh)) EXCEPT !.hop = 1]

Strangers == {WindowsQuery, StrayReply}
=============================================================================
