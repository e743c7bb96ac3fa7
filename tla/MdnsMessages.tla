--------------------------- MODULE MdnsMessages ---------------------------
(***************************************************************************)
(* mDNS packets as the Receiver reads and builds them (mdns_protocol.cpp). *)
(* A packet is its header flags and its sections; a name is reduced to     *)
(* whether it is kHostname, an IPv4 address to a number that orders like   *)
(* its bytes, a TTL to the three values the code tells apart.              *)
(***************************************************************************)
EXTENDS Integers, Sequences, SequencesExt

CONSTANT MaxRecords      \* kMaximumRecords
ASSUME MaxRecordsAssumption == MaxRecords \in Nat \ {0}

\* kRecordTtlSeconds / 2 separates a fresh known answer from a stale one.
Goodbye == 0
Stale   == 1
Fresh   == 2

ARecord(a, ttl) == [ours |-> TRUE, type |-> "A", ttl |-> ttl, addr |-> a]
OurQuestion(t)  == [ours |-> TRUE, type |-> t]

Packet(response, questions, answers, authority) ==
  [response |-> response, refused |-> FALSE, questions |-> questions,
   answers |-> answers, authority |-> authority, additional |-> <<>>]

BuildAQuery          == Packet(FALSE, <<OurQuestion("A")>>, <<>>, <<>>)
BuildAProbe(a)       == Packet(FALSE, <<OurQuestion("ANY")>>, <<>>, <<ARecord(a, Fresh)>>)
BuildARecord(a, ttl) == Packet(TRUE, <<>>, <<ARecord(a, ttl)>>, <<>>)

Records(p) == p.answers \o p.authority \o p.additional

\* "refused" stands for a non-zero opcode or the truncation bit.
ClassifyMessage(p) ==
  CASE p.refused -> "invalid"
    [] ~p.refused /\ p.response -> IF Records(p) = <<>> THEN "invalid" ELSE "response"
    [] OTHER -> IF Len(p.questions) # 1 THEN "invalid"
                ELSE IF p.authority = <<>> THEN "query" ELSE "probe"

CompareAddresses(l, r) == IF l < r THEN -1 ELSE IF l > r THEN 1 ELSE 0

IsOurA(r) == r.ours /\ r.type = "A"

\* The addresses a response, a known-answer query or a probe claims for our
\* name. Any other shape, and more records than are read, yields none.
ExtractARecords(p) ==
  LET knownAnswerQuery == ~p.response /\ p.answers # <<>> /\ p.authority = <<>>
                                      /\ p.additional = <<>>
      probe == ~p.response /\ p.answers = <<>> /\ p.authority # <<>> /\ p.additional = <<>>
      readable == /\ ~p.refused
                  /\ p.response \/ knownAnswerQuery \/ probe
                  /\ Len(Records(p)) \in 1..MaxRecords
  IN  IF readable
      THEN {r.addr : r \in {x \in ToSet(Records(p)) : IsOurA(x) /\ x.ttl > Goodbye}}
      ELSE {}

\* Whether BuildAResponse returns a packet (always BuildARecord(a, Fresh)).
Answers(p, a) ==
  /\ ~p.response /\ ~p.refused
  /\ Len(p.questions) = 1
  /\ Len(p.answers) <= MaxRecords /\ p.authority = <<>> /\ p.additional = <<>>
  /\ p.questions[1].ours /\ p.questions[1].type \in {"A", "ANY"}
  /\ \A i \in DOMAIN p.answers : IsOurA(p.answers[i])
  /\ \A i \in DOMAIN p.answers : ~(p.answers[i].addr = a /\ p.answers[i].ttl = Fresh)

=============================================================================
