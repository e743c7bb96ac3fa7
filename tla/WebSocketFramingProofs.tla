----------------------- MODULE WebSocketFramingProofs -----------------------
(***************************************************************************)
(* Proofs about WebSocketFraming, for messages, receives and queues of any *)
(* size: what the decoder makes of the stream, however it is cut, is what  *)
(* the peer put into it.                                                   *)
(***************************************************************************)
EXTENDS WebSocketFraming, WellFoundedInduction, TLAPS

Opcodes == Data \cup Control \cup {"continuation", "reserved"}

Frame ==
  [opcode : Opcodes, final : BOOLEAN, length : Nat, reserved : BOOLEAN,
   mark : Marks, id : 1..MaxFrames]

Fragment == [opcode : Data, parts : Seq(1..MaxFrames), size : 0..MaxMessage]

\* The decoder between two frames, as far as the messages go.
Decoder == [fragmented : Fragment \cup {None}, messages : Seq(PeerMessage), failed : {FALSE}]

\* The state of Push between two frames.
Progress ==
  [units : Nat, left : 0..MaxMessage + 1, taken : Nat, failed : BOOLEAN,
   fragmented : Fragment \cup {None}, messages : Seq(PeerMessage)]

\* Frames that the decoder refuses, in view of the fragment it holds.
Rejected(frame, fragment) ==
  \/ Illegal(frame)
  \/ frame.opcode \in Data /\ fragment # None
  \/ /\ frame.opcode = "continuation"
     /\ fragment = None \/ fragment.size + frame.length > MaxMessage
  \/ frame.opcode = "reserved"

-----------------------------------------------------------------------------
(* Naturals.                                                               *)

\* A set of naturals has a least element.
LEMMA Least ==
  ASSUME NEW S \in SUBSET Nat, S # {}
  PROVE  \E m \in S : \A n \in S : m <= n
<1> DEFINE less == OpToRel(<, Nat)
<1>1. IsWellFoundedOn(less, Nat)
  BY NatLessThanWellFounded
<1>2. \A x, y \in Nat : x < y => <<x, y>> \in less
  BY DEF OpToRel
<1> HIDE DEF less
<1>3. PICK m \in S : \A n \in S : ~(<<n, m>> \in less)
  BY <1>1, WFMin
<1>4. \A n \in S : n \in Nat
  OBVIOUS
<1>5. ASSUME NEW n \in S PROVE m <= n
  <2>1. ~(n < m)
    BY <1>2, <1>3, <1>4, Zenon
  <2> QED
    BY <1>4, <2>1
<1> QED
  BY <1>5

\* A set with 0 and the successors of its members has every natural: induction,
\* over a set.
LEMMA Induction ==
  ASSUME NEW S, 0 \in S, \A n \in Nat : n \in S => n + 1 \in S
  PROVE  \A n \in Nat : n \in S
<1> DEFINE T == Nat \ S
<1> SUFFICES ASSUME T # {} PROVE FALSE
  OBVIOUS
<1>1. PICK m \in T : \A n \in T : m <= n
  BY Least
<1>2. m # 0 /\ m - 1 \in Nat
  BY <1>1
<1>3. m - 1 \in S
  BY <1>1, <1>2
<1> QED
  BY <1>2, <1>3

-----------------------------------------------------------------------------
(* One frame.                                                              *)

\* What the assumptions say of each constant.
LEMMA Sizes ==
  /\ Upgrade \in Nat \ {0} /\ MaxMessage \in Nat \ {0} /\ Chunk \in Nat \ {0}
  /\ Capacity \in Nat \ {0} /\ MaxFrames \in Nat \ {0}
  /\ MaxControl \in 0..MaxMessage /\ MaxTelemetry \in Nat
  /\ \A length \in Lengths : length \in 0..MaxMessage
  /\ Chunk < MaxMessage
<1>1. \A x \in {Upgrade, MaxMessage, Chunk, Capacity, MaxFrames} : x \in Nat \ {0}
  BY SizesAssumption
<1> QED
  BY <1>1, SizesAssumption

\* None is no fragment.
LEMMA NoFragment == None \notin Fragment
<1> SUFFICES ASSUME None \in Fragment PROVE FALSE
  OBVIOUS
<1>1. None \in [opcode : Data, parts : Seq(Nat), size : Nat]
  BY Sizes DEF Fragment
<1> QED
  BY <1>1, NoneAssumption

\* The message that a frame begins, and that a continuation adds to.
LEMMA Begun ==
  ASSUME NEW opcode \in Data \cup Control, NEW frame \in 1..MaxFrames, NEW length \in 0..MaxMessage,
         NEW mark \in Marks
  PROVE  /\ opcode \in Data => Open(opcode, frame, length) \in Fragment
         /\ Finish(Open(opcode, frame, length), mark) \in PeerMessage
<1>1. <<frame>> \in Seq(1..MaxFrames)
  OBVIOUS
<1> QED
  BY <1>1 DEF Open, Finish, Fragment, PeerMessage

\* A continuation makes the message longer: by its length, and by one part.
LEMMA Grown ==
  ASSUME NEW message \in Fragment, NEW frame \in 1..MaxFrames, NEW length \in Nat,
         message.size + length <= MaxMessage, NEW mark \in Marks
  PROVE  /\ Extend(message, frame, length) \in Fragment
         /\ Finish(Extend(message, frame, length), mark) \in PeerMessage
<1>1. Append(message.parts, frame) \in Seq(1..MaxFrames)
  BY DEF Fragment
<1>2. message.size + length \in 0..MaxMessage
  BY Sizes DEF Fragment
<1> QED
  BY <1>1, <1>2 DEF Extend, Finish, Fragment, PeerMessage

\* The message so far, with a frame that is not rejected, and what the decoder
\* then holds.
Gathered(frame, fragment) ==
  IF frame.opcode = "continuation"
    THEN Extend(fragment, frame.id, frame.length)
    ELSE Open(frame.opcode, frame.id, frame.length)

NextFragment(frame, fragment) ==
  IF frame.opcode \in Control THEN fragment
    ELSE IF frame.final THEN None ELSE Gathered(frame, fragment)

NextMessages(frame, fragment, queue) ==
  IF frame.final THEN Append(queue, Finish(Gathered(frame, fragment), frame.mark)) ELSE queue

\* A message of the peer's stays what it is.
LEMMA GatheredMessage ==
  ASSUME NEW frame \in Frame, NEW fragment \in Fragment \cup {None},
         ~Rejected(frame, fragment)
  PROVE  /\ Finish(Gathered(frame, fragment), frame.mark) \in PeerMessage
         /\ frame.opcode \notin Control => Gathered(frame, fragment) \in Fragment
         /\ frame.opcode \in Control => frame.final
<1>1. /\ frame.opcode \in Opcodes /\ frame.opcode # "reserved" /\ frame.length \in 0..MaxMessage
      /\ frame.id \in 1..MaxFrames /\ frame.mark \in Marks
      /\ frame.opcode \in Control => frame.final
  BY Sizes DEF Frame, Rejected, Illegal
<1>2. CASE frame.opcode = "continuation"
  <2>1. fragment \in Fragment /\ fragment.size + frame.length <= MaxMessage
    BY <1>1, <1>2, Sizes DEF Rejected, Fragment
  <2> QED
    BY <1>1, <1>2, <2>1, Grown DEF Gathered, Control
<1>3. CASE frame.opcode \in Data \cup Control
  <2>1. frame.opcode # "continuation"
    BY <1>3 DEF Data, Control
  <2>2. frame.opcode \notin Control => frame.opcode \in Data
    BY <1>3
  <2> QED
    BY <1>1, <1>3, <2>1, <2>2, Begun, Zenon DEF Gathered
<1> QED
  BY <1>1, <1>2, <1>3 DEF Opcodes

\* Decoded in the terms of the operators above.
LEMMA DecodedFrame ==
  ASSUME NEW frame \in Frame, NEW at \in Decoder \cup Progress, ~Illegal(frame)
  PROVE  Decoded(frame, at) =
           IF Rejected(frame, at.fragmented)
             THEN [at EXCEPT !.failed = TRUE]
             ELSE [at EXCEPT !.fragmented = NextFragment(frame, at.fragmented),
                             !.messages = NextMessages(frame, at.fragmented, at.messages)]
<1>1. /\ frame.opcode \in Opcodes
      /\ frame.opcode \in Control => frame.final
  BY DEF Frame, Illegal
<1>2. /\ [at EXCEPT !.messages = Append(@, Finish(Open(frame.opcode, frame.id, frame.length), frame.mark)),
                    !.fragmented = @]
           = [at EXCEPT !.fragmented = at.fragmented,
                !.messages = Append(at.messages, Finish(Open(frame.opcode, frame.id, frame.length), frame.mark))]
      /\ \A m : [at EXCEPT !.fragmented = m]
                  = [at EXCEPT !.fragmented = m, !.messages = at.messages]
      /\ \A m : [at EXCEPT !.messages = Append(@, m), !.fragmented = None]
                  = [at EXCEPT !.fragmented = None, !.messages = Append(at.messages, m)]
  BY DEF Decoder, Progress
<1>3. CASE frame.opcode \in Data
  BY <1>2, <1>3 DEF Decoded, Rejected, Data, Control, NextFragment, NextMessages, Gathered
<1>4. CASE frame.opcode = "continuation"
  BY <1>2, <1>4 DEF Decoded, Rejected, Data, Control, NextFragment, NextMessages, Gathered
<1>5. CASE frame.opcode \in Control
  BY <1>1, <1>2, <1>5 DEF Decoded, Rejected, Data, Control, NextFragment, NextMessages, Gathered
<1>6. CASE frame.opcode = "reserved"
  BY <1>6 DEF Decoded, Rejected, Data, Control
<1> QED
  BY <1>1, <1>3, <1>4, <1>5, <1>6 DEF Opcodes

\* One sequence of messages begins with another.
Extends(s, t) == Len(s) <= Len(t) /\ \A i \in 1..Len(s) : t[i] = s[i]

\* Adding a message extends the others, and taking the first does not disturb it.
LEMMA Extended ==
  ASSUME NEW s \in Seq(PeerMessage), NEW m \in PeerMessage
  PROVE  /\ Append(s, m) \in Seq(PeerMessage) /\ Extends(s, Append(s, m))
         /\ s # <<>> => Tail(s) \in Seq(PeerMessage) /\ Append(Tail(s), m) = Tail(Append(s, m))
<1> HIDE DEF PeerMessage
<1> QED
  BY DEF Extends

\* A frame takes the decoder from one state to the next.
LEMMA NextDecoder ==
  ASSUME NEW frame \in Frame, NEW at \in Decoder, ~Rejected(frame, at.fragmented)
  PROVE  /\ Decoded(frame, at) =
              [fragmented |-> NextFragment(frame, at.fragmented),
               messages |-> NextMessages(frame, at.fragmented, at.messages), failed |-> FALSE]
         /\ Decoded(frame, at) \in Decoder
         /\ Extends(at.messages, Decoded(frame, at).messages)
<1> DEFINE f == NextFragment(frame, at.fragmented)
           m == NextMessages(frame, at.fragmented, at.messages)
<1>1. at.fragmented \in Fragment \cup {None} /\ at.messages \in Seq(PeerMessage)
  BY DEF Decoder
<1>2. /\ f \in Fragment \cup {None}
      /\ m \in Seq(PeerMessage) /\ Extends(at.messages, m)
  <2>1. frame.final \in BOOLEAN /\ Extends(at.messages, at.messages)
    BY <1>1 DEF Frame, Extends
  <2> QED
    BY <1>1, <2>1, GatheredMessage, Extended, Zenon DEF NextFragment, NextMessages
<1>3. Decoded(frame, at) = [at EXCEPT !.fragmented = f, !.messages = m]
  BY DecodedFrame DEF Rejected
<1> HIDE DEF f, m
<1>4. Decoded(frame, at) = [fragmented |-> f, messages |-> m, failed |-> FALSE]
  BY <1>3 DEF Decoder
<1>5. Decoded(frame, at) \in Decoder
  BY <1>2, <1>4 DEF Decoder
<1> QED
  BY <1>2, <1>4, <1>5 DEF f, m

\* What a turn of Push's loop does.
LEMMA NextProgress ==
  ASSUME NEW frame \in Frame, NEW at \in Progress
  PROVE  LET next == DecodeFrame(frame, at)
         IN  /\ next \in Progress
             /\ at.failed \/ at.units = 0 => next = at
             /\ ~at.failed /\ at.units > 0 =>
                  \/ next.failed /\ Rejected(frame, at.fragmented)
                  \/ /\ ~next.failed /\ next.units = 0
                     /\ next.taken = at.taken
                     /\ next.fragmented = at.fragmented /\ next.messages = at.messages
                  \/ /\ ~next.failed /\ ~Rejected(frame, at.fragmented)
                     /\ next.taken = at.taken + 1
                     /\ next.fragmented = NextFragment(frame, at.fragmented)
                     /\ next.messages = NextMessages(frame, at.fragmented, at.messages)
<1> DEFINE next == DecodeFrame(frame, at)
<1>1. /\ at.fragmented \in Fragment \cup {None} /\ at.messages \in Seq(PeerMessage)
      /\ at.units \in Nat /\ at.taken \in Nat /\ at.failed \in BOOLEAN
      /\ frame.length \in Nat /\ frame.final \in BOOLEAN
  BY DEF Progress, Frame
<1>2. CASE at.failed \/ at.units = 0
  BY <1>2 DEF DecodeFrame
<1>3. CASE ~at.failed /\ at.units > 0 /\ Illegal(frame)
  <2>1. next = [at EXCEPT !.failed = TRUE]
    BY <1>3 DEF DecodeFrame
  <2>2. next \in Progress /\ next.failed
    BY <2>1 DEF Progress
  <2> HIDE DEF next
  <2>3. Rejected(frame, at.fragmented)
    BY <1>3 DEF Rejected
  <2> QED
    BY <1>3, <2>2, <2>3 DEF next
<1>4. CASE ~at.failed /\ at.units > 0 /\ ~Illegal(frame) /\ at.units < Units(frame)
  <2>1. next = [at EXCEPT !.left = at.units, !.units = 0]
    BY <1>4 DEF DecodeFrame
  <2>2. at.units \in 0..MaxMessage + 1
    BY <1>1, <1>4, Sizes DEF Units, Illegal
  <2>3. /\ next \in Progress /\ ~next.failed /\ next.units = 0 /\ next.taken = at.taken
        /\ next.fragmented = at.fragmented /\ next.messages = at.messages
    <3>1. next = [units |-> 0, left |-> at.units, taken |-> at.taken, failed |-> at.failed,
                  fragmented |-> at.fragmented, messages |-> at.messages]
      BY <2>1 DEF Progress
    <3> HIDE DEF next
    <3> QED
      BY <1>1, <1>4, <2>2, <3>1 DEF Progress
  <2> HIDE DEF next
  <2> QED
    BY <1>4, <2>3 DEF next
<1>5. CASE ~at.failed /\ at.units > 0 /\ ~Illegal(frame) /\ ~(at.units < Units(frame))
  <2> DEFINE mid == [at EXCEPT !.units = at.units - Units(frame), !.taken = at.taken + 1]
  <2>1. next = Decoded(frame, mid)
    BY <1>5 DEF DecodeFrame, Progress
  <2>2. at.units - Units(frame) \in Nat
    BY <1>1, <1>5 DEF Units
  <2>3. /\ mid \in Progress /\ mid.taken = at.taken + 1 /\ ~mid.failed
        /\ mid.fragmented = at.fragmented /\ mid.messages = at.messages
    <3> DEFINE rest == [at EXCEPT !.units = at.units - Units(frame)]
    <3>1. /\ rest \in Progress
          /\ rest = [units |-> at.units - Units(frame), left |-> at.left, taken |-> at.taken,
                     failed |-> at.failed, fragmented |-> at.fragmented,
                     messages |-> at.messages]
      BY <2>2 DEF Progress
    <3>2. at.left \in 0..MaxMessage + 1
      BY DEF Progress
    <3>3. mid = [rest EXCEPT !.taken = at.taken + 1]
      BY Zenon
    <3> HIDE DEF rest
    <3>4. mid = [units |-> at.units - Units(frame), left |-> at.left, taken |-> at.taken + 1,
                 failed |-> at.failed, fragmented |-> at.fragmented, messages |-> at.messages]
      BY <1>1, <3>1, <3>3 DEF Progress
    <3> HIDE DEF mid
    <3> QED
      BY <1>1, <1>5, <2>2, <3>2, <3>4 DEF Progress
  <2> HIDE DEF mid
  <2>4. next = IF Rejected(frame, mid.fragmented)
                 THEN [mid EXCEPT !.failed = TRUE]
                 ELSE [mid EXCEPT !.fragmented = NextFragment(frame, mid.fragmented),
                                  !.messages = NextMessages(frame, mid.fragmented, mid.messages)]
    BY <1>5, <2>1, <2>3, DecodedFrame
  <2> HIDE DEF next
  <2>5. CASE Rejected(frame, mid.fragmented)
    <3>1. next \in Progress /\ next.failed
      BY <2>3, <2>4, <2>5 DEF Progress
    <3> QED
      BY <1>5, <2>3, <2>5, <3>1 DEF next
  <2>6. CASE ~Rejected(frame, mid.fragmented)
    <3> DEFINE f == NextFragment(frame, at.fragmented)
               m == NextMessages(frame, at.fragmented, at.messages)
    <3>1. f \in Fragment \cup {None} /\ m \in Seq(PeerMessage)
      BY <1>1, <2>3, <2>6, GatheredMessage, Extended, Zenon DEF NextFragment, NextMessages
    <3>2. next = [mid EXCEPT !.fragmented = f, !.messages = m]
      BY <2>3, <2>4, <2>6
    <3> HIDE DEF f, m
    <3>3. /\ next \in Progress /\ ~next.failed /\ next.taken = at.taken + 1
          /\ next.fragmented = f /\ next.messages = m
      BY <2>3, <3>1, <3>2 DEF Progress
    <3> QED
      BY <1>5, <2>3, <2>6, <3>3 DEF next, f, m
  <2> QED
    BY <2>5, <2>6
<1> QED
  BY <1>1, <1>2, <1>3, <1>4, <1>5

\* Extending is transitive.
LEMMA ExtendsTwice ==
  ASSUME NEW s \in Seq(PeerMessage), NEW t \in Seq(PeerMessage), NEW u \in Seq(PeerMessage),
         Extends(s, t), Extends(t, u)
  PROVE  Extends(s, u)
<1> HIDE DEF PeerMessage
<1> QED
  BY DEF Extends

\* Without their first message they still do.
LEMMA ExtendsTails ==
  ASSUME NEW s \in Seq(PeerMessage), NEW t \in Seq(PeerMessage), s # <<>>, Extends(s, t)
  PROVE  /\ t # <<>> /\ Head(s) = Head(t) /\ Head(s) \in PeerMessage
         /\ Tail(s) \in Seq(PeerMessage) /\ Tail(t) \in Seq(PeerMessage)
         /\ Extends(Tail(s), Tail(t))
<1> HIDE DEF PeerMessage
<1>1. Len(s) > 0 /\ Len(t) > 0 /\ Len(s) <= Len(t) /\ \A i \in 1..Len(s) : t[i] = s[i]
  BY DEF Extends
<1>2. t # <<>> /\ Head(s) = Head(t) /\ Head(s) \in PeerMessage
  BY <1>1
<1>3. /\ Tail(s) \in Seq(PeerMessage) /\ Tail(t) \in Seq(PeerMessage)
      /\ Len(Tail(s)) = Len(s) - 1 /\ Len(Tail(t)) = Len(t) - 1
      /\ \A i \in 1..(Len(s) - 1) : Tail(s)[i] = s[i + 1] /\ Tail(t)[i] = t[i + 1]
  BY <1>1
<1>4. Extends(Tail(s), Tail(t))
  BY <1>1, <1>3 DEF Extends
<1> QED
  BY <1>2, <1>3, <1>4

-----------------------------------------------------------------------------
(* One receive.                                                            *)

\* The states of Push's loop in DecodeFrames, after each of the frames.
Start(units) ==
  [units |-> units, left |-> 0, taken |-> 0, failed |-> FALSE,
   fragmented |-> fragmented, messages |-> <<>>]

Loop(units) ==
  LET after[n \in 0..Len(wire)] ==
        IF n = 0 THEN Start(units) ELSE DecodeFrame(wire[n], after[n - 1])
  IN after

\* The loop is what its recursion says.
LEMMA LoopUnfolds ==
  ASSUME NEW units, Len(wire) \in Nat
  PROVE  /\ Loop(units) =
              [n \in 0..Len(wire) |->
                 IF n = 0 THEN Start(units) ELSE DecodeFrame(wire[n], Loop(units)[n - 1])]
         /\ DecodeFrames(units) = Loop(units)[Len(wire)]
<1> DEFINE IsLoop(f, k) ==
             f = [n \in 0..k |-> IF n = 0 THEN Start(units) ELSE DecodeFrame(wire[n], f[n - 1])]
           S == {k \in Nat : \E f : IsLoop(f, k)}
<1>1. 0 \in S
  <2> DEFINE f == [n \in 0..0 |-> Start(units)]
  <2>1. IsLoop(f, 0)
    OBVIOUS
  <2> QED
    BY <2>1
<1>2. ASSUME NEW k \in Nat, k \in S
      PROVE  k + 1 \in S
  <2>1. PICK f : IsLoop(f, k)
    BY <1>2
  <2> DEFINE g == [n \in 0..(k + 1) |->
                     IF n = k + 1 THEN DecodeFrame(wire[n], f[k]) ELSE f[n]]
  <2> HIDE DEF DecodeFrame
  <2>2. \A n \in 0..k : f[n] = IF n = 0 THEN Start(units) ELSE DecodeFrame(wire[n], f[n - 1])
    BY <2>1
  <2>3. ASSUME NEW n \in 0..(k + 1)
        PROVE  g[n] = IF n = 0 THEN Start(units) ELSE DecodeFrame(wire[n], g[n - 1])
    <3>1. CASE n = k + 1
      <4>1. n - 1 = k /\ g[k] = f[k] /\ n # 0
        BY <3>1
      <4> QED
        BY <3>1, <4>1
    <3>2. CASE n \in 0..k
      <4>1. g[n] = f[n] /\ (n # 0 => n - 1 \in 0..k /\ g[n - 1] = f[n - 1])
        BY <3>2
      <4> QED
        BY <2>2, <3>2, <4>1
    <3> QED
      BY <3>1, <3>2
  <2>4. g = [n \in 0..(k + 1) |-> g[n]]
    OBVIOUS
  <2>5. IsLoop(g, k + 1)
    BY <2>3, <2>4
  <2> HIDE DEF IsLoop, g
  <2>6. \E h : IsLoop(h, k + 1)
    BY <2>5, Zenon
  <2> QED
    BY <2>6
<1>3. PICK f : IsLoop(f, Len(wire))
  <2> HIDE DEF S
  <2>1. Len(wire) \in S
    BY <1>1, <1>2, Induction
  <2> QED
    BY <2>1 DEF S
<1>4. Loop(units) = CHOOSE h : IsLoop(h, Len(wire))
  BY DEF Loop
<1>5. IsLoop(Loop(units), Len(wire))
  <2> HIDE DEF IsLoop
  <2> QED
    BY <1>3, <1>4, Zenon
<1>6. DecodeFrames(units) = Loop(units)[Len(wire)]
  BY Zenon DEF DecodeFrames, Loop, Start
<1> QED
  BY <1>5, <1>6

\* The frames on the wire that keep to the protocol: all but a malformed last.
Legal == IF malformed THEN Len(wire) - 1 ELSE Len(wire)

\* The states that the frames on the wire will take the decoder through, however
\* they are cut: to the peer's open message, and to all that it has completed.
Decodes(run) ==
  /\ run \in [0..Legal -> Decoder]
  /\ run[0] = [fragmented |-> fragmented, messages |-> messages, failed |-> FALSE]
  /\ run[Legal] = [fragmented |-> open, messages |-> owed, failed |-> FALSE]
  /\ \A n \in 1..Legal : /\ ~Rejected(wire[n], run[n - 1].fragmented)
                         /\ run[n] = Decoded(wire[n], run[n - 1])
  /\ \A m, n \in 0..Legal : m <= n => Extends(run[m].messages, run[n].messages)

StreamInv ==
  /\ wire \in Seq(Frame)
  /\ malformed \in BOOLEAN
  /\ malformed => wire # <<>> /\ Rejected(wire[Len(wire)], open)
  /\ \E run : Decodes(run)

\* Push's loop after n frames: as far as it has got, it is in step with run.
Follows(at, run, n) ==
  /\ at \in Progress
  /\ at.failed => malformed
  /\ ~at.failed =>
       /\ at.taken \in 0..Legal
       /\ at.taken <= n
       /\ at.units > 0 => at.taken = n
       /\ at.fragmented = run[at.taken].fragmented
       /\ at.messages = run[at.taken].messages

\* As long as it has not failed, the loop is in step with the stream: what it has
\* decoded is what the frames before make of the decoder, wherever recv cut them.
LEMMA InStep ==
  ASSUME StreamInv, messages = <<>>, NEW run, Decodes(run), NEW units \in Nat
  PROVE  \A n \in 0..Len(wire) : Follows(Loop(units)[n], run, n)
<1>1. /\ Len(wire) \in Nat /\ Legal \in 0..Len(wire)
      /\ \A n \in 1..Len(wire) : wire[n] \in Frame
      /\ \A n \in 0..Legal : run[n] \in Decoder
  <2> HIDE DEF Frame, Decoder
  <2>1. wire \in Seq(Frame) /\ malformed \in BOOLEAN /\ (malformed => wire # <<>>)
    BY Zenon DEF StreamInv
  <2>2. Len(wire) \in Nat /\ (wire # <<>> => Len(wire) > 0)
    BY <2>1
  <2>3. Legal \in 0..Len(wire)
    BY <2>1, <2>2 DEF Legal
  <2>4. \A n \in 1..Len(wire) : wire[n] \in Frame
    BY <2>1
  <2> QED
    BY <2>2, <2>3, <2>4, Zenon DEF Decodes
<1>5. /\ run[0] = [fragmented |-> fragmented, messages |-> <<>>, failed |-> FALSE]
      /\ run[Legal].fragmented = open
      /\ \A n \in 1..Legal : /\ ~Rejected(wire[n], run[n - 1].fragmented)
                             /\ run[n] = Decoded(wire[n], run[n - 1])
  BY DEF Decodes
<1> DEFINE S == {n \in Nat : n <= Len(wire) => Follows(Loop(units)[n], run, n)}
<1>2. 0 \in S
  <2>1. Loop(units)[0] = Start(units)
    BY <1>1, LoopUnfolds
  <2>2. run[0].fragmented = fragmented /\ run[0].messages = <<>> /\ run[0] \in Decoder
    <3>1. 0 \in 0..Legal
      BY <1>1
    <3> QED
      BY <1>1, <1>5, <3>1
  <2>3. fragmented \in Fragment \cup {None}
    BY <2>2 DEF Decoder
  <2>4. Start(units) \in Progress
    BY <2>3, Sizes DEF Start, Progress
  <2>5. Follows(Start(units), run, 0)
    BY <1>1, <2>2, <2>4 DEF Start, Follows
  <2> QED
    BY <2>1, <2>5
<1>3. ASSUME NEW n \in Nat, n \in S
      PROVE  n + 1 \in S
  <2> SUFFICES ASSUME n + 1 <= Len(wire) PROVE Follows(Loop(units)[n + 1], run, n + 1)
    OBVIOUS
  <2> DEFINE at == Loop(units)[n]
             frame == wire[n + 1]
             next == DecodeFrame(frame, at)
  <2>1. Loop(units)[n + 1] = next
    <3>1. n + 1 \in 0..Len(wire) /\ n + 1 # 0 /\ (n + 1) - 1 = n
      BY <1>1
    <3> HIDE DEF DecodeFrame
    <3> QED
      BY <1>1, <3>1, LoopUnfolds
  <2>2. Follows(at, run, n) /\ frame \in Frame
    BY <1>1, <1>3
  <2> HIDE DEF at, frame
  <2>3. /\ next \in Progress
        /\ at.failed \/ at.units = 0 => next = at
        /\ ~at.failed /\ at.units > 0 =>
             \/ next.failed /\ Rejected(frame, at.fragmented)
             \/ /\ ~next.failed /\ next.units = 0
                /\ next.taken = at.taken
                /\ next.fragmented = at.fragmented /\ next.messages = at.messages
             \/ /\ ~next.failed /\ ~Rejected(frame, at.fragmented)
                /\ next.taken = at.taken + 1
                /\ next.fragmented = NextFragment(frame, at.fragmented)
                /\ next.messages = NextMessages(frame, at.fragmented, at.messages)
    BY <2>2, NextProgress DEF Follows
  <2> HIDE DEF next
  <2>4. /\ at.units \in Nat /\ at.taken \in Nat /\ at.failed \in BOOLEAN
        /\ next.units \in Nat /\ next.taken \in Nat /\ next.failed \in BOOLEAN
    BY <2>2, <2>3 DEF Follows, Progress
  <2> HIDE DEF Progress
  <2> SUFFICES Follows(next, run, n + 1)
    BY <2>1 DEF next
  <2>5. CASE at.failed \/ at.units = 0
    BY <1>1, <2>2, <2>3, <2>4, <2>5 DEF Follows
  <2>6. CASE ~at.failed /\ at.units > 0
    <3>1. at.taken = n /\ n <= Legal /\ at.fragmented = run[n].fragmented /\ at.messages = run[n].messages
      BY <2>2, <2>6 DEF Follows
    <3>2. n = Legal => malformed /\ Rejected(frame, at.fragmented)
      BY <1>1, <1>5, <3>1 DEF Legal, StreamInv, frame
    <3>3. n < Legal => /\ ~Rejected(frame, at.fragmented)
                       /\ run[n + 1] = Decoded(frame, run[n])
      BY <1>1, <1>5, <3>1 DEF frame
    <3>4. CASE next.failed /\ Rejected(frame, at.fragmented)
      BY <1>1, <2>3, <2>4, <3>1, <3>2, <3>3, <3>4 DEF Follows
    <3>5. CASE /\ ~next.failed /\ next.units = 0
               /\ next.taken = at.taken
               /\ next.fragmented = at.fragmented /\ next.messages = at.messages
      BY <1>1, <2>3, <2>4, <3>1, <3>5 DEF Follows
    <3>6. CASE /\ ~next.failed /\ ~Rejected(frame, at.fragmented)
               /\ next.taken = at.taken + 1
               /\ next.fragmented = NextFragment(frame, at.fragmented)
               /\ next.messages = NextMessages(frame, at.fragmented, at.messages)
      <4>1. n < Legal
        BY <1>1, <3>1, <3>2, <3>6
      <4>2. run[n + 1] = [fragmented |-> NextFragment(frame, at.fragmented),
                          messages |-> NextMessages(frame, at.fragmented, at.messages),
                          failed |-> FALSE]
        <5>1. run[n] \in Decoder
          BY <1>1, <3>1
        <5> QED
          BY <2>2, <3>1, <3>3, <4>1, <5>1, NextDecoder, Zenon
      <4> QED
        BY <1>1, <2>3, <2>4, <3>1, <3>6, <4>1, <4>2 DEF Follows
    <3> QED
      BY <2>3, <2>6, <3>4, <3>5, <3>6
  <2> QED
    BY <2>4, <2>5, <2>6
<1> HIDE DEF S
<1>4. \A n \in Nat : n \in S
  BY <1>2, <1>3, Induction
<1> QED
  BY <1>1, <1>4 DEF S

-----------------------------------------------------------------------------
(* The stream from step to step.                                           *)

\* What StreamInv says, spelled out once.
LEMMA StreamFacts ==
  ASSUME StreamInv, NEW run, Decodes(run)
  PROVE  /\ Len(wire) \in Nat /\ Legal \in 0..Len(wire)
         /\ \A n \in 1..Len(wire) : wire[n] \in Frame
         /\ \A n \in 0..Legal : run[n] \in Decoder
         /\ \A n \in 0..Legal : run[n].fragmented \in Fragment \cup {None}
                                /\ run[n].messages \in Seq(PeerMessage)
         /\ fragmented \in Fragment \cup {None} /\ open \in Fragment \cup {None}
         /\ messages \in Seq(PeerMessage) /\ owed \in Seq(PeerMessage)
         /\ Extends(messages, owed)
<1> HIDE DEF Frame
<1>1. wire \in Seq(Frame) /\ malformed \in BOOLEAN /\ (malformed => wire # <<>>)
  BY Zenon DEF StreamInv
<1>2. Len(wire) \in Nat /\ (wire # <<>> => Len(wire) > 0)
  BY <1>1
<1>3. Legal \in 0..Len(wire)
  BY <1>1, <1>2 DEF Legal
<1>4. \A n \in 1..Len(wire) : wire[n] \in Frame
  BY <1>1
<1>5. \A n \in 0..Legal : run[n] \in Decoder
  BY Zenon DEF Decodes
<1>6. \A d \in Decoder : d.fragmented \in Fragment \cup {None} /\ d.messages \in Seq(PeerMessage)
  BY DEF Decoder
<1>7. 0 \in 0..Legal /\ Legal \in 0..Legal /\ 0 <= Legal
  BY <1>2, <1>3
<1>8. /\ run[0].fragmented = fragmented /\ run[0].messages = messages
      /\ run[Legal].fragmented = open /\ run[Legal].messages = owed
  BY DEF Decodes
<1>9. Extends(run[0].messages, run[Legal].messages)
  BY <1>7, Zenon DEF Decodes
<1> QED
  BY <1>2, <1>3, <1>4, <1>5, <1>6, <1>7, <1>8, <1>9

\* A new connection: nothing was sent.
Nothing ==
  /\ wire = <<>> /\ fragmented = None /\ messages = <<>>
  /\ open = None /\ owed = <<>> /\ malformed = FALSE

\* A connection on which nothing was sent has nothing to decode.
LEMMA StreamBegins == Nothing => StreamInv
<1> SUFFICES ASSUME Nothing PROVE StreamInv
  OBVIOUS
<1> USE DEF Nothing
<1> DEFINE d == [fragmented |-> None, messages |-> <<>>, failed |-> FALSE]
           run == [n \in 0..0 |-> d]
<1>1. d \in Decoder /\ d.messages = <<>>
  BY DEF Decoder
<1>2. Legal = 0
  BY DEF Legal
<1>3. Extends(d.messages, d.messages)
  BY <1>1 DEF Extends
<1> HIDE DEF d
<1>4. run \in [0..0 -> Decoder] /\ run[0] = d
  BY <1>1
<1>5. \A m, n \in 0..0 : run[m].messages = d.messages /\ run[n].messages = d.messages
  OBVIOUS
<1>6. Decodes(run)
  <2> HIDE DEF run
  <2>1. \A n \in 1..0 : FALSE
    OBVIOUS
  <2> QED
    BY <1>2, <1>3, <1>4, <1>5, <2>1 DEF Decodes, d
<1>7. wire \in Seq(Frame)
  <2> HIDE DEF Frame
  <2> QED
    OBVIOUS
<1> HIDE DEF run
<1> QED
  BY <1>6, <1>7, Zenon DEF StreamInv

\* The peer sends one more frame that keeps to the protocol.
LEMMA StreamGrows ==
  ASSUME StreamInv, ~malformed, malformed' = malformed,
         NEW frame \in Frame, ~Rejected(frame, open),
         wire' = Append(wire, frame), UNCHANGED <<fragmented, messages>>,
         open' = NextFragment(frame, open), owed' = NextMessages(frame, open, owed)
  PROVE  StreamInv'
<1> HIDE DEF Frame, Decoder, PeerMessage
<1>1. PICK run : Decodes(run)
  BY Zenon DEF StreamInv
<1> DEFINE L == Len(wire)
<1>2. /\ L \in Nat /\ wire \in Seq(Frame) /\ Legal = L
      /\ \A n \in 0..L : run[n] \in Decoder
      /\ run \in [0..L -> Decoder]
      /\ run[0] = [fragmented |-> fragmented, messages |-> messages, failed |-> FALSE]
      /\ run[L] = [fragmented |-> open, messages |-> owed, failed |-> FALSE]
      /\ \A n \in 1..L : /\ ~Rejected(wire[n], run[n - 1].fragmented)
                         /\ run[n] = Decoded(wire[n], run[n - 1])
      /\ \A m, n \in 0..L : m <= n => Extends(run[m].messages, run[n].messages)
      /\ \A n \in 0..L : run[n].messages \in Seq(PeerMessage)
  BY <1>1, StreamFacts, Zenon DEF StreamInv, Decodes, Legal
<1>3. /\ L + 1 = Len(wire') /\ wire' \in Seq(Frame) /\ wire'[L + 1] = frame
      /\ \A n \in 1..L : wire'[n] = wire[n]
      /\ Legal' = L + 1
  <2>1. /\ L + 1 = Len(wire') /\ wire' \in Seq(Frame) /\ wire'[L + 1] = frame
        /\ \A n \in 1..L : wire'[n] = wire[n]
    BY <1>2
  <2> QED
    BY <2>1, Zenon DEF Legal
<1> HIDE DEF L
<1>11. L \in Nat /\ 0 \in 0..L
  BY <1>2
<1> DEFINE d == Decoded(frame, run[L])
<1>4. /\ d = [fragmented |-> open', messages |-> owed', failed |-> FALSE]
      /\ d \in Decoder /\ d.messages \in Seq(PeerMessage)
      /\ Extends(run[L].messages, d.messages)
  <2>1. /\ run[L] \in Decoder /\ run[L].fragmented = open /\ run[L].messages = owed
    BY <1>2
  <2>2. /\ d = [fragmented |-> NextFragment(frame, open),
                messages |-> NextMessages(frame, open, owed), failed |-> FALSE]
        /\ d \in Decoder
        /\ Extends(run[L].messages, d.messages)
    BY <2>1, NextDecoder, Zenon
  <2> QED
    BY <2>2 DEF Decoder
<1>5. ~Rejected(frame, run[L].fragmented)
  BY <1>2
<1> HIDE DEF d
<1>6. PICK next : next = [n \in 0..(L + 1) |-> IF n = L + 1 THEN d ELSE run[n]]
  OBVIOUS
<1>7. /\ next \in [0..(L + 1) -> Decoder]
      /\ next[L + 1] = d
      /\ \A n \in 0..L : next[n] = run[n]
  BY <1>2, <1>4, <1>6
<1>8. \A n \in 1..(L + 1) : /\ ~Rejected(wire'[n], next[n - 1].fragmented)
                            /\ next[n] = Decoded(wire'[n], next[n - 1])
  <2> SUFFICES ASSUME NEW n \in 1..(L + 1)
               PROVE  /\ ~Rejected(wire'[n], next[n - 1].fragmented)
                      /\ next[n] = Decoded(wire'[n], next[n - 1])
    OBVIOUS
  <2>1. CASE n = L + 1
    <3>1. wire'[n] = frame /\ next[n] = d /\ n - 1 = L /\ next[n - 1] = run[L]
      BY <1>2, <1>3, <1>7, <2>1
    <3> QED
      BY <1>5, <3>1 DEF d
  <2>2. CASE n \in 1..L
    <3>1. wire'[n] = wire[n] /\ next[n] = run[n] /\ next[n - 1] = run[n - 1]
      BY <1>2, <1>3, <1>7, <2>2
    <3> QED
      BY <1>2, <2>2, <3>1
  <2>3. n = L + 1 \/ n \in 1..L
    BY <1>11
  <2> QED
    BY <2>1, <2>2, <2>3
<1>9. \A m, n \in 0..(L + 1) : m <= n => Extends(next[m].messages, next[n].messages)
  <2> SUFFICES ASSUME NEW m \in 0..(L + 1), NEW n \in 0..(L + 1), m <= n
               PROVE  Extends(next[m].messages, next[n].messages)
    OBVIOUS
  <2>1. CASE n \in 0..L
    BY <1>2, <1>7, <2>1
  <2>2. CASE m = L + 1
    <3>1. n = m /\ next[n].messages \in Seq(PeerMessage)
      BY <1>2, <1>4, <1>7, <2>2
    <3> QED
      BY <3>1 DEF Extends
  <2>3. CASE n = L + 1 /\ m \in 0..L
    <3>1. Extends(run[m].messages, run[L].messages) /\ next[m] = run[m] /\ next[n] = d
      BY <1>2, <1>7, <2>3
    <3>2. /\ run[m].messages \in Seq(PeerMessage) /\ run[L].messages \in Seq(PeerMessage)
      BY <1>2, <2>3
    <3> QED
      BY <1>4, <3>1, <3>2, ExtendsTwice
  <2> QED
    BY <1>2, <2>1, <2>2, <2>3
<1>10. Decodes(next)'
  <2>1. next[0] = [fragmented |-> fragmented', messages |-> messages', failed |-> FALSE]
    BY <1>2, <1>7, <1>11
  <2> QED
    BY <1>3, <1>4, <1>7, <1>8, <1>9, <2>1, Zenon DEF Decodes
<1> QED
  BY <1>2, <1>3, <1>10, Zenon DEF StreamInv

\* The peer sends a frame that breaks the protocol, and no other after it.
LEMMA StreamBreaks ==
  ASSUME StreamInv, ~malformed, malformed' = TRUE,
         NEW frame \in Frame, Rejected(frame, open),
         wire' = Append(wire, frame), UNCHANGED <<fragmented, messages, open, owed>>
  PROVE  StreamInv'
<1> HIDE DEF Frame, Decoder, PeerMessage
<1>1. PICK run : Decodes(run)
  BY Zenon DEF StreamInv
<1>2. /\ Len(wire) \in Nat /\ wire \in Seq(Frame) /\ Legal = Len(wire)
  BY <1>1, StreamFacts, Zenon DEF StreamInv, Legal
<1>3. /\ Len(wire') = Len(wire) + 1 /\ wire' \in Seq(Frame) /\ wire'[Len(wire')] = frame
      /\ \A n \in 1..Len(wire) : wire'[n] = wire[n]
      /\ wire' # <<>>
  BY <1>2
<1>4. Legal' = Legal
  BY <1>2, <1>3 DEF Legal
<1>5. Decodes(run)'
  <2>1. \A n \in 1..Legal : /\ ~Rejected(wire'[n], run[n - 1].fragmented)
                            /\ run[n] = Decoded(wire'[n], run[n - 1])
    BY <1>1, <1>2, <1>3 DEF Decodes
  <2> QED
    BY <1>1, <1>4, <2>1, Zenon DEF Decodes
<1> QED
  BY <1>3, <1>5, Zenon DEF StreamInv

\* The worker handles a message.
LEMMA StreamHandled ==
  ASSUME StreamInv, messages # <<>>, messages' = Tail(messages), owed' = Tail(owed),
         UNCHANGED <<wire, fragmented, open, malformed>>
  PROVE  StreamInv' /\ owed # <<>> /\ Head(messages) = Head(owed) /\ Head(messages) \in PeerMessage
<1> HIDE DEF Frame, PeerMessage
<1>1. PICK run : Decodes(run)
  BY Zenon DEF StreamInv
<1>2. /\ Legal \in Nat /\ 0 \in 0..Legal /\ Legal \in 0..Legal
      /\ \A n \in 1..Legal : wire[n] \in Frame
      /\ messages \in Seq(PeerMessage) /\ owed \in Seq(PeerMessage) /\ Extends(messages, owed)
      /\ \A n \in 0..Legal : /\ run[n] \in Decoder
                             /\ run[n].fragmented \in Fragment \cup {None}
                             /\ run[n].messages \in Seq(PeerMessage)
  <2>1. /\ Len(wire) \in Nat /\ Legal \in 0..Len(wire)
        /\ \A n \in 1..Len(wire) : wire[n] \in Frame
    BY <1>1, StreamFacts, Zenon
  <2> QED
    BY <1>1, <2>1, StreamFacts
<1>3. /\ run[0] = [fragmented |-> fragmented, messages |-> messages, failed |-> FALSE]
      /\ run[Legal] = [fragmented |-> open, messages |-> owed, failed |-> FALSE]
      /\ \A n \in 1..Legal : /\ ~Rejected(wire[n], run[n - 1].fragmented)
                             /\ run[n] = Decoded(wire[n], run[n - 1])
      /\ \A m, n \in 0..Legal : m <= n => Extends(run[m].messages, run[n].messages)
  BY <1>1, Zenon DEF Decodes
<1>4. \A n \in 0..Legal : run[n].messages # <<>>
  <2> SUFFICES ASSUME NEW n \in 0..Legal PROVE run[n].messages # <<>>
    OBVIOUS
  <2>1. Extends(messages, run[n].messages)
    BY <1>2, <1>3
  <2> QED
    BY <1>2, <2>1, ExtendsTails
<1>5. PICK next : next = [n \in 0..Legal |->
        [fragmented |-> run[n].fragmented, messages |-> Tail(run[n].messages), failed |-> FALSE]]
  OBVIOUS
<1>6. next \in [0..Legal -> Decoder]
  <2> SUFFICES ASSUME NEW n \in 0..Legal
               PROVE  [fragmented |-> run[n].fragmented, messages |-> Tail(run[n].messages),
                       failed |-> FALSE] \in Decoder
    BY <1>5
  <2>1. Tail(run[n].messages) \in Seq(PeerMessage)
    BY <1>2, <1>4
  <2> QED
    BY <1>2, <2>1 DEF Decoder
<1>7. \A n \in 0..Legal : /\ next[n].fragmented = run[n].fragmented
                          /\ next[n].messages = Tail(run[n].messages)
                          /\ next[n].failed = FALSE
  BY <1>5
<1>8. /\ next[0] = [fragmented |-> fragmented, messages |-> messages', failed |-> FALSE]
      /\ next[Legal] = [fragmented |-> open, messages |-> owed', failed |-> FALSE]
  <2>1. /\ run[0].fragmented = fragmented /\ run[0].messages = messages
        /\ run[Legal].fragmented = open /\ run[Legal].messages = owed
    BY <1>3
  <2>2. \A n \in 0..Legal :
          next[n] = [fragmented |-> run[n].fragmented, messages |-> Tail(run[n].messages),
                     failed |-> FALSE]
    BY <1>5
  <2> QED
    BY <1>2, <2>1, <2>2, Zenon
<1>9. ASSUME NEW n \in 1..Legal
      PROVE  /\ ~Rejected(wire[n], next[n - 1].fragmented)
             /\ next[n] = Decoded(wire[n], next[n - 1])
  <2> DEFINE frame == wire[n]
             f == run[n - 1].fragmented
             q == run[n - 1].messages
  <2>1. /\ n - 1 \in 0..Legal /\ n \in 0..Legal /\ frame \in Frame /\ ~Rejected(frame, f)
        /\ f \in Fragment \cup {None} /\ q \in Seq(PeerMessage) /\ q # <<>>
        /\ run[n - 1] \in Decoder /\ next[n - 1] \in Decoder
        /\ next[n - 1].fragmented = f /\ next[n - 1].messages = Tail(q)
    <3>1. n - 1 \in 0..Legal /\ n \in 0..Legal
      BY <1>2
    <3>2. next[n - 1] \in Decoder
      BY <1>6, <3>1
    <3> QED
      BY <1>2, <1>3, <1>4, <1>7, <3>1, <3>2, Zenon
  <2>2. run[n] = [fragmented |-> NextFragment(frame, f), messages |-> NextMessages(frame, f, q),
                  failed |-> FALSE]
    BY <1>3, <2>1, NextDecoder, Zenon
  <2>3. Decoded(frame, next[n - 1]) =
          [fragmented |-> NextFragment(frame, f), messages |-> NextMessages(frame, f, Tail(q)),
           failed |-> FALSE]
    BY <2>1, NextDecoder, Zenon
  <2>4. NextMessages(frame, f, Tail(q)) = Tail(NextMessages(frame, f, q))
    BY <2>1, GatheredMessage, Extended, Zenon DEF NextMessages
  <2> HIDE DEF frame, f, q
  <2>5. next[n] = [fragmented |-> NextFragment(frame, f),
                   messages |-> Tail(NextMessages(frame, f, q)), failed |-> FALSE]
    <3>1. next[n] = [fragmented |-> run[n].fragmented, messages |-> Tail(run[n].messages),
                     failed |-> FALSE]
      BY <1>5, <2>1
    <3>2. run[n].fragmented = NextFragment(frame, f) /\ run[n].messages = NextMessages(frame, f, q)
      BY <2>2
    <3> QED
      BY <3>1, <3>2, Zenon
  <2> QED
    BY <2>1, <2>3, <2>4, <2>5, Zenon DEF frame
<1>10. ASSUME NEW m \in 0..Legal, NEW n \in 0..Legal, m <= n
       PROVE  Extends(next[m].messages, next[n].messages)
  BY <1>2, <1>3, <1>4, <1>7, <1>10, ExtendsTails, Zenon
<1>11. Legal' = Legal
  BY Zenon DEF Legal
<1>12. Decodes(next)'
  BY <1>6, <1>8, <1>9, <1>10, <1>11, Zenon DEF Decodes
<1>13. StreamInv'
  BY <1>12, Zenon DEF StreamInv
<1> QED
  BY <1>2, <1>13, ExtendsTails, Zenon

\* The worker receives part of the stream, and the decoder does not refuse it.
LEMMA StreamReceived ==
  ASSUME StreamInv, messages = <<>>, NEW units \in Nat, NEW at, at = DecodeFrames(units),
         ~at.failed, wire' = SubSeq(wire, at.taken + 1, Len(wire)),
         fragmented' = at.fragmented, messages' = at.messages,
         UNCHANGED <<open, owed, malformed>>
  PROVE  StreamInv' /\ at \in Progress /\ Len(wire') <= Len(wire)
<1> HIDE DEF Frame, PeerMessage
<1>1. PICK run : Decodes(run)
  BY Zenon DEF StreamInv
<1>2. /\ wire \in Seq(Frame) /\ Len(wire) \in Nat /\ Legal \in 0..Len(wire)
      /\ \A n \in 1..Len(wire) : wire[n] \in Frame
      /\ \A n \in 0..Legal : run[n] \in Decoder
  BY <1>1, StreamFacts, Zenon DEF StreamInv
<1> DEFINE k == at.taken
<1>3. /\ at \in Progress /\ k \in 0..Legal
      /\ at.fragmented = run[k].fragmented /\ at.messages = run[k].messages
  <2>1. Len(wire) \in 0..Len(wire)
    BY <1>2
  <2>2. Follows(at, run, Len(wire))
    BY <1>1, <1>2, <2>1, InStep, LoopUnfolds, Zenon
  <2> QED
    BY <2>2 DEF Follows
<1> HIDE DEF k
<1>4. /\ run[Legal] = [fragmented |-> open, messages |-> owed, failed |-> FALSE]
      /\ \A n \in 1..Legal : /\ ~Rejected(wire[n], run[n - 1].fragmented)
                             /\ run[n] = Decoded(wire[n], run[n - 1])
      /\ \A m, n \in 0..Legal : m <= n => Extends(run[m].messages, run[n].messages)
  BY <1>1, Zenon DEF Decodes
<1>5. /\ wire' \in Seq(Frame) /\ Len(wire') = Len(wire) - k
      /\ \A n \in 1..(Len(wire) - k) : wire'[n] = wire[n + k]
  BY <1>2, <1>3, SMTT(30) DEF k
<1>6. Legal' = Legal - k
  <2>1. malformed' = malformed
    OBVIOUS
  <2> QED
    BY <1>2, <1>3, <1>5, <2>1 DEF Legal
<1>7. malformed' => wire' # <<>> /\ Rejected(wire'[Len(wire')], open')
  <2> SUFFICES ASSUME malformed PROVE wire' # <<>> /\ Rejected(wire'[Len(wire')], open')
    OBVIOUS
  <2>1. k < Len(wire) /\ Rejected(wire[Len(wire)], open)
    BY <1>2, <1>3 DEF StreamInv, Legal
  <2>2. Len(wire') > 0 /\ wire'[Len(wire')] = wire[Len(wire)]
    <3>1. Len(wire) - k \in 1..(Len(wire) - k) /\ (Len(wire) - k) + k = Len(wire)
      BY <1>2, <1>3, <2>1
    <3> QED
      BY <1>5, <3>1
  <2>3. open' = open
    OBVIOUS
  <2>4. wire' # <<>>
    <3>1. \A s \in Seq(Frame) : Len(s) > 0 => s # <<>>
      OBVIOUS
    <3> QED
      BY <1>5, <2>2, <3>1, Zenon
  <2> QED
    BY <2>1, <2>2, <2>3, <2>4, Zenon
<1>8. PICK next : next = [n \in 0..(Legal - k) |-> run[n + k]]
  OBVIOUS
<1>9. \A n \in 0..(Legal - k) : n + k \in 0..Legal /\ next[n] = run[n + k]
  BY <1>2, <1>3, <1>8
<1>10. next \in [0..(Legal - k) -> Decoder]
  BY <1>2, <1>8, <1>9
<1>11. /\ next[0] = [fragmented |-> at.fragmented, messages |-> at.messages, failed |-> FALSE]
       /\ next[Legal - k] = [fragmented |-> open, messages |-> owed, failed |-> FALSE]
  <2>1. next[0] = run[k] /\ next[Legal - k] = run[Legal] /\ run[k] \in Decoder
    BY <1>2, <1>3, <1>9
  <2> QED
    BY <1>3, <1>4, <2>1 DEF Decoder
<1>12. ASSUME NEW n \in 1..(Legal - k)
       PROVE  /\ ~Rejected(wire'[n], next[n - 1].fragmented)
              /\ next[n] = Decoded(wire'[n], next[n - 1])
  <2>1. /\ n + k \in 1..Legal /\ wire'[n] = wire[n + k]
        /\ next[n] = run[n + k] /\ next[n - 1] = run[(n + k) - 1]
    <3>1. /\ n + k \in 1..Legal /\ n \in 1..(Len(wire) - k) /\ (n - 1) + k = (n + k) - 1
          /\ n - 1 \in 0..(Legal - k) /\ n \in 0..(Legal - k)
      BY <1>2, <1>3
    <3> QED
      BY <1>5, <1>9, <3>1, Zenon
  <2> QED
    BY <1>4, <2>1
<1>13. ASSUME NEW m \in 0..(Legal - k), NEW n \in 0..(Legal - k), m <= n
       PROVE  Extends(next[m].messages, next[n].messages)
  <2>1. m + k \in 0..Legal /\ n + k \in 0..Legal /\ m + k <= n + k
    BY <1>2, <1>3, <1>13
  <2> QED
    BY <1>4, <1>9, <2>1
<1>14. Decodes(next)'
  BY <1>6, <1>10, <1>11, <1>12, <1>13, Zenon DEF Decodes
<1>15. StreamInv'
  BY <1>5, <1>7, <1>14, Zenon DEF StreamInv
<1> QED
  BY <1>2, <1>3, <1>5, <1>15

-----------------------------------------------------------------------------
(* The inductive invariant.                                                *)

PlaceInv ==
  /\ stage \in {"listening", "upgrade", "challenge", "session"}
  /\ late \in BOOLEAN
  /\ request \in 0..Upgrade
  /\ received \in 0..MaxMessage + 1
  /\ frames \in 0..MaxFrames
  /\ Len(wire) <= frames
  /\ handled \in PeerMessage \cup {None}
  /\ stage \in {"listening", "upgrade"} => messages = <<>>

\* The queue holds the last of the reports, and none that was sent.
TelemetryInv ==
  /\ telemetry \in Seq(Nat) /\ reported \in Nat
  /\ Len(telemetry) <= Capacity /\ Len(telemetry) <= reported
  /\ \A i \in 1..Len(telemetry) : telemetry[i] = (reported - Len(telemetry)) + i
  /\ sent \in [part : BOOLEAN, report : Nat]
  /\ sent.report <= reported - Len(telemetry)
  /\ sent.part => stage = "listening"

IInv == StreamInv /\ PlaceInv /\ TelemetryInv

\* However a connection ends, nothing of it is left.
LEMMA Closed == Close => StreamInv' /\ PlaceInv'
<1> SUFFICES ASSUME Close PROVE StreamInv' /\ PlaceInv'
  OBVIOUS
<1>1. Nothing'
  BY DEF Close, Reset, Nothing
<1>2. StreamInv'
  BY <1>1, StreamBegins, PTL
<1>3. PlaceInv'
  <2>1. /\ stage' = "listening" /\ late' = FALSE /\ request' = 0 /\ received' = 0
        /\ wire' = <<>> /\ messages' = <<>> /\ frames' = 0 /\ handled' = None
    BY Zenon DEF Close, Reset
  <2>2. 0 \in 0..Upgrade /\ 0 \in 0..MaxMessage + 1 /\ 0 \in 0..MaxFrames
    BY Sizes
  <2>3. Len(wire') <= frames'
    BY <2>1
  <2> QED
    BY <2>1, <2>2, <2>3, Zenon DEF PlaceInv
<1> QED
  BY <1>2, <1>3

\* The frame that a peer puts on the wire.
LEMMA PeerFrame ==
  ASSUME NEW opcode \in Opcodes, NEW final \in BOOLEAN, NEW length \in Nat,
         NEW reserved \in BOOLEAN, NEW mark \in Marks,
         IInv, PeerReady, PutFrame(opcode, final, length, reserved, mark)
  PROVE  /\ frames + 1 \in 1..MaxFrames /\ PlaceInv'
         /\ \E frame \in Frame :
              /\ wire' = Append(wire, frame)
              /\ frame.opcode = opcode /\ frame.final = final /\ frame.length = length
              /\ frame.reserved = reserved /\ frame.mark = mark /\ frame.id = frames + 1
<1>1. /\ stage \in {"challenge", "session"} /\ frames \in 0..MaxFrames /\ Len(wire) <= frames
      /\ wire \in Seq(Frame)
  BY DEF IInv, PlaceInv, StreamInv, PeerReady
<1>2. frames + 1 \in 1..MaxFrames
  BY <1>1, Sizes DEF PeerReady
<1> DEFINE frame == [opcode |-> opcode, final |-> final, length |-> length,
                     reserved |-> reserved, mark |-> mark, id |-> frames + 1]
<1>3. frame \in Frame
  BY <1>2 DEF Frame
<1>4. frames' = frames + 1 /\ wire' = Append(wire, frame)
  BY Zenon DEF PutFrame
<1>5. Len(wire') <= frames'
  <2> HIDE DEF Frame, frame
  <2> QED
    BY <1>1, <1>3, <1>4
<1>6. PlaceInv'
  <2>1. UNCHANGED <<stage, late, request, received, handled, messages>>
    BY Zenon DEF PutFrame, decoderVars
  <2> QED
    BY <1>2, <1>4, <1>5, <2>1 DEF IInv, PlaceInv
<1> QED
  BY <1>2, <1>3, <1>4, <1>6

\* What the peer sends keeps the invariant of the stream.
LEMMA DataSent ==
  ASSUME IInv, NEW opcode \in Data, NEW length \in Lengths, NEW final \in BOOLEAN,
         NEW mark \in Marks, SendData(opcode, length, final, mark)
  PROVE  /\ StreamInv' /\ PlaceInv' /\ handled' = handled
         /\ owed' = owed \/ \E message \in PeerMessage : owed' = Append(owed, message)
<1> DEFINE op == IF open = None THEN opcode ELSE "continuation"
<1>1. op \in Opcodes /\ length \in 0..MaxMessage /\ length \in Nat
  BY Sizes DEF Opcodes, Data
<1>2. /\ PeerReady /\ PutFrame(op, final, length, FALSE, mark)
      /\ malformed' = malformed
  BY Zenon DEF SendData
<1> HIDE DEF op
<1>12. FALSE \in BOOLEAN
  OBVIOUS
<1>13. \A reserved \in BOOLEAN : PutFrame(op, final, length, reserved, mark) =>
         \E frame \in Frame :
           /\ wire' = Append(wire, frame)
           /\ frame.opcode = op /\ frame.final = final /\ frame.length = length
           /\ frame.reserved = reserved /\ frame.mark = mark /\ frame.id = frames + 1
  BY <1>1, <1>2, PeerFrame
<1>3. PICK frame \in Frame :
        /\ wire' = Append(wire, frame)
        /\ frame.opcode = op /\ frame.final = final /\ frame.length = length
        /\ frame.reserved = FALSE /\ frame.mark = mark /\ frame.id = frames + 1
  BY <1>2, <1>12, <1>13, Zenon
<1>4. PlaceInv'
  BY <1>1, <1>2, <1>12, PeerFrame, Zenon
<1> USE DEF op
<1> DEFINE message == IF open = None THEN Open(opcode, frames + 1, length)
                                     ELSE Extend(open, frames + 1, length)
<1>5. /\ message.size <= MaxMessage
      /\ IF final THEN owed' = Append(owed, Finish(message, mark)) /\ open' = None
                  ELSE open' = message /\ UNCHANGED owed
  BY Zenon DEF SendData, Completes
<1>6. StreamInv /\ ~malformed
  BY <1>2 DEF IInv, PeerReady
<1>7. open \in Fragment \cup {None}
  BY <1>6, StreamFacts, Zenon DEF StreamInv
<1>8. /\ Gathered(frame, open) = message
      /\ open # None => open.size + length <= MaxMessage
  <2>1. open # None => message.size = open.size + length
    BY <1>7 DEF Extend, Fragment
  <2>2. frame.opcode = "continuation" <=> open # None
    BY <1>3 DEF Data
  <2> QED
    BY <1>3, <1>5, <2>1, <2>2, Zenon DEF Gathered
<1>9. ~Rejected(frame, open)
  <2>1. CASE open = None
    BY <1>1, <1>3, <2>1, Sizes DEF Rejected, Illegal, Data, Control
  <2>2. CASE open # None
    BY <1>1, <1>3, <1>7, <1>8, <2>2, Sizes DEF Rejected, Illegal, Data, Control, Fragment
  <2> QED
    BY <2>1, <2>2
<1>10. open' = NextFragment(frame, open) /\ owed' = NextMessages(frame, open, owed)
  <2>1. frame.opcode \notin Control
    BY <1>3 DEF Control, Data
  <2> HIDE DEF message
  <2>2. CASE final
    BY <1>3, <1>5, <1>8, <2>1, <2>2 DEF NextFragment, NextMessages
  <2>3. CASE ~final
    BY <1>3, <1>5, <1>8, <2>1, <2>3 DEF NextFragment, NextMessages
  <2> QED
    BY <2>2, <2>3
<1>11. UNCHANGED <<fragmented, messages, handled>>
  BY <1>2, Zenon DEF PutFrame, decoderVars
<1>14. owed' = owed \/ \E m \in PeerMessage : owed' = Append(owed, m)
  BY <1>7, <1>9, <1>10, GatheredMessage, Zenon DEF NextMessages
<1> QED
  BY <1>2, <1>3, <1>4, <1>6, <1>9, <1>10, <1>11, <1>14, StreamGrows, Zenon

\* A control frame, inside an open message or outside, keeps the invariant too.
LEMMA ControlFrameSent ==
  ASSUME IInv, NEW opcode \in Control, SendControlFrame(opcode)
  PROVE  /\ StreamInv' /\ PlaceInv' /\ handled' = handled
         /\ owed' = owed \/ \E message \in PeerMessage : owed' = Append(owed, message)
<1>1. /\ opcode \in Opcodes /\ MaxControl \in Nat /\ "none" \in Marks
      /\ TRUE \in BOOLEAN /\ FALSE \in BOOLEAN
  BY Sizes DEF Opcodes, Marks
<1>2. /\ PeerReady /\ PutFrame(opcode, TRUE, MaxControl, FALSE, "none")
      /\ malformed' = malformed /\ open' = open
  BY Zenon DEF SendControlFrame
<1>10. \A final, reserved \in BOOLEAN : PutFrame(opcode, final, MaxControl, reserved, "none") =>
         \E frame \in Frame :
           /\ wire' = Append(wire, frame)
           /\ frame.opcode = opcode /\ frame.final = final /\ frame.length = MaxControl
           /\ frame.reserved = reserved /\ frame.mark = "none" /\ frame.id = frames + 1
  BY <1>1, <1>2, PeerFrame
<1>3. PICK frame \in Frame :
        /\ wire' = Append(wire, frame)
        /\ frame.opcode = opcode /\ frame.final = TRUE /\ frame.length = MaxControl
        /\ frame.reserved = FALSE /\ frame.mark = "none" /\ frame.id = frames + 1
  BY <1>1, <1>2, <1>10, Zenon
<1>4. PlaceInv'
  BY <1>1, <1>2, PeerFrame, Zenon
<1>5. owed' = Append(owed, Finish(Open(opcode, frames + 1, MaxControl), "none"))
  BY Zenon DEF SendControlFrame, Completes
<1>6. StreamInv /\ ~malformed
  BY <1>2 DEF IInv, PeerReady
<1>7. ~Rejected(frame, open)
  BY <1>3, Sizes DEF Rejected, Illegal, Data, Control
<1>8. open' = NextFragment(frame, open) /\ owed' = NextMessages(frame, open, owed)
  <2>1. frame.opcode # "continuation"
    BY <1>3 DEF Control
  <2> QED
    BY <1>2, <1>3, <1>5, <2>1, Zenon DEF NextFragment, NextMessages, Gathered
<1>9. UNCHANGED <<fragmented, messages, handled>>
  BY <1>2, Zenon DEF PutFrame, decoderVars
<1>11. open \in Fragment \cup {None}
  BY <1>6, StreamFacts, Zenon DEF StreamInv
<1>12. owed' = owed \/ \E m \in PeerMessage : owed' = Append(owed, m)
  BY <1>7, <1>8, <1>11, GatheredMessage, Zenon DEF NextMessages
<1> QED
  BY <1>2, <1>3, <1>4, <1>6, <1>7, <1>8, <1>9, <1>12, StreamGrows, Zenon

\* A frame against RFC 6455 or over the limits leaves the legal part as it was.
LEMMA MalformedSent ==
  ASSUME IInv, SendMalformed
  PROVE  StreamInv' /\ PlaceInv'
<1>1. /\ PeerReady /\ malformed' = TRUE /\ open' = open /\ owed' = owed
  BY Zenon DEF SendMalformed
<1>2. StreamInv /\ ~malformed
  BY <1>1 DEF IInv, PeerReady
<1>3. open \in Fragment \cup {None}
  BY <1>2, StreamFacts, Zenon DEF StreamInv
<1>4. PICK opcode \in Opcodes, final \in BOOLEAN, length \in Nat, reserved \in BOOLEAN :
        /\ PutFrame(opcode, final, length, reserved, "none")
        /\ \/ reserved \/ length > MaxMessage
           \/ opcode = "reserved"
           \/ opcode \in Data /\ open # None
           \/ opcode = "continuation" /\ open = None
           \/ opcode = "ping" /\ (~final \/ length > MaxControl)
           \/ opcode = "continuation" /\ open # None /\ open.size + length > MaxMessage
  <2>1. /\ {"text", "binary", "ping", "continuation", "reserved"} \subseteq Opcodes
        /\ MaxControl + 1 \in Nat /\ MaxMessage + 1 \in Nat /\ 0 \in Nat
        /\ MaxControl + 1 > MaxControl /\ MaxMessage + 1 > MaxMessage
        /\ open # None => /\ MaxMessage + 1 - open.size \in Nat
                          /\ open.size + (MaxMessage + 1 - open.size) > MaxMessage
        /\ "text" \in Data /\ TRUE \in BOOLEAN /\ FALSE \in BOOLEAN
    BY <1>3, Sizes DEF Opcodes, Data, Control, Fragment
  <2> QED
    BY <2>1, Zenon DEF SendMalformed
<1>5. "none" \in Marks
  BY DEF Marks
<1>6. PICK frame \in Frame :
        /\ wire' = Append(wire, frame)
        /\ frame.opcode = opcode /\ frame.final = final /\ frame.length = length
        /\ frame.reserved = reserved
  BY <1>1, <1>4, <1>5, PeerFrame
<1>7. PlaceInv'
  BY <1>1, <1>4, <1>5, PeerFrame
<1>8. Rejected(frame, open)
  BY <1>4, <1>6 DEF Rejected, Illegal, Control
<1>9. UNCHANGED <<fragmented, messages>>
  BY <1>4, Zenon DEF PutFrame, decoderVars
<1> QED
  BY <1>1, <1>2, <1>6, <1>7, <1>8, <1>9, StreamBreaks, Zenon

-----------------------------------------------------------------------------
(* Every step.                                                             *)

\* Steps that touch neither the stream nor what was decoded of it.
LEMMA StreamUntouched ==
  ASSUME StreamInv, UNCHANGED <<wire, fragmented, messages, open, owed, malformed>>
  PROVE  StreamInv'
<1>1. PICK run : Decodes(run)
  BY Zenon DEF StreamInv
<1>2. Legal' = Legal
  BY Zenon DEF Legal
<1>3. Decodes(run)'
  BY <1>1, <1>2, Zenon DEF Decodes
<1> QED
  BY <1>3, Zenon DEF StreamInv

\* Push refuses only a malformed frame: what is left of a frame in the buffer and
\* what a recv adds to it is never too much.
LEMMA Received ==
  ASSUME IInv, Push
  PROVE  StreamInv' /\ PlaceInv' /\ (stage' = "listening" => malformed)
<1>1. /\ stage \in {"challenge", "session"} /\ messages = <<>> /\ StreamInv
      /\ received \in 0..MaxMessage + 1 /\ late \in BOOLEAN /\ request \in 0..Upgrade
      /\ frames \in 0..MaxFrames /\ Len(wire) <= frames
      /\ handled \in PeerMessage \cup {None} /\ stage # "listening"
  BY DEF IInv, PlaceInv, Push
<1>2. PICK count \in 1..Chunk :
        LET at == DecodeFrames(received + count)
        IN IF received + count > BufferLimit \/ at.failed
             THEN Close
             ELSE /\ wire' = SubSeq(wire, at.taken + 1, Len(wire))
                  /\ received' = at.left
                  /\ fragmented' = at.fragmented
                  /\ messages' = at.messages
                  /\ UNCHANGED <<stage, late, request, open, frames, malformed,
                                 owed, handled>>
  BY Zenon DEF Push
<1>3. received + count \in Nat /\ ~(received + count > BufferLimit)
  BY <1>1, Sizes DEF BufferLimit
<1>4. PICK run : Decodes(run)
  BY <1>1, Zenon DEF StreamInv
<1> DEFINE at == DecodeFrames(received + count)
<1>5. at \in Progress /\ (at.failed => malformed)
  <2>1. Len(wire) \in Nat
    BY <1>1, <1>4, StreamFacts, Zenon
  <2>2. Follows(at, run, Len(wire))
    <3>1. Len(wire) \in 0..Len(wire)
      BY <2>1
    <3> QED
      BY <1>1, <1>3, <1>4, <2>1, <3>1, InStep, LoopUnfolds, Zenon
  <2> QED
    BY <2>2, Zenon DEF Follows
<1> HIDE DEF at
<1>6. CASE at.failed
  <2>1. Close
    BY <1>2, <1>6, Zenon DEF at
  <2> QED
    BY <1>5, <1>6, <2>1, Closed, Zenon
<1>7. CASE ~at.failed
  <2>1. /\ wire' = SubSeq(wire, at.taken + 1, Len(wire))
        /\ received' = at.left
        /\ fragmented' = at.fragmented
        /\ messages' = at.messages
        /\ UNCHANGED <<stage, late, request, open, frames, malformed, owed, handled>>
    BY <1>2, <1>3, <1>7, Zenon DEF at
  <2>2. StreamInv' /\ Len(wire') <= Len(wire)
    BY <1>1, <1>3, <1>7, <2>1, StreamReceived, Zenon DEF at
  <2>3. Len(wire') <= frames'
    <3>1. Len(wire) \in Nat /\ Len(wire') \in Nat
      <4>1. wire \in Seq(Frame) /\ wire' \in Seq(Frame)
        BY <1>1, <2>2, Zenon DEF StreamInv
      <4> HIDE DEF Frame
      <4> QED
        BY <4>1
    <3>2. \A a, b, c \in Nat : a <= b /\ b <= c => a <= c
      OBVIOUS
    <3>3. frames' = frames /\ frames \in Nat
      BY <1>1, <2>1
    <3> QED
      BY <1>1, <2>2, <3>1, <3>2, <3>3, Zenon
  <2>4. at.left \in 0..MaxMessage + 1
    BY <1>5 DEF Progress
  <2> QED
    BY <1>1, <2>1, <2>2, <2>3, <2>4, Zenon DEF PlaceInv
<1> QED
  BY <1>6, <1>7

\* The worker takes one message up.
LEMMA Continued ==
  ASSUME IInv, messages # <<>>, Continue, stage' \in {"challenge", "session"}, late' \in BOOLEAN
  PROVE  StreamInv' /\ PlaceInv' /\ owed # <<>> /\ handled' = Head(owed) /\ owed' = Tail(owed)
<1>1. /\ messages' = Tail(messages) /\ handled' = Head(messages) /\ owed' = Tail(owed)
      /\ UNCHANGED <<request, wire, open, frames, malformed, received, fragmented>>
  BY Zenon DEF Continue, Others, Message
<1>2. /\ StreamInv' /\ owed # <<>> /\ Head(messages) = Head(owed)
      /\ Head(messages) \in PeerMessage
  BY <1>1, StreamHandled, Zenon DEF IInv
<1>3. PlaceInv'
  BY <1>1, <1>2, Zenon DEF IInv, PlaceInv
<1> QED
  BY <1>1, <1>2, <1>3

\* What a step does with the messages that are owed, and to the stream.
LEMMA StepKept ==
  ASSUME IInv, Next
  PROVE  /\ StreamInv' /\ PlaceInv'
         /\ \/ UNCHANGED <<owed, handled>>
            \/ owed' = <<>> /\ handled' = None
            \/ owed # <<>> /\ handled' = Head(owed) /\ owed' = Tail(owed)
            \/ handled' = handled /\ \E message \in PeerMessage : owed' = Append(owed, message)
<1>1. CASE Close
  <2>1. owed' = <<>> /\ handled' = None
    BY <1>1, Zenon DEF Close
  <2> QED
    BY <1>1, <2>1, Closed, Zenon
<1>2. CASE TimeOut \/ RefuseUpgrade \/ RefuseChallenge \/ HandleClose \/ CannotReply
           \/ CannotSendTelemetry \/ LoseConnection \/ Restart
  <2>1. Close
    BY <1>2, Zenon DEF TimeOut, RefuseUpgrade, RefuseChallenge, HandleClose, CannotReply,
       CannotSendTelemetry, EndOnPartialSend, LoseConnection, Restart
  <2> QED
    BY <1>1, <2>1
<1>3. CASE AcceptWebSocket \/ DeadlinePasses \/ ReadUpgradeRequest \/ SendTelemetry \/ Report
  <2>1. /\ UNCHANGED <<wire, fragmented, messages, open, owed, malformed, received, frames, handled>>
        /\ stage' \in {"listening", "upgrade"} => stage \in {"listening", "upgrade"}
        /\ stage' \in {"listening", "upgrade", "challenge", "session"}
        /\ late' \in BOOLEAN /\ request' \in 0..Upgrade
    <3>1. PlaceInv
      BY DEF IInv
    <3>2. CASE AcceptWebSocket \/ DeadlinePasses \/ SendTelemetry \/ Report
      BY <3>1, <3>2, Zenon DEF AcceptWebSocket, DeadlinePasses, SendTelemetry, Report, PlaceInv,
         peerVars, decoderVars
    <3>3. CASE ReadUpgradeRequest
      BY <3>1, <3>3, Sizes DEF ReadUpgradeRequest, PlaceInv, peerVars, decoderVars
    <3> QED
      BY <1>3, <3>2, <3>3
  <2>2. StreamInv'
    BY <2>1, StreamUntouched, Zenon DEF IInv
  <2>3. PlaceInv'
    BY <2>1, Zenon DEF IInv, PlaceInv
  <2> QED
    BY <2>1, <2>2, <2>3
<1>4. CASE Push
  <2>1. UNCHANGED <<owed, handled>> \/ Close
    BY <1>4, Zenon DEF Push
  <2> QED
    BY <1>1, <1>4, <2>1, Received, Zenon
<1>5. CASE HandleChallenge \/ HandleMessage
  <2>1. /\ messages # <<>> /\ Continue /\ stage' \in {"challenge", "session"}
        /\ late' \in BOOLEAN
    BY <1>5, Zenon DEF HandleChallenge, HandleMessage, IInv, PlaceInv
  <2> QED
    BY <2>1, Continued, Zenon
<1>6. ASSUME NEW opcode \in Data, NEW length \in Lengths, NEW final \in BOOLEAN,
             NEW mark \in Marks, SendData(opcode, length, final, mark)
      PROVE  /\ StreamInv' /\ PlaceInv' /\ handled' = handled
             /\ owed' = owed \/ \E message \in PeerMessage : owed' = Append(owed, message)
  BY <1>6, DataSent
<1>7. ASSUME NEW opcode \in Control, SendControlFrame(opcode)
      PROVE  /\ StreamInv' /\ PlaceInv' /\ handled' = handled
             /\ owed' = owed \/ \E message \in PeerMessage : owed' = Append(owed, message)
  BY <1>7, ControlFrameSent
<1>8. CASE SendMalformed
  <2>1. UNCHANGED <<owed, handled>>
    BY <1>8, Zenon DEF SendMalformed, PutFrame
  <2> QED
    BY <1>8, <2>1, MalformedSent, Zenon
<1> QED
  BY <1>2, <1>3, <1>4, <1>5, <1>6, <1>7, <1>8, Zenon DEF Next, Worker, Peer

\* The queue holds the reports that follow each other up to the last.
LEMMA QueueFacts ==
  ASSUME TelemetryInv
  PROVE  /\ telemetry \in Seq(Nat) /\ reported \in Nat
         /\ Len(telemetry) \in 0..reported /\ Len(telemetry) \in 0..Capacity
         /\ sent.part \in BOOLEAN /\ sent.report \in Nat
         /\ sent.report <= reported - Len(telemetry)
         /\ telemetry # <<>> =>
              /\ Head(telemetry) = (reported - Len(telemetry)) + 1
              /\ Tail(telemetry) \in Seq(Nat) /\ Len(Tail(telemetry)) = Len(telemetry) - 1
              /\ Len(telemetry) > 0
              /\ \A i \in 1..Len(Tail(telemetry)) : Tail(telemetry)[i] = telemetry[i + 1]
<1> USE Sizes DEF TelemetryInv
<1>1. /\ telemetry \in Seq(Nat) /\ reported \in Nat
      /\ Len(telemetry) \in 0..reported /\ Len(telemetry) \in 0..Capacity
      /\ sent.part \in BOOLEAN /\ sent.report \in Nat
      /\ sent.report <= reported - Len(telemetry)
  OBVIOUS
<1>2. ASSUME telemetry # <<>>
      PROVE  /\ Head(telemetry) = (reported - Len(telemetry)) + 1
             /\ Tail(telemetry) \in Seq(Nat) /\ Len(Tail(telemetry)) = Len(telemetry) - 1
             /\ Len(telemetry) > 0
             /\ \A i \in 1..Len(Tail(telemetry)) : Tail(telemetry)[i] = telemetry[i + 1]
  <2>1. Head(telemetry) = telemetry[1] /\ Len(telemetry) > 0
    BY <1>2
  <2>2. /\ Tail(telemetry) \in Seq(Nat) /\ Len(Tail(telemetry)) = Len(telemetry) - 1
        /\ \A i \in 1..Len(Tail(telemetry)) : Tail(telemetry)[i] = telemetry[i + 1]
    BY <1>2
  <2>3. telemetry[1] = (reported - Len(telemetry)) + 1
    BY <2>1
  <2> QED
    BY <2>1, <2>2, <2>3
<1> QED
  BY <1>1, <1>2

\* A report is added, at the cost of the oldest where the queue is full.
LEMMA Queued ==
  ASSUME TelemetryInv, reported' = reported + 1, telemetry' = Enqueue(telemetry, reported'),
         UNCHANGED <<sent, stage>>
  PROVE  TelemetryInv'
<1> DEFINE kept == IF Len(telemetry) < Capacity THEN telemetry ELSE Tail(telemetry)
<1>1. /\ kept \in Seq(Nat) /\ Len(kept) < Capacity /\ Len(kept) \in 0..Len(telemetry)
      /\ \A i \in 1..Len(kept) : kept[i] = (reported - Len(kept)) + i
  <2>1. CASE Len(telemetry) < Capacity
    BY <2>1, QueueFacts DEF TelemetryInv
  <2>2. CASE ~(Len(telemetry) < Capacity)
    <3>1. kept = Tail(telemetry) /\ Len(telemetry) = Capacity
      BY <2>2, QueueFacts, Sizes
    <3>2. telemetry # <<>>
      BY <3>1, Sizes
    <3>3. Len(Tail(telemetry)) = Len(telemetry) - 1
      BY <3>2, QueueFacts
    <3>4. \A i \in 1..Len(Tail(telemetry)) :
            Tail(telemetry)[i] = (reported - Len(telemetry)) + (i + 1)
      BY <3>2, <3>3, QueueFacts DEF TelemetryInv
    <3>5. /\ Len(kept) = Len(telemetry) - 1 /\ kept \in Seq(Nat)
          /\ Len(telemetry) \in Nat \ {0} /\ Len(telemetry) = Capacity /\ reported \in Nat
      BY <3>1, <3>2, <3>3, QueueFacts, Sizes
    <3>6. \A i \in 1..Len(kept) : kept[i] = (reported - Len(telemetry)) + (i + 1)
      BY <3>1, <3>4
    <3> HIDE DEF kept
    <3> QED
      BY <3>5, <3>6
  <2> QED
    BY <2>1, <2>2
<1>2. telemetry' = Append(kept, reported + 1)
  BY Zenon DEF Enqueue
<1> HIDE DEF kept
<1>3. /\ telemetry' \in Seq(Nat) /\ Len(telemetry') = Len(kept) + 1
      /\ telemetry'[Len(kept) + 1] = reported + 1
      /\ \A i \in 1..Len(kept) : telemetry'[i] = kept[i]
  <2>1. \A n \in Nat :
          /\ Append(kept, n) \in Seq(Nat) /\ Len(Append(kept, n)) = Len(kept) + 1
          /\ Append(kept, n)[Len(kept) + 1] = n
          /\ \A i \in 1..Len(kept) : Append(kept, n)[i] = kept[i]
    BY <1>1
  <2>2. reported + 1 \in Nat
    BY QueueFacts
  <2> QED
    BY <1>2, <2>1, <2>2, Zenon
<1>4. \A i \in 1..Len(telemetry') : telemetry'[i] = (reported' - Len(telemetry')) + i
  <2> SUFFICES ASSUME NEW i \in 1..Len(telemetry')
               PROVE  telemetry'[i] = (reported' - Len(telemetry')) + i
    OBVIOUS
  <2>1. /\ Len(kept) \in Nat /\ reported \in Nat /\ reported' = reported + 1
        /\ Len(telemetry') = Len(kept) + 1
    BY <1>1, <1>3, QueueFacts
  <2>2. CASE i = Len(kept) + 1
    <3>1. telemetry'[i] = reported + 1
      BY <1>3, <2>2, Zenon
    <3> QED
      BY <2>1, <2>2, <3>1
  <2>3. CASE i \in 1..Len(kept)
    <3>1. telemetry'[i] = (reported - Len(kept)) + i
      BY <1>1, <1>3, <2>3, Zenon
    <3> QED
      BY <2>1, <2>3, <3>1
  <2> QED
    BY <2>1, <2>2, <2>3
<1>5. /\ reported' \in Nat /\ Len(telemetry') <= Capacity /\ Len(telemetry') <= reported'
      /\ sent.report <= reported' - Len(telemetry')
  <2>1. /\ Len(kept) \in Nat /\ Len(kept) < Capacity /\ Len(kept) <= Len(telemetry)
        /\ Capacity \in Nat
        /\ reported' = reported + 1 /\ Len(telemetry') = Len(kept) + 1
    BY <1>1, <1>3, QueueFacts, Sizes
  <2>2. /\ Len(telemetry) \in Nat /\ Len(telemetry) <= reported /\ reported \in Nat
        /\ sent.report \in Nat /\ sent.report <= reported - Len(telemetry)
    BY QueueFacts
  <2> QED
    BY <2>1, <2>2
<1>6. UNCHANGED <<sent, stage>> /\ sent \in [part : BOOLEAN, report : Nat]
      /\ (sent.part => stage = "listening")
  BY Zenon DEF TelemetryInv
<1> QED
  BY <1>3, <1>4, <1>5, <1>6, Zenon DEF TelemetryInv

\* What a step does with the reports and with what is sent.
LEMMA ReportsKept ==
  ASSUME IInv, Next
  PROVE  /\ TelemetryInv'
         /\ sent' # sent =>
              /\ sent.part => AcceptWebSocket
              /\ sent'.report # sent.report =>
                   sent'.report > sent.report /\ sent'.report > reported - Capacity
<1> DEFINE Good == /\ TelemetryInv'
                   /\ sent' # sent =>
                        /\ sent.part => AcceptWebSocket
                        /\ sent'.report # sent.report =>
                             sent'.report > sent.report /\ sent'.report > reported - Capacity
<1>1. TelemetryInv /\ sent \in [part : BOOLEAN, report : Nat] /\ (sent.part => stage = "listening")
      /\ (stage \in {"listening", "upgrade"} => messages = <<>>)
  BY DEF IInv, TelemetryInv, PlaceInv
<1>2. /\ SendWhole => sent' \in [part : BOOLEAN, report : Nat]
                      /\ sent'.part = FALSE /\ sent'.report = sent.report
      /\ SendPart => sent' \in [part : BOOLEAN, report : Nat]
                     /\ sent'.part = TRUE /\ sent'.report = sent.report
  BY <1>1 DEF SendWhole, SendPart
\* The reports stay as they are, and what was sent is followed by the whole of a frame.
<1>3. ASSUME UNCHANGED <<telemetry, reported>>, SendWhole, stage # "listening" \/ AcceptWebSocket
      PROVE  Good
  BY <1>1, <1>2, <1>3 DEF TelemetryInv
<1>4. ASSUME UNCHANGED <<telemetry, reported, sent>>, stage' = "listening" \/ stage # "listening"
      PROVE  Good
  BY <1>1, <1>4 DEF TelemetryInv
<1>5. CASE AcceptWebSocket
  BY <1>3, <1>5 DEF AcceptWebSocket, queueVars
<1>6. CASE DeadlinePasses \/ TimeOut \/ RefuseUpgrade \/ Push \/ HandleClose \/ LoseConnection \/ Peer
  <2>1. UNCHANGED <<telemetry, reported, sent>>
    BY <1>6, ZenonT(40) DEF DeadlinePasses, TimeOut, RefuseUpgrade, Push, HandleClose, LoseConnection,
       Peer, SendData, SendControlFrame, SendMalformed, PutFrame, queueVars
  <2>2. stage # "listening"
    BY <1>6 DEF DeadlinePasses, TimeOut, RefuseUpgrade, Push, HandleClose, LoseConnection,
       Peer, SendData, SendControlFrame, SendMalformed, PeerReady
  <2> QED
    BY <1>4, <2>1, <2>2
<1>7. CASE ReadUpgradeRequest \/ HandleChallenge \/ RefuseChallenge \/ HandleMessage
  <2>1. UNCHANGED <<telemetry, reported>> /\ stage # "listening" /\ (SendWhole \/ sent' = sent)
    BY <1>7 DEF ReadUpgradeRequest, HandleChallenge, RefuseChallenge, HandleMessage, Continue,
       queueVars
  <2> QED
    BY <1>3, <1>4, <2>1
<1>8. CASE CannotReply
  <2>1. /\ UNCHANGED <<telemetry, reported>> /\ stage # "listening"
        /\ SendPart \/ sent' = sent
        /\ stage' = "listening"
    BY <1>1, <1>8 DEF CannotReply, Close, queueVars
  <2>2. CASE sent' = sent
    BY <1>4, <2>1, <2>2
  <2>3. CASE SendPart
    BY <1>1, <1>2, <2>1, <2>3 DEF TelemetryInv
  <2> QED
    BY <2>1, <2>2, <2>3
<1>9. CASE Restart
  <2>1. telemetry' = <<>> /\ UNCHANGED <<reported, sent>> /\ stage' = "listening"
    BY <1>9 DEF Restart, Close
  <2>2. telemetry' \in Seq(Nat) /\ Len(telemetry') = 0
    BY <2>1
  <2>3. TelemetryInv'
    BY <1>1, <2>1, <2>2, QueueFacts, Sizes DEF TelemetryInv
  <2> QED
    BY <2>1, <2>3
<1>10. CASE Report
  <2>1. /\ reported' = reported + 1 /\ telemetry' = Enqueue(telemetry, reported')
        /\ UNCHANGED <<sent, stage>>
    BY <1>10, Zenon DEF Report
  <2> QED
    BY <1>1, <2>1, Queued, Zenon
<1>11. ASSUME telemetry # <<>>, telemetry' = Tail(telemetry), reported' = reported,
              sent' \in [part : BOOLEAN, report : Nat],
              sent'.report \in {sent.report, Head(telemetry)},
              sent'.part => stage' = "listening"
       PROVE  TelemetryInv'
  <2>1. \A i \in 1..Len(telemetry') : telemetry'[i] = (reported - Len(telemetry')) + i
    BY <1>1, <1>11, QueueFacts DEF TelemetryInv
  <2> QED
    BY <1>1, <1>11, <2>1, QueueFacts, Sizes DEF TelemetryInv
<1>12. CASE SendTelemetry
  <2>1. /\ telemetry # <<>> /\ telemetry' = Tail(telemetry) /\ reported' = reported
        /\ sent' = [part |-> FALSE, report |-> Head(telemetry)]
        /\ stage = "session" /\ stage' = stage
    BY <1>12, Zenon DEF SendTelemetry
  <2>2. Head(telemetry) \in Nat /\ sent.report < Head(telemetry)
        /\ Head(telemetry) > reported - Capacity
    BY <1>1, <2>1, QueueFacts, Sizes
  <2>3. /\ sent' \in [part : BOOLEAN, report : Nat] /\ sent'.part = FALSE
        /\ sent'.report = Head(telemetry)
    BY <2>1, <2>2
  <2> QED
    BY <1>1, <1>11, <2>1, <2>2, <2>3
<1>13. CASE CannotSendTelemetry
  <2>1. /\ telemetry # <<>> /\ telemetry' = Tail(telemetry) /\ reported' = reported
        /\ sent' = sent \/ SendPart
        /\ stage = "session" /\ stage' = "listening"
    BY <1>13, Zenon DEF CannotSendTelemetry, EndOnPartialSend, Close
  <2>2. sent' \in [part : BOOLEAN, report : Nat] /\ sent'.report = sent.report
    BY <1>1, <1>2, <2>1
  <2> QED
    BY <1>1, <1>11, <2>1, <2>2
<1> QED
  BY <1>5, <1>6, <1>7, <1>8, <1>9, <1>10, <1>12, <1>13, Zenon DEF Next, Worker

-----------------------------------------------------------------------------
(* The theorems.                                                           *)

\* The invariant holds initially.
LEMMA InitIInv == Init => IInv
<1> SUFFICES ASSUME Init PROVE IInv
  OBVIOUS
<1>1. Nothing
  BY DEF Init, Nothing
<1>2. StreamInv
  BY <1>1, StreamBegins
<1>3. PlaceInv
  <2>1. Len(wire) = 0
    BY DEF Init
  <2>2. Len(wire) <= frames /\ frames \in 0..MaxFrames /\ 0 \in 0..Upgrade
        /\ 0 \in 0..MaxMessage + 1
    BY <2>1, Sizes DEF Init
  <2> QED
    BY <2>2, Zenon DEF Init, PlaceInv
<1>4. TelemetryInv
  <2>1. telemetry \in Seq(Nat) /\ Len(telemetry) = 0
    BY DEF Init
  <2> QED
    BY <2>1, Sizes DEF Init, TelemetryInv
<1> QED
  BY <1>2, <1>3, <1>4 DEF IInv

\* Every step keeps the invariant.
LEMMA Invariance == Spec => []IInv
<1>1. IInv /\ [Next]_vars => IInv'
  <2> SUFFICES ASSUME IInv, [Next]_vars PROVE IInv'
    OBVIOUS
  <2>1. CASE Next
    BY <2>1, StepKept, ReportsKept, Zenon DEF IInv
  <2>2. CASE UNCHANGED vars
    <3>1. UNCHANGED <<wire, fragmented, messages, open, owed, malformed, stage, late, request,
                      received, frames, handled, telemetry, reported, sent>>
      BY <2>2, Zenon DEF vars
    <3>2. StreamInv'
      BY <3>1, StreamUntouched, Zenon DEF IInv
    <3>3. PlaceInv' /\ TelemetryInv'
      BY <3>1, Zenon DEF IInv, PlaceInv, TelemetryInv
    <3> QED
      BY <3>2, <3>3, Zenon DEF IInv
  <2> QED
    BY <2>1, <2>2
<1> QED
  BY <1>1, InitIInv, PTL DEF Spec

\* The buffer never holds a whole frame, the fragment no more than a message, and
\* the queue no more than its capacity.
THEOREM TypeCorrectness == Spec => []TypeOK
<1>1. IInv => TypeOK
  <2> SUFFICES ASSUME IInv PROVE TypeOK
    OBVIOUS
  <2>1. PICK run : Decodes(run)
    BY Zenon DEF IInv, StreamInv
  <2>2. /\ Len(wire) \in Nat /\ messages \in Seq(PeerMessage) /\ owed \in Seq(PeerMessage)
        /\ fragmented \in Fragment \cup {None}
    BY <2>1, StreamFacts, Zenon DEF IInv
  <2>3. fragmented # None => /\ fragmented.opcode \in Data
                             /\ fragmented.size \in 0..MaxMessage
    BY <2>2 DEF Fragment
  <2>4. Len(wire) <= MaxFrames
    BY <2>2, Sizes DEF IInv, PlaceInv
  <2>5. Len(telemetry) <= Capacity
    BY DEF IInv, TelemetryInv
  <2> QED
    BY <2>2, <2>3, <2>4, <2>5, Zenon DEF IInv, PlaceInv, TypeOK
<1> QED
  BY <1>1, Invariance, PTL

\* The decoder ends no connection of a peer that keeps to the protocol, however
\* the stream is cut and whatever was left in the buffer.
THEOREM LegalPeersServed == Spec => OnlyMalformedRejected
<1>1. IInv /\ [Next]_vars => [(Push /\ stage' = "listening") => malformed]_vars
  BY Received
<1> QED
  BY <1>1, Invariance, PTL DEF Spec, OnlyMalformedRejected

\* Reports leave in order, from among the last of them, and none after a frame
\* that was cut short.
THEOREM ReportsInOrder == Spec => SendsInOrder
<1> DEFINE Step == sent' # sent =>
                     /\ sent.part => AcceptWebSocket
                     /\ sent'.report # sent.report =>
                          sent'.report > sent.report /\ sent'.report > reported - Capacity
<1>1. IInv /\ [Next]_vars => [Step]_vars
  BY ReportsKept
<1> QED
  BY <1>1, Invariance, PTL DEF Spec, SendsInOrder

\* The decoder implements a stream of messages: each that the peer completed is
\* handled whole, once and in its turn.
THEOREM MessagesDelivered == Spec => StreamDelivered
<1>1. Init => Stream!Init
  BY DEF Init, Stream!Init
<1>2. IInv /\ [Next]_vars => [Stream!Next]_<<owed, handled>>
  <2> SUFFICES ASSUME IInv, Next, ~UNCHANGED <<owed, handled>> PROVE Stream!Next
    BY Zenon DEF vars
  <2>1. PICK run : Decodes(run)
    BY Zenon DEF IInv, StreamInv
  <2>2. owed \in Seq(PeerMessage)
    BY <2>1, StreamFacts, Zenon DEF IInv
  <2>3. CASE owed' = <<>> /\ handled' = None
    BY <2>3, Zenon DEF Stream!Next, Stream!Reconnect
  <2>4. CASE owed # <<>> /\ handled' = Head(owed) /\ owed' = Tail(owed)
    BY <2>4, Zenon DEF Stream!Next, Stream!Handle
  <2>5. CASE handled' = handled /\ \E message \in PeerMessage : owed' = Append(owed, message)
    <3>1. PICK message \in PeerMessage : owed' = Append(owed, message)
      BY <2>5
    <3>2. Append(owed, message) # <<>> /\ Front(Append(owed, message)) = owed
      <4> HIDE DEF PeerMessage
      <4> QED
        BY <2>2 DEF Front
    <3>3. owed' # <<>> /\ Front(owed') = owed
      BY <3>1, <3>2, Zenon
    <3> QED
      BY <2>5, <3>3, Zenon DEF Stream!Next, Stream!Complete, Front, Stream!Front
  <2> QED
    BY <2>3, <2>4, <2>5, StepKept, Zenon
<1> QED
  BY <1>1, <1>2, Invariance, PTL DEF Spec, StreamDelivered, Stream!Spec

=============================================================================
