------------------------ MODULE SenderDeliveryProofs ------------------------
(***************************************************************************)
(* What the sending side of a capture guarantees for any contracts, depth  *)
(* of the encoder and number of epochs: the inductive invariant IInv of    *)
(* SenderDelivery, and the refinement of DecodableStream.                  *)
(***************************************************************************)
EXTENDS SenderDelivery, TLAPS

\* A capture starts with nothing encoded, connected or sent.
LEMMA InitIInv == Init => IInv
<1>. SUFFICES ASSUME Init PROVE IInv
  OBVIOUS
<1>1. TypeOK
  <2>1. allocated \in Epoch /\ sourceEpoch \in Epoch
    BY EpochAssumption DEF Init, Epoch
  <2>2. inEncoder \in Seq(Chunk) /\ Len(inEncoder) <= MaxInFlight
    BY InFlightAssumption DEF Init
  <2>. QED
    BY <2>1, <2>2 DEF Init, TypeOK, FlagsOK, PositionsOK, ValuesOK
<1>2. ControlInv /\ RecoveryUnderWay /\ CurrentInv /\ KeyframeComing /\ ChainInv
  BY DEF Init, ControlInv, RecoveryUnderWay, CurrentInv, OwnSession,
         KeyframeComing, ChainInv, Connected
<1>. QED
  BY <1>1, <1>2 DEF IInv

\* The empty sequence holds chunks, and none too many.
LEMMA EmptyIsSeq == << >> \in Seq(Chunk) /\ Len(<< >>) = 0
  OBVIOUS

\* Every step keeps the flags and positions in their ranges.
LEMMA FlagsStep ==
  ASSUME FlagsOK, PositionsOK, [Next]_vars
  PROVE  FlagsOK' /\ PositionsOK'
<1>. USE DEF FlagsOK, PositionsOK
<1>1. ASSUME NEW p \in BOOLEAN, EncodeFrame(p) PROVE FlagsOK' /\ PositionsOK'
  BY <1>1 DEF EncodeFrame, EncoderHasRoom, encoderVars, connVars, wireVars
<1>2. CASE IgnoreChunk
  BY <1>2 DEF IgnoreChunk, Emit, encoderVars, policyVars, connVars, wireVars
<1>3. CASE DropChunk
  BY <1>3 DEF DropChunk, Emit, RequireKeyFrame, encoderVars, connVars
<1>4. CASE SendChunk
  BY <1>4 DEF SendChunk, Emit, CanDeliver, Connected, encoderVars, connVars
<1>5. CASE ReceiveKeyFrameRequest
  BY <1>5 DEF ReceiveKeyFrameRequest, Connected, RequireKeyFrame, encoderVars,
         connVars, wireVars
<1>6. CASE LoseConnection
  BY <1>6 DEF LoseConnection, Connected, encoderVars, policyVars
<1>7. CASE CloseEvent
  BY <1>7 DEF CloseEvent, MayRecover, encoderVars, policyVars, wireVars,
         Reconfiguring
<1>8. CASE AttemptRecovery
  BY <1>8 DEF AttemptRecovery, encoderVars, policyVars, wireVars
<1>9. CASE RetryRecovery
  BY <1>9 DEF RetryRecovery, encoderVars, policyVars, wireVars
<1>10. CASE Reconnect
  BY <1>10 DEF Reconnect, OpenSession, RestartStream, RequireKeyFrame,
         encoderVars
<1>11. ASSUME GiveUp PROVE FlagsOK' /\ PositionsOK'
  BY <1>11 DEF GiveUp, encoderVars, policyVars, wireVars
<1>12. ASSUME NEW c \in Contracts, StartCapture(c) PROVE FlagsOK' /\ PositionsOK'
  BY <1>12 DEF StartCapture, ResetPolicy, connVars, wireVars
<1>13. ASSUME NEW c \in Contracts, SourceChanges(c) PROVE FlagsOK' /\ PositionsOK'
  BY <1>13 DEF SourceChanges, encoderVars, policyVars, connVars, wireVars
<1>14. CASE EpochAllocated
  BY <1>14 DEF EpochAllocated, encoderVars, policyVars, wireVars
<1>15. CASE ReplaceSource
  BY <1>15 DEF ReplaceSource, CloseConnection, NoSession, CloseEncoder,
         ResetPolicy
<1>16. CASE CreateEncoder
  BY <1>16 DEF CreateEncoder, policyVars, wireVars
<1>17. CASE Connect
  BY <1>17 DEF Connect, OpenSession, RequireKeyFrame, encoderVars
<1>18. CASE FailSource
  BY <1>18 DEF FailSource, CloseConnection, NoSession, encoderVars, policyVars
<1>19. CASE Stop
  BY <1>19 DEF Stop, encoderVars, policyVars, wireVars
<1>20. CASE StopVideoEncoder
  BY <1>20 DEF StopVideoEncoder, CloseEncoder, policyVars, connVars, wireVars
<1>21. CASE CloseReceiver
  BY <1>21 DEF CloseReceiver, CloseConnection, NoSession, policyVars
<1>22. CASE UNCHANGED vars
  BY <1>22 DEF vars
<1>. QED
  BY <1>1, <1>2, <1>3, <1>4, <1>5, <1>6, <1>7, <1>8, <1>9, <1>10, <1>11,
     <1>12, <1>13, <1>14, <1>15, <1>16, <1>17, <1>18, <1>19, <1>20, <1>21,
     <1>22
     DEF Next, Pictures, Recover, ChangeSource

\* Every step keeps epochs, contracts, bindings and chunks in their types.
LEMMA ValuesStep ==
  ASSUME FlagsOK, ValuesOK, ControlInv, [Next]_vars
  PROVE  ValuesOK'
<1>. USE DEF ValuesOK
<1>1. ASSUME NEW p \in BOOLEAN, EncodeFrame(p) PROVE ValuesOK'
  <2>1. inEncoder \in Seq(Chunk) /\ Len(inEncoder) < MaxInFlight
    BY <1>1 DEF EncodeFrame, EncoderHasRoom
  <2>2. encoder \in Binding /\ required \in BOOLEAN
    BY <1>1 DEF EncodeFrame, ControlInv, FlagsOK
  <2>3. PICK chunk : chunk \in Chunk /\ inEncoder' = Append(inEncoder, chunk)
    BY <1>1, <2>2 DEF EncodeFrame, Chunk
  <2>4. inEncoder' \in Seq(Chunk) /\ Len(inEncoder') <= MaxInFlight
    BY <2>1, <2>3, InFlightAssumption
  <2>. QED
    BY <1>1, <2>4 DEF EncodeFrame, encoderVars, connVars, wireVars
<1>2. CASE IgnoreChunk
  <2>1. inEncoder' \in Seq(Chunk) /\ Len(inEncoder') <= MaxInFlight
    BY <1>2, InFlightAssumption DEF IgnoreChunk, Emit
  <2>. QED
    BY <1>2, <2>1 DEF IgnoreChunk, encoderVars, policyVars, connVars, wireVars
<1>3. CASE DropChunk
  <2>1. inEncoder' \in Seq(Chunk) /\ Len(inEncoder') <= MaxInFlight
    BY <1>3, InFlightAssumption DEF DropChunk, Emit
  <2>. QED
    BY <1>3, <2>1 DEF DropChunk, RequireKeyFrame, encoderVars, connVars
<1>4. CASE SendChunk
  <2>1. Head(inEncoder) \in Chunk
    BY <1>4 DEF SendChunk, Emit
  <2>2. wire' \in Session
    BY <1>4, <2>1 DEF SendChunk, Chunk, Binding, Session
  <2>3. inEncoder' \in Seq(Chunk) /\ Len(inEncoder') <= MaxInFlight
    BY <1>4, InFlightAssumption DEF SendChunk, Emit
  <2>. QED
    BY <1>4, <2>2, <2>3
       DEF SendChunk, Emit, encoderVars, connVars
<1>5. CASE ReceiveKeyFrameRequest
  BY <1>5 DEF ReceiveKeyFrameRequest, Connected, RequireKeyFrame, encoderVars,
         connVars, wireVars
<1>6. CASE LoseConnection
  BY <1>6 DEF LoseConnection, Connected, encoderVars, policyVars
<1>7. CASE CloseEvent
  BY <1>7 DEF CloseEvent, MayRecover, encoderVars, policyVars, wireVars,
         Reconfiguring
<1>8. CASE AttemptRecovery
  BY <1>8 DEF AttemptRecovery, encoderVars, policyVars, wireVars
<1>9. CASE RetryRecovery
  BY <1>9 DEF RetryRecovery, encoderVars, policyVars, wireVars
<1>10. CASE Reconnect
  BY <1>10 DEF Reconnect, OpenSession, RestartStream, RequireKeyFrame,
         encoderVars
<1>11. ASSUME GiveUp PROVE ValuesOK'
  BY <1>11 DEF GiveUp, encoderVars, policyVars, wireVars
<1>12. ASSUME NEW c \in Contracts, StartCapture(c) PROVE ValuesOK'
  <2>1. allocated' \in Epoch /\ sourceEpoch' \in Epoch
    BY <1>12, EpochAssumption DEF StartCapture, Epoch
  <2>. QED
    BY <1>12, <2>1 DEF StartCapture, ResetPolicy, connVars, wireVars
<1>13. ASSUME NEW c \in Contracts, SourceChanges(c) PROVE ValuesOK'
  BY <1>13 DEF SourceChanges, encoderVars, policyVars, connVars, wireVars
<1>14. CASE EpochAllocated
  <2>1. allocated' \in Epoch
    BY <1>14, EpochAssumption DEF EpochAllocated, ControlInv, Epoch
  <2>. QED
    BY <1>14, <2>1 DEF EpochAllocated, encoderVars, policyVars, wireVars
<1>15. CASE ReplaceSource
  <2>1. inEncoder' \in Seq(Chunk) /\ Len(inEncoder') <= MaxInFlight
    <3>1. inEncoder' = << >> \/ inEncoder' = inEncoder
      BY <1>15 DEF ReplaceSource, CloseEncoder
    <3>2. CASE inEncoder' = << >>
      BY <3>2, InFlightAssumption, EmptyIsSeq
    <3>3. CASE inEncoder' = inEncoder
      BY <3>3
    <3>. QED
      BY <3>1, <3>2, <3>3
  <2>2. generation' \in Nat
    BY <1>15 DEF ReplaceSource, CloseEncoder
  <2>. QED
    BY <1>15, <2>1, <2>2
       DEF ReplaceSource, CloseConnection, NoSession, CloseEncoder, ResetPolicy
<1>16. CASE CreateEncoder
  <2>1. nextContract \in Contracts
    BY <1>16 DEF CreateEncoder, ControlInv
  <2>2. generation' \in Nat /\ encoder' \in Binding /\ session' \in Session
    BY <1>16, <2>1 DEF CreateEncoder, Binding, Session
  <2>. QED
    BY <1>16, <2>1, <2>2 DEF CreateEncoder, policyVars, wireVars
<1>17. CASE Connect
  BY <1>17 DEF Connect, OpenSession, RequireKeyFrame, encoderVars
<1>18. CASE FailSource
  BY <1>18 DEF FailSource, CloseConnection, NoSession, encoderVars, policyVars
<1>19. CASE Stop
  BY <1>19 DEF Stop, encoderVars, policyVars, wireVars
<1>20. CASE StopVideoEncoder
  <2>1. inEncoder' \in Seq(Chunk) /\ Len(inEncoder') <= MaxInFlight
    <3>1. inEncoder' = << >> \/ inEncoder' = inEncoder
      BY <1>20 DEF StopVideoEncoder, CloseEncoder
    <3>2. CASE inEncoder' = << >>
      BY <3>2, InFlightAssumption, EmptyIsSeq
    <3>3. CASE inEncoder' = inEncoder
      BY <3>3
    <3>. QED
      BY <3>1, <3>2, <3>3
  <2>2. generation' \in Nat
    BY <1>20 DEF StopVideoEncoder, CloseEncoder
  <2>. QED
    BY <1>20, <2>1, <2>2
       DEF StopVideoEncoder, CloseEncoder, policyVars, connVars, wireVars
<1>21. CASE CloseReceiver
  BY <1>21 DEF CloseReceiver, CloseConnection, NoSession, policyVars
<1>22. CASE UNCHANGED vars
  BY <1>22 DEF vars
<1>. QED
  BY <1>1, <1>2, <1>3, <1>4, <1>5, <1>6, <1>7, <1>8, <1>9, <1>10, <1>11,
     <1>12, <1>13, <1>14, <1>15, <1>16, <1>17, <1>18, <1>19, <1>20, <1>21,
     <1>22
     DEF Next, Pictures, Recover, ChangeSource

\* Every step keeps positions, encoder and connection together, and a capture
\* that has lost its connection in recovery.
LEMMA ControlStep ==
  ASSUME TypeOK, ControlInv, RecoveryUnderWay, [Next]_vars
  PROVE  ControlInv' /\ RecoveryUnderWay'
<1>. USE DEF ControlInv, RecoveryUnderWay
<1>1. ASSUME NEW p \in BOOLEAN, EncodeFrame(p) PROVE ControlInv' /\ RecoveryUnderWay'
  BY <1>1, NoneAssumption DEF EncodeFrame, EncoderHasRoom, encoderVars,
         connVars, wireVars
<1>2. CASE IgnoreChunk
  BY <1>2, NoneAssumption DEF IgnoreChunk, Emit, encoderVars, policyVars,
         connVars, wireVars
<1>3. CASE DropChunk
  BY <1>3, NoneAssumption DEF DropChunk, Emit, RequireKeyFrame, encoderVars,
         connVars
<1>4. CASE SendChunk
  BY <1>4, NoneAssumption DEF SendChunk, Emit, CanDeliver, Connected,
         encoderVars, connVars
<1>5. CASE ReceiveKeyFrameRequest
  BY <1>5, NoneAssumption DEF ReceiveKeyFrameRequest, Connected,
         RequireKeyFrame, encoderVars, connVars, wireVars
<1>6. CASE LoseConnection
  BY <1>6, NoneAssumption DEF LoseConnection, Connected, encoderVars,
         policyVars
<1>7. CASE CloseEvent
  BY <1>7, NoneAssumption DEF CloseEvent, MayRecover, encoderVars, policyVars,
         wireVars, Reconfiguring
<1>8. CASE AttemptRecovery
  BY <1>8, NoneAssumption DEF AttemptRecovery, encoderVars, policyVars,
         wireVars
<1>9. CASE RetryRecovery
  BY <1>9, NoneAssumption DEF RetryRecovery, encoderVars, policyVars, wireVars
<1>10. CASE Reconnect
  BY <1>10, NoneAssumption DEF Reconnect, OpenSession, RestartStream,
         RequireKeyFrame, encoderVars
<1>11. ASSUME GiveUp PROVE ControlInv' /\ RecoveryUnderWay'
  BY <1>11, NoneAssumption DEF GiveUp, encoderVars, policyVars, wireVars
<1>12. ASSUME NEW c \in Contracts, StartCapture(c) PROVE ControlInv' /\ RecoveryUnderWay'
  BY <1>12, NoneAssumption DEF StartCapture, ResetPolicy, connVars, wireVars
<1>13. ASSUME NEW c \in Contracts, SourceChanges(c) PROVE ControlInv' /\ RecoveryUnderWay'
  BY <1>13, NoneAssumption DEF SourceChanges, encoderVars, policyVars,
         connVars, wireVars
<1>14. CASE EpochAllocated
  BY <1>14, NoneAssumption DEF EpochAllocated, encoderVars, policyVars,
         wireVars
<1>15. CASE ReplaceSource
  BY <1>15, NoneAssumption DEF ReplaceSource, CloseConnection, NoSession,
         CloseEncoder, ResetPolicy
<1>16. CASE CreateEncoder
  <2>1. encoder' # None
    BY <1>16, NoneAssumption
       DEF CreateEncoder, ControlInv, TypeOK, ValuesOK, Binding
  <2>. QED
    BY <1>16, <2>1 DEF CreateEncoder, policyVars, wireVars
<1>17. CASE Connect
  BY <1>17, NoneAssumption DEF Connect, OpenSession, RequireKeyFrame,
         encoderVars
<1>18. CASE FailSource
  BY <1>18, NoneAssumption DEF FailSource, CloseConnection, NoSession,
         encoderVars, policyVars
<1>19. CASE Stop
  BY <1>19, NoneAssumption DEF Stop, encoderVars, policyVars, wireVars
<1>20. CASE StopVideoEncoder
  BY <1>20, NoneAssumption DEF StopVideoEncoder, CloseEncoder, policyVars,
         connVars, wireVars
<1>21. CASE CloseReceiver
  BY <1>21, NoneAssumption DEF CloseReceiver, CloseConnection, NoSession,
         policyVars
<1>22. CASE UNCHANGED vars
  BY <1>22 DEF vars
<1>. QED
  BY <1>1, <1>2, <1>3, <1>4, <1>5, <1>6, <1>7, <1>8, <1>9, <1>10, <1>11,
     <1>12, <1>13, <1>14, <1>15, <1>16, <1>17, <1>18, <1>19, <1>20, <1>21,
     <1>22
     DEF Next, Pictures, Recover, ChangeSource

\* Every step keeps the encoder and the connection those of the source.
LEMMA CurrentStep ==
  ASSUME TypeOK, ControlInv, RecoveryUnderWay, CurrentInv, [Next]_vars
  PROVE  CurrentInv'
<1>. USE DEF CurrentInv, OwnSession, ControlInv, RecoveryUnderWay,
        IsCurrentEncoderBinding
<1>1. ASSUME NEW p \in BOOLEAN, EncodeFrame(p) PROVE CurrentInv'
  BY <1>1 DEF EncodeFrame, EncoderHasRoom, encoderVars, connVars, wireVars
<1>2. CASE IgnoreChunk
  BY <1>2 DEF IgnoreChunk, Emit, encoderVars, policyVars, connVars, wireVars
<1>3. CASE DropChunk
  BY <1>3 DEF DropChunk, Emit, RequireKeyFrame, encoderVars, connVars
<1>4. CASE SendChunk
  BY <1>4 DEF SendChunk, Emit, CanDeliver, Connected, encoderVars, connVars
<1>5. CASE ReceiveKeyFrameRequest
  BY <1>5 DEF ReceiveKeyFrameRequest, Connected, RequireKeyFrame, encoderVars,
         connVars, wireVars
<1>6. CASE LoseConnection
  BY <1>6 DEF LoseConnection, Connected, encoderVars, policyVars
<1>7. CASE CloseEvent
  BY <1>7 DEF CloseEvent, MayRecover, encoderVars, policyVars, wireVars,
         Reconfiguring
<1>8. CASE AttemptRecovery
  BY <1>8 DEF AttemptRecovery, encoderVars, policyVars, wireVars
<1>9. CASE RetryRecovery
  BY <1>9 DEF RetryRecovery, encoderVars, policyVars, wireVars
<1>10. CASE Reconnect
  BY <1>10 DEF Reconnect, OpenSession, RestartStream, RequireKeyFrame,
         encoderVars
<1>11. ASSUME GiveUp PROVE CurrentInv'
  BY <1>11 DEF GiveUp, encoderVars, policyVars, wireVars
<1>12. ASSUME NEW c \in Contracts, StartCapture(c) PROVE CurrentInv'
  BY <1>12 DEF StartCapture, ResetPolicy, connVars, wireVars
<1>13. ASSUME NEW c \in Contracts, SourceChanges(c) PROVE CurrentInv'
  BY <1>13 DEF SourceChanges, encoderVars, policyVars, connVars, wireVars
<1>14. CASE EpochAllocated
  BY <1>14 DEF EpochAllocated, encoderVars, policyVars, wireVars
<1>15. CASE ReplaceSource
  BY <1>15 DEF ReplaceSource, CloseConnection, NoSession, CloseEncoder,
         ResetPolicy
<1>16. CASE CreateEncoder
  BY <1>16 DEF CreateEncoder, policyVars, wireVars
<1>17. CASE Connect
  BY <1>17 DEF Connect, OpenSession, RequireKeyFrame, encoderVars
<1>18. CASE FailSource
  BY <1>18 DEF FailSource, CloseConnection, NoSession, encoderVars, policyVars
<1>19. CASE Stop
  BY <1>19 DEF Stop, encoderVars, policyVars, wireVars
<1>20. CASE StopVideoEncoder
  BY <1>20 DEF StopVideoEncoder, CloseEncoder, policyVars, connVars, wireVars
<1>21. CASE CloseReceiver
  BY <1>21 DEF CloseReceiver, CloseConnection, NoSession, policyVars
<1>22. CASE UNCHANGED vars
  BY <1>22 DEF vars
<1>. QED
  BY <1>1, <1>2, <1>3, <1>4, <1>5, <1>6, <1>7, <1>8, <1>9, <1>10, <1>11,
     <1>12, <1>13, <1>14, <1>15, <1>16, <1>17, <1>18, <1>19, <1>20, <1>21,
     <1>22
     DEF Next, Pictures, Recover, ChangeSource

\* Every step keeps a keyframe coming while delivery waits for one.
LEMMA KeyStep ==
  ASSUME TypeOK, ControlInv, CurrentInv, KeyframeComing, [Next]_vars
  PROVE  KeyframeComing'
<1>. USE DEF KeyframeComing, IsCurrentEncoderBinding
<1>1. ASSUME NEW p \in BOOLEAN, EncodeFrame(p) PROVE KeyframeComing'
  <2>1. inEncoder \in Seq(Chunk) /\ required \in BOOLEAN
    BY DEF TypeOK, ValuesOK, FlagsOK
  <2>2. CASE ~(required \/ p)
    BY <1>1, <2>1, <2>2 DEF EncodeFrame, encoderVars, EncoderHasRoom, Chunk
  <2>3. CASE required \/ p
    <3>. DEFINE chunk == [binding |-> encoder, key |-> TRUE]
    <3>1. inEncoder' = Append(inEncoder, chunk)
      BY <1>1, <2>1, <2>3 DEF EncodeFrame
    <3>2. /\ Len(inEncoder) + 1 \in DOMAIN inEncoder'
          /\ inEncoder'[Len(inEncoder) + 1] = chunk
      BY <2>1, <3>1
    <3>3. IsCurrentEncoderBinding(chunk.binding)'
      BY <1>1 DEF EncodeFrame, encoderVars, ControlInv, CurrentInv
    <3>. QED
      BY <1>1, <3>2, <3>3 DEF EncodeFrame, encoderVars
  <2>. QED
    BY <2>2, <2>3
<1>2. CASE IgnoreChunk
  <2>1. inEncoder \in Seq(Chunk) /\ inEncoder # <<>>
    BY <1>2 DEF TypeOK, ValuesOK, IgnoreChunk, Emit
  <2>2. ASSUME NEW i \in DOMAIN inEncoder, i # 1
        PROVE  i - 1 \in DOMAIN inEncoder' /\ inEncoder'[i - 1] = inEncoder[i]
    BY <1>2, <2>1, <2>2 DEF IgnoreChunk, Emit
  <2>. QED
    BY <1>2, <2>1, <2>2
       DEF IgnoreChunk, encoderVars, policyVars, connVars, wireVars
<1>3. CASE DropChunk
  BY <1>3 DEF DropChunk, Emit, RequireKeyFrame, encoderVars, connVars
<1>4. CASE SendChunk
  BY <1>4 DEF SendChunk, Emit, CanDeliver, Connected, encoderVars, connVars
<1>5. CASE ReceiveKeyFrameRequest
  BY <1>5 DEF ReceiveKeyFrameRequest, Connected, RequireKeyFrame, encoderVars,
         connVars, wireVars
<1>6. CASE LoseConnection
  BY <1>6 DEF LoseConnection, Connected, encoderVars, policyVars
<1>7. CASE CloseEvent
  BY <1>7 DEF CloseEvent, MayRecover, encoderVars, policyVars, wireVars,
         Reconfiguring
<1>8. CASE AttemptRecovery
  BY <1>8 DEF AttemptRecovery, encoderVars, policyVars, wireVars
<1>9. CASE RetryRecovery
  BY <1>9 DEF RetryRecovery, encoderVars, policyVars, wireVars
<1>10. CASE Reconnect
  BY <1>10 DEF Reconnect, OpenSession, RestartStream, RequireKeyFrame,
         encoderVars
<1>11. ASSUME GiveUp PROVE KeyframeComing'
  BY <1>11 DEF GiveUp, encoderVars, policyVars, wireVars
<1>12. ASSUME NEW c \in Contracts, StartCapture(c) PROVE KeyframeComing'
  BY <1>12 DEF StartCapture, ResetPolicy, connVars, wireVars
<1>13. ASSUME NEW c \in Contracts, SourceChanges(c) PROVE KeyframeComing'
  BY <1>13 DEF SourceChanges, encoderVars, policyVars, connVars, wireVars
<1>14. CASE EpochAllocated
  BY <1>14 DEF EpochAllocated, encoderVars, policyVars, wireVars
<1>15. CASE ReplaceSource
  BY <1>15 DEF ReplaceSource, CloseConnection, NoSession, CloseEncoder,
         ResetPolicy
<1>16. CASE CreateEncoder
  BY <1>16 DEF CreateEncoder, policyVars, wireVars
<1>17. CASE Connect
  BY <1>17 DEF Connect, OpenSession, RequireKeyFrame, encoderVars
<1>18. CASE FailSource
  BY <1>18 DEF FailSource, CloseConnection, NoSession, encoderVars, policyVars
<1>19. CASE Stop
  BY <1>19 DEF Stop, encoderVars, policyVars, wireVars
<1>20. CASE StopVideoEncoder
  BY <1>20 DEF StopVideoEncoder, CloseEncoder, policyVars, connVars, wireVars
<1>21. CASE CloseReceiver
  BY <1>21 DEF CloseReceiver, CloseConnection, NoSession, policyVars
<1>22. CASE UNCHANGED vars
  BY <1>22 DEF vars
<1>. QED
  BY <1>1, <1>2, <1>3, <1>4, <1>5, <1>6, <1>7, <1>8, <1>9, <1>10, <1>11,
     <1>12, <1>13, <1>14, <1>15, <1>16, <1>17, <1>18, <1>19, <1>20, <1>21,
     <1>22
     DEF Next, Pictures, Recover, ChangeSource

\* Every step keeps delivery shut while the stream is broken.
LEMMA ChainStep ==
  ASSUME TypeOK, ControlInv, RecoveryUnderWay, ChainInv, [Next]_vars
  PROVE  ChainInv'
<1>. USE DEF ChainInv, Connected, ControlInv, RecoveryUnderWay, TypeOK,
        FlagsOK
<1>1. ASSUME NEW p \in BOOLEAN, EncodeFrame(p) PROVE ChainInv'
  BY <1>1 DEF EncodeFrame, EncoderHasRoom, encoderVars, connVars, wireVars
<1>2. CASE IgnoreChunk
  BY <1>2 DEF IgnoreChunk, Emit, encoderVars, policyVars, connVars, wireVars
<1>3. CASE DropChunk
  BY <1>3 DEF DropChunk, Emit, RequireKeyFrame, encoderVars, connVars
<1>4. CASE SendChunk
  BY <1>4 DEF SendChunk, Emit, CanDeliver, encoderVars, connVars
<1>5. CASE ReceiveKeyFrameRequest
  BY <1>5 DEF ReceiveKeyFrameRequest, RequireKeyFrame, encoderVars, connVars,
         wireVars
<1>6. CASE LoseConnection
  BY <1>6 DEF LoseConnection, encoderVars, policyVars
<1>7. CASE CloseEvent
  BY <1>7 DEF CloseEvent, MayRecover, encoderVars, policyVars, wireVars,
         Reconfiguring
<1>8. CASE AttemptRecovery
  BY <1>8 DEF AttemptRecovery, encoderVars, policyVars, wireVars
<1>9. CASE RetryRecovery
  BY <1>9 DEF RetryRecovery, encoderVars, policyVars, wireVars
<1>10. CASE Reconnect
  BY <1>10 DEF Reconnect, OpenSession, RestartStream, RequireKeyFrame,
         encoderVars
<1>11. ASSUME GiveUp PROVE ChainInv'
  BY <1>11 DEF GiveUp, encoderVars, policyVars, wireVars
<1>12. ASSUME NEW c \in Contracts, StartCapture(c) PROVE ChainInv'
  BY <1>12 DEF StartCapture, ResetPolicy, connVars, wireVars
<1>13. ASSUME NEW c \in Contracts, SourceChanges(c) PROVE ChainInv'
  BY <1>13 DEF SourceChanges, encoderVars, policyVars, connVars, wireVars
<1>14. CASE EpochAllocated
  BY <1>14 DEF EpochAllocated, encoderVars, policyVars, wireVars
<1>15. CASE ReplaceSource
  BY <1>15 DEF ReplaceSource, CloseConnection, NoSession, CloseEncoder,
         ResetPolicy
<1>16. CASE CreateEncoder
  BY <1>16 DEF CreateEncoder, policyVars, wireVars
<1>17. CASE Connect
  BY <1>17 DEF Connect, OpenSession, RequireKeyFrame, encoderVars
<1>18. CASE FailSource
  BY <1>18 DEF FailSource, CloseConnection, NoSession, encoderVars, policyVars
<1>19. CASE Stop
  BY <1>19 DEF Stop, encoderVars, policyVars, wireVars
<1>20. CASE StopVideoEncoder
  BY <1>20 DEF StopVideoEncoder, CloseEncoder, policyVars, connVars, wireVars
<1>21. CASE CloseReceiver
  BY <1>21 DEF CloseReceiver, CloseConnection, NoSession, policyVars
<1>22. CASE UNCHANGED vars
  BY <1>22 DEF vars
<1>. QED
  BY <1>1, <1>2, <1>3, <1>4, <1>5, <1>6, <1>7, <1>8, <1>9, <1>10, <1>11,
     <1>12, <1>13, <1>14, <1>15, <1>16, <1>17, <1>18, <1>19, <1>20, <1>21,
     <1>22
     DEF Next, Pictures, Recover, ChangeSource

\* IInv is inductive, and so holds in every reachable state.
THEOREM Invariance == Spec => []IInv
<1>1. ASSUME IInv, [Next]_vars PROVE IInv'
  BY <1>1, FlagsStep, ValuesStep, ControlStep, CurrentStep, KeyStep, ChainStep
     DEF IInv, TypeOK
<1>. QED
  BY InitIInv, <1>1, PTL DEF Spec

\* Types are kept for any constants.
THEOREM TypeCorrectness == Spec => []TypeOK
<1>1. IInv => TypeOK
  BY DEF IInv
<1>. QED
  BY Invariance, <1>1, PTL

\* No late output of a replaced encoder is sent under its successor's state.
THEOREM NoForeignChunk == Spec => []OwnSession
<1>1. IInv => OwnSession
  BY DEF IInv, CurrentInv
<1>. QED
  BY Invariance, <1>1, PTL

\* While delivery waits for a keyframe, one is on its way.
THEOREM KeyframeNotLost == Spec => []KeyframeComing
<1>1. IInv => KeyframeComing
  BY DEF IInv
<1>. QED
  BY Invariance, <1>1, PTL

\* A capture that has lost its connection is recovering it.
THEOREM RecoveryNotForgotten == Spec => []RecoveryUnderWay
<1>1. IInv => RecoveryUnderWay
  BY DEF IInv
<1>. QED
  BY Invariance, <1>1, PTL

\* The sender implements DecodableStream: each connection carries a stream
\* that a decoder starting empty can decode.
THEOREM Implements == Spec => Decodable
<1>1. Init => Stream!Init
  BY DEF Init, Stream!Init, Connected
<1>2. ASSUME IInv, IInv', [Next]_vars PROVE [Stream!Next]_(Stream!vars)
  <2>. USE DEF IInv, ChainInv, ControlInv, RecoveryUnderWay, Connected,
         TypeOK, FlagsOK, Stream!Next, Stream!Open, Stream!Close,
         Stream!SendKey, Stream!SendDelta, Stream!Drop, Stream!vars
  <2>1. ASSUME NEW p \in BOOLEAN, EncodeFrame(p) PROVE [Stream!Next]_(Stream!vars)
    BY <2>1, <1>2 DEF EncodeFrame, EncoderHasRoom, encoderVars, connVars,
           wireVars
  <2>2. CASE IgnoreChunk
    BY <2>2, <1>2 DEF IgnoreChunk, Emit, encoderVars, policyVars, connVars,
           wireVars
  <2>3. CASE DropChunk
    BY <2>3, <1>2 DEF DropChunk, Emit, RequireKeyFrame, encoderVars, connVars
  <2>4. CASE SendChunk
    BY <2>4, <1>2 DEF SendChunk, Emit, CanDeliver, Connected, encoderVars,
           connVars
  <2>5. CASE ReceiveKeyFrameRequest
    BY <2>5, <1>2 DEF ReceiveKeyFrameRequest, Connected, RequireKeyFrame,
           encoderVars, connVars, wireVars
  <2>6. CASE LoseConnection
    BY <2>6, <1>2 DEF LoseConnection, Connected, encoderVars, policyVars
  <2>7. CASE CloseEvent
    BY <2>7, <1>2 DEF CloseEvent, MayRecover, encoderVars, policyVars,
           wireVars, Reconfiguring
  <2>8. CASE AttemptRecovery
    BY <2>8, <1>2 DEF AttemptRecovery, encoderVars, policyVars, wireVars
  <2>9. CASE RetryRecovery
    BY <2>9, <1>2 DEF RetryRecovery, encoderVars, policyVars, wireVars
  <2>10. CASE Reconnect
    BY <2>10, <1>2 DEF Reconnect, OpenSession, RestartStream, RequireKeyFrame,
           encoderVars
  <2>11. ASSUME GiveUp PROVE [Stream!Next]_(Stream!vars)
    BY <2>11, <1>2 DEF GiveUp, encoderVars, policyVars, wireVars
  <2>12. ASSUME NEW c \in Contracts, StartCapture(c) PROVE [Stream!Next]_(Stream!vars)
    BY <2>12, <1>2 DEF StartCapture, ResetPolicy, connVars, wireVars
  <2>13. ASSUME NEW c \in Contracts, SourceChanges(c) PROVE [Stream!Next]_(Stream!vars)
    BY <2>13, <1>2 DEF SourceChanges, encoderVars, policyVars, connVars,
           wireVars
  <2>14. CASE EpochAllocated
    BY <2>14, <1>2 DEF EpochAllocated, encoderVars, policyVars, wireVars
  <2>15. CASE ReplaceSource
    BY <2>15, <1>2 DEF ReplaceSource, CloseConnection, NoSession,
           CloseEncoder, ResetPolicy
  <2>16. CASE CreateEncoder
    BY <2>16, <1>2 DEF CreateEncoder, policyVars, wireVars
  <2>17. CASE Connect
    BY <2>17, <1>2 DEF Connect, OpenSession, RequireKeyFrame, encoderVars
  <2>18. CASE FailSource
    BY <2>18, <1>2 DEF FailSource, CloseConnection, NoSession, encoderVars,
           policyVars
  <2>19. CASE Stop
    BY <2>19, <1>2 DEF Stop, encoderVars, policyVars, wireVars
  <2>20. CASE StopVideoEncoder
    BY <2>20, <1>2 DEF StopVideoEncoder, CloseEncoder, policyVars, connVars,
           wireVars
  <2>21. CASE CloseReceiver
    BY <2>21, <1>2 DEF CloseReceiver, CloseConnection, NoSession, policyVars
  <2>22. CASE UNCHANGED vars
    BY <2>22 DEF vars
  <2>. QED
    BY <1>2, <2>1, <2>2, <2>3, <2>4, <2>5, <2>6, <2>7, <2>8, <2>9, <2>10,
       <2>11, <2>12, <2>13, <2>14, <2>15, <2>16, <2>17, <2>18, <2>19, <2>20,
       <2>21, <2>22
       DEF Next, Pictures, Recover, ChangeSource
<1>. QED
  BY Invariance, <1>1, <1>2, PTL DEF Spec, Decodable, Stream!Spec
=============================================================================
