--------------------------- MODULE FluxTurnProofs ---------------------------
EXTENDS FluxTurnInvariant, SequenceTheorems, TLAPS

-----------------------------------------------------------------------------
(* Facts about the operators *)

\* A copy of the first n chunks grows by the next one into a copy of n + 1.
LEMMA ChunksGrow ==
  ASSUME NEW n \in Nat
  PROVE  /\ Chunks(n) \in Seq(Nat)
         /\ Append(Chunks(n), n + 1) = Chunks(n + 1)
BY DEF Chunks

\* Speaking the next chunk keeps what was spoken in order and without repeats.
LEMMA SpokenGrows ==
  ASSUME NEW n \in Nat, NEW s \in Seq(Nat),
         \A i \in DOMAIN s : s[i] \in 1..n,
         \A i, j \in DOMAIN s : i < j => s[i] < s[j],
         NEW t, t = Append(s, n + 1)
  PROVE  /\ \A i \in DOMAIN t : t[i] \in 1..(n + 1)
         /\ \A i, j \in DOMAIN t : i < j => t[i] < t[j]
         /\ \A i \in DOMAIN s : i \in DOMAIN t /\ t[i] = s[i]
         /\ \E i \in DOMAIN t : t[i] = n + 1
<1>1. /\ Len(s) \in Nat /\ DOMAIN s = 1..Len(s) /\ DOMAIN t = 1..(Len(s) + 1)
      /\ \A i \in 1..Len(s) : t[i] = s[i]
      /\ t[Len(s) + 1] = n + 1
  OBVIOUS
<1>2. \A i \in DOMAIN t : i \in DOMAIN s \/ i = Len(s) + 1
  BY <1>1
<1>3. \A i \in DOMAIN t : t[i] \in 1..(n + 1)
  BY <1>1, <1>2
<1>4. ASSUME NEW i \in DOMAIN t, NEW j \in DOMAIN t, i < j
      PROVE  t[i] < t[j]
  <2>1. i \in 1..Len(s) /\ t[i] = s[i] /\ s[i] \in 1..n
    BY <1>1, <1>4
  <2>2. CASE j \in DOMAIN s
    BY <1>1, <1>4, <2>1, <2>2
  <2>3. CASE j = Len(s) + 1
    BY <1>1, <2>1, <2>3
  <2> QED
    BY <1>2, <2>2, <2>3
<1>5. \E i \in DOMAIN t : t[i] = n + 1
  <2>1. Len(s) + 1 \in DOMAIN t
    BY <1>1
  <2> QED
    BY <1>1, <2>1
<1> QED
  BY <1>1, <1>3, <1>4, <1>5

-----------------------------------------------------------------------------
(* Type correctness *)

\* Type correctness, one part of TypeOK at a time.
LEMMA ConsumerTypeStep ==
  ASSUME TypeOK, [Next]_vars
  PROVE  ConsumerType'
<1> USE DEF TypeOK, ConsumerType, ConsumerStates, Exceptions, Outcomes, vars, consumer, sender, text, audio
<1>1. CASE ResolveVoice  BY <1>1 DEF ResolveVoice
<1>2. CASE Connect  BY <1>2 DEF Connect
<1>3. CASE ConnectFails  BY <1>3 DEF ConnectFails, Ends, FallBack
<1>4. CASE Connected  BY <1>4 DEF Connected
<1>5. CASE HandshakeIgnores  BY <1>5 DEF HandshakeIgnores
<1>6. CASE HandshakeFails  BY <1>6 DEF HandshakeFails
<1>7. CASE ReceiveAudio  BY <1>7 DEF ReceiveAudio, Receives
<1>8. CASE ReceiveMetadata  BY <1>8 DEF ReceiveMetadata, Receives, Leave, Surfaced
<1>9. CASE ReceiveAuthError  BY <1>9 DEF ReceiveAuthError, Receives, Leave, Surfaced
<1>10. CASE ReceiveWarning  BY <1>10 DEF ReceiveWarning, Receives, Warned
<1>11. CASE ReceiveIgnores  BY <1>11 DEF ReceiveIgnores, Receives
<1>12. CASE ReceiveFails  BY <1>12 DEF ReceiveFails, Receives, Leave, Surfaced
<1>13. CASE FrameLimit  BY <1>13 DEF FrameLimit, Leave, Surfaced
<1>14. CASE JoinSender  BY <1>14 DEF JoinSender, Surfaced
<1>15. CASE CloseSocket  BY <1>15 DEF CloseSocket, Warned, Settle, Ends, FallBack
<1>16. CASE DrainChunk  BY <1>16 DEF DrainChunk
<1>17. CASE DrainEnds  BY <1>17 DEF DrainEnds, SynthesizeIfAny
<1>18. CASE DrainFails  BY <1>18 DEF DrainFails, SynthesizeIfAny
<1>19. CASE PostAnswers  BY <1>19 DEF PostAnswers
<1>20. CASE Cancel  BY <1>20 DEF Cancel, CancelledInFinish, Ends, Leave, Surfaced
<1>21. CASE SenderStarts  BY <1>21 DEF SenderStarts
<1>22. CASE PullChunk  BY <1>22 DEF PullChunk
<1>23. CASE PullEnd  BY <1>23 DEF PullEnd
<1>24. CASE PullFails  BY <1>24 DEF PullFails
<1>25. CASE SendSettles  BY <1>25 DEF SendSettles
<1>26. CASE SenderCancelled  BY <1>26 DEF SenderCancelled
<1>27. CASE UNCHANGED vars  BY <1>27
<1>28. CASE Resume  BY <1>28 DEF Resume
<1>29. CASE Abandon  BY <1>29 DEF Abandon
<1>30. CASE Finalize  BY <1>30 DEF Finalize, Leave, Surfaced
<1>31. CASE FrameFollows  BY <1>31 DEF FrameFollows
<1> QED
  BY <1>1, <1>2, <1>3, <1>4, <1>5, <1>6, <1>7, <1>8, <1>9, <1>10, <1>11, <1>12, <1>13, <1>14, <1>15, <1>16, <1>17, <1>18, <1>19, <1>20, <1>21, <1>22, <1>23, <1>24, <1>25, <1>26, <1>27, <1>28, <1>29, <1>30, <1>31
     DEF Next, Consumer, Handshake, Receive, Unwind, Batch, Sender, Done

LEMMA SenderTypeStep ==
  ASSUME TypeOK, [Next]_vars
  PROVE  SenderType'
<1> USE DEF TypeOK, SenderType, TextType, Running, SenderStates, vars, consumer, sender, text, audio
<1>1. CASE ResolveVoice  BY <1>1 DEF ResolveVoice
<1>2. CASE Connect  BY <1>2 DEF Connect
<1>3. CASE ConnectFails  BY <1>3 DEF ConnectFails, Ends, FallBack
<1>4. CASE Connected  BY <1>4 DEF Connected
<1>5. CASE HandshakeIgnores  BY <1>5 DEF HandshakeIgnores
<1>6. CASE HandshakeFails  BY <1>6 DEF HandshakeFails
<1>7. CASE ReceiveAudio  BY <1>7 DEF ReceiveAudio, Receives
<1>8. CASE ReceiveMetadata  BY <1>8 DEF ReceiveMetadata, Receives, Leave, Surfaced
<1>9. CASE ReceiveAuthError  BY <1>9 DEF ReceiveAuthError, Receives, Leave, Surfaced
<1>10. CASE ReceiveWarning  BY <1>10 DEF ReceiveWarning, Receives, Warned
<1>11. CASE ReceiveIgnores  BY <1>11 DEF ReceiveIgnores, Receives
<1>12. CASE ReceiveFails  BY <1>12 DEF ReceiveFails, Receives, Leave, Surfaced
<1>13. CASE FrameLimit  BY <1>13 DEF FrameLimit, Leave, Surfaced
<1>14. CASE JoinSender  BY <1>14 DEF JoinSender, Surfaced
<1>15. CASE CloseSocket  BY <1>15 DEF CloseSocket, Warned, Settle, Ends, FallBack
<1>16. CASE DrainChunk  BY <1>16 DEF DrainChunk
<1>17. CASE DrainEnds  BY <1>17 DEF DrainEnds, SynthesizeIfAny
<1>18. CASE DrainFails  BY <1>18 DEF DrainFails, SynthesizeIfAny
<1>19. CASE PostAnswers  BY <1>19 DEF PostAnswers
<1>20. CASE Cancel  BY <1>20 DEF Cancel, CancelledInFinish, Ends, Leave, Surfaced
<1>21. CASE SenderStarts  BY <1>21 DEF SenderStarts
<1>22. CASE PullChunk
  <2>1. taken + 1 \in 1..len /\ spoken \in Seq(1..len) /\ len' = len
    BY <1>22, TurnAssumption DEF PullChunk, TurnAssumption
  <2>2. Append(spoken, taken + 1) \in Seq(1..len)
    BY <2>1
  <2>3. spoken' \in Seq(1..len)
    BY <1>22, <2>1, <2>2 DEF PullChunk
  <2> QED
    BY <1>22, <2>1, <2>3 DEF PullChunk
<1>23. CASE PullEnd  BY <1>23 DEF PullEnd
<1>24. CASE PullFails  BY <1>24 DEF PullFails
<1>25. CASE SendSettles  BY <1>25 DEF SendSettles
<1>26. CASE SenderCancelled  BY <1>26 DEF SenderCancelled
<1>27. CASE UNCHANGED vars  BY <1>27
<1>28. CASE Resume  BY <1>28 DEF Resume
<1>29. CASE Abandon  BY <1>29 DEF Abandon
<1>30. CASE Finalize  BY <1>30 DEF Finalize, Leave, Surfaced
<1>31. CASE FrameFollows  BY <1>31 DEF FrameFollows
<1> QED
  BY <1>1, <1>2, <1>3, <1>4, <1>5, <1>6, <1>7, <1>8, <1>9, <1>10, <1>11, <1>12, <1>13, <1>14, <1>15, <1>16, <1>17, <1>18, <1>19, <1>20, <1>21, <1>22, <1>23, <1>24, <1>25, <1>26, <1>27, <1>28, <1>29, <1>30, <1>31
     DEF Next, Consumer, Handshake, Receive, Unwind, Batch, Sender, Done

LEMMA TextTypeStep ==
  ASSUME TypeOK, [Next]_vars
  PROVE  TextType'
<1> USE DEF TypeOK, TextType, vars, consumer, sender, text, audio
<1>1. CASE ResolveVoice  BY <1>1 DEF ResolveVoice
<1>2. CASE Connect  BY <1>2 DEF Connect
<1>3. CASE ConnectFails  BY <1>3 DEF ConnectFails, Ends, FallBack
<1>4. CASE Connected  BY <1>4 DEF Connected
<1>5. CASE HandshakeIgnores  BY <1>5 DEF HandshakeIgnores
<1>6. CASE HandshakeFails  BY <1>6 DEF HandshakeFails
<1>7. CASE ReceiveAudio  BY <1>7 DEF ReceiveAudio, Receives
<1>8. CASE ReceiveMetadata  BY <1>8 DEF ReceiveMetadata, Receives, Leave, Surfaced
<1>9. CASE ReceiveAuthError  BY <1>9 DEF ReceiveAuthError, Receives, Leave, Surfaced
<1>10. CASE ReceiveWarning  BY <1>10 DEF ReceiveWarning, Receives, Warned
<1>11. CASE ReceiveIgnores  BY <1>11 DEF ReceiveIgnores, Receives
<1>12. CASE ReceiveFails  BY <1>12 DEF ReceiveFails, Receives, Leave, Surfaced
<1>13. CASE FrameLimit  BY <1>13 DEF FrameLimit, Leave, Surfaced
<1>14. CASE JoinSender  BY <1>14 DEF JoinSender, Surfaced
<1>15. CASE CloseSocket  BY <1>15 DEF CloseSocket, Warned, Settle, Ends, FallBack
<1>16. CASE DrainChunk  BY <1>16 DEF DrainChunk
<1>17. CASE DrainEnds  BY <1>17 DEF DrainEnds, SynthesizeIfAny
<1>18. CASE DrainFails  BY <1>18 DEF DrainFails, SynthesizeIfAny
<1>19. CASE PostAnswers  BY <1>19 DEF PostAnswers
<1>20. CASE Cancel  BY <1>20 DEF Cancel, CancelledInFinish, Ends, Leave, Surfaced
<1>21. CASE SenderStarts  BY <1>21 DEF SenderStarts
<1>22. CASE PullChunk  BY <1>22 DEF PullChunk
<1>23. CASE PullEnd  BY <1>23 DEF PullEnd
<1>24. CASE PullFails  BY <1>24 DEF PullFails
<1>25. CASE SendSettles  BY <1>25 DEF SendSettles
<1>26. CASE SenderCancelled  BY <1>26 DEF SenderCancelled
<1>27. CASE UNCHANGED vars  BY <1>27
<1>28. CASE Resume  BY <1>28 DEF Resume
<1>29. CASE Abandon  BY <1>29 DEF Abandon
<1>30. CASE Finalize  BY <1>30 DEF Finalize, Leave, Surfaced
<1>31. CASE FrameFollows  BY <1>31 DEF FrameFollows
<1> QED
  BY <1>1, <1>2, <1>3, <1>4, <1>5, <1>6, <1>7, <1>8, <1>9, <1>10, <1>11, <1>12, <1>13, <1>14, <1>15, <1>16, <1>17, <1>18, <1>19, <1>20, <1>21, <1>22, <1>23, <1>24, <1>25, <1>26, <1>27, <1>28, <1>29, <1>30, <1>31
     DEF Next, Consumer, Handshake, Receive, Unwind, Batch, Sender, Done

LEMMA AudioTypeStep ==
  ASSUME TypeOK, [Next]_vars
  PROVE  AudioType'
<1> USE TurnAssumption DEF TurnAssumption, TypeOK, AudioType, vars, consumer, sender, text, audio
<1>1. CASE ResolveVoice  BY <1>1 DEF ResolveVoice
<1>2. CASE Connect  BY <1>2 DEF Connect
<1>3. CASE ConnectFails  BY <1>3 DEF ConnectFails, Ends, FallBack
<1>4. CASE Connected  BY <1>4 DEF Connected
<1>5. CASE HandshakeIgnores  BY <1>5 DEF HandshakeIgnores
<1>6. CASE HandshakeFails  BY <1>6 DEF HandshakeFails
<1>7. CASE ReceiveAudio
  <2> DEFINE Pieces == {"header", "frame", "clip"}
  <2>1. out \in Seq(Pieces) /\ Append(out, "header") \in Seq(Pieces)
    OBVIOUS
  <2>2. Append(out, "frame") \in Seq(Pieces)
    OBVIOUS
  <2>3. out' \in Seq(Pieces)
    BY <1>7, <2>1, <2>2 DEF ReceiveAudio
  <2>4. frames' \in 0..MaxFrames /\ heard' \in BOOLEAN
    BY <1>7 DEF ReceiveAudio, Receives
  <2>5. header' \in BOOLEAN /\ audio_started' \in BOOLEAN /\ warnings' \in 0..MaxWarnings
    BY <1>7 DEF ReceiveAudio
  <2> QED
    BY <2>3, <2>4, <2>5
<1>8. CASE ReceiveMetadata  BY <1>8 DEF ReceiveMetadata, Receives, Leave, Surfaced
<1>9. CASE ReceiveAuthError  BY <1>9 DEF ReceiveAuthError, Receives, Leave, Surfaced
<1>10. CASE ReceiveWarning  BY <1>10 DEF ReceiveWarning, Receives, Warned
<1>11. CASE ReceiveIgnores  BY <1>11 DEF ReceiveIgnores, Receives
<1>12. CASE ReceiveFails  BY <1>12 DEF ReceiveFails, Receives, Leave, Surfaced
<1>13. CASE FrameLimit  BY <1>13 DEF FrameLimit, Leave, Surfaced
<1>14. CASE JoinSender  BY <1>14 DEF JoinSender, Surfaced
<1>15. CASE CloseSocket  BY <1>15 DEF CloseSocket, Warned, Settle, Ends, FallBack
<1>16. CASE DrainChunk  BY <1>16 DEF DrainChunk
<1>17. CASE DrainEnds  BY <1>17 DEF DrainEnds, SynthesizeIfAny
<1>18. CASE DrainFails  BY <1>18 DEF DrainFails, SynthesizeIfAny
<1>19. CASE PostAnswers  BY <1>19 DEF PostAnswers
<1>20. CASE Cancel  BY <1>20 DEF Cancel, CancelledInFinish, Ends, Leave, Surfaced
<1>21. CASE SenderStarts  BY <1>21 DEF SenderStarts
<1>22. CASE PullChunk  BY <1>22 DEF PullChunk
<1>23. CASE PullEnd  BY <1>23 DEF PullEnd
<1>24. CASE PullFails  BY <1>24 DEF PullFails
<1>25. CASE SendSettles  BY <1>25 DEF SendSettles
<1>26. CASE SenderCancelled  BY <1>26 DEF SenderCancelled
<1>27. CASE UNCHANGED vars  BY <1>27
<1>28. CASE Resume  BY <1>28 DEF Resume
<1>29. CASE Abandon  BY <1>29 DEF Abandon
<1>30. CASE Finalize  BY <1>30 DEF Finalize, Leave, Surfaced
<1>31. CASE FrameFollows  BY <1>31 DEF FrameFollows
<1> QED
  BY <1>1, <1>2, <1>3, <1>4, <1>5, <1>6, <1>7, <1>8, <1>9, <1>10, <1>11, <1>12, <1>13, <1>14, <1>15, <1>16, <1>17, <1>18, <1>19, <1>20, <1>21, <1>22, <1>23, <1>24, <1>25, <1>26, <1>27, <1>28, <1>29, <1>30, <1>31
     DEF Next, Consumer, Handshake, Receive, Unwind, Batch, Sender, Done

LEMMA TypeInit == Init => TypeOK
<1> SUFFICES ASSUME Init PROVE TypeOK
  OBVIOUS
<1> USE TurnAssumption DEF Init, TurnAssumption
<1>1. ConsumerType
  BY DEF ConsumerType, ConsumerStates, Exceptions, Outcomes
<1>2. SenderType
  <2>1. spoken \in Seq(1..len)
    OBVIOUS
  <2>2. spc \in SenderStates /\ scancel \in BOOLEAN /\ flushed \in BOOLEAN
    BY DEF SenderStates
  <2> QED
    BY <2>1, <2>2 DEF SenderType
<1>3. TextType
  BY DEF TextType
<1>4. AudioType
  <2>1. out \in Seq({"header", "frame", "clip"})
    <3>1. \A S : <<>> \in Seq(S)
      OBVIOUS
    <3> QED
      BY <3>1
  <2>2. frames \in 0..MaxFrames /\ warnings \in 0..MaxWarnings
    OBVIOUS
  <2>3. header \in BOOLEAN /\ audio_started \in BOOLEAN /\ heard \in BOOLEAN
    OBVIOUS
  <2> QED
    BY <2>1, <2>2, <2>3 DEF AudioType
<1> QED
  BY <1>1, <1>2, <1>3, <1>4 DEF TypeOK

\* Every variable keeps its type, and frames and warnings their bounds, for
\* any bounds, any message and any pattern of blank chunks.
THEOREM TypeCorrect == Spec => []TypeOK
<1>1. TypeOK /\ [Next]_vars => TypeOK'
  BY ConsumerTypeStep, SenderTypeStep, TextTypeStep, AudioTypeStep DEF TypeOK
<1> QED
  BY TypeInit, <1>1, PTL DEF Spec

-----------------------------------------------------------------------------
(* The inductive invariant *)

\* A step keeps the two tasks in the phases SenderInv pairs.
LEMMA SenderStep ==
  ASSUME TypeOK, SenderInv, [Next]_vars
  PROVE  SenderInv'
<1> USE DEF SenderInv, BeforeSender, Speaking, AfterSender, Running, vars, consumer, sender, text, audio
<1>1. CASE ResolveVoice  BY <1>1 DEF ResolveVoice
<1>2. CASE Connect  BY <1>2 DEF Connect
<1>3. CASE ConnectFails  BY <1>3 DEF ConnectFails, Ends, FallBack
<1>4. CASE Connected  BY <1>4 DEF Connected
<1>5. CASE HandshakeIgnores  BY <1>5 DEF HandshakeIgnores
<1>6. CASE HandshakeFails  BY <1>6 DEF HandshakeFails
<1>7. CASE ReceiveAudio  BY <1>7 DEF ReceiveAudio, Receives
<1>8. CASE ReceiveMetadata  BY <1>8 DEF ReceiveMetadata, Receives, Leave, Surfaced
<1>9. CASE ReceiveAuthError  BY <1>9 DEF ReceiveAuthError, Receives, Leave, Surfaced
<1>10. CASE ReceiveWarning  BY <1>10 DEF ReceiveWarning, Receives, Warned
<1>11. CASE ReceiveIgnores  BY <1>11 DEF ReceiveIgnores, Receives
<1>12. CASE ReceiveFails  BY <1>12 DEF ReceiveFails, Receives, Leave, Surfaced
<1>13. CASE FrameLimit  BY <1>13 DEF FrameLimit, Leave, Surfaced
<1>14. CASE JoinSender  BY <1>14 DEF JoinSender, Surfaced
<1>15. CASE CloseSocket  BY <1>15 DEF CloseSocket, Warned, Settle, Ends, FallBack
<1>16. CASE DrainChunk  BY <1>16 DEF DrainChunk
<1>17. CASE DrainEnds  BY <1>17 DEF DrainEnds, SynthesizeIfAny
<1>18. CASE DrainFails  BY <1>18 DEF DrainFails, SynthesizeIfAny
<1>19. CASE PostAnswers  BY <1>19 DEF PostAnswers
<1>20. CASE Cancel  BY <1>20 DEF Cancel, CancelledInFinish, Ends, Leave, Surfaced
<1>21. CASE SenderStarts  BY <1>21 DEF SenderStarts
<1>22. CASE PullChunk  BY <1>22 DEF PullChunk
<1>23. CASE PullEnd  BY <1>23 DEF PullEnd
<1>24. CASE PullFails  BY <1>24 DEF PullFails
<1>25. CASE SendSettles  BY <1>25 DEF SendSettles
<1>26. CASE SenderCancelled  BY <1>26 DEF SenderCancelled
<1>27. CASE UNCHANGED vars  BY <1>27
<1>28. CASE Resume  BY <1>28 DEF Resume
<1>29. CASE Abandon  BY <1>29 DEF Abandon
<1>30. CASE Finalize  BY <1>30 DEF Finalize, Leave, Surfaced
<1>31. CASE FrameFollows  BY <1>31 DEF FrameFollows
<1> QED
  BY <1>1, <1>2, <1>3, <1>4, <1>5, <1>6, <1>7, <1>8, <1>9, <1>10, <1>11, <1>12, <1>13, <1>14, <1>15, <1>16, <1>17, <1>18, <1>19, <1>20, <1>21, <1>22, <1>23, <1>24, <1>25, <1>26, <1>27, <1>28, <1>29, <1>30, <1>31
     DEF Next, Consumer, Handshake, Receive, Unwind, Batch, Sender, Done

\* The outcome is set by the last step of the consumer, or when it is abandoned.
LEMMA OutcomeStep ==
  ASSUME TypeOK, OutcomeInv, [Next]_vars
  PROVE  OutcomeInv'
<1> USE DEF OutcomeInv, vars, consumer, sender, text, audio
<1>1. CASE ResolveVoice  BY <1>1 DEF ResolveVoice
<1>2. CASE Connect  BY <1>2 DEF Connect
<1>3. CASE ConnectFails  BY <1>3 DEF ConnectFails, Ends, FallBack
<1>4. CASE Connected  BY <1>4 DEF Connected
<1>5. CASE HandshakeIgnores  BY <1>5 DEF HandshakeIgnores
<1>6. CASE HandshakeFails  BY <1>6 DEF HandshakeFails
<1>7. CASE ReceiveAudio  BY <1>7 DEF ReceiveAudio, Receives
<1>8. CASE ReceiveMetadata  BY <1>8 DEF ReceiveMetadata, Receives, Leave, Surfaced
<1>9. CASE ReceiveAuthError  BY <1>9 DEF ReceiveAuthError, Receives, Leave, Surfaced
<1>10. CASE ReceiveWarning  BY <1>10 DEF ReceiveWarning, Receives, Warned
<1>11. CASE ReceiveIgnores  BY <1>11 DEF ReceiveIgnores, Receives
<1>12. CASE ReceiveFails  BY <1>12 DEF ReceiveFails, Receives, Leave, Surfaced
<1>13. CASE FrameLimit  BY <1>13 DEF FrameLimit, Leave, Surfaced
<1>14. CASE JoinSender  BY <1>14 DEF JoinSender, Surfaced
<1>15. CASE CloseSocket  BY <1>15 DEF CloseSocket, Warned, Settle, Ends, FallBack
<1>16. CASE DrainChunk  BY <1>16 DEF DrainChunk
<1>17. CASE DrainEnds  BY <1>17 DEF DrainEnds, SynthesizeIfAny
<1>18. CASE DrainFails  BY <1>18 DEF DrainFails, SynthesizeIfAny
<1>19. CASE PostAnswers  BY <1>19 DEF PostAnswers
<1>20. CASE Cancel  BY <1>20 DEF Cancel, CancelledInFinish, Ends, Leave, Surfaced
<1>21. CASE SenderStarts  BY <1>21 DEF SenderStarts
<1>22. CASE PullChunk  BY <1>22 DEF PullChunk
<1>23. CASE PullEnd  BY <1>23 DEF PullEnd
<1>24. CASE PullFails  BY <1>24 DEF PullFails
<1>25. CASE SendSettles  BY <1>25 DEF SendSettles
<1>26. CASE SenderCancelled  BY <1>26 DEF SenderCancelled
<1>27. CASE UNCHANGED vars  BY <1>27
<1>28. CASE Resume  BY <1>28 DEF Resume
<1>29. CASE Abandon  BY <1>29 DEF Abandon
<1>30. CASE Finalize  BY <1>30 DEF Finalize, Leave, Surfaced
<1>31. CASE FrameFollows  BY <1>31 DEF FrameFollows
<1> QED
  BY <1>1, <1>2, <1>3, <1>4, <1>5, <1>6, <1>7, <1>8, <1>9, <1>10, <1>11, <1>12, <1>13, <1>14, <1>15, <1>16, <1>17, <1>18, <1>19, <1>20, <1>21, <1>22, <1>23, <1>24, <1>25, <1>26, <1>27, <1>28, <1>29, <1>30, <1>31
     DEF Next, Consumer, Handshake, Receive, Unwind, Batch, Sender, Done

\* The header stays back until audio, and a clip only ends a silent turn.
LEMMA AudioStep ==
  ASSUME TypeOK, SenderInv, OutcomeInv, AudioInv, [Next]_vars
  PROVE  AudioInv'
<1> USE DEF TypeOK, AudioType, AudioInv, BeforeSender, vars, consumer, sender, text, audio
<1>1. CASE ResolveVoice  BY <1>1 DEF ResolveVoice
<1>2. CASE Connect  BY <1>2 DEF Connect
<1>3. CASE ConnectFails  BY <1>3 DEF ConnectFails, Ends, FallBack
<1>4. CASE Connected  BY <1>4 DEF Connected
<1>5. CASE HandshakeIgnores  BY <1>5 DEF HandshakeIgnores
<1>6. CASE HandshakeFails  BY <1>6 DEF HandshakeFails
<1>7. CASE ReceiveAudio
  <2>1. cpc = "receive" /\ outcome = "open" /\ (header <=> ~audio_started)
    BY <1>7 DEF ReceiveAudio, Receives, OutcomeInv, ConsumerType
  <2>2. CASE header
    <3>1. out = <<>> /\ out' = Append(out, "header") /\ cpc' = "yield_header"
      BY <1>7, <2>1, <2>2 DEF ReceiveAudio
    <3>2. Len(out') = 1 /\ out'[1] = "header"
      BY <3>1
    <3> QED
      BY <1>7, <3>1, <3>2 DEF ReceiveAudio
  <2>3. CASE ~header
    BY <1>7, <2>1, <2>3 DEF ReceiveAudio, Receives
  <2> QED
    BY <2>2, <2>3
<1>8. CASE ReceiveMetadata  BY <1>8 DEF ReceiveMetadata, Receives, Leave, Surfaced
<1>9. CASE ReceiveAuthError  BY <1>9 DEF ReceiveAuthError, Receives, Leave, Surfaced
<1>10. CASE ReceiveWarning  BY <1>10 DEF ReceiveWarning, Receives, Warned
<1>11. CASE ReceiveIgnores  BY <1>11 DEF ReceiveIgnores, Receives
<1>12. CASE ReceiveFails  BY <1>12 DEF ReceiveFails, Receives, Leave, Surfaced
<1>13. CASE FrameLimit  BY <1>13 DEF FrameLimit, Leave, Surfaced
<1>14. CASE JoinSender  BY <1>14 DEF JoinSender, Surfaced
<1>15. CASE CloseSocket  BY <1>15 DEF CloseSocket, Warned, Settle, Ends, FallBack
<1>16. CASE DrainChunk  BY <1>16 DEF DrainChunk
<1>17. CASE DrainEnds  BY <1>17 DEF DrainEnds, SynthesizeIfAny
<1>18. CASE DrainFails  BY <1>18 DEF DrainFails, SynthesizeIfAny
<1>19. CASE PostAnswers  BY <1>19 DEF PostAnswers
<1>20. CASE Cancel  BY <1>20 DEF Cancel, CancelledInFinish, Ends, Leave, Surfaced
<1>21. CASE SenderStarts  BY <1>21 DEF SenderStarts
<1>22. CASE PullChunk  BY <1>22 DEF PullChunk
<1>23. CASE PullEnd  BY <1>23 DEF PullEnd
<1>24. CASE PullFails  BY <1>24 DEF PullFails
<1>25. CASE SendSettles  BY <1>25 DEF SendSettles
<1>26. CASE SenderCancelled  BY <1>26 DEF SenderCancelled
<1>27. CASE UNCHANGED vars  BY <1>27
<1>28. CASE Resume  BY <1>28 DEF Resume
<1>29. CASE Abandon  BY <1>29 DEF Abandon
<1>30. CASE Finalize  BY <1>30 DEF Finalize, Leave, Surfaced
<1>31. CASE FrameFollows  BY <1>31 DEF FrameFollows
<1> QED
  BY <1>1, <1>2, <1>3, <1>4, <1>5, <1>6, <1>7, <1>8, <1>9, <1>10, <1>11, <1>12, <1>13, <1>14, <1>15, <1>16, <1>17, <1>18, <1>19, <1>20, <1>21, <1>22, <1>23, <1>24, <1>25, <1>26, <1>27, <1>28, <1>29, <1>30, <1>31
     DEF Next, Consumer, Handshake, Receive, Unwind, Batch, Sender, Done

\* Every read of message_gen is recorded by the task that reads it.
LEMMA TextStep ==
  ASSUME TypeOK, SenderInv, OutcomeInv, TextInv, [Next]_vars
  PROVE  TextInv'
<1> USE DEF TypeOK, TextType, SenderInv, OutcomeInv, TextInv, BeforeSender, Speaking, AfterSender, Running, vars, consumer, sender, text, audio
<1>1. CASE ResolveVoice  BY <1>1 DEF ResolveVoice
<1>2. CASE Connect  BY <1>2 DEF Connect
<1>3. CASE ConnectFails  BY <1>3 DEF ConnectFails, Ends, FallBack
<1>4. CASE Connected  BY <1>4 DEF Connected
<1>5. CASE HandshakeIgnores  BY <1>5 DEF HandshakeIgnores
<1>6. CASE HandshakeFails  BY <1>6 DEF HandshakeFails
<1>7. CASE ReceiveAudio  BY <1>7 DEF ReceiveAudio, Receives
<1>8. CASE ReceiveMetadata  BY <1>8 DEF ReceiveMetadata, Receives, Leave, Surfaced
<1>9. CASE ReceiveAuthError  BY <1>9 DEF ReceiveAuthError, Receives, Leave, Surfaced
<1>10. CASE ReceiveWarning  BY <1>10 DEF ReceiveWarning, Receives, Warned
<1>11. CASE ReceiveIgnores  BY <1>11 DEF ReceiveIgnores, Receives
<1>12. CASE ReceiveFails  BY <1>12 DEF ReceiveFails, Receives, Leave, Surfaced
<1>13. CASE FrameLimit  BY <1>13 DEF FrameLimit, Leave, Surfaced
<1>14. CASE JoinSender  BY <1>14 DEF JoinSender, Surfaced
<1>15. CASE CloseSocket  BY <1>15 DEF CloseSocket, Warned, Settle, Ends, FallBack
<1>16. CASE DrainChunk
  <2>1. taken \in Nat
    BY TurnAssumption DEF TurnAssumption
  <2>2. parts = Chunks(taken) /\ parts' = Append(parts, taken + 1) /\ taken' = taken + 1
    BY <1>16 DEF DrainChunk
  <2>3. parts' = Chunks(taken')
    BY <2>1, <2>2, ChunksGrow
  <2> QED
    BY <1>16, <2>3 DEF DrainChunk
<1>17. CASE DrainEnds  BY <1>17 DEF DrainEnds, SynthesizeIfAny
<1>18. CASE DrainFails  BY <1>18 DEF DrainFails, SynthesizeIfAny
<1>19. CASE PostAnswers  BY <1>19 DEF PostAnswers
<1>20. CASE Cancel  BY <1>20 DEF Cancel, CancelledInFinish, Ends, Leave, Surfaced
<1>21. CASE SenderStarts  BY <1>21 DEF SenderStarts
<1>22. CASE PullChunk
  <2>1. taken \in Nat /\ cpc \in Speaking \cup {"finish"}
    BY <1>22, TurnAssumption DEF PullChunk, TurnAssumption, ConsumerType, ConsumerStates
  <2>2. consumed' = Chunks(taken')
    BY <1>22, <2>1, ChunksGrow DEF PullChunk
  <2> QED
    BY <1>22, <2>1, <2>2 DEF PullChunk
<1>23. CASE PullEnd  BY <1>23 DEF PullEnd
<1>24. CASE PullFails  BY <1>24 DEF PullFails
<1>25. CASE SendSettles  BY <1>25 DEF SendSettles
<1>26. CASE SenderCancelled  BY <1>26 DEF SenderCancelled
<1>27. CASE UNCHANGED vars  BY <1>27
<1>28. CASE Resume  BY <1>28 DEF Resume
<1>29. CASE Abandon  BY <1>29 DEF Abandon
<1>30. CASE Finalize  BY <1>30 DEF Finalize, Leave, Surfaced
<1>31. CASE FrameFollows  BY <1>31 DEF FrameFollows
<1> QED
  BY <1>1, <1>2, <1>3, <1>4, <1>5, <1>6, <1>7, <1>8, <1>9, <1>10, <1>11, <1>12, <1>13, <1>14, <1>15, <1>16, <1>17, <1>18, <1>19, <1>20, <1>21, <1>22, <1>23, <1>24, <1>25, <1>26, <1>27, <1>28, <1>29, <1>30, <1>31
     DEF Next, Consumer, Handshake, Receive, Unwind, Batch, Sender, Done

\* The socket is told the chunks in order, and Flush after the last.
LEMMA SpeechStep ==
  ASSUME TypeOK, SenderInv, TextInv, SpeechInv, [Next]_vars
  PROVE  SpeechInv'
<1> USE DEF TypeOK, TextType, SenderType, SenderInv, TextInv, SpeechInv, BeforeSender, Speaking, AfterSender, Running, vars, consumer, sender, text, audio
<1>1. CASE ResolveVoice  BY <1>1 DEF ResolveVoice
<1>2. CASE Connect  BY <1>2 DEF Connect
<1>3. CASE ConnectFails  BY <1>3 DEF ConnectFails, Ends, FallBack
<1>4. CASE Connected  BY <1>4 DEF Connected
<1>5. CASE HandshakeIgnores  BY <1>5 DEF HandshakeIgnores
<1>6. CASE HandshakeFails  BY <1>6 DEF HandshakeFails
<1>7. CASE ReceiveAudio  BY <1>7 DEF ReceiveAudio, Receives
<1>8. CASE ReceiveMetadata  BY <1>8 DEF ReceiveMetadata, Receives, Leave, Surfaced
<1>9. CASE ReceiveAuthError  BY <1>9 DEF ReceiveAuthError, Receives, Leave, Surfaced
<1>10. CASE ReceiveWarning  BY <1>10 DEF ReceiveWarning, Receives, Warned
<1>11. CASE ReceiveIgnores  BY <1>11 DEF ReceiveIgnores, Receives
<1>12. CASE ReceiveFails  BY <1>12 DEF ReceiveFails, Receives, Leave, Surfaced
<1>13. CASE FrameLimit  BY <1>13 DEF FrameLimit, Leave, Surfaced
<1>14. CASE JoinSender  BY <1>14 DEF JoinSender, Surfaced
<1>15. CASE CloseSocket  BY <1>15 DEF CloseSocket, Warned, Settle, Ends, FallBack
<1>16. CASE DrainChunk  BY <1>16 DEF DrainChunk
<1>17. CASE DrainEnds  BY <1>17 DEF DrainEnds, SynthesizeIfAny
<1>18. CASE DrainFails  BY <1>18 DEF DrainFails, SynthesizeIfAny
<1>19. CASE PostAnswers  BY <1>19 DEF PostAnswers
<1>20. CASE Cancel  BY <1>20 DEF Cancel, CancelledInFinish, Ends, Leave, Surfaced
<1>21. CASE SenderStarts  BY <1>21 DEF SenderStarts
<1>22. CASE PullChunk
  <2>1. taken \in Nat /\ taken' = taken + 1 /\ spc = "next" /\ ~flushed /\ ~flushed'
    BY <1>22, TurnAssumption DEF PullChunk, TurnAssumption
  <2>2. CASE taken + 1 \in BlankChunks
    <3>1. spoken' = spoken /\ spc' = spc
      BY <1>22, <2>2 DEF PullChunk
    <3>2. \A c \in (1..taken') \ BlankChunks : c \in (1..taken) \ BlankChunks
      BY <2>1, <2>2
    <3> QED
      BY <2>1, <3>1, <3>2
  <2>3. CASE taken + 1 \notin BlankChunks
    <3>1. spoken' = Append(spoken, taken + 1) /\ spc' = "send"
      BY <1>22, <2>3 DEF PullChunk
    <3>2. spoken \in Seq(Nat)
      <4>1. 1..len \subseteq Nat
        BY TurnAssumption DEF TurnAssumption
      <4> QED
        BY <4>1
    <3>3. /\ \A i \in DOMAIN spoken' : spoken'[i] \in 1..taken'
          /\ \A i, j \in DOMAIN spoken' : i < j => spoken'[i] < spoken'[j]
          /\ \A i \in DOMAIN spoken : i \in DOMAIN spoken' /\ spoken'[i] = spoken[i]
          /\ \E i \in DOMAIN spoken' : spoken'[i] = taken + 1
      <4>1. /\ \A i \in DOMAIN spoken : spoken[i] \in 1..taken
            /\ \A i, j \in DOMAIN spoken : i < j => spoken[i] < spoken[j]
        OBVIOUS
      <4> HIDE DEF TypeOK, SpeechInv, TextInv, SenderInv
      <4>2. /\ \A i \in DOMAIN spoken' : spoken'[i] \in 1..(taken + 1)
            /\ \A i, j \in DOMAIN spoken' : i < j => spoken'[i] < spoken'[j]
            /\ \A i \in DOMAIN spoken : i \in DOMAIN spoken' /\ spoken'[i] = spoken[i]
            /\ \E i \in DOMAIN spoken' : spoken'[i] = taken + 1
        BY <2>1, <3>1, <3>2, <4>1, SpokenGrows
      <4> QED
        BY <2>1, <4>2
    <3>4. ASSUME NEW c \in (1..taken') \ BlankChunks
          PROVE  \E i \in DOMAIN spoken' : spoken'[i] = c
      <4>1. CASE c = taken + 1
        BY <3>3, <4>1
      <4>2. CASE c # taken + 1
        <5>1. c \in (1..taken) \ BlankChunks
          BY <2>1, <4>2
        <5>2. PICK i \in DOMAIN spoken : spoken[i] = c
          BY <2>1, <5>1
        <5> QED
          BY <3>3, <5>2
      <4> QED
        BY <4>1, <4>2
    <3> QED
      BY <2>1, <3>1, <3>3, <3>4
  <2> QED
    BY <2>2, <2>3
<1>23. CASE PullEnd  BY <1>23 DEF PullEnd
<1>24. CASE PullFails  BY <1>24 DEF PullFails
<1>25. CASE SendSettles  BY <1>25 DEF SendSettles
<1>26. CASE SenderCancelled  BY <1>26 DEF SenderCancelled
<1>27. CASE UNCHANGED vars  BY <1>27
<1>28. CASE Resume  BY <1>28 DEF Resume
<1>29. CASE Abandon  BY <1>29 DEF Abandon
<1>30. CASE Finalize  BY <1>30 DEF Finalize, Leave, Surfaced
<1>31. CASE FrameFollows  BY <1>31 DEF FrameFollows
<1> QED
  BY <1>1, <1>2, <1>3, <1>4, <1>5, <1>6, <1>7, <1>8, <1>9, <1>10, <1>11, <1>12, <1>13, <1>14, <1>15, <1>16, <1>17, <1>18, <1>19, <1>20, <1>21, <1>22, <1>23, <1>24, <1>25, <1>26, <1>27, <1>28, <1>29, <1>30, <1>31
     DEF Next, Consumer, Handshake, Receive, Unwind, Batch, Sender, Done

\* A key rejected in the handshake only ever unwinds to the caller, and so does one
\* rejected later that no failed sender covers up.
LEMMA RejectionStep ==
  ASSUME TypeOK, SenderInv, OutcomeInv, RejectionInv, [Next]_vars
  PROVE  RejectionInv'
<1> USE DEF SenderInv, OutcomeInv, RejectionInv, BeforeSender, Speaking, AfterSender, Running, vars, consumer, sender, text, audio
<1>1. CASE ResolveVoice  BY <1>1 DEF ResolveVoice
<1>2. CASE Connect  BY <1>2 DEF Connect
<1>3. CASE ConnectFails  BY <1>3 DEF ConnectFails, Ends, FallBack
<1>4. CASE Connected  BY <1>4 DEF Connected
<1>5. CASE HandshakeIgnores  BY <1>5 DEF HandshakeIgnores
<1>6. CASE HandshakeFails  BY <1>6 DEF HandshakeFails
<1>7. CASE ReceiveAudio  BY <1>7 DEF ReceiveAudio, Receives
<1>8. CASE ReceiveMetadata  BY <1>8 DEF ReceiveMetadata, Receives, Leave, Surfaced
<1>9. CASE ReceiveAuthError  BY <1>9 DEF ReceiveAuthError, Receives, Leave, Surfaced
<1>10. CASE ReceiveWarning  BY <1>10 DEF ReceiveWarning, Receives, Warned
<1>11. CASE ReceiveIgnores  BY <1>11 DEF ReceiveIgnores, Receives
<1>12. CASE ReceiveFails  BY <1>12 DEF ReceiveFails, Receives, Leave, Surfaced
<1>13. CASE FrameLimit  BY <1>13 DEF FrameLimit, Leave, Surfaced
<1>14. CASE JoinSender  BY <1>14 DEF JoinSender, Surfaced
<1>15. CASE CloseSocket  BY <1>15 DEF CloseSocket, Warned, Settle, Ends, FallBack
<1>16. CASE DrainChunk  BY <1>16 DEF DrainChunk
<1>17. CASE DrainEnds  BY <1>17 DEF DrainEnds, SynthesizeIfAny
<1>18. CASE DrainFails  BY <1>18 DEF DrainFails, SynthesizeIfAny
<1>19. CASE PostAnswers  BY <1>19 DEF PostAnswers
<1>20. CASE Cancel  BY <1>20 DEF Cancel, CancelledInFinish, Ends, Leave, Surfaced
<1>21. CASE SenderStarts  BY <1>21 DEF SenderStarts
<1>22. CASE PullChunk  BY <1>22 DEF PullChunk
<1>23. CASE PullEnd  BY <1>23 DEF PullEnd
<1>24. CASE PullFails  BY <1>24 DEF PullFails
<1>25. CASE SendSettles  BY <1>25 DEF SendSettles
<1>26. CASE SenderCancelled  BY <1>26 DEF SenderCancelled
<1>27. CASE UNCHANGED vars  BY <1>27
<1>28. CASE Resume  BY <1>28 DEF Resume
<1>29. CASE Abandon  BY <1>29 DEF Abandon
<1>30. CASE Finalize  BY <1>30 DEF Finalize, Leave, Surfaced
<1>31. CASE FrameFollows  BY <1>31 DEF FrameFollows
<1> QED
  BY <1>1, <1>2, <1>3, <1>4, <1>5, <1>6, <1>7, <1>8, <1>9, <1>10, <1>11, <1>12, <1>13, <1>14, <1>15, <1>16, <1>17, <1>18, <1>19, <1>20, <1>21, <1>22, <1>23, <1>24, <1>25, <1>26, <1>27, <1>28, <1>29, <1>30, <1>31
     DEF Next, Consumer, Handshake, Receive, Unwind, Batch, Sender, Done

\* How the stack unwinds.
LEMMA UnwindStep ==
  ASSUME TypeOK, SenderInv, OutcomeInv, AudioInv, UnwindInv, [Next]_vars
  PROVE  UnwindInv'
<1> USE DEF SenderInv, OutcomeInv, AudioInv, UnwindInv, BeforeSender, Speaking, AfterSender, Running, vars, consumer, sender, text, audio
<1>1. CASE ResolveVoice  BY <1>1 DEF ResolveVoice
<1>2. CASE Connect  BY <1>2 DEF Connect
<1>3. CASE ConnectFails  BY <1>3 DEF ConnectFails, Ends, FallBack
<1>4. CASE Connected  BY <1>4 DEF Connected
<1>5. CASE HandshakeIgnores  BY <1>5 DEF HandshakeIgnores
<1>6. CASE HandshakeFails  BY <1>6 DEF HandshakeFails
<1>7. CASE ReceiveAudio  BY <1>7 DEF ReceiveAudio, Receives
<1>8. CASE ReceiveMetadata  BY <1>8 DEF ReceiveMetadata, Receives, Leave, Surfaced
<1>9. CASE ReceiveAuthError  BY <1>9 DEF ReceiveAuthError, Receives, Leave, Surfaced
<1>10. CASE ReceiveWarning  BY <1>10 DEF ReceiveWarning, Receives, Warned
<1>11. CASE ReceiveIgnores  BY <1>11 DEF ReceiveIgnores, Receives
<1>12. CASE ReceiveFails  BY <1>12 DEF ReceiveFails, Receives, Leave, Surfaced
<1>13. CASE FrameLimit  BY <1>13 DEF FrameLimit, Leave, Surfaced
<1>14. CASE JoinSender  BY <1>14 DEF JoinSender, Surfaced
<1>15. CASE CloseSocket  BY <1>15 DEF CloseSocket, Warned, Settle, Ends, FallBack
<1>16. CASE DrainChunk  BY <1>16 DEF DrainChunk
<1>17. CASE DrainEnds  BY <1>17 DEF DrainEnds, SynthesizeIfAny
<1>18. CASE DrainFails  BY <1>18 DEF DrainFails, SynthesizeIfAny
<1>19. CASE PostAnswers  BY <1>19 DEF PostAnswers
<1>20. CASE Cancel  BY <1>20 DEF Cancel, CancelledInFinish, Ends, Leave, Surfaced
<1>21. CASE SenderStarts  BY <1>21 DEF SenderStarts
<1>22. CASE PullChunk  BY <1>22 DEF PullChunk
<1>23. CASE PullEnd  BY <1>23 DEF PullEnd
<1>24. CASE PullFails  BY <1>24 DEF PullFails
<1>25. CASE SendSettles  BY <1>25 DEF SendSettles
<1>26. CASE SenderCancelled  BY <1>26 DEF SenderCancelled
<1>27. CASE UNCHANGED vars  BY <1>27
<1>28. CASE Resume  BY <1>28 DEF Resume
<1>29. CASE Abandon  BY <1>29 DEF Abandon
<1>30. CASE Finalize  BY <1>30 DEF Finalize, Leave, Surfaced
<1>31. CASE FrameFollows  BY <1>31 DEF FrameFollows
<1> QED
  BY <1>1, <1>2, <1>3, <1>4, <1>5, <1>6, <1>7, <1>8, <1>9, <1>10, <1>11, <1>12, <1>13, <1>14, <1>15, <1>16, <1>17, <1>18, <1>19, <1>20, <1>21, <1>22, <1>23, <1>24, <1>25, <1>26, <1>27, <1>28, <1>29, <1>30, <1>31
     DEF Next, Consumer, Handshake, Receive, Unwind, Batch, Sender, Done

\* message_gen is cut by itself, by its sender's cancellation or by the turn's.
LEMMA CutStep ==
  ASSUME TypeOK, SenderInv, OutcomeInv, CutInv, [Next]_vars
  PROVE  CutInv'
<1> USE DEF SenderInv, OutcomeInv, CutInv, BeforeSender, Speaking, AfterSender, Running, vars, consumer, sender, text, audio
<1>1. CASE ResolveVoice  BY <1>1 DEF ResolveVoice
<1>2. CASE Connect  BY <1>2 DEF Connect
<1>3. CASE ConnectFails  BY <1>3 DEF ConnectFails, Ends, FallBack
<1>4. CASE Connected  BY <1>4 DEF Connected
<1>5. CASE HandshakeIgnores  BY <1>5 DEF HandshakeIgnores
<1>6. CASE HandshakeFails  BY <1>6 DEF HandshakeFails
<1>7. CASE ReceiveAudio  BY <1>7 DEF ReceiveAudio, Receives
<1>8. CASE ReceiveMetadata  BY <1>8 DEF ReceiveMetadata, Receives, Leave, Surfaced
<1>9. CASE ReceiveAuthError  BY <1>9 DEF ReceiveAuthError, Receives, Leave, Surfaced
<1>10. CASE ReceiveWarning  BY <1>10 DEF ReceiveWarning, Receives, Warned
<1>11. CASE ReceiveIgnores  BY <1>11 DEF ReceiveIgnores, Receives
<1>12. CASE ReceiveFails  BY <1>12 DEF ReceiveFails, Receives, Leave, Surfaced
<1>13. CASE FrameLimit  BY <1>13 DEF FrameLimit, Leave, Surfaced
<1>14. CASE JoinSender  BY <1>14 DEF JoinSender, Surfaced
<1>15. CASE CloseSocket  BY <1>15 DEF CloseSocket, Warned, Settle, Ends, FallBack
<1>16. CASE DrainChunk  BY <1>16 DEF DrainChunk
<1>17. CASE DrainEnds  BY <1>17 DEF DrainEnds, SynthesizeIfAny
<1>18. CASE DrainFails  BY <1>18 DEF DrainFails, SynthesizeIfAny
<1>19. CASE PostAnswers  BY <1>19 DEF PostAnswers
<1>20. CASE Cancel  BY <1>20 DEF Cancel, CancelledInFinish, Ends, Leave, Surfaced
<1>21. CASE SenderStarts  BY <1>21 DEF SenderStarts
<1>22. CASE PullChunk  BY <1>22 DEF PullChunk
<1>23. CASE PullEnd  BY <1>23 DEF PullEnd
<1>24. CASE PullFails  BY <1>24 DEF PullFails
<1>25. CASE SendSettles  BY <1>25 DEF SendSettles
<1>26. CASE SenderCancelled  BY <1>26 DEF SenderCancelled
<1>27. CASE UNCHANGED vars  BY <1>27
<1>28. CASE Resume  BY <1>28 DEF Resume
<1>29. CASE Abandon  BY <1>29 DEF Abandon
<1>30. CASE Finalize  BY <1>30 DEF Finalize, Leave, Surfaced
<1>31. CASE FrameFollows  BY <1>31 DEF FrameFollows
<1> QED
  BY <1>1, <1>2, <1>3, <1>4, <1>5, <1>6, <1>7, <1>8, <1>9, <1>10, <1>11, <1>12, <1>13, <1>14, <1>15, <1>16, <1>17, <1>18, <1>19, <1>20, <1>21, <1>22, <1>23, <1>24, <1>25, <1>26, <1>27, <1>28, <1>29, <1>30, <1>31
     DEF Next, Consumer, Handshake, Receive, Unwind, Batch, Sender, Done

\* A clean end has been flushed, given a server that ends only such turns.
LEMMA CleanEndStep ==
  ASSUME TypeOK, SenderInv, OutcomeInv, AudioInv, SpeechInv, CleanEndInv, ~EarlyMetadata, [Next]_vars
  PROVE  CleanEndInv'
<1> USE DEF SenderInv, OutcomeInv, AudioInv, CleanEndInv, SpeechInv, BeforeSender, Speaking, AfterSender, Running, vars, consumer, sender, text, audio
<1>1. CASE ResolveVoice  BY <1>1 DEF ResolveVoice
<1>2. CASE Connect  BY <1>2 DEF Connect
<1>3. CASE ConnectFails  BY <1>3 DEF ConnectFails, Ends, FallBack
<1>4. CASE Connected  BY <1>4 DEF Connected
<1>5. CASE HandshakeIgnores  BY <1>5 DEF HandshakeIgnores
<1>6. CASE HandshakeFails  BY <1>6 DEF HandshakeFails
<1>7. CASE ReceiveAudio  BY <1>7 DEF ReceiveAudio, Receives
<1>8. CASE ReceiveMetadata  BY <1>8 DEF ReceiveMetadata, Receives, Leave, Surfaced
<1>9. CASE ReceiveAuthError  BY <1>9 DEF ReceiveAuthError, Receives, Leave, Surfaced
<1>10. CASE ReceiveWarning  BY <1>10 DEF ReceiveWarning, Receives, Warned
<1>11. CASE ReceiveIgnores  BY <1>11 DEF ReceiveIgnores, Receives
<1>12. CASE ReceiveFails  BY <1>12 DEF ReceiveFails, Receives, Leave, Surfaced
<1>13. CASE FrameLimit  BY <1>13 DEF FrameLimit, Leave, Surfaced
<1>14. CASE JoinSender  BY <1>14 DEF JoinSender, Surfaced
<1>15. CASE CloseSocket  BY <1>15 DEF CloseSocket, Warned, Settle, Ends, FallBack
<1>16. CASE DrainChunk  BY <1>16 DEF DrainChunk
<1>17. CASE DrainEnds  BY <1>17 DEF DrainEnds, SynthesizeIfAny
<1>18. CASE DrainFails  BY <1>18 DEF DrainFails, SynthesizeIfAny
<1>19. CASE PostAnswers  BY <1>19 DEF PostAnswers
<1>20. CASE Cancel  BY <1>20 DEF Cancel, CancelledInFinish, Ends, Leave, Surfaced
<1>21. CASE SenderStarts  BY <1>21 DEF SenderStarts
<1>22. CASE PullChunk  BY <1>22 DEF PullChunk
<1>23. CASE PullEnd  BY <1>23 DEF PullEnd
<1>24. CASE PullFails  BY <1>24 DEF PullFails
<1>25. CASE SendSettles  BY <1>25 DEF SendSettles
<1>26. CASE SenderCancelled  BY <1>26 DEF SenderCancelled
<1>27. CASE UNCHANGED vars  BY <1>27
<1>28. CASE Resume  BY <1>28 DEF Resume
<1>29. CASE Abandon  BY <1>29 DEF Abandon
<1>30. CASE Finalize  BY <1>30 DEF Finalize, Leave, Surfaced
<1>31. CASE FrameFollows  BY <1>31 DEF FrameFollows
<1> QED
  BY <1>1, <1>2, <1>3, <1>4, <1>5, <1>6, <1>7, <1>8, <1>9, <1>10, <1>11, <1>12, <1>13, <1>14, <1>15, <1>16, <1>17, <1>18, <1>19, <1>20, <1>21, <1>22, <1>23, <1>24, <1>25, <1>26, <1>27, <1>28, <1>29, <1>30, <1>31
     DEF Next, Consumer, Handshake, Receive, Unwind, Batch, Sender, Done

LEMMA InvInit == Init => IInv
<1> SUFFICES ASSUME Init PROVE IInv
  OBVIOUS
<1> USE DEF Init
<1>1. TypeOK
  BY TypeInit
<1>2. SenderInv /\ OutcomeInv /\ RejectionInv /\ CleanEndInv
  BY DEF SenderInv, OutcomeInv, RejectionInv, CleanEndInv, BeforeSender, Speaking, AfterSender, Running
<1>3. AudioInv
  BY DEF AudioInv, BeforeSender
<1>4. TextInv
  BY DEF TextInv, BeforeSender, Chunks
<1>5. SpeechInv
  BY DEF SpeechInv, Running
<1>6. UnwindInv /\ CutInv
  BY DEF UnwindInv, CutInv
<1> QED
  BY <1>1, <1>2, <1>3, <1>4, <1>5, <1>6 DEF IInv

LEMMA InvStep == IInv /\ [Next]_vars => IInv'
<1> SUFFICES ASSUME IInv, [Next]_vars PROVE IInv'
  OBVIOUS
<1>1. TypeOK /\ SenderInv /\ OutcomeInv /\ AudioInv /\ TextInv /\ SpeechInv /\ RejectionInv
      /\ UnwindInv /\ CutInv
  BY DEF IInv
<1>2. TypeOK'
  BY <1>1, ConsumerTypeStep, SenderTypeStep, TextTypeStep, AudioTypeStep DEF TypeOK
<1>3. SenderInv' /\ OutcomeInv' /\ AudioInv' /\ TextInv' /\ SpeechInv' /\ RejectionInv'
      /\ UnwindInv' /\ CutInv'
  BY <1>1, SenderStep, OutcomeStep, AudioStep, TextStep, SpeechStep, RejectionStep,
     UnwindStep, CutStep
<1>4. ~EarlyMetadata => CleanEndInv'
  BY <1>1, CleanEndStep DEF IInv
<1> QED
  BY <1>2, <1>3, <1>4 DEF IInv

\* IInv holds throughout every turn.
THEOREM Invariance == Spec => []IInv
BY InvInit, InvStep, PTL DEF Spec

-----------------------------------------------------------------------------
(* What follows from it *)

\* A turn is one WAV: a batch clip never follows a header or a frame, and only
\* a caller that leaves at the header's yield is left with a header alone,
\* however the socket and the two tasks interleave.
THEOREM TurnIsOneContainer == Spec => []OneContainer
<1>1. IInv => OneContainer
  BY DEF IInv, AudioInv, OneContainer
<1> QED
  BY Invariance, <1>1, PTL

\* The fallback never reads message_gen while the sender could, and no turn
\* leaves its sender behind.
THEOREM FallbackDrainsAlone == Spec => []DrainsAlone
<1>1. IInv => DrainsAlone
  BY DEF IInv, SenderInv, AfterSender, DrainsAlone
<1> QED
  BY Invariance, <1>1, PTL

\* The batch clip speaks every chunk that was read, once and in order, and
\* falls short of the message only if message_gen was cut.
THEOREM BatchLosesNothingRead == Spec => []BatchSpeaksAllThatWasRead
<1>1. IInv => BatchSpeaksAllThatWasRead
  BY DEF IInv, TypeOK, TextType, TextInv, BatchSpeaksAllThatWasRead
<1> QED
  BY Invariance, <1>1, PTL

\* The socket is told the turn in order and Flush comes last.
THEOREM SocketIsToldInOrder == Spec => []FlushComesLast
<1>1. IInv => FlushComesLast
  BY DEF IInv, SpeechInv, FlushComesLast
<1> QED
  BY Invariance, <1>1, PTL

\* A rejected key is raised and never tried on batch, but for the one that a
\* failed sender hides (stream.py:289).
THEOREM RejectionIsRaised == Spec => []KeyRejectionSurfaces
<1>1. IInv => KeyRejectionSurfaces
  BY DEF IInv, TypeOK, OutcomeInv, RejectionInv, AfterSender, KeyRejectionSurfaces
<1> QED
  BY Invariance, <1>1, PTL

\* With a message_gen that raises nothing, the fallback speaks the whole message
\* and drops none, unless the turn's own cancellation of the sender cut it.
THEOREM OnlyTheCutLosesText == Spec => []WholeUnlessCut
<1>1. IInv => WholeUnlessCut
  <2> SUFFICES ASSUME IInv, SourceFaults = {}, spc # "cancelled"
               PROVE  /\ cpc = "post" => parts = Chunks(len)
                      /\ outcome = "silent" => ~Audible(Chunks(len))
    BY DEF WholeUnlessCut
  <2>1. ASSUME cpc = "post" \/ outcome = "silent" PROVE parts = Chunks(len)
    <3>1. outcome # "cancelled"
      BY <2>1 DEF IInv, OutcomeInv
    <3>2. source = "done"
      BY <2>1, <3>1 DEF IInv, TypeOK, TextType, TextInv, CutInv
    <3> QED
      BY <2>1, <3>2 DEF IInv, TextInv
  <2>2. outcome = "silent" => ~Audible(parts)
    BY DEF IInv, CutInv
  <2> QED
    BY <2>1, <2>2
<1> QED
  BY Invariance, <1>1, PTL

\* While _finish_sender waits, its sender can only end cancelled: the guard
\* that is to let an outer cancellation through never can.
THEOREM OuterCancelCannotBeTold == Spec => []JoinedSenderWasCancelled
<1>1. IInv => JoinedSenderWasCancelled
  BY DEF IInv, SenderInv, JoinedSenderWasCancelled
<1> QED
  BY Invariance, <1>1, PTL

\* A turn the socket ends cleanly was sent whole, if the server answers with
\* SpeechMetadata only after the Flush.
THEOREM CleanEndIsWhole ==
  ASSUME ~EarlyMetadata
  PROVE  Spec => []CleanEndWasSentWhole
<1>1. IInv => CleanEndWasSentWhole
  BY DEF IInv, CleanEndInv, CleanEndWasSentWhole
<1> QED
  BY Invariance, <1>1, PTL

\* A failed send is no clean end, whenever the server sends SpeechMetadata.
THEOREM FailedSendsAreNoticed == Spec => []FailedSendIsNoCleanEnd
<1>1. IInv => FailedSendIsNoCleanEnd
  BY DEF IInv, UnwindInv, FailedSendIsNoCleanEnd
<1> QED
  BY Invariance, <1>1, PTL

-----------------------------------------------------------------------------
(* What no step of a turn does *)

\* No step of the sender, of the caller, or of nobody takes the turn back, nor
\* does skipping a message.
LEMMA OthersKeepPace ==
  ASSUME TypeOK, SenderInv, Sender \/ Cancel \/ Abandon \/ HandshakeIgnores \/ UNCHANGED vars
  PROVE  StepsLeft' <= StepsLeft
<1>1. /\ MaxFrames \in Nat /\ frames \in 0..MaxFrames /\ len \in Nat /\ taken \in 0..len
      /\ cpc \in ConsumerStates
  BY TurnAssumption DEF TurnAssumption, TypeOK, ConsumerType, TextType, AudioType
<1>2. ASSUME UNCHANGED <<cpc, frames, len>>, cpc = "drain" => UNCHANGED taken
      PROVE  StepsLeft' <= StepsLeft
  BY <1>1, <1>2 DEF StepsLeft, ConsumerStates
<1> USE DEF vars, consumer, sender, text, audio
<1>3. CASE Sender
  <2>1. CASE PullChunk
    <3>1. cpc # "drain"
      BY <2>1 DEF PullChunk, SenderInv, AfterSender, Running
    <3> QED
      BY <1>2, <2>1, <3>1 DEF PullChunk
  <2>2. CASE ~PullChunk
    BY <1>2, <1>3, <2>2
    DEF Sender, SenderStarts, PullEnd, PullFails, SendSettles, SenderCancelled
  <2> QED
    BY <2>1, <2>2
<1>4. CASE Cancel
  <2>1. CASE UNCHANGED cpc
    BY <1>2, <1>4, <2>1 DEF Cancel, CancelledInFinish
  <2>2. CASE cpc' = "end"
    BY <1>1, <2>2 DEF StepsLeft, ConsumerStates
  <2>3. CASE cpc = "handshake" /\ cpc' = "close"
    BY <1>1, <1>4, <2>3 DEF Cancel, StepsLeft
  <2>4. CASE cpc = "receive" /\ cpc' \in {"finish", "close"}
    BY <1>1, <1>4, <2>4 DEF Cancel, StepsLeft
  <2> QED
    BY <1>4, <2>1, <2>2, <2>3, <2>4 DEF Cancel, CancelledInFinish, Ends, Leave
<1>5. CASE Abandon
  BY <1>1, <1>5 DEF Abandon, StepsLeft
<1>6. CASE HandshakeIgnores \/ UNCHANGED vars
  BY <1>2, <1>6 DEF HandshakeIgnores
<1> QED
  BY <1>3, <1>4, <1>5, <1>6

\* A step of the consumer that does not skip a message brings the end closer.
LEMMA ConsumerMovesOn ==
  ASSUME TypeOK, Consumer, ~HandshakeIgnores
  PROVE  StepsLeft' < StepsLeft /\ StepsLeft' <= StepsLeft
<1>1. /\ MaxFrames \in Nat /\ frames \in 0..MaxFrames /\ len \in Nat /\ taken \in 0..len
  BY TurnAssumption DEF TurnAssumption, TypeOK, TextType, AudioType
<1> USE <1>1 DEF StepsLeft, sender, text, audio
<1>2. CASE ResolveVoice \/ Connect \/ ConnectFails
  BY <1>2 DEF ResolveVoice, Connect, ConnectFails, Ends, FallBack
<1>3. CASE Connected \/ HandshakeFails
  BY <1>3 DEF Connected, HandshakeFails
<1>4. CASE ReceiveAudio \/ ReceiveWarning \/ ReceiveIgnores
  <2>1. /\ cpc = "receive" /\ cpc' \in {"yield_header", "yield", "receive"}
        /\ frames < MaxFrames /\ frames' = frames + 1 /\ len' = len
    BY <1>4 DEF ReceiveAudio, ReceiveWarning, ReceiveIgnores, Receives, consumer
  <2> QED
    BY <2>1
<1>8. CASE FrameFollows \/ Resume
  BY <1>8 DEF FrameFollows, Resume
<1>5. CASE ReceiveMetadata \/ ReceiveAuthError \/ ReceiveFails \/ FrameLimit \/ Finalize
  BY <1>5 DEF ReceiveMetadata, ReceiveAuthError, ReceiveFails, FrameLimit, Finalize, Receives, Leave
<1>6. CASE JoinSender \/ CloseSocket
  BY <1>6 DEF JoinSender, CloseSocket, Settle, Ends, FallBack
<1>7. CASE Batch
  BY <1>7 DEF Batch, DrainChunk, DrainEnds, DrainFails, PostAnswers, SynthesizeIfAny, consumer
<1> QED
  BY <1>2, <1>3, <1>4, <1>5, <1>6, <1>7, <1>8 DEF Consumer, Handshake, Receive, Unwind

\* The bound is a natural number no larger than the one a turn starts with.
LEMMA StepsLeftBounded ==
  ASSUME TypeOK
  PROVE  StepsLeft \in 0..(3 * MaxFrames + MaxChunks + 11)
<1>1. /\ MaxFrames \in Nat /\ MaxChunks \in Nat /\ frames \in 0..MaxFrames
      /\ len \in 0..MaxChunks /\ taken \in 0..len /\ cpc \in ConsumerStates
  BY TurnAssumption DEF TurnAssumption, TypeOK, ConsumerType, TextType, AudioType
<1>2. PICK left \in Nat : left = MaxFrames - frames /\ left <= MaxFrames
  BY <1>1
<1>3. PICK rest \in Nat : rest = len - taken /\ rest <= MaxChunks
  BY <1>1
<1>4. StepsLeft \in Nat /\ StepsLeft <= 3 * MaxFrames + MaxChunks + 11
  BY <1>1, <1>2, <1>3 DEF StepsLeft, ConsumerStates
<1> QED
  BY <1>1, <1>4

\* Every step of the consumer but the skipping of a message brings the turn
\* closer to its end, by a bound that no other step raises: what ReceivingEnds
\* and AbandonedTurnIsClosed take beside this is fairness alone.
THEOREM TurnsRunDown == Spec => TurnRunsDown
<1> DEFINE Down == /\ StepsLeft' <= StepsLeft
                   /\ Consumer => StepsLeft' < StepsLeft \/ HandshakeIgnores
<1>1. IInv /\ [Next]_vars => [Down]_vars
  <2> SUFFICES ASSUME IInv, [Next]_vars PROVE Down
    OBVIOUS
  <2>1. TypeOK /\ SenderInv
    BY DEF IInv
  <2>2. Consumer => StepsLeft' < StepsLeft \/ HandshakeIgnores
    BY <2>1, ConsumerMovesOn
  <2>3. Consumer /\ ~HandshakeIgnores => StepsLeft' <= StepsLeft
    BY <2>1, ConsumerMovesOn
  <2>4. Sender \/ Cancel \/ Abandon \/ HandshakeIgnores \/ UNCHANGED vars
          => StepsLeft' <= StepsLeft
    BY <2>1, OthersKeepPace
  <2>5. StepsLeft' <= StepsLeft
    BY <2>3, <2>4 DEF Next, Done
  <2> QED
    BY <2>2, <2>5
<1>2. IInv => StepsLeft \in 0..(3 * MaxFrames + MaxChunks + 11)
  BY StepsLeftBounded DEF IInv
<1> QED
  BY Invariance, <1>1, <1>2, PTL DEF Spec, TurnRunsDown

\* A cancellation is lost in _finish_sender or behind a failed sender, and
\* nowhere else.
THEOREM CancellationsAreHeard == Spec => CancellationIsHeard
<1> DEFINE Heard ==
      /\ Cancel => \/ cpc = "finish" \/ spc = "failed"
                   \/ exc' = "cancelled" \/ outcome' = "cancelled"
      /\ exc = "cancelled" => exc' = "cancelled" \/ outcome' = "cancelled"
<1>1. IInv /\ [Next]_vars => [Heard]_vars
  <2> SUFFICES ASSUME IInv, [Next]_vars PROVE Heard
    OBVIOUS
  <2>1. ASSUME Cancel
        PROVE  \/ cpc = "finish" \/ spc = "failed"
               \/ exc' = "cancelled" \/ outcome' = "cancelled"
    BY <2>1 DEF Cancel, CancelledInFinish, Ends, Leave, Surfaced
  <2>2. ASSUME exc = "cancelled"
        PROVE  exc' = "cancelled" \/ outcome' = "cancelled"
    <3>1. cpc \in {"finish", "close"} /\ outcome = "open" /\ (cpc = "finish" => spc # "failed")
      BY <2>2 DEF IInv, UnwindInv, SenderInv, Running
    <3>2. CASE CloseSocket
      BY <2>2, <3>1, <3>2 DEF CloseSocket, Settle, Ends
    <3>3. CASE JoinSender
      BY <2>2, <3>1, <3>3 DEF JoinSender, Surfaced
    <3>4. CASE Cancel
      BY <2>2, <3>1, <3>4 DEF Cancel, CancelledInFinish, Ends
    <3>5. CASE Sender \/ UNCHANGED vars
      BY <2>2, <3>5 DEF Sender, SenderStarts, PullChunk, PullEnd, PullFails, SendSettles,
         SenderCancelled, vars, consumer
    <3>6. ~Abandon /\ (Consumer => JoinSender \/ CloseSocket)
      BY <3>1 DEF Abandon, Consumer, ResolveVoice, Connect, ConnectFails, Handshake, Connected,
         HandshakeIgnores, HandshakeFails, Receive, ReceiveAudio, FrameFollows, Resume, ReceiveMetadata,
         ReceiveAuthError, ReceiveWarning, ReceiveIgnores, ReceiveFails, FrameLimit, Receives,
         Unwind, Finalize, Batch, DrainChunk, DrainEnds, DrainFails, PostAnswers
    <3> QED
      BY <3>2, <3>3, <3>4, <3>5, <3>6 DEF Next, Done
  <2> QED
    BY <2>1, <2>2
<1> QED
  BY Invariance, <1>1, PTL DEF Spec, CancellationIsHeard

-----------------------------------------------------------------------------
(* The turn implements its contract *)

\* Every step of the turn is one its contract allows, or changes nothing the
\* caller sees.
LEMMA ContractStep ==
  ASSUME TypeOK, SenderInv, OutcomeInv, AudioInv, [Next]_vars
  PROVE  [Contract!Next]_(Contract!vars)
<1> USE DEF Contract!Next, Contract!StartsSpeaking, Contract!KeepsSpeaking,
            Contract!SpeaksAsOneClip, Contract!Ends,
            TypeOK, AudioType, OutcomeInv, AudioInv, BeforeSender, Contract!vars, vars, consumer, sender, text, audio
<1>1. CASE ResolveVoice  BY <1>1 DEF ResolveVoice
<1>2. CASE Connect  BY <1>2 DEF Connect
<1>3. CASE ConnectFails  BY <1>3 DEF ConnectFails, Ends, FallBack
<1>4. CASE Connected  BY <1>4 DEF Connected
<1>5. CASE HandshakeIgnores  BY <1>5 DEF HandshakeIgnores
<1>6. CASE HandshakeFails  BY <1>6 DEF HandshakeFails
<1>7. CASE ReceiveAudio
  <2>1. outcome = "open" /\ outcome' = outcome
    BY <1>7 DEF ReceiveAudio, Receives
  <2>2. CASE audio_started
    <3>1. out # <<>> /\ Len(out) # 1 /\ out' = Append(out, "frame")
      BY <1>7, <2>1, <2>2 DEF ReceiveAudio, Receives
    <3> QED
      BY <2>1, <3>1
  <2>3. CASE ~audio_started
    <3>1. cpc = "receive" /\ header /\ out = <<>>
      BY <1>7, <2>3 DEF ReceiveAudio, Receives
    <3>2. out' = Append(out, "header")
      BY <1>7, <3>1 DEF ReceiveAudio
    <3> QED
      BY <2>1, <3>1, <3>2
  <2> QED
    BY <2>2, <2>3
<1>8. CASE ReceiveMetadata  BY <1>8 DEF ReceiveMetadata, Receives, Leave, Surfaced
<1>9. CASE ReceiveAuthError  BY <1>9 DEF ReceiveAuthError, Receives, Leave, Surfaced
<1>10. CASE ReceiveWarning  BY <1>10 DEF ReceiveWarning, Receives, Warned
<1>11. CASE ReceiveIgnores  BY <1>11 DEF ReceiveIgnores, Receives
<1>12. CASE ReceiveFails  BY <1>12 DEF ReceiveFails, Receives, Leave, Surfaced
<1>13. CASE FrameLimit  BY <1>13 DEF FrameLimit, Leave, Surfaced
<1>14. CASE JoinSender  BY <1>14 DEF JoinSender, Surfaced
<1>15. CASE CloseSocket
  <2>1. out' = out /\ cpc = "close"
    BY <1>15 DEF CloseSocket
  <2>2. CASE outcome = "abandoned"
    BY <1>15, <2>1, <2>2 DEF CloseSocket, Ends
  <2>3. CASE outcome # "abandoned"
    <3>1. outcome = "open" /\ out # <<"header">>
      <4>1. outcome = "open"
        BY <2>1, <2>3
      <4>2. audio_started => Len(out) # 1
        BY <2>1, <2>3
      <4>3. ~audio_started => out = <<>>
        BY <2>1
      <4>4. <<"header">> # <<>> /\ Len(<<"header">>) = 1
        OBVIOUS
      <4> QED
        BY <4>1, <4>2, <4>3, <4>4
    <3>2. \/ outcome' \in {"open", "complete", "auth", "cancelled"}
          \/ outcome' = "early" /\ audio_started
      BY <1>15, <2>3, <3>1 DEF CloseSocket, Settle, Ends, FallBack
    <3> QED
      BY <2>1, <3>1, <3>2
  <2> QED
    BY <2>2, <2>3
<1>16. CASE DrainChunk  BY <1>16 DEF DrainChunk
<1>17. CASE DrainEnds  BY <1>17 DEF DrainEnds, SynthesizeIfAny
<1>18. CASE DrainFails  BY <1>18 DEF DrainFails, SynthesizeIfAny
<1>19. CASE PostAnswers  BY <1>19 DEF PostAnswers
<1>20. CASE Cancel  BY <1>20 DEF Cancel, CancelledInFinish, Ends, Leave, Surfaced
<1>21. CASE SenderStarts  BY <1>21 DEF SenderStarts
<1>22. CASE PullChunk  BY <1>22 DEF PullChunk
<1>23. CASE PullEnd  BY <1>23 DEF PullEnd
<1>24. CASE PullFails  BY <1>24 DEF PullFails
<1>25. CASE SendSettles  BY <1>25 DEF SendSettles
<1>26. CASE SenderCancelled  BY <1>26 DEF SenderCancelled
<1>27. CASE UNCHANGED vars  BY <1>27
<1>28. CASE Resume  BY <1>28 DEF Resume
<1>29. CASE Abandon  BY <1>29 DEF Abandon
<1>30. CASE Finalize  BY <1>30 DEF Finalize, Leave, Surfaced
<1>31. CASE FrameFollows  BY <1>31 DEF FrameFollows
<1> QED
  BY <1>1, <1>2, <1>3, <1>4, <1>5, <1>6, <1>7, <1>8, <1>9, <1>10, <1>11, <1>12, <1>13, <1>14, <1>15, <1>16, <1>17, <1>18, <1>19, <1>20, <1>21, <1>22, <1>23, <1>24, <1>25, <1>26, <1>27, <1>28, <1>29, <1>30, <1>31
     DEF Next, Consumer, Handshake, Receive, Unwind, Batch, Sender, Done

\* FluxTurn implements TurnContract.
THEOREM TurnKeepsContract == Spec => ContractSpec
<1>1. Init => Contract!Init
  BY DEF Init, Contract!Init
<1>2. IInv /\ [Next]_vars => [Contract!Next]_(Contract!vars)
  BY ContractStep DEF IInv
<1> QED
  BY Invariance, <1>1, <1>2, PTL DEF Spec, ContractSpec, Contract!Spec
=============================================================================
