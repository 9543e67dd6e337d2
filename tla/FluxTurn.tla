------------------------------ MODULE FluxTurn ------------------------------
(***************************************************************************)
(* One streamed turn of speech: DeepgramTTSEntity.async_stream_tts_audio   *)
(* and its generators (tts.py) over one FluxSocket (stream.py).            *)
(*                                                                         *)
(* Two asyncio tasks share the turn.  The CONSUMER is whoever drains the   *)
(* data generator; it runs _socket_stream, FluxSocket.stream, _receive and *)
(* _batch_stream as one stack.  The SENDER is the task created for         *)
(* FluxSocket._send; it pulls text from message_gen through _tee and       *)
(* writes it to the socket.  Code between two awaits is one action.        *)
(*                                                                         *)
(* External, modelled from how the code uses them: the Flux server (which  *)
(* message the next receive() returns), message_gen (when it has a chunk,  *)
(* ends or raises), and the caller, which may cancel the consumer at any   *)
(* await, more than once, or stop asking for audio and leave the generator *)
(* to be finalized by the event loop.                                      *)
(***************************************************************************)
EXTENDS Naturals, Sequences

CONSTANTS
  MaxChunks,     (* bound on the chunks of one message                     *)
  BlankChunks,   (* the positions whose chunk is the empty string          *)
  SourceFaults,  (* what message_gen may raise: a subset of FaultKinds     *)
  MaxFrames,     (* MAX_FRAMES_PER_TURN                                    *)
  MaxWarnings,   (* MAX_WARNINGS_PER_TURN                                  *)
  EarlyMetadata  (* may the server send SpeechMetadata before the Flush?   *)

\* A network error of message_gen is one _finish_sender maps (TimeoutError,
\* ClientError, OSError); "runtime" is one _batch_stream catches.
FaultKinds == {"network", "runtime", "other"}

ASSUME TurnAssumption ==
  /\ MaxChunks \in Nat
  /\ BlankChunks \subseteq Nat
  /\ SourceFaults \subseteq FaultKinds
  /\ MaxFrames \in Nat
  /\ MaxWarnings \in Nat
  /\ EarlyMetadata \in BOOLEAN

VARIABLES
  \* the consumer task
  cpc,           (* the await it is suspended at                           *)
  exc,           (* the exception FluxSocket.stream is unwinding with      *)
  outcome,       (* how the data generator ended, "open" before that       *)
  asked,         (* history: the consumer has been cancelled               *)
  rejected,      (* history: where the server rejected the key, or "no"    *)
  \* the sender task
  spc,           (* the await it is suspended at, or how it ended          *)
  scancel,       (* sender.cancel() has been called                        *)
  spoken,        (* history: the chunks written as Speak messages          *)
  flushed,       (* history: the Flush has been written                    *)
  \* the text of the turn; a chunk is its position in the message
  len,           (* the length of the message                              *)
  source,        (* message_gen: "open", "done" (exhausted) or "cut"       *)
  taken,         (* history: how many chunks were pulled off message_gen   *)
  consumed,      (* the copy _tee keeps                                    *)
  parts,         (* what _batch_stream has joined up so far                *)
  \* the audio of the turn
  frames,        (* messages _receive has asked for                        *)
  header,        (* _socket_stream is holding the WAV header               *)
  audio_started, (* a frame has been yielded (and first_frame_ms is set)   *)
  warnings,      (* length of metrics.warnings                             *)
  heard,         (* parity of the messages received, so that ignoring one  *)
                 (* is still a step                                        *)
  out            (* what the caller has been given                         *)

consumer == <<cpc, exc, outcome, asked, rejected>>
sender   == <<spc, scancel, spoken, flushed>>
text     == <<len, source, taken, consumed, parts>>
audio    == <<frames, header, audio_started, warnings, heard, out>>
vars     == <<consumer, sender, text, audio>>

ConsumerStates == {"start", "connect", "handshake", "receive", "yield_header", "yield",
                   "orphan", "finish", "close", "drain", "post", "end"}
Exceptions     == {"none", "conn", "auth", "cancelled", "closed"}
Outcomes       == {"open", "complete", "early", "silent", "no_voice", "conn",
                   "auth", "request", "source", "cancelled", "abandoned"}
Running        == {"created", "next", "send", "flush"}   \* not sender.done()
SenderStates   == Running \cup {"none", "done", "failed", "lost", "cancelled"}

\* The first n chunks of the message.
Chunks(n) == [i \in 1..n |-> i]

Init ==
  /\ cpc = "start" /\ exc = "none" /\ outcome = "open"
  /\ asked = FALSE /\ rejected = "no"
  /\ spc = "none" /\ scancel = FALSE /\ spoken = <<>> /\ flushed = FALSE
  /\ len \in 0..MaxChunks /\ source = "open" /\ taken = 0
  /\ consumed = <<>> /\ parts = <<>>
  /\ frames = 0 /\ header = FALSE /\ audio_started = FALSE
  /\ warnings = 0 /\ heard = FALSE /\ out = <<>>

-----------------------------------------------------------------------------
(* How the consumer's stack unwinds *)

\* The data generator ends, or raises out of _socket_stream.
Ends(how) == cpc' = "end" /\ outcome' = how /\ exc' = "none" /\ UNCHANGED parts

\* _batch_stream starts from the copy of what the sender has pulled.
FallBack == cpc' = "drain" /\ parts' = consumed /\ exc' = "none" /\ UNCHANGED outcome

\* What _socket_stream does with the way FluxSocket.stream ended.
Settle_FallsBackBehindAudio ==      \* mutant: the audio_started test is gone
  \/ exc = "none" /\ Ends("complete")
  \/ exc = "conn" /\ FallBack
  \/ exc \in {"auth", "cancelled"} /\ Ends(exc)

Settle_CatchesCancellation ==       \* mutant: except BaseException
  \/ exc = "none" /\ Ends("complete")
  \/ exc \in {"conn", "cancelled"} /\ audio_started /\ Ends("early")
  \/ exc \in {"conn", "cancelled"} /\ ~audio_started /\ FallBack
  \/ exc = "auth" /\ Ends("auth")

Settle ==
  \/ exc = "none" /\ Ends("complete")
  \/ exc = "conn" /\ audio_started /\ Ends("early")
  \/ exc = "conn" /\ ~audio_started /\ FallBack
  \/ exc \in {"auth", "cancelled"} /\ Ends(exc)

\* What _finish_sender raises once the sender is done: its failure, over
\* whatever was already on its way up.
Surfaced_Nothing(e) == e            \* mutant: a failed sender goes unnoticed

Surfaced(e) == IF spc = "failed" THEN "conn" ELSE e

\* The finally of FluxSocket.stream.  Awaiting a sender that is already done
\* does not suspend, so the stack unwinds to the socket's close at once.
Leave_WithoutCancelling(e) ==       \* mutant: the sender is never cancelled
  IF spc \in Running
    THEN cpc' = "finish" /\ exc' = e /\ UNCHANGED scancel
    ELSE cpc' = "close" /\ exc' = Surfaced(e) /\ UNCHANGED scancel

Leave_WithoutJoining(e) ==          \* mutant: cancelled but not awaited
  cpc' = "close" /\ exc' = Surfaced(e) /\ scancel' = (spc \in Running)

Leave(e) ==
  IF spc \in Running
    THEN cpc' = "finish" /\ exc' = e /\ scancel' = TRUE
    ELSE cpc' = "close" /\ exc' = Surfaced(e) /\ UNCHANGED scancel

\* Is there any text to synthesize?  if not "".join(parts)
Audible(chunks) == \E i \in DOMAIN chunks : chunks[i] \notin BlankChunks

\* _batch_stream once message_gen is drained.
SynthesizeIfAny(chunks) ==
  IF Audible(chunks)
    THEN cpc' = "post" /\ UNCHANGED outcome
    ELSE cpc' = "end" /\ outcome' = "silent"

-----------------------------------------------------------------------------
(* The consumer, up to the socket being connected *)

\* async_stream_tts_audio: resolve_voice finds no voice, an Aura voice, which
\* has no socket and goes straight to the batch endpoint, or a Flux voice.
ResolveVoice ==
  /\ cpc = "start"
  /\ \/ cpc' = "end" /\ outcome' = "no_voice"
     \/ cpc' \in {"drain", "connect"} /\ UNCHANGED outcome
  /\ UNCHANGED <<exc, asked, rejected, sender, text, audio>>

Connect ==
  /\ cpc = "connect"
  /\ cpc' = "handshake"
  /\ UNCHANGED <<exc, outcome, asked, rejected, sender, text, audio>>

\* ws_connect raises.  A 401 or 403 on the upgrade is an auth error; any
\* other handshake, client, timeout or OS error is a connection error.
ConnectFails_AllAlike ==            \* mutant: a 401 is left to ClientError
  /\ cpc = "connect"
  /\ FallBack
  /\ rejected' \in {"handshake", "no"}
  /\ UNCHANGED <<asked, sender, len, source, taken, consumed, audio>>

ConnectFails ==
  /\ cpc = "connect"
  /\ \/ Ends("auth") /\ rejected' = "handshake"
     \/ FallBack /\ UNCHANGED rejected
  /\ UNCHANGED <<asked, sender, len, source, taken, consumed, audio>>

\* _await_connected returns; stream yields its header, which _socket_stream
\* holds or, audio having started, passes on; then the sender is created.
Connected_HeaderGoesOut ==          \* mutant: the header is not held back
  /\ cpc = "handshake"
  /\ cpc' = "receive" /\ spc' = "created" /\ out' = Append(out, "header")
  /\ heard' = ~heard
  /\ UNCHANGED <<exc, outcome, asked, rejected, scancel, spoken, flushed, text,
                 frames, header, audio_started, warnings>>

Connected ==
  /\ cpc = "handshake"
  /\ cpc' = "receive" /\ spc' = "created" /\ header' = TRUE
  /\ heard' = ~heard
  /\ UNCHANGED <<exc, outcome, asked, rejected, scancel, spoken, flushed, text,
                 frames, audio_started, warnings, out>>

\* Any other message before Connected is skipped, however many there are.
HandshakeIgnores ==
  /\ cpc = "handshake"
  /\ heard' = ~heard
  /\ UNCHANGED <<consumer, sender, text, frames, header, audio_started, warnings, out>>

\* An Error frame, an unreadable one, a close or the 10 s timeout before
\* Connected.  The socket is closed on the way up; there is no sender yet.
HandshakeFails ==
  /\ cpc = "handshake"
  /\ cpc' = "close"
  /\ \/ exc' = "auth" /\ rejected' = "handshake"
     \/ exc' = "conn" /\ UNCHANGED rejected
  /\ UNCHANGED <<outcome, asked, sender, text, audio>>

-----------------------------------------------------------------------------
(* The consumer, receiving *)

\* _receive is awaiting its next message, within its bound.
Receives ==
  /\ cpc = "receive" /\ frames < MaxFrames
  /\ frames' = frames + 1 /\ heard' = ~heard

\* A binary frame, which is passed on.  The first one sets first_frame_ms and
\* waits behind the yield of the header that was held for it.  The server only
\* speaks what it was sent.
ReceiveAudio ==
  /\ Receives /\ spoken # <<>>
  /\ IF header
       THEN cpc' = "yield_header" /\ out' = Append(out, "header")
       ELSE cpc' = "yield" /\ out' = Append(out, "frame")
  /\ header' = FALSE /\ audio_started' = TRUE
  /\ UNCHANGED <<exc, outcome, asked, rejected, sender, text, warnings>>

\* The caller, having been given the header, asks for more.
FrameFollows ==
  /\ cpc = "yield_header"
  /\ cpc' = "yield" /\ out' = Append(out, "frame")
  /\ UNCHANGED <<exc, outcome, asked, rejected, sender, text,
                 frames, header, audio_started, warnings, heard>>

\* The caller asks for more.
Resume ==
  /\ cpc = "yield"
  /\ cpc' = "receive"
  /\ UNCHANGED <<exc, outcome, asked, rejected, sender, text, audio>>

\* The caller, cancelled itself or content, does not: the generators are left
\* where they are, until the event loop closes what nobody refers to.
Abandon ==
  /\ cpc \in {"yield_header", "yield"}
  /\ cpc' = "orphan" /\ outcome' = "abandoned"
  /\ UNCHANGED <<exc, asked, rejected, sender, text, audio>>

\* aclose throws a GeneratorExit into FluxSocket.stream, at its yield.
Finalize ==
  /\ cpc = "orphan"
  /\ Leave("closed")
  /\ UNCHANGED <<outcome, asked, rejected, spc, spoken, flushed, text, audio>>

\* SpeechMetadata ends the turn.
ReceiveMetadata ==
  /\ Receives
  /\ flushed \/ EarlyMetadata
  /\ Leave("none")
  /\ UNCHANGED <<outcome, asked, rejected, spc, spoken, flushed, text,
                 header, audio_started, warnings, out>>

\* An Error message that names the key.
ReceiveAuthError ==
  /\ Receives
  /\ rejected' = "mid_turn"
  /\ Leave("auth")
  /\ UNCHANGED <<outcome, asked, spc, spoken, flushed, text,
                 header, audio_started, warnings, out>>

\* _warn keeps at most MAX_WARNINGS_PER_TURN of them.
Warned_Unbounded == warnings + 1    \* mutant: the list grows with the server

Warned == IF warnings < MaxWarnings THEN warnings + 1 ELSE warnings

ReceiveWarning ==
  /\ Receives
  /\ warnings' = Warned
  /\ UNCHANGED <<consumer, sender, text, header, audio_started, out>>

\* Any other text message.
ReceiveIgnores ==
  /\ Receives
  /\ UNCHANGED <<consumer, sender, text, header, audio_started, warnings, out>>

\* Any other Error message, an unreadable one, a close, or 30 s of silence.
ReceiveFails ==
  /\ Receives
  /\ Leave("conn")
  /\ UNCHANGED <<outcome, asked, rejected, spc, spoken, flushed, text,
                 header, audio_started, warnings, out>>

\* One message more than MAX_FRAMES_PER_TURN.
FrameLimit ==
  /\ cpc = "receive" /\ frames = MaxFrames
  /\ Leave("conn")
  /\ UNCHANGED <<outcome, asked, rejected, spc, spoken, flushed, text, audio>>

-----------------------------------------------------------------------------
(* The consumer, ending the turn or falling back *)

\* The sender _finish_sender waits for is done.
JoinSender ==
  /\ cpc = "finish" /\ spc \notin Running
  /\ cpc' = "close" /\ exc' = Surfaced(exc)
  /\ UNCHANGED <<outcome, asked, rejected, sender, text, audio>>

\* The socket's context manager has closed it.  A turn that ended cleanly
\* then has its sample rate checked, which warns at most once.  Of one that was
\* abandoned nobody learns how it ended.
CloseSocket ==
  /\ cpc = "close"
  /\ \/ UNCHANGED warnings
     \/ exc = "none" /\ audio_started /\ warnings' = Warned
  /\ IF outcome = "abandoned" THEN Ends("abandoned") ELSE Settle
  /\ UNCHANGED <<asked, rejected, sender, len, source, taken, consumed,
                 frames, header, audio_started, heard, out>>

\* _batch_stream reads the rest of message_gen itself.
DrainChunk ==
  /\ cpc = "drain" /\ source = "open" /\ taken < len
  /\ taken' = taken + 1 /\ parts' = Append(parts, taken + 1)
  /\ UNCHANGED <<consumer, sender, len, source, consumed, audio>>

\* message_gen ends; one that was cut or exhausted before ends at once.
DrainEnds ==
  /\ cpc = "drain"
  /\ \/ source # "open" /\ UNCHANGED source
     \/ source = "open" /\ taken = len /\ source' = "done"
  /\ SynthesizeIfAny(parts)
  /\ UNCHANGED <<exc, asked, rejected, sender, len, taken, consumed, parts, audio>>

\* message_gen raises: a RuntimeError costs the tail, anything else escapes.
DrainFails ==
  /\ cpc = "drain" /\ source = "open"
  /\ source' = "cut"
  /\ \/ "runtime" \in SourceFaults /\ SynthesizeIfAny(parts)
     \/ /\ SourceFaults \ {"runtime"} # {}
        /\ cpc' = "end" /\ outcome' = "source"
  /\ UNCHANGED <<exc, asked, rejected, sender, len, taken, consumed, parts, audio>>

\* async_synthesize returns the clip, or raises one of its typed errors.
PostAnswers ==
  /\ cpc = "post"
  /\ cpc' = "end"
  /\ \/ out' = Append(out, "clip") /\ outcome' = "complete"
     \/ outcome' \in {"conn", "auth", "request"} /\ UNCHANGED out
  /\ UNCHANGED <<exc, asked, rejected, sender, text,
                 frames, header, audio_started, warnings, heard>>

-----------------------------------------------------------------------------
(* The consumer is cancelled, at whichever await it is suspended *)

\* In _finish_sender the cancellation is passed on to the sender, which is
\* being cancelled anyway.  The CancelledError that comes back is taken for
\* the sender's own, as sender.cancelled() is true, and goes no further.
CancelledInFinish ==
  /\ cpc = "finish"
  /\ UNCHANGED <<cpc, exc, outcome, scancel, source, parts>>

Cancel ==
  /\ outcome = "open" /\ asked' = TRUE
  /\ \/ /\ cpc \in {"connect", "close"}
        /\ Ends("cancelled") /\ UNCHANGED <<scancel, source>>
     \/ /\ cpc = "handshake"
        /\ cpc' = "close" /\ exc' = "cancelled"
        /\ UNCHANGED <<outcome, scancel, source, parts>>
     \/ /\ cpc = "receive" /\ frames < MaxFrames
        /\ Leave("cancelled") /\ UNCHANGED <<outcome, source, parts>>
     \/ CancelledInFinish
     \/ /\ \/ cpc = "drain" /\ source = "open" /\ source' = "cut"
           \/ cpc = "post" /\ UNCHANGED source
        /\ Ends("cancelled") /\ UNCHANGED scancel
  /\ UNCHANGED <<rejected, spc, spoken, flushed, len, taken, consumed, audio>>

-----------------------------------------------------------------------------
(* The sender *)

SenderStarts ==
  /\ spc = "created" /\ ~scancel
  /\ spc' = "next"
  /\ UNCHANGED <<consumer, scancel, spoken, flushed, text, audio>>

\* message_gen hands over a chunk: _tee keeps a copy before passing it on,
\* and _send skips it if it is empty, else writes a Speak and awaits that.
PullChunk_CopyAfterSend ==          \* mutant: the copy is made afterwards,
  /\ spc = "next" /\ ~scancel       \* when the next chunk is asked for
  /\ source = "open" /\ taken < len
  /\ taken' = taken + 1
  /\ consumed' = Chunks(taken)
  /\ IF taken + 1 \in BlankChunks
       THEN UNCHANGED <<spc, spoken>>
       ELSE spc' = "send" /\ spoken' = Append(spoken, taken + 1)
  /\ UNCHANGED <<consumer, scancel, flushed, len, source, parts, audio>>

PullChunk_StopsAtBlank ==           \* mutant: break where the code continues
  /\ spc = "next" /\ ~scancel
  /\ source = "open" /\ taken < len
  /\ taken' = taken + 1 /\ consumed' = Append(consumed, taken + 1)
  /\ IF taken + 1 \in BlankChunks
       THEN spc' = "flush" /\ flushed' = TRUE /\ UNCHANGED spoken
       ELSE spc' = "send" /\ spoken' = Append(spoken, taken + 1) /\ UNCHANGED flushed
  /\ UNCHANGED <<consumer, scancel, len, source, parts, audio>>

PullChunk ==
  /\ spc = "next" /\ ~scancel
  /\ source = "open" /\ taken < len
  /\ taken' = taken + 1 /\ consumed' = Append(consumed, taken + 1)
  /\ IF taken + 1 \in BlankChunks
       THEN UNCHANGED <<spc, spoken>>
       ELSE spc' = "send" /\ spoken' = Append(spoken, taken + 1)
  /\ UNCHANGED <<consumer, scancel, flushed, len, source, parts, audio>>

\* message_gen is exhausted: the Flush is written and awaited.
PullEnd ==
  /\ spc = "next" /\ ~scancel
  /\ source = "open" /\ taken = len
  /\ source' = "done" /\ spc' = "flush" /\ flushed' = TRUE
  /\ UNCHANGED <<consumer, scancel, spoken, len, taken, consumed, parts, audio>>

\* message_gen raises into _send, which ends with that exception.
PullFails ==
  /\ spc = "next" /\ ~scancel /\ source = "open"
  /\ source' = "cut"
  /\ \/ "network" \in SourceFaults /\ spc' = "failed"
     \/ SourceFaults \ {"network"} # {} /\ spc' = "lost"
  /\ UNCHANGED <<consumer, scancel, spoken, flushed, len, taken, consumed, parts, audio>>

\* send_json returns, or raises because the socket is going away.
SendSettles ==
  /\ ~scancel
  /\ \/ spc = "send"  /\ spc' \in {"next", "failed"}
     \/ spc = "flush" /\ spc' \in {"done", "failed"}
  /\ UNCHANGED <<consumer, scancel, spoken, flushed, text, audio>>

\* The CancelledError reaches the sender.  Awaiting message_gen, it is thrown
\* into that generator, which is finished by it: the rest of it is gone.
SenderCancelled ==
  /\ spc \in Running /\ scancel
  /\ spc' = "cancelled"
  /\ source' = IF spc = "next" THEN "cut" ELSE source
  /\ UNCHANGED <<consumer, scancel, spoken, flushed, len, taken, consumed, parts, audio>>

-----------------------------------------------------------------------------
(* Specification *)

Handshake == Connected \/ HandshakeIgnores \/ HandshakeFails

Receive == \/ ReceiveAudio \/ FrameFollows \/ Resume \/ ReceiveMetadata \/ ReceiveAuthError \/ ReceiveWarning
           \/ ReceiveIgnores \/ ReceiveFails \/ FrameLimit

Unwind == Finalize \/ JoinSender \/ CloseSocket

Batch == DrainChunk \/ DrainEnds \/ DrainFails \/ PostAnswers

Consumer == ResolveVoice \/ Connect \/ ConnectFails \/ Handshake \/ Receive \/ Unwind \/ Batch

Sender == SenderStarts \/ PullChunk \/ PullEnd \/ PullFails \/ SendSettles \/ SenderCancelled

\* The turn is over and nothing of it is left running.
Done == cpc = "end" /\ spc \notin Running /\ UNCHANGED vars

Next == Consumer \/ Sender \/ Cancel \/ Abandon \/ Done

\* Every await of the consumer answers: receive() and the requests have
\* timeouts, and message_gen, which it drains without one, is assumed to.  The
\* caller asks for more or gives up, and then the event loop finalizes.  Of
\* the sender only the event loop's part is assumed, that a cancellation is
\* delivered: it may wait for text or for the socket for ever.
Fairness == WF_vars(Consumer) /\ WF_vars(SenderCancelled)

Spec == Init /\ [][Next]_vars

FairSpec == Spec /\ Fairness

-----------------------------------------------------------------------------
(* Properties *)

ConsumerType ==
  /\ cpc \in ConsumerStates /\ exc \in Exceptions /\ outcome \in Outcomes
  /\ asked \in BOOLEAN /\ rejected \in {"no", "handshake", "mid_turn"}

SenderType ==
  /\ spc \in SenderStates /\ scancel \in BOOLEAN /\ flushed \in BOOLEAN
  /\ spoken \in Seq(1..len)

TextType ==
  /\ len \in 0..MaxChunks /\ source \in {"open", "done", "cut"} /\ taken \in 0..len
  /\ consumed \in Seq(1..len) /\ parts \in Seq(1..len)

AudioType ==
  /\ frames \in 0..MaxFrames /\ warnings \in 0..MaxWarnings
  /\ header \in BOOLEAN /\ audio_started \in BOOLEAN /\ heard \in BOOLEAN
  /\ out \in Seq({"header", "frame", "clip"})

\* Every variable keeps its type; frames and warnings keep within the bounds
\* MAX_FRAMES_PER_TURN and MAX_WARNINGS_PER_TURN set for a chatty server.
TypeOK ==
  /\ ConsumerType /\ SenderType /\ TextType /\ AudioType

\* A turn is one WAV: nothing yet, one batch clip, or a single header with only
\* frames behind it.  In particular a clip is never sent behind a header or a
\* frame, and a header never stays without audio (the two failure windows of
\* _socket_stream), unless the caller itself leaves at the header's own yield.
OneContainer ==
  \/ out \in {<<>>, <<"clip">>}
  \/ /\ out # <<>> /\ out[1] = "header"
     /\ \A i \in 2..Len(out) : out[i] = "frame"
     /\ Len(out) = 1 => cpc = "yield_header" \/ outcome = "abandoned"

\* The text _batch_stream speaks, or finds empty, is every chunk that anyone
\* pulled off message_gen, once and in order: what the sender took before it
\* was stopped and what the drain took after.  It stops short of the whole
\* message only if message_gen was cut, by an exception of its own or by the
\* cancellation of a sender that was waiting on it.
BatchSpeaksAllThatWasRead ==
  cpc = "post" \/ outcome = "silent" =>
    /\ parts = Chunks(taken)
    /\ taken = len \/ source = "cut"

\* Nobody iterates message_gen while the sender might: once the fallback
\* drains, or the turn ends, the sender of the turn is done.  A drain that
\* overlapped it would raise "asynchronous generator is already running", and
\* a sender left behind would write to a closed socket.
DrainsAlone == cpc \in {"close", "drain", "post", "end"} => spc \notin Running

\* _send tells the socket the turn in order, no chunk twice, and Flush is the
\* last word: by then every chunk that is not blank has been sent.
FlushComesLast ==
  /\ \A i, j \in DOMAIN spoken : i < j => spoken[i] < spoken[j]
  /\ flushed => \A c \in (1..len) \ BlankChunks : \E i \in DOMAIN spoken : spoken[i] = c

\* A turn the socket completed is one the server was told whole: neither a
\* send that failed nor a message_gen that raised passes for a clean end,
\* which is what _finish_sender is there to prevent.
CleanEndWasSentWhole ==
  outcome = "complete" /\ out # <<"clip">> => spc \in {"done", "cancelled"} /\ flushed

\* A key rejected before Connected, by the upgrade or in band, is never tried
\* on the batch endpoint and never ends the turn as if it were the network.
\* One rejected later is not either, unless the sender had failed by then, the
\* one exception that _finish_sender raises over it.
KeyRejectionSurfaces ==
  /\ rejected = "handshake" =>
       cpc \in {"close", "end"} /\ outcome \in {"open", "auth", "cancelled"}
  /\ rejected = "mid_turn" /\ spc # "failed" =>
       cpc \in {"finish", "close", "end"} /\ outcome \in {"open", "auth", "cancelled"}

\* The sender that _finish_sender waits for has been cancelled and can only
\* end cancelled, so the test that is to tell an outer cancellation from our
\* own (if not sender.cancelled(): raise) always takes it for our own.
JoinedSenderWasCancelled ==
  cpc = "finish" => scancel /\ spc \in Running \cup {"cancelled"}

\* A cancellation stops the turn, from whichever await and behind whatever has
\* happened, with two exceptions: in _finish_sender it is taken for the sender's
\* own, and the failure of a sender is raised over it (stream.py:280-290).
CancellationIsHeard ==
  [][/\ Cancel => \/ cpc = "finish" \/ spc = "failed"
                  \/ exc' = "cancelled" \/ outcome' = "cancelled"
     /\ exc = "cancelled" => exc' = "cancelled" \/ outcome' = "cancelled"]_vars

\* The text reaches the batch endpoint whole, and a turn with text is never
\* dropped, unless message_gen raised something itself or was cut by the
\* cancellation of its sender: no other loss is behind WholeTurnFallsBack and
\* TurnWithTextIsNotDropped below.
WholeUnlessCut ==
  SourceFaults = {} /\ spc # "cancelled" =>
    /\ cpc = "post" => parts = Chunks(len)
    /\ outcome = "silent" => ~Audible(Chunks(len))

\* A failed send never passes for a clean end, not even for a server that sends
\* SpeechMetadata before it was flushed.
FailedSendIsNoCleanEnd == outcome = "complete" /\ out # <<"clip">> => spc # "failed"

\* What is left of a turn: a bound on the steps of the consumer still to come,
\* messages that are skipped before Connected not counted.
StepsLeft ==
  CASE cpc = "start"        -> 3 * MaxFrames + len + 11
    [] cpc = "connect"      -> 3 * MaxFrames + len + 10
    [] cpc = "handshake"    -> 3 * MaxFrames + len + 9
    [] cpc = "yield_header" -> 3 * (MaxFrames - frames) + len + 9
    [] cpc = "yield"        -> 3 * (MaxFrames - frames) + len + 8
    [] cpc = "receive"      -> 3 * (MaxFrames - frames) + len + 7
    [] cpc = "orphan"       -> len + 6
    [] cpc = "finish"       -> len + 5
    [] cpc = "close"        -> len + 4
    [] cpc = "drain"        -> len - taken + 2
    [] cpc = "post"         -> 1
    [] cpc = "end"          -> 0

\* Each step of the consumer brings the turn closer to its end and no step of
\* anybody takes it further away, however server, sender, message_gen and
\* caller take turns; only the skipping of messages before Connected is not
\* bounded (stream.py:203).
TurnRunsDown ==
  /\ [](StepsLeft \in 0..(3 * MaxFrames + MaxChunks + 11))
  /\ [][/\ StepsLeft' <= StepsLeft
        /\ Consumer => StepsLeft' < StepsLeft \/ HandshakeIgnores]_vars

\* Once connected, a turn ends, whatever the server sends or stops sending
\* and whether or not message_gen ever produces another chunk for the sender.
ReceivingEnds == cpc = "receive" ~> cpc = "end"

\* A turn whose caller has stopped listening is closed all the same: its sender
\* is cancelled and awaited, and its socket closed (live_stream_check.py:163).
AbandonedTurnIsClosed == cpc = "orphan" ~> cpc = "end" /\ spc \notin Running

\* Seen from its caller, the turn does what TurnContract promises.
Contract == INSTANCE TurnContract WITH out <- out, outcome <- outcome
ContractSpec == Contract!Spec

-----------------------------------------------------------------------------
(* What the code's comments say of a turn, and the code does not do *)

\* tts.py:247: "Before any audio has reached the caller, the whole turn can
\* still be served from the batch endpoint".
WholeTurnFallsBack == cpc = "post" => parts = Chunks(len)

\* tts.py:309: "a failure to drain costs the tail of the sentence rather than
\* the whole turn": a turn with text is never dropped without an error.
TurnWithTextIsNotDropped == outcome = "silent" => ~Audible(Chunks(len))

\* errors.py:3: a rejected key is told apart from a failed connection, so the
\* batch endpoint, which would reject it again, is never tried with it.
RejectedKeyIsNotRetried == rejected # "no" => cpc # "post"

\* stream.py:285: a cancellation from outside is not swallowed, so a turn that
\* has been cancelled starts no request, unless the sender had failed and its
\* error was raised over the cancellation.
CancelledTurnStops == asked /\ spc # "failed" => cpc # "post"

\* stream.py:47: the bounds are there so that the server "cannot hold a
\* generator open forever".
HandshakeEnds == cpc = "handshake" ~> cpc # "handshake"
=============================================================================
