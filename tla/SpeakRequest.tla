---------------------------- MODULE SpeakRequest ----------------------------
(***************************************************************************)
(* Requests to the batch endpoints, one after the other: those of the      *)
(* entity (async_get_tts_audio, and _batch_stream when a streamed turn     *)
(* falls back), the round trip that verifies a key, and direct calls of    *)
(* async_synthesize.  A request is built from a call, posted, and answered *)
(* or not; the caller gets audio with an extension, or a typed error.      *)
(***************************************************************************)
EXTENDS DeepgramClient

CONSTANTS
  DefaultVoice  (* DEFAULT_VOICE                                           *)

ASSUME VoiceAssumption == DefaultVoice \in FluxModels

VARIABLES
  pc,      (* "idle", "posted", "done"                                     *)
  call,    (* what async_synthesize was called with, by whom, and for what *)
  query,   (* what was posted                                              *)
  answer,  (* history: what became of it                                   *)
  result   (* what the caller got                                          *)

vars == <<pc, call, query, answer, result>>

\* PREFERRED_FORMAT_PARAMS, and _format_params for anything else.
Formats == {"mp3", "wav", "ogg", "flac", "aac"}

FormatParams_BareOgg(format) ==     \* mutant: opus without its container
  CASE format \in {"mp3", "flac", "aac"} -> <<format, None>>
    [] format = "wav" -> <<"linear16", "wav">>
    [] format = "ogg" -> <<"opus", None>>
    [] OTHER -> <<None, None>>

FormatParams(format) ==
  CASE format \in {"mp3", "flac", "aac"} -> <<format, None>>
    [] format = "wav" -> <<"linear16", "wav">>
    [] format = "ogg" -> <<"opus", "ogg">>
    [] OTHER -> <<None, None>>

\* The formats a direct call may ask for: those above, and linear16 with the
\* container left to the API or turned off.
DirectFormats ==
  {FormatParams(f) : f \in Formats \cup {None}}
    \cup {<<"linear16", None>>, <<"linear16", "none">>}

NoResult == [class |-> "none", content_type |-> None, extension |-> None, bytes |-> None]

Init == pc = "idle" /\ call = None /\ query = None /\ answer = None /\ result = NoResult

-----------------------------------------------------------------------------

\* async_synthesize builds the query and posts it.
Synthesize(by, format, voice, encoding, container, sample_rate, speed) ==
  /\ pc # "posted"
  /\ call' = [by |-> by, format |-> format, encoding |-> encoding, container |-> container,
              speed |-> speed]
  /\ query' = BuildParams(voice, encoding, container, sample_rate, speed)
  /\ pc' = "posted" /\ answer' = None /\ result' = NoResult

\* async_get_tts_audio: any voice may have been resolved, whatever voice the
\* speed was meant for, and any format may be preferred.
SpokenSpeed(voice, speed) == IF voice \in FluxModels THEN speed ELSE None

RequestClip ==
  \E voice \in Models, format \in Formats \cup {"other", None}, speed \in Speeds \cup {None} :
    LET params == FormatParams(format)
    IN Synthesize("clip", format, voice, params[1], params[2], None, SpokenSpeed(voice, speed))

\* _batch_stream: a WAV, because that is the extension already declared.
RequestFallback ==
  \E voice \in Models, speed \in Speeds \cup {None} :
    Synthesize("fallback", "wav", voice, "linear16", "wav", None, SpokenSpeed(voice, speed))

\* async_verify_key.
VerifyKey == Synthesize("verify", None, DefaultVoice, None, None, None, None)

\* async_synthesize called for its own sake, with any of its arguments.
RequestDirect ==
  \E voice \in Models, format \in DirectFormats, rate \in Rates \cup {None},
     speed \in Speeds \cup {None} :
    Synthesize("direct", None, voice, format[1], format[2], rate, speed)

\* HTTP 200: the audio, untouched, its extension and its content type.
Answered ==
  /\ pc = "posted" /\ ~Rejected(query)
  /\ \E type \in ContentTypes :
       result' = [class |-> "audio", content_type |-> type, bytes |-> BytesFor(query),
                  extension |-> Extension(type, call.container, call.encoding)]
  /\ pc' = "done" /\ answer' = "200" /\ UNCHANGED <<call, query>>

\* What the caller of a failed request gets.
Raises(why, error) ==
  /\ result' = [NoResult EXCEPT !.class = IF call.by = "verify" THEN Verified(error) ELSE error]
  /\ pc' = "done" /\ answer' = why /\ UNCHANGED <<call, query>>

\* Any other status, always for a query the API does not take, and for any
\* query when the key, the account or the service is at fault.
Refused ==
  /\ pc = "posted"
  /\ \E status \in Rejections : Raises(status, ErrorFor(status))

\* The request does not complete: in time, at all, or for another reason.
Fails ==
  /\ pc = "posted"
  /\ \E why \in NoAnswer : Raises(why, Unanswered(why))

Request == RequestClip \/ RequestFallback \/ VerifyKey \/ RequestDirect

Next == Request \/ Answered \/ Refused \/ Fails

Spec == Init /\ [][Next]_vars

-----------------------------------------------------------------------------
(* Properties *)

Queries ==
  [url : {"/v1/speak", "/v2/speak"}, model : Models,
   encoding : {None, "mp3", "linear16", "opus", "flac", "aac"},
   container : {None, "wav", "ogg", "none"}, sample_rate : Rates \cup {None},
   speed : Speeds \cup {None}]

Containers == {"mp3", "wav", "pcm", "ogg", "flac", "aac"}

\* Every variable keeps its type.  A typed error is one of the three classes
\* of errors.py; "crash" is anything else, which a verification never raises.
TypeOK ==
  /\ pc \in {"idle", "posted", "done"}
  /\ pc # "idle" => query \in Queries
  /\ answer \in {None, "200"} \cup Rejections \cup NoAnswer
  /\ result.class \in {"none", "audio", "auth", "request", "connection", "crash"}
  /\ result.bytes \in Containers \cup {None}
  /\ result.content_type \in ContentTypes \cup {None}
  /\ result.class = "crash" => call.by # "verify"

\* The API refuses a query for one reason only, the speed: exactly those that
\* ask a Flux voice for one it does not have (tts.py:169 passes on whatever a
\* request's options hold).  No format, no sample rate and no voice that was resolved in
\* place of another makes a query that is refused.
OnlySpeedsAreRefused ==
  pc # "idle" => (Rejected(query) <=> query.model \in FluxModels /\ call.speed \in OtherSpeeds)

\* A clip for Home Assistant is in the preferred format, if the code knows that
\* one, and is what its extension says unless the header that came with it
\* named another type, which is believed (api.py:65-67).
ClipIsWhatItSays ==
  result.class = "audio" /\ call.by = "clip" =>
    /\ call.format \in Formats => result.bytes = call.format
    /\ result.extension = result.bytes \/ Misleads(result.content_type, result.bytes)

\* A streamed turn that falls back gets the WAV it has already declared.
FallbackIsWav == result.class = "audio" /\ call.by = "fallback" => result.bytes = "wav"

\* Of the formats in DirectFormats, a header that does not mislead leaves the
\* extension wrong for one only, which nothing of the integration asks for:
\* linear16 that is not in a WAV (const.py:70).
OnlyRawAudioIsMisnamed ==
  result.class = "audio" /\ result.extension # result.bytes =>
    \/ Misleads(result.content_type, result.bytes)
    \/ call.by = "direct" /\ call.encoding = "linear16" /\ call.container # "wav"

-----------------------------------------------------------------------------
(* What a comment says of the extension, and the code does not do *)

\* const.py:70: "the fallback (requested container, then requested encoding,
\* then mp3) is always available and never wrong".
ExtensionIsNeverWrong ==
  result.class = "audio" /\ result.content_type = "unlisted" => result.extension = result.bytes
=============================================================================
