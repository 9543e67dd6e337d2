------------------------- MODULE SpeakRequestProofs -------------------------
EXTENDS SpeakRequest, TLAPS

-----------------------------------------------------------------------------
(* Facts about the client *)

\* The content types that are listed, and what they are listed as.
LEMMA Listed ==
  /\ DOMAIN ContentTypeExtensions =
       {"mpeg", "wav", "x_wav", "ogg", "flac", "aac", "basic", "l16"}
  /\ ContentTypeExtensions["mpeg"] = "mp3" /\ ContentTypeExtensions["wav"] = "wav"
  /\ ContentTypeExtensions["x_wav"] = "wav" /\ ContentTypeExtensions["ogg"] = "ogg"
  /\ ContentTypeExtensions["flac"] = "flac" /\ ContentTypeExtensions["aac"] = "aac"
  /\ ContentTypeExtensions["basic"] = "mulaw" /\ ContentTypeExtensions["l16"] = "pcm"
BY DEF ContentTypeExtensions

\* A header that names no other type than that of the bytes gives the extension
\* the request would give, if that is the right one.
LEMMA HonestType ==
  ASSUME NEW bytes, NEW type \in ContentTypes, ~Misleads(type, bytes),
         NEW container, NEW encoding, Extension("unlisted", container, encoding) = bytes
  PROVE  Extension(type, container, encoding) = bytes
<1>1. CASE type \in DOMAIN ContentTypeExtensions
  BY <1>1 DEF Misleads, Extension
<1>2. CASE type = "unlisted"
  BY <1>2
<1> QED
  BY <1>1, <1>2 DEF ContentTypes

\* What Home Assistant may prefer, and how it is asked for.
LEMMA Preferred ==
  ASSUME NEW format \in Formats \cup {"other", None},
         NEW query_, query_.encoding = FormatParams(format)[1],
         query_.container = FormatParams(format)[2],
         NEW type \in ContentTypes
  PROVE  /\ \/ Misleads(type, BytesFor(query_))
            \/ Extension(type, query_.container, query_.encoding) = BytesFor(query_)
         /\ format \in Formats => BytesFor(query_) = format
<1> USE ClientAssumption DEF ClientAssumption, FormatParams, BytesFor, Formats
<1>1. \/ format \in {"mp3", "flac", "aac"} /\ query_.encoding = format /\ query_.container = None
      \/ format = "wav" /\ query_.encoding = "linear16" /\ query_.container = "wav"
      \/ format = "ogg" /\ query_.encoding = "opus" /\ query_.container = "ogg"
      \/ format \in {"other", None} /\ query_.encoding = None /\ query_.container = None
  OBVIOUS
<1>2. format \in Formats => BytesFor(query_) = format
  BY <1>1
<1>3. Extension("unlisted", query_.container, query_.encoding) = BytesFor(query_)
  BY <1>1, Listed DEF Extension
<1> QED
  BY <1>2, <1>3, HonestType

\* Of what _build_params builds the API refuses exactly the queries that ask a
\* Flux voice for a speed it does not have.
LEMMA BuiltQueries ==
  ASSUME NEW voice \in Models, NEW encoding, NEW container, NEW rate \in Rates \cup {None},
         NEW speed \in Speeds \cup {None}
  PROVE  LET q == BuildParams(voice, encoding, container, rate, speed)
         IN /\ Rejected(q) <=> q.model \in FluxModels /\ speed \in OtherSpeeds
            /\ q.encoding = encoding /\ q.container = container
BY ClientAssumption DEF ClientAssumption, BuildParams, Rejected, Models, Speeds, Url

\* Every format that is asked for, written out.
LEMMA FormatsAskedFor ==
  /\ \A f \in Formats \cup {"other", None} :
       <<FormatParams(f)[1], FormatParams(f)[2]>> \in DirectFormats
  /\ <<"linear16", "wav">> \in DirectFormats /\ <<None, None>> \in DirectFormats
  /\ \A e, c : <<e, c>> \in DirectFormats =>
       /\ \/ \E f \in Formats \cup {"other", None} : e = FormatParams(f)[1] /\ c = FormatParams(f)[2]
          \/ e = "linear16" /\ c \in {None, "none"}
       /\ e \in {None, "mp3", "linear16", "opus", "flac", "aac"}
       /\ c \in {None, "wav", "ogg", "none"}
<1> USE ClientAssumption DEF ClientAssumption
<1>1. /\ \A f \in {"mp3", "flac", "aac"} : FormatParams(f) = <<f, None>>
      /\ FormatParams("wav") = <<"linear16", "wav">> /\ FormatParams("ogg") = <<"opus", "ogg">>
      /\ FormatParams("other") = <<None, None>> /\ FormatParams(None) = <<None, None>>
  BY DEF FormatParams
<1>2. DirectFormats =
        {<<"mp3", None>>, <<"flac", None>>, <<"aac", None>>, <<"linear16", "wav">>,
         <<"opus", "ogg">>, <<None, None>>, <<"linear16", None>>, <<"linear16", "none">>}
  BY <1>1 DEF DirectFormats, Formats
<1>3. \A f \in Formats \cup {"other", None} :
        <<FormatParams(f)[1], FormatParams(f)[2]>> \in DirectFormats
  BY <1>1, <1>2 DEF Formats
<1>4. ASSUME NEW e, NEW c, <<e, c>> \in DirectFormats
      PROVE  /\ \/ \E f \in Formats \cup {"other", None} :
                       e = FormatParams(f)[1] /\ c = FormatParams(f)[2]
                \/ e = "linear16" /\ c \in {None, "none"}
             /\ e \in {None, "mp3", "linear16", "opus", "flac", "aac"}
             /\ c \in {None, "wav", "ogg", "none"}
  BY <1>1, <1>2, <1>4 DEF Formats
<1> QED
  BY <1>2, <1>3, <1>4

\* The extension of an answer tells its bytes, but for a header that misleads
\* and linear16 that is not asked for in a WAV.
LEMMA ToldOrRaw ==
  ASSUME NEW query_, <<query_.encoding, query_.container>> \in DirectFormats,
         NEW type \in ContentTypes
  PROVE  \/ Misleads(type, BytesFor(query_))
         \/ Extension(type, query_.container, query_.encoding) = BytesFor(query_)
         \/ query_.encoding = "linear16" /\ query_.container # "wav"
<1>1. \/ \E f \in Formats \cup {"other", None} :
           query_.encoding = FormatParams(f)[1] /\ query_.container = FormatParams(f)[2]
      \/ query_.encoding = "linear16" /\ query_.container \in {None, "none"}
  BY FormatsAskedFor
<1>2. ASSUME NEW f \in Formats \cup {"other", None}, query_.encoding = FormatParams(f)[1],
             query_.container = FormatParams(f)[2]
      PROVE  \/ Misleads(type, BytesFor(query_))
             \/ Extension(type, query_.container, query_.encoding) = BytesFor(query_)
  BY <1>2, Preferred
<1> QED
  BY <1>1, <1>2, ClientAssumption DEF ClientAssumption

\* What is built fits the type of a query.
LEMMA BuiltType ==
  ASSUME NEW voice \in Models, NEW encoding, NEW container,
         <<encoding, container>> \in DirectFormats, NEW rate \in Rates \cup {None},
         NEW speed \in Speeds \cup {None}
  PROVE  BuildParams(voice, encoding, container, rate, speed) \in Queries
BY FormatsAskedFor DEF BuildParams, Queries, Url

-----------------------------------------------------------------------------
(* The inductive invariant *)

\* A posted query asks for what the call asks for.
PostedInv ==
  pc # "idle" =>
    /\ OnlySpeedsAreRefused
    /\ query.encoding = call.encoding /\ query.container = call.container
    /\ <<call.encoding, call.container>> \in DirectFormats
    /\ call.by \in {"clip", "fallback", "verify", "direct"}
    /\ call.by = "verify" => call.encoding = None
    /\ call.by = "fallback" => call.encoding = "linear16" /\ call.container = "wav"
    /\ call.by = "clip" =>
         /\ call.format \in Formats \cup {"other", None}
         /\ call.encoding = FormatParams(call.format)[1]
         /\ call.container = FormatParams(call.format)[2]

RequestInv ==
  /\ pc = "done" \/ result.class = "none"
  /\ TypeOK /\ PostedInv /\ ClipIsWhatItSays /\ FallbackIsWav /\ OnlyRawAudioIsMisnamed

\* Whoever posts a query keeps the invariant, if it asks for the format its
\* caller has been promised.
LEMMA Posting ==
  ASSUME NEW by, NEW format, NEW voice \in Models, NEW encoding, NEW container,
         NEW rate \in Rates \cup {None}, NEW speed \in Speeds \cup {None},
         Synthesize(by, format, voice, encoding, container, rate, speed),
         <<encoding, container>> \in DirectFormats,
         by \in {"clip", "fallback", "verify", "direct"}, by = "verify" => encoding = None,
         by = "fallback" => encoding = "linear16" /\ container = "wav",
         by = "clip" => /\ format \in Formats \cup {"other", None}
                        /\ encoding = FormatParams(format)[1]
                        /\ container = FormatParams(format)[2]
  PROVE  RequestInv'
<1>1. /\ pc' = "posted" /\ result'.class = "none"
      /\ call'.by = by /\ call'.format = format
      /\ call'.encoding = encoding /\ call'.container = container /\ call'.speed = speed
      /\ query' = BuildParams(voice, encoding, container, rate, speed)
  BY DEF Synthesize, NoResult
<1>2. PostedInv'
  BY <1>1, BuiltQueries DEF PostedInv, OnlySpeedsAreRefused
<1>3. TypeOK'
  <2>1. query' \in Queries
    BY <1>1, BuiltType
  <2>2. result'.bytes = None /\ result'.content_type = None /\ answer' = None
    BY DEF Synthesize, NoResult
  <2> QED
    BY <1>1, <2>1, <2>2 DEF TypeOK
<1> QED
  BY <1>1, <1>2, <1>3 DEF RequestInv, ClipIsWhatItSays, FallbackIsWav, OnlyRawAudioIsMisnamed

\* A failed request gives no audio.
LEMMA Raising ==
  ASSUME RequestInv, NEW why \in Rejections \cup NoAnswer, NEW error, pc = "posted", Raises(why, error),
         error \in {"auth", "request", "connection", "crash"}
  PROVE  RequestInv'
<1>1. /\ result'.class \in {"auth", "request", "connection", "crash"}
      /\ result'.bytes = None /\ result'.content_type = None
      /\ result'.class = "crash" => call.by # "verify"
      /\ pc' = "done" /\ answer' = why /\ UNCHANGED <<call, query>>
  BY DEF Raises, Verified, NoResult
<1>2. PostedInv'
  BY <1>1 DEF RequestInv, PostedInv, OnlySpeedsAreRefused
<1>3. TypeOK'
  BY <1>1 DEF RequestInv, TypeOK
<1> QED
  BY <1>1, <1>2, <1>3 DEF RequestInv, ClipIsWhatItSays, FallbackIsWav, OnlyRawAudioIsMisnamed

\* The audio of an answer is what its extension says.
LEMMA Answering ==
  ASSUME RequestInv, Answered
  PROVE  RequestInv'
<1>1. PICK type \in ContentTypes :
        result' = [class |-> "audio", content_type |-> type, bytes |-> BytesFor(query),
                   extension |-> Extension(type, call.container, call.encoding)]
  BY DEF Answered
<1>2. pc = "posted" /\ pc' = "done" /\ UNCHANGED <<call, query>> /\ PostedInv
  BY DEF Answered, RequestInv
<1>3. PostedInv'
  BY <1>2 DEF PostedInv, OnlySpeedsAreRefused
<1>4. /\ result'.bytes = BytesFor(query) /\ result'.content_type = type
      /\ result'.extension = Extension(type, query.container, query.encoding)
  BY <1>1, <1>2 DEF PostedInv
<1>5. ASSUME call.by = "clip"
      PROVE  /\ call.format \in Formats => result'.bytes = call.format
             /\ \/ result'.extension = result'.bytes
                \/ Misleads(result'.content_type, result'.bytes)
  BY <1>2, <1>4, <1>5, Preferred DEF PostedInv
<1>6. ASSUME call.by = "fallback"
      PROVE  result'.bytes = "wav"
  <2>1. query.encoding = "linear16" /\ query.container = "wav"
    BY <1>2, <1>6 DEF PostedInv
  <2> QED
    BY <1>4, <2>1, ClientAssumption DEF BytesFor, ClientAssumption
<1>7. ASSUME result'.extension # result'.bytes, ~Misleads(result'.content_type, result'.bytes)
      PROVE  call.by = "direct" /\ call.encoding = "linear16" /\ call.container # "wav"
  <2>1. call.encoding = "linear16" /\ call.container # "wav"
    BY <1>2, <1>4, <1>7, ToldOrRaw DEF PostedInv
  <2>2. call.by \notin {"clip", "fallback", "verify"}
    BY <1>2, <1>5, <1>7, <2>1, ClientAssumption DEF PostedInv, ClientAssumption
  <2> QED
    BY <1>2, <2>1, <2>2 DEF PostedInv
<1>8. TypeOK'
  <2>1. query.encoding \in {None, "mp3", "linear16", "opus", "flac", "aac"}
    BY <1>2 DEF RequestInv, TypeOK, Queries
  <2>2. BytesFor(query) \in Containers
    BY <2>1 DEF BytesFor, Containers
  <2> QED
    BY <1>1, <1>2, <2>2 DEF RequestInv, TypeOK, Answered
<1> QED
  BY <1>1, <1>2, <1>3, <1>5, <1>6, <1>7, <1>8
  DEF RequestInv, ClipIsWhatItSays, FallbackIsWav, OnlyRawAudioIsMisnamed

LEMMA RequestStep ==
  ASSUME RequestInv, [Next]_vars
  PROVE  RequestInv'
<1> USE DEF Models, Speeds
<1>1. CASE RequestClip
  <2>1. PICK voice \in Models, format \in Formats \cup {"other", None},
             speed \in Speeds \cup {None} :
          Synthesize("clip", format, voice, FormatParams(format)[1], FormatParams(format)[2],
                     None, SpokenSpeed(voice, speed))
    BY <1>1 DEF RequestClip
  <2>2. SpokenSpeed(voice, speed) \in Speeds \cup {None}
    BY DEF SpokenSpeed
  <2>3. <<FormatParams(format)[1], FormatParams(format)[2]>> \in DirectFormats
    BY FormatsAskedFor
  <2> QED
    BY <2>1, <2>2, <2>3, Posting
<1>2. CASE RequestFallback
  <2>1. PICK voice \in Models, speed \in Speeds \cup {None} :
          Synthesize("fallback", "wav", voice, "linear16", "wav", None, SpokenSpeed(voice, speed))
    BY <1>2 DEF RequestFallback
  <2>2. SpokenSpeed(voice, speed) \in Speeds \cup {None}
    BY DEF SpokenSpeed
  <2> QED
    BY <2>1, <2>2, FormatsAskedFor, Posting
<1>3. CASE VerifyKey
  BY <1>3, FormatsAskedFor, Posting, VoiceAssumption DEF VerifyKey, VoiceAssumption
<1>4. CASE RequestDirect
  <2>1. \A format \in DirectFormats : <<format[1], format[2]>> \in DirectFormats
    BY DEF DirectFormats, FormatParams
  <2>2. PICK voice \in Models, format \in DirectFormats, rate \in Rates \cup {None},
             speed \in Speeds \cup {None} :
          Synthesize("direct", None, voice, format[1], format[2], rate, speed)
    BY <1>4 DEF RequestDirect
  <2>3. <<format[1], format[2]>> \in DirectFormats
    BY <2>1
  <2> QED
    BY <2>2, <2>3, Posting
<1>5. CASE Answered
  BY <1>5, Answering
<1>6. CASE Refused
  <2>1. PICK status \in Rejections : Raises(status, ErrorFor(status))
    BY <1>6 DEF Refused
  <2>2. ErrorFor(status) \in {"auth", "request", "connection", "crash"}
    BY DEF ErrorFor
  <2> QED
    BY <1>6, <2>1, <2>2, Raising DEF Refused
<1>7. CASE Fails
  <2>1. PICK why \in NoAnswer : Raises(why, Unanswered(why))
    BY <1>7 DEF Fails
  <2>2. Unanswered(why) \in {"auth", "request", "connection", "crash"}
    BY DEF Unanswered
  <2> QED
    BY <1>7, <2>1, <2>2, Raising DEF Fails
<1>8. CASE UNCHANGED vars
  BY <1>8 DEF vars, RequestInv, TypeOK, PostedInv, OnlySpeedsAreRefused, ClipIsWhatItSays, FallbackIsWav,
     OnlyRawAudioIsMisnamed
<1> QED
  BY <1>1, <1>2, <1>3, <1>4, <1>5, <1>6, <1>7, <1>8 DEF Next, Request

THEOREM RequestInvariance == Spec => []RequestInv
<1>1. Init => RequestInv
  BY DEF Init, NoResult, RequestInv, TypeOK, PostedInv, ClipIsWhatItSays, FallbackIsWav,
     OnlyRawAudioIsMisnamed
<1> QED
  BY <1>1, RequestStep, PTL DEF Spec

\* Of the queries this code builds (_build_params) the API refuses exactly those
\* that ask a Flux voice for a speed it does not have, whatever voice was resolved
\* and whatever else was asked for: those are sent (tts.py:169) and refused.
THEOREM OnlyTheSpeedIsRefused == Spec => []OnlySpeedsAreRefused
<1>1. RequestInv => OnlySpeedsAreRefused
  BY DEF RequestInv, PostedInv, OnlySpeedsAreRefused
<1> QED
  BY <1>1, RequestInvariance, PTL

\* A clip is in the format that was preferred, and its extension tells its bytes
\* unless the header misled (_extension_for, tts.py:195).
THEOREM ExtensionTellsTheBytes == Spec => []ClipIsWhatItSays
<1>1. RequestInv => ClipIsWhatItSays
  BY DEF RequestInv
<1> QED
  BY <1>1, RequestInvariance, PTL

\* A fallback is in the container the stream has declared (const.py:118).
THEOREM FallbackKeepsTheContainer == Spec => []FallbackIsWav
<1>1. RequestInv => FallbackIsWav
  BY DEF RequestInv
<1> QED
  BY <1>1, RequestInvariance, PTL

\* Types.  In particular a verification ends in audio or in a typed error and in
\* nothing else, which the form of the config flow relies on (api.py:121).
THEOREM RequestTypes == Spec => []TypeOK
<1>1. RequestInv => TypeOK
  BY DEF RequestInv
<1> QED
  BY <1>1, RequestInvariance, PTL

\* "never wrong" (const.py:70) holds of every request the integration makes, for
\* a header that does not mislead.
THEOREM OnlyDirectRawAudioIsMisnamed == Spec => []OnlyRawAudioIsMisnamed
<1>1. RequestInv => OnlyRawAudioIsMisnamed
  BY DEF RequestInv
<1> QED
  BY <1>1, RequestInvariance, PTL
=============================================================================
