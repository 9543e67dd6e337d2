--------------------------- MODULE DeepgramClient ---------------------------
(***************************************************************************)
(* The batch client (api.py) as operators: the query it builds for a       *)
(* request, the file extension it derives from the answer, and the typed   *)
(* error (errors.py) it raises for each way a request can fail.            *)
(*                                                                         *)
(* External, and modelled from the measurements the repository records     *)
(* (docs/handoff-corrections.md, C2 and C7): which queries the API         *)
(* rejects, and what bytes it answers the others with.                     *)
(***************************************************************************)

CONSTANTS
  FluxModels,  (* model ids with the "flux-" prefix                        *)
  AuraModels,  (* all others                                               *)
  GridSpeeds,  (* speeds in SPEED_MIN..SPEED_MAX on the grid of SPEED_STEP *)
  OtherSpeeds, (* any other speed                                          *)
  Rates,       (* sample rates                                             *)
  None         (* a parameter that is not given, Python's None             *)

ASSUME ClientAssumption ==
  /\ FluxModels \cap AuraModels = {}
  /\ GridSpeeds \cap OtherSpeeds = {}
  /\ None \notin FluxModels \cup AuraModels \cup GridSpeeds \cup OtherSpeeds \cup Rates
  /\ None \notin {"mp3", "linear16", "opus", "flac", "aac", "wav", "ogg", "none", "pcm"}

Models == FluxModels \cup AuraModels
Speeds == GridSpeeds \cup OtherSpeeds

Url(model) == IF model \in FluxModels THEN "/v2/speak" ELSE "/v1/speak"

\* _build_params: only what was given, and of that only what applies.
BuildParams_RateByDefault(model, encoding, container, sample_rate, speed) ==
  [url |-> Url(model), model |-> model, encoding |-> encoding, container |-> container,
   sample_rate |-> IF encoding = "mp3" THEN None ELSE sample_rate,   \* mutant: as in chapter 2
   speed |-> IF model \in FluxModels THEN speed ELSE None]

BuildParams(model, encoding, container, sample_rate, speed) ==
  [url |-> Url(model), model |-> model, encoding |-> encoding, container |-> container,
   sample_rate |-> IF encoding \in {None, "mp3"} THEN None ELSE sample_rate,
   speed |-> IF model \in FluxModels THEN speed ELSE None]

\* CONTENT_TYPE_EXTENSIONS, by the subtype of the content type.
ContentTypeExtensions ==
  [mpeg |-> "mp3", wav |-> "wav", x_wav |-> "wav", ogg |-> "ogg", flac |-> "flac",
   aac |-> "aac", basic |-> "mulaw", l16 |-> "pcm"]

\* _extension_for: the content type if it is listed, else the requested
\* container, else the requested encoding, else mp3.
Extension(type, container, encoding) ==
  IF type \in DOMAIN ContentTypeExtensions THEN ContentTypeExtensions[type]
  ELSE IF container \notin {None, "none"} THEN container
  ELSE IF encoding # None THEN encoding
  ELSE "mp3"

-----------------------------------------------------------------------------
(* Errors *)

\* What becomes of a request: an answer with some status, or none.
Rejections == {"401", "403", "4xx", "5xx"}
NoAnswer   == {"timeout", "client_error", "crash"}

\* An error is its class in errors.py, or "crash" for anything else that is raised.

\* _error_for.  Whatever the body is, the status decides the class.
ErrorFor(status) == IF status \in {"401", "403"} THEN "auth" ELSE "request"

\* async_synthesize: a request that does not complete.  Only a timeout and a
\* ClientError are caught; what else is raised goes through as it is.
Unanswered(why) == IF why \in {"timeout", "client_error"} THEN "connection" ELSE "crash"

\* async_verify_key passes typed errors on and wraps any other.
Verified(error) == IF error = "crash" THEN "request" ELSE error

-----------------------------------------------------------------------------
(* The API, as measured *)

\* A query it answers with 400 (400 INVALID_QUERY_PARAMETER, or a format or a
\* speed it does not take), or a model at the wrong endpoint.
Rejected(query) ==
  \/ query.model \in FluxModels /\ query.url = "/v1/speak"
  \/ query.model \in AuraModels /\ query.url = "/v2/speak"
  \/ query.speed # None /\ (query.url = "/v1/speak" \/ query.speed \in OtherSpeeds)
  \/ query.sample_rate # None /\ query.encoding \in {None, "mp3"}

\* What it sends back otherwise: mp3 by default, linear16 in a WAV unless it
\* is asked for none, opus in Ogg.
BytesFor(query) ==
  CASE query.encoding \in {None, "mp3"} -> "mp3"
    [] query.encoding = "linear16" -> IF query.container = "none" THEN "pcm" ELSE "wav"
    [] query.encoding = "opus"     -> "ogg"
    [] OTHER                       -> query.encoding

\* What the Content-Type header may say: a type CONTENT_TYPE_EXTENSIONS lists,
\* the right one or not, or any other.
ContentTypes == DOMAIN ContentTypeExtensions \cup {"unlisted"}

\* A header that names a listed type other than that of the bytes behind it.
Misleads(type, bytes) ==
  type \in DOMAIN ContentTypeExtensions /\ ContentTypeExtensions[type] # bytes
=============================================================================
