# TLA+ models of the Deepgram TTS integration

The repository is a Home Assistant integration that turns text into speech with
Deepgram's Flux and Aura voices, and a handful of scripts around it. The part
that is hardest to get right is one turn of streamed speech, where two asyncio
tasks share a socket and a text generator, anything can fail or be cancelled at
any await, and a failure has to degrade to the batch endpoint without being
heard. Around it are the choice of a voice from somebody else's catalog, the
life of a config entry that is reconfigured while it is being set up, several
dialogs open at once, and scripts whose verdicts are only worth what they have
looked at. This directory models those parts, checks them with TLC and proves
the results that matter for all sizes with TLAPS.

Paths below are under `src/custom_components/deepgram_tts/` unless they start
with `scripts/`, `docs/` or `tests/`.

## The system

| Part | Code | State it keeps | Operations | Talks to | Module |
|---|---|---|---|---|---|
| Flux socket | `stream.py` | one turn: metrics, the sender task, frame and warning counts | `stream`, `_await_connected`, `_send`, `_receive`, `_finish_sender`, `_check_sample_rate` | Flux server; pulls chunks from `_tee` | `FluxTurn`, `SampleRate` |
| Entity, streaming | `tts.py` 197-349 | per turn: `consumed`, held header, `audio_started` | `async_stream_tts_audio`, `_socket_stream`, `_batch_stream`, `_tee` | socket, batch client, `message_gen`, the reader of `data_gen` | `FluxTurn` |
| Entity, batch | `tts.py` 58-195 | voice and speed as of the entity's creation | `async_get_tts_audio`, `async_get_supported_voices`, `_format_params` | catalog, batch client | `SpeakRequest`, `EntryLifecycle`, `VoicePicker` |
| Batch client | `api.py`, `errors.py` | none | `async_synthesize`, `async_verify_key`, parameters, extension, error mapping | `/v1/speak`, `/v2/speak` | `DeepgramClient` |
| Voice catalog | `catalog.py`, `models.py` | the merged catalog, immutable once built | fetch and merge, `voices_for_language`, `resolve_voice`, `supported_languages` | two public endpoints | `VoiceCatalog`, `VoicePicker` |
| Entry lifecycle | `__init__.py` | the entry's state, `runtime_data`, the update listener | setup, unload, reload on changed options | catalog, entity platform | `EntryLifecycle` |
| Flows | `config_flow.py` | key and catalog of a flow in progress | user and voice steps, options step, the picker | client, catalog, the entries | `VoiceEntries`, `VoicePicker`, `EntryLifecycle` |
| Live scripts | `scripts/live_stream_check.py`, `scripts/measure_first_frame.py` | the runs measured so far, verdicts, a report | a series of turns, then checks, then one file | Flux server, batch endpoint | `LiveStreamCheck`, `FirstFrame` |
| Deployment | `scripts/deploy.sh` | the files at the destination | validate, dry run, copy, delete, restart or reload | rsync, Home Assistant | `Deployment` |
| Other scripts, data, CI | `scripts/hacs_check.py`, `manifest_check.py`, ..., strings, workflows | none to speak of | passes over static files, I/O | the outside | none |

They meet in few places, and those are where the models are joined. The socket
pulls its text through the entity's `_tee`, so the two are one model
(`FluxTurn`). The entity reads its options once, while the entry is being set
up, and a save is meant to set it up again (`EntryLifecycle`). Forms and
requests share the merged catalog, which a reload replaces under both
(`VoicePicker` over `VoiceCatalog`). Flows verify a key through the batch client
and blame what it raises (`VoiceEntries` over `DeepgramClient`). The live check
judges the arithmetic of the socket's own rate check (`LiveStreamCheck` over
`SampleRate`).

What makes each part correct, and what makes that hard:

* **Socket and streaming entity.** What the caller gets is one WAV file; text is
  spoken once and in order; no failure passes for success; a rejected key is not
  taken for a bad connection; a turn ends. The sender is cancelled while it may
  be inside the caller's generator, the fallback then reads that same generator,
  the sender's failure is raised from a `finally` through which another
  exception may be travelling, the turn may itself be cancelled while it waits
  for the sender it cancelled, and the caller may simply stop reading.
* **Catalog, picker.** A voice that answers a request speaks its language, a
  Flux voice only ever answers English, a restart does not change the voice, and
  a form that is sent back untouched changes nothing. The catalog is somebody
  else's data and may be wrong about itself, repeat ids, share names, change
  order, and lose the stored voice.
* **Entry.** A changed option comes into force; an entity never works from half
  a catalog; a setup that was not ready recovers. Saves, reloads, failing
  fetches and restarts come in any order, and the listener is registered last.
* **Flows.** No two entries claim one voice, no entry holds a key that was never
  accepted, the form blames what is to blame. Several flows are open at once, and
  what they have shown goes stale.
* **Batch client.** No query the API refuses but for its speed, an extension that fits the bytes,
  one typed error per kind of failure.
* **Scripts.** A verdict holds for what was seen; a failure in the middle is
  neither success nor the loss of what went before.

## The modules

| Module | What it is |
|---|---|
| `FluxTurn` | One turn: the consumer's stack of generators and the sender task |
| `TurnContract` | What a turn promises, in what its caller sees alone |
| `FluxTurnInvariant`, `FluxTurnProofs` | The inductive invariant of `FluxTurn`; theorems, the refinement included |
| `VoiceCatalog` | The merge of the two listings, and `resolve_voice` |
| `VoicePicker` | The forms over that catalog, and the languages offered; extends `VoiceCatalog` |
| `VoiceCatalogProofs`, `VoicePickerProofs` | Theorems about the two |
| `EntryLifecycle` | One entry: setup, options, reload, restart |
| `EntryContract` | What an entry promises, without any of that |
| `EntryLifecycleProofs` | Theorems about it, the refinement included |
| `DeepgramClient` | `api.py` and `errors.py` as operators, and the API as measured |
| `SpeakRequest`, `SpeakRequestProofs` | Requests over that client; theorems |
| `VoiceEntries` | Config flows, options and entries |
| `EntryRegistry` | What they promise of the entries, without any flow |
| `VoiceEntriesProofs` | Theorems about it, the refinement included |
| `SampleRate` | WAV header and rate check, in whole numbers |
| `LiveStreamCheck`, `FirstFrame` | The two live scripts |
| `LiveScripts` | Either of them, to be checked by one run |
| `LiveStreamProofs` | Theorems about the rate check |
| `Deployment`, `DeploymentProofs` | `deploy.sh` against a Home Assistant that may restart by itself; theorems |
| `MC*` | Instances for TLC |

Definitions whose comment starts with "mutant" (`Forwarded_Deaf`,
`Unloaded_KeepsListener`) are not part of any specification. Each is what a
plausible bug would make of the definition behind it, and each property of the
runs fails under one of them.

### FluxTurn and TurnContract

asyncio switches tasks only at an await that suspends, so an action is the code
between two of them. The **consumer** is the task that reads `data_gen`. Its
stack (`_socket_stream` over `FluxSocket.stream` over `_receive`, or
`_batch_stream`) is one control state, the await it is suspended at:

| `cpc` | Suspended in |
|---|---|
| `start` | before `async_stream_tts_audio` resolves a voice |
| `connect` | `ws_connect` |
| `handshake` | `receive()` of `_await_connected` |
| `receive` | `receive()` of `_receive` |
| `yield_header` | the yield of the held header, in front of the first frame |
| `yield` | the yield of a frame, while the caller has it |
| `orphan` | either yield, the caller gone |
| `finish` | `await sender` of `_finish_sender` |
| `close` | `__aexit__` of the socket |
| `drain` | `async for` over `message_gen` in `_batch_stream` |
| `post` | `async_synthesize` |
| `end` | the generator has ended; `outcome` says how |

`exc` is the exception `FluxSocket.stream` unwinds with while it waits in
`finish` or `close`. The **sender** is the task of `_send`: `created`, `next`
(pulling a chunk), `send` and `flush` (in `send_json`), then `done`, `failed`
(an exception `_finish_sender` maps to a connection error), `lost` (one it only
logs) or `cancelled`. `scancel` is a cancellation requested and not yet
delivered; a task sees one at its next resumption, so until then nothing but
`SenderCancelled` moves it.

A chunk is its position in the message; those in `BlankChunks` are the empty
string. `taken` counts what has been pulled off `message_gen`, `consumed` is the
copy `_tee` keeps, `parts` what `_batch_stream` joins up, `spoken` what was
written as Speak messages. `source` is the generator: `open`, `done`
(exhausted), or `cut`, finished by an exception thrown into or out of it. That
`async for` over a finished generator ends at once, without an error, is
Python's rule and the reason for two of the findings. `out` is what the caller
has been given.

External, and modelled from how the code uses them: the **server**, which may
send any message next, with two restraints (no audio before a Speak; no
SpeechMetadata before the Flush unless `EarlyMetadata`); **`message_gen`**, which
yields, ends or raises any of the `SourceFaults`; and the **caller**, who may
cancel the consumer at any await, more than once, or `Abandon` the generator at a
yield, the header's (`tts.py:269`) or a frame's. An abandoned generator is closed by the event loop's finalizer
(`Finalize`): a `GeneratorExit` at the yield, which runs the same `finally`
blocks and is never turned into a fallback.

Abstracted: names of messages that are ignored, byte and time metrics, logging;
that the rate check may add a warning is kept as a choice, its arithmetic is
`SampleRate`. `heard` only tells a received and ignored message from a stutter,
so that a server that chatters is a behaviour liveness has to survive.

`TurnContract` has two variables, `out` and `outcome`. Audio is a header, then
frames; or one clip. Only a caller that leaves is left with a header alone. A connection failure may be raised only
if nothing was heard; behind audio it ends the turn `early`. Only a rejected key
or a cancellation may surface behind audio. `FluxTurn` implements it under the
identity on these two variables (an abandoned turn has no outcome to keep).

### VoiceCatalog and VoicePicker

A restart or reload fetches the listings and merges them (`Fetch`); a request
resolves a voice (`Ask`). A voice is its id, name and tags; `rank` is its place
in the merged dict, which is what a stable sort falls back on. A name is a
number, standing for the casefolded display name. The catalog's base codes keep
their case and a request's do not, as in the code. `Firsts` is the first element
of the sorted list, stated as the one that comes before all others.

`VoicePicker` adds the entry's stored voice and one form: the voice step of
another entry, or the options of this one. A form keeps the catalog of the
moment it was opened while `Reload` replaces the entry's. `SortKey` is
`_sort_key`, the five components compared in order; `DefaultFor` is
`_default_voice` with its three candidates; `Advertised` is what the entity
offers as languages. Forms and requests share nothing but the catalog, so
requests are made while no form is open. `FormsLeaveTheCatalogAlone` proves that
every behaviour of the picker is one of `VoiceCatalog`, so what is proved of the
latter holds of both.

Not modelled: accent, age, samples and how a label is put together. The fetch
succeeds here; its failures are `EntryLifecycle`'s.

### EntryLifecycle and EntryContract

`state` is the entry's, with setup split at its awaits: `fetch` (the two gathered
requests, answered one by one), `forward` (runtime data is there, the platform is
not), `added` (the entity exists, the listener does not), `loaded`; `retry`
after `ConfigEntryNotReady`; `unload`; `not_loaded`. `BuildEntity` is
`async_setup_entry` of `tts.py`, where the options are read once. `listeners` and
`reloads` are counted, so that one listener too many is seen. Options forms read
the options when they open (that decides whether there is a speed slider), may
fetch a catalog of their own, and may be overtaken by another form.

External: Home Assistant sets up, unloads and reloads one entry at a time, under
its lock; retries a setup; deletes `runtime_data` and runs the `on_unload`
callbacks; calls the listeners when saved options differ; reloads an entry that
is enabled or disabled; and keeps nothing but options and `disabled` across a
restart (`Restart`, the crash of this model: it strikes in every state).

`EntryContract` has the saved options and the options that speak now: a voice
that speaks is never changed under a listener, it falls silent first, and what
speaks next is what was saved last. `saves`, `built` and `known` are history, for
the properties about which save has taken effect.

### DeepgramClient and SpeakRequest

`DeepgramClient` holds `_build_params`, the URL by family, `_extension_for` with
its table, `_error_for`, what `async_synthesize` catches and what
`async_verify_key` wraps, and beside them the API, as the repository measured it
(`docs/handoff-corrections.md`): which queries it refuses, which bytes it sends.
What its Content-Type says is free: the type of the bytes, another that the table
lists (`Misleads`), or one it does not.
`SpeakRequest` posts what each caller asks for: a clip for Home Assistant in any
preferred format, the fallback of a streamed turn, a key verification, and
direct calls with every argument the client takes. The bytes of a clip are the
name of their container. An error is its class; the wording that `_error_for`
takes from the body is left out.

### VoiceEntries

Flows from key to entry: `SubmitKey`, the round trip (`KeyAccepted`,
`KeyRejected`, `KeyTimesOut`, `KeyUnanswered`, over the errors of
`DeepgramClient`), the two catalogs (`CatalogLoaded`; `CatalogFails`, with a
connection error or with anything else, which the form shows as unknown), then
`PickVoice`, with the unique-id check at the very end. `ChangeVoice` is an options
flow that saves; `Revoke` makes a key fail that was accepted before. External:
Home Assistant refuses a unique id that exists. An entry is its unique id, title,
key and voice. How the options form comes about is in `EntryLifecycle` and `VoicePicker`.

`EntryRegistry` is the same without flows, forms or answers: keys found good, and
entries that are added (under an id of their own, with such a key), moved to
another voice, and removed. Its entries are those of `VoiceEntries` without title
(`Registered`). That a step of any flow changes at most one entry, and
how, is what the refinement adds to the invariants.

### SampleRate, LiveStreamCheck, FirstFrame, LiveScripts

`SampleRate` is the header's arithmetic and the window of `_check_sample_rate`,
with the float ratio multiplied out. `LiveStreamCheck` runs turns against a
server of an unknown rate, then the two checks, of which the one that abandons a
turn may also find a task left sending, then the report; `Rounded` is Python's `round`, half to even. `FirstFrame` times runs, each with a sender task
beside the receiving loop, which takes a SpeechMetadata at any time as the end of
the run, then drops a socket and lets batch finish. What a
`Timings` measures is kept as whether it was measured at all. `LiveScripts` runs
either script; they share nothing, so an interleaving would add nothing.

### Deployment

`deploy.sh` from validation to the POST, for every setting of its variables and
every set of tools on the machine. rsync copies and deletes file by file in an
order of its own and may stop anywhere; `set -e` ends the script there. What may be
deleted (`Doomed`) hangs on the source being named without a trailing slash: the
files of other integrations (`Others`) lie in directories beside the one copied. Home
Assistant may start at any moment (`HAStarts`) and imports what it finds, a
mixture included; a reload sets up the modules already imported. A POST that
fails may have arrived. Left out: ssh, URLs, and the messages.

## The runs

| Run | Instance | What is met within the bounds |
|---|---|---|
| `turn` | 4 chunks, the 1st and 3rd blank; 5 frames; 2 warnings; every source fault | blank chunks first, between, last, or all there is; a cancellation at every await, repeated; the frame limit before, during and after audio; more warnings than are kept |
| `catalog` | 8 Flux listings, all Aura listings of up to 2 of 4 entries, 6 language tags | an id repeated within and across listings, an unusable entry on either side of a usable one, two voices of one language in both orders, two voices of one name, a catalog without the default voice, the default voice listed as Spanish |
| `entry_lifecycle` | 2 voices, 1 speed, 2 forms, 3 saves, 2 upsets | a reload that overtakes a save and is overtaken by one; a restart or a reload by hand at each of them; disabled and enabled again; a form that outlives a reload |
| `speak_request` | a voice of each family, a speed on the grid and one off it, one rate | every combination a call can ask for, with every answer |
| `voice_entries` | 2 keys, 2 flows, 2 entries, 2 voices of one name, listings of one or both | flows racing for a voice, a key revoked between two flows, a voice gone from the second listing |
| `live_scripts` | 7 rates, turns of 40 ms and 1.5 s, 2 runs, 2 chunks | every rate Deepgram offers and the two near ones the comment at `stream.py:320` is about; a run that leaves something behind for the next |
| `deployment` | 2 files over a version with one more, another integration beside it, every setting | a copy that stops with one file of two new, and before or after the deletion |
| `tail_lost`, `auth_masked`, `cancel_swallowed`, `handshake_held` | 2 chunks, 3 frames, no source faults | each one disagreement of code and comment, below |
| `entry_stale` | as `entry_lifecycle` | another |

More chunks, forms, flows or files repeat these situations; for the safety
properties the proofs do without the bounds. Deadlock is checked in every run
but `live_scripts`: the scripts end.

What the passing runs show. `FluxTurn`:

* `OneContainer`: the bytes of a turn are one WAV. The header goes out before
  audio exists in `FluxSocket.stream`, so the fallback depends on holding it. A
  header stays without audio only if the caller leaves at the header's own yield.
* `BatchSpeaksAllThatWasRead`: the fallback speaks every chunk anyone pulled,
  once and in order, whatever await the sender was stopped at.
* `DrainsAlone`: nobody reads `message_gen` while the sender might.
* `FlushComesLast`: blank chunks neither end the text nor let the Flush overtake.
* `CleanEndWasSentWhole`: a failed sender never passes for a completed turn.
* `KeyRejectionSurfaces`: a rejected key is raised as such or gives way to a
  cancellation, and never becomes a fallback; one rejected after Connected under
  the condition that the sender has not failed, which is finding 2.
* `CancellationIsHeard`: a cancellation stops the turn from every await, except
  from `await sender`, which is finding 3, and beside a sender that has failed,
  whose error `_finish_sender` raises over it.
* `ReceivingEnds`: a connected turn ends, whatever the server and the text do.
* `AbandonedTurnIsClosed`: of a turn whose caller left, neither the sender nor
  the socket stays behind, whichever of the two yields it left at.
* `ContractSpec`: the refinement. `TypeOK` includes the bound on warnings.

`VoicePicker` over `VoiceCatalog`:

* `OnlyEnglishGetsFlux` (the repository's settled decision 4) and
  `AnswerSpeaksTheLanguage`: although the catalog may be wrong about a voice.
* `SilentOnlyIfNobodySpeaks`: an unusable entry takes nothing else with it.
* `AdvertisedIsAnswered`: what the entity advertises as a language is answered
  when it is asked for, whatever voice is preferred; exempt are base codes in
  capitals (`MCVoiceCapitals`) and those only a mislabelled Flux voice claims.
* `OfferedVoiceIsHonoured`: the list a request is offered against the answer.
* `RestartKeepsTheVoice`: the same voices in another order, names being distinct,
  give the same answer.
* `PickerIsStable`: the same for the picker, names shared or not; its key ends
  with the id, the ladder's does not.
* `DefaultIsOffered`, `UntouchedFormKeepsTheVoice`: what a form preselects exists,
  and is the stored voice while there is one.

`EntryLifecycle`:

* `EntityHasBothCatalogs`: one dead endpoint is a setup that is retried, never
  half the voices gone.
* `ListenedSaveIsReloaded`, `SaveReloadsAtMostOnce`: once the listener is there no
  save goes unnoticed, and none reloads twice, however often the entry was set
  up; an entity with no reload to come speaks with the options, unless they were
  saved in the gap of finding 5.
* `SavedOptionsTakeEffect`: options saved with a reload coming are in force in the
  end, through failing fetches, further reloads and restarts.
* `SetupRecovers`: a setup that was not ready is tried until it is.
* `ContractSpec`: the refinement.

`SpeakRequest`:

* `OnlySpeedsAreRefused`: of the queries the code sends, the API refuses exactly
  those that ask a Flux voice for a speed it does not have (`OtherSpeeds`), and no
  other, whichever voice was resolved. Those it does refuse are really sent: a
  speed given with the request is passed on as it is (`tts.py:169`), and the
  options form, which keeps to the grid, does not apply. The API answers 400
  (`docs/handoff-corrections.md:278-281`).
* `ClipIsWhatItSays`: a clip for Home Assistant is in the preferred format and is
  what its extension says, whether its Content-Type is the right one or one the
  table does not list. One that names another type is believed (`api.py:65-67`).

`VoiceEntries`:

* `RegistrySpec`: the refinement. No two entries get one unique id, and no flow
  touches an entry that is not its own.
* `EntryWasVerified`, `FormNamesTheCause`: through racing flows, revoked keys and
  moved entries. The form's three errors are told apart: a rejected key, an answer
  that did not come, anything else.
* `SubmittedFormComesBack`: with nothing but the two timeouts assumed.

The scripts:

* `WrongRateIsNoticed`, `QuietTurnPlaysOnTime`: the window of the rate check tells
  24 kHz from every rate a server might emit, and no warning means the clip plays
  within a twentieth of the time the server states. `MatchIsEarned`: the report's
  MATCHES was measured.
* `CleanRunWasSpoken`, `RunsAreMeasuredAlone`: a run that counts was connected and
  reported as spoken, so that neither an Error nor a close passes for its end; no
  earlier sender is at work beside it. Whether the text was sent to its end is up
  to the server, which may report it spoken before.
* `RestartFindsItWhole`, `RestartRunsTheNewCode`, `TouchesOnlyWhatItMay`: a copy
  that stopped half way is neither restarted into nor called a success; a restart
  that was reported ends with the new code running; what is deleted is what the
  settings allow, nothing of another integration, and a dry run is one.

**Fairness.** `FluxTurn` assumes that the consumer does not stop at an await for
ever: the code gives `receive()` and the requests timeouts, aiohttp bounds the
close, a caller asks for more or gives up, and the event loop finalizes what
nobody refers to. `message_gen` has no timeout; that draining it ends is assumed.
Of the sender only that the event loop delivers its cancellation is assumed; it
may wait for text or for the socket for ever. No particular answer of the server
is assumed. `EntryLifecycle` assumes that Home Assistant retries, forwards,
reloads and unloads (weak fairness), and that a catalog asked again and again
answers in the end (strong fairness, an assumption on the endpoints and not on
the code); nobody has to save anything. `VoiceEntries` assumes the two timeouts
of the client, and nothing else. `Deployment` assumes that a restart Home
Assistant was asked for happens.

## What the comments say and the code does not do

Each is a run that expects a violation; PROJECT.json quotes the lines.

1. `WholeTurnFallsBack` (`stream.py:281`). A failed connection cancels a sender
   that waits for text; that finishes `message_gen`, and the batch clip lacks the
   rest of the message.
2. `RejectedKeyIsNotRetried` (`stream.py:290`). A send failure replaces a key
   rejection already on its way up. The run ends at the batch request: a Speak
   could not be sent, the key was rejected in band behind it, and what had been
   read is posted with the same key.
3. `CancelledTurnStops` (`stream.py:287`). A cancellation during `await sender`
   is swallowed and the turn goes on. The run ends at the batch request: the
   connection failed, the cancellation came while the sender was awaited, and the
   text was read out and posted all the same. Left out of the property is a sender
   that had failed by itself, whose error is raised over the cancellation.
4. `HandshakeEnds` (`stream.py:203`). The bound on messages is only in the
   receive loop; the handshake has none.
5. `OptionsInForce` (`__init__.py:55`). Options saved after the entity was built
   and before the listener is registered reload nothing: the entity keeps the old
   voice for good.

## What the code does not keep

Smaller disagreements of the same kind, each with a configuration of its own and
no run. `tlc -config <cfg> <module>` shows the counterexample.

| Configuration, module | Property | The line says | What happens |
|---|---|---|---|
| `MCTurnDropped`, `MCFluxTurn` | `TurnWithTextIsNotDropped` | `tts.py:309`: "a failure to drain costs the tail of the sentence rather than the whole turn" | finding 1 before the first chunk: the turn ends without audio and without an error |
| `MCVoiceTies`, `MCVoiceCatalog` | `VoiceListIsStable` | `catalog.py:94`: "Sorted, not catalog order, so the picker and the voice list are stable across restarts" | voices of one family and name stay in catalog order, in the list and in the ladder (not in the picker) |
| `MCVoiceCapitals`, `MCVoiceCatalog` | `NoLanguageTwice` | `tts.py:123`: "handing Home Assistant both makes one language look like two" | a voice tagged EN-GB is advertised as EN beside en, and no request finds it under either |
| `MCVoiceTwice`, `MCVoiceEntries` | `SameVoiceTwiceAborts` | `config_flow.py:7`: "adding the same voice twice abort while adding a second, different voice succeeds" | an entry moved to another voice by its options keeps its unique id: the voice it has now can be added again, and the one it has left is refused |
| `MCVoiceTitle`, `MCVoiceEntries` | `TitleNamesTheVoice` | `tts.py:108`: "The entry title names the chosen voice" | it goes on naming the voice the entry was created with |
| `MCSpeakExtension`, `MCSpeakRequest` | `ExtensionIsNeverWrong` | `const.py:70`: the fallback "is always available and never wrong" | for a direct call with linear16 outside a WAV and an unlisted Content-Type it is the name of an encoding; no request of Home Assistant gets there (`ClipIsWhatItSays`) |
| `MCLiveReport`, `MCLiveScripts` | `RateIsInTheReport` | `live_stream_check.py:120`: the rate "is in the report whether or not the client's own check tripped" | one turn without a duration among others makes the rates unsortable, and there is no report |
| `MCLiveAbandon`, `MCLiveScripts` | `PassWasMidTurn` | `live_stream_check.py:163`: "Abandon the generator mid turn" | a turn of fewer than three pieces ends by itself and passes |
| `MCFirstFrameDrop`, `MCLiveScripts` | `DegradedBehindADrop` | `measure_first_frame.py:195`: "Kill the socket after the first audio frame and confirm batch can finish the job" | the verdict looks at batch alone: no frame need have come |
| `MCFirstFrameLost`, `MCLiveScripts` | `AnswerLandsInAFile` | `measure_first_frame.py:10`: "so the answer lands in a file instead of a memory" | a run or request that raises takes the runs before it with it |
| `MCDeployDryRun`, `MCDeployment` | `DryRunListsDeletions` | `deploy.sh:61`: "Set to 1 to pass --delete to rsync" | a local dry run has a command line of its own, without it, and does not list what would be deleted |

## The proofs

All of them rest on the named assumptions about constants only, which say what
kind of value each constant is (`TurnAssumption`, `CatalogAssumption` and so on);
`CleanEndIsWhole` and those on the rate check need more and say so in their statement.

**FluxTurn.** `Invariance` proves `Spec => []IInv` for every message length, set
of blank chunks, set of source faults and bounds, from `TurnAssumption` alone. The
properties do not follow from themselves: that the fallback speaks everything
read needs to know where the copy was current when the sender stopped, which
depends on who may still run. So `IInv` says, per await of the consumer,

* what the sender can be doing (`SenderInv`) and which record of the text is the
  current one (`TextInv`);
* what the caller has heard and whether the header is still held (`AudioInv`), and
  how the turn can be ending (`OutcomeInv`);
* what the socket has been told (`SpeechInv`) and where a rejection can have got
  to (`RejectionInv`);
* which exception is on its way up, and that none has been lost while a `finally`
  waited (`UnwindInv`);
* who can have cut `message_gen` (`CutInv`).

There is one step lemma per part, and in it one case per action that disturbs the
part. From it:

* `TypeCorrect`, `TurnIsOneContainer`, `FallbackDrainsAlone`,
  `BatchLosesNothingRead`, `SocketIsToldInOrder`, `RejectionIsRaised`: the safety
  properties.
* `CancellationsAreHeard`: an action property. `UnwindInv` is what it needs: an
  exception is under way only in `finish` and `close`.
* `FailedSendsAreNoticed`: a failed send is never a clean end. `CleanEndIsWhole`
  says more, under the assumption `~EarlyMetadata` and only there.
* `OnlyTheCutLosesText`: finding 1 and `MCTurnDropped` have one cause. Unless
  `message_gen` itself fails or its sender is cancelled, the fallback posts the
  whole message and no turn with text ends in silence.
* `OuterCancelCannotBeTold`: finding 3 for every instance. The re-raise meant
  for an outer cancellation is unreachable.
* `TurnsRunDown`: a turn is well founded. `StepsLeft` bounds what the consumer
  still has to do; each of its steps lowers it, and no step of the sender, of the
  caller or of the server raises it. The one exception is the loop of finding 4.
  This is the safety half of `ReceivingEnds`; with fairness, which the prover
  does not reach, it says that every connected turn ends.
* `TurnKeepsContract`: the refinement, from `AudioInv` and `OutcomeInv`.

**VoiceCatalog.** `ResolvedFits`: every branch of `resolve_voice` guards its own
answer. It needs nothing of the catalog, and gives `FluxSpeaksOnlyEnglish`,
`AnswerSpeaks` and `OfferIsHonoured`. `CatalogTypes` is from `CatalogAssumption`,
which says what the listings consist of. `OneComesFirst`: some voices of a
catalog have a first one and only one, the least by family, then name, then
place, since no two have one place in the merge. So the ladder ends at one answer
(`OneAnswer`), at nobody only for a reason (`SilenceHasAReason`), never for a
language that is advertised (`AdvertisedLanguagesAreAnswered`, with the two
exceptions its statement names) and, if names are distinct, at the same voice in
whatever order they arrived (`RestartsKeepVoices`). These need `NoneAssumption`
too, that a voice is not Python's None, and `CatalogsStayMerged`, that the
catalog is at all times the merge of two listings.

**VoicePicker.** `PickerOrdersTheVoices`: the five-part key is a strict total
order on every catalog, since ids differ; `PickerHasATop`: so a catalog that is
not empty has a first voice, the least by one component after the other. From these,
`FormsPreselectAVoice`, `UntouchedFormsKeepVoices` and `PickerStaysPut` for all
catalogs. `FormsLeaveTheCatalogAlone` is described above.

**EntryLifecycle.** `LifecycleInvariance`: the invariant is `TypeOK`, what exists
while the entry is down (`DownInv`) and up (`UpInv`), which save the entity was
built from and which it has missed (`SavesInv`), and that only a disabled entry is
down with nothing to bring it up (`DownOnlyIfDisabled`). That there is exactly one
listener in `loaded` is what makes the last step through, and what gives
`OneReloadPerSave`. For any voices, speeds, forms and endpoints:

* `EntryTypes`, `NoEntityOnHalfACatalog`, `ListenerMissesNothing`,
  `NoEntryIsStranded`.
* `NoSaveIsForgotten`: once a save has a reload coming, an entity that is loaded
  with no reload to come was built from that save or a later one, now and for
  ever. `OwedIsStable` is the induction: until then a reload is owed, or the entry
  is on its way up and will read the options again. This is the safety half of
  `SavedOptionsTakeEffect`.
* `EntryKeepsContract`: the refinement.

**SpeakRequest.** `RequestInv`: a posted query has the type of one, asks for what
its call asks for, and a call for a promised format asks for that one. It gives
`RequestTypes`, `OnlyTheSpeedIsRefused`, `ExtensionTellsTheBytes`,
`FallbackKeepsTheContainer` and `OnlyDirectRawAudioIsMisnamed`, which is where
`MCSpeakExtension` stops: of the formats in `DirectFormats`, and under a header
that does not mislead, none but linear16 outside a WAV.
`OnlyTheSpeedIsRefused` is an equivalence: off-grid speeds are sent and refused,
and for every voice, option and format nothing else is.

**VoiceEntries.** `EntriesInv`, a conjunction of the properties, is inductive: the
check at the moment of creation is what the whole of uniqueness hangs on. For any
number of keys, flows, entries and voices:

* `EntriesTypes`, `NoTwoEntriesShareAnId`, `NoEntryWithoutAGoodKey`,
  `TheFormBlamesTheCause`.
* `OnlyMovedEntriesClash`: where `MCVoiceTwice` and `MCVoiceTitle` stop. Two entries
  share a voice, or a title misnames one, only behind an options flow.
* `FlowsKeepRegistry`: the refinement. Three actions map to `Add`, `Move` and
  `Remove`, an accepted key to `Trust`, and all others to a stutter.

**Live scripts.** `RateIsChecked` and `MatchesAreEarned`, for turns of every
length, under `NoRateNearby`: no rate below 1000, and none between 22800 and 26200
but 24000. The window ends at 25200; the rest is what a turn of a millisecond can
round away. `QuietTurnsPlayOnTime` needs only that a millisecond has a sample
(`SamplesInEveryTurn`), and says what the window is worth when the rate is near.
`CleanRunsWereSpoken` and `RunsDoNotOverlap`,
for any number of runs and chunks, from `FirstInv`: a run is left without an error
only by the server's metadata.

**Deployment.** `RestartsFindItWhole` and `DeployTouchesOnlyWhatItMay`, for any
versions: a copy gets past itself only whole, and nothing touches it from there
on. `SuccessRunsTheNewCode`: once success is reported the new code runs or its
restart is due, the safety half of `RestartRunsTheNewCode`.

**Where the findings stop.** Most disagreements of the integration with its
comments are paired with a theorem saying that they go no further:

| The code does not keep | and yet, for all instances |
|---|---|
| `WholeTurnFallsBack`, `TurnWithTextIsNotDropped` | `OnlyTheCutLosesText` |
| `RejectedKeyIsNotRetried` | `RejectionIsRaised` |
| `CancelledTurnStops` | `CancellationsAreHeard` |
| `OptionsInForce` | `ListenerMissesNothing`, `NoSaveIsForgotten` |
| `SameVoiceTwiceAborts`, `TitleNamesTheVoice` | `OnlyMovedEntriesClash` |
| `ExtensionIsNeverWrong` | `OnlyDirectRawAudioIsMisnamed` |
| `NoLanguageTwice` | `AdvertisedLanguagesAreAnswered` |
| `VoiceListIsStable` | `RestartsKeepVoices`, `PickerStaysPut` |

**Proved and not in a run.** Some definitions are implied by what a run checks, or
were checked with TLC on the same instances before they were proved, and are not
repeated: `IInv`, `LifecycleInv`, `DownOnlyIfDisabled`, `SavesAreNotForgotten`,
`JoinedSenderWasCancelled`, `WholeUnlessCut`, `FailedSendIsNoCleanEnd`,
`TurnRunsDown`, `UniqueIdsDiffer`, `OnlyMovesMisname`, `FallbackIsWav`,
`OnlyRawAudioIsMisnamed`, `NewCodeRunsOrIsDue`, and `TypeOK` except that of
`FluxTurn`.

**Model-checked only.** Every safety property and every refinement the passing
runs check is proved, `CleanEndWasSentWhole` under an assumption. What is temporal
under fairness is beyond the prover: `ReceivingEnds`, `AbandonedTurnIsClosed`,
`SavedOptionsTakeEffect`, `SetupRecovers`, `SubmittedFormComesBack` and
`RestartRunsTheNewCode`. Of the first, the third and the last the safety half is
proved, and only that the steps are taken is left to TLC.

## Not modelled

* `scripts/hacs_check.py`, `scripts/manifest_check.py`: one pass over static
  files each. No state outlives a function and no step can be reordered or fail
  half way, so a unit test reaches everything.
* `scripts/live_check.py`: requests one after the other, with nothing kept
  between them that a later one depends on.
* `local_ha.sh`, `serve_bundle.sh`, `tail_ha_log.sh`: they start a container,
  serve a file, follow a log.
* `strings.json`, translations, manifest, HACS data, CI workflows: no behaviour.
* `tests/` and `docs/review/repro`: statements about the program, not parts of
  it. Read as such, and quoted where the code disagrees.
* Within the modelled parts: wording, logging, wall-clock metrics, the bytes of
  audio beyond container and count, accents and samples of a voice, URLs and
  header fields.
* Hazards without a property are in PROJECT.json with the reason; most of
  those do go wrong, and are rows of the table above. One is an assumption of the runs of
  `FluxTurn`: that the server does not send SpeechMetadata before the
  Flush (`EarlyMetadata = FALSE`). Whether it may is not for this code to say; the
  invariant shows where the assumption is used.

## Plan

Done: the turn with cancellation and abandonment, its contract; catalog, picker
and forms; entry lifecycle and contract; flows; batch client and requests; the
rate check and both live scripts; deployment; the registry; the proofs of all
their safety properties and refinements, and of the safety half of three of the
liveness ones.

What is left to do lies outside the present bounds of the models rather than in
them: an entry that is removed while it is being set up, two streamed turns of
one entity at once (they share nothing but the client), and a server that may
send SpeechMetadata early, once its documentation settles whether it does.
