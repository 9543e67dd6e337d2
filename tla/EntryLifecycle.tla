--------------------------- MODULE EntryLifecycle ---------------------------
(***************************************************************************)
(* The life of one config entry: its setup, which fetches the catalog      *)
(* before it forwards to the tts platform (__init__.py), the entity the    *)
(* platform builds from the options of that moment (tts.py), the options   *)
(* flow that saves new ones (config_flow.py), and the reload a save is     *)
(* meant to trigger.                                                       *)
(*                                                                         *)
(* External, modelled from how the code uses it, is Home Assistant: it     *)
(* sets up, unloads and reloads an entry one at a time, under the entry's  *)
(* setup lock; retries a setup that was not ready; deletes runtime_data    *)
(* and runs the on_unload callbacks when an entry is unloaded; calls the   *)
(* update listeners when saved options differ from the old; reloads an     *)
(* entry that is enabled or disabled; and keeps options across a restart,  *)
(* but neither forms nor anything else.                                    *)
(***************************************************************************)
EXTENDS Naturals

CONSTANTS
  Voices,     (* voice ids                                                 *)
  FluxVoices, (* those family_for_model takes for Flux                     *)
  Speeds,     (* what the slider may be set to                             *)
  NoSpeed,    (* no speed stored                                           *)
  Silent,     (* no entity                                                 *)
  Endpoints,  (* the two catalogs, /v2/models and /v1/models               *)
  Forms,      (* options forms that may be open at once                    *)
  MaxSaves,   (* bound on the options saved over the life of the entry     *)
  MaxUpsets   (* bound on what else happens to it: restarts, reloads by    *)
              (* hand, being disabled or enabled                           *)

ASSUME EntryAssumption ==
  /\ FluxVoices \subseteq Voices
  /\ NoSpeed \notin Speeds
  /\ MaxSaves \in Nat /\ MaxUpsets \in Nat

VARIABLES
  state,     (* the entry's state, setup split at its awaits               *)
  answered,  (* the catalogs that have arrived, of the two being fetched   *)
  catalog,   (* the catalogs merged into runtime_data, none if not there   *)
  entity,    (* the options the entity was built from, or Silent           *)
  listeners, (* update listeners registered                                *)
  reloads,   (* reloads waiting for the setup lock                         *)
  disabled,  (* by the user                                                *)
  options,   (* the entry's saved options                                  *)
  form,      (* the options forms: where each is, has it a speed slider    *)
  saves,     (* history: how often options were saved                      *)
  built,     (* history: which of those saves the entity was built from    *)
  known,     (* history: the last of them when the listener came           *)
  upsets     (* history: how often the entry was upset otherwise           *)

entry == <<state, answered, catalog, entity, listeners, built, known>>
user  == <<disabled, options, form, saves, upsets>>
vars  == <<entry, reloads, user>>

\* What may be stored: a speed only with a Flux voice.
Options ==
  {o \in [voice : Voices, speed : Speeds \cup {NoSpeed}] :
     o.speed # NoSpeed => o.voice \in FluxVoices}

Closed == [at |-> "closed", slider |-> FALSE]

\* async_create_entry of the voice step: the voice, and no speed yet.
Init ==
  /\ state = "fetch" /\ answered = {} /\ catalog = {} /\ entity = Silent
  /\ listeners = 0 /\ reloads = 0 /\ disabled = FALSE
  /\ options \in [voice : Voices, speed : {NoSpeed}]
  /\ form = [f \in Forms |-> Closed]
  /\ saves = 1 /\ built = 0 /\ known = 0 /\ upsets = 0

-----------------------------------------------------------------------------
(* Setup *)

\* One of the two requests gathered by async_fetch_catalog is answered.
CatalogAnswers ==
  /\ state = "fetch"
  /\ \E e \in Endpoints \ answered :
       /\ answered' = answered \cup {e}
       /\ answered' # Endpoints
  /\ UNCHANGED <<state, catalog, entity, listeners, built, known, reloads, user>>

\* The last of them is: runtime_data is set and the platform forwarded to.
CatalogArrives ==
  /\ state = "fetch"
  /\ \E e \in Endpoints \ answered : answered \cup {e} = Endpoints
  /\ state' = "forward" /\ answered' = {} /\ catalog' = Endpoints
  /\ UNCHANGED <<entity, listeners, built, known, reloads, user>>

\* A request fails, answers something that is not JSON, or the two have not
\* answered in time: ConfigEntryNotReady, whatever the other one did.
FetchFails_HalfWillDo ==            \* mutant: goes on with what has arrived
  /\ state = "fetch"
  /\ \/ answered = {} /\ state' = "retry" /\ UNCHANGED catalog
     \/ answered # {} /\ state' = "forward" /\ catalog' = answered
  /\ answered' = {}
  /\ UNCHANGED <<entity, listeners, built, known, reloads, user>>

FetchFails_Escapes ==               \* mutant: not turned into ConfigEntryNotReady
  /\ state = "fetch"
  /\ state' = "error" /\ answered' = {}
  /\ UNCHANGED <<catalog, entity, listeners, built, known, reloads, user>>

FetchFails ==
  /\ state = "fetch"
  /\ state' = "retry" /\ answered' = {}
  /\ UNCHANGED <<catalog, entity, listeners, built, known, reloads, user>>

\* Home Assistant sets the entry up again; a reload would cancel that.
Retry ==
  /\ state = "retry" /\ reloads = 0
  /\ state' = "fetch"
  /\ UNCHANGED <<answered, catalog, entity, listeners, built, known, reloads, user>>

\* The platform's async_setup_entry: the entity reads the options once.
BuildEntity ==
  /\ state = "forward"
  /\ state' = "added" /\ entity' = options /\ built' = saves
  /\ UNCHANGED <<answered, catalog, listeners, known, reloads, user>>

\* async_forward_entry_setups returns, and the listener is registered.
Forwarded_Deaf ==                   \* mutant: there is no listener
  /\ state = "added"
  /\ state' = "loaded" /\ known' = saves
  /\ UNCHANGED <<answered, catalog, entity, listeners, built, reloads, user>>

Forwarded ==
  /\ state = "added"
  /\ state' = "loaded" /\ listeners' = listeners + 1 /\ known' = saves
  /\ UNCHANGED <<answered, catalog, entity, built, reloads, user>>

-----------------------------------------------------------------------------
(* Reload *)

\* A reload gets the lock.  There is something to unload only if the entry
\* was loaded; a disabled one is not set up again.
SetUpUnlessDisabled == state' = IF disabled THEN "not_loaded" ELSE "fetch"

ReloadStarts ==
  /\ reloads > 0 /\ state \in {"loaded", "retry", "not_loaded"}
  /\ reloads' = reloads - 1
  /\ IF state = "loaded" THEN state' = "unload" ELSE SetUpUnlessDisabled
  /\ UNCHANGED <<answered, catalog, entity, listeners, built, known, user>>

\* async_unload_entry: the platform drops the entity, on_unload the listener.
Unloaded_KeepsEntity ==             \* mutant: the platforms are not unloaded
  /\ state = "unload"
  /\ SetUpUnlessDisabled
  /\ catalog' = {} /\ listeners' = 0
  /\ UNCHANGED <<answered, entity, known, built, reloads, user>>

Unloaded_KeepsListener ==           \* mutant: no async_on_unload
  /\ state = "unload"
  /\ SetUpUnlessDisabled
  /\ catalog' = {} /\ entity' = Silent /\ built' = 0
  /\ UNCHANGED <<answered, listeners, known, reloads, user>>

Unloaded_ForGood ==                 \* mutant: the listener unloads and no more
  /\ state = "unload"
  /\ state' = "not_loaded"
  /\ catalog' = {} /\ entity' = Silent /\ built' = 0 /\ listeners' = 0
  /\ UNCHANGED <<answered, known, reloads, user>>

Unloaded ==
  /\ state = "unload"
  /\ SetUpUnlessDisabled
  /\ catalog' = {} /\ entity' = Silent /\ built' = 0 /\ listeners' = 0
  /\ UNCHANGED <<answered, known, reloads, user>>

-----------------------------------------------------------------------------
(* The options flow *)

\* async_step_init without input: reads the options, then has the catalog of
\* runtime_data at once, or awaits a fetch of its own.
OpenForm(f) ==
  /\ form[f] = Closed
  /\ form' = [form EXCEPT ![f] =
       [at |-> IF catalog # {} THEN "shown" ELSE "fetching",
        slider |-> options.voice \in FluxVoices]]
  /\ UNCHANGED <<entry, reloads, disabled, options, saves, upsets>>

\* Its fetch answers and the form is shown, or fails and it aborts.
FormAnswers(f) ==
  /\ form[f].at = "fetching"
  /\ \/ form' = [form EXCEPT ![f].at = "shown"]
     \/ form' = [form EXCEPT ![f] = Closed]
  /\ UNCHANGED <<entry, reloads, disabled, options, saves, upsets>>

\* The user closes the dialog.
Dismiss(f) ==
  /\ form[f] # Closed
  /\ form' = [form EXCEPT ![f] = Closed]
  /\ UNCHANGED <<entry, reloads, disabled, options, saves, upsets>>

\* What is saved: the speed only for a Flux voice, and if it was asked for.
Saved(voice, speed) ==
  [voice |-> voice, speed |-> IF voice \in FluxVoices THEN speed ELSE NoSpeed]

\* async_step_init with input; Home Assistant fires the listeners if it
\* changes anything, and each of them asks for a reload.
Submit(f) ==
  /\ form[f].at = "shown" /\ saves < MaxSaves
  /\ form' = [form EXCEPT ![f] = Closed]
  /\ \E voice \in Voices, speed \in IF form[f].slider THEN Speeds ELSE {NoSpeed} :
       options' = Saved(voice, speed)
  /\ IF options' = options
       THEN UNCHANGED <<reloads, saves>>
       ELSE reloads' = reloads + listeners /\ saves' = saves + 1
  /\ UNCHANGED <<entry, disabled, upsets>>

-----------------------------------------------------------------------------
(* What else happens to an entry *)

Upset == upsets < MaxUpsets /\ upsets' = upsets + 1

\* By hand, or by enabling or disabling the entry.
ReloadByHand ==
  /\ Upset
  /\ reloads' = reloads + 1 /\ disabled' \in BOOLEAN
  /\ UNCHANGED <<entry, options, form, saves>>

\* Home Assistant restarts.  Only the entry's data, options and whether it
\* is disabled are stored.
Restart ==
  /\ Upset
  /\ SetUpUnlessDisabled
  /\ answered' = {} /\ catalog' = {} /\ entity' = Silent /\ built' = 0
  /\ listeners' = 0 /\ reloads' = 0 /\ form' = [f \in Forms |-> Closed]
  /\ UNCHANGED <<known, disabled, options, saves>>

-----------------------------------------------------------------------------
(* Specification *)

Setup == CatalogAnswers \/ CatalogArrives \/ FetchFails \/ Retry \/ BuildEntity \/ Forwarded

Reload == ReloadStarts \/ Unloaded

Flow == \E f \in Forms : OpenForm(f) \/ FormAnswers(f) \/ Dismiss(f) \/ Submit(f)

Next == Setup \/ Reload \/ Flow \/ ReloadByHand \/ Restart

Spec == Init /\ [][Next]_vars

\* Home Assistant retries, forwards, reloads and unloads; nothing obliges a
\* user to do anything.  That a fetch which is tried again and again succeeds
\* in the end is an assumption on the endpoints, not on the code.
Fairness ==
  /\ WF_vars(Retry) /\ WF_vars(BuildEntity) /\ WF_vars(Forwarded) /\ WF_vars(Reload)
  /\ SF_vars(CatalogAnswers) /\ SF_vars(CatalogArrives)

FairSpec == Spec /\ Fairness

-----------------------------------------------------------------------------
(* Properties *)

States == {"not_loaded", "fetch", "forward", "added", "loaded", "retry", "unload"}

\* Every variable keeps its type.  In particular what is stored, and what the
\* entity speaks with, has a speed only for a Flux voice.
TypeOK ==
  /\ state \in States /\ answered \subseteq Endpoints /\ catalog \subseteq Endpoints
  /\ entity \in Options \cup {Silent} /\ options \in Options
  /\ listeners \in Nat /\ reloads \in Nat /\ disabled \in BOOLEAN
  /\ form \in [Forms -> [at : {"closed", "fetching", "shown"}, slider : BOOLEAN]]
  /\ saves \in Nat /\ built \in 0..saves /\ known \in 0..saves /\ upsets \in 0..MaxUpsets

\* What exists while the entry is being set up, and while it is up.
DownInv ==
  state \in {"not_loaded", "fetch", "retry"} =>
    catalog = {} /\ entity = Silent /\ listeners = 0

UpInv ==
  /\ state \in {"forward", "added", "loaded", "unload"} => catalog = Endpoints
  /\ state = "forward" => entity = Silent
  /\ state \in {"forward", "added"} => listeners = 0
  /\ state \in {"loaded", "unload"} => listeners = 1

\* What the entity was built from, and which saves it has missed.
SavesInv ==
  /\ state \in {"added", "loaded", "unload"} /\ built = saves => entity = options
  /\ state = "loaded" /\ saves > known => reloads > 0

\* With no reload to come, an entry that is down is disabled, and one that is
\* disabled is down or on its way: no order of reloads leaves it stranded.
DownOnlyIfDisabled ==
  reloads = 0 =>
    /\ state = "not_loaded" => disabled
    /\ disabled => state \in {"not_loaded", "unload"}

\* The inductive invariant.
LifecycleInv ==
  /\ TypeOK /\ DownInv /\ UpInv /\ SavesInv /\ DownOnlyIfDisabled

\* The fetch is all or nothing: an entity never works from one of the two
\* catalogs, so a dead endpoint shows at setup and not as half the voices gone.
EntityHasBothCatalogs == entity # Silent => catalog = Endpoints

\* Once the listener is registered no save goes unnoticed: a loaded entry with
\* no reload to come has had none since, and if it had none in the gap between
\* the entity and the listener either, what speaks is what was saved last.
ListenedSaveIsReloaded ==
  state = "loaded" /\ reloads = 0 =>
    saves = known /\ (built = known => entity = options)

\* A save reloads the entry once, however often it has been reloaded before.
SaveReloadsAtMostOnce == [][saves' # saves => reloads' <= reloads + 1]_vars

\* A save with a reload coming is never forgotten: whenever the entry is loaded
\* with no reload to come, then or later, the entity was built from that save
\* or a newer one, whatever fetches failed and however often Home Assistant
\* was restarted.
SavesAreNotForgotten ==
  \A n \in 1..MaxSaves :
    [](saves = n /\ reloads > 0 => [](state = "loaded" /\ reloads = 0 => built >= n))

\* Options saved with a reload coming are those the entity is built from in
\* the end, or newer ones, through failing fetches, reloads and restarts.
SavedOptionsTakeEffect ==
  \A n \in 1..MaxSaves : saves = n /\ reloads > 0 ~> built >= n \/ disabled

\* A setup that was not ready is tried until it succeeds.
SetupRecovers == state = "fetch" ~> state = "loaded" \/ disabled

\* Seen from outside, the entry does what EntryContract promises.
Contract == INSTANCE EntryContract WITH
  Options <- Options, Silent <- Silent, options <- options, speaker <- entity
ContractSpec == Contract!Spec

-----------------------------------------------------------------------------
(* What a comment says of an entry, and the code does not do *)

\* config_flow.py:214: "Saving fires the update listener __init__ already
\* registered, which reloads": a loaded entry with no reload to come speaks
\* with the options saved last.
OptionsInForce == state = "loaded" /\ reloads = 0 => entity = options
=============================================================================
