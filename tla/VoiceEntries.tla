---------------------------- MODULE VoiceEntries ----------------------------
(***************************************************************************)
(* Adding entries, and moving them to other voices (config_flow.py).  A    *)
(* flow takes an API key, verifies it, fetches the voice catalog and lets  *)
(* the user pick the voice that becomes the entry's unique id.  Several    *)
(* flows may be open at once.                                              *)
(*                                                                         *)
(* External, modelled from how the code uses it: Home Assistant refuses a  *)
(* unique id that an entry of the integration already has, and saves what  *)
(* the options flow returns; the API accepts a key until it is revoked.    *)
(***************************************************************************)
EXTENDS DeepgramClient

CONSTANTS
  Keys,      (* API keys                                                   *)
  Listings,  (* sets of voices the catalogs may list when they are fetched *)
  Name,      (* display names, which need not tell two voices apart        *)
  Flows,     (* flows that may be open at once                             *)
  EntryIds   (* entries there may be at once                               *)

ASSUME ListingAssumption ==
  /\ Listings \subseteq SUBSET Models
  /\ None \notin Keys \cup {"invalid_auth", "cannot_connect", "unknown"}
  /\ None \notin {"catalog"} \cup Rejections \cup NoAnswer

VARIABLES
  good,      (* the keys the API accepts                                   *)
  flow,      (* where each flow is, its key, its picker and its error      *)
  entries,   (* the entries, None where there is none                      *)
  cause,     (* history: why a flow's last submission failed               *)
  accepted   (* history: the keys a verification succeeded with            *)

vars == <<good, flow, entries, cause, accepted>>

Existing == {e \in EntryIds : entries[e] # None}

Closed == [at |-> "closed", key |-> None, offered |-> {}, error |-> None]

Init ==
  /\ good \in SUBSET Keys
  /\ flow = [f \in Flows |-> Closed]
  /\ entries = [e \in EntryIds |-> None]
  /\ cause = [f \in Flows |-> None] /\ accepted = {}

-----------------------------------------------------------------------------
(* The user step *)

Goto(f, step) == flow' = [flow EXCEPT ![f] = step]

\* async_step_user(None): the key form.
Start(f) ==
  /\ flow[f].at = "closed"
  /\ Goto(f, [Closed EXCEPT !.at = "user"])
  /\ cause' = [cause EXCEPT ![f] = None]
  /\ UNCHANGED <<good, entries, accepted>>

\* The form comes back with a key, whose verification begins.
SubmitKey(f) ==
  /\ flow[f].at = "user"
  /\ \E key \in Keys : Goto(f, [Closed EXCEPT !.at = "verifying", !.key = key])
  /\ cause' = [cause EXCEPT ![f] = None]
  /\ UNCHANGED <<good, entries, accepted>>

\* The except clauses: what the form says of an error of a given class.
FormError_AllIsConnection(class) ==     \* mutant: one clause for DeepgramError
  IF class = "crash" THEN "unknown" ELSE "cannot_connect"

FormError(class) ==
  CASE class = "auth"       -> "invalid_auth"
    [] class = "connection" -> "cannot_connect"
    [] OTHER                -> "unknown"

\* The form again, with the error.
Shown(f, why, error) ==
  /\ Goto(f, [Closed EXCEPT !.at = "user", !.error = FormError(error)])
  /\ cause' = [cause EXCEPT ![f] = why]
  /\ UNCHANGED <<good, entries, accepted>>

\* The API took the key: on to the catalogs, which need none.
KeyAccepted(f) ==
  /\ flow[f].at = "verifying" /\ flow[f].key \in good
  /\ Goto(f, [flow[f] EXCEPT !.at = "fetching"])
  /\ accepted' = accepted \cup {flow[f].key}
  /\ UNCHANGED <<good, entries, cause>>

\* It did not, or something else was wrong with the request.
KeyRejected_OnlyAuthCounts(f) ==    \* mutant: any other answer will do
  /\ flow[f].at = "verifying"
  /\ \E status \in Rejections :
       /\ flow[f].key \in good => status \in {"4xx", "5xx"}
       /\ IF ErrorFor(status) = "auth" THEN Shown(f, status, ErrorFor(status))
          ELSE /\ Goto(f, [flow[f] EXCEPT !.at = "fetching"])
               /\ UNCHANGED <<good, entries, cause, accepted>>

KeyRejected(f) ==
  /\ flow[f].at = "verifying"
  /\ \E status \in Rejections :
       /\ flow[f].key \in good => status \in {"4xx", "5xx"}
       /\ Shown(f, status, Verified(ErrorFor(status)))

\* No answer to the verification: TIMEOUT_SPEAK at the latest.
KeyTimesOut(f) ==
  /\ flow[f].at = "verifying"
  /\ Shown(f, "timeout", Verified(Unanswered("timeout")))

KeyUnanswered(f) ==
  /\ flow[f].at = "verifying"
  /\ \E why \in NoAnswer \ {"timeout"} : Shown(f, why, Verified(Unanswered(why)))

\* The picker, over whatever the catalogs list now.
CatalogLoaded(f) ==
  /\ flow[f].at = "fetching"
  /\ \E listing \in Listings :
       Goto(f, [flow[f] EXCEPT !.at = "voice", !.offered = listing])
  /\ UNCHANGED <<good, entries, cause, accepted>>

\* A catalog is out of reach, TIMEOUT_CATALOG at the latest for both, or what
\* the fetch raises is no DeepgramConnectionError.
CatalogFails_Hangs(f) ==            \* mutant: the fetch has no timeout
  /\ flow[f].at = "fetching"
  /\ UNCHANGED vars

CatalogFails(f) ==
  /\ flow[f].at = "fetching"
  /\ Shown(f, "catalog", "connection") \/ Shown(f, "crash", "crash")

-----------------------------------------------------------------------------
(* The voice step, the options and the end of an entry *)

\* _abort_if_unique_id_configured.
Taken_ByVoice(voice) ==             \* mutant: looks at the options, not the id
  \E e \in Existing : entries[e].voice = voice

Taken(voice) == \E e \in Existing : entries[e].unique_id = voice

\* entry_title, of a voice the flow has in its catalog.
Title(voice) == <<IF voice \in FluxModels THEN "Flux" ELSE "Aura", Name[voice]>>

\* A voice of the picker is submitted: the flow ends, with an entry or not.
PickVoice(f) ==
  /\ flow[f].at = "voice"
  /\ \E voice \in flow[f].offered :
       IF Taken(voice) THEN entries' = entries
       ELSE \E e \in EntryIds \ Existing :
              entries' = [entries EXCEPT ![e] =
                [unique_id |-> voice, title |-> Title(voice), key |-> flow[f].key,
                 voice |-> voice]]
  /\ Goto(f, Closed)
  /\ UNCHANGED <<good, cause, accepted>>

\* The user closes the dialog, at a form.
GiveUp(f) ==
  /\ flow[f].at \in {"user", "voice"}
  /\ Goto(f, Closed)
  /\ UNCHANGED <<good, entries, cause, accepted>>

\* The options flow: another voice, of the catalog the entry or the form has.
ChangeVoice(e) ==
  /\ e \in Existing
  /\ \E voice \in UNION Listings : entries' = [entries EXCEPT ![e].voice = voice]
  /\ UNCHANGED <<good, flow, cause, accepted>>

Remove(e) ==
  /\ e \in Existing
  /\ entries' = [entries EXCEPT ![e] = None]
  /\ UNCHANGED <<good, flow, cause, accepted>>

Revoke ==
  /\ \E key \in good : good' = good \ {key}
  /\ UNCHANGED <<flow, entries, cause, accepted>>

Verifies(f) == KeyAccepted(f) \/ KeyRejected(f) \/ KeyTimesOut(f) \/ KeyUnanswered(f)

FlowStep(f) ==
  \/ Start(f) \/ SubmitKey(f) \/ Verifies(f)
  \/ CatalogLoaded(f) \/ CatalogFails(f) \/ PickVoice(f) \/ GiveUp(f)

Next ==
  \/ \E f \in Flows : FlowStep(f)
  \/ \E e \in EntryIds : ChangeVoice(e) \/ Remove(e)
  \/ Revoke

Spec == Init /\ [][Next]_vars

\* The timeouts are all that is certain to happen.
FairSpec == Spec /\ \A f \in Flows : WF_vars(KeyTimesOut(f)) /\ WF_vars(CatalogFails(f))

-----------------------------------------------------------------------------
(* Properties *)

Steps == {"closed", "user", "verifying", "fetching", "voice"}

FlowStates ==
  [at : Steps, key : Keys \cup {None}, offered : SUBSET Models,
   error : {None, "invalid_auth", "cannot_connect", "unknown"}]

EntryStates ==
  [unique_id : Models, title : {Title(v) : v \in Models}, key : Keys,
   voice : Models]

ASSUME NoneIsNoEntry == None \notin EntryStates

\* Every variable keeps its type.
TypeOK ==
  /\ good \subseteq Keys /\ accepted \subseteq Keys
  /\ flow \in [Flows -> FlowStates]
  /\ entries \in [EntryIds -> EntryStates \cup {None}]
  /\ cause \in [Flows -> {None, "catalog"} \cup Rejections \cup NoAnswer]

\* No two entries have the same unique id, however many flows offered the voice
\* at once and whatever voices the entries were moved to since.
UniqueIdsDiffer ==
  \A e, d \in Existing : entries[e].unique_id = entries[d].unique_id => e = d

\* No entry without a key the API has accepted, and no flow at its picker or on
\* the way there, whatever was submitted and refused before.
EntryWasVerified ==
  /\ \A e \in Existing : entries[e].key \in accepted
  /\ \A f \in Flows : flow[f].at \in {"fetching", "voice"} => flow[f].key \in accepted

\* The key form blames the key if and only if the API did, the network if and
\* only if an answer did not come, from the API or from a catalog, and the last
\* submission, not one before; anything else is "unknown".
FormNamesTheCause ==
  \A f \in Flows :
    /\ flow[f].error = "invalid_auth" <=> flow[f].at = "user" /\ cause[f] \in {"401", "403"}
    /\ flow[f].error = "cannot_connect" <=>
         flow[f].at = "user" /\ cause[f] \in {"timeout", "client_error", "catalog"}
    /\ flow[f].error = "unknown" <=> flow[f].at = "user" /\ cause[f] \in {"4xx", "5xx", "crash"}

\* A submitted key form comes back, with an error or with the picker, whatever
\* the API and the catalogs do.
SubmittedFormComesBack ==
  \A f \in Flows : flow[f].at \in {"verifying", "fetching"} ~> flow[f].at \in {"user", "voice"}

\* The title is that of the voice the entry was added for.  Two entries share a
\* voice, or one has a title that is not its voice's, only after an entry was
\* moved (config_flow.py:206-215).
OnlyMovesMisname ==
  /\ \A e \in Existing : entries[e].title = Title(entries[e].unique_id)
  /\ \A e, d \in Existing : e # d /\ entries[e].voice = entries[d].voice =>
       \E m \in {e, d} : entries[m].voice # entries[m].unique_id

\* Whatever flows do to each other, to the registry of entries they do what
\* EntryRegistry promises.
Registered(e) ==
  [id |-> e, unique_id |-> entries[e].unique_id, key |-> entries[e].key, voice |-> entries[e].voice]

Registry == INSTANCE EntryRegistry WITH
  Ids <- EntryIds, Voices <- Models, Keys <- Keys,
  trusted <- accepted, entries <- {Registered(e) : e \in Existing}
RegistrySpec == Registry!Spec

-----------------------------------------------------------------------------
(* What the comments say of an entry and its voice *)

\* config_flow.py:7: "That is what makes adding the same voice twice abort while
\* adding a second, different voice succeeds".
SameVoiceTwiceAborts ==
  \A e, d \in Existing : entries[e].voice = entries[d].voice => e = d

\* tts.py:108: "The entry title names the chosen voice, so two entries produce
\* distinguishable entity ids".
TitleNamesTheVoice == \A e \in Existing : entries[e].title = Title(entries[e].voice)
=============================================================================
