---------------------------- MODULE VoiceCatalog ----------------------------
(***************************************************************************)
(* The merged voice catalog (catalog.py) and the choice of a voice for a   *)
(* request.  An entry's setup fetches both endpoints and merges them; from *)
(* then on every request is resolved against that catalog, until a restart *)
(* or a reload fetches it again, in whatever order the server lists it     *)
(* then.                                                                   *)
(*                                                                         *)
(* A voice is a record: its id, its name (a number standing for the        *)
(* casefolded display name, compared like it) and its language tags.       *)
(* Accent, age, tags and sample_url are carried along unread and left out. *)
(***************************************************************************)
EXTENDS Naturals, Sequences

CONSTANTS
  FluxListings,  (* what /v2/models may list: sequences of entries         *)
  AuraListings,  (* what /v1/models may list                               *)
  Ids,           (* canonical names                                        *)
  FluxIds,       (* the ids with the "flux-" prefix                        *)
  DefaultVoice,  (* DEFAULT_VOICE                                          *)
  Languages,     (* language tags, such as en-US                           *)
  Codes,         (* what is left of a tag before its hyphen                *)
  English,       (* DEFAULT_LANGUAGE                                       *)
  Base,          (* the part of a tag before its hyphen                    *)
  Lower,         (* the lower case of a code                               *)
  Junk,          (* an entry with no canonical_name, or not an object      *)
  None           (* Python's None                                          *)

\* What _voice_from_entry makes of a usable entry.
Entries == [id : Ids, name : Nat, tags : SUBSET Languages]

ASSUME CatalogAssumption ==
  /\ Base \in [Languages -> Codes] /\ Lower \in [Codes -> Codes]
  /\ English \in Codes /\ Lower[English] = English
  /\ FluxListings \cup AuraListings \subseteq Seq(Entries \cup {Junk})

\* A voice of the catalog is not Python's None.
ASSUME NoneAssumption == None \notin [id : Ids, name : Nat, tags : SUBSET Languages, rank : Nat]

VARIABLES
  voices,    (* the catalog, from voice id to voice; dict order is .rank   *)
  language,  (* the language of the last request                           *)
  preferred, (* the voice it asked for, or None                            *)
  answer     (* the voice it got, or None                                  *)

vars == <<voices, language, preferred, answer>>

IsFlux(v) == v.id \in FluxIds                       \* family_for_model

BaseLanguages_WholeTag(v) == v.tags                 \* mutant: splits on an underscore

BaseLanguages(v) == {Base[tag] : tag \in v.tags}    \* not lower-cased
BaseCode(lang) == Lower[Base[lang]]                 \* lower-cased

\* The merge: the usable entries in order, Flux first, and for an id listed
\* twice the first of them.
Merged(flux, aura) ==
  LET all == flux \o aura
      usable == {i \in DOMAIN all : all[i] # Junk}
      firsts == {i \in usable : \A j \in usable : j < i => all[j].id # all[i].id}
  IN [id \in {all[i].id : i \in firsts} |->
        LET i == CHOOSE i \in firsts : all[i].id = id
        IN [id |-> id, name |-> all[i].name, tags |-> all[i].tags, rank |-> i]]

\* voices_for_language: who speaks it, and the order they are listed in.  The
\* sort is stable, so equal names stay in catalog order.
Speakers(cat, lang) == {v \in {cat[id] : id \in DOMAIN cat} : BaseCode(lang) \in BaseLanguages(v)}

Before_CatalogOrder(v, w) == v.rank < w.rank    \* mutant: the list is not sorted

Before(v, w) ==
  \/ IsFlux(v) /\ ~IsFlux(w)
  \/ (IsFlux(v) <=> IsFlux(w)) /\ v.name < w.name
  \/ (IsFlux(v) <=> IsFlux(w)) /\ v.name = w.name /\ v.rank < w.rank

Firsts(S) == {v \in S : \A w \in S \ {v} : Before(v, w)}

\* resolve_voice: may the preferred voice be used for this language?
Honoured_IfListed(cat, lang, pref) ==       \* mutant: any voice in the catalog will do
  pref # None /\ pref \in DOMAIN cat

Honoured_IfItClaims(cat, lang, pref) ==     \* mutant: trusts the catalog on Flux
  pref # None /\ pref \in DOMAIN cat /\ BaseCode(lang) \in BaseLanguages(cat[pref])

Honoured_ByExactTag(cat, lang, pref) ==     \* mutant: compares tags, not base codes
  /\ pref # None /\ pref \in DOMAIN cat
  /\ lang \in cat[pref].tags
  /\ IsFlux(cat[pref]) => BaseCode(lang) = English

Honoured(cat, lang, pref) ==
  /\ pref # None /\ pref \in DOMAIN cat
  /\ BaseCode(lang) \in BaseLanguages(cat[pref])
  /\ IsFlux(cat[pref]) => BaseCode(lang) = English

\* The rest of the ladder: DEFAULT_VOICE for English, else the first Aura
\* voice, else, for English only, the first voice there is.
Fallback_AuraOnly(cat, lang) ==     \* mutant: no last resort for English
  LET aura == {v \in Speakers(cat, lang) : ~IsFlux(v)}
  IN IF BaseCode(lang) = English /\ DefaultVoice \in DOMAIN cat
        /\ English \in BaseLanguages(cat[DefaultVoice])
       THEN {cat[DefaultVoice]}
       ELSE IF aura # {} THEN Firsts(aura) ELSE {None}

Fallback(cat, lang) ==
  LET speakers == Speakers(cat, lang)
      aura     == {v \in speakers : ~IsFlux(v)}
      english  == BaseCode(lang) = English
  IN IF english /\ DefaultVoice \in DOMAIN cat /\ English \in BaseLanguages(cat[DefaultVoice])
       THEN {cat[DefaultVoice]}
     ELSE IF aura # {} THEN Firsts(aura)
     ELSE IF english /\ speakers # {} THEN Firsts(speakers)
     ELSE {None}

\* What resolve_voice returns, as a set of one.
Resolved(cat, lang, pref) ==
  IF Honoured(cat, lang, pref) THEN {cat[pref]} ELSE Fallback(cat, lang)

-----------------------------------------------------------------------------

Catalogs == {Merged(flux, aura) : flux \in FluxListings, aura \in AuraListings}

\* The setup's fetch has succeeded: an entry whose fetch fails has no entity
\* and no catalog, and tries again.
Init == voices \in Catalogs /\ language = None /\ preferred = None /\ answer = None

\* async_fetch_catalog succeeds again, at a restart or a reload.
Fetch ==
  /\ voices' \in Catalogs
  /\ language' = None /\ preferred' = None /\ answer' = None

\* A request: the entity resolves it before anything else.  It asks for its own
\* voice, or for the one the request names; None stands for a voice that is not
\* listed, or not any more, which resolve_voice treats alike.
Ask ==
  /\ language' \in Languages
  /\ preferred' \in {None, DefaultVoice} \cup DOMAIN voices
  /\ answer' \in Resolved(voices, language', preferred')
  /\ UNCHANGED voices

Next == Fetch \/ Ask

Spec == Init /\ [][Next]_vars

-----------------------------------------------------------------------------
(* Properties *)

\* Every voice of the catalog is one that an endpoint listed, under its id.
TypeOK ==
  /\ \A id \in DOMAIN voices :
       voices[id].id = id /\ voices[id].name \in Nat /\ voices[id].tags \subseteq Languages
  /\ language \in Languages \cup {None}
  /\ preferred \in DOMAIN voices \cup {DefaultVoice, None}
  /\ answer = None \/ answer.id \in DOMAIN voices

\* Settled decision 4: whatever is asked for and whatever the catalog claims,
\* a request in another language than English never gets a Flux voice.
OnlyEnglishGetsFlux ==
  language # None /\ answer # None /\ IsFlux(answer) => BaseCode(language) = English

\* The voice a request gets speaks its language, says the catalog.
AnswerSpeaksTheLanguage ==
  language # None /\ answer # None => BaseCode(language) \in BaseLanguages(answer)

\* A request goes unanswered only when no voice that may speak its language
\* lists it: nobody at all for English, no Aura voice for another language.
SilentOnlyIfNobodySpeaks ==
  language # None /\ answer = None =>
    \A v \in Speakers(voices, language) : IsFlux(v) /\ BaseCode(language) # English

\* Every language a voice is listed under, and that the entity therefore
\* advertises (tts.py:127), is answered for every voice that may be asked for,
\* with two exceptions: a base code in capitals, which a request's never has
\* (models.py:47), and one that only Flux voices are wrongly listed under.
AdvertisedIsAnswered ==
  \A id \in DOMAIN voices : \A tag \in voices[id].tags :
    /\ BaseCode(tag) = Base[tag]
    /\ IsFlux(voices[id]) => BaseCode(tag) = English
    => \A pref \in {None, DefaultVoice} \cup DOMAIN voices : None \notin Resolved(voices, tag, pref)

\* A voice the entity offers for a language (async_get_supported_voices) is
\* the voice that asking for it gets, but for a Flux voice listed under
\* another language than English.
OfferedVoiceIsHonoured ==
  language # None /\ preferred # None /\ preferred \in DOMAIN voices =>
    LET v == voices[preferred]
    IN v \in Speakers(voices, language) /\ (IsFlux(v) => BaseCode(language) = English)
         => answer = v

\* Two catalogs hold the same voices, in whatever order.
SameVoices(a, b) ==
  /\ DOMAIN a = DOMAIN b
  /\ \A id \in DOMAIN a : a[id].name = b[id].name /\ a[id].tags = b[id].tags

IdsOf(answers) == {IF v = None THEN None ELSE v.id : v \in answers}

NamesDiffer(cat) ==
  \A a, b \in DOMAIN cat : a # b => cat[a].name # cat[b].name

\* A restart that reads the same voices in another order resolves every
\* request to the same voice, if no two voices share a name.
RestartKeepsTheVoice ==
  [][SameVoices(voices, voices') /\ NamesDiffer(voices) =>
       \A lang \in Languages, pref \in DOMAIN voices \cup {None} :
         IdsOf(Resolved(voices, lang, pref)) = IdsOf(Resolved(voices', lang, pref))]_voices

\* catalog.py:94: "Sorted, not catalog order, so the picker and the voice list
\* are stable across restarts", names shared or not.
VoiceListIsStable ==
  [][SameVoices(voices, voices') =>
       \A lang \in Languages :
         IdsOf(Firsts(Speakers(voices, lang))) = IdsOf(Firsts(Speakers(voices', lang)))]_voices
=============================================================================
