---------------------------- MODULE VoicePicker -----------------------------
(***************************************************************************)
(* What a user sees of the merged catalog: the picker of the voice step    *)
(* and of the options form (config_flow.py), and the languages the entity  *)
(* advertises (tts.py).  A form shows the catalog of its moment, and stays *)
(* open while the entry reloads and fetches another.                       *)
(*                                                                         *)
(* Requests are those of VoiceCatalog.  A form and a request share nothing *)
(* but the catalog, so requests are made while no form is open, and a form *)
(* that opens forgets the last one.                                        *)
(***************************************************************************)
EXTENDS VoiceCatalog

CONSTANTS
  IdRank,    (* the place of an id in the order of strings                 *)
  CodeRank   (* the place of a language code, none being before them all   *)

ASSUME PickerAssumption ==
  /\ None \notin Ids
  /\ IdRank \in [Ids -> Nat]
  /\ \A a, b \in Ids : IdRank[a] = IdRank[b] => a = b
  /\ CodeRank \in [Codes -> Nat \ {0}]

VARIABLES
  saved,     (* the entry's stored voice                                   *)
  form       (* the form that is open: which, its picker and its default   *)

pickerVars == <<vars, saved, form>>

Bit(b) == IF b THEN 1 ELSE 0

\* The first of a voice's languages, by code.
FirstLanguage(v) ==
  LET ranks == {CodeRank[c] : c \in BaseLanguages(v)}
  IN IF ranks = {} THEN 0 ELSE CHOOSE r \in ranks : \A s \in ranks : r <= s

\* _sort_key.
SortKey(v) ==
  <<Bit(~IsFlux(v)), Bit(English \notin BaseLanguages(v)), FirstLanguage(v), v.name, IdRank[v.id]>>

\* The order of the picker: that of the keys, and of Python's stable sort.
Lexicographic(k, l) == \E i \in 1..5 : k[i] < l[i] /\ \A j \in 1..(i - 1) : k[j] = l[j]

PickedBefore_NameOnly(v, w) ==      \* mutant: the key ends with the name
  LET k == [SortKey(v) EXCEPT ![5] = v.rank]
      l == [SortKey(w) EXCEPT ![5] = w.rank]
  IN Lexicographic(k, l)

PickedBefore(v, w) == Lexicographic(SortKey(v), SortKey(w))

TopOfPicker(cat) ==
  {id \in DOMAIN cat : \A other \in DOMAIN cat \ {id} : PickedBefore(cat[id], cat[other])}

\* _default_voice: the preferred voice, DEFAULT_VOICE, or the first there is.
DefaultFor_Trusting(cat, pref) ==       \* mutant: the stored voice, listed or not
  IF pref # None THEN pref ELSE DefaultVoice

DefaultFor_HaleyFirst(cat, pref) ==     \* mutant: the candidates swapped
  IF DefaultVoice \in DOMAIN cat THEN DefaultVoice
  ELSE IF pref # None /\ pref \in DOMAIN cat THEN pref
  ELSE IF DOMAIN cat = {} THEN DefaultVoice
  ELSE CHOOSE id \in TopOfPicker(cat) : TRUE

DefaultFor(cat, pref) ==
  IF pref # None /\ pref \in DOMAIN cat THEN pref
  ELSE IF DefaultVoice \in DOMAIN cat \/ DOMAIN cat = {} THEN DefaultVoice
  ELSE CHOOSE id \in TopOfPicker(cat) : TRUE

\* _attr_supported_languages, over supported_languages.
Advertised(cat) == {English} \cup UNION {BaseLanguages(cat[id]) : id \in DOMAIN cat}

-----------------------------------------------------------------------------

Closed == [kind |-> "closed", offered |-> {}, default |-> None]

\* _voice_schema over the catalog of the moment.
Shown(kind, pref) == [kind |-> kind, offered |-> DOMAIN voices, default |-> DefaultFor(voices, pref)]

\* The entry has been created with a voice of the catalog it was offered.
PickerInit == Init /\ saved \in DOMAIN voices /\ form = Closed

\* Home Assistant restarts: the catalog is fetched again, and a form is gone.
\* Without one, a reload does the same.
RestartHA == Fetch /\ form' = Closed /\ UNCHANGED saved

\* The entry reloads under a form that stays open.
Reload == form # Closed /\ Fetch /\ UNCHANGED <<saved, form>>

\* The voice step of another entry, or the options of this one.
NoRequest == language' = None /\ preferred' = None /\ answer' = None

OpenVoiceStep ==
  /\ form = Closed /\ form' = Shown("voice", None)
  /\ NoRequest /\ UNCHANGED <<voices, saved>>

OpenOptions ==
  /\ form = Closed /\ form' = Shown("options", saved)
  /\ NoRequest /\ UNCHANGED <<voices, saved>>

\* The form comes back with a voice of its picker, which takes no other.
Submit ==
  /\ form # Closed /\ form' = Closed
  /\ \E voice \in form.offered : saved' = IF form.kind = "options" THEN voice ELSE saved
  /\ UNCHANGED vars

Dismiss == form # Closed /\ form' = Closed /\ UNCHANGED <<vars, saved>>

\* A request to the entity.
Request == form = Closed /\ Ask /\ UNCHANGED <<saved, form>>

PickerNext == RestartHA \/ Reload \/ OpenVoiceStep \/ OpenOptions \/ Submit \/ Dismiss \/ Request

PickerSpec == PickerInit /\ [][PickerNext]_pickerVars

-----------------------------------------------------------------------------
(* Properties *)

\* A form's default is a voice of its picker unless there is none at all,
\* although the stored voice may have gone from the catalogs since.
DefaultIsOffered == form.kind # "closed" /\ form.offered # {} => form.default \in form.offered

\* An options form that is sent back as it was shown keeps the stored voice,
\* as long as the catalog of the form lists it, whatever was fetched since.
UntouchedFormKeepsTheVoice ==
  form.kind = "options" /\ saved \in form.offered => form.default = saved

\* catalog.py:94, of the picker: the same voices in another order make the same
\* picker and the same default, names shared or not.
PickerIsStable ==
  [][SameVoices(voices, voices') =>
       /\ \A a, b \in DOMAIN voices :
            PickedBefore(voices[a], voices[b]) <=> PickedBefore(voices'[a], voices'[b])
       /\ \A pref \in DOMAIN voices \cup {None} :
            DefaultFor(voices, pref) = DefaultFor(voices', pref)]_voices

-----------------------------------------------------------------------------
(* What a comment says of the languages *)

\* tts.py:123: "Base codes only.  Deepgram reports en and en-US on the same
\* voice, and handing Home Assistant both makes one language look like two."
NoLanguageTwice == \A a, b \in Advertised(voices) : Lower[a] = Lower[b] => a = b
=============================================================================
