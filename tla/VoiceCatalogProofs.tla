------------------------- MODULE VoiceCatalogProofs -------------------------
(***************************************************************************)
(* Proofs about VoiceCatalog, for every catalog that the endpoints can     *)
(* list.  What resolve_voice returns fits the request, whatever the        *)
(* catalog says of its voices; its ladder always ends at one voice or at   *)
(* nobody; and the order in which the voices arrived only tells apart      *)
(* those that share a name.                                                *)
(***************************************************************************)
EXTENDS VoiceCatalog, WellFoundedInduction, TLAPS

\* What a catalog holds of a voice: an entry that was listed, under its id.
CatalogTyped(cat) ==
  \A id \in DOMAIN cat :
    /\ cat[id].id = id /\ id \in Ids
    /\ cat[id].name \in Nat /\ cat[id].tags \subseteq Languages

\* Unusable entries leave nothing behind in the merge.
LEMMA CatalogsAreTyped ==
  ASSUME CatalogAssumption, NEW cat \in Catalogs PROVE CatalogTyped(cat)
<1>1. PICK flux \in FluxListings, aura \in AuraListings : cat = Merged(flux, aura)
  BY DEF Catalogs
<1> DEFINE all == flux \o aura
           usable == {i \in DOMAIN all : all[i] # Junk}
           firsts == {i \in usable : \A j \in usable : j < i => all[j].id # all[i].id}
           Place(id) == CHOOSE i \in firsts : all[i].id = id
<1>2. \A i \in usable : all[i] \in Entries
  <2>1. flux \in Seq(Entries \cup {Junk}) /\ aura \in Seq(Entries \cup {Junk})
    BY DEF CatalogAssumption
  <2>2. all \in Seq(Entries \cup {Junk})
    BY <2>1
  <2> HIDE DEF all
  <2>3. QED
    BY <2>2
<1>3. cat = [id \in {all[i].id : i \in firsts} |->
               [id |-> id, name |-> all[Place(id)].name, tags |-> all[Place(id)].tags,
                rank |-> Place(id)]]
  BY <1>1 DEF Merged
<1> HIDE DEF all
<1>4. SUFFICES ASSUME NEW id \in DOMAIN cat
               PROVE  /\ cat[id].id = id /\ id \in Ids
                      /\ cat[id].name \in Nat /\ cat[id].tags \subseteq Languages
  BY DEF CatalogTyped
<1>5. Place(id) \in firsts /\ all[Place(id)].id = id
  BY <1>3, <1>4
<1>6. all[Place(id)] \in Entries
  BY <1>2, <1>5
<1> HIDE DEF Place
<1> QED
  BY <1>3, <1>4, <1>5, <1>6 DEF Entries

\* A voice that may be spoken to a request in a language.
Fits(v, lang) ==
  /\ BaseCode(lang) \in BaseLanguages(v)
  /\ IsFlux(v) => BaseCode(lang) = English

\* Every branch of resolve_voice guards its own answer: the preferred voice by
\* the language and the family, the default voice by English, the first
\* candidate by its family or by English.
LEMMA ResolvedFits ==
  ASSUME NEW cat, NEW lang, NEW pref, NEW v \in Resolved(cat, lang, pref), v # None
  PROVE  Fits(v, lang)
<1>1. CASE Honoured(cat, lang, pref)
  <2>1. v = cat[pref]
    BY <1>1 DEF Resolved
  <2>2. QED
    BY <1>1, <2>1 DEF Honoured, Fits
<1>2. CASE ~Honoured(cat, lang, pref)
  <2> DEFINE speakers == Speakers(cat, lang)
             aura     == {w \in speakers : ~IsFlux(w)}
             english  == BaseCode(lang) = English
             default  == /\ english /\ DefaultVoice \in DOMAIN cat
                         /\ English \in BaseLanguages(cat[DefaultVoice])
  <2>1. v \in Fallback(cat, lang)
    BY <1>2 DEF Resolved
  <2>2. \A w \in speakers : BaseCode(lang) \in BaseLanguages(w)
    BY DEF Speakers
  <2>3. CASE default
    <3>1. v = cat[DefaultVoice]
      BY <2>1, <2>3 DEF Fallback
    <3>2. QED
      BY <3>1, <2>3 DEF Fits
  <2>4. CASE ~default /\ aura # {}
    <3>1. v \in Firsts(aura)
      BY <2>1, <2>4 DEF Fallback
    <3>2. v \in speakers /\ ~IsFlux(v)
      BY <3>1 DEF Firsts
    <3>3. QED
      BY <3>2, <2>2 DEF Fits
  <2>5. CASE ~default /\ aura = {} /\ english /\ speakers # {}
    <3>1. v \in Firsts(speakers)
      BY <2>1, <2>5 DEF Fallback
    <3>2. v \in speakers
      BY <3>1 DEF Firsts
    <3>3. QED
      BY <3>2, <2>2, <2>5 DEF Fits
  <2>6. CASE ~default /\ aura = {} /\ ~(english /\ speakers # {})
    <3>1. v = None
      BY <2>1, <2>6 DEF Fallback
    <3>2. QED
      BY <3>1
  <2>7. QED
    BY <2>3, <2>4, <2>5, <2>6
<1>3. QED
  BY <1>1, <1>2

\* The answer to the last request fits it.
AnswerFits == language # None /\ answer # None => Fits(answer, language)

\* The inductive invariant: a fetch forgets the last request, and a request is
\* resolved anew.
LEMMA AnswersFit == Spec => []AnswerFits
<1>1. Init => AnswerFits
  BY DEF Init, AnswerFits
<1>2. AnswerFits /\ [Next]_vars => AnswerFits'
  <2> SUFFICES ASSUME AnswerFits, [Next]_vars PROVE AnswerFits'
    OBVIOUS
  <2>1. CASE Fetch
    BY <2>1 DEF Fetch, AnswerFits
  <2>2. CASE Ask
    <3>1. answer' \in Resolved(voices, language', preferred')
      BY <2>2 DEF Ask
    <3>2. answer' # None => Fits(answer', language')
      BY <3>1, ResolvedFits
    <3>3. QED
      BY <3>2 DEF AnswerFits, Fits, BaseCode, BaseLanguages, IsFlux
  <2>3. CASE UNCHANGED vars
    BY <2>3 DEF vars, AnswerFits, Fits, BaseCode, BaseLanguages, IsFlux
  <2>4. QED
    BY <2>1, <2>2, <2>3 DEF Next
<1>3. QED
  BY <1>1, <1>2, PTL DEF Spec

\* The types, for every catalog.
THEOREM CatalogTypes == Spec => []TypeOK
<1> DEFINE TInv == TypeOK /\ CatalogTyped(voices)
<1>1. Init => TInv
  BY CatalogAssumption, CatalogsAreTyped DEF Init, TypeOK, CatalogTyped
<1>2. TInv /\ [Next]_vars => TInv'
  <2> SUFFICES ASSUME TInv, [Next]_vars PROVE TInv'
    OBVIOUS
  <2>1. CASE Fetch
    <3>1. CatalogTyped(voices')
      BY <2>1, CatalogAssumption, CatalogsAreTyped DEF Fetch
    <3>2. QED
      BY <2>1, <3>1 DEF Fetch, TypeOK, CatalogTyped
  <2>2. CASE Ask
    <3>1. answer' = None \/ answer'.id \in DOMAIN voices
      <4>1. ASSUME NEW v \in Resolved(voices, language', preferred')
            PROVE  v = None \/ \E id \in DOMAIN voices : v = voices[id]
        BY DEF Resolved, Honoured, Fallback, Firsts, Speakers
      <4>2. QED
        BY <2>2, <4>1 DEF Ask, CatalogTyped
    <3>2. QED
      BY <2>2, <3>1 DEF Ask, TypeOK, CatalogTyped
  <2>3. CASE UNCHANGED vars
    BY <2>3 DEF vars, TypeOK, CatalogTyped
  <2>4. QED
    BY <2>1, <2>2, <2>3 DEF Next
<1>3. TInv => TypeOK
  OBVIOUS
<1>4. QED
  BY <1>1, <1>2, <1>3, PTL DEF Spec

\* Settled decision 4, for every catalog: no request in another language than
\* English gets a Flux voice, however the endpoints label their voices.
THEOREM FluxSpeaksOnlyEnglish == Spec => []OnlyEnglishGetsFlux
<1>1. AnswerFits => OnlyEnglishGetsFlux
  BY DEF AnswerFits, Fits, OnlyEnglishGetsFlux
<1>2. QED
  BY <1>1, AnswersFit, PTL

\* The voice a request gets is one the catalog lists under its language.
THEOREM AnswerSpeaks == Spec => []AnswerSpeaksTheLanguage
<1>1. AnswerFits => AnswerSpeaksTheLanguage
  BY DEF AnswerFits, Fits, AnswerSpeaksTheLanguage
<1>2. QED
  BY <1>1, AnswersFit, PTL

\* A voice the entity offers for a language is the voice that asking for it
\* gets, unless it is a Flux voice offered for another language than English.
THEOREM OfferIsHonoured == Spec => []OfferedVoiceIsHonoured
<1>1. Init => OfferedVoiceIsHonoured
  BY DEF Init, OfferedVoiceIsHonoured
<1>2. OfferedVoiceIsHonoured /\ [Next]_vars => OfferedVoiceIsHonoured'
  <2> SUFFICES ASSUME OfferedVoiceIsHonoured, [Next]_vars PROVE OfferedVoiceIsHonoured'
    OBVIOUS
  <2>1. CASE Fetch
    BY <2>1 DEF Fetch, OfferedVoiceIsHonoured
  <2>2. CASE Ask
    <3>1. SUFFICES ASSUME preferred' # None, preferred' \in DOMAIN voices',
                          voices'[preferred'] \in Speakers(voices', language'),
                          IsFlux(voices'[preferred']) => BaseCode(language') = English
                   PROVE  answer' = voices'[preferred']
      BY DEF OfferedVoiceIsHonoured, IsFlux, BaseCode, Speakers, BaseLanguages
    <3>2. voices' = voices /\ answer' \in Resolved(voices, language', preferred')
      BY <2>2 DEF Ask
    <3>3. BaseCode(language') \in BaseLanguages(voices[preferred'])
      BY <3>1, <3>2 DEF Speakers
    <3>4. Honoured(voices, language', preferred')
      BY <3>1, <3>2, <3>3 DEF Honoured
    <3>5. QED
      BY <3>2, <3>4 DEF Resolved
  <2>3. CASE UNCHANGED vars
    BY <2>3 DEF vars, OfferedVoiceIsHonoured, Speakers, IsFlux, BaseCode, BaseLanguages
  <2>4. QED
    BY <2>1, <2>2, <2>3 DEF Next
<1>3. QED
  BY <1>1, <1>2, PTL DEF Spec

-----------------------------------------------------------------------------
(* The ladder: it always ends at one voice, or at nobody *)

\* A set of naturals has a least element, and so has a set by a measure.
LEMMA LeastNatural ==
  ASSUME NEW T \in SUBSET Nat, T # {} PROVE \E x \in T : \A y \in T : x <= y
<1> DEFINE R == OpToRel(<, Nat)
<1>1. PICK x \in T : \A y \in T : <<y, x>> \notin R
  <2> HIDE DEF R
  <2>1. IsWellFoundedOn(R, Nat)
    BY NatLessThanWellFounded DEF R
  <2>2. QED
    BY <2>1, WFMin
<1>2. \A y \in T : ~(y < x)
  BY <1>1 DEF OpToRel
<1> QED
  BY <1>2

LEMMA LeastByMeasure ==
  ASSUME NEW S, S # {}, NEW f \in [S -> Nat] PROVE \E x \in S : \A y \in S : f[x] <= f[y]
<1> DEFINE T == {f[x] : x \in S}
<1>1. T \in SUBSET Nat /\ T # {}
  OBVIOUS
<1>2. PICK t \in T : \A u \in T : t <= u
  <2> HIDE DEF T
  <2> QED
    BY <1>1, LeastNatural
<1> QED
  BY <1>2

\* What the merge makes of a voice, and that no two voices have one place.
CatalogRanked(cat) ==
  \A id \in DOMAIN cat :
    /\ cat[id] # None /\ cat[id].rank \in Nat
    /\ \A other \in DOMAIN cat : cat[id].rank = cat[other].rank => id = other

LEMMA CatalogsAreRanked ==
  ASSUME CatalogAssumption, NoneAssumption, NEW cat \in Catalogs PROVE CatalogRanked(cat)
<1>1. PICK flux \in FluxListings, aura \in AuraListings : cat = Merged(flux, aura)
  BY DEF Catalogs
<1> DEFINE all == flux \o aura
           usable == {i \in DOMAIN all : all[i] # Junk}
           firsts == {i \in usable : \A j \in usable : j < i => all[j].id # all[i].id}
           Place(id) == CHOOSE i \in firsts : all[i].id = id
<1>2. DOMAIN all \subseteq Nat
  <2>1. flux \in Seq(Entries \cup {Junk}) /\ aura \in Seq(Entries \cup {Junk})
    BY DEF CatalogAssumption
  <2>2. all \in Seq(Entries \cup {Junk})
    BY <2>1
  <2> HIDE DEF all
  <2>3. QED
    BY <2>2
<1>3. cat = [id \in {all[i].id : i \in firsts} |->
               [id |-> id, name |-> all[Place(id)].name, tags |-> all[Place(id)].tags,
                rank |-> Place(id)]]
  BY <1>1 DEF Merged
<1> HIDE DEF all
<1>4. \A id \in DOMAIN cat : Place(id) \in firsts /\ all[Place(id)].id = id
  BY <1>3
<1> HIDE DEF Place, firsts, usable
<1>5. \A id \in DOMAIN cat : cat[id].rank = Place(id) /\ Place(id) \in Nat
  <2>1. \A id \in DOMAIN cat : cat[id].rank = Place(id)
    BY <1>3
  <2>2. \A id \in DOMAIN cat : Place(id) \in Nat
    BY <1>2, <1>4 DEF firsts, usable
  <2> QED
    BY <2>1, <2>2
<1>6. \A id, other \in DOMAIN cat : cat[id].rank = cat[other].rank => id = other
  BY <1>4, <1>5
<1>7. \A id \in DOMAIN cat : cat[id] # None
  <2>1. SUFFICES ASSUME NEW id \in DOMAIN cat
                 PROVE  cat[id] \in [id : Ids, name : Nat, tags : SUBSET Languages, rank : Nat]
    BY DEF NoneAssumption
  <2>2. cat[id].id \in Ids /\ cat[id].name \in Nat /\ cat[id].tags \subseteq Languages
    BY CatalogsAreTyped DEF CatalogTyped
  <2>3. cat[id] = [id |-> id, name |-> all[Place(id)].name, tags |-> all[Place(id)].tags,
                   rank |-> Place(id)]
    BY <1>3
  <2>4. cat[id] = [id |-> cat[id].id, name |-> cat[id].name, tags |-> cat[id].tags,
                   rank |-> cat[id].rank]
    BY <2>3
  <2>5. cat[id].rank \in Nat
    BY <1>5
  <2> QED
    BY <2>2, <2>4, <2>5
<1> QED
  BY <1>5, <1>6, <1>7 DEF CatalogRanked

\* Some voices of a catalog, if there are any, have a first one, and only one.
LEMMA OneComesFirst ==
  ASSUME NEW cat, CatalogTyped(cat), CatalogRanked(cat),
         NEW S, S \subseteq {cat[id] : id \in DOMAIN cat}, S # {}
  PROVE  \E v : Firsts(S) = {v}
<1> DEFINE k1 == [v \in S |-> IF IsFlux(v) THEN 0 ELSE 1]
           k2 == [v \in S |-> v.name]
           k3 == [v \in S |-> v.rank]
<1>1. /\ \A v \in S : v.name \in Nat /\ v.rank \in Nat
      /\ \A v, w \in S : v.rank = w.rank => v = w
  BY DEF CatalogTyped, CatalogRanked
<1>2. k1 \in [S -> Nat] /\ k2 \in [S -> Nat] /\ k3 \in [S -> Nat]
  BY <1>1
<1>3. \A v, w \in S :
        Before(v, w) <=> \/ k1[v] < k1[w]
                         \/ k1[v] = k1[w] /\ k2[v] < k2[w]
                         \/ k1[v] = k1[w] /\ k2[v] = k2[w] /\ k3[v] < k3[w]
  BY <1>1 DEF Before
<1>4. \A v, w \in S : k3[v] = k3[w] => v = w
  BY <1>1
<1> HIDE DEF k1, k2, k3
<1> DEFINE Least(T, k) == {x \in T : \A y \in T : k[x] <= k[y]}
<1>5. ASSUME NEW T, T \subseteq S, T # {}, NEW k \in [S -> Nat]
      PROVE  Least(T, k) # {} /\ Least(T, k) \subseteq S
  <2>1. [x \in T |-> k[x]] \in [T -> Nat]
    BY <1>5
  <2>2. \E x \in T : \A y \in T : [z \in T |-> k[z]][x] <= [z \in T |-> k[z]][y]
    BY <1>5, <2>1, LeastByMeasure
  <2> QED
    BY <1>5, <2>2
<1> DEFINE S1 == Least(S, k1)
           S2 == Least(S1, k2)
           S3 == Least(S2, k3)
<1>6. \A x : x \in S1 <=> x \in S /\ \A y \in S : k1[x] <= k1[y]
  OBVIOUS
<1>7. \A x : x \in S2 <=> x \in S1 /\ \A y \in S1 : k2[x] <= k2[y]
  OBVIOUS
<1>8. \A x : x \in S3 <=> x \in S2 /\ \A y \in S2 : k3[x] <= k3[y]
  OBVIOUS
<1> HIDE DEF Least
<1>s. S \subseteq S
  OBVIOUS
<1>9. S1 # {} /\ S1 \subseteq S
  BY <1>2, <1>5, <1>s
<1> HIDE DEF S1
<1>10. S2 # {} /\ S2 \subseteq S
  BY <1>2, <1>5, <1>9
<1> HIDE DEF S2
<1>11. S3 # {} /\ S3 \subseteq S
  BY <1>2, <1>5, <1>10
<1> HIDE DEF S3
<1>12. PICK x \in S3 : TRUE
  BY <1>11
<1>13. x \in S /\ x \in S1 /\ x \in S2
  BY <1>6, <1>7, <1>8, <1>12
<1>14. \A v \in S : k1[v] \in Nat /\ k2[v] \in Nat /\ k3[v] \in Nat
  BY <1>2
<1>15. ASSUME NEW y \in S, y # x PROVE Before(x, y)
  <2>1. k1[x] < k1[y] \/ (k1[x] = k1[y] /\ y \in S1)
    BY <1>6, <1>13, <1>14, <1>15
  <2>2. y \in S1 => k2[x] < k2[y] \/ (k2[x] = k2[y] /\ y \in S2)
    BY <1>7, <1>13, <1>14, <1>15
  <2>3. y \in S2 => k3[x] < k3[y]
    BY <1>4, <1>8, <1>12, <1>13, <1>14, <1>15
  <2> QED
    BY <1>3, <1>13, <1>15, <2>1, <2>2, <2>3
<1>16. ASSUME NEW y \in S, y # x PROVE ~Before(y, x)
  BY <1>3, <1>13, <1>14, <1>15, <1>16
<1>17. \A y : y \in Firsts(S) <=> y = x
  BY <1>13, <1>15, <1>16 DEF Firsts
<1> QED
  BY <1>17

\* resolve_voice always comes to an answer, and to one: the order of the ladder
\* leaves no choice, whatever the endpoints list (catalog.py:98).
THEOREM OneAnswer ==
  ASSUME CatalogAssumption, NoneAssumption, NEW cat \in Catalogs, NEW lang, NEW pref
  PROVE  \E v : Resolved(cat, lang, pref) = {v}
<1> DEFINE speakers == Speakers(cat, lang)
           aura     == {v \in speakers : ~IsFlux(v)}
<1>1. CatalogTyped(cat) /\ CatalogRanked(cat)
  BY CatalogsAreTyped, CatalogsAreRanked
<1>2. speakers \subseteq {cat[id] : id \in DOMAIN cat} /\ aura \subseteq {cat[id] : id \in DOMAIN cat}
  BY DEF Speakers
<1>3. \A S : S \subseteq {cat[id] : id \in DOMAIN cat} /\ S # {} => \E v : Firsts(S) = {v}
  BY <1>1, OneComesFirst
<1>4. /\ aura # {} => \E v : Firsts(aura) = {v}
      /\ speakers # {} => \E v : Firsts(speakers) = {v}
  <2> HIDE DEF aura, speakers
  <2> QED
    BY <1>2, <1>3
<1>5. \E v : Fallback(cat, lang) = {v}
  BY <1>4 DEF Fallback
<1> QED
  BY <1>5 DEF Resolved

\* The catalog is one the merge has made, at every moment.
CatalogMerged == CatalogTyped(voices) /\ CatalogRanked(voices)

LEMMA CatalogsStayMerged == Spec => []CatalogMerged
<1>1. Init => CatalogMerged
  BY CatalogAssumption, NoneAssumption, CatalogsAreTyped, CatalogsAreRanked DEF Init, CatalogMerged
<1>2. CatalogMerged /\ [Next]_vars => CatalogMerged'
  <2> SUFFICES ASSUME CatalogMerged, [Next]_vars PROVE CatalogMerged'
    OBVIOUS
  <2>1. CASE Fetch
    BY <2>1, CatalogAssumption, NoneAssumption, CatalogsAreTyped, CatalogsAreRanked
    DEF Fetch, CatalogMerged, CatalogTyped, CatalogRanked
  <2>2. CASE voices' = voices
    BY <2>2 DEF CatalogMerged, CatalogTyped, CatalogRanked
  <2> QED
    BY <2>1, <2>2 DEF Next, Ask, vars
<1> QED
  BY <1>1, <1>2, PTL DEF Spec

\* A language that a voice which may speak it is listed under, in lower case, is
\* never advertised in vain, whatever voice is asked for (tts.py:123).
THEOREM AdvertisedLanguagesAreAnswered == Spec => []AdvertisedIsAnswered
<1>1. CatalogMerged => AdvertisedIsAnswered
  <2> SUFFICES ASSUME CatalogMerged, NEW id \in DOMAIN voices, NEW tag \in voices[id].tags,
                      BaseCode(tag) = Base[tag],
                      IsFlux(voices[id]) => BaseCode(tag) = English, NEW pref
               PROVE  None \notin Resolved(voices, tag, pref)
    BY DEF AdvertisedIsAnswered
  <2> DEFINE speakers == Speakers(voices, tag)
             aura     == {v \in speakers : ~IsFlux(v)}
  <2>1. voices[id] \in speakers
    BY DEF Speakers, BaseLanguages
  <2>2. \A other \in DOMAIN voices : voices[other] # None
    BY DEF CatalogMerged, CatalogRanked
  <2>3. None \notin Firsts(aura) /\ None \notin Firsts(speakers)
    BY <2>2 DEF Firsts, Speakers
  <2>4. aura # {} \/ (BaseCode(tag) = English /\ speakers # {})
    BY <2>1
  <2>5. None \notin Fallback(voices, tag)
    BY <2>2, <2>3, <2>4 DEF Fallback
  <2> QED
    BY <2>2, <2>5 DEF Resolved, Honoured
<1> QED
  BY <1>1, CatalogsStayMerged, PTL

\* Whoever goes unanswered, nobody was there who could have answered: no voice
\* at all for English, no Aura voice for another language (catalog.py:143).
THEOREM SilenceHasAReason == Spec => []SilentOnlyIfNobodySpeaks
<1> DEFINE Inv == CatalogRanked(voices) /\ SilentOnlyIfNobodySpeaks
<1>1. Init => Inv
  BY CatalogAssumption, NoneAssumption, CatalogsAreRanked DEF Init, SilentOnlyIfNobodySpeaks
<1>2. Inv /\ [Next]_vars => Inv'
  <2> SUFFICES ASSUME Inv, [Next]_vars PROVE Inv'
    OBVIOUS
  <2>1. CASE Fetch
    <3>1. CatalogRanked(voices')
      BY <2>1, CatalogAssumption, NoneAssumption, CatalogsAreRanked DEF Fetch
    <3> QED
      BY <2>1, <3>1 DEF Fetch, SilentOnlyIfNobodySpeaks, CatalogRanked
  <2>2. CASE Ask
    <3> DEFINE speakers == Speakers(voices, language')
               aura     == {v \in speakers : ~IsFlux(v)}
    <3>1. voices' = voices /\ answer' \in Resolved(voices, language', preferred')
      BY <2>2 DEF Ask
    <3>2. \A v \in speakers : v # None
      BY DEF Speakers, CatalogRanked
    <3>3. SUFFICES ASSUME answer' = None
                   PROVE  \A v \in speakers : IsFlux(v) /\ BaseCode(language') # English
      BY <3>1 DEF SilentOnlyIfNobodySpeaks, CatalogRanked, Speakers, IsFlux, BaseCode, BaseLanguages
    <3>4. ~Honoured(voices, language', preferred')
      BY <3>1, <3>3 DEF Resolved, Honoured, CatalogRanked
    <3>5. None \in Fallback(voices, language')
      BY <3>1, <3>3, <3>4 DEF Resolved
    <3>6. None \notin Firsts(aura) /\ None \notin Firsts(speakers)
      BY <3>2 DEF Firsts
    <3>7. aura = {} /\ ~(BaseCode(language') = English /\ speakers # {})
      BY <3>5, <3>6 DEF Fallback, CatalogRanked
    <3> QED
      BY <3>7
  <2>3. CASE UNCHANGED vars
    BY <2>3 DEF vars, SilentOnlyIfNobodySpeaks, CatalogRanked, Speakers, IsFlux, BaseCode, BaseLanguages
  <2> QED
    BY <2>1, <2>2, <2>3 DEF Next
<1>3. Inv => SilentOnlyIfNobodySpeaks
  OBVIOUS
<1> QED
  BY <1>1, <1>2, <1>3, PTL DEF Spec

-----------------------------------------------------------------------------
(* The same voices in another order *)

\* The first of some voices of a catalog, told by their ids.
LEMMA FirstIds ==
  ASSUME NEW cat, CatalogTyped(cat), CatalogRanked(cat), NEW P \in SUBSET DOMAIN cat
  PROVE  IdsOf(Firsts({cat[id] : id \in P})) =
           {id \in P : \A other \in P \ {id} : Before(cat[id], cat[other])}
<1> DEFINE S == {cat[id] : id \in P}
           T == {id \in P : \A other \in P \ {id} : Before(cat[id], cat[other])}
<1>1. \A id \in P : cat[id].id = id /\ cat[id] # None
  BY DEF CatalogTyped, CatalogRanked
<1>2. Firsts(S) = {cat[id] : id \in T}
  <2>1. ASSUME NEW id \in T PROVE cat[id] \in Firsts(S)
    BY <1>1, <2>1 DEF Firsts
  <2>2. ASSUME NEW v \in Firsts(S) PROVE \E id \in T : v = cat[id]
    <3>1. PICK id \in P : v = cat[id]
      BY <2>2 DEF Firsts
    <3>2. \A other \in P \ {id} : cat[other] \in S \ {v}
      BY <1>1, <3>1
    <3>3. id \in T
      BY <2>2, <3>1, <3>2 DEF Firsts
    <3> QED
      BY <3>1, <3>3
  <2> HIDE DEF S, T
  <2> QED
    BY <2>1, <2>2
<1>3. IdsOf(Firsts(S)) = {IF v = None THEN None ELSE v.id : v \in Firsts(S)}
  BY DEF IdsOf
<1>4. \A id \in T : (IF cat[id] = None THEN None ELSE cat[id].id) = id
  BY <1>1
<1> HIDE DEF S, T
<1>5. \A x : x \in IdsOf(Firsts(S)) <=> \E v \in Firsts(S) : x = IF v = None THEN None ELSE v.id
  BY <1>3
<1>6. \A v : v \in Firsts(S) <=> \E id \in T : v = cat[id]
  BY <1>2
<1>7. \A x : x \in IdsOf(Firsts(S)) <=> x \in T
  BY <1>4, <1>5, <1>6
<1>8. IdsOf(Firsts(S)) = T
  BY <1>7
<1> QED
  BY <1>8 DEF S, T

\* With distinct names the order in which the voices arrived has no part in the
\* order of the ladder, and so none in where it ends.
LEMMA SameVoicesSameAnswer ==
  ASSUME NEW a, CatalogTyped(a), CatalogRanked(a), NEW b, CatalogTyped(b), CatalogRanked(b),
         SameVoices(a, b), NamesDiffer(a), NEW lang, NEW pref
  PROVE  IdsOf(Resolved(a, lang, pref)) = IdsOf(Resolved(b, lang, pref))
<1> DEFINE D       == DOMAIN a
           P       == {id \in D : BaseCode(lang) \in BaseLanguages(a[id])}
           Q       == {id \in P : ~IsFlux(a[id])}
           english == BaseCode(lang) = English
           AuraOf(cat) == {v \in Speakers(cat, lang) : ~IsFlux(v)}
<1>1. /\ DOMAIN b = D
      /\ \A id \in D : /\ a[id].id = id /\ b[id].id = id /\ a[id].name \in Nat
                       /\ a[id].name = b[id].name /\ a[id].tags = b[id].tags
                       /\ a[id] # None /\ b[id] # None
  BY DEF SameVoices, CatalogTyped, CatalogRanked
<1>2. \A id \in D : (IsFlux(a[id]) <=> IsFlux(b[id])) /\ BaseLanguages(a[id]) = BaseLanguages(b[id])
  BY <1>1 DEF IsFlux, BaseLanguages
<1>3. \A x, y \in D : x # y => (Before(a[x], a[y]) <=> Before(b[x], b[y]))
  BY <1>1, <1>2 DEF Before, NamesDiffer
<1>4. ASSUME NEW R \in SUBSET D
      PROVE  IdsOf(Firsts({a[id] : id \in R})) = IdsOf(Firsts({b[id] : id \in R}))
  <2>1. IdsOf(Firsts({a[id] : id \in R})) =
          {id \in R : \A other \in R \ {id} : Before(a[id], a[other])}
    BY FirstIds
  <2>2. IdsOf(Firsts({b[id] : id \in R})) =
          {id \in R : \A other \in R \ {id} : Before(b[id], b[other])}
    BY <1>1, FirstIds
  <2>3. \A id \in R : (\A other \in R \ {id} : Before(a[id], a[other]))
                    <=> (\A other \in R \ {id} : Before(b[id], b[other]))
    BY <1>3
  <2> QED
    BY <2>1, <2>2, <2>3
<1>5. Speakers(a, lang) = {a[id] : id \in P} /\ Speakers(b, lang) = {b[id] : id \in P}
  BY <1>1, <1>2 DEF Speakers
<1>6. AuraOf(a) = {a[id] : id \in Q} /\ AuraOf(b) = {b[id] : id \in Q}
  BY <1>2, <1>5
<1>7. P \in SUBSET D /\ Q \in SUBSET D
  OBVIOUS
<1>8. ASSUME NEW id \in D PROVE IdsOf({a[id]}) = IdsOf({b[id]})
  BY <1>1 DEF IdsOf
<1>9. CASE Honoured(a, lang, pref)
  <2>1. Honoured(b, lang, pref) /\ pref \in D
    BY <1>1, <1>2, <1>9 DEF Honoured
  <2> QED
    BY <1>8, <1>9, <2>1 DEF Resolved
<1>10. CASE ~Honoured(a, lang, pref)
  <2> DEFINE default == english /\ DefaultVoice \in D /\ English \in BaseLanguages(a[DefaultVoice])
  <2>1. ~Honoured(b, lang, pref)
    BY <1>1, <1>2, <1>10 DEF Honoured
  <2>2. default <=> /\ english /\ DefaultVoice \in DOMAIN b
                    /\ English \in BaseLanguages(b[DefaultVoice])
    BY <1>1, <1>2
  <2>3. (AuraOf(a) # {} <=> Q # {}) /\ (AuraOf(b) # {} <=> Q # {})
    BY <1>6
  <2>4. (Speakers(a, lang) # {} <=> P # {}) /\ (Speakers(b, lang) # {} <=> P # {})
    BY <1>5
  <2>5. IdsOf(Firsts(AuraOf(a))) = IdsOf(Firsts(AuraOf(b)))
    <3> HIDE DEF P, Q, AuraOf
    <3> QED
      BY <1>4, <1>6, <1>7
  <2>6. IdsOf(Firsts(Speakers(a, lang))) = IdsOf(Firsts(Speakers(b, lang)))
    <3> HIDE DEF P, Q
    <3> QED
      BY <1>4, <1>5, <1>7
  <2>7. Fallback(a, lang) = IF default THEN {a[DefaultVoice]}
                            ELSE IF AuraOf(a) # {} THEN Firsts(AuraOf(a))
                            ELSE IF english /\ Speakers(a, lang) # {} THEN Firsts(Speakers(a, lang))
                            ELSE {None}
    BY DEF Fallback
  <2>8. Fallback(b, lang) = IF default THEN {b[DefaultVoice]}
                            ELSE IF AuraOf(b) # {} THEN Firsts(AuraOf(b))
                            ELSE IF english /\ Speakers(b, lang) # {} THEN Firsts(Speakers(b, lang))
                            ELSE {None}
    BY <2>2 DEF Fallback
  <2>d. default => DefaultVoice \in D
    OBVIOUS
  <2> HIDE DEF P, Q, AuraOf, default, english
  <2>9. IdsOf(Fallback(a, lang)) = IdsOf(Fallback(b, lang))
    <3>1. CASE default
      BY <1>8, <2>7, <2>8, <2>d, <3>1
    <3>2. CASE ~default /\ Q # {}
      BY <2>3, <2>5, <2>7, <2>8, <3>2
    <3>3. CASE ~default /\ Q = {} /\ english /\ P # {}
      BY <2>3, <2>4, <2>6, <2>7, <2>8, <3>3
    <3>4. CASE ~default /\ Q = {} /\ ~(english /\ P # {})
      BY <2>3, <2>4, <2>7, <2>8, <3>4
    <3> QED
      BY <3>1, <3>2, <3>3, <3>4
  <2> QED
    BY <1>10, <2>1, <2>9 DEF Resolved
<1> QED
  BY <1>9, <1>10

\* Whatever the endpoints list: a restart that reads the same voices in another
\* order moves no request to another voice, names being distinct (catalog.py:94).
THEOREM RestartsKeepVoices == Spec => RestartKeepsTheVoice
<1>1. CatalogMerged /\ CatalogMerged' /\ [Next]_vars =>
        [SameVoices(voices, voices') /\ NamesDiffer(voices) =>
           \A lang \in Languages, pref \in DOMAIN voices \cup {None} :
             IdsOf(Resolved(voices, lang, pref)) = IdsOf(Resolved(voices', lang, pref))]_voices
  BY SameVoicesSameAnswer DEF CatalogMerged, CatalogTyped, CatalogRanked
<1> QED
  BY <1>1, CatalogsStayMerged, PTL DEF Spec, RestartKeepsTheVoice
=============================================================================
