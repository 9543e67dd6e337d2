------------------------- MODULE VoicePickerProofs --------------------------
(***************************************************************************)
(* Proofs about the picker, for every catalog the endpoints can list: its  *)
(* order is a strict total order of the voices that the order they arrive  *)
(* in has no part in, so that neither the picker nor its default moves.    *)
(***************************************************************************)
EXTENDS VoicePicker, VoiceCatalogProofs, TLAPS

LEMMA FirstLanguageIsNatural ==
  ASSUME CatalogAssumption, PickerAssumption, NEW v, v.tags \subseteq Languages
  PROVE  FirstLanguage(v) \in Nat
<1> DEFINE ranks == {CodeRank[c] : c \in BaseLanguages(v)}
<1>1. ranks \in SUBSET Nat
  BY DEF BaseLanguages, CatalogAssumption, PickerAssumption
<1>2. FirstLanguage(v) =
        IF ranks = {} THEN 0 ELSE CHOOSE r \in ranks : \A s \in ranks : r <= s
  BY DEF FirstLanguage
<1>3. CASE ranks = {}
  BY <1>2, <1>3
<1>4. CASE ranks # {}
  <2> HIDE DEF ranks
  <2>1. \E r \in ranks : \A s \in ranks : r <= s
    BY <1>1, <1>4, LeastNatural
  <2>2. QED
    BY <1>1, <1>2, <1>4, <2>1
<1> QED
  BY <1>3, <1>4

\* The parts of the key, all of them naturals.
LEMMA KeyIsNatural ==
  ASSUME CatalogAssumption, PickerAssumption, NEW cat, CatalogTyped(cat), NEW id \in DOMAIN cat
  PROVE  /\ Bit(~IsFlux(cat[id])) \in Nat /\ Bit(English \notin BaseLanguages(cat[id])) \in Nat
         /\ FirstLanguage(cat[id]) \in Nat /\ cat[id].name \in Nat /\ IdRank[cat[id].id] \in Nat
<1>1. cat[id].id = id /\ id \in Ids /\ cat[id].name \in Nat /\ cat[id].tags \subseteq Languages
  BY DEF CatalogTyped
<1>2. FirstLanguage(cat[id]) \in Nat
  BY <1>1, FirstLanguageIsNatural
<1>3. \A b : Bit(b) \in Nat
  BY DEF Bit
<1> QED
  BY <1>1, <1>2, <1>3 DEF PickerAssumption

\* To come before, spelled out part by part.
LEMMA LexicographicByParts ==
  ASSUME NEW k1, NEW k2, NEW k3, NEW k4, NEW k5, NEW l1, NEW l2, NEW l3, NEW l4, NEW l5
  PROVE  Lexicographic(<<k1, k2, k3, k4, k5>>, <<l1, l2, l3, l4, l5>>) <=>
           \/ k1 < l1
           \/ k1 = l1 /\ k2 < l2
           \/ k1 = l1 /\ k2 = l2 /\ k3 < l3
           \/ k1 = l1 /\ k2 = l2 /\ k3 = l3 /\ k4 < l4
           \/ k1 = l1 /\ k2 = l2 /\ k3 = l3 /\ k4 = l4 /\ k5 < l5
<1> DEFINE k == <<k1, k2, k3, k4, k5>>
           l == <<l1, l2, l3, l4, l5>>
<1>1. k[1] = k1 /\ k[2] = k2 /\ k[3] = k3 /\ k[4] = k4 /\ k[5] = k5
  OBVIOUS
<1>2. l[1] = l1 /\ l[2] = l2 /\ l[3] = l3 /\ l[4] = l4 /\ l[5] = l5
  OBVIOUS
<1> HIDE DEF k, l
<1> DEFINE At(i) == k[i] < l[i] /\ \A j \in 1..(i - 1) : k[j] = l[j]
<1>3. Lexicographic(k, l) <=> \E i \in 1..5 : At(i)
  BY DEF Lexicographic
<1>4. (\E i \in 1..5 : At(i)) <=> At(1) \/ At(2) \/ At(3) \/ At(4) \/ At(5)
  <2>1. \A i \in 1..5 : i = 1 \/ i = 2 \/ i = 3 \/ i = 4 \/ i = 5
    OBVIOUS
  <2>2. 1 \in 1..5 /\ 2 \in 1..5 /\ 3 \in 1..5 /\ 4 \in 1..5 /\ 5 \in 1..5
    OBVIOUS
  <2> HIDE DEF At
  <2>3. QED
    BY <2>1, <2>2
<1>5. At(1) <=> k[1] < l[1]
  OBVIOUS
<1>6. At(2) <=> k[1] = l[1] /\ k[2] < l[2]
  OBVIOUS
<1>7. At(3) <=> k[1] = l[1] /\ k[2] = l[2] /\ k[3] < l[3]
  OBVIOUS
<1>8. At(4) <=> k[1] = l[1] /\ k[2] = l[2] /\ k[3] = l[3] /\ k[4] < l[4]
  OBVIOUS
<1>9. At(5) <=> k[1] = l[1] /\ k[2] = l[2] /\ k[3] = l[3] /\ k[4] = l[4] /\ k[5] < l[5]
  OBVIOUS
<1> HIDE DEF At
<1>10. Lexicographic(k, l) <=>
        \/ k[1] < l[1]
        \/ k[1] = l[1] /\ k[2] < l[2]
        \/ k[1] = l[1] /\ k[2] = l[2] /\ k[3] < l[3]
        \/ k[1] = l[1] /\ k[2] = l[2] /\ k[3] = l[3] /\ k[4] < l[4]
        \/ k[1] = l[1] /\ k[2] = l[2] /\ k[3] = l[3] /\ k[4] = l[4] /\ k[5] < l[5]
  BY <1>3, <1>4, <1>5, <1>6, <1>7, <1>8, <1>9
<1> QED
  BY <1>1, <1>2, <1>10 DEF k, l

\* The picker orders the voices of a catalog: none before itself, nor two each
\* before the other, and of two different voices one before the other.
THEOREM PickerOrdersTheVoices ==
  ASSUME CatalogAssumption, PickerAssumption, NEW cat, CatalogTyped(cat)
  PROVE  \A a, b, c \in DOMAIN cat :
           /\ ~PickedBefore(cat[a], cat[a])
           /\ PickedBefore(cat[a], cat[b]) /\ PickedBefore(cat[b], cat[c])
                => PickedBefore(cat[a], cat[c])
           /\ a # b => PickedBefore(cat[a], cat[b]) \/ PickedBefore(cat[b], cat[a])
<1> SUFFICES ASSUME NEW a \in DOMAIN cat, NEW b \in DOMAIN cat, NEW c \in DOMAIN cat
             PROVE  /\ ~PickedBefore(cat[a], cat[a])
                    /\ PickedBefore(cat[a], cat[b]) /\ PickedBefore(cat[b], cat[c])
                         => PickedBefore(cat[a], cat[c])
                    /\ a # b => PickedBefore(cat[a], cat[b]) \/ PickedBefore(cat[b], cat[a])
  OBVIOUS
<1> DEFINE K1(v) == Bit(~IsFlux(v))
           K2(v) == Bit(English \notin BaseLanguages(v))
           K3(v) == FirstLanguage(v)
           K4(v) == v.name
           K5(v) == IdRank[v.id]
<1>1. \A x, y \in {a, b, c} :
        PickedBefore(cat[x], cat[y]) <=>
          \/ K1(cat[x]) < K1(cat[y])
          \/ K1(cat[x]) = K1(cat[y]) /\ K2(cat[x]) < K2(cat[y])
          \/ K1(cat[x]) = K1(cat[y]) /\ K2(cat[x]) = K2(cat[y]) /\ K3(cat[x]) < K3(cat[y])
          \/ /\ K1(cat[x]) = K1(cat[y]) /\ K2(cat[x]) = K2(cat[y]) /\ K3(cat[x]) = K3(cat[y])
             /\ K4(cat[x]) < K4(cat[y])
          \/ /\ K1(cat[x]) = K1(cat[y]) /\ K2(cat[x]) = K2(cat[y]) /\ K3(cat[x]) = K3(cat[y])
             /\ K4(cat[x]) = K4(cat[y]) /\ K5(cat[x]) < K5(cat[y])
  BY LexicographicByParts DEF PickedBefore, SortKey
<1>2. \A x \in {a, b, c} :
        /\ K1(cat[x]) \in Nat /\ K2(cat[x]) \in Nat /\ K3(cat[x]) \in Nat
        /\ K4(cat[x]) \in Nat /\ K5(cat[x]) \in Nat
  BY KeyIsNatural
<1>3. a # b => K5(cat[a]) # K5(cat[b])
  BY DEF CatalogTyped, PickerAssumption
<1> HIDE DEF K1, K2, K3, K4, K5
<1>4. ~PickedBefore(cat[a], cat[a])
  BY <1>1, <1>2
<1>5. PickedBefore(cat[a], cat[b]) /\ PickedBefore(cat[b], cat[c]) => PickedBefore(cat[a], cat[c])
  BY <1>1, <1>2
<1>6. a # b => PickedBefore(cat[a], cat[b]) \/ PickedBefore(cat[b], cat[a])
  BY <1>1, <1>2, <1>3
<1> QED
  BY <1>4, <1>5, <1>6

\* A picker that is not empty has a top, however many voices there are: the
\* least by each part of the key among the least by the parts before it.
THEOREM PickerHasATop ==
  ASSUME CatalogAssumption, PickerAssumption, NEW cat, CatalogTyped(cat), DOMAIN cat # {}
  PROVE  TopOfPicker(cat) # {}
<1> DEFINE D  == DOMAIN cat
           k1 == [id \in D |-> Bit(~IsFlux(cat[id]))]
           k2 == [id \in D |-> Bit(English \notin BaseLanguages(cat[id]))]
           k3 == [id \in D |-> FirstLanguage(cat[id])]
           k4 == [id \in D |-> cat[id].name]
           k5 == [id \in D |-> IdRank[cat[id].id]]
<1>1. k1 \in [D -> Nat] /\ k2 \in [D -> Nat] /\ k3 \in [D -> Nat] /\ k4 \in [D -> Nat] /\ k5 \in [D -> Nat]
  BY KeyIsNatural
<1>2. \A a, b \in D : a # b => k5[a] # k5[b]
  BY DEF CatalogTyped, PickerAssumption
<1>3. \A a, b \in D :
        PickedBefore(cat[a], cat[b]) <=>
          \/ k1[a] < k1[b]
          \/ k1[a] = k1[b] /\ k2[a] < k2[b]
          \/ k1[a] = k1[b] /\ k2[a] = k2[b] /\ k3[a] < k3[b]
          \/ k1[a] = k1[b] /\ k2[a] = k2[b] /\ k3[a] = k3[b] /\ k4[a] < k4[b]
          \/ k1[a] = k1[b] /\ k2[a] = k2[b] /\ k3[a] = k3[b] /\ k4[a] = k4[b] /\ k5[a] < k5[b]
  BY LexicographicByParts DEF PickedBefore, SortKey
<1> HIDE DEF k1, k2, k3, k4, k5
<1> DEFINE Least(S, k) == {x \in S : \A y \in S : k[x] <= k[y]}
<1>4. ASSUME NEW S, S \subseteq D, S # {}, NEW k \in [D -> Nat]
      PROVE  Least(S, k) # {} /\ Least(S, k) \subseteq D
  <2>1. [x \in S |-> k[x]] \in [S -> Nat]
    BY <1>4
  <2>2. \E x \in S : \A y \in S : [z \in S |-> k[z]][x] <= [z \in S |-> k[z]][y]
    BY <1>4, <2>1, LeastByMeasure
  <2>3. QED
    BY <1>4, <2>2
<1> DEFINE S1 == Least(D, k1)
           S2 == Least(S1, k2)
           S3 == Least(S2, k3)
           S4 == Least(S3, k4)
           S5 == Least(S4, k5)
<1>5. \A x : x \in S1 <=> x \in D /\ \A y \in D : k1[x] <= k1[y]
  OBVIOUS
<1>6. \A x : x \in S2 <=> x \in S1 /\ \A y \in S1 : k2[x] <= k2[y]
  OBVIOUS
<1>7. \A x : x \in S3 <=> x \in S2 /\ \A y \in S2 : k3[x] <= k3[y]
  OBVIOUS
<1>8. \A x : x \in S4 <=> x \in S3 /\ \A y \in S3 : k4[x] <= k4[y]
  OBVIOUS
<1>9. \A x : x \in S5 <=> x \in S4 /\ \A y \in S4 : k5[x] <= k5[y]
  OBVIOUS
<1> HIDE DEF Least
<1>d. D \subseteq D /\ D # {}
  OBVIOUS
<1>10. S1 # {} /\ S1 \subseteq D
  BY <1>1, <1>4, <1>d
<1> HIDE DEF S1
<1>11. S2 # {} /\ S2 \subseteq D
  BY <1>1, <1>4, <1>10
<1> HIDE DEF S2
<1>12. S3 # {} /\ S3 \subseteq D
  BY <1>1, <1>4, <1>11
<1> HIDE DEF S3
<1>13. S4 # {} /\ S4 \subseteq D
  BY <1>1, <1>4, <1>12
<1> HIDE DEF S4
<1>14. S5 # {} /\ S5 \subseteq D
  BY <1>1, <1>4, <1>13
<1> HIDE DEF S5
<1>15. PICK x \in S5 : TRUE
  BY <1>14
<1>16. ASSUME NEW y \in D, y # x PROVE PickedBefore(cat[x], cat[y])
  <2>1. x \in D /\ x \in S1 /\ x \in S2 /\ x \in S3 /\ x \in S4
    BY <1>5, <1>6, <1>7, <1>8, <1>9, <1>14, <1>15
  <2>n. /\ k1[x] \in Nat /\ k2[x] \in Nat /\ k3[x] \in Nat /\ k4[x] \in Nat /\ k5[x] \in Nat
        /\ k1[y] \in Nat /\ k2[y] \in Nat /\ k3[y] \in Nat /\ k4[y] \in Nat /\ k5[y] \in Nat
    BY <1>1, <1>16, <2>1
  <2>2. k1[x] < k1[y] \/ (k1[x] = k1[y] /\ y \in S1)
    BY <1>5, <1>16, <2>1, <2>n
  <2>3. y \in S1 => k2[x] < k2[y] \/ (k2[x] = k2[y] /\ y \in S2)
    BY <1>6, <2>1, <2>n
  <2>4. y \in S2 => k3[x] < k3[y] \/ (k3[x] = k3[y] /\ y \in S3)
    BY <1>7, <2>1, <2>n
  <2>5. y \in S3 => k4[x] < k4[y] \/ (k4[x] = k4[y] /\ y \in S4)
    BY <1>8, <2>1, <2>n
  <2>6. y \in S4 => k5[x] < k5[y]
    BY <1>2, <1>9, <1>15, <1>16, <2>1, <2>n
  <2>7. QED
    BY <1>3, <1>16, <2>1, <2>2, <2>3, <2>4, <2>5, <2>6
<1> QED
  BY <1>14, <1>15, <1>16 DEF TopOfPicker

-----------------------------------------------------------------------------
(* The forms *)

\* The default is a voice of the catalog, if that has any.
LEMMA DefaultIsThere ==
  ASSUME CatalogAssumption, PickerAssumption, NEW cat, CatalogTyped(cat), NEW pref,
         DOMAIN cat # {}
  PROVE  DefaultFor(cat, pref) \in DOMAIN cat
<1>1. TopOfPicker(cat) # {} /\ TopOfPicker(cat) \subseteq DOMAIN cat
  BY PickerHasATop DEF TopOfPicker
<1>2. (CHOOSE id \in TopOfPicker(cat) : TRUE) \in DOMAIN cat
  BY <1>1
<1> QED
  BY <1>2 DEF DefaultFor

\* The inductive invariant: what a form shows is fixed when it opens, and the
\* stored voice is only moved by a form that closes.
PickerInv ==
  /\ CatalogTyped(voices) /\ saved \in Ids
  /\ form.offered \subseteq Ids
  /\ DefaultIsOffered /\ UntouchedFormKeepsTheVoice

LEMMA PickerInvariance == PickerSpec => []PickerInv
<1>1. PickerInit => PickerInv
  BY CatalogAssumption, CatalogsAreTyped
  DEF PickerInit, Init, PickerInv, Closed, DefaultIsOffered, UntouchedFormKeepsTheVoice, CatalogTyped
<1>2. PickerInv /\ [PickerNext]_pickerVars => PickerInv'
  <2> SUFFICES ASSUME PickerInv, [PickerNext]_pickerVars PROVE PickerInv'
    OBVIOUS
  <2>1. CASE RestartHA \/ Reload
    <3>1. CatalogTyped(voices') /\ saved' = saved
      BY <2>1, CatalogAssumption, CatalogsAreTyped DEF RestartHA, Reload, Fetch
    <3>2. form' = Closed \/ form' = form
      BY <2>1 DEF RestartHA, Reload
    <3>3. QED
      BY <3>1, <3>2 DEF PickerInv, Closed, DefaultIsOffered, UntouchedFormKeepsTheVoice, CatalogTyped
  <2>2. ASSUME NEW kind \in {"voice", "options"}, NEW pref, form' = Shown(kind, pref),
               kind = "options" => pref = saved, UNCHANGED <<voices, saved>>
        PROVE  PickerInv'
    <3>1. form'.offered = DOMAIN voices /\ form'.kind = kind
          /\ form'.default = DefaultFor(voices, pref)
      BY <2>2 DEF Shown
    <3>2. CatalogTyped(voices') /\ saved' = saved /\ form'.offered \subseteq Ids
      BY <2>2, <3>1 DEF PickerInv, CatalogTyped
    <3>3. DefaultIsOffered'
      BY <3>1, DefaultIsThere, CatalogAssumption, PickerAssumption
      DEF PickerInv, DefaultIsOffered
    <3>4. saved # None
      BY PickerAssumption DEF PickerInv, PickerAssumption
    <3>5. UntouchedFormKeepsTheVoice'
      BY <2>2, <3>1, <3>2, <3>4 DEF UntouchedFormKeepsTheVoice, DefaultFor
    <3>6. QED
      BY <3>2, <3>3, <3>5 DEF PickerInv
  <2>3. CASE OpenVoiceStep
    BY <2>2, <2>3 DEF OpenVoiceStep
  <2>4. CASE OpenOptions
    BY <2>2, <2>4 DEF OpenOptions
  <2>5. CASE Submit \/ Dismiss
    <3>1. form' = Closed /\ saved' \in form.offered \cup {saved} /\ voices' = voices
      BY <2>5 DEF Submit, Dismiss, vars
    <3>2. QED
      BY <3>1 DEF PickerInv, Closed, DefaultIsOffered, UntouchedFormKeepsTheVoice, CatalogTyped
  <2>6. CASE Request \/ UNCHANGED pickerVars
    <3>1. UNCHANGED <<voices, saved, form>>
      BY <2>6 DEF Request, Ask, pickerVars, vars
    <3>2. QED
      BY <3>1 DEF PickerInv, DefaultIsOffered, UntouchedFormKeepsTheVoice, CatalogTyped
  <2>7. QED
    BY <2>1, <2>3, <2>4, <2>5, <2>6 DEF PickerNext
<1> QED
  BY <1>1, <1>2, PTL DEF PickerSpec

\* Every form with voices preselects one of them (config_flow.py:121).
THEOREM FormsPreselectAVoice == PickerSpec => []DefaultIsOffered
<1>1. PickerInv => DefaultIsOffered
  BY DEF PickerInv
<1> QED
  BY <1>1, PickerInvariance, PTL

\* The forms take nothing from the requests: with them, VoiceCatalog is what it
\* is without, so what is proved of it holds beside any form.
THEOREM FormsLeaveTheCatalogAlone == PickerSpec => Spec
<1>1. PickerInit => Init /\ voices \in Catalogs
  BY DEF PickerInit, Init
<1>2. voices \in Catalogs /\ [PickerNext]_pickerVars => (voices \in Catalogs)' /\ [Next]_vars
  <2> SUFFICES ASSUME voices \in Catalogs, [PickerNext]_pickerVars
               PROVE  voices' \in Catalogs /\ [Next]_vars
    OBVIOUS
  <2>1. CASE RestartHA \/ Reload
    BY <2>1 DEF RestartHA, Reload, Fetch, Next
  <2>2. CASE OpenVoiceStep \/ OpenOptions
    BY <2>2 DEF OpenVoiceStep, OpenOptions, NoRequest, Fetch, Next
  <2>3. CASE Request
    BY <2>3 DEF Request, Ask, Next
  <2>4. CASE Submit \/ Dismiss \/ UNCHANGED pickerVars
    BY <2>4 DEF Submit, Dismiss, pickerVars, vars
  <2>5. QED
    BY <2>1, <2>2, <2>3, <2>4 DEF PickerNext
<1> QED
  BY <1>1, <1>2, PTL DEF PickerSpec, Spec

\* An untouched options form changes nothing, while the voice is listed.
THEOREM UntouchedFormsKeepVoices == PickerSpec => []UntouchedFormKeepsTheVoice
<1>1. PickerInv => UntouchedFormKeepsTheVoice
  BY DEF PickerInv
<1> QED
  BY <1>1, PickerInvariance, PTL

-----------------------------------------------------------------------------
(* Restarts *)

\* The key has no part that depends on the order the voices were listed in.
LEMMA SameVoicesSamePicker ==
  ASSUME NEW cat, NEW other, CatalogTyped(cat), CatalogTyped(other), SameVoices(cat, other)
  PROVE  /\ \A a, b \in DOMAIN cat :
              PickedBefore(cat[a], cat[b]) <=> PickedBefore(other[a], other[b])
         /\ \A pref : DefaultFor(cat, pref) = DefaultFor(other, pref)
<1>1. ASSUME NEW a \in DOMAIN cat PROVE SortKey(cat[a]) = SortKey(other[a])
  <2>1. cat[a].id = other[a].id /\ cat[a].name = other[a].name /\ cat[a].tags = other[a].tags
    BY DEF SameVoices, CatalogTyped
  <2>2. BaseLanguages(cat[a]) = BaseLanguages(other[a]) /\ (IsFlux(cat[a]) <=> IsFlux(other[a]))
    BY <2>1 DEF BaseLanguages, IsFlux
  <2>3. FirstLanguage(cat[a]) = FirstLanguage(other[a])
    BY <2>2 DEF FirstLanguage
  <2>4. Bit(~IsFlux(cat[a])) = Bit(~IsFlux(other[a]))
    BY <2>2 DEF Bit
  <2>5. Bit(English \notin BaseLanguages(cat[a])) = Bit(English \notin BaseLanguages(other[a]))
    BY <2>2
  <2>6. QED
    BY <2>1, <2>3, <2>4, <2>5 DEF SortKey
<1>2. \A a, b \in DOMAIN cat :
        PickedBefore(cat[a], cat[b]) <=> PickedBefore(other[a], other[b])
  BY <1>1 DEF PickedBefore
<1>3. DOMAIN cat = DOMAIN other
  BY DEF SameVoices
<1>4. TopOfPicker(cat) = TopOfPicker(other)
  BY <1>2, <1>3 DEF TopOfPicker
<1>5. \A pref : DefaultFor(cat, pref) = DefaultFor(other, pref)
  BY <1>3, <1>4 DEF DefaultFor
<1> QED
  BY <1>2, <1>5

\* catalog.py:94, for the picker and every catalog: a restart that reads the
\* same voices in another order moves neither an option nor the default.
THEOREM PickerStaysPut == PickerSpec => PickerIsStable
<1>1. PickerInv /\ PickerInv' /\ [PickerNext]_pickerVars =>
        [SameVoices(voices, voices') =>
           /\ \A a, b \in DOMAIN voices :
                PickedBefore(voices[a], voices[b]) <=> PickedBefore(voices'[a], voices'[b])
           /\ \A pref \in DOMAIN voices \cup {None} :
                DefaultFor(voices, pref) = DefaultFor(voices', pref)]_voices
  BY SameVoicesSamePicker DEF PickerInv
<1> QED
  BY <1>1, PickerInvariance, PTL DEF PickerSpec, PickerIsStable
=============================================================================
