------------------------ MODULE EntryLifecycleProofs ------------------------
EXTENDS EntryLifecycle, TLAPS

\* Whatever is asked for, what a form saves is something that may be stored.
LEMMA SavedIsStorable ==
  ASSUME NEW voice \in Voices, NEW speed \in Speeds \cup {NoSpeed}
  PROVE  Saved(voice, speed) \in Options
BY DEF Saved, Options

\* The initial state, with the options the voice step has stored.
LEMMA InitInv == Init => LifecycleInv
<1> SUFFICES ASSUME Init PROVE LifecycleInv
  OBVIOUS
<1>1. options \in Options
  BY DEF Init, Options
<1>2. form \in [Forms -> [at : {"closed", "fetching", "shown"}, slider : BOOLEAN]]
  BY DEF Init, Closed
<1>3. saves \in Nat /\ built \in 0..saves /\ known \in 0..saves /\ upsets \in 0..MaxUpsets
  BY EntryAssumption DEF Init, EntryAssumption
<1>4. TypeOK
  BY <1>1, <1>2, <1>3 DEF Init, TypeOK, States
<1> QED
  BY <1>4 DEF Init, LifecycleInv, DownInv, UpInv, SavesInv, DownOnlyIfDisabled

\* Setup and reload: the steps under the setup lock.
LEMMA LockedStep ==
  ASSUME LifecycleInv, Setup \/ Reload
  PROVE  LifecycleInv'
<1> USE DEF LifecycleInv, TypeOK, DownInv, UpInv, SavesInv, DownOnlyIfDisabled,
       States, entry, user, SetUpUnlessDisabled
<1>1. CASE CatalogAnswers  BY <1>1 DEF CatalogAnswers
<1>2. CASE CatalogArrives  BY <1>2 DEF CatalogArrives
<1>3. CASE FetchFails  BY <1>3 DEF FetchFails
<1>4. CASE Retry  BY <1>4 DEF Retry
<1>5. CASE BuildEntity  BY <1>5 DEF BuildEntity
<1>6. CASE Forwarded  BY <1>6 DEF Forwarded
<1>7. CASE ReloadStarts
  <2>1. CASE state = "loaded"  BY <1>7, <2>1 DEF ReloadStarts
  <2>2. CASE state # "loaded" /\ disabled  BY <1>7, <2>2 DEF ReloadStarts
  <2>3. CASE state # "loaded" /\ ~disabled  BY <1>7, <2>3 DEF ReloadStarts
  <2> QED  BY <2>1, <2>2, <2>3
<1>8. CASE Unloaded  BY <1>8 DEF Unloaded
<1> QED
  BY <1>1, <1>2, <1>3, <1>4, <1>5, <1>6, <1>7, <1>8 DEF Setup, Reload

\* The forms: only a submitted one changes anything but forms.
LEMMA FlowStep ==
  ASSUME LifecycleInv, Flow
  PROVE  LifecycleInv'
<1> USE DEF LifecycleInv, TypeOK, DownInv, UpInv, SavesInv, DownOnlyIfDisabled, entry
<1> PICK f \in Forms : OpenForm(f) \/ FormAnswers(f) \/ Dismiss(f) \/ Submit(f)
  BY DEF Flow
<1>1. CASE OpenForm(f)  BY <1>1 DEF OpenForm
<1>2. CASE FormAnswers(f)
  <2>1. CASE form' = [form EXCEPT ![f].at = "shown"]  BY <1>2, <2>1 DEF FormAnswers
  <2>2. CASE form' = [form EXCEPT ![f] = Closed]  BY <1>2, <2>2 DEF FormAnswers, Closed
  <2> QED  BY <1>2, <2>1, <2>2 DEF FormAnswers
<1>3. CASE Dismiss(f)  BY <1>3 DEF Dismiss, Closed
<1>4. CASE Submit(f)
  <2>1. options' \in Options
    BY <1>4, SavedIsStorable DEF Submit
  <2>2. form' \in [Forms -> [at : {"closed", "fetching", "shown"}, slider : BOOLEAN]]
    BY <1>4 DEF Submit, Closed
  <2>3. CASE options' = options
    BY <1>4, <2>1, <2>2, <2>3 DEF Submit
  <2>4. CASE options' # options
    <3>1. /\ reloads' = reloads + listeners /\ saves' = saves + 1
          /\ UNCHANGED <<state, answered, catalog, entity, listeners, built, known, disabled, upsets>>
      BY <1>4, <2>4 DEF Submit
    <3>2. saves' \in Nat /\ built' \in 0..saves' /\ known' \in 0..saves' /\ built' # saves'
      BY <3>1
    <3>3. reloads' \in Nat /\ (listeners = 1 => reloads' > 0)
      BY <3>1
    <3> QED
      BY <2>1, <2>2, <3>1, <3>2, <3>3
  <2> QED
    BY <2>3, <2>4
<1> QED
  BY <1>1, <1>2, <1>3, <1>4

\* What else happens to an entry.
LEMMA UpsetStep ==
  ASSUME LifecycleInv, ReloadByHand \/ Restart
  PROVE  LifecycleInv'
<1> USE EntryAssumption DEF EntryAssumption, LifecycleInv, TypeOK, DownInv, UpInv, SavesInv,
       DownOnlyIfDisabled, States, entry, Upset
<1>1. CASE ReloadByHand  BY <1>1 DEF ReloadByHand
<1>2. CASE Restart
  <2>1. form' \in [Forms -> [at : {"closed", "fetching", "shown"}, slider : BOOLEAN]]
    BY <1>2 DEF Restart, Closed
  <2>2. \/ disabled' /\ state' = "not_loaded"
        \/ ~disabled' /\ state' = "fetch"
    BY <1>2 DEF Restart, SetUpUnlessDisabled
  <2> QED
    BY <1>2, <2>1, <2>2 DEF Restart
<1> QED
  BY <1>1, <1>2

\* Every step keeps the inductive invariant.
LEMMA NextInv ==
  ASSUME LifecycleInv, [Next]_vars
  PROVE  LifecycleInv'
<1>1. CASE UNCHANGED vars
  BY <1>1 DEF vars, entry, user, LifecycleInv, TypeOK, DownInv, UpInv, SavesInv, DownOnlyIfDisabled
<1> QED
  BY <1>1, LockedStep, FlowStep, UpsetStep DEF Next

\* The inductive invariant: what exists of an entry at each await of its
\* setup and reload (__init__.py).
THEOREM LifecycleInvariance == Spec => []LifecycleInv
<1> QED
  BY InitInv, NextInv, PTL DEF Spec

\* Types, and with them: a speed is only ever stored, or spoken with, for a
\* Flux voice (config_flow.py:210), in whatever order forms are saved.
THEOREM EntryTypes == Spec => []TypeOK
<1>1. LifecycleInv => TypeOK
  BY DEF LifecycleInv
<1> QED
  BY <1>1, LifecycleInvariance, PTL

\* An entity has both catalogs (catalog.py:37).
THEOREM NoEntityOnHalfACatalog == Spec => []EntityHasBothCatalogs
<1>1. LifecycleInv => EntityHasBothCatalogs
  BY DEF LifecycleInv, TypeOK, States, DownInv, UpInv, EntityHasBothCatalogs
<1> QED
  BY <1>1, LifecycleInvariance, PTL

\* A save the listener could hear has a reload coming (__init__.py:55), and the
\* gap before it came is the only way for an entry to speak with old options.
THEOREM ListenerMissesNothing == Spec => []ListenedSaveIsReloaded
<1>1. LifecycleInv => ListenedSaveIsReloaded
  BY DEF LifecycleInv, SavesInv, TypeOK, ListenedSaveIsReloaded
<1> QED
  BY <1>1, LifecycleInvariance, PTL

\* There is at most one listener, so a save reloads at most once.
THEOREM OneReloadPerSave == Spec => SaveReloadsAtMostOnce
<1>1. ASSUME LifecycleInv, [Next]_vars
      PROVE  [saves' # saves => reloads' <= reloads + 1]_vars
  <2>1. listeners \in {0, 1} /\ reloads \in Nat /\ saves \in Nat
    BY <1>1 DEF LifecycleInv, TypeOK, States, DownInv, UpInv
  <2>2. ASSUME NEW f \in Forms, Submit(f)
        PROVE  reloads' <= reloads + 1
    BY <2>1, <2>2 DEF Submit
  <2>3. saves' # saves => \E f \in Forms : Submit(f)
    BY <1>1 DEF Next, Setup, Reload, Flow, vars, entry, user, CatalogAnswers, CatalogArrives,
         FetchFails, Retry, BuildEntity, Forwarded, ReloadStarts, Unloaded, OpenForm,
         FormAnswers, Dismiss, ReloadByHand, Restart
  <2> QED
    BY <2>2, <2>3
<1> QED
  BY <1>1, LifecycleInvariance, PTL DEF Spec, SaveReloadsAtMostOnce

\* A reload by hand, a restart and the end of an unload all see to it that an
\* entry which stays down is one the user has disabled.
THEOREM NoEntryIsStranded == Spec => []DownOnlyIfDisabled
<1>1. LifecycleInv => DownOnlyIfDisabled
  BY DEF LifecycleInv
<1> QED
  BY <1>1, LifecycleInvariance, PTL

-----------------------------------------------------------------------------
(* A save with a reload coming is not forgotten *)

\* What keeps save n from being forgotten: the entity was built from it or from
\* a newer one, or it has still to be built, or the entry is disabled.
Owed(n) ==
  /\ saves >= n
  /\ built >= n \/ disabled \/ reloads > 0 \/ state \in {"unload", "fetch", "retry", "forward"}

\* No step drops what is owed.
LEMMA OwedIsStable ==
  ASSUME NEW n \in Nat, LifecycleInv, Owed(n), [Next]_vars
  PROVE  Owed(n)'
<1>1. reloads \in Nat /\ saves \in Nat /\ built \in 0..saves /\ listeners \in {0, 1} /\ state \in States
  BY DEF LifecycleInv, TypeOK, DownInv, UpInv, States
<1> USE <1>1 DEF Owed, entry, user
<1>2. CASE CatalogAnswers \/ CatalogArrives \/ FetchFails \/ Retry \/ BuildEntity \/ Forwarded
  BY <1>2 DEF CatalogAnswers, CatalogArrives, FetchFails, Retry, BuildEntity, Forwarded
<1>3. CASE ReloadStarts \/ Unloaded
  BY <1>3 DEF ReloadStarts, Unloaded, SetUpUnlessDisabled
<1>4. CASE ReloadByHand \/ Restart
  BY <1>4 DEF ReloadByHand, Restart, SetUpUnlessDisabled
<1>5. ASSUME NEW f \in Forms, OpenForm(f) \/ FormAnswers(f) \/ Dismiss(f) \/ Submit(f)
      PROVE  Owed(n)'
  BY <1>5 DEF OpenForm, FormAnswers, Dismiss, Submit
<1>6. CASE UNCHANGED vars
  BY <1>6 DEF vars
<1> QED
  BY <1>2, <1>3, <1>4, <1>5, <1>6 DEF Next, Setup, Reload, Flow

\* The safety half of SavedOptionsTakeEffect (config_flow.py:214): a save with a
\* reload coming is in force whenever the entry is loaded and at rest again.
THEOREM NoSaveIsForgotten == Spec => SavesAreNotForgotten
<1> SUFFICES ASSUME NEW n \in 1..MaxSaves
      PROVE  Spec => [](saves = n /\ reloads > 0 => [](state = "loaded" /\ reloads = 0 => built >= n))
  BY DEF SavesAreNotForgotten
<1>1. n \in Nat
  BY EntryAssumption DEF EntryAssumption
<1>2. saves = n /\ reloads > 0 => Owed(n)
  BY <1>1 DEF Owed
<1>3. LifecycleInv /\ Owed(n) /\ [Next]_vars => Owed(n)'
  BY <1>1, OwedIsStable
<1>4. LifecycleInv /\ Owed(n) => (state = "loaded" /\ reloads = 0 => built >= n)
  BY DEF LifecycleInv, DownOnlyIfDisabled, Owed
<1> QED
  BY <1>2, <1>3, <1>4, LifecycleInvariance, PTL DEF Spec

-----------------------------------------------------------------------------
(* The entry keeps its contract *)

\* A step that saves is one of the contract's, and so is one that only
\* builds or drops the entity.
LEMMA StepsKeepContract ==
  ASSUME LifecycleInv, LifecycleInv', [Next]_vars
  PROVE  [Contract!Next]_(Contract!vars)
<1> USE DEF Contract!Next, Contract!vars
<1>1. ASSUME NEW f \in Forms, Submit(f)
      PROVE  Contract!Save
  <2>1. options' \in Options
    BY DEF LifecycleInv, TypeOK
  <2> QED
    BY <1>1, <2>1 DEF Submit, entry, Contract!Save
<1>2. CASE BuildEntity
  <2>1. entity = Silent /\ entity' = options /\ UNCHANGED options
    BY <1>2 DEF BuildEntity, LifecycleInv, UpInv, user
  <2> QED
    BY <2>1 DEF Contract!Start
<1>3. CASE Unloaded \/ Restart
  <2>1. entity' = Silent /\ UNCHANGED options
    BY <1>3 DEF Unloaded, Restart, user
  <2> QED
    BY <2>1 DEF Contract!Stop
<1>4. CASE CatalogAnswers \/ CatalogArrives \/ FetchFails \/ Retry \/ Forwarded \/ ReloadStarts
  BY <1>4 DEF CatalogAnswers, CatalogArrives, FetchFails, Retry, Forwarded, ReloadStarts, user
<1>5. CASE ReloadByHand \/ UNCHANGED vars
  BY <1>5 DEF ReloadByHand, vars, entry, user
<1>6. ASSUME NEW f \in Forms, OpenForm(f) \/ FormAnswers(f) \/ Dismiss(f)
      PROVE  UNCHANGED <<options, entity>>
  BY <1>6 DEF OpenForm, FormAnswers, Dismiss, entry
<1> QED
  BY <1>1, <1>2, <1>3, <1>4, <1>5, <1>6 DEF Next, Setup, Reload, Flow

\* EntryLifecycle implements EntryContract: what speaks is what was saved last
\* when it began to, and it is replaced only after it has fallen silent.
THEOREM EntryKeepsContract == Spec => ContractSpec
<1>1. Init => Contract!Init
  BY DEF Init, Contract!Init, Options
<1>2. ASSUME LifecycleInv, LifecycleInv', [Next]_vars
      PROVE  [Contract!Next]_(Contract!vars)
  BY <1>2, StepsKeepContract
<1> QED
  BY <1>1, <1>2, LifecycleInvariance, PTL DEF Spec, ContractSpec, Contract!Spec
=============================================================================
