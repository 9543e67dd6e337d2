------------------------- MODULE VoiceEntriesProofs -------------------------
(* Proofs about VoiceEntries, for any keys, voices, flows and entries.  Each
   invariant is inductive once the types are known.                          *)
EXTENDS VoiceEntries, TLAPS

\* The class of an error decides which of three errors the form shows.
LEMMA FormErrors ==
  \A class : FormError(class) \in {"invalid_auth", "cannot_connect", "unknown"}
BY DEF FormError

LEMMA ClosedIsAState == Closed \in FlowStates
BY DEF Closed, FlowStates, Steps

\* A step of a flow keeps the types if what it leads to is a flow's state.
LEMMA GotoKeepsTypes ==
  ASSUME TypeOK, NEW f \in Flows, NEW step \in FlowStates, Goto(f, step)
  PROVE  flow' \in [Flows -> FlowStates]
BY DEF Goto, TypeOK

LEMMA TypesAtInit == Init => TypeOK
BY ClosedIsAState DEF Init, TypeOK

\* Showing the key form again keeps the types, whatever it was that failed.
LEMMA ShownKeepsTypes ==
  ASSUME TypeOK, NEW f \in Flows, NEW why \in {"catalog"} \cup Rejections \cup NoAnswer,
         NEW error, Shown(f, why, error)
  PROVE  TypeOK'
<1>1. [Closed EXCEPT !.at = "user", !.error = FormError(error)] \in FlowStates
  BY FormErrors DEF Closed, FlowStates, Steps
<1>2. flow' \in [Flows -> FlowStates]
  BY <1>1, GotoKeepsTypes DEF Shown
<1> QED
  BY <1>2 DEF Shown, TypeOK

LEMMA TypesInductive ==
  ASSUME ListingAssumption, TypeOK, EntryWasVerified, [Next]_vars PROVE TypeOK'
<1>1. ASSUME NEW f \in Flows, Start(f) PROVE TypeOK'
  <2>1. [Closed EXCEPT !.at = "user"] \in FlowStates
    BY DEF Closed, FlowStates, Steps
  <2>2. QED
    BY <1>1, <2>1, GotoKeepsTypes DEF Start, TypeOK
<1>2. ASSUME NEW f \in Flows, SubmitKey(f) PROVE TypeOK'
  <2>1. \A key \in Keys : [Closed EXCEPT !.at = "verifying", !.key = key] \in FlowStates
    BY DEF Closed, FlowStates, Steps
  <2>2. flow' \in [Flows -> FlowStates]
    BY <1>2, <2>1, GotoKeepsTypes DEF SubmitKey
  <2>3. QED
    BY <1>2, <2>2 DEF SubmitKey, TypeOK
<1>3. ASSUME NEW f \in Flows, KeyAccepted(f) PROVE TypeOK'
  <2>1. flow[f] \in FlowStates
    BY DEF TypeOK
  <2>2. [flow[f] EXCEPT !.at = "fetching"] \in FlowStates
    BY <2>1 DEF FlowStates, Steps
  <2>3. flow' \in [Flows -> FlowStates]
    BY <1>3, <2>2, GotoKeepsTypes DEF KeyAccepted
  <2>4. QED
    BY <1>3, <2>3 DEF KeyAccepted, TypeOK
<1>4. ASSUME NEW f \in Flows, KeyRejected(f) PROVE TypeOK'
  BY <1>4, ShownKeepsTypes DEF KeyRejected
<1>5. ASSUME NEW f \in Flows, KeyTimesOut(f) PROVE TypeOK'
  BY <1>5, ShownKeepsTypes DEF KeyTimesOut, NoAnswer
<1>6. ASSUME NEW f \in Flows, KeyUnanswered(f) PROVE TypeOK'
  BY <1>6, ShownKeepsTypes DEF KeyUnanswered
<1>7. ASSUME NEW f \in Flows, CatalogLoaded(f) PROVE TypeOK'
  <2>1. flow[f] \in FlowStates
    BY DEF TypeOK
  <2>2. \A listing \in Listings : listing \in SUBSET Models
    BY ListingAssumption DEF ListingAssumption
  <2>3. \A listing \in Listings :
          [flow[f] EXCEPT !.at = "voice", !.offered = listing] \in FlowStates
    BY <2>1, <2>2 DEF FlowStates, Steps
  <2>4. flow' \in [Flows -> FlowStates]
    BY <1>7, <2>3, GotoKeepsTypes DEF CatalogLoaded
  <2>5. QED
    BY <1>7, <2>4 DEF CatalogLoaded, TypeOK
<1>8. ASSUME NEW f \in Flows, CatalogFails(f) PROVE TypeOK'
  BY <1>8, ShownKeepsTypes DEF CatalogFails, NoAnswer
<1>9. ASSUME NEW f \in Flows, GiveUp(f) PROVE TypeOK'
  BY <1>9, ClosedIsAState, GotoKeepsTypes DEF GiveUp, TypeOK
<1>10. ASSUME NEW e \in EntryIds, ChangeVoice(e) PROVE TypeOK'
  <2>1. PICK voice \in UNION Listings : entries' = [entries EXCEPT ![e].voice = voice]
    BY <1>10 DEF ChangeVoice
  <2>2. voice \in Models
    BY ListingAssumption DEF ListingAssumption
  <2>3. entries[e] \in EntryStates
    BY <1>10 DEF ChangeVoice, Existing, TypeOK
  <2>4. [entries[e] EXCEPT !.voice = voice] \in EntryStates
    BY <2>2, <2>3 DEF EntryStates
  <2>5. entries' \in [EntryIds -> EntryStates \cup {None}]
    BY <2>1, <2>4 DEF TypeOK
  <2>6. QED
    BY <1>10, <2>5 DEF ChangeVoice, TypeOK
<1>11. ASSUME NEW e \in EntryIds, Remove(e) PROVE TypeOK'
  BY <1>11 DEF Remove, TypeOK
<1>12. CASE Revoke
  BY <1>12 DEF Revoke, TypeOK
<1>13. ASSUME NEW f \in Flows, PickVoice(f) PROVE TypeOK'
  <2>1. flow' \in [Flows -> FlowStates]
    BY <1>13, ClosedIsAState, GotoKeepsTypes DEF PickVoice
  <2>2. \A voice \in flow[f].offered :
          [unique_id |-> voice, title |-> Title(voice), key |-> flow[f].key,
           voice |-> voice] \in EntryStates
    BY <1>13 DEF PickVoice, EntryWasVerified, TypeOK, FlowStates, EntryStates
  <2>3. entries' \in [EntryIds -> EntryStates \cup {None}]
    BY <1>13, <2>2 DEF PickVoice, TypeOK
  <2>4. QED
    BY <1>13, <2>1, <2>3 DEF PickVoice, TypeOK
<1>14. CASE UNCHANGED vars
  BY <1>14 DEF vars, TypeOK
<1> QED
  BY <1>1, <1>2, <1>3, <1>4, <1>5, <1>6, <1>7, <1>8, <1>9, <1>10, <1>11, <1>12, <1>13, <1>14
  DEF Next, FlowStep, Verifies

-----------------------------------------------------------------------------

LEMMA VerifiedInductive ==
  ASSUME TypeOK, EntryWasVerified, [Next]_vars PROVE EntryWasVerified'
<1>1. ASSUME NEW f \in Flows, NEW why, NEW error, Shown(f, why, error) PROVE EntryWasVerified'
  BY <1>1 DEF Shown, Goto, Closed, EntryWasVerified, Existing, TypeOK
<1>2. ASSUME NEW f \in Flows, Start(f) \/ SubmitKey(f) \/ GiveUp(f) PROVE EntryWasVerified'
  <2>1. UNCHANGED <<entries, accepted>>
    BY <1>2 DEF Start, SubmitKey, GiveUp
  <2>0. /\ Closed.at = "closed" /\ [Closed EXCEPT !.at = "user"].at = "user"
        /\ \A key : [Closed EXCEPT !.at = "verifying", !.key = key].at = "verifying"
    BY DEF Closed
  <2>2. PICK step : Goto(f, step) /\ step.at \in {"closed", "user", "verifying"}
    BY <1>2, <2>0 DEF Start, SubmitKey, GiveUp
  <2>3. \A g \in Flows : flow'[g].at \in {"fetching", "voice"} => flow'[g] = flow[g]
    BY <2>2 DEF Goto, TypeOK
  <2>4. QED
    BY <2>1, <2>3 DEF EntryWasVerified, Existing
<1>3. ASSUME NEW f \in Flows, KeyAccepted(f) PROVE EntryWasVerified'
  BY <1>3 DEF KeyAccepted, Goto, EntryWasVerified, Existing, TypeOK
<1>4. ASSUME NEW f \in Flows, CatalogLoaded(f) PROVE EntryWasVerified'
  BY <1>4 DEF CatalogLoaded, Goto, EntryWasVerified, Existing, TypeOK
<1>5. ASSUME NEW f \in Flows, PickVoice(f) PROVE EntryWasVerified'
  <2>1. \A g \in Flows : flow'[g].at \in {"fetching", "voice"} => flow'[g].key \in accepted'
    BY <1>5 DEF PickVoice, Goto, Closed, EntryWasVerified, TypeOK
  <2>2. flow[f].key \in accepted
    BY <1>5 DEF PickVoice, EntryWasVerified
  <2>3. \A e \in Existing' : entries'[e].key \in accepted'
    BY <1>5, <2>2 DEF PickVoice, EntryWasVerified, Existing, TypeOK
  <2>4. QED
    BY <2>1, <2>3 DEF EntryWasVerified
<1>6. ASSUME NEW e \in EntryIds, ChangeVoice(e) PROVE EntryWasVerified'
  BY <1>6 DEF ChangeVoice, EntryWasVerified, Existing, TypeOK
<1>7. ASSUME NEW e \in EntryIds, Remove(e) PROVE EntryWasVerified'
  BY <1>7 DEF Remove, EntryWasVerified, Existing, TypeOK
<1>8. CASE Revoke \/ UNCHANGED vars
  BY <1>8 DEF Revoke, vars, EntryWasVerified, Existing
<1> QED
  BY <1>1, <1>2, <1>3, <1>4, <1>5, <1>6, <1>7, <1>8
  DEF Next, FlowStep, Verifies, KeyRejected, KeyTimesOut, KeyUnanswered, CatalogFails

\* An entry is only added with a unique id that no other has, and keeps it.
LEMMA UniqueIdsInductive ==
  ASSUME TypeOK, UniqueIdsDiffer, [Next]_vars PROVE UniqueIdsDiffer'
<1>1. CASE UNCHANGED entries
  BY <1>1 DEF UniqueIdsDiffer, Existing
<1>2. ASSUME NEW f \in Flows, PickVoice(f) PROVE UniqueIdsDiffer'
  <2>1. PICK voice \in flow[f].offered :
          IF Taken(voice) THEN entries' = entries
          ELSE \E e \in EntryIds \ Existing :
                 entries' = [entries EXCEPT ![e] =
                   [unique_id |-> voice, title |-> Title(voice), key |-> flow[f].key,
                    voice |-> voice]]
    BY <1>2 DEF PickVoice
  <2>2. CASE Taken(voice)
    BY <1>1, <2>1, <2>2
  <2>3. CASE ~Taken(voice)
    <3>1. PICK e \in EntryIds \ Existing :
            entries' = [entries EXCEPT ![e] =
              [unique_id |-> voice, title |-> Title(voice), key |-> flow[f].key,
               voice |-> voice]]
      BY <2>1, <2>3
    <3>2. entries'[e].unique_id = voice /\ Existing' \subseteq Existing \cup {e}
      BY <3>1 DEF Existing, TypeOK
    <3>3. \A d \in Existing : entries'[d] = entries[d] /\ entries[d].unique_id # voice
      BY <2>3, <3>1 DEF Taken, TypeOK
    <3>4. QED
      BY <3>2, <3>3 DEF UniqueIdsDiffer
  <2>4. QED
    BY <2>2, <2>3
<1>3. ASSUME NEW e \in EntryIds, ChangeVoice(e) PROVE UniqueIdsDiffer'
  <2>1. Existing' \subseteq Existing
    BY <1>3 DEF ChangeVoice, Existing, TypeOK
  <2>2. \A d \in Existing : entries'[d].unique_id = entries[d].unique_id
    BY <1>3 DEF ChangeVoice, Existing, TypeOK
  <2>3. QED
    BY <2>1, <2>2 DEF UniqueIdsDiffer
<1>4. ASSUME NEW e \in EntryIds, Remove(e) PROVE UniqueIdsDiffer'
  BY <1>4 DEF Remove, UniqueIdsDiffer, Existing, TypeOK
<1> QED
  BY <1>1, <1>2, <1>3, <1>4
  DEF Next, FlowStep, Verifies, Start, SubmitKey, KeyAccepted, KeyRejected, KeyTimesOut,
      KeyUnanswered, CatalogLoaded, CatalogFails, GiveUp, Shown, Revoke, vars

-----------------------------------------------------------------------------
(* The form and its error *)

\* What the form shows of a failed verification, or of a failed fetch.
LEMMA ErrorsFitTheirCause ==
  /\ \A status \in Rejections :
       FormError(Verified(ErrorFor(status))) =
         IF status \in {"401", "403"} THEN "invalid_auth" ELSE "unknown"
  /\ \A why \in NoAnswer :
       FormError(Verified(Unanswered(why))) =
         IF why \in {"timeout", "client_error"} THEN "cannot_connect" ELSE "unknown"
  /\ FormError("connection") = "cannot_connect" /\ FormError("crash") = "unknown"
BY DEF FormError, Verified, ErrorFor, Unanswered, Rejections, NoAnswer

\* A flow whose form is as it should be.
CauseNamed(f) ==
  /\ flow[f].error = "invalid_auth" <=> flow[f].at = "user" /\ cause[f] \in {"401", "403"}
  /\ flow[f].error = "cannot_connect" <=>
       flow[f].at = "user" /\ cause[f] \in {"timeout", "client_error", "catalog"}
  /\ flow[f].error = "unknown" <=> flow[f].at = "user" /\ cause[f] \in {"4xx", "5xx", "crash"}

LEMMA CauseInductive ==
  ASSUME ListingAssumption, TypeOK, FormNamesTheCause, [Next]_vars PROVE FormNamesTheCause'
<1>a. \A f \in Flows : CauseNamed(f)
  BY DEF FormNamesTheCause, CauseNamed
<1>b. ASSUME NEW f \in Flows, NEW step, Goto(f, step), CauseNamed(f)',
             \A g \in Flows \ {f} : cause'[g] = cause[g]
      PROVE  FormNamesTheCause'
  BY <1>a, <1>b DEF Goto, CauseNamed, FormNamesTheCause, TypeOK
<1>c. None \notin {"invalid_auth", "cannot_connect", "unknown", "catalog"} \cup Rejections \cup NoAnswer
  BY ListingAssumption DEF ListingAssumption
<1>1. ASSUME NEW f \in Flows, Start(f) \/ SubmitKey(f) PROVE FormNamesTheCause'
  <2>1. PICK step : Goto(f, step) /\ step.error = None
    <3>1. Closed.error = None /\ [Closed EXCEPT !.at = "user"].error = None
      BY DEF Closed
    <3>2. \A key : [Closed EXCEPT !.at = "verifying", !.key = key].error = None
      BY DEF Closed
    <3>3. QED
      BY <1>1, <3>1, <3>2 DEF Start, SubmitKey
  <2>2. cause' = [cause EXCEPT ![f] = None]
    BY <1>1 DEF Start, SubmitKey
  <2>3. CauseNamed(f)'
    BY <1>c, <2>1, <2>2 DEF Goto, CauseNamed, TypeOK, Rejections, NoAnswer
  <2>4. QED
    BY <1>b, <2>1, <2>2, <2>3 DEF TypeOK
<1>2. ASSUME NEW f \in Flows, NEW why \in {"catalog"} \cup Rejections \cup NoAnswer, NEW error,
             Shown(f, why, error),
             FormError(error) = "invalid_auth" <=> why \in {"401", "403"},
             FormError(error) = "cannot_connect" <=>
               why \in {"timeout", "client_error", "catalog"},
             FormError(error) = "unknown" <=> why \in {"4xx", "5xx", "crash"}
      PROVE  FormNamesTheCause'
  <2>1. LET step == [Closed EXCEPT !.at = "user", !.error = FormError(error)]
        IN Goto(f, step) /\ step.at = "user" /\ step.error = FormError(error)
    BY <1>2 DEF Shown, Closed
  <2>2. CauseNamed(f)'
    BY <1>2, <2>1 DEF Shown, Goto, CauseNamed, TypeOK
  <2>3. QED
    BY <1>2, <1>b, <2>1, <2>2 DEF Shown, TypeOK
<1>3. ASSUME NEW f \in Flows, KeyRejected(f) PROVE FormNamesTheCause'
  BY <1>2, <1>3, ErrorsFitTheirCause DEF KeyRejected, Rejections
<1>4. ASSUME NEW f \in Flows, KeyTimesOut(f) \/ KeyUnanswered(f) PROVE FormNamesTheCause'
  BY <1>2, <1>4, ErrorsFitTheirCause DEF KeyTimesOut, KeyUnanswered, NoAnswer
<1>5. ASSUME NEW f \in Flows, CatalogFails(f) PROVE FormNamesTheCause'
  <2>1. CASE Shown(f, "catalog", "connection")
    BY <1>2, <2>1, ErrorsFitTheirCause
  <2>2. CASE Shown(f, "crash", "crash")
    BY <1>2, <2>2, ErrorsFitTheirCause DEF NoAnswer
  <2> QED
    BY <1>5, <2>1, <2>2 DEF CatalogFails
<1>6. ASSUME NEW f \in Flows, KeyAccepted(f) \/ CatalogLoaded(f) PROVE FormNamesTheCause'
  <2>1. flow[f].at # "user" /\ cause' = cause
    BY <1>6 DEF KeyAccepted, CatalogLoaded
  <2>2. PICK step : Goto(f, step) /\ step.error = flow[f].error /\ step.at # "user"
    <3>1. flow[f] \in FlowStates
      BY DEF TypeOK
    <3>2. LET step == [flow[f] EXCEPT !.at = "fetching"]
          IN step.error = flow[f].error /\ step.at # "user"
      BY <3>1 DEF FlowStates
    <3>3. \A listing :
            LET step == [flow[f] EXCEPT !.at = "voice", !.offered = listing]
            IN step.error = flow[f].error /\ step.at # "user"
      BY <3>1 DEF FlowStates
    <3>4. QED
      BY <1>6, <3>2, <3>3 DEF KeyAccepted, CatalogLoaded
  <2>3. CauseNamed(f)'
    BY <1>a, <2>1, <2>2 DEF Goto, CauseNamed, TypeOK
  <2>4. QED
    BY <1>b, <2>1, <2>2, <2>3
<1>7. ASSUME NEW f \in Flows, PickVoice(f) \/ GiveUp(f) PROVE FormNamesTheCause'
  <2>1. Goto(f, Closed) /\ cause' = cause
    BY <1>7 DEF PickVoice, GiveUp
  <2>2. CauseNamed(f)'
    BY <1>c, <2>1 DEF Goto, Closed, CauseNamed, TypeOK, Rejections, NoAnswer
  <2>3. QED
    BY <1>b, <2>1, <2>2
<1>8. CASE UNCHANGED <<flow, cause>>
  BY <1>8 DEF FormNamesTheCause
<1> QED
  BY <1>1, <1>3, <1>4, <1>5, <1>6, <1>7, <1>8
  DEF Next, FlowStep, Verifies, ChangeVoice, Remove, Revoke, vars

-----------------------------------------------------------------------------

\* The four invariants hold at once, the types for the sake of the others.
EntriesInv == TypeOK /\ EntryWasVerified /\ UniqueIdsDiffer /\ FormNamesTheCause

\* At every moment, in any number of flows and entries (config_flow.py).
THEOREM EntriesInvariance == Spec => []EntriesInv
<1>1. Init => EntriesInv
  <2>1. ASSUME Init PROVE EntryWasVerified /\ UniqueIdsDiffer
    BY <2>1 DEF Init, EntryWasVerified, UniqueIdsDiffer, Existing, Closed
  <2>2. ASSUME Init PROVE FormNamesTheCause
    BY <2>2, ListingAssumption
    DEF Init, FormNamesTheCause, Closed, ListingAssumption, Rejections, NoAnswer
  <2>3. QED
    BY <2>1, <2>2, TypesAtInit DEF EntriesInv
<1>2. EntriesInv /\ [Next]_vars => EntriesInv'
  BY ListingAssumption, TypesInductive, VerifiedInductive, UniqueIdsInductive, CauseInductive
  DEF EntriesInv
<1> QED
  BY <1>1, <1>2, PTL DEF Spec

\* Types, for all keys, voices, flows and entries.
THEOREM EntriesTypes == Spec => []TypeOK
<1>1. EntriesInv => TypeOK
  BY DEF EntriesInv
<1> QED
  BY <1>1, EntriesInvariance, PTL

\* However many flows race for a voice, one entry has its id (config_flow.py:187).
THEOREM NoTwoEntriesShareAnId == Spec => []UniqueIdsDiffer
<1>1. EntriesInv => UniqueIdsDiffer
  BY DEF EntriesInv
<1> QED
  BY <1>1, EntriesInvariance, PTL

\* No way to an entry goes round the verification of its key (config_flow.py:152).
THEOREM NoEntryWithoutAGoodKey == Spec => []EntryWasVerified
<1>1. EntriesInv => EntryWasVerified
  BY DEF EntriesInv
<1> QED
  BY <1>1, EntriesInvariance, PTL

\* The form blames what is to blame (config_flow.py:154-164).
THEOREM TheFormBlamesTheCause == Spec => []FormNamesTheCause
<1>1. EntriesInv => FormNamesTheCause
  BY DEF EntriesInv
<1> QED
  BY <1>1, EntriesInvariance, PTL

-----------------------------------------------------------------------------
(* What moving an entry to another voice breaks, and what it does not *)

LEMMA TitlesInductive ==
  ASSUME TypeOK, \A e \in Existing : entries[e].title = Title(entries[e].unique_id), [Next]_vars
  PROVE  (\A e \in Existing : entries[e].title = Title(entries[e].unique_id))'
<1>1. CASE UNCHANGED entries
  BY <1>1 DEF Existing, Title
<1>2. ASSUME NEW f \in Flows, PickVoice(f)
      PROVE  \A e \in Existing' : entries'[e].title = Title(entries'[e].unique_id)
  BY <1>2 DEF PickVoice, Existing, TypeOK
<1>3. ASSUME NEW e \in EntryIds, ChangeVoice(e)
      PROVE  \A d \in Existing' : entries'[d].title = Title(entries'[d].unique_id)
  <2>1. Existing' \subseteq Existing
    BY <1>3 DEF ChangeVoice, Existing, TypeOK
  <2>2. \A d \in Existing : /\ entries'[d].unique_id = entries[d].unique_id
                            /\ entries'[d].title = entries[d].title
    BY <1>3 DEF ChangeVoice, Existing, TypeOK, EntryStates
  <2> QED
    BY <2>1, <2>2 DEF Title
<1>4. ASSUME NEW e \in EntryIds, Remove(e)
      PROVE  \A d \in Existing' : entries'[d].title = Title(entries'[d].unique_id)
  BY <1>4 DEF Remove, Existing, TypeOK
<1> QED
  BY <1>1, <1>2, <1>3, <1>4
  DEF Next, FlowStep, Verifies, Start, SubmitKey, KeyAccepted, KeyRejected, KeyTimesOut,
      KeyUnanswered, CatalogLoaded, CatalogFails, GiveUp, Shown, Revoke, vars, Title

\* A voice twice, or a title that is not the voice's (config_flow.py:7,
\* tts.py:108), takes an entry that was moved: adding alone never brings it about.
THEOREM OnlyMovedEntriesClash == Spec => []OnlyMovesMisname
<1> DEFINE Titled == \A e \in Existing : entries[e].title = Title(entries[e].unique_id)
<1>1. Init => Titled
  BY DEF Init, Existing
<1>2. EntriesInv /\ Titled /\ [Next]_vars => Titled'
  BY TitlesInductive DEF EntriesInv
<1>3. EntriesInv /\ Titled => OnlyMovesMisname
  BY DEF EntriesInv, UniqueIdsDiffer, OnlyMovesMisname
<1> QED
  BY <1>1, <1>2, <1>3, EntriesInvariance, PTL DEF Spec

-----------------------------------------------------------------------------
(* The flows keep to the registry *)

\* An entry added with an id that is free, and is no entry's unique id.
LEMMA PickKeepsRegistry ==
  ASSUME TypeOK, EntryWasVerified, NEW f \in Flows, PickVoice(f)
  PROVE  Registry!Add \/ UNCHANGED Registry!vars
<1>1. PICK voice \in flow[f].offered :
        IF Taken(voice) THEN entries' = entries
        ELSE \E e \in EntryIds \ Existing :
               entries' = [entries EXCEPT ![e] =
                 [unique_id |-> voice, title |-> Title(voice), key |-> flow[f].key,
                  voice |-> voice]]
  BY DEF PickVoice
<1>2. accepted' = accepted /\ flow[f].key \in accepted /\ voice \in Models
  BY DEF PickVoice, EntryWasVerified, TypeOK, FlowStates
<1>3. CASE Taken(voice)
  BY <1>1, <1>2, <1>3 DEF Registry!vars, Registered, Existing
<1>4. CASE ~Taken(voice)
  <2>1. PICK e \in EntryIds \ Existing :
          entries' = [entries EXCEPT ![e] =
            [unique_id |-> voice, title |-> Title(voice), key |-> flow[f].key,
             voice |-> voice]]
    BY <1>1, <1>4
  <2>2. entries'[e] \in EntryStates
    BY <2>1, <1>2 DEF TypeOK, EntryStates, FlowStates
  <2>3. /\ Existing' = Existing \cup {e}
        /\ \A d \in Existing : Registered(d)' = Registered(d)
    BY <2>1, <2>2, NoneIsNoEntry DEF NoneIsNoEntry, Existing, Registered, TypeOK
  <2>4. Registered(e)' = [id |-> e, unique_id |-> voice, key |-> flow[f].key, voice |-> voice]
    BY <2>1 DEF Registered, TypeOK
  <2>5. {Registered(d) : d \in Existing}' = {Registered(d) : d \in Existing} \cup {Registered(e)'}
    BY <2>3
  <2>6. \A x \in {Registered(d) : d \in Existing} : x.id # e /\ x.unique_id # voice
    BY <1>4 DEF Registered, Taken
  <2> QED
    BY <1>2, <2>4, <2>5, <2>6 DEF Registry!Add
<1> QED
  BY <1>3, <1>4

\* The options flow moves one entry and leaves its unique id and its key.
LEMMA MoveKeepsRegistry ==
  ASSUME TypeOK, NEW e \in EntryIds, ChangeVoice(e)
  PROVE  Registry!Move
<1>1. PICK voice \in UNION Listings : entries' = [entries EXCEPT ![e].voice = voice]
  BY DEF ChangeVoice
<1>2. voice \in Models /\ e \in Existing /\ accepted' = accepted
  BY ListingAssumption DEF ListingAssumption, ChangeVoice
<1>3. entries[e] \in EntryStates /\ entries'[e] \in EntryStates
  BY <1>1, <1>2 DEF TypeOK, EntryStates, Existing
<1>4. /\ Existing' = Existing
      /\ \A d \in Existing \ {e} : Registered(d)' = Registered(d)
      /\ Registered(e)' = [Registered(e) EXCEPT !.voice = voice]
  BY <1>1, <1>2, <1>3, NoneIsNoEntry DEF NoneIsNoEntry, Existing, Registered, TypeOK, EntryStates
<1>5. \A d \in Existing \ {e} : Registered(d) # Registered(e)
  BY DEF Registered
<1>6. {Registered(d) : d \in Existing}' =
        ({Registered(d) : d \in Existing} \ {Registered(e)}) \cup {[Registered(e) EXCEPT !.voice = voice]}
  BY <1>2, <1>4, <1>5
<1> QED
  BY <1>2, <1>6 DEF Registry!Move

LEMMA RemoveKeepsRegistry ==
  ASSUME TypeOK, NEW e \in EntryIds, Remove(e)
  PROVE  Registry!Remove
<1>1. /\ e \in Existing /\ accepted' = accepted /\ Existing' = Existing \ {e}
      /\ \A d \in Existing \ {e} : Registered(d)' = Registered(d)
  BY DEF Remove, Existing, Registered, TypeOK
<1>2. \A d \in Existing \ {e} : Registered(d) # Registered(e)
  BY DEF Registered
<1>3. {Registered(d) : d \in Existing}' = {Registered(d) : d \in Existing} \ {Registered(e)}
  BY <1>1, <1>2
<1> QED
  BY <1>1, <1>3 DEF Registry!Remove

\* The steps that leave the entries alone, and one that finds a key good.
LEMMA OthersKeepRegistry ==
  ASSUME TypeOK, UNCHANGED entries,
         UNCHANGED accepted \/ \E f \in Flows : KeyAccepted(f)
  PROVE  [Registry!Next]_(Registry!vars)
<1>1. {Registered(d) : d \in Existing}' = {Registered(d) : d \in Existing}
  BY DEF Registered, Existing
<1>2. ASSUME NEW f \in Flows, KeyAccepted(f)
      PROVE  Registry!Trust
  BY <1>1, <1>2 DEF KeyAccepted, Registry!Trust, TypeOK
<1> QED
  BY <1>1, <1>2 DEF Registry!Next, Registry!vars

\* VoiceEntries implements EntryRegistry: every step of any flow adds one entry
\* under a free unique id and with a key found good, moves one or removes one,
\* or does nothing to the registry (config_flow.py:170, 206).
THEOREM FlowsKeepRegistry == Spec => RegistrySpec
<1>1. Init => Registry!Init
  BY DEF Init, Registry!Init, Existing
<1>2. ASSUME EntriesInv, [Next]_vars
      PROVE  [Registry!Next]_(Registry!vars)
  <2>1. TypeOK /\ EntryWasVerified
    BY <1>2 DEF EntriesInv
  <2>2. ASSUME NEW f \in Flows, PickVoice(f)
        PROVE  [Registry!Next]_(Registry!vars)
    BY <2>1, <2>2, PickKeepsRegistry DEF Registry!Next
  <2>3. ASSUME NEW e \in EntryIds, ChangeVoice(e) \/ Remove(e)
        PROVE  [Registry!Next]_(Registry!vars)
    BY <2>1, <2>3, MoveKeepsRegistry, RemoveKeepsRegistry DEF Registry!Next
  <2>4. \/ \E f \in Flows : PickVoice(f)
        \/ \E e \in EntryIds : ChangeVoice(e) \/ Remove(e)
        \/ /\ UNCHANGED entries
           /\ UNCHANGED accepted \/ \E f \in Flows : KeyAccepted(f)
    BY <1>2
    DEF Next, FlowStep, Verifies, Start, SubmitKey, KeyAccepted, KeyRejected, KeyTimesOut,
        KeyUnanswered, CatalogLoaded, CatalogFails, GiveUp, Shown, Revoke, vars
  <2> QED
    BY <2>1, <2>2, <2>3, <2>4, OthersKeepRegistry
<1> QED
  BY <1>1, <1>2, EntriesInvariance, PTL DEF Spec, RegistrySpec, Registry!Spec
=============================================================================
