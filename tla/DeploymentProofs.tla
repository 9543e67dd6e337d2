-------------------------- MODULE DeploymentProofs --------------------------
(* What a deploy leaves behind, for a version of any files over any other. *)
EXTENDS Deployment, TLAPS

TypeInv ==
  /\ settings \in Settings
  /\ pc \in {"validate", "dry_run", "mkdir", "copy", "post", "end"}
  /\ disk \in [AllFiles -> {"absent", "old", "new"}]
  /\ pending \in BOOLEAN

\* Is the new version on disk, as deploy was told to leave it?
Whole ==
  /\ \A f \in Files : disk[f] = "new"
  /\ settings.delete => OnDisk(Stale) = {}

\* A dry run never gets to the copy, and a copy gets no further unless it was
\* whole; nothing touches it from there on.
CopyInv ==
  /\ settings.dry_run => pc \notin {"mkdir", "copy"} /\ ~pending
  /\ ~settings.dry_run => pc # "dry_run"
  /\ ~settings.dry_run /\ pc = "post" => Whole
  /\ exit = "success" => pc = "end"
  /\ exit = "success" /\ ~settings.dry_run => Whole
  /\ pending => pc = "end" /\ Whole
  /\ NewCodeRunsOrIsDue

DInv == TypeInv /\ CopyInv

LEMMA TypeInit == Init => TypeInv
BY DEF Init, TypeInv, Absent, OldOne

LEMMA TypeStep ==
  ASSUME TypeInv, [Next]_vars
  PROVE  TypeInv'
<1> USE DEF TypeInv, Goes, Exits, vars, script
<1>1. CASE Validate  BY <1>1 DEF Validate
<1>2. CASE DryRun  BY <1>2 DEF DryRun
<1>3. CASE MakeParent  BY <1>3 DEF MakeParent
<1>4. CASE CopyFile  BY <1>4 DEF CopyFile
<1>5. CASE DeleteFile  BY <1>5 DEF DeleteFile, Doomed, OnDisk
<1>6. CASE CopyFails  BY <1>6 DEF CopyFails
<1>7. CASE CopyDone  BY <1>7 DEF CopyDone
<1>8. CASE NothingToPost  BY <1>8 DEF NothingToPost
<1>9. CASE NoCurl  BY <1>9 DEF NoCurl
<1>10. CASE Post  BY <1>10 DEF Post, Restarts
<1>11. CASE HAStarts  BY <1>11 DEF HAStarts
<1>12. CASE UNCHANGED vars  BY <1>12
<1> QED
  BY <1>1, <1>2, <1>3, <1>4, <1>5, <1>6, <1>7, <1>8, <1>9, <1>10, <1>11, <1>12
     DEF Next, Script, Copy

\* The disk is written by the copy alone, and the copy is left by one step.
LEMMA CopyStep ==
  ASSUME TypeInv, CopyInv, [Next]_vars
  PROVE  CopyInv'
<1> USE DEF TypeInv, CopyInv, Whole, OnDisk, Doomed, NewCodeRunsOrIsDue, Posts, Goes, Exits, vars, script
<1>1. CASE Validate  BY <1>1 DEF Validate
<1>2. CASE DryRun  BY <1>2 DEF DryRun
<1>3. CASE MakeParent  BY <1>3 DEF MakeParent
<1>4. CASE CopyFile  BY <1>4 DEF CopyFile
<1>5. CASE DeleteFile  BY <1>5 DEF DeleteFile
<1>6. CASE CopyFails  BY <1>6 DEF CopyFails
<1>7. CASE CopyDone  BY <1>7 DEF CopyDone, Deletes
<1>8. CASE NothingToPost  BY <1>8 DEF NothingToPost
<1>9. CASE NoCurl  BY <1>9 DEF NoCurl
<1>10. CASE Post  BY <1>10 DEF Post, Restarts
<1>11. CASE HAStarts  BY <1>11 DEF HAStarts
<1>12. CASE UNCHANGED vars  BY <1>12
<1> QED
  BY <1>1, <1>2, <1>3, <1>4, <1>5, <1>6, <1>7, <1>8, <1>9, <1>10, <1>11, <1>12
     DEF Next, Script, Copy

\* DInv holds throughout every deploy.
THEOREM DeployInvariance == Spec => []DInv
<1>1. Init => CopyInv
  BY DEF Init, CopyInv, NewCodeRunsOrIsDue
<1>2. DInv /\ [Next]_vars => DInv'
  BY TypeStep, CopyStep DEF DInv
<1> QED
  BY TypeInit, <1>1, <1>2, PTL DEF Spec, DInv

\* A restart deploy has asked for finds the new version whole, and so does
\* whoever reads that the deploy succeeded.
THEOREM RestartsFindItWhole == Spec => []RestartFindsItWhole
<1>1. DInv => RestartFindsItWhole
  BY DEF DInv, CopyInv, Whole, RestartFindsItWhole
<1> QED
  BY DeployInvariance, <1>1, PTL

\* The safety half of RestartRunsTheNewCode (deploy.sh:287): a success is never
\* reported of old code that no restart is going to replace, whatever Home
\* Assistant had imported by then.
THEOREM SuccessRunsTheNewCode == Spec => []NewCodeRunsOrIsDue
<1>1. DInv => NewCodeRunsOrIsDue
  BY DEF DInv, CopyInv
<1> QED
  BY DeployInvariance, <1>1, PTL

\* A file disappears from the destination only under the switch, and only if it
\* is the integration's and the source does not have it, so that none beside it
\* does; a dry run is read-only.
THEOREM DeployTouchesOnlyWhatItMay == Spec => TouchesOnlyWhatItMay
<1> DEFINE Kept == \A f \in AllFiles :
             disk[f] # "absent" /\ disk'[f] = "absent" => settings.delete /\ f \in Stale
           Alone == settings.dry_run => disk' = disk /\ ~pending'
<1>1. TypeInv /\ [Next]_vars => [Kept]_vars
  <2> SUFFICES ASSUME TypeInv, [Next]_vars PROVE Kept
    OBVIOUS
  <2>1. CASE UNCHANGED disk  BY <2>1
  <2>2. CASE CopyFile  BY <2>2 DEF CopyFile, TypeInv
  <2>3. CASE DeleteFile  BY <2>3 DEF DeleteFile, TypeInv, Deletes, Doomed, OnDisk
  <2>4. UNCHANGED disk \/ CopyFile \/ DeleteFile
    BY DEF Next, Script, Copy, Validate, DryRun, MakeParent, CopyFails, CopyDone,
           NothingToPost, NoCurl, Post, HAStarts, vars
  <2> QED
    BY <2>1, <2>2, <2>3, <2>4
<1>2. DInv /\ [Next]_vars => [Alone]_vars
  <2> SUFFICES ASSUME DInv, [Next]_vars, settings.dry_run PROVE disk' = disk /\ ~pending'
    OBVIOUS
  <2>1. ~pending'
    <3>1. CopyInv' /\ settings' = settings
      BY CopyStep DEF DInv, Next, Script, Copy, Validate, DryRun, MakeParent, CopyFile,
         DeleteFile, CopyFails, CopyDone, NothingToPost, NoCurl, Post, HAStarts, vars
    <3> QED
      BY <3>1 DEF CopyInv
  <2>2. pc # "copy"
    BY DEF DInv, CopyInv
  <2>3. disk' = disk
    BY <2>2 DEF Next, Script, Copy, Validate, DryRun, MakeParent, CopyFile, DeleteFile,
       CopyFails, CopyDone, NothingToPost, NoCurl, Post, HAStarts, vars
  <2> QED
    BY <2>1, <2>3
<1>3. DInv /\ [Next]_vars => [Kept /\ Alone]_vars
  BY <1>1, <1>2 DEF DInv
<1> QED
  BY DeployInvariance, <1>3, PTL DEF Spec, TouchesOnlyWhatItMay
=============================================================================
