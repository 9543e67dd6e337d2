----------------------------- MODULE Deployment -----------------------------
(***************************************************************************)
(* scripts/deploy.sh: the integration is copied file by file to where a    *)
(* Home Assistant imports it from, which is then asked to restart.  Under  *)
(* set -e any command that fails ends the script where it is.              *)
(*                                                                         *)
(* External: rsync, which transfers and deletes in an order of its own and *)
(* may stop half way, and Home Assistant, which imports whatever it finds  *)
(* when it starts, on request or by itself.                                *)
(***************************************************************************)
EXTENDS Naturals, FiniteSets

CONSTANTS
  Files,      (* the files of the version that is deployed                 *)
  Stale,      (* the files only the version before it had                  *)
  Others      (* the files of other integrations, in directories beside it *)

ASSUME DeploymentAssumption ==
  Files \cap Stale = {} /\ Others \cap (Files \cup Stale) = {}

VARIABLES
  settings,   (* the HA_DEPLOY_ variables, and the commands on the machine *)
  pc,         (* "validate", "dry_run", "mkdir", "copy", "post" or "end"   *)
  exit,       (* "running", then "success" or "failure"                    *)
  listed,     (* what the listing of a dry run says would be deleted       *)
  disk,       (* external: the version of each file at the destination     *)
  imported,   (* external: the version Home Assistant is running           *)
  pending     (* external: a restart was requested and has not happened    *)

script == <<pc, exit, listed>>
vars   == <<settings, script, disk, imported, pending>>

AllFiles == Files \cup Stale \cup Others
Absent   == [f \in AllFiles |-> IF f \in Others THEN "old" ELSE "absent"]
OldOne   == [f \in AllFiles |-> "old"]

\* An empty transport or entry stands for an unset variable.
Settings ==
  [transport : {"rsync", "local", "unset"}, rsync : BOOLEAN, curl : BOOLEAN,
   token : BOOLEAN, url : BOOLEAN, mode : {"restart", "reload", "none"},
   entry : BOOLEAN, delete : BOOLEAN, dry_run : BOOLEAN]

Init ==
  /\ settings \in Settings
  /\ pc = "validate" /\ exit = "running" /\ listed = {}
  /\ disk \in {Absent, OldOne} /\ imported = disk /\ pending = FALSE

Exits(how) == pc' = "end" /\ exit' = how
Goes(where) == pc' = where /\ UNCHANGED exit

-----------------------------------------------------------------------------
(* Validate *)

Valid ==
  /\ settings.transport # "unset"
  /\ settings.mode = "reload" /\ settings.token => settings.entry
  /\ settings.token => settings.url
  /\ settings.transport = "rsync" => settings.rsync
  /\ settings.delete /\ settings.transport = "local" => settings.rsync

Validate ==
  /\ pc = "validate"
  /\ \/ ~Valid /\ Exits("failure")
     \/ Valid /\ settings.dry_run /\ Goes("dry_run")
     \/ Valid /\ ~settings.dry_run /\ Goes("mkdir")
  /\ UNCHANGED <<settings, listed, disk, imported, pending>>

-----------------------------------------------------------------------------
(* Copy *)

OnDisk(files) == {f \in files : disk[f] # "absent"}

\* What --delete takes: what the directory that is copied has and the source
\* does not.  The source is named without a trailing slash, so that it is the
\* directory that is copied, into the one all integrations share.
Doomed_Beside == OnDisk(Stale \cup Others)   \* mutant: a trailing slash

Doomed == OnDisk(Stale)

\* The listing of a dry run.  Over ssh it is run with the arguments of the real
\* thing; locally it has a command line of its own.
Listing == IF settings.transport = "rsync" /\ settings.delete THEN Doomed ELSE {}

\* Over ssh a dry run that cannot read the destination is reported, and goes
\* on; a local rsync that fails ends the script.
DryRun ==
  /\ pc = "dry_run"
  /\ \/ listed' = Listing /\ Goes("post")
     \/ settings.transport = "rsync" /\ Goes("post") /\ UNCHANGED listed
     \/ settings.transport = "local" /\ settings.rsync /\ Exits("failure") /\ UNCHANGED listed
  /\ UNCHANGED <<settings, disk, imported, pending>>

MakeParent ==
  /\ pc = "mkdir"
  /\ Goes("copy") \/ Exits("failure")
  /\ UNCHANGED <<settings, listed, disk, imported, pending>>

CopyFile ==
  /\ pc = "copy"
  /\ \E f \in Files : disk[f] # "new" /\ disk' = [disk EXCEPT ![f] = "new"]
  /\ UNCHANGED <<settings, script, imported, pending>>

\* --delete is one of the arguments; the cp fallback was refused with it.
Deletes == settings.delete

DeleteFile ==
  /\ pc = "copy" /\ Deletes
  /\ \E f \in Doomed : disk' = [disk EXCEPT ![f] = "absent"]
  /\ UNCHANGED <<settings, script, imported, pending>>

CopyFails_Reported ==               \* mutant: || say, as in the dry run
  /\ pc = "copy"
  /\ Goes("post")
  /\ UNCHANGED <<settings, listed, disk, imported, pending>>

CopyFails ==
  /\ pc = "copy"
  /\ Exits("failure")
  /\ UNCHANGED <<settings, listed, disk, imported, pending>>

CopyDone ==
  /\ pc = "copy"
  /\ \A f \in Files : disk[f] = "new"
  /\ Deletes => Doomed = {}
  /\ Goes("post")
  /\ UNCHANGED <<settings, listed, disk, imported, pending>>

-----------------------------------------------------------------------------
(* Restart or reload *)

Posts_EvenDry == settings.token /\ settings.mode # "none"   \* mutant: no dry run

Posts == settings.token /\ settings.mode # "none" /\ ~settings.dry_run

NothingToPost ==
  /\ pc = "post" /\ ~Posts
  /\ Exits("success")
  /\ UNCHANGED <<settings, listed, disk, imported, pending>>

\* Only now is curl looked for.
NoCurl ==
  /\ pc = "post" /\ Posts /\ ~settings.curl
  /\ Exits("failure")
  /\ UNCHANGED <<settings, listed, disk, imported, pending>>

\* The service the POST calls restarts the process, or sets the entry up again
\* from the modules it has imported.
Restarts_NotByReload == FALSE       \* mutant: the two services are mixed up

Restarts == settings.mode = "restart"

\* A request that fails may have arrived.
Post ==
  /\ pc = "post" /\ Posts /\ settings.curl
  /\ \/ Exits("success") /\ pending' = (pending \/ Restarts)
     \/ Exits("failure") /\ pending' \in {pending, pending \/ Restarts}
  /\ UNCHANGED <<settings, listed, disk, imported>>

\* Home Assistant starts, asked to or not.
HAStarts ==
  /\ imported' = disk /\ pending' = FALSE
  /\ UNCHANGED <<settings, script, disk>>

Copy == MakeParent \/ CopyFile \/ DeleteFile \/ CopyFails \/ CopyDone

Script == Validate \/ DryRun \/ Copy \/ NothingToPost \/ NoCurl \/ Post

Next == Script \/ HAStarts

Spec == Init /\ [][Next]_vars

\* Home Assistant does restart when it has been asked to.
FairSpec == Spec /\ WF_vars(pending /\ HAStarts)

-----------------------------------------------------------------------------
(* Properties *)

\* Whenever deploy has a restart under way, and whenever it reports success,
\* the integration on disk is the new one, whole: a copy that stopped half way
\* is neither started nor called a success.
RestartFindsItWhole ==
  pending \/ (exit = "success" /\ ~settings.dry_run) =>
    /\ \A f \in Files : disk[f] = "new"
    /\ settings.delete => OnDisk(Stale) = {}

\* From the moment a deploy that restarts reports success, the new code is
\* running or the restart that will import it is still to come.
NewCodeRunsOrIsDue ==
  exit = "success" /\ Posts /\ settings.mode = "restart" =>
    pending \/ \A f \in Files : imported[f] = "new"

\* Whatever Home Assistant had imported by then, a start in the middle of the
\* copy included, a deploy that reports a restart ends with the new code running.
RestartRunsTheNewCode ==
  exit = "success" /\ Posts /\ settings.mode = "restart" ~>
    \A f \in Files : imported[f] = "new"

\* docs/deploying.html:415: "It never deletes on the destination by default",
\* and with the switch only what the source does not have, in the integration's
\* own directory and in no other beside it (deploy.sh:211); and a dry run leaves
\* the destination as it is and Home Assistant alone.
TouchesOnlyWhatItMay ==
  [][/\ \A f \in AllFiles :
          disk[f] # "absent" /\ disk'[f] = "absent" => settings.delete /\ f \in Stale
     /\ settings.dry_run => disk' = disk /\ ~pending']_vars

\* deploy.sh:61: HA_DEPLOY_ALLOW_DELETE=1 passes --delete to rsync, so a dry
\* run that could read the destination lists what would be deleted.
DryRunListsDeletions ==
  exit = "success" /\ settings.dry_run /\ settings.delete
      /\ settings.transport = "local" =>
    listed = OnDisk(Stale)
=============================================================================
