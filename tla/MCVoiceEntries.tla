--------------------------- MODULE MCVoiceEntries ---------------------------
(* Instances of VoiceEntries for TLC: two keys, two flows, two entries, a Flux
   and an Aura voice that share a name, and catalogs that list one or both.  *)
EXTENDS VoiceEntries

CONSTANTS haley, asteria

SameName == [v \in Models |-> "Asteria"]
OneOrBoth == {{haley}, {haley, asteria}}
=============================================================================
