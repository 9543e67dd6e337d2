-------------------------- MODULE MCEntryLifecycle --------------------------
(* Instances of EntryLifecycle for TLC, whose constants are all in the .cfg:
   one Flux and one Aura voice, two options forms that may be open at once.
   With three saves a reload can overtake a save and be overtaken by one;
   with two upsets a restart or a reload by hand can meet each of them, and
   an entry can be disabled and enabled again.                              *)
EXTENDS EntryLifecycle
=============================================================================
