---------------------------- MODULE MCDeployment ----------------------------
(* A version of two files over one that had a third: a copy can stop with one
   of the two new, and leave the third behind.  Another integration beside it. *)
EXTENDS Deployment

MCFiles == {"__init__", "tts"}
MCStale == {"cloud"}
MCOthers == {"hacs"}
=============================================================================
