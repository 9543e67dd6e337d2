----------------------------- MODULE LiveScripts -----------------------------
(***************************************************************************)
(* The two scripts that speak to the live socket, of which an operator     *)
(* runs one: live_stream_check.py, or measure_first_frame.py.  They share  *)
(* the directory they write to, under names of their own, and nothing else.*)
(***************************************************************************)
EXTENDS LiveStreamCheck

CONSTANTS
  Runs,       (* --runs of measure_first_frame.py                          *)
  Chunks      (* its TOKEN_CHUNKS                                          *)

ASSUME FirstFrameAssumption == Runs \in Nat /\ Chunks \in Nat

VARIABLES
  script,     (* "live_stream_check" or "measure_first_frame"              *)
  fpc, ftimings, fruns, fspc, fsent, fbatch, fdrop, fwritten, fexit

First == INSTANCE FirstFrame WITH
  pc <- fpc, timings <- ftimings, runs <- fruns, spc <- fspc, sent <- fsent,
  batch <- fbatch, drop <- fdrop, written <- fwritten, exit <- fexit

firstVars == <<fpc, ftimings, fruns, fspc, fsent, fbatch, fdrop, fwritten, fexit>>

EitherInit ==
  /\ script \in {"live_stream_check", "measure_first_frame"}
  /\ Init /\ (script = "measure_first_frame" => left = 0)
  /\ First!Init

EitherNext ==
  \/ script = "live_stream_check" /\ Next /\ UNCHANGED <<script, firstVars>>
  \/ script = "measure_first_frame" /\ First!Next /\ UNCHANGED <<script, vars>>

EitherSpec == EitherInit /\ [][EitherNext]_<<script, vars, firstVars>>

-----------------------------------------------------------------------------
(* The properties of FirstFrame *)

\* A run of measure_first_frame.py that counts as clean was connected and
\* reported as spoken.
CleanRunWasSpoken == First!CleanRunWasSpoken

\* No sender of an earlier run is at work beside the one being timed.
RunsAreMeasuredAlone == First!RunsAreMeasuredAlone

\* measure_first_frame.py:195: "Kill the socket after the first audio frame and
\* confirm batch can finish the job".
DegradedBehindADrop == First!DegradedBehindADrop

\* measure_first_frame.py:10: "so the answer lands in a file instead of a memory".
AnswerLandsInAFile == First!AnswerLandsInAFile
=============================================================================
