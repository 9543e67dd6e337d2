----------------------------- MODULE FirstFrame -----------------------------
(***************************************************************************)
(* scripts/measure_first_frame.py: runs of the socket one after another,   *)
(* each with a sender task of its own next to the loop that receives; the  *)
(* batch endpoint for comparison; then the socket is dropped mid turn and  *)
(* batch has to finish the job.  What was found is written to one file at  *)
(* the very end.  Code between two awaits is one action.                   *)
(*                                                                         *)
(* External: the server, which speaks only what it was sent, and may send  *)
(* SpeechMetadata, close or fail at any point.                             *)
(***************************************************************************)
EXTENDS Naturals, Sequences

CONSTANTS
  Runs,       (* --runs, a natural number                                  *)
  Chunks      (* how many chunks TOKEN_CHUNKS is cut into, a natural number *)

VARIABLES
  pc,         (* where the script is suspended                             *)
  timings,    (* the Timings of the run under way: which fields are set    *)
  runs,       (* the Timings of the runs that are over                     *)
  spc,        (* the run's sender: none, sending, failed, done, cancelled  *)
  sent,       (* how many chunks this run has sent, one more for the Flush *)
  batch,      (* the comparison's status, "none" before                    *)
  drop,       (* what drop_mid_turn has found so far                       *)
  written,    (* the file is in OUT_DIR                                    *)
  exit        (* "running", then "success", "failure" or "traceback"       *)

run  == <<timings, spc, sent>>
vars == <<pc, run, runs, batch, drop, written, exit>>

Unmeasured == [connect |-> FALSE, first_frame |-> FALSE, metadata |-> FALSE, error |-> FALSE]
Undropped  == [bytes |-> FALSE, error |-> FALSE, status |-> "none"]
Statuses   == {"200", "refused"}

Init ==
  /\ pc = "next" /\ timings = Unmeasured /\ runs = <<>>
  /\ spc = "none" /\ sent = 0
  /\ batch = "none" /\ drop = Undropped /\ written = FALSE /\ exit = "running"

-----------------------------------------------------------------------------
(* One run *)

\* Nothing around a run catches what it raises.
Crash == pc' = "end" /\ exit' = "traceback"

\* The run returns, with error set or not.
Returned(t) ==
  /\ pc' = "next" /\ runs' = Append(runs, t)

\* ws_connect.
OpenSocket ==
  /\ pc = "next" /\ Len(runs) < Runs
  /\ timings' = Unmeasured /\ spc' = "none" /\ sent' = 0
  /\ \/ pc' = "connect" /\ UNCHANGED exit
     \/ Crash
  /\ UNCHANGED <<runs, batch, drop, written>>

\* Connected, behind whatever other text came first: an Error is passed over
\* here.  The sender is created right behind it.
Connected ==
  /\ pc = "connect"
  /\ pc' = "receive" /\ timings' = [timings EXCEPT !.connect = TRUE]
  /\ spc' = "sending"
  /\ UNCHANGED <<sent, runs, batch, drop, written, exit>>

ClosedEarly ==
  /\ pc = "connect"
  /\ timings' = [timings EXCEPT !.error = TRUE]
  /\ Returned(timings')
  /\ UNCHANGED <<spc, sent, batch, drop, written, exit>>

\* A text frame that is not JSON, or is JSON but not an object.  While the run
\* receives, the sender is stopped on the way out.
Unreadable ==
  /\ pc \in {"connect", "receive"}
  /\ Crash
  /\ spc' = IF spc = "sending" THEN "cancelled" ELSE spc
  /\ UNCHANGED <<timings, sent, runs, batch, drop, written>>

\* send_json of the next chunk, or of the Flush behind the last.
Send ==
  /\ pc = "receive" /\ spc = "sending"
  /\ sent' = sent + 1
  /\ spc' = IF sent = Chunks THEN "done" ELSE spc
  /\ UNCHANGED <<pc, timings, runs, batch, drop, written, exit>>

\* The socket is closing.
SendFails ==
  /\ pc = "receive" /\ spc = "sending"
  /\ spc' = "failed"
  /\ UNCHANGED <<pc, timings, sent, runs, batch, drop, written, exit>>

ReceiveAudio ==
  /\ pc = "receive" /\ sent > 0 /\ Chunks > 0
  /\ timings' = [timings EXCEPT !.first_frame = TRUE]
  /\ UNCHANGED <<pc, spc, sent, runs, batch, drop, written, exit>>

\* The loop is left: the sender, cancelled if it is not done, is waited for,
\* and what it raised is dropped.
Leave_WithoutCancelling(t) ==       \* mutant: the finally is gone
  /\ Returned(t) /\ timings' = t /\ UNCHANGED <<spc, sent>>

Leave(t) ==
  /\ pc' = "gather" /\ timings' = t
  /\ UNCHANGED <<spc, sent, runs>>

ReceiveMetadata ==
  /\ pc = "receive"
  /\ Leave([timings EXCEPT !.metadata = TRUE])
  /\ UNCHANGED <<batch, drop, written, exit>>

\* An Error message, or the end of the socket.
Ended_Unnoticed(t) == t             \* mutant: a break, and no error recorded

Ended(t) == [t EXCEPT !.error = TRUE]

ReceiveFails ==
  /\ pc = "receive"
  /\ Leave(Ended(timings))
  /\ UNCHANGED <<batch, drop, written, exit>>

Gathered ==
  /\ pc = "gather"
  /\ spc' = IF spc = "sending" THEN "cancelled" ELSE spc
  /\ Returned(timings)
  /\ UNCHANGED <<timings, sent, batch, drop, written, exit>>

-----------------------------------------------------------------------------
(* Batch, and the drop *)

\* One POST, for which any status will do; it may raise.
BatchFallback ==
  /\ pc = "next" /\ Len(runs) = Runs
  /\ \/ batch' \in Statuses /\ pc' = "drop" /\ UNCHANGED exit
     \/ Crash /\ UNCHANGED batch
  /\ UNCHANGED <<run, runs, drop, written>>

\* drop_mid_turn.  Whatever the socket raises is recorded, and goes on: before
\* a frame of audio, without one, or when it is closed behind the first.
DropMidTurn ==
  /\ pc = "drop" /\ pc' = "fallback"
  /\ \E bytes, error \in BOOLEAN : drop' = [drop EXCEPT !.bytes = bytes, !.error = error]
  /\ UNCHANGED <<run, runs, batch, written, exit>>

FinishTheJob ==
  /\ pc = "fallback"
  /\ \/ \E s \in Statuses : drop' = [drop EXCEPT !.status = s] /\ pc' = "report" /\ UNCHANGED exit
     \/ Crash /\ UNCHANGED drop
  /\ UNCHANGED <<run, runs, batch, written>>

-----------------------------------------------------------------------------
(* The report *)

\* degraded_cleanly
DegradedCleanly == drop.status = "200"

Good == {i \in DOMAIN runs : ~runs[i].error}

ExitStatus == IF Good # {} /\ DegradedCleanly THEN "success" ELSE "failure"

Report ==
  /\ pc = "report"
  /\ pc' = "end" /\ written' = TRUE /\ exit' = ExitStatus
  /\ UNCHANGED <<run, runs, batch, drop>>

Next == \/ OpenSocket \/ Connected \/ ClosedEarly \/ Unreadable
        \/ Send \/ SendFails
        \/ ReceiveAudio \/ ReceiveMetadata \/ ReceiveFails \/ Gathered
        \/ BatchFallback \/ DropMidTurn \/ FinishTheJob \/ Report

Spec == Init /\ [][Next]_vars

-----------------------------------------------------------------------------
(* Properties *)

\* A run that counts as clean was connected, and the server had said that it
\* was spoken: neither an Error nor the end of the socket passes for that.
CleanRunWasSpoken ==
  \A i \in Good : runs[i].connect /\ runs[i].metadata

\* Each run is measured alone: the sender of an earlier one is not sending any
\* more when the next socket is opened, or batch is timed.
RunsAreMeasuredAlone == pc \notin {"receive", "gather"} => spc # "sending"

\* measure_first_frame.py:195: "Kill the socket after the first audio frame and
\* confirm batch can finish the job".
DegradedBehindADrop == DegradedCleanly => drop.bytes

\* measure_first_frame.py:10: "so the answer lands in a file instead of a memory".
AnswerLandsInAFile == pc = "end" /\ Good # {} => written
=============================================================================
