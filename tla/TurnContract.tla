---------------------------- MODULE TurnContract ----------------------------
(***************************************************************************)
(* What async_stream_tts_audio promises to Home Assistant about one turn,  *)
(* told only in terms of what its caller sees: the pieces of audio the     *)
(* data generator has yielded, and how the generator ended.                *)
(*                                                                         *)
(* The extension "wav" is declared before anything is fetched, so the      *)
(* bytes of a turn are one WAV file: either a streaming header followed by *)
(* frames off the socket, or one clip from the batch endpoint, never both. *)
(* A connection that fails degrades: it raises only if no audio was heard, *)
(* and a socket that drops after audio just ends the turn.                 *)
(***************************************************************************)
EXTENDS Sequences

VARIABLES
  out,      (* what the caller has been given: "header", "frame", "clip"   *)
  outcome   (* "open" until the generator ends, then how it ended          *)

vars == <<out, outcome>>

Init == out = <<>> /\ outcome = "open"

\* The header goes out once there is a frame to follow it.
StartsSpeaking ==
  /\ outcome = "open" /\ out = <<>>
  /\ out' = <<"header">>
  /\ UNCHANGED outcome

\* Behind it come frames and nothing else.
KeepsSpeaking ==
  /\ outcome = "open" /\ out # <<>>
  /\ out' = Append(out, "frame")
  /\ UNCHANGED outcome

\* The batch endpoint speaks the whole turn, alone, as one clip.
SpeaksAsOneClip ==
  /\ outcome = "open" /\ out = <<>>
  /\ out' = <<"clip">>
  /\ outcome' = "complete"

\* The generator ends, or its caller gives it up between two pieces. Only a
\* rejected key or a cancellation may surface behind audio; every other failure
\* is for a turn nobody has heard yet.  Only a caller that leaves is left with a
\* header and nothing behind it.
Ends ==
  /\ outcome = "open"
  /\ out = <<"header">> => outcome' = "abandoned"
  /\ \/ outcome' \in {"complete", "auth", "cancelled"}
     \/ outcome' \in {"early", "abandoned"} /\ out # <<>>
     \/ outcome' \in {"silent", "no_voice", "conn", "request", "source"} /\ out = <<>>
  /\ UNCHANGED out

Next == StartsSpeaking \/ KeepsSpeaking \/ SpeaksAsOneClip \/ Ends

Spec == Init /\ [][Next]_vars
=============================================================================
