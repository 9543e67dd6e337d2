---------------------------- MODULE EntryContract ----------------------------
(***************************************************************************)
(* What one config entry promises, told without setup, catalogs, forms or  *)
(* reloads: options are saved at any time, and the voice that is heard is  *)
(* always one that was saved, exactly as saved.  A voice that speaks is    *)
(* never changed under a listener: it falls silent first, and what speaks  *)
(* next is what was saved last.                                            *)
(***************************************************************************)
CONSTANTS
  Options,  (* what may be saved: a voice and, for a Flux voice, a speed   *)
  Silent    (* nothing is there to speak                                   *)

VARIABLES
  options,  (* what was saved last                                         *)
  speaker   (* what speaks now, or Silent                                  *)

vars == <<options, speaker>>

Init == options \in Options /\ speaker = Silent

Save == options' \in Options /\ UNCHANGED speaker

Start == speaker = Silent /\ speaker' = options /\ UNCHANGED options

Stop == speaker' = Silent /\ UNCHANGED options

Next == Save \/ Start \/ Stop

Spec == Init /\ [][Next]_vars
=============================================================================
