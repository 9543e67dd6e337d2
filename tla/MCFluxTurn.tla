----------------------------- MODULE MCFluxTurn -----------------------------
(* Instances of FluxTurn for TLC.  In a message of up to four chunks the
   first and the third are empty strings, as a streaming model sends them: a
   blank chunk comes first, between two spoken ones, last, or is all there is. *)
EXTENDS FluxTurnInvariant

OddOnesBlank == {1, 3}
NoneIsBlank  == {}
=============================================================================
