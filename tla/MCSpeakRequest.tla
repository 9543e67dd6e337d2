--------------------------- MODULE MCSpeakRequest ---------------------------
(* Instances of SpeakRequest for TLC, whose constants are all in the .cfg: a
   voice of each family, a speed on the grid and one off it, one sample rate.
   Every combination of what a call can ask for and how it can end is met.  *)
EXTENDS SpeakRequest
=============================================================================
