---------------------------- MODULE EntryRegistry ----------------------------
(***************************************************************************)
(* What adding voices promises, told without flows, forms or answers.  An  *)
(* entry is added with the voice it is to speak with as its unique id, if  *)
(* no entry has that one, and with a key that has been found good; it may  *)
(* be moved to another voice, which changes neither, and removed.          *)
(***************************************************************************)
CONSTANTS
  Ids,      (* what tells entries apart                                    *)
  Voices,   (* voice ids                                                   *)
  Keys      (* API keys                                                    *)

VARIABLES
  trusted,  (* the keys found good                                         *)
  entries   (* the entries: [id, unique_id, key, voice]                    *)

vars == <<trusted, entries>>

Init == trusted = {} /\ entries = {}

Trust == \E key \in Keys : trusted' = trusted \cup {key} /\ UNCHANGED entries

Add ==
  \E id \in Ids, voice \in Voices, key \in trusted :
    /\ \A x \in entries : x.id # id /\ x.unique_id # voice
    /\ entries' = entries \cup
         {[id |-> id, unique_id |-> voice, key |-> key, voice |-> voice]}
    /\ UNCHANGED trusted

Move ==
  \E x \in entries, voice \in Voices :
    /\ entries' = (entries \ {x}) \cup {[x EXCEPT !.voice = voice]}
    /\ UNCHANGED trusted

Remove == \E x \in entries : entries' = entries \ {x} /\ UNCHANGED trusted

Next == Trust \/ Add \/ Move \/ Remove

Spec == Init /\ [][Next]_vars
=============================================================================
