------------------------- MODULE FluxTurnInvariant -------------------------
(***************************************************************************)
(* The inductive invariant behind the theorems of FluxTurnProofs: what is  *)
(* true of a turn at each await of its two tasks.  TLC checks it on the    *)
(* small instance, TLAPS proves that every step keeps it.                  *)
(***************************************************************************)
EXTENDS FluxTurn

\* Where there is no sender yet, where it is left to itself, and where there
\* is none running any more.
BeforeSender == {"start", "connect", "handshake"}
Speaking     == {"receive", "yield_header", "yield", "orphan"}
AfterSender  == {"close", "drain", "post", "end"}

\* The life of the sender against the consumer's.  It exists from Connected
\* on, runs uncancelled while the consumer receives, is being cancelled while
\* the consumer waits for it, and is done when the consumer has moved on.
SenderInv ==
  /\ cpc \in BeforeSender => spc = "none" /\ ~scancel
  /\ cpc \in Speaking => ~scancel /\ spc # "none"
  /\ cpc = "finish" => scancel /\ spc \in Running \cup {"cancelled"}
  /\ cpc \in AfterSender => spc \notin Running

\* The generator has an outcome when it has ended, and one that was abandoned
\* has it on its way there.
OutcomeInv ==
  /\ cpc = "end" => outcome # "open"
  /\ outcome = "abandoned" => cpc \in {"orphan", "finish", "close", "end"}
  /\ outcome \notin {"open", "abandoned"} => cpc = "end"
  /\ cpc = "orphan" => outcome = "abandoned"

\* What the caller has heard.  The header stays back until the first frame
\* and is alone only at its own yield; a clip is all there is, at the very end.
AudioInv ==
  /\ audio_started =>
       /\ out # <<>> /\ out[1] = "header"
       /\ \A i \in 2..Len(out) : out[i] = "frame"
       /\ Len(out) = 1 => cpc = "yield_header" \/ outcome = "abandoned"
  /\ cpc = "yield_header" => Len(out) = 1
  /\ ~audio_started => out = <<>> \/ (out = <<"clip">> /\ cpc = "end")
  /\ cpc = "receive" => (header <=> ~audio_started)
  /\ cpc \in {"yield_header", "yield", "orphan"} => audio_started /\ ~header
  /\ cpc \in BeforeSender \cup {"drain", "post"} => ~audio_started

\* Who has read how much of message_gen.  Up to the fallback the copy _tee
\* keeps is all that was read; from there on it is the text being joined.
TextInv ==
  /\ cpc \in BeforeSender => taken = 0
  /\ cpc \notin {"drain", "post", "end"} => consumed = Chunks(taken)
  /\ cpc \in BeforeSender \cup Speaking \cup {"finish", "close"} => parts = Chunks(0)
  /\ cpc \in {"drain", "post"} \/ outcome = "silent" => parts = Chunks(taken)
  /\ source = "done" => taken = len
  /\ cpc = "post" \/ outcome = "silent" => source # "open"

\* What the socket has been told.
SpeechInv ==
  /\ \A i \in DOMAIN spoken : spoken[i] \in 1..taken
  /\ \A i, j \in DOMAIN spoken : i < j => spoken[i] < spoken[j]
  /\ spc \in Running =>
       \A c \in (1..taken) \ BlankChunks : \E i \in DOMAIN spoken : spoken[i] = c
  /\ flushed => spc \in {"flush", "done", "failed", "cancelled"}
  /\ flushed => \A c \in (1..len) \ BlankChunks : \E i \in DOMAIN spoken : spoken[i] = c

\* Where a key that the server has rejected can lead.
RejectionInv ==
  /\ cpc \in BeforeSender => rejected = "no"
  /\ rejected = "handshake" =>
       \/ cpc = "close" /\ outcome = "open" /\ exc \in {"auth", "cancelled"}
       \/ cpc = "end" /\ outcome \in {"auth", "cancelled"}
  /\ rejected = "mid_turn" =>
       \/ spc = "failed" /\ cpc \in AfterSender
       \/ cpc \in {"finish", "close"} /\ outcome = "open" /\ exc = "auth"
       \/ cpc = "end" /\ outcome \in {"auth", "cancelled"}

\* What is on its way up while the stack unwinds, and that a failed sender has
\* spoiled a clean end.
UnwindInv ==
  /\ exc # "none" => cpc \in {"finish", "close"}
  /\ exc = "closed" => outcome = "abandoned"
  /\ exc = "cancelled" => outcome = "open"
  /\ cpc = "close" /\ exc = "none" => spc # "failed"
  /\ outcome = "complete" => out = <<"clip">> \/ spc # "failed"

\* Who may have cut message_gen, and what is then said of an empty turn.
CutInv ==
  /\ source = "cut" => SourceFaults # {} \/ spc = "cancelled" \/ outcome = "cancelled"
  /\ outcome = "silent" => ~Audible(parts)

\* A turn on its way to a clean end, for a server that ends a turn only when
\* it has been flushed.
CleanEndInv ==
  /\ cpc = "finish" /\ exc = "none" => flushed
  /\ cpc = "close" /\ exc = "none" => flushed /\ spc \in {"done", "cancelled"}
  /\ outcome = "complete" =>
       out = <<"clip">> \/ (flushed /\ spc \in {"done", "cancelled"})

IInv ==
  /\ TypeOK /\ SenderInv /\ OutcomeInv /\ AudioInv /\ TextInv /\ SpeechInv
  /\ RejectionInv /\ UnwindInv /\ CutInv
  /\ ~EarlyMetadata => CleanEndInv
=============================================================================
