--------------------------- MODULE LiveStreamCheck ---------------------------
(***************************************************************************)
(* scripts/live_stream_check.py: turns of speech through the integration's *)
(* own FluxSocket, to settle at which rate the socket emits audio, whether *)
(* a turn that is abandoned is closed, and whether a rejected key is told  *)
(* apart; then one report of it all.                                       *)
(*                                                                         *)
(* External: the server, which emits every turn of one execution at one    *)
(* rate and reports its length, if it does, in milliseconds.               *)
(***************************************************************************)
EXTENDS SampleRate, Sequences

CONSTANTS
  Rates,      (* the rates the server may emit at                          *)
  Lengths,    (* the lengths of a turn, in milliseconds                    *)
  MaxRuns     (* bound on --runs                                           *)

ASSUME LiveAssumption ==
  /\ Rates \subseteq Nat \ {0}
  /\ Lengths \subseteq Nat \ {0}
  /\ MaxRuns \in Nat

VARIABLES
  pc,         (* "turns", "abandon", "key", "report" or "end"              *)
  left,       (* how many of the runs are still to come                    *)
  rows,       (* the successful runs                                       *)
  drop,       (* check_drop_mid_turn: its verdict, and how the turn stood  *)
  key,        (* check_expired_key: its verdict, and what the server did   *)
  verdict,    (* what was said of the rates: "none", "matches", "differs"  *)
  written,    (* the report is in OUT_DIR                                  *)
  exit,       (* "running", then "success", "failure" or "traceback"       *)
  emitted     (* external: the rate the server emits at                    *)

vars == <<pc, left, rows, drop, key, verdict, written, exit, emitted>>

Unasked == [verdict |-> "none", saw |-> "none"]

Init ==
  /\ pc = "turns" /\ left \in 0..MaxRuns /\ rows = <<>>
  /\ drop = Unasked /\ key = Unasked
  /\ verdict = "none" /\ written = FALSE /\ exit = "running"
  /\ emitted \in Rates

-----------------------------------------------------------------------------
(* One run *)

\* Bytes of ms milliseconds of audio, in whole samples.
AudioBytes(ms) ==
  ((emitted * ms) \div 1000) * WS_CHANNELS * (WS_BITS_PER_SAMPLE \div 8)

\* Python's round, of n / d: to the nearest, a half to the even neighbour.
Rounded(n, d) ==
  LET q == n \div d
      r == 2 * (n % d)
  IN  IF r > d \/ (r = d /\ q % 2 = 1) THEN q + 1 ELSE q

\* implied_sample_rate: None without a duration, or with one of nothing.
ImpliedRate_Snapped(bytes, duration) ==   \* mutant: rounded to a known rate
  IF duration \in {None, 0} THEN None
  ELSE LET implied == Rounded((WS_SAMPLE_RATE \div BytesPerMs) * bytes, duration)
       IN  IF InWindow_Wide(bytes, duration) THEN WS_SAMPLE_RATE ELSE implied

ImpliedRate(bytes, duration) ==
  IF duration \in {None, 0} THEN None
  ELSE Rounded((WS_SAMPLE_RATE \div BytesPerMs) * bytes, duration)

\* What one_turn returns of a turn of ms milliseconds.
Row(ms, duration) ==
  [audio_duration_ms |-> duration, audio_bytes |-> AudioBytes(ms),
   warning |-> CheckSampleRate(AudioBytes(ms), duration),
   implied |-> ImpliedRate(AudioBytes(ms), duration)]

RunOver ==
  /\ pc = "turns" /\ left > 0
  /\ left' = left - 1
  /\ \E ms \in Lengths : \E duration \in {ms, 0, None} :
       rows' = Append(rows, Row(ms, duration))
  /\ UNCHANGED <<pc, drop, key, verdict, written, exit, emitted>>

\* Whatever a run raises, it is printed and left out.
RunFails ==
  /\ pc = "turns" /\ left > 0
  /\ left' = left - 1
  /\ UNCHANGED <<pc, rows, drop, key, verdict, written, exit, emitted>>

RunsOver ==
  /\ pc = "turns" /\ left = 0
  /\ pc' = "abandon"
  /\ UNCHANGED <<left, rows, drop, key, verdict, written, exit, emitted>>

-----------------------------------------------------------------------------
(* The two checks behind the runs *)

\* The generator is given up at its third piece, the header being the first; a
\* turn of fewer pieces ends by itself.  It may raise before, and aclose may; or a
\* task that sends is found to be left behind it.
AbandonTurn ==
  /\ pc = "abandon" /\ pc' = "key"
  /\ drop' \in {[verdict |-> "PASS", saw |-> "abandoned"],
                [verdict |-> "PASS", saw |-> "ended"],
                [verdict |-> "FAIL", saw |-> "raised"],
                [verdict |-> "FAIL", saw |-> "leaked"]}
  /\ UNCHANGED <<left, rows, key, verdict, written, exit, emitted>>

\* A turn with a key of zeros: refused in the upgrade or by an Error that names
\* the key, refused by one that does not, dropped, or served.
KeyAnswers == {"refused", "refused_vaguely", "unreachable", "served"}

\* FluxSocket raises a DeepgramAuthError, a connection error or nothing.
KeyVerdict(answer) == IF answer = "refused" THEN "PASS" ELSE "FAIL"

TryExpiredKey ==
  /\ pc = "key" /\ pc' = "report"
  /\ \E answer \in KeyAnswers :
       key' = [verdict |-> KeyVerdict(answer), saw |-> answer]
  /\ UNCHANGED <<left, rows, drop, verdict, written, exit, emitted>>

-----------------------------------------------------------------------------
(* The report *)

ImpliedRates == {rows[i].implied : i \in DOMAIN rows}

\* sorted compares a None with a number, if there are both, and raises.
Unsortable == None \in ImpliedRates /\ ImpliedRates # {None}

NothingToReport ==
  /\ pc = "report" /\ rows = <<>>
  /\ pc' = "end" /\ exit' = "failure"
  /\ UNCHANGED <<left, rows, drop, key, verdict, written, emitted>>

ReportRaises ==
  /\ pc = "report" /\ Unsortable
  /\ pc' = "end" /\ exit' = "traceback"
  /\ UNCHANGED <<left, rows, drop, key, verdict, written, emitted>>

Report ==
  /\ pc = "report" /\ rows # <<>> /\ ~Unsortable
  /\ pc' = "end" /\ exit' = "success" /\ written' = TRUE
  /\ verdict' = IF ImpliedRates = {WS_SAMPLE_RATE} THEN "matches" ELSE "differs"
  /\ UNCHANGED <<left, rows, drop, key, emitted>>

Next == \/ RunOver \/ RunFails \/ RunsOver
        \/ AbandonTurn \/ TryExpiredKey
        \/ NothingToReport \/ ReportRaises \/ Report

Spec == Init /\ [][Next]_vars

-----------------------------------------------------------------------------
(* Properties *)

\* Does the row say how long the server thinks its turn was?
Timed(row) == row.audio_duration_ms \notin {None, 0}

\* stream.py:320: the window is tight enough for every rate a server might
\* plausibly emit: a turn whose length is known is warned of if, and only if,
\* the server's rate is not the one in the header.
WrongRateIsNoticed ==
  \A i \in DOMAIN rows :
    Timed(rows[i]) => (rows[i].warning = "wrong_rate" <=> emitted # WS_SAMPLE_RATE)

\* Whoever plays a turn that was not warned of at the speed its header gives is
\* done within a twentieth of the time the server says it takes.
QuietTurnPlaysOnTime ==
  \A i \in DOMAIN rows :
    Timed(rows[i]) /\ rows[i].warning = "none" =>
      LET played == rows[i].audio_bytes * 1000
          stated == rows[i].audio_duration_ms * TurnHeader.byte_rate
      IN  20 * played >= 19 * stated /\ 20 * played <= 21 * stated

\* "MATCHES the header": every run was checked, none was warned of, and the
\* server does emit at that rate.
MatchIsEarned ==
  verdict = "matches" =>
    emitted = WS_SAMPLE_RATE /\ \A i \in DOMAIN rows : rows[i].warning = "none"

\* live_stream_check.py:120: the implied rate "is in the report whether or not
\* the client's own check tripped".
RateIsInTheReport == pc = "end" /\ rows # <<>> => written

\* live_stream_check.py:163: the check is to "abandon the generator mid turn".
PassWasMidTurn == drop.verdict = "PASS" => drop.saw = "abandoned"
=============================================================================
