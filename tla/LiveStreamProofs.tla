-------------------------- MODULE LiveStreamProofs --------------------------
(***************************************************************************)
(* The check of the sample rate, for turns of every length, and the runs   *)
(* measure_first_frame.py times, for any number of them.                   *)
(***************************************************************************)
EXTENDS LiveScripts, TLAPS

\* The rates the window of _check_sample_rate can tell from the header's: it
\* reaches from 22800 to 25200, and a turn of a millisecond or two may round
\* another thousand away at its upper end.
NoRateNearby ==
  \A r \in Rates : r \in 1000..22799 \/ r = WS_SAMPLE_RATE \/ r >= 26200

\* A millisecond has at least one sample: no turn is without a byte of audio.
SamplesInEveryTurn == \A r \in Rates : r >= 1000

\* A row is what one_turn makes of a turn of some length, which the server
\* reports or leaves open.
IsRow(row) == \E ms \in Lengths : \E duration \in {ms, 0, None} : row = Row(ms, duration)

\* The rows are what the server's turns make them.
RowsInv ==
  /\ emitted \in Rates
  /\ rows \in Seq({Row(ms, duration) : ms \in Lengths, duration \in Lengths \cup {0, None}})
  /\ \A i \in DOMAIN rows : IsRow(rows[i])

LEMMA RowsInit == Init => RowsInv
BY DEF Init, RowsInv

LEMMA RowsStep == RowsInv /\ [Next]_vars => RowsInv'
<1> SUFFICES ASSUME RowsInv, [Next]_vars PROVE RowsInv'
  OBVIOUS
<1>1. emitted' = emitted
  BY DEF Next, RunOver, RunFails, RunsOver, AbandonTurn, TryExpiredKey,
         NothingToReport, ReportRaises, Report, vars
<1>2. \A ms, duration : Row(ms, duration)' = Row(ms, duration)
  BY <1>1 DEF Row, AudioBytes
<1>3. CASE RunOver
  <2>0. PICK ms \in Lengths :
          \E duration \in {ms, 0, None} : rows' = Append(rows, Row(ms, duration))
    BY <1>3 DEF RunOver
  <2>1. PICK duration \in {ms, 0, None} : rows' = Append(rows, Row(ms, duration))
    BY <2>0
  <2> DEFINE R == {Row(m, d) : m \in Lengths, d \in Lengths \cup {0, None}}
  <2>2. R' = R
    BY <1>2
  <2>3. Row(ms, duration) \in R /\ rows \in Seq(R)
    BY DEF RowsInv
  <2>4. \A i \in DOMAIN rows : IsRow(rows[i])
    BY DEF RowsInv
  <2>5. IsRow(Row(ms, duration))
    BY <2>1 DEF IsRow
  <2> DEFINE new == Row(ms, duration)
  <2> HIDE DEF R, new
  <2>6. rows' \in Seq(R) /\ \A i \in DOMAIN rows' : rows'[i] = new \/ (i \in DOMAIN rows /\ rows'[i] = rows[i])
    BY <2>1, <2>3 DEF new
  <2>7. \A i \in DOMAIN rows' : IsRow(rows'[i])
    BY <2>4, <2>5, <2>6 DEF new
  <2>8. \A row : IsRow(row)' <=> IsRow(row)
    BY <1>2 DEF IsRow
  <2> QED
    BY <1>1, <2>2, <2>6, <2>7, <1>2 DEF RowsInv, R, IsRow
<1>4. CASE rows' = rows
  BY <1>1, <1>2, <1>4 DEF RowsInv, IsRow
<1> QED
  BY <1>3, <1>4 DEF Next, RunFails, RunsOver, AbandonTurn, TryExpiredKey,
     NothingToReport, ReportRaises, Report, vars

THEOREM RowsInvariance == Spec => []RowsInv
BY RowsInit, RowsStep, PTL DEF Spec

\* The bytes of ms milliseconds at a rate, between the whole samples around it.
LEMMA BytesBounds ==
  ASSUME NEW r \in Nat, NEW ms \in Nat, r = emitted
  PROVE  /\ AudioBytes(ms) \in Nat
         /\ 1000 * AudioBytes(ms) <= 2 * (r * ms)
         /\ 1000 * AudioBytes(ms) > 2 * (r * ms) - 2000
BY DEF AudioBytes, WS_CHANNELS, WS_BITS_PER_SAMPLE

LEMMA ProductGrows ==
  ASSUME NEW a \in Int, NEW b \in Int, NEW n \in Nat, a <= b
  PROVE  a * n <= b * n
BY Z3

\* No turn is too short to have a sample.
LEMMA TurnsHaveBytes ==
  ASSUME LiveAssumption, SamplesInEveryTurn, NEW ms \in Lengths, emitted \in Rates
  PROVE  AudioBytes(ms) \in Nat /\ AudioBytes(ms) > 0
<1>1. ms \in Nat /\ ms >= 1 /\ emitted \in Nat /\ emitted >= 1000
  BY DEF LiveAssumption, SamplesInEveryTurn
<1>2. 1000 * ms <= emitted * ms /\ emitted * ms \in Nat
  BY <1>1, ProductGrows
<1>3. \A p \in Nat : p >= 1000 => p \div 1000 >= 1
  OBVIOUS
<1>4. (emitted * ms) \div 1000 >= 1
  BY <1>1, <1>2, <1>3
<1> QED
  BY <1>2, <1>4 DEF AudioBytes, WS_CHANNELS, WS_BITS_PER_SAMPLE

\* A turn as long as the server says is within the window if it comes at the
\* header's rate, and is not if it comes at one that can be told from it.
LEMMA WindowTellsRates ==
  ASSUME LiveAssumption, NoRateNearby, NEW ms \in Lengths, emitted \in Rates
  PROVE  /\ AudioBytes(ms) \in Nat /\ AudioBytes(ms) > 0
         /\ InWindow(AudioBytes(ms), ms) <=> emitted = WS_SAMPLE_RATE
<1> DEFINE bytes == AudioBytes(ms)
<1>1. ms \in Nat /\ ms >= 1 /\ emitted \in Nat
  BY DEF LiveAssumption
<1>2. bytes \in Nat /\ 1000 * bytes <= 2 * (emitted * ms) /\ 1000 * bytes > 2 * (emitted * ms) - 2000
  BY <1>1, BytesBounds
<1>3. bytes > 0
  <2>1. SamplesInEveryTurn
    <3> SUFFICES ASSUME NEW r \in Rates PROVE r >= 1000
      BY DEF SamplesInEveryTurn
    <3>1. r \in Nat /\ (r \in 1000..22799 \/ r = 24000 \/ r >= 26200)
      BY DEF LiveAssumption, NoRateNearby, WS_SAMPLE_RATE
    <3> QED
      BY <3>1
  <2> QED
    BY <2>1, TurnsHaveBytes
<1>4. InWindow(bytes, ms) <=> 100 * bytes >= 4560 * ms /\ 100 * bytes <= 5040 * ms
  BY <1>1, <1>2 DEF InWindow, BytesPerMs, WS_SAMPLE_RATE, WS_CHANNELS, WS_BITS_PER_SAMPLE
<1>5. CASE emitted = 24000
  <2>1. bytes = 48 * ms
    BY <1>1, <1>5 DEF AudioBytes, WS_CHANNELS, WS_BITS_PER_SAMPLE
  <2> QED
    BY <1>1, <1>4, <1>5, <2>1 DEF WS_SAMPLE_RATE
<1>6. CASE emitted \in 1000..22799
  <2>1. emitted * ms <= 22799 * ms /\ 1000 * ms <= emitted * ms
    BY <1>1, <1>6, ProductGrows
  <2>2. 100 * bytes < 4560 * ms
    BY <1>1, <1>2, <2>1
  <2>3. emitted # WS_SAMPLE_RATE
    BY <1>6 DEF WS_SAMPLE_RATE
  <2>4. ~InWindow(bytes, ms)
    BY <1>1, <1>2, <1>4, <2>2
  <2> QED
    BY <1>2, <1>3, <2>3, <2>4
<1>7. CASE emitted >= 26200
  <2>1. 26200 * ms <= emitted * ms
    BY <1>1, <1>7, ProductGrows
  <2> QED
    BY <1>1, <1>2, <1>4, <1>7, <2>1 DEF WS_SAMPLE_RATE
<1> QED
  BY <1>5, <1>6, <1>7 DEF NoRateNearby, WS_SAMPLE_RATE

\* Whatever the lengths of its turns, a server that emits at a rate other than
\* the header's is noticed in every turn it reports the length of, and one that
\* emits at the header's rate is never suspected.
THEOREM RateIsChecked ==
  ASSUME NoRateNearby
  PROVE  Spec => []WrongRateIsNoticed
<1>1. RowsInv => WrongRateIsNoticed
  <2> SUFFICES ASSUME RowsInv, NEW i \in DOMAIN rows, Timed(rows[i])
               PROVE  rows[i].warning = "wrong_rate" <=> emitted # WS_SAMPLE_RATE
    BY DEF WrongRateIsNoticed
  <2>0. PICK ms \in Lengths : \E duration \in {ms, 0, None} : rows[i] = Row(ms, duration)
    BY DEF RowsInv, IsRow
  <2>1. PICK duration \in {ms, 0, None} : rows[i] = Row(ms, duration)
    BY <2>0
  <2>2. duration = ms /\ ms > 0 /\ ms \in Nat
    BY <2>1, LiveAssumption DEF Timed, Row, LiveAssumption
  <2>3. rows[i].warning = CheckSampleRate(AudioBytes(ms), ms)
    BY <2>1, <2>2 DEF Row
  <2>4. /\ AudioBytes(ms) \in Nat /\ AudioBytes(ms) > 0
        /\ InWindow(AudioBytes(ms), ms) <=> emitted = WS_SAMPLE_RATE
    BY WindowTellsRates, LiveAssumption DEF RowsInv
  <2> QED
    BY <2>2, <2>3, <2>4 DEF CheckSampleRate, None
<1> QED
  BY RowsInvariance, <1>1, PTL

\* A turn that was not warned of, played at the speed of its own header, takes
\* the time the server says, give or take a twentieth, however near its rate is
\* to the header's.
THEOREM QuietTurnsPlayOnTime ==
  ASSUME SamplesInEveryTurn
  PROVE  Spec => []QuietTurnPlaysOnTime
<1>1. RowsInv => QuietTurnPlaysOnTime
  <2> SUFFICES ASSUME RowsInv, NEW i \in DOMAIN rows,
                      Timed(rows[i]), rows[i].warning = "none"
               PROVE  LET played == rows[i].audio_bytes * 1000
                          stated == rows[i].audio_duration_ms * TurnHeader.byte_rate
                      IN  20 * played >= 19 * stated /\ 20 * played <= 21 * stated
    BY DEF QuietTurnPlaysOnTime
  <2>0. PICK ms \in Lengths : \E duration \in {ms, 0, None} : rows[i] = Row(ms, duration)
    BY DEF RowsInv, IsRow
  <2>1. PICK duration \in {ms, 0, None} : rows[i] = Row(ms, duration)
    BY <2>0
  <2>2. duration = ms /\ ms > 0 /\ ms \in Nat
    BY <2>1, LiveAssumption DEF Timed, Row, LiveAssumption
  <2>3. /\ rows[i].audio_bytes = AudioBytes(ms) /\ rows[i].audio_duration_ms = ms
        /\ rows[i].warning = CheckSampleRate(AudioBytes(ms), ms)
    BY <2>1, <2>2 DEF Row
  <2>4. AudioBytes(ms) \in Nat /\ AudioBytes(ms) > 0
    BY TurnsHaveBytes, LiveAssumption DEF RowsInv
  <2>5. InWindow(AudioBytes(ms), ms)
    BY <2>2, <2>3, <2>4 DEF CheckSampleRate, None
  <2>6. TurnHeader.byte_rate = 48000
    BY DEF TurnHeader, wav_header, WS_SAMPLE_RATE, WS_CHANNELS, WS_BITS_PER_SAMPLE
  <2>7. 100 * AudioBytes(ms) >= 4560 * ms /\ 100 * AudioBytes(ms) <= 5040 * ms
    BY <2>2, <2>4, <2>5
       DEF InWindow, BytesPerMs, WS_SAMPLE_RATE, WS_CHANNELS, WS_BITS_PER_SAMPLE
  <2> QED
    BY <2>2, <2>3, <2>4, <2>6, <2>7
<1> QED
  BY RowsInvariance, <1>1, PTL

\* What a rounded rate of exactly the header's says of the bytes.
LEMMA RoundedIsNear ==
  ASSUME NEW n \in Nat, NEW d \in Nat, d > 0, NEW k \in Nat, Rounded(n, d) = k
  PROVE  2 * n <= (2 * k + 1) * d /\ 2 * n >= (2 * k - 1) * d
<1> DEFINE q == n \div d
           m == n % d
<1>1. q \in Nat /\ m \in Nat /\ m < d /\ n = d * q + m
  BY SMT
<1>2. Rounded(n, d) = IF 2 * m > d \/ (2 * m = d /\ q % 2 = 1) THEN q + 1 ELSE q
  BY DEF Rounded
<1> HIDE DEF q, m
<1>3. CASE k = q /\ 2 * m <= d
  BY <1>1, <1>3
<1>4. CASE k = q + 1 /\ 2 * m >= d
  BY <1>1, <1>4
<1> QED
  BY <1>1, <1>2, <1>3, <1>4

\* The verdict on the rates is passed once, at the very end, on the rows there
\* are then.
VerdictInv ==
  /\ verdict \in {"none", "matches", "differs"}
  /\ verdict # "none" => pc = "end"
  /\ verdict = "matches" => rows # <<>> /\ ImpliedRates = {WS_SAMPLE_RATE}

LEMMA VerdictInvariance == Spec => []VerdictInv
<1>1. Init => VerdictInv
  BY DEF Init, VerdictInv
<1>2. VerdictInv /\ [Next]_vars => VerdictInv'
  <2> SUFFICES ASSUME VerdictInv, [Next]_vars PROVE VerdictInv'
    OBVIOUS
  <2>1. CASE Report
    BY <2>1 DEF Report, VerdictInv, ImpliedRates
  <2>2. CASE verdict' = verdict /\ (verdict # "none" => rows' = rows /\ pc' = pc)
    BY <2>2 DEF VerdictInv, ImpliedRates
  <2> QED
    BY <2>1, <2>2 DEF VerdictInv, Next, RunOver, RunFails, RunsOver, AbandonTurn, TryExpiredKey,
       NothingToReport, ReportRaises, vars
<1> QED
  BY <1>1, <1>2, PTL DEF Spec

\* MATCHES is only ever said of a server that emits at the header's rate, with
\* no turn warned of (live_stream_check.py:243).
THEOREM MatchesAreEarned ==
  ASSUME NoRateNearby
  PROVE  Spec => []MatchIsEarned
<1>1. RowsInv /\ VerdictInv => MatchIsEarned
  <2> SUFFICES ASSUME RowsInv, VerdictInv, verdict = "matches"
               PROVE  emitted = WS_SAMPLE_RATE /\ \A i \in DOMAIN rows : rows[i].warning = "none"
    BY DEF MatchIsEarned
  <2>1. \A i \in DOMAIN rows : rows[i].implied = WS_SAMPLE_RATE
    BY DEF VerdictInv, ImpliedRates
  <2>2. ASSUME NEW i \in DOMAIN rows
        PROVE  emitted = WS_SAMPLE_RATE /\ rows[i].warning = "none"
    <3>0. PICK ms \in Lengths : \E duration \in {ms, 0, None} : rows[i] = Row(ms, duration)
      BY <2>2 DEF RowsInv, IsRow
    <3>1. PICK duration \in {ms, 0, None} : rows[i] = Row(ms, duration)
      BY <3>0
    <3> DEFINE bytes == AudioBytes(ms)
    <3>2. rows[i].implied = ImpliedRate(bytes, duration) /\ rows[i].warning = CheckSampleRate(bytes, duration)
      BY <3>1 DEF Row
    <3>3. ms \in Nat /\ ms > 0
      BY LiveAssumption DEF LiveAssumption
    <3>4. duration = ms
      BY <2>1, <2>2, <3>2 DEF ImpliedRate, None, WS_SAMPLE_RATE
    <3>5. bytes \in Nat /\ bytes > 0 /\ (InWindow(bytes, ms) <=> emitted = WS_SAMPLE_RATE)
      BY WindowTellsRates, LiveAssumption DEF RowsInv
    <3> HIDE DEF bytes
    <3>6. Rounded(500 * bytes, ms) = 24000
      BY <2>1, <2>2, <3>2, <3>3, <3>4
      DEF ImpliedRate, None, WS_SAMPLE_RATE, BytesPerMs, WS_CHANNELS, WS_BITS_PER_SAMPLE
    <3>7. 2 * (500 * bytes) <= 48001 * ms /\ 2 * (500 * bytes) >= 47999 * ms
      <4>1. 500 * bytes \in Nat
        BY <3>5
      <4> QED
        BY <3>3, <3>6, <4>1, RoundedIsNear
    <3>8. InWindow(bytes, ms)
      BY <3>3, <3>5, <3>7 DEF InWindow, BytesPerMs, WS_SAMPLE_RATE, WS_CHANNELS, WS_BITS_PER_SAMPLE
    <3> QED
      BY <3>2, <3>3, <3>4, <3>5, <3>8 DEF CheckSampleRate, None
  <2>3. \E i \in DOMAIN rows : TRUE
    BY DEF VerdictInv, ImpliedRates
  <2> QED
    BY <2>2, <2>3
<1> QED
  BY RowsInvariance, VerdictInvariance, <1>1, PTL

-----------------------------------------------------------------------------
(* The runs of measure_first_frame.py *)

Timings == [connect : BOOLEAN, first_frame : BOOLEAN, metadata : BOOLEAN, error : BOOLEAN]

\* The run under way: it is timed behind Connected, and is left without an error
\* only by the server's metadata.
RunInv ==
  /\ ftimings \in Timings
  /\ fpc = "receive" => ftimings.connect
  /\ fpc = "gather" => ftimings.connect
  /\ fpc = "gather" /\ ~ftimings.error => ftimings.metadata

\* The runs that are over.
PastInv ==
  /\ fruns \in Seq(Timings)
  /\ CleanRunWasSpoken

FirstInv == RunInv /\ PastInv /\ RunsAreMeasuredAlone

\* A run that returns is put down with its timings.
LEMMA Returning ==
  ASSUME PastInv, NEW t \in Timings, First!Returned(t),
         ~t.error => t.connect /\ t.metadata
  PROVE  PastInv'
<1>1. fruns' = Append(fruns, t)
  BY DEF First!Returned
<1>2. fruns' \in Seq(Timings)
  BY <1>1 DEF PastInv
<1>3. ASSUME NEW i \in DOMAIN fruns', ~fruns'[i].error
      PROVE  fruns'[i].connect /\ fruns'[i].metadata
  <2>1. CASE i \in DOMAIN fruns
    <3>1. fruns'[i] = fruns[i]
      BY <1>1, <2>1 DEF PastInv
    <3> QED
      BY <1>3, <2>1, <3>1 DEF PastInv, CleanRunWasSpoken, First!CleanRunWasSpoken, First!Good
  <2>2. CASE i = Len(fruns) + 1
    <3>1. fruns'[i] = t
      BY <1>1, <2>2 DEF PastInv
    <3> QED
      BY <1>3, <3>1
  <2> QED
    BY <1>1, <1>3, <2>1, <2>2 DEF PastInv
<1> QED
  BY <1>2, <1>3 DEF PastInv, CleanRunWasSpoken, First!CleanRunWasSpoken, First!Good

LEMMA FirstInit == First!Init => FirstInv
BY DEF First!Init, First!Unmeasured, Timings, FirstInv, RunInv, PastInv,
       CleanRunWasSpoken, First!CleanRunWasSpoken, First!Good,
       RunsAreMeasuredAlone, First!RunsAreMeasuredAlone

LEMMA FirstStep == FirstInv /\ [First!Next]_(First!vars) => FirstInv'
<1> SUFFICES ASSUME FirstInv, [First!Next]_(First!vars) PROVE FirstInv'
  OBVIOUS
<1> USE DEF RunsAreMeasuredAlone, First!RunsAreMeasuredAlone
<1> DEFINE SameRuns == fruns' = fruns
<1>1. SameRuns => PastInv'
  BY DEF FirstInv, PastInv, CleanRunWasSpoken, First!CleanRunWasSpoken, First!Good
<1>2. ftimings \in Timings
  BY DEF FirstInv, RunInv
<1>3. CASE First!OpenSocket
  BY <1>1, <1>3 DEF First!OpenSocket, First!Crash, First!Unmeasured, Timings, FirstInv, RunInv
<1>4. CASE First!Connected
  BY <1>1, <1>2, <1>4 DEF First!Connected, Timings, FirstInv, RunInv
<1>5. CASE First!ClosedEarly
  <2>1. ftimings' \in Timings /\ ftimings'.error /\ First!Returned(ftimings')
    BY <1>2, <1>5 DEF First!ClosedEarly, Timings
  <2>2. PastInv'
    BY <2>1, Returning DEF FirstInv
  <2>3. fpc' = "next" /\ fspc' # "sending"
    BY <1>5 DEF First!ClosedEarly, First!Returned, FirstInv
  <2> QED
    BY <2>1, <2>2, <2>3 DEF FirstInv, RunInv
<1>6. CASE First!Unreadable
  BY <1>1, <1>2, <1>6 DEF First!Unreadable, First!Crash, FirstInv, RunInv
<1>7. CASE First!Send \/ First!SendFails
  BY <1>1, <1>2, <1>7 DEF First!Send, First!SendFails, FirstInv, RunInv
<1>8. CASE First!ReceiveAudio
  BY <1>1, <1>2, <1>8 DEF First!ReceiveAudio, Timings, FirstInv, RunInv
<1>9. CASE First!ReceiveMetadata
  BY <1>1, <1>2, <1>9 DEF First!ReceiveMetadata, First!Leave, Timings, FirstInv, RunInv
<1>10. CASE First!ReceiveFails
  BY <1>1, <1>2, <1>10 DEF First!ReceiveFails, First!Leave, First!Ended, Timings, FirstInv, RunInv
<1>11. CASE First!Gathered
  <2>1. fpc = "gather" /\ First!Returned(ftimings) /\ ftimings' = ftimings
    BY <1>11 DEF First!Gathered
  <2>2. PastInv'
    BY <1>2, <2>1, Returning DEF FirstInv, RunInv
  <2>3. fpc' = "next" /\ fspc' # "sending"
    BY <1>11 DEF First!Gathered, First!Returned
  <2> QED
    BY <1>2, <2>1, <2>2, <2>3 DEF FirstInv, RunInv
<1>12. CASE First!BatchFallback \/ First!DropMidTurn \/ First!FinishTheJob \/ First!Report
  BY <1>1, <1>2, <1>12
  DEF First!BatchFallback, First!DropMidTurn, First!FinishTheJob, First!Report, First!Crash,
      First!run, FirstInv, RunInv
<1>13. CASE UNCHANGED First!vars
  BY <1>1, <1>2, <1>13 DEF First!vars, First!run, FirstInv, RunInv
<1> QED
  BY <1>3, <1>4, <1>5, <1>6, <1>7, <1>8, <1>9, <1>10, <1>11, <1>12, <1>13 DEF First!Next

LEMMA FirstInvariance == EitherSpec => []FirstInv
<1>1. EitherInit => FirstInv
  BY FirstInit DEF EitherInit
<1>2. FirstInv /\ [EitherNext]_<<script, vars, firstVars>> => FirstInv'
  <2> SUFFICES ASSUME FirstInv, [EitherNext]_<<script, vars, firstVars>> PROVE FirstInv'
    OBVIOUS
  <2>1. UNCHANGED firstVars => UNCHANGED First!vars
    BY DEF firstVars, First!vars, First!run
  <2> QED
    BY <2>1, FirstStep DEF EitherNext
<1> QED
  BY <1>1, <1>2, PTL DEF EitherSpec

\* Every run that counts as clean was connected and reported as spoken, however
\* many runs and chunks there are (measure_first_frame.py:151-170).
THEOREM CleanRunsWereSpoken == EitherSpec => []CleanRunWasSpoken
<1>1. FirstInv => CleanRunWasSpoken
  BY DEF FirstInv, PastInv
<1> QED
  BY FirstInvariance, <1>1, PTL

\* No sender is left over from an earlier run (measure_first_frame.py:170).
THEOREM RunsDoNotOverlap == EitherSpec => []RunsAreMeasuredAlone
<1>1. FirstInv => RunsAreMeasuredAlone
  BY DEF FirstInv
<1> QED
  BY FirstInvariance, <1>1, PTL
=============================================================================
