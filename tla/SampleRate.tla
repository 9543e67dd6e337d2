----------------------------- MODULE SampleRate -----------------------------
(***************************************************************************)
(* The sample rate of a streamed turn (stream.py).  The socket sends bare  *)
(* frames; the header put in front of them asserts a rate, and when the    *)
(* turn is over the bytes are held against the duration the server reports.*)
(* The arithmetic is the code's, in whole numbers instead of floats.       *)
(***************************************************************************)
EXTENDS Integers

WS_SAMPLE_RATE     == 24000
WS_CHANNELS        == 1
WS_BITS_PER_SAMPLE == 16

\* None, for a duration SpeechMetadata does not carry and a rate it leaves open.
None == -1

\* The fields of the RIFF header.  Its two length fields hold the sentinel for
\* a stream of unknown length.
wav_header_InBits(rate, channels, bits) ==      \* mutant: // 8 is forgotten
  [sample_rate |-> rate, channels |-> channels, bits_per_sample |-> bits,
   byte_rate   |-> rate * channels * bits,
   block_align |-> (channels * bits) \div 8]

wav_header(rate, channels, bits) ==
  [sample_rate |-> rate, channels |-> channels, bits_per_sample |-> bits,
   byte_rate   |-> (rate * channels * bits) \div 8,
   block_align |-> (channels * bits) \div 8]

TurnHeader == wav_header(WS_SAMPLE_RATE, WS_CHANNELS, WS_BITS_PER_SAMPLE)

BytesPerMs == (WS_SAMPLE_RATE * WS_CHANNELS * WS_BITS_PER_SAMPLE) \div 8000

\* Is the ratio bytes / (duration * BytesPerMs) within [0.95, 1.05]?
InWindow_Wide(bytes, duration) ==   \* mutant: the window the comment warns of
  /\ 100 * bytes >= 90 * duration * BytesPerMs
  /\ 100 * bytes <= 110 * duration * BytesPerMs

InWindow(bytes, duration) ==
  /\ 100 * bytes >= 95 * duration * BytesPerMs
  /\ 100 * bytes <= 105 * duration * BytesPerMs

\* The warning _check_sample_rate adds for a turn, if any.
CheckSampleRate(bytes, duration) ==
  IF duration \in {None, 0}
    THEN IF bytes > 0 THEN "unchecked" ELSE "none"
    ELSE IF bytes = 0 \/ InWindow(bytes, duration) THEN "none" ELSE "wrong_rate"
=============================================================================
