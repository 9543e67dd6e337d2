---------------------------- MODULE MCLiveScripts ----------------------------
(* The rates Deepgram offers linear16 in, and the two of the CD family that
   the comment in stream.py is about; turns too short for a full window, and
   long ones.  Two timed runs of a text of two chunks: one run can leave
   something behind that the next would trip over.                          *)
EXTENDS LiveScripts

MCRates   == {8000, 16000, 22050, 24000, 32000, 44100, 48000}
MCLengths == {40, 1500}
=============================================================================
