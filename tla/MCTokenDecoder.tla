---------------------------- MODULE MCTokenDecoder ----------------------------
(* The decoder at 44100 Hz: windows of 2048 samples every 256, tokens of     *)
(* 4608.  A sample of the model stands for 128 of them.                      *)
EXTENDS TokenDecoder
=============================================================================
