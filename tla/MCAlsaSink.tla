----------------------------- MODULE MCAlsaSink -----------------------------
(* AlsaSink instantiated for TLC: two devices, the second of which another *)
(* program may hold; two PCM rates, one the hardware rejects, and Ac3.      *)
EXTENDS AlsaSink
=============================================================================
