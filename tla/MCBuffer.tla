------------------------------ MODULE MCBuffer ------------------------------
(* Buffer instantiated for TLC: a store of at most 8 bytes, requests of 1  *)
(* to 4 bytes (a 2-sample int16 activation widened to float is 8 bytes),   *)
(* three acquire/commit cycles per buffer, and a 16-bit size_t, wide enough *)
(* that every wrap-around of sizeAtBack yields a value above any request,   *)
(* as a 64-bit one does.                                                    *)
EXTENDS Buffer

MCMaxCap == 8
MCSizes == 1..4
MCReserves == {0, 4, 8}
MCChunkSizes == {2, 4}
MCMaxGen == 3
MCSizeWidth == 16
=============================================================================
