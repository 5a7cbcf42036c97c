--------------------------- MODULE MCMemRespModel ---------------------------
(***************************************************************************)
(* MemRespModel for TLC: three words, one of them in an error segment,     *)
(* reads of one or two beats and ready delays of zero or one cycle.        *)
(***************************************************************************)
EXTENDS MemRespModel

MCAddr == {0, 1, 2}
MCErrorAddrs == {2}
=============================================================================
