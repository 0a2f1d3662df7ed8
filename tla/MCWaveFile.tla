------------------------------ MODULE MCWaveFile ------------------------------
(***************************************************************************)
(* Instances of WaveFile for TLC.                                          *)
(***************************************************************************)
EXTENDS WaveFile, TLC

CONSTANTS w1, w2, p1, p2, a, b

(* Writers of the same process, and the processes, are interchangeable     *)
(* because Init takes every assignment; so are the contents.               *)
MCSymmetry == Permutations(Writers) \cup Permutations(Processes) \cup Permutations(Contents)
=============================================================================
