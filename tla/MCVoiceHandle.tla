---------------------------- MODULE MCVoiceHandle ----------------------------
(***************************************************************************)
(* Instances of VoiceHandle for TLC.                                       *)
(***************************************************************************)
EXTENDS VoiceHandle, TLC

CONSTANTS c1, c2, k1, k2

(* Calls are interchangeable, and so are the threads that close. *)
MCSymmetry == Permutations(Calls) \cup Permutations(Closers)

MCJava == {"java"}
=============================================================================
