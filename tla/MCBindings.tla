------------------------------ MODULE MCBindings ------------------------------
(***************************************************************************)
(* Instances of Bindings for TLC.                                          *)
(***************************************************************************)
EXTENDS Bindings, TLC

CONSTANTS c1, c2

(* Calls are interchangeable: Init takes every request for each of them. *)
MCSymmetry == Permutations(Calls)

MCJava == {"java"}
MCBoth == {"go", "java"}
=============================================================================
