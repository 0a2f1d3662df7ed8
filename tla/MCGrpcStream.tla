----------------------------- MODULE MCGrpcStream -----------------------------
(***************************************************************************)
(* Instances of GrpcStream for TLC: two calls over a pool of one thread,   *)
(* a channel that one item fills, and for s1 a text of more items than fit *)
(* between its producer and a client that does not read.                   *)
(***************************************************************************)
EXTENDS GrpcStream

CONSTANTS s1, s2

MCTexts == {<<2, 2>>, <<1>>}

MCInit == Init /\ text[s1] = <<2, 2>> /\ text[s2] = <<1>>

MCFairSpec == MCInit /\ [][Next]_vars /\ Fairness
=============================================================================
