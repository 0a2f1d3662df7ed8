----------------------------- MODULE MCMelChunker -----------------------------
(***************************************************************************)
(* Instances of MelChunker for TLC.  The sizes are those of the front ends *)
(* (45 and 3 in Python, 55 and 3 in gRPC, 72 and 3 in the C API), the      *)
(* degenerate ones, and sizes and paddings that meet the clamp of the      *)
(* width; the lengths lie on both sides of the one-shot limit and of       *)
(* MIN_CHUNK_SIZE left over.                                               *)
(***************************************************************************)
EXTENDS MelChunker

MCChunkSizes  == {0, 1, 3, 45, 55, 72, 600, 1030, 1000000}
MCPaddings    == {0, 1, 3, 10, 1027}
MCFrameCounts == {0, 1, 44, 45, 46, 48, 49, 90, 92, 95, 96, 97, 116, 117,
                  137, 138, 139, 190, 233, 1054, 1300, 2700, 5300}
=============================================================================
