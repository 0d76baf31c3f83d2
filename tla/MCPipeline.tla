----------------------------- MODULE MCPipeline -----------------------------
(* Small instances of PreviewPipeline; the constants are in the cfg files. *)
EXTENDS PreviewPipeline, TLC

(* Workers and RQ identifiers are interchangeable in the safety runs. *)
Symmetry == Permutations(Workers) \cup Permutations(RqIds)
=============================================================================
