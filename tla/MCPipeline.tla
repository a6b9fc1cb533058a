----------------------------- MODULE MCPipeline -----------------------------
(***************************************************************************)
(* Pipeline on small instances.  Every body is of a tool of its own name    *)
(* but the two deletions, which are of one tool.                            *)
(***************************************************************************)
EXTENDS Pipeline, TLC

MCToolOf == [b \in Bodies |-> IF ToString(b) \in {"del", "del2"} THEN "delete" ELSE ToString(b)]

Symmetry == Permutations(Calls)
=============================================================================
