----------------------------- MODULE MCFileService -----------------------------
(* FileService with a body larger than the stream's buffer and a smaller one. *)
EXTENDS FileService, TLC

CONSTANTS big, small

Sizes == big :> 2 @@ small :> 1

Symmetry == Permutations(Worker)
================================================================================
