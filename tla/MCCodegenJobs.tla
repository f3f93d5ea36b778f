--------------------------- MODULE MCCodegenJobs ---------------------------
(* CodegenJobs on small instances. *)
EXTENDS CodegenJobs, TLC

Symmetry == Permutations(Requests) \cup Permutations(Users)
=============================================================================
