----------------------------- MODULE MCPreIssue -----------------------------
(* A path for TLC, made of loops of the repository's plugins. *)
EXTENDS PreIssueRefines

(* Twice the body of the linking demo and of cp's sparse_copy, a pread     *)
(* linked to the pwrite that follows it; then twice the body of the        *)
(* weak_edge demo, a pwrite, a pread, a weak edge and another pread.  A    *)
(* branch closes every iteration.                                          *)
PathLink == {0, 2}
PathSeff == {1, 3, 4, 7}
PathWeak == {5, 8}
PathBranch == {2, 4, 7, 10}
=============================================================================
