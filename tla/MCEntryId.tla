----------------------------- MODULE MCEntryId ------------------------------
(* Two adjacent addresses, and a narrow epoch field. *)
EXTENDS EntryId

MCNodes == {2, 3}
=============================================================================
