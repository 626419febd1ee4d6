----------------------------- MODULE MCIOUring ------------------------------
(* Small rings for TLC. *)
EXTENDS IOUring

CONSTANTS e1, e2, e3, e4, e5

MCEntries == {e1, e2, e3, e4, e5}
MCLinked == {e1, e2}
=============================================================================
