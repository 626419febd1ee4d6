---------------------------- MODULE MCThreadPool ----------------------------
(* Two workers and the three requests of a window of depth two. *)
EXTENDS ThreadPool

CONSTANTS e1, e2, e3, w1, w2

MCEntries == {e1, e2, e3}
MCWorkers == {w1, w2}
=============================================================================
