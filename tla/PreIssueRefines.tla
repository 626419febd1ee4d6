-------------------------- MODULE PreIssueRefines ---------------------------
(* The pre-issuing algorithm as an implementation of Speculation. *)
EXTENDS PreIssue

(* How far the wrapped function has come: the parts of a call are one.     *)
Where ==
  IF pc \in {"out", "app"} THEN pc ELSE IF pc = "drain" THEN "leaving" ELSE "call"

Promise == INSTANCE Speculation WITH where <- Where, returned <- frontier

(* Seen from the wrapped function and from outside, Issue() with its       *)
(* window, pools and queues runs every syscall once, before it returns,    *)
(* none outside the session, and a side effect only if the function is     *)
(* bound to ask for it; when foreactor_LeaveSCGraph returns, the side      *)
(* effects are those of the syscalls made.                                 *)
ImplementsSpeculation == Promise!Spec
=============================================================================
