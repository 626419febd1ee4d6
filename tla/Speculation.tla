---------------------------- MODULE Speculation ----------------------------
(***************************************************************************)
(* What libforeactor promises the wrapped function and the outside world,  *)
(* with no queue, peek window or pool: the function makes the syscalls of  *)
(* its path one after another and each returns after it has run once; the  *)
(* library may run syscalls ahead of the function, but one with side       *)
(* effects only if the function can no longer return without making it.    *)
(***************************************************************************)
EXTENDS Integers

CONSTANTS PathLen, Seff, Weak

Pos == 0 .. (PathLen - 1)

VARIABLES
  where,     \* of the function: "out", in its own code "app", "call", "leaving"
  returned,  \* number of its syscalls that have returned
  runs       \* how often each syscall has run

vars == <<where, returned, runs>>

Init ==
  /\ where = "out"
  /\ returned = 0
  /\ runs = [i \in Pos |-> 0]

Begin ==
  /\ where = "out"
  /\ where' = "app"
  /\ runs' = [i \in Pos |-> 0]
  /\ UNCHANGED returned

Call ==
  /\ where = "app"
  /\ returned < PathLen
  /\ where' = "call"
  /\ UNCHANGED <<returned, runs>>

(* The function has made syscall i, or is bound to: no weak edge lies      *)
(* between the latest one it made and i.                                   *)
Made == IF where = "call" THEN returned + 1 ELSE returned

Bound(i) == i < Made \/ (Made > 0 /\ \A j \in Weak : j < Made - 1 \/ i <= j)

(* Syscall i runs, for its caller or ahead of it. *)
Run(i) ==
  /\ where # "out"
  /\ runs[i] = 0
  /\ i \in Seff => Bound(i)
  /\ runs' = [runs EXCEPT ![i] = 1]
  /\ UNCHANGED <<where, returned>>

Return ==
  /\ where = "call"
  /\ runs[returned] = 1
  /\ where' = "app"
  /\ returned' = returned + 1
  /\ UNCHANGED runs

(* The function returns at the end of its path, before its first syscall,  *)
(* or early, over a weak edge.                                             *)
Leave ==
  /\ where = "app"
  /\ returned \in {0, PathLen} \/ returned - 1 \in Weak
  /\ where' = "leaving"
  /\ UNCHANGED <<returned, runs>>

(* By then the side effects are exactly those of the syscalls it made. *)
Finish ==
  /\ where = "leaving"
  /\ \A i \in Seff : runs[i] = IF i < returned THEN 1 ELSE 0
  /\ where' = "out"
  /\ returned' = 0
  /\ UNCHANGED runs

Next ==
  \/ Begin \/ Call \/ Return \/ Leave \/ Finish
  \/ \E i \in Pos : Run(i)

Spec == Init /\ [][Next]_vars
=============================================================================
