------------------------------ MODULE MCBPTree ------------------------------
(* Instances of BPTree for TLC. *)
EXTENDS BPTree

(* Put adds keys before, between and after what is loaded, and changes the  *)
(* value of one key.  Load makes one page, or two or three internal levels   *)
(* with full leaves and with a last leaf that is not full.                   *)
MCKeys == 0 .. 14
MCVals == {1, 2}
MCPuts == ({0, 3, 7} \X {1}) \cup {<<3, 2>>}
MCLoads(d) ==
  {{2} \cup ((4 .. n) \ {7}) : n \in IF d = 2 THEN {3, 5, 8} ELSE {3, 10, 13}}
=============================================================================
