---------------------------- MODULE DemoPlugins -----------------------------
(***************************************************************************)
(* More foreaction graphs of the repository's plugins, in the form of      *)
(* module Plugins: two that start at a branch, without and with a loop.    *)
(***************************************************************************)
EXTENDS Integers, Sequences, FiniteSets

(***************************************************************************)
(* demo-cpp branching, with the arguments of the demo (fd = -1, read,      *)
(* readtwice and moveoff true): the graph starts at a branch, and branch3  *)
(* is decided by what the last pread returns.                              *)
(***************************************************************************)
BranchingCalls == {"open", "pwrite0", "pwrite1", "pwrite2", "pread0", "pread1", "pread2",
                   "pread3", "pread4", "pwrite3", "close"}

Branching ==
  [total_dims |-> 0,
   start |-> "branch0",
   node_type |-> [n \in BranchingCalls \cup {"branch0", "branch1", "branch2", "branch3"} |->
                    CASE n \in {"branch0", "branch1", "branch2", "branch3"} -> "branch"
                      [] n \in {"pread0", "pread1", "pread2", "pread3", "pread4"} -> "pure"
                      [] OTHER -> "seff"],
   next_node |-> [open |-> "pwrite0", pwrite0 |-> "pwrite2", pwrite1 |-> "pwrite2",
                  pwrite2 |-> "branch1", pread0 |-> "branch3", pread1 |-> "pread2",
                  pread2 |-> "branch3", pread3 |-> "pread4", pread4 |-> "branch3",
                  pwrite3 |-> "close", close |-> "end"],
   weak |-> {},
   children |-> [branch0 |-> <<"open", "pwrite1">>, branch1 |-> <<"pread0", "branch2", "branch3">>,
                 branch2 |-> <<"pread1", "pread3">>, branch3 |-> <<"pwrite3", "close">>],
   epoch_dims |-> [branch0 |-> <<-1, -1>>, branch1 |-> <<-1, -1, -1>>,
                   branch2 |-> <<-1, -1>>, branch3 |-> <<-1, -1>>],
   assoc_dims |-> [n \in BranchingCalls \cup {"branch0", "branch1", "branch2", "branch3"} |-> {}]]

(* The arguments leave open what the calls return: whether the open and    *)
(* the last pread succeed.                                                 *)
BranchingArgs == {a \in [opened : BOOLEAN, full : BOOLEAN] : a.full => a.opened}

(* Every write of the file before what follows it, every read before the   *)
(* next write, and the open and the close around them.                     *)
BranchingDepends(a) ==
  {<< <<d[1], 0>>, <<d[2], 0>> >> : d \in
     {<<"open", "pwrite0">>, <<"pwrite0", "pwrite2">>,
      <<"pwrite2", "pread3">>, <<"pwrite2", "pread4">>} \cup
     IF a.full THEN {<<"pread3", "close">>, <<"pread4", "close">>}
     ELSE {<<"pread3", "pwrite3">>, <<"pread4", "pwrite3">>, <<"pwrite3", "close">>}}

BranchingDecision(a, b, e) ==
  CASE b = "branch0" -> 0
    [] b \in {"branch1", "branch2"} -> 1
    [] b = "branch3" -> IF a.full THEN 1 ELSE 0

BranchingCanDecide(a, b, e, done) == {b = "branch3" => done["pread4"] > 0}

(* Mutation: the reads do not wait for the write before them. *)
BranchingArgReady_Early(a, n, e, done, st) ==
  {CASE n = "pwrite0" -> a.opened /\ done["open"] > 0
     [] n = "pwrite2" -> done["pwrite0"] > 0
     [] n = "pwrite3" -> done["pread3"] > 0 /\ done["pread4"] > 0
     [] n = "close" -> IF a.full THEN done["pread4"] > 0 ELSE done["pwrite3"] > 0
     [] OTHER -> TRUE}

BranchingArgReady(a, n, e, done, st) ==
  {CASE n \in {"open", "pwrite1"} -> TRUE
     [] n = "pwrite0" -> a.opened /\ done["open"] > 0
     [] n = "pwrite2" -> done["pwrite0"] > 0
     [] n \in {"pread0", "pread1", "pread2", "pread3", "pread4"} -> done["pwrite2"] > 0
     [] n = "pwrite3" -> done["pread3"] > 0 /\ done["pread4"] > 0
     [] n = "close" -> IF a.full THEN done["pread4"] > 0 ELSE done["pwrite3"] > 0}

(***************************************************************************)
(* demo-cpp ldb_get: tables are searched in order up to the one that has   *)
(* the key; one that is not open yet is opened and its index block read.   *)
(* A weak edge follows the data read: nothing with a side effect is issued *)
(* for a table before the tables in front of it have been searched.        *)
(***************************************************************************)
LdbGet ==
  [total_dims |-> 1,
   start |-> "table_open",
   node_type |-> [table_open |-> "branch", open |-> "seff", pread_index |-> "pure",
                  pread_data |-> "pure", has_more |-> "branch"],
   next_node |-> [open |-> "pread_index", pread_index |-> "pread_data",
                  pread_data |-> "has_more"],
   weak |-> {"pread_data"},
   children |-> [table_open |-> <<"open", "pread_data">>, has_more |-> <<"table_open", "end">>],
   epoch_dims |-> [table_open |-> <<-1, -1>>, has_more |-> <<0, -1>>],
   assoc_dims |-> [n \in {"table_open", "open", "pread_index", "pread_data", "has_more"} |-> {0}]]

(* key_match_at, and the tables that are not open on entry. *)
LdbGetArgs == {[key_match_at |-> k, unopened |-> u] : k \in 0 .. 3, u \in SUBSET (0 .. 2)}

LdbGetDepends(a) ==
  UNION {{<< <<"open", s>>, <<"pread_index", s>> >>,
          << <<"pread_index", s>>, <<"pread_data", s>> >>} : s \in a.unopened \cap (0 .. a.key_match_at)}
  \cup {<< <<"pread_data", s - 1>>, <<"open", s>> >> : s \in a.unopened \cap (1 .. a.key_match_at)}

LdbGetDecision(a, b, e) ==
  CASE b = "table_open" -> IF e[0] \in a.unopened THEN 0 ELSE 1
    [] b = "has_more" -> IF e[0] < a.key_match_at THEN 0 ELSE 1

(* Mutation: a pread of the data waits for nothing. *)
LdbGetArgReady_Always(a, n, e, done, st) ==
  {n = "pread_index" /\ e[0] \in a.unopened =>
     done["open"] >= Cardinality({t \in a.unopened : t <= e[0]})}

(* The rcsave functions record the epoch of the open and of the index      *)
(* read.  Calls of a node return in the order of their epochs, so that of  *)
(* table e[0] has returned when as many have as there are unopened tables  *)
(* up to it.                                                               *)
LdbGetArgReady(a, n, e, done, st) ==
  LET Seen(m) == e[0] \in a.unopened => done[m] >= Cardinality({t \in a.unopened : t <= e[0]})
  IN  {CASE n = "open" -> TRUE
         [] n = "pread_index" -> Seen("open")
         [] n = "pread_data" -> Seen("open") /\ Seen("pread_index")}
=============================================================================
