----------------------------- MODULE AppPlugins -----------------------------
(***************************************************************************)
(* Foreaction graphs of the plugins of the B+-tree and of LevelDB, and of  *)
(* the demo's straight-line functions, in the form of module Plugins.      *)
(***************************************************************************)
EXTENDS Integers, Sequences, FiniteSets, FiniteSetsExt

(***************************************************************************)
(* B+-tree scan and load, demo-cpp read_seq and write_seq: one call for    *)
(* each of a number of blocks, whose arguments are known on entry.         *)
(***************************************************************************)
Blocks(type) ==
  [total_dims |-> 1,
   start |-> "leaf",
   node_type |-> [leaf |-> type, branch_next |-> "branch"],
   next_node |-> [leaf |-> "branch_next"],
   weak |-> {},
   children |-> [branch_next |-> <<"leaf", "end">>],
   epoch_dims |-> [branch_next |-> <<0, -1>>],
   assoc_dims |-> [leaf |-> {0}, branch_next |-> {0}]]

PreadLeaves == Blocks("pure")
PwriteLeaves == Blocks("seff")

BlocksDecision(a, b, e) == IF e[0] + 1 < a.num_leaves THEN 0 ELSE 1

BlocksArgReady(a, n, e, done, st) == {TRUE}

(***************************************************************************)
(* LevelDB Version::Get.  The tables that may have the key are those of    *)
(* level 0 that overlap it and at most one of each deeper level.  The      *)
(* plugin appends the latter to curr_tables when the branch gets there, in *)
(* the order of levels, so that its decisions are those it would take with *)
(* all of them known.  Tables are opened in a pause, so the first child of *)
(* table_open is never taken.  Get returns at the first table that has the *)
(* key, across the weak edge.                                              *)
(***************************************************************************)
kNumLevels == 7

VersionGet ==
  [total_dims |-> 1,
   start |-> "table_open",
   node_type |-> [table_open |-> "branch", open |-> "seff", pread_footer |-> "pure",
                  pread_index |-> "pure", pread_data |-> "pure", deepest_level |-> "branch"],
   next_node |-> [open |-> "pread_footer", pread_footer |-> "pread_index",
                  pread_index |-> "pread_data", pread_data |-> "deepest_level"],
   weak |-> {"pread_data"},
   children |-> [table_open |-> <<"open", "pread_data", "end">>,
                 deepest_level |-> <<"table_open", "end">>],
   epoch_dims |-> [table_open |-> <<-1, -1, -1>>, deepest_level |-> <<0, -1>>],
   assoc_dims |-> [n \in {"table_open", "open", "pread_footer", "pread_index",
                          "pread_data", "deepest_level"} |-> {0}]]

(* The number of level-0 tables, and the deeper levels with a candidate. *)
VersionGetArgs == [level0 : 0 .. 2, levels : SUBSET {1, kNumLevels - 1}]

NumTables(a) == a.level0 + Cardinality(a.levels)
LastLevel(a) == Max(a.levels \cup {0})

VersionGetDecision(a, b, e) ==
  CASE b = "table_open" -> IF e[0] < NumTables(a) THEN 1 ELSE 2
    [] b = "deepest_level" ->
         IF e[0] + 1 < NumTables(a) \/ LastLevel(a) + 1 < kNumLevels THEN 0 ELSE 1

(* The data of a table can be read ahead if the table is in the cache of   *)
(* open tables, which other threads fill and evict from at any time.       *)
VersionGetArgReady(a, n, e, done, st) ==
  CASE n = "open" -> {TRUE}
    [] n \in {"pread_footer", "pread_index"} -> {FALSE}
    [] n = "pread_data" -> BOOLEAN

(***************************************************************************)
(* demo-cpp simple1 and simple2: straight lines of calls, the generators   *)
(* of which wait for the results the arguments depend on.  The arguments   *)
(* leave open whether the open succeeds.                                   *)
(***************************************************************************)
LineArgs == [opened : BOOLEAN]

After(pairs) == {<< <<p[1], 0>>, <<p[2], 0>> >> : p \in pairs}

Simple1 ==
  [total_dims |-> 0,
   start |-> "open",
   node_type |-> [open |-> "seff", pwrite |-> "seff", pread0 |-> "pure", pread1 |-> "pure",
                  close |-> "seff"],
   next_node |-> [open |-> "pwrite", pwrite |-> "pread0", pread0 |-> "pread1",
                  pread1 |-> "close", close |-> "end"],
   weak |-> {}, children |-> << >>, epoch_dims |-> << >>,
   assoc_dims |-> [n \in {"open", "pwrite", "pread0", "pread1", "close"} |-> {}]]

Simple1Depends(a) ==
  After({<<"open", "pwrite">>, <<"pwrite", "pread0">>, <<"pwrite", "pread1">>,
         <<"pread0", "close">>, <<"pread1", "close">>})

(* Mutation: close only waits for the first read. *)
Simple1ArgReady_OneRead(a, n, e, done, st) ==
  {CASE n = "open" -> TRUE
     [] n = "pwrite" -> a.opened /\ done["open"] > 0
     [] n \in {"pread0", "pread1"} -> done["pwrite"] > 0
     [] n = "close" -> done["pread0"] > 0}

Simple1ArgReady(a, n, e, done, st) ==
  {CASE n = "open" -> TRUE
     [] n = "pwrite" -> a.opened /\ done["open"] > 0
     [] n \in {"pread0", "pread1"} -> done["pwrite"] > 0
     [] n = "close" -> done["pread0"] > 0 /\ done["pread1"] > 0}

(* The fstat is of the directory and waits for nothing. *)
Simple2 ==
  [total_dims |-> 0,
   start |-> "openat",
   node_type |-> [openat |-> "seff", write |-> "seff", lseek |-> "seff", read |-> "pure",
                  fstat |-> "pure", fstatat |-> "pure", close |-> "seff"],
   next_node |-> [openat |-> "write", write |-> "lseek", lseek |-> "read", read |-> "fstat",
                  fstat |-> "fstatat", fstatat |-> "close", close |-> "end"],
   weak |-> {}, children |-> << >>, epoch_dims |-> << >>,
   assoc_dims |-> [n \in {"openat", "write", "lseek", "read", "fstat", "fstatat", "close"} |-> {}]]

Simple2Depends(a) ==
  After({<<"openat", "write">>, <<"write", "lseek">>, <<"lseek", "read">>,
         <<"read", "fstatat">>, <<"fstatat", "close">>})

Simple2ArgReady(a, n, e, done, st) ==
  {CASE n \in {"openat", "fstat"} -> TRUE
     [] n = "write" -> a.opened /\ done["openat"] > 0
     [] n = "lseek" -> FALSE
     [] n = "read" -> done["lseek"] > 0
     [] n = "fstatat" -> done["read"] > 0
     [] n = "close" -> done["fstatat"] > 0}
=============================================================================
