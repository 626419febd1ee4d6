------------------------------ MODULE Plugins -------------------------------
(***************************************************************************)
(* Foreaction graphs that plugins of the repository build, and for the     *)
(* arguments a of the functions they wrap: the branches taken, the         *)
(* instances that are linked and those that depend on each other.          *)
(* CanDecide is what the decision generators may return during a peek:     *)
(* {TRUE} if they always decide, {FALSE} if they never do.  Argument       *)
(* generators see how many calls of each node have returned (the counters  *)
(* of the rcsave functions) and the pools.                                 *)
(***************************************************************************)
EXTENDS Integers, Sequences

AlwaysDecided(a, b, e, done) == {TRUE}
AnyArgReady(a, n, e, done, st) == BOOLEAN   \* nothing known of the generators
NoLinks(a) == {}
NoDependencies(a) == {}

(***************************************************************************)
(* demo-cpp looping: nrepeats times (nwrites pwrites, then nreadsd2 pairs  *)
(* of preads).  Dimension 0 is the outer loop, 1 and 2 the inner ones.     *)
(***************************************************************************)
Looping ==
  [total_dims |-> 3,
   start |-> "open",
   node_type |-> [open |-> "seff", pwrite |-> "seff", branch0 |-> "branch",
                  pread0 |-> "pure", pread1 |-> "pure", branch1 |-> "branch",
                  branch2 |-> "branch", close |-> "seff"],
   next_node |-> [open |-> "pwrite", pwrite |-> "branch0", pread0 |-> "pread1",
                  pread1 |-> "branch1", close |-> "end"],
   weak |-> {},
   children |-> [branch0 |-> <<"pread0", "pwrite">>, branch1 |-> <<"branch2", "pread0">>,
                 branch2 |-> <<"close", "pwrite">>],
   epoch_dims |-> [branch0 |-> <<-1, 1>>, branch1 |-> <<-1, 2>>, branch2 |-> <<-1, 0>>],
   assoc_dims |-> [open |-> {}, pwrite |-> {0, 1}, branch0 |-> {0, 1},
                   pread0 |-> {0, 2}, pread1 |-> {0, 2}, branch1 |-> {0, 2},
                   branch2 |-> {0}, close |-> {}]]

LoopingDepends(a) ==
  LET rest == ({"pwrite"} \X (0 .. (a.nrepeats * a.nwrites - 1))) \cup
              ({"pread0", "pread1"} \X (0 .. (a.nrepeats * a.nreadsd2 - 1)))
  IN  ({<<"open", 0>>} \X rest) \cup (rest \X {<<"close", 0>>})

LoopingDecision(a, b, e) ==
  CASE b = "branch0" -> IF (e[0] + e[1] + 1) % a.nwrites = 0 THEN 0 ELSE 1
    [] b = "branch1" -> IF (e[0] + e[2] + 1) % a.nreadsd2 = 0 THEN 0 ELSE 1
    [] b = "branch2" -> IF e[0] + 1 = a.nrepeats THEN 0 ELSE 1

(* Mutation: close only waits for the preads of one repetition. *)
LoopingArgReady_OneRepeat(a, n, e, done, st) ==
  LET preads_done == done["pread0"] + done["pread1"]
  IN  CASE n = "open" -> {TRUE}
        [] n = "pwrite" -> {done["open"] > 0 /\ preads_done % (a.nreadsd2 * 2) = 0}
        [] n \in {"pread0", "pread1"} -> {done["pwrite"] # 0 /\ done["pwrite"] % a.nwrites = 0}
        [] n = "close" -> {preads_done >= a.nreadsd2 * 2}

LoopingArgReady(a, n, e, done, st) ==
  LET preads_done == done["pread0"] + done["pread1"]
  IN  CASE n = "open" -> {TRUE}
        [] n = "pwrite" -> {done["open"] > 0 /\ preads_done % (a.nreadsd2 * 2) = 0}
        [] n \in {"pread0", "pread1"} -> {done["pwrite"] # 0 /\ done["pwrite"] % a.nwrites = 0}
        [] n = "close" -> {preads_done >= a.nreadsd2 * a.nrepeats * 2}

(***************************************************************************)
(* coreutils sparse_copy: every block is read, and written by a request    *)
(* linked to the read; the read at the end of the file is not linked.      *)
(***************************************************************************)
SparseCopy ==
  [total_dims |-> 1,
   start |-> "read_src",
   node_type |-> [read_src |-> "pure", stop_loop |-> "branch", write_dst |-> "seff",
                  continue |-> "branch"],
   next_node |-> [read_src |-> "stop_loop", write_dst |-> "continue"],
   weak |-> {},
   children |-> [stop_loop |-> <<"end", "write_dst">>, continue |-> <<"read_src">>],
   epoch_dims |-> [stop_loop |-> <<-1, -1>>, continue |-> <<0>>],
   assoc_dims |-> [n \in {"read_src", "stop_loop", "write_dst", "continue"} |-> {0}]]

SparseCopyLinks(a) == {"read_src"} \X (0 .. (a.num_blocks - 1))
SparseCopyDepends(a) == {<< <<"read_src", s>>, <<"write_dst", s>> >> : s \in 0 .. (a.num_blocks - 1)}

SparseCopyDecision(a, b, e) ==
  IF b = "stop_loop" /\ e[0] < a.num_blocks THEN 1 ELSE 0

(* Mutation: the write waits until the data has been read. *)
SparseCopyArgReady_Finished(a, n, e, done, st) ==
  IF n = "read_src" THEN {TRUE}
  ELSE {e[0] \in DOMAIN st["read_src"] /\ st["read_src"][e[0]] = "finished"}

(* The write needs the internal buffer of the read, which exists if the    *)
(* arguments of the read were generated, not checked.                      *)
SparseCopyArgReady(a, n, e, done, st) ==
  IF n = "read_src" THEN {TRUE}
  ELSE {e[0] \in DOMAIN st["read_src"] /\ st["read_src"][e[0]] # "argready"}

(***************************************************************************)
(* coreutils du_files: one fstatat per entry.  The next entry is known in  *)
(* advance only inside a segment of regular files; that there is none is   *)
(* never known in advance.                                                 *)
(***************************************************************************)
DuFiles ==
  [total_dims |-> 1,
   start |-> "fstatat",
   node_type |-> [fstatat |-> "pure", next_file |-> "branch"],
   next_node |-> [fstatat |-> "next_file"],
   weak |-> {},
   children |-> [next_file |-> <<"fstatat", "end">>],
   epoch_dims |-> [next_file |-> <<0, -1>>],
   assoc_dims |-> [fstatat |-> {0}, next_file |-> {0}]]

DuFilesDecision(a, b, e) == IF e[0] + 1 < a.num_files THEN 0 ELSE 1
DuFilesCanDecide(a, b, e, done) == IF e[0] + 1 < a.num_files THEN BOOLEAN ELSE {FALSE}

(***************************************************************************)
(* demo-cpp weak_edge: the function may return between the two preads.     *)
(***************************************************************************)
WeakEdge ==
  [total_dims |-> 1,
   start |-> "pwrite",
   node_type |-> [pwrite |-> "seff", pread0 |-> "pure", pread1 |-> "pure",
                  branch |-> "branch"],
   next_node |-> [pwrite |-> "pread0", pread0 |-> "pread1", pread1 |-> "branch"],
   weak |-> {"pread0"},
   children |-> [branch |-> <<"pwrite", "end">>],
   epoch_dims |-> [branch |-> <<0, -1>>],
   assoc_dims |-> [n \in {"pwrite", "pread0", "pread1", "branch"} |-> {0}]]

WeakEdgeDepends(a) ==
  LET all == {"pwrite", "pread0", "pread1"} \X (0 .. (a.nrepeats - 1))
  IN  {d \in all \X all : "pwrite" \in {d[1][1], d[2][1]}}

WeakEdgeDecision(a, b, e) == IF e[0] + 1 < a.nrepeats THEN 0 ELSE 1
WeakEdgeArgReady(a, n, e, done, st) ==
  IF n = "pwrite" THEN {TRUE} ELSE {done["pwrite"] >= e[0] + 1}
=============================================================================
