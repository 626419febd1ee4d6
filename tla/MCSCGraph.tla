----------------------------- MODULE MCSCGraph ------------------------------
(* The plugins' graphs as instances of SCGraph for TLC.  The arguments say *)
(* which plugin's function is called; a process keeps to one plugin.       *)
EXTENDS SCGraph, Plugins, DemoPlugins, AppPlugins, TLC

Of(plugin, A) == {[plugin |-> plugin] @@ a : a \in A}

LoopingArgs == Of("looping", {[nrepeats |-> 2, nwrites |-> 2, nreadsd2 |-> 2]})
SparseCopyArgs == Of("sparse_copy", {[num_blocks |-> 3]})
DuFilesArgs == Of("du_files", {[num_files |-> 5]})
WeakEdgeArgs == Of("weak_edge", {[nrepeats |-> 3]})
(* The graph of weak_edge, with generators that may be ready at any time. *)
AnyWeakEdgeArgs == Of("any_weak_edge", {[nrepeats |-> 3]})

PluginArgs ==
  LoopingArgs \cup SparseCopyArgs \cup DuFilesArgs \cup WeakEdgeArgs \cup AnyWeakEdgeArgs
  \cup Of("branching", BranchingArgs) \cup Of("ldb_get", LdbGetArgs)
  \cup Of("pread_leaves", {[num_leaves |-> 4]}) \cup Of("pwrite_leaves", {[num_leaves |-> 4]})
  \cup Of("version_get", VersionGetArgs) \cup Of("simple1", LineArgs) \cup Of("simple2", LineArgs)

Built(graph, pre_issue_depth) == [pre_issue_depth |-> pre_issue_depth] @@ graph

PluginGraph(a) ==
  CASE a.plugin = "looping" -> Built(Looping, 4)
    [] a.plugin = "sparse_copy" -> Built(SparseCopy, 3)
    [] a.plugin = "du_files" -> Built(DuFiles, 3)
    [] a.plugin \in {"weak_edge", "any_weak_edge"} -> Built(WeakEdge, 3)
    [] a.plugin = "branching" -> Built(Branching, 8)
    [] a.plugin = "ldb_get" -> Built(LdbGet, 5)
    [] a.plugin = "pread_leaves" -> Built(PreadLeaves, 3)
    [] a.plugin = "pwrite_leaves" -> Built(PwriteLeaves, 3)
    [] a.plugin = "version_get" -> Built(VersionGet, 3)
    [] a.plugin = "simple1" -> Built(Simple1, 1)
    [] a.plugin = "simple2" -> Built(Simple2, 4)

PluginDecision(a, b, e) ==
  CASE a.plugin = "looping" -> LoopingDecision(a, b, e)
    [] a.plugin = "sparse_copy" -> SparseCopyDecision(a, b, e)
    [] a.plugin = "du_files" -> DuFilesDecision(a, b, e)
    [] a.plugin \in {"weak_edge", "any_weak_edge"} -> WeakEdgeDecision(a, b, e)
    [] a.plugin = "branching" -> BranchingDecision(a, b, e)
    [] a.plugin = "ldb_get" -> LdbGetDecision(a, b, e)
    [] a.plugin \in {"pread_leaves", "pwrite_leaves"} -> BlocksDecision(a, b, e)
    [] a.plugin = "version_get" -> VersionGetDecision(a, b, e)

PluginCanDecide(a, b, e, done) ==
  CASE a.plugin = "du_files" -> DuFilesCanDecide(a, b, e, done)
    [] a.plugin = "branching" -> BranchingCanDecide(a, b, e, done)
    [] OTHER -> AlwaysDecided(a, b, e, done)

PluginArgReady(a, n, e, done, st) ==
  CASE a.plugin = "looping" -> LoopingArgReady(a, n, e, done, st)
    [] a.plugin = "sparse_copy" -> SparseCopyArgReady(a, n, e, done, st)
    [] a.plugin = "weak_edge" -> WeakEdgeArgReady(a, n, e, done, st)
    [] a.plugin = "branching" -> BranchingArgReady(a, n, e, done, st)
    [] a.plugin = "ldb_get" -> LdbGetArgReady(a, n, e, done, st)
    [] a.plugin \in {"pread_leaves", "pwrite_leaves"} -> BlocksArgReady(a, n, e, done, st)
    [] a.plugin = "version_get" -> VersionGetArgReady(a, n, e, done, st)
    [] a.plugin = "simple1" -> Simple1ArgReady(a, n, e, done, st)
    [] a.plugin = "simple2" -> Simple2ArgReady(a, n, e, done, st)
    [] OTHER -> AnyArgReady(a, n, e, done, st)

PluginLinks(a) == IF a.plugin = "sparse_copy" THEN SparseCopyLinks(a) ELSE NoLinks(a)

PluginDepends(a) ==
  CASE a.plugin = "looping" -> LoopingDepends(a)
    [] a.plugin = "sparse_copy" -> SparseCopyDepends(a)
    [] a.plugin = "weak_edge" -> WeakEdgeDepends(a)
    [] a.plugin = "branching" -> BranchingDepends(a)
    [] a.plugin = "ldb_get" -> LdbGetDepends(a)
    [] a.plugin = "simple1" -> Simple1Depends(a)
    [] a.plugin = "simple2" -> Simple2Depends(a)
    [] OTHER -> NoDependencies(a)
=============================================================================
