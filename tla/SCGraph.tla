------------------------------ MODULE SCGraph -------------------------------
(***************************************************************************)
(* The foreaction graph as libforeactor keeps it: nodes, branch nodes with *)
(* back-pointing edges, epoch lists, and value pools keyed by the SUM of   *)
(* the epochs of a node's associated dimensions.  The session and the      *)
(* pre-issuing algorithm are those of module PreIssue, on nodes and epochs *)
(* instead of positions on a path; the refinement at the end shows that    *)
(* the epoch bookkeeping and the pools implement that module.              *)
(***************************************************************************)
EXTENDS Integers, Sequences, FiniteSets, FiniteSetsExt, Functions

CONSTANTS
  Args,            \* the arguments the wrapped functions are called with
  GraphOf(_),      \* the graph of the function called with arguments a (Plugins, DemoPlugins)
  Decision(_, _, _),         \* the branch taken with arguments a at node b in epoch e
  CanDecide(_, _, _, _),     \* what a decision generator may return during a peek
  ArgReady(_, _, _, _, _),   \* what an argument generator may return
  LinkSet(_),      \* with arguments a: the instances whose link flag is set
  Depends(_)       \* with arguments a: pairs of instances, the second needs the first

End == "end"       \* the null pointer at the end of the graph

VARIABLES
  pc,
  args,        \* curr_args of the plugin, the arguments of this session
  frontier, frontier_epoch,
  peekhead, peekhead_edge, peekhead_epoch, peekhead_distance, peekhead_hit_end,
  weakedge_distance, prepared_distance, num_prepared,
  stage,       \* ValuePool<SyscallStage> of every syscall node
  decision,    \* ValuePool<int> of every branch node
  prepared,    \* IOEngine::prepared, entries <<node, epoch_sum>>
  onthefly,    \* IOEngine::onthefly
  chain,       \* pairs <<e, f>>: f is linked (IOSQE_IO_HARDLINK) to e, yet to run
  cq,          \* completions the engine has posted
  runs,        \* history: the entries run in this session, with their number
  calls        \* history: number of syscalls made in this session

Graph == GraphOf(args)
Depth == Graph.pre_issue_depth
Branches(g) == {n \in DOMAIN g.node_type : g.node_type[n] = "branch"}
BranchNodes == Branches(Graph)
SyscallNodes == DOMAIN Graph.node_type \ BranchNodes
Dims == 0 .. (Graph.total_dims - 1)
ZeroEpoch == [d \in Dims |-> 0]

distances == <<weakedge_distance, prepared_distance, num_prepared>>
pools == <<stage, decision>>
engineVars == <<prepared, onthefly, chain, cq, runs>>
vars == <<pc, args, frontier, frontier_epoch, peekhead, peekhead_edge, peekhead_epoch,
          peekhead_distance, peekhead_hit_end, distances, pools, engineVars, calls>>

-----------------------------------------------------------------------------
(* ValuePool: a partial function from epoch sums to values. *)
EmptyPool == << >>
Has(pool, s) == s \in DOMAIN pool
Set(pool, s, v) == [t \in DOMAIN pool \cup {s} |-> IF t = s THEN v ELSE pool[t]]
Remove(pool, s) == Restrict(pool, DOMAIN pool \ {s})

(* EpochList::Sum over the associated dimensions of a node of graph g. *)
SumIn(g, n, e) == MapThenSumSet(LAMBDA d : e[d], g.assoc_dims[n])
EpochSum(n, e) == SumIn(Graph, n, e)

(* The child for decision k, and the epoch beyond the edge to it.  *)
Child(g, b, k) == g.children[b][k + 1]
BackEdge(g, b, k, e) ==
  LET dim == g.epoch_dims[b][k + 1]
  IN  IF dim >= 0 THEN [e EXCEPT ![dim] = @ + 1] ELSE e

(* The way of the application through the graph, and the syscalls on it. *)
RECURSIVE WalkFrom(_, _, _, _)
WalkFrom(g, a, n, e) ==
  <<[node |-> n, epoch |-> e]>> \o
  (CASE n = End -> << >>
     [] n \in Branches(g) ->
          LET k == Decision(a, n, e) IN WalkFrom(g, a, Child(g, n, k), BackEdge(g, n, k, e))
     [] OTHER -> WalkFrom(g, a, g.next_node[n], e))

Syscalls(g, walk) == SelectSeq(walk, LAMBDA w : w.node \notin Branches(g) \cup {End})

Walks == [a \in Args |-> LET g == GraphOf(a)
                         IN  WalkFrom(g, a, g.start, [d \in 0 .. (g.total_dims - 1) |-> 0])]
Paths == [a \in Args |-> Syscalls(GraphOf(a), Walks[a])]
Path == Paths[args]

PickBranch(b, k, e) == [node |-> Child(Graph, b, k), epoch |-> BackEdge(Graph, b, k, e)]

(* Mutation: the decision of an epoch that has been passed is kept. *)
Passed_Keep(dec, b, s) == dec

Passed(dec, b, s) == [dec EXCEPT ![b] = Remove(@, s)]

(* SCGraph::GetFrontier: follow branches, deciding them if need be. *)
RECURSIVE GetFrontier(_, _, _)
GetFrontier(n, e, dec) ==
  IF n \notin BranchNodes
  THEN [node |-> n, epoch |-> e, decision |-> dec]
  ELSE LET s == EpochSum(n, e)
           k == IF Has(dec[n], s) THEN dec[n][s] ELSE Decision(args, n, e)
           p == PickBranch(n, k, e)
       IN  GetFrontier(p.node, p.epoch, Passed(dec, n, s))

(* What a plugin's generators can tell: how many calls of every node have  *)
(* returned, and which instances of a node are in which stage.             *)
Returned == [n \in SyscallNodes |-> Cardinality({k \in 1 .. (calls - 1) : Path[k].node = n})]

(* The inner loop of the peek: follow branches until a syscall node, the   *)
(* end, or a decision that cannot be generated yet.  The result is the set *)
(* of possible outcomes.                                                   *)
RECURSIVE PeekBranches(_, _, _)
PeekBranches(n, e, dec) ==
  IF n \notin BranchNodes
  THEN {[node |-> n, epoch |-> e, decision |-> dec, barrier |-> FALSE]}
  ELSE LET s == EpochSum(n, e)
           k == IF Has(dec[n], s) THEN dec[n][s] ELSE Decision(args, n, e)
           p == PickBranch(n, k, e)
           can == IF Has(dec[n], s) THEN {TRUE} ELSE CanDecide(args, n, e, Returned)
       IN  UNION {IF ready
                  THEN PeekBranches(p.node, p.epoch, [dec EXCEPT ![n] = Set(@, s, k)])
                  ELSE {[node |-> n, epoch |-> e, decision |-> dec, barrier |-> TRUE]}
                  : ready \in can}

StageOf(n, e) ==
  LET s == EpochSum(n, e) IN IF Has(stage[n], s) THEN stage[n][s] ELSE "none"

(* Mutation: a weak edge is peeked across like any other. *)
EdgeOf_Must(n) == "must"

EdgeOf(n) == IF n \in Graph.weak THEN "weak" ELSE "must"

-----------------------------------------------------------------------------
Init ==
  /\ pc = "out"
  /\ args \in Args
  /\ frontier = Graph.start
  /\ frontier_epoch = ZeroEpoch
  /\ peekhead = End
  /\ peekhead_edge = "base"
  /\ peekhead_epoch = ZeroEpoch
  /\ peekhead_distance = -1
  /\ peekhead_hit_end = FALSE
  /\ weakedge_distance = -1
  /\ prepared_distance = -1
  /\ num_prepared = 0
  /\ stage = [n \in SyscallNodes |-> EmptyPool]
  /\ decision = [b \in BranchNodes |-> EmptyPool]
  /\ prepared = << >>
  /\ onthefly = {}
  /\ chain = {}
  /\ cq = {}
  /\ runs = << >>
  /\ calls = 0

Enter ==
  /\ pc = "out"
  /\ args' \in {a \in Args : GraphOf(a) = Graph}
  /\ pc' = "app"
  /\ runs' = << >>
  /\ calls' = 0
  /\ UNCHANGED <<frontier, frontier_epoch, peekhead, peekhead_edge, peekhead_epoch,
                 peekhead_distance, peekhead_hit_end, distances, pools,
                 prepared, onthefly, chain, cq>>

-----------------------------------------------------------------------------
(* A hijacked syscall: GetFrontier, CheckArgs, and the entry of Issue().   *)
Call ==
  /\ pc = "app"
  /\ calls < Len(Path)
  /\ LET f == GetFrontier(frontier, frontier_epoch, decision)
         s == EpochSum(f.node, f.epoch)
     IN  /\ frontier' = f.node
         /\ frontier_epoch' = f.epoch
         /\ decision' = f.decision
         /\ stage' = IF Has(stage[f.node], s) THEN stage
                     ELSE [stage EXCEPT ![f.node] = Set(@, s, "argready")]
  /\ calls' = calls + 1
  /\ UNCHANGED args

CallNoPeek ==
  /\ Depth = 0 \/ peekhead_hit_end
  /\ Call
  /\ pc' = "submit"
  /\ UNCHANGED <<peekhead, peekhead_edge, peekhead_epoch, peekhead_distance,
                 peekhead_hit_end, distances, engineVars>>

(* Mutation: the stuck peek keeps its own epoch. *)
CatchUp_NoEpoch ==
  IF peekhead_distance < 0
  THEN /\ peekhead' = Graph.next_node[frontier']
       /\ peekhead_edge' = EdgeOf(frontier')
       /\ peekhead_distance' = 0
       /\ UNCHANGED peekhead_epoch
  ELSE UNCHANGED <<peekhead, peekhead_edge, peekhead_epoch, peekhead_distance>>

CatchUp ==
  IF peekhead_distance < 0
  THEN /\ peekhead' = Graph.next_node[frontier']
       /\ peekhead_edge' = EdgeOf(frontier')
       /\ peekhead_epoch' = frontier_epoch'
       /\ peekhead_distance' = 0
  ELSE UNCHANGED <<peekhead, peekhead_edge, peekhead_epoch, peekhead_distance>>

CallPeek ==
  /\ Depth > 0 /\ ~peekhead_hit_end
  /\ Call
  /\ CatchUp
  /\ peekhead_hit_end' = (peekhead' = End)
  /\ pc' = "peek"
  /\ UNCHANGED <<distances, engineVars>>

-----------------------------------------------------------------------------
(* One round of the peek loop, as in PreIssue.  The code also moves past a *)
(* node it prepared in an earlier round; no such node is ever met (the     *)
(* peek would have no step here, and TLC would report the deadlock).       *)

Peeking == pc = "peek" /\ peekhead_distance < Depth /\ peekhead # End

WeakDistance ==
  IF peekhead_edge = "weak" THEN peekhead_distance ELSE weakedge_distance

PeekDone ==
  /\ pc = "peek"
  /\ peekhead_distance >= Depth \/ peekhead = End
  /\ pc' = "submit"
  /\ UNCHANGED <<args, frontier, frontier_epoch, peekhead, peekhead_edge, peekhead_epoch,
                 peekhead_distance, peekhead_hit_end, distances, pools,
                 engineVars, calls>>

(* The round ends at a barrier or at the end of the graph. *)
PeekStop(w) ==
  /\ Peeking
  /\ w.barrier \/ w.node = End
  /\ weakedge_distance' = WeakDistance
  /\ peekhead' = w.node
  /\ peekhead_epoch' = w.epoch
  /\ decision' = w.decision
  /\ peekhead_hit_end' = ~w.barrier
  /\ pc' = "submit"
  /\ UNCHANGED <<args, frontier, frontier_epoch, peekhead_edge, peekhead_distance,
                 prepared_distance, num_prepared, stage, engineVars, calls>>

(* The round reaches syscall node w.node and moves on behind it. *)
PeekSyscall(w) ==
  /\ Peeking
  /\ ~w.barrier /\ w.node # End
  /\ weakedge_distance' = WeakDistance
  /\ peekhead' = Graph.next_node[w.node]
  /\ peekhead_edge' = EdgeOf(w.node)
  /\ peekhead_epoch' = w.epoch
  /\ peekhead_distance' = peekhead_distance + 1
  /\ decision' = w.decision
  /\ UNCHANGED <<pc, args, frontier, frontier_epoch, peekhead_hit_end, onthefly, chain,
                 cq, runs, calls>>

GenerateArgs(w) ==
  IF StageOf(w.node, w.epoch) = "none" THEN ArgReady(args, w.node, w.epoch, Returned, stage) ELSE {TRUE}

PeekNotReady(w) ==
  /\ PeekSyscall(w)
  /\ FALSE \in GenerateArgs(w)
  /\ UNCHANGED <<stage, prepared, prepared_distance, num_prepared>>

Foreactable(n) == ~(WeakDistance >= 0 /\ Graph.node_type[n] = "seff")

PeekUnforeactable(w) ==
  /\ PeekSyscall(w)
  /\ TRUE \in GenerateArgs(w)
  /\ StageOf(w.node, w.epoch) \in {"none", "argready"}
  /\ ~Foreactable(w.node)
  /\ stage' = [stage EXCEPT ![w.node] = Set(@, EpochSum(w.node, w.epoch), "argready")]
  /\ UNCHANGED <<prepared, prepared_distance, num_prepared>>

PeekPrepare(w) ==
  /\ PeekSyscall(w)
  /\ TRUE \in GenerateArgs(w)
  /\ StageOf(w.node, w.epoch) \in {"none", "argready"}
  /\ Foreactable(w.node)
  /\ LET s == EpochSum(w.node, w.epoch)
     IN  /\ stage' = [stage EXCEPT ![w.node] = Set(@, s, "prepared")]
         /\ prepared' = Append(prepared, <<w.node, s>>)
  /\ prepared_distance' = IF num_prepared = 0 THEN peekhead_distance
                          ELSE prepared_distance
  /\ num_prepared' = num_prepared + 1

Peek ==
  \E w \in PeekBranches(peekhead, peekhead_epoch, decision) :
    \/ PeekStop(w)
    \/ PeekNotReady(w) \/ PeekUnforeactable(w) \/ PeekPrepare(w)

-----------------------------------------------------------------------------
DanglingLink == prepared # << >> /\ prepared[Len(prepared)] \in LinkSet(args)

(* Mutation: a dangling link does not hold the submission back. *)
ShouldSubmit_Dangling ==
  /\ num_prepared > 0
  /\ num_prepared >= Depth \div 2 \/ prepared_distance <= 0

ShouldSubmit ==
  /\ num_prepared > 0
  /\ ~DanglingLink
  /\ num_prepared >= Depth \div 2 \/ prepared_distance <= 0

SetStages(entries, v) ==
  [n \in SyscallNodes |-> [s \in DOMAIN stage[n] |->
     IF <<n, s>> \in entries THEN v ELSE stage[n][s]]]

(* The requests a batch links: IOSQE_IO_HARDLINK binds a request to the    *)
(* next one of the same submission.                                        *)
Chained(batch) ==
  {<<batch[k], batch[k + 1]>> : k \in {j \in 1 .. (Len(batch) - 1) : batch[j] \in LinkSet(args)}}

SubmitAll ==
  /\ pc = "submit"
  /\ ShouldSubmit
  /\ stage' = SetStages(Range(prepared), "onthefly")
  /\ onthefly' = onthefly \cup Range(prepared)
  /\ chain' = chain \cup Chained(prepared)
  /\ prepared' = << >>
  /\ num_prepared' = 0
  /\ prepared_distance' = -1
  /\ pc' = "self"
  /\ UNCHANGED <<args, frontier, frontier_epoch, peekhead, peekhead_edge, peekhead_epoch,
                 peekhead_distance, peekhead_hit_end, weakedge_distance, decision,
                 cq, runs, calls>>

SubmitNone ==
  /\ pc = "submit"
  /\ ~ShouldSubmit
  /\ pc' = "self"
  /\ UNCHANGED <<args, frontier, frontier_epoch, peekhead, peekhead_edge, peekhead_epoch,
                 peekhead_distance, peekhead_hit_end, distances, pools,
                 engineVars, calls>>

Me == <<frontier, EpochSum(frontier, frontier_epoch)>>
Ran(entry) == Set(runs, entry, (IF Has(runs, entry) THEN runs[entry] ELSE 0) + 1)

SyscallSync ==
  /\ pc = "self"
  /\ StageOf(frontier, frontier_epoch) = "argready"
  /\ stage' = SetStages({Me}, "finished")
  /\ runs' = Ran(Me)
  /\ UNCHANGED <<pc, args, frontier, frontier_epoch, peekhead, peekhead_edge,
                 peekhead_epoch, peekhead_distance, peekhead_hit_end, distances,
                 decision, prepared, onthefly, chain, cq, calls>>

CmplAsync(entry) ==
  /\ pc = "self"
  /\ StageOf(frontier, frontier_epoch) = "onthefly"
  /\ entry \in cq
  /\ cq' = cq \ {entry}
  /\ onthefly' = onthefly \ {entry}
  /\ stage' = SetStages({entry}, "finished")
  /\ UNCHANGED <<pc, args, frontier, frontier_epoch, peekhead, peekhead_edge,
                 peekhead_epoch, peekhead_distance, peekhead_hit_end, distances,
                 decision, prepared, chain, runs, calls>>

(* Mutation: the stage of the passed epoch stays in the pool. *)
RemoveOneEpoch_Keep == stage

RemoveOneEpoch == [stage EXCEPT ![frontier] = Remove(@, Me[2])]

(* The frontier moves to the next node; its epoch does not change until    *)
(* GetFrontier passes a back-pointing edge.                                *)
PushForward ==
  /\ pc = "self"
  /\ StageOf(frontier, frontier_epoch) = "finished"
  /\ stage' = RemoveOneEpoch
  /\ frontier' = Graph.next_node[frontier]
  /\ peekhead_distance' = peekhead_distance - 1
  /\ prepared_distance' = prepared_distance - 1
  /\ weakedge_distance' = weakedge_distance - 1
  /\ pc' = "app"
  /\ UNCHANGED <<args, frontier_epoch, peekhead, peekhead_edge, peekhead_epoch,
                 peekhead_hit_end, num_prepared, decision, engineVars, calls>>

-----------------------------------------------------------------------------
(* The application returns at the end of its path, before its first call,  *)
(* or early, across a weak edge.                                           *)
MayLeave ==
  \/ calls \in {0, Len(Path)}
  \/ calls > 0 /\ Path[calls].node \in Graph.weak

Leave ==
  /\ pc = "app"
  /\ MayLeave
  /\ prepared' = << >>
  /\ pc' = "drain"
  /\ UNCHANGED <<args, frontier, frontier_epoch, peekhead, peekhead_edge, peekhead_epoch,
                 peekhead_distance, peekhead_hit_end, distances, pools,
                 onthefly, chain, cq, runs, calls>>

DrainOne(entry) ==
  /\ pc = "drain"
  /\ entry \in cq
  /\ cq' = cq \ {entry}
  /\ onthefly' = onthefly \ {entry}
  /\ UNCHANGED <<pc, args, frontier, frontier_epoch, peekhead, peekhead_edge,
                 peekhead_epoch, peekhead_distance, peekhead_hit_end, distances,
                 pools, prepared, chain, runs, calls>>

ResetEpochs == frontier_epoch' = ZeroEpoch /\ peekhead_epoch' = ZeroEpoch

(* Mutation: decisions nobody used survive the session. *)
ResetDecisions_Keep == decision

ResetDecisions == [b \in BranchNodes |-> EmptyPool]

ResetToStart ==
  /\ pc = "drain"
  /\ onthefly = {}
  /\ frontier' = Graph.start
  /\ ResetEpochs
  /\ peekhead' = End
  /\ peekhead_edge' = "base"
  /\ peekhead_distance' = -1
  /\ peekhead_hit_end' = FALSE
  /\ weakedge_distance' = -1
  /\ prepared_distance' = -1
  /\ num_prepared' = 0
  /\ stage' = [n \in SyscallNodes |-> EmptyPool]
  /\ decision' = ResetDecisions
  /\ pc' = "out"
  /\ UNCHANGED <<args, engineVars, calls>>

-----------------------------------------------------------------------------
(* The positions of the path for arguments a, counted from 0, and their    *)
(* nodes and engine entries.                                               *)
PosOn(a) == 0 .. (Len(Paths[a]) - 1)
NodeAt(a, i) == Paths[a][i + 1].node
EntryAt(a, i) == <<NodeAt(a, i), SumIn(GraphOf(a), NodeAt(a, i), Paths[a][i + 1].epoch)>>
PosOf(a, entry) == CHOOSE i \in PosOn(a) : EntryAt(a, i) = entry
EntriesOn(a) == {EntryAt(a, i) : i \in PosOn(a)}

(* The engine runs a submitted request, not before one it is chained to.   *)
EngineRun(entry) ==
  /\ entry \in onthefly \ cq
  /\ \A c \in chain : c[2] # entry
  /\ chain' = {c \in chain : c[1] # entry}
  /\ cq' = cq \cup {entry}
  /\ runs' = Ran(entry)
  /\ UNCHANGED <<pc, args, frontier, frontier_epoch, peekhead, peekhead_edge,
                 peekhead_epoch, peekhead_distance, peekhead_hit_end, distances,
                 pools, prepared, onthefly, calls>>

Next ==
  \/ Enter \/ CallNoPeek \/ CallPeek \/ PeekDone \/ Peek
  \/ SubmitAll \/ SubmitNone \/ SyscallSync \/ PushForward
  \/ Leave \/ ResetToStart
  \/ \E entry \in onthefly : CmplAsync(entry) \/ DrainOne(entry) \/ EngineRun(entry)

Spec == Init /\ [][Next]_vars

-----------------------------------------------------------------------------
(***************************************************************************)
(* Properties                                                              *)
(***************************************************************************)

(* Where a node and an epoch are met on the walk for arguments a. *)
WalkIndex(a, n, e) == CHOOSE k \in DOMAIN Walks[a] : Walks[a][k] = [node |-> n, epoch |-> e]

(* Every decision in a pool is the application's own, for a branch it has  *)
(* yet to come to: no decision of a passed epoch is left to be mistaken    *)
(* for a later one with the same epoch sum.                                *)
NoStaleDecision ==
  pc # "drain" =>
    \A b \in BranchNodes : \A s \in DOMAIN decision[b] :
      \E k \in WalkIndex(args, frontier, frontier_epoch) .. Len(Walks[args]) :
        LET w == Walks[args][k]
        IN  w.node = b /\ EpochSum(b, w.epoch) = s /\ Decision(args, b, w.epoch) = decision[b][s]

(* A syscall runs only after those it depends on, as the plugin's graph    *)
(* and generators (and links) are to ensure: the buffer it writes has been *)
(* read, the file it uses is open and not closed, the data it reads is     *)
(* written and not yet overwritten.                                        *)
DependenciesKept ==
  \A d \in Depends(args) :
    PosOf(args, d[1]) < PosOf(args, d[2]) /\ Has(runs, d[2]) => Has(runs, d[1])

-----------------------------------------------------------------------------
(***************************************************************************)
(* Refinement: read as positions on the path of the arguments a, the nodes *)
(* and epochs of a session with these arguments behave as module PreIssue  *)
(* says.  Between sessions the arguments may change, and with them the     *)
(* path, so that a step is a step for the arguments after it.              *)
(***************************************************************************)
Resolve(a, n, e) == Len(Syscalls(GraphOf(a), SubSeq(Walks[a], 1, WalkIndex(a, n, e) - 1)))

PI(a) == INSTANCE PreIssue WITH
  PathLen <- Len(Paths[a]),
  Depth <- GraphOf(a).pre_issue_depth,
  Seff <- {i \in PosOn(a) : GraphOf(a).node_type[NodeAt(a, i)] = "seff"},
  Weak <- {i \in PosOn(a) : NodeAt(a, i) \in GraphOf(a).weak},
  Link <- {i \in PosOn(a) : EntryAt(a, i) \in LinkSet(a)},
  Branch <- {i + 1 : i \in {j \in PosOn(a) :
                GraphOf(a).next_node[NodeAt(a, j)] \in Branches(GraphOf(a))}},
  frontier <- Resolve(a, frontier, frontier_epoch),
  peekhead <- IF peekhead_edge = "base" THEN 0 ELSE Resolve(a, peekhead, peekhead_epoch),
  stage <- [i \in PosOn(a) |-> StageOf(NodeAt(a, i), Paths[a][i + 1].epoch)],
  prepared <- [k \in DOMAIN prepared |-> PosOf(a, prepared[k])],
  onthefly <- {PosOf(a, entry) : entry \in onthefly},
  cq <- {PosOf(a, entry) : entry \in cq},
  runs <- [i \in PosOn(a) |-> IF Has(runs, EntryAt(a, i)) THEN runs[EntryAt(a, i)] ELSE 0]

(* Epoch lists and pools keyed by epoch sums implement the path: no two    *)
(* instances of a node that are alive together share a key, and distances, *)
(* stages and engine entries move as module PreIssue prescribes.           *)
ImplementsPreIssue ==
  /\ \A a \in Args : args = a => PI(a)!Init
  /\ [][\A a \in Args : args' = a => PI(a)!Next \/ UNCHANGED PI(a)!vars]_vars

IOE(a) == INSTANCE IOEngine WITH
  Depth <- GraphOf(a).pre_issue_depth,
  Entries <- EntriesOn(a),
  Linked <- LinkSet(a),
  done <- cq,
  cleaning <- (pc = "drain"),
  splits <- FALSE

(* The graph uses its engine as module IOEngine allows: no request is      *)
(* prepared twice, no batch is submitted that ends in a link, nothing is   *)
(* left when the session ends, and the requests prepared and in flight     *)
(* stay within the bounds on which the rings of IOUring rely.              *)
UsesEngine ==
  /\ \A a \in Args : args = a => IOE(a)!Init
  /\ [][\A a \in Args : args' = a => IOE(a)!Next \/ UNCHANGED IOE(a)!vars]_vars
=============================================================================
