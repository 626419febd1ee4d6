------------------------------ MODULE PreIssue ------------------------------
(***************************************************************************)
(* The pre-issuing algorithm of libforeactor, SyscallNode::Issue() in      *)
(* core/scg_nodes.cpp, together with the session around it                 *)
(* (foreactor_EnterSCGraph / foreactor_LeaveSCGraph) and the interface of  *)
(* the IOEngine it submits to.                                             *)
(*                                                                         *)
(* The foreaction graph is abstracted to the PATH the wrapped function     *)
(* takes through it: the branch decisions fix one sequence of syscall      *)
(* instances (node, epoch), and a position 0, 1, 2... on that sequence     *)
(* stands for one instance.  What a plugin decides at run time stays       *)
(* nondeterministic: whether an argument generator is ready when the peek  *)
(* reaches it, and whether a branch decision can already be made.  Module  *)
(* SCGraph keeps the graph, the epochs and the value pools, and implements *)
(* this module.                                                            *)
(*                                                                         *)
(* One thread runs the wrapped function and the algorithm; the other actor *)
(* is the engine (kernel workers of io_uring, or the user thread pool),    *)
(* which executes submitted requests in any order that respects links.     *)
(***************************************************************************)
EXTENDS Integers, Sequences, FiniteSets

CONSTANTS
  PathLen,   \* number of syscalls on the path up to the end of the graph
  Depth,     \* scgraph->pre_issue_depth
  Seff,      \* positions whose node is NODE_SC_SEFF (side effects)
  Weak,      \* positions whose outgoing edge is EDGE_WEAK
  Link,      \* positions whose argument generator sets *link
  Branch     \* positions, or PathLen, that a BranchNode leads to

Pos == 0 .. (PathLen - 1)

(***************************************************************************)
(* The path, and the contract of a plugin that links requests: a linked    *)
(* request has a successor, which is not linked itself and which no weak   *)
(* edge within the peek window keeps from being pre-issued.  Both plugins  *)
(* that link (demo-cpp linking, coreutils sparse_copy) link a pread to the *)
(* pwrite of the same block and have no weak edge.                         *)
(***************************************************************************)
ASSUME PathAssumption ==
  /\ PathLen \in Nat \ {0}
  /\ Depth \in Nat
  /\ Seff \subseteq Pos
  /\ Weak \subseteq Pos
  /\ Link \subseteq Pos
  /\ Branch \subseteq 1 .. PathLen

ASSUME LinkAssumption ==
  \A i \in Link :
    /\ i + 1 \in Pos \ Link
    /\ i + 1 \in Seff => \A j \in Weak : j > i \/ j <= i - Depth

VARIABLES
  pc,                  \* where the application thread is
  frontier,            \* position of the next syscall the application makes
  peekhead,            \* position the peek has reached
  peekhead_distance,
  peekhead_hit_end,
  weakedge_distance,
  prepared_distance,
  num_prepared,
  stage,               \* SyscallNode::stage of every instance
  prepared,            \* IOEngine::prepared
  onthefly,            \* IOEngine::onthefly
  cq,                  \* executed requests whose completion is not harvested
  runs,                \* history: how often each syscall ran in this session
  calls                \* history: syscalls the application made in this session

graphVars == <<frontier, peekhead, peekhead_distance, peekhead_hit_end,
               weakedge_distance, prepared_distance, num_prepared, stage>>
engineVars == <<prepared, onthefly, cq, runs>>
vars == <<pc, graphVars, engineVars, calls>>

-----------------------------------------------------------------------------
(* SyscallStage.  "none" is an absent pool entry: STAGE_NOTREADY is never  *)
(* stored, an instance whose arguments are unknown has no entry.           *)
Stages == {"none", "argready", "prepared", "onthefly", "finished"}

(* The SCGraph and IOEngine constructors; nothing is active. *)
Init ==
  /\ pc = "out"
  /\ frontier = 0
  /\ peekhead = 0
  /\ peekhead_distance = -1
  /\ peekhead_hit_end = FALSE
  /\ weakedge_distance = -1
  /\ prepared_distance = -1
  /\ num_prepared = 0
  /\ stage = [i \in Pos |-> "none"]
  /\ prepared = << >>
  /\ onthefly = {}
  /\ cq = {}
  /\ runs = [i \in Pos |-> 0]
  /\ calls = 0

(* foreactor_EnterSCGraph: the graph becomes the active one. *)
Enter ==
  /\ pc = "out"
  /\ pc' = "app"
  /\ runs' = [i \in Pos |-> 0]
  /\ calls' = 0
  /\ UNCHANGED <<graphVars, prepared, onthefly, cq>>

-----------------------------------------------------------------------------
(* Mutation: the arguments are always taken as new. *)
CheckArgs_Overwrite == stage' = [stage EXCEPT ![frontier] = "argready"]

(* The application makes its next syscall: GetFrontier, CheckArgs (which   *)
(* fills in the arguments of an instance that has none yet) and the entry  *)
(* of Issue().                                                             *)
CheckArgs ==
  stage' = IF stage[frontier] = "none"
           THEN [stage EXCEPT ![frontier] = "argready"]
           ELSE stage

CallNoPeek ==
  /\ pc = "app"
  /\ frontier < PathLen
  /\ Depth = 0 \/ peekhead_hit_end
  /\ CheckArgs
  /\ calls' = calls + 1
  /\ pc' = "submit"
  /\ UNCHANGED <<frontier, peekhead, peekhead_distance, peekhead_hit_end,
                 weakedge_distance, prepared_distance, num_prepared, engineVars>>

(* Mutation: every call restarts the peek right after the frontier. *)
CatchUp_Always == peekhead' = frontier + 1 /\ peekhead_distance' = 0

(* The peek catches up with a frontier that has overtaken it. *)
CatchUp ==
  IF peekhead_distance < 0
  THEN peekhead' = frontier + 1 /\ peekhead_distance' = 0
  ELSE UNCHANGED <<peekhead, peekhead_distance>>

(* A peekhead that is a null next_node is the end of the graph. *)
CallPeek ==
  /\ pc = "app"
  /\ frontier < PathLen
  /\ Depth > 0 /\ ~peekhead_hit_end
  /\ CheckArgs
  /\ calls' = calls + 1
  /\ CatchUp
  /\ peekhead_hit_end' = (peekhead' = PathLen /\ PathLen \notin Branch)
  /\ pc' = "peek"
  /\ UNCHANGED <<frontier, weakedge_distance, prepared_distance, num_prepared,
                 engineVars>>

-----------------------------------------------------------------------------
(* The peek loop.  Its local `depth` is Depth - peekhead_distance, and its *)
(* locals `next` and `edge` are peekhead and the edge into it.             *)
AtNull == peekhead = PathLen /\ (peekhead_hit_end \/ PathLen \notin Branch)

(* Mutation: the window is one too long. *)
Peeking_OffByOne ==
  /\ pc = "peek"
  /\ peekhead_distance <= Depth
  /\ ~AtNull

Peeking ==
  /\ pc = "peek"
  /\ peekhead_distance < Depth
  /\ ~AtNull

(* Mutation: only the edge just followed is looked at. *)
WeakDistance_LastEdge ==
  IF peekhead - 1 \in Weak THEN peekhead_distance ELSE -1

(* The furthest weak edge between the frontier and the node peeked at. *)
WeakDistance ==
  IF peekhead - 1 \in Weak THEN peekhead_distance ELSE weakedge_distance

(* Mutation: the kind of the node is ignored. *)
Foreactable_Always == TRUE

(* IsForeactable *)
Foreactable == ~(WeakDistance >= 0 /\ peekhead \in Seff)

PeekContinue ==
  /\ weakedge_distance' = WeakDistance
  /\ peekhead' = peekhead + 1
  /\ peekhead_distance' = peekhead_distance + 1
  /\ UNCHANGED <<pc, frontier, peekhead_hit_end, onthefly, cq, runs, calls>>

PeekDone ==
  /\ pc = "peek"
  /\ peekhead_distance >= Depth \/ AtNull
  /\ pc' = "submit"
  /\ UNCHANGED <<graphVars, engineVars, calls>>

(* A branch on the way cannot be decided yet.  The decision after a linked *)
(* request is always available (plugin contract).                          *)
PeekBarrier ==
  /\ Peeking
  /\ peekhead \in Branch
  /\ peekhead - 1 \notin Link
  /\ weakedge_distance' = WeakDistance
  /\ pc' = "submit"
  /\ UNCHANGED <<frontier, peekhead, peekhead_distance, peekhead_hit_end,
                 prepared_distance, num_prepared, stage, engineVars, calls>>

(* The branch decided leads to the end of the graph. *)
PeekEnd ==
  /\ Peeking
  /\ peekhead = PathLen
  /\ weakedge_distance' = WeakDistance
  /\ peekhead_hit_end' = TRUE
  /\ pc' = "submit"
  /\ UNCHANGED <<frontier, peekhead, peekhead_distance, prepared_distance,
                 num_prepared, stage, engineVars, calls>>

(* GenerateArgs fails: the instance is skipped for good.  The successor of *)
(* a linked request that has been prepared is ready (plugin contract).     *)
PeekNotReady ==
  /\ Peeking
  /\ peekhead \in Pos
  /\ stage[peekhead] = "none"
  /\ ~(peekhead - 1 \in Link /\ stage[peekhead - 1] = "prepared")
  /\ PeekContinue
  /\ UNCHANGED <<prepared_distance, num_prepared, stage, prepared>>

(* GenerateArgs succeeds, but a weak edge lies before a side effect. *)
PeekUnforeactable ==
  /\ Peeking
  /\ peekhead \in Pos
  /\ stage[peekhead] \in {"none", "argready"}
  /\ ~Foreactable
  /\ stage' = [stage EXCEPT ![peekhead] = "argready"]
  /\ PeekContinue
  /\ UNCHANGED <<prepared_distance, num_prepared, prepared>>

(* Mutation: prepared_distance follows the latest request. *)
EarliestPrepared_Latest == peekhead_distance

EarliestPrepared ==
  IF num_prepared = 0 THEN peekhead_distance ELSE prepared_distance

(* GenerateArgs succeeds and PrepAsync hands the request to the engine. *)
PeekPrepare ==
  /\ Peeking
  /\ peekhead \in Pos
  /\ stage[peekhead] \in {"none", "argready"}
  /\ Foreactable
  /\ stage' = [stage EXCEPT ![peekhead] = "prepared"]
  /\ prepared' = Append(prepared, peekhead)
  /\ prepared_distance' = EarliestPrepared
  /\ num_prepared' = num_prepared + 1
  /\ PeekContinue

-----------------------------------------------------------------------------
(* IOEngine::DanglingLink *)
DanglingLink == prepared # << >> /\ prepared[Len(prepared)] \in Link

(* Mutation: only the number of prepared requests counts. *)
ShouldSubmit_Batch ==
  /\ num_prepared > 0
  /\ ~DanglingLink
  /\ num_prepared >= Depth \div 2

ShouldSubmit ==
  /\ num_prepared > 0
  /\ ~DanglingLink
  /\ num_prepared >= Depth \div 2 \/ prepared_distance <= 0

InPrepared(i) == \E k \in 1 .. Len(prepared) : prepared[k] = i

(* Mutation: num_prepared is not cleared. *)
ClearPrepared_KeepCount == prepared_distance' = -1 /\ UNCHANGED num_prepared

ClearPrepared == prepared_distance' = -1 /\ num_prepared' = 0

SubmitAll ==
  /\ pc = "submit"
  /\ ShouldSubmit
  /\ stage' = [i \in Pos |-> IF InPrepared(i) THEN "onthefly" ELSE stage[i]]
  /\ onthefly' = onthefly \cup {i \in Pos : InPrepared(i)}
  /\ prepared' = << >>
  /\ ClearPrepared
  /\ pc' = "self"
  /\ UNCHANGED <<frontier, peekhead, peekhead_distance, peekhead_hit_end,
                 weakedge_distance, cq, runs, calls>>

(* Mutation: peek again until there is something to submit. *)
SubmitNone_Retry ==
  /\ pc = "submit"
  /\ ~ShouldSubmit
  /\ pc' = "peek"
  /\ UNCHANGED <<graphVars, engineVars, calls>>

SubmitNone ==
  /\ pc = "submit"
  /\ ~ShouldSubmit
  /\ pc' = "self"
  /\ UNCHANGED <<graphVars, engineVars, calls>>

-----------------------------------------------------------------------------
(* The frontier itself: a synchronous call if it has not been pre-issued.  *)
SyscallSync ==
  /\ pc = "self"
  /\ stage[frontier] = "argready"
  /\ stage' = [stage EXCEPT ![frontier] = "finished"]
  /\ runs' = [runs EXCEPT ![frontier] = @ + 1]
  /\ UNCHANGED <<pc, frontier, peekhead, peekhead_distance, peekhead_hit_end,
                 weakedge_distance, prepared_distance, num_prepared,
                 prepared, onthefly, cq, calls>>

(* CmplAsync: harvest completions, whosever they are, until mine is seen.  *)
CmplAsync(i) ==
  /\ pc = "self"
  /\ stage[frontier] = "onthefly"
  /\ i \in cq
  /\ cq' = cq \ {i}
  /\ onthefly' = onthefly \ {i}
  /\ stage' = [stage EXCEPT ![i] = "finished"]
  /\ UNCHANGED <<pc, frontier, peekhead, peekhead_distance, peekhead_hit_end,
                 weakedge_distance, prepared_distance, num_prepared,
                 prepared, runs, calls>>

(* Push the frontier forward, drop the instance's pool entries, return. *)
PushForward ==
  /\ pc = "self"
  /\ stage[frontier] = "finished"
  /\ stage' = [stage EXCEPT ![frontier] = "none"]
  /\ frontier' = frontier + 1
  /\ peekhead_distance' = peekhead_distance - 1
  /\ prepared_distance' = prepared_distance - 1
  /\ weakedge_distance' = weakedge_distance - 1
  /\ pc' = "app"
  /\ UNCHANGED <<peekhead, peekhead_hit_end, num_prepared, engineVars, calls>>

-----------------------------------------------------------------------------
(* foreactor_LeaveSCGraph: ClearAllReqs discards what is prepared and      *)
(* waits for what is on the fly, ResetToStart rewinds the graph.  The      *)
(* application returns from the wrapped function at the end of the path,   *)
(* before its first syscall, or early where the plugin drew a weak edge.   *)
MayLeave ==
  \/ frontier = 0
  \/ frontier = PathLen
  \/ frontier - 1 \in Weak

Leave ==
  /\ pc = "app"
  /\ MayLeave
  /\ prepared' = << >>
  /\ pc' = "drain"
  /\ UNCHANGED <<graphVars, onthefly, cq, runs, calls>>

(* Mutation: the completion is not marked as seen. *)
DrainOne_NotSeen(i) ==
  /\ pc = "drain"
  /\ i \in cq
  /\ UNCHANGED vars

DrainOne(i) ==
  /\ pc = "drain"
  /\ i \in cq
  /\ cq' = cq \ {i}
  /\ onthefly' = onthefly \ {i}
  /\ UNCHANGED <<pc, graphVars, prepared, runs, calls>>

(* Mutation: the clean-up does not wait for the engine. *)
Drained_NoWait == TRUE

Drained == onthefly = {}

ResetToStart ==
  /\ pc = "drain"
  /\ Drained
  /\ frontier' = 0
  /\ peekhead' = 0
  /\ peekhead_distance' = -1
  /\ peekhead_hit_end' = FALSE
  /\ weakedge_distance' = -1
  /\ prepared_distance' = -1
  /\ num_prepared' = 0
  /\ stage' = [i \in Pos |-> "none"]
  /\ pc' = "out"
  /\ UNCHANGED <<engineVars, calls>>

-----------------------------------------------------------------------------
(* The engine runs a submitted request and posts its completion; a request *)
(* linked to an earlier one waits for it.                                  *)
EngineRun(i) ==
  /\ i \in onthefly \ cq
  /\ ~(i - 1 \in Link /\ i - 1 \in onthefly \ cq)
  /\ cq' = cq \cup {i}
  /\ runs' = [runs EXCEPT ![i] = @ + 1]
  /\ UNCHANGED <<pc, graphVars, prepared, onthefly, calls>>

Issue ==
  \/ CallNoPeek \/ CallPeek
  \/ PeekDone \/ PeekBarrier \/ PeekEnd
  \/ PeekNotReady \/ PeekUnforeactable \/ PeekPrepare
  \/ SubmitAll \/ SubmitNone
  \/ SyscallSync \/ PushForward
  \/ \E i \in Pos : CmplAsync(i)

Session ==
  \/ Enter \/ Leave \/ ResetToStart
  \/ \E i \in Pos : DrainOne(i)

Next == Issue \/ Session \/ \E i \in Pos : EngineRun(i)

Spec == Init /\ [][Next]_vars

(* The thread does not stop inside the library, and the engine gets round  *)
(* to every submitted request it can run.  Nothing is assumed of the       *)
(* application: it may never make another syscall and never leave.         *)
LibraryStep ==
  \/ PeekDone \/ PeekBarrier \/ PeekEnd
  \/ PeekNotReady \/ PeekUnforeactable \/ PeekPrepare
  \/ SubmitAll \/ SubmitNone \/ SyscallSync \/ PushForward \/ ResetToStart
  \/ \E i \in Pos : CmplAsync(i) \/ DrainOne(i)

FairSpec ==
  /\ Spec
  /\ WF_vars(LibraryStep)
  /\ \A i \in Pos : WF_vars(EngineRun(i))

-----------------------------------------------------------------------------
(***************************************************************************)
(* Properties                                                              *)
(***************************************************************************)

(* Types of the counters, pools and engine sets. *)
TypeOK ==
  /\ pc \in {"out", "app", "peek", "submit", "self", "drain"}
  /\ frontier \in 0 .. PathLen
  /\ peekhead \in 0 .. PathLen
  /\ peekhead_distance \in Int
  /\ peekhead_hit_end \in BOOLEAN
  /\ weakedge_distance \in Int
  /\ prepared_distance \in Int
  /\ num_prepared \in Nat
  /\ stage \in [Pos -> Stages]
  /\ prepared \in Seq(Pos)
  /\ onthefly \in SUBSET Pos
  /\ cq \in SUBSET Pos
  /\ runs \in [Pos -> Nat]
  /\ calls \in Nat

InCall == pc \in {"peek", "submit", "self"}

(* The stage of an instance tells which engine set it is in, so the        *)
(* assertions of SubmitAll and CompleteOne (stage PREPARED resp. ONTHEFLY, *)
(* entry in the right set) hold, and num_prepared is the length of         *)
(* `prepared`, which SubmitAll's caller asserts.                           *)
EngineAgrees ==
  pc # "drain" =>
    /\ num_prepared = Len(prepared)
    /\ \A i \in Pos : InPrepared(i) <=> stage[i] = "prepared"
    /\ \A i \in Pos : i \in onthefly <=> stage[i] = "onthefly"
    /\ cq \subseteq onthefly

(* The counters that Issue() decrements once per call are true distances   *)
(* on the path: of the peekhead, of the earliest request still to be       *)
(* submitted, and of the furthest weak edge that the peek has crossed.     *)
DistancesTrue ==
  pc # "drain" =>
    /\ peekhead = frontier + 1 + peekhead_distance
    /\ prepared # << >> => prepared[1] = frontier + 1 + prepared_distance
    /\ weakedge_distance <= peekhead_distance
    /\ weakedge_distance >= 0 => frontier + weakedge_distance \in Weak
    /\ \A j \in Weak :
         frontier <= j /\ j < peekhead - 1 => weakedge_distance >= j - frontier

(* When the thread waits for its own request, that request has been        *)
(* submitted: assert(stage.Get(epoch) != STAGE_PREPARED) of Issue(), which *)
(* the submission policy and the ban on dangling links have to ensure.     *)
FrontierSubmitted == pc = "self" => stage[frontier] # "prepared"

(* The peek never comes back to an instance it has been at: the pool entry *)
(* it looks for is always absent, so no request can be prepared twice.     *)
PeekFresh == Peeking /\ peekhead \in Pos => stage[peekhead] = "none"

(* What the engine holds lies within Depth of the frontier, hence at most  *)
(* Depth + 1 requests are prepared or on the fly: the bound the length of  *)
(* the uring queues has to cover.                                          *)
InEngine == {i \in Pos : InPrepared(i)} \cup onthefly

InFlightBound ==
  /\ InEngine \subseteq frontier .. (frontier + Depth)
  /\ Cardinality(InEngine) <= Depth + 1
  /\ Len(prepared) <= Depth + 1

(* A side effect is handed to the engine, or run, only if the application  *)
(* is bound to ask for it: no weak edge lies between its latest syscall    *)
(* and the side effect (IsForeactable and the weak edge distance).         *)
Inevitable(i) ==
  i < calls \/ (calls > 0 /\ \A j \in Weak : j < calls - 1 \/ i <= j)

NoStrayEffect ==
  \A i \in Seff : i \in InEngine \/ runs[i] > 0 => Inevitable(i)

(* When the wrapped function has returned, early or not, the side effects  *)
(* that happened are those of the syscalls it made, each once.             *)
EffectsAreCalls ==
  pc \in {"drain", "out"} =>
    \A i \in Seff : i \notin onthefly /\ runs[i] = IF i < calls THEN 1 ELSE 0

(* No syscall runs twice (synchronously and by the engine, or by the       *)
(* engine twice), and one that has returned has run.                       *)
ExactlyOnce ==
  \A i \in Pos : runs[i] <= 1 /\ (i < frontier => runs[i] = 1)

(* After foreactor_LeaveSCGraph no request of the session is left in the   *)
(* engine and no completion is left unharvested, so buffers may be freed   *)
(* and the queues are clean for the next session.                          *)
NothingOutlivesSession ==
  pc = "out" => prepared = << >> /\ onthefly = {} /\ cq = {}

(* A syscall made through the library returns: Issue() does not wait for a *)
(* completion that never comes.                                            *)
CallReturns == InCall ~> pc = "app"

(* foreactor_LeaveSCGraph returns: CleanUp drains the engine.              *)
LeaveReturns == pc = "drain" ~> pc = "out"

-----------------------------------------------------------------------------
(***************************************************************************)
(* The inductive invariant behind the safety properties.                   *)
(***************************************************************************)
InSession == pc \in {"app", "peek", "submit", "self"}

SessionBounds ==
  /\ pc \in {"app", "drain"} => calls = frontier
  /\ InCall => calls = frontier + 1 /\ frontier \in Pos
  /\ pc = "out" => frontier = 0 /\ peekhead = 0 /\ ~peekhead_hit_end
  /\ pc \in {"drain", "out"} => prepared = << >>

PeekWindow ==
  /\ peekhead_distance <= Depth
  /\ pc = "peek" => peekhead_distance >= 0 /\ Depth > 0
  /\ peekhead_hit_end => peekhead = PathLen
  /\ onthefly \subseteq frontier .. (frontier + Depth)

(* Pool entries exist for instances between the frontier and the peekhead, *)
(* and for the frontier during its own call.                               *)
StageWindow ==
  pc # "drain" =>
    /\ \A i \in Pos : stage[i] # "none" =>
          i >= frontier /\ (i < peekhead \/ (InCall /\ i = frontier))
    /\ \A i \in Pos : stage[i] \in {"prepared", "onthefly"} => i < peekhead
    /\ InCall => stage[frontier] # "none"

(* `prepared` is in path order. *)
PreparedOrder ==
  /\ \A k \in 1 .. Len(prepared) :
        prepared[k] >= prepared[1] + k - 1 /\ prepared[k] < peekhead
  /\ prepared # << >> => Depth > 0 /\ frontier <= prepared[1]

(* A link that dangles is the request the peek saw last, it dangles only   *)
(* because the window is exhausted, and it delays the submission by one    *)
(* call at most, because the next request is not linked.                   *)
LinkPending ==
  /\ DanglingLink => peekhead = prepared[Len(prepared)] + 1
  /\ DanglingLink /\ pc = "submit" => peekhead_distance = Depth
  /\ prepared # << >> /\ prepared_distance < 0 /\ pc \in {"app", "peek", "submit"}
        => frontier + Depth - 1 \in Link
  /\ prepared # << >> /\ pc = "self"
        => /\ prepared_distance >= 0
           /\ prepared_distance = 0 => frontier + Depth \in Link

RunCount ==
  /\ \A i \in onthefly \ cq : runs[i] = 0
  /\ cq \subseteq onthefly
  /\ InSession => \A i \in Pos :
       runs[i] = IF i < frontier \/ stage[i] = "finished" \/ i \in cq THEN 1 ELSE 0

IInv ==
  /\ TypeOK /\ EngineAgrees /\ DistancesTrue /\ SessionBounds /\ PeekWindow
  /\ StageWindow /\ PreparedOrder /\ LinkPending /\ RunCount
  /\ ExactlyOnce /\ NoStrayEffect /\ EffectsAreCalls /\ NothingOutlivesSession
=============================================================================
