------------------------------ MODULE PosixItf ------------------------------
(***************************************************************************)
(* The two interfaces of libforeactor in each thread of an application:    *)
(* the one plugins use (foreactor.cpp: build, enter, leave, pause and      *)
(* resume a foreaction graph) and the one the application uses unknowingly *)
(* (posix_itf.cpp: the interposed calls).  All the graphs, which one is    *)
(* active and how deep it is nested are thread-local; the files are not.   *)
(*                                                                         *)
(* A wrapped function enters its graph, may call itself, and may pause the *)
(* graph to run code that is not in it, which may call another wrapped     *)
(* function.  read() and write() are made of three calls: the position is  *)
(* asked for, pread() or pwrite() is called there, which the active graph  *)
(* serves, and the position is moved by what it returned.                  *)
(***************************************************************************)
EXTENDS Integers, Sequences, FiniteSets, Functions

CONSTANTS
  Threads, Graphs,
  Fd, Count, MaxLen,  \* see PosixFile
  Ignored,            \* the types of calls each graph does not intercept
  Configs,            \* environment settings of the graphs
  MaxFrames,          \* bound on a thread's wrapped functions and pauses
  MaxCalls            \* bound on the calls of one thread

(* No two threads use the same descriptor. *)
ASSUME FdAssumption == \A t, u \in Threads : t # u => Fd[t] # Fd[u]

(* The count of a read() or write() is a size_t. *)
ASSUME CountAssumption == Count \in Nat

NoGraph == "none"

(* A null pointer is no graph. *)
ASSUME GraphsAssumption == NoGraph \notin Graphs

VARIABLES
  use,        \* USE_FOREACTOR
  config,     \* DEPTH_, QUEUE_, SQE_ASYNC_FLAG_ and UTHREADS_ of every graph:
              \* the set of the value, empty if not set
  scgraphs,   \* the graphs each thread has built
  active_scgraph, paused_scgraph,
  nest_cnts,  \* scgraph_nest_cnts
  progress,   \* how far the frontier of each graph is from its start
  stack,      \* the wrapped functions and pauses each thread is in
  pc,         \* what each thread is doing in read() or write()
  offset,     \* the local of read() and write()
  calls,      \* number of calls of each thread
  failed,     \* an assertion does not hold
  panicked,   \* a setting is missing or wrong: the process exits
  file, pos, result

sessionVars == <<scgraphs, active_scgraph, paused_scgraph, nest_cnts, progress, stack>>
fileVars == <<file, pos, result>>
vars == <<use, config, sessionVars, pc, offset, calls, failed, panicked, fileVars>>

Kernel == INSTANCE PosixFile

Init ==
  /\ use \in BOOLEAN
  /\ config \in Configs
  /\ scgraphs = [t \in Threads |-> {}]
  /\ active_scgraph = [t \in Threads |-> NoGraph]
  /\ paused_scgraph = [t \in Threads |-> NoGraph]
  /\ nest_cnts = [t \in Threads |-> [g \in Graphs |-> 0]]
  /\ progress = [t \in Threads |-> [g \in Graphs |-> 0]]
  /\ stack = [t \in Threads |-> << >>]
  /\ pc = [t \in Threads |-> "app"]
  /\ offset = [t \in Threads |-> 0]
  /\ calls = [t \in Threads |-> 0]
  /\ failed = FALSE
  /\ panicked = FALSE
  /\ Kernel!Init

Running(t) == pc[t] = "app" /\ ~failed /\ ~panicked

-----------------------------------------------------------------------------
(* Wrapped functions.  A frame is a wrapped function with the number of    *)
(* calls it has made that its graph has a node for, or a pause.            *)
Frame(g) == [graph |-> g, made |-> 0]
PauseFrame == Frame(NoGraph)

Last(s) == s[Len(s)]
Front(s) == SubSeq(s, 1, Len(s) - 1)

Top(t) == IF stack[t] = << >> THEN PauseFrame ELSE Last(stack[t])

InStack(t, g) == \E i \in DOMAIN stack[t] : stack[t][i].graph = g

(* The nesting the interface supports: a wrapped function calls itself and *)
(* no other one, except in a pause, where it does not call itself.         *)
MayCall(t, g) ==
  \/ Top(t).graph = g
  \/ Top(t).graph = NoGraph /\ ~InStack(t, g)

(* ParseEnvValues, in the first wrapped function a thread calls, and the   *)
(* settings CreateSCGraph looks up: a thread pool if UTHREADS_ is set, and *)
(* else an io_uring, whose queue must hold DEPTH_ requests.                *)
InRange(c) ==
  /\ c.depth \subseteq Nat
  /\ c.queue \subseteq 1 .. 1024
  /\ c.uthreads \subseteq Nat \ {0}

Creatable(c) ==
  /\ c.depth # {}
  /\ \/ c.uthreads # {}
     \/ c.queue # {} /\ c.async # {} /\ \A q \in c.queue, d \in c.depth : q >= d

Panics(t, g) ==
  \/ \E h \in Graphs : ~InRange(config[h])
  \/ use /\ g \notin scgraphs[t] /\ ~Creatable(config[g])

Panic(t, g) ==
  /\ Running(t) /\ MayCall(t, g)
  /\ Panics(t, g)
  /\ panicked' = TRUE
  /\ UNCHANGED <<use, config, sessionVars, pc, offset, calls, failed, fileVars>>

(* Mutation: only the first invocation is counted. *)
NestAfterEnter_First(t, g) == IF active_scgraph[t] = NoGraph THEN 1 ELSE nest_cnts[t][g]

NestAfterEnter(t, g) == nest_cnts[t][g] + 1

EnterAsserts(t, g) == active_scgraph[t] = NoGraph => nest_cnts[t][g] = 0

(* The wrapper stub builds the graph if the thread has not, and enters it. *)
EnterSCGraph(t, g) ==
  IF use
  THEN /\ scgraphs' = [scgraphs EXCEPT ![t] = @ \cup {g}]
       /\ active_scgraph' = [active_scgraph EXCEPT ![t] = IF @ = NoGraph THEN g ELSE @]
       /\ nest_cnts' = [nest_cnts EXCEPT ![t][g] = NestAfterEnter(t, g)]
       /\ failed' = ~EnterAsserts(t, g)
       /\ UNCHANGED <<paused_scgraph, progress>>
  ELSE UNCHANGED <<scgraphs, active_scgraph, paused_scgraph, nest_cnts, progress, failed>>

Enter(t, g) ==
  /\ Running(t) /\ MayCall(t, g) /\ ~Panics(t, g)
  /\ Len(stack[t]) < MaxFrames[t]
  /\ EnterSCGraph(t, g)
  /\ stack' = [stack EXCEPT ![t] = Append(@, Frame(g))]
  /\ UNCHANGED <<use, config, pc, offset, calls, panicked, fileVars>>

(* Mutation: every invocation that returns leaves the graph. *)
Outermost_Always(t, g) == TRUE

Outermost(t, g) == nest_cnts[t][g] = 1

LeaveAsserts(t, g) ==
  /\ nest_cnts[t][g] > 0
  /\ Outermost(t, g) => active_scgraph[t] # NoGraph

(* Mutation: the graph is not rewound. *)
ResetToStart_Not(t, g) == progress

(* ClearAllReqs and ResetToStart. *)
ResetToStart(t, g) == [progress EXCEPT ![t][g] = 0]

LeaveSCGraph(t, g) ==
  IF use
  THEN /\ failed' = ~LeaveAsserts(t, g)
       /\ nest_cnts' = [nest_cnts EXCEPT ![t][g] = @ - 1]
       /\ IF Outermost(t, g)
          THEN /\ progress' = ResetToStart(t, g)
               /\ active_scgraph' = [active_scgraph EXCEPT ![t] = NoGraph]
          ELSE UNCHANGED <<progress, active_scgraph>>
       /\ UNCHANGED <<scgraphs, paused_scgraph>>
  ELSE UNCHANGED <<scgraphs, active_scgraph, paused_scgraph, nest_cnts, progress, failed>>

(* What a recursive invocation has made counts for its caller. *)
Popped(s) ==
  LET below == Front(s)
  IN  IF below # << >> /\ Last(below).graph = Last(s).graph
      THEN [below EXCEPT ![Len(below)].made = @ + Last(s).made]
      ELSE below

Leave(t) ==
  /\ Running(t) /\ Top(t).graph # NoGraph
  /\ LeaveSCGraph(t, Top(t).graph)
  /\ stack' = [stack EXCEPT ![t] = Popped(@)]
  /\ UNCHANGED <<use, config, pc, offset, calls, panicked, fileVars>>

(* Mutation: the paused graph stays active. *)
Pausing_KeepActive(t) == UNCHANGED active_scgraph

Pausing(t) == active_scgraph' = [active_scgraph EXCEPT ![t] = NoGraph]

PauseCurrentSCGraph(t) ==
  /\ Running(t) /\ Top(t).graph # NoGraph
  /\ Len(stack[t]) < MaxFrames[t]
  /\ \A i \in DOMAIN stack[t] : stack[t][i].graph # NoGraph
  /\ IF use
     THEN /\ failed' = ~(active_scgraph[t] # NoGraph /\ paused_scgraph[t] = NoGraph)
          /\ paused_scgraph' = [paused_scgraph EXCEPT ![t] = active_scgraph[t]]
          /\ Pausing(t)
     ELSE UNCHANGED <<failed, paused_scgraph, active_scgraph>>
  /\ stack' = [stack EXCEPT ![t] = Append(@, PauseFrame)]
  /\ UNCHANGED <<use, config, scgraphs, nest_cnts, progress, pc, offset, calls, panicked, fileVars>>

ResumeCurrentSCGraph(t) ==
  /\ Running(t) /\ stack[t] # << >> /\ Top(t).graph = NoGraph
  /\ IF use
     THEN /\ failed' = ~(active_scgraph[t] = NoGraph /\ paused_scgraph[t] # NoGraph)
          /\ active_scgraph' = [active_scgraph EXCEPT ![t] = paused_scgraph[t]]
          /\ paused_scgraph' = [paused_scgraph EXCEPT ![t] = NoGraph]
     ELSE UNCHANGED <<failed, paused_scgraph, active_scgraph>>
  /\ stack' = [stack EXCEPT ![t] = Front(@)]
  /\ UNCHANGED <<use, config, scgraphs, nest_cnts, progress, pc, offset, calls, panicked, fileVars>>

-----------------------------------------------------------------------------
(* Calls.  The active graph serves a call of a type it does not ignore,    *)
(* and its frontier moves on; what the call does is the same either way    *)
(* (modules SCGraph and Syscalls).                                         *)
Intercepts(g, type) == g # NoGraph /\ type \notin Ignored[g]

Served(t, type) ==
  /\ progress' = IF ~Intercepts(active_scgraph[t], type) THEN progress
                 ELSE [progress EXCEPT ![t][active_scgraph[t]] = @ + 1]
  /\ stack' = IF ~Intercepts(Top(t).graph, type) THEN stack
              ELSE [stack EXCEPT ![t][Len(stack[t])].made = @ + 1]
  /\ UNCHANGED <<scgraphs, active_scgraph, paused_scgraph, nest_cnts>>

NewCall(t) ==
  /\ Running(t) /\ calls[t] < MaxCalls[t]
  /\ calls' = [calls EXCEPT ![t] = @ + 1]
  /\ UNCHANGED <<use, config, failed, panicked>>

(* lseek(): one call, in the graph. *)
Lseek(t) ==
  /\ NewCall(t)
  /\ Served(t, "lseek")
  /\ Kernel!Seek(t)
  /\ UNCHANGED <<pc, offset>>

(* read() and write(): the position is asked for past the graph... *)
AskOffset(t, call) ==
  /\ NewCall(t)
  /\ offset' = [offset EXCEPT ![t] = pos[Fd[t]]]
  /\ pc' = [pc EXCEPT ![t] = call]
  /\ UNCHANGED <<sessionVars, fileVars>>

(* ... pread() or pwrite() is called there, and may fail or be short ...   *)
Returned(t, ret, data) ==
  /\ result' = [result EXCEPT ![t] = [ret |-> ret, data |-> data]]
  /\ pc' = [pc EXCEPT ![t] = IF ret > 0 THEN "advance" ELSE "app"]
  /\ Served(t, pc[t])
  /\ UNCHANGED <<use, config, offset, calls, failed, panicked, pos>>

Pread(t) ==
  /\ pc[t] = "pread" /\ ~failed /\ ~panicked
  /\ LET data == Kernel!Available(offset[t]) IN Returned(t, Len(data), data)
  /\ UNCHANGED file

Pwrite(t) ==
  /\ pc[t] = "pwrite" /\ ~failed /\ ~panicked
  /\ \E n \in 1 .. Count :
       /\ offset[t] + n <= MaxLen
       /\ file' = Kernel!Overwritten(t, offset[t], n)
       /\ Returned(t, n, << >>)

CallFails(t) ==
  /\ pc[t] \in {"pread", "pwrite"} /\ ~failed /\ ~panicked
  /\ Returned(t, -1, << >>)
  /\ UNCHANGED file

(* Mutation: the position is moved by the number of bytes asked for. *)
Moved_Count(t) == Count

Moved(t) == result[t].ret

(* ... and the position is moved by what was read or written. *)
Advance(t) ==
  /\ pc[t] = "advance"
  /\ pos' = [pos EXCEPT ![Fd[t]] = @ + Moved(t)]
  /\ pc' = [pc EXCEPT ![t] = "app"]
  /\ UNCHANGED <<use, config, sessionVars, offset, calls, failed, panicked, file, result>>

Next ==
  \E t \in Threads :
    \/ \E g \in Graphs : Enter(t, g) \/ Panic(t, g)
    \/ Leave(t)
    \/ PauseCurrentSCGraph(t) \/ ResumeCurrentSCGraph(t)
    \/ Lseek(t)
    \/ \E call \in {"pread", "pwrite"} : AskOffset(t, call)
    \/ Pread(t) \/ Pwrite(t) \/ CallFails(t)
    \/ Advance(t)

Spec == Init /\ [][Next]_vars

-----------------------------------------------------------------------------
(* The assertions of EnterSCGraph, LeaveSCGraph, Pause, Resume, Register   *)
(* and Unregister hold however invocations, pauses and calls alternate.    *)
AssertsHold == ~failed

(* The frontier of a graph has moved by exactly the calls that the         *)
(* function it belongs to has made since its outermost invocation, its own *)
(* recursive invocations included and those in a pause not: recursion does *)
(* not rewind the graph, its end does, and no call is served by the graph  *)
(* of another function.                                                    *)
ProgressKept ==
  use => \A t \in Threads, g \in Graphs :
    progress[t][g] =
      SumFunctionOnSet([i \in DOMAIN stack[t] |-> stack[t][i].made],
                       {i \in DOMAIN stack[t] : stack[t][i].graph = g})

(* The three calls that make read() and write() implement atomic ones, for *)
(* descriptors no two threads share, with short reads and writes, errors   *)
(* and other threads changing the file in between: the position is the one *)
(* in the kernel plus what is read or written and not yet added.           *)
Position ==
  [f \in Kernel!Fds |->
     LET t == CHOOSE u \in Threads : Fd[u] = f
     IN  IF pc[t] = "advance" THEN pos[f] + result[t].ret ELSE pos[f]]

Atomic == INSTANCE PosixFile WITH pos <- Position

ImplementsFile == Atomic!Spec
=============================================================================
