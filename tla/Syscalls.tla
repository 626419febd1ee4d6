------------------------------ MODULE Syscalls ------------------------------
(***************************************************************************)
(* The syscall classes of syscalls/syscalls.cpp other than pread and       *)
(* pwrite (module Buffers): how arguments get into the value pools of a    *)
(* node, into a submission entry and out again, and how the result of a    *)
(* request reaches the application.                                        *)
(*                                                                         *)
(* The algorithm is that of module PreIssue; every action here is one of   *)
(* its actions with what the class does.  A path is a sequence of nodes    *)
(* of a graph.  All argument pools of a node except the one of the         *)
(* destination buffer are filled and emptied together and are one pool,    *)
(* args.                                                                   *)
(***************************************************************************)
EXTENDS PreIssue

CONSTANTS
  Path,        \* node of every position: its id and its class
  Needs,       \* the position whose result the arguments are made of, or -1
  MayFail,     \* positions whose syscall fails in some sessions
  BufReady,    \* positions whose generator knows the destination buffer
  EngineError  \* what a failed request returns: -errno (io_uring) or -1

VARIABLES
  session,     \* which of two kinds of session: they use different names
  failing,     \* positions whose syscall fails in this session
  args,        \* ValuePools of the arguments, by position
  buf,         \* ValuePool of the destination buffer (buf, dirp)
  internal,    \* ValuePool of the internal buffer (statx_buf, internal_dirp)
  free,        \* empty_statx_bufs, pre_alloced_dirps of every node
  sqe,         \* submission entry of a request
  rc,          \* ValuePool<long> rc
  mem,         \* contents of the buffers
  ret          \* results returned, to the application and to rcsave functions

poolVars == <<args, buf, internal, free>>
dataVars == <<session, failing, poolVars, sqe, rc, mem, ret>>
allVars == <<vars, dataVars>>

-----------------------------------------------------------------------------
(* The classes.  seff is the negation of the constructor's pure_sc; opens  *)
(* says that the result is a descriptor; named, that a file name is an     *)
(* argument; generates is false if GenerateArgs always fails; dest is the  *)
(* kind of internal buffer the results go through, if any.                 *)
SyscallOpen == [seff |-> TRUE, opens |-> TRUE, named |-> TRUE,
                generates |-> TRUE, dest |-> "none"]

SyscallOpenat == [seff |-> TRUE, opens |-> TRUE, named |-> TRUE,
                  generates |-> TRUE, dest |-> "none"]

SyscallClose == [seff |-> TRUE, opens |-> FALSE, named |-> FALSE,
                 generates |-> TRUE, dest |-> "none"]

SyscallLseek == [seff |-> TRUE, opens |-> FALSE, named |-> FALSE,
                 generates |-> FALSE, dest |-> "none"]

SyscallFstat == [seff |-> FALSE, opens |-> FALSE, named |-> FALSE,
                 generates |-> TRUE, dest |-> "statx"]

SyscallFstatat == [seff |-> FALSE, opens |-> FALSE, named |-> TRUE,
                   generates |-> TRUE, dest |-> "statx"]

SyscallGetdents == [seff |-> FALSE, opens |-> FALSE, named |-> FALSE,
                    generates |-> TRUE, dest |-> "dirp"]

Class(i) == Path[i].class
Nodes == {Path[i].node : i \in Pos}

ASSUME ClassAssumption ==
  /\ Seff = {i \in Pos : Class(i).seff}
  /\ Link = {}
  /\ \A i \in Pos : Needs[i] \in -1 .. (i - 1)
  /\ \A i \in MayFail : Class(i).dest = "statx"
  /\ EngineError < 0

(* Buffers of the application are told apart from those of nodes. *)
ASSUME NodesAssumption == "user" \notin Nodes

NoArgs == <<"none">>
NoBuf == <<"null">>
NoSqe == [args |-> NoArgs, buf |-> NoBuf]
HasDest(i) == Class(i).dest # "none"

(* A destination known in advance belongs to its call alone; the other     *)
(* calls share one buffer of the application.                              *)
UserBuf(i) == <<"user", IF i \in BufReady THEN i ELSE -1>>
InternalBufs(n) == {<<n, k>> : k \in 0 .. Depth}
AllBufs == (UNION {InternalBufs(n) : n \in Nodes}) \cup {UserBuf(i) : i \in Pos}

(* The arguments the application calls with, and a generator gives. *)
AppArgs(i) ==
  <<IF Class(i).named THEN <<session, i>> ELSE << >>,
    IF Needs[i] = -1 THEN "AT_FDCWD" ELSE ret[Needs[i]]>>

(* What the kernel does: a call succeeds or fails, opens a descriptor, and *)
(* fills the buffer it is given with what its arguments name.              *)
Outcome(i, error) ==
  IF i \in failing THEN error
  ELSE IF Class(i).opens THEN 100 * session + i + 3
  ELSE 0

Fill(b, i, a) == IF i \in failing \/ ~HasDest(i) \/ b = NoBuf THEN mem
                 ELSE [mem EXCEPT ![b] = a]

-----------------------------------------------------------------------------
(* The constructors allocate Depth + 1 internal buffers for a node. *)
NodesInit ==
  /\ Init
  /\ session = 0
  /\ failing = {}
  /\ args = [i \in Pos |-> NoArgs]
  /\ buf = [i \in Pos |-> NoBuf]
  /\ internal = [i \in Pos |-> NoBuf]
  /\ free = [n \in Nodes |-> InternalBufs(n)]
  /\ sqe = [i \in Pos |-> NoSqe]
  /\ rc = [i \in Pos |-> 0]
  /\ mem = [b \in AllBufs |-> NoArgs]
  /\ ret = [i \in Pos |-> 0]

(* The wrapper of the function forgets what it knew of earlier sessions.   *)
(* What these left in buffers is not told apart any more.                  *)
NodesEnter ==
  /\ Enter
  /\ session' = 1 - session
  /\ failing' \in SUBSET MayFail
  /\ ret' = [i \in Pos |-> 0]
  /\ mem' = [b \in AllBufs |-> NoArgs]
  /\ UNCHANGED <<poolVars, sqe, rc>>

(* CheckArgs: an instance without arguments gets those of the call, and    *)
(* one with an internal buffer gets its destination.                       *)
CheckArgsPools ==
  /\ args' = IF stage[frontier] = "none" /\ args[frontier] = NoArgs
             THEN [args EXCEPT ![frontier] = AppArgs(frontier)] ELSE args
  /\ buf' = IF HasDest(frontier) /\ buf[frontier] = NoBuf
            THEN [buf EXCEPT ![frontier] = UserBuf(frontier)] ELSE buf

NodesCall ==
  /\ CallNoPeek \/ CallPeek
  /\ CheckArgsPools
  /\ UNCHANGED <<session, failing, internal, free, sqe, rc, mem, ret>>

NodesPeekEnds ==
  /\ PeekDone \/ PeekEnd \/ PeekBarrier
  /\ UNCHANGED dataVars

(* A generator is ready when the result it needs has been saved, and may   *)
(* say no even then.                                                       *)
NodesPeekNotReady == PeekNotReady /\ UNCHANGED dataVars

CanGenerate(i) == Class(i).generates /\ Needs[i] < frontier

(* GenerateArgs.  The stat classes always go through a struct statx, which *)
(* is all that io_uring supports; getdents only if the destination is not  *)
(* known.                                                                  *)
NeedsInternal(i) ==
  Class(i).dest = "statx" \/ (Class(i).dest = "dirp" /\ i \notin BufReady)

GenerateArgs(i) ==
  /\ CanGenerate(i)
  /\ args' = IF args[i] = NoArgs THEN [args EXCEPT ![i] = AppArgs(i)] ELSE args
  /\ buf' = IF HasDest(i) /\ i \in BufReady /\ buf[i] = NoBuf
            THEN [buf EXCEPT ![i] = UserBuf(i)] ELSE buf
  /\ IF NeedsInternal(i) /\ internal[i] = NoBuf
     THEN \E b \in free[Path[i].node] :
            /\ internal' = [internal EXCEPT ![i] = b]
            /\ free' = [free EXCEPT ![Path[i].node] = @ \ {b}]
     ELSE UNCHANGED <<internal, free>>

NodesPeekGenerate ==
  /\ PeekUnforeactable \/ PeekPrepare
  /\ GenerateArgs(peekhead)
  /\ UNCHANGED <<session, failing, sqe, rc, mem, ret>>

-----------------------------------------------------------------------------
(* Mutation: a stat is submitted with the application's buffer. *)
PrepSqe_User(i) == [args |-> args[i], buf |-> buf[i]]

(* PrepUringSqe and PrepUpoolSqe: getdents takes the pool dirp. *)
PrepSqe(i) ==
  [args |-> args[i],
   buf |-> IF Class(i).dest = "statx" THEN internal[i] ELSE buf[i]]

NodesSubmit ==
  \/ /\ SubmitAll
     /\ sqe' = [i \in Pos |-> IF InPrepared(i) THEN PrepSqe(i) ELSE sqe[i]]
     /\ UNCHANGED <<session, failing, poolVars, rc, mem, ret>>
  \/ SubmitNone /\ UNCHANGED dataVars

(* The engine runs a request with what is in its entry (HandleSQEntry of   *)
(* the thread pool, or the kernel).                                        *)
NodesEngineRun(i) ==
  /\ EngineRun(i)
  /\ mem' = Fill(sqe[i].buf, i, sqe[i].args)
  /\ rc' = [rc EXCEPT ![i] = Outcome(i, EngineError)]
  /\ UNCHANGED <<session, failing, poolVars, sqe, ret>>

(* SyscallSync, with what is in the pools. *)
NodesSyscallSync ==
  /\ SyscallSync
  /\ mem' = Fill(buf[frontier], frontier, args[frontier])
  /\ rc' = [rc EXCEPT ![frontier] = Outcome(frontier, -1)]
  /\ UNCHANGED <<session, failing, poolVars, sqe, ret>>

NodesCmplAsync(i) == CmplAsync(i) /\ UNCHANGED dataVars

-----------------------------------------------------------------------------
(* Mutation: the result stays in the internal buffer. *)
ReflectResult_None == UNCHANGED mem

(* ReflectResult, for a request the engine has run. *)
ReflectResult ==
  mem' = IF sqe[frontier] # NoSqe /\ internal[frontier] # NoBuf
         THEN [mem EXCEPT ![buf[frontier]] = mem[internal[frontier]]]
         ELSE mem

(* Mutation: an internal buffer is not given back. *)
RemoveInternal_Lost(i) == internal' = [internal EXCEPT ![i] = NoBuf] /\ UNCHANGED free

(* Remove(epoch, move_into) of the internal buffer's pool. *)
RemoveInternal(i) ==
  /\ internal' = [internal EXCEPT ![i] = NoBuf]
  /\ free' = [free EXCEPT ![Path[i].node] = @ \cup ({internal[i]} \ {NoBuf})]

(* ReflectResult, then RemoveOneEpoch, which tells the rcsave function. *)
NodesPushForward ==
  /\ PushForward
  /\ ReflectResult
  /\ ret' = [ret EXCEPT ![frontier] = rc[frontier]]
  /\ args' = [args EXCEPT ![frontier] = NoArgs]
  /\ buf' = [buf EXCEPT ![frontier] = NoBuf]
  /\ RemoveInternal(frontier)
  /\ sqe' = [sqe EXCEPT ![frontier] = NoSqe]
  /\ rc' = [rc EXCEPT ![frontier] = 0]
  /\ UNCHANGED <<session, failing>>

NodesLeave == Leave /\ UNCHANGED dataVars
NodesDrainOne(i) == DrainOne(i) /\ UNCHANGED dataVars

(* Mutation: the arguments of calls that were never made stay. *)
ResetArgs_Keep == UNCHANGED args

ResetArgs == args' = [i \in Pos |-> NoArgs]

(* ResetValuePools of every node.  Requests the engine has are not its     *)
(* business.                                                               *)
NodesReset ==
  /\ ResetToStart
  /\ ResetArgs
  /\ buf' = [i \in Pos |-> NoBuf]
  /\ internal' = [i \in Pos |-> NoBuf]
  /\ free' = [n \in Nodes |->
                free[n] \cup ({internal[i] : i \in {j \in Pos : Path[j].node = n}} \ {NoBuf})]
  /\ sqe' = [i \in Pos |-> IF i \in onthefly THEN sqe[i] ELSE NoSqe]
  /\ rc' = [i \in Pos |-> 0]
  /\ UNCHANGED <<session, failing, mem, ret>>

NodesNext ==
  \/ NodesEnter \/ NodesCall
  \/ NodesPeekEnds \/ NodesPeekNotReady \/ NodesPeekGenerate
  \/ NodesSubmit \/ NodesSyscallSync \/ NodesPushForward
  \/ NodesLeave \/ NodesReset
  \/ \E i \in Pos : NodesCmplAsync(i) \/ NodesDrainOne(i) \/ NodesEngineRun(i)

NodesSpec == NodesInit /\ [][NodesNext]_allVars

-----------------------------------------------------------------------------
(***************************************************************************)
(* Properties                                                              *)
(***************************************************************************)

(* The arguments in the pools of the instance being called are those of    *)
(* the call: the assertions at the end of CheckArgs.  GenerateArgs and     *)
(* CheckArgs keep what they find in a pool, so nothing of an instance that *)
(* was peeked at and never called may survive the session.                 *)
ArgsAgree ==
  InCall => /\ args[frontier] = AppArgs(frontier)
            /\ HasDest(frontier) => buf[frontier] = UserBuf(frontier)

(* A call that has returned gave the application what the same call gives  *)
(* without the library: a negative number exactly if it fails, else its    *)
(* result, with the data in the application's buffer, where they stay      *)
(* until the next call whatever the engine completes meanwhile.            *)
ResultsTransparent ==
  pc = "app" /\ frontier > 0 =>
    LET i == frontier - 1
    IN  IF i \in failing THEN ret[i] < 0
        ELSE /\ ret[i] = Outcome(i, -1)
             /\ HasDest(i) => mem[UserBuf(i)] = AppArgs(i)

(* An internal buffer is free or belongs to one instance of its node, the  *)
(* engine never fills a free one, even after an early return, and there is *)
(* a free one whenever the peek needs it (the assertions                   *)
(* empty_statx_bufs.size() > 0 and pre_alloced_dirps.size() > 0).          *)
InternalsAccounted ==
  /\ \A n \in Nodes : LET used == {i \in Pos : Path[i].node = n /\ internal[i] # NoBuf}
                      IN  /\ Cardinality(free[n]) + Cardinality(used) = Depth + 1
                          /\ \A i \in used : internal[i] \notin free[n]
  /\ \A i \in onthefly \ cq : HasDest(i) => sqe[i].buf \notin free[Path[i].node]
  /\ Peeking /\ peekhead \in Pos => free[Path[peekhead].node] # {}
=============================================================================
