--------------------------- MODULE Syscalls_proofs ---------------------------
(***************************************************************************)
(* Arguments, results and internal buffers of the syscall classes, for     *)
(* every path through a graph of nodes, every depth, every choice of the   *)
(* calls that fail and of the destinations that are known in advance.      *)
(***************************************************************************)
EXTENDS Syscalls, PreIssue_proofs

IsStatx(i) == Class(i).dest = "statx"

(* The pools: what is in them is of the call to come, an instance has      *)
(* arguments as soon as it has a stage, and it is ready to be submitted    *)
(* when it is prepared.                                                    *)
ArgsInv ==
  /\ \A i \in Pos : args[i] \in {NoArgs, AppArgs(i)}
  /\ \A i \in Pos : args[i] # NoArgs => Needs[i] < frontier
  /\ \A i \in Pos : stage[i] # "none" => args[i] # NoArgs
  /\ \A i \in Pos : buf[i] \in {NoBuf, UserBuf(i)}
  /\ \A i \in Pos : HasDest(i) /\ i \in BufReady /\ stage[i] # "none" => buf[i] = UserBuf(i)
  /\ pc = "out" => \A i \in Pos : args[i] = NoArgs
  /\ ArgsAgree

(* Every internal buffer of a node is free or belongs to one instance,     *)
(* which has a stage.                                                      *)
InternalInv ==
  /\ \A i \in Pos : internal[i] # NoBuf =>
       /\ stage[i] # "none"
       /\ NeedsInternal(i)
       /\ internal[i] \in InternalBufs(Path[i].node)
       /\ internal[i] \notin free[Path[i].node]
  /\ \A i, j \in Pos : internal[i] = internal[j] /\ internal[i] # NoBuf => i = j
  /\ \A n \in Nodes : free[n] \subseteq InternalBufs(n)
  /\ \A n \in Nodes : \A b \in InternalBufs(n) :
       b \in free[n] \/ \E i \in Pos : Path[i].node = n /\ internal[i] = b
  /\ \A i \in Pos : IsStatx(i) /\ (stage[i] = "prepared" \/ sqe[i] # NoSqe)
       => internal[i] # NoBuf

(* A submission entry has the arguments of its call and a buffer that no   *)
(* other request has.                                                      *)
SqeInv ==
  /\ \A i \in Pos : sqe[i] # NoSqe =>
       /\ stage[i] \in {"onthefly", "finished"}
       /\ sqe[i].args = AppArgs(i)
       /\ IsStatx(i) => sqe[i].buf = internal[i]
       /\ ~IsStatx(i) => sqe[i].buf \in {NoBuf, UserBuf(i)}
       /\ HasDest(i) /\ ~IsStatx(i) /\ i \in BufReady => sqe[i].buf = UserBuf(i)
  /\ \A i \in onthefly : sqe[i] # NoSqe

PoolsInv ==
  /\ DOMAIN args = Pos /\ DOMAIN buf = Pos /\ DOMAIN internal = Pos
  /\ DOMAIN free = Nodes /\ DOMAIN sqe = Pos
  /\ ArgsInv /\ InternalInv /\ SqeInv

(* The result of a call that has run, and its data: where its entry says,  *)
(* or in the application's buffer if there is none, which only the call    *)
(* being made may have finished without.                                   *)
Ran(i) == i \in cq \/ stage[i] = "finished"

ResultKept(i) == IF i \in failing THEN rc[i] < 0 ELSE rc[i] = Outcome(i, -1)

DataKept(i) ==
  HasDest(i) /\ i \notin failing =>
    mem[IF sqe[i] # NoSqe THEN sqe[i].buf ELSE UserBuf(i)] = AppArgs(i)

DataInv ==
  InSession => \A i \in Pos : Ran(i) =>
    /\ ResultKept(i) /\ DataKept(i)
    /\ sqe[i] = NoSqe => InCall /\ i = frontier

ResultInv ==
  /\ DOMAIN rc = Pos /\ DOMAIN ret = Pos /\ DOMAIN mem = AllBufs
  /\ DataInv
  /\ ResultsTransparent

(* A getdents is generated with its destination. *)
DestinationsKnown == \A i \in Pos : HasDest(i) /\ ~IsStatx(i) => i \in BufReady

NodesInv == IInv /\ PoolsInv

-----------------------------------------------------------------------------
(* Buffers and arguments. *)

(* There are arguments in a pool, or there are none. *)
LEMMA ArgsAreArgs == \A i : AppArgs(i) # NoArgs
BY Zenon DEF AppArgs, NoArgs

(* The buffers of the application, those of a node, and no buffer. *)
LEMMA BufsDiffer ==
  /\ \A i \in Pos : UserBuf(i) # NoBuf
  /\ \A n \in Nodes : \A b \in InternalBufs(n) : b # NoBuf
  /\ \A i \in Pos, n \in Nodes : UserBuf(i) \notin InternalBufs(n)
  /\ \A m, n \in Nodes : m # n => InternalBufs(m) \cap InternalBufs(n) = {}
<1>1. \A i \in Pos : UserBuf(i) # NoBuf
  BY Zenon DEF UserBuf, NoBuf
<1>2. \A n \in Nodes : \A b \in InternalBufs(n) : b # NoBuf
  BY DEF InternalBufs, NoBuf
<1>3. \A i \in Pos, n \in Nodes : UserBuf(i) \notin InternalBufs(n)
  BY NodesAssumption, Zenon DEF UserBuf, InternalBufs
<1>4. \A m, n \in Nodes : m # n => InternalBufs(m) \cap InternalBufs(n) = {}
  BY DEF InternalBufs
<1> QED
  BY <1>1, <1>2, <1>3, <1>4, Zenon

(* A destination that is known in advance is used by no other call. *)
LEMMA OwnBufs == \A i, j \in Pos : i \in BufReady /\ i # j => UserBuf(i) # UserBuf(j)
<1> SUFFICES ASSUME NEW i \in Pos, NEW j \in Pos, i \in BufReady, i # j
             PROVE  UserBuf(i) # UserBuf(j)
  BY Zenon
<1>1. i # -1
  BY PosInt
<1>2. UserBuf(i) = <<"user", i>>
  BY Zenon DEF UserBuf
<1>3. UserBuf(j) = <<"user", j>> \/ UserBuf(j) = <<"user", -1>>
  BY Zenon DEF UserBuf
<1> QED
  BY <1>1, <1>2, <1>3

(* The node of a position is a node. *)
LEMMA NodeOf == \A i \in Pos : Path[i].node \in Nodes
BY Zenon DEF Nodes

(* All these buffers are in memory. *)
LEMMA InMemory ==
  /\ \A i \in Pos : UserBuf(i) \in AllBufs
  /\ \A n \in Nodes : InternalBufs(n) \subseteq AllBufs
<1>1. \A i \in Pos : UserBuf(i) \in AllBufs
  BY Zenon DEF AllBufs
<1>2. \A n \in Nodes : InternalBufs(n) \subseteq AllBufs
  BY Zenon DEF AllBufs
<1> QED
  BY <1>1, <1>2, Zenon

(* Arguments do not change while the results they are made of do not. *)
LEMMA SameArgs ==
  ASSUME session' = session,
         NEW S, \A i \in S : Needs[i] # -1 => ret'[Needs[i]] = ret[Needs[i]]
  PROVE  \A i \in S : AppArgs(i)' = AppArgs(i)
BY Zenon DEF AppArgs

-----------------------------------------------------------------------------
(* The pools. *)

(* Every step is one of the algorithm. *)
LEMMA StepOfAlgorithm == [NodesNext]_allVars => [Next]_vars
BY Zenon DEF NodesNext, NodesEnter, NodesCall, NodesPeekEnds, NodesPeekNotReady, NodesPeekGenerate,
       NodesSubmit, NodesSyscallSync, NodesPushForward, NodesLeave, NodesReset,
       NodesCmplAsync, NodesDrainOne, NodesEngineRun, allVars, Next, Issue, Session

(* Between sessions no instance has a stage. *)
LEMMA OutIsClean ==
  ASSUME IInv, pc = "out"
  PROVE  /\ \A i \in Pos : stage[i] = "none"
         /\ onthefly = {} /\ cq = {} /\ frontier = 0
<1>1. ASSUME NEW i \in Pos, stage[i] # "none" PROVE FALSE
  BY <1>1, PosInt DEF IInv, SessionBounds, StageWindow, InCall
<1> QED
  BY <1>1, Zenon DEF IInv, NothingOutlivesSession, SessionBounds

(* Steps that do not touch the pools. *)
LEMMA SamePools ==
  ASSUME NodesInv,
         UNCHANGED <<session, ret, poolVars, sqe, frontier>>,
         \A i \in Pos : stage'[i] = stage[i] \/ (stage[i] # "none" /\ stage'[i] = "finished"),
         onthefly' \subseteq onthefly,
         pc' = "out" => pc = "out", InCall' => InCall
  PROVE  PoolsInv'
<1>1. /\ UNCHANGED <<session, ret, args, buf, internal, free, sqe, frontier>>
      /\ \A i : AppArgs(i)' = AppArgs(i)
  BY Zenon DEF poolVars, AppArgs
<1>2. ArgsInv'
  BY <1>1, Zenon DEF NodesInv, PoolsInv, ArgsInv, ArgsAgree
<1>3. InternalInv'
  BY <1>1 DEF NodesInv, PoolsInv, InternalInv, SqeInv
<1>4. SqeInv'
  BY <1>1, Zenon DEF NodesInv, PoolsInv, SqeInv
<1> QED
  BY <1>1, <1>2, <1>3, <1>4, Zenon DEF NodesInv, PoolsInv

(* A new session begins with empty pools. *)
LEMMA EnterPools == ASSUME NodesInv, NodesEnter PROVE PoolsInv'
<1>1. /\ pc = "out" /\ pc' = "app"
      /\ UNCHANGED <<args, buf, internal, free, sqe, stage, frontier, onthefly>>
  BY Zenon DEF NodesEnter, Enter, graphVars, poolVars
<1>2. (\A i \in Pos : stage[i] = "none" /\ args[i] = NoArgs) /\ onthefly = {}
  BY <1>1, OutIsClean, Zenon DEF NodesInv, PoolsInv, ArgsInv
<1>3. ArgsInv'
  BY <1>1, <1>2, Zenon DEF NodesInv, PoolsInv, ArgsInv, ArgsAgree, InCall
<1>4. InternalInv' /\ SqeInv'
  BY <1>1, <1>2 DEF NodesInv, PoolsInv, InternalInv, SqeInv
<1> QED
  BY <1>1, <1>3, <1>4, Zenon DEF NodesInv, PoolsInv

(* CheckArgs fills what the peek has left empty. *)
LEMMA CallPools == ASSUME NodesInv, IInv', NodesCall PROVE PoolsInv'
<1>1. /\ frontier \in Pos /\ pc' # "out"
      /\ stage' = IF stage[frontier] = "none" THEN [stage EXCEPT ![frontier] = "argready"]
                  ELSE stage
      /\ UNCHANGED <<session, ret, internal, free, sqe, frontier, onthefly>>
  <2>1. frontier \in 0 .. PathLen /\ PathLen \in Nat /\ frontier < PathLen
    BY PathAssumption, Zenon DEF NodesInv, IInv, TypeOK, NodesCall, CallNoPeek, CallPeek
  <2> QED
    BY <2>1 DEF NodesCall, CallNoPeek, CallPeek, CheckArgs, engineVars, Pos
<1>2. DOMAIN stage = Pos
  BY Zenon DEF NodesInv, IInv, TypeOK
<1>3. \A i : AppArgs(i)' = AppArgs(i)
  BY <1>1, Zenon DEF AppArgs
<1>4. Needs[frontier] < frontier
  BY <1>1, ClassAssumption, PosInt
<1>5. /\ args' = IF stage[frontier] = "none" /\ args[frontier] = NoArgs
                 THEN [args EXCEPT ![frontier] = AppArgs(frontier)] ELSE args
      /\ buf' = IF HasDest(frontier) /\ buf[frontier] = NoBuf
                THEN [buf EXCEPT ![frontier] = UserBuf(frontier)] ELSE buf
  BY Zenon DEF NodesCall, CheckArgsPools
<1>6. /\ DOMAIN args = Pos /\ DOMAIN buf = Pos /\ DOMAIN args' = Pos /\ DOMAIN buf' = Pos
      /\ ArgsInv
  BY <1>5, Zenon DEF NodesInv, PoolsInv
<1>7. args'[frontier] = AppArgs(frontier) /\ (HasDest(frontier) => buf'[frontier] = UserBuf(frontier))
  BY <1>1, <1>5, <1>6, Zenon DEF ArgsInv
<1>8. \A i \in Pos \ {frontier} : args'[i] = args[i] /\ buf'[i] = buf[i] /\ stage'[i] = stage[i]
  BY <1>1, <1>2, <1>5, <1>6, Zenon
<1>9. buf'[frontier] \in {NoBuf, UserBuf(frontier)}
  BY <1>1, <1>5, <1>6, Zenon DEF ArgsInv
<1>10. ArgsInv'
  BY <1>1, <1>3, <1>4, <1>6, <1>7, <1>8, <1>9, ArgsAreArgs DEF ArgsInv, ArgsAgree
<1>11. \A i \in Pos : stage'[i] = stage[i] \/ (stage[i] = "none" /\ stage'[i] = "argready")
  BY <1>1, <1>2, Zenon
<1>12. InternalInv'
  BY <1>1, <1>11 DEF NodesInv, PoolsInv, InternalInv
<1>13. SqeInv'
  BY <1>1, <1>3, <1>11, Zenon DEF NodesInv, PoolsInv, SqeInv
<1> QED
  BY <1>1, <1>6, <1>10, <1>12, <1>13, Zenon DEF NodesInv, PoolsInv

(* GenerateArgs fills the pools of the instance the peek is at, with an    *)
(* internal buffer that is free.                                           *)
LEMMA GeneratePools == ASSUME NodesInv, IInv', NodesPeekGenerate PROVE PoolsInv'
<1> DEFINE p == peekhead
           n == Path[p].node
<1>1. /\ p \in Pos /\ pc = "peek" /\ pc' = "peek"
      /\ stage[p] \in {"none", "argready"}
      /\ \E t \in {"argready", "prepared"} : stage' = [stage EXCEPT ![p] = t]
      /\ UNCHANGED <<session, ret, sqe, frontier, onthefly>>
  BY Zenon DEF NodesPeekGenerate, PeekUnforeactable, PeekPrepare, PeekContinue, Peeking
<1>2. DOMAIN stage = Pos
  BY Zenon DEF NodesInv, IInv, TypeOK
<1>3. /\ p # frontier /\ frontier \in Pos
  BY <1>1 DEF NodesInv, IInv, DistancesTrue, PeekWindow, SessionBounds, InCall, TypeOK
<1>4. \A i : AppArgs(i)' = AppArgs(i)
  BY <1>1, Zenon DEF AppArgs
<1>5. /\ Needs[p] < frontier
      /\ args' = IF args[p] = NoArgs THEN [args EXCEPT ![p] = AppArgs(p)] ELSE args
      /\ buf' = IF HasDest(p) /\ p \in BufReady /\ buf[p] = NoBuf
                THEN [buf EXCEPT ![p] = UserBuf(p)] ELSE buf
  BY Zenon DEF NodesPeekGenerate, GenerateArgs, CanGenerate
<1>6. /\ DOMAIN args = Pos /\ DOMAIN buf = Pos /\ DOMAIN args' = Pos /\ DOMAIN buf' = Pos
      /\ ArgsInv
  BY <1>5, Zenon DEF NodesInv, PoolsInv
<1>7. \A i \in Pos \ {p} : args'[i] = args[i] /\ buf'[i] = buf[i] /\ stage'[i] = stage[i]
  BY <1>1, <1>2, <1>5, <1>6, Zenon
<1>8. /\ args'[p] = AppArgs(p) /\ buf'[p] \in {NoBuf, UserBuf(p)}
      /\ HasDest(p) /\ p \in BufReady => buf'[p] = UserBuf(p)
  BY <1>1, <1>5, <1>6, Zenon DEF ArgsInv
<1>9. ArgsInv'
  BY <1>1, <1>3, <1>4, <1>5, <1>6, <1>7, <1>8, ArgsAreArgs, Zenon DEF ArgsInv, ArgsAgree, InCall
<1>10. SqeInv /\ InternalInv /\ DOMAIN internal = Pos /\ DOMAIN free = Nodes /\ n \in Nodes
  BY <1>1, NodeOf, Zenon DEF NodesInv, PoolsInv
<1>11. sqe[p] = NoSqe
  BY <1>1, <1>10, Zenon DEF SqeInv
<1>12. stage'[p] # "none"
  BY <1>1, <1>2, Zenon
<1>13. CASE NeedsInternal(p) /\ internal[p] = NoBuf
  <2>1. PICK b \in free[n] : /\ internal' = [internal EXCEPT ![p] = b]
                            /\ free' = [free EXCEPT ![n] = @ \ {b}]
    BY <1>13, Zenon DEF NodesPeekGenerate, GenerateArgs
  <2>2. b \in InternalBufs(n) /\ b # NoBuf /\ \A i \in Pos : internal[i] # b
    <3>1. b \in InternalBufs(n) /\ b # NoBuf
      BY <1>10, BufsDiffer, Zenon DEF InternalInv
    <3>2. ASSUME NEW i \in Pos, internal[i] = b PROVE FALSE
      <4>1. b \in InternalBufs(Path[i].node) /\ b \notin free[Path[i].node]
        BY <1>10, <3>1, <3>2, Zenon DEF InternalInv
      <4>2. Path[i].node = n
        BY <1>10, <3>1, <4>1, BufsDiffer, NodeOf, Zenon
      <4> QED
        BY <4>1, <4>2, Zenon
    <3> QED
      BY <3>1, <3>2, Zenon
  <2>3. /\ internal'[p] = b /\ \A i \in Pos \ {p} : internal'[i] = internal[i]
        /\ free'[n] = free[n] \ {b} /\ \A m \in Nodes \ {n} : free'[m] = free[m]
        /\ DOMAIN internal' = Pos /\ DOMAIN free' = Nodes
    BY <1>1, <1>10, <2>1, Zenon
  <2> HIDE DEF p, n
  <2>4. \A i \in Pos : internal'[i] # NoBuf =>
          /\ stage'[i] # "none"
          /\ NeedsInternal(i)
          /\ internal'[i] \in InternalBufs(Path[i].node)
          /\ internal'[i] \notin free'[Path[i].node]
    <3> SUFFICES ASSUME NEW i \in Pos, internal'[i] # NoBuf
                 PROVE  /\ stage'[i] # "none"
                        /\ NeedsInternal(i)
                        /\ internal'[i] \in InternalBufs(Path[i].node)
                        /\ internal'[i] \notin free'[Path[i].node]
      BY Zenon
    <3>1. CASE i = p
      BY <1>12, <1>13, <2>2, <2>3, <3>1, Zenon DEF n
    <3>2. CASE i # p
      <4>1. internal'[i] = internal[i] /\ stage'[i] = stage[i]
        BY <1>7, <2>3, <3>2, Zenon
      <4>2. /\ stage[i] # "none" /\ NeedsInternal(i)
            /\ internal[i] \in InternalBufs(Path[i].node)
            /\ internal[i] \notin free[Path[i].node]
        BY <1>10, <4>1, Zenon DEF InternalInv
      <4>3. free'[Path[i].node] \subseteq free[Path[i].node]
        BY <2>3, NodeOf, Zenon
      <4> QED
        BY <4>1, <4>2, <4>3, Zenon
    <3> QED
      BY <3>1, <3>2, Zenon
  <2>5. \A i, j \in Pos : internal'[i] = internal'[j] /\ internal'[i] # NoBuf => i = j
    BY <1>10, <2>2, <2>3 DEF InternalInv
  <2>6. \A m \in Nodes : free'[m] \subseteq InternalBufs(m)
    BY <1>10, <2>3, Zenon DEF InternalInv
  <2>7. ASSUME NEW m \in Nodes, NEW c \in InternalBufs(m), c \notin free'[m]
        PROVE  \E i \in Pos : Path[i].node = m /\ internal'[i] = c
    <3>1. CASE c \in free[m]
      <4>1. m = n /\ c = b
        BY <2>3, <2>7, <3>1, Zenon
      <4> QED
        BY <1>1, <2>3, <4>1, Zenon DEF n
    <3>2. CASE c \notin free[m]
      <4>1. PICK i \in Pos : Path[i].node = m /\ internal[i] = c
        BY <1>10, <3>2 DEF InternalInv
      <4>2. c # NoBuf
        BY BufsDiffer, Zenon
      <4>3. i # p
        BY <1>13, <4>1, <4>2, Zenon
      <4> QED
        BY <2>3, <4>1, <4>3, Zenon
    <3> QED
      BY <3>1, <3>2, Zenon
  <2>8. \A i \in Pos : IsStatx(i) /\ (stage'[i] = "prepared" \/ sqe'[i] # NoSqe)
          => internal'[i] # NoBuf
    BY <1>1, <1>7, <1>10, <2>2, <2>3 DEF InternalInv
  <2>9. InternalInv'
    BY <2>4, <2>5, <2>6, <2>7, <2>8, Zenon DEF InternalInv
  <2>10. SqeInv'
    BY <1>1, <1>4, <1>7, <1>10, <1>11, <2>3, Zenon DEF SqeInv
  <2> QED
    BY <1>1, <1>6, <1>9, <2>3, <2>9, <2>10, Zenon DEF NodesInv, PoolsInv
<1>14. CASE ~(NeedsInternal(p) /\ internal[p] = NoBuf)
  <2>1. UNCHANGED <<internal, free>>
    BY <1>14, Zenon DEF NodesPeekGenerate, GenerateArgs
  <2>2. IsStatx(p) => NeedsInternal(p)
    BY Zenon DEF IsStatx, NeedsInternal
  <2> HIDE DEF p, n
  <2>3. InternalInv'
    BY <1>1, <1>7, <1>10, <1>12, <1>14, <2>1, <2>2 DEF InternalInv
  <2>4. SqeInv'
    BY <1>1, <1>4, <1>7, <1>10, <1>11, <2>1, Zenon DEF SqeInv
  <2> QED
    BY <1>1, <1>6, <1>9, <1>10, <2>1, <2>3, <2>4, Zenon DEF NodesInv, PoolsInv
<1> QED
  BY <1>13, <1>14, Zenon

(* PrepUringSqe puts the arguments and the buffers into the entries. *)
LEMMA SubmitPools ==
  ASSUME NodesInv, SubmitAll,
         sqe' = [i \in Pos |-> IF InPrepared(i) THEN PrepSqe(i) ELSE sqe[i]],
         UNCHANGED <<session, poolVars, ret>>
  PROVE  PoolsInv'
<1>1. /\ pc = "submit" /\ pc' = "self"
      /\ stage' = [i \in Pos |-> IF InPrepared(i) THEN "onthefly" ELSE stage[i]]
      /\ onthefly' = onthefly \cup {i \in Pos : InPrepared(i)}
      /\ UNCHANGED <<session, ret, args, buf, internal, free, frontier>>
  BY Zenon DEF SubmitAll, poolVars
<1>2. \A i \in Pos : InPrepared(i) <=> stage[i] = "prepared"
  BY <1>1, Zenon DEF NodesInv, IInv, EngineAgrees
<1>3. \A i : AppArgs(i)' = AppArgs(i)
  BY <1>1, Zenon DEF AppArgs
<1>4. \A i \in Pos : IF stage[i] = "prepared"
                     THEN stage'[i] = "onthefly" /\ sqe'[i] = PrepSqe(i)
                     ELSE stage'[i] = stage[i] /\ sqe'[i] = sqe[i]
  BY <1>1, <1>2, Zenon
<1>5. ASSUME NEW i \in Pos, stage[i] = "prepared"
      PROVE  /\ PrepSqe(i) # NoSqe
             /\ PrepSqe(i).args = AppArgs(i)
             /\ PrepSqe(i).buf = IF IsStatx(i) THEN internal[i] ELSE buf[i]
  <2>1. args[i] = AppArgs(i) /\ args[i] # NoArgs
    BY <1>5, Zenon DEF NodesInv, PoolsInv, ArgsInv
  <2> QED
    BY <2>1, Zenon DEF PrepSqe, NoSqe, IsStatx
<1>6. ArgsInv'
  BY <1>1, <1>3, <1>4, Zenon DEF NodesInv, PoolsInv, ArgsInv, ArgsAgree, InCall
<1>7. InternalInv'
  BY <1>1, <1>4, <1>5 DEF NodesInv, PoolsInv, InternalInv
<1>8. SqeInv'
  <2>1. ASSUME NEW i \in Pos, sqe'[i] # NoSqe
        PROVE  /\ stage'[i] \in {"onthefly", "finished"}
               /\ sqe'[i].args = AppArgs(i)
               /\ IsStatx(i) => sqe'[i].buf = internal[i]
               /\ ~IsStatx(i) => sqe'[i].buf \in {NoBuf, UserBuf(i)}
               /\ HasDest(i) /\ ~IsStatx(i) /\ i \in BufReady => sqe'[i].buf = UserBuf(i)
    <3>1. CASE stage[i] = "prepared"
      BY <1>4, <1>5, <3>1, Zenon DEF NodesInv, PoolsInv, ArgsInv
    <3>2. CASE stage[i] # "prepared"
      BY <1>4, <2>1, <3>2, Zenon DEF NodesInv, PoolsInv, SqeInv
    <3> QED
      BY <3>1, <3>2, Zenon
  <2>2. ASSUME NEW i \in onthefly' PROVE sqe'[i] # NoSqe
    <3>1. i \in Pos
      BY <1>1, Zenon DEF NodesInv, IInv, TypeOK
    <3> QED
      BY <1>1, <1>2, <1>4, <1>5, <3>1, Zenon DEF NodesInv, PoolsInv, SqeInv
  <2> QED
    BY <1>1, <1>3, <2>1, <2>2, Zenon DEF SqeInv
<1> QED
  BY <1>1, <1>6, <1>7, <1>8, Zenon DEF NodesInv, PoolsInv

(* RemoveOneEpoch empties the pools of the call that returns and gives its *)
(* internal buffer back; no other instance knows the result before.        *)
LEMMA PushPools == ASSUME NodesInv, IInv', NodesPushForward PROVE PoolsInv'
<1> DEFINE f == frontier
           n == Path[f].node
<1>1. /\ f \in Pos /\ pc = "self" /\ pc' = "app" /\ frontier' = f + 1
      /\ stage[f] = "finished" /\ stage' = [stage EXCEPT ![f] = "none"]
      /\ ret' = [ret EXCEPT ![f] = rc[f]]
      /\ args' = [args EXCEPT ![f] = NoArgs] /\ buf' = [buf EXCEPT ![f] = NoBuf]
      /\ internal' = [internal EXCEPT ![f] = NoBuf]
      /\ free' = [free EXCEPT ![n] = @ \cup ({internal[f]} \ {NoBuf})]
      /\ sqe' = [sqe EXCEPT ![f] = NoSqe]
      /\ UNCHANGED <<session, onthefly>>
  BY Zenon DEF NodesPushForward, PushForward, RemoveInternal, engineVars, NodesInv, IInv,
         SessionBounds, InCall
<1>2. /\ DOMAIN stage = Pos /\ DOMAIN args = Pos /\ DOMAIN buf = Pos /\ DOMAIN internal = Pos
      /\ DOMAIN free = Nodes /\ DOMAIN sqe = Pos /\ n \in Nodes
      /\ ArgsInv /\ InternalInv /\ SqeInv
  BY <1>1, NodeOf, Zenon DEF NodesInv, PoolsInv, IInv, TypeOK
<1>3. /\ stage'[f] = "none" /\ args'[f] = NoArgs /\ buf'[f] = NoBuf
      /\ internal'[f] = NoBuf /\ sqe'[f] = NoSqe
      /\ free'[n] = free[n] \cup ({internal[f]} \ {NoBuf})
  BY <1>1, <1>2, Zenon
<1>4. /\ \A i \in Pos \ {f} : /\ stage'[i] = stage[i] /\ args'[i] = args[i] /\ buf'[i] = buf[i]
                             /\ internal'[i] = internal[i] /\ sqe'[i] = sqe[i]
      /\ \A m \in Nodes \ {n} : free'[m] = free[m]
      /\ DOMAIN args' = Pos /\ DOMAIN buf' = Pos /\ DOMAIN internal' = Pos
      /\ DOMAIN free' = Nodes /\ DOMAIN sqe' = Pos
  BY <1>1, <1>2, Zenon
<1>5. \A i \in Pos : args[i] # NoArgs => AppArgs(i)' = AppArgs(i)
  <2> SUFFICES ASSUME NEW i \in Pos, args[i] # NoArgs PROVE AppArgs(i)' = AppArgs(i)
    BY Zenon
  <2>1. Needs[i] \in Int /\ f \in Int /\ Needs[i] < f
    BY <1>1, <1>2, ClassAssumption, PosInt DEF ArgsInv
  <2>2. ret'[Needs[i]] = ret[Needs[i]]
    BY <1>1, <2>1
  <2> QED
    BY <1>1, <2>2, Zenon DEF AppArgs
<1>6. f \in Int /\ \A i \in Pos : Needs[i] \in Int /\ (Needs[i] < f => Needs[i] < f + 1)
  BY <1>1, ClassAssumption, PosInt
<1>7. f \notin onthefly
  BY <1>1, Zenon DEF NodesInv, IInv, EngineAgrees
<1> HIDE DEF f, n
<1>8. ArgsInv'
  <2>1. \A i \in Pos : args'[i] \in {NoArgs, AppArgs(i)'}
    BY <1>2, <1>3, <1>4, <1>5, Zenon DEF ArgsInv
  <2>2. \A i \in Pos : args'[i] # NoArgs => Needs[i] < frontier'
    BY <1>1, <1>2, <1>3, <1>4, <1>6, Zenon DEF ArgsInv, f
  <2>3. \A i \in Pos : stage'[i] # "none" => args'[i] # NoArgs
    BY <1>2, <1>3, <1>4, Zenon DEF ArgsInv
  <2>4. \A i \in Pos : buf'[i] \in {NoBuf, UserBuf(i)}
    BY <1>2, <1>3, <1>4, Zenon DEF ArgsInv
  <2>5. \A i \in Pos : HasDest(i) /\ i \in BufReady /\ stage'[i] # "none" => buf'[i] = UserBuf(i)
    BY <1>2, <1>3, <1>4, Zenon DEF ArgsInv
  <2>6. pc' # "out" /\ ArgsAgree'
    BY <1>1, Zenon DEF ArgsAgree, InCall
  <2> QED
    BY <2>1, <2>2, <2>3, <2>4, <2>5, <2>6, Zenon DEF ArgsInv
<1>9. InternalInv'
  <2>1. \A i \in Pos : internal'[i] # NoBuf =>
          /\ stage'[i] # "none"
          /\ NeedsInternal(i)
          /\ internal'[i] \in InternalBufs(Path[i].node)
          /\ internal'[i] \notin free'[Path[i].node]
    <3> SUFFICES ASSUME NEW i \in Pos, internal'[i] # NoBuf
                 PROVE  /\ stage'[i] # "none"
                        /\ NeedsInternal(i)
                        /\ internal'[i] \in InternalBufs(Path[i].node)
                        /\ internal'[i] \notin free'[Path[i].node]
      BY Zenon
    <3>1. i # f /\ internal'[i] = internal[i] /\ stage'[i] = stage[i]
      BY <1>3, <1>4, Zenon
    <3>2. /\ stage[i] # "none" /\ NeedsInternal(i)
          /\ internal[i] \in InternalBufs(Path[i].node)
          /\ internal[i] \notin free[Path[i].node]
      BY <1>2, <3>1, Zenon DEF InternalInv
    <3>3. internal[i] # internal[f]
      BY <1>1, <1>2, <3>1, Zenon DEF InternalInv
    <3>4. free'[Path[i].node] \subseteq free[Path[i].node] \cup {internal[f]}
      BY <1>3, <1>4, NodeOf, Zenon
    <3> QED
      BY <3>1, <3>2, <3>3, <3>4, Zenon
  <2>2. \A i, j \in Pos : internal'[i] = internal'[j] /\ internal'[i] # NoBuf => i = j
    BY <1>2, <1>3, <1>4 DEF InternalInv
  <2>3. internal[f] # NoBuf => internal[f] \in InternalBufs(n)
    BY <1>1, <1>2, Zenon DEF InternalInv, n
  <2>4. \A m \in Nodes : free'[m] \subseteq InternalBufs(m)
    BY <1>2, <1>3, <1>4, <2>3 DEF InternalInv
  <2>5. ASSUME NEW m \in Nodes, NEW c \in InternalBufs(m), c \notin free'[m]
        PROVE  \E i \in Pos : Path[i].node = m /\ internal'[i] = c
    <3>1. c \notin free[m]
      BY <1>3, <1>4, <2>5, Zenon
    <3>2. PICK i \in Pos : Path[i].node = m /\ internal[i] = c
      BY <1>2, <3>1 DEF InternalInv
    <3>3. c # NoBuf
      BY BufsDiffer, Zenon
    <3>4. i # f
      BY <1>3, <2>5, <3>2, <3>3, Zenon DEF n
    <3> QED
      BY <1>4, <3>2, <3>4, Zenon
  <2>6. \A i \in Pos : IsStatx(i) /\ (stage'[i] = "prepared" \/ sqe'[i] # NoSqe)
          => internal'[i] # NoBuf
    BY <1>2, <1>3, <1>4 DEF InternalInv
  <2> QED
    BY <2>1, <2>2, <2>4, <2>5, <2>6, Zenon DEF InternalInv
<1>10. SqeInv'
  <2>1. ASSUME NEW i \in Pos, sqe'[i] # NoSqe
        PROVE  i # f /\ sqe'[i] = sqe[i] /\ stage'[i] = stage[i] /\ internal'[i] = internal[i]
               /\ AppArgs(i)' = AppArgs(i)
    <3>1. i # f /\ sqe[i] # NoSqe
      BY <1>3, <1>4, <2>1, Zenon
    <3>2. args[i] # NoArgs
      BY <1>2, <3>1, Zenon DEF SqeInv, ArgsInv
    <3> QED
      BY <1>4, <1>5, <3>1, <3>2, Zenon
  <2>2. ASSUME NEW i \in onthefly' PROVE sqe'[i] # NoSqe
    <3>1. i \in Pos /\ i # f /\ i \in onthefly
      BY <1>1, <1>7, Zenon DEF NodesInv, IInv, TypeOK
    <3> QED
      BY <1>2, <1>4, <3>1, Zenon DEF SqeInv
  <2> QED
    BY <1>2, <2>1, <2>2, Zenon DEF SqeInv
<1> QED
  BY <1>4, <1>8, <1>9, <1>10, Zenon DEF PoolsInv

(* ResetValuePools empties all pools. *)
LEMMA ResetPools == ASSUME NodesInv, NodesReset PROVE PoolsInv'
<1>1. /\ pc' = "out" /\ onthefly = {} /\ onthefly' = {}
      /\ stage' = [i \in Pos |-> "none"]
      /\ args' = [i \in Pos |-> NoArgs] /\ buf' = [i \in Pos |-> NoBuf]
      /\ internal' = [i \in Pos |-> NoBuf]
      /\ free' = [n \in Nodes |-> free[n] \cup
                    ({internal[i] : i \in {j \in Pos : Path[j].node = n}} \ {NoBuf})]
      /\ sqe' = [i \in Pos |-> NoSqe]
  BY Zenon DEF NodesReset, ResetArgs, ResetToStart, Drained, engineVars
<1>2. InternalInv
  BY Zenon DEF NodesInv, PoolsInv
<1>3. ArgsInv' /\ SqeInv'
  BY <1>1, Zenon DEF ArgsInv, ArgsAgree, InCall, SqeInv
<1>4. ASSUME NEW n \in Nodes PROVE free'[n] = InternalBufs(n)
  <2>1. free'[n] = free[n] \cup ({internal[i] : i \in {j \in Pos : Path[j].node = n}} \ {NoBuf})
    BY <1>1, Zenon
  <2>2. ASSUME NEW b \in free'[n] PROVE b \in InternalBufs(n)
    <3>1. b \in free[n] \/ \E i \in Pos : Path[i].node = n /\ internal[i] = b /\ b # NoBuf
      BY <2>1, <2>2, Zenon
    <3> QED
      BY <1>2, <3>1 DEF InternalInv
  <2>3. ASSUME NEW b \in InternalBufs(n) PROVE b \in free'[n]
    <3>1. b \in free[n] \/ \E i \in Pos : Path[i].node = n /\ internal[i] = b
      BY <1>2, <2>3, Zenon DEF InternalInv
    <3>2. b # NoBuf
      BY BufsDiffer, Zenon
    <3> QED
      BY <2>1, <3>1, <3>2, Zenon
  <2> QED
    BY <2>2, <2>3, Zenon
<1>5. InternalInv'
  BY <1>1, <1>4, Zenon DEF InternalInv
<1> QED
  BY <1>1, <1>3, <1>5, Zenon DEF PoolsInv

(* The constructors fill the lists of free buffers, the pools are empty. *)
LEMMA InitPools == NodesInit => NodesInv
<1> SUFFICES ASSUME NodesInit PROVE NodesInv
  BY Zenon
<1>1. IInv
  BY InitInv, Zenon DEF NodesInit
<1>2. ArgsInv /\ SqeInv
  BY Zenon DEF NodesInit, Init, ArgsInv, ArgsAgree, InCall, SqeInv
<1>3. InternalInv
  BY Zenon DEF NodesInit, Init, InternalInv
<1> QED
  BY <1>1, <1>2, <1>3, Zenon DEF NodesInit, NodesInv, PoolsInv

(* Every step keeps the pools. *)
LEMMA NextPools == NodesInv /\ [NodesNext]_allVars => NodesInv'
<1> SUFFICES ASSUME NodesInv, [NodesNext]_allVars PROVE NodesInv'
  BY Zenon
<1>1. IInv'
  BY StepOfAlgorithm, NextInv, Zenon DEF NodesInv
<1> SUFFICES PoolsInv'
  BY <1>1, Zenon DEF NodesInv
<1>2. CASE NodesEnter
  BY <1>2, EnterPools, Zenon
<1>3. CASE NodesCall
  BY <1>1, <1>3, CallPools, Zenon
<1>4. CASE NodesPeekEnds \/ NodesPeekNotReady \/ NodesLeave
  BY <1>4, SamePools, Zenon DEF NodesPeekEnds, NodesPeekNotReady, NodesLeave, PeekDone, PeekEnd,
     PeekBarrier, PeekNotReady, PeekContinue, Peeking, Leave, graphVars, engineVars, dataVars, InCall
<1>5. CASE NodesPeekGenerate
  BY <1>1, <1>5, GeneratePools, Zenon
<1>6. CASE NodesSubmit
  <2>1. CASE SubmitNone /\ UNCHANGED dataVars
    BY <2>1, SamePools, Zenon DEF SubmitNone, graphVars, engineVars, dataVars, InCall
  <2> QED
    BY <1>6, <2>1, SubmitPools, Zenon DEF NodesSubmit
<1>7. CASE NodesSyscallSync
  <2>1. \A i \in Pos : stage'[i] = stage[i] \/ (stage[i] # "none" /\ stage'[i] = "finished")
    BY <1>7, Zenon DEF NodesSyscallSync, SyscallSync, NodesInv, IInv, TypeOK
  <2> QED
    BY <1>7, <2>1, SamePools, Zenon DEF NodesSyscallSync, SyscallSync, InCall
<1>8. CASE NodesPushForward
  BY <1>1, <1>8, PushPools, Zenon
<1>9. CASE NodesReset
  BY <1>9, ResetPools, Zenon
<1>10. ASSUME NEW k \in Pos, NodesCmplAsync(k) PROVE PoolsInv'
  <2>1. k \in onthefly /\ pc = "self"
    BY <1>10, Zenon DEF NodesCmplAsync, CmplAsync, NodesInv, IInv, RunCount
  <2>2. stage[k] = "onthefly"
    BY <2>1, Zenon DEF NodesInv, IInv, EngineAgrees
  <2>3. \A i \in Pos : stage'[i] = stage[i] \/ (stage[i] # "none" /\ stage'[i] = "finished")
    BY <1>10, <2>2, Zenon DEF NodesCmplAsync, CmplAsync, NodesInv, IInv, TypeOK
  <2> QED
    BY <1>10, <2>3, SamePools, Zenon DEF NodesCmplAsync, CmplAsync, dataVars, InCall
<1>11. ASSUME NEW k \in Pos, NodesDrainOne(k) \/ NodesEngineRun(k) PROVE PoolsInv'
  BY <1>11, SamePools, Zenon DEF NodesDrainOne, NodesEngineRun, DrainOne, EngineRun, graphVars, dataVars,
     InCall
<1>12. CASE UNCHANGED allVars
  BY <1>12, SamePools, Zenon DEF allVars, vars, graphVars, engineVars, dataVars, InCall
<1> QED
  BY <1>2, <1>3, <1>4, <1>5, <1>6, <1>7, <1>8, <1>9, <1>10, <1>11, <1>12, Zenon DEF NodesNext

-----------------------------------------------------------------------------
(* Accounting for the internal buffers. *)

(* A one-to-one function has as many values as arguments. *)
LEMMA ImageSize ==
  ASSUME NEW S, IsFiniteSet(S), NEW f, \A x, y \in S : f[x] = f[y] => x = y,
         NEW T, T = {f[x] : x \in S}
  PROVE  IsFiniteSet(T) /\ Cardinality(T) = Cardinality(S)
<1> DEFINE g == [x \in S |-> f[x]]
<1>1. g \in [S -> T] /\ \A x \in S : g[x] = f[x]
  BY Zenon
<1>2. \A t \in T : \E x \in S : g[x] = t
  BY Zenon
<1>3. g \in Injection(S, T)
  BY <1>1, Zenon DEF Injection, IsInjective
<1>4. g \in Surjection(S, T)
  BY <1>1, <1>2, Zenon DEF Surjection
<1>5. ExistsBijection(S, T)
  BY <1>3, <1>4, Zenon DEF ExistsBijection, Bijection
<1> QED
  BY <1>5, FS_Bijection, Zenon

(* A node has Depth + 1 internal buffers. *)
LEMMA InternalBufsSize ==
  ASSUME NEW n PROVE IsFiniteSet(InternalBufs(n)) /\ Cardinality(InternalBufs(n)) = Depth + 1
<1> DEFINE S == 0 .. Depth
           f == [k \in S |-> <<n, k>>]
<1>1. IsFiniteSet(S) /\ Cardinality(S) = Depth + 1
  BY FS_Interval, PathAssumption
<1>2. \A j, k \in S : f[j] = f[k] => j = k
  BY Zenon
<1>3. InternalBufs(n) = {f[k] : k \in S}
  BY Zenon DEF InternalBufs
<1> HIDE DEF f, S
<1> QED
  BY <1>1, <1>2, <1>3, ImageSize

(* The instances of a node that have an internal buffer. *)
Used(n) == {i \in Pos : Path[i].node = n /\ internal[i] # NoBuf}

(* Free buffers and used ones are all there are. *)
LEMMA InternalsCounted ==
  ASSUME InternalInv, DOMAIN internal = Pos, NEW n \in Nodes
  PROVE  /\ IsFiniteSet(Used(n)) /\ IsFiniteSet(free[n])
         /\ Cardinality(free[n]) + Cardinality(Used(n)) = Depth + 1
<1> DEFINE f == [i \in Used(n) |-> internal[i]]
           T == {f[i] : i \in Used(n)}
<1>1. IsFiniteSet(Pos) /\ Used(n) \subseteq Pos
  BY FS_Interval, PathAssumption DEF Pos, Used
<1>2. IsFiniteSet(Used(n))
  BY <1>1, FS_Subset, Zenon
<1>3. \A i, j \in Used(n) : f[i] = f[j] => i = j
  BY Zenon DEF InternalInv, Used
<1>T. \A i \in Used(n) : /\ f[i] = internal[i] /\ f[i] \in InternalBufs(n)
                        /\ f[i] \notin free[n]
  BY Zenon DEF InternalInv, Used
<1>4. IsFiniteSet(T) /\ Cardinality(T) = Cardinality(Used(n))
  <2> HIDE DEF f
  <2> QED
    BY <1>2, <1>3, ImageSize
<1>5. free[n] \subseteq InternalBufs(n) /\ IsFiniteSet(free[n])
  BY InternalBufsSize, FS_Subset, Zenon DEF InternalInv
<1> HIDE DEF f
<1>6. free[n] \cap T = {}
  BY <1>T, Zenon
<1>7. free[n] \cup T = InternalBufs(n)
  <2>1. T \subseteq InternalBufs(n)
    BY <1>T, Zenon
  <2>2. ASSUME NEW b \in InternalBufs(n), b \notin free[n] PROVE b \in T
    <3>1. PICK i \in Pos : Path[i].node = n /\ internal[i] = b
      BY <2>2 DEF InternalInv
    <3>2. i \in Used(n)
      BY <3>1, BufsDiffer, Zenon DEF Used
    <3> QED
      BY <1>T, <3>1, <3>2, Zenon
  <2> QED
    BY <1>5, <2>1, <2>2, Zenon
<1> HIDE DEF T
<1>8. Cardinality(InternalBufs(n)) = Cardinality(free[n]) + Cardinality(T) - Cardinality({})
  BY <1>4, <1>5, <1>6, <1>7, FS_Union
<1>9. /\ Cardinality({}) = 0 /\ Cardinality(free[n]) \in Nat /\ Cardinality(T) \in Nat
  BY <1>4, <1>5, FS_EmptySet, FS_CardinalityType, Zenon
<1>10. Cardinality(InternalBufs(n)) = Depth + 1
  BY InternalBufsSize, Zenon
<1> QED
  BY <1>2, <1>4, <1>5, <1>8, <1>9, <1>10, SMTT(30)

(* What the window of the peek leaves is enough for the next instance. *)
LEMMA Accounted == NodesInv => InternalsAccounted
<1> SUFFICES ASSUME NodesInv PROVE InternalsAccounted
  BY Zenon
<1> IInv /\ TypeOK /\ InternalInv /\ SqeInv /\ DOMAIN internal = Pos
  BY Zenon DEF NodesInv, IInv, PoolsInv
<1>1. ASSUME NEW n \in Nodes
      PROVE  /\ Cardinality(free[n]) + Cardinality(Used(n)) = Depth + 1
             /\ \A i \in Used(n) : internal[i] \notin free[n]
  BY InternalsCounted, Zenon DEF InternalInv, Used
<1>2. ASSUME NEW i \in onthefly \ cq, HasDest(i) PROVE sqe[i].buf \notin free[Path[i].node]
  <2>1. i \in Pos /\ sqe[i] # NoSqe /\ Path[i].node \in Nodes
    BY NodeOf, Zenon DEF TypeOK, SqeInv
  <2>2. CASE IsStatx(i)
    BY <2>1, <2>2, Zenon DEF InternalInv, SqeInv
  <2>3. CASE ~IsStatx(i)
    <3>1. sqe[i].buf \in {NoBuf, UserBuf(i)}
      BY <2>1, <2>3, Zenon DEF SqeInv
    <3>2. sqe[i].buf \notin InternalBufs(Path[i].node)
      BY <2>1, <3>1, BufsDiffer, Zenon
    <3> QED
      BY <2>1, <3>2 DEF InternalInv
  <2> QED
    BY <2>2, <2>3, Zenon
<1>3. ASSUME Peeking, peekhead \in Pos PROVE free[Path[peekhead].node] # {}
  <2> DEFINE n == Path[peekhead].node
             W == frontier .. (frontier + peekhead_distance)
  <2>1. n \in Nodes
    BY <1>3, NodeOf, Zenon
  <2>2. /\ pc = "peek" /\ 0 <= peekhead_distance /\ peekhead_distance < Depth
        /\ peekhead = frontier + 1 + peekhead_distance
        /\ frontier \in Int /\ peekhead_distance \in Int /\ Depth \in Int
    BY <1>3, Ints, Zenon DEF Peeking, IInv, PeekWindow, DistancesTrue
  <2>3. ASSUME NEW i \in Used(n) PROVE i \in W
    <3>1. i \in Pos /\ stage[i] # "none" /\ i \in Int
      BY PosInt, Zenon DEF InternalInv, Used
    <3>2. i >= frontier /\ (i < peekhead \/ i = frontier)
      BY <2>2, <3>1, Zenon DEF IInv, StageWindow
    <3> QED
      BY <2>2, <3>1, <3>2
  <2>4. IsFiniteSet(W) /\ Cardinality(W) = peekhead_distance + 1
    BY <2>2, IntervalSize, Zenon
  <2>5. Cardinality(Used(n)) <= peekhead_distance + 1 /\ Cardinality(Used(n)) \in Nat
    BY <2>3, <2>4, FS_Subset, FS_CardinalityType, Zenon
  <2>6. Cardinality(free[n]) + Cardinality(Used(n)) = Depth + 1
    BY <1>1, <2>1, Zenon
  <2>7. ASSUME free[n] = {} PROVE FALSE
    <3>1. Cardinality(free[n]) = 0
      BY <2>7, FS_EmptySet, Zenon
    <3> QED
      BY <2>2, <2>5, <2>6, <3>1
  <2> QED
    BY <2>7, Zenon
<1> QED
  BY <1>1, <1>2, <1>3, Zenon DEF InternalsAccounted, Used

-----------------------------------------------------------------------------
(* Results. *)

(* No request is given a buffer of another request or of another call. *)
LEMMA SqeBufs ==
  ASSUME DestinationsKnown, NodesInv, NEW j \in Pos, sqe[j] # NoSqe, HasDest(j)
  PROVE  /\ sqe[j].buf \in AllBufs /\ sqe[j].buf # NoBuf
         /\ \A i \in Pos \ {j} : sqe[j].buf # UserBuf(i)
         /\ \A i \in Pos \ {j} : sqe[i] # NoSqe /\ HasDest(i) => sqe[i].buf # sqe[j].buf
<1> InternalInv /\ SqeInv
  BY Zenon DEF NodesInv, PoolsInv
<1>1. ASSUME NEW i \in Pos, IsStatx(i), sqe[i] # NoSqe
      PROVE  /\ sqe[i].buf = internal[i] /\ internal[i] # NoBuf
             /\ internal[i] \in InternalBufs(Path[i].node) /\ Path[i].node \in Nodes
  BY <1>1, NodeOf, Zenon DEF InternalInv, SqeInv
<1>2. ASSUME NEW i \in Pos, ~IsStatx(i), HasDest(i), sqe[i] # NoSqe
      PROVE  i \in BufReady /\ sqe[i].buf = UserBuf(i)
  BY <1>2, Zenon DEF DestinationsKnown, SqeInv
<1>3. CASE IsStatx(j)
  <2>1. /\ sqe[j].buf = internal[j] /\ internal[j] # NoBuf
        /\ internal[j] \in InternalBufs(Path[j].node) /\ Path[j].node \in Nodes
    BY <1>1, <1>3, Zenon
  <2>2. sqe[j].buf \in AllBufs /\ \A i \in Pos : sqe[j].buf # UserBuf(i)
    BY <2>1, InMemory, BufsDiffer, Zenon
  <2>3. ASSUME NEW i \in Pos \ {j}, sqe[i] # NoSqe, HasDest(i) PROVE sqe[i].buf # sqe[j].buf
    <3>1. CASE IsStatx(i)
      BY <1>1, <2>1, <2>3, <3>1 DEF InternalInv
    <3>2. CASE ~IsStatx(i)
      BY <1>2, <2>2, <2>3, <3>2, Zenon
    <3> QED
      BY <3>1, <3>2, Zenon
  <2> QED
    BY <2>1, <2>2, <2>3, Zenon
<1>4. CASE ~IsStatx(j)
  <2>1. j \in BufReady /\ sqe[j].buf = UserBuf(j)
    BY <1>2, <1>4, Zenon
  <2>2. /\ sqe[j].buf \in AllBufs /\ sqe[j].buf # NoBuf
        /\ \A i \in Pos \ {j} : sqe[j].buf # UserBuf(i)
    BY <2>1, InMemory, BufsDiffer, OwnBufs, Zenon
  <2>3. ASSUME NEW i \in Pos \ {j}, sqe[i] # NoSqe, HasDest(i) PROVE sqe[i].buf # sqe[j].buf
    <3>1. CASE IsStatx(i)
      BY <1>1, <2>1, <2>3, <3>1, BufsDiffer, SMTT(30)
    <3>2. CASE ~IsStatx(i)
      BY <1>2, <2>2, <2>3, <3>2, Zenon
    <3> QED
      BY <3>1, <3>2, Zenon
  <2> QED
    BY <2>2, <2>3, Zenon
<1> QED
  BY <1>3, <1>4, Zenon

(* A step that runs no call and returns from none. *)
LEMMA SameResults ==
  ASSUME ResultInv, UNCHANGED <<session, failing, rc, mem, ret, frontier>>,
         pc' = "app" => pc = "app", InSession' => InSession, InCall /\ InSession' => InCall',
         \A i \in Pos : InSession' /\ Ran(i)' => Ran(i) /\ sqe'[i] = sqe[i]
  PROVE  ResultInv'
<1>1. \A i : AppArgs(i)' = AppArgs(i) /\ Outcome(i, -1)' = Outcome(i, -1)
  BY Zenon DEF AppArgs, Outcome
<1>2. DataInv'
  BY <1>1, Zenon DEF ResultInv, DataInv, ResultKept, DataKept
<1>3. ResultsTransparent'
  BY <1>1, Zenon DEF ResultInv, ResultsTransparent
<1> QED
  BY <1>2, <1>3, Zenon DEF ResultInv

(* The wrapper forgets the results of earlier sessions. *)
LEMMA EnterResults == ASSUME NodesInv, ResultInv, NodesEnter PROVE ResultInv'
<1>1. /\ pc = "out" /\ pc' = "app" /\ rc' = rc /\ frontier' = frontier /\ stage' = stage /\ cq' = cq
      /\ DOMAIN ret' = Pos /\ DOMAIN mem' = AllBufs
  BY Zenon DEF NodesEnter, Enter, graphVars
<1>2. frontier' = 0 /\ \A i \in Pos : ~Ran(i)'
  BY <1>1, OutIsClean, Zenon DEF NodesInv, Ran
<1>3. ResultsTransparent'
  BY <1>2 DEF ResultsTransparent
<1> QED
  BY <1>1, <1>2, <1>3, Zenon DEF ResultInv, DataInv

(* Outside a session nothing is said of results. *)
LEMMA OutsideResults ==
  ASSUME ResultInv, pc' \notin {"app", "peek", "submit", "self"},
         DOMAIN rc' = Pos, UNCHANGED <<mem, ret>>
  PROVE  ResultInv'
BY Zenon DEF ResultInv, DataInv, InSession, ResultsTransparent

(* The engine writes to the buffer in the entry, which is no one else's. *)
LEMMA EngineResults ==
  ASSUME DestinationsKnown, NodesInv, ResultInv, NEW j \in Pos, NodesEngineRun(j)
  PROVE  ResultInv'
<1>1. /\ j \in onthefly /\ j \notin cq /\ cq' = cq \cup {j}
      /\ mem' = Fill(sqe[j].buf, j, sqe[j].args)
      /\ rc' = [rc EXCEPT ![j] = Outcome(j, EngineError)]
      /\ UNCHANGED <<pc, frontier, stage, session, failing, sqe, ret>>
  BY Zenon DEF NodesEngineRun, EngineRun, graphVars
<1>2. /\ IInv /\ SqeInv /\ DOMAIN rc = Pos /\ DOMAIN ret = Pos /\ DOMAIN mem = AllBufs
      /\ sqe[j] # NoSqe /\ sqe[j].args = AppArgs(j)
  BY <1>1, Zenon DEF NodesInv, PoolsInv, ResultInv, SqeInv
<1>3. \A i : AppArgs(i)' = AppArgs(i) /\ Outcome(i, -1)' = Outcome(i, -1)
  BY <1>1, Zenon DEF AppArgs, Outcome
<1>4. /\ DOMAIN mem' = AllBufs
      /\ \A b : b # sqe[j].buf => mem'[b] = mem[b]
      /\ HasDest(j) /\ j \notin failing => mem'[sqe[j].buf] = AppArgs(j)
      /\ ~HasDest(j) => mem' = mem
  <2>1. HasDest(j) => sqe[j].buf \in AllBufs /\ sqe[j].buf # NoBuf
    BY <1>2, SqeBufs, Zenon
  <2> QED
    BY <1>1, <1>2, <2>1 DEF Fill
<1>5. \A i \in Pos \ {j} : mem'[UserBuf(i)] = mem[UserBuf(i)]
  BY <1>2, <1>4, SqeBufs, Zenon
<1>6. /\ DOMAIN rc' = Pos /\ rc'[j] = Outcome(j, EngineError)
      /\ \A i \in Pos \ {j} : rc'[i] = rc[i]
  BY <1>1, <1>2, Zenon
<1>7. ResultKept(j)'
  BY <1>1, <1>6, ClassAssumption, Zenon DEF ResultKept, Outcome
<1>8. DataKept(j)'
  BY <1>1, <1>2, <1>3, <1>4, Zenon DEF DataKept
<1>9. ASSUME NEW i \in Pos \ {j}, ResultKept(i), DataKept(i) PROVE ResultKept(i)' /\ DataKept(i)'
  <2>1. ResultKept(i)'
    BY <1>1, <1>3, <1>6, <1>9, Zenon DEF ResultKept
  <2>2. ASSUME HasDest(i), i \notin failing, sqe[i] # NoSqe PROVE mem'[sqe[i].buf] = AppArgs(i)
    <3>1. mem[sqe[i].buf] = AppArgs(i)
      BY <1>9, <2>2, Zenon DEF DataKept
    <3>2. sqe[i].buf # sqe[j].buf \/ ~HasDest(j)
      BY <1>2, <2>2, SqeBufs, Zenon
    <3> QED
      BY <1>4, <3>1, <3>2, Zenon
  <2>3. ASSUME HasDest(i), i \notin failing, sqe[i] = NoSqe PROVE mem'[UserBuf(i)] = AppArgs(i)
    BY <1>5, <1>9, <2>3, Zenon DEF DataKept
  <2> QED
    BY <1>1, <1>3, <2>1, <2>2, <2>3, Zenon DEF DataKept
<1>10. DataInv'
  BY <1>1, <1>2, <1>7, <1>8, <1>9, Zenon DEF ResultInv, DataInv, Ran, InSession, InCall
<1>11. ResultsTransparent'
  <2> SUFFICES ASSUME pc = "app", frontier > 0
               PROVE  IF frontier - 1 \in failing THEN ret[frontier - 1] < 0
                      ELSE /\ ret[frontier - 1] = Outcome(frontier - 1, -1)
                           /\ HasDest(frontier - 1) =>
                                mem'[UserBuf(frontier - 1)] = AppArgs(frontier - 1)
    BY <1>1, <1>3, Zenon DEF ResultsTransparent
  <2>1. /\ frontier - 1 \in Pos /\ frontier \in Int /\ j \in Int
    BY <1>2, Ints, PosInt, SMTT(30) DEF IInv, Pos
  <2>2. frontier <= j
    BY <1>1, <1>2, <2>1, Zenon DEF IInv, EngineAgrees, StageWindow
  <2>3. mem'[UserBuf(frontier - 1)] = mem[UserBuf(frontier - 1)]
    BY <1>5, <2>1, <2>2
  <2> QED
    BY <2>3, Zenon DEF ResultInv, ResultsTransparent
<1> QED
  BY <1>1, <1>2, <1>4, <1>6, <1>10, <1>11, Zenon DEF ResultInv

(* A synchronous call writes to the application's buffer. *)
LEMMA SyncResults ==
  ASSUME DestinationsKnown, NodesInv, ResultInv, NodesSyscallSync
  PROVE  ResultInv'
<1> DEFINE f == frontier
<1>1. /\ pc = "self" /\ f \in Pos /\ stage[f] = "argready"
      /\ stage' = [stage EXCEPT ![f] = "finished"]
      /\ mem' = Fill(buf[f], f, args[f])
      /\ rc' = [rc EXCEPT ![f] = Outcome(f, -1)]
      /\ UNCHANGED <<pc, frontier, cq, session, failing, sqe, ret>>
  BY Zenon DEF NodesSyscallSync, SyscallSync, NodesInv, IInv, SessionBounds, InCall
<1>2. /\ IInv /\ ArgsInv /\ SqeInv /\ DOMAIN rc = Pos /\ DOMAIN mem = AllBufs /\ DOMAIN stage = Pos
      /\ args[f] = AppArgs(f) /\ (HasDest(f) => buf[f] = UserBuf(f))
  BY <1>1, Zenon DEF NodesInv, IInv, TypeOK, PoolsInv, ResultInv, ArgsInv, ArgsAgree, InCall
<1>3. sqe[f] = NoSqe
  BY <1>1, <1>2, Zenon DEF SqeInv
<1>4. \A i : AppArgs(i)' = AppArgs(i) /\ Outcome(i, -1)' = Outcome(i, -1)
  BY <1>1, Zenon DEF AppArgs, Outcome
<1>5. /\ DOMAIN mem' = AllBufs
      /\ \A b : b # UserBuf(f) => mem'[b] = mem[b]
      /\ HasDest(f) /\ f \notin failing => mem'[UserBuf(f)] = AppArgs(f)
  <2>1. UserBuf(f) \in AllBufs /\ UserBuf(f) # NoBuf
    BY <1>1, InMemory, BufsDiffer, Zenon
  <2> QED
    BY <1>1, <1>2, <2>1 DEF Fill
<1>6. /\ DOMAIN rc' = Pos /\ rc'[f] = Outcome(f, -1)
      /\ \A i \in Pos \ {f} : rc'[i] = rc[i] /\ stage'[i] = stage[i]
  BY <1>1, <1>2, Zenon
<1> HIDE DEF f
<1>7. ResultKept(f)' /\ DataKept(f)'
  <2>1. f' = f
    BY <1>1, Zenon DEF f
  <2>2. IF f \in failing' THEN rc'[f] < 0 ELSE rc'[f] = Outcome(f, -1)
    BY <1>1, <1>6 DEF Outcome
  <2>3. HasDest(f) /\ f \notin failing' => mem'[UserBuf(f)] = AppArgs(f)
    BY <1>1, <1>5, Zenon
  <2> QED
    BY <1>1, <1>3, <1>4, <2>1, <2>2, <2>3, Zenon DEF ResultKept, DataKept, HasDest, Class, UserBuf
<1>8. ASSUME NEW i \in Pos \ {f}, Ran(i)'
      PROVE  ResultKept(i)' /\ DataKept(i)' /\ sqe[i] # NoSqe
  <2>1. Ran(i)
    BY <1>1, <1>6, <1>8, Zenon DEF Ran
  <2>2. ResultKept(i) /\ DataKept(i) /\ sqe[i] # NoSqe
    BY <1>1, <1>8, <2>1, Zenon DEF ResultInv, DataInv, InSession, f
  <2>3. HasDest(i) => mem'[sqe[i].buf] = mem[sqe[i].buf]
    BY <1>1, <1>5, <1>8, <2>2, SqeBufs, Zenon
  <2> QED
    BY <1>1, <1>4, <1>6, <2>2, <2>3, Zenon DEF ResultKept, DataKept
<1>9. DataInv'
  <2>1. \A i \in Pos : Ran(i)' => ResultKept(i)' /\ DataKept(i)' /\ (sqe'[i] = NoSqe => i = f)
    <3> SUFFICES ASSUME NEW i \in Pos, Ran(i)'
                 PROVE  ResultKept(i)' /\ DataKept(i)' /\ (sqe'[i] = NoSqe => i = f)
      BY Zenon
    <3>1. CASE i = f
      <4>1. frontier' = frontier /\ i = frontier
        BY <1>1, <3>1, Zenon DEF f
      <4> QED
        BY <1>1, <1>4, <1>7, <3>1, <4>1, Zenon DEF f, ResultKept, DataKept
    <3>2. CASE i # f
      BY <1>1, <1>8, <3>2, Zenon
    <3> QED
      BY <3>1, <3>2, Zenon
  <2> QED
    BY <1>1, <2>1, Zenon DEF DataInv, InCall, f
<1>10. ResultsTransparent'
  BY <1>1, Zenon DEF ResultsTransparent
<1> QED
  BY <1>1, <1>5, <1>6, <1>9, <1>10, Zenon DEF ResultInv

(* ReflectResult moves the data of a pre-issued call to the application's  *)
(* buffer.                                                                 *)
LEMMA PushResults ==
  ASSUME DestinationsKnown, NodesInv, ResultInv, NodesPushForward
  PROVE  ResultInv'
<1> DEFINE f == frontier
<1>1. /\ pc = "self" /\ pc' = "app" /\ f \in Pos /\ stage[f] = "finished" /\ frontier' = f + 1
      /\ stage' = [stage EXCEPT ![f] = "none"]
      /\ mem' = IF sqe[f] # NoSqe /\ internal[f] # NoBuf
                THEN [mem EXCEPT ![buf[f]] = mem[internal[f]]] ELSE mem
      /\ ret' = [ret EXCEPT ![f] = rc[f]] /\ sqe' = [sqe EXCEPT ![f] = NoSqe]
      /\ rc' = [rc EXCEPT ![f] = 0]
      /\ UNCHANGED <<cq, session, failing>>
  BY Zenon DEF NodesPushForward, PushForward, ReflectResult, engineVars, NodesInv, IInv,
         SessionBounds, InCall
<1>2. /\ IInv /\ ArgsInv /\ InternalInv /\ SqeInv
      /\ DOMAIN rc = Pos /\ DOMAIN mem = AllBufs /\ DOMAIN stage = Pos /\ DOMAIN sqe = Pos
      /\ DOMAIN ret = Pos /\ (HasDest(f) => buf[f] = UserBuf(f))
  BY <1>1, Zenon DEF NodesInv, IInv, TypeOK, PoolsInv, ResultInv, ArgsInv, ArgsAgree, InCall
<1>3. /\ ResultKept(f) /\ DataKept(f)
      /\ \A i \in Pos \ {f} : Ran(i) => ResultKept(i) /\ DataKept(i) /\ sqe[i] # NoSqe
  BY <1>1, Zenon DEF ResultInv, DataInv, InSession, Ran
<1>4. \A i : Outcome(i, -1)' = Outcome(i, -1)
  BY <1>1, Zenon DEF Outcome
<1>5. ASSUME NEW i \in Pos, Needs[i] < f PROVE AppArgs(i)' = AppArgs(i)
  <2>1. Needs[i] \in Int /\ f \in Int
    BY <1>1, ClassAssumption, PosInt
  <2>2. ret'[Needs[i]] = ret[Needs[i]]
    BY <1>1, <1>5, <2>1
  <2> QED
    BY <1>1, <2>2, Zenon DEF AppArgs
<1>6. Needs[f] < f
  BY <1>1, ClassAssumption, PosInt
<1>7. internal[f] # NoBuf => HasDest(f) /\ IsStatx(f)
  <2> SUFFICES ASSUME internal[f] # NoBuf PROVE HasDest(f) /\ IsStatx(f)
    BY Zenon
  <2>1. NeedsInternal(f)
    BY <1>1, <1>2, Zenon DEF InternalInv
  <2> QED
    BY <1>1, <2>1, Zenon DEF NeedsInternal, IsStatx, HasDest, DestinationsKnown
<1>8. DOMAIN mem' = AllBufs /\ \A b : b # UserBuf(f) => mem'[b] = mem[b]
  BY <1>1, <1>2, <1>7
<1>9. ASSUME HasDest(f), f \notin failing PROVE mem'[UserBuf(f)] = AppArgs(f)
  <2>1. CASE sqe[f] # NoSqe /\ internal[f] # NoBuf
    <3>1. sqe[f].buf = internal[f]
      BY <1>1, <1>2, <1>7, <2>1, Zenon DEF SqeInv
    <3>2. mem[internal[f]] = AppArgs(f)
      BY <1>3, <1>9, <2>1, <3>1, Zenon DEF DataKept
    <3>3. mem' = [mem EXCEPT ![UserBuf(f)] = mem[internal[f]]] /\ UserBuf(f) \in AllBufs
      BY <1>1, <1>2, <1>9, <2>1, InMemory, Zenon
    <3> QED
      BY <1>2, <3>2, <3>3, Zenon
  <2>2. CASE sqe[f] # NoSqe /\ internal[f] = NoBuf
    <3>1. ~IsStatx(f)
      BY <1>1, <1>2, <2>2, Zenon DEF InternalInv
    <3>2. sqe[f].buf = UserBuf(f)
      BY <1>1, <1>2, <1>9, <2>2, <3>1, Zenon DEF SqeInv, DestinationsKnown
    <3> QED
      BY <1>1, <1>3, <1>9, <2>2, <3>2, Zenon DEF DataKept
  <2>3. CASE sqe[f] = NoSqe
    BY <1>1, <1>3, <1>9, <2>3, Zenon DEF DataKept
  <2> QED
    BY <2>1, <2>2, <2>3, Zenon
<1>10. f \notin cq
  BY <1>1, <1>2, Zenon DEF IInv, EngineAgrees
<1>11. /\ \A i \in Pos \ {f} : rc'[i] = rc[i] /\ sqe'[i] = sqe[i] /\ stage'[i] = stage[i]
       /\ stage'[f] = "none" /\ ret'[f] = rc[f] /\ DOMAIN ret' = Pos /\ DOMAIN rc' = Pos
  BY <1>1, <1>2, Zenon
<1>12. f + 1 > 0 /\ (f + 1) - 1 = f
  BY <1>1, PosInt, SMTT(30)
<1> HIDE DEF f
<1>13. ASSUME NEW i \in Pos, Ran(i)'
       PROVE  ResultKept(i)' /\ DataKept(i)' /\ sqe'[i] # NoSqe
  <2>1. i # f /\ Ran(i)
    BY <1>1, <1>10, <1>11, <1>13, Zenon DEF Ran
  <2>2. ResultKept(i) /\ DataKept(i) /\ sqe[i] # NoSqe
    BY <1>3, <2>1, Zenon
  <2>3. AppArgs(i)' = AppArgs(i)
    <3>1. stage[i] # "none"
      BY <1>2, <2>2, Zenon DEF SqeInv
    <3> QED
      BY <1>2, <1>5, <3>1, Zenon DEF ArgsInv, f
  <2>4. HasDest(i) => mem'[sqe[i].buf] = mem[sqe[i].buf]
    BY <1>1, <1>8, <2>1, <2>2, SqeBufs, Zenon
  <2> QED
    BY <1>1, <1>4, <1>11, <2>1, <2>2, <2>3, <2>4, SMTT(30) DEF ResultKept, DataKept
<1>14. DataInv'
  BY <1>13, Zenon DEF DataInv
<1>15. ResultsTransparent'
  <2>1. PICK i \in Pos : i = f
    BY <1>1, Zenon
  <2>2. AppArgs(i)' = AppArgs(i) /\ Outcome(i, -1)' = Outcome(i, -1)
    BY <1>4, <1>5, <1>6, <2>1, Zenon
  <2>3. IF i \in failing' THEN ret'[i] < 0
        ELSE /\ ret'[i] = Outcome(i, -1)'
             /\ HasDest(i) => mem'[UserBuf(i)] = AppArgs(i)'
    BY <1>1, <1>3, <1>9, <1>11, <2>1, <2>2, Zenon DEF ResultKept
  <2>4. frontier' - 1 = i
    BY <1>1, <1>12, <2>1, Zenon
  <2> QED
    BY <2>3, <2>4, Zenon DEF ResultsTransparent
<1> QED
  BY <1>8, <1>11, <1>14, <1>15, Zenon DEF ResultInv

FullInv == NodesInv /\ ResultInv

(* Every step keeps the results. *)
LEMMA NextResults == ASSUME DestinationsKnown PROVE FullInv /\ [NodesNext]_allVars => FullInv'
<1> SUFFICES ASSUME FullInv, [NodesNext]_allVars PROVE FullInv'
  BY Zenon
<1>1. NodesInv /\ NodesInv' /\ ResultInv /\ IInv
  BY NextPools, Zenon DEF FullInv, NodesInv
<1> SUFFICES ResultInv'
  BY <1>1, Zenon DEF FullInv
<1> USE DEF InSession, InCall
<1>2. CASE NodesEnter
  BY <1>1, <1>2, EnterResults, Zenon
<1>3. CASE NodesCall
  <2>1. \A i \in Pos : stage'[i] = "finished" => stage[i] = "finished"
    BY <1>1, <1>3, Zenon DEF NodesCall, CallNoPeek, CallPeek, CheckArgs, IInv, TypeOK
  <2> QED
    BY <1>1, <1>3, <2>1, SameResults, Zenon DEF NodesCall, CallNoPeek, CallPeek, engineVars, Ran
<1>4. CASE NodesPeekEnds \/ NodesPeekNotReady
  BY <1>1, <1>4, SameResults, Zenon DEF NodesPeekEnds, NodesPeekNotReady, PeekDone, PeekEnd,
     PeekBarrier, PeekNotReady, PeekContinue, Peeking, graphVars, engineVars, dataVars, Ran
<1>5. CASE NodesPeekGenerate
  <2>1. \A i \in Pos : stage'[i] = "finished" => stage[i] = "finished"
    BY <1>1, <1>5, Zenon DEF NodesPeekGenerate, PeekUnforeactable, PeekPrepare, IInv, TypeOK
  <2> QED
    BY <1>1, <1>5, <2>1, SameResults, Zenon DEF NodesPeekGenerate, PeekUnforeactable, PeekPrepare,
       PeekContinue, Peeking, Ran
<1>6. CASE NodesSubmit
  <2>1. CASE SubmitNone /\ UNCHANGED dataVars
    BY <1>1, <2>1, SameResults, Zenon DEF SubmitNone, graphVars, engineVars, dataVars, Ran
  <2>2. CASE /\ SubmitAll
             /\ sqe' = [i \in Pos |-> IF InPrepared(i) THEN PrepSqe(i) ELSE sqe[i]]
             /\ UNCHANGED <<session, failing, poolVars, rc, mem, ret>>
    <3>1. /\ pc = "submit" /\ pc' = "self" /\ frontier' = frontier /\ cq' = cq
          /\ stage' = [i \in Pos |-> IF InPrepared(i) THEN "onthefly" ELSE stage[i]]
      BY <2>2, Zenon DEF SubmitAll
    <3>2. ASSUME NEW i \in Pos, Ran(i)' PROVE Ran(i) /\ sqe'[i] = sqe[i]
      <4>1. i \in cq => ~InPrepared(i)
        BY <1>1, <3>1, Zenon DEF IInv, EngineAgrees
      <4> QED
        BY <2>2, <3>1, <3>2, <4>1, Zenon DEF Ran
    <3> QED
      BY <1>1, <2>2, <3>1, <3>2, SameResults, Zenon
  <2> QED
    BY <1>6, <2>1, <2>2, Zenon DEF NodesSubmit
<1>7. CASE NodesSyscallSync
  BY <1>1, <1>7, SyncResults, Zenon
<1>8. CASE NodesPushForward
  BY <1>1, <1>8, PushResults, Zenon
<1>9. CASE NodesReset \/ NodesLeave
  BY <1>1, <1>9, OutsideResults, Zenon DEF NodesReset, ResetToStart, NodesLeave, Leave, dataVars, ResultInv
<1>10. ASSUME NEW k \in Pos, NodesCmplAsync(k) PROVE ResultInv'
  <2>1. \A i \in Pos : Ran(i)' => Ran(i)
    BY <1>1, <1>10, Zenon DEF NodesCmplAsync, CmplAsync, Ran, IInv, TypeOK
  <2> QED
    BY <1>1, <1>10, <2>1, SameResults, Zenon DEF NodesCmplAsync, CmplAsync, dataVars
<1>11. ASSUME NEW k \in Pos, NodesDrainOne(k) PROVE ResultInv'
  BY <1>1, <1>11, OutsideResults, Zenon DEF NodesDrainOne, DrainOne, dataVars, ResultInv
<1>12. ASSUME NEW k \in Pos, NodesEngineRun(k) PROVE ResultInv'
  BY <1>1, <1>12, EngineResults, Zenon
<1>13. CASE UNCHANGED allVars
  BY <1>1, <1>13, SameResults, Zenon DEF allVars, vars, graphVars, engineVars, dataVars, Ran
<1> QED
  BY <1>2, <1>3, <1>4, <1>5, <1>6, <1>7, <1>8, <1>9, <1>10, <1>11, <1>12, <1>13, Zenon DEF NodesNext

(* Nothing has been returned initially. *)
LEMMA InitResults == NodesInit => FullInv
<1> SUFFICES ASSUME NodesInit PROVE ResultInv
  BY InitPools, Zenon DEF FullInv
<1> QED
  BY Zenon DEF NodesInit, Init, ResultInv, DataInv, InSession, ResultsTransparent

-----------------------------------------------------------------------------
(* The arguments in the pools of the instance being called are those of    *)
(* the call: the assertions at the end of CheckArgs hold, whatever was     *)
(* peeked at and never called in earlier sessions.                         *)
THEOREM ArgsCorrect == NodesSpec => []ArgsAgree
<1>1. NodesInv => ArgsAgree
  BY Zenon DEF NodesInv, PoolsInv, ArgsInv
<1> QED
  BY <1>1, InitPools, NextPools, PTL DEF NodesSpec

(* Depth + 1 internal buffers for a node are enough: each is free or       *)
(* belongs to one instance, the engine fills no free one, and the peek     *)
(* finds a free one, as the assertions of GenerateArgs say.                *)
THEOREM InternalsCorrect == NodesSpec => []InternalsAccounted
BY Accounted, InitPools, NextPools, PTL DEF NodesSpec

(* What a call returns, and the data it leaves in the application's        *)
(* buffer, are those of the same call without the library, provided that a *)
(* getdents is generated with its destination: PrepUringSqe and            *)
(* PrepUpoolSqe do not use its internal buffer.                            *)
THEOREM ResultsCorrect ==
  ASSUME DestinationsKnown PROVE NodesSpec => []ResultsTransparent
<1>1. FullInv => ResultsTransparent
  BY Zenon DEF FullInv, ResultInv
<1> QED
  BY <1>1, InitResults, NextResults, PTL DEF NodesSpec
=============================================================================
