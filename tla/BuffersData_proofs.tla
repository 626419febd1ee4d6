-------------------------- MODULE BuffersData_proofs -------------------------
(***************************************************************************)
(* The data that go through the buffers of the copying loops: what the     *)
(* application has read, and what it has written, for every order of the   *)
(* engine that respects links.  The plugins are those of Claimed: without  *)
(* links any file, block length and depth; with links whole blocks and a   *)
(* depth of at least 2.                                                    *)
(***************************************************************************)
EXTENDS Buffers_proofs

Ran(i) == runs[i] # 0
Length(i) == Max({0, Min({BufSize, Size - Offset(i)})})

(* The block of a pread is in buffer b, and what the pwrite of it writes.  *)
Block(b, i) == \A k \in Cells : k < Length(i) => mem[b][k] = Source(Offset(i) + k)
NewBlock(b, i) == \A k \in Cells : k < Length(i) => mem[b][k] = Computed(Source(Offset(i) + k))

CountInv ==
  /\ \A i \in Pos : IsRead(i) /\ stage[i] # "none" => count[i] = BufSize
  /\ \A i \in Pos : ~IsRead(i) /\ stage[i] # "none" => count[i] = Length(i)
  /\ InSession => \A i \in Pos : IsRead(i) /\ i >= frontier /\ Ran(i) => rc[i] = Length(i)
  /\ InSession /\ frontier > 0 /\ IsRead(frontier - 1) => app_rc = Length(frontier - 1)

(* Where the data are. *)
MemInv ==
  InSession =>
    /\ \A i \in Pos : IsRead(i) /\ Ran(i) /\ Held(Epoch(i)) => Block(internal_buf[Epoch(i)], i)
    /\ \A i \in Pos : IsRead(i) /\ Ran(i) /\ i >= frontier /\ ~Held(Epoch(i)) => Block(UserBuf(i), i)
    /\ frontier > 0 /\ IsRead(frontier - 1)
         /\ (~plugin.skip_memcpy \/ (frontier \in Pos /\ ~Held(Epoch(frontier - 1)))) =>
            /\ pc = "app" => Block(UserBuf(frontier - 1), frontier - 1)
            /\ pc # "app" => NewBlock(UserBuf(frontier - 1), frontier - 1)

FileInv ==
  /\ ~plugin.in_place => file["in"] = NewFiles["in"]
  /\ \A e \in 0 .. PathLen, k \in Cells :
       LET o == BufSize * e + k
       IN  file[Output][o] = IF 2 * e + 1 \in Pos /\ Ran(2 * e + 1) /\ o < Size
                             THEN Computed(Source(o)) ELSE NewFiles[Output][o]

ShapeInv ==
  /\ DOMAIN count = Pos /\ DOMAIN rc = Pos
  /\ DOMAIN mem = AllBufs /\ \A b \in AllBufs : DOMAIN mem[b] = Cells
  /\ DOMAIN file = {"in", "out"} /\ \A f \in {"in", "out"} : DOMAIN file[f] = 0 .. (Top - 1)

DataInv == RequestInv /\ CountInv /\ MemInv /\ FileInv /\ ShapeInv

AllInv == BuffersInv /\ DataInv

-----------------------------------------------------------------------------
(* Blocks of a file. *)

(* The larger of two integers. *)
LEMMA MaxTwo == ASSUME NEW a \in Int, NEW b \in Int PROVE Max({a, b}) = IF a >= b THEN a ELSE b
<1>1. \E x \in {a, b} : \A y \in {a, b} : x >= y
  OBVIOUS
<1>2. Max({a, b}) \in {a, b} /\ \A y \in {a, b} : Max({a, b}) >= y
  BY <1>1, Zenon DEF Max
<1> QED
  BY <1>2

(* The smaller of two integers. *)
LEMMA MinTwo == ASSUME NEW a \in Int, NEW b \in Int PROVE Min({a, b}) = IF a <= b THEN a ELSE b
<1>1. \E x \in {a, b} : \A y \in {a, b} : x <= y
  OBVIOUS
<1>2. Min({a, b}) \in {a, b} /\ \A y \in {a, b} : Min({a, b}) <= y
  BY <1>1, Zenon DEF Min
<1> QED
  BY <1>2

(* The offset of a block is the number of its block times BufSize. *)
LEMMA OffsetInt ==
  \A i \in Pos : Offset(i) \in Int /\ Offset(i) >= 0 /\ Offset(i) = BufSize * Epoch(i)
<1> SUFFICES ASSUME NEW i \in Pos PROVE Offset(i) \in Int /\ Offset(i) >= 0
  BY Zenon DEF Offset
<1>1. PICK e \in Nat : e = Epoch(i)
  BY Blocks
<1>2. BufSize * e \in Int /\ BufSize * e >= 0
  BY BufferAssumption
<1> QED
  BY <1>1, <1>2, Zenon DEF Offset

(* The length of a block, and the bytes of the file that it has. *)
LEMMA LengthIs ==
  ASSUME NEW i \in Pos
  PROVE  /\ Length(i) \in Int /\ 0 <= Length(i) /\ Length(i) <= BufSize
         /\ \A k \in Cells : k \in Int /\ 0 <= k /\ k < BufSize
                             /\ (k < Length(i) <=> Offset(i) + k < Size)
         /\ Offset(i) + BufSize <= Size => Length(i) = BufSize
<1>1. PICK o \in Int : o = Offset(i) /\ o >= 0
  BY OffsetInt, Zenon
<1>2. BufSize \in Int /\ BufSize > 0 /\ Size \in Int /\ Size - o \in Int
  BY BufferAssumption
<1>3. PICK m \in Int : m = Min({BufSize, Size - o}) /\ m = IF BufSize <= Size - o THEN BufSize ELSE Size - o
  BY <1>2, MinTwo, Zenon
<1>4. Length(i) = IF 0 >= m THEN 0 ELSE m
  BY <1>1, <1>3, MaxTwo DEF Length
<1> QED
  BY <1>1, <1>2, <1>3, <1>4 DEF Cells

(* The kernel reads as much as there is. *)
LEMMA ReadLenIs == ASSUME NEW i \in Pos, count[i] = BufSize PROVE ReadLen(i) = Length(i)
BY Zenon DEF ReadLen, Length

(* The pread and the pwrite of a block have its offset, its length and the *)
(* buffer of the application.                                              *)
LEMMA SameBlock ==
  ASSUME NEW i \in Pos, NEW j \in Pos, Epoch(i) = Epoch(j)
  PROVE  Offset(i) = Offset(j) /\ Length(i) = Length(j) /\ UserBuf(i) = UserBuf(j)
BY Zenon DEF Offset, Length, UserBuf

(* Blocks do not overlap. *)
LEMMA BlocksApart ==
  ASSUME NEW d \in Nat, NEW e \in Nat, d < e, NEW k \in Cells
  PROVE  BufSize * d + k < BufSize * e
<1>1. PICK n \in Nat : e = d + 1 + n
  <2>1. e - d - 1 \in Nat /\ e = d + 1 + (e - d - 1)
    OBVIOUS
  <2> QED
    BY <2>1, Zenon
<1>2. BufSize \in Nat /\ BufSize * e = BufSize * d + BufSize + BufSize * n
  BY <1>1, BufferAssumption
<1>3. BufSize * n \in Nat /\ BufSize * d \in Nat
  BY <1>2
<1>4. k \in Int /\ k < BufSize
  BY <1>2 DEF Cells
<1> QED
  BY <1>2, <1>3, <1>4

(* The bytes of the blocks up to PathLen are bytes of the file. *)
LEMMA ByteIn ==
  ASSUME NEW e \in 0 .. PathLen, NEW k \in Cells
  PROVE  BufSize * e + k \in 0 .. (Top - 1) /\ e \in Nat
<1>1. e \in Nat /\ PathLen + 1 \in Nat /\ e < PathLen + 1
  BY PathAssumption
<1>2. BufSize * e + k < BufSize * (PathLen + 1)
  BY <1>1, BlocksApart, Zenon
<1>3. BufSize * e \in Nat /\ k \in Nat /\ BufSize * (PathLen + 1) \in Nat
  BY <1>1, BufferAssumption DEF Cells
<1> QED
  BY <1>1, <1>2, <1>3 DEF Top

(* Every byte is in a block. *)
LEMMA BlockOf ==
  ASSUME NEW o \in 0 .. (Top - 1)
  PROVE  \E e \in 0 .. PathLen, k \in Cells : e = o \div BufSize /\ o = BufSize * e + k
<1>1. o \in Nat /\ BufSize \in Nat \ {0} /\ PathLen \in Nat
  BY BufferAssumption, PathAssumption DEF Top
<1>2. PICK e \in Int : e = o \div BufSize
  BY <1>1
<1>3. PICK k \in Int : k = o % BufSize
  BY <1>1
<1>4. o = BufSize * e + k /\ 0 <= k /\ k < BufSize /\ e >= 0
  BY <1>1, <1>2, <1>3
<1>5. e <= PathLen
  <2> SUFFICES ASSUME e > PathLen PROVE FALSE
    BY <1>1, <1>2
  <2>1. PICK n \in Nat : e = PathLen + 1 + n
    <3>1. e - PathLen - 1 \in Nat /\ e = PathLen + 1 + (e - PathLen - 1)
      BY <1>1
    <3> QED
      BY <3>1, Zenon
  <2>2. BufSize * e = BufSize * (PathLen + 1) + BufSize * n /\ BufSize * n \in Nat
    BY <1>1, <2>1
  <2>3. BufSize * (PathLen + 1) \in Nat /\ o < BufSize * (PathLen + 1)
    BY <1>1 DEF Top
  <2> QED
    BY <1>1, <1>4, <2>2, <2>3
<1>6. e \in 0 .. PathLen /\ k \in Cells
  BY <1>1, <1>4, <1>5, SMTT(30) DEF Cells
<1> QED
  BY <1>2, <1>4, <1>6, Zenon

-----------------------------------------------------------------------------
(* How much is read and written. *)

(* The steps that neither make a system call nor start or end one. *)
Idle ==
  /\ UNCHANGED <<plugin, count, rc, mem, file, app_rc, frontier, runs, internal_buf>>
  /\ InSession' => InSession
  /\ pc' = "app" <=> pc = "app"
  /\ \A i \in Pos : stage'[i] # "none" => stage[i] # "none"

(* Peeking without preparing, submitting and waiting for a completion are  *)
(* idle, and so is a stutter.                                              *)
LEMMA IdleSteps ==
  ASSUME BuffersInv,
         \/ DataPeekEnds \/ DataPeekNotReady \/ DataSubmit \/ UNCHANGED allVars
         \/ \E i \in Pos : DataCmplAsync(i)
  PROVE  Idle
<1> USE DEF dataVars, argVars, Idle, InSession
<1>1. stage \in [Pos -> Stages]
  BY Zenon DEF BuffersInv, IInv, TypeOK
<1>2. CASE DataPeekEnds
  BY <1>2, Zenon DEF DataPeekEnds, PeekDone, PeekEnd, Peeking, graphVars, engineVars
<1>3. CASE DataPeekNotReady
  BY <1>3, Zenon DEF DataPeekNotReady, PeekNotReady, Peeking, PeekContinue
<1>4. CASE DataSubmit
  <2>1. CASE SubmitNone /\ UNCHANGED dataVars
    BY <2>1, Zenon DEF SubmitNone, graphVars, engineVars
  <2>2. CASE SubmitAll /\ UNCHANGED <<plugin, argVars, rc, mem, file, app_rc>>
    <3>1. /\ pc = "submit" /\ pc' = "self" /\ UNCHANGED <<frontier, runs>>
          /\ stage' = [i \in Pos |-> IF InPrepared(i) THEN "onthefly" ELSE stage[i]]
      BY <2>2, Zenon DEF SubmitAll
    <3>2. \A i \in Pos : InPrepared(i) => stage[i] = "prepared"
      BY <3>1, Zenon DEF BuffersInv, IInv, EngineAgrees
    <3> QED
      BY <2>2, <3>1, <3>2, Zenon
  <2> QED
    BY <1>4, <2>1, <2>2, Zenon DEF DataSubmit
<1>5. ASSUME NEW i \in Pos, DataCmplAsync(i) PROVE Idle
  <2>1. stage[i] = "onthefly"
    BY <1>5, Zenon DEF DataCmplAsync, CmplAsync, BuffersInv, IInv, EngineAgrees
  <2> QED
    BY <1>1, <1>5, <2>1, Zenon DEF DataCmplAsync, CmplAsync
<1>6. CASE UNCHANGED allVars
  BY <1>6, Zenon DEF allVars, vars, graphVars, engineVars
<1> QED
  BY <1>2, <1>3, <1>4, <1>5, <1>6, Zenon

(* What is running belongs to a session. *)
LEMMA RunsInSession ==
  ASSUME BuffersInv, NEW i \in Pos, DataEngineRun(i)
  PROVE  /\ InSession /\ InSession' /\ stage[i] = "onthefly" /\ i >= frontier /\ ~Ran(i)
         /\ UNCHANGED <<plugin, pc, frontier, stage, buf, count, internal_buf, sqe, app_rc>>
         /\ DOMAIN runs = Pos /\ runs' = [runs EXCEPT ![i] = @ + 1] /\ Ran(i)'
         /\ \A j \in Pos : j # i => (Ran(j)' <=> Ran(j))
<1>1. /\ i \in onthefly /\ i \notin cq /\ UNCHANGED <<pc, frontier, stage>>
      /\ runs' = [runs EXCEPT ![i] = @ + 1] /\ UNCHANGED <<plugin, buf, count, internal_buf, sqe, app_rc>>
  BY Zenon DEF DataEngineRun, EngineRun, graphVars, argVars
<1>2. pc \notin {"out", "drain"} /\ pc \in {"out", "app", "peek", "submit", "self", "drain"}
  BY <1>1, Zenon DEF BuffersInv, PoolsInv, QuietInv, IInv, TypeOK
<1>3. InSession /\ InSession'
  BY <1>1, <1>2, Zenon DEF InSession
<1>4. stage[i] = "onthefly" /\ i >= frontier
  BY <1>1, <1>2, Zenon DEF BuffersInv, IInv, EngineAgrees, StageWindow
<1>5. runs[i] = 0 /\ runs \in [Pos -> Nat]
  BY <1>1, Zenon DEF BuffersInv, IInv, TypeOK, RunCount
<1>6. runs'[i] = 1 /\ \A j \in Pos : j # i => runs'[j] = runs[j]
  BY <1>1, <1>5
<1> QED
  BY <1>1, <1>3, <1>4, <1>5, <1>6, SMTT(30) DEF Ran

(* A synchronous call runs the system call of the frontier, which had not  *)
(* run.                                                                    *)
LEMMA SyncRuns ==
  ASSUME BuffersInv, DataSyscallSync
  PROVE  /\ frontier \in Pos /\ pc = "self" /\ InSession /\ stage[frontier] = "argready" /\ ~Ran(frontier)
         /\ UNCHANGED <<plugin, pc, frontier, buf, count, internal_buf, sqe, app_rc>>
         /\ \A i \in Pos : stage'[i] # "none" => stage[i] # "none"
         /\ \A i \in Pos : i = frontier => Ran(i)'
         /\ \A i \in Pos : i # frontier => (Ran(i)' <=> Ran(i))
<1>1. /\ pc = "self" /\ stage[frontier] = "argready" /\ stage' = [stage EXCEPT ![frontier] = "finished"]
      /\ runs' = [runs EXCEPT ![frontier] = @ + 1]
      /\ UNCHANGED <<plugin, pc, frontier, buf, count, internal_buf, sqe, app_rc>>
  BY Zenon DEF DataSyscallSync, SyscallSync, argVars
<1>2. frontier \in Pos /\ stage \in [Pos -> Stages] /\ runs \in [Pos -> Nat] /\ frontier \in Int /\ InSession
  BY <1>1, PosInt, Zenon DEF BuffersInv, IInv, TypeOK, SessionBounds, InCall, InSession
<1>3. frontier \notin cq
  BY <1>1, <1>2, Zenon DEF BuffersInv, IInv, EngineAgrees
<1>4. runs[frontier] = 0
  BY <1>1, <1>2, <1>3, SMTT(30) DEF BuffersInv, IInv, RunCount
<1>5. runs'[frontier] = 1 /\ \A j \in Pos : j # frontier => runs'[j] = runs[j]
  BY <1>1, <1>2, <1>4
<1> QED
  BY <1>1, <1>2, <1>4, <1>5, SMTT(30) DEF Ran

(* Every step keeps the counts. *)
LEMMA NextCounts == ASSUME AllInv, BuffersInv', [DataNext]_allVars PROVE CountInv'
(* An idle step keeps the counts. *)
<1>IdleCounts.
  ASSUME CountInv, Idle PROVE CountInv'
  <2> USE <1>IdleCounts
  <2>1. \A i : (Length(i)' = Length(i)) /\ (Ran(i)' <=> Ran(i))
    BY Zenon DEF Idle, Length, Offset, Ran
  <2> QED
    BY <2>1, Zenon DEF CountInv, Idle
(* At the start of a session nothing has run. *)
<1>EnterCounts.
  ASSUME BuffersInv, CountInv, DataEnter PROVE CountInv'
  <2> USE <1>EnterCounts
  <2>1. /\ runs' = [i \in Pos |-> 0] /\ UNCHANGED <<stage, frontier, count>> /\ frontier = 0
    BY Zenon DEF DataEnter, Enter, graphVars, argVars, BuffersInv, IInv, SessionBounds
  <2>2. \A i \in Pos : ~Ran(i)'
    BY <2>1, Zenon DEF Ran
  <2>3. \A i : Length(i)' = Length(i)
    BY Zenon DEF Length, Offset
  <2> QED
    BY <2>1, <2>2, <2>3, SMTT(30) DEF CountInv
(* The application asks for a whole block when it reads, and writes as     *)
(* many bytes as it got.                                                   *)
<1>CallCounts.
  ASSUME BuffersInv, CountInv, ShapeInv, DataCall PROVE CountInv'
  <2> USE <1>CallCounts
  <2>1. PICK f \in Pos : f = frontier /\ f \in Int /\ f >= 0
    BY CallBufs, PosInt, Zenon
  <2>2. /\ pc = "app" /\ UNCHANGED <<frontier, runs, rc, app_rc>>
        /\ \A i \in Pos : i # f => stage'[i] = stage[i]
        /\ count' = IF stage[f] = "none" THEN [count EXCEPT ![f] = AppCount(f)] ELSE count
    BY <2>1, CallBufs, Zenon DEF DataCall, CheckArgsData
  <2>3. InSession
    BY <2>2, Zenon DEF InSession
  <2>4. DOMAIN count = Pos
    BY Zenon DEF ShapeInv
  <2>5. ~IsRead(f) => app_rc = Length(f)
    <3> SUFFICES ASSUME ~IsRead(f) PROVE app_rc = Length(f)
      BY Zenon
    <3>1. f - 1 \in Pos /\ IsRead(f - 1) /\ Epoch(f - 1) = Epoch(f)
      BY Partner, Zenon
    <3>2. f > 0
      BY <2>1, <3>1, PosInt
    <3>3. app_rc = Length(f - 1)
      BY <2>1, <2>3, <3>1, <3>2, Zenon DEF CountInv
    <3> QED
      BY <3>1, <3>3, SameBlock, Zenon
  <2>6. stage[f] = "none" => count'[f] = IF IsRead(f) THEN BufSize ELSE Length(f)
    BY <2>2, <2>4, <2>5, Zenon DEF AppCount
  <2>7. \A i \in Pos : stage'[i] # "none" => count'[i] = IF IsRead(i) THEN BufSize ELSE Length(i)
    <3> SUFFICES ASSUME NEW i \in Pos, stage'[i] # "none"
                 PROVE  count'[i] = IF IsRead(i) THEN BufSize ELSE Length(i)
      BY Zenon
    <3>1. CASE i = f /\ stage[f] = "none"
      BY <2>6, <3>1, Zenon
    <3>2. CASE ~(i = f /\ stage[f] = "none")
      <4>1. count'[i] = count[i] /\ stage[i] # "none"
        BY <2>2, <2>4, <3>2, Zenon
      <4> QED
        BY <4>1, Zenon DEF CountInv
    <3> QED
      BY <3>1, <3>2, Zenon
  <2>8. \A i : (Length(i)' = Length(i)) /\ (Ran(i)' <=> Ran(i))
    BY <2>2, Zenon DEF Length, Offset, Ran
  <2> QED
    BY <2>2, <2>3, <2>7, <2>8, Zenon DEF CountInv
(* A pre-issued pwrite asks for the length of its block: without links it  *)
(* is not pre-issued, and with links every block of a link is whole.       *)
<1>PrepareCounts.
  ASSUME AllInv, BuffersInv', DataPeekPrepare PROVE CountInv'
  <2> USE <1>PrepareCounts
  <2>1. BuffersInv /\ CountInv /\ ShapeInv /\ (PlainPlugin(plugin) \/ LinkedPlugin(plugin)) /\ WriteInv'
    <3>1. [DataNext]_allVars
      BY Zenon DEF DataNext
    <3> QED
      BY <3>1, NextWrites, Zenon DEF AllInv, DataInv, RequestInv
  <2>2. PICK p \in Pos : p = peekhead
    BY <2>1, PrepareBufs, Zenon
  <2>3. /\ stage' = [stage EXCEPT ![p] = "prepared"] /\ pc = "peek"
        /\ UNCHANGED <<plugin, frontier, runs, rc, app_rc>>
        /\ count' = [count EXCEPT ![p] = BufSize]
    BY <2>1, <2>2, PrepareBufs, Zenon DEF DataPeekPrepare, GeneratePread, GeneratePwrite
  <2>4. DOMAIN count = Pos /\ DOMAIN stage = Pos /\ InSession
    BY <2>1, <2>3, Zenon DEF ShapeInv, BuffersInv, IInv, TypeOK, InSession
  <2>5. ~IsRead(p) => Length(p) = BufSize
    <3> SUFFICES ASSUME ~IsRead(p) PROVE Length(p) = BufSize
      BY Zenon
    <3>1. stage'[p] = "prepared"
      BY <2>3, <2>4, Zenon
    <3>2. LinkedPlugin(plugin)
      BY <2>1, <2>3, <3>1, Zenon DEF WriteInv, OwnWrites
    <3>3. p - 1 \in Pos /\ Epoch(p - 1) = Epoch(p)
      BY Partner, Zenon
    <3>4. Offset(p - 1) + BufSize <= Size
      BY <3>2, Zenon DEF LinkedPlugin
    <3>5. Length(p - 1) = BufSize
      BY <3>3, <3>4, LengthIs, Zenon
    <3> QED
      BY <3>3, <3>5, SameBlock, Zenon
  <2>6. \A i : (Length(i)' = Length(i)) /\ (Ran(i)' <=> Ran(i))
    BY <2>3, Zenon DEF Length, Offset, Ran
  <2>7. \A i \in Pos : stage'[i] # "none" => count'[i] = IF IsRead(i) THEN BufSize ELSE Length(i)
    <3> SUFFICES ASSUME NEW i \in Pos, stage'[i] # "none"
                 PROVE  count'[i] = IF IsRead(i) THEN BufSize ELSE Length(i)
      BY Zenon
    <3>1. CASE i = p
      BY <2>3, <2>4, <2>5, <3>1, Zenon
    <3>2. CASE i # p
      BY <2>1, <2>3, <2>4, <3>2, Zenon DEF CountInv
    <3> QED
      BY <3>1, <3>2, Zenon
  <2> QED
    BY <2>1, <2>3, <2>4, <2>6, <2>7, Zenon DEF CountInv
(* A system call of a block that is run, by whomever. *)
<1>RunCounts.
  ASSUME CountInv, ShapeInv, NEW i \in Pos, stage[i] # "none",
         UNCHANGED <<count, frontier, app_rc>>, InSession' <=> InSession,
         \A j \in Pos : stage'[j] # "none" => stage[j] # "none",
         \A j \in Pos : j # i => (Ran(j)' <=> Ran(j)),
         IsRead(i) => rc' = [rc EXCEPT ![i] = ReadLen(i)],
         ~IsRead(i) => rc' = [rc EXCEPT ![i] = count[i]]
  PROVE  CountInv'
  <2> USE <1>RunCounts
  <2>1. \A j : Length(j)' = Length(j)
    BY Zenon DEF Length, Offset
  <2>2. IsRead(i) => ReadLen(i) = Length(i)
    BY ReadLenIs, Zenon DEF CountInv
  <2>3. \A j \in Pos : j # i => rc'[j] = rc[j]
    BY Zenon DEF ShapeInv
  <2>4. IsRead(i) => rc'[i] = Length(i)
    BY <2>2, Zenon DEF ShapeInv
  <2> QED
    BY <2>1, <2>3, <2>4, Zenon DEF CountInv
(* The application gets the length of the block that it has read. *)
<1>PushCounts.
  ASSUME BuffersInv, BuffersInv', CountInv, ShapeInv, DataPushForward PROVE CountInv'
  <2> USE <1>PushCounts
  <2>1. PICK f \in Pos : f = frontier /\ f \in Int /\ f >= 0
    BY PushBufs, PosInt, Zenon
  <2>2. /\ pc = "self" /\ stage[f] = "finished" /\ stage' = [stage EXCEPT ![f] = "none"]
        /\ frontier' = f + 1 /\ UNCHANGED runs
        /\ count' = [count EXCEPT ![f] = 0] /\ rc' = [rc EXCEPT ![f] = 0] /\ app_rc' = rc[f]
    BY <2>1, PushBufs, Zenon DEF DataPushForward, PushForward, engineVars
  <2>3. DOMAIN count = Pos /\ DOMAIN rc = Pos /\ DOMAIN stage = Pos /\ InSession
    BY <2>2, Zenon DEF ShapeInv, BuffersInv, IInv, TypeOK, InSession
  <2>4. \A i : (Length(i)' = Length(i)) /\ (Ran(i)' <=> Ran(i))
    BY <2>2, Zenon DEF Length, Offset, Ran
  <2>5. runs[f] = 1
    BY <2>2, <2>3, Zenon DEF BuffersInv, IInv, RunCount
  <2>6. IsRead(f) => rc[f] = Length(f)
    BY <2>1, <2>3, <2>5, SMTT(30) DEF CountInv, Ran
  <2>7. frontier' - 1 = f
    BY <2>1, <2>2
  <2>8. IsRead(f) => app_rc' = Length(f)
    BY <2>2, <2>6, Zenon
  <2>9. \A i \in Pos : /\ i >= f + 1 => i # f /\ i >= frontier
                       /\ i # f => count'[i] = count[i] /\ rc'[i] = rc[i] /\ stage'[i] = stage[i]
    BY <2>1, <2>2, <2>3, PosInt, SMTT(30)
  <2>10. stage'[f] = "none"
    BY <2>2, <2>3, Zenon
  <2>11. \A i \in Pos : stage'[i] # "none" => count'[i] = IF IsRead(i) THEN BufSize ELSE Length(i)
    BY <2>9, <2>10, Zenon DEF CountInv
  <2>12. \A i \in Pos : IsRead(i) /\ i >= frontier' /\ Ran(i) => rc'[i] = Length(i)
    BY <2>2, <2>3, <2>9, Zenon DEF CountInv
  <2> QED
    BY <2>4, <2>7, <2>8, <2>11, <2>12, Zenon DEF CountInv
<1>1. BuffersInv /\ CountInv /\ ShapeInv
  BY Zenon DEF AllInv, DataInv, RequestInv
<1>2. CASE DataEnter \/ DataCall \/ DataPeekPrepare \/ DataPushForward
  BY <1>1, <1>2, <1>EnterCounts, <1>CallCounts, <1>PrepareCounts, <1>PushCounts, Zenon
<1>3. CASE DataPeekEnds \/ DataPeekNotReady \/ DataSubmit
  BY <1>1, <1>3, IdleSteps, <1>IdleCounts, Zenon
<1>4. ASSUME NEW i \in Pos, DataCmplAsync(i) PROVE CountInv'
  BY <1>1, <1>4, IdleSteps, <1>IdleCounts, Zenon
<1>5. CASE UNCHANGED allVars
  BY <1>1, <1>5, IdleSteps, <1>IdleCounts, Zenon
<1>6. CASE DataReset
  BY <1>6, Zenon DEF DataReset, ResetToStart, CountInv, InSession
<1>7. CASE DataLeave
  <2>1. pc' = "drain" /\ UNCHANGED <<stage, count>>
    BY <1>7, Zenon DEF DataLeave, Leave, graphVars, dataVars, argVars
  <2>2. \A i : Length(i)' = Length(i)
    BY Zenon DEF Length, Offset
  <2> QED
    BY <1>1, <2>1, <2>2, Zenon DEF CountInv, InSession
<1>8. CASE DataSyscallSync
  <2>1. /\ frontier \in Pos /\ stage[frontier] # "none" /\ UNCHANGED <<count, frontier, app_rc, pc>>
        /\ \A j \in Pos : stage'[j] # "none" => stage[j] # "none"
        /\ \A j \in Pos : j # frontier => (Ran(j)' <=> Ran(j))
    BY <1>1, <1>8, SyncRuns, Zenon
  <2>2. /\ IsRead(frontier) => rc' = [rc EXCEPT ![frontier] = ReadLen(frontier)]
        /\ ~IsRead(frontier) => rc' = [rc EXCEPT ![frontier] = count[frontier]]
    BY <1>8, Zenon DEF DataSyscallSync
  <2>3. InSession' <=> InSession
    BY <2>1, Zenon DEF InSession
  <2> QED
    BY <1>1, <2>1, <2>2, <2>3, <1>RunCounts, Zenon
<1>9. ASSUME NEW i \in Pos, DataEngineRun(i) PROVE CountInv'
  <2>1. /\ stage[i] # "none" /\ UNCHANGED <<count, frontier, app_rc, stage>> /\ (InSession' <=> InSession)
        /\ \A j \in Pos : j # i => (Ran(j)' <=> Ran(j))
    BY <1>1, <1>9, RunsInSession, Zenon
  <2>2. /\ IsRead(i) => rc' = [rc EXCEPT ![i] = ReadLen(i)]
        /\ ~IsRead(i) => rc' = [rc EXCEPT ![i] = count[i]]
    BY <1>9, Zenon DEF DataEngineRun
  <2> QED
    BY <1>1, <2>1, <2>2, <1>RunCounts, Zenon
<1> QED
  BY <1>2, <1>3, <1>4, <1>5, <1>6, <1>7, <1>8, <1>9, Zenon DEF DataNext

-----------------------------------------------------------------------------
(* What is in the buffers. *)

(* A synchronous pread goes to the buffer of the application. *)
LEMMA SyncTarget ==
  ASSUME AllInv, DataSyscallSync
  PROVE  /\ buf[frontier] = UserBuf(frontier)
         /\ IsRead(frontier) => /\ ~Held(Epoch(frontier))
                                /\ mem' = [mem EXCEPT ![UserBuf(frontier)] = Filled(frontier, UserBuf(frontier))]
<1>1. /\ buf[frontier] = UserBuf(frontier)
      /\ IsRead(frontier) => ~Held(Epoch(frontier))
  BY SyncRuns, Zenon DEF AllInv, BuffersInv, PoolsInv, SyncInv
<1>2. IsRead(frontier) => ~UseInternal(frontier)
  BY <1>1, Zenon DEF UseInternal, Held
<1> QED
  BY <1>1, <1>2, Zenon DEF DataSyscallSync

(* Every step keeps the data in memory. *)
LEMMA NextMem == ASSUME AllInv, BuffersInv', [DataNext]_allVars PROVE MemInv'
(* Buffers that are known ahead of their calls are one for each block. *)
<1>UserBufsDiffer.
  ASSUME plugin.buf_ready => ~plugin.single_buf, plugin.buf_ready,
         NEW i \in Pos, NEW j \in Pos, Epoch(i) # Epoch(j)
  PROVE  UserBuf(i) # UserBuf(j)
  BY <1>UserBufsDiffer, Zenon DEF UserBuf
(* Preads and pwrites alternate. *)
<1>NotBothReads.
  ASSUME NEW i \in Int, IsRead(i) PROVE ~IsRead(i - 1) /\ ~IsRead(i + 1)
  BY <1>NotBothReads DEF IsRead
(* Different preads are of different blocks. *)
<1>ReadsDiffer.
  ASSUME NEW i \in Pos, NEW j \in Pos, IsRead(i), IsRead(j), i # j
  PROVE  Epoch(i) # Epoch(j)
  BY <1>ReadsDiffer, Blocks, Zenon
(* A block that has been read ahead is still in the pools. *)
<1>RanAhead.
  ASSUME BuffersInv, InSession, NEW i \in Pos, Ran(i), i >= frontier
  PROVE  stage[i] \in {"onthefly", "finished"}
  <2> USE <1>RanAhead
  <2>1. ~(i < frontier)
    BY Ints, PosInt, SMTT(30) DEF BuffersInv, IInv
  <2>2. stage[i] = "finished" \/ i \in cq
    BY <2>1, Zenon DEF Ran, BuffersInv, IInv, RunCount
  <2> QED
    BY <2>2, Zenon DEF BuffersInv, IInv, EngineAgrees, InSession
(* Blocks that are not in internal buffers are in buffers of their own.    *)
<1>OwnBuffers.
  ASSUME PlaceInv, plugin.buf_ready => ~plugin.single_buf,
         NEW i \in Pos, NEW j \in Pos, IsRead(i), IsRead(j), i # j,
         stage[i] # "none", stage[j] # "none", ~Held(Epoch(i)), ~Held(Epoch(j))
  PROVE  UserBuf(i) # UserBuf(j)
  <2> USE <1>OwnBuffers
  <2>1. plugin.buf_ready
    BY Zenon DEF PlaceInv
  <2>2. Epoch(i) # Epoch(j)
    BY <1>ReadsDiffer, Zenon
  <2> QED
    BY <2>1, <2>2, <1>UserBufsDiffer, Zenon
(* The input of a pread has not been overwritten. *)
<1>InputIs.
  ASSUME AllInv, InSession, NEW i \in Pos, IsRead(i), i >= frontier
  PROVE  \A k \in Cells : k < Length(i) => file["in"][Offset(i) + k] = Source(Offset(i) + k)
  <2> USE <1>InputIs
  <2>1. BuffersInv /\ WriteInv /\ FileInv /\ (PlainPlugin(plugin) \/ LinkedPlugin(plugin))
    BY Zenon DEF AllInv, DataInv, RequestInv
  <2> SUFFICES ASSUME NEW k \in Cells, k < Length(i)
               PROVE  file["in"][Offset(i) + k] = Source(Offset(i) + k)
    BY Zenon
  <2>2. PICK e \in 0 .. PathLen : e = Epoch(i) /\ i = 2 * e /\ e \in Int
    <3>1. Epoch(i) \in Int /\ Epoch(i) >= 0 /\ i = 2 * Epoch(i) /\ i \in Int /\ i < PathLen
      BY Blocks, PosInt, Zenon
    <3>2. Epoch(i) \in 0 .. PathLen
      BY <3>1, PathAssumption
    <3> QED
      BY <3>1, <3>2, Zenon
  <2>3. PICK o \in 0 .. (Top - 1) : o = BufSize * e + k /\ o = Offset(i) + k
    BY <2>2, ByteIn, Zenon DEF Offset
  <2>4. NewFiles["in"][o] = Source(o)
    BY Zenon DEF NewFiles
  <2>5. CASE ~plugin.in_place
    BY <2>1, <2>3, <2>4, <2>5, Zenon DEF FileInv
  <2>6. CASE plugin.in_place
    <3>1. OwnWrites /\ Output = "in"
      BY <2>1, <2>6, Kinds, Zenon DEF WriteInv, Output
    <3>2. ~(2 * e + 1 \in Pos /\ Ran(2 * e + 1))
      <4> SUFFICES ASSUME 2 * e + 1 \in Pos, Ran(2 * e + 1) PROVE FALSE
        BY Zenon
      <4>1. PICK j \in Pos : j = 2 * e + 1 /\ j > i /\ j \in Int /\ frontier \in Int /\ i \in Int
        BY <2>1, <2>2, PosInt, Ints, SMTT(30) DEF BuffersInv, IInv
      <4>2. j >= frontier /\ Ran(j)
        BY <4>1
      <4>3. stage[j] # "none"
        BY <2>1, <4>2, <1>RanAhead, Zenon
      <4>4. ~IsRead(j)
        BY <2>2, <4>1, Blocks, Zenon
      <4>5. j = frontier
        BY <3>1, <4>3, <4>4, Zenon DEF OwnWrites
      <4> QED
        BY <4>1, <4>5
    <3>3. file[Output][o] = NewFiles[Output][o]
      BY <2>1, <2>2, <2>3, <3>2, Zenon DEF FileInv
    <3> QED
      BY <2>3, <2>4, <3>1, <3>3, Zenon
  <2> QED
    BY <2>5, <2>6, Zenon
(* A buffer whose bytes do not change has the same block. *)
<1>SameBlocks.
  ASSUME plugin' = plugin
  PROVE  /\ \A b : \A i : mem'[b] = mem[b] => (Block(b, i)' <=> Block(b, i))
         /\ \A b : \A i : mem'[b] = mem[b] => (NewBlock(b, i)' <=> NewBlock(b, i))
  <2> USE <1>SameBlocks
  <2>1. \A v : Computed(v)' = Computed(v)
    BY SameComputed, Zenon
  <2> SUFFICES ASSUME NEW b, NEW i, mem'[b] = mem[b]
               PROVE  (Block(b, i)' <=> Block(b, i)) /\ (NewBlock(b, i)' <=> NewBlock(b, i))
    BY Zenon
  <2>2. Length(i)' = Length(i) /\ Offset(i)' = Offset(i)
    BY Zenon DEF Length, Offset
  <2>3. Block(b, i)' <=> Block(b, i)
    BY <2>2, Zenon DEF Block
  <2>4. NewBlock(b, i)' <=> NewBlock(b, i)
    BY <2>1, <2>2, Zenon DEF NewBlock
  <2> QED
    BY <2>3, <2>4, Zenon
(* An idle step keeps the data in memory. *)
<1>IdleMem.
  ASSUME MemInv, Idle PROVE MemInv'
  <2> USE <1>IdleMem
  <2>1. /\ UNCHANGED <<plugin, mem, frontier, runs, internal_buf>>
        /\ InSession' => InSession
        /\ pc' = "app" <=> pc = "app"
    BY Zenon DEF Idle
  <2>2. \A b : \A i : (Block(b, i)' <=> Block(b, i)) /\ (NewBlock(b, i)' <=> NewBlock(b, i))
    BY <2>1, <1>SameBlocks, Zenon
  <2>3. \A i : (Held(Epoch(i))' <=> Held(Epoch(i))) /\ (Ran(i)' <=> Ran(i)) /\ UserBuf(i)' = UserBuf(i)
    BY <2>1, Zenon DEF Held, Ran, UserBuf
  <2>4. \A i : (Block(internal_buf[Epoch(i)], i)' <=> Block(internal_buf[Epoch(i)], i))
    BY <2>1, <2>2, Zenon
  <2> QED
    BY <2>1, <2>2, <2>3, <2>4, Zenon DEF MemInv
(* The computation that the loop makes before its pwrite turns the block   *)
(* into the new one, in place, and touches no other block.                 *)
<1>CallMem.
  ASSUME AllInv, DataCall PROVE MemInv'
  <2> USE <1>CallMem
  <2>1. BuffersInv /\ PlaceInv /\ CountInv /\ MemInv /\ ShapeInv /\ (plugin.buf_ready => ~plugin.single_buf)
    BY Kinds, Zenon DEF AllInv, DataInv, RequestInv
  <2>2. PICK f \in Pos : f = frontier /\ f \in Int /\ f >= 0
    BY <2>1, CallBufs, PosInt, Zenon
  <2>3. /\ pc = "app" /\ pc' # "app" /\ UNCHANGED <<plugin, frontier, runs, internal_buf>>
        /\ mem' = IF IsRead(f) THEN mem
                  ELSE [mem EXCEPT ![UserBuf(f)] =
                          [k \in Cells |-> IF k < app_rc THEN Computed(@[k]) ELSE @[k]]]
    BY <2>1, <2>2, CallBufs, Zenon DEF DataCall, Compute, InCall
  <2>4. InSession /\ ~InCall
    BY <2>3, Zenon DEF InSession, InCall
  <2>5. \A b \in AllBufs : b # UserBuf(f) => mem'[b] = mem[b]
    BY <2>1, <2>3, Zenon DEF ShapeInv
  <2>6. \A b \in AllBufs : \A i : b # UserBuf(f) => (Block(b, i)' <=> Block(b, i))
    BY <2>3, <2>5, <1>SameBlocks, Zenon
  <2>7. \A i : (Held(Epoch(i))' <=> Held(Epoch(i))) /\ (Ran(i)' <=> Ran(i)) /\ UserBuf(i)' = UserBuf(i)
    BY <2>3, Zenon DEF Held, Ran, UserBuf
  <2>8. ASSUME NEW i \in Pos, IsRead(i), Ran(i), Held(Epoch(i)) PROVE Block(internal_buf[Epoch(i)], i)'
    <3>1. PICK b \in IBufs : b = internal_buf[Epoch(i)]
      BY <2>1, <2>8, Blocks, Zenon DEF Held, BuffersInv, PoolsInv, PoolInv
    <3>2. Block(b, i)
      BY <2>1, <2>4, <2>8, <3>1, Zenon DEF MemInv
    <3>3. b \in AllBufs /\ b # UserBuf(f)
      BY BufsDiffer, Zenon DEF AllBufs
    <3>4. Block(b, i)'
      BY <2>6, <3>2, <3>3, Zenon
    <3> QED
      BY <2>3, <3>1, <3>4, Zenon
  <2>9. ASSUME NEW i \in Pos, IsRead(i), Ran(i), i >= f, ~Held(Epoch(i)) PROVE Block(UserBuf(i), i)'
    <3>1. PICK b \in AllBufs : b = UserBuf(i)
      BY BufsDiffer, Zenon
    <3>2. Block(b, i)
      BY <2>1, <2>2, <2>4, <2>9, <3>1, Zenon DEF MemInv
    <3>3. CASE IsRead(f)
      <4>1. mem' = mem
        BY <2>3, <3>3, Zenon
      <4>2. Block(b, i)'
        BY <2>3, <3>2, <4>1, <1>SameBlocks, Zenon
      <4> QED
        BY <2>7, <3>1, <4>2, Zenon
    <3>4. CASE ~IsRead(f)
      <4>1. stage[i] # "none"
        BY <2>1, <2>2, <2>4, <2>9, <1>RanAhead, Zenon
      <4>2. plugin.buf_ready
        BY <2>1, <2>4, <2>9, <4>1, Zenon DEF PlaceInv
      <4>3. Epoch(i) # Epoch(f)
        <5>1. Epoch(i) = Epoch(f) => i = f - 1
          BY <2>9, <3>4, Partner, Zenon
        <5> QED
          BY <2>2, <2>9, <5>1, PosInt, SMTT(30)
      <4>4. b # UserBuf(f)
        BY <2>1, <3>1, <4>2, <4>3, <1>UserBufsDiffer, Zenon
      <4>5. Block(b, i)'
        BY <2>6, <3>2, <4>4, Zenon
      <4> QED
        BY <2>7, <3>1, <4>5, Zenon
    <3> QED
      BY <3>3, <3>4, Zenon
  <2>10. ASSUME f > 0, IsRead(f - 1), ~plugin.skip_memcpy \/ (f \in Pos /\ ~Held(Epoch(f - 1)))
         PROVE  NewBlock(UserBuf(f - 1), f - 1)'
    <3>1. ~IsRead(f)
      BY <2>2, <2>10, <1>NotBothReads, Zenon
    <3>2. PICK j \in Pos : j = f - 1 /\ Epoch(j) = Epoch(f) /\ UserBuf(j) = UserBuf(f)
      <4>1. f - 1 \in Pos /\ Epoch(f - 1) = Epoch(f)
        BY <3>1, Partner, Zenon
      <4> QED
        BY <4>1, SameBlock, Zenon
    <3>3. PICK b \in AllBufs : b = UserBuf(j)
      BY BufsDiffer, Zenon
    <3>4. Block(b, j) /\ app_rc = Length(j)
      BY <2>1, <2>2, <2>3, <2>4, <2>10, <3>2, <3>3, Zenon DEF MemInv, CountInv
    <3>5. \A k \in Cells : k < Length(j) => mem'[b][k] = Computed(mem[b][k])
      BY <2>1, <2>3, <3>1, <3>2, <3>3, <3>4, Zenon DEF ShapeInv
    <3>6. \A k \in Cells : k < Length(j) => mem'[b][k] = Computed(Source(Offset(j) + k))
      BY <3>4, <3>5, Zenon DEF Block
    <3>7. \A v : Computed(v)' = Computed(v)
      BY <2>3, SameComputed, Zenon
    <3>8. Length(j)' = Length(j) /\ Offset(j)' = Offset(j)
      BY Zenon DEF Length, Offset
    <3>9. NewBlock(b, j)'
      BY <3>6, <3>7, <3>8, Zenon DEF NewBlock
    <3> QED
      BY <2>7, <3>2, <3>3, <3>9, Zenon
  <2> QED
    BY <2>2, <2>3, <2>7, <2>8, <2>9, <2>10, Zenon DEF MemInv
(* A buffer taken from the pool belongs to a block that has not been read. *)
<1>PrepareMem.
  ASSUME AllInv, DataPeekPrepare PROVE MemInv'
  <2> USE <1>PrepareMem
  <2>1. BuffersInv /\ MemInv
    BY Zenon DEF AllInv, DataInv, RequestInv
  <2>2. PICK p \in Pos : p = peekhead
    BY <2>1, PrepareBufs, Zenon
  <2>3. /\ pc = "peek" /\ pc' = "peek" /\ UNCHANGED <<plugin, frontier, runs, mem>>
        /\ p > frontier /\ stage[p] = "none"
        /\ \A e \in Epochs : e # Epoch(p) => internal_buf'[e] = internal_buf[e]
        /\ ~IsRead(p) => internal_buf' = internal_buf
        /\ IsRead(p) => internal_buf[Epoch(p)] = NoBuf
    BY <2>1, <2>2, PrepareBufs, Blocks, Zenon DEF DataPeekPrepare
  <2>4. InSession
    BY <2>3, Zenon DEF InSession
  <2>5. \A b : \A i : (Block(b, i)' <=> Block(b, i)) /\ (NewBlock(b, i)' <=> NewBlock(b, i))
    BY <2>3, <1>SameBlocks, Zenon
  <2>6. \A i : (Ran(i)' <=> Ran(i)) /\ UserBuf(i)' = UserBuf(i)
    BY <2>3, Zenon DEF Ran, UserBuf
  <2>7. \A e \in Epochs : internal_buf'[e] = NoBuf => internal_buf[e] = NoBuf
    BY <2>3, Zenon
  <2>8. ~Ran(p)
    <3>1. p >= frontier
      BY <2>1, <2>3, PosInt, Ints, SMTT(30) DEF BuffersInv, IInv
    <3> QED
      BY <2>1, <2>3, <2>4, <3>1, <1>RanAhead, Zenon
  <2>9. ASSUME NEW i \in Pos, IsRead(i), Ran(i), internal_buf'[Epoch(i)] # NoBuf
        PROVE  Block(internal_buf[Epoch(i)], i)'
    <3>1. internal_buf'[Epoch(i)] = internal_buf[Epoch(i)]
      <4>1. IsRead(p) => Epoch(i) # Epoch(p) /\ Epoch(i) \in Epochs
        BY <2>8, <2>9, <1>ReadsDiffer, Blocks, Zenon
      <4> QED
        BY <2>3, <4>1, Zenon
    <3>2. Block(internal_buf[Epoch(i)], i)
      BY <2>1, <2>4, <2>9, <3>1, Zenon DEF MemInv, Held
    <3> QED
      BY <2>5, <3>1, <3>2, Zenon
  <2>10. \A i \in Pos : IsRead(i) /\ Ran(i) /\ i >= frontier /\ internal_buf'[Epoch(i)] = NoBuf
                        => Block(UserBuf(i), i)
    BY <2>1, <2>4, <2>7, Blocks, Zenon DEF MemInv, Held
  <2>11. frontier > 0 /\ IsRead(frontier - 1)
           /\ (~plugin.skip_memcpy \/ (frontier \in Pos /\ internal_buf'[Epoch(frontier - 1)] = NoBuf))
             => NewBlock(UserBuf(frontier - 1), frontier - 1)
    <3>1. frontier > 0 => frontier - 1 \in Pos
      BY <2>1, Ints, SMTT(30) DEF BuffersInv, IInv, Pos
    <3>2. frontier > 0 => Epoch(frontier - 1) \in Epochs
      BY <3>1, Blocks, Zenon
    <3> QED
      BY <2>1, <2>3, <2>4, <2>7, <3>2, Zenon DEF MemInv, Held
  <2> QED
    BY <2>3, <2>5, <2>6, <2>9, <2>10, <2>11, Zenon DEF MemInv, Held
(* A pread or pwrite that is run, by whomever. *)
<1>RunMem.
  ASSUME AllInv, InSession, InSession', NEW i \in Pos, stage[i] # "none", i >= frontier,
         UNCHANGED <<plugin, pc, frontier, internal_buf>>,
         \A j \in Pos : j # i => (Ran(j)' <=> Ran(j)),
         NEW b, b = IF Held(Epoch(i)) THEN internal_buf[Epoch(i)] ELSE UserBuf(i),
         IsRead(i) => mem' = [mem EXCEPT ![b] = Filled(i, b)],
         ~IsRead(i) => mem' = mem
  PROVE  MemInv'
  <2> USE <1>RunMem
  <2>1. /\ BuffersInv /\ PlaceInv /\ CountInv /\ MemInv /\ ShapeInv
        /\ plugin.buf_ready => ~plugin.single_buf
    BY Kinds, Zenon DEF AllInv, DataInv, RequestInv
  <2>2. \A j : (Held(Epoch(j))' <=> Held(Epoch(j))) /\ UserBuf(j)' = UserBuf(j)
    BY Zenon DEF Held, UserBuf
  <2>3. CASE ~IsRead(i)
    <3>1. \A c : \A j : (Block(c, j)' <=> Block(c, j)) /\ (NewBlock(c, j)' <=> NewBlock(c, j))
      BY <2>3, <1>SameBlocks, Zenon
    <3>2. \A j \in Pos : IsRead(j) => (Ran(j)' <=> Ran(j))
      BY <2>3, Zenon
    <3> QED
      BY <2>1, <2>2, <3>1, <3>2, Zenon DEF MemInv
  <2>4. CASE IsRead(i)
    <3>1. b \in AllBufs
      BY BufsDiffer, Blocks, <2>1, Zenon DEF Held, AllBufs, BuffersInv, PoolsInv, PoolInv
    <3>2. \A c \in AllBufs : c # b => mem'[c] = mem[c]
      BY <2>1, <2>4, Zenon DEF ShapeInv
    <3>3. \A c \in AllBufs : \A j : c # b => (Block(c, j)' <=> Block(c, j)) /\ (NewBlock(c, j)' <=> NewBlock(c, j))
      BY <3>2, <1>SameBlocks, Zenon
    <3>4. Block(b, i)'
      <4>1. ReadLen(i) = Length(i)
        BY <2>1, <2>4, ReadLenIs, Zenon DEF CountInv
      <4>2. \A k \in Cells : k < Length(i) => mem'[b][k] = file["in"][Offset(i) + k]
        BY <2>1, <2>4, <3>1, <4>1, SMTT(30) DEF ShapeInv, Filled
      <4>3. \A k \in Cells : k < Length(i) => mem'[b][k] = Source(Offset(i) + k)
        BY <2>4, <4>2, <1>InputIs, Zenon
      <4>4. Length(i)' = Length(i) /\ Offset(i)' = Offset(i)
        BY Zenon DEF Length, Offset
      <4> QED
        BY <4>3, <4>4, Zenon DEF Block
    <3>5. ASSUME NEW j \in Pos, IsRead(j), Ran(j)', Held(Epoch(j))
          PROVE  Block(internal_buf[Epoch(j)], j)'
      <4>1. CASE j = i
        BY <3>4, <3>5, <4>1, Zenon
      <4>2. CASE j # i
        <5>1. PICK c \in IBufs : c = internal_buf[Epoch(j)]
          BY <2>1, <3>5, Blocks, Zenon DEF Held, BuffersInv, PoolsInv, PoolInv
        <5>2. Block(c, j)
          BY <2>1, <3>5, <4>2, <5>1, Zenon DEF MemInv
        <5>3. c # b
          <6>1. Epoch(i) # Epoch(j) /\ Epoch(i) \in Epochs /\ Epoch(j) \in Epochs
            BY <2>4, <3>5, <4>2, <1>ReadsDiffer, Blocks, Zenon
          <6>2. Held(Epoch(i)) => c # b
            BY <2>1, <3>5, <5>1, <6>1, Zenon DEF Held, BuffersInv, PoolsInv, PoolInv
          <6>3. ~Held(Epoch(i)) => c # b
            BY BufsDiffer, Zenon
          <6> QED
            BY <6>2, <6>3, Zenon
        <5>4. Block(c, j)'
          BY <3>3, <5>2, <5>3, Zenon DEF AllBufs
        <5> QED
          BY <5>1, <5>4, Zenon
      <4> QED
        BY <4>1, <4>2, Zenon
    <3>6. ASSUME NEW j \in Pos, IsRead(j), Ran(j)', j >= frontier, ~Held(Epoch(j))
          PROVE  Block(UserBuf(j), j)'
      <4>1. CASE j = i
        BY <2>2, <3>4, <3>6, <4>1, Zenon
      <4>2. CASE j # i
        <5>1. PICK c \in AllBufs : c = UserBuf(j)
          BY BufsDiffer, Zenon
        <5>2. Block(c, j) /\ stage[j] # "none"
          BY <2>1, <3>6, <4>2, <5>1, <1>RanAhead, Zenon DEF MemInv
        <5>3. c # b
          <6>1. Held(Epoch(i)) => c # b
            BY <2>1, <5>1, BufsDiffer, Blocks, SMTT(30) DEF Held, BuffersInv, PoolsInv, PoolInv
          <6>2. ~Held(Epoch(i)) => c # b
            BY <2>1, <2>4, <3>6, <4>2, <5>1, <5>2, <1>OwnBuffers, Zenon
          <6> QED
            BY <6>1, <6>2, Zenon
        <5>4. Block(c, j)'
          BY <3>3, <5>2, <5>3, Zenon
        <5> QED
          BY <2>2, <5>1, <5>4, Zenon
      <4> QED
        BY <4>1, <4>2, Zenon
    <3>7. ASSUME frontier > 0, IsRead(frontier - 1),
                 ~plugin.skip_memcpy \/ (frontier \in Pos /\ ~Held(Epoch(frontier - 1)))
          PROVE  /\ pc = "app" => Block(UserBuf(frontier - 1), frontier - 1)'
                 /\ pc # "app" => NewBlock(UserBuf(frontier - 1), frontier - 1)'
      <4>1. PICK j \in Pos : j = frontier - 1 /\ j < i /\ j \in Int /\ frontier \in Int /\ j + 1 = frontier
        BY <2>1, <3>7, Ints, PosInt, SMTT(30) DEF BuffersInv, IInv, Pos
      <4>2. PICK c \in AllBufs : c = UserBuf(j)
        BY BufsDiffer, Zenon
      <4>3. /\ pc = "app" => Block(c, j)
            /\ pc # "app" => NewBlock(c, j)
        BY <2>1, <3>7, <4>1, <4>2, Zenon DEF MemInv
      <4>4. c # b
        <5>1. Held(Epoch(i)) => c # b
          BY <2>1, <4>2, BufsDiffer, Blocks DEF Held, BuffersInv, PoolsInv, PoolInv
        <5>2. ASSUME ~Held(Epoch(i)) PROVE c # b
          <6>1. i # frontier
            BY <2>4, <3>7, <4>1, <1>NotBothReads, Zenon
          <6>2. plugin.buf_ready
            BY <2>1, <2>4, <5>2, <6>1, Zenon DEF PlaceInv
          <6>3. Epoch(i) # Epoch(j)
            BY <2>4, <3>7, <4>1, <1>ReadsDiffer, SMTT(30)
          <6> QED
            BY <2>1, <4>2, <5>2, <6>2, <6>3, <1>UserBufsDiffer, Zenon
        <5> QED
          BY <5>1, <5>2, Zenon
      <4>5. /\ pc = "app" => Block(c, j)'
            /\ pc # "app" => NewBlock(c, j)'
        BY <3>3, <4>3, <4>4, Zenon
      <4> QED
        BY <2>2, <4>1, <4>2, <4>5, Zenon
    <3> QED
      BY <2>2, <3>5, <3>6, <3>7, Zenon DEF MemInv
  <2> QED
    BY <2>3, <2>4, Zenon
(* The return of a pread copies the block from the internal buffer into    *)
(* that of the application, and the return of a pwrite gives back no       *)
(* buffer whose data are still to be used.                                 *)
<1>PushMem.
  ASSUME AllInv, BuffersInv', DataPushForward PROVE MemInv'
  <2> USE <1>PushMem
  <2>1. /\ BuffersInv /\ PlaceInv /\ WriteInv /\ CountInv /\ MemInv /\ ShapeInv
        /\ plugin.buf_ready => ~plugin.single_buf
        /\ plugin.skip_memcpy => LinkedPlugin(plugin)
    BY Kinds, Zenon DEF AllInv, DataInv, RequestInv
  <2>2. PICK f \in Pos : f = frontier /\ f \in Int /\ f >= 0
    BY <2>1, PushBufs, PosInt, Zenon
  <2>3. /\ pc = "self" /\ pc' = "app" /\ stage[f] = "finished" /\ frontier' = f + 1
        /\ UNCHANGED <<plugin, runs>>
        /\ \A e \in Epochs : internal_buf'[e] \in {internal_buf[e], NoBuf}
        /\ \A e \in Epochs : e # Epoch(f) => internal_buf'[e] = internal_buf[e]
        /\ \A e \in Epochs : e = Epoch(f) /\ IsRead(f) /\ Held(e) /\ Refers(e)
             => internal_buf'[e] = internal_buf[e]
    BY <2>1, <2>2, PushBufs, Zenon DEF DataPushForward, PushForward, engineVars
  <2>4. InSession /\ InCall
    BY <2>3, Zenon DEF InSession, InCall
  <2>5. IsRead(f) => buf[f] = UserBuf(f)
    BY <2>1, <2>2, <2>4, Zenon DEF PlaceInv
  <2>6. PICK ib : ib = internal_buf[Epoch(f)]
    BY Zenon
  <2>7. mem' = IF IsRead(f) /\ sqe[f] # NoBuf /\ ib # NoBuf /\ ~plugin.skip_memcpy
               THEN [mem EXCEPT ![UserBuf(f)] =
                       [k \in Cells |-> IF k < rc[f] THEN mem[ib][k] ELSE @[k]]]
               ELSE mem
    BY <2>2, <2>5, <2>6, Zenon DEF DataPushForward, ReflectResult
  <2>8. \A b \in AllBufs : b # UserBuf(f) \/ ~IsRead(f) => mem'[b] = mem[b]
    BY <2>1, <2>7, Zenon DEF ShapeInv
  <2>9. \A b \in AllBufs : \A i : b # UserBuf(f) \/ ~IsRead(f) => (Block(b, i)' <=> Block(b, i))
    BY <2>3, <2>8, <1>SameBlocks, Zenon
  <2>10. \A i : (Ran(i)' <=> Ran(i)) /\ UserBuf(i)' = UserBuf(i)
    BY <2>3, Zenon DEF Ran, UserBuf
  <2>11. ASSUME NEW i \in Pos, IsRead(i), Ran(i), internal_buf'[Epoch(i)] # NoBuf
         PROVE  Block(internal_buf[Epoch(i)], i)'
    <3>1. internal_buf'[Epoch(i)] = internal_buf[Epoch(i)]
      BY <2>3, <2>11, Blocks, Zenon
    <3>2. PICK b \in IBufs : b = internal_buf[Epoch(i)]
      BY <2>1, <2>11, <3>1, Blocks, Zenon DEF BuffersInv, PoolsInv, PoolInv
    <3>3. Block(b, i)
      BY <2>1, <2>4, <2>11, <3>1, <3>2, SMTT(30) DEF MemInv, Held
    <3>4. b \in AllBufs /\ b # UserBuf(f)
      BY BufsDiffer, Zenon DEF AllBufs
    <3>5. Block(b, i)'
      BY <2>9, <3>3, <3>4, Zenon
    <3> QED
      BY <3>1, <3>2, <3>5, Zenon
  <2>12. ASSUME NEW i \in Pos, IsRead(i), Ran(i), i >= f + 1, internal_buf'[Epoch(i)] = NoBuf
         PROVE  Block(UserBuf(i), i)'
    <3>1. i # f /\ i >= f /\ i \in Int
      BY <2>2, <2>12, PosInt, SMTT(30)
    <3>2. Epoch(i) # Epoch(f) /\ Epoch(i) \in Epochs
      <4>1. ~IsRead(f) /\ Epoch(i) = Epoch(f) => i = f - 1
        BY <2>12, Partner, Zenon
      <4> QED
        BY <2>2, <2>12, <3>1, <4>1, <1>ReadsDiffer, Blocks, SMTT(30)
    <3>3. ~Held(Epoch(i))
      BY <2>3, <2>12, <3>2, Zenon DEF Held
    <3>4. PICK b \in AllBufs : b = UserBuf(i)
      BY BufsDiffer, Zenon
    <3>5. Block(b, i) /\ stage[i] # "none"
      BY <2>1, <2>2, <2>4, <2>12, <3>1, <3>3, <3>4, <1>RanAhead, Zenon DEF MemInv
    <3>6. plugin.buf_ready
      BY <2>1, <2>2, <2>12, <3>1, <3>3, <3>5, Zenon DEF PlaceInv
    <3>7. b # UserBuf(f)
      BY <2>1, <3>2, <3>4, <3>6, <1>UserBufsDiffer, SMTT(30)
    <3>8. Block(b, i)'
      BY <2>9, <3>5, <3>7, Zenon
    <3> QED
      BY <2>10, <3>4, <3>8, Zenon
  <2>13. ASSUME IsRead(f), ~plugin.skip_memcpy \/ (f + 1 \in Pos /\ internal_buf'[Epoch(f)] = NoBuf)
         PROVE  Block(UserBuf(f), f)'
    <3>1. Ran(f)
      <4>1. runs[f] = 1
        BY <2>3, <2>4, <2>1, Zenon DEF BuffersInv, IInv, RunCount
      <4> QED
        BY <4>1, SMTT(30) DEF Ran
    <3>2. PICK b \in AllBufs : b = UserBuf(f)
      BY BufsDiffer, Zenon
    <3>3. CASE ~Held(Epoch(f))
      <4>1. Block(b, f)
        BY <2>1, <2>2, <2>4, <2>13, <3>1, <3>2, <3>3, SMTT(30) DEF MemInv
      <4>2. mem' = mem
        BY <2>6, <2>7, <3>3, Zenon DEF Held
      <4>3. Block(b, f)'
        BY <2>3, <4>1, <4>2, <1>SameBlocks, SMTT(30)
      <4> QED
        BY <2>10, <3>2, <4>3, Zenon
    <3>4. CASE Held(Epoch(f)) /\ ~plugin.skip_memcpy
      <4>1. sqe[f] = ib /\ ib # NoBuf
        BY <2>1, <2>3, <2>6, <2>13, <3>4, Zenon DEF PlaceInv, Held
      <4>2. rc[f] = Length(f)
        BY <2>1, <2>2, <2>4, <2>13, <3>1, SMTT(30) DEF CountInv
      <4>3. Block(ib, f)
        BY <2>1, <2>4, <2>6, <2>13, <3>1, <3>4, SMTT(30) DEF MemInv
      <4>4. \A k \in Cells : k < Length(f) => mem'[b][k] = mem[ib][k]
        BY <2>1, <2>7, <2>13, <3>2, <3>4, <4>1, <4>2, SMTT(30) DEF ShapeInv
      <4>5. Length(f)' = Length(f) /\ Offset(f)' = Offset(f)
        BY Zenon DEF Length, Offset
      <4>6. Block(b, f)'
        BY <4>3, <4>4, <4>5, Zenon DEF Block
      <4> QED
        BY <2>10, <3>2, <4>6, Zenon
    <3>5. CASE Held(Epoch(f)) /\ plugin.skip_memcpy
      <4>1. LinkedWrites /\ f + 1 \in Pos /\ internal_buf'[Epoch(f)] = NoBuf
        BY <2>1, <2>13, <3>5, Zenon DEF WriteInv
      <4>2. PICK j \in Pos : j = f + 1 /\ ~IsRead(j) /\ j - 1 = f /\ Epoch(j) = Epoch(f) /\ j = 2 * Epoch(f) + 1
        <5>1. ~IsRead(f + 1) /\ (f + 1) - 1 = f
          BY <2>2, <2>13, <1>NotBothReads, SMTT(30)
        <5>2. Epoch((f + 1) - 1) = Epoch(f + 1) /\ f + 1 = 2 * Epoch(f + 1) + 1
          BY <4>1, <5>1, Partner, Blocks, Zenon
        <5> QED
          BY <4>1, <5>1, <5>2, Zenon
      <4>3. CASE buf[j] = internal_buf[Epoch(f)]
        <5>1. Refers(Epoch(f))
          BY <4>2, <4>3, Zenon DEF Refers
        <5> QED
          BY <2>3, <2>13, <3>5, <4>1, <5>1, Blocks, SMTT(30) DEF Held
      <4>4. CASE buf[j] # internal_buf[Epoch(f)]
        BY <2>3, <3>5, <4>1, <4>2, <4>4, SMTT(30) DEF LinkedWrites
      <4> QED
        BY <4>3, <4>4, Zenon
    <3> QED
      BY <3>3, <3>4, <3>5, Zenon
  <2>14. frontier' - 1 = f
    BY <2>2, <2>3, SMTT(30)
  <2> QED
    BY <2>2, <2>3, <2>10, <2>11, <2>12, <2>13, <2>14, Zenon DEF MemInv, Held
(* The buffer of a system call that is run. *)
<1>EngineTarget.
  ASSUME AllInv, NEW i \in Pos, IsRead(i), stage[i] = "onthefly"
  PROVE  sqe[i] = IF Held(Epoch(i)) THEN internal_buf[Epoch(i)] ELSE UserBuf(i)
  <2> USE <1>EngineTarget
  <2>1. BuffersInv /\ PlaceInv
    BY Zenon DEF AllInv, DataInv, RequestInv
  <2>2. sqe[i] # NoBuf /\ sqe[i] \in {UserBuf(i), internal_buf[Epoch(i)]}
    BY <2>1, Zenon DEF BuffersInv, PoolsInv, EntryInv
  <2> QED
    BY <2>1, <2>2, Zenon DEF PlaceInv, Held
<1>1. BuffersInv /\ MemInv
  BY Zenon DEF AllInv, DataInv, RequestInv
<1>2. CASE DataCall \/ DataPeekPrepare \/ DataPushForward
  BY <1>2, <1>CallMem, <1>PrepareMem, <1>PushMem, Zenon
<1>3. CASE DataPeekEnds \/ DataPeekNotReady \/ DataSubmit
  BY <1>1, <1>3, IdleSteps, <1>IdleMem, Zenon
<1>4. ASSUME NEW i \in Pos, DataCmplAsync(i) PROVE MemInv'
  BY <1>1, <1>4, IdleSteps, <1>IdleMem, Zenon
<1>5. CASE UNCHANGED allVars
  BY <1>1, <1>5, IdleSteps, <1>IdleMem, Zenon
<1>6. CASE DataLeave \/ DataReset
  BY <1>6, Zenon DEF DataLeave, Leave, DataReset, ResetToStart, MemInv, InSession
<1>7. CASE DataEnter
  <2>1. runs' = [i \in Pos |-> 0] /\ frontier' = 0
    BY <1>1, <1>7, Zenon DEF DataEnter, Enter, graphVars, BuffersInv, IInv, SessionBounds
  <2>2. \A i \in Pos : ~Ran(i)'
    BY <2>1, Zenon DEF Ran
  <2> QED
    BY <2>1, <2>2, SMTT(30) DEF MemInv
<1>8. CASE DataSyscallSync
  <2>1. PICK f \in Pos : f = frontier
    BY <1>1, <1>8, SyncRuns, Zenon
  <2>2. /\ InSession /\ InSession' /\ stage[f] # "none" /\ f >= frontier
        /\ UNCHANGED <<plugin, pc, frontier, internal_buf>>
        /\ \A j \in Pos : j # f => (Ran(j)' <=> Ran(j))
    BY <1>1, <1>8, <2>1, SyncRuns, PosInt, SMTT(30) DEF InSession
  <2>3. PICK b : b = IF Held(Epoch(f)) THEN internal_buf[Epoch(f)] ELSE UserBuf(f)
    BY Zenon
  <2>4. IsRead(f) => mem' = [mem EXCEPT ![b] = Filled(f, b)]
    BY <1>8, <2>1, <2>3, SyncTarget, Zenon
  <2>5. ~IsRead(f) => mem' = mem
    BY <1>8, <2>1, Zenon DEF DataSyscallSync
  <2> QED
    BY <2>2, <2>3, <2>4, <2>5, <1>RunMem, Zenon
<1>9. ASSUME NEW i \in Pos, DataEngineRun(i) PROVE MemInv'
  <2>1. /\ InSession /\ InSession' /\ stage[i] = "onthefly" /\ i >= frontier
        /\ UNCHANGED <<plugin, pc, frontier, internal_buf>>
        /\ \A j \in Pos : j # i => (Ran(j)' <=> Ran(j))
    BY <1>1, <1>9, RunsInSession, Zenon
  <2>2. PICK b : b = IF Held(Epoch(i)) THEN internal_buf[Epoch(i)] ELSE UserBuf(i)
    BY Zenon
  <2>3. IsRead(i) => mem' = [mem EXCEPT ![b] = Filled(i, b)]
    BY <1>9, <2>1, <2>2, <1>EngineTarget, Zenon DEF DataEngineRun
  <2>4. ~IsRead(i) => mem' = mem
    BY <1>9, Zenon DEF DataEngineRun
  <2> QED
    BY <2>1, <2>2, <2>3, <2>4, <1>RunMem, Zenon
<1> QED
  BY <1>2, <1>3, <1>4, <1>5, <1>6, <1>7, <1>8, <1>9, SMTT(30) DEF DataNext

-----------------------------------------------------------------------------
(* What is in the files. *)

(* Every step keeps the files. *)
LEMMA NextFile == ASSUME AllInv, BuffersInv', [DataNext]_allVars PROVE FileInv'
(* A byte of the file is in one block. *)
<1>ByteOf.
  ASSUME NEW d \in Nat, NEW e \in Nat, NEW k \in Cells, NEW n \in Int, n <= BufSize
  PROVE  LET o == BufSize * d + k
         IN  (o >= BufSize * e /\ o < BufSize * e + n) <=> (d = e /\ k < n)
  <2> USE <1>ByteOf
  <2>1. BufSize \in Nat /\ k \in Int /\ 0 <= k /\ k < BufSize /\ BufSize - 1 \in Cells
    BY BufferAssumption DEF Cells
  <2>2. PICK x \in Int : x = BufSize * d
    BY <2>1
  <2>3. PICK y \in Int : y = BufSize * e
    BY <2>1
  <2>4. d < e => x + k < y
    BY <2>2, <2>3, BlocksApart, Zenon
  <2>5. e < d => y + (BufSize - 1) < x
    BY <2>1, <2>2, <2>3, BlocksApart, Zenon
  <2>6. d = e => x = y
    BY <2>2, <2>3, Zenon
  <2>7. d < e \/ d = e \/ e < d
    OBVIOUS
  <2>8. (x + k >= y /\ x + k < y + n) <=> (d = e /\ k < n)
    BY <2>1, <2>4, <2>5, <2>6, <2>7, SMTT(30)
  <2> QED
    BY <2>2, <2>3, <2>8, Zenon
(* A step that writes to no file, and runs no pwrite, keeps the files. *)
<1>SameFile.
  ASSUME FileInv, UNCHANGED <<plugin, file>>,
         \A i \in Pos : ~IsRead(i) => (Ran(i)' <=> Ran(i))
  PROVE  FileInv'
  <2> USE <1>SameFile
  <2>1. Output' = Output /\ NewFiles' = NewFiles /\ \A v : Computed(v)' = Computed(v)
    BY SameComputed, Zenon DEF Output, NewFiles
  <2>2. ASSUME NEW e \in 0 .. PathLen, 2 * e + 1 \in Pos PROVE Ran(2 * e + 1)' <=> Ran(2 * e + 1)
    <3>1. e \in Int
      BY PathAssumption
    <3>2. ~IsRead(2 * e + 1)
      BY <3>1, SMTT(30) DEF IsRead
    <3> QED
      BY <2>2, <3>2, Zenon
  <2> QED
    BY <2>1, <2>2, Zenon DEF FileInv
(* A pwrite that writes the new block, as long as the block is, keeps the  *)
(* files.                                                                  *)
<1>RunFile.
  ASSUME FileInv, ShapeInv, NEW j \in Pos, ~IsRead(j), ~Ran(j), Ran(j)', plugin' = plugin,
         \A i \in Pos : i # j => (Ran(i)' <=> Ran(i)), count[j] = Length(j),
         NEW b, NewBlock(b, j), file' = [file EXCEPT ![Output] = Written(j, b)]
  PROVE  FileInv'
  <2> USE <1>RunFile
  <2>1. Output' = Output /\ NewFiles' = NewFiles /\ Output \in {"in", "out"}
    BY Zenon DEF Output, NewFiles
  <2>2. \A v : Computed(v)' = Computed(v)
    BY SameComputed, Zenon
  <2>3. ~plugin.in_place => file'["in"] = NewFiles["in"]
    BY DEF FileInv, Output
  <2>4. file'[Output] = Written(j, b)
    BY <2>1, Zenon DEF ShapeInv
  <2>5. PICK a \in Nat : a = Epoch(j) /\ j = 2 * a + 1 /\ Offset(j) = BufSize * a
    BY Blocks DEF Offset
  <2>6. ASSUME NEW e \in 0 .. PathLen, NEW k \in Cells, NEW o, o = BufSize * e + k
        PROVE  file'[Output][o] = IF 2 * e + 1 \in Pos /\ Ran(2 * e + 1)' /\ o < Size
                                  THEN Computed(Source(o)) ELSE NewFiles[Output][o]
    <3>1. e \in Nat /\ o \in 0 .. (Top - 1) /\ o \in Int
      BY <2>6, ByteIn
    <3>2. Length(j) \in Int /\ Length(j) <= BufSize
      BY LengthIs, Zenon
    <3>3. (o >= Offset(j) /\ o < Offset(j) + count[j]) <=> (e = a /\ k < Length(j))
      BY <2>5, <2>6, <3>1, <3>2, <1>ByteOf, SMTT(30)
    <3>4. file'[Output][o] = IF e = a /\ k < Length(j) THEN mem[b][o - Offset(j)] ELSE file[Output][o]
      BY <2>4, <3>1, <3>3, Zenon DEF Written
    <3>5. file[Output][o] = IF 2 * e + 1 \in Pos /\ Ran(2 * e + 1) /\ o < Size
                            THEN Computed(Source(o)) ELSE NewFiles[Output][o]
      BY <2>6, Zenon DEF FileInv
    <3>6. CASE e # a
      <4>1. 2 * e + 1 # j
        BY <2>5, <3>1, <3>6, SMTT(30)
      <4> QED
        BY <3>4, <3>5, <3>6, <4>1, Zenon
    <3>7. CASE e = a
      <4>1. 2 * e + 1 = j /\ o = Offset(j) + k
        BY <2>5, <2>6, <3>7, Zenon
      <4>2. k < Length(j) <=> o < Size
        BY <4>1, LengthIs, Zenon
      <4>3. CASE k < Length(j)
        <5>1. o - Offset(j) = k
          <6>1. k \in Int /\ Offset(j) \in Int
            BY LengthIs, OffsetInt, Zenon
          <6> QED
            BY <4>1, <6>1
        <5>2. mem[b][k] = Computed(Source(o))
          BY <4>1, <4>3, Zenon DEF NewBlock
        <5> QED
          BY <3>4, <3>7, <4>1, <4>2, <4>3, <5>1, <5>2, SMTT(30)
      <4>4. CASE ~(k < Length(j))
        BY <3>4, <3>5, <3>7, <4>1, <4>2, <4>4, Zenon
      <4> QED
        BY <4>3, <4>4, Zenon
    <3> QED
      BY <3>6, <3>7, Zenon
  <2> QED
    BY <2>1, <2>2, <2>3, <2>6, SMTT(30) DEF FileInv
(* What a linked pwrite writes has been read. *)
<1>EngineWrites.
  ASSUME AllInv, NEW j \in Pos, ~IsRead(j), DataEngineRun(j)
  PROVE  NewBlock(sqe[j], j)
  <2> USE <1>EngineWrites
  <2>1. /\ BuffersInv /\ WriteInv /\ MemInv /\ (PlainPlugin(plugin) \/ LinkedPlugin(plugin))
        /\ InSession /\ stage[j] = "onthefly"
    BY RunsInSession, Zenon DEF AllInv, DataInv, RequestInv
  <2>2. LinkedPlugin(plugin) /\ LinkedWrites
    BY <2>1, Zenon DEF WriteInv, OwnWrites
  <2>3. PICK r \in Pos : r = j - 1 /\ IsRead(r) /\ Epoch(r) = Epoch(j) /\ Epoch(j) \in Epochs /\ r = 2 * Epoch(j)
    BY Partner, Blocks, Zenon
  <2>4. Held(Epoch(j)) /\ buf[j] = internal_buf[Epoch(j)] /\ stage[r] # "prepared" /\ r \in Link
    BY <2>1, <2>2, <2>3, Zenon DEF LinkedWrites, LinkedPlugin
  <2>5. sqe[j] = internal_buf[Epoch(j)]
    BY <2>1, <2>4, Zenon DEF BuffersInv, PoolsInv, EntryInv
  <2>6. Ran(r)
    <3>1. r \notin onthefly \/ r \in cq
      BY <2>3, <2>4, Zenon DEF DataEngineRun, EngineRun
    <3>2. r < frontier \/ r >= frontier
      BY <2>1, PosInt, Ints, SMTT(30) DEF BuffersInv, IInv
    <3>3. r >= frontier => stage[r] \in Issued
      BY <2>1, <2>3, <2>4, Zenon DEF BuffersInv, PoolsInv, HoldInv
    <3>4. stage[r] = "onthefly" => r \in onthefly
      BY <2>1, Zenon DEF BuffersInv, IInv, EngineAgrees, InSession
    <3>5. r < frontier \/ stage[r] = "finished" \/ r \in cq
      BY <2>4, <3>1, <3>2, <3>3, <3>4, Zenon DEF Issued
    <3>6. runs[r] = 1
      BY <2>1, <3>5, Zenon DEF BuffersInv, IInv, RunCount
    <3> QED
      BY <3>6 DEF Ran
  <2>7. Block(sqe[j], r)
    BY <2>1, <2>3, <2>4, <2>5, <2>6, Zenon DEF MemInv
  <2>8. plugin.compute = "none" /\ plugin.compute # "inc" /\ plugin.compute # "seven"
    BY <2>2, Zenon DEF LinkedPlugin
  <2>9. \A v : Computed(v) = v
    <3> SUFFICES ASSUME NEW v PROVE Computed(v) = v
      BY Zenon
    <3> QED
      BY <2>8, SMT DEF Computed
  <2>10. Offset(r) = Offset(j) /\ Length(r) = Length(j)
    BY <2>3, SameBlock, Zenon
  <2> QED
    BY <2>7, <2>9, <2>10, Zenon DEF Block, NewBlock
(* What a synchronous pwrite writes is what the application has computed.  *)
<1>SyncWrites.
  ASSUME AllInv, ~IsRead(frontier), DataSyscallSync
  PROVE  NewBlock(buf[frontier], frontier)
  <2> USE <1>SyncWrites
  <2>1. /\ BuffersInv /\ MemInv /\ (PlainPlugin(plugin) \/ LinkedPlugin(plugin))
    BY Zenon DEF AllInv, DataInv, RequestInv
  <2>2. PICK f \in Pos : f = frontier /\ f \in Int
    BY <2>1, SyncRuns, PosInt, Zenon
  <2>3. PICK r \in Pos : r = f - 1 /\ IsRead(r) /\ Epoch(r) = Epoch(f) /\ Epoch(f) \in Epochs
                         /\ f = 2 * Epoch(f) + 1 /\ r = 2 * Epoch(f) /\ f > 0 /\ r < f
    <3>1. f - 1 \in Pos /\ IsRead(f - 1) /\ Epoch(f - 1) = Epoch(f) /\ Epoch(f) \in Epochs
      BY <2>2, Partner, Zenon
    <3>2. f = 2 * Epoch(f) + 1 /\ Epoch(f) \in Int /\ Epoch(f) >= 0
      BY <2>2, <3>1, Blocks, Zenon
    <3> QED
      BY <2>2, <3>1, <3>2, SMTT(30)
  <2>4. InSession /\ pc = "self" /\ buf[f] = UserBuf(f)
    BY <2>1, <2>2, SyncRuns, SyncTarget, Zenon
  <2>5. ~Held(Epoch(f))
    <3> SUFFICES ASSUME Held(Epoch(f)) PROVE FALSE
      BY Zenon
    <3>1. Refers(Epoch(f))
      BY <2>1, <2>2, <2>3, Zenon DEF BuffersInv, PoolsInv, HoldInv
    <3>2. UserBuf(f) \in IBufs
      BY <2>1, <2>3, <2>4, <3>1, SMTT(30) DEF Refers, Held, BuffersInv, PoolsInv, PoolInv
    <3> QED
      BY <3>2, BufsDiffer, Zenon
  <2>6. NewBlock(UserBuf(r), r)
    BY <2>1, <2>2, <2>3, <2>4, <2>5, Zenon DEF MemInv
  <2>7. Offset(r) = Offset(f) /\ Length(r) = Length(f) /\ UserBuf(r) = UserBuf(f)
    BY <2>3, SameBlock, Zenon
  <2>8. NewBlock(UserBuf(f), f)
    BY <2>6, <2>7, Zenon DEF NewBlock
  <2> QED
    BY <2>2, <2>4, <2>8, Zenon
<1>1. BuffersInv /\ CountInv /\ FileInv /\ ShapeInv
  BY Zenon DEF AllInv, DataInv, RequestInv
<1>2. CASE UNCHANGED <<plugin, file, runs>>
  <2>1. \A i : Ran(i)' <=> Ran(i)
    BY <1>2, Zenon DEF Ran
  <2> QED
    BY <1>1, <1>2, <2>1, <1>SameFile, Zenon
<1>3. CASE DataCall \/ DataPeekPrepare \/ DataPushForward
  <2>1. UNCHANGED <<plugin, file, runs>>
    BY <1>1, <1>3, CallBufs, PrepareBufs, Zenon DEF DataCall, DataPeekPrepare, DataPushForward, PushForward,
                                             engineVars
  <2> QED
    BY <1>2, <2>1, Zenon
<1>4. CASE DataLeave \/ DataReset
  BY <1>2, <1>4, Zenon DEF DataLeave, Leave, DataReset, ResetToStart, dataVars, engineVars
<1>5. CASE DataPeekEnds \/ DataPeekNotReady \/ DataSubmit
  BY <1>1, <1>2, <1>5, IdleSteps, Zenon DEF Idle
<1>6. ASSUME NEW i \in Pos, DataCmplAsync(i) PROVE FileInv'
  BY <1>1, <1>2, <1>6, IdleSteps, Zenon DEF Idle
<1>7. CASE UNCHANGED allVars
  BY <1>1, <1>2, <1>7, IdleSteps, Zenon DEF Idle
<1>8. CASE DataEnter
  <2>1. plugin' = plugin /\ file' = NewFiles /\ runs' = [i \in Pos |-> 0]
    BY <1>8, Zenon DEF DataEnter, Enter
  <2>2. NewFiles' = NewFiles /\ \A i \in Pos : ~Ran(i)'
    BY <2>1, Zenon DEF NewFiles, Ran
  <2> QED
    BY <2>1, <2>2, Zenon DEF FileInv
<1>9. CASE DataSyscallSync
  <2>1. PICK f \in Pos : f = frontier
    BY <1>1, <1>9, SyncRuns, Zenon
  <2>2. /\ plugin' = plugin /\ stage[f] # "none" /\ ~Ran(f) /\ Ran(f)'
        /\ \A i \in Pos : i # f => (Ran(i)' <=> Ran(i))
    BY <1>1, <1>9, <2>1, SyncRuns, Zenon
  <2>3. CASE IsRead(f)
    <3>1. file' = file
      BY <1>9, <2>1, <2>3, Zenon DEF DataSyscallSync
    <3> QED
      BY <1>1, <2>2, <2>3, <3>1, <1>SameFile, Zenon
  <2>4. CASE ~IsRead(f)
    <3>1. PICK b : b = buf[f]
      BY Zenon
    <3>2. file' = [file EXCEPT ![Output] = Written(f, b)]
      BY <1>9, <2>1, <2>4, <3>1, Zenon DEF DataSyscallSync
    <3>3. NewBlock(b, f) /\ count[f] = Length(f)
      BY <1>1, <1>9, <2>1, <2>2, <2>4, <3>1, <1>SyncWrites, SMTT(30) DEF CountInv
    <3> QED
      BY <1>1, <2>2, <2>4, <3>2, <3>3, <1>RunFile, Zenon
  <2> QED
    BY <2>3, <2>4, Zenon
<1>10. ASSUME NEW i \in Pos, DataEngineRun(i) PROVE FileInv'
  <2>1. /\ plugin' = plugin /\ stage[i] # "none" /\ ~Ran(i) /\ Ran(i)'
        /\ \A j \in Pos : j # i => (Ran(j)' <=> Ran(j))
    BY <1>1, <1>10, RunsInSession, SMTT(30)
  <2>2. CASE IsRead(i)
    <3>1. file' = file
      BY <1>10, <2>2, SMTT(30) DEF DataEngineRun
    <3> QED
      BY <1>1, <2>1, <2>2, <3>1, <1>SameFile, Zenon
  <2>3. CASE ~IsRead(i)
    <3>1. PICK b : b = sqe[i]
      BY Zenon
    <3>2. file' = [file EXCEPT ![Output] = Written(i, b)]
      BY <1>10, <2>3, <3>1, Zenon DEF DataEngineRun
    <3>3. NewBlock(b, i) /\ count[i] = Length(i)
      BY <1>1, <1>10, <2>1, <2>3, <3>1, <1>EngineWrites, Zenon DEF CountInv
    <3> QED
      BY <1>1, <2>1, <2>3, <3>2, <3>3, <1>RunFile, Zenon
  <2> QED
    BY <2>2, <2>3, Zenon
<1> QED
  BY <1>3, <1>4, <1>5, <1>6, <1>7, <1>8, <1>9, <1>10, Zenon DEF DataNext

-----------------------------------------------------------------------------
(* The invariant. *)

(* Every step keeps the domains of arguments, memory and files. *)
LEMMA NextShape == ASSUME AllInv, [DataNext]_allVars PROVE ShapeInv'
(* A step that leaves the arguments, memory and files alone keeps their    *)
(* domains.                                                                *)
<1>SameShape.
  ASSUME ShapeInv,
         DOMAIN count' = DOMAIN count, DOMAIN rc' = DOMAIN rc,
         \/ mem' = mem
         \/ \E b, m : mem' = [mem EXCEPT ![b] = [k \in Cells |-> m[k]]],
         file' = file \/ \E h : file' = [file EXCEPT ![Output] = [o \in 0 .. (Top - 1) |-> h[o]]]
  PROVE  ShapeInv'
  <2> USE <1>SameShape
  <2>1. DOMAIN mem' = AllBufs /\ \A b \in AllBufs : DOMAIN mem'[b] = Cells
    BY Zenon DEF ShapeInv
  <2>2. DOMAIN file' = {"in", "out"} /\ \A f \in {"in", "out"} : DOMAIN file'[f] = 0 .. (Top - 1)
    BY Zenon DEF ShapeInv
  <2> QED
    BY <2>1, <2>2, Zenon DEF ShapeInv
<1>1. BuffersInv /\ ShapeInv
  BY Zenon DEF AllInv, DataInv, RequestInv
<1>2. CASE UNCHANGED <<count, rc, mem, file>>
  BY <1>1, <1>2, <1>SameShape, Zenon
<1>3. CASE DataPeekEnds \/ DataPeekNotReady \/ DataSubmit
  BY <1>1, <1>2, <1>3, IdleSteps, Zenon DEF Idle
<1>4. ASSUME NEW i \in Pos, DataCmplAsync(i) PROVE ShapeInv'
  BY <1>1, <1>2, <1>4, IdleSteps, Zenon DEF Idle
<1>5. CASE UNCHANGED allVars
  BY <1>1, <1>2, <1>5, IdleSteps, Zenon DEF Idle
<1>6. CASE DataLeave
  BY <1>2, <1>6, Zenon DEF DataLeave, dataVars, argVars
<1>7. CASE DataEnter
  <2>1. UNCHANGED <<count, rc, mem>> /\ file' = NewFiles
    BY <1>7, Zenon DEF DataEnter, argVars
  <2>2. DOMAIN file' = {"in", "out"} /\ \A f \in {"in", "out"} : DOMAIN file'[f] = 0 .. (Top - 1)
    BY <2>1, Zenon DEF NewFiles
  <2> QED
    BY <1>1, <2>1, <2>2, Zenon DEF ShapeInv
<1>8. CASE DataReset
  <2>1. DOMAIN count' = Pos /\ DOMAIN rc' = Pos /\ UNCHANGED <<mem, file>>
    BY <1>8, Zenon DEF DataReset
  <2> QED
    BY <1>1, <2>1, <1>SameShape, Zenon DEF ShapeInv
<1>9. CASE DataCall
  <2>1. DOMAIN count' = DOMAIN count /\ UNCHANGED <<rc, file>>
    BY <1>9, Zenon DEF DataCall, CheckArgsData
  <2>2. mem' = mem \/ \E b, m : mem' = [mem EXCEPT ![b] = [k \in Cells |-> m[k]]]
    <3>1. PICK b : b = UserBuf(frontier)
      BY Zenon
    <3>2. PICK m : m = [k \in Cells |-> IF k < app_rc THEN Computed(mem[b][k]) ELSE mem[b][k]]
      BY Zenon
    <3>3. b \in AllBufs /\ DOMAIN mem = AllBufs
      BY <1>1, <1>9, <3>1, CallBufs, BufsDiffer, Zenon DEF ShapeInv
    <3>4. IsRead(frontier) \/ mem' = [mem EXCEPT ![b] = [k \in Cells |-> m[k]]]
      BY <1>9, <3>1, <3>2, <3>3, Zenon DEF DataCall, Compute
    <3>5. IsRead(frontier) => mem' = mem
      BY <1>9, Zenon DEF DataCall, Compute
    <3> QED
      BY <3>4, <3>5, Zenon
  <2> QED
    BY <1>1, <2>1, <2>2, <1>SameShape, Zenon
<1>10. CASE DataPeekPrepare
  <2>1. DOMAIN count' = DOMAIN count /\ UNCHANGED <<rc, mem, file>>
    BY <1>10, Zenon DEF DataPeekPrepare, GeneratePread, GeneratePwrite
  <2> QED
    BY <1>1, <2>1, <1>SameShape, Zenon
<1>11. CASE DataPushForward
  <2>1. DOMAIN count' = DOMAIN count /\ DOMAIN rc' = DOMAIN rc /\ UNCHANGED file /\ ReflectResult
    BY <1>11, Zenon DEF DataPushForward
  <2>2. mem' = mem \/ \E b, m : mem' = [mem EXCEPT ![b] = [k \in Cells |-> m[k]]]
    <3>1. PICK b : b = buf[frontier]
      BY Zenon
    <3>2. PICK m : m = [k \in Cells |-> IF k < rc[frontier] THEN mem[internal_buf[Epoch(frontier)]][k]
                                        ELSE mem[b][k]]
      BY Zenon
    <3>3. mem' = mem \/ mem' = [mem EXCEPT ![b] = [k \in Cells |-> m[k]]]
      BY <2>1, <3>1, <3>2, Zenon DEF ReflectResult
    <3> QED
      BY <3>3, Zenon
  <2> QED
    BY <1>1, <2>1, <2>2, <1>SameShape, Zenon
<1>12. CASE DataSyscallSync
  <2>1. DOMAIN count' = DOMAIN count /\ DOMAIN rc' = DOMAIN rc
    BY <1>12, Zenon DEF DataSyscallSync, argVars
  <2>2. CASE IsRead(frontier)
    <3>1. PICK b : b = UserBuf(frontier)
      BY Zenon
    <3>2. PICK m : m = Filled(frontier, b)
      BY Zenon
    <3>3. m = [k \in Cells |-> m[k]]
      BY <3>2, Zenon DEF Filled
    <3>4. mem' = [mem EXCEPT ![b] = m] /\ file' = file
      BY <1>12, <2>2, <3>1, <3>2, SyncTarget, Zenon DEF DataSyscallSync
    <3>5. mem' = [mem EXCEPT ![b] = [k \in Cells |-> m[k]]]
      BY <3>3, <3>4, Zenon
    <3>6. \E c, n : mem' = [mem EXCEPT ![c] = [k \in Cells |-> n[k]]]
      BY <3>5, Zenon
    <3> QED
      BY ONLY <1>1, <2>1, <3>4, <3>6, <1>SameShape, ZenonT(30)
  <2>3. CASE ~IsRead(frontier)
    <3>1. PICK h : h = Written(frontier, buf[frontier])
      BY Zenon
    <3>2. h = [o \in 0 .. (Top - 1) |-> h[o]]
      BY <3>1, Zenon DEF Written
    <3>3. file' = [file EXCEPT ![Output] = h] /\ mem' = mem
      BY <1>12, <2>3, <3>1, Zenon DEF DataSyscallSync
    <3>4. file' = [file EXCEPT ![Output] = [o \in 0 .. (Top - 1) |-> h[o]]]
      BY <3>2, <3>3, Zenon
    <3> QED
      BY <1>1, <2>1, <3>3, <3>4, <1>SameShape, Zenon
  <2> QED
    BY <2>2, <2>3, Zenon
<1>13. ASSUME NEW i \in Pos, DataEngineRun(i) PROVE ShapeInv'
  <2>1. DOMAIN count' = DOMAIN count /\ DOMAIN rc' = DOMAIN rc
    BY <1>13, Zenon DEF DataEngineRun, argVars
  <2>2. CASE IsRead(i)
    <3>1. PICK m : m = Filled(i, sqe[i])
      BY Zenon
    <3>2. m = [k \in Cells |-> m[k]]
      BY <3>1, Zenon DEF Filled
    <3>3. mem' = [mem EXCEPT ![sqe[i]] = m] /\ file' = file
      BY <1>13, <2>2, <3>1, Zenon DEF DataEngineRun
    <3>4. mem' = [mem EXCEPT ![sqe[i]] = [k \in Cells |-> m[k]]]
      BY <3>2, <3>3, Zenon
    <3>5. \E c, n : mem' = [mem EXCEPT ![c] = [k \in Cells |-> n[k]]]
      BY <3>4, Zenon
    <3> QED
      BY ONLY <1>1, <2>1, <3>3, <3>5, <1>SameShape, Zenon
  <2>3. CASE ~IsRead(i)
    <3>1. PICK h : h = Written(i, sqe[i])
      BY Zenon
    <3>2. h = [o \in 0 .. (Top - 1) |-> h[o]]
      BY <3>1, Zenon DEF Written
    <3>3. file' = [file EXCEPT ![Output] = h] /\ mem' = mem
      BY <1>13, <2>3, <3>1, Zenon DEF DataEngineRun
    <3>4. file' = [file EXCEPT ![Output] = [o \in 0 .. (Top - 1) |-> h[o]]]
      BY <3>2, <3>3, Zenon
    <3> QED
      BY <1>1, <2>1, <3>3, <3>4, <1>SameShape, Zenon
  <2> QED
    BY <2>2, <2>3, Zenon
<1> QED
  BY <1>3, <1>4, <1>5, <1>6, <1>7, <1>8, <1>9, <1>10, <1>11, <1>12, <1>13, Zenon DEF DataNext

(* The invariant of the data holds at first. *)
LEMMA InitData ==
  ASSUME DataInit, PlainPlugin(plugin) \/ LinkedPlugin(plugin)
  PROVE  DataInv
<1>1. /\ pc = "out" /\ frontier = 0 /\ prepared = << >> /\ stage = [i \in Pos |-> "none"]
      /\ runs = [i \in Pos |-> 0]
      /\ count = [i \in Pos |-> 0] /\ rc = [i \in Pos |-> 0] /\ file = NewFiles
      /\ mem = [b \in AllBufs |-> [k \in Cells |-> 0]]
  BY Zenon DEF DataInit, Init
<1>2. BatchInv
  BY <1>1, Zenon DEF BatchInv, Ahead, LinkBatch, InSession
<1>3. PlaceInv
  BY <1>1, Zenon DEF PlaceInv, InCall
<1>4. WriteInv
  <2>1. internal_buf = [e \in Epochs |-> NoBuf]
    BY Zenon DEF DataInit
  <2>2. \A i \in Pos : ~Held(Epoch(i))
    BY <2>1, Blocks, Zenon DEF Held
  <2> QED
    BY <1>1, <2>2, Zenon DEF WriteInv, OwnWrites, LinkedWrites
<1>5. CountInv /\ MemInv
  BY <1>1, Zenon DEF CountInv, MemInv, InSession
<1>6. FileInv
  BY <1>1, Zenon DEF FileInv, Ran
<1>7. ShapeInv
  BY <1>1, Zenon DEF ShapeInv, NewFiles
<1> QED
  BY <1>2, <1>3, <1>4, <1>5, <1>6, <1>7, Zenon DEF DataInv, RequestInv

(* Every step keeps the invariant of the data. *)
LEMMA NextData == AllInv /\ [DataNext]_allVars => AllInv'
<1> SUFFICES ASSUME AllInv, [DataNext]_allVars PROVE AllInv'
  BY Zenon
<1>1. BuffersInv'
  BY NextPools, Zenon DEF AllInv
<1>2. RequestInv'
  BY <1>1, NextRequests, Zenon DEF AllInv, DataInv
<1>3. CountInv' /\ MemInv' /\ FileInv' /\ ShapeInv'
  BY <1>1, NextCounts, NextMem, NextFile, NextShape, Zenon
<1> QED
  BY <1>1, <1>2, <1>3, Zenon DEF AllInv, DataInv

(* The plugins of a program are of the two kinds. *)
Claimed == \A p \in Plugins : PlainPlugin(p) \/ LinkedPlugin(p)

(* They are: streaming and crossing, and with depth 2 at least linking and *)
(* cp's copy, when each pwrite is linked and the file ends with a block.   *)
LEMMA Plugged ==
  /\ Link = {} /\ Plugins \subseteq {StreamingSingle, StreamingMany, Crossing} => Claimed
  /\ /\ Depth >= 2 /\ Plugins = {Linking}
     /\ Link = {i \in Pos : IsRead(i) /\ i + 1 \in Pos}
     /\ \A i \in Link : Offset(i) + BufSize <= Size
     => Claimed
<1>1. Link = {} => PlainPlugin(StreamingSingle) /\ PlainPlugin(StreamingMany) /\ PlainPlugin(Crossing)
  BY Zenon DEF PlainPlugin, StreamingSingle, StreamingMany, Crossing
<1>2. ASSUME Depth >= 2, Link = {i \in Pos : IsRead(i) /\ i + 1 \in Pos},
             \A i \in Link : Offset(i) + BufSize <= Size
      PROVE  LinkedPlugin(Linking)
  <2>1. ASSUME NEW i \in Pos, ~IsRead(i) PROVE i - 1 \in Link
    <3>1. Epoch(i) \in Epochs /\ i = 2 * Epoch(i) + 1
      BY <2>1, Blocks, Zenon
    <3>2. PICK e \in Epochs : e = Epoch(i)
      BY <3>1, Zenon
    <3>3. e \in Int /\ 2 * e \in Pos /\ IsRead(2 * e)
      BY Blocks, Zenon
    <3>4. i - 1 = 2 * e /\ 2 * e + 1 = i
      BY <3>1, <3>2, <3>3, SMTT(30)
    <3> QED
      BY <1>2, <3>3, <3>4, Zenon
  <2> QED
    BY <1>2, <2>1, Zenon DEF LinkedPlugin, Linking
<1> QED
  BY <1>1, <1>2, Zenon DEF Claimed

(* In every reachable state of a session the buffers, the files and the    *)
(* results recorded hold what the invariant says of them.                  *)
THEOREM DataCorrect == ASSUME Claimed PROVE DataSpec => []AllInv
<1>1. ASSUME DataInit PROVE AllInv
  <2>1. BuffersInv
    BY <1>1, InitInv, InitPools, Zenon DEF DataInit, BuffersInv
  <2>2. PlainPlugin(plugin) \/ LinkedPlugin(plugin)
    BY <1>1, Zenon DEF Claimed, DataInit
  <2> QED
    BY <1>1, <2>1, <2>2, InitData, Zenon DEF AllInv
<1> QED
  BY <1>1, NextData, PTL DEF DataSpec

(* Under the invariant, a pread that has returned has filled the buffer of *)
(* the application with its block.                                         *)
LEMMA DataReads == AllInv => ReadsTransparent
<1> SUFFICES ASSUME AllInv, pc = "app", frontier > 0, IsRead(frontier - 1)
             PROVE  /\ app_rc = Length(frontier - 1)
                    /\ ~plugin.skip_memcpy =>
                         \A k \in Cells : k < Length(frontier - 1) =>
                           mem[UserBuf(frontier - 1)][k] = Source(Offset(frontier - 1) + k)
  BY Zenon DEF ReadsTransparent, Length
<1>1. CountInv /\ MemInv /\ InSession
  BY Zenon DEF AllInv, DataInv, RequestInv, InSession
<1>2. app_rc = Length(frontier - 1)
  BY <1>1, Zenon DEF CountInv
<1>3. ~plugin.skip_memcpy => Block(UserBuf(frontier - 1), frontier - 1)
  BY <1>1, Zenon DEF MemInv
<1> QED
  BY <1>2, <1>3, Zenon DEF Block

(* Under the invariant, every byte of the output is as a run without       *)
(* foreactor would have left it.                                           *)
LEMMA DataWrites == AllInv => WritesFaithful
<1> SUFFICES ASSUME AllInv, NEW o \in 0 .. (Top - 1)
             PROVE  LET new == IF o < Size THEN Computed(Source(o)) ELSE 0
                        i == 2 * (o \div BufSize) + 1
                    IN  /\ file[Output][o] \in {new, NewFiles[Output][o]}
                        /\ i < frontier => file[Output][o] = new
  BY Zenon DEF WritesFaithful
<1>1. PICK e \in 0 .. PathLen, k \in Cells : e = o \div BufSize /\ o = BufSize * e + k
  BY BlockOf, Zenon
<1>2. PICK i \in Int : i = 2 * e + 1
  OBVIOUS
<1>3. file[Output][o] = IF i \in Pos /\ Ran(i) /\ o < Size
                        THEN Computed(Source(o)) ELSE NewFiles[Output][o]
  BY <1>1, <1>2, Zenon DEF AllInv, DataInv, RequestInv, FileInv
<1>4. ~(o < Size) => NewFiles[Output][o] = 0
  BY Zenon DEF NewFiles, Output, Source
<1>5. ASSUME i < frontier PROVE i \in Pos /\ Ran(i)
  <2>1. TypeOK /\ ExactlyOnce
    BY Zenon DEF AllInv, BuffersInv, IInv
  <2>2. frontier \in 0 .. PathLen /\ PathLen \in Nat
    BY <2>1, PathAssumption, Zenon DEF TypeOK
  <2>3. i >= 0
    BY ONLY <1>2, <2>2, e \in 0 .. PathLen, SMTT(30)
  <2>4. i \in Pos
    BY <1>5, <2>2, <2>3, SMTT(30) DEF Pos
  <2> QED
    BY <1>5, <2>1, <2>4, SMTT(30) DEF ExactlyOnce, Ran
<1>6. \/ file[Output][o] = IF o < Size THEN Computed(Source(o)) ELSE 0
      \/ file[Output][o] = NewFiles[Output][o]
  BY <1>3, Zenon
<1>7. i < frontier => file[Output][o] = IF o < Size THEN Computed(Source(o)) ELSE 0
  BY <1>3, <1>4, <1>5, Zenon
<1> QED
  BY <1>1, <1>2, <1>6, <1>7, Zenon

(* A pread of streaming and crossing, with every file, block size and      *)
(* depth, and of linking and cp, with whole blocks and a depth of at least *)
(* 2 (Claimed), returns the number of bytes that a plain one would.        *)
(* Unless the plugin asks to skip the copy, the application finds the      *)
(* file's data in its buffer, whether it was pre-issued, in which order    *)
(* the requests ran, and whether CheckArgs had set the destination before. *)
THEOREM ReadsCorrect == ASSUME Claimed PROVE DataSpec => []ReadsTransparent
BY DataCorrect, DataReads, PTL

(* What a program has written is what it would have written alone, and     *)
(* what was returned as written is written: with streaming and crossing    *)
(* for every file, block size and depth; with linking and cp, where a      *)
(* pre-issued pwrite takes its data from the internal buffer that the      *)
(* linked pread is to fill, if each block written is whole and the depth   *)
(* is at least 2 (Claimed).  With a short last block or depth 1 the second *)
(* kind does not have the property.                                        *)
THEOREM WritesCorrect == ASSUME Claimed PROVE DataSpec => []WritesFaithful
BY DataCorrect, DataWrites, PTL
=============================================================================
