------------------------------ MODULE Buffers -------------------------------
(***************************************************************************)
(* The data that pread and pwrite move when they are pre-issued:           *)
(* SyscallPread and SyscallPwrite of syscalls/syscalls.cpp, the internal   *)
(* buffers a pread uses while its destination is not known, and the        *)
(* reference counts by which a linked pwrite keeps such a buffer.          *)
(*                                                                         *)
(* The application is a loop over the blocks of a file: a pread, a         *)
(* computation, a pwrite (the demos linking, streaming and crossing, and   *)
(* cp's sparse_copy).  The algorithm is that of module PreIssue; every     *)
(* action here is one of its actions with what it does to data.            *)
(***************************************************************************)
EXTENDS PreIssue, FiniteSetsExt

CONSTANTS
  Plugins,     \* the plugins to check, records as below
  IBufs,       \* the internal buffers that the pread node allocates
  Size,        \* length of the input file
  BufSize      \* length of a block

ASSUME BufferAssumption ==
  /\ IsFiniteSet(IBufs) /\ Cardinality(IBufs) = Depth + 1
  /\ Size \in Nat /\ BufSize \in Nat \ {0}

VARIABLES
  plugin,            \* the plugin in use
  buf, count,        \* ValuePools of the arguments, by position
  internal_buf,      \* ValuePool<char *> of the pread node, by epoch
  pre_alloced_bufs,  \* its free internal buffers
  ib_ref_counts,
  sqe,               \* buffer in the submission entry of a request
  rc,                \* ValuePool<long> of the results, by position
  mem,               \* contents of the buffers
  file,              \* contents of the input and the output file
  app_rc             \* what the latest call returned to the application

argVars == <<buf, count, internal_buf, pre_alloced_bufs, ib_ref_counts>>
dataVars == <<plugin, argVars, sqe, rc, mem, file, app_rc>>
allVars == <<vars, dataVars>>

-----------------------------------------------------------------------------
(* What the generators of a plugin say: whether a read may go straight to  *)
(* the application's buffer (one for all blocks, or one each), whether     *)
(* ReflectResult is told not to copy, when a pwrite is ready, and what the *)
(* application does with a block.                                          *)
Linking == [buf_ready |-> FALSE, single_buf |-> TRUE, skip_memcpy |-> TRUE,
            pwrite |-> "ref", compute |-> "none", in_place |-> FALSE]

(* Mutation: the one buffer is given out for every block at once. *)
StreamingSingle_Shared ==
  [buf_ready |-> TRUE, single_buf |-> TRUE, skip_memcpy |-> FALSE,
   pwrite |-> "never", compute |-> "inc", in_place |-> FALSE]

StreamingSingle ==
  [buf_ready |-> FALSE, single_buf |-> TRUE, skip_memcpy |-> FALSE,
   pwrite |-> "never", compute |-> "inc", in_place |-> FALSE]

StreamingMany ==
  [buf_ready |-> TRUE, single_buf |-> FALSE, skip_memcpy |-> FALSE,
   pwrite |-> "never", compute |-> "inc", in_place |-> FALSE]

Crossing == [buf_ready |-> FALSE, single_buf |-> TRUE, skip_memcpy |-> FALSE,
             pwrite |-> "done", compute |-> "seven", in_place |-> TRUE]

IsRead(i) == i % 2 = 0
Epoch(i) == i \div 2
Epochs == {Epoch(i) : i \in Pos}
Offset(i) == BufSize * Epoch(i)
NoBuf == <<"null">>
UserBuf(i) == <<"user", IF plugin.single_buf THEN 0 ELSE Epoch(i)>>
AllBufs == IBufs \cup {<<"user", e>> : e \in Epochs}

(* Allocated buffers are not null and not the application's. *)
ASSUME DistinctAssumption == IBufs \cap ({NoBuf} \cup {<<"user", e>> : e \in Epochs}) = {}

(* The loops are not left early, as cp does when a write fails: such a     *)
(* session leaves counts behind, which DataReset does not clear.           *)
ASSUME LoopAssumption == Weak = {}

Cells == 0 .. (BufSize - 1)
Top == BufSize * (PathLen + 1)

Source(o) == IF o < Size THEN o + 1 ELSE 0     \* 0: nothing there
Computed(v) == CASE plugin.compute = "none" -> v
                 [] plugin.compute = "inc" -> v + 1000
                 [] plugin.compute = "seven" -> 7000
Output == IF plugin.in_place THEN "in" ELSE "out"
NewFiles == [f \in {"in", "out"} |->
               [o \in 0 .. (Top - 1) |-> IF f = "in" THEN Source(o) ELSE 0]]

DataInit ==
  /\ Init
  /\ plugin \in Plugins
  /\ buf = [i \in Pos |-> NoBuf]
  /\ count = [i \in Pos |-> 0]
  /\ internal_buf = [e \in Epochs |-> NoBuf]
  /\ pre_alloced_bufs = IBufs
  /\ ib_ref_counts = [b \in IBufs |-> 0]
  /\ sqe = [i \in Pos |-> NoBuf]
  /\ rc = [i \in Pos |-> 0]
  /\ mem = [b \in AllBufs |-> [k \in Cells |-> 0]]
  /\ file = NewFiles
  /\ app_rc = 0

(* Every session works on files of its own. *)
DataEnter ==
  /\ Enter
  /\ file' = NewFiles
  /\ app_rc' = 0
  /\ UNCHANGED <<plugin, argVars, sqe, rc, mem>>

-----------------------------------------------------------------------------
(* The count the application asks for: a whole block when it reads, what   *)
(* it has read when it writes.                                             *)
AppCount(i) == IF IsRead(i) THEN BufSize ELSE app_rc

(* CheckArgs takes the arguments of an instance that has none, and the     *)
(* buffer of a pread that was given an internal one.                       *)
CheckArgsData ==
  /\ buf' = IF stage[frontier] = "none" \/ (IsRead(frontier) /\ buf[frontier] = NoBuf)
            THEN [buf EXCEPT ![frontier] = UserBuf(frontier)] ELSE buf
  /\ count' = IF stage[frontier] = "none"
              THEN [count EXCEPT ![frontier] = AppCount(frontier)] ELSE count

(* The application computes on the block between its pread and its pwrite. *)
Compute ==
  mem' = IF IsRead(frontier) THEN mem
         ELSE [mem EXCEPT ![UserBuf(frontier)] =
                 [k \in Cells |-> IF k < app_rc THEN Computed(@[k]) ELSE @[k]]]

DataCall ==
  /\ CallNoPeek \/ CallPeek
  /\ CheckArgsData
  /\ Compute
  /\ UNCHANGED <<plugin, internal_buf, pre_alloced_bufs, ib_ref_counts, sqe, rc,
                 file, app_rc>>

(* The branches of these plugins are always decided. *)
DataPeekEnds ==
  /\ PeekDone \/ PeekEnd
  /\ UNCHANGED dataVars

(* The calls of pread that have returned, as an rcsave function counts. *)
PreadsDone == Cardinality({i \in 0 .. (frontier - 1) : IsRead(i)})

Ready(i) ==
  \/ IsRead(i)
  \/ plugin.pwrite = "ref" /\ internal_buf[Epoch(i)] # NoBuf
  \/ plugin.pwrite = "done" /\ PreadsDone = Epoch(i) + 1

DataPeekNotReady ==
  /\ PeekNotReady
  /\ ~Ready(peekhead)
  /\ UNCHANGED dataVars

(* SyscallPread::GenerateArgs: without a destination, any free internal    *)
(* buffer is taken.                                                        *)
GeneratePread ==
  /\ IsRead(peekhead)
  /\ count' = [count EXCEPT ![peekhead] = BufSize]
  /\ IF plugin.buf_ready
     THEN /\ buf' = [buf EXCEPT ![peekhead] = UserBuf(peekhead)]
          /\ UNCHANGED <<internal_buf, pre_alloced_bufs>>
     ELSE \E b \in pre_alloced_bufs :
            /\ internal_buf' = [internal_buf EXCEPT ![Epoch(peekhead)] = b]
            /\ pre_alloced_bufs' = pre_alloced_bufs \ {b}
            /\ UNCHANGED buf
  /\ UNCHANGED ib_ref_counts

(* SyscallPread::RefInternalBuf *)
RefInternalBuf(e) ==
  ib_ref_counts' = [ib_ref_counts EXCEPT ![internal_buf[e]] = @ + 1]

(* SyscallPwrite::GenerateArgs, from the internal buffer of the pread or   *)
(* from the application's buffer.                                          *)
GeneratePwrite ==
  /\ ~IsRead(peekhead)
  /\ Ready(peekhead)
  /\ count' = [count EXCEPT ![peekhead] = BufSize]
  /\ IF plugin.pwrite = "ref"
     THEN /\ buf' = [buf EXCEPT ![peekhead] = internal_buf[Epoch(peekhead)]]
          /\ RefInternalBuf(Epoch(peekhead))
     ELSE /\ buf' = [buf EXCEPT ![peekhead] = UserBuf(peekhead)]
          /\ UNCHANGED ib_ref_counts
  /\ UNCHANGED <<internal_buf, pre_alloced_bufs>>

DataPeekPrepare ==
  /\ PeekPrepare
  /\ GeneratePread \/ GeneratePwrite
  /\ UNCHANGED <<plugin, sqe, rc, mem, file, app_rc>>

-----------------------------------------------------------------------------
(* Mutation: a pread always goes to the application's buffer. *)
PrepSqe_User(i) == UserBuf(i)

(* PrepUringSqe: a pread goes to the internal buffer as long as the        *)
(* destination is not known.                                               *)
PrepSqe(i) ==
  IF IsRead(i) /\ buf[i] = NoBuf THEN internal_buf[Epoch(i)] ELSE buf[i]

DataSubmit ==
  \/ /\ SubmitAll
     /\ sqe' = [i \in Pos |-> IF InPrepared(i) THEN PrepSqe(i) ELSE sqe[i]]
     /\ UNCHANGED <<plugin, argVars, rc, mem, file, app_rc>>
  \/ SubmitNone /\ UNCHANGED dataVars

(* What the kernel does for pread and pwrite. *)
ReadLen(i) == Max({0, Min({count[i], Size - Offset(i)})})

Filled(i, b) ==
  [k \in Cells |-> IF k < ReadLen(i) THEN file["in"][Offset(i) + k] ELSE mem[b][k]]

Written(i, b) ==
  [o \in 0 .. (Top - 1) |-> IF o >= Offset(i) /\ o < Offset(i) + count[i]
                            THEN mem[b][o - Offset(i)] ELSE file[Output][o]]

DataEngineRun(i) ==
  /\ EngineRun(i)
  /\ IF IsRead(i)
     THEN /\ mem' = [mem EXCEPT ![sqe[i]] = Filled(i, sqe[i])]
          /\ rc' = [rc EXCEPT ![i] = ReadLen(i)]
          /\ UNCHANGED file
     ELSE /\ file' = [file EXCEPT ![Output] = Written(i, sqe[i])]
          /\ rc' = [rc EXCEPT ![i] = count[i]]
          /\ UNCHANGED mem
  /\ UNCHANGED <<plugin, argVars, sqe, app_rc>>

(* SyscallSync of both classes.  A pread that has an internal buffer and   *)
(* is linked reads into it all the same.                                   *)
UseInternal(i) == internal_buf[Epoch(i)] # NoBuf /\ i \in Link

DataSyscallSync ==
  /\ SyscallSync
  /\ IF IsRead(frontier)
     THEN LET b == IF UseInternal(frontier) THEN internal_buf[Epoch(frontier)]
                   ELSE buf[frontier]
              got == Filled(frontier, b)
          IN  /\ mem' = IF UseInternal(frontier) /\ ~plugin.skip_memcpy
                        THEN [mem EXCEPT ![b] = got, ![buf[frontier]] = got]
                        ELSE [mem EXCEPT ![b] = got]
              /\ rc' = [rc EXCEPT ![frontier] = ReadLen(frontier)]
              /\ UNCHANGED file
     ELSE /\ file' = [file EXCEPT ![Output] = Written(frontier, buf[frontier])]
          /\ rc' = [rc EXCEPT ![frontier] = count[frontier]]
          /\ UNCHANGED mem
  /\ UNCHANGED <<plugin, argVars, sqe, app_rc>>

DataCmplAsync(i) == CmplAsync(i) /\ UNCHANGED dataVars

-----------------------------------------------------------------------------
(* Mutation: the result stays in the internal buffer. *)
ReflectResult_None == UNCHANGED mem

(* ReflectResult, for a request the engine has run. *)
ReflectResult ==
  LET ib == internal_buf[Epoch(frontier)]
  IN  mem' = IF IsRead(frontier) /\ sqe[frontier] # NoBuf /\ ib # NoBuf /\ ~plugin.skip_memcpy
             THEN [mem EXCEPT ![buf[frontier]] =
                     [k \in Cells |-> IF k < rc[frontier] THEN mem[ib][k] ELSE @[k]]]
             ELSE mem

FreeInternalBuf(e) ==
  /\ internal_buf' = [internal_buf EXCEPT ![e] = NoBuf]
  /\ pre_alloced_bufs' = pre_alloced_bufs \cup {internal_buf[e]}

(* Mutation: a buffer somebody refers to is given back. *)
RemovePread_Referenced(e) ==
  /\ IF internal_buf[e] # NoBuf
     THEN FreeInternalBuf(e)
     ELSE UNCHANGED <<internal_buf, pre_alloced_bufs>>
  /\ UNCHANGED ib_ref_counts

(* SyscallPread::RemoveOneEpoch *)
RemovePread(e) ==
  /\ IF internal_buf[e] # NoBuf /\ ib_ref_counts[internal_buf[e]] = 0
     THEN FreeInternalBuf(e)
     ELSE UNCHANGED <<internal_buf, pre_alloced_bufs>>
  /\ UNCHANGED ib_ref_counts

(* Mutation: the count goes down, the buffer is never given back. *)
PutInternalBuf_Keep(e) ==
  /\ ib_ref_counts' = IF internal_buf[e] = NoBuf THEN ib_ref_counts
                      ELSE [ib_ref_counts EXCEPT ![internal_buf[e]] = @ - 1]
  /\ UNCHANGED <<internal_buf, pre_alloced_bufs>>

(* Mutation: the buffer is given back, the count stays. *)
PutInternalBuf_NoCount(e) ==
  /\ IF internal_buf[e] = NoBuf
     THEN UNCHANGED <<internal_buf, pre_alloced_bufs>>
     ELSE FreeInternalBuf(e)
  /\ UNCHANGED ib_ref_counts

(* SyscallPread::PutInternalBuf, from the rcsave function of the pwrite. *)
PutInternalBuf(e) ==
  IF internal_buf[e] = NoBuf
  THEN UNCHANGED <<internal_buf, pre_alloced_bufs, ib_ref_counts>>
  ELSE /\ ib_ref_counts' = [ib_ref_counts EXCEPT ![internal_buf[e]] = @ - 1]
       /\ IF ib_ref_counts'[internal_buf[e]] = 0
          THEN FreeInternalBuf(e)
          ELSE UNCHANGED <<internal_buf, pre_alloced_bufs>>

DataPushForward ==
  /\ PushForward
  /\ ReflectResult
  /\ IF IsRead(frontier) THEN RemovePread(Epoch(frontier))
     ELSE IF plugin.pwrite = "ref" THEN PutInternalBuf(Epoch(frontier))
     ELSE UNCHANGED <<internal_buf, pre_alloced_bufs, ib_ref_counts>>
  /\ buf' = [buf EXCEPT ![frontier] = NoBuf]
  /\ count' = [count EXCEPT ![frontier] = 0]
  /\ sqe' = [sqe EXCEPT ![frontier] = NoBuf]
  /\ rc' = [rc EXCEPT ![frontier] = 0]
  /\ app_rc' = rc[frontier]
  /\ UNCHANGED <<plugin, file>>

(* At the end of the loop every request has been called: there is nothing  *)
(* to drain.                                                               *)
DataLeave == Leave /\ UNCHANGED dataVars

(* ResetValuePools of both classes; the counts are left as they are. *)
DataReset ==
  /\ ResetToStart
  /\ buf' = [i \in Pos |-> NoBuf]
  /\ count' = [i \in Pos |-> 0]
  /\ internal_buf' = [e \in Epochs |-> NoBuf]
  /\ pre_alloced_bufs' = pre_alloced_bufs \cup ({internal_buf[e] : e \in Epochs} \ {NoBuf})
  /\ sqe' = [i \in Pos |-> NoBuf]
  /\ rc' = [i \in Pos |-> 0]
  /\ UNCHANGED <<plugin, ib_ref_counts, mem, file, app_rc>>

DataNext ==
  \/ DataEnter \/ DataCall
  \/ DataPeekEnds \/ DataPeekNotReady \/ DataPeekPrepare
  \/ DataSubmit \/ DataSyscallSync \/ DataPushForward
  \/ DataLeave \/ DataReset
  \/ \E i \in Pos : DataCmplAsync(i) \/ DataEngineRun(i)

DataSpec == DataInit /\ [][DataNext]_allVars

-----------------------------------------------------------------------------
(***************************************************************************)
(* Properties                                                              *)
(***************************************************************************)

(* An internal buffer is free or belongs to one pread, and a buffer that a *)
(* prepared or running request reads or fills is not free: GenerateArgs    *)
(* cannot give it to another block, whoever finishes first (RemoveOneEpoch *)
(* and the reference counts).                                              *)
InUse == {sqe[i] : i \in onthefly \ cq} \cup {buf[i] : i \in {j \in Pos : InPrepared(j)}}

BuffersExclusive ==
  /\ \A d, e \in Epochs : internal_buf[d] = internal_buf[e] /\ d # e => internal_buf[d] = NoBuf
  /\ \A e \in Epochs : internal_buf[e] \notin pre_alloced_bufs
  /\ InUse \cap pre_alloced_bufs = {}

(* When the peek needs an internal buffer there is one: "at most can have  *)
(* pre_issue_depth + 1 internal buffers simultaneously in use", and the    *)
(* assertion pre_alloced_bufs.size() > 0 of GenerateArgs.                  *)
BufferAvailable ==
  Peeking /\ peekhead \in Pos /\ IsRead(peekhead) /\ ~plugin.buf_ready
    => pre_alloced_bufs # {}

(* A pread that has returned gave the length a synchronous one gives, and  *)
(* its bytes are in the application's buffer and stay there until the next *)
(* call, whatever the engine does meanwhile (except with skip_memcpy).     *)
ReadsTransparent ==
  pc = "app" /\ frontier > 0 /\ IsRead(frontier - 1) =>
    LET i == frontier - 1
        n == Max({0, Min({BufSize, Size - Offset(i)})})
    IN  /\ app_rc = n
        /\ ~plugin.skip_memcpy =>
             \A k \in Cells : k < n => mem[UserBuf(i)][k] = Source(Offset(i) + k)

(* What is in the output file is what the application would have written   *)
(* without the library, in whatever order pre-issued reads and writes run, *)
(* and a block whose pwrite has returned is there.                         *)
WritesFaithful ==
  \A o \in 0 .. (Top - 1) :
    LET new == IF o < Size THEN Computed(Source(o)) ELSE 0
        i == 2 * (o \div BufSize) + 1
    IN  /\ file[Output][o] \in {new, NewFiles[Output][o]}
        /\ i < frontier => file[Output][o] = new

(* After a session whose loop has run to its end (LoopAssumption) every    *)
(* internal buffer is free again and nobody is counted as referring to     *)
(* one: a pwrite's RefInternalBuf and PutInternalBuf balance, whichever of *)
(* the two calls of a block gives the buffer back.                         *)
BuffersReturned ==
  pc = "out" => pre_alloced_bufs = IBufs /\ \A b \in IBufs : ib_ref_counts[b] = 0
=============================================================================
