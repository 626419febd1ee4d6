--------------------------- MODULE Buffers_proofs ---------------------------
(***************************************************************************)
(* The internal buffers of pre-issued reads, for any plugin, and the       *)
(* requests that use them, for the plugins of the copying loops; for files *)
(* and blocks of any length, every depth and every order of the engine.    *)
(***************************************************************************)
EXTENDS Buffers, PreIssue_proofs

Held(e) == internal_buf[e] # NoBuf

(* The pwrite of a block refers to the internal buffer of its pread. *)
Refers(e) == 2 * e + 1 \in Pos /\ buf[2 * e + 1] = internal_buf[e]

Issued == {"prepared", "onthefly", "finished"}

(* Every internal buffer is free or belongs to one block. *)
PoolInv ==
  /\ \A e \in Epochs : internal_buf[e] \in IBufs \cup {NoBuf}
  /\ \A e \in Epochs : internal_buf[e] \notin pre_alloced_bufs
  /\ \A d, e \in Epochs : internal_buf[d] = internal_buf[e] /\ d # e => internal_buf[d] = NoBuf
  /\ pre_alloced_bufs \subseteq IBufs
  /\ \A b \in IBufs : b \in pre_alloced_bufs \/ \E e \in Epochs : internal_buf[e] = b

(* A block has an internal buffer from the peek at its pread until this    *)
(* returns, or if its pwrite refers to it until that returns.              *)
HoldInv ==
  /\ \A e \in Epochs : Held(e) /\ 2 * e >= frontier => stage[2 * e] \in Issued
  /\ \A e \in Epochs : Held(e) /\ 2 * e < frontier => Refers(e)

RefInv ==
  /\ \A b \in pre_alloced_bufs : ib_ref_counts[b] = 0
  /\ \A e \in Epochs : Held(e) => ib_ref_counts[internal_buf[e]] = IF Refers(e) THEN 1 ELSE 0

(* The buffers of requests. *)
BufInv ==
  /\ \A i \in Pos : stage[i] = "none" => buf[i] = NoBuf
  /\ \A i \in Pos : IsRead(i) => buf[i] \in {NoBuf, UserBuf(i)}
  /\ \A i \in Pos : ~IsRead(i) /\ buf[i] \notin {NoBuf, UserBuf(i)} =>
       stage[i] \in Issued /\ buf[i] = internal_buf[Epoch(i)] /\ plugin.pwrite = "ref"
  /\ \A i \in Pos : stage[i] \in Issued /\ buf[i] = NoBuf => IsRead(i) /\ Held(Epoch(i))

EntryInv ==
  /\ \A i \in Pos : sqe[i] # NoBuf =>
       /\ stage[i] \in {"onthefly", "finished"}
       /\ IsRead(i) => sqe[i] \in {UserBuf(i), internal_buf[Epoch(i)]}
       /\ ~IsRead(i) => sqe[i] = buf[i]
  /\ \A i \in Pos : stage[i] = "onthefly" => sqe[i] # NoBuf

(* Nothing is pending before the first call and after the last one. *)
QuietInv ==
  (pc \in {"out", "drain"} \/ (pc = "app" /\ frontier = 0)) =>
    onthefly = {} /\ \A i \in Pos : stage[i] = "none"

(* An instance has arguments without being pre-issued during its call only.*)
SyncInv ==
  \A i \in Pos : stage[i] = "argready" =>
    /\ InCall /\ i = frontier
    /\ buf[i] = UserBuf(i) /\ (IsRead(i) => ~Held(Epoch(i)))

PoolsInv ==
  /\ DOMAIN buf = Pos /\ DOMAIN sqe = Pos /\ DOMAIN internal_buf = Epochs
  /\ DOMAIN ib_ref_counts = IBufs
  /\ PoolInv /\ HoldInv /\ RefInv /\ BufInv /\ EntryInv /\ QuietInv /\ SyncInv

BuffersInv == IInv /\ PoolsInv

-----------------------------------------------------------------------------
(* Blocks and buffers. *)

(* A block has a pread, and a pwrite unless the path ends before it. *)
LEMMA Blocks ==
  /\ \A i \in Pos : /\ Epoch(i) \in Epochs
                    /\ IsRead(i) => i = 2 * Epoch(i)
                    /\ ~IsRead(i) => i = 2 * Epoch(i) + 1
  /\ \A e \in Epochs : /\ e \in Int /\ e >= 0
                       /\ 2 * e \in Pos /\ IsRead(2 * e) /\ Epoch(2 * e) = e
                       /\ ~IsRead(2 * e + 1) /\ Epoch(2 * e + 1) = e
<1>1. ASSUME NEW i \in Pos
      PROVE  /\ Epoch(i) \in Epochs
             /\ IsRead(i) => i = 2 * Epoch(i)
             /\ ~IsRead(i) => i = 2 * Epoch(i) + 1
  <2>1. i \in Int /\ i >= 0
    BY PosInt, Zenon
  <2>2. Epoch(i) \in Epochs
    BY Zenon DEF Epochs
  <2>3. IsRead(i) => i = 2 * Epoch(i)
    BY <2>1 DEF IsRead, Epoch
  <2>4. ~IsRead(i) => i = 2 * Epoch(i) + 1
    BY <2>1 DEF IsRead, Epoch
  <2> QED
    BY <2>2, <2>3, <2>4, Zenon
<1>2. ASSUME NEW e \in Epochs
      PROVE  /\ e \in Int /\ e >= 0
             /\ 2 * e \in Pos /\ IsRead(2 * e) /\ Epoch(2 * e) = e
             /\ ~IsRead(2 * e + 1) /\ Epoch(2 * e + 1) = e
  <2>1. PICK i \in Pos : e = Epoch(i)
    BY Zenon DEF Epochs
  <2>2. i \in Int /\ i >= 0 /\ i < PathLen /\ PathLen \in Int
    BY PosInt, PathAssumption
  <2>3. e \in Int /\ e >= 0 /\ 2 * e <= i
    BY <2>1, <2>2 DEF Epoch
  <2>4. 2 * e \in Pos
    BY <2>2, <2>3 DEF Pos
  <2>5. IsRead(2 * e) /\ Epoch(2 * e) = e /\ ~IsRead(2 * e + 1) /\ Epoch(2 * e + 1) = e
    BY <2>3 DEF IsRead, Epoch
  <2> QED
    BY <2>3, <2>4, <2>5, Zenon
<1> QED
  BY <1>1, <1>2, Zenon

(* The application's buffers and no buffer are not internal ones. *)
LEMMA BufsDiffer ==
  /\ NoBuf \notin IBufs
  /\ \A i \in Pos : UserBuf(i) # NoBuf /\ UserBuf(i) \notin IBufs /\ UserBuf(i) \in AllBufs
<1>1. NoBuf \notin IBufs
  BY DistinctAssumption, Zenon
<1>2. ASSUME NEW i \in Pos
      PROVE UserBuf(i) # NoBuf /\ UserBuf(i) \notin IBufs /\ UserBuf(i) \in AllBufs
  <2>1. 0 \in Epochs
    <3>1. 0 \in Pos
      BY PathAssumption DEF Pos
    <3>2. Epoch(0) = 0
      BY DEF Epoch
    <3> QED
      BY <3>1, <3>2, Zenon DEF Epochs
  <2>2. Epoch(i) \in Epochs
    BY Zenon DEF Epochs
  <2>3. PICK e \in Epochs : UserBuf(i) = <<"user", e>>
    BY <2>1, <2>2, Zenon DEF UserBuf
  <2>4. <<"user", e>> # NoBuf
    BY Zenon DEF NoBuf
  <2> QED
    BY <2>3, <2>4, DistinctAssumption, Zenon DEF AllBufs
<1> QED
  BY <1>1, <1>2, Zenon

-----------------------------------------------------------------------------
(* Who has which buffer. *)

(* All buffers are in the pools at first. *)
LEMMA InitPools == DataInit => PoolsInv
<1> SUFFICES ASSUME DataInit PROVE PoolsInv
  BY Zenon
<1>1. /\ pc = "out" /\ frontier = 0 /\ stage = [i \in Pos |-> "none"] /\ onthefly = {}
      /\ buf = [i \in Pos |-> NoBuf] /\ sqe = [i \in Pos |-> NoBuf]
      /\ internal_buf = [e \in Epochs |-> NoBuf] /\ pre_alloced_bufs = IBufs
      /\ ib_ref_counts = [b \in IBufs |-> 0]
  BY Zenon DEF DataInit, Init
<1>2. PoolInv /\ HoldInv /\ RefInv
  BY <1>1, BufsDiffer, Zenon DEF PoolInv, HoldInv, RefInv, Held
<1>3. BufInv /\ EntryInv /\ QuietInv /\ SyncInv
  BY <1>1, Zenon DEF BufInv, EntryInv, QuietInv, SyncInv, Issued
<1> QED
  BY <1>1, <1>2, <1>3, Zenon DEF PoolsInv

(* The peek is ahead of the frontier, at an instance without a stage. *)
LEMMA PeekAhead ==
  ASSUME IInv, Peeking, peekhead \in Pos
  PROVE  /\ pc = "peek" /\ peekhead > frontier /\ frontier \in Pos
         /\ \A i \in Pos : i >= peekhead => stage[i] = "none"
<1>1. pc = "peek"
  BY Zenon DEF Peeking
<1>2. frontier \in Pos /\ frontier \in Int /\ peekhead \in Int /\ peekhead > frontier
  BY <1>1, PosInt DEF IInv, SessionBounds, InCall, DistancesTrue, PeekWindow, TypeOK
<1>3. ASSUME NEW i \in Pos, i >= peekhead PROVE stage[i] = "none"
  BY <1>1, <1>2, <1>3, PosInt DEF IInv, StageWindow
<1> QED
  BY <1>1, <1>2, <1>3, Zenon

(* Between sessions no block has a buffer. *)
LEMMA NothingHeld ==
  ASSUME BuffersInv, pc \in {"out", "drain"}
  PROVE  \A e \in Epochs : ~Held(e)
<1> SUFFICES ASSUME NEW e \in Epochs, Held(e) PROVE FALSE
  BY Zenon
<1>1. HoldInv /\ BufInv /\ \A i \in Pos : stage[i] = "none"
  BY Zenon DEF BuffersInv, PoolsInv, QuietInv
<1>2. e \in Int /\ 2 * e \in Pos /\ frontier \in Int
  BY Blocks DEF BuffersInv, IInv, TypeOK
<1>3. CASE 2 * e >= frontier
  BY <1>1, <1>2, <1>3, Zenon DEF HoldInv, Issued
<1>4. CASE 2 * e < frontier
  BY <1>1, <1>2, <1>4, Zenon DEF HoldInv, Refers, BufInv, Held
<1> QED
  BY <1>2, <1>3, <1>4

(* Every step keeps the invariant of the pools. *)
LEMMA NextPools == BuffersInv /\ [DataNext]_allVars => BuffersInv'
(* Every step is one of the algorithm. *)
<1>StepOfAlgorithm.
  [DataNext]_allVars => [Next]_vars
  BY Zenon DEF DataNext, DataEnter, DataCall, DataPeekEnds, DataPeekNotReady, DataPeekPrepare,
         DataSubmit, DataSyscallSync, DataPushForward, DataLeave, DataReset,
         DataCmplAsync, DataEngineRun, allVars, Next, Issue, Session
(* Steps that give no buffer to anybody. *)
<1>SamePools.
  ASSUME BuffersInv,
         UNCHANGED <<plugin, buf, internal_buf, pre_alloced_bufs, ib_ref_counts, sqe, frontier>>,
         \A i \in Pos : \/ stage'[i] = stage[i]
                        \/ stage[i] \in {"argready", "onthefly"} /\ stage'[i] = "finished",
         InCall => InCall', QuietInv'
  PROVE  PoolsInv'
  <2> USE <1>SamePools
  <2>1. PoolInv /\ HoldInv /\ RefInv /\ BufInv /\ EntryInv /\ SyncInv
    BY Zenon DEF BuffersInv, PoolsInv
  <2>2. \A i \in Pos : UserBuf(i)' = UserBuf(i)
    BY Zenon DEF UserBuf
  <2>3. \A e : (Held(e)' <=> Held(e)) /\ (Refers(e)' <=> Refers(e))
    BY Zenon DEF Held, Refers
  <2>4. \A i \in Pos : stage[i] \in Issued => stage'[i] \in Issued
    BY Zenon DEF Issued
  <2>5. PoolInv' /\ RefInv'
    BY <2>1, <2>3, Zenon DEF PoolInv, RefInv
  <2>6. HoldInv'
    BY <2>1, <2>3, <2>4, Blocks, Zenon DEF HoldInv
  <2>7. BufInv'
    <3>1. \A i \in Pos : stage'[i] \in Issued => stage[i] \in Issued \/ buf[i] = UserBuf(i)
      BY <2>1, Zenon DEF Issued, SyncInv
    <3> QED
      BY <2>1, <2>2, <2>3, <2>4, <3>1, BufsDiffer, Zenon DEF BufInv
  <2>8. EntryInv'
    BY <2>1, <2>2, Zenon DEF EntryInv
  <2>9. SyncInv'
    BY <2>1, <2>2, <2>3, Zenon DEF SyncInv
  <2> QED
    BY <2>5, <2>6, <2>7, <2>8, <2>9, Zenon DEF BuffersInv, PoolsInv
(* CheckArgs gives the frontier the application's buffer. *)
<1>CallPools.
  ASSUME BuffersInv, DataCall PROVE PoolsInv'
  <2> USE <1>CallPools
  <2> DEFINE f == frontier
  <2>1. /\ f \in Pos /\ pc = "app" /\ InCall'
        /\ stage' = IF stage[f] = "none" THEN [stage EXCEPT ![f] = "argready"] ELSE stage
        /\ UNCHANGED <<plugin, internal_buf, pre_alloced_bufs, ib_ref_counts, sqe, frontier, onthefly>>
    <3>1. frontier \in 0 .. PathLen /\ PathLen \in Nat /\ frontier < PathLen
      BY PathAssumption, Zenon DEF BuffersInv, IInv, TypeOK, DataCall, CallNoPeek, CallPeek
    <3> QED
      BY <3>1 DEF DataCall, CallNoPeek, CallPeek, CheckArgs, engineVars, Pos, InCall
  <2>2. PoolInv /\ HoldInv /\ RefInv /\ BufInv /\ EntryInv /\ SyncInv /\ DOMAIN buf = Pos
        /\ DOMAIN stage = Pos
    BY Zenon DEF BuffersInv, PoolsInv, IInv, TypeOK
  <2>3. buf' = IF stage[f] = "none" \/ (IsRead(f) /\ buf[f] = NoBuf)
               THEN [buf EXCEPT ![f] = UserBuf(f)] ELSE buf
    BY Zenon DEF DataCall, CheckArgsData
  <2>4. /\ \A i \in Pos : UserBuf(i)' = UserBuf(i)
        /\ \A e : Held(e)' <=> Held(e)
    BY <2>1, Zenon DEF UserBuf, Held
  <2> HIDE DEF f
  <2>5. \A i \in Pos \ {f} : buf'[i] = buf[i] /\ stage'[i] = stage[i]
    BY <2>1, <2>2, <2>3, Zenon
  <2>6. /\ stage[f] = "none" => buf[f] = NoBuf /\ buf'[f] = UserBuf(f) /\ stage'[f] = "argready"
        /\ stage[f] # "none" => stage'[f] = stage[f] /\ (~IsRead(f) => buf'[f] = buf[f])
        /\ IsRead(f) => buf'[f] = UserBuf(f)
    BY <2>1, <2>2, <2>3, Zenon DEF BufInv
  <2>7. ASSUME NEW e \in Epochs, Held(e) PROVE Refers(e)' <=> Refers(e)
    <3>1. internal_buf[e] \in IBufs /\ internal_buf'[e] = internal_buf[e]
      BY <2>1, <2>2, <2>7, Zenon DEF PoolInv, Held
    <3>2. CASE 2 * e + 1 = f
      <4>1. ~IsRead(f)
        BY <3>2, Blocks, Zenon
      <4> QED
        BY <2>1, <2>6, <3>1, <3>2, <4>1, BufsDiffer, Zenon DEF Refers
    <3>3. CASE 2 * e + 1 # f
      BY <2>5, <3>1, <3>3, Zenon DEF Refers
    <3> QED
      BY <3>2, <3>3, Zenon
  <2>8. PoolInv' /\ RefInv'
    BY <2>1, <2>2, <2>4, <2>7, Zenon DEF PoolInv, RefInv
  <2>9. HoldInv'
    <3>1. \A i \in Pos : stage[i] \in Issued => stage'[i] = stage[i]
      BY <2>5, <2>6, Zenon DEF Issued
    <3> QED
      BY <2>1, <2>2, <2>4, <2>7, <3>1, Blocks, Zenon DEF HoldInv, f
  <2>10. BufInv'
    <3>1. ASSUME NEW i \in Pos
          PROVE  /\ stage'[i] = "none" => buf'[i] = NoBuf
                 /\ IsRead(i) => buf'[i] \in {NoBuf, UserBuf(i)}
                 /\ ~IsRead(i) /\ buf'[i] \notin {NoBuf, UserBuf(i)} =>
                      stage'[i] \in Issued /\ buf'[i] = internal_buf[Epoch(i)] /\ plugin.pwrite = "ref"
                 /\ stage'[i] \in Issued /\ buf'[i] = NoBuf => IsRead(i) /\ Held(Epoch(i))
      <4>1. CASE i # f
        BY <2>2, <2>5, <4>1, Zenon DEF BufInv
      <4>2. CASE i = f
        BY <2>2, <2>6, <4>2, BufsDiffer, Zenon DEF BufInv
      <4> QED
        BY <4>1, <4>2, Zenon
    <3> QED
      BY <2>1, <2>4, <3>1, Zenon DEF BufInv
  <2>11. EntryInv'
    BY <2>1, <2>2, <2>4, <2>5, <2>6, Zenon DEF EntryInv
  <2>12. SyncInv'
    <3>1. ASSUME NEW i \in Pos, stage'[i] = "argready"
          PROVE i = f /\ buf'[i] = UserBuf(i) /\ (IsRead(i) => ~Held(Epoch(i)))
      <4>1. stage[i] # "argready"
        BY <2>1, <2>2, Zenon DEF SyncInv, InCall
      <4>2. i = f /\ stage[f] = "none"
        BY <2>5, <2>6, <3>1, <4>1, Zenon
      <4>3. IsRead(f) => ~Held(Epoch(f))
        <5> SUFFICES ASSUME IsRead(f), Held(Epoch(f)) PROVE FALSE
          BY Zenon
        <5>1. f = 2 * Epoch(f) /\ Epoch(f) \in Epochs
          BY <2>1, Blocks, Zenon
        <5>2. 2 * Epoch(f) >= frontier
          BY <2>1, <5>1, PosInt DEF f
        <5>3. stage[f] \in Issued
          BY <2>2, <5>1, <5>2, Zenon DEF HoldInv
        <5> QED
          BY <4>2, <5>3, Zenon DEF Issued
      <4> QED
        BY <2>6, <4>2, <4>3, Zenon
    <3> QED
      BY <2>1, <2>4, <3>1, Zenon DEF SyncInv, f
  <2>13. QuietInv'
    BY <2>1, Zenon DEF QuietInv, InCall
  <2>14. DOMAIN buf' = Pos
    BY <2>2, <2>3, Zenon
  <2> QED
    BY <2>1, <2>8, <2>9, <2>10, <2>11, <2>12, <2>13, <2>14, Zenon DEF BuffersInv, PoolsInv
(* An internal buffer for a pread that has no destination. *)
<1>TakePools.
  ASSUME BuffersInv, NEW p \in Pos, IsRead(p), p > frontier,
         \A i \in Pos : i >= p => stage[i] = "none",
         DOMAIN stage = Pos, stage' = [stage EXCEPT ![p] = "prepared"],
         pc = "peek", pc' = "peek",
         NEW b \in pre_alloced_bufs, internal_buf' = [internal_buf EXCEPT ![Epoch(p)] = b],
         pre_alloced_bufs' = pre_alloced_bufs \ {b},
         UNCHANGED <<plugin, buf, ib_ref_counts, sqe, frontier>>
  PROVE  PoolsInv'
  <2> USE <1>TakePools
  <2> DEFINE a == Epoch(p)
  <2>1. PoolInv /\ HoldInv /\ RefInv /\ BufInv /\ EntryInv /\ SyncInv /\ DOMAIN internal_buf = Epochs
    BY Zenon DEF BuffersInv, PoolsInv
  <2>2. a \in Epochs /\ p = 2 * a /\ stage[p] = "none" /\ p \in Int /\ frontier \in Int
    BY Blocks, PosInt DEF BuffersInv, IInv, TypeOK
  <2>3. ~Held(a)
    BY <2>1, <2>2 DEF HoldInv, Issued
  <2>4. b \in IBufs /\ b # NoBuf /\ \A e \in Epochs : internal_buf[e] # b
    BY <2>1, BufsDiffer DEF PoolInv
  <2>5. /\ \A i \in Pos \ {p} : stage'[i] = stage[i] /\ stage'[p] = "prepared"
        /\ DOMAIN internal_buf' = Epochs
        /\ \A e \in Epochs : internal_buf'[e] = IF e = a THEN b ELSE internal_buf[e]
    BY <2>1, <2>2, Zenon
  <2>6. /\ \A i \in Pos : UserBuf(i)' = UserBuf(i) /\ buf'[i] = buf[i] /\ sqe'[i] = sqe[i]
        /\ Held(a)' /\ \A e \in Epochs \ {a} : Held(e)' <=> Held(e)
    BY <2>2, <2>4, <2>5, Zenon DEF UserBuf, Held
  <2>7. 2 * a + 1 \in Pos => buf[2 * a + 1] = NoBuf /\ stage[2 * a + 1] = "none"
    BY <2>1, <2>2 DEF BufInv
  <2>8. ~Refers(a)' /\ \A e \in Epochs \ {a} : Refers(e)' <=> Refers(e)
    BY <2>2, <2>4, <2>5, <2>7, Zenon DEF Refers
  <2> HIDE DEF a
  <2>9. PoolInv'
    <3>1. ASSUME NEW c \in IBufs, c \notin pre_alloced_bufs'
          PROVE  \E e \in Epochs : internal_buf'[e] = c
      <4>1. CASE c = b
        BY <2>2, <2>5, <4>1, Zenon
      <4>2. CASE c # b
        <5>1. PICK e \in Epochs : internal_buf[e] = c
          BY <2>1, <3>1, <4>2, Zenon DEF PoolInv
        <5>2. e # a
          BY <2>3, <5>1, BufsDiffer, Zenon DEF Held
        <5> QED
          BY <2>5, <5>1, <5>2, Zenon
      <4> QED
        BY <4>1, <4>2, Zenon
    <3>2. \A e \in Epochs : internal_buf'[e] \in IBufs \cup {NoBuf} /\ internal_buf'[e] \notin pre_alloced_bufs'
      BY <2>1, <2>4, <2>5, Zenon DEF PoolInv
    <3>3. \A d, e \in Epochs : internal_buf'[d] = internal_buf'[e] /\ d # e => internal_buf'[d] = NoBuf
      BY <2>1, <2>4, <2>5 DEF PoolInv
    <3> QED
      BY <2>1, <3>1, <3>2, <3>3, Zenon DEF PoolInv
  <2>10. RefInv'
    <3>1. \A c \in pre_alloced_bufs' : ib_ref_counts'[c] = 0
      BY <2>1, Zenon DEF RefInv
    <3>2. ASSUME NEW e \in Epochs, Held(e)'
          PROVE  ib_ref_counts'[internal_buf'[e]] = IF Refers(e)' THEN 1 ELSE 0
      <4>1. CASE e = a
        BY <2>1, <2>5, <2>8, <4>1, Zenon DEF RefInv
      <4>2. CASE e # a
        BY <2>1, <2>5, <2>6, <2>8, <3>2, <4>2 DEF RefInv
      <4> QED
        BY <4>1, <4>2, Zenon
    <3> QED
      BY <3>1, <3>2, Zenon DEF RefInv
  <2>11. HoldInv'
    <3>1. ASSUME NEW e \in Epochs, Held(e)', 2 * e >= frontier PROVE stage'[2 * e] \in Issued
      <4>1. CASE e = a
        BY <2>2, <2>5, <4>1, Zenon DEF Issued
      <4>2. CASE e # a
        <5>1. 2 * e \in Pos /\ stage[2 * e] \in Issued
          BY <2>1, <2>6, <3>1, <4>2, Blocks, Zenon DEF HoldInv
        <5> QED
          BY <2>2, <2>5, <5>1, Zenon DEF Issued
      <4> QED
        BY <4>1, <4>2, Zenon
    <3>2. ASSUME NEW e \in Epochs, Held(e)', 2 * e < frontier PROVE Refers(e)'
      <4>1. e # a
        BY <2>2, <3>2
      <4> QED
        BY <2>1, <2>6, <2>8, <3>2, <4>1, Zenon DEF HoldInv
    <3> QED
      BY <3>1, <3>2, Zenon DEF HoldInv
  <2>12. BufInv'
    <3>1. ASSUME NEW i \in Pos
          PROVE  /\ stage'[i] = "none" => buf[i] = NoBuf
                 /\ IsRead(i) => buf[i] \in {NoBuf, UserBuf(i)}
                 /\ ~IsRead(i) /\ buf[i] \notin {NoBuf, UserBuf(i)} =>
                      stage'[i] \in Issued /\ buf[i] = internal_buf'[Epoch(i)] /\ plugin.pwrite = "ref"
                 /\ stage'[i] \in Issued /\ buf[i] = NoBuf => IsRead(i) /\ Held(Epoch(i))'
      <4>1. CASE i = p
        BY <2>1, <2>5, <2>6, <4>1, Zenon DEF BufInv, a
      <4>2. CASE i # p
        <5>1. Epoch(i) \in Epochs /\ stage'[i] = stage[i]
          BY <2>5, <4>2, Blocks, Zenon
        <5>2. CASE Epoch(i) # a
          BY <2>1, <2>5, <2>6, <5>1, <5>2, Zenon DEF BufInv
        <5>3. CASE Epoch(i) = a
          <6>1. ~IsRead(i) /\ i = 2 * a + 1
            BY <2>2, <4>2, <5>3, Blocks, Zenon
          <6> QED
            BY <2>7, <5>1, <6>1, Zenon DEF Issued
        <5> QED
          BY <5>2, <5>3, Zenon
      <4> QED
        BY <4>1, <4>2, Zenon
    <3> QED
      BY <2>6, <3>1, Zenon DEF BufInv
  <2>13. EntryInv'
    <3>1. ASSUME NEW i \in Pos, sqe[i] # NoBuf
          PROVE  /\ stage'[i] \in {"onthefly", "finished"}
                 /\ IsRead(i) => sqe[i] \in {UserBuf(i), internal_buf'[Epoch(i)]}
                 /\ ~IsRead(i) => sqe[i] = buf[i]
      <4>1. /\ stage[i] \in {"onthefly", "finished"}
            /\ IsRead(i) => sqe[i] \in {UserBuf(i), internal_buf[Epoch(i)]}
            /\ ~IsRead(i) => sqe[i] = buf[i]
        BY <2>1, <3>1, Zenon DEF EntryInv
      <4>2. i # p /\ Epoch(i) \in Epochs
        BY <2>2, <4>1, Blocks, Zenon
      <4>3. IsRead(i) => Epoch(i) # a
        BY <2>2, <4>2, Blocks, Zenon
      <4> QED
        BY <2>5, <4>1, <4>2, <4>3, Zenon
    <3>2. \A i \in Pos : stage'[i] = "onthefly" => sqe[i] # NoBuf
      BY <2>1, <2>5, Zenon DEF EntryInv
    <3> QED
      BY <2>6, <3>1, <3>2, Zenon DEF EntryInv
  <2>14. SyncInv'
    <3>1. ASSUME NEW i \in Pos, stage'[i] = "argready"
          PROVE  i = frontier /\ buf[i] = UserBuf(i) /\ (IsRead(i) => ~Held(Epoch(i))')
      <4>1. i # p /\ stage[i] = "argready" /\ Epoch(i) \in Epochs
        BY <2>5, <3>1, Blocks, Zenon
      <4>2. IsRead(i) => Epoch(i) # a
        BY <2>2, <4>1, Blocks, Zenon
      <4> QED
        BY <2>1, <2>6, <4>1, <4>2, Zenon DEF SyncInv
    <3> QED
      BY <2>6, <3>1, Zenon DEF SyncInv, InCall
  <2>15. QuietInv'
    BY Zenon DEF QuietInv
  <2> QED
    BY <2>5, <2>9, <2>10, <2>11, <2>12, <2>13, <2>14, <2>15, Zenon DEF BuffersInv, PoolsInv
(* A request with a buffer that is there already: the application's, or    *)
(* for a pwrite the internal buffer of its block, which it then refers to. *)
<1>GivePools.
  ASSUME BuffersInv, NEW p \in Pos, p > frontier,
         \A i \in Pos : i >= p => stage[i] = "none",
         DOMAIN stage = Pos, stage' = [stage EXCEPT ![p] = "prepared"],
         pc = "peek", pc' = "peek",
         NEW b, buf' = [buf EXCEPT ![p] = b],
         \/ b = UserBuf(p) /\ UNCHANGED ib_ref_counts
         \/ /\ ~IsRead(p) /\ Held(Epoch(p)) /\ b = internal_buf[Epoch(p)] /\ plugin.pwrite = "ref"
            /\ ib_ref_counts' = [ib_ref_counts EXCEPT ![b] = @ + 1],
         UNCHANGED <<plugin, internal_buf, pre_alloced_bufs, sqe, frontier>>
  PROVE  PoolsInv'
  <2> USE <1>GivePools
  <2> DEFINE a == Epoch(p)
  <2>1. /\ PoolInv /\ HoldInv /\ RefInv /\ BufInv /\ EntryInv /\ SyncInv
        /\ DOMAIN buf = Pos /\ DOMAIN ib_ref_counts = IBufs
    BY Zenon DEF BuffersInv, PoolsInv
  <2>2. a \in Epochs /\ stage[p] = "none" /\ p \in Int /\ frontier \in Int /\ buf[p] = NoBuf
        /\ (IsRead(p) => p = 2 * a) /\ (~IsRead(p) => p = 2 * a + 1)
    <3>1. a \in Epochs /\ p \in Int /\ frontier \in Int
        /\ (IsRead(p) => p = 2 * a) /\ (~IsRead(p) => p = 2 * a + 1)
      BY Blocks, PosInt DEF BuffersInv, IInv, TypeOK
    <3>2. stage[p] = "none"
      BY <3>1
    <3> QED
      BY <2>1, <3>1, <3>2, Zenon DEF BufInv
  <2>3. /\ \A i \in Pos \ {p} : stage'[i] = stage[i] /\ buf'[i] = buf[i]
        /\ stage'[p] = "prepared" /\ buf'[p] = b /\ DOMAIN buf' = Pos
    BY <2>1, Zenon
  <2>4. /\ \A i \in Pos : UserBuf(i)' = UserBuf(i)
        /\ \A e : Held(e)' <=> Held(e)
    BY Zenon DEF UserBuf, Held
  <2>5. b # NoBuf
    BY BufsDiffer, Zenon DEF Held
  <2>6. \A e \in Epochs \ {a} : Refers(e)' <=> Refers(e)
    <3>1. ASSUME NEW e \in Epochs \ {a} PROVE 2 * e + 1 # p
      BY <2>2, Blocks, Zenon
    <3> QED
      BY <2>3, <3>1, Zenon DEF Refers
  <2>7. DOMAIN ib_ref_counts' = IBufs
    BY <2>1, Zenon
  <2>8. Held(a) => ib_ref_counts'[internal_buf[a]] = IF Refers(a)' THEN 1 ELSE 0
    <3> SUFFICES ASSUME Held(a) PROVE ib_ref_counts'[internal_buf[a]] = IF Refers(a)' THEN 1 ELSE 0
      BY Zenon
    <3>1. internal_buf[a] \in IBufs /\ internal_buf'[a] = internal_buf[a] /\ internal_buf[a] # NoBuf
      BY <2>1, <2>2, Zenon DEF PoolInv, Held
    <3>2. CASE IsRead(p)
      <4>1. Refers(a)' <=> Refers(a)
        BY <2>2, <2>3, <3>1, <3>2, Blocks DEF Refers
      <4> QED
        BY <2>1, <2>2, <3>2, <4>1, Zenon DEF RefInv
    <3>3. CASE ~IsRead(p)
      <4>1. ~Refers(a) /\ (Refers(a)' <=> b = internal_buf[a])
        BY <2>2, <2>3, <3>1, <3>3, Zenon DEF Refers
      <4>2. ib_ref_counts[internal_buf[a]] = 0
        BY <2>1, <2>2, <4>1, Zenon DEF RefInv
      <4> QED
        BY <2>1, <3>1, <4>1, <4>2, BufsDiffer
    <3> QED
      BY <3>2, <3>3, Zenon
  <2>9. \A c \in IBufs : c # internal_buf[a] => ib_ref_counts'[c] = ib_ref_counts[c]
    BY <2>1, Zenon
  <2> HIDE DEF a
  <2>10. PoolInv'
    BY <2>1, Zenon DEF PoolInv
  <2>11. RefInv'
    <3>1. ASSUME NEW c \in pre_alloced_bufs PROVE ib_ref_counts'[c] = 0
      <4>1. c \in IBufs /\ c # internal_buf[a]
        BY <2>1, <2>2, Zenon DEF PoolInv
      <4> QED
        BY <2>1, <2>9, <4>1, Zenon DEF RefInv
    <3>2. ASSUME NEW e \in Epochs, Held(e)
          PROVE  ib_ref_counts'[internal_buf[e]] = IF Refers(e)' THEN 1 ELSE 0
      <4>1. CASE e = a
        BY <2>8, <3>2, <4>1, Zenon
      <4>2. CASE e # a
        <5>1. internal_buf[e] \in IBufs /\ internal_buf[e] # internal_buf[a]
          BY <2>1, <2>2, <3>2, <4>2, Zenon DEF PoolInv, Held
        <5> QED
          BY <2>1, <2>6, <2>9, <3>2, <4>2, <5>1, Zenon DEF RefInv
      <4> QED
        BY <4>1, <4>2, Zenon
    <3> QED
      BY <2>4, <3>1, <3>2, Zenon DEF RefInv
  <2>12. HoldInv'
    <3>1. ASSUME NEW e \in Epochs, Held(e), 2 * e >= frontier PROVE stage'[2 * e] \in Issued
      BY <2>1, <2>3, <3>1, Blocks, Zenon DEF HoldInv, Issued
    <3>2. ASSUME NEW e \in Epochs, Held(e), 2 * e < frontier PROVE Refers(e)'
      <4>1. CASE e # a
        BY <2>1, <2>6, <3>2, <4>1, Zenon DEF HoldInv
      <4>2. CASE e = a
        <5>1. Refers(a)
          BY <2>1, <3>2, <4>2, Zenon DEF HoldInv
        <5>2. p = 2 * a + 1 => FALSE
          BY <2>2, <3>2, <4>2, <5>1, Zenon DEF Refers, Held
        <5>3. p = 2 * a => FALSE
          BY <2>2, <3>2, <4>2
        <5> QED
          BY <2>2, <5>2, <5>3, Zenon
      <4> QED
        BY <4>1, <4>2, Zenon
    <3> QED
      BY <2>4, <3>1, <3>2, Zenon DEF HoldInv
  <2>13. BufInv'
    <3>1. ASSUME NEW i \in Pos
          PROVE  /\ stage'[i] = "none" => buf'[i] = NoBuf
                 /\ IsRead(i) => buf'[i] \in {NoBuf, UserBuf(i)}
                 /\ ~IsRead(i) /\ buf'[i] \notin {NoBuf, UserBuf(i)} =>
                      stage'[i] \in Issued /\ buf'[i] = internal_buf[Epoch(i)] /\ plugin.pwrite = "ref"
                 /\ stage'[i] \in Issued /\ buf'[i] = NoBuf => IsRead(i) /\ Held(Epoch(i))
      <4>1. CASE i = p
        BY <2>3, <2>5, <4>1, Zenon DEF Issued, a
      <4>2. CASE i # p
        BY <2>1, <2>3, <4>2, Zenon DEF BufInv
      <4> QED
        BY <4>1, <4>2, Zenon
    <3> QED
      BY <2>4, <3>1, Zenon DEF BufInv
  <2>14. EntryInv'
    <3>1. \A i \in Pos : sqe[i] # NoBuf => i # p
      BY <2>1, <2>2, Zenon DEF EntryInv
    <3> QED
      BY <2>1, <2>3, <2>4, <3>1, Zenon DEF EntryInv
  <2>15. SyncInv'
    BY <2>1, <2>3, <2>4 DEF SyncInv, InCall
  <2>16. QuietInv'
    BY Zenon DEF QuietInv
  <2> QED
    BY <2>3, <2>7, <2>10, <2>11, <2>12, <2>13, <2>14, <2>15, <2>16, Zenon DEF BuffersInv, PoolsInv
(* Preparing a pread takes a buffer from the pool, or none; preparing a    *)
(* pwrite may refer to that of its pread.                                  *)
<1>PreparePools.
  ASSUME BuffersInv, DataPeekPrepare PROVE PoolsInv'
  <2> USE <1>PreparePools
  <2> DEFINE p == peekhead
  <2>1. /\ p \in Pos /\ Peeking /\ stage' = [stage EXCEPT ![p] = "prepared"]
        /\ pc = "peek" /\ pc' = "peek" /\ UNCHANGED <<plugin, sqe, frontier>>
    BY Zenon DEF DataPeekPrepare, PeekPrepare, PeekContinue, Peeking
  <2>2. /\ DOMAIN stage = Pos /\ p > frontier
        /\ \A i \in Pos : i >= p => stage[i] = "none"
    BY <2>1, PeekAhead, Zenon DEF BuffersInv, IInv, TypeOK
  <2>3. CASE GeneratePread /\ ~plugin.buf_ready
    <3>1. PICK b \in pre_alloced_bufs :
            /\ internal_buf' = [internal_buf EXCEPT ![Epoch(p)] = b]
            /\ pre_alloced_bufs' = pre_alloced_bufs \ {b}
      BY <2>3, Zenon DEF GeneratePread
    <3>2. UNCHANGED <<buf, ib_ref_counts>> /\ IsRead(p)
      BY <2>3, Zenon DEF GeneratePread
    <3> HIDE DEF p
    <3> QED
      BY <2>1, <2>2, <3>1, <3>2, <1>TakePools, Zenon
  <2>4. CASE GeneratePread /\ plugin.buf_ready
    <3>1. /\ buf' = [buf EXCEPT ![p] = UserBuf(p)]
          /\ UNCHANGED <<internal_buf, pre_alloced_bufs, ib_ref_counts>>
      BY <2>4, Zenon DEF GeneratePread
    <3> HIDE DEF p
    <3> QED
      BY <2>1, <2>2, <3>1, <1>GivePools, Zenon
  <2>5. CASE GeneratePwrite /\ plugin.pwrite = "ref"
    <3>1. /\ buf' = [buf EXCEPT ![p] = internal_buf[Epoch(p)]] /\ ~IsRead(p)
          /\ ib_ref_counts' = [ib_ref_counts EXCEPT ![internal_buf[Epoch(p)]] = @ + 1]
          /\ UNCHANGED <<internal_buf, pre_alloced_bufs>>
      BY <2>5, Zenon DEF GeneratePwrite, RefInternalBuf
    <3>2. Held(Epoch(p))
      BY <2>5, <3>1, Zenon DEF GeneratePwrite, Ready, Held
    <3> HIDE DEF p
    <3> QED
      BY <2>1, <2>2, <2>5, <3>1, <3>2, <1>GivePools, Zenon
  <2>6. CASE GeneratePwrite /\ plugin.pwrite # "ref"
    <3>1. /\ buf' = [buf EXCEPT ![p] = UserBuf(p)]
          /\ UNCHANGED <<internal_buf, pre_alloced_bufs, ib_ref_counts>>
      BY <2>6, Zenon DEF GeneratePwrite
    <3> HIDE DEF p
    <3> QED
      BY <2>1, <2>2, <3>1, <1>GivePools, Zenon
  <2> QED
    BY <2>3, <2>4, <2>5, <2>6, Zenon DEF DataPeekPrepare
(* PrepUringSqe puts a buffer into every entry. *)
<1>SubmitPools.
  ASSUME BuffersInv, SubmitAll, DataSubmit PROVE PoolsInv'
  <2> USE <1>SubmitPools
  <2>1. /\ pc = "submit" /\ pc' = "self"
        /\ stage' = [i \in Pos |-> IF InPrepared(i) THEN "onthefly" ELSE stage[i]]
        /\ sqe' = [i \in Pos |-> IF InPrepared(i) THEN PrepSqe(i) ELSE sqe[i]]
        /\ UNCHANGED <<plugin, buf, internal_buf, pre_alloced_bufs, ib_ref_counts, frontier>>
    BY Zenon DEF DataSubmit, SubmitAll, SubmitNone, argVars
  <2>2. PoolInv /\ HoldInv /\ RefInv /\ BufInv /\ EntryInv /\ SyncInv
    BY Zenon DEF BuffersInv, PoolsInv
  <2>3. \A i \in Pos : InPrepared(i) <=> stage[i] = "prepared"
    BY <2>1, Zenon DEF BuffersInv, IInv, EngineAgrees
  <2>4. /\ \A i \in Pos : UserBuf(i)' = UserBuf(i)
        /\ \A e : (Held(e)' <=> Held(e)) /\ (Refers(e)' <=> Refers(e))
    BY <2>1, Zenon DEF UserBuf, Held, Refers
  <2>5. \A i \in Pos : /\ stage[i] = "prepared" => stage'[i] = "onthefly" /\ sqe'[i] = PrepSqe(i)
                       /\ stage[i] # "prepared" => stage'[i] = stage[i] /\ sqe'[i] = sqe[i]
    BY <2>1, <2>3, Zenon
  <2>6. \A i \in Pos : stage'[i] \in Issued <=> stage[i] \in Issued
    BY <2>5, Zenon DEF Issued
  <2>7. PoolInv' /\ RefInv'
    BY <2>1, <2>2, <2>4, Zenon DEF PoolInv, RefInv
  <2>8. HoldInv'
    BY <2>1, <2>2, <2>4, <2>6, Blocks, Zenon DEF HoldInv
  <2>9. BufInv'
    BY <2>1, <2>2, <2>4, <2>5, <2>6, Zenon DEF BufInv
  <2>10. EntryInv'
    <3>1. ASSUME NEW i \in Pos, stage[i] = "prepared"
          PROVE  /\ PrepSqe(i) # NoBuf
                 /\ IsRead(i) => PrepSqe(i) \in {UserBuf(i), internal_buf[Epoch(i)]}
                 /\ ~IsRead(i) => PrepSqe(i) = buf[i]
      BY <2>2, <3>1, Zenon DEF BufInv, PrepSqe, Held, Issued
    <3> QED
      BY <2>1, <2>2, <2>4, <2>5, <3>1, Zenon DEF EntryInv
  <2>11. SyncInv'
    BY <2>1, <2>2, <2>4, <2>5, Zenon DEF SyncInv, InCall
  <2>12. QuietInv'
    BY <2>1, Zenon DEF QuietInv
  <2>13. DOMAIN sqe' = Pos
    BY <2>1, Zenon
  <2> QED
    BY <2>1, <2>7, <2>8, <2>9, <2>10, <2>11, <2>12, <2>13, Zenon DEF BuffersInv, PoolsInv
(* When a call returns, its block gives its internal buffer back, unless   *)
(* its pwrite is still to come and refers to it.                           *)
<1>ReturnPools.
  ASSUME BuffersInv, NEW f \in Pos, f = frontier, frontier' = f + 1,
         stage[f] = "finished", stage' = [stage EXCEPT ![f] = "none"],
         pc = "self", pc' = "app", NEW a, a = Epoch(f),
         buf' = [buf EXCEPT ![f] = NoBuf], sqe' = [sqe EXCEPT ![f] = NoBuf], UNCHANGED plugin,
         DOMAIN ib_ref_counts' = IBufs,
         \/ /\ Held(a) /\ (IsRead(f) => ~Refers(a))
            /\ internal_buf' = [internal_buf EXCEPT ![a] = NoBuf]
            /\ pre_alloced_bufs' = pre_alloced_bufs \cup {internal_buf[a]}
            /\ ib_ref_counts'[internal_buf[a]] = 0
            /\ \A c \in IBufs : c # internal_buf[a] => ib_ref_counts'[c] = ib_ref_counts[c]
         \/ /\ Held(a) => IsRead(f) /\ Refers(a)
            /\ UNCHANGED <<internal_buf, pre_alloced_bufs, ib_ref_counts>>
  PROVE  PoolsInv'
  <2> USE <1>ReturnPools
  <2>1. /\ PoolInv /\ HoldInv /\ RefInv /\ BufInv /\ EntryInv /\ SyncInv
        /\ DOMAIN buf = Pos /\ DOMAIN sqe = Pos /\ DOMAIN internal_buf = Epochs /\ DOMAIN stage = Pos
    BY Zenon DEF BuffersInv, PoolsInv, IInv, TypeOK
  <2>2. a \in Epochs /\ f \in Int /\ (IsRead(f) => f = 2 * a) /\ (~IsRead(f) => f = 2 * a + 1)
    BY Blocks, PosInt, Zenon
  <2>3. /\ \A i \in Pos \ {f} : stage'[i] = stage[i] /\ buf'[i] = buf[i] /\ sqe'[i] = sqe[i]
        /\ stage'[f] = "none" /\ buf'[f] = NoBuf /\ sqe'[f] = NoBuf
        /\ DOMAIN buf' = Pos /\ DOMAIN sqe' = Pos /\ DOMAIN internal_buf' = Epochs
        /\ \A e \in Epochs \ {a} : internal_buf'[e] = internal_buf[e]
    BY <2>1, Zenon
  <2>4. /\ \A i \in Pos : UserBuf(i)' = UserBuf(i)
        /\ \A e \in Epochs \ {a} : Held(e)' <=> Held(e)
        /\ Held(a)' => /\ Held(a) /\ IsRead(f) /\ Refers(a)
                       /\ UNCHANGED <<internal_buf, pre_alloced_bufs, ib_ref_counts>>
    <3>1. \A i \in Pos : UserBuf(i)' = UserBuf(i)
      BY Zenon DEF UserBuf
    <3>2. \A e \in Epochs \ {a} : Held(e)' <=> Held(e)
      BY <2>3, Zenon DEF Held
    <3>3. Held(a)' => /\ Held(a) /\ IsRead(f) /\ Refers(a)
                      /\ UNCHANGED <<internal_buf, pre_alloced_bufs, ib_ref_counts>>
      BY <2>1, <2>2, Zenon DEF Held
    <3> QED
      BY <3>1, <3>2, <3>3, Zenon
  <2>5. /\ \A e \in Epochs \ {a} : Refers(e)' <=> Refers(e)
        /\ Held(a)' => Refers(a)'
    <3>1. ASSUME NEW e \in Epochs \ {a} PROVE 2 * e + 1 # f
      BY <2>2, Blocks, Zenon
    <3>2. IsRead(f) => 2 * a + 1 # f
      BY <2>2, Blocks, Zenon
    <3> QED
      BY <2>3, <2>4, <3>1, <3>2 DEF Refers
  <2>6. Held(a) => internal_buf[a] \in IBufs
    BY <2>1, <2>2, Zenon DEF PoolInv, Held
  <2>7. PoolInv'
    <3>1. ASSUME NEW c \in IBufs, c \notin pre_alloced_bufs'
          PROVE  \E e \in Epochs : internal_buf'[e] = c
      <4>1. PICK e \in Epochs : internal_buf[e] = c
        BY <2>1, <3>1, Zenon DEF PoolInv
      <4>2. CASE e # a
        BY <2>3, <4>1, <4>2, Zenon
      <4>3. CASE e = a
        BY <3>1, <4>1, <4>3, Zenon
      <4> QED
        BY <4>2, <4>3, Zenon
    <3>2. \A e \in Epochs : internal_buf'[e] \in IBufs \cup {NoBuf}
      BY <2>1, <2>2, <2>3, Zenon DEF PoolInv
    <3>3. \A e \in Epochs : internal_buf'[e] \notin pre_alloced_bufs'
      <4> SUFFICES ASSUME NEW e \in Epochs PROVE internal_buf'[e] \notin pre_alloced_bufs'
        BY Zenon
      <4>1. internal_buf[e] \notin pre_alloced_bufs /\ NoBuf \notin pre_alloced_bufs
        BY <2>1, BufsDiffer, Zenon DEF PoolInv
      <4>2. Held(a) => NoBuf # internal_buf[a]
        BY Zenon DEF Held
      <4>3. CASE e = a
        BY <2>1, <2>2, <4>1, <4>2, <4>3, Zenon
      <4>4. CASE e # a
        BY <2>1, <2>2, <2>3, <4>1, <4>2, <4>4, SMTT(30) DEF PoolInv
      <4> QED
        BY <4>3, <4>4, Zenon
    <3>4. \A d, e \in Epochs : internal_buf'[d] = internal_buf'[e] /\ d # e => internal_buf'[d] = NoBuf
      BY <2>1, <2>2, <2>3, SMTT(30) DEF PoolInv
    <3>5. pre_alloced_bufs' \subseteq IBufs
      BY <2>1, <2>6 DEF PoolInv
    <3> QED
      BY <3>1, <3>2, <3>3, <3>4, <3>5, Zenon DEF PoolInv
  <2>8. RefInv'
    <3>1. \A c \in pre_alloced_bufs' : ib_ref_counts'[c] = 0
      BY <2>1 DEF RefInv, PoolInv
    <3>2. ASSUME NEW e \in Epochs, Held(e)'
          PROVE  ib_ref_counts'[internal_buf'[e]] = IF Refers(e)' THEN 1 ELSE 0
      <4>1. CASE e = a
        BY <2>1, <2>2, <2>4, <2>5, <3>2, <4>1, Zenon DEF RefInv
      <4>2. CASE e # a
        <5>1. Held(e) /\ internal_buf[e] \in IBufs /\ internal_buf[e] # internal_buf[a]
          BY <2>1, <2>2, <2>4, <3>2, <4>2, Zenon DEF PoolInv, Held
        <5>2. ib_ref_counts'[internal_buf[e]] = ib_ref_counts[internal_buf[e]]
          BY <5>1, Zenon
        <5> QED
          BY <2>1, <2>3, <2>5, <4>2, <5>1, <5>2, Zenon DEF RefInv
      <4> QED
        BY <4>1, <4>2, Zenon
    <3> QED
      BY <3>1, <3>2, Zenon DEF RefInv
  <2>9. HoldInv'
    <3>1. ASSUME NEW e \in Epochs, Held(e)', 2 * e >= frontier' PROVE stage'[2 * e] \in Issued
      <4>1. 2 * e \in Pos /\ 2 * e >= frontier /\ 2 * e # f
        BY <2>2, <3>1, Blocks
      <4>2. Held(e)
        BY <2>4, <3>1, Zenon
      <4> QED
        BY <2>1, <2>3, <4>1, <4>2, Zenon DEF HoldInv
    <3>2. ASSUME NEW e \in Epochs, Held(e)', 2 * e < frontier' PROVE Refers(e)'
      <4>1. CASE e = a
        BY <2>5, <3>2, <4>1, Zenon
      <4>2. CASE e # a
        <5>1. 2 * e < frontier
          BY <2>2, <3>2, <4>2, Blocks
        <5> QED
          BY <2>1, <2>4, <2>5, <3>2, <4>2, <5>1, Zenon DEF HoldInv
      <4> QED
        BY <4>1, <4>2, Zenon
    <3> QED
      BY <3>1, <3>2, Zenon DEF HoldInv
  <2>10. BufInv'
    <3>1. ASSUME NEW i \in Pos
          PROVE  /\ stage'[i] = "none" => buf'[i] = NoBuf
                 /\ IsRead(i) => buf'[i] \in {NoBuf, UserBuf(i)}
                 /\ ~IsRead(i) /\ buf'[i] \notin {NoBuf, UserBuf(i)} =>
                      stage'[i] \in Issued /\ buf'[i] = internal_buf'[Epoch(i)] /\ plugin.pwrite = "ref"
                 /\ stage'[i] \in Issued /\ buf'[i] = NoBuf => IsRead(i) /\ Held(Epoch(i))'
      <4>1. CASE i = f
        BY <2>3, <4>1, Zenon DEF Issued
      <4>2. CASE i # f
        <5>1. /\ stage'[i] = stage[i] /\ buf'[i] = buf[i] /\ Epoch(i) \in Epochs
              /\ stage[i] = "none" => buf[i] = NoBuf
              /\ IsRead(i) => buf[i] \in {NoBuf, UserBuf(i)}
              /\ ~IsRead(i) /\ buf[i] \notin {NoBuf, UserBuf(i)} =>
                   stage[i] \in Issued /\ buf[i] = internal_buf[Epoch(i)] /\ plugin.pwrite = "ref"
              /\ stage[i] \in Issued /\ buf[i] = NoBuf => IsRead(i) /\ Held(Epoch(i))
          BY <2>1, <2>3, <4>2, Blocks, Zenon DEF BufInv
        <5>2. CASE Epoch(i) # a
          BY <2>3, <2>4, <5>1, <5>2, Zenon
        <5>3. CASE Epoch(i) = a
          <6>1. ~IsRead(i) => IsRead(f) /\ i = 2 * a + 1
            BY <2>2, <4>2, <5>3, Blocks, Zenon
          <6>2. IsRead(i) => ~IsRead(f) /\ i = 2 * a
            BY <2>2, <4>2, <5>3, Blocks, Zenon
          <6>3. IsRead(i) => stage[i] = "none"
            <7>1. IsRead(i) => i \in Int /\ i < frontier
              BY <2>2, <6>2, PosInt
            <7> QED
              BY <2>2, <7>1, SMTT(30) DEF BuffersInv, IInv, StageWindow
          <6>4. ~IsRead(i) /\ buf[i] \notin {NoBuf, UserBuf(i)} => internal_buf'[a] = internal_buf[a]
            <7> SUFFICES ASSUME ~IsRead(i), buf[i] \notin {NoBuf, UserBuf(i)}
                         PROVE  internal_buf'[a] = internal_buf[a]
              BY Zenon
            <7>1. Refers(a)
              BY <5>1, <5>3, <6>1, Zenon DEF Refers
            <7> QED
              BY <6>1, <7>1, Zenon
          <6>5. ~(stage[i] \in Issued /\ buf[i] = NoBuf)
            BY <5>1, <6>3, Zenon DEF Issued
          <6> QED
            BY <5>1, <5>3, <6>4, <6>5, Zenon
        <5> QED
          BY <5>2, <5>3, Zenon
      <4> QED
        BY <4>1, <4>2, Zenon
    <3> QED
      BY <2>4, <3>1, Zenon DEF BufInv
  <2>11. EntryInv'
    <3>1. ASSUME NEW i \in Pos \ {f}, IsRead(i), sqe[i] # NoBuf PROVE Epoch(i) # a
      <4>1. stage[i] # "none" /\ i \in Int
        BY <2>1, <3>1, PosInt, Zenon DEF EntryInv
      <4>2. i >= frontier
        BY <4>1, Zenon DEF BuffersInv, IInv, StageWindow
      <4> QED
        BY <2>2, <3>1, <4>1, <4>2, Blocks, SMTT(30)
    <3>2. \A i \in Pos : Epoch(i) \in Epochs
      BY Blocks, Zenon
    <3> QED
      BY <2>1, <2>3, <2>4, <3>1, <3>2, SMTT(30) DEF EntryInv
  <2>12. SyncInv'
    BY <2>1, <2>3, Zenon DEF SyncInv
  <2>13. QuietInv'
    BY <2>2, PosInt DEF QuietInv
  <2> QED
    BY <2>3, <2>7, <2>8, <2>9, <2>10, <2>11, <2>12, <2>13, Zenon DEF BuffersInv, PoolsInv
(* The return of a call gives its buffer back, unless a pwrite refers to   *)
(* it.                                                                     *)
<1>PushPools.
  ASSUME BuffersInv, DataPushForward PROVE PoolsInv'
  <2> USE <1>PushPools
  <2>1. /\ frontier \in Pos /\ pc = "self" /\ pc' = "app" /\ frontier' = frontier + 1
        /\ stage[frontier] = "finished" /\ stage' = [stage EXCEPT ![frontier] = "none"]
        /\ buf' = [buf EXCEPT ![frontier] = NoBuf] /\ sqe' = [sqe EXCEPT ![frontier] = NoBuf]
        /\ UNCHANGED plugin
    BY Zenon DEF DataPushForward, PushForward, BuffersInv, IInv, SessionBounds, InCall
  <2>2. PICK f \in Pos : f = frontier
    BY <2>1, Zenon
  <2>3. PICK a \in Epochs : a = Epoch(f)
    BY <2>2, Blocks, Zenon
  <2>4. PoolInv /\ HoldInv /\ RefInv /\ DOMAIN ib_ref_counts = IBufs
    BY Zenon DEF BuffersInv, PoolsInv
  <2>5. Held(a) => /\ internal_buf[a] \in IBufs
                   /\ ib_ref_counts[internal_buf[a]] = IF Refers(a) THEN 1 ELSE 0
    BY <2>4, Zenon DEF PoolInv, RefInv, Held
  <2>6. CASE IsRead(f)
    <3>1. RemovePread(a)
      BY <2>2, <2>3, <2>6, Zenon DEF DataPushForward
    <3>2. CASE Held(a) /\ ~Refers(a)
      <4>1. /\ internal_buf' = [internal_buf EXCEPT ![a] = NoBuf]
            /\ pre_alloced_bufs' = pre_alloced_bufs \cup {internal_buf[a]}
            /\ UNCHANGED ib_ref_counts /\ ib_ref_counts[internal_buf[a]] = 0
        BY <2>5, <3>1, <3>2, Zenon DEF RemovePread, FreeInternalBuf, Held
      <4> QED
        BY <2>1, <2>2, <2>3, <2>4, <3>2, <4>1, <1>ReturnPools, Zenon
    <3>3. CASE ~(Held(a) /\ ~Refers(a))
      <4>1. UNCHANGED <<internal_buf, pre_alloced_bufs, ib_ref_counts>>
        BY <2>5, <3>1, <3>3 DEF RemovePread, Held
      <4> QED
        BY <2>1, <2>2, <2>3, <2>4, <2>6, <3>3, <4>1, <1>ReturnPools, Zenon
    <3> QED
      BY <3>2, <3>3, Zenon
  <2>7. CASE ~IsRead(f)
    <3>1. Held(a) => Refers(a) /\ plugin.pwrite = "ref"
      <4> SUFFICES ASSUME Held(a) PROVE Refers(a) /\ plugin.pwrite = "ref"
        BY Zenon
      <4>1. f = 2 * a + 1 /\ a \in Int /\ 2 * a < frontier
        BY <2>2, <2>3, <2>7, Blocks
      <4>2. Refers(a)
        BY <2>4, <4>1, Zenon DEF HoldInv
      <4>3. buf[f] = internal_buf[a] /\ buf[f] \notin {NoBuf, UserBuf(f)}
        BY <2>5, <4>1, <4>2, BufsDiffer, Zenon DEF Refers
      <4> QED
        BY <2>7, <4>2, <4>3, Zenon DEF BuffersInv, PoolsInv, BufInv
    <3>2. CASE Held(a)
      <4>1. PutInternalBuf(a) /\ internal_buf[a] # NoBuf
        BY <2>2, <2>3, <2>7, <3>1, <3>2, Zenon DEF DataPushForward, Held
      <4>2. ib_ref_counts' = [ib_ref_counts EXCEPT ![internal_buf[a]] = @ - 1]
        BY <4>1, Zenon DEF PutInternalBuf
      <4>3. ib_ref_counts'[internal_buf[a]] = 0
        BY <2>4, <2>5, <3>1, <3>2, <4>2
      <4>4. /\ internal_buf' = [internal_buf EXCEPT ![a] = NoBuf]
            /\ pre_alloced_bufs' = pre_alloced_bufs \cup {internal_buf[a]}
        BY <4>1, <4>3, Zenon DEF PutInternalBuf, FreeInternalBuf
      <4>5. /\ \A c \in IBufs : c # internal_buf[a] => ib_ref_counts'[c] = ib_ref_counts[c]
            /\ DOMAIN ib_ref_counts' = IBufs
        BY <2>4, <4>2, Zenon
      <4> QED
        BY <2>1, <2>2, <2>3, <2>7, <3>2, <4>3, <4>4, <4>5, <1>ReturnPools, Zenon
    <3>3. CASE ~Held(a)
      <4>1. UNCHANGED <<internal_buf, pre_alloced_bufs, ib_ref_counts>>
        BY <2>2, <2>3, <2>7, <3>3, Zenon DEF DataPushForward, PutInternalBuf, Held
      <4> QED
        BY <2>1, <2>2, <2>3, <2>4, <3>3, <4>1, <1>ReturnPools, Zenon
    <3> QED
      BY <3>2, <3>3, Zenon
  <2> QED
    BY <2>6, <2>7, Zenon
(* When the graph is reset, every buffer is back in the pool. *)
<1>ResetPools.
  ASSUME BuffersInv, DataReset PROVE PoolsInv'
  <2> USE <1>ResetPools
  <2>1. /\ pc = "drain" /\ pc' = "out" /\ frontier' = 0 /\ stage' = [i \in Pos |-> "none"]
        /\ onthefly = {} /\ onthefly' = onthefly
        /\ buf' = [i \in Pos |-> NoBuf] /\ sqe' = [i \in Pos |-> NoBuf]
        /\ internal_buf' = [e \in Epochs |-> NoBuf]
        /\ pre_alloced_bufs' = pre_alloced_bufs \cup ({internal_buf[e] : e \in Epochs} \ {NoBuf})
        /\ UNCHANGED ib_ref_counts
    BY Zenon DEF DataReset, ResetToStart, Drained, engineVars
  <2>2. PoolInv /\ RefInv /\ DOMAIN ib_ref_counts = IBufs
    BY Zenon DEF BuffersInv, PoolsInv
  <2>3. \A e \in Epochs : internal_buf[e] = NoBuf
    BY <2>1, NothingHeld, Zenon DEF Held
  <2>4. pre_alloced_bufs = IBufs /\ pre_alloced_bufs' = IBufs
    <3>1. pre_alloced_bufs' = pre_alloced_bufs
      BY <2>1, <2>3, Zenon
    <3> QED
      BY <2>2, <2>3, <3>1, BufsDiffer, Zenon DEF PoolInv
  <2>5. PoolInv' /\ HoldInv' /\ RefInv'
    BY <2>1, <2>2, <2>4, BufsDiffer, Zenon DEF PoolInv, HoldInv, RefInv, Held
  <2>6. BufInv' /\ EntryInv' /\ QuietInv' /\ SyncInv'
    BY <2>1, Zenon DEF BufInv, EntryInv, QuietInv, SyncInv, Issued
  <2> QED
    BY <2>1, <2>2, <2>5, <2>6, Zenon DEF PoolsInv
(* The application leaves a graph when nothing is pending. *)
<1>LeavePools.
  ASSUME BuffersInv, DataLeave PROVE PoolsInv'
  <2> USE <1>LeavePools
  <2>1. /\ pc = "app" /\ pc' = "drain" /\ MayLeave
        /\ UNCHANGED <<dataVars, stage, frontier, onthefly>>
    BY Zenon DEF DataLeave, Leave, graphVars
  <2>2. onthefly = {} /\ \A i \in Pos : stage[i] = "none"
    <3>1. CASE frontier = 0
      BY <2>1, <3>1, Zenon DEF BuffersInv, PoolsInv, QuietInv
    <3>2. CASE frontier = PathLen
      <4>1. ASSUME NEW i \in Pos PROVE stage[i] = "none"
        BY <2>1, <3>2, PosInt, PathAssumption, SMTT(30) DEF BuffersInv, IInv, StageWindow
      <4>2. \A i \in Pos : i \notin onthefly
        BY <2>1, <4>1, Zenon DEF BuffersInv, IInv, EngineAgrees
      <4> QED
        BY <4>1, <4>2, Zenon DEF BuffersInv, IInv, TypeOK
    <3> QED
      BY <2>1, <3>1, <3>2, LoopAssumption, Zenon DEF MayLeave
  <2>3. QuietInv'
    BY <2>1, <2>2, Zenon DEF QuietInv
  <2> QED
    BY <2>1, <2>3, <1>SamePools, Zenon DEF dataVars, argVars, InCall
(* Steps of the engine and of the library that move no buffer. *)
<1>OtherPools.
  ASSUME BuffersInv,
         \/ DataEnter \/ DataPeekEnds \/ DataPeekNotReady \/ (SubmitNone /\ UNCHANGED dataVars)
         \/ DataSyscallSync \/ UNCHANGED allVars
         \/ \E i \in Pos : DataCmplAsync(i) \/ DataEngineRun(i)
  PROVE  PoolsInv'
  <2> USE <1>OtherPools
  <2> USE DEF dataVars, argVars
  <2>1. CASE DataEnter
    <3>1. /\ pc = "out" /\ pc' = "app" /\ UNCHANGED <<stage, frontier, onthefly>>
          /\ UNCHANGED <<plugin, buf, internal_buf, pre_alloced_bufs, ib_ref_counts, sqe>>
      BY <2>1, Zenon DEF DataEnter, Enter, graphVars
    <3>2. QuietInv'
      BY <3>1, Zenon DEF BuffersInv, PoolsInv, QuietInv
    <3> QED
      BY <3>1, <3>2, <1>SamePools, Zenon DEF InCall
  <2>2. CASE DataPeekEnds \/ DataPeekNotReady \/ (SubmitNone /\ UNCHANGED dataVars)
    <3>1. /\ pc' \in {"peek", "submit", "self"} /\ UNCHANGED <<stage, frontier>>
          /\ UNCHANGED <<plugin, buf, internal_buf, pre_alloced_bufs, ib_ref_counts, sqe>>
      BY <2>2, Zenon DEF DataPeekEnds, PeekDone, PeekEnd, DataPeekNotReady, PeekNotReady, Peeking,
                  PeekContinue, SubmitNone, graphVars
    <3>2. QuietInv' /\ InCall'
      BY <3>1, Zenon DEF QuietInv, InCall
    <3> QED
      BY <3>1, <3>2, <1>SamePools, Zenon
  <2>3. CASE DataSyscallSync
    <3>1. /\ pc' = "self" /\ UNCHANGED frontier /\ stage[frontier] = "argready"
          /\ stage' = [stage EXCEPT ![frontier] = "finished"]
          /\ UNCHANGED <<plugin, buf, internal_buf, pre_alloced_bufs, ib_ref_counts, sqe>>
      BY <2>3, Zenon DEF DataSyscallSync, SyscallSync
    <3>2. QuietInv' /\ InCall'
      BY <3>1, Zenon DEF QuietInv, InCall
    <3>3. \A i \in Pos : \/ stage'[i] = stage[i]
                         \/ stage[i] \in {"argready", "onthefly"} /\ stage'[i] = "finished"
      BY <3>1, Zenon DEF BuffersInv, IInv, TypeOK
    <3> QED
      BY <3>1, <3>2, <3>3, <1>SamePools, Zenon
  <2>4. ASSUME NEW i \in Pos, DataCmplAsync(i) PROVE PoolsInv'
    <3>1. /\ pc = "self" /\ pc' = "self" /\ UNCHANGED frontier /\ i \in cq
          /\ stage' = [stage EXCEPT ![i] = "finished"]
          /\ UNCHANGED <<plugin, buf, internal_buf, pre_alloced_bufs, ib_ref_counts, sqe>>
      BY <2>4, Zenon DEF DataCmplAsync, CmplAsync
    <3>2. QuietInv' /\ InCall'
      BY <3>1, Zenon DEF QuietInv, InCall
    <3>3. stage[i] = "onthefly"
      BY <3>1, Zenon DEF BuffersInv, IInv, EngineAgrees
    <3>4. \A j \in Pos : \/ stage'[j] = stage[j]
                         \/ stage[j] \in {"argready", "onthefly"} /\ stage'[j] = "finished"
      BY <3>1, <3>3, Zenon DEF BuffersInv, IInv, TypeOK
    <3> QED
      BY <3>1, <3>2, <3>4, <1>SamePools, Zenon
  <2>5. ASSUME NEW i \in Pos, DataEngineRun(i) PROVE PoolsInv'
    <3>1. /\ i \in onthefly /\ UNCHANGED <<pc, stage, frontier, onthefly>>
          /\ UNCHANGED <<plugin, buf, internal_buf, pre_alloced_bufs, ib_ref_counts, sqe>>
      BY <2>5, Zenon DEF DataEngineRun, EngineRun, graphVars
    <3>2. QuietInv' /\ (InCall => InCall')
      BY <3>1, Zenon DEF BuffersInv, PoolsInv, QuietInv, InCall
    <3> QED
      BY <3>1, <3>2, <1>SamePools, Zenon
  <2>6. CASE UNCHANGED allVars
    <3>1. /\ UNCHANGED <<pc, stage, frontier, onthefly>>
          /\ UNCHANGED <<plugin, buf, internal_buf, pre_alloced_bufs, ib_ref_counts, sqe>>
      BY <2>6, Zenon DEF allVars, vars, graphVars, engineVars
    <3>2. QuietInv' /\ (InCall => InCall')
      BY <3>1, Zenon DEF BuffersInv, PoolsInv, QuietInv, InCall
    <3> QED
      BY <3>1, <3>2, <1>SamePools, Zenon
  <2> QED
    BY <2>1, <2>2, <2>3, <2>4, <2>5, <2>6, Zenon
<1> SUFFICES ASSUME BuffersInv, [DataNext]_allVars PROVE BuffersInv'
  BY Zenon
<1>1. IInv'
  BY <1>StepOfAlgorithm, NextInv, Zenon DEF BuffersInv
<1>2. DataSubmit => SubmitAll \/ (SubmitNone /\ UNCHANGED dataVars)
  BY Zenon DEF DataSubmit
<1>3. DataSubmit => PoolsInv'
  BY <1>2, <1>SubmitPools, <1>OtherPools, Zenon
<1>4. PoolsInv'
  <2>1. CASE DataCall \/ DataPeekPrepare \/ DataSubmit \/ DataPushForward \/ DataLeave \/ DataReset
    BY <1>3, <2>1, <1>CallPools, <1>PreparePools, <1>PushPools, <1>LeavePools, <1>ResetPools, Zenon
  <2>2. CASE DataEnter \/ DataPeekEnds \/ DataPeekNotReady \/ DataSyscallSync
    BY <2>2, <1>OtherPools, Zenon
  <2>3. CASE \E i \in Pos : DataCmplAsync(i) \/ DataEngineRun(i)
    BY <2>3, <1>OtherPools, Zenon
  <2>4. CASE UNCHANGED allVars
    BY <2>4, <1>OtherPools, Zenon
  <2> QED
    BY <2>1, <2>2, <2>3, <2>4, Zenon DEF DataNext
<1> QED
  BY <1>1, <1>4, Zenon DEF BuffersInv

(* BuffersInv is an invariant of the loops of reads and writes, whatever   *)
(* the plugin and the order in which the engine works.                     *)
THEOREM PoolsCorrect == DataSpec => []BuffersInv
<1>1. DataInit => BuffersInv
  BY InitInv, InitPools, Zenon DEF DataInit, BuffersInv
<1> QED
  BY <1>1, NextPools, PTL DEF DataSpec

(* Whatever a request has in its arguments or its entry is not free. *)
LEMMA PoolsExclusive == BuffersInv => BuffersExclusive
<1> SUFFICES ASSUME BuffersInv PROVE BuffersExclusive
  BY Zenon
<1>1. PoolInv /\ BufInv /\ EntryInv
  BY Zenon DEF BuffersInv, PoolsInv
<1>2. ASSUME NEW i \in Pos PROVE buf[i] \notin pre_alloced_bufs
  BY <1>1, Blocks, BufsDiffer DEF PoolInv, BufInv
<1>3. ASSUME NEW i \in Pos PROVE sqe[i] \notin pre_alloced_bufs
  <2>1. CASE sqe[i] = NoBuf
    BY <1>1, <2>1, BufsDiffer, Zenon DEF PoolInv
  <2>2. CASE sqe[i] # NoBuf /\ IsRead(i)
    BY <1>1, <2>2, Blocks, BufsDiffer, Zenon DEF PoolInv, EntryInv
  <2>3. CASE sqe[i] # NoBuf /\ ~IsRead(i)
    BY <1>1, <1>2, <2>3, Zenon DEF EntryInv
  <2> QED
    BY <2>1, <2>2, <2>3, Zenon
<1>4. onthefly \subseteq Pos
  BY Zenon DEF BuffersInv, IInv, TypeOK
<1>5. InUse \cap pre_alloced_bufs = {}
  BY <1>2, <1>3, <1>4, Zenon DEF InUse
<1> QED
  BY <1>1, <1>5, Zenon DEF BuffersExclusive, PoolInv

(* The blocks that have a buffer are the one of the frontier and some of   *)
(* those up to the peek: less than there are buffers.                      *)
LEMMA PoolsAvailable == BuffersInv => BufferAvailable
<1> SUFFICES ASSUME BuffersInv, Peeking, peekhead \in Pos, IsRead(peekhead),
                    pre_alloced_bufs = {}
             PROVE  FALSE
  BY Zenon DEF BufferAvailable
<1> DEFINE H == {e \in Epochs : Held(e)}
<1>1. PoolInv /\ HoldInv /\ BufInv
  BY Zenon DEF BuffersInv, PoolsInv
<1>2. /\ pc = "peek" /\ frontier \in Pos /\ \A i \in Pos : i >= peekhead => stage[i] = "none"
      /\ peekhead_distance < Depth
  BY PeekAhead, Zenon DEF BuffersInv, Peeking
<1>3. PICK f \in Pos : f = frontier
  BY <1>2, Zenon
<1>4. PICK a \in Epochs : peekhead = 2 * a /\ a \in Int
  BY Blocks, Zenon
<1>5. PICK c \in Epochs : c = Epoch(f) /\ c \in Int /\ (f = 2 * c \/ f = 2 * c + 1)
  BY Blocks, Zenon
<1>6. PICK d \in Int : d = Depth - 1 /\ d >= 0 /\ 2 * a <= f + d + 1
  <2>1. Depth \in Int /\ peekhead = frontier + 1 + peekhead_distance /\ peekhead_distance \in Int
        /\ Depth > 0 /\ f \in Int
    BY <1>2, PathAssumption, PosInt, SMTT(30) DEF BuffersInv, IInv, TypeOK, DistancesTrue, PeekWindow
  <2>2. Depth - 1 \in Int /\ Depth - 1 >= 0 /\ 2 * a <= f + (Depth - 1) + 1
    BY <1>2, <1>3, <1>4, <2>1
  <2> QED
    BY <2>2, Zenon
<1>7. ASSUME NEW e \in Epochs, Held(e) PROVE e \in c .. (c + d)
  <2>1. e \in Int /\ 2 * e \in Pos /\ e >= 0 /\ f \in Int /\ f >= 0
    BY Blocks, PosInt, Zenon
  <2>2. 2 * e + 1 >= f /\ e < a
    <3>1. CASE 2 * e >= frontier
      <4>1. stage[2 * e] # "none"
        BY <1>1, <1>7, <3>1, Zenon DEF HoldInv, Issued
      <4>2. ~(2 * e >= peekhead)
        BY <1>2, <2>1, <4>1, Zenon
      <4> QED
        BY <1>3, <1>4, <2>1, <3>1, <4>2, SMTT(30)
    <3>2. CASE 2 * e < frontier
      <4>1. 2 * e + 1 \in Pos /\ buf[2 * e + 1] # NoBuf
        BY <1>1, <1>7, <3>2, Zenon DEF HoldInv, Refers, Held
      <4>2. stage[2 * e + 1] # "none"
        BY <1>1, <4>1, Zenon DEF BufInv
      <4>3. 2 * e + 1 >= frontier /\ ~(2 * e + 1 >= peekhead)
        BY <1>2, <4>1, <4>2, Zenon DEF BuffersInv, IInv, StageWindow
      <4> QED
        BY <1>3, <1>4, <2>1, <4>3
    <3> QED
      BY <1>3, <2>1, <3>1, <3>2, SMTT(30)
  <2> QED
    BY <1>4, <1>5, <1>6, <2>1, <2>2
<1>8. IsFiniteSet(H) /\ Cardinality(H) <= d + 1
  <2>1. IsFiniteSet(c .. (c + d)) /\ Cardinality(c .. (c + d)) = d + 1
    BY <1>5, <1>6, IntervalSize, Zenon
  <2>2. H \in SUBSET (c .. (c + d))
    BY <1>7, Zenon
  <2> QED
    BY <2>1, <2>2, FS_Subset, Zenon
<1>9. [e \in H |-> internal_buf[e]] \in Surjection(H, IBufs)
  <2>1. \A e \in H : internal_buf[e] \in IBufs
    BY <1>1, Zenon DEF PoolInv, Held
  <2>2. \A b \in IBufs : \E e \in H : internal_buf[e] = b
    BY <1>1, BufsDiffer, Zenon DEF PoolInv, Held
  <2> QED
    BY <2>1, <2>2, Zenon DEF Surjection
<1>10. Cardinality(IBufs) <= Cardinality(H)
  BY <1>8, <1>9, FS_Surjection, Zenon
<1>11. Cardinality(H) \in Nat
  BY <1>8, FS_CardinalityType, Zenon
<1> QED
  BY <1>6, <1>8, <1>10, <1>11, BufferAssumption, PathAssumption, SMTT(30)

(* Under the invariant, every buffer is back in its pool when the session  *)
(* is over.                                                                *)
LEMMA PoolsReturned == BuffersInv => BuffersReturned
<1> SUFFICES ASSUME BuffersInv, pc = "out"
             PROVE  pre_alloced_bufs = IBufs /\ \A b \in IBufs : ib_ref_counts[b] = 0
  BY Zenon DEF BuffersReturned
<1>1. PoolInv /\ RefInv
  BY Zenon DEF BuffersInv, PoolsInv
<1>2. \A e \in Epochs : internal_buf[e] = NoBuf
  BY NothingHeld, Zenon DEF Held
<1>3. pre_alloced_bufs = IBufs
  BY <1>1, <1>2, BufsDiffer, Zenon DEF PoolInv
<1> QED
  BY <1>1, <1>3, Zenon DEF RefInv

(* GenerateArgs cannot give a buffer to two blocks, nor one that a request *)
(* still uses, for every plugin, depth, file and order in which the engine *)
(* works (RemoveOneEpoch and the reference counts).                        *)
THEOREM BuffersSafe == DataSpec => []BuffersExclusive
BY PoolsCorrect, PoolsExclusive, PTL

(* Depth + 1 internal buffers are enough: the assertion of GenerateArgs    *)
(* that one is free holds for every depth.                                 *)
THEOREM BuffersSuffice == DataSpec => []BufferAvailable
BY PoolsCorrect, PoolsAvailable, PTL

(* A session whose loop runs to its end (no edge of it is weak, so it is   *)
(* not left in between) gives back all the buffers and all the references  *)
(* that it took: RemoveOneEpoch and PutInternalBuf balance GenerateArgs    *)
(* and RefInternalBuf, in every order of the requests.  Nothing is said of *)
(* a loop that is left early: ResetValuePools does not reset the counts.   *)
THEOREM BuffersCorrect == ASSUME Weak = {} PROVE DataSpec => []BuffersReturned
BY PoolsCorrect, PoolsReturned, PTL

-----------------------------------------------------------------------------
(***************************************************************************)
(* The requests of the copying loops.                                      *)
(***************************************************************************)

(* The plugins whose loops are claimed to be right: streaming and crossing,*)
(* whose writes wait for their reads, and linking and cp, whose writes are *)
(* linked to them.                                                         *)
PlainPlugin(p) ==
  /\ Link = {}
  /\ p.pwrite # "ref" /\ ~p.skip_memcpy /\ (p.buf_ready => ~p.single_buf)

LinkedPlugin(p) ==
  /\ Depth >= 2
  /\ \A i \in Pos : ~IsRead(i) => i - 1 \in Link
  /\ \A i \in Link : IsRead(i) /\ Offset(i) + BufSize <= Size
  /\ p.pwrite = "ref" /\ p.compute = "none" /\ ~p.in_place /\ ~p.buf_ready

(* With links the peek runs ahead of the frontier as far as it may, the    *)
(* requests prepared are consecutive, and few while they wait.             *)
Few == prepared # << >> => DanglingLink \/ Len(prepared) < Depth \div 2

LinkBatch ==
  /\ prepared # << >> => peekhead = prepared[1] + Len(prepared)
  /\ InSession /\ frontier = 0 => /\ prepared # << >> => prepared[1] >= 2
                                  /\ pc \in {"peek", "submit"} => stage[0] = "argready"
  /\ pc \in {"peek", "submit"} /\ frontier > 0 =>
       \/ peekhead = PathLen
       \/ peekhead_distance = Depth - 1 /\ pc = "peek" /\ Few
       \/ peekhead_distance = Depth /\ (DanglingLink => Len(prepared) <= Depth \div 2)
  /\ pc \in {"submit", "self"} => peekhead = PathLen \/ peekhead_distance = Depth
  /\ pc = "self" => Few
  /\ pc = "app" /\ frontier > 0 => Few /\ (peekhead = PathLen \/ peekhead_distance = Depth - 1)

(* A request is submitted before its own call. *)
Ahead ==
  /\ pc = "self" /\ prepared # << >> => prepared[1] >= frontier + 2
  /\ pc = "app" /\ prepared # << >> => prepared[1] >= frontier + 1

BatchInv == Ahead /\ (LinkedPlugin(plugin) => LinkBatch)

(* Pre-issued reads go to internal buffers unless the destination is the   *)
(* block's own.                                                            *)
PlaceInv ==
  /\ \A i \in Pos : IsRead(i) /\ stage[i] = "prepared" /\ Held(Epoch(i)) => buf[i] = NoBuf
  /\ \A i \in Pos : IsRead(i) /\ stage[i] \in {"onthefly", "finished"} /\ Held(Epoch(i))
       => sqe[i] = internal_buf[Epoch(i)]
  /\ \A i \in Pos : IsRead(i) /\ stage[i] # "none" /\ ~Held(Epoch(i))
       => plugin.buf_ready \/ (InCall /\ i = frontier)
  /\ InCall /\ IsRead(frontier) => buf[frontier] = UserBuf(frontier)

(* Writes are made by their own calls, or linked. *)
OwnWrites ==
  \A i \in Pos : ~IsRead(i) /\ stage[i] # "none" =>
    InCall /\ i = frontier /\ stage[i] \in {"argready", "finished"}

LinkedWrites ==
  /\ \A i \in Pos : ~IsRead(i) /\ stage[i] \in {"prepared", "onthefly"} =>
       Held(Epoch(i)) /\ buf[i] = internal_buf[Epoch(i)]
  /\ \A i \in Pos : ~IsRead(i) /\ stage[i] = "onthefly" => stage[i - 1] # "prepared"
  /\ \A i \in Pos : ~IsRead(i) /\ Held(Epoch(i)) /\ buf[i] # internal_buf[Epoch(i)] =>
       /\ stage[i - 1] \notin {"onthefly", "finished"}
       /\ stage[i - 1] = "prepared" => peekhead = i

WriteInv ==
  /\ PlainPlugin(plugin) => OwnWrites
  /\ LinkedPlugin(plugin) => LinkedWrites

(* Which requests are there, and which buffers they read and write. *)
RequestInv ==
  /\ PlainPlugin(plugin) \/ LinkedPlugin(plugin)
  /\ BatchInv /\ PlaceInv /\ WriteInv

-----------------------------------------------------------------------------
(* What every step leaves alone. *)

(* The plugin, and with it the kind of loop, never changes. *)
LEMMA SamePlugin ==
  ASSUME [DataNext]_allVars
  PROVE  /\ plugin' = plugin
         /\ PlainPlugin(plugin') <=> PlainPlugin(plugin)
         /\ LinkedPlugin(plugin') <=> LinkedPlugin(plugin)
         /\ \A i \in Pos : UserBuf(i)' = UserBuf(i)
         /\ Output' = Output
<1>1. plugin' = plugin
  BY Zenon DEF DataNext, DataEnter, DataCall, DataPeekEnds, DataPeekNotReady, DataPeekPrepare,
         DataSubmit, DataSyscallSync, DataPushForward, DataLeave, DataReset,
         DataCmplAsync, DataEngineRun, allVars, dataVars
<1> QED
  BY <1>1, Zenon DEF UserBuf, Output

(* What the loop computes depends on the plugin only. *)
LEMMA SameComputed == ASSUME plugin' = plugin PROVE \A v : Computed(v)' = Computed(v)
BY Zenon DEF Computed

(* The kinds of plugins exclude each other. *)
LEMMA Kinds ==
  ASSUME PlainPlugin(plugin) \/ LinkedPlugin(plugin)
  PROVE  /\ PlainPlugin(plugin) <=> ~LinkedPlugin(plugin)
         /\ plugin.buf_ready => ~plugin.single_buf
         /\ plugin.in_place => PlainPlugin(plugin)
         /\ plugin.skip_memcpy => LinkedPlugin(plugin)
BY Zenon DEF PlainPlugin, LinkedPlugin

(* What is prepared has that stage, so nothing is before the first call.   *)
LEMMA FirstPrepared ==
  ASSUME IInv, pc # "drain", prepared # << >>
  PROVE  /\ prepared[1] \in Pos /\ prepared[1] \in Int /\ stage[prepared[1]] = "prepared"
         /\ Len(prepared) \in Nat /\ Len(prepared) > 0
         /\ prepared[Len(prepared)] \in Pos /\ stage[prepared[Len(prepared)]] = "prepared"
<1>1. prepared \in Seq(Pos) /\ Len(prepared) \in Nat /\ Len(prepared) > 0
      /\ 1 \in 1 .. Len(prepared) /\ Len(prepared) \in 1 .. Len(prepared)
  BY PreparedInts DEF IInv, TypeOK
<1>2. prepared[1] \in Pos /\ prepared[Len(prepared)] \in Pos
  BY <1>1
<1>3. InPrepared(prepared[1]) /\ InPrepared(prepared[Len(prepared)])
  BY <1>1, Zenon DEF InPrepared
<1> QED
  BY <1>1, <1>2, <1>3, PosInt, Zenon DEF IInv, EngineAgrees

(* Every step keeps the batch. *)
LEMMA NextBatch == ASSUME BuffersInv, RequestInv, BuffersInv', [DataNext]_allVars PROVE BatchInv'
(* Without links the submission policy alone sees to that. *)
<1>PlainBatch.
  ASSUME IInv', PlainPlugin(plugin') PROVE BatchInv'
  <2> USE <1>PlainBatch
  <2>1. ~LinkedPlugin(plugin') /\ Link = {}
    BY Zenon DEF PlainPlugin, LinkedPlugin
  <2>2. prepared_distance' \in Int /\ frontier' \in Int
    BY PathAssumption DEF IInv, TypeOK
  <2>3. prepared' # << >> /\ pc' # "drain" => prepared'[1] = frontier' + 1 + prepared_distance'
    BY Zenon DEF IInv, DistancesTrue
  <2>4. pc' = "self" /\ prepared' # << >> => prepared_distance' >= 1
    BY <2>1, <2>2, SMTT(30) DEF IInv, LinkPending
  <2>5. pc' = "app" /\ prepared' # << >> => prepared_distance' >= 0
    BY <2>1, <2>2, SMTT(30) DEF IInv, LinkPending
  <2>6. /\ pc' = "self" /\ prepared' # << >> => prepared'[1] >= frontier' + 2
        /\ pc' = "app" /\ prepared' # << >> => prepared'[1] >= frontier' + 1
    BY <2>2, <2>3, <2>4, <2>5, SMTT(30)
  <2> QED
    BY <2>1, <2>6, Zenon DEF BatchInv, Ahead
(* Nothing is prepared before the first call. *)
<1>NoneAtFirst.
  ASSUME BuffersInv, pc = "app", frontier = 0
  PROVE  prepared = << >> /\ 0 \in Pos /\ stage[0] = "none"
  <2> USE <1>NoneAtFirst
  <2>1. \A i \in Pos : stage[i] = "none"
    BY Zenon DEF BuffersInv, PoolsInv, QuietInv
  <2>2. prepared = << >>
    BY <2>1, FirstPrepared, Zenon DEF BuffersInv
  <2>3. 0 \in Pos
    BY PathAssumption DEF Pos
  <2> QED
    BY <2>1, <2>2, <2>3, Zenon
(* A call begins with no more requests waiting than the invariant allows. *)
<1>CallBatch.
  ASSUME BuffersInv, LinkedPlugin(plugin), BatchInv, DataCall
  PROVE  LinkBatch' /\ Ahead'
  <2> USE <1>CallBatch
  <2> USE DEF LinkedPlugin
  <2>1. /\ pc = "app" /\ frontier < PathLen /\ CheckArgs /\ UNCHANGED <<frontier, engineVars>>
        /\ pc' \in {"peek", "submit"}
    BY Zenon DEF DataCall, CallNoPeek, CallPeek
  <2>2. /\ peekhead = frontier + 1 + peekhead_distance /\ peekhead_distance \in Int
        /\ frontier \in Int /\ frontier >= 0 /\ peekhead \in Int /\ PathLen \in Int /\ Depth \in Int
    BY <2>1, Ints, Zenon DEF BuffersInv, IInv, DistancesTrue
  <2>3. LinkBatch
    BY Zenon DEF BatchInv
  <2>4. frontier > 0 => Few /\ (peekhead = PathLen \/ peekhead_distance = Depth - 1)
    BY <2>1, <2>3, Zenon DEF LinkBatch
  <2>5. prepared' = prepared /\ (Few' <=> Few) /\ (DanglingLink' <=> DanglingLink)
    BY <2>1, Zenon DEF engineVars, Few, DanglingLink
  <2>6. frontier = 0 => prepared = << >> /\ stage'[0] = "argready"
    BY <2>1, <1>NoneAtFirst, Zenon DEF CheckArgs, BuffersInv, IInv, TypeOK
  <2>7. frontier > 0 => UNCHANGED <<peekhead, peekhead_distance>>
    BY <2>1, <2>2, <2>4 DEF DataCall, CallNoPeek, CallPeek, CatchUp
  <2>8. pc' = "submit" => peekhead' = PathLen
    <3>1. pc' = "submit" => peekhead_hit_end /\ UNCHANGED peekhead
      BY <2>2 DEF DataCall, CallNoPeek, CallPeek
    <3> QED
      BY <3>1, Zenon DEF BuffersInv, IInv, PeekWindow
  <2>9. LinkBatch'
    <3>1. prepared' # << >> => peekhead' = prepared'[1] + Len(prepared')
      BY <2>2, <2>3, <2>5, <2>6, <2>7, SMTT(30) DEF LinkBatch
    <3>2. frontier' > 0 =>
            \/ peekhead' = PathLen
            \/ peekhead_distance' = Depth - 1 /\ pc' = "peek" /\ Few'
      BY <2>1, <2>4, <2>5, <2>7, <2>8, Zenon
    <3> QED
      BY <2>1, <2>5, <2>6, <2>8, <3>1, <3>2, Zenon DEF LinkBatch
  <2> QED
    BY <2>1, <2>9, Zenon DEF Ahead
(* The peek stops at its depth, or where the path ends. *)
<1>PeekEndsBatch.
  ASSUME BuffersInv, LinkedPlugin(plugin), BatchInv, DataPeekEnds
  PROVE  LinkBatch' /\ Ahead'
  <2> USE <1>PeekEndsBatch
  <2>1. /\ pc = "peek" /\ pc' = "submit" /\ UNCHANGED <<frontier, peekhead, peekhead_distance, stage, prepared>>
        /\ peekhead_distance >= Depth \/ peekhead = PathLen
    BY Zenon DEF DataPeekEnds, PeekDone, PeekEnd, Peeking, AtNull, graphVars, engineVars
  <2>2. peekhead_distance <= Depth /\ peekhead_distance \in Int /\ Depth \in Int
    BY Ints, Zenon DEF BuffersInv, IInv, PeekWindow
  <2>3. peekhead_distance = Depth \/ peekhead = PathLen
    BY <2>1, <2>2
  <2>4. (DanglingLink' <=> DanglingLink) /\ (Few' <=> Few) /\ (InSession' <=> InSession)
    BY <2>1, Zenon DEF DanglingLink, Few, InSession
  <2>5. LinkBatch
    BY Zenon DEF BatchInv
  <2>6. LinkBatch'
    BY <2>1, <2>2, <2>3, <2>4, <2>5 DEF LinkBatch
  <2> QED
    BY <2>1, <2>6, Zenon DEF Ahead
(* With links the peek is stopped by arguments that are not ready before   *)
(* the first call only.                                                    *)
<1>NotReadyBatch.
  ASSUME BuffersInv, LinkedPlugin(plugin), BatchInv, DataPeekNotReady
  PROVE  LinkBatch' /\ Ahead'
  <2> USE <1>NotReadyBatch
  <2> USE DEF LinkedPlugin
  <2>1. /\ pc = "peek" /\ pc' = "peek" /\ peekhead \in Pos /\ ~Ready(peekhead)
        /\ ~(peekhead - 1 \in Link /\ stage[peekhead - 1] = "prepared")
        /\ peekhead' = peekhead + 1 /\ peekhead_distance' = peekhead_distance + 1
        /\ UNCHANGED <<frontier, stage, prepared>> /\ peekhead_distance < Depth
    BY Zenon DEF DataPeekNotReady, PeekNotReady, PeekContinue, Peeking
  <2>2. LinkBatch
    BY Zenon DEF BatchInv
  <2>3. peekhead - 1 \in Link /\ stage[peekhead - 1] # "prepared"
    BY <2>1, Zenon DEF Ready
  <2>4. prepared = << >>
    <3> SUFFICES ASSUME prepared # << >> PROVE FALSE
      BY Zenon
    <3>1. peekhead = prepared[1] + Len(prepared) /\ prepared[1] \in Int /\ Len(prepared) \in Nat
          /\ Len(prepared) > 0
      BY <2>1, <2>2, FirstPrepared, Zenon DEF LinkBatch, BuffersInv
    <3>2. Len(prepared) \in 1 .. Len(prepared)
      BY <3>1
    <3>3. prepared[Len(prepared)] \in Int /\ prepared[Len(prepared)] < peekhead
          /\ prepared[Len(prepared)] >= prepared[1] + Len(prepared) - 1
      BY <3>2, PreparedBelow, Zenon DEF BuffersInv, IInv, PreparedOrder
    <3>4. prepared[Len(prepared)] = peekhead - 1
      BY <3>1, <3>3, SMTT(30)
    <3> QED
      BY <2>1, <2>3, <3>4, FirstPrepared, Zenon DEF BuffersInv
  <2>5. ~DanglingLink'
    BY <2>1, <2>4, Zenon DEF DanglingLink
  <2>6. frontier > 0 => peekhead_distance' = Depth
    <3>1. peekhead # PathLen /\ peekhead_distance \in Int /\ Depth \in Int
      BY <2>1, PosInt, Ints DEF BuffersInv, IInv
    <3> QED
      BY <2>1, <2>2, <3>1, SMTT(30) DEF LinkBatch
  <2>7. InSession
    BY <2>1, Zenon DEF InSession
  <2>8. LinkBatch'
    BY <2>1, <2>2, <2>4, <2>5, <2>6, <2>7, Zenon DEF LinkBatch
  <2> QED
    BY <2>1, <2>8, Zenon DEF Ahead
(* Preparing a request extends the batch by the one after its last. *)
<1>PrepareBatch.
  ASSUME BuffersInv, LinkedPlugin(plugin), BatchInv, DataPeekPrepare
  PROVE  LinkBatch' /\ Ahead'
  <2> USE <1>PrepareBatch
  <2>1. /\ pc = "peek" /\ pc' = "peek" /\ peekhead \in Pos /\ Peeking
        /\ GeneratePread \/ GeneratePwrite
        /\ stage' = [stage EXCEPT ![peekhead] = "prepared"] /\ prepared' = Append(prepared, peekhead)
        /\ peekhead' = peekhead + 1 /\ peekhead_distance' = peekhead_distance + 1
        /\ UNCHANGED frontier /\ peekhead_distance < Depth
    BY Zenon DEF DataPeekPrepare, PeekPrepare, PeekContinue, Peeking
  <2>2. LinkBatch
    BY Zenon DEF BatchInv
  <2>3. /\ prepared \in Seq(Pos) /\ stage \in [Pos -> Stages] /\ peekhead \in Int
        /\ peekhead_distance \in Int /\ Depth \in Int /\ frontier \in Int
        /\ peekhead > frontier /\ frontier >= 0
    BY <2>1, PeekAhead, Ints, Zenon DEF BuffersInv, IInv, TypeOK
  <2>4. /\ Len(prepared') = Len(prepared) + 1 /\ Len(prepared) \in Nat /\ prepared' # << >>
        /\ prepared'[Len(prepared')] = peekhead
        /\ prepared = << >> => Len(prepared) = 0 /\ prepared'[1] = peekhead
        /\ prepared # << >> => Len(prepared) > 0 /\ prepared'[1] = prepared[1] /\ prepared[1] \in Int
    <3>1. Len(prepared') = Len(prepared) + 1 /\ Len(prepared) \in Nat /\ prepared' # << >>
      BY <2>1, <2>3
    <3>2. prepared'[Len(prepared')] = peekhead
      BY <2>1, <2>3
    <3>3. prepared = << >> => Len(prepared) = 0 /\ prepared'[1] = peekhead
      BY <2>1, <2>3
    <3>4. prepared # << >> => Len(prepared) > 0 /\ prepared'[1] = prepared[1]
      BY <2>1, <2>3
    <3>5. prepared # << >> => prepared[1] \in Int
      BY <2>1, FirstPrepared, Zenon DEF BuffersInv
    <3> QED
      BY <3>1, <3>2, <3>3, <3>4, <3>5, Zenon
  <2>5. peekhead' = prepared'[1] + Len(prepared')
    <3>1. prepared # << >> => peekhead = prepared[1] + Len(prepared)
      BY <2>2, Zenon DEF LinkBatch
    <3> QED
      BY <2>1, <2>3, <2>4, <3>1, SMTT(30)
  <2>6. frontier = 0 => prepared'[1] >= 2 /\ stage'[0] = "argready"
    <3> SUFFICES ASSUME frontier = 0 PROVE prepared'[1] >= 2 /\ stage'[0] = "argready"
      BY Zenon
    <3>1. stage[0] = "argready" /\ (prepared # << >> => prepared[1] >= 2)
      BY <2>1, <2>2, Zenon DEF LinkBatch, InSession
    <3>2. 0 \in Pos /\ peekhead # 0
      BY <2>3, PathAssumption DEF Pos
    <3>3. peekhead # 1
      <4> SUFFICES ASSUME peekhead = 1 PROVE FALSE
        BY Zenon
      <4>1. ~IsRead(1) /\ Epoch(1) = 0 /\ Epoch(0) = 0 /\ 2 * 0 = 0
        BY DEF IsRead, Epoch
      <4>2. Ready(peekhead)
        BY <2>1, <4>1, Zenon DEF GeneratePread, GeneratePwrite
      <4>3. internal_buf[0] # NoBuf
        BY <2>1, <4>1, <4>2, Zenon DEF Ready, LinkedPlugin
      <4>4. 0 \in Epochs /\ Held(0)
        BY <3>2, <4>1, <4>3, Blocks, Zenon DEF Held
      <4>5. stage[0] \in Issued
        BY <4>1, <4>4 DEF BuffersInv, PoolsInv, HoldInv
      <4> QED
        BY <3>1, <4>5, Zenon DEF Issued
    <3>4. peekhead >= 2
      BY <2>3, <3>2, <3>3, SMTT(30)
    <3> QED
      BY <2>1, <2>3, <2>4, <3>1, <3>2, <3>4, Zenon
  <2>7. frontier > 0 =>
          peekhead_distance' = Depth /\ (DanglingLink' => Len(prepared') <= Depth \div 2)
    <3> SUFFICES ASSUME frontier > 0
                 PROVE  peekhead_distance' = Depth /\ (DanglingLink' => Len(prepared') <= Depth \div 2)
      BY Zenon
    <3>1. peekhead # PathLen
      BY <2>1, PosInt
    <3>2. peekhead_distance = Depth - 1 /\ Few
      BY <2>1, <2>2, <2>3, <3>1, SMTT(30) DEF LinkBatch
    <3>3. DanglingLink' => ~DanglingLink
      <4> SUFFICES ASSUME DanglingLink', DanglingLink PROVE FALSE
        BY Zenon
      <4>1. peekhead \in Link
        BY <2>4, Zenon DEF DanglingLink
      <4>2. peekhead - 1 \in Link
        BY DanglingLast, Zenon DEF BuffersInv
      <4>3. (peekhead - 1) + 1 \notin Link
        BY <4>2, LinkAssumption, Zenon
      <4> QED
        BY <2>3, <4>1, <4>3
    <3>4. DanglingLink' => Len(prepared) < Depth \div 2
      <4>1. 0 < Depth \div 2
        BY <2>3 DEF LinkedPlugin
      <4> QED
        BY <2>3, <2>4, <3>2, <3>3, <4>1, Zenon DEF Few
    <3> QED
      BY <2>1, <2>3, <2>4, <3>2, <3>4, SMTT(30)
  <2>8. LinkBatch'
    BY <2>1, <2>5, <2>6, <2>7, Zenon DEF LinkBatch
  <2> QED
    BY <2>1, <2>8, Zenon DEF Ahead
(* A batch is submitted whole, or is short enough to wait. *)
<1>SubmitBatch.
  ASSUME BuffersInv, LinkedPlugin(plugin), BatchInv, DataSubmit
  PROVE  LinkBatch' /\ Ahead'
  <2> USE <1>SubmitBatch
  <2> USE DEF LinkedPlugin
  <2>1. /\ pc = "submit" /\ pc' = "self" /\ UNCHANGED <<frontier, peekhead, peekhead_distance>>
        /\ prepared' = << >> \/ (~ShouldSubmit /\ prepared' = prepared)
    BY Zenon DEF DataSubmit, SubmitAll, SubmitNone, graphVars, engineVars
  <2>2. LinkBatch
    BY Zenon DEF BatchInv
  <2>3. /\ frontier \in Int /\ frontier >= 0 /\ Depth \in Int /\ Len(prepared) \in Nat
        /\ peekhead = frontier + 1 + peekhead_distance /\ peekhead_distance \in Int
        /\ prepared_distance \in Int /\ num_prepared = Len(prepared)
        /\ prepared # << >> => prepared[1] = frontier + 1 + prepared_distance
    BY <2>1, Ints, PreparedInts, Zenon DEF BuffersInv, IInv, DistancesTrue, EngineAgrees
  <2>4. ASSUME prepared' # << >>
        PROVE  /\ prepared' = prepared /\ prepared'[1] >= frontier' + 2 /\ Few'
               /\ DanglingLink' <=> DanglingLink
    <3>1. prepared' = prepared /\ ~ShouldSubmit /\ Len(prepared) > 0
      BY <2>1, <2>4, FirstPrepared, Zenon DEF BuffersInv
    <3>2. DanglingLink' <=> DanglingLink
      BY <3>1, Zenon DEF DanglingLink
    <3>3. CASE ~DanglingLink
      <4>1. num_prepared < Depth \div 2 /\ prepared_distance > 0
        BY <2>3, <3>1, <3>3, SMTT(30) DEF ShouldSubmit
      <4>2. Few'
        BY <2>3, <3>1, <4>1, Zenon DEF Few
      <4> QED
        BY <2>1, <2>3, <2>4, <3>1, <3>2, <4>1, <4>2, SMTT(30)
    <3>4. CASE DanglingLink
      <4>1. Few'
        BY <3>2, <3>4, Zenon DEF Few
      <4>2. peekhead # PathLen
        <5>1. peekhead - 1 \in Link
          BY <3>4, DanglingLast, Zenon DEF BuffersInv
        <5>2. (peekhead - 1) + 1 \in Pos
          BY <5>1, LinkAssumption, Zenon
        <5> QED
          BY <2>3, <5>2, PosInt
      <4>3. frontier = 0 => prepared[1] >= frontier + 2
        BY <2>1, <2>2, <2>4, <3>1, SMTT(30) DEF LinkBatch, InSession
      <4>4. frontier > 0 => prepared[1] >= frontier + 2
        <5>1. frontier > 0 => peekhead_distance = Depth /\ Len(prepared) <= Depth \div 2
          BY <2>1, <2>2, <3>4, <4>2, Zenon DEF LinkBatch
        <5>2. peekhead = prepared[1] + Len(prepared)
          BY <2>2, <2>4, <3>1, Zenon DEF LinkBatch
        <5>3. Depth \div 2 \in Int /\ Depth \div 2 <= Depth - 1
          BY <2>3
        <5> QED
          BY <2>3, <2>4, <3>1, <5>1, <5>2, <5>3, SMTT(30)
      <4> QED
        BY <2>1, <2>3, <3>1, <3>2, <4>1, <4>3, <4>4, SMTT(30)
    <3> QED
      BY <3>3, <3>4, Zenon
  <2>5. Ahead'
    BY <2>1, <2>4, Zenon DEF Ahead
  <2>6. Few'
    BY <2>4, Zenon DEF Few
  <2>7. prepared' # << >> => peekhead' = prepared'[1] + Len(prepared')
    BY <2>1, <2>2, <2>4, Zenon DEF LinkBatch
  <2>8. frontier' = 0 => (prepared' # << >> => prepared'[1] >= 2)
    BY <2>1, <2>3, <2>4
  <2>9. LinkBatch'
    BY <2>1, <2>2, <2>6, <2>7, <2>8, Zenon DEF LinkBatch
  <2> QED
    BY <2>5, <2>9, Zenon
(* After a return the batch that waits is still ahead of the frontier. *)
<1>PushBatch.
  ASSUME BuffersInv, LinkedPlugin(plugin), BatchInv, DataPushForward
  PROVE  LinkBatch' /\ Ahead'
  <2> USE <1>PushBatch
  <2>1. /\ pc = "self" /\ pc' = "app" /\ UNCHANGED <<peekhead, prepared>>
        /\ frontier' = frontier + 1 /\ peekhead_distance' = peekhead_distance - 1
    BY Zenon DEF DataPushForward, PushForward, engineVars
  <2>2. LinkBatch /\ Ahead
    BY Zenon DEF BatchInv
  <2>3. /\ frontier \in Int /\ frontier >= 0 /\ Depth \in Int /\ peekhead_distance \in Int
        /\ prepared # << >> => prepared[1] \in Int
    BY <2>1, Ints, FirstPrepared, Zenon DEF BuffersInv, IInv
  <2>4. Few' <=> Few
    BY <2>1, Zenon DEF Few, DanglingLink
  <2>5. peekhead' = PathLen \/ peekhead_distance' = Depth - 1
    BY <2>1, <2>2, <2>3, Zenon DEF LinkBatch
  <2>6. LinkBatch'
    BY <2>1, <2>2, <2>3, <2>4, <2>5, SMTT(30) DEF LinkBatch
  <2>7. prepared' # << >> => prepared'[1] >= frontier' + 1
    BY <2>1, <2>2, <2>3 DEF Ahead
  <2> QED
    BY <2>1, <2>6, <2>7, Zenon DEF Ahead
(* The other steps touch neither the peek nor what is prepared, or end the *)
(* session.                                                                *)
<1>OtherBatch.
  ASSUME BuffersInv, LinkedPlugin(plugin), BatchInv,
         \/ DataEnter \/ DataSyscallSync \/ DataLeave \/ DataReset \/ UNCHANGED allVars
         \/ \E i \in Pos : DataCmplAsync(i) \/ DataEngineRun(i)
  PROVE  LinkBatch' /\ Ahead'
  <2> USE <1>OtherBatch
  <2>1. LinkBatch /\ Ahead
    BY Zenon DEF BatchInv
  <2>2. CASE DataEnter
    <3>1. pc = "out" /\ pc' = "app" /\ UNCHANGED <<frontier, prepared>>
      BY <2>2, Zenon DEF DataEnter, Enter, graphVars
    <3>2. prepared' = << >> /\ frontier' = 0
      BY <3>1, Zenon DEF BuffersInv, IInv, SessionBounds
    <3> QED
      BY <3>1, <3>2 DEF LinkBatch, Ahead
  <2>3. CASE DataLeave \/ DataReset
    <3>1. pc' \in {"drain", "out"} /\ prepared' = << >>
      BY <2>3, Zenon DEF DataLeave, Leave, DataReset, ResetToStart, engineVars, BuffersInv, IInv, SessionBounds
    <3> QED
      BY <3>1, Zenon DEF LinkBatch, Ahead, InSession
  <2>4. CASE DataSyscallSync \/ \E i \in Pos : DataCmplAsync(i)
    <3>1. pc = "self" /\ UNCHANGED <<pc, frontier, peekhead, peekhead_distance, prepared>>
      BY <2>4, Zenon DEF DataSyscallSync, SyscallSync, DataCmplAsync, CmplAsync
    <3>2. (Few' <=> Few) /\ (InSession' <=> InSession)
      BY <3>1, Zenon DEF Few, DanglingLink, InSession
    <3> QED
      BY <2>1, <3>1, <3>2, Zenon DEF LinkBatch, Ahead
  <2>5. CASE UNCHANGED allVars \/ \E i \in Pos : DataEngineRun(i)
    <3>1. UNCHANGED <<pc, frontier, peekhead, peekhead_distance, prepared, stage>>
      BY <2>5, Zenon DEF allVars, vars, graphVars, engineVars, DataEngineRun, EngineRun
    <3>2. (Few' <=> Few) /\ (InSession' <=> InSession) /\ (DanglingLink' <=> DanglingLink)
      BY <3>1, Zenon DEF Few, DanglingLink, InSession
    <3> QED
      BY <2>1, <3>1, <3>2, Zenon DEF LinkBatch, Ahead
  <2> QED
    BY <2>2, <2>3, <2>4, <2>5, Zenon
<1>1. BuffersInv /\ BatchInv /\ (PlainPlugin(plugin) \/ LinkedPlugin(plugin))
  BY Zenon DEF RequestInv
<1>2. plugin' = plugin
  BY SamePlugin, Zenon
<1>3. CASE PlainPlugin(plugin)
  BY <1>2, <1>3, <1>PlainBatch, Zenon DEF BuffersInv
<1>4. CASE LinkedPlugin(plugin)
  <2>1. LinkBatch' /\ Ahead'
    <3>1. CASE \/ DataCall \/ DataPeekEnds \/ DataPeekNotReady \/ DataPeekPrepare \/ DataSubmit
               \/ DataPushForward
      BY <1>1, <1>4, <3>1, <1>CallBatch, <1>PeekEndsBatch, <1>NotReadyBatch, <1>PrepareBatch, <1>SubmitBatch, <1>PushBatch, Zenon
    <3>2. CASE DataEnter \/ DataSyscallSync \/ DataLeave \/ DataReset
      BY <1>1, <1>4, <3>2, <1>OtherBatch, Zenon
    <3>3. CASE \E i \in Pos : DataCmplAsync(i) \/ DataEngineRun(i)
      BY <1>1, <1>4, <3>3, <1>OtherBatch, Zenon
    <3>4. CASE UNCHANGED allVars
      BY <1>1, <1>4, <3>4, <1>OtherBatch, Zenon
    <3> QED
      BY <3>1, <3>2, <3>3, <3>4, Zenon DEF DataNext
  <2> QED
    BY <2>1, Zenon DEF BatchInv
<1> QED
  BY <1>1, <1>3, <1>4, Zenon

-----------------------------------------------------------------------------
(* Where reads go. *)

(* The steps that move no buffer. *)
Still ==
  /\ UNCHANGED <<plugin, buf, count, internal_buf, sqe, frontier>>
  /\ InCall' <=> InCall
  /\ \A i \in Pos : \/ stage'[i] = stage[i]
                    \/ stage[i] \in {"argready", "onthefly"} /\ stage'[i] = "finished"

(* The steps that call, prepare, submit and return nothing leave the       *)
(* buffers of requests alone.                                              *)
LEMMA StillSteps ==
  ASSUME BuffersInv,
         \/ DataEnter \/ DataPeekEnds \/ DataPeekNotReady \/ (SubmitNone /\ UNCHANGED dataVars)
         \/ DataSyscallSync \/ DataLeave \/ UNCHANGED allVars
         \/ \E i \in Pos : DataCmplAsync(i) \/ DataEngineRun(i)
  PROVE  Still
<1> USE DEF dataVars, argVars
<1>1. stage \in [Pos -> Stages]
  BY Zenon DEF BuffersInv, IInv, TypeOK
<1>2. CASE DataEnter \/ DataLeave
  BY <1>2, Zenon DEF DataEnter, Enter, DataLeave, Leave, graphVars, Still, InCall
<1>3. CASE DataPeekEnds \/ DataPeekNotReady
  BY <1>3, Zenon DEF DataPeekEnds, PeekDone, PeekEnd, DataPeekNotReady, PeekNotReady, Peeking,
              PeekContinue, graphVars, Still, InCall
<1>4. CASE SubmitNone /\ UNCHANGED dataVars
  BY <1>4, Zenon DEF SubmitNone, graphVars, Still, InCall
<1>5. CASE DataSyscallSync
  BY <1>1, <1>5, Zenon DEF DataSyscallSync, SyscallSync, Still, InCall
<1>6. ASSUME NEW i \in Pos, DataCmplAsync(i) PROVE Still
  <2>1. stage[i] = "onthefly"
    BY <1>6, Zenon DEF DataCmplAsync, CmplAsync, BuffersInv, IInv, EngineAgrees
  <2> QED
    BY <1>1, <1>6, <2>1, Zenon DEF DataCmplAsync, CmplAsync, Still, InCall
<1>7. ASSUME NEW i \in Pos, DataEngineRun(i) PROVE Still
  BY <1>7, Zenon DEF DataEngineRun, EngineRun, graphVars, Still, InCall
<1>8. CASE UNCHANGED allVars
  BY <1>8, Zenon DEF allVars, vars, graphVars, Still, InCall
<1> QED
  BY <1>2, <1>3, <1>4, <1>5, <1>6, <1>7, <1>8, Zenon

(* What the other steps do to buffers. *)
LEMMA PushBufs ==
  ASSUME BuffersInv, BuffersInv', DataPushForward
  PROVE  /\ frontier \in Pos /\ pc = "self" /\ pc' = "app" /\ frontier' = frontier + 1
         /\ stage[frontier] = "finished" /\ stage' = [stage EXCEPT ![frontier] = "none"]
         /\ buf' = [buf EXCEPT ![frontier] = NoBuf] /\ sqe' = [sqe EXCEPT ![frontier] = NoBuf]
         /\ \A e \in Epochs : internal_buf'[e] \in {internal_buf[e], NoBuf}
         /\ \A e \in Epochs : e # Epoch(frontier) => internal_buf'[e] = internal_buf[e]
         /\ \A e \in Epochs : e = Epoch(frontier) /\ IsRead(frontier) /\ Held(e) /\ Refers(e)
              => internal_buf'[e] = internal_buf[e]
         /\ \A e \in Epochs : e = Epoch(frontier) /\ ~IsRead(frontier) => internal_buf'[e] = NoBuf
<1>1. /\ frontier \in Pos /\ pc = "self" /\ pc' = "app" /\ frontier' = frontier + 1
      /\ stage[frontier] = "finished" /\ stage' = [stage EXCEPT ![frontier] = "none"]
      /\ buf' = [buf EXCEPT ![frontier] = NoBuf] /\ sqe' = [sqe EXCEPT ![frontier] = NoBuf]
  BY Zenon DEF DataPushForward, PushForward, BuffersInv, IInv, SessionBounds, InCall
<1>2. PICK f \in Pos : f = frontier
  BY <1>1, Zenon
<1>3. PICK a \in Epochs : a = Epoch(f)
  BY <1>2, Blocks, Zenon
<1>4. DOMAIN internal_buf = Epochs /\ RefInv
  BY Zenon DEF BuffersInv, PoolsInv
<1>5. internal_buf' = internal_buf \/ internal_buf' = [internal_buf EXCEPT ![a] = NoBuf]
  BY <1>2, <1>3, Zenon DEF DataPushForward, RemovePread, PutInternalBuf, FreeInternalBuf
<1>6. IsRead(f) /\ Held(a) /\ Refers(a) => internal_buf' = internal_buf
  BY <1>2, <1>3, <1>4 DEF DataPushForward, RemovePread, RefInv
<1>7. ~IsRead(f) => internal_buf'[a] = NoBuf
  <2> SUFFICES ASSUME ~IsRead(f), Held(a)' PROVE FALSE
    BY Zenon DEF Held
  <2>1. f = 2 * a + 1 /\ a \in Int /\ 2 * a < frontier'
    BY <1>1, <1>2, <1>3, Blocks, SMTT(30)
  <2>2. Refers(a)'
    BY <2>1, Zenon DEF BuffersInv, PoolsInv, HoldInv
  <2>3. buf'[f] = NoBuf
    BY <1>1, <1>2, Zenon DEF BuffersInv, PoolsInv
  <2> QED
    BY <2>1, <2>2, <2>3, Zenon DEF Refers, Held
<1> QED
  BY <1>1, <1>2, <1>3, <1>4, <1>5, <1>6, <1>7, Zenon

(* What a call does to the buffers of requests. *)
LEMMA CallBufs ==
  ASSUME BuffersInv, DataCall
  PROVE  /\ frontier \in Pos /\ pc = "app" /\ InCall' /\ UNCHANGED <<internal_buf, sqe, frontier, runs>>
         /\ \A i \in Pos : i # frontier => stage'[i] = stage[i] /\ buf'[i] = buf[i]
         /\ stage[frontier] = "none" =>
              stage'[frontier] = "argready" /\ buf'[frontier] = UserBuf(frontier)
         /\ stage[frontier] # "none" => stage'[frontier] = stage[frontier]
         /\ stage[frontier] # "none" /\ ~IsRead(frontier) => buf'[frontier] = buf[frontier]
         /\ IsRead(frontier) => buf'[frontier] = UserBuf(frontier)
<1>1. frontier \in Pos /\ pc = "app" /\ InCall' /\ UNCHANGED <<internal_buf, sqe, frontier, runs>> /\ CheckArgs
  <2>1. frontier \in 0 .. PathLen /\ PathLen \in Nat /\ frontier < PathLen
    BY PathAssumption, Zenon DEF BuffersInv, IInv, TypeOK, DataCall, CallNoPeek, CallPeek
  <2> QED
    BY <2>1 DEF DataCall, CallNoPeek, CallPeek, engineVars, Pos, InCall
<1>2. BufInv /\ DOMAIN buf = Pos /\ DOMAIN stage = Pos
  BY Zenon DEF BuffersInv, PoolsInv, IInv, TypeOK
<1>3. buf' = IF stage[frontier] = "none" \/ (IsRead(frontier) /\ buf[frontier] = NoBuf)
             THEN [buf EXCEPT ![frontier] = UserBuf(frontier)] ELSE buf
  BY Zenon DEF DataCall, CheckArgsData
<1>4. stage' = IF stage[frontier] = "none" THEN [stage EXCEPT ![frontier] = "argready"] ELSE stage
  BY <1>1, Zenon DEF CheckArgs
<1>5. IsRead(frontier) => buf[frontier] \in {NoBuf, UserBuf(frontier)}
  BY <1>1, <1>2, Zenon DEF BufInv
<1> QED
  BY <1>1, <1>2, <1>3, <1>4, <1>5, Zenon

(* What preparing a request does to the buffers. *)
LEMMA PrepareBufs ==
  ASSUME BuffersInv, DataPeekPrepare
  PROVE  /\ peekhead \in Pos /\ peekhead > frontier /\ stage' = [stage EXCEPT ![peekhead] = "prepared"]
         /\ pc = "peek" /\ pc' = "peek" /\ UNCHANGED <<frontier, sqe, runs>>
         /\ stage[peekhead] = "none" /\ buf[peekhead] = NoBuf
         /\ \A i \in Pos : i >= peekhead => stage[i] = "none"
         /\ \A i \in Pos : i # peekhead => buf'[i] = buf[i]
         /\ \A e \in Epochs : e # Epoch(peekhead) => internal_buf'[e] = internal_buf[e]
         /\ IsRead(peekhead) =>
              /\ \A e \in Epochs : e = Epoch(peekhead) => internal_buf[e] = NoBuf
              /\ \/ /\ plugin.buf_ready /\ internal_buf' = internal_buf
                    /\ buf'[peekhead] = UserBuf(peekhead)
                 \/ /\ ~plugin.buf_ready /\ buf' = buf
                    /\ \A e \in Epochs : e = Epoch(peekhead) => internal_buf'[e] \in IBufs
         /\ ~IsRead(peekhead) => internal_buf' = internal_buf /\ Ready(peekhead)
         /\ ~IsRead(peekhead) /\ plugin.pwrite = "ref"
              => buf'[peekhead] = internal_buf[Epoch(peekhead)]
<1>1. /\ peekhead \in Pos /\ Peeking /\ stage' = [stage EXCEPT ![peekhead] = "prepared"]
      /\ pc = "peek" /\ pc' = "peek" /\ UNCHANGED <<frontier, sqe, runs>>
      /\ GeneratePread \/ GeneratePwrite
  BY Zenon DEF DataPeekPrepare, PeekPrepare, PeekContinue, Peeking
<1>2. peekhead > frontier /\ \A i \in Pos : i >= peekhead => stage[i] = "none"
  BY <1>1, PeekAhead, Zenon DEF BuffersInv
<1>3. stage[peekhead] = "none"
  BY <1>1, <1>2, PosInt, SMTT(30)
<1>4. /\ PoolInv /\ HoldInv /\ BufInv /\ DOMAIN buf = Pos /\ DOMAIN internal_buf = Epochs
      /\ frontier \in Int /\ peekhead \in Int /\ Epoch(peekhead) \in Epochs
  BY <1>1, PosInt, Blocks, SMTT(30) DEF BuffersInv, PoolsInv, IInv, TypeOK
<1>5. buf[peekhead] = NoBuf
  BY <1>1, <1>3, <1>4, Zenon DEF BufInv
<1>6. ASSUME IsRead(peekhead)
      PROVE  /\ internal_buf[Epoch(peekhead)] = NoBuf
             /\ \A e \in Epochs : e # Epoch(peekhead) => internal_buf'[e] = internal_buf[e]
             /\ \A i \in Pos : i # peekhead => buf'[i] = buf[i]
             /\ \/ /\ plugin.buf_ready /\ internal_buf' = internal_buf
                   /\ buf'[peekhead] = UserBuf(peekhead)
                \/ /\ ~plugin.buf_ready /\ buf' = buf
                   /\ internal_buf'[Epoch(peekhead)] \in IBufs
  <2>1. GeneratePread
    BY <1>1, <1>6, Zenon DEF GeneratePwrite
  <2>2. peekhead = 2 * Epoch(peekhead)
    BY <1>1, <1>6, Blocks, Zenon
  <2>3. internal_buf[Epoch(peekhead)] = NoBuf
    <3> SUFFICES ASSUME Held(Epoch(peekhead)) PROVE FALSE
      BY Zenon DEF Held
    <3>1. 2 * Epoch(peekhead) >= frontier
      BY <1>2, <1>4, <2>2, SMTT(30)
    <3>2. stage[peekhead] \in Issued
      BY <1>4, <2>2, <3>1, Zenon DEF HoldInv
    <3> QED
      BY <1>3, <3>2, Zenon DEF Issued
  <2>4. CASE plugin.buf_ready
    BY <1>1, <1>4, <2>1, <2>3, <2>4, Zenon DEF GeneratePread
  <2>5. CASE ~plugin.buf_ready
    <3>1. PICK b \in pre_alloced_bufs : /\ internal_buf' = [internal_buf EXCEPT ![Epoch(peekhead)] = b]
                                        /\ buf' = buf
      BY <2>1, <2>5, Zenon DEF GeneratePread
    <3>2. b \in IBufs
      BY <1>4, Zenon DEF PoolInv
    <3> QED
      BY <1>4, <2>3, <2>5, <3>1, <3>2, Zenon
  <2> QED
    BY <2>4, <2>5, Zenon
<1>7. ASSUME ~IsRead(peekhead)
      PROVE  /\ internal_buf' = internal_buf /\ Ready(peekhead)
             /\ \A i \in Pos : i # peekhead => buf'[i] = buf[i]
             /\ plugin.pwrite = "ref" => buf'[peekhead] = internal_buf[Epoch(peekhead)]
  BY <1>1, <1>4, <1>7, Zenon DEF GeneratePread, GeneratePwrite
<1> QED
  BY <1>1, <1>2, <1>3, <1>5, <1>6, <1>7, Zenon

(* Every step keeps where reads go. *)
LEMMA NextPlace == ASSUME BuffersInv, RequestInv, BuffersInv', [DataNext]_allVars PROVE PlaceInv'
(* No request is still prepared when its own call comes. *)
<1>NotPrepared.
  ASSUME IInv, BatchInv, pc = "app", frontier \in Pos
  PROVE  stage[frontier] # "prepared"
  <2> USE <1>NotPrepared
  <2> SUFFICES ASSUME InPrepared(frontier) PROVE FALSE
    BY Zenon DEF IInv, EngineAgrees
  <2>1. PICK k \in 1 .. Len(prepared) : prepared[k] = frontier
    BY Zenon DEF InPrepared
  <2>2. prepared # << >> /\ k \in Int /\ k >= 1 /\ frontier \in Int
    BY <2>1, PreparedInts, PosInt, SMTT(30) DEF IInv, TypeOK
  <2>3. prepared[1] \in Int /\ prepared[k] >= prepared[1] + k - 1
    BY <2>1, <2>2, FirstPrepared, Zenon DEF IInv, PreparedOrder
  <2>4. prepared[1] >= frontier + 1
    BY <2>2, Zenon DEF BatchInv, Ahead
  <2> QED
    BY <2>1, <2>2, <2>3, <2>4, SMTT(30)
(* A step that leaves the buffers alone keeps where reads go. *)
<1>StillPlace.
  ASSUME BuffersInv, PlaceInv, Still PROVE PlaceInv'
  <2> USE <1>StillPlace
  <2>1. /\ UNCHANGED <<plugin, buf, internal_buf, sqe, frontier>> /\ (InCall' <=> InCall)
        /\ \A i \in Pos : \/ stage'[i] = stage[i]
                          \/ stage[i] \in {"argready", "onthefly"} /\ stage'[i] = "finished"
    BY Zenon DEF Still
  <2>2. (\A i \in Pos : UserBuf(i)' = UserBuf(i)) /\ (\A e : Held(e)' <=> Held(e))
    BY <2>1, Zenon DEF UserBuf, Held
  <2>3. \A i \in Pos : stage[i] = "argready" /\ IsRead(i) => ~Held(Epoch(i))
    BY Zenon DEF BuffersInv, PoolsInv, SyncInv
  <2>4. frontier \in Pos \/ ~InCall
    BY Zenon DEF BuffersInv, IInv, SessionBounds
  <2> QED
    BY <2>1, <2>2, <2>3, <2>4, Zenon DEF PlaceInv
(* A call gives its own read the buffer of the application. *)
<1>CallPlace.
  ASSUME BuffersInv, PlaceInv, BatchInv, DataCall PROVE PlaceInv'
  <2> USE <1>CallPlace
  <2>1. PICK f \in Pos : f = frontier
    BY CallBufs, Zenon
  <2>2. /\ pc = "app" /\ InCall' /\ UNCHANGED <<plugin, internal_buf, sqe, frontier>>
        /\ \A i \in Pos \ {f} : stage'[i] = stage[i] /\ buf'[i] = buf[i]
        /\ stage[f] = "none" => stage'[f] = "argready"
        /\ stage[f] # "none" => stage'[f] = stage[f]
        /\ IsRead(f) => buf'[f] = UserBuf(f)
    BY <2>1, CallBufs, Zenon DEF DataCall
  <2>3. stage[f] # "prepared"
    BY <2>1, <2>2, <1>NotPrepared, Zenon DEF BuffersInv
  <2>4. (\A i \in Pos : UserBuf(i)' = UserBuf(i)) /\ (\A e : Held(e)' <=> Held(e))
    BY <2>2, Zenon DEF UserBuf, Held
  <2>5. ~InCall
    BY <2>2, Zenon DEF InCall
  <2>6. ASSUME NEW i \in Pos, IsRead(i)
        PROVE  /\ stage'[i] = "prepared" /\ Held(Epoch(i)) => buf'[i] = NoBuf
               /\ stage'[i] \in {"onthefly", "finished"} /\ Held(Epoch(i)) => sqe[i] = internal_buf[Epoch(i)]
               /\ stage'[i] # "none" /\ ~Held(Epoch(i)) => plugin.buf_ready \/ i = f
    <3>1. CASE i # f
      BY <2>2, <2>5, <2>6, <3>1, Zenon DEF PlaceInv
    <3>2. CASE i = f
      BY <2>2, <2>3, <2>6, <3>2, Zenon DEF PlaceInv
    <3> QED
      BY <3>1, <3>2, Zenon
  <2> QED
    BY <2>1, <2>2, <2>4, <2>6, Zenon DEF PlaceInv
(* A read that is prepared goes to an internal buffer, or to the block's   *)
(* own.                                                                    *)
<1>PreparePlace.
  ASSUME BuffersInv, PlaceInv, DataPeekPrepare PROVE PlaceInv'
  <2> USE <1>PreparePlace
  <2>1. PICK p \in Pos : p = peekhead
    BY PrepareBufs, Zenon
  <2>2. /\ stage' = [stage EXCEPT ![p] = "prepared"] /\ pc = "peek" /\ pc' = "peek"
        /\ UNCHANGED <<plugin, frontier, sqe>> /\ buf[p] = NoBuf /\ p > frontier
        /\ \A i \in Pos : i # p => buf'[i] = buf[i]
        /\ \A e \in Epochs : e # Epoch(p) => internal_buf'[e] = internal_buf[e]
    BY <2>1, PrepareBufs, Zenon DEF DataPeekPrepare
  <2>3. IsRead(p) =>
          /\ internal_buf[Epoch(p)] = NoBuf /\ Epoch(p) \in Epochs
          /\ \/ /\ plugin.buf_ready /\ internal_buf' = internal_buf
             \/ /\ ~plugin.buf_ready /\ buf' = buf /\ internal_buf'[Epoch(p)] \in IBufs
    BY <2>1, PrepareBufs, Blocks, Zenon
  <2>4. ~IsRead(p) => internal_buf' = internal_buf
    BY <2>1, PrepareBufs, Zenon
  <2>5. DOMAIN stage = Pos /\ frontier \in Pos /\ frontier \in Int /\ p \in Int /\ InCall /\ InCall'
    BY <2>2, PosInt, Zenon DEF BuffersInv, IInv, TypeOK, SessionBounds, InCall
  <2>6. ASSUME NEW i \in Pos, IsRead(i)
        PROVE  /\ stage'[i] = "prepared" /\ internal_buf'[Epoch(i)] # NoBuf => buf'[i] = NoBuf
               /\ stage'[i] \in {"onthefly", "finished"} /\ internal_buf'[Epoch(i)] # NoBuf
                    => sqe[i] = internal_buf'[Epoch(i)]
               /\ stage'[i] # "none" /\ internal_buf'[Epoch(i)] = NoBuf => plugin.buf_ready \/ i = frontier
    <3>1. CASE i # p
      <4>1. internal_buf'[Epoch(i)] = internal_buf[Epoch(i)]
        <5>1. IsRead(p) => Epoch(i) # Epoch(p) /\ Epoch(i) \in Epochs
          BY <2>6, <3>1, Blocks, Zenon
        <5> QED
          BY <2>2, <2>4, <5>1, Zenon
      <4>2. stage'[i] = stage[i] /\ buf'[i] = buf[i]
        BY <2>2, <2>5, <3>1, Zenon
      <4> QED
        BY <2>6, <4>1, <4>2, Zenon DEF PlaceInv, Held
    <3>2. CASE i = p
      BY <2>2, <2>3, <2>5, <2>6, <3>2, BufsDiffer, Zenon
    <3> QED
      BY <3>1, <3>2, Zenon
  <2>7. IsRead(frontier) => buf'[frontier] = UserBuf(frontier)
    BY <2>2, <2>5 DEF PlaceInv
  <2>8. \A i \in Pos : UserBuf(i)' = UserBuf(i)
    BY <2>2, Zenon DEF UserBuf
  <2> QED
    BY <2>2, <2>5, <2>6, <2>7, <2>8, Zenon DEF PlaceInv, Held
(* Submitting puts the internal buffer into the submission entry. *)
<1>SubmitPlace.
  ASSUME BuffersInv, PlaceInv, SubmitAll, DataSubmit PROVE PlaceInv'
  <2> USE <1>SubmitPlace
  <2>1. /\ pc = "submit" /\ pc' = "self"
        /\ stage' = [i \in Pos |-> IF InPrepared(i) THEN "onthefly" ELSE stage[i]]
        /\ sqe' = [i \in Pos |-> IF InPrepared(i) THEN PrepSqe(i) ELSE sqe[i]]
        /\ UNCHANGED <<plugin, buf, internal_buf, frontier>>
    BY Zenon DEF DataSubmit, SubmitAll, SubmitNone, argVars
  <2>2. \A i \in Pos : InPrepared(i) <=> stage[i] = "prepared"
    BY <2>1, Zenon DEF BuffersInv, IInv, EngineAgrees
  <2>3. (\A i \in Pos : UserBuf(i)' = UserBuf(i)) /\ (\A e : Held(e)' <=> Held(e)) /\ InCall /\ InCall'
    BY <2>1, Zenon DEF UserBuf, Held, InCall
  <2>4. frontier \in Pos
    BY <2>3, Zenon DEF BuffersInv, IInv, SessionBounds
  <2>5. \A i \in Pos : /\ stage[i] = "prepared" => stage'[i] = "onthefly" /\ sqe'[i] = PrepSqe(i)
                       /\ stage[i] # "prepared" => stage'[i] = stage[i] /\ sqe'[i] = sqe[i]
    BY <2>1, <2>2, Zenon
  <2>6. \A i \in Pos : IsRead(i) /\ stage[i] = "prepared" /\ Held(Epoch(i))
                       => PrepSqe(i) = internal_buf[Epoch(i)]
    BY Zenon DEF PlaceInv, PrepSqe
  <2> QED
    BY <2>1, <2>3, <2>4, <2>5, <2>6, Zenon DEF PlaceInv
(* A return leaves the places of the other reads alone. *)
<1>PushPlace.
  ASSUME BuffersInv, BuffersInv', PlaceInv, DataPushForward PROVE PlaceInv'
  <2> USE <1>PushPlace
  <2>1. PICK f \in Pos : f = frontier
    BY PushBufs, Zenon
  <2>2. /\ pc' = "app" /\ stage' = [stage EXCEPT ![f] = "none"] /\ UNCHANGED plugin
        /\ buf' = [buf EXCEPT ![f] = NoBuf] /\ sqe' = [sqe EXCEPT ![f] = NoBuf]
        /\ \A e \in Epochs : e # Epoch(f) => internal_buf'[e] = internal_buf[e]
        /\ pc = "self"
    BY <2>1, PushBufs, Zenon DEF DataPushForward
  <2>3. DOMAIN stage = Pos /\ DOMAIN buf = Pos /\ DOMAIN sqe = Pos /\ ~InCall'
    BY <2>2, Zenon DEF BuffersInv, PoolsInv, IInv, TypeOK, InCall
  <2>4. ASSUME NEW i \in Pos, IsRead(i), stage'[i] # "none"
        PROVE  /\ i # f /\ stage'[i] = stage[i] /\ buf'[i] = buf[i] /\ sqe'[i] = sqe[i]
               /\ internal_buf'[Epoch(i)] = internal_buf[Epoch(i)]
    <3>1. i # f /\ stage'[i] = stage[i] /\ buf'[i] = buf[i] /\ sqe'[i] = sqe[i]
      BY <2>2, <2>3, <2>4, Zenon
    <3>2. i >= f /\ i \in Int /\ f \in Int
      BY <2>1, <2>2, <2>4, <3>1, PosInt, Zenon DEF BuffersInv, IInv, StageWindow
    <3>3. Epoch(i) # Epoch(f) /\ Epoch(i) \in Epochs
      BY <2>4, <3>1, <3>2, Blocks, SMTT(30)
    <3> QED
      BY <2>2, <3>1, <3>3, Zenon
  <2> QED
    BY <2>1, <2>2, <2>3, <2>4, Zenon DEF PlaceInv, Held
<1>1. BuffersInv /\ BatchInv /\ PlaceInv
  BY Zenon DEF RequestInv
<1>2. CASE DataCall \/ DataPeekPrepare \/ DataPushForward
  BY <1>1, <1>2, <1>CallPlace, <1>PreparePlace, <1>PushPlace, Zenon
<1>3. CASE DataSubmit
  <2>1. SubmitAll \/ (SubmitNone /\ UNCHANGED dataVars)
    BY <1>3, Zenon DEF DataSubmit
  <2> QED
    BY <1>1, <1>3, <2>1, <1>SubmitPlace, StillSteps, <1>StillPlace, Zenon
<1>4. CASE DataReset
  <2>1. /\ stage' = [i \in Pos |-> "none"] /\ pc' = "out"
    BY <1>4, Zenon DEF DataReset, ResetToStart
  <2> QED
    BY <2>1, Zenon DEF PlaceInv, InCall
<1>5. CASE \/ DataEnter \/ DataPeekEnds \/ DataPeekNotReady \/ DataSyscallSync \/ DataLeave
  BY <1>1, <1>5, StillSteps, <1>StillPlace, Zenon
<1>6. CASE \E i \in Pos : DataCmplAsync(i) \/ DataEngineRun(i)
  BY <1>1, <1>6, StillSteps, <1>StillPlace, Zenon
<1>7. CASE UNCHANGED allVars
  BY <1>1, <1>7, StillSteps, <1>StillPlace, Zenon
<1> QED
  BY <1>2, <1>3, <1>4, <1>5, <1>6, <1>7, Zenon DEF DataNext

-----------------------------------------------------------------------------
(* How writes are made. *)

(* The pread of a pwrite is the call before it, of the same block. *)
LEMMA Partner ==
  ASSUME NEW i \in Pos, ~IsRead(i)
  PROVE  /\ i - 1 \in Pos /\ IsRead(i - 1) /\ Epoch(i - 1) = Epoch(i) /\ Epoch(i) \in Epochs
         /\ \A j \in Pos : IsRead(j) /\ Epoch(j) = Epoch(i) => j = i - 1
         /\ \A j \in Pos : ~IsRead(j) /\ Epoch(j) = Epoch(i) => j = i
<1>1. PICK e \in Epochs : e = Epoch(i) /\ i = 2 * e + 1 /\ e \in Int
  BY Blocks, Zenon
<1>2. i - 1 = 2 * e /\ 2 * e \in Pos /\ IsRead(2 * e) /\ Epoch(2 * e) = e
  BY <1>1, Blocks
<1>3. \A j \in Pos : Epoch(j) = e => (IsRead(j) => j = 2 * e) /\ (~IsRead(j) => j = 2 * e + 1)
  BY Blocks, Zenon
<1> QED
  BY <1>1, <1>2, <1>3, Zenon

(* Without links, every step leaves pwrites to their own calls. *)
LEMMA NextOwn ==
  ASSUME BuffersInv, BuffersInv', PlainPlugin(plugin), OwnWrites, [DataNext]_allVars
  PROVE  OwnWrites'
(* A block's pread has not returned when the peek is at its pwrite. *)
<1>NotDone.
  ASSUME NEW p \in Pos, ~IsRead(p), frontier \in Nat, frontier < p
  PROVE  PreadsDone # Epoch(p) + 1
  <2> USE <1>NotDone
  <2>1. PICK e \in Int : e = Epoch(p) /\ e >= 0 /\ p = 2 * e + 1
    BY Blocks, Zenon
  <2> DEFINE S == {i \in 0 .. (frontier - 1) : IsRead(i)}
             T == 0 .. (e - 1)
             h == [d \in T |-> 2 * d]
             R == {h[d] : d \in T}
  <2>2. IsFiniteSet(T) /\ Cardinality(T) = e
    <3>1. PICK m \in Int : m = e - 1
      BY <2>1
    <3>2. IsFiniteSet(0 .. m) /\ Cardinality(0 .. m) = IF 0 > m THEN 0 ELSE m - 0 + 1
      BY FS_Interval
    <3>3. T = 0 .. m
      BY <3>1, Zenon
    <3>4. e >= 0
      BY <2>1, Zenon
    <3>5. e = m + 1 /\ m - 0 + 1 = m + 1
      BY <3>1
    <3> HIDE DEF T
    <3> QED
      BY <3>2, <3>3, <3>4, <3>5, SMTT(30)
  <2>3. S \subseteq R
    <3> SUFFICES ASSUME NEW i \in 0 .. (frontier - 1), IsRead(i) PROVE \E d \in T : i = h[d]
      BY Zenon
    <3>1. i \in Int /\ i >= 0 /\ i < 2 * e + 1 /\ i % 2 = 0
      BY <2>1 DEF IsRead
    <3>2. PICK d \in Int : d = i \div 2
      BY <3>1
    <3>3. i = 2 * d /\ d >= 0 /\ d < e
      <4>1. i < p
        BY <2>1, PosInt, SMTT(30)
      <4>2. i = 2 * d
        BY <3>1, <3>2, SMTT(30)
      <4>3. i <= frontier - 1 /\ frontier < 2 * e + 1 /\ frontier \in Int
        BY <2>1, SMTT(30)
      <4> QED
        BY <2>1, <3>1, <4>2, <4>3, SMTT(30)
    <3> QED
      BY <3>3
  <2>4. IsFiniteSet(R) /\ Cardinality(R) <= Cardinality(T)
    <3>1. h \in Surjection(T, R)
      BY Zenon DEF Surjection
    <3> QED
      BY <2>2, <3>1, FS_Surjection, SMTT(30)
  <2>5. Cardinality(S) <= Cardinality(R) /\ Cardinality(S) \in Nat /\ Cardinality(R) \in Nat
    BY <2>3, <2>4, FS_Subset, FS_CardinalityType, Zenon
  <2>6. Cardinality(S) <= e
    BY <2>1, <2>2, <2>4, <2>5, SMTT(30)
  <2> QED
    BY <2>1, <2>5, <2>6, SMTT(30) DEF PreadsDone
<1>1. CASE Still
  <2>1. \A i \in Pos : ~IsRead(i) => stage[i] # "onthefly" /\ stage[i] # "prepared"
    BY Zenon DEF OwnWrites
  <2> QED
    BY <1>1, <2>1, Zenon DEF Still, OwnWrites
<1>2. CASE DataCall
  <2>1. \A i \in Pos : ~IsRead(i) => stage[i] = "none"
    BY <1>2, CallBufs, Zenon DEF OwnWrites, InCall
  <2> QED
    BY <1>2, <2>1, CallBufs, Zenon DEF OwnWrites
<1>3. CASE DataPeekPrepare
  <2>1. PICK p \in Pos : p = peekhead
    BY <1>3, PrepareBufs, Zenon
  <2>2. /\ stage' = [stage EXCEPT ![p] = "prepared"] /\ p > frontier /\ UNCHANGED frontier
        /\ ~IsRead(p) => Ready(p)
        /\ pc = "peek" /\ pc' = "peek"
    BY <1>3, <2>1, PrepareBufs, Zenon
  <2>3. DOMAIN stage = Pos /\ frontier \in Nat /\ p \in Int
    BY PosInt DEF BuffersInv, IInv, TypeOK
  <2>4. IsRead(p)
    BY <2>2, <2>3, <1>NotDone, Zenon DEF Ready, PlainPlugin
  <2> QED
    BY <2>2, <2>3, <2>4, Zenon DEF OwnWrites, InCall
<1>4. CASE SubmitAll /\ DataSubmit
  <2>1. /\ pc = "submit" /\ pc' = "self" /\ UNCHANGED frontier
        /\ stage' = [i \in Pos |-> IF InPrepared(i) THEN "onthefly" ELSE stage[i]]
    BY <1>4, Zenon DEF SubmitAll
  <2>2. \A i \in Pos : ~IsRead(i) => ~InPrepared(i)
    BY <2>1, Zenon DEF OwnWrites, BuffersInv, IInv, EngineAgrees
  <2> QED
    BY <2>1, <2>2, Zenon DEF OwnWrites, InCall
<1>5. CASE DataPushForward
  <2>1. frontier \in Pos /\ stage' = [stage EXCEPT ![frontier] = "none"] /\ DOMAIN stage = Pos
    BY <1>5, PushBufs, Zenon DEF BuffersInv, IInv, TypeOK
  <2> QED
    BY <2>1, Zenon DEF OwnWrites
<1>6. CASE DataReset
  BY <1>6, Zenon DEF DataReset, ResetToStart, OwnWrites
<1>7. CASE DataEnter \/ DataPeekEnds \/ DataPeekNotReady \/ DataSyscallSync \/ DataLeave
  BY <1>1, <1>7, StillSteps, Zenon
<1>8. CASE \E i \in Pos : DataCmplAsync(i) \/ DataEngineRun(i)
  BY <1>1, <1>8, StillSteps, Zenon
<1>9. CASE UNCHANGED allVars
  BY <1>1, <1>9, StillSteps, Zenon
<1>10. CASE DataSubmit
  <2>1. SubmitAll \/ (SubmitNone /\ UNCHANGED dataVars)
    BY <1>10, Zenon DEF DataSubmit
  <2> QED
    BY <1>1, <1>4, <1>10, <2>1, StillSteps, Zenon
<1> QED
  BY <1>2, <1>3, <1>5, <1>6, <1>7, <1>8, <1>9, <1>10, Zenon DEF DataNext

(* With links, every step keeps pwrites behind their preads. *)
LEMMA NextLinked ==
  ASSUME BuffersInv, BuffersInv', LinkedPlugin(plugin), LinkBatch, LinkedWrites, [DataNext]_allVars
  PROVE  LinkedWrites'
(* The peek does not step over the pwrite of a pread that is prepared. *)
<1>StillLinked.
  ASSUME BuffersInv, LinkedPlugin(plugin), LinkedWrites, Still,
         peekhead' = peekhead \/ ~(peekhead - 1 \in Link /\ stage[peekhead - 1] = "prepared")
  PROVE  LinkedWrites'
  <2> USE <1>StillLinked
  <2>1. /\ UNCHANGED <<plugin, buf, internal_buf>>
        /\ \A i \in Pos : \/ stage'[i] = stage[i]
                          \/ stage[i] \in {"argready", "onthefly"} /\ stage'[i] = "finished"
        /\ \A e : Held(e)' <=> Held(e)
    BY Zenon DEF Still, Held
  <2> SUFFICES ASSUME NEW i \in Pos, ~IsRead(i)
               PROVE  /\ stage'[i] \in {"prepared", "onthefly"} =>
                           Held(Epoch(i)) /\ buf[i] = internal_buf[Epoch(i)]
                      /\ stage'[i] = "onthefly" => stage'[i - 1] # "prepared"
                      /\ Held(Epoch(i)) /\ buf[i] # internal_buf[Epoch(i)] =>
                           /\ stage'[i - 1] \notin {"onthefly", "finished"}
                           /\ stage'[i - 1] = "prepared" => peekhead' = i
    BY <2>1, Zenon DEF LinkedWrites
  <2>2. i - 1 \in Pos /\ IsRead(i - 1) /\ Epoch(i - 1) = Epoch(i) /\ i - 1 \in Link
    BY Partner, Zenon DEF LinkedPlugin
  <2>3. stage[i - 1] = "argready" => ~Held(Epoch(i))
    BY <2>2, Zenon DEF BuffersInv, PoolsInv, SyncInv
  <2>4. stage'[i - 1] = "prepared" => stage[i - 1] = "prepared"
    BY <2>1, <2>2, Zenon
  <2>5. Held(Epoch(i)) /\ stage'[i - 1] \in {"onthefly", "finished"} => stage[i - 1] \in {"onthefly", "finished"}
    BY <2>1, <2>2, <2>3, Zenon
  <2>6. peekhead = i /\ stage[i - 1] = "prepared" => peekhead' = i
    BY <2>2, Zenon
  <2>7. stage'[i] \in {"prepared", "onthefly"} => stage'[i] = stage[i]
    BY <2>1, Zenon
  <2>8. /\ stage[i] \in {"prepared", "onthefly"} => Held(Epoch(i)) /\ buf[i] = internal_buf[Epoch(i)]
        /\ stage[i] = "onthefly" => stage[i - 1] # "prepared"
        /\ Held(Epoch(i)) /\ buf[i] # internal_buf[Epoch(i)] =>
             /\ stage[i - 1] \notin {"onthefly", "finished"}
             /\ stage[i - 1] = "prepared" => peekhead = i
    BY Zenon DEF LinkedWrites
  <2> QED
    BY <2>4, <2>5, <2>6, <2>7, <2>8, Zenon
(* With links, a call finds its pwrite linked as the invariant says. *)
<1>CallLinked.
  ASSUME BuffersInv, LinkedPlugin(plugin), LinkedWrites, DataCall PROVE LinkedWrites'
  <2> USE <1>CallLinked
  <2>1. PICK f \in Pos : f = frontier
    BY CallBufs, Zenon
  <2>2. /\ internal_buf' = internal_buf
        /\ \A i \in Pos : i # f => stage'[i] = stage[i] /\ buf'[i] = buf[i]
        /\ stage[f] = "none" => stage'[f] = "argready"
        /\ stage[f] # "none" => stage'[f] = stage[f]
        /\ stage[f] # "none" /\ ~IsRead(f) => buf'[f] = buf[f]
    BY <2>1, CallBufs, Zenon
  <2>3. \A e : Held(e)' <=> Held(e)
    BY <2>2, Zenon DEF Held
  <2>4. peekhead' = peekhead \/ peekhead <= f
    <3>1. peekhead' = peekhead \/ peekhead_distance < 0
      BY Zenon DEF DataCall, CallNoPeek, CallPeek, CatchUp
    <3>2. peekhead = f + 1 + peekhead_distance /\ peekhead_distance \in Int /\ f \in Int
      BY <2>1, Ints, PosInt, CallBufs, Zenon DEF BuffersInv, IInv, DistancesTrue
    <3> QED
      BY <3>1, <3>2
  <2> SUFFICES ASSUME NEW i \in Pos, ~IsRead(i)
               PROVE  /\ stage'[i] \in {"prepared", "onthefly"} =>
                           Held(Epoch(i)) /\ buf'[i] = internal_buf[Epoch(i)]
                      /\ stage'[i] = "onthefly" => stage'[i - 1] # "prepared"
                      /\ Held(Epoch(i)) /\ buf'[i] # internal_buf[Epoch(i)] =>
                           /\ stage'[i - 1] \notin {"onthefly", "finished"}
                           /\ stage'[i - 1] = "prepared" => peekhead' = i
    BY <2>2, <2>3, Zenon DEF LinkedWrites
  <2>5. i - 1 \in Pos /\ i \in Int
    BY Partner, PosInt, Zenon
  <2>6. /\ stage[i] \in {"prepared", "onthefly"} => Held(Epoch(i)) /\ buf[i] = internal_buf[Epoch(i)]
        /\ stage[i] = "onthefly" => stage[i - 1] # "prepared"
        /\ Held(Epoch(i)) /\ buf[i] # internal_buf[Epoch(i)] =>
             /\ stage[i - 1] \notin {"onthefly", "finished"}
             /\ stage[i - 1] = "prepared" => peekhead = i
    BY Zenon DEF LinkedWrites
  <2>7. stage'[i] \in {"prepared", "onthefly"} => stage'[i] = stage[i] /\ buf'[i] = buf[i]
    BY <2>2, Zenon
  <2>8. stage'[i - 1] \in {"prepared", "onthefly", "finished"} => stage'[i - 1] = stage[i - 1]
    BY <2>2, <2>5, Zenon
  <2>9. Held(Epoch(i)) /\ buf'[i] # internal_buf[Epoch(i)] => buf[i] # internal_buf[Epoch(i)]
    <3>1. stage[f] = "none" => buf[f] = NoBuf
      BY Zenon DEF BuffersInv, PoolsInv, BufInv
    <3> QED
      BY <2>2, <3>1, Zenon DEF Held
  <2>10. stage[i - 1] = "prepared" /\ peekhead = i => peekhead' = i
    <3>1. stage[i - 1] = "prepared" => i - 1 >= f
      BY <2>1, <2>5, CallBufs, Zenon DEF BuffersInv, IInv, StageWindow
    <3> QED
      BY <2>4, <2>5, <3>1, PosInt, SMTT(30)
  <2> QED
    BY <2>6, <2>7, <2>8, <2>9, <2>10, Zenon
(* With links, a pwrite is prepared right after its pread and refers to    *)
(* its buffer.                                                             *)
<1>PrepareLinked.
  ASSUME BuffersInv, LinkedPlugin(plugin), LinkedWrites, DataPeekPrepare PROVE LinkedWrites'
  <2> USE <1>PrepareLinked
  <2>1. PICK p \in Pos : p = peekhead
    BY PrepareBufs, Zenon
  <2>2. /\ stage' = [stage EXCEPT ![p] = "prepared"] /\ peekhead' = p + 1
        /\ \A i \in Pos : i >= p => stage[i] = "none"
        /\ \A i \in Pos : i # p => buf'[i] = buf[i]
        /\ \A e \in Epochs : e # Epoch(p) => internal_buf'[e] = internal_buf[e]
        /\ ~IsRead(p) => internal_buf' = internal_buf /\ Held(Epoch(p))
                         /\ buf'[p] = internal_buf[Epoch(p)]
    BY <2>1, PrepareBufs, Zenon DEF DataPeekPrepare, PeekPrepare, PeekContinue, LinkedPlugin, Ready, Held
  <2>3. DOMAIN stage = Pos /\ p \in Int
    BY PosInt, Zenon DEF BuffersInv, IInv, TypeOK
  <2> SUFFICES ASSUME NEW i \in Pos, ~IsRead(i)
               PROVE  /\ stage'[i] \in {"prepared", "onthefly"} =>
                           internal_buf'[Epoch(i)] # NoBuf /\ buf'[i] = internal_buf'[Epoch(i)]
                      /\ stage'[i] = "onthefly" => stage'[i - 1] # "prepared"
                      /\ internal_buf'[Epoch(i)] # NoBuf /\ buf'[i] # internal_buf'[Epoch(i)] =>
                           /\ stage'[i - 1] \notin {"onthefly", "finished"}
                           /\ stage'[i - 1] = "prepared" => peekhead' = i
    BY Zenon DEF LinkedWrites, Held
  <2>4. /\ i - 1 \in Pos /\ IsRead(i - 1) /\ Epoch(i) \in Epochs /\ i \in Int
        /\ IsRead(p) /\ Epoch(p) = Epoch(i) => p = i - 1
    BY Partner, PosInt, Zenon
  <2>5. /\ stage[i] \in {"prepared", "onthefly"} => internal_buf[Epoch(i)] # NoBuf /\ buf[i] = internal_buf[Epoch(i)]
        /\ stage[i] = "onthefly" => stage[i - 1] # "prepared"
        /\ internal_buf[Epoch(i)] # NoBuf /\ buf[i] # internal_buf[Epoch(i)] =>
             /\ stage[i - 1] \notin {"onthefly", "finished"}
             /\ stage[i - 1] = "prepared" => p = i
    BY <2>1, Zenon DEF LinkedWrites, Held
  <2>6. CASE i = p
    <3>1. stage'[i] = "prepared" /\ internal_buf'[Epoch(i)] # NoBuf /\ buf'[i] = internal_buf'[Epoch(i)]
      BY <2>2, <2>3, <2>6, Zenon DEF Held
    <3> QED
      BY <3>1, Zenon
  <2>7. CASE i - 1 = p
    <3>1. stage'[i - 1] = "prepared" /\ stage'[i] = "none" /\ peekhead' = i
      BY <2>2, <2>3, <2>4, <2>7, SMTT(30)
    <3> QED
      BY <3>1, Zenon
  <2>8. CASE i # p /\ i - 1 # p
    <3>1. stage'[i] = stage[i] /\ stage'[i - 1] = stage[i - 1] /\ buf'[i] = buf[i]
      BY <2>2, <2>3, <2>4, <2>8, Zenon
    <3>2. internal_buf'[Epoch(i)] = internal_buf[Epoch(i)]
      BY <2>2, <2>4, <2>8, Zenon
    <3> QED
      BY <2>5, <2>8, <3>1, <3>2, Zenon
  <2> QED
    BY <2>6, <2>7, <2>8, Zenon
(* With links, a pwrite is not submitted before its pread. *)
<1>SubmitLinked.
  ASSUME BuffersInv, LinkedPlugin(plugin), LinkBatch, LinkedWrites, SubmitAll, DataSubmit
  PROVE  LinkedWrites'
  <2> USE <1>SubmitLinked
  <2>1. /\ pc = "submit" /\ ShouldSubmit /\ UNCHANGED <<buf, internal_buf>>
        /\ stage' = [i \in Pos |-> IF InPrepared(i) THEN "onthefly" ELSE stage[i]]
    BY Zenon DEF DataSubmit, SubmitAll, SubmitNone, argVars
  <2>2. \A i \in Pos : InPrepared(i) <=> stage[i] = "prepared"
    BY <2>1, Zenon DEF BuffersInv, IInv, EngineAgrees
  <2>3. \A i \in Pos : /\ stage[i] = "prepared" => stage'[i] = "onthefly"
                       /\ stage[i] # "prepared" => stage'[i] = stage[i]
    BY <2>1, <2>2, Zenon
  <2>4. \A e : Held(e)' <=> Held(e)
    BY <2>1, Zenon DEF Held
  <2>5. stage[peekhead - 1] = "prepared" => peekhead - 1 \notin Link
    <3> SUFFICES ASSUME stage[peekhead - 1] = "prepared", peekhead - 1 \in Link PROVE FALSE
      BY Zenon
    <3>1. prepared # << >>
      <4>1. num_prepared > 0 /\ num_prepared = Len(prepared)
        BY <2>1, Zenon DEF ShouldSubmit, BuffersInv, IInv, EngineAgrees
      <4> QED
        BY <4>1
    <3>2. peekhead = prepared[1] + Len(prepared) /\ prepared[1] \in Int /\ Len(prepared) \in Nat
          /\ Len(prepared) > 0
      BY <2>1, <3>1, FirstPrepared, Zenon DEF LinkBatch, BuffersInv
    <3>3. Len(prepared) \in 1 .. Len(prepared)
      BY <3>2
    <3>4. prepared[Len(prepared)] \in Int /\ prepared[Len(prepared)] < peekhead
          /\ prepared[Len(prepared)] >= prepared[1] + Len(prepared) - 1
      BY <3>3, PreparedBelow, Zenon DEF BuffersInv, IInv, PreparedOrder
    <3>5. prepared[Len(prepared)] = peekhead - 1
      BY <3>2, <3>4
    <3> QED
      BY <2>1, <3>1, <3>5, Zenon DEF ShouldSubmit, DanglingLink
  <2> SUFFICES ASSUME NEW i \in Pos, ~IsRead(i)
               PROVE  /\ stage'[i] \in {"prepared", "onthefly"} =>
                           Held(Epoch(i)) /\ buf[i] = internal_buf[Epoch(i)]
                      /\ stage'[i] = "onthefly" => stage'[i - 1] # "prepared"
                      /\ Held(Epoch(i)) /\ buf[i] # internal_buf[Epoch(i)] =>
                           /\ stage'[i - 1] \notin {"onthefly", "finished"}
                           /\ stage'[i - 1] = "prepared" => peekhead' = i
    BY <2>1, <2>4, Zenon DEF LinkedWrites
  <2>6. i - 1 \in Pos /\ i - 1 \in Link
    BY Partner, Zenon DEF LinkedPlugin
  <2>7. stage'[i - 1] # "prepared"
    BY <2>3, <2>6, Zenon
  <2>8. /\ stage[i] \in {"prepared", "onthefly"} => Held(Epoch(i)) /\ buf[i] = internal_buf[Epoch(i)]
        /\ Held(Epoch(i)) /\ buf[i] # internal_buf[Epoch(i)] =>
             /\ stage[i - 1] \notin {"onthefly", "finished"}
             /\ stage[i - 1] = "prepared" => peekhead = i
    BY Zenon DEF LinkedWrites
  <2>9. stage[i - 1] = "prepared" => peekhead # i
    BY <2>5, <2>6, Zenon
  <2> QED
    BY <2>3, <2>6, <2>7, <2>8, <2>9, Zenon
(* With links, the return of a pread keeps the buffer for its pwrite. *)
<1>PushLinked.
  ASSUME BuffersInv, BuffersInv', LinkedPlugin(plugin), LinkedWrites, DataPushForward
  PROVE  LinkedWrites'
  <2> USE <1>PushLinked
  <2>1. PICK f \in Pos : f = frontier
    BY PushBufs, Zenon
  <2>2. /\ stage' = [stage EXCEPT ![f] = "none"] /\ peekhead' = peekhead
        /\ buf' = [buf EXCEPT ![f] = NoBuf]
        /\ \A e \in Epochs : internal_buf'[e] \in {internal_buf[e], NoBuf}
        /\ \A e \in Epochs : e # Epoch(f) => internal_buf'[e] = internal_buf[e]
        /\ \A e \in Epochs : e = Epoch(f) /\ IsRead(f) /\ Held(e) /\ Refers(e)
             => internal_buf'[e] = internal_buf[e]
        /\ \A e \in Epochs : e = Epoch(f) /\ ~IsRead(f) => internal_buf'[e] = NoBuf
    BY <2>1, PushBufs, Zenon DEF DataPushForward, PushForward
  <2>3. DOMAIN stage = Pos /\ DOMAIN buf = Pos
    BY Zenon DEF BuffersInv, PoolsInv, IInv, TypeOK
  <2> SUFFICES ASSUME NEW i \in Pos, ~IsRead(i)
               PROVE  /\ stage'[i] \in {"prepared", "onthefly"} =>
                           internal_buf'[Epoch(i)] # NoBuf /\ buf'[i] = internal_buf'[Epoch(i)]
                      /\ stage'[i] = "onthefly" => stage'[i - 1] # "prepared"
                      /\ internal_buf'[Epoch(i)] # NoBuf /\ buf'[i] # internal_buf'[Epoch(i)] =>
                           /\ stage'[i - 1] \notin {"onthefly", "finished"}
                           /\ stage'[i - 1] = "prepared" => peekhead' = i
    BY Zenon DEF LinkedWrites, Held
  <2>4. /\ i - 1 \in Pos /\ Epoch(i) \in Epochs /\ i \in Int
        /\ ~IsRead(f) /\ Epoch(f) = Epoch(i) => f = i
    BY Partner, PosInt, Zenon
  <2>5. /\ stage[i] \in {"prepared", "onthefly"} => internal_buf[Epoch(i)] # NoBuf /\ buf[i] = internal_buf[Epoch(i)]
        /\ stage[i] = "onthefly" => stage[i - 1] # "prepared"
        /\ internal_buf[Epoch(i)] # NoBuf /\ buf[i] # internal_buf[Epoch(i)] =>
             /\ stage[i - 1] \notin {"onthefly", "finished"}
             /\ stage[i - 1] = "prepared" => peekhead = i
    BY Zenon DEF LinkedWrites, Held
  <2>6. stage'[i - 1] # "none" => stage'[i - 1] = stage[i - 1]
    BY <2>2, <2>3, <2>4, Zenon
  <2>7. CASE i = f
    <3>1. stage'[i] = "none" /\ internal_buf'[Epoch(i)] = NoBuf
      BY <2>2, <2>3, <2>4, <2>7, Zenon
    <3> QED
      BY <3>1, Zenon
  <2>8. CASE i # f
    <3>1. stage'[i] = stage[i] /\ buf'[i] = buf[i]
      BY <2>2, <2>3, <2>8, Zenon
    <3>2. buf[i] = internal_buf[Epoch(i)] => Refers(Epoch(i))
      <4>1. i = 2 * Epoch(i) + 1
        BY Blocks, Zenon
      <4> QED
        BY <4>1, Zenon DEF Refers
    <3>3. internal_buf[Epoch(i)] # NoBuf /\ buf[i] = internal_buf[Epoch(i)]
            => internal_buf'[Epoch(i)] = internal_buf[Epoch(i)]
      BY <2>2, <2>4, <2>8, <3>2, Zenon DEF Held
    <3>4. internal_buf'[Epoch(i)] # NoBuf => internal_buf'[Epoch(i)] = internal_buf[Epoch(i)]
      BY <2>2, <2>4, Zenon
    <3> QED
      BY <2>2, <2>5, <2>6, <3>1, <3>3, <3>4, Zenon
  <2> QED
    BY <2>7, <2>8, Zenon
<1>1. CASE DataCall \/ DataPeekPrepare \/ DataPushForward
  BY <1>1, <1>CallLinked, <1>PrepareLinked, <1>PushLinked, Zenon
<1>2. CASE DataSubmit
  <2>1. CASE SubmitAll
    BY <1>2, <2>1, <1>SubmitLinked, Zenon
  <2>2. CASE SubmitNone /\ UNCHANGED dataVars
    <3>1. peekhead' = peekhead
      BY <2>2, Zenon DEF SubmitNone, graphVars
    <3> QED
      BY <2>2, <3>1, StillSteps, <1>StillLinked, Zenon
  <2> QED
    BY <1>2, <2>1, <2>2, Zenon DEF DataSubmit
<1>3. CASE DataReset
  <2>1. stage' = [i \in Pos |-> "none"] /\ internal_buf' = [e \in Epochs |-> NoBuf]
    BY <1>3, Zenon DEF DataReset, ResetToStart
  <2>2. \A i \in Pos : Epoch(i) \in Epochs
    BY Blocks, Zenon
  <2> QED
    BY <2>1, <2>2, Zenon DEF LinkedWrites, Held
<1>4. CASE DataPeekNotReady
  <2>1. ~(peekhead - 1 \in Link /\ stage[peekhead - 1] = "prepared")
    BY <1>4, Zenon DEF DataPeekNotReady, PeekNotReady
  <2> QED
    BY <1>4, <2>1, StillSteps, <1>StillLinked, Zenon
<1>5. CASE DataEnter \/ DataPeekEnds \/ DataSyscallSync \/ DataLeave
  <2>1. peekhead' = peekhead
    BY <1>5, Zenon DEF DataEnter, Enter, DataPeekEnds, PeekDone, PeekEnd, DataSyscallSync, SyscallSync,
                DataLeave, Leave, graphVars
  <2> QED
    BY <1>5, <2>1, StillSteps, <1>StillLinked, Zenon
<1>6. CASE \E i \in Pos : DataCmplAsync(i) \/ DataEngineRun(i)
  <2>1. peekhead' = peekhead
    BY <1>6, Zenon DEF DataCmplAsync, CmplAsync, DataEngineRun, EngineRun, graphVars
  <2> QED
    BY <1>6, <2>1, StillSteps, <1>StillLinked, Zenon
<1>7. CASE UNCHANGED allVars
  <2>1. peekhead' = peekhead
    BY <1>7, Zenon DEF allVars, vars, graphVars
  <2> QED
    BY <1>7, <2>1, StillSteps, <1>StillLinked, Zenon
<1> QED
  BY <1>1, <1>2, <1>3, <1>4, <1>5, <1>6, <1>7, Zenon DEF DataNext

(* Every step keeps where writes come from. *)
LEMMA NextWrites == ASSUME BuffersInv, RequestInv, BuffersInv', [DataNext]_allVars PROVE WriteInv'
<1>1. BuffersInv /\ BatchInv /\ WriteInv
  BY Zenon DEF RequestInv
<1>2. PlainPlugin(plugin) => OwnWrites'
  BY <1>1, NextOwn, Zenon DEF WriteInv
<1>3. LinkedPlugin(plugin) => LinkedWrites'
  BY <1>1, NextLinked, Zenon DEF WriteInv, BatchInv
<1> QED
  BY <1>2, <1>3, SamePlugin, Zenon DEF WriteInv

(* Every step keeps which requests there are and which buffers they have. *)
LEMMA NextRequests ==
  ASSUME BuffersInv, RequestInv, BuffersInv', [DataNext]_allVars PROVE RequestInv'
<1>1. BatchInv' /\ PlaceInv' /\ WriteInv'
  BY NextBatch, NextPlace, NextWrites, Zenon
<1>2. PlainPlugin(plugin') \/ LinkedPlugin(plugin')
  BY SamePlugin, Zenon DEF RequestInv
<1> QED
  BY <1>1, <1>2, Zenon DEF RequestInv
=============================================================================
