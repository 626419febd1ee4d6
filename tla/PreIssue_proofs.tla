--------------------------- MODULE PreIssue_proofs ---------------------------
(***************************************************************************)
(* IInv is an invariant of the pre-issuing algorithm for every path, every *)
(* pre-issuing depth and every placement of side effects, weak edges,      *)
(* links and branches that the assumptions of PreIssue allow, it implies   *)
(* the safety properties stated there, and under it every step is a step   *)
(* of Speculation or leaves its variables alone.                           *)
(***************************************************************************)
EXTENDS PreIssueRefines, FiniteSetTheorems, TLAPS

-----------------------------------------------------------------------------
(* Integer facts, kept apart so that the arithmetic steps see no more.     *)

(* Positions are integers of the path.                                     *)
LEMMA PosInt == \A i \in Pos : i \in Int /\ 0 <= i /\ i < PathLen
BY PathAssumption DEF Pos

(* So are the positions that a weak edge leaves.                           *)
LEMMA WeakInt == \A j \in Weak : j \in Int /\ 0 <= j /\ j < PathLen
BY PathAssumption DEF Pos

(* The counters of Issue() are integers, those of the path within its      *)
(* bounds.                                                                 *)
LEMMA Ints ==
  ASSUME TypeOK
  PROVE  /\ PathLen \in Int /\ Depth \in Int /\ PathLen > 0 /\ Depth >= 0
         /\ frontier \in Int /\ 0 <= frontier /\ frontier <= PathLen
         /\ peekhead \in Int /\ 0 <= peekhead /\ peekhead <= PathLen
         /\ peekhead_distance \in Int /\ weakedge_distance \in Int
         /\ prepared_distance \in Int /\ num_prepared \in Int /\ calls \in Int
BY PathAssumption DEF TypeOK

(* `prepared` holds integers, and its ends are within it.                  *)
LEMMA PreparedInts ==
  ASSUME TypeOK
  PROVE  /\ Len(prepared) \in Nat
         /\ \A k \in 1 .. Len(prepared) : prepared[k] \in Int
         /\ prepared # << >> => 1 \in 1 .. Len(prepared) /\ Len(prepared) \in 1 .. Len(prepared)
BY PosInt DEF TypeOK

(* What is prepared, the peek has passed.                                  *)
LEMMA PreparedBelow ==
  ASSUME IInv, NEW k \in 1 .. Len(prepared)
  PROVE  prepared[k] \in Int /\ prepared[k] < peekhead
BY PreparedInts, Zenon DEF IInv, PreparedOrder

(* What is known of a link that dangles. *)
LEMMA DanglingLast ==
  ASSUME IInv, DanglingLink
  PROVE  /\ peekhead - 1 \in Link /\ peekhead - 1 = prepared[Len(prepared)]
         /\ InPrepared(peekhead - 1)
<1> TypeOK  BY Zenon DEF IInv
<1>1. prepared[Len(prepared)] \in Link /\ peekhead = prepared[Len(prepared)] + 1
  BY Zenon DEF IInv, LinkPending, DanglingLink
<1>2. Len(prepared) \in 1 .. Len(prepared) /\ prepared[Len(prepared)] \in Int
  BY PreparedInts, Zenon DEF DanglingLink
<1>3. peekhead - 1 = prepared[Len(prepared)]
  BY <1>1, <1>2
<1>. QED  BY <1>1, <1>2, <1>3, Zenon DEF InPrepared

(* The number of positions in a window of d + 1.                           *)
LEMMA IntervalSize ==
  ASSUME NEW a \in Int, NEW d \in Int, d >= 0
  PROVE  IsFiniteSet(a .. (a + d)) /\ Cardinality(a .. (a + d)) = d + 1
<1> DEFINE b == a + d
<1>1. b \in Int /\ ~(a > b) /\ b - a + 1 = d + 1
  OBVIOUS
<1>2. IsFiniteSet(a .. b) /\ Cardinality(a .. b) = b - a + 1
  <2> HIDE DEF b
  <2>. QED  BY <1>1, FS_Interval, Zenon
<1>. QED  BY <1>1, <1>2, Zenon

-----------------------------------------------------------------------------
(* The constructors establish the invariant.                               *)
LEMMA InitInv == Init => IInv
<1> SUFFICES ASSUME Init PROVE IInv
  BY Zenon
<1> USE PathAssumption DEF Init
<1>1. stage \in [Pos -> Stages] /\ runs \in [Pos -> Nat]
  BY Zenon DEF Stages
<1>2. \A i \in Pos : stage[i] = "none" /\ runs[i] = 0
  BY Zenon
<1>3. Len(prepared) = 0
  BY Zenon
<1>4. TypeOK
  <2>1. frontier \in 0 .. PathLen /\ peekhead \in 0 .. PathLen
    OBVIOUS
  <2>2. prepared \in Seq(Pos) /\ onthefly \in SUBSET Pos /\ cq \in SUBSET Pos
    OBVIOUS
  <2>3. /\ peekhead_distance \in Int /\ weakedge_distance \in Int
        /\ prepared_distance \in Int /\ num_prepared \in Nat /\ calls \in Nat
    OBVIOUS
  <2>4. peekhead_hit_end \in BOOLEAN
    BY Zenon
  <2>5. pc \in {"out", "app", "peek", "submit", "self", "drain"}
    BY Zenon
  <2>. HIDE DEF Init
  <2>. QED  BY <1>1, <2>1, <2>2, <2>3, <2>4, <2>5, Zenon DEF TypeOK
<1>5. EngineAgrees /\ NothingOutlivesSession
  BY <1>2, <1>3 DEF EngineAgrees, InPrepared, NothingOutlivesSession
<1>6. DistancesTrue /\ SessionBounds /\ PeekWindow
  BY WeakInt DEF DistancesTrue, SessionBounds, PeekWindow, InCall
<1>7. StageWindow /\ PreparedOrder /\ LinkPending
  BY <1>2, <1>3 DEF StageWindow, PreparedOrder, LinkPending, DanglingLink, InCall
<1>8. RunCount /\ ExactlyOnce
  BY <1>2, PosInt DEF RunCount, ExactlyOnce, InSession
<1>9. NoStrayEffect /\ EffectsAreCalls
  BY <1>2, <1>3, PosInt DEF NoStrayEffect, EffectsAreCalls, InEngine, InPrepared
<1>. QED  BY <1>4, <1>5, <1>6, <1>7, <1>8, <1>9, Zenon DEF IInv

(* foreactor_EnterSCGraph preserves the invariant: the last session has    *)
(* left nothing behind.                                                    *)
LEMMA EnterStep ==
  ASSUME IInv, Enter PROVE IInv'
<1> USE PathAssumption DEF IInv, Enter, graphVars
<1>1. \A i \in Pos : stage[i] = "none"
  BY DEF TypeOK, SessionBounds, StageWindow, Pos, InCall
<1>2. onthefly = {} /\ cq = {} /\ prepared = << >> /\ frontier = 0
  BY Zenon DEF NothingOutlivesSession, SessionBounds
<1>3. runs' \in [Pos -> Nat] /\ \A i \in Pos : runs'[i] = 0
  BY Zenon
<1>4. TypeOK'
  BY <1>3, Zenon DEF TypeOK
<1>5. EngineAgrees' /\ DistancesTrue' /\ SessionBounds' /\ PeekWindow'
  BY <1>2, Zenon DEF TypeOK, EngineAgrees, DistancesTrue, SessionBounds, PeekWindow, InPrepared, InCall
<1>6. StageWindow' /\ PreparedOrder' /\ LinkPending'
  BY <1>1, <1>2, Zenon DEF TypeOK, StageWindow, PreparedOrder, LinkPending, DanglingLink, InCall
<1>7. RunCount' /\ ExactlyOnce'
  BY <1>1, <1>2, <1>3 DEF RunCount, ExactlyOnce, InSession, Pos
<1>8. NoStrayEffect' /\ EffectsAreCalls' /\ NothingOutlivesSession'
  BY <1>2, <1>3 DEF NoStrayEffect, EffectsAreCalls, NothingOutlivesSession, InEngine, InPrepared
<1>. QED  BY <1>4, <1>5, <1>6, <1>7, <1>8, Zenon

(* A call that does not peek preserves it: only the frontier's own stage   *)
(* changes.                                                                *)
LEMMA CallNoPeekStep ==
  ASSUME IInv, CallNoPeek PROVE IInv'
<1> USE PathAssumption DEF IInv, CallNoPeek, engineVars
<1>1. /\ frontier \in Pos
      /\ stage' \in [Pos -> Stages]
      /\ stage'[frontier] = IF stage[frontier] = "none" THEN "argready" ELSE stage[frontier]
      /\ \A i \in Pos \ {frontier} : stage'[i] = stage[i]
  BY DEF TypeOK, CheckArgs, Pos, Stages
<1>2. TypeOK' /\ SessionBounds' /\ PeekWindow' /\ PreparedOrder' /\ DistancesTrue'
  BY <1>1 DEF TypeOK, SessionBounds, PeekWindow, PreparedOrder, DistancesTrue, InCall
<1>3. EngineAgrees'
  BY <1>1, Zenon DEF TypeOK, EngineAgrees, InPrepared
<1>4. StageWindow'
  BY <1>1 DEF TypeOK, StageWindow, InCall, Stages
<1>5. ~DanglingLink
  BY LinkAssumption DEF TypeOK, DanglingLink, PreparedOrder, LinkPending, PeekWindow, Pos
<1>6. LinkPending'
  BY <1>5, Zenon DEF LinkPending, DanglingLink
<1>7. RunCount' /\ ExactlyOnce'
  BY <1>1, Zenon DEF TypeOK, RunCount, ExactlyOnce, InSession
<1>8. NoStrayEffect' /\ EffectsAreCalls' /\ NothingOutlivesSession'
  BY SMTT(30) DEF TypeOK, NoStrayEffect, EffectsAreCalls, NothingOutlivesSession, InEngine, InPrepared, Inevitable, Pos
<1>. QED  BY <1>2, <1>3, <1>4, <1>6, <1>7, <1>8, Zenon

(* A call that peeks preserves it, whether the peek catches up or not.     *)
LEMMA CallPeekStep ==
  ASSUME IInv, CallPeek PROVE IInv'
<1> TypeOK  BY Zenon DEF IInv
<1> USE DEF IInv
<1>1. /\ pc = "app" /\ pc' = "peek" /\ Depth > 0 /\ calls' = calls + 1
      /\ UNCHANGED <<frontier, weakedge_distance, prepared_distance, num_prepared,
                     prepared, onthefly, cq, runs>>
  BY Zenon DEF CallPeek, engineVars
<1>2. frontier \in Pos /\ stage' \in [Pos -> Stages]
  BY PathAssumption DEF CallPeek, TypeOK, CheckArgs, Stages, Pos
<1>3. /\ stage'[frontier] = IF stage[frontier] = "none" THEN "argready" ELSE stage[frontier]
      /\ \A i \in Pos : i # frontier => stage'[i] = stage[i]
  BY <1>2, Zenon DEF CallPeek, TypeOK, CheckArgs
<1>4. /\ peekhead' \in Int /\ peekhead_distance' \in Int
      /\ peekhead' = frontier + 1 + peekhead_distance'
      /\ peekhead_distance' >= 0 /\ peekhead_distance' <= Depth
      /\ peekhead <= peekhead' /\ frontier < peekhead'
      /\ peekhead <= frontier \/ peekhead' = peekhead
      /\ peekhead' = peekhead \/ peekhead' = frontier + 1
  BY <1>1, Ints, SMTT(30) DEF CallPeek, CatchUp, DistancesTrue, PeekWindow
<1>5. peekhead' \in 0 .. PathLen
  BY Ints DEF CallPeek, CatchUp, TypeOK
<1>5a. peekhead_hit_end' \in BOOLEAN /\ (peekhead_hit_end' => peekhead' = PathLen)
  BY Zenon DEF CallPeek
<1>6. TypeOK'
  <2>1. peekhead_distance' \in Int BY <1>4, Zenon
  <2> QED BY <1>1, <1>2, <1>5, <1>5a, <2>1 DEF TypeOK
<1>7. SessionBounds' /\ PeekWindow'
  BY <1>1, <1>2, <1>4, <1>5a, Ints, Zenon DEF SessionBounds, PeekWindow, InCall
<1>8. PreparedOrder'
  <2>1. ASSUME NEW k \in 1 .. Len(prepared) PROVE prepared[k] < peekhead'
    <3>1. prepared[k] < peekhead /\ prepared[k] \in Int
      BY PreparedInts, Zenon DEF PreparedOrder
    <3>. QED  BY <1>4, <3>1, Ints, SMTT(30)
  <2>. QED  BY <1>1, <2>1, Zenon DEF PreparedOrder
<1>9. DistancesTrue'
  <2>1. \A j \in Weak : frontier <= j /\ j < peekhead' - 1 => weakedge_distance >= j - frontier
    <3> TAKE j \in Weak
    <3>1. frontier <= j /\ j < peekhead - 1 => weakedge_distance >= j - frontier
      BY <1>1, Zenon DEF DistancesTrue
    <3>. QED  BY <1>4, <3>1, Ints, WeakInt
  <2>2. weakedge_distance <= peekhead_distance'
    BY <1>1, <1>4, Ints, SMTT(30) DEF DistancesTrue
  <2>. QED  BY <1>1, <1>4, <2>1, <2>2, Zenon DEF DistancesTrue
<1>10. EngineAgrees'
  BY <1>1, <1>2, <1>3, Zenon DEF TypeOK, EngineAgrees, InPrepared
<1>11. StageWindow'
  BY <1>1, <1>2, <1>3, <1>4, Ints, PosInt DEF StageWindow, InCall
<1>12. LinkPending'
  <2>1. prepared # << >> => ~(peekhead <= frontier)
    <3> SUFFICES ASSUME prepared # << >> PROVE peekhead > frontier
      BY Ints
    <3>1. prepared[1] \in Int /\ frontier <= prepared[1] /\ prepared[1] < peekhead
      BY PreparedInts, Zenon DEF PreparedOrder
    <3>. QED  BY <3>1, Ints
  <2>2. prepared # << >> => peekhead' = peekhead
    BY <1>4, <2>1, Zenon
  <2>. QED  BY <1>1, <2>2, Zenon DEF LinkPending, DanglingLink
<1>13. RunCount' /\ ExactlyOnce'
  BY <1>1, <1>2, <1>3, Zenon DEF TypeOK, RunCount, ExactlyOnce, InSession
<1>14. NoStrayEffect'
  <2> SUFFICES ASSUME NEW i \in Seff, Inevitable(i) PROVE Inevitable(i)'
    BY <1>1, Zenon DEF NoStrayEffect, InEngine, InPrepared
  <2> i \in Int /\ calls \in Nat /\ calls' = calls + 1
    BY <1>1, PathAssumption DEF TypeOK, Pos
  <2> QED
  BY WeakInt DEF Inevitable
<1>15. EffectsAreCalls' /\ NothingOutlivesSession'
  BY <1>1, Zenon DEF EffectsAreCalls, NothingOutlivesSession
<1>. QED  BY <1>6, <1>7, <1>8, <1>9, <1>10, <1>11, <1>12, <1>13, <1>14, <1>15, Zenon

(* WeakDistance is the distance of the furthest weak edge up to and        *)
(* including the edge into the node peeked at.                             *)
LEMMA WeakDistanceTrue ==
  ASSUME TypeOK, DistancesTrue, pc = "peek"
  PROVE  /\ WeakDistance \in Int /\ WeakDistance <= peekhead_distance
         /\ WeakDistance >= 0 => frontier + WeakDistance \in Weak
         /\ \A j \in Weak : frontier <= j /\ j < peekhead => WeakDistance >= j - frontier
<1>1. CASE peekhead - 1 \in Weak
  <2>1. WeakDistance = peekhead_distance
    BY <1>1, Zenon DEF WeakDistance
  <2>2. peekhead = frontier + 1 + peekhead_distance
    BY Zenon DEF DistancesTrue
  <2>. QED  BY <1>1, <2>1, <2>2, Ints, WeakInt
<1>2. CASE peekhead - 1 \notin Weak
  <2>1. WeakDistance = weakedge_distance
    BY <1>2, Zenon DEF WeakDistance
  <2>2. \A j \in Weak : j < peekhead => j < peekhead - 1
    BY <1>2, Ints, WeakInt
  <2>. QED  BY <2>1, <2>2, Ints, Zenon DEF DistancesTrue
<1>. QED  BY <1>1, <1>2, Zenon

(* The end of the peek loop preserves it: a link can dangle only at the    *)
(* end of the window, because its successor is on the path.                *)
LEMMA PeekDoneStep ==
  ASSUME IInv, PeekDone PROVE IInv'
<1> TypeOK  BY Zenon DEF IInv
<1> USE DEF IInv, PeekDone, graphVars, engineVars
<1>1. DanglingLink => peekhead_distance = Depth
  <2> SUFFICES ASSUME DanglingLink PROVE peekhead_distance >= Depth
    BY Ints DEF PeekWindow
  <2>1. peekhead \in Pos
    BY LinkAssumption, Zenon DEF DanglingLink, LinkPending
  <2>. QED  BY <2>1, PosInt DEF AtNull
<1>2. LinkPending'
  BY <1>1, Zenon DEF LinkPending, DanglingLink
<1>. QED
  BY <1>2, Zenon DEF TypeOK, SessionBounds, PeekWindow, PreparedOrder, DistancesTrue,
     EngineAgrees, StageWindow, RunCount, ExactlyOnce, NoStrayEffect,
     EffectsAreCalls, NothingOutlivesSession, InCall, InSession, InPrepared,
     InEngine, Inevitable

(* An undecided branch preserves it: only the weak edge distance moves.    *)
LEMMA PeekBarrierStep ==
  ASSUME IInv, PeekBarrier PROVE IInv'
<1> TypeOK  BY Zenon DEF IInv
<1> USE DEF IInv, PeekBarrier, Peeking, engineVars
<1>1. TypeOK'
  BY WeakDistanceTrue, Zenon DEF TypeOK
<1>2. DistancesTrue'
  BY WeakDistanceTrue, Ints, WeakInt DEF DistancesTrue
<1>3. LinkPending'
  <2>1. ~DanglingLink
    BY DanglingLast, Zenon
  <2>. QED  BY <2>1, Zenon DEF LinkPending, DanglingLink
<1>. QED
  BY <1>1, <1>2, <1>3, Zenon DEF SessionBounds, PeekWindow, PreparedOrder,
     EngineAgrees, StageWindow, RunCount, ExactlyOnce, NoStrayEffect,
     EffectsAreCalls, NothingOutlivesSession, InCall, InSession, InPrepared,
     InEngine, Inevitable

(* The end of the graph preserves it: no link dangles there.               *)
LEMMA PeekEndStep ==
  ASSUME IInv, PeekEnd PROVE IInv'
<1> TypeOK  BY Zenon DEF IInv
<1> USE DEF IInv, PeekEnd, Peeking, engineVars
<1>1. TypeOK'
  BY WeakDistanceTrue, Zenon DEF TypeOK
<1>2. DistancesTrue'
  BY WeakDistanceTrue, Ints, WeakInt, Zenon DEF DistancesTrue
<1>3. LinkPending'
  <2>1. ~DanglingLink
    BY LinkAssumption, PosInt, Ints DEF LinkPending, DanglingLink
  <2>. QED  BY <2>1, Zenon DEF LinkPending, DanglingLink
<1>. QED
  BY <1>1, <1>2, <1>3, Zenon DEF SessionBounds, PeekWindow, PreparedOrder,
     EngineAgrees, StageWindow, RunCount, ExactlyOnce, NoStrayEffect,
     EffectsAreCalls, NothingOutlivesSession, InCall, InSession, InPrepared,
     InEngine, Inevitable

(* The conjuncts that moving the peek on by one syscall could disturb,     *)
(* whatever becomes of that syscall.                                       *)
LEMMA PeekMoves ==
  ASSUME IInv, Peeking, peekhead \in Pos, PeekContinue
  PROVE  /\ peekhead' \in 0 .. PathLen /\ peekhead_distance' \in Int
         /\ weakedge_distance' \in Int /\ weakedge_distance' <= peekhead_distance'
         /\ peekhead' = frontier' + 1 + peekhead_distance'
         /\ weakedge_distance' >= 0 => frontier' + weakedge_distance' \in Weak
         /\ \A j \in Weak : frontier' <= j /\ j < peekhead' - 1
                            => weakedge_distance' >= j - frontier'
         /\ SessionBounds' /\ PeekWindow'
<1> TypeOK  BY Zenon DEF IInv
<1>1. /\ pc = "peek" /\ peekhead_distance < Depth /\ peekhead' = peekhead + 1
      /\ peekhead_distance' = peekhead_distance + 1 /\ weakedge_distance' = WeakDistance
      /\ UNCHANGED <<pc, frontier, peekhead_hit_end, onthefly, cq, runs, calls>>
  BY Zenon DEF Peeking, PeekContinue
<1>2. peekhead = frontier + 1 + peekhead_distance
  BY <1>1, Zenon DEF IInv, DistancesTrue
<1>3. peekhead' \in 0 .. PathLen /\ peekhead_distance' \in Int
      /\ peekhead' = frontier' + 1 + peekhead_distance'
  BY <1>1, <1>2, Ints, PosInt
<1>4. /\ weakedge_distance' \in Int /\ weakedge_distance' <= peekhead_distance'
      /\ weakedge_distance' >= 0 => frontier' + weakedge_distance' \in Weak
      /\ \A j \in Weak : frontier' <= j /\ j < peekhead' - 1
                         => weakedge_distance' >= j - frontier'
  BY <1>1, WeakDistanceTrue, Ints, WeakInt DEF IInv
<1>5. SessionBounds'
  BY <1>1, Zenon DEF IInv, SessionBounds, InCall
<1>6. PeekWindow'
  BY <1>1, Ints, PosInt DEF IInv, PeekWindow
<1>. QED  BY <1>3, <1>4, <1>5, <1>6, Zenon

(* Passing a syscall whose arguments are not ready preserves it.           *)
LEMMA PeekNotReadyStep ==
  ASSUME IInv, PeekNotReady PROVE IInv'
<1> TypeOK  BY Zenon DEF IInv
<1>1. /\ pc = "peek" /\ peekhead' = peekhead + 1
      /\ UNCHANGED <<pc, frontier, peekhead_hit_end, prepared_distance, num_prepared,
                     stage, prepared, onthefly, cq, runs, calls>>
  BY Zenon DEF PeekNotReady, Peeking, PeekContinue
<1>2. TypeOK' /\ SessionBounds' /\ PeekWindow'
  BY <1>1, PeekMoves, Zenon DEF PeekNotReady, TypeOK
<1>3. DistancesTrue'
  BY <1>1, PeekMoves, Zenon DEF IInv, PeekNotReady, DistancesTrue
<1>4. EngineAgrees' /\ RunCount' /\ ExactlyOnce' /\ NoStrayEffect'
      /\ EffectsAreCalls' /\ NothingOutlivesSession'
  BY <1>1, Zenon DEF IInv, EngineAgrees, RunCount, ExactlyOnce, NoStrayEffect, EffectsAreCalls,
     NothingOutlivesSession, InSession, InPrepared, InEngine, Inevitable
<1>5. StageWindow'
  BY <1>1, Ints, PosInt DEF IInv, StageWindow, InCall
<1>6. PreparedOrder'
  <2>1. ASSUME NEW k \in 1 .. Len(prepared) PROVE prepared[k] < peekhead + 1
    BY PreparedBelow, Ints, SMTT(30)
  <2>. QED  BY <1>1, <2>1, Zenon DEF IInv, PreparedOrder
<1>7. LinkPending'
  <2>1. ~DanglingLink
    <3> SUFFICES ASSUME DanglingLink PROVE FALSE
      BY Zenon
    <3>1. peekhead - 1 \in Link /\ peekhead - 1 \in Pos /\ InPrepared(peekhead - 1)
      BY DanglingLast, PathAssumption, Zenon
    <3>2. stage[peekhead - 1] = "prepared"
      BY <1>1, <3>1, Zenon DEF IInv, EngineAgrees
    <3>. QED  BY <3>1, <3>2, Zenon DEF PeekNotReady
  <2>. QED  BY <1>1, <2>1, Zenon DEF IInv, LinkPending, DanglingLink
<1>. QED  BY <1>2, <1>3, <1>4, <1>5, <1>6, <1>7, Zenon DEF IInv

(* Passing a side effect behind a weak edge preserves it: such a syscall   *)
(* is not the successor of a link.                                         *)
LEMMA PeekUnforeactableStep ==
  ASSUME IInv, PeekUnforeactable PROVE IInv'
<1> TypeOK  BY Zenon DEF IInv
<1>1. /\ pc = "peek" /\ peekhead' = peekhead + 1 /\ peekhead \in Pos
      /\ UNCHANGED <<pc, frontier, peekhead_hit_end, prepared_distance, num_prepared,
                     prepared, onthefly, cq, runs, calls>>
  BY Zenon DEF PeekUnforeactable, Peeking, PeekContinue
<1>2. stage' \in [Pos -> Stages]
  BY Zenon DEF PeekUnforeactable, TypeOK, Stages
<1>3. /\ stage[peekhead] \in {"none", "argready"} /\ stage'[peekhead] = "argready"
      /\ \A i \in Pos : i # peekhead => stage'[i] = stage[i]
  BY Zenon DEF PeekUnforeactable, TypeOK
<1>4. TypeOK' /\ SessionBounds' /\ PeekWindow'
  BY <1>1, <1>2, PeekMoves, Zenon DEF PeekUnforeactable, TypeOK
<1>5. DistancesTrue'
  BY <1>1, PeekMoves, Zenon DEF IInv, PeekUnforeactable, DistancesTrue
<1>6. EngineAgrees' /\ NothingOutlivesSession' /\ EffectsAreCalls'
  BY <1>1, <1>3 DEF IInv, EngineAgrees, InPrepared, NothingOutlivesSession, EffectsAreCalls
<1>7. RunCount' /\ ExactlyOnce' /\ NoStrayEffect'
  BY <1>1, <1>3, Zenon DEF IInv, RunCount, ExactlyOnce, NoStrayEffect, InSession, InPrepared,
     InEngine, Inevitable
<1>8. frontier < peekhead
  BY <1>1, Ints, SMTT(30) DEF IInv, DistancesTrue, PeekWindow
<1>9. StageWindow'
  <2>1. ASSUME NEW i \in Pos, i # peekhead
        PROVE  /\ stage'[i] # "none" =>
                    i >= frontier /\ (i < peekhead + 1 \/ i = frontier)
               /\ stage'[i] \in {"prepared", "onthefly"} => i < peekhead + 1
    BY <1>1, <1>3, <2>1, Ints, PosInt DEF IInv, StageWindow, InCall
  <2>2. stage'[frontier] # "none"
    BY <1>1, <1>3, <1>8, Zenon DEF IInv, SessionBounds, StageWindow, InCall
  <2>. QED  BY <1>1, <1>3, <1>8, <2>1, <2>2, Ints DEF StageWindow, InCall
<1>10. PreparedOrder'
  <2>1. ASSUME NEW k \in 1 .. Len(prepared) PROVE prepared[k] < peekhead + 1
    BY PreparedBelow, Ints
  <2>. QED  BY <1>1, <2>1, Zenon DEF IInv, PreparedOrder
<1>11. LinkPending'
  <2>1. ~DanglingLink
    <3> SUFFICES ASSUME DanglingLink PROVE FALSE
      BY Zenon
    <3>1. peekhead - 1 \in Link
      BY DanglingLast, Zenon
    <3>2. peekhead \in Seff /\ WeakDistance >= 0
      BY Zenon DEF PeekUnforeactable, Foreactable
    <3>3. PICK j \in Weak : frontier <= j /\ j < peekhead
      <4>1. frontier + WeakDistance \in Weak /\ WeakDistance \in Int
        BY <1>1, <3>2, WeakDistanceTrue, Zenon DEF IInv
      <4>2. frontier + WeakDistance < peekhead
        BY <1>1, WeakDistanceTrue, Ints, SMTT(30) DEF IInv, DistancesTrue
      <4>. QED  BY <3>2, <4>1, <4>2, Ints
    <3>4. j <= peekhead - 1 - Depth
      <4>1. (peekhead - 1) + 1 \in Seff
        BY <3>2, Ints
      <4>. QED  BY <3>1, <4>1, <3>3, LinkAssumption, Ints, WeakInt
    <3>5. peekhead - 1 - Depth < frontier
      BY <1>1, Ints, SMTT(30) DEF PeekUnforeactable, Peeking, IInv, DistancesTrue
    <3>. QED  BY <3>3, <3>4, <3>5, Ints, WeakInt
  <2>. QED  BY <1>1, <2>1, Zenon DEF IInv, LinkPending, DanglingLink
<1>. QED  BY <1>4, <1>5, <1>6, <1>7, <1>9, <1>10, <1>11, Zenon DEF IInv

(* Preparing a syscall preserves it: it is new to the engine, last in path *)
(* order, and inevitable if it has a side effect.                          *)
LEMMA PeekPrepareStep ==
  ASSUME IInv, PeekPrepare PROVE IInv'
<1> TypeOK  BY Zenon DEF IInv
<1>1. /\ pc = "peek" /\ peekhead' = peekhead + 1 /\ peekhead \in Pos
      /\ peekhead_distance < Depth /\ num_prepared' = num_prepared + 1
      /\ UNCHANGED <<pc, frontier, peekhead_hit_end, onthefly, cq, runs, calls>>
  BY Zenon DEF PeekPrepare, Peeking, PeekContinue
<1>2. stage' \in [Pos -> Stages]
  BY Zenon DEF PeekPrepare, TypeOK, Stages
<1>3. /\ stage[peekhead] \in {"none", "argready"} /\ stage'[peekhead] = "prepared"
      /\ \A i \in Pos : i # peekhead => stage'[i] = stage[i]
  BY Zenon DEF PeekPrepare, TypeOK
<1>4. /\ prepared' \in Seq(Pos) /\ Len(prepared') = Len(prepared) + 1
      /\ prepared' # << >>
      /\ prepared'[Len(prepared) + 1] = peekhead
      /\ \A k \in 1 .. Len(prepared) : prepared'[k] = prepared[k]
  BY <1>1 DEF PeekPrepare, TypeOK
<1>5. num_prepared = Len(prepared) /\ peekhead = frontier + 1 + peekhead_distance
  BY <1>1, Zenon DEF IInv, EngineAgrees, DistancesTrue
<1>6. /\ prepared_distance' \in Int
      /\ prepared'[1] = frontier + 1 + prepared_distance'
      /\ frontier <= prepared'[1]
  <2>1. CASE prepared = << >>
    <3>1. prepared'[1] = peekhead /\ prepared_distance' = peekhead_distance
      BY <1>4, <1>5, <2>1 DEF PeekPrepare, EarliestPrepared
    <3>2. peekhead_distance >= 0
      BY <1>1, Zenon DEF IInv, PeekWindow
    <3>. QED  BY <1>5, <3>1, <3>2, Ints
  <2>2. CASE prepared # << >>
    <3>1. num_prepared # 0 /\ 1 \in 1 .. Len(prepared)
      BY <1>5, <2>2, PreparedInts
    <3>2. prepared'[1] = prepared[1] /\ prepared_distance' = prepared_distance
      BY <1>4, <3>1, Zenon DEF PeekPrepare, EarliestPrepared
    <3>. QED  BY <1>1, <2>2, <3>2, Ints, Zenon DEF IInv, DistancesTrue, PreparedOrder
  <2>. QED  BY <2>1, <2>2, Zenon
<1>7. TypeOK' /\ SessionBounds' /\ PeekWindow'
  <2>1. num_prepared' \in Nat
    BY <1>1 DEF TypeOK
  <2>. QED  BY <1>1, <1>2, <1>4, <1>6, <2>1, PeekMoves, Zenon DEF PeekPrepare, TypeOK
<1>8. DistancesTrue'
  BY <1>1, <1>6, PeekMoves, Zenon DEF PeekPrepare, DistancesTrue
<1>9. EngineAgrees'
  <2>1. num_prepared' = Len(prepared')
    BY <1>1, <1>4, <1>5, Zenon
  <2>2. ASSUME NEW i \in Pos
        PROVE  (\E k \in 1 .. Len(prepared') : prepared'[k] = i)
               <=> (i = peekhead \/ InPrepared(i))
    BY <1>4, PreparedInts DEF InPrepared
  <2>3. ASSUME NEW i \in Pos PROVE InPrepared(i)' <=> stage'[i] = "prepared"
    BY <1>1, <1>3, <2>2 DEF IInv, EngineAgrees, InPrepared
  <2>4. \A i \in Pos : i \in onthefly' <=> stage'[i] = "onthefly"
    BY <1>1, <1>3, Zenon DEF IInv, EngineAgrees
  <2>. QED  BY <1>1, <2>1, <2>3, <2>4, Zenon DEF IInv, EngineAgrees
<1>10. frontier < peekhead
  BY <1>1, <1>5, Ints, SMTT(30) DEF IInv, PeekWindow
<1>11. StageWindow'
  <2>1. ASSUME NEW i \in Pos, i # peekhead
        PROVE  /\ stage'[i] # "none" =>
                    i >= frontier /\ (i < peekhead + 1 \/ i = frontier)
               /\ stage'[i] \in {"prepared", "onthefly"} => i < peekhead + 1
    BY <1>1, <1>3, <2>1, Ints, PosInt DEF IInv, StageWindow, InCall
  <2>2. stage'[frontier] # "none"
    BY <1>1, <1>3, <1>10, Zenon DEF IInv, SessionBounds, StageWindow, InCall
  <2>. QED  BY <1>1, <1>3, <1>10, <2>1, <2>2, Ints DEF StageWindow, InCall
<1>12. PreparedOrder'
  <2>1. ASSUME NEW k \in 1 .. Len(prepared)
        PROVE  prepared'[k] >= prepared'[1] + k - 1 /\ prepared'[k] < peekhead + 1
    <3>1. prepared'[k] = prepared[k] /\ prepared'[1] = prepared[1]
      BY <1>4, PreparedInts
    <3>2. prepared[k] >= prepared[1] + k - 1
      BY Zenon DEF IInv, PreparedOrder
    <3>. QED  BY <3>1, <3>2, PreparedBelow, Ints, SMTT(30)
  <2>2. peekhead >= prepared'[1] + Len(prepared)
    <3>1. CASE prepared = << >>
      BY <1>4, <3>1, Ints
    <3>2. CASE prepared # << >>
      <4>1. prepared'[1] = prepared[1] /\ prepared[1] \in Int
        BY <1>4, <3>2, PreparedInts, Zenon
      <4>2. prepared[Len(prepared)] >= prepared[1] + Len(prepared) - 1
        BY <3>2, PreparedInts, Zenon DEF IInv, PreparedOrder
      <4>3. prepared[Len(prepared)] \in Int /\ prepared[Len(prepared)] < peekhead
        BY <3>2, PreparedInts, PreparedBelow, Zenon
      <4>4. Len(prepared) \in Int
        BY PreparedInts
      <4>. QED  BY <4>1, <4>2, <4>3, <4>4, Ints, SMTT(30)
    <3>. QED  BY <3>1, <3>2, Zenon
  <2>3. ASSUME NEW k \in 1 .. Len(prepared')
        PROVE  prepared'[k] >= prepared'[1] + k - 1 /\ prepared'[k] < peekhead'
    <3>1. CASE k \in 1 .. Len(prepared)
      BY <1>1, <2>1, <3>1, Zenon
    <3>2. CASE k = Len(prepared) + 1
      <4>1. prepared'[k] = peekhead /\ prepared'[1] \in Int
        BY <1>4, <1>6, <3>2, Ints, SMTT(30)
      <4>. QED  BY <1>1, <2>2, <3>2, <4>1, PreparedInts, Ints, SMTT(30)
    <3>. QED  BY <1>4, <3>1, <3>2, PreparedInts
  <2>4. Depth > 0
    BY <1>1, Zenon DEF IInv, PeekWindow
  <2>. QED  BY <1>1, <1>6, <2>3, <2>4, Zenon DEF PreparedOrder
<1>13. LinkPending'
  <2>1. prepared'[Len(prepared')] = peekhead
    BY <1>4, Zenon
  <2>2. prepared_distance' < 0 => frontier + Depth - 1 \in Link
    <3>1. CASE prepared = << >>
      BY <1>1, <1>5, <3>1, Ints DEF PeekPrepare, EarliestPrepared, IInv, PeekWindow
    <3>2. CASE prepared # << >>
      <4>1. num_prepared # 0
        BY <1>5, <3>2, PreparedInts
      <4>. QED  BY <1>1, <3>2, <4>1, Zenon DEF PeekPrepare, EarliestPrepared, IInv, LinkPending
    <3>. QED  BY <3>1, <3>2, Zenon
  <2>. QED  BY <1>1, <2>1, <2>2, Zenon DEF LinkPending, DanglingLink
<1>14. RunCount' /\ ExactlyOnce'
  BY <1>1, <1>3, Zenon DEF IInv, RunCount, ExactlyOnce, InSession
<1>15. NoStrayEffect'
  <2>1. peekhead \in Seff => Inevitable(peekhead)
    <3> SUFFICES ASSUME peekhead \in Seff, NEW j \in Weak, frontier <= j, j < peekhead
                 PROVE FALSE
      <4>1. calls = frontier + 1
        BY <1>1, Zenon DEF IInv, SessionBounds, InCall
      <4>. QED  BY <4>1, Ints, WeakInt DEF Inevitable
    <3>1. WeakDistance < 0
      BY <1>1, WeakDistanceTrue DEF IInv, PeekPrepare, Foreactable
    <3>. QED  BY <1>1, <3>1, WeakDistanceTrue, Ints, WeakInt DEF IInv
  <2>2. InEngine' \subseteq InEngine \cup {peekhead}
    BY <1>1, <1>4, PreparedInts DEF InEngine, InPrepared
  <2>. QED  BY <1>1, <2>1, <2>2, Zenon DEF IInv, NoStrayEffect, Inevitable
<1>16. EffectsAreCalls' /\ NothingOutlivesSession'
  BY <1>1, Zenon DEF EffectsAreCalls, NothingOutlivesSession
<1>. QED  BY <1>7, <1>8, <1>9, <1>11, <1>12, <1>13, <1>14, <1>15, <1>16, Zenon DEF IInv

(* Submission preserves it: all that was prepared changes sets and stages  *)
(* together.                                                               *)
LEMMA SubmitAllStep ==
  ASSUME IInv, SubmitAll PROVE IInv'
<1> TypeOK  BY Zenon DEF IInv
<1>1. /\ pc = "submit" /\ pc' = "self" /\ prepared' = << >>
      /\ prepared_distance' = -1 /\ num_prepared' = 0
      /\ UNCHANGED <<frontier, peekhead, peekhead_distance, peekhead_hit_end,
                     weakedge_distance, cq, runs, calls>>
  BY Zenon DEF SubmitAll, ClearPrepared
<1>2. \A i \in Pos : InPrepared(i) <=> stage[i] = "prepared"
  BY <1>1, Zenon DEF IInv, EngineAgrees
<1>3. /\ stage' \in [Pos -> Stages]
      /\ \A i \in Pos : stage'[i] = IF stage[i] = "prepared" THEN "onthefly" ELSE stage[i]
  BY <1>2, Zenon DEF SubmitAll, TypeOK, Stages
<1>4. onthefly' = onthefly \cup {i \in Pos : stage[i] = "prepared"}
  BY <1>2, Zenon DEF SubmitAll
<1>5. TypeOK'
  BY <1>1, <1>3, <1>4 DEF TypeOK
<1>6. EngineAgrees'
  <2>1. Len(prepared') = 0
    BY <1>1, Zenon
  <2>2. \A i \in Pos : ~InPrepared(i)'
    BY <2>1 DEF InPrepared
  <2>. QED  BY <1>1, <1>3, <1>4, <2>1, <2>2, Zenon DEF IInv, EngineAgrees
<1>7. DistancesTrue' /\ SessionBounds'
  BY <1>1, Zenon DEF IInv, DistancesTrue, SessionBounds, InCall
<1>8. StageWindow'
  BY <1>1, <1>3, Zenon DEF IInv, StageWindow, InCall, SessionBounds
<1>9. PeekWindow'
  <2>1. ASSUME NEW i \in onthefly' PROVE i \in frontier .. (frontier + Depth)
    <3>1. i \in Pos /\ stage'[i] = "onthefly"
      BY <1>1, <1>3, <1>4, Zenon DEF IInv, TypeOK, EngineAgrees
    <3>2. frontier <= i /\ i < peekhead
      BY <1>1, <3>1, <1>8, Zenon DEF StageWindow
    <3>3. peekhead = frontier + 1 + peekhead_distance /\ peekhead_distance <= Depth
      BY <1>1, Zenon DEF IInv, DistancesTrue, PeekWindow
    <3>. QED  BY <3>1, <3>2, <3>3, Ints, PosInt
  <2>. QED  BY <1>1, <2>1, Zenon DEF IInv, PeekWindow
<1>10. PreparedOrder' /\ LinkPending'
  BY <1>1 DEF PreparedOrder, LinkPending, DanglingLink
<1>11. RunCount' /\ ExactlyOnce'
  <2>1. ASSUME NEW i \in Pos, stage[i] = "prepared" PROVE runs[i] = 0
    <3>1. i >= frontier /\ i \notin cq
      BY <1>1, <2>1, Zenon DEF IInv, StageWindow, EngineAgrees
    <3>. QED  BY <1>1, <2>1, <3>1, Ints, PosInt DEF IInv, RunCount, InSession
  <2>. QED  BY <1>1, <1>3, <1>4, <2>1, Zenon DEF IInv, RunCount, ExactlyOnce, InSession
<1>12. NoStrayEffect'
  <2>1. InEngine' = InEngine
    BY <1>1, <1>2, <1>4 DEF InEngine, InPrepared
  <2>. QED  BY <1>1, <2>1, Zenon DEF IInv, NoStrayEffect, Inevitable
<1>13. EffectsAreCalls' /\ NothingOutlivesSession'
  BY <1>1, Zenon DEF EffectsAreCalls, NothingOutlivesSession
<1>. QED  BY <1>5, <1>6, <1>7, <1>8, <1>9, <1>10, <1>11, <1>12, <1>13, Zenon DEF IInv

(* Putting the submission off preserves it: the earliest request prepared  *)
(* is not the frontier, or a link dangles at the end of the window.        *)
LEMMA SubmitNoneStep ==
  ASSUME IInv, SubmitNone PROVE IInv'
<1> TypeOK  BY Zenon DEF IInv
<1> USE DEF IInv, SubmitNone, graphVars, engineVars
<1>1. LinkPending'
  <2> SUFFICES ASSUME prepared # << >>
               PROVE  /\ prepared_distance >= 0
                      /\ prepared_distance = 0 => frontier + Depth \in Link
    BY Zenon DEF LinkPending, DanglingLink
  <2>1. num_prepared > 0
    BY PreparedInts DEF EngineAgrees
  <2>2. CASE DanglingLink
    <3>1. prepared[Len(prepared)] = frontier + Depth
      <4>1. peekhead_distance = Depth /\ peekhead = frontier + 1 + peekhead_distance
        BY <2>2, Zenon DEF LinkPending, DistancesTrue
      <4>. QED  BY <2>2, <4>1, DanglingLast, Ints, SMTT(30)
    <3>2. frontier + Depth \in Link
      BY <2>2, <3>1, Zenon DEF DanglingLink
    <3>3. ~(prepared_distance < 0)
      <4> SUFFICES ASSUME prepared_distance < 0 PROVE FALSE
        BY Zenon
      <4>1. frontier + Depth - 1 \in Link
        BY Zenon DEF LinkPending
      <4>2. (frontier + Depth - 1) + 1 \notin Link
        BY <4>1, LinkAssumption, Zenon
      <4>. QED  BY <3>2, <4>2, Ints
    <3>. QED  BY <3>2, <3>3, Ints
  <2>3. CASE ~DanglingLink
    BY <2>1, <2>3, Ints, SMTT(30) DEF ShouldSubmit
  <2>. QED  BY <2>2, <2>3, Zenon
<1>. QED
  BY <1>1, Zenon DEF TypeOK, SessionBounds, PeekWindow, PreparedOrder, DistancesTrue,
     EngineAgrees, StageWindow, RunCount, ExactlyOnce, NoStrayEffect,
     EffectsAreCalls, NothingOutlivesSession, InCall, InSession, InPrepared,
     InEngine, Inevitable

(* The synchronous syscall preserves it: it has not been handed to the     *)
(* engine.                                                                 *)
LEMMA SyscallSyncStep ==
  ASSUME IInv, SyscallSync PROVE IInv'
<1> TypeOK  BY Zenon DEF IInv
<1>1. /\ pc = "self" /\ pc' = "self"
      /\ UNCHANGED <<frontier, peekhead, peekhead_distance, peekhead_hit_end,
                     weakedge_distance, prepared_distance, num_prepared,
                     prepared, onthefly, cq, calls>>
  BY Zenon DEF SyscallSync
<1>2. frontier \in Pos /\ calls = frontier + 1 /\ stage[frontier] = "argready"
  BY <1>1, Zenon DEF IInv, SessionBounds, InCall, SyscallSync
<1>3. stage' \in [Pos -> Stages] /\ runs' \in [Pos -> Nat]
  BY <1>2 DEF SyscallSync, TypeOK, Stages
<1>4. /\ stage'[frontier] = "finished" /\ runs'[frontier] = runs[frontier] + 1
      /\ \A i \in Pos : i # frontier => stage'[i] = stage[i] /\ runs'[i] = runs[i]
  BY <1>2, Zenon DEF SyscallSync, TypeOK
<1>5. TypeOK'
  BY <1>1, <1>3, Zenon DEF TypeOK
<1>6. EngineAgrees'
  BY <1>1, <1>2, <1>4, SMTT(30) DEF IInv, EngineAgrees, InPrepared
<1>7. DistancesTrue' /\ SessionBounds' /\ PeekWindow' /\ PreparedOrder' /\ LinkPending'
  BY <1>1, Zenon DEF IInv, DistancesTrue, SessionBounds, PeekWindow, PreparedOrder, LinkPending,
     DanglingLink, InCall
<1>8. StageWindow'
  BY <1>1, <1>2, <1>4, Ints, Zenon DEF IInv, StageWindow, InCall
<1>9. runs[frontier] = 0 /\ frontier \notin onthefly
  BY <1>1, <1>2, Ints, SMTT(30) DEF IInv, RunCount, InSession, EngineAgrees
<1>10. RunCount' /\ ExactlyOnce'
  <2>1. ASSUME NEW i \in Pos
        PROVE  runs'[i] = IF i < frontier \/ stage'[i] = "finished" \/ i \in cq THEN 1 ELSE 0
    <3>1. CASE i = frontier
      BY <1>4, <1>9, <3>1
    <3>2. CASE i # frontier
      BY <1>1, <1>4, <3>2, Zenon DEF IInv, RunCount, InSession
    <3>. QED  BY <3>1, <3>2, Zenon
  <2>2. ASSUME NEW i \in onthefly \ cq PROVE runs'[i] = 0
    BY <1>4, <1>9, <2>2, Zenon DEF IInv, RunCount, TypeOK
  <2>. QED  BY <1>1, <2>1, <2>2 DEF IInv, RunCount, ExactlyOnce, InSession
<1>11. NoStrayEffect'
  <2>1. InEngine' = InEngine
    BY <1>1, Zenon DEF InEngine, InPrepared
  <2>2. ASSUME NEW i \in Seff, i \in InEngine \/ runs'[i] > 0 PROVE Inevitable(i)
    <3>1. CASE i = frontier
      BY <1>2, <3>1, Ints DEF Inevitable
    <3>2. CASE i # frontier
      BY <1>4, <2>2, <3>2, PathAssumption, Zenon DEF IInv, NoStrayEffect
    <3>. QED  BY <3>1, <3>2, Zenon
  <2>. QED  BY <1>1, <2>1, <2>2, Zenon DEF NoStrayEffect, Inevitable
<1>12. EffectsAreCalls' /\ NothingOutlivesSession'
  BY <1>1, Zenon DEF EffectsAreCalls, NothingOutlivesSession
<1>. QED  BY <1>5, <1>6, <1>7, <1>8, <1>10, <1>11, <1>12, Zenon DEF IInv

(* Harvesting a completion, one's own or another's, preserves it.          *)
LEMMA CmplAsyncStep ==
  ASSUME IInv, NEW p \in Pos, CmplAsync(p) PROVE IInv'
<1> TypeOK  BY Zenon DEF IInv
<1>1. /\ pc = "self" /\ pc' = "self" /\ p \in cq
      /\ cq' = cq \ {p} /\ onthefly' = onthefly \ {p}
      /\ UNCHANGED <<frontier, peekhead, peekhead_distance, peekhead_hit_end,
                     weakedge_distance, prepared_distance, num_prepared,
                     prepared, runs, calls>>
  BY Zenon DEF CmplAsync
<1>2. stage' \in [Pos -> Stages]
  BY Zenon DEF CmplAsync, TypeOK, Stages
<1>3. stage'[p] = "finished" /\ \A i \in Pos : i # p => stage'[i] = stage[i]
  BY Zenon DEF CmplAsync, TypeOK
<1>4. stage[p] = "onthefly"
  BY <1>1, Zenon DEF IInv, EngineAgrees
<1>5. TypeOK'
  BY <1>1, <1>2, Zenon DEF TypeOK
<1>6. EngineAgrees'
  BY <1>1, <1>3, <1>4, SMTT(30) DEF IInv, EngineAgrees, InPrepared
<1>7. DistancesTrue' /\ SessionBounds' /\ PreparedOrder' /\ LinkPending'
  BY <1>1, Zenon DEF IInv, DistancesTrue, SessionBounds, PreparedOrder, LinkPending,
     DanglingLink, InCall
<1>8. PeekWindow'
  BY <1>1, Zenon DEF IInv, PeekWindow
<1>9. StageWindow'
  BY <1>1, <1>3, <1>4, Zenon DEF IInv, StageWindow, SessionBounds, InCall
<1>10. RunCount' /\ ExactlyOnce'
  BY <1>1, <1>3, <1>4, Zenon DEF IInv, RunCount, ExactlyOnce, InSession
<1>11. NoStrayEffect' /\ EffectsAreCalls' /\ NothingOutlivesSession'
  BY <1>1, Zenon DEF IInv, NoStrayEffect, InEngine, InPrepared, Inevitable, EffectsAreCalls,
     NothingOutlivesSession
<1>. QED  BY <1>5, <1>6, <1>7, <1>8, <1>9, <1>10, <1>11, Zenon DEF IInv

(* Pushing the frontier forward preserves it: all three distances shrink   *)
(* with it.                                                                *)
LEMMA PushForwardStep ==
  ASSUME IInv, PushForward PROVE IInv'
<1> TypeOK  BY Zenon DEF IInv
<1>1. /\ pc = "self" /\ pc' = "app" /\ frontier' = frontier + 1
      /\ peekhead_distance' = peekhead_distance - 1
      /\ prepared_distance' = prepared_distance - 1
      /\ weakedge_distance' = weakedge_distance - 1
      /\ UNCHANGED <<peekhead, peekhead_hit_end, num_prepared, prepared, onthefly, cq,
                     runs, calls>>
  BY Zenon DEF PushForward, engineVars
<1>2. frontier \in Pos /\ calls = frontier + 1 /\ stage[frontier] = "finished"
  BY <1>1, Zenon DEF IInv, SessionBounds, InCall, PushForward
<1>3. stage' \in [Pos -> Stages]
  BY <1>2, Zenon DEF PushForward, TypeOK, Stages
<1>4. stage'[frontier] = "none" /\ \A i \in Pos : i # frontier => stage'[i] = stage[i]
  BY <1>2, Zenon DEF PushForward, TypeOK
<1>5. TypeOK'
  <2>1. /\ frontier' \in 0 .. PathLen /\ peekhead_distance' \in Int
        /\ prepared_distance' \in Int /\ weakedge_distance' \in Int
    BY <1>1, <1>2, Ints, PosInt
  <2>. QED  BY <1>1, <1>3, <2>1, Zenon DEF TypeOK
<1>6. EngineAgrees'
  BY <1>1, <1>2, <1>4 DEF IInv, EngineAgrees, InPrepared
<1>7. DistancesTrue'
  <2>1. peekhead' = frontier' + 1 + peekhead_distance' /\ weakedge_distance' <= peekhead_distance'
    <3>1. peekhead = frontier + 1 + peekhead_distance /\ weakedge_distance <= peekhead_distance
      BY <1>1, Zenon DEF IInv, DistancesTrue
    <3>. QED  BY <1>1, <3>1, Ints
  <2>2. prepared' # << >> => prepared'[1] = frontier' + 1 + prepared_distance'
    BY <1>1, Ints, SMTT(30) DEF IInv, DistancesTrue
  <2>3. weakedge_distance' >= 0 => frontier' + weakedge_distance' \in Weak
    <3>1. frontier' + weakedge_distance' = frontier + weakedge_distance
      BY <1>1, Ints
    <3>2. weakedge_distance >= 0 => frontier + weakedge_distance \in Weak
      BY <1>1, Zenon DEF IInv, DistancesTrue
    <3>. QED  BY <1>1, <3>1, <3>2, Ints
  <2>4. ASSUME NEW j \in Weak, frontier' <= j, j < peekhead' - 1
        PROVE  weakedge_distance' >= j - frontier'
    <3>1. frontier <= j /\ j < peekhead - 1
      BY <1>1, <2>4, Ints, WeakInt
    <3>2. weakedge_distance >= j - frontier
      BY <1>1, <3>1, Zenon DEF IInv, DistancesTrue
    <3>. QED  BY <1>1, <3>2, Ints, WeakInt
  <2>. QED  BY <2>1, <2>2, <2>3, <2>4, Zenon DEF DistancesTrue
<1>8. SessionBounds'
  BY <1>1, <1>2, Zenon DEF IInv, SessionBounds, InCall
<1>9. ASSUME NEW i \in Pos, stage'[i] # "none" PROVE i > frontier /\ i < peekhead
  BY <1>1, <1>2, <1>4, <1>9, Ints, PosInt, SMTT(30) DEF IInv, StageWindow, InCall
<1>10. StageWindow'
  BY <1>1, <1>9, Ints, PosInt DEF StageWindow, InCall
<1>11. PeekWindow'
  <2>1. ASSUME NEW i \in onthefly PROVE i \in frontier' .. (frontier' + Depth)
    <3>1. i \in Pos /\ stage'[i] # "none" /\ i \in frontier .. (frontier + Depth)
      BY <1>1, <1>2, <1>4, Zenon DEF IInv, TypeOK, EngineAgrees, PeekWindow
    <3>. QED  BY <1>1, <1>9, <3>1, Ints
  <2>2. peekhead_distance' <= Depth
    BY <1>1, Ints DEF IInv, PeekWindow
  <2>. QED  BY <1>1, <2>1, <2>2, Zenon DEF IInv, PeekWindow
<1>12. PreparedOrder'
  <2>1. ASSUME prepared # << >> PROVE frontier' <= prepared[1]
    <3>1. prepared[1] \in Pos /\ InPrepared(prepared[1])
      BY <2>1, PreparedInts DEF TypeOK, InPrepared
    <3>2. stage'[prepared[1]] # "none"
      BY <1>1, <1>2, <1>4, <3>1, Zenon DEF IInv, EngineAgrees
    <3>. QED  BY <1>1, <1>9, <3>1, <3>2, Ints, PosInt
  <2>. QED  BY <1>1, <2>1, Zenon DEF IInv, PreparedOrder
<1>13. LinkPending'
  <2>1. DanglingLink' => peekhead' = prepared'[Len(prepared')] + 1
    BY <1>1, Zenon DEF IInv, LinkPending, DanglingLink
  <2>2. prepared # << >> /\ prepared_distance' < 0 => frontier' + Depth - 1 \in Link
    <3>1. frontier' + Depth - 1 = frontier + Depth
      BY <1>1, Ints
    <3>2. prepared # << >> => /\ prepared_distance >= 0
                              /\ prepared_distance = 0 => frontier + Depth \in Link
      BY <1>1, Zenon DEF IInv, LinkPending
    <3>3. prepared_distance >= 0 /\ prepared_distance' < 0 => prepared_distance = 0
      BY <1>1, Ints
    <3>. QED  BY <3>1, <3>2, <3>3, Zenon
  <2>. QED  BY <1>1, <2>1, <2>2, Zenon DEF LinkPending
<1>14. RunCount'
  <2>1. ASSUME NEW i \in Pos
        PROVE  runs[i] = IF i < frontier + 1 \/ stage'[i] = "finished" \/ i \in cq THEN 1 ELSE 0
    <3>1. CASE i = frontier
      BY <1>1, <1>2, <3>1, Ints DEF IInv, RunCount, InSession
    <3>2. CASE i # frontier
      <4>1. i < frontier + 1 <=> i < frontier
        BY <3>2, Ints, PosInt
      <4>. QED  BY <1>1, <1>4, <3>2, <4>1, Zenon DEF IInv, RunCount, InSession
    <3>. QED  BY <3>1, <3>2, Zenon
  <2>. QED  BY <1>1, <2>1, Zenon DEF IInv, RunCount
<1>15. ExactlyOnce'
  BY <1>1, <1>14, Zenon DEF IInv, ExactlyOnce, RunCount, InSession
<1>16. NoStrayEffect' /\ EffectsAreCalls' /\ NothingOutlivesSession'
  BY <1>1, Zenon DEF IInv, NoStrayEffect, InEngine, InPrepared, Inevitable, EffectsAreCalls,
     NothingOutlivesSession
<1>. QED  BY <1>5, <1>6, <1>7, <1>8, <1>10, <1>11, <1>12, <1>13, <1>14, <1>15, <1>16, Zenon DEF IInv

(* foreactor_LeaveSCGraph, on its way in, preserves it: side effects on    *)
(* the fly or done are those of calls made.                                *)
LEMMA LeaveStep ==
  ASSUME IInv, Leave PROVE IInv'
<1> TypeOK  BY Zenon DEF IInv
<1>1. /\ pc = "app" /\ pc' = "drain" /\ MayLeave /\ prepared' = << >>
      /\ UNCHANGED <<frontier, peekhead, peekhead_distance, peekhead_hit_end,
                     weakedge_distance, prepared_distance, num_prepared, stage,
                     onthefly, cq, runs, calls>>
  BY Zenon DEF Leave, graphVars
<1>2. TypeOK' /\ EngineAgrees' /\ DistancesTrue' /\ StageWindow'
      /\ PreparedOrder' /\ LinkPending' /\ NothingOutlivesSession'
  BY <1>1 DEF TypeOK, EngineAgrees, DistancesTrue, StageWindow, PreparedOrder,
     LinkPending, DanglingLink, NothingOutlivesSession
<1>3. SessionBounds' /\ PeekWindow' /\ RunCount' /\ ExactlyOnce'
  BY <1>1, Zenon DEF IInv, SessionBounds, PeekWindow, RunCount, ExactlyOnce, InCall, InSession
<1>4. calls = frontier
  BY <1>1, Zenon DEF IInv, SessionBounds
<1>5. NoStrayEffect'
  BY <1>1 DEF IInv, NoStrayEffect, InEngine, InPrepared, Inevitable
<1>6. EffectsAreCalls'
  <2>1. ASSUME NEW i \in Seff, i \in InEngine \/ runs[i] > 0 PROVE i < frontier
    <3>1. i \in Int /\ i < PathLen
      BY PathAssumption, PosInt, Zenon
    <3>2. Inevitable(i)
      BY <2>1, Zenon DEF IInv, NoStrayEffect
    <3>3. CASE frontier - 1 \in Weak
      BY <1>4, <3>1, <3>2, <3>3, Ints, WeakInt DEF Inevitable
    <3>4. CASE frontier = 0 \/ frontier = PathLen
      BY <1>4, <3>1, <3>2, <3>4, Ints DEF Inevitable
    <3>. QED  BY <1>1, <3>3, <3>4, Zenon DEF MayLeave
  <2>2. ASSUME NEW i \in Seff
        PROVE  i \notin onthefly /\ runs[i] = IF i < frontier THEN 1 ELSE 0
    <3>1. i \in Pos /\ runs[i] \in Nat /\ i \in Int
      BY PathAssumption, PosInt, Zenon DEF TypeOK
    <3>2. i \in onthefly => i >= frontier
      BY DEF IInv, PeekWindow
    <3>3. i \in onthefly => i < frontier
      BY <2>1, Zenon DEF InEngine
    <3>4. i < frontier => runs[i] = 1
      BY <3>1, Zenon DEF IInv, ExactlyOnce
    <3>5. runs[i] > 0 => i < frontier
      BY <2>1, Zenon
    <3>. QED  BY <3>1, <3>2, <3>3, <3>4, <3>5, Ints
  <2>. QED  BY <1>1, <1>4, <2>2, Zenon DEF EffectsAreCalls
<1>. QED  BY <1>2, <1>3, <1>5, <1>6, Zenon DEF IInv

(* Harvesting a completion in CleanUp preserves it.                        *)
LEMMA DrainOneStep ==
  ASSUME IInv, NEW p \in Pos, DrainOne(p) PROVE IInv'
<1> TypeOK  BY Zenon DEF IInv
<1>1. /\ pc = "drain" /\ pc' = "drain"
      /\ cq' = cq \ {p} /\ onthefly' = onthefly \ {p}
      /\ UNCHANGED <<frontier, peekhead, peekhead_distance, peekhead_hit_end,
                     weakedge_distance, prepared_distance, num_prepared, stage,
                     prepared, runs, calls>>
  BY Zenon DEF DrainOne, graphVars
<1>2. TypeOK' /\ EngineAgrees' /\ DistancesTrue' /\ StageWindow' /\ SessionBounds'
      /\ PreparedOrder' /\ LinkPending' /\ NothingOutlivesSession'
  BY <1>1, Zenon DEF IInv, TypeOK, EngineAgrees, DistancesTrue, StageWindow, PreparedOrder,
     SessionBounds, LinkPending, DanglingLink, NothingOutlivesSession, InCall
<1>3. PeekWindow' /\ RunCount' /\ ExactlyOnce'
  BY <1>1, Zenon DEF IInv, PeekWindow, RunCount, ExactlyOnce, InSession
<1>4. NoStrayEffect' /\ EffectsAreCalls'
  BY <1>1, Zenon DEF IInv, NoStrayEffect, InEngine, InPrepared, Inevitable, EffectsAreCalls
<1>. QED  BY <1>2, <1>3, <1>4, Zenon DEF IInv

(* ResetToStart preserves it.                                              *)
LEMMA ResetToStartStep ==
  ASSUME IInv, ResetToStart PROVE IInv'
<1> TypeOK  BY Zenon DEF IInv
<1>1. /\ pc = "drain" /\ pc' = "out" /\ onthefly = {} /\ prepared = << >> /\ cq = {}
      /\ frontier' = 0 /\ peekhead' = 0 /\ peekhead_distance' = -1
      /\ weakedge_distance' = -1 /\ prepared_distance' = -1 /\ num_prepared' = 0
      /\ UNCHANGED <<prepared, onthefly, cq, runs, calls>>
  BY Zenon DEF ResetToStart, Drained, engineVars, IInv, SessionBounds, RunCount
<1>2. stage' \in [Pos -> Stages] /\ \A i \in Pos : stage'[i] = "none"
  BY Zenon DEF ResetToStart, Stages
<1>3. peekhead_hit_end' = FALSE
  BY Zenon DEF ResetToStart
<1>4. Len(prepared') = 0
  BY <1>1, Zenon
<1>5. TypeOK'
  <2>1. frontier' \in 0 .. PathLen /\ peekhead' \in 0 .. PathLen
    BY <1>1, Ints
  <2>2. peekhead_distance' \in Int /\ weakedge_distance' \in Int
        /\ prepared_distance' \in Int /\ num_prepared' \in Nat
    BY <1>1
  <2>3. peekhead_hit_end' \in BOOLEAN
    BY <1>3, Zenon
  <2>4. /\ pc' \in {"out", "app", "peek", "submit", "self", "drain"}
        /\ prepared' \in Seq(Pos) /\ onthefly' \in SUBSET Pos /\ cq' \in SUBSET Pos
        /\ runs' \in [Pos -> Nat] /\ calls' \in Nat
    BY <1>1, Zenon DEF TypeOK
  <2>. QED  BY <1>2, <2>1, <2>2, <2>3, <2>4, Zenon DEF TypeOK
<1>6. EngineAgrees'
  BY <1>1, <1>2, <1>4 DEF EngineAgrees, InPrepared
<1>7. DistancesTrue'
  BY <1>1, WeakInt DEF DistancesTrue
<1>8. SessionBounds' /\ PeekWindow'
  BY <1>1, <1>3, Ints DEF SessionBounds, PeekWindow, InCall
<1>9. StageWindow' /\ PreparedOrder' /\ LinkPending'
  BY <1>1, <1>2, <1>4 DEF StageWindow, PreparedOrder, LinkPending, DanglingLink, InCall
<1>10. RunCount' /\ ExactlyOnce'
  BY <1>1, PosInt DEF IInv, RunCount, ExactlyOnce, InSession
<1>11. NoStrayEffect' /\ EffectsAreCalls' /\ NothingOutlivesSession'
  BY <1>1, Zenon DEF IInv, NoStrayEffect, InEngine, InPrepared, Inevitable, EffectsAreCalls,
     NothingOutlivesSession
<1>. QED  BY <1>5, <1>6, <1>7, <1>8, <1>9, <1>10, <1>11, Zenon DEF IInv

(* The engine's own step preserves it: a request runs at most once.        *)
LEMMA EngineRunStep ==
  ASSUME IInv, NEW p \in Pos, EngineRun(p) PROVE IInv'
<1> TypeOK  BY Zenon DEF IInv
<1>1. /\ p \in onthefly /\ p \notin cq /\ cq' = cq \cup {p}
      /\ UNCHANGED <<pc, frontier, peekhead, peekhead_distance, peekhead_hit_end,
                     weakedge_distance, prepared_distance, num_prepared, stage,
                     prepared, onthefly, calls>>
  BY Zenon DEF EngineRun, graphVars
<1>2. runs' \in [Pos -> Nat]
  BY DEF EngineRun, TypeOK
<1>3. runs'[p] = runs[p] + 1 /\ \A i \in Pos : i # p => runs'[i] = runs[i]
  BY Zenon DEF EngineRun, TypeOK
<1>4. runs[p] = 0 /\ p >= frontier
  BY <1>1 DEF IInv, RunCount, PeekWindow
<1>5. TypeOK'
  BY <1>1, <1>2, Zenon DEF TypeOK
<1>6. EngineAgrees' /\ DistancesTrue' /\ StageWindow' /\ SessionBounds'
  BY <1>1, Zenon DEF IInv, EngineAgrees, DistancesTrue, StageWindow, SessionBounds, InCall,
     InPrepared
<1>6a. PeekWindow' /\ PreparedOrder' /\ LinkPending'
  BY <1>1, Zenon DEF IInv, PeekWindow, PreparedOrder, LinkPending, DanglingLink
<1>7. RunCount'
  <2>1. ASSUME NEW i \in onthefly' \ cq' PROVE runs'[i] = 0
    BY <1>1, <1>3, <2>1, Zenon DEF IInv, RunCount, TypeOK
  <2>2. ASSUME InSession, NEW i \in Pos
        PROVE  runs'[i] = IF i < frontier \/ stage[i] = "finished" \/ i \in cq' THEN 1 ELSE 0
    <3>1. CASE i = p
      BY <1>1, <1>3, <1>4, <3>1
    <3>2. CASE i # p
      BY <1>1, <1>3, <2>2, <3>2, Zenon DEF IInv, RunCount
    <3>. QED  BY <3>1, <3>2, Zenon
  <2>. QED  BY <1>1, <2>1, <2>2, Zenon DEF IInv, RunCount, InSession
<1>8. ExactlyOnce'
  <2>1. ASSUME NEW i \in Pos PROVE runs'[i] <= 1 /\ (i < frontier => runs'[i] = 1)
    <3>1. CASE i = p
      BY <1>3, <1>4, <3>1, Ints, PosInt
    <3>2. CASE i # p
      BY <1>3, <3>2, Zenon DEF IInv, ExactlyOnce
    <3>. QED  BY <3>1, <3>2, Zenon
  <2>. QED  BY <1>1, <2>1, Zenon DEF ExactlyOnce
<1>9. NoStrayEffect'
  <2>1. ASSUME NEW i \in Seff, i \in InEngine' \/ runs'[i] > 0 PROVE i \in InEngine \/ runs[i] > 0
    <3>1. i \in Pos
      BY PathAssumption, Zenon
    <3>. QED  BY <1>1, <1>3, <2>1, <3>1, Zenon DEF InEngine, InPrepared
  <2>. QED  BY <1>1, <2>1, Zenon DEF IInv, NoStrayEffect, Inevitable
<1>10. EffectsAreCalls' /\ NothingOutlivesSession'
  BY <1>1, <1>3, PathAssumption, Zenon DEF IInv, EffectsAreCalls, NothingOutlivesSession
<1>. QED  BY <1>5, <1>6, <1>6a, <1>7, <1>8, <1>9, <1>10, Zenon DEF IInv

-----------------------------------------------------------------------------
(* The invariant is inductive.                                             *)
LEMMA NextInv == IInv /\ [Next]_vars => IInv'
<1> SUFFICES ASSUME IInv, [Next]_vars PROVE IInv'
  BY Zenon
<1>1. CASE Issue
  BY <1>1, CallNoPeekStep, CallPeekStep, PeekDoneStep, PeekBarrierStep, PeekEndStep,
     PeekNotReadyStep, PeekUnforeactableStep, PeekPrepareStep, SubmitAllStep,
     SubmitNoneStep, SyscallSyncStep, PushForwardStep, CmplAsyncStep, Zenon DEF Issue
<1>2. CASE Session
  BY <1>2, EnterStep, LeaveStep, ResetToStartStep, DrainOneStep, Zenon DEF Session
<1>3. CASE \E i \in Pos : EngineRun(i)
  BY <1>3, EngineRunStep, Zenon
<1>4. CASE UNCHANGED vars
  <2>1. UNCHANGED <<pc, frontier, peekhead, peekhead_distance, peekhead_hit_end,
                    weakedge_distance, prepared_distance, num_prepared, stage,
                    prepared, onthefly, cq, runs, calls>>
    BY <1>4, Zenon DEF vars, graphVars, engineVars
  <2>2. TypeOK' /\ EngineAgrees' /\ DistancesTrue' /\ SessionBounds'
    BY <2>1, Zenon DEF IInv, TypeOK, EngineAgrees, DistancesTrue, SessionBounds, InCall, InPrepared
  <2>3. PeekWindow' /\ StageWindow' /\ PreparedOrder' /\ LinkPending'
    BY <2>1, Zenon DEF IInv, PeekWindow, StageWindow, PreparedOrder, LinkPending, DanglingLink, InCall
  <2>4. RunCount' /\ ExactlyOnce' /\ NoStrayEffect' /\ EffectsAreCalls' /\ NothingOutlivesSession'
    BY <2>1, Zenon DEF IInv, RunCount, ExactlyOnce, NoStrayEffect, EffectsAreCalls,
       NothingOutlivesSession, InSession, InPrepared, InEngine, Inevitable
  <2>. QED  BY <2>2, <2>3, <2>4, Zenon DEF IInv
<1>. QED  BY <1>1, <1>2, <1>3, <1>4, Zenon DEF Next

(* The inductive invariant holds in every reachable state. *)
THEOREM Invariance == Spec => []IInv
BY InitInv, NextInv, PTL DEF Spec

(* The counters, stages and engine sets keep their types. *)
THEOREM TypeCorrect == Spec => []TypeOK
<1>1. IInv => TypeOK
  BY Zenon DEF IInv
<1>. QED  BY <1>1, Invariance, PTL

(* The node stages and the engine's two sets agree, whatever order         *)
(* completions are harvested in.                                           *)
THEOREM StagesAgree == Spec => []EngineAgrees
<1>1. IInv => EngineAgrees
  BY Zenon DEF IInv
<1>. QED  BY <1>1, Invariance, PTL

(* The distances that Issue() keeps by counting are the true ones. *)
THEOREM DistancesCorrect == Spec => []DistancesTrue
<1>1. IInv => DistancesTrue
  BY Zenon DEF IInv
<1>. QED  BY <1>1, Invariance, PTL

(* No side effect reaches the engine unless the application is bound to    *)
(* ask for it.                                                             *)
THEOREM SpeculationSafe == Spec => []NoStrayEffect
<1>1. IInv => NoStrayEffect
  BY Zenon DEF IInv
<1>. QED  BY <1>1, Invariance, PTL

(* A finished session has had exactly the side effects of the syscalls     *)
(* that the application made.                                              *)
THEOREM EffectsCorrect == Spec => []EffectsAreCalls
<1>1. IInv => EffectsAreCalls
  BY Zenon DEF IInv
<1>. QED  BY <1>1, Invariance, PTL

(* Every syscall of the session runs at most once, and has run when it     *)
(* returns.                                                                *)
THEOREM RunsOnce == Spec => []ExactlyOnce
<1>1. IInv => ExactlyOnce
  BY Zenon DEF IInv
<1>. QED  BY <1>1, Invariance, PTL

(* Nothing is left in the engine when a session is over. *)
THEOREM SessionCleanedUp == Spec => []NothingOutlivesSession
<1>1. IInv => NothingOutlivesSession
  BY Zenon DEF IInv
<1>. QED  BY <1>1, Invariance, PTL

(* Issue() never waits for a request of its own that is still unsubmitted: *)
(* the request would be the earliest one prepared, and the only thing that *)
(* delays its submission, a dangling link, is gone by then.                *)
THEOREM FrontierIsSubmitted == Spec => []FrontierSubmitted
<1>1. IInv => FrontierSubmitted
  <2> SUFFICES ASSUME IInv, pc = "self", stage[frontier] = "prepared" PROVE FALSE
    BY Zenon DEF FrontierSubmitted
  <2> TypeOK  BY Zenon DEF IInv
  <2>1. PICK k \in 1 .. Len(prepared) : prepared[k] = frontier
    BY Zenon DEF IInv, EngineAgrees, SessionBounds, InCall, InPrepared
  <2>2. prepared # << >>
    BY <2>1
  <2>3. prepared[k] >= prepared[1] + k - 1
    BY Zenon DEF IInv, PreparedOrder
  <2>4. prepared[1] \in Int /\ k \in Int /\ k >= 1
    BY <2>2, PreparedInts
  <2>5. prepared[1] <= frontier
    BY <2>1, <2>3, <2>4, Ints, SMTT(30)
  <2>6. prepared[1] = frontier + 1 + prepared_distance
    BY <2>2, Zenon DEF IInv, DistancesTrue
  <2>7. prepared_distance >= 0
    BY <2>2, Zenon DEF IInv, LinkPending
  <2>. QED  BY <2>4, <2>5, <2>6, <2>7, Ints, SMTT(30)
<1>. QED  BY <1>1, Invariance, PTL

(* The peek never meets an instance that already has a pool entry. *)
THEOREM PeekIsFresh == Spec => []PeekFresh
<1>1. IInv => PeekFresh
  <2> SUFFICES ASSUME IInv, Peeking, peekhead \in Pos PROVE stage[peekhead] = "none"
    BY Zenon DEF PeekFresh
  <2> TypeOK  BY Zenon DEF IInv
  <2>1. pc = "peek"
    BY Zenon DEF Peeking
  <2>2. peekhead > frontier
    BY <2>1, Ints DEF IInv, DistancesTrue, PeekWindow
  <2>. QED  BY <2>1, <2>2, Ints DEF IInv, StageWindow, InCall
<1>. QED  BY <1>1, Invariance, PTL

(* At most Depth + 1 requests are prepared or on the fly. *)
THEOREM InFlightBounded == Spec => []InFlightBound
<1>1. IInv => InFlightBound
  <2> SUFFICES ASSUME IInv PROVE InFlightBound
    BY Zenon
  <2> TypeOK  BY Zenon DEF IInv
  <2>1. InEngine \subseteq frontier .. (frontier + Depth)
    <3>1. ASSUME NEW i \in Pos, InPrepared(i) PROVE i \in frontier .. (frontier + Depth)
      <4>1. prepared # << >> /\ pc \notin {"drain", "out"}
        BY <3>1 DEF InPrepared, IInv, SessionBounds
      <4>2. stage[i] = "prepared"
        BY <3>1, <4>1, Zenon DEF IInv, EngineAgrees
      <4>3. frontier <= i /\ i < peekhead
        BY <4>1, <4>2, Zenon DEF IInv, StageWindow
      <4>4. peekhead = frontier + 1 + peekhead_distance /\ peekhead_distance <= Depth
        BY <4>1, Zenon DEF IInv, DistancesTrue, PeekWindow
      <4>. QED  BY <4>3, <4>4, Ints, PosInt
    <3>. QED  BY <3>1, Zenon DEF IInv, PeekWindow, InEngine
  <2>2. Cardinality(InEngine) <= Depth + 1
    <3>1. /\ IsFiniteSet(frontier .. (frontier + Depth))
          /\ Cardinality(frontier .. (frontier + Depth)) = Depth + 1
      BY IntervalSize, Ints, Zenon
    <3>. QED  BY <2>1, <3>1, FS_Subset, FS_CardinalityType, Ints, Zenon
  <2>3. Len(prepared) <= Depth + 1
    <3>1. CASE prepared = << >>
      BY <3>1, Ints
    <3>2. CASE prepared # << >>
      <4>1. PICK n \in Int, first \in Int, last \in Int :
               n = Len(prepared) /\ first = prepared[1] /\ last = prepared[n]
        BY <3>2, PreparedInts
      <4>2. last >= first + n - 1 /\ last < peekhead
        BY <3>2, <4>1, PreparedInts, Zenon DEF IInv, PreparedOrder
      <4>3. first >= frontier /\ pc # "drain"
        BY <3>2, <4>1, Zenon DEF IInv, PreparedOrder, SessionBounds
      <4>4. peekhead = frontier + 1 + peekhead_distance /\ peekhead_distance <= Depth
        BY <4>3, Zenon DEF IInv, DistancesTrue, PeekWindow
      <4>5. n <= Depth + 1
        BY <4>2, <4>3, <4>4, Ints
      <4>. QED  BY <4>1, <4>5, Zenon
    <3>. QED  BY <3>1, <3>2, Zenon
  <2>. QED  BY <2>1, <2>2, <2>3, Zenon DEF InFlightBound
<1>. QED  BY <1>1, Invariance, PTL

-----------------------------------------------------------------------------
(* The algorithm implements Speculation. *)

(* The initial states of the algorithm are those of the promise. *)
LEMMA InitMaps == Init => Promise!Init
BY Zenon DEF Init, Promise!Init, Promise!Pos, Pos, Where

(* Every step of the algorithm is a step of the promise, or a stutter. *)
LEMMA StepMaps == IInv /\ [Next]_vars => [Promise!Next]_Promise!vars
(* A step that moves within a call, or does not move at all, and neither   *)
(* returns nor runs anything changes nothing of the promise.               *)
<1>QuietMaps.
  ASSUME \/ pc' = pc
         \/ InCall /\ InCall',
         UNCHANGED <<frontier, runs>>
  PROVE  UNCHANGED Promise!vars
  BY <1>QuietMaps, Zenon DEF InCall, Where, Promise!vars
(* foreactor_EnterSCGraph begins the session. *)
<1>EnterMaps.
  Enter => Promise!Begin
  BY Zenon DEF Enter, graphVars, Promise!Begin, Promise!Pos, Pos, Where
(* Entering Issue(), with or without a peek, is the call. *)
<1>CallMaps.
  CallNoPeek \/ CallPeek => Promise!Call
  BY Zenon DEF CallNoPeek, CallPeek, CheckArgs, CatchUp, engineVars, Promise!Call, Where
(* Peeking and submitting are not visible. *)
<1>PeekMaps.
  ASSUME \/ PeekDone \/ PeekBarrier \/ PeekEnd
         \/ PeekNotReady \/ PeekUnforeactable \/ PeekPrepare
         \/ SubmitAll \/ SubmitNone
  PROVE  UNCHANGED Promise!vars
  <2> USE <1>PeekMaps
  <2>1. pc \in {"peek", "submit"} /\ pc' \in {"peek", "submit", "self"} /\ UNCHANGED <<frontier, runs>>
    BY Zenon DEF PeekDone, PeekBarrier, PeekEnd, PeekNotReady, PeekUnforeactable, PeekPrepare,
           PeekContinue, Peeking, SubmitAll, SubmitNone, graphVars, engineVars
  <2>. QED  BY <2>1, Zenon DEF Where, Promise!vars
(* A synchronous call runs the syscall that is being made. *)
<1>SyncMaps.
  ASSUME IInv, SyscallSync
  PROVE  Promise!Run(frontier) /\ frontier \in Promise!Pos
  <2> USE <1>SyncMaps
  <2> TypeOK  BY Zenon DEF IInv
  <2>1. frontier \in Pos /\ pc = "self" /\ stage[frontier] = "argready"
    BY Zenon DEF IInv, SessionBounds, InCall, SyscallSync
  <2>2. frontier \notin cq
    BY <2>1, Zenon DEF IInv, EngineAgrees
  <2>3. runs[frontier] = 0
    BY <2>1, <2>2, Ints DEF IInv, RunCount, InSession
  <2>4. runs' = [runs EXCEPT ![frontier] = 1]
    BY <2>1, <2>3 DEF SyscallSync, TypeOK
  <2>5. Promise!Bound(frontier)
    BY <2>1, Ints DEF Promise!Bound, Promise!Made, Where
  <2>. QED  BY <2>1, <2>3, <2>4, <2>5, Zenon DEF SyscallSync, Promise!Run, Promise!Pos, Pos, Where
(* Pushing the frontier forward is the return. *)
<1>PushMaps.
  ASSUME IInv, PushForward
  PROVE  Promise!Return
  <2> USE <1>PushMaps
  <2> TypeOK  BY Zenon DEF IInv
  <2>1. pc = "self" /\ stage[frontier] = "finished" /\ frontier \in Pos
    BY Zenon DEF IInv, SessionBounds, InCall, PushForward
  <2>2. runs[frontier] = 1
    BY <2>1, Zenon DEF IInv, RunCount, InSession
  <2>. QED  BY <2>1, <2>2, Zenon DEF PushForward, engineVars, Promise!Return, Where
(* foreactor_LeaveSCGraph leaves. *)
<1>LeaveMaps.
  Leave => Promise!Leave
  BY Zenon DEF Leave, MayLeave, graphVars, Promise!Leave, Where
(* The reset ends the session, with the side effects of the calls made. *)
<1>ResetMaps.
  ASSUME IInv, ResetToStart
  PROVE  Promise!Finish
  <2> USE <1>ResetMaps
  <2>1. pc = "drain" /\ calls = frontier
    BY Zenon DEF IInv, SessionBounds, ResetToStart
  <2>2. \A i \in Seff : runs[i] = IF i < frontier THEN 1 ELSE 0
    BY <2>1, Zenon DEF IInv, EffectsAreCalls
  <2>. QED  BY <2>1, <2>2, Zenon DEF ResetToStart, engineVars, Promise!Finish, Where
(* The engine runs a syscall that has not run; if it has side effects the  *)
(* function is bound to make it, and the session is not being left.        *)
<1>EngineMaps.
  ASSUME IInv, NEW i \in Pos, EngineRun(i)
  PROVE  Promise!Run(i)
  <2> USE <1>EngineMaps
  <2> TypeOK  BY Zenon DEF IInv
  <2>1. i \in onthefly \ cq /\ pc # "out"
    BY Zenon DEF EngineRun, IInv, NothingOutlivesSession
  <2>2. runs[i] = 0
    BY <2>1, Zenon DEF IInv, RunCount
  <2>3. runs' = [runs EXCEPT ![i] = 1]
    BY <2>2 DEF EngineRun, TypeOK
  <2>4. ASSUME i \in Seff PROVE Promise!Bound(i)
    <3>1. Inevitable(i)
      BY <2>1, <2>4, Zenon DEF IInv, NoStrayEffect, InEngine
    <3>2. pc # "drain"
      BY <2>1, <2>4, Zenon DEF IInv, EffectsAreCalls
    <3>3. Promise!Made = calls
      BY <2>1, <3>2, Zenon DEF Promise!Made, Where, IInv, TypeOK, SessionBounds, InCall
    <3>. QED  BY <3>1, <3>3, Zenon DEF Inevitable, Promise!Bound
  <2>. QED  BY <2>1, <2>2, <2>3, <2>4, Zenon DEF EngineRun, graphVars, Promise!Run, Where
<1> SUFFICES ASSUME IInv, [Next]_vars PROVE Promise!Next \/ UNCHANGED Promise!vars
  BY Zenon
<1>1. CASE Enter
  BY <1>1, <1>EnterMaps, Zenon DEF Promise!Next
<1>2. CASE CallNoPeek \/ CallPeek
  BY <1>2, <1>CallMaps, Zenon DEF Promise!Next
<1>3. CASE \/ PeekDone \/ PeekBarrier \/ PeekEnd
           \/ PeekNotReady \/ PeekUnforeactable \/ PeekPrepare
           \/ SubmitAll \/ SubmitNone
  BY <1>3, <1>PeekMaps, Zenon
<1>4. CASE SyscallSync
  BY <1>4, <1>SyncMaps, Zenon DEF Promise!Next
<1>5. CASE \E i \in Pos : CmplAsync(i) \/ DrainOne(i)
  BY <1>5, <1>QuietMaps, Zenon DEF CmplAsync, DrainOne, graphVars
<1>6. CASE PushForward
  BY <1>6, <1>PushMaps, Zenon DEF Promise!Next
<1>7. CASE Leave
  BY <1>7, <1>LeaveMaps, Zenon DEF Promise!Next
<1>8. CASE ResetToStart
  BY <1>8, <1>ResetMaps, Zenon DEF Promise!Next
<1>9. CASE \E i \in Pos : EngineRun(i)
  BY <1>9, <1>EngineMaps, Zenon DEF Promise!Next, Promise!Pos, Pos
<1>10. CASE UNCHANGED vars
  BY <1>10, <1>QuietMaps, Zenon DEF vars, graphVars, engineVars
<1>. QED  BY <1>1, <1>2, <1>3, <1>4, <1>5, <1>6, <1>7, <1>8, <1>9, <1>10, Zenon
     DEF Next, Issue, Session

(* The algorithm implements the abstract promise. *)
THEOREM Refinement == Spec => ImplementsSpeculation
<1>1. Init => Promise!Init
  BY InitMaps, Zenon
<1>2. IInv /\ [Next]_vars => [Promise!Next]_Promise!vars
  BY StepMaps, Zenon
<1>. QED  BY <1>1, <1>2, Invariance, PTL DEF Spec, ImplementsSpeculation, Promise!Spec
=============================================================================
