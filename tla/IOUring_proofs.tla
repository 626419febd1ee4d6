--------------------------- MODULE IOUring_proofs ---------------------------
(***************************************************************************)
(* The rings of IOUring are long enough and implement IOEngine, for every  *)
(* depth and every set of requests, as long as the submission ring is      *)
(* longer than the depth.                                                  *)
(***************************************************************************)
EXTENDS IOUring, FiniteSetTheorems, SequenceTheorems, TLAPS

RingIsLonger == SqSlots \in Nat /\ SqSlots > Depth

Occupied == Len(sq) + Cardinality(kernel) + Posted

TypeInv ==
  /\ pc \in {"client", "fill", "submit", "found", "seen"}
  /\ prepared \in Seq(Entries) /\ sq \in Seq(Entries)
  /\ IsFiniteSet(onthefly) /\ IsFiniteSet(kernel)
  /\ filled \in 0 .. Len(prepared)
  /\ DOMAIN cqe = 0 .. CqSlots - 1
  /\ head \in 0 .. (2 * CqSlots) - 1 /\ tail \in 0 .. (2 * CqSlots) - 1

(* Prepared requests are distinct, and those without an SQE not on the fly.*)
PreparedInv ==
  /\ \A i \in filled + 1 .. Len(prepared) : prepared[i] \notin onthefly
  /\ \A i, j \in 1 .. Len(prepared) : prepared[i] = prepared[j] => i = j

(* SQEs are only taken by SubmitAll, from an empty ring. *)
SqInv ==
  /\ pc = "fill" => Len(sq) = filled /\ Len(prepared) <= MaxPrepared
  /\ pc # "fill" => filled = 0
  /\ pc \in {"client", "found", "seen"} => sq = << >>

(* What occupies the rings and the kernel is on the fly, and that is       *)
(* bounded by the window of the client.                                    *)
CountInv ==
  /\ Occupied <= Cardinality(onthefly)
  /\ Cardinality(onthefly) + Len(prepared) - filled <= MaxInFlight
  /\ Len(prepared) <= MaxPrepared

(* CompleteOne points to the slot at the head, or the one it gave back,    *)
(* and the requests that can still be posted do not reach that one.        *)
SlotInv ==
  /\ pc = "found" => slot = head % CqSlots /\ Posted > 0 /\ cqe[slot] = entry_id
  /\ pc = "seen" =>
       /\ \E p \in 0 .. (2 * CqSlots) - 1 : head = Next2(p) /\ slot = p % CqSlots
       /\ Cardinality(kernel) + Posted <= Depth
       /\ cqe[slot] = entry_id

RingInv == TypeInv /\ PreparedInv /\ SqInv /\ CountInv /\ SlotInv

-----------------------------------------------------------------------------
(* Arithmetic of ring indices, which count to twice the length of a ring.  *)

(* The distance from one index to another. *)
LEMMA Distance ==
  ASSUME NEW m \in Nat \ {0}, NEW a \in 0 .. m - 1, NEW b \in 0 .. m - 1
  PROVE  (b - a) % m = IF b >= a THEN b - a ELSE (b - a) + m
  OBVIOUS

(* The next index. *)
LEMMA Successor ==
  ASSUME NEW m \in Nat \ {0}, NEW a \in 0 .. m - 1
  PROVE  (a + 1) % m = IF a = m - 1 THEN 0 ELSE a + 1
  OBVIOUS

(* The slot of an index. *)
LEMMA SlotOf ==
  ASSUME NEW c \in Nat \ {0}, NEW a \in 0 .. (2 * c) - 1
  PROVE  a % c = IF a < c THEN a ELSE a - c
  OBVIOUS

(* The lengths of the rings. *)
LEMMA Lengths ==
  ASSUME RingIsLonger
  PROVE  /\ SqSlots \in Nat \ {0} /\ CqSlots \in Nat \ {0} /\ 2 * CqSlots \in Nat \ {0}
         /\ CqSlots = 2 * SqSlots /\ Depth \in Nat /\ Depth + 1 <= SqSlots
         /\ MaxInFlight = Depth + 1 /\ MaxPrepared \in Nat /\ MaxPrepared <= SqSlots
  BY DepthAssumption DEF RingIsLonger, CqSlots, MaxInFlight, MaxPrepared

(* The number of completions as a difference of indices. *)
LEMMA PostedIs ==
  ASSUME RingIsLonger, TypeInv
  PROVE  /\ Posted = IF tail >= head THEN tail - head ELSE (tail - head) + (2 * CqSlots)
         /\ Posted \in 0 .. (2 * CqSlots) - 1
<1>1. /\ 2 * CqSlots \in Nat \ {0}
      /\ head \in 0 .. (2 * CqSlots) - 1 /\ tail \in 0 .. (2 * CqSlots) - 1
  BY Lengths, Zenon DEF TypeInv
<1>2. Posted = IF tail >= head THEN tail - head ELSE (tail - head) + (2 * CqSlots)
  BY <1>1, Distance, Zenon DEF Posted
<1> QED
  BY <1>1, <1>2

(* Sizes are natural numbers. *)
LEMMA Sizes ==
  ASSUME TypeInv
  PROVE  /\ Cardinality(onthefly) \in Nat /\ Cardinality(kernel) \in Nat
         /\ Len(sq) \in Nat /\ Len(prepared) \in Nat /\ filled \in Nat
  BY FS_CardinalityType DEF TypeInv

(* The rings start empty. *)
LEMMA InitRingInv == ASSUME RingIsLonger, Init PROVE RingInv
<1>1. TypeInv
  <2>1. << >> \in Seq(Entries) /\ IsFiniteSet({})
    BY EmptySeq, FS_EmptySet, Zenon
  <2>2. DOMAIN cqe = 0 .. CqSlots - 1
    BY Zenon DEF Init
  <2>3. 0 \in 0 .. (2 * CqSlots) - 1
    BY Lengths
  <2> QED
    BY <2>1, <2>2, <2>3 DEF Init, TypeInv
<1>2. PreparedInv /\ SqInv /\ SlotInv
  BY DEF Init, PreparedInv, SqInv, SlotInv
<1>3. Posted = 0
  BY <1>1, PostedIs, Lengths DEF Init
<1>4. CountInv
  BY <1>3, Lengths, FS_EmptySet DEF Init, CountInv, Occupied
<1> QED
  BY <1>1, <1>2, <1>4, Zenon DEF RingInv

(* A ring longer than the depth has an SQE for every prepared request. *)
LEMMA RingInvSafe == ASSUME RingIsLonger, RingInv PROVE SqeAvailable /\ ResultIsOwn
<1>1. ASSUME pc = "fill", filled < Len(prepared) PROVE Len(sq) < SqSlots
  BY <1>1, Lengths, Sizes, SMTT(30) DEF RingInv, SqInv, CountInv
<1>2. ResultIsOwn
  BY Zenon DEF RingInv, SlotInv, ResultIsOwn
<1> QED
  BY <1>1, <1>2, Zenon DEF SqeAvailable

-----------------------------------------------------------------------------
(* Every step preserves the invariant. *)

(* A step that changes neither ring nor what the kernel has keeps the      *)
(* count of completions.                                                   *)
LEMMA SamePosted ==
  ASSUME UNCHANGED <<head, tail>>
  PROVE  Posted' = Posted
  BY Zenon DEF Posted

(* Prepare keeps within the window. *)
LEMMA PrepareKeeps ==
  ASSUME RingIsLonger, RingInv, NEW e \in Entries, Prepare(e)
  PROVE  RingInv'
<1>1. TypeInv /\ prepared \in Seq(Entries) /\ prepared' = Append(prepared, e)
  BY Zenon DEF RingInv, TypeInv, Prepare
<1>2. pc = "client" /\ filled = 0
      /\ UNCHANGED <<pc, cleaning, onthefly, filled, sq, chain, kernel, cqe, head, tail, entry_id, slot>>
  BY Zenon DEF Prepare, ring, completion, RingInv, SqInv
<1>3. prepared' \in Seq(Entries) /\ Len(prepared') = Len(prepared) + 1
      /\ prepared'[Len(prepared) + 1] = e
      /\ \A i \in 1 .. Len(prepared) : prepared'[i] = prepared[i]
  BY <1>1, AppendProperties
<1>4. e \notin onthefly /\ \A i \in 1 .. Len(prepared) : prepared[i] # e
  BY <1>1, LenProperties, Zenon DEF Prepare, Range
<1>5. Len(prepared) \in Nat /\ filled \in 0 .. Len(prepared')
  BY <1>1, <1>2, <1>3
<1>6. TypeInv'
  BY <1>2, <1>3, <1>5, Zenon DEF RingInv, TypeInv
<1>7. PreparedInv'
  BY <1>2, <1>3, <1>4, <1>5 DEF RingInv, PreparedInv
<1>8. SqInv'
  BY <1>2, Zenon DEF RingInv, SqInv
<1>9. CountInv'
  <2>1. Occupied' = Occupied
    BY <1>2, SamePosted, Zenon DEF Occupied
  <2>2. Cardinality(onthefly) + Len(prepared) < MaxInFlight /\ Len(prepared) < MaxPrepared
    BY Zenon DEF Prepare
  <2> QED
    BY <1>1, <1>2, <1>3, <2>1, <2>2, Sizes, Lengths, SMTT(30) DEF RingInv, CountInv
<1>10. SlotInv'
  BY <1>2, Zenon DEF SlotInv
<1> QED
  BY <1>6, <1>7, <1>8, <1>9, <1>10, Zenon DEF RingInv

(* SubmitAll starts with an empty submission ring. *)
LEMMA SubmitAllKeeps ==
  ASSUME RingIsLonger, RingInv, SubmitAll
  PROVE  RingInv'
<1>1. /\ pc = "client" /\ pc' = "fill" /\ filled = 0 /\ sq = << >>
      /\ UNCHANGED <<cleaning, onthefly, chain, prepared, filled, sq, kernel, cqe, head, tail, entry_id, slot>>
  BY Zenon DEF SubmitAll, submission, ring, completion, RingInv, SqInv
<1>2. TypeInv'
  BY <1>1, Zenon DEF RingInv, TypeInv
<1>3. PreparedInv' /\ SlotInv'
  BY <1>1, Zenon DEF RingInv, PreparedInv, SlotInv
<1>4. SqInv'
  <2>1. Len(sq) = 0
    BY <1>1, Zenon
  <2> QED
    BY <1>1, <2>1, Zenon DEF RingInv, SqInv, CountInv, MaxPrepared
<1>5. CountInv'
  BY <1>1, SamePosted, Zenon DEF RingInv, CountInv, Occupied, MaxPrepared, MaxInFlight
<1> QED
  BY <1>2, <1>3, <1>4, <1>5, Zenon DEF RingInv

(* A request gets an SQE and goes on the fly. *)
LEMMA GetSqeKeeps ==
  ASSUME RingIsLonger, RingInv, GetSqe
  PROVE  RingInv'
<1> DEFINE e == prepared[filled + 1]
<1>1. /\ pc = "fill" /\ filled < Len(prepared)
      /\ sq' = Append(sq, e)
      /\ onthefly' = onthefly \cup {e}
      /\ filled' = filled + 1
      /\ UNCHANGED <<pc, cleaning, prepared, kernel, cqe, head, tail, entry_id, slot>>
  BY Zenon DEF GetSqe, ring, completion
<1>2. TypeInv /\ sq \in Seq(Entries) /\ prepared \in Seq(Entries)
      /\ Len(prepared) \in Nat /\ filled \in Nat /\ Len(sq) \in Nat
  BY Sizes, Zenon DEF RingInv, TypeInv
<1>3. filled + 1 \in 1 .. Len(prepared) /\ filled + 1 \in filled + 1 .. Len(prepared)
  BY <1>1, <1>2
<1>4. e \in Entries /\ e \notin onthefly
  BY <1>2, <1>3 DEF RingInv, PreparedInv
<1>5. sq' \in Seq(Entries) /\ Len(sq') = Len(sq) + 1
  BY <1>1, <1>2, <1>4, AppendProperties, Zenon
<1>6. IsFiniteSet(onthefly') /\ Cardinality(onthefly') = Cardinality(onthefly) + 1
  BY <1>1, <1>4, FS_AddElement, Zenon DEF RingInv, TypeInv
<1>7. TypeInv'
  <2>1. filled' \in 0 .. Len(prepared')
    BY <1>1, <1>2
  <2> QED
    BY <1>1, <1>5, <1>6, <2>1, Zenon DEF RingInv, TypeInv
<1>8. PreparedInv'
  <2>1. ASSUME NEW i \in filled + 2 .. Len(prepared) PROVE prepared[i] \notin onthefly'
    <3>1. i \in filled + 1 .. Len(prepared) /\ i \in 1 .. Len(prepared) /\ i # filled + 1
      BY <1>2, <2>1
    <3>2. prepared[i] \notin onthefly /\ prepared[i] # e
      BY <1>3, <3>1, Zenon DEF RingInv, PreparedInv
    <3> QED
      BY <1>1, <3>2, Zenon
  <2>2. filled' + 1 = filled + 2
    BY <1>1, <1>2
  <2> QED
    BY <1>1, <2>1, <2>2, Zenon DEF RingInv, PreparedInv
<1>9. SqInv'
  BY <1>1, <1>2, <1>5, Zenon DEF RingInv, SqInv, MaxPrepared
<1>10. CountInv'
  <2>1. Posted' = Posted /\ Posted \in Nat /\ Cardinality(kernel) \in Nat
        /\ Cardinality(onthefly) \in Nat
    BY <1>1, <1>2, SamePosted, PostedIs, Sizes
  <2>2. Occupied' = Occupied + 1
    BY <1>1, <1>2, <1>5, <2>1 DEF Occupied
  <2>3. Occupied \in Nat
    BY <1>2, <2>1 DEF Occupied
  <2>4. /\ Occupied <= Cardinality(onthefly) /\ Len(prepared) <= MaxPrepared
        /\ Cardinality(onthefly) + Len(prepared) - filled <= MaxInFlight
    BY Zenon DEF RingInv, CountInv
  <2>5. Occupied' <= Cardinality(onthefly')
    BY <1>6, <2>1, <2>2, <2>3, <2>4
  <2>6. Cardinality(onthefly') + Len(prepared) - (filled + 1) <= MaxInFlight
    BY <1>2, <1>6, <2>1, <2>4, Lengths
  <2> QED
    BY <1>1, <2>4, <2>5, <2>6, Zenon DEF CountInv
<1>11. SlotInv'
  BY <1>1, Zenon DEF SlotInv
<1> QED
  BY <1>7, <1>8, <1>9, <1>10, <1>11, Zenon DEF RingInv

(* The prepared requests all have an SQE. *)
LEMMA ClearPreparedKeeps ==
  ASSUME RingIsLonger, RingInv, ClearPrepared
  PROVE  RingInv'
<1>1. /\ pc = "fill" /\ filled = Len(prepared) /\ prepared' = << >> /\ filled' = 0
      /\ pc' = "submit"
      /\ UNCHANGED <<cleaning, onthefly, sq, chain, kernel, cqe, head, tail, entry_id, slot>>
  BY Zenon DEF ClearPrepared, ring, completion
<1>2. prepared' \in Seq(Entries) /\ Len(prepared') = 0
  BY <1>1, EmptySeq, Zenon
<1>3. TypeInv'
  BY <1>1, <1>2 DEF RingInv, TypeInv
<1>4. PreparedInv' /\ SqInv' /\ SlotInv'
  BY <1>1, <1>2 DEF PreparedInv, SqInv, SlotInv
<1>5. CountInv'
  <2>1. Occupied' = Occupied
    BY <1>1, SamePosted, Zenon DEF Occupied
  <2> QED
    BY <1>1, <1>2, <2>1, Sizes, Lengths DEF RingInv, CountInv
<1> QED
  BY <1>3, <1>4, <1>5, Zenon DEF RingInv

(* The requests of a part of the submission ring are not more than it. *)
LEMMA RangeSize ==
  ASSUME NEW s \in Seq(Entries)
  PROVE  IsFiniteSet(Range(s)) /\ Cardinality(Range(s)) \in Nat /\ Cardinality(Range(s)) <= Len(s)
<1>1. Len(s) \in Nat /\ DOMAIN s = 1 .. Len(s) /\ s \in [1 .. Len(s) -> Entries]
  BY LenProperties, Zenon
<1>2. s \in Surjection(1 .. Len(s), Range(s))
  BY <1>1, Zenon DEF Surjection, Range
<1>3. IsFiniteSet(1 .. Len(s)) /\ Cardinality(1 .. Len(s)) = Len(s)
  BY <1>1, FS_Interval, SMTT(30)
<1>4. IsFiniteSet(Range(s)) /\ Cardinality(Range(s)) <= Len(s)
  BY <1>2, <1>3, FS_Surjection
<1> QED
  BY <1>4, FS_CardinalityType, Zenon

(* io_uring_submit hands over a part of the ring. *)
LEMMA SubmitKeeps ==
  ASSUME RingIsLonger, RingInv, Submit
  PROVE  RingInv'
<1>1. PICK n \in 1 .. Len(sq) :
        /\ kernel' = kernel \cup Range(SubSeq(sq, 1, n))
        /\ sq' = SubSeq(sq, n + 1, Len(sq))
        /\ pc' = IF n = Len(sq) THEN "client" ELSE "submit"
  BY Zenon DEF Submit
<1>2. pc = "submit"
      /\ UNCHANGED <<cleaning, prepared, onthefly, filled, cqe, head, tail, entry_id, slot>>
  BY Zenon DEF Submit, completion
<1>3. TypeInv /\ sq \in Seq(Entries) /\ Len(sq) \in Nat /\ Cardinality(kernel) \in Nat
      /\ IsFiniteSet(kernel)
  BY Sizes, Zenon DEF RingInv, TypeInv
<1> DEFINE front == SubSeq(sq, 1, n)
           rest == SubSeq(sq, n + 1, Len(sq))
<1>4. front \in Seq(Entries) /\ Len(front) = n
  <2>1. \A i \in 1 .. n : sq[i] \in Entries
    BY <1>3
  <2>2. 1 \in Int /\ n \in Int /\ 1 <= n /\ n - 1 + 1 = n
    BY <1>3
  <2> QED
    BY <2>1, <2>2, SubSeqProperties
<1>5. rest \in Seq(Entries) /\ Len(rest) = Len(sq) - n
  <2>1. \A i \in n + 1 .. Len(sq) : sq[i] \in Entries
    BY <1>3
  <2>2. n + 1 \in Int /\ Len(sq) \in Int /\ Len(sq) - (n + 1) + 1 = Len(sq) - n
    BY <1>3
  <2>3. rest \in Seq(Entries)
        /\ Len(rest) = IF n + 1 <= Len(sq) THEN Len(sq) - (n + 1) + 1 ELSE 0
    BY <2>1, <2>2, SubSeqProperties
  <2> HIDE DEF rest
  <2> QED
    BY <1>3, <2>3
<1> HIDE DEF front, rest
<1>6. kernel' = kernel \cup Range(front) /\ sq' = rest
  BY <1>1, Zenon DEF front, rest
<1>7. IsFiniteSet(kernel') /\ Cardinality(kernel') \in Nat
      /\ Cardinality(kernel') <= Cardinality(kernel) + n
  <2>1. IsFiniteSet(Range(front)) /\ Cardinality(Range(front)) \in Nat
        /\ Cardinality(Range(front)) <= n
    BY <1>4, RangeSize, Zenon
  <2>2. IsFiniteSet(kernel \cap Range(front)) /\ Cardinality(kernel \cap Range(front)) \in Nat
    BY <1>3, FS_Subset, FS_CardinalityType, Zenon
  <2>3. IsFiniteSet(kernel \cup Range(front))
        /\ Cardinality(kernel \cup Range(front))
             = Cardinality(kernel) + Cardinality(Range(front))
               - Cardinality(kernel \cap Range(front))
    BY <1>3, <2>1, FS_Union, Zenon
  <2> QED
    BY <1>3, <1>6, <2>1, <2>2, <2>3, FS_CardinalityType, SMTT(30)
<1>8. TypeInv'
  BY <1>1, <1>2, <1>5, <1>6, <1>7, Zenon DEF RingInv, TypeInv
<1>9. PreparedInv' /\ SlotInv'
  BY <1>1, <1>2, Zenon DEF RingInv, PreparedInv, SlotInv
<1>10. SqInv'
  <2>1. n = Len(sq) => rest = << >>
    BY <1>3, <1>5, EmptySeq
  <2> QED
    BY <1>1, <1>2, <1>6, <2>1, Zenon DEF RingInv, SqInv
<1>11. CountInv'
  <2>1. Posted' = Posted /\ Posted \in Nat /\ Cardinality(onthefly) \in Nat
    BY <1>2, <1>3, SamePosted, PostedIs, Sizes
  <2>2. Occupied' <= Occupied /\ Occupied \in Nat /\ Occupied' \in Nat
    BY <1>3, <1>5, <1>6, <1>7, <2>1, SMTT(30) DEF Occupied
  <2> QED
    BY <1>2, <2>1, <2>2, Lengths, SMTT(30) DEF RingInv, CountInv, MaxPrepared, MaxInFlight
<1> QED
  BY <1>8, <1>9, <1>10, <1>11, Zenon DEF RingInv

(* The kernel posts a completion.  While CompleteOne has yet to read the   *)
(* slot it has given back, the slot written is another one.                *)
LEMMA KernelRunKeeps ==
  ASSUME RingIsLonger, RingInv, NEW e \in Entries, KernelRun(e)
  PROVE  RingInv'
<1> DEFINE C == CqSlots
<1>1. /\ e \in kernel /\ Posted < C
      /\ cqe' = [cqe EXCEPT ![tail % C] = e]
      /\ tail' = Next2(tail)
      /\ kernel' = kernel \ {e}
      /\ UNCHANGED <<pc, cleaning, onthefly, head, prepared, filled, sq, entry_id, slot>>
  BY Zenon DEF KernelRun, submission, completion
<1>2. TypeInv /\ C \in Nat \ {0} /\ 2 * C \in Nat \ {0} /\ Depth \in Nat /\ Depth + 1 <= C
  BY Lengths DEF RingInv
<1>3. head \in 0 .. (2 * C) - 1 /\ tail \in 0 .. (2 * C) - 1 /\ DOMAIN cqe = 0 .. C - 1
  BY Zenon DEF RingInv, TypeInv
<1>4. tail' = IF tail = (2 * C) - 1 THEN 0 ELSE tail + 1
  BY <1>1, <1>2, <1>3, Successor, Zenon DEF Next2
<1>5. IsFiniteSet(kernel') /\ Cardinality(kernel') = Cardinality(kernel) - 1
      /\ Cardinality(kernel) \in Nat /\ Cardinality(kernel') \in Nat
  BY <1>1, FS_RemoveElement, FS_CardinalityType, Zenon DEF RingInv, TypeInv
<1>6. TypeInv'
  <2>1. tail' \in 0 .. (2 * C) - 1
    BY <1>2, <1>3, <1>4
  <2>2. DOMAIN cqe' = 0 .. C - 1
    BY <1>1, <1>3, Zenon
  <2> QED
    BY <1>1, <1>5, <2>1, <2>2, Zenon DEF RingInv, TypeInv, CqSlots, SqSlots
<1>7. /\ Posted = IF tail >= head THEN tail - head ELSE (tail - head) + (2 * C)
      /\ Posted' = IF tail' >= head THEN tail' - head ELSE (tail' - head) + (2 * C)
  <2>1. tail' \in 0 .. (2 * C) - 1
    BY <1>2, <1>3, <1>4
  <2>2. (tail' - head) % (2 * C)
          = IF tail' >= head THEN tail' - head ELSE (tail' - head) + (2 * C)
    BY <1>2, <1>3, <2>1, Distance, Zenon
  <2> QED
    BY <1>1, <1>2, <2>2, PostedIs, Zenon DEF Posted
<1> HIDE DEF C
<1>8. Posted' = Posted + 1
  BY <1>1, <1>2, <1>3, <1>4, <1>7
<1>9. PreparedInv' /\ SqInv'
  BY <1>1, Zenon DEF RingInv, PreparedInv, SqInv, MaxPrepared
<1>10. CountInv'
  <2>1. Len(sq) \in Nat /\ Posted \in Nat
    BY <1>2, Sizes, PostedIs
  <2>2. Occupied' = Occupied
    BY <1>1, <1>5, <1>8, <2>1, SMTT(30) DEF Occupied
  <2> QED
    BY <1>1, <2>2, Zenon DEF RingInv, CountInv, MaxPrepared, MaxInFlight
<1>11. SlotInv'
  <2>1. head % C = (IF head < C THEN head ELSE head - C)
        /\ tail % C = (IF tail < C THEN tail ELSE tail - C)
    BY <1>2, <1>3, SlotOf, Zenon
  <2>2. ASSUME pc = "found"
        PROVE  slot = head % C /\ Posted' > 0 /\ cqe'[slot] = entry_id
    <3>1. slot = head % C /\ Posted > 0 /\ Posted < C /\ cqe[slot] = entry_id
      BY <1>1, <2>2, Zenon DEF RingInv, SlotInv, C
    <3>2. slot # tail % C /\ slot \in 0 .. C - 1
      BY <1>2, <1>3, <1>7, <2>1, <3>1, SMTT(30)
    <3> QED
      BY <1>1, <1>2, <1>3, <1>7, <1>8, <3>1, <3>2, SMTT(30)
  <2>3. ASSUME pc = "seen"
        PROVE  Cardinality(kernel') + Posted' <= Depth /\ cqe'[slot] = entry_id
    <3>1. PICK p \in 0 .. (2 * C) - 1 : head = Next2(p) /\ slot = p % C
      BY <2>3, Zenon DEF RingInv, SlotInv, C
    <3>2. Cardinality(kernel) + Posted <= Depth /\ cqe[slot] = entry_id
      BY <2>3, Zenon DEF RingInv, SlotInv
    <3>3. head = (IF p = (2 * C) - 1 THEN 0 ELSE p + 1)
      BY <1>2, <3>1, Successor, Zenon DEF Next2, C
    <3>4. slot = (IF p < C THEN p ELSE p - C)
      BY <1>2, <3>1, SlotOf, Zenon
    <3>5. Posted \in Nat /\ Posted < Depth
      BY <1>2, <1>5, <3>2, PostedIs
    <3>6. slot # tail % C /\ slot \in 0 .. C - 1
      BY <1>2, <1>3, <1>7, <2>1, <3>3, <3>4, <3>5, SMTT(30)
    <3> QED
      BY <1>1, <1>2, <1>3, <1>5, <1>8, <3>2, <3>5, <3>6, SMTT(30)
  <2>4. ASSUME pc = "seen"
        PROVE  \E p \in 0 .. (2 * CqSlots) - 1 : head = Next2(p) /\ slot = p % CqSlots
    BY <2>4, Zenon DEF RingInv, SlotInv
  <2> QED
    BY <1>1, <2>2, <2>3, <2>4, Zenon DEF SlotInv, C, CqSlots, SqSlots, Next2
<1> QED
  BY <1>6, <1>9, <1>10, <1>11, Zenon DEF RingInv

(* CompleteOne finds the completion at the head. *)
LEMMA WaitCqeKeeps ==
  ASSUME RingIsLonger, RingInv, WaitCqe
  PROVE  RingInv'
<1>1. /\ pc = "client" /\ pc' = "found" /\ Posted > 0
      /\ slot' = head % CqSlots /\ entry_id' = cqe[head % CqSlots]
      /\ UNCHANGED <<cleaning, onthefly, chain, prepared, filled, sq, kernel, cqe, head, tail>>
  BY Zenon DEF WaitCqe, submission, ring
<1>2. TypeInv' /\ PreparedInv' /\ SqInv'
  BY <1>1, Zenon DEF RingInv, TypeInv, PreparedInv, SqInv, CqSlots, SqSlots
<1>3. CountInv'
  BY <1>1, SamePosted, Zenon DEF RingInv, CountInv, Occupied, MaxPrepared, MaxInFlight
<1>4. SlotInv'
  BY <1>1, SamePosted, Zenon DEF SlotInv, CqSlots, SqSlots
<1> QED
  BY <1>2, <1>3, <1>4, Zenon DEF RingInv

(* CompleteOne gives the slot back. *)
LEMMA CqeSeenKeeps ==
  ASSUME RingIsLonger, RingInv, CqeSeen
  PROVE  RingInv'
<1> DEFINE C == CqSlots
<1>1. /\ pc = "found" /\ pc' = "seen" /\ head' = Next2(head)
      /\ onthefly' = onthefly \ {entry_id}
      /\ UNCHANGED <<cleaning, chain, prepared, filled, sq, kernel, cqe, tail, entry_id, slot>>
  BY Zenon DEF CqeSeen, submission, completion
<1>2. TypeInv /\ C \in Nat \ {0} /\ 2 * C \in Nat \ {0} /\ Depth \in Nat /\ MaxInFlight = Depth + 1
  BY Lengths, Zenon DEF RingInv
<1>3. head \in 0 .. (2 * C) - 1 /\ tail \in 0 .. (2 * C) - 1
  BY Zenon DEF RingInv, TypeInv
<1>4. head' = (IF head = (2 * C) - 1 THEN 0 ELSE head + 1) /\ head' \in 0 .. (2 * C) - 1
  <2>1. head' = (IF head = (2 * C) - 1 THEN 0 ELSE head + 1)
    BY <1>1, <1>2, <1>3, Successor, Zenon DEF Next2
  <2> QED
    BY <1>2, <1>3, <2>1
<1>5. /\ Posted = IF tail >= head THEN tail - head ELSE (tail - head) + (2 * C)
      /\ Posted' = IF tail >= head' THEN tail - head' ELSE (tail - head') + (2 * C)
  <2>1. (tail - head') % (2 * C)
          = IF tail >= head' THEN tail - head' ELSE (tail - head') + (2 * C)
    BY <1>2, <1>3, <1>4, Distance, Zenon
  <2> QED
    BY <1>1, <1>2, <2>1, PostedIs, Zenon DEF Posted
<1>6. Posted > 0 /\ slot = head % C /\ cqe[slot] = entry_id
  BY <1>1, Zenon DEF RingInv, SlotInv
<1>7. IsFiniteSet(onthefly') /\ Cardinality(onthefly') \in Nat
      /\ Cardinality(onthefly') <= Cardinality(onthefly)
      /\ Cardinality(onthefly') >= Cardinality(onthefly) - 1 /\ Cardinality(onthefly) \in Nat
  <2>1. IsFiniteSet(onthefly) /\ Cardinality(onthefly) \in Nat
    BY Sizes, Zenon DEF RingInv, TypeInv
  <2>2. IsFiniteSet(onthefly')
        /\ Cardinality(onthefly') = IF entry_id \in onthefly THEN Cardinality(onthefly) - 1
                                    ELSE Cardinality(onthefly)
    BY <1>1, <2>1, FS_RemoveElement, Zenon
  <2>3. Cardinality(onthefly') \in Nat
    BY <2>2, FS_CardinalityType, Zenon
  <2> QED
    BY <2>1, <2>2, <2>3
<1>8. TypeInv'
  BY <1>1, <1>4, <1>7, Zenon DEF RingInv, TypeInv, CqSlots, SqSlots
<1> HIDE DEF C
<1>9. Posted' = Posted - 1 /\ Posted \in Nat
  BY <1>2, <1>3, <1>4, <1>5, <1>6
<1>10. PreparedInv' /\ SqInv'
  BY <1>1, Zenon DEF RingInv, PreparedInv, SqInv, MaxPrepared
<1>11. Len(sq) = 0 /\ Cardinality(kernel) \in Nat /\ Len(prepared) \in Nat /\ filled = 0
       /\ Occupied = Cardinality(kernel) + Posted
  <2>1. sq = << >> /\ filled = 0
    BY <1>1, Zenon DEF RingInv, SqInv
  <2> QED
    BY <1>2, <1>9, <2>1, Sizes DEF Occupied
<1>12. /\ Occupied <= Cardinality(onthefly) /\ Len(prepared) <= MaxPrepared
       /\ Cardinality(onthefly) + Len(prepared) - filled <= MaxInFlight
  BY Zenon DEF RingInv, CountInv
<1>13. CountInv'
  <2>1. Occupied' = Occupied - 1
    BY <1>1, <1>9, <1>11 DEF Occupied
  <2>2. Occupied' <= Cardinality(onthefly')
    BY <1>7, <1>9, <1>11, <1>12, <2>1, SMTT(30)
  <2>3. Cardinality(onthefly') + Len(prepared) - filled <= MaxInFlight
    BY <1>2, <1>7, <1>11, <1>12
  <2> QED
    BY <1>1, <1>12, <2>2, <2>3, Zenon DEF CountInv
<1>14. SlotInv'
  <2>1. Cardinality(kernel) + Posted' <= Depth
    BY <1>2, <1>7, <1>9, <1>11, <1>12, SMTT(30)
  <2> QED
    BY <1>1, <1>3, <1>6, <2>1, Zenon DEF SlotInv, C, CqSlots, SqSlots, Next2
<1> QED
  BY <1>8, <1>10, <1>13, <1>14, Zenon DEF RingInv

(* The result is read, and CleanUp starts and ends, without a change to    *)
(* the rings.                                                              *)
LEMMA RestKeeps ==
  ASSUME RingIsLonger, RingInv, ReadRes \/ CleanUp \/ CleanedUp
  PROVE  RingInv'
<1>1. /\ pc' = "client" /\ pc \in {"client", "seen"} /\ prepared' \in {prepared, << >>}
      /\ DOMAIN cqe' = DOMAIN cqe
      /\ UNCHANGED <<onthefly, chain, filled, sq, kernel, head, tail>>
  BY Zenon DEF ReadRes, CleanUp, CleanedUp, submission, ring, completion
<1>2. filled = 0 /\ sq = << >> /\ TypeInv
  BY <1>1, Zenon DEF RingInv, SqInv
<1>3. prepared' \in Seq(Entries) /\ Len(prepared') \in Nat /\ Len(prepared') <= Len(prepared)
      /\ Len(prepared) \in Nat
  <2>1. prepared \in Seq(Entries) /\ Len(prepared) \in Nat
    BY <1>2, Sizes, Zenon DEF TypeInv
  <2>2. << >> \in Seq(Entries) /\ Len(<< >>) = 0
    BY EmptySeq, Zenon
  <2>3. CASE prepared' = prepared
    BY <2>1, <2>3
  <2>4. CASE prepared' = << >>
    BY <2>1, <2>2, <2>4
  <2> QED
    BY <1>1, <2>3, <2>4, Zenon
<1>4. TypeInv'
  BY <1>1, <1>2, <1>3 DEF TypeInv, CqSlots, SqSlots
<1>5. PreparedInv' /\ SqInv' /\ SlotInv'
  BY <1>1, <1>2 DEF RingInv, PreparedInv, SqInv, SlotInv
<1>6. CountInv'
  <2>1. Occupied' = Occupied
    BY <1>1, SamePosted, Zenon DEF Occupied
  <2>2. /\ Occupied <= Cardinality(onthefly) /\ Len(prepared) <= MaxPrepared
        /\ Cardinality(onthefly) + Len(prepared) - filled <= MaxInFlight
    BY Zenon DEF RingInv, CountInv
  <2>3. Len(prepared') <= MaxPrepared
        /\ Cardinality(onthefly) + Len(prepared') - filled <= MaxInFlight
    BY <1>2, <1>3, <2>2, Lengths, Sizes, SMTT(30)
  <2> QED
    BY <1>1, <2>1, <2>2, <2>3, Zenon DEF CountInv
<1> QED
  BY <1>4, <1>5, <1>6, Zenon DEF RingInv

(* Every step of the engine, its client and the kernel preserves RingInv. *)
LEMMA NextRingInv ==
  ASSUME RingIsLonger, RingInv, [Next]_vars
  PROVE  RingInv'
<1>1. CASE \E e \in Entries : Prepare(e)
  BY <1>1, PrepareKeeps, Zenon
<1>2. CASE SubmitAll
  BY <1>2, SubmitAllKeeps, Zenon
<1>3. CASE GetSqe
  BY <1>3, GetSqeKeeps, Zenon
<1>4. CASE ClearPrepared
  BY <1>4, ClearPreparedKeeps, Zenon
<1>5. CASE Submit
  BY <1>5, SubmitKeeps, Zenon
<1>6. CASE Kernel
  BY <1>6, KernelRunKeeps, Zenon DEF Kernel
<1>7. CASE WaitCqe
  BY <1>7, WaitCqeKeeps, Zenon
<1>8. CASE CqeSeen
  BY <1>8, CqeSeenKeeps, Zenon
<1>9. CASE ReadRes \/ CleanUp \/ CleanedUp
  BY <1>9, RestKeeps, Zenon
<1>10. CASE UNCHANGED vars
  <2>1. TypeInv' /\ PreparedInv' /\ SqInv'
    BY <1>10, Zenon DEF vars, RingInv, TypeInv, PreparedInv, SqInv
  <2>2. CountInv' /\ SlotInv'
    BY <1>10, SamePosted, Zenon DEF vars, RingInv, CountInv, Occupied, SlotInv
  <2> QED
    BY <2>1, <2>2, Zenon DEF RingInv
<1> QED
  BY <1>1, <1>2, <1>3, <1>4, <1>5, <1>6, <1>7, <1>8, <1>9, <1>10, Zenon DEF Next, Complete

(* RingInv is an invariant of class IOUring for every depth and every set  *)
(* of requests, with a submission ring longer than the depth.              *)
THEOREM RingCorrect ==
  ASSUME RingIsLonger
  PROVE  Spec => []RingInv
<1>1. Init => RingInv
  BY InitRingInv, Zenon
<1>2. RingInv /\ [Next]_vars => RingInv'
  BY NextRingInv, Zenon
<1> QED
  BY <1>1, <1>2, PTL DEF Spec

(* SubmitAll always finds an SQE: its assertion on io_uring_get_sqe holds. *)
THEOREM SqesSuffice ==
  ASSUME RingIsLonger
  PROVE  Spec => []SqeAvailable
<1>1. RingInv => SqeAvailable
  BY RingInvSafe, Zenon
<1> QED
  BY <1>1, RingCorrect, PTL

(* CompleteOne reads the result of its own request, from the slot that it  *)
(* has already given back.                                                 *)
THEOREM RingSafe ==
  ASSUME RingIsLonger
  PROVE  Spec => []ResultIsOwn
<1>1. RingInv => ResultIsOwn
  BY RingInvSafe, Zenon
<1> QED
  BY <1>1, RingCorrect, PTL

-----------------------------------------------------------------------------
(***************************************************************************)
(* The rings implement IOEngine, for every depth and every set of requests *)
(* and links: no request is lost, run twice or handed back twice, and none *)
(* runs before the one it is linked to, however the kernel takes them.     *)
(***************************************************************************)

(* The k-th completion that is posted and not seen. *)
PostedAt(k) == cqe[(head + k) % CqSlots]

(* A request on the fly is in at most one place: in the submission ring,   *)
(* in the kernel, or posted.  The one CompleteOne returns is in none.      *)
PlaceInv ==
  /\ onthefly \subseteq Entries
  /\ kernel \subseteq onthefly
  /\ \A i \in 1 .. Len(sq) : sq[i] \in onthefly /\ sq[i] \notin kernel
  /\ \A i, j \in 1 .. Len(sq) : sq[i] = sq[j] => i = j
  /\ \A k \in 0 .. Posted - 1 : PostedAt(k) \in onthefly /\ PostedAt(k) \notin kernel
  /\ \A k \in 0 .. Posted - 1, i \in 1 .. Len(sq) : sq[i] # PostedAt(k)
  /\ \A j, k \in 0 .. Posted - 1 : PostedAt(j) = PostedAt(k) => j = k
  /\ pc = "seen" => entry_id \in Entries /\ entry_id \notin onthefly

(* While SubmitAll fills the ring, the ring is the beginning of the batch, *)
(* with its links.                                                         *)
LinkInv ==
  pc = "fill" =>
    /\ \A i \in 1 .. filled : sq[i] = prepared[i]
    /\ \A i \in 1 .. filled - 1 :
         prepared[i] \in Linked => <<prepared[i], prepared[i + 1]>> \in chain

EngineInv == RingInv /\ PlaceInv /\ LinkInv

-----------------------------------------------------------------------------
(* Posted completions. *)

(* Completions less than a ring apart are in different slots. *)
LEMMA SlotsDiffer ==
  ASSUME NEW c \in Nat \ {0}, NEW a \in 0 .. (2 * c) - 1,
         NEW i \in 0 .. c - 1, NEW j \in 0 .. c - 1, (a + i) % c = (a + j) % c
  PROVE  i = j
<1>1. ASSUME NEW b \in 0 .. (3 * c) - 1
      PROVE  b % c = IF b < c THEN b ELSE IF b < 2 * c THEN b - c ELSE b - (2 * c)
  BY <1>1
<1>2. a + i \in 0 .. (3 * c) - 1 /\ a + j \in 0 .. (3 * c) - 1
  OBVIOUS
<1>3. /\ (a + i) % c = IF a + i < c THEN a + i ELSE IF a + i < 2 * c THEN a + i - c ELSE a + i - (2 * c)
      /\ (a + j) % c = IF a + j < c THEN a + j ELSE IF a + j < 2 * c THEN a + j - c ELSE a + j - (2 * c)
  BY <1>1, <1>2, SMTT(30)
<1> QED
  BY <1>2, <1>3

(* The slot after the k-th is that of the k-th after the next index. *)
LEMMA SlotShift ==
  ASSUME NEW c \in Nat \ {0}, NEW a \in 0 .. (2 * c) - 1, NEW k \in 0 .. c - 1
  PROVE  (((a + 1) % (2 * c)) + k) % c = (a + (k + 1)) % c
<1>1. (a + 1) % (2 * c) = IF a = (2 * c) - 1 THEN 0 ELSE a + 1
  BY Successor
<1>2. CASE a = (2 * c) - 1
  <2>1. a + (k + 1) = k + 2 * c
    BY <1>2
  <2>2. k % c = k
    OBVIOUS
  <2>3. (k + 2 * c) % c = k
    OBVIOUS
  <2> QED
    BY <1>1, <1>2, <2>1, <2>2, <2>3, SMTT(30)
<1>3. CASE a # (2 * c) - 1
  BY <1>1, <1>3
<1> QED
  BY <1>2, <1>3, Zenon

(* The ring is never full. *)
LEMMA RingNotFull ==
  ASSUME RingIsLonger, RingInv
  PROVE  /\ CqSlots \in Nat \ {0} /\ Posted \in 0 .. CqSlots - 1
         /\ head \in 0 .. (2 * CqSlots) - 1 /\ tail \in 0 .. (2 * CqSlots) - 1
<1>1. TypeInv
  BY Zenon DEF RingInv
<1>2. /\ Occupied <= Cardinality(onthefly)
      /\ Cardinality(onthefly) + Len(prepared) - filled <= MaxInFlight
      /\ filled \in 0 .. Len(prepared)
  BY Zenon DEF RingInv, CountInv, TypeInv
<1>3. /\ CqSlots \in Nat \ {0} /\ Depth \in Nat /\ Depth + 1 < CqSlots
      /\ MaxInFlight = Depth + 1
  BY Lengths
<1>4. Posted \in Nat /\ Posted <= Occupied
  BY <1>1, <1>3, Sizes, PostedIs, SMTT(30) DEF Occupied
<1>5. Occupied <= Depth + 1 /\ Occupied \in Int
  BY <1>1, <1>2, <1>3, <1>4, Sizes, SMTT(30) DEF Occupied
<1>6. Posted \in 0 .. CqSlots - 1
  BY <1>3, <1>4, <1>5
<1> QED
  BY <1>1, <1>3, <1>6, Zenon DEF TypeInv

(* The slot the kernel writes to is that of the next completion. *)
LEMMA TailSlot ==
  ASSUME RingIsLonger, RingInv
  PROVE  (head + Posted) % CqSlots = tail % CqSlots
<1> DEFINE c == CqSlots
<1>1. /\ c \in Nat \ {0}
      /\ head \in 0 .. (2 * c) - 1 /\ tail \in 0 .. (2 * c) - 1
  BY RingNotFull, Zenon
<1>2. Posted = IF tail >= head THEN tail - head ELSE (tail - head) + (2 * c)
  BY PostedIs, Zenon DEF RingInv
<1>3. head + Posted = IF tail >= head THEN tail ELSE tail + 2 * c
  BY <1>1, <1>2
<1> HIDE DEF c
<1>4. (tail + 2 * c) % c = tail % c
  BY <1>1
<1> QED
  BY <1>3, <1>4, Zenon DEF c

(* The kernel adds a completion at the end. *)
LEMMA KernelPosts ==
  ASSUME RingIsLonger, RingInv, RingInv', NEW e \in Entries, KernelRun(e)
  PROVE  /\ Posted' = Posted + 1
         /\ \A k \in 0 .. Posted - 1 : PostedAt(k)' = PostedAt(k)
         /\ \A n \in {Posted} : PostedAt(n)' = e
<1> DEFINE c == CqSlots
<1>1. /\ c \in Nat \ {0} /\ 2 * c \in Nat \ {0} /\ Posted \in 0 .. c - 1
      /\ head \in 0 .. (2 * c) - 1 /\ tail \in 0 .. (2 * c) - 1
      /\ DOMAIN cqe = 0 .. c - 1
  BY RingNotFull, Lengths, Zenon DEF RingInv, TypeInv
<1>2. cqe' = [cqe EXCEPT ![tail % c] = e] /\ tail' = Next2(tail) /\ head' = head
  BY Zenon DEF KernelRun
<1>3. (head + Posted) % c = tail % c
  BY TailSlot, Zenon
<1>4. Posted' = Posted + 1
  <2>1. /\ Posted = IF tail >= head THEN tail - head ELSE (tail - head) + (2 * c)
        /\ tail' = IF tail = (2 * c) - 1 THEN 0 ELSE tail + 1
    <3>1. (tail + 1) % (2 * c) = IF tail = (2 * c) - 1 THEN 0 ELSE tail + 1
      BY <1>1, Successor, Zenon
    <3> QED
      BY <1>2, <3>1, PostedIs, Zenon DEF RingInv, Next2
  <2>2. tail' \in 0 .. (2 * c) - 1
    BY <1>1, <2>1
  <2>3. (tail' - head) % (2 * c)
          = IF tail' >= head THEN tail' - head ELSE (tail' - head) + (2 * c)
    BY <1>1, <2>2, Distance, Zenon
  <2>4. Posted' = IF tail' >= head THEN tail' - head ELSE (tail' - head) + (2 * c)
    BY <1>2, <2>3, Zenon DEF Posted, CqSlots, SqSlots
  <2> HIDE DEF c
  <2> QED
    BY <1>1, <2>1, <2>4
<1>5. ASSUME NEW k \in 0 .. Posted - 1 PROVE PostedAt(k)' = PostedAt(k)
  <2>1. k \in 0 .. c - 1 /\ k # Posted
    BY <1>1
  <2>2. (head + k) % c # tail % c
    BY <1>1, <1>3, <2>1, SlotsDiffer, Zenon
  <2>3. cqe'[(head + k) % c] = cqe[(head + k) % c]
    BY <1>2, <2>2
  <2> QED
    BY <1>2, <2>3, Zenon DEF PostedAt, CqSlots, SqSlots
<1>6. cqe'[(head + Posted) % c] = e
  BY <1>1, <1>2, <1>3
<1>7. ASSUME NEW n \in {Posted} PROVE PostedAt(n)' = e
  BY <1>2, <1>6, Zenon DEF PostedAt, CqSlots, SqSlots
<1> QED
  BY <1>4, <1>5, <1>7, Zenon

(* CompleteOne takes the first completion. *)
LEMMA SeenShifts ==
  ASSUME RingIsLonger, RingInv, CqeSeen
  PROVE  /\ Posted > 0 /\ Posted' = Posted - 1
         /\ \A k \in 0 .. Posted - 2 : PostedAt(k)' = PostedAt(k + 1)
         /\ entry_id = PostedAt(0)
<1> DEFINE c == CqSlots
<1>1. /\ c \in Nat \ {0} /\ 2 * c \in Nat \ {0} /\ Posted \in 0 .. c - 1
      /\ head \in 0 .. (2 * c) - 1 /\ tail \in 0 .. (2 * c) - 1
  BY RingNotFull, Lengths, Zenon
<1>2. pc = "found" /\ head' = (head + 1) % (2 * c) /\ tail' = tail /\ cqe' = cqe
  BY Zenon DEF CqeSeen, Next2
<1>3. Posted > 0 /\ slot = head % c /\ cqe[slot] = entry_id
  BY <1>2, Zenon DEF RingInv, SlotInv
<1>4. Posted' = Posted - 1
  <2>1. /\ Posted = IF tail >= head THEN tail - head ELSE (tail - head) + (2 * c)
        /\ head' = IF head = (2 * c) - 1 THEN 0 ELSE head + 1
    <3>1. (head + 1) % (2 * c) = IF head = (2 * c) - 1 THEN 0 ELSE head + 1
      BY <1>1, Successor, Zenon
    <3> QED
      BY <1>2, <3>1, PostedIs, Zenon DEF RingInv
  <2>2. head' \in 0 .. (2 * c) - 1
    BY <1>1, <2>1
  <2>3. (tail - head') % (2 * c)
          = IF tail >= head' THEN tail - head' ELSE (tail - head') + (2 * c)
    BY <1>1, <2>2, Distance, Zenon
  <2>4. Posted' = IF tail >= head' THEN tail - head' ELSE (tail - head') + (2 * c)
    BY <1>2, <2>3, Zenon DEF Posted, CqSlots, SqSlots
  <2> HIDE DEF c
  <2> QED
    BY <1>1, <1>3, <2>1, <2>4, SMTT(30)
<1>5. ASSUME NEW k \in 0 .. Posted - 2 PROVE PostedAt(k)' = PostedAt(k + 1)
  <2>1. k \in 0 .. c - 1
    BY <1>1
  <2>2. (head' + k) % c = (head + (k + 1)) % c
    BY <1>1, <1>2, <2>1, SlotShift, Zenon
  <2> QED
    BY <1>2, <2>2, Zenon DEF PostedAt, CqSlots, SqSlots
<1>6. head + 0 = head
  BY <1>1
<1> QED
  BY <1>3, <1>4, <1>5, <1>6, Zenon DEF PostedAt

(* Reading the result changes no completion that is posted. *)
LEMMA ReadKeepsPosted ==
  ASSUME RingIsLonger, RingInv, ReadRes
  PROVE  Posted' = Posted /\ \A k \in 0 .. Posted - 1 : PostedAt(k)' = PostedAt(k)
<1> DEFINE c == CqSlots
<1>1. /\ c \in Nat \ {0} /\ Posted \in 0 .. c - 1 /\ Depth \in Nat /\ Depth + 1 < c
      /\ head \in 0 .. (2 * c) - 1 /\ DOMAIN cqe = 0 .. c - 1
  BY RingNotFull, Lengths, SMTT(30) DEF RingInv, TypeInv
<1>2. pc = "seen" /\ head' = head /\ tail' = tail
      /\ cqe' \in {cqe, [cqe EXCEPT ![slot] = None]}
  BY Zenon DEF ReadRes
<1>3. PICK p \in 0 .. (2 * c) - 1 : head = (p + 1) % (2 * c) /\ slot = p % c
  BY <1>2, Zenon DEF RingInv, SlotInv, Next2
<1>4. Posted <= Depth
  <2>1. Cardinality(kernel) + Posted <= Depth /\ Cardinality(kernel) \in Nat
    BY <1>2, Sizes, Zenon DEF RingInv, SlotInv
  <2> QED
    BY <1>1, <2>1
<1>5. ASSUME NEW k \in 0 .. Posted - 1 PROVE PostedAt(k)' = PostedAt(k)
  <2>1. k \in 0 .. c - 1 /\ k + 1 \in 0 .. c - 1 /\ 0 \in 0 .. c - 1 /\ k + 1 # 0
    BY <1>1, <1>4
  <2>2. (head + k) % c = (p + (k + 1)) % c
    BY <1>1, <1>3, <2>1, SlotShift, Zenon
  <2>3. (p + (k + 1)) % c # (p + 0) % c
    BY <1>1, <2>1, SlotsDiffer, Zenon
  <2>4. p + 0 = p
    BY <1>1
  <2>5. (head + k) % c # slot
    BY <1>3, <2>2, <2>3, <2>4, Zenon
  <2>6. cqe'[(head + k) % c] = cqe[(head + k) % c]
    <3>1. cqe' = cqe \/ cqe' = [cqe EXCEPT ![slot] = None]
      BY <1>2, Zenon
    <3>2. (head + k) % c \in DOMAIN cqe
      BY <1>1, <2>1
    <3> QED
      BY <2>5, <3>1, <3>2, Zenon
  <2> QED
    BY <1>2, <2>6, Zenon DEF PostedAt, CqSlots, SqSlots
<1> QED
  BY <1>2, <1>5, SamePosted, Zenon

(* Other steps leave the completions alone. *)
LEMMA SamePostedAt ==
  ASSUME UNCHANGED <<cqe, head, tail>>
  PROVE  Posted' = Posted /\ \A k \in 0 .. Posted - 1 : PostedAt(k)' = PostedAt(k)
  BY Zenon DEF Posted, PostedAt, CqSlots, SqSlots

-----------------------------------------------------------------------------
(* Every step preserves the invariant. *)

(* Steps that move no request. *)
LEMMA SamePlace ==
  ASSUME PlaceInv, UNCHANGED <<onthefly, sq, kernel, cqe, head, tail>>,
         pc' = "seen" => pc = "seen" /\ entry_id' = entry_id
  PROVE  PlaceInv'
<1>1. Posted' = Posted /\ \A k \in 0 .. Posted - 1 : PostedAt(k)' = PostedAt(k)
  BY SamePostedAt, Zenon
<1> QED
  BY <1>1 DEF PlaceInv

(* A request gets an SQE. *)
LEMMA GetSqePlace ==
  ASSUME RingIsLonger, EngineInv, GetSqe
  PROVE  PlaceInv' /\ LinkInv'
<1> DEFINE e == prepared[filled + 1]
<1>1. /\ pc = "fill" /\ filled < Len(prepared) /\ sq' = Append(sq, e)
      /\ onthefly' = onthefly \cup {e} /\ filled' = filled + 1
      /\ chain' = IF sq # << >> /\ Last(sq) \in Linked THEN chain \cup {<<Last(sq), e>>} ELSE chain
      /\ UNCHANGED <<pc, prepared, kernel, cqe, head, tail, entry_id>>
  BY Zenon DEF GetSqe, ring, completion
<1>2. /\ sq \in Seq(Entries) /\ prepared \in Seq(Entries) /\ Len(prepared) \in Nat
      /\ filled \in Nat /\ Len(sq) = filled
  BY <1>1, Sizes, Zenon DEF EngineInv, RingInv, TypeInv, SqInv
<1>3. filled + 1 \in 1 .. Len(prepared) /\ filled + 1 \in filled + 1 .. Len(prepared)
  BY <1>1, <1>2
<1>4. e \in Entries /\ e \notin onthefly
  BY <1>2, <1>3, SMTT(30) DEF EngineInv, RingInv, PreparedInv
<1> HIDE DEF e
<1>5. /\ Len(sq') = filled + 1 /\ sq'[filled + 1] = e
      /\ \A i \in 1 .. filled : sq'[i] = sq[i]
  BY <1>1, <1>2, <1>4, AppendProperties, SMTT(30)
<1>6. Posted' = Posted /\ \A k \in 0 .. Posted - 1 : PostedAt(k)' = PostedAt(k)
  BY <1>1, SamePostedAt, Zenon
<1>7. PlaceInv'
  <2>1. \A i \in 1 .. filled + 1 : i \in 1 .. filled \/ i = filled + 1
    BY <1>2
  <2>2. PlaceInv
    BY Zenon DEF EngineInv
  <2>3. onthefly' \subseteq Entries /\ kernel' \subseteq onthefly'
    BY <1>1, <1>4, <2>2, Zenon DEF PlaceInv
  <2>4. \A i \in 1 .. Len(sq') : sq'[i] \in onthefly' /\ sq'[i] \notin kernel'
    BY <1>1, <1>2, <1>4, <1>5, <2>1, <2>2, Zenon DEF PlaceInv
  <2>5. \A i, j \in 1 .. Len(sq') : sq'[i] = sq'[j] => i = j
    BY <1>1, <1>2, <1>4, <1>5, <2>1, <2>2, SMTT(30) DEF PlaceInv
  <2>6. \A k \in 0 .. Posted' - 1 : PostedAt(k)' \in onthefly' /\ PostedAt(k)' \notin kernel'
    BY <1>1, <1>6, <2>2, SMTT(30) DEF PlaceInv
  <2>7. \A k \in 0 .. Posted' - 1, i \in 1 .. Len(sq') : sq'[i] # PostedAt(k)'
    BY <1>1, <1>2, <1>4, <1>5, <1>6, <2>1, <2>2, SMTT(30) DEF PlaceInv
  <2>8. \A j, k \in 0 .. Posted' - 1 : PostedAt(j)' = PostedAt(k)' => j = k
    BY <1>6, <2>2 DEF PlaceInv
  <2> QED
    BY <1>1, <2>3, <2>4, <2>5, <2>6, <2>7, <2>8, Zenon DEF PlaceInv
<1>8. LinkInv'
  <2>1. ASSUME NEW i \in 1 .. filled + 1 PROVE sq'[i] = prepared[i]
    <3>1. i \in 1 .. filled \/ i = filled + 1
      BY <1>2
    <3> QED
      BY <1>1, <1>5, <3>1, Zenon DEF e, EngineInv, LinkInv
  <2>2. ASSUME NEW i \in 1 .. filled, prepared[i] \in Linked
        PROVE  <<prepared[i], prepared[i + 1]>> \in chain'
    <3>1. CASE i = filled
      <4>1. sq # << >> /\ Last(sq) = sq[filled] /\ sq[filled] = prepared[filled]
        BY <1>1, <1>2, <3>1, EmptySeq, SMTT(30) DEF Last, EngineInv, LinkInv
      <4> QED
        BY <1>1, <2>2, <3>1, <4>1, Zenon DEF e
    <3>2. CASE i # filled
      <4>1. i \in 1 .. filled - 1
        BY <1>2, <3>2
      <4>2. <<prepared[i], prepared[i + 1]>> \in chain
        BY <1>1, <2>2, <4>1, Zenon DEF EngineInv, LinkInv
      <4> QED
        BY <1>1, <4>2, Zenon
    <3> QED
      BY <3>1, <3>2, Zenon
  <2>3. filled' - 1 = filled
    BY <1>1, <1>2
  <2> QED
    BY <1>1, <2>1, <2>2, <2>3, Zenon DEF LinkInv
<1> QED
  BY <1>7, <1>8, Zenon

(* The kernel takes a part of the submission ring. *)
LEMMA SubmitPlace ==
  ASSUME RingIsLonger, EngineInv, Submit
  PROVE  PlaceInv' /\ LinkInv'
<1>1. PICK n \in 1 .. Len(sq) :
        /\ kernel' = kernel \cup Range(SubSeq(sq, 1, n))
        /\ sq' = SubSeq(sq, n + 1, Len(sq))
        /\ pc' = IF n = Len(sq) THEN "client" ELSE "submit"
  BY Zenon DEF Submit
<1>2. UNCHANGED <<onthefly, cqe, head, tail>>
  BY Zenon DEF Submit
<1>3. sq \in Seq(Entries) /\ Len(sq) \in Nat /\ \A i \in 1 .. Len(sq) : sq[i] \in Entries
  BY DEF EngineInv, RingInv, TypeInv
<1> DEFINE front == SubSeq(sq, 1, n)
           rest == SubSeq(sq, n + 1, Len(sq))
<1>4. Len(front) = n /\ front \in Seq(Entries) /\ \A i \in 1 .. n : front[i] = sq[i]
  <2>1. /\ 1 \in Int /\ n \in Int /\ 1 <= n /\ n - 1 + 1 = n
        /\ \A i \in 1 .. n : sq[i] \in Entries
        /\ \A i \in 1 .. n : 1 + i - 1 = i
    BY <1>3
  <2>2. /\ front \in Seq(Entries)
        /\ Len(front) = IF 1 <= n THEN n - 1 + 1 ELSE 0
        /\ \A i \in 1 .. n - 1 + 1 : front[i] = sq[1 + i - 1]
    BY <2>1, SubSeqProperties, SMTT(30)
  <2> HIDE DEF front
  <2> QED
    BY <2>1, <2>2, Zenon
<1>5. Len(rest) = Len(sq) - n /\ \A i \in 1 .. Len(sq) - n : rest[i] = sq[n + i]
  <2>1. /\ n + 1 \in Int /\ Len(sq) \in Int /\ Len(sq) - (n + 1) + 1 = Len(sq) - n
        /\ \A i \in n + 1 .. Len(sq) : sq[i] \in Entries
        /\ \A i \in 1 .. Len(sq) - n : (n + 1) + i - 1 = n + i
    BY <1>3
  <2>2. /\ Len(rest) = IF n + 1 <= Len(sq) THEN Len(sq) - (n + 1) + 1 ELSE 0
        /\ \A i \in 1 .. Len(sq) - (n + 1) + 1 : rest[i] = sq[(n + 1) + i - 1]
    BY <2>1, SubSeqProperties, SMTT(30)
  <2> HIDE DEF rest
  <2> QED
    BY <1>3, <2>1, <2>2, SMTT(30)
<1> HIDE DEF front, rest
<1>6. kernel' = kernel \cup Range(front) /\ sq' = rest
  BY <1>1, Zenon DEF front, rest
<1>7. Range(front) = {sq[i] : i \in 1 .. n}
  <2>1. DOMAIN front = 1 .. n
    BY <1>4, LenProperties, Zenon
  <2> QED
    BY <1>4, <2>1, Zenon DEF Range
<1>8. Posted' = Posted /\ \A k \in 0 .. Posted - 1 : PostedAt(k)' = PostedAt(k)
  BY <1>2, SamePostedAt, Zenon
<1>9. PlaceInv /\ \A i \in 1 .. n : i \in 1 .. Len(sq)
  BY <1>3 DEF EngineInv
<1>10. \A i \in 1 .. Len(sq') :
         n + i \in 1 .. Len(sq) /\ sq'[i] = sq[n + i] /\ i \in Int /\ n + i \notin 1 .. n
  BY <1>3, <1>5, <1>6, SMTT(30)
<1>11. kernel' \subseteq onthefly'
  BY <1>2, <1>6, <1>7, <1>9, SMTT(30) DEF PlaceInv
<1>12. \A i \in 1 .. Len(sq') : sq'[i] \in onthefly' /\ sq'[i] \notin kernel'
  BY <1>2, <1>6, <1>7, <1>9, <1>10, SMTT(30) DEF PlaceInv
<1>13. \A i, j \in 1 .. Len(sq') : sq'[i] = sq'[j] => i = j
  <2>1. ASSUME NEW i \in 1 .. Len(sq'), NEW j \in 1 .. Len(sq'), sq'[i] = sq'[j] PROVE i = j
    <3>1. n + i = n + j
      BY <1>9, <1>10, <2>1, Zenon DEF PlaceInv
    <3> QED
      BY <1>3, <1>10, <3>1
  <2> QED
    BY <2>1, Zenon
<1>14. \A k \in 0 .. Posted - 1 : PostedAt(k) \in onthefly' /\ PostedAt(k) \notin kernel'
  BY <1>2, <1>6, <1>7, <1>9, Zenon DEF PlaceInv
<1>15. \A k \in 0 .. Posted - 1, i \in 1 .. Len(sq') : sq'[i] # PostedAt(k)
  BY <1>9, <1>10, Zenon DEF PlaceInv
<1>16. PlaceInv'
  <2>1. onthefly' \subseteq Entries /\ pc' # "seen"
    BY <1>1, <1>2, <1>9, Zenon DEF PlaceInv
  <2>2. \A k \in 0 .. Posted' - 1 : PostedAt(k)' \in onthefly' /\ PostedAt(k)' \notin kernel'
    BY <1>8, <1>14, Zenon
  <2>3. \A k \in 0 .. Posted' - 1, i \in 1 .. Len(sq') : sq'[i] # PostedAt(k)'
    BY <1>8, <1>15, Zenon
  <2>4. \A j, k \in 0 .. Posted' - 1 : PostedAt(j)' = PostedAt(k)' => j = k
    BY <1>8, <1>9 DEF PlaceInv
  <2> QED
    BY <1>11, <1>12, <1>13, <2>1, <2>2, <2>3, <2>4, Zenon DEF PlaceInv
<1> QED
  BY <1>1, <1>16, Zenon DEF LinkInv

(* The kernel runs a request and posts it. *)
LEMMA KernelRunPlace ==
  ASSUME RingIsLonger, EngineInv, RingInv', NEW e \in Entries, KernelRun(e)
  PROVE  PlaceInv' /\ LinkInv'
<1>1. /\ e \in kernel /\ kernel' = kernel \ {e} /\ chain' = {x \in chain : x[1] # e}
      /\ UNCHANGED <<pc, onthefly, prepared, filled, sq, entry_id>>
  BY Zenon DEF KernelRun, submission, completion
<1>2. /\ Posted' = Posted + 1
      /\ \A k \in 0 .. Posted - 1 : PostedAt(k)' = PostedAt(k)
      /\ \A n \in {Posted} : PostedAt(n)' = e
  BY KernelPosts, Zenon DEF EngineInv
<1>3. PlaceInv /\ Posted \in Nat
  BY RingNotFull DEF EngineInv
<1>4. \A k \in 0 .. Posted' - 1 : k \in 0 .. Posted - 1 \/ k = Posted
  BY <1>2, <1>3, SMTT(30)
<1>5. \A k \in 0 .. Posted' - 1 :
        \/ k \in 0 .. Posted - 1 /\ PostedAt(k)' = PostedAt(k) /\ PostedAt(k) # e
        \/ k = Posted /\ PostedAt(k)' = e
  BY <1>1, <1>2, <1>3, <1>4, SMTT(30) DEF PlaceInv
<1>6. PlaceInv'
  <2>1. onthefly' \subseteq Entries /\ kernel' \subseteq onthefly'
        /\ (pc' = "seen" => entry_id' \in Entries /\ entry_id' \notin onthefly')
    BY <1>1, <1>3, Zenon DEF PlaceInv
  <2>2. /\ \A i \in 1 .. Len(sq') : sq'[i] \in onthefly' /\ sq'[i] \notin kernel'
        /\ \A i, j \in 1 .. Len(sq') : sq'[i] = sq'[j] => i = j
    BY <1>1, <1>3, Zenon DEF PlaceInv
  <2>3. \A k \in 0 .. Posted' - 1 : PostedAt(k)' \in onthefly' /\ PostedAt(k)' \notin kernel'
    BY <1>1, <1>3, <1>5, SMTT(30) DEF PlaceInv
  <2>4. \A k \in 0 .. Posted' - 1, i \in 1 .. Len(sq') : sq'[i] # PostedAt(k)'
    BY <1>1, <1>3, <1>5, Zenon DEF PlaceInv
  <2>5. \A j, k \in 0 .. Posted' - 1 : PostedAt(j)' = PostedAt(k)' => j = k
    BY <1>3, <1>5, Zenon DEF PlaceInv
  <2> QED
    BY <2>1, <2>2, <2>3, <2>4, <2>5, Zenon DEF PlaceInv
<1>7. LinkInv'
  <2>1. ASSUME pc = "fill", NEW i \in 1 .. filled - 1, prepared[i] \in Linked
        PROVE  <<prepared[i], prepared[i + 1]>> \in chain'
    <3>1. i \in 1 .. filled /\ i \in 1 .. Len(sq)
      BY <2>1, Sizes DEF EngineInv, RingInv, SqInv
    <3>2. prepared[i] # e
      BY <1>1, <1>3, <2>1, <3>1, Zenon DEF EngineInv, LinkInv, PlaceInv
    <3> QED
      BY <1>1, <2>1, <3>2, Zenon DEF EngineInv, LinkInv
  <2>2. ASSUME pc = "fill", NEW i \in 1 .. filled PROVE sq[i] = prepared[i]
    BY <2>2, Zenon DEF EngineInv, LinkInv
  <2> QED
    BY <1>1, <2>1, <2>2, Zenon DEF LinkInv
<1> QED
  BY <1>6, <1>7, Zenon

(* CompleteOne takes the first completion from those on the fly. *)
LEMMA CqeSeenPlace ==
  ASSUME RingIsLonger, EngineInv, CqeSeen
  PROVE  PlaceInv' /\ LinkInv'
<1>1. /\ pc = "found" /\ pc' = "seen" /\ onthefly' = onthefly \ {entry_id}
      /\ UNCHANGED <<sq, kernel, entry_id>>
  BY Zenon DEF CqeSeen, submission, completion
<1>2. /\ Posted > 0 /\ Posted' = Posted - 1
      /\ \A k \in 0 .. Posted - 2 : PostedAt(k)' = PostedAt(k + 1)
      /\ entry_id = PostedAt(0)
  BY SeenShifts, Zenon DEF EngineInv
<1>3. PlaceInv /\ Posted \in Nat /\ Len(sq) = 0
  BY <1>1, RingNotFull DEF EngineInv, RingInv, SqInv
<1>4. 0 \in 0 .. Posted - 1
      /\ \A k \in 0 .. Posted' - 1 : k \in 0 .. Posted - 2 /\ k + 1 \in 0 .. Posted - 1 /\ k + 1 # 0
  BY <1>2, <1>3, SMTT(30)
<1>5. \A k \in 0 .. Posted' - 1 : PostedAt(k)' = PostedAt(k + 1) /\ PostedAt(k)' # entry_id
  BY <1>2, <1>3, <1>4 DEF PlaceInv
<1>6. entry_id \in onthefly /\ entry_id \notin kernel
  BY <1>2, <1>3, <1>4, Zenon DEF PlaceInv
<1>7. onthefly' \subseteq Entries /\ kernel' \subseteq onthefly'
      /\ entry_id' \in Entries /\ entry_id' \notin onthefly'
  BY <1>1, <1>3, <1>6, Zenon DEF PlaceInv
<1>8. \A k \in 0 .. Posted' - 1 : PostedAt(k)' \in onthefly' /\ PostedAt(k)' \notin kernel'
  BY <1>1, <1>3, <1>4, <1>5, SMTT(30) DEF PlaceInv
<1>9. ASSUME NEW j \in 0 .. Posted' - 1, NEW k \in 0 .. Posted' - 1, PostedAt(j)' = PostedAt(k)'
      PROVE  j = k
  <2>1. j + 1 = k + 1
    BY <1>3, <1>4, <1>5, <1>9, SMTT(30) DEF PlaceInv
  <2> QED
    BY <1>2, <1>3, <2>1, SMTT(30)
<1>10. \A i \in 1 .. Len(sq') : FALSE
  BY <1>1, <1>3, SMTT(30)
<1> QED
  BY <1>1, <1>7, <1>8, <1>9, <1>10, Zenon DEF PlaceInv, LinkInv

(* The result is read. *)
LEMMA ReadResPlace ==
  ASSUME RingIsLonger, EngineInv, ReadRes
  PROVE  PlaceInv' /\ LinkInv'
<1>1. pc' = "client" /\ UNCHANGED <<onthefly, sq, kernel>>
  BY Zenon DEF ReadRes, submission
<1>2. Posted' = Posted /\ \A k \in 0 .. Posted - 1 : PostedAt(k)' = PostedAt(k)
  BY ReadKeepsPosted, Zenon DEF EngineInv
<1> QED
  BY <1>1, <1>2 DEF EngineInv, PlaceInv, LinkInv

(* The rings start empty. *)
LEMMA InitEngineInv == ASSUME RingIsLonger, Init PROVE EngineInv
<1>1. RingInv
  BY InitRingInv, Zenon
<1>2. Posted = 0
  BY <1>1, PostedIs, Lengths, SMTT(30) DEF RingInv, Init
<1>3. PlaceInv /\ LinkInv
  BY <1>2 DEF Init, PlaceInv, LinkInv
<1> QED
  BY <1>1, <1>3, Zenon DEF EngineInv

(* Every step preserves EngineInv. *)
LEMMA NextEngineInv ==
  ASSUME RingIsLonger, EngineInv, [Next]_vars
  PROVE  EngineInv'
<1>1. RingInv'
  BY NextRingInv, Zenon DEF EngineInv
<1> SUFFICES PlaceInv' /\ LinkInv'
  BY <1>1, Zenon DEF EngineInv
<1>2. CASE (\E e \in Entries : Prepare(e)) \/ CleanUp \/ CleanedUp \/ WaitCqe
  <2>1. pc' \in {"client", "found"} /\ UNCHANGED <<onthefly, sq, kernel, cqe, head, tail>>
    BY <1>2, Zenon DEF Prepare, CleanUp, CleanedUp, WaitCqe, submission, ring
  <2> QED
    BY <2>1, SamePlace, Zenon DEF EngineInv, LinkInv
<1>3. CASE SubmitAll
  <2>1. pc' = "fill" /\ filled' = filled /\ filled = 0
        /\ UNCHANGED <<onthefly, sq, kernel, cqe, head, tail>>
    BY <1>3, Zenon DEF SubmitAll, submission, ring, EngineInv, RingInv, SqInv
  <2> QED
    BY <2>1, SamePlace DEF EngineInv, LinkInv
<1>4. CASE ClearPrepared
  <2>1. pc' = "submit" /\ UNCHANGED <<onthefly, sq, kernel, cqe, head, tail>>
    BY <1>4, Zenon DEF ClearPrepared, ring
  <2> QED
    BY <2>1, SamePlace, Zenon DEF EngineInv, LinkInv
<1>5. CASE UNCHANGED vars
  <2>1. UNCHANGED <<pc, prepared, filled, chain, entry_id, onthefly, sq, kernel, cqe, head, tail>>
    BY <1>5, Zenon DEF vars
  <2> QED
    BY <2>1, SamePlace, Zenon DEF EngineInv, LinkInv
<1>6. CASE GetSqe
  BY <1>6, GetSqePlace, Zenon
<1>7. CASE Submit
  BY <1>7, SubmitPlace, Zenon
<1>8. CASE Kernel
  BY <1>1, <1>8, KernelRunPlace, Zenon DEF Kernel
<1>9. CASE CqeSeen
  BY <1>9, CqeSeenPlace, Zenon
<1>10. CASE ReadRes
  BY <1>10, ReadResPlace, Zenon
<1> QED
  BY <1>2, <1>3, <1>4, <1>5, <1>6, <1>7, <1>8, <1>9, <1>10, Zenon DEF Next, Complete

-----------------------------------------------------------------------------
(* The refinement. *)

(* Its helpers are those of IOUring. *)
LEMMA SameOperators ==
  /\ E!Elements(prepared) = Range(prepared)
  /\ E!MaxInFlight = MaxInFlight /\ E!MaxPrepared = MaxPrepared
  /\ \A S : E!Cardinality(S) = Cardinality(S)
<1>1. E!Elements(prepared) = Range(prepared)
  BY Zenon DEF E!Elements, Range
<1>2. E!MaxInFlight = MaxInFlight /\ E!MaxPrepared = MaxPrepared
  BY Zenon DEF MaxInFlight, E!MaxInFlight, MaxPrepared, E!MaxPrepared
<1>3. \A S : E!Cardinality(S) = Cardinality(S)
  BY Zenon DEF Cardinality, E!Cardinality
<1> QED
  BY <1>1, <1>2, <1>3, Zenon

(* The completions as a set. *)
LEMMA PostedSet == PostedEntries = {PostedAt(k) : k \in 0 .. Posted - 1}
  BY Zenon DEF PostedEntries, PostedAt

(* Steps that leave the completions alone. *)
LEMMA SamePostedSet ==
  ASSUME UNCHANGED <<cqe, head, tail>>
  PROVE  PostedEntries' = PostedEntries
  BY Zenon DEF PostedEntries, Posted, CqSlots, SqSlots

(* Prepare, SubmitAll, CleanUp and its end are those of IOEngine. *)
LEMMA ClientImplements ==
  ASSUME EngineInv,
         (\E e \in Entries : Prepare(e)) \/ SubmitAll \/ CleanUp \/ CleanedUp
  PROVE  E!Next
<1>1. ASSUME NEW e \in Entries, Prepare(e) PROVE E!Prepare(e)
  <2>1. /\ pc = "client" /\ pc' = "client" /\ PostedEntries' = PostedEntries
        /\ UNCHANGED <<onthefly, chain, cleaning, splits>>
    BY <1>1, SamePostedSet, Zenon DEF Prepare, ring
  <2> QED
    BY <1>1, <2>1, SameOperators, Zenon DEF Prepare, E!Prepare
<1>2. ASSUME SubmitAll PROVE E!SubmitAll
  <2>1. /\ pc = "client" /\ pc' = "fill" /\ PostedEntries' = PostedEntries
        /\ UNCHANGED <<onthefly, chain, cleaning, prepared, splits>>
    BY <1>2, SamePostedSet, Zenon DEF SubmitAll, ring, submission
  <2>2. ~E!DanglingLink
    BY <1>2, <2>1, Zenon DEF SubmitAll, E!DanglingLink, Last
  <2> QED
    BY <1>2, <2>1, <2>2, SameOperators, Zenon DEF SubmitAll, E!SubmitAll, E!Chained
<1>3. ASSUME CleanUp PROVE E!CleanUp
  <2>1. pc = "client" /\ pc' = "client" /\ PostedEntries' = PostedEntries
    BY <1>3, SamePostedSet, Zenon DEF CleanUp, ring
  <2> QED
    BY <1>3, <2>1, Zenon DEF CleanUp, E!CleanUp
<1>4. ASSUME CleanedUp PROVE E!CleanedUp
  <2>1. pc = "client" /\ pc' = "client" /\ PostedEntries' = PostedEntries
        /\ UNCHANGED prepared
    BY <1>4, SamePostedSet, Zenon DEF CleanedUp, ring, submission
  <2> QED
    BY <1>4, <2>1, Zenon DEF CleanedUp, E!CleanedUp
<1> QED
  BY <1>1, <1>2, <1>3, <1>4, Zenon DEF E!Next

(* The requests of a batch go on the fly, with their links, when SubmitAll *)
(* is called; filling the ring changes nothing more.                       *)
LEMMA SubmissionStutters ==
  ASSUME EngineInv, GetSqe \/ ClearPrepared
  PROVE  UNCHANGED E!vars
<1> DEFINE links == {<<prepared[k], prepared[k + 1]>> :
                       k \in {j \in 1 .. (Len(prepared) - 1) : prepared[j] \in Linked}}
<1>1. /\ DOMAIN prepared = 1 .. Len(prepared) /\ Len(prepared) \in Nat
      /\ filled \in 0 .. Len(prepared) /\ DOMAIN sq = 1 .. Len(sq) /\ Len(sq) \in Nat
  BY LenProperties, Zenon DEF EngineInv, RingInv, TypeInv
<1>2. CASE GetSqe
  <2> DEFINE e == prepared[filled + 1]
  <2>1. /\ pc = "fill" /\ pc' = "fill" /\ filled < Len(prepared) /\ Len(sq) = filled
        /\ onthefly' = onthefly \cup {e} /\ PostedEntries' = PostedEntries
        /\ chain' = IF sq # << >> /\ Last(sq) \in Linked THEN chain \cup {<<Last(sq), e>>} ELSE chain
        /\ UNCHANGED <<cleaning, prepared, splits>>
    BY <1>2, SamePostedSet, Zenon DEF GetSqe, ring, EngineInv, RingInv, SqInv
  <2>2. e \in Range(prepared)
    BY <1>1, <2>1 DEF Range
  <2>3. sq # << >> /\ Last(sq) \in Linked => <<Last(sq), e>> \in links
    <3> SUFFICES ASSUME sq # << >>, Last(sq) \in Linked PROVE <<Last(sq), e>> \in links
      BY Zenon
    <3>1. filled \in 1 .. Len(prepared) - 1
      <4>1. Len(sq) # 0
        BY EmptySeq, Zenon DEF EngineInv, RingInv, TypeInv
      <4> QED
        BY <1>1, <2>1, <4>1
    <3>2. Last(sq) = prepared[filled]
      BY <2>1, <3>1 DEF Last, EngineInv, LinkInv
    <3> QED
      BY <3>1, <3>2, Zenon
  <2>4. chain' \cup links = chain \cup links
    BY <2>1, <2>3, Zenon
  <2> HIDE DEF e, links
  <2>5. onthefly' \cup Range(prepared) = onthefly \cup Range(prepared)
    BY <2>1, <2>2, Zenon
  <2> QED
    BY <2>1, <2>4, <2>5, Zenon DEF E!vars, links
<1>3. CASE ClearPrepared
  <2>1. /\ pc = "fill" /\ pc' = "submit" /\ filled = Len(prepared) /\ prepared' = << >>
        /\ PostedEntries' = PostedEntries /\ UNCHANGED <<cleaning, onthefly, chain, splits>>
    BY <1>3, SamePostedSet, Zenon DEF ClearPrepared, ring
  <2>2. Range(prepared) \subseteq onthefly
    <3>1. ASSUME NEW i \in 1 .. Len(prepared) PROVE prepared[i] \in onthefly
      <4>1. i \in 1 .. Len(sq) /\ sq[i] = prepared[i]
        BY <2>1, Zenon DEF EngineInv, LinkInv, RingInv, SqInv
      <4> QED
        BY <4>1, Zenon DEF EngineInv, PlaceInv
    <3> QED
      BY <1>1, <3>1, Zenon DEF Range
  <2>3. links \subseteq chain
    BY <2>1, Zenon DEF EngineInv, LinkInv
  <2> HIDE DEF links
  <2>4. onthefly \cup Range(prepared) = onthefly /\ chain \cup links = chain
    BY <2>2, <2>3, Zenon
  <2> QED
    BY <2>1, <2>4, Zenon DEF E!vars, links
<1> QED
  BY <1>2, <1>3, Zenon

(* io_uring_submit cuts at most one link, and none if the kernel does not  *)
(* split chains.                                                           *)
LEMMA SubmitImplements ==
  ASSUME Submit
  PROVE  E!Next \/ UNCHANGED E!vars
<1>1. PICK n \in 1 .. Len(sq) : (splits \/ Severed(n) = {}) /\ chain' = chain \ Severed(n)
  BY Zenon DEF Submit
<1>2. /\ pc = "submit" /\ pc' \in {"submit", "client"} /\ PostedEntries' = PostedEntries
      /\ UNCHANGED <<cleaning, prepared, onthefly, splits>>
  BY SamePostedSet, Zenon DEF Submit
<1>3. CASE Severed(n) \cap chain = {}
  <2>1. chain' = chain
    BY <1>1, <1>3, Zenon
  <2> QED
    BY <1>2, <2>1, Zenon DEF E!vars
<1>4. CASE Severed(n) \cap chain # {}
  <2>1. PICK c \in chain : Severed(n) = {c}
    BY <1>4, Zenon DEF Severed
  <2>2. splits /\ chain' = chain \ {c}
    BY <1>1, <2>1, Zenon
  <2>3. E!Cut(c)
    BY <1>2, <2>2, Zenon DEF E!Cut
  <2> QED
    BY <1>2, <2>3, Zenon DEF E!Next
<1> QED
  BY <1>3, <1>4, Zenon

(* The kernel's step is a run of the request. *)
LEMMA KernelImplements ==
  ASSUME RingIsLonger, EngineInv, RingInv', NEW e \in Entries, KernelRun(e)
  PROVE  E!Run(e)
<1> DEFINE links == {<<prepared[k], prepared[k + 1]>> :
                       k \in {j \in 1 .. (Len(prepared) - 1) : prepared[j] \in Linked}}
<1>1. /\ e \in kernel /\ \A x \in chain : x[2] # e
      /\ chain' = {x \in chain : x[1] # e}
      /\ UNCHANGED <<pc, cleaning, onthefly, prepared, entry_id, splits>>
  BY Zenon DEF KernelRun, submission, completion
<1>2. PlaceInv /\ e \in onthefly
  BY <1>1, Zenon DEF EngineInv, PlaceInv
<1>3. e \notin PostedEntries /\ (pc = "seen" => entry_id # e)
  BY <1>1, <1>2, PostedSet, SMTT(30) DEF PlaceInv
<1>4. PostedEntries' = PostedEntries \cup {e}
  <2>1. /\ Posted' = Posted + 1
        /\ \A k \in 0 .. Posted - 1 : PostedAt(k)' = PostedAt(k)
        /\ \A n \in {Posted} : PostedAt(n)' = e
    BY KernelPosts, Zenon DEF EngineInv
  <2>2. Posted \in Nat
    BY RingNotFull DEF EngineInv
  <2>3. PostedEntries' = {PostedAt(k)' : k \in 0 .. Posted' - 1}
    BY Zenon DEF PostedEntries, PostedAt
  <2>4. \A k \in 0 .. Posted' - 1 : k \in 0 .. Posted - 1 \/ k = Posted
    BY <2>1, <2>2, SMTT(30)
  <2>5. Posted \in 0 .. Posted' - 1 /\ \A k \in 0 .. Posted - 1 : k \in 0 .. Posted' - 1
    BY <2>1, <2>2
  <2>6. ASSUME NEW x \in PostedEntries' PROVE x \in PostedEntries \cup {e}
    BY <2>1, <2>3, <2>4, PostedSet, Zenon
  <2>7. ASSUME NEW x \in PostedEntries \cup {e} PROVE x \in PostedEntries'
    BY <2>1, <2>3, <2>5, PostedSet, Zenon
  <2> QED
    BY <2>6, <2>7, Zenon
<1>5. ASSUME pc = "fill", NEW i \in 1 .. Len(prepared) PROVE prepared[i] # e
  <2>1. filled \in 0 .. Len(prepared) /\ Len(prepared) \in Nat /\ Len(sq) = filled
    BY <1>5, Sizes, Zenon DEF EngineInv, RingInv, TypeInv, SqInv
  <2>2. CASE i \in 1 .. filled
    BY <1>1, <1>2, <1>5, <2>1, <2>2, SMTT(30) DEF EngineInv, LinkInv, PlaceInv
  <2>3. CASE i \in filled + 1 .. Len(prepared)
    BY <1>2, <2>3, Zenon DEF EngineInv, RingInv, PreparedInv
  <2> QED
    BY <2>1, <2>2, <2>3, SMTT(30)
<1>6. ASSUME pc = "fill", NEW x \in links PROVE x[1] # e /\ x[2] # e
  <2>1. PICK k \in 1 .. Len(prepared) - 1 : x = <<prepared[k], prepared[k + 1]>>
    BY Zenon
  <2>2. k \in 1 .. Len(prepared) /\ k + 1 \in 1 .. Len(prepared)
    BY Sizes DEF EngineInv, RingInv
  <2> QED
    BY <1>5, <1>6, <2>1, <2>2, Zenon
<1> HIDE DEF links
<1>7. ASSUME pc = "fill"
      PROVE  /\ \A x \in chain \cup links : x[2] # e
             /\ chain' \cup links = {x \in chain \cup links : x[1] # e}
  BY <1>1, <1>6, <1>7, Zenon
<1>8. CASE pc = "fill"
  <2>1. pc' = "fill" /\ pc # "seen" /\ pc' # "seen"
    BY <1>1, <1>8, Zenon
  <2> QED
    BY <1>1, <1>2, <1>3, <1>4, <1>7, <1>8, <2>1, Zenon DEF E!Run, links
<1>9. CASE pc # "fill"
  <2>1. pc' # "fill" /\ (pc' = "seen" <=> pc = "seen")
    BY <1>1, <1>9, Zenon
  <2> QED
    BY <1>1, <1>2, <1>3, <1>4, <1>9, <2>1, Zenon DEF E!Run
<1> QED
  BY <1>8, <1>9, Zenon

(* A request is handed back when its result is read. *)
LEMMA CompletionImplements ==
  ASSUME RingIsLonger, EngineInv, WaitCqe \/ CqeSeen \/ ReadRes
  PROVE  E!Next \/ UNCHANGED E!vars
<1>1. CASE WaitCqe
  <2>1. /\ pc = "client" /\ pc' = "found" /\ PostedEntries' = PostedEntries
        /\ UNCHANGED <<cleaning, prepared, onthefly, chain, splits>>
    BY <1>1, SamePostedSet, Zenon DEF WaitCqe, submission, ring
  <2> QED
    BY <2>1, Zenon DEF E!vars
<1>2. CASE CqeSeen
  <2>1. /\ pc = "found" /\ pc' = "seen" /\ onthefly' = onthefly \ {entry_id}
        /\ UNCHANGED <<cleaning, prepared, chain, entry_id, splits>>
    BY <1>2, Zenon DEF CqeSeen, submission, completion
  <2>2. /\ Posted > 0 /\ Posted' = Posted - 1
        /\ \A k \in 0 .. Posted - 2 : PostedAt(k)' = PostedAt(k + 1)
        /\ entry_id = PostedAt(0)
    BY <1>2, SeenShifts, Zenon DEF EngineInv
  <2>3. Posted \in Nat /\ PlaceInv
    BY RingNotFull, SMTT(30) DEF EngineInv
  <2>4. entry_id \in onthefly
    BY <2>2, <2>3 DEF PlaceInv
  <2>5. PostedEntries' \cup {entry_id} = PostedEntries
    <3>1. PostedEntries' = {PostedAt(k)' : k \in 0 .. Posted' - 1}
      BY Zenon DEF PostedEntries, PostedAt
    <3>2. \A k \in 0 .. Posted' - 1 : k \in 0 .. Posted - 2 /\ k + 1 \in 0 .. Posted - 1
      BY <2>2, <2>3
    <3>3. 0 \in 0 .. Posted - 1
          /\ \A k \in 0 .. Posted - 1 : k = 0 \/ (k - 1 \in 0 .. Posted' - 1 /\ (k - 1) + 1 = k)
      BY <2>2, <2>3, SMTT(30)
    <3>4. ASSUME NEW x \in PostedEntries' \cup {entry_id} PROVE x \in PostedEntries
      BY <2>2, <3>1, <3>2, <3>3, PostedSet, Zenon
    <3>5. ASSUME NEW x \in PostedEntries PROVE x \in PostedEntries' \cup {entry_id}
      <4>1. PICK k \in 0 .. Posted - 1 : x = PostedAt(k)
        BY PostedSet, Zenon
      <4>2. CASE k = 0
        BY <2>2, <4>1, <4>2, Zenon
      <4>3. CASE k # 0
        <5>1. k - 1 \in 0 .. Posted' - 1 /\ k - 1 \in 0 .. Posted - 2 /\ (k - 1) + 1 = k
          BY <3>2, <3>3, <4>3, Zenon
        <5>2. PostedAt(k - 1)' = x
          BY <2>2, <4>1, <5>1, Zenon
        <5> QED
          BY <3>1, <5>1, <5>2, Zenon
      <4> QED
        BY <4>2, <4>3, Zenon
    <3> QED
      BY <3>4, <3>5, Zenon
  <2> QED
    BY <2>1, <2>4, <2>5, Zenon DEF E!vars
<1>3. CASE ReadRes
  <2>1. /\ pc = "seen" /\ pc' = "client"
        /\ UNCHANGED <<cleaning, prepared, onthefly, chain, splits>>
    BY <1>3, Zenon DEF ReadRes, submission
  <2>2. Posted' = Posted /\ \A k \in 0 .. Posted - 1 : PostedAt(k)' = PostedAt(k)
    BY <1>3, ReadKeepsPosted, Zenon DEF EngineInv
  <2>3. PostedEntries' = PostedEntries
    <3>1. PostedEntries' = {PostedAt(k)' : k \in 0 .. Posted' - 1}
      BY Zenon DEF PostedEntries, PostedAt
    <3> QED
      BY <2>2, <3>1, PostedSet, Zenon
  <2>4. entry_id \in Entries /\ entry_id \notin onthefly /\ entry_id \notin PostedEntries
    BY <2>1, PostedSet DEF EngineInv, PlaceInv
  <2>5. E!CompleteOne(entry_id)
    BY <2>1, <2>3, <2>4, Zenon DEF E!CompleteOne
  <2> QED
    BY <2>4, <2>5, Zenon DEF E!Next
<1> QED
  BY <1>1, <1>2, <1>3, Zenon

(* Every step of the rings is one of IOEngine or changes nothing there. *)
LEMMA StepImplements ==
  ASSUME RingIsLonger, EngineInv, [Next]_vars
  PROVE  [E!Next]_(E!vars)
<1>1. RingInv'
  BY NextRingInv, Zenon DEF EngineInv
<1>2. CASE (\E e \in Entries : Prepare(e)) \/ SubmitAll \/ CleanUp \/ CleanedUp
  BY <1>2, ClientImplements, Zenon
<1>3. CASE GetSqe \/ ClearPrepared
  BY <1>3, SubmissionStutters, Zenon
<1>7. CASE Submit
  BY <1>7, SubmitImplements, Zenon
<1>4. ASSUME NEW e \in Entries, KernelRun(e) PROVE E!Next
  BY <1>1, <1>4, KernelImplements, Zenon DEF E!Next
<1>5. CASE Complete
  BY <1>5, CompletionImplements, Zenon DEF Complete
<1>6. CASE UNCHANGED vars
  BY <1>6, SamePostedSet, Zenon DEF vars, E!vars
<1> QED
  BY <1>2, <1>3, <1>4, <1>5, <1>6, <1>7, Zenon DEF Next, Kernel

(* SubmitAll and CompleteOne over the rings make an engine, for every      *)
(* depth and every set of requests and links: the one the pre-issuing      *)
(* algorithm assumes if the kernel takes linked requests together, and one *)
(* that may lose links, and nothing else, if io_uring_submit may stop      *)
(* between them.                                                           *)
THEOREM RingImplementsEngine ==
  ASSUME RingIsLonger
  PROVE  Spec => ImplementsIOEngine
<1>1. Init => E!Init
  <2>1. ASSUME Init PROVE PostedEntries = {}
    <3>1. Posted = 0
      <4>1. TypeInv
        BY <2>1, InitRingInv, Zenon DEF RingInv
      <4> QED
        BY <2>1, <4>1, PostedIs, Lengths, SMTT(30) DEF Init
    <3> QED
      BY <3>1 DEF PostedEntries
  <2> QED
    BY <2>1, Zenon DEF Init, E!Init
<1>2. Init => EngineInv
  BY InitEngineInv, Zenon
<1>3. EngineInv /\ [Next]_vars => EngineInv'
  BY NextEngineInv, Zenon
<1>4. EngineInv /\ [Next]_vars => [E!Next]_(E!vars)
  BY StepImplements, Zenon
<1> QED
  BY <1>1, <1>2, <1>3, <1>4, PTL DEF Spec, ImplementsIOEngine, E!Spec
=============================================================================
