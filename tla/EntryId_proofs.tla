--------------------------- MODULE EntryId_proofs ---------------------------
(***************************************************************************)
(* The packing of entry ids is sound for every width, every set of nodes   *)
(* and every depth, as long as the loop is not longer than the epoch field *)
(* can count.                                                              *)
(***************************************************************************)
EXTENDS EntryId, TLAPS

(* Shifting a number out of a packed word, and masking the rest: what      *)
(* DecodeEntryId relies on.                                                *)
LEMMA Packing ==
  ASSUME NEW b \in Nat \ {0}, NEW q \in Nat, NEW r \in 0 .. b - 1
  PROVE  ((q * b) + r) \div b = q /\ ((q * b) + r) % b = r
  OBVIOUS

(* DecodeEntryId undoes EncodeEntryId for any node address and any epoch   *)
(* sum that fits.                                                          *)
THEOREM RoundTrip ==
  ASSUME NEW n \in Nodes, NEW e \in 0 .. EpochMod - 1
  PROVE  DecodeEntryId(EncodeEntryId(n, e)) = <<n, e>>
<1>1. n \in Nat /\ n % PtrMod = n /\ e % EpochMod = e
  BY WidthAssumption
<1>2. EncodeEntryId(n, e) = (n * EpochMod) + e
  BY <1>1 DEF EncodeEntryId
<1> QED
  BY <1>1, <1>2, Packing, WidthAssumption, Zenon DEF DecodeEntryId

-----------------------------------------------------------------------------
(* The engine holds the ids of the instances in the pool and no other, and *)
(* these belong to iterations before the peekhead.                         *)
IdInv ==
  /\ front \in Nat /\ head \in Nat /\ head <= Iterations
  /\ pool \subseteq Nodes \X (0 .. head - 1)
  /\ engine = {EncodeEntryId(p[1], p[2]) : p \in pool}

(* IdInv holds before the first request is prepared. *)
LEMMA InitIdInv == Init => IdInv
  BY WidthAssumption DEF Init, IdInv

(* An instance of the pool is recovered from its id. *)
LEMMA Recover ==
  ASSUME IdInv, Iterations <= EpochMod, NEW p \in pool
  PROVE  DecodeEntryId(EncodeEntryId(p[1], p[2])) = p
<1>1. PICK n \in Nodes, e \in 0 .. head - 1 : p = <<n, e>>
  BY DEF IdInv
<1>2. e \in 0 .. EpochMod - 1
  BY WidthAssumption DEF IdInv
<1> QED
  BY <1>1, <1>2, RoundTrip

(* Prepare, CompleteOne and the end of a call preserve IdInv while the     *)
(* epoch fits its field.                                                   *)
LEMMA NextIdInv ==
  ASSUME IdInv, Iterations <= EpochMod, [Next]_vars
  PROVE  IdInv'
<1>1. CASE Prepare
  <2>1. pool' \subseteq Nodes \X (0 .. head' - 1)
    BY <1>1 DEF Prepare, IdInv
  <2>2. engine' = {EncodeEntryId(p[1], p[2]) : p \in pool'}
    <3>1. {EncodeEntryId(n, head) : n \in Nodes}
            = {EncodeEntryId(p[1], p[2]) : p \in Nodes \X {head}}
      <4>1. \A p \in Nodes \X {head} : p[1] \in Nodes /\ p[2] = head
        OBVIOUS
      <4>2. \A n \in Nodes : <<n, head>> \in Nodes \X {head}
        OBVIOUS
      <4> QED
        BY <4>1, <4>2, Zenon
    <3> QED
      BY <1>1, <3>1 DEF Prepare, IdInv
  <2> QED
    BY <1>1, <2>1, <2>2, WidthAssumption DEF Prepare, IdInv
<1>2. ASSUME NEW id \in engine, CompleteOne(id) PROVE IdInv'
  <2>1. PICK q \in pool : id = EncodeEntryId(q[1], q[2])
    BY DEF IdInv
  <2>2. DecodeEntryId(id) = q
    BY <2>1, Recover
  <2>3. \A p \in pool : EncodeEntryId(p[1], p[2]) = id => p = q
    BY <2>1, <2>2, Recover
  <2>4. pool' = pool \ {q} /\ engine' = engine \ {id}
    BY <1>2, <2>2 DEF CompleteOne
  <2>5. engine' = {EncodeEntryId(p[1], p[2]) : p \in pool'}
    BY <2>1, <2>3, <2>4 DEF IdInv
  <2> QED
    BY <1>2, <2>4, <2>5 DEF CompleteOne, IdInv
<1>3. CASE PushForward
  BY <1>3 DEF PushForward, IdInv
<1>4. CASE UNCHANGED vars
  BY <1>4 DEF vars, IdInv
<1> QED
  BY <1>1, <1>2, <1>3, <1>4 DEF Next

(* IdInv says that EncodeEntryId's assertion holds and that CompleteOne    *)
(* finds the instance an id was made for.                                  *)
LEMMA IdInvImplies ==
  ASSUME IdInv, Iterations <= EpochMod
  PROVE  EpochFits /\ IdsMatch
<1>1. EpochFits
  BY WidthAssumption DEF IdInv, EpochFits
<1>2. ASSUME NEW id \in engine PROVE DecodeEntryId(id) \in pool
  <2>1. PICK q \in pool : id = EncodeEntryId(q[1], q[2])
    BY DEF IdInv
  <2> QED
    BY <2>1, Recover
<1>3. ASSUME NEW p \in pool
      PROVE  /\ EncodeEntryId(p[1], p[2]) \in engine
             /\ DecodeEntryId(EncodeEntryId(p[1], p[2])) = p
  BY Recover DEF IdInv
<1> QED
  BY <1>1, <1>2, <1>3 DEF IdsMatch

(* In a loop of at most EpochMod iterations (65536 in the code) no entry   *)
(* id is ever taken for another instance's, and the assertion of           *)
(* EncodeEntryId holds.                                                    *)
THEOREM IdsAreSound ==
  ASSUME Iterations <= EpochMod
  PROVE  Spec => [](EpochFits /\ IdsMatch)
<1>1. Init => IdInv
  BY InitIdInv
<1>2. IdInv /\ [Next]_vars => IdInv'
  BY NextIdInv
<1>3. IdInv => EpochFits /\ IdsMatch
  BY IdInvImplies
<1> QED
  BY <1>1, <1>2, <1>3, PTL DEF Spec
=============================================================================
