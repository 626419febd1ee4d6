------------------------------ MODULE EntryId -------------------------------
(***************************************************************************)
(* How a request is named in the engine: IOEngine::EncodeEntryId packs the *)
(* node's address and the epoch sum of the instance into one 64-bit word,  *)
(* and DecodeEntryId takes it apart when the completion arrives.  The word *)
(* has PtrMod * EpochMod values; in the code PtrMod is 2^48 and EpochMod   *)
(* 2^16.  Around it, a loop whose every iteration issues each of Nodes, as *)
(* far as the packing sees it.                                             *)
(***************************************************************************)
EXTENDS Integers

CONSTANTS Nodes,        \* the addresses of the loop's syscall nodes
          PtrMod,       \* addresses are below this
          EpochMod,     \* what the epoch field can tell apart
          Iterations,   \* of the loop
          Depth         \* iterations the peek may run ahead

ASSUME WidthAssumption ==
  /\ PtrMod \in Nat \ {0} /\ EpochMod \in Nat \ {0}
  /\ Nodes \subseteq 0 .. PtrMod - 1
  /\ Iterations \in Nat /\ Depth \in Nat

(* Mutation: the shift is too short for the epoch field. *)
EncodeEntryId_Short(node, epoch_sum) ==
  ((node % PtrMod) * (EpochMod \div 2)) + (epoch_sum % EpochMod)

(* (node_bits << 16) | (epoch_bits & 0xffff); the shift drops what leaves  *)
(* the word.                                                               *)
EncodeEntryId(node, epoch_sum) ==
  ((node % PtrMod) * EpochMod) + (epoch_sum % EpochMod)

(* Mutation: the mask is one bit too narrow. *)
DecodeEntryId_Narrow(entry_id) ==
  <<entry_id \div EpochMod, entry_id % (EpochMod \div 2)>>

DecodeEntryId(entry_id) == <<entry_id \div EpochMod, entry_id % EpochMod>>

VARIABLES front,        \* the iteration of the frontier
          head,         \* the next iteration the peek prepares
          pool,         \* instances whose stage says they are in the engine
          engine        \* entry ids in the engine

vars == <<front, head, pool, engine>>

Init == front = 0 /\ head = 0 /\ pool = {} /\ engine = {}

(* The peek hands an iteration's syscalls to the engine. *)
Prepare ==
  /\ head < Iterations /\ head <= front + Depth
  /\ pool' = pool \cup (Nodes \X {head})
  /\ engine' = engine \cup {EncodeEntryId(n, head) : n \in Nodes}
  /\ head' = head + 1
  /\ UNCHANGED front

(* CompleteOne and CmplAsync: the stage that is set to finished is that of *)
(* the instance the entry id is decoded to.                                *)
CompleteOne(id) ==
  /\ engine' = engine \ {id}
  /\ pool' = pool \ {DecodeEntryId(id)}
  /\ UNCHANGED <<front, head>>

(* The frontier passes an iteration whose calls have all returned. *)
PushForward ==
  /\ front < head
  /\ pool \cap (Nodes \X {front}) = {}
  /\ front' = front + 1
  /\ UNCHANGED <<head, pool, engine>>

Next == Prepare \/ (\E id \in engine : CompleteOne(id)) \/ PushForward

Spec == Init /\ [][Next]_vars

-----------------------------------------------------------------------------
(* The assertion of EncodeEntryId: the epoch sum fits into its field. *)
EpochFits == \A p \in pool : p[2] >= 0 /\ p[2] < EpochMod

(* Every entry id in the engine is decoded to an instance that waits for   *)
(* it, and every waiting instance is named by its own id.                  *)
IdsMatch ==
  /\ \A id \in engine : DecodeEntryId(id) \in pool
  /\ \A p \in pool : EncodeEntryId(p[1], p[2]) \in engine
                     /\ DecodeEntryId(EncodeEntryId(p[1], p[2])) = p
=============================================================================
