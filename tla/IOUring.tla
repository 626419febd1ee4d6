------------------------------- MODULE IOUring ------------------------------
(***************************************************************************)
(* class IOUring on top of liburing and the kernel: the submission ring    *)
(* and the completion ring with their slots, the loops of SubmitAll, and   *)
(* the steps of CompleteOne between which the kernel goes on.  The client  *)
(* (the pre-issuing algorithm) keeps to the protocol of module IOEngine.   *)
(*                                                                         *)
(* The kernel ends a chain of linked requests where it ends a submission.  *)
(* Whether it may do so between a request and the one linked to it is      *)
(* fixed at the start (splits), so that both kernels are covered.          *)
(***************************************************************************)
EXTENDS Integers, Sequences, FiniteSets, Functions

CONSTANTS
  Entries, Linked,   \* as in IOEngine
  Depth,             \* pre_issue_depth
  sq_length          \* entries asked for in io_uring_queue_init

ASSUME DepthAssumption == Depth \in Nat

Last(s) == s[Len(s)]

(* The bounds the client keeps to, as in IOEngine. *)
MaxInFlight == Depth + 1
MaxPrepared == IF Linked = {} THEN Depth ELSE Depth + 1

(* Mutation: the ring is as long as the depth. *)
SqSlots_Depth == Depth

(* io_uring_queue_init rounds the submission ring up to a power of two and *)
(* makes the completion ring twice as long.                                *)
SqSlots == CHOOSE n \in {2 ^ k : k \in 0 .. sq_length} :
             n >= sq_length /\ (n = 1 \/ n < 2 * sq_length)

(* Mutation: the completion ring is shorter than the submission ring. *)
CqSlots_Half == SqSlots \div 2

CqSlots == 2 * SqSlots

VARIABLES
  pc,          \* where the application thread is
  cleaning,    \* inside CleanUp
  prepared, onthefly,
  filled,      \* SubmitAll: requests that have got an SQE
  sq,          \* submission ring
  kernel,      \* requests the kernel has taken and not completed
  chain,       \* pairs <<e, f>>: f is linked (IOSQE_IO_HARDLINK) to e, yet to run
  cqe,         \* slots of the completion ring: whose result they hold
  head, tail,  \* of the completion ring, modulo 2 * CqSlots
  entry_id,    \* CompleteOne: the entry it has found
  slot,        \* CompleteOne: the slot it points to
  splits       \* io_uring_submit may take a part that ends inside a chain

vars == <<pc, cleaning, prepared, onthefly, filled, sq, kernel, chain,
          cqe, head, tail, entry_id, slot, splits>>
submission == <<prepared, filled, sq>>
completion == <<entry_id, slot>>
ring == <<kernel, cqe, head, tail>>

None == "none"
Posted == (tail - head) % (2 * CqSlots)   \* completions not seen yet
Next2(i) == (i + 1) % (2 * CqSlots)

Init ==
  /\ pc = "client"
  /\ cleaning = FALSE
  /\ prepared = << >> /\ onthefly = {}
  /\ filled = 0
  /\ sq = << >>
  /\ kernel = {}
  /\ chain = {}
  /\ cqe = [i \in 0 .. (CqSlots - 1) |-> None]
  /\ head = 0 /\ tail = 0
  /\ entry_id = None /\ slot = 0
  /\ splits \in BOOLEAN

-----------------------------------------------------------------------------
Prepare(e) ==
  /\ pc = "client" /\ ~cleaning
  /\ e \notin onthefly \cup Range(prepared)
  /\ Cardinality(onthefly) + Len(prepared) < MaxInFlight
  /\ Len(prepared) < MaxPrepared
  /\ prepared' = Append(prepared, e)
  /\ UNCHANGED <<pc, cleaning, onthefly, filled, sq, chain, ring, completion, splits>>

(* SubmitAll: called with requests prepared and no dangling link. *)
SubmitAll ==
  /\ pc = "client" /\ ~cleaning
  /\ prepared # << >> /\ Last(prepared) \notin Linked
  /\ pc' = "fill"
  /\ UNCHANGED <<cleaning, onthefly, chain, submission, ring, completion, splits>>

(* Mutation: the link flag is not passed on. *)
GetSqe_NoLink ==
  /\ pc = "fill"
  /\ filled < Len(prepared)
  /\ Len(sq) < SqSlots
  /\ sq' = Append(sq, prepared[filled + 1])
  /\ onthefly' = onthefly \cup {prepared[filled + 1]}
  /\ filled' = filled + 1
  /\ UNCHANGED <<pc, cleaning, prepared, chain, ring, completion, splits>>

(* One round of its first loop: io_uring_get_sqe, flags, onthefly.  In a   *)
(* ring without a free slot there is no such step (a null dereference).    *)
GetSqe ==
  /\ pc = "fill"
  /\ filled < Len(prepared)
  /\ Len(sq) < SqSlots
  /\ LET e == prepared[filled + 1]
     IN  /\ sq' = Append(sq, e)
         /\ onthefly' = onthefly \cup {e}
         /\ chain' = IF sq # << >> /\ Last(sq) \in Linked
                     THEN chain \cup {<<Last(sq), e>>} ELSE chain
  /\ filled' = filled + 1
  /\ UNCHANGED <<pc, cleaning, prepared, ring, completion, splits>>

ClearPrepared ==
  /\ pc = "fill"
  /\ filled = Len(prepared)
  /\ prepared' = << >>
  /\ filled' = 0
  /\ pc' = "submit"
  /\ UNCHANGED <<cleaning, onthefly, sq, chain, ring, completion, splits>>

(* The link between the last of n requests and the one after them. *)
Severed(n) ==
  IF n < Len(sq) /\ sq[n] \in Linked THEN {<<sq[n], sq[n + 1]>>} ELSE {}

(* io_uring_submit takes a part of the ring, and SubmitAll calls it again  *)
(* until nothing is left.  A chain that goes on in the next part is cut:   *)
(* the kernel queues what it has taken, and the rest starts a new chain.   *)
Submit ==
  /\ pc = "submit"
  /\ \E n \in 1 .. Len(sq) :
       /\ splits \/ Severed(n) = {}
       /\ kernel' = kernel \cup Range(SubSeq(sq, 1, n))
       /\ sq' = SubSeq(sq, n + 1, Len(sq))
       /\ chain' = chain \ Severed(n)
       /\ pc' = IF n = Len(sq) THEN "client" ELSE "submit"
  /\ UNCHANGED <<cleaning, prepared, onthefly, filled, cqe, head, tail, completion, splits>>

(* The kernel completes a request when those it is bound to are complete,  *)
(* and posts its result in the next slot of the completion ring.           *)
KernelRun(e) ==
  /\ e \in kernel
  /\ \A c \in chain : c[2] # e
  /\ chain' = {c \in chain : c[1] # e}
  /\ Posted < CqSlots
  /\ cqe' = [cqe EXCEPT ![tail % CqSlots] = e]
  /\ tail' = Next2(tail)
  /\ kernel' = kernel \ {e}
  /\ UNCHANGED <<pc, cleaning, onthefly, head, submission, completion, splits>>

-----------------------------------------------------------------------------
(* CompleteOne, called by the client for a request on the fly and by       *)
(* CleanUp: io_uring_wait_cqe, io_uring_cqe_seen, and only then the result *)
(* is read from the slot.                                                  *)
WaitCqe ==
  /\ pc = "client"
  /\ onthefly # {}
  /\ Posted > 0
  /\ slot' = head % CqSlots
  /\ entry_id' = cqe[head % CqSlots]
  /\ pc' = "found"
  /\ UNCHANGED <<cleaning, onthefly, chain, submission, ring, splits>>

(* Mutation: the slot is not given back. *)
CqeSeen_NotSeen ==
  /\ pc = "found"
  /\ onthefly' = onthefly \ {entry_id}
  /\ pc' = "seen"
  /\ UNCHANGED <<cleaning, chain, submission, ring, completion, splits>>

CqeSeen ==
  /\ pc = "found"
  /\ head' = Next2(head)
  /\ onthefly' = onthefly \ {entry_id}
  /\ pc' = "seen"
  /\ UNCHANGED <<cleaning, chain, submission, kernel, cqe, tail, completion, splits>>

(* The result is read; what is left in a slot that is free matters no more.*)
ReadRes ==
  /\ pc = "seen"
  /\ cqe' = IF cqe[slot] = entry_id THEN [cqe EXCEPT ![slot] = None] ELSE cqe
  /\ entry_id' = None
  /\ slot' = 0
  /\ pc' = "client"
  /\ UNCHANGED <<cleaning, onthefly, chain, submission, kernel, head, tail, splits>>

CleanUp ==
  /\ pc = "client" /\ ~cleaning
  /\ prepared' = << >>
  /\ cleaning' = TRUE
  /\ UNCHANGED <<pc, onthefly, filled, sq, chain, ring, completion, splits>>

CleanedUp ==
  /\ pc = "client" /\ cleaning
  /\ onthefly = {}
  /\ cleaning' = FALSE
  /\ UNCHANGED <<pc, onthefly, chain, submission, ring, completion, splits>>

Complete == WaitCqe \/ CqeSeen \/ ReadRes
Kernel == \E e \in Entries : KernelRun(e)

Next ==
  \/ \E e \in Entries : Prepare(e)
  \/ SubmitAll \/ GetSqe \/ ClearPrepared \/ Submit
  \/ Kernel \/ Complete \/ CleanUp \/ CleanedUp

Spec == Init /\ [][Next]_vars

(* Inside CleanUp the thread goes on, and the kernel completes what it has *)
(* taken.  Nothing is assumed of what the client calls otherwise.          *)
FairSpec == Spec /\ WF_vars(cleaning /\ (Complete \/ CleanedUp)) /\ WF_vars(Kernel)

-----------------------------------------------------------------------------
(***************************************************************************)
(* Properties                                                              *)
(***************************************************************************)

PostedEntries == {cqe[(head + k) % CqSlots] : k \in 0 .. (Posted - 1)}

(* assert(sqe != nullptr) of SubmitAll: the ring has a slot for every      *)
(* prepared request.                                                       *)
SqeAvailable == pc = "fill" /\ filled < Len(prepared) => Len(sq) < SqSlots

(* CompleteOne gives its slot back (io_uring_cqe_seen) before it reads the *)
(* result there.  The result is still that of its own request: the kernel  *)
(* has not come round to the slot again.                                   *)
ResultIsOwn == pc = "seen" => cqe[slot] = entry_id

E == INSTANCE IOEngine WITH
  prepared <- IF pc = "fill" THEN << >> ELSE prepared,
  onthefly <- onthefly \cup (IF pc = "fill" THEN Range(prepared) ELSE {})
                       \cup (IF pc = "seen" THEN {entry_id} ELSE {}),
  chain <- chain \cup
           (IF pc = "fill"
            THEN {<<prepared[k], prepared[k + 1]>> :
                    k \in {j \in 1 .. (Len(prepared) - 1) : prepared[j] \in Linked}}
            ELSE {}),
  done <- PostedEntries \cup (IF pc = "seen" THEN {entry_id} ELSE {})

(* The ring is the engine that the pre-issuing algorithm assumes, on a     *)
(* kernel that takes linked requests together: between the algorithm's     *)
(* calls nothing is lost, run twice, handed back twice or run before a     *)
(* request it is linked to.  On a kernel that may take them apart (splits) *)
(* all but the last holds.                                                 *)
ImplementsIOEngine == E!Spec

(* CleanUp comes to its end: every request on the fly is posted and        *)
(* harvested, whatever was in the rings when it was called.                *)
CleanUpReturns == cleaning ~> ~cleaning
=============================================================================
