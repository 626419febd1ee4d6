------------------------------ MODULE IOEngine ------------------------------
(***************************************************************************)
(* What the pre-issuing algorithm may rely on in an asynchronous backend   *)
(* (class IOEngine): requests are prepared, submitted together, executed   *)
(* in any order that respects links, and handed back one at a time.        *)
(* IOUring and ThreadPool implement this module, and SCGraph uses its      *)
(* engine as this module allows.                                           *)
(*                                                                         *)
(* What the algorithm relies on is this module with splits FALSE.  With    *)
(* splits TRUE it is what is left when a batch may be taken in parts.      *)
(***************************************************************************)
EXTENDS Integers, Sequences, FiniteSets

CONSTANTS
  Entries,   \* EntryId: the syscall instances
  Linked,    \* entries whose link flag is set
  Depth      \* pre_issue_depth

VARIABLES
  prepared,  \* IOEngine::prepared
  onthefly,  \* IOEngine::onthefly
  chain,     \* pairs <<e, f>>: f is bound to wait for e, which has not run
  done,      \* requests executed and not handed back yet
  cleaning,  \* inside CleanUp
  splits     \* a batch may be taken in parts that end inside a chain

vars == <<prepared, onthefly, chain, done, cleaning, splits>>

Elements(s) == {s[k] : k \in DOMAIN s}

Init ==
  /\ prepared = << >>
  /\ onthefly = {}
  /\ chain = {}
  /\ done = {}
  /\ cleaning = FALSE
  /\ splits \in BOOLEAN

(* The window of the peek bounds the requests.  One more than Depth can be *)
(* prepared only if a dangling link has held back a submission.            *)
MaxInFlight == Depth + 1
MaxPrepared == IF Linked = {} THEN Depth ELSE Depth + 1

Prepare(e) ==
  /\ ~cleaning
  /\ e \notin onthefly \cup Elements(prepared)
  /\ Cardinality(onthefly) + Len(prepared) < MaxInFlight
  /\ Len(prepared) < MaxPrepared
  /\ prepared' = Append(prepared, e)
  /\ UNCHANGED <<onthefly, chain, done, cleaning, splits>>

(* IOEngine::DanglingLink: the last prepared request is linked to one that *)
(* is not prepared yet.  Such a batch is not submitted.                    *)
DanglingLink == prepared # << >> /\ prepared[Len(prepared)] \in Linked

Chained(batch) ==
  {<<batch[k], batch[k + 1]>> : k \in {j \in 1 .. (Len(batch) - 1) : batch[j] \in Linked}}

SubmitAll ==
  /\ ~cleaning
  /\ prepared # << >> /\ ~DanglingLink
  /\ onthefly' = onthefly \cup Elements(prepared)
  /\ chain' = chain \cup Chained(prepared)
  /\ prepared' = << >>
  /\ UNCHANGED <<done, cleaning, splits>>

(* A chain is cut where a part of the batch ends: one link is gone, and    *)
(* with it the order of the two requests.                                  *)
Cut(c) ==
  /\ splits
  /\ c \in chain
  /\ chain' = chain \ {c}
  /\ UNCHANGED <<prepared, onthefly, done, cleaning, splits>>

(* The backend executes a request. *)
Run(e) ==
  /\ e \in onthefly \ done
  /\ \A c \in chain : c[2] # e
  /\ done' = done \cup {e}
  /\ chain' = {c \in chain : c[1] # e}
  /\ UNCHANGED <<prepared, onthefly, cleaning, splits>>

CompleteOne(e) ==
  /\ e \in done
  /\ done' = done \ {e}
  /\ onthefly' = onthefly \ {e}
  /\ UNCHANGED <<prepared, chain, cleaning, splits>>

CleanUp ==
  /\ ~cleaning
  /\ prepared' = << >>
  /\ cleaning' = TRUE
  /\ UNCHANGED <<onthefly, chain, done, splits>>

CleanedUp ==
  /\ cleaning
  /\ onthefly = {}
  /\ cleaning' = FALSE
  /\ UNCHANGED <<prepared, onthefly, chain, done, splits>>

Next ==
  \/ SubmitAll \/ CleanUp \/ CleanedUp
  \/ \E e \in Entries : Prepare(e) \/ Run(e) \/ CompleteOne(e)
  \/ \E c \in chain : Cut(c)

Spec == Init /\ [][Next]_vars
=============================================================================
