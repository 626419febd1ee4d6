----------------------------- MODULE ThreadPool -----------------------------
(***************************************************************************)
(* class ThreadPool: the application thread puts requests into a           *)
(* submission queue, worker threads take them, make the syscall and put    *)
(* the result into a completion queue; the destructor ends every worker    *)
(* with a termination entry.  The queues are moodycamel's (external): a    *)
(* queue keeps the order of one producer, so the submission queue, which   *)
(* only the application thread fills, is a sequence, and the completion    *)
(* queue, filled by all workers, hands out its entries in any order.       *)
(***************************************************************************)
EXTENDS Integers, Sequences, FiniteSets, Functions

CONSTANTS
  Entries,
  Depth,      \* pre_issue_depth
  Workers     \* worker threads, as many as nthreads

Linked == {}                      \* links are refused (PANIC_IF in SubmitAll)
MaxInFlight == Depth + 1
MaxPrepared == Depth

VARIABLES
  pc,                 \* "client", "join" (destructor) or "gone"
  cleaning,
  prepared, onthefly,
  submission_queue, completion_queue,
  worker,             \* idle, the entry being handled, or exited
  runs                \* history: entries handled and not completed, counted

vars == <<pc, cleaning, prepared, onthefly, submission_queue, completion_queue, worker, runs>>

Idle == "idle"
Exited == "exited"
termination_entry_id == "terminate"

(* The constructor asserts that the pool has a worker, and no request has  *)
(* the reserved id of the termination entry.                               *)
ASSUME WorkersAssumption == IsFiniteSet(Workers) /\ Workers # {}
ASSUME EntriesAssumption == Entries \cap {Idle, Exited, termination_entry_id} = {}

Init ==
  /\ pc = "client"
  /\ cleaning = FALSE
  /\ prepared = << >> /\ onthefly = {}
  /\ submission_queue = << >> /\ completion_queue = {}
  /\ worker = [w \in Workers |-> Idle]
  /\ runs = [e \in Entries |-> 0]

Prepare(e) ==
  /\ pc = "client" /\ ~cleaning
  /\ e \notin onthefly \cup Range(prepared)
  /\ Cardinality(onthefly) + Len(prepared) < MaxInFlight
  /\ Len(prepared) < MaxPrepared
  /\ prepared' = Append(prepared, e)
  /\ UNCHANGED <<pc, cleaning, onthefly, submission_queue, completion_queue, worker, runs>>

(* Mutation: the batch is queued and still counts as prepared. *)
SubmitAll_KeepPrepared ==
  /\ pc = "client" /\ ~cleaning
  /\ prepared # << >>
  /\ onthefly' = onthefly \cup Range(prepared)
  /\ submission_queue' = submission_queue \o prepared
  /\ UNCHANGED <<pc, cleaning, prepared, completion_queue, worker, runs>>

SubmitAll ==
  /\ pc = "client" /\ ~cleaning
  /\ prepared # << >>
  /\ onthefly' = onthefly \cup Range(prepared)
  /\ submission_queue' = submission_queue \o prepared
  /\ prepared' = << >>
  /\ UNCHANGED <<pc, cleaning, completion_queue, worker, runs>>

(* Mutation: a completed request stays on the fly. *)
CompleteOne_KeepOnthefly(e) ==
  /\ pc = "client"
  /\ e \in completion_queue
  /\ completion_queue' = completion_queue \ {e}
  /\ runs' = [runs EXCEPT ![e] = 0]
  /\ UNCHANGED <<pc, cleaning, prepared, onthefly, submission_queue, worker>>

CompleteOne(e) ==
  /\ pc = "client"
  /\ e \in completion_queue
  /\ completion_queue' = completion_queue \ {e}
  /\ onthefly' = onthefly \ {e}
  /\ runs' = [runs EXCEPT ![e] = 0]
  /\ UNCHANGED <<pc, cleaning, prepared, submission_queue, worker>>

CleanUp ==
  /\ pc = "client" /\ ~cleaning
  /\ prepared' = << >>
  /\ cleaning' = TRUE
  /\ UNCHANGED <<pc, onthefly, submission_queue, completion_queue, worker, runs>>

CleanedUp ==
  /\ pc = "client" /\ cleaning
  /\ onthefly = {}
  /\ cleaning' = FALSE
  /\ UNCHANGED <<pc, prepared, onthefly, submission_queue, completion_queue, worker, runs>>

-----------------------------------------------------------------------------
(* Mutation: one termination entry for all workers. *)
Terminations_One == <<termination_entry_id>>

Terminations == [k \in 1 .. Cardinality(Workers) |-> termination_entry_id]

(* The destructor, run when the application thread ends, between sessions  *)
(* or inside one: requests may still be queued.                            *)
Destroy ==
  /\ pc = "client" /\ ~cleaning
  /\ submission_queue' = submission_queue \o Terminations
  /\ pc' = "join"
  /\ UNCHANGED <<cleaning, prepared, onthefly, completion_queue, worker, runs>>

Joined ==
  /\ pc = "join"
  /\ \A w \in Workers : worker[w] = Exited
  /\ pc' = "gone"
  /\ UNCHANGED <<cleaning, prepared, onthefly, submission_queue, completion_queue, worker, runs>>

(* WorkerThreadFunc: wait_dequeue, then the syscall, then the completion.  *)
Dequeue(w) ==
  /\ worker[w] = Idle
  /\ submission_queue # << >>
  /\ worker' = [worker EXCEPT ![w] = IF Head(submission_queue) = termination_entry_id
                                     THEN Exited ELSE Head(submission_queue)]
  /\ submission_queue' = Tail(submission_queue)
  /\ UNCHANGED <<pc, cleaning, prepared, onthefly, completion_queue, runs>>

(* Mutation: a worker completes a request and keeps it. *)
HandleSQEntry_Again(w) ==
  /\ worker[w] \in Entries
  /\ runs' = [runs EXCEPT ![worker[w]] = @ + 1]
  /\ completion_queue' = completion_queue \cup {worker[w]}
  /\ UNCHANGED <<pc, cleaning, prepared, onthefly, submission_queue, worker>>

HandleSQEntry(w) ==
  /\ worker[w] \in Entries
  /\ runs' = [runs EXCEPT ![worker[w]] = @ + 1]
  /\ completion_queue' = completion_queue \cup {worker[w]}
  /\ worker' = [worker EXCEPT ![w] = Idle]
  /\ UNCHANGED <<pc, cleaning, prepared, onthefly, submission_queue>>

Worker(w) == Dequeue(w) \/ HandleSQEntry(w)
Complete == \E e \in Entries : CompleteOne(e)

Next ==
  \/ \E e \in Entries : Prepare(e)
  \/ SubmitAll \/ Complete \/ CleanUp \/ CleanedUp \/ Destroy \/ Joined
  \/ \E w \in Workers : Worker(w)

Spec == Init /\ [][Next]_vars

(* Workers are threads of their own.  The application thread goes on       *)
(* inside CleanUp and the destructor.                                      *)
FairSpec ==
  /\ Spec
  /\ \A w \in Workers : WF_vars(Worker(w))
  /\ WF_vars(cleaning /\ (Complete \/ CleanedUp))
  /\ WF_vars(Joined)

-----------------------------------------------------------------------------
(***************************************************************************)
(* Properties                                                              *)
(***************************************************************************)

(* No request is handled twice, and none is lost with the pool: when the   *)
(* destructor returns, every submitted request has been handled, because   *)
(* termination entries are queued behind them.                             *)
HandledOnce ==
  /\ \A e \in Entries : runs[e] <= 1
  /\ pc = "gone" => \A e \in onthefly : runs[e] = 1

E == INSTANCE IOEngine WITH
  done <- completion_queue,
  chain <- {},
  splits <- FALSE

(* The pool is the engine that the pre-issuing algorithm assumes, for      *)
(* graphs without links.                                                   *)
ImplementsIOEngine == E!Spec

(* The destructor returns: every worker gets a termination entry, and no   *)
(* worker takes two.                                                       *)
DestructorReturns == pc = "join" ~> pc = "gone"

(* CleanUp harvests everything on the fly and returns. *)
CleanUpReturns == cleaning ~> ~cleaning
=============================================================================
