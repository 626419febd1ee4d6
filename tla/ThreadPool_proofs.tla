-------------------------- MODULE ThreadPool_proofs --------------------------
(***************************************************************************)
(* The thread pool handles every request once, loses none in its           *)
(* destructor and is the engine the pre-issuing algorithm assumes, for any *)
(* number of workers and requests and any depth.                           *)
(***************************************************************************)
EXTENDS ThreadPool, FiniteSetTheorems, SequenceTheorems, TLAPS

Alive == {w \in Workers : worker[w] # Exited}

TypeInv ==
  /\ pc \in {"client", "join", "gone"}
  /\ cleaning \in BOOLEAN
  /\ prepared \in Seq(Entries)
  /\ onthefly \subseteq Entries
  /\ submission_queue \in Seq(Entries \cup {termination_entry_id})
  /\ completion_queue \subseteq onthefly
  /\ worker \in [Workers -> Entries \cup {Idle, Exited}]
  /\ runs \in [Entries -> Nat]

(* A prepared request is prepared once and not on the fly. *)
PreparedInv ==
  /\ \A i \in 1 .. Len(prepared) : prepared[i] \notin onthefly
  /\ \A i, j \in 1 .. Len(prepared) : prepared[i] = prepared[j] => i = j

(* A request on the fly is in one place: in the queue once, with one       *)
(* worker, or completed.                                                   *)
QueueInv ==
  /\ \A i \in 1 .. Len(submission_queue) : submission_queue[i] \in Entries =>
       /\ submission_queue[i] \in onthefly \ completion_queue
       /\ \A j \in 1 .. Len(submission_queue) :
            submission_queue[i] = submission_queue[j] => i = j
       /\ \A w \in Workers : worker[w] # submission_queue[i]
  /\ \A w \in Workers : worker[w] \in Entries =>
       /\ worker[w] \in onthefly \ completion_queue
       /\ \A v \in Workers : worker[v] = worker[w] => v = w
  /\ \A e \in onthefly \ completion_queue :
       \/ \E i \in 1 .. Len(submission_queue) : submission_queue[i] = e
       \/ \E w \in Workers : worker[w] = e

RunsInv == \A e \in Entries : runs[e] = IF e \in completion_queue THEN 1 ELSE 0

(* From the destructor on, the queue ends with one termination entry for   *)
(* every worker that is alive, and is empty when none is.                  *)
EndInv ==
  /\ pc = "client" =>
       /\ Alive = Workers
       /\ \A i \in 1 .. Len(submission_queue) : submission_queue[i] # termination_entry_id
  /\ pc # "client" =>
       /\ ~cleaning
       /\ Cardinality(Alive) <= Len(submission_queue)
       /\ \A i \in 1 .. Len(submission_queue) :
            submission_queue[i] = termination_entry_id
              <=> i > Len(submission_queue) - Cardinality(Alive)
       /\ Cardinality(Alive) = 0 => submission_queue = << >>
  /\ pc = "gone" => Alive = {}

PoolInv == TypeInv /\ PreparedInv /\ QueueInv /\ RunsInv /\ EndInv

-----------------------------------------------------------------------------
(* The workers that are alive are finitely many. *)
LEMMA AliveFinite ==
  /\ IsFiniteSet(Alive) /\ Cardinality(Alive) \in Nat
  /\ Cardinality(Alive) = 0 <=> Alive = {}
<1>1. Alive \in SUBSET Workers
  BY Zenon DEF Alive
<1>2. IsFiniteSet(Alive)
  BY <1>1, WorkersAssumption, FS_Subset, Zenon
<1> QED
  BY <1>2, FS_CardinalityType, FS_EmptySet, Zenon

(* The pool starts empty. *)
LEMMA InitPoolInv == Init => PoolInv
<1> SUFFICES ASSUME Init PROVE PoolInv
  BY Zenon
<1>1. TypeInv
  <2>1. << >> \in Seq(Entries) /\ << >> \in Seq(Entries \cup {termination_entry_id})
    BY EmptySeq, Zenon
  <2>2. worker \in [Workers -> Entries \cup {Idle, Exited}] /\ runs \in [Entries -> Nat]
    BY Zenon DEF Init
  <2> QED
    BY <2>1, <2>2, Zenon DEF Init, TypeInv
<1>2. PreparedInv /\ QueueInv /\ RunsInv
  BY EntriesAssumption DEF Init, PreparedInv, QueueInv, RunsInv
<1>3. EndInv
  BY DEF Init, EndInv, Alive, Idle, Exited
<1> QED
  BY <1>1, <1>2, <1>3, Zenon DEF PoolInv

(* The bounds and the exclusions of the invariant give the property. *)
LEMMA PoolInvSafe == PoolInv => HandledOnce
<1> SUFFICES ASSUME PoolInv PROVE HandledOnce
  BY Zenon
<1>1. \A e \in Entries : runs[e] <= 1
  BY DEF PoolInv, RunsInv
<1>2. ASSUME pc = "gone", NEW e \in onthefly PROVE runs[e] = 1
  <2>1. Alive = {} /\ submission_queue = << >>
    BY <1>2, AliveFinite, Zenon DEF PoolInv, EndInv
  <2>2. e \in Entries
    BY <1>2, Zenon DEF PoolInv, TypeInv
  <2>3. \A w \in Workers : worker[w] = Exited
    BY <2>1, Zenon DEF Alive
  <2>4. e # Exited
    BY <2>2, EntriesAssumption, Zenon
  <2>5. e \in completion_queue
    BY <1>2, <2>1, <2>3, <2>4 DEF PoolInv, QueueInv
  <2> QED
    BY <2>2, <2>5, Zenon DEF PoolInv, RunsInv
<1> QED
  BY <1>1, <1>2, Zenon DEF HandledOnce

-----------------------------------------------------------------------------
(* Every step preserves the invariant. *)

(* Prepare adds a request that is neither prepared nor on the fly. *)
LEMMA PrepareKeeps ==
  ASSUME PoolInv, NEW e \in Entries, Prepare(e)
  PROVE  PoolInv'
<1>1. prepared \in Seq(Entries) /\ prepared' = Append(prepared, e)
  BY Zenon DEF PoolInv, TypeInv, Prepare
<1>2. UNCHANGED <<pc, cleaning, onthefly, submission_queue, completion_queue, worker, runs>>
  BY Zenon DEF Prepare
<1>3. prepared' \in Seq(Entries) /\ Len(prepared') = Len(prepared) + 1
      /\ prepared'[Len(prepared) + 1] = e
      /\ \A i \in 1 .. Len(prepared) : prepared'[i] = prepared[i]
  BY <1>1, AppendProperties
<1>4. e \notin onthefly /\ \A i \in 1 .. Len(prepared) : prepared[i] # e
  BY <1>1, LenProperties, Zenon DEF Prepare, Range
<1>5. TypeInv' /\ QueueInv' /\ RunsInv'
  BY <1>2, <1>3, Zenon DEF PoolInv, TypeInv, QueueInv, RunsInv
<1>6. PreparedInv'
  <2>1. Len(prepared) \in Nat
    BY <1>1
  <2> QED
    BY <1>2, <1>3, <1>4, <2>1 DEF PoolInv, PreparedInv
<1>7. EndInv'
  BY <1>2, Zenon DEF PoolInv, EndInv, Alive
<1> QED
  BY <1>5, <1>6, <1>7, Zenon DEF PoolInv

(* SubmitAll moves the prepared requests into the queue, in order. *)
LEMMA SubmitAllKeeps ==
  ASSUME PoolInv, SubmitAll
  PROVE  PoolInv'
<1> DEFINE q == submission_queue
           T == Entries \cup {termination_entry_id}
           n == Len(q)
           m == Len(prepared)
<1>1. /\ prepared \in Seq(Entries) /\ prepared \in Seq(T) /\ q \in Seq(T)
      /\ n \in Nat /\ m \in Nat
  BY SeqMonotonic DEF PoolInv, TypeInv
<1>2. /\ onthefly' = onthefly \cup Range(prepared)
      /\ submission_queue' = q \o prepared
      /\ prepared' = << >>
      /\ pc = "client"
      /\ UNCHANGED <<pc, cleaning, completion_queue, worker, runs>>
  BY Zenon DEF SubmitAll
<1>3. /\ submission_queue' \in Seq(T) /\ Len(submission_queue') = n + m
      /\ \A i \in 1 .. n + m :
           submission_queue'[i] = IF i <= n THEN q[i] ELSE prepared[i - n]
  BY <1>1, <1>2, ConcatProperties, Zenon
<1>4. Range(prepared) = {prepared[k] : k \in 1 .. m}
  BY <1>1, LenProperties, Zenon DEF Range
<1>5. \A k \in 1 .. m : prepared[k] \in Entries /\ prepared[k] \notin onthefly
  BY <1>1 DEF PoolInv, PreparedInv
<1>6. ASSUME NEW i \in 1 .. n + m
      PROVE  \/ i \in 1 .. n /\ submission_queue'[i] = q[i]
             \/ i - n \in 1 .. m /\ submission_queue'[i] = prepared[i - n]
  BY <1>1, <1>3, <1>6
<1>7. TypeInv'
  BY <1>2, <1>3, <1>4, <1>5, EmptySeq, Zenon DEF PoolInv, TypeInv
<1>8. PreparedInv'
  BY <1>2 DEF PreparedInv
<1>9. QueueInv'
  <2>1. ASSUME NEW i \in 1 .. n + m, submission_queue'[i] \in Entries
        PROVE  /\ submission_queue'[i] \in onthefly' \ completion_queue'
               /\ \A w \in Workers : worker'[w] # submission_queue'[i]
    <3>1. CASE i \in 1 .. n /\ submission_queue'[i] = q[i]
      BY <1>2, <2>1, <3>1, Zenon DEF PoolInv, QueueInv
    <3>2. CASE i - n \in 1 .. m /\ submission_queue'[i] = prepared[i - n]
      <4>1. prepared[i - n] \in Entries /\ prepared[i - n] \notin onthefly
            /\ prepared[i - n] \in onthefly'
        BY <1>2, <1>4, <1>5, <3>2, Zenon
      <4> QED
        BY <1>2, <3>2, <4>1, Zenon DEF PoolInv, TypeInv, QueueInv
    <3> QED
      BY <1>6, <3>1, <3>2, Zenon
  <2>2. ASSUME NEW i \in 1 .. n + m, NEW j \in 1 .. n + m, submission_queue'[i] \in Entries,
               submission_queue'[i] = submission_queue'[j]
        PROVE  i = j
    <3>1. CASE i \in 1 .. n /\ j \in 1 .. n
      <4>1. submission_queue'[i] = q[i] /\ submission_queue'[j] = q[j]
        BY <1>1, <1>3, <2>2, <3>1
      <4> QED
        BY <2>2, <3>1, <4>1, Zenon DEF PoolInv, QueueInv
    <3>2. CASE i - n \in 1 .. m /\ j - n \in 1 .. m
      <4>1. submission_queue'[i] = prepared[i - n] /\ submission_queue'[j] = prepared[j - n]
        BY <1>1, <1>3, <2>2, <3>2
      <4>2. i - n = j - n
        BY <2>2, <3>2, <4>1, Zenon DEF PoolInv, PreparedInv
      <4> QED
        BY <1>1, <2>2, <4>2
    <3>3. ASSUME NEW k \in 1 .. n, q[k] \in Entries, NEW l \in 1 .. m PROVE q[k] # prepared[l]
      BY <1>5, <3>3, Zenon DEF PoolInv, QueueInv
    <3> QED
      BY <1>6, <2>2, <3>1, <3>2, <3>3, Zenon
  <2>3. ASSUME NEW w \in Workers, worker'[w] \in Entries
        PROVE  /\ worker'[w] \in onthefly' \ completion_queue'
               /\ \A v \in Workers : worker'[v] = worker'[w] => v = w
    BY <1>2, <2>3, Zenon DEF PoolInv, QueueInv
  <2>4. ASSUME NEW e \in onthefly' \ completion_queue'
        PROVE  \/ \E i \in 1 .. n + m : submission_queue'[i] = e
               \/ \E w \in Workers : worker'[w] = e
    <3>1. CASE e \in onthefly
      <4>1. \/ \E i \in 1 .. n : q[i] = e
            \/ \E w \in Workers : worker[w] = e
        BY <1>2, <2>4, <3>1, Zenon DEF PoolInv, QueueInv
      <4>2. \A i \in 1 .. n : i \in 1 .. n + m /\ submission_queue'[i] = q[i]
        BY <1>1, <1>3
      <4> QED
        BY <1>2, <4>1, <4>2, Zenon
    <3>2. CASE e \notin onthefly
      <4>1. PICK k \in 1 .. m : e = prepared[k]
        BY <1>2, <1>4, <2>4, <3>2, Zenon
      <4>2. n + k \in 1 .. n + m /\ submission_queue'[n + k] = prepared[k]
        <5>1. n + k \in 1 .. n + m /\ ~(n + k <= n) /\ (n + k) - n = k
          BY <1>1
        <5> QED
          BY <1>3, <5>1, Zenon
      <4> QED
        BY <4>1, <4>2, Zenon
    <3> QED
      BY <3>1, <3>2, Zenon
  <2> QED
    BY <1>3, <2>1, <2>2, <2>3, <2>4, Zenon DEF QueueInv
<1>10. RunsInv'
  BY <1>2, Zenon DEF PoolInv, RunsInv
<1>11. EndInv'
  <2>1. \A i \in 1 .. n + m : submission_queue'[i] # termination_entry_id
    BY <1>2, <1>5, <1>6, EntriesAssumption, Zenon DEF PoolInv, EndInv
  <2> QED
    BY <1>2, <1>3, <2>1, Zenon DEF PoolInv, EndInv, Alive
<1> QED
  BY <1>7, <1>8, <1>9, <1>10, <1>11, Zenon DEF PoolInv

(* CompleteOne hands back a completed request. *)
LEMMA CompleteOneKeeps ==
  ASSUME PoolInv, NEW e \in Entries, CompleteOne(e)
  PROVE  PoolInv'
<1>1. /\ completion_queue' = completion_queue \ {e} /\ e \in completion_queue
      /\ onthefly' = onthefly \ {e}
      /\ runs' = [runs EXCEPT ![e] = 0]
      /\ UNCHANGED <<pc, cleaning, prepared, submission_queue, worker>>
  BY Zenon DEF CompleteOne
<1>2. TypeInv'
  BY <1>1, Zenon DEF PoolInv, TypeInv
<1>3. PreparedInv'
  BY <1>1, Zenon DEF PoolInv, PreparedInv
<1>4. QueueInv'
  <2>1. onthefly' \ completion_queue' = onthefly \ completion_queue
    BY <1>1, Zenon DEF PoolInv, TypeInv
  <2> QED
    BY <1>1, <2>1, Zenon DEF PoolInv, QueueInv
<1>5. RunsInv'
  BY <1>1, Zenon DEF PoolInv, TypeInv, RunsInv
<1>6. EndInv'
  BY <1>1, Zenon DEF PoolInv, EndInv, Alive
<1> QED
  BY <1>2, <1>3, <1>4, <1>5, <1>6, Zenon DEF PoolInv

(* CleanUp, its end, and the end of the destructor change no request on    *)
(* the fly.                                                                *)
LEMMA CleanUpKeeps ==
  ASSUME PoolInv, CleanUp \/ CleanedUp \/ Joined
  PROVE  PoolInv'
<1>1. /\ UNCHANGED <<onthefly, submission_queue, completion_queue, worker, runs>>
      /\ prepared' \in {prepared, << >>}
      /\ \/ pc' = pc /\ cleaning' \in BOOLEAN /\ pc = "client"
         \/ pc = "join" /\ pc' = "gone" /\ cleaning' = cleaning /\ \A w \in Workers : worker[w] = Exited
  BY Zenon DEF CleanUp, CleanedUp, Joined
<1>2. TypeInv'
  BY <1>1, EmptySeq, Zenon DEF PoolInv, TypeInv
<1>3. PreparedInv'
  BY <1>1 DEF PoolInv, PreparedInv
<1>4. QueueInv' /\ RunsInv'
  BY <1>1, Zenon DEF PoolInv, QueueInv, RunsInv
<1>5. EndInv'
  BY <1>1 DEF PoolInv, EndInv, Alive
<1> QED
  BY <1>2, <1>3, <1>4, <1>5, Zenon DEF PoolInv

(* The destructor queues a termination entry for every worker, behind the  *)
(* requests.                                                               *)
LEMMA DestroyKeeps ==
  ASSUME PoolInv, Destroy
  PROVE  PoolInv'
<1> DEFINE q == submission_queue
           T == Entries \cup {termination_entry_id}
           n == Len(q)
           m == Cardinality(Workers)
<1>1. q \in Seq(T) /\ n \in Nat /\ m \in Nat \ {0}
  BY WorkersAssumption, FS_CardinalityType, FS_EmptySet DEF PoolInv, TypeInv
<1>2. Terminations \in Seq(T) /\ Len(Terminations) = m
      /\ \A k \in 1 .. m : Terminations[k] = termination_entry_id
  BY <1>1 DEF Terminations
<1>3. /\ submission_queue' = q \o Terminations
      /\ pc = "client" /\ pc' = "join" /\ ~cleaning
      /\ UNCHANGED <<cleaning, prepared, onthefly, completion_queue, worker, runs>>
  BY Zenon DEF Destroy
<1>4. /\ submission_queue' \in Seq(T) /\ Len(submission_queue') = n + m
      /\ \A i \in 1 .. n + m :
           submission_queue'[i] = IF i <= n THEN q[i] ELSE Terminations[i - n]
  BY <1>1, <1>2, <1>3, ConcatProperties, Zenon
<1>5. ASSUME NEW i \in 1 .. n + m
      PROVE  \/ i \in 1 .. n /\ submission_queue'[i] = q[i]
             \/ i > n /\ submission_queue'[i] = termination_entry_id
  BY <1>1, <1>2, <1>4, <1>5, SMTT(30)
<1>6. termination_entry_id \notin Entries
  BY EntriesAssumption, Zenon
<1>7. TypeInv'
  BY <1>3, <1>4, Zenon DEF PoolInv, TypeInv
<1>8. PreparedInv' /\ RunsInv'
  BY <1>3, Zenon DEF PoolInv, PreparedInv, RunsInv
<1>9. QueueInv'
  <2>1. ASSUME NEW i \in 1 .. n + m, submission_queue'[i] \in Entries
        PROVE  i \in 1 .. n /\ submission_queue'[i] = q[i]
    BY <1>5, <1>6, <2>1, Zenon
  <2>2. \A i \in 1 .. n : i \in 1 .. n + m /\ submission_queue'[i] = q[i]
    BY <1>1, <1>4
  <2>3. ASSUME NEW i \in 1 .. n + m, submission_queue'[i] \in Entries
        PROVE  /\ submission_queue'[i] \in onthefly' \ completion_queue'
               /\ \A j \in 1 .. n + m : submission_queue'[i] = submission_queue'[j] => i = j
               /\ \A w \in Workers : worker'[w] # submission_queue'[i]
    <3>1. i \in 1 .. n /\ submission_queue'[i] = q[i] /\ q[i] \in Entries
      BY <2>1, <2>3, Zenon
    <3>2. /\ q[i] \in onthefly \ completion_queue
          /\ \A j \in 1 .. n : q[i] = q[j] => i = j
          /\ \A w \in Workers : worker[w] # q[i]
      BY <3>1, Zenon DEF PoolInv, QueueInv
    <3>3. ASSUME NEW j \in 1 .. n + m, submission_queue'[i] = submission_queue'[j]
          PROVE  i = j
      <4>1. j \in 1 .. n /\ submission_queue'[j] = q[j]
        BY <2>1, <2>3, <3>3, Zenon
      <4> QED
        BY <3>1, <3>2, <3>3, <4>1, Zenon
    <3> QED
      BY <1>3, <3>1, <3>2, <3>3, Zenon
  <2>4. ASSUME NEW w \in Workers, worker'[w] \in Entries
        PROVE  /\ worker'[w] \in onthefly' \ completion_queue'
               /\ \A v \in Workers : worker'[v] = worker'[w] => v = w
    BY <1>3, <2>4, Zenon DEF PoolInv, QueueInv
  <2>5. ASSUME NEW e \in onthefly' \ completion_queue'
        PROVE  \/ \E i \in 1 .. n + m : submission_queue'[i] = e
               \/ \E w \in Workers : worker'[w] = e
    <3>1. \/ \E i \in 1 .. n : q[i] = e
          \/ \E w \in Workers : worker[w] = e
      BY <1>3, <2>5, Zenon DEF PoolInv, QueueInv
    <3> QED
      BY <1>3, <2>2, <3>1, Zenon
  <2> QED
    BY <1>4, <2>3, <2>4, <2>5, Zenon DEF QueueInv
<1>10. EndInv'
  <2>1. Alive' = Workers
    BY <1>3, Zenon DEF PoolInv, EndInv, Alive
  <2>2. \A i \in 1 .. n : q[i] # termination_entry_id
    BY <1>3, Zenon DEF PoolInv, EndInv
  <2>3. \A i \in 1 .. n + m : submission_queue'[i] = termination_entry_id <=> i > n + m - m
    <3>1. n + m - m = n
      BY <1>1
    <3>2. \A i \in 1 .. n : ~(i > n)
      BY <1>1
    <3> QED
      BY <1>5, <2>2, <3>1, <3>2, Zenon
  <2>4. m <= n + m
    BY <1>1
  <2> QED
    BY <1>1, <1>3, <1>4, <2>1, <2>3, <2>4 DEF EndInv
<1> QED
  BY <1>7, <1>8, <1>9, <1>10, Zenon DEF PoolInv

(* A worker takes a request, or the first termination entry, after which   *)
(* there are only termination entries, one for each worker that remains.   *)
LEMMA DequeueKeeps ==
  ASSUME PoolInv, NEW w \in Workers, Dequeue(w)
  PROVE  PoolInv'
<1> DEFINE q == submission_queue
           T == Entries \cup {termination_entry_id}
           n == Len(q)
           h == Head(q)
           x == IF h = termination_entry_id THEN Exited ELSE h
<1>1. /\ q \in Seq(T) /\ q # << >> /\ worker[w] = Idle
      /\ worker' = [worker EXCEPT ![w] = x]
      /\ submission_queue' = Tail(q)
      /\ UNCHANGED <<pc, cleaning, prepared, onthefly, completion_queue, runs>>
  BY Zenon DEF PoolInv, TypeInv, Dequeue
<1>2. /\ n \in Nat \ {0} /\ h = q[1] /\ h \in T /\ submission_queue' \in Seq(T)
      /\ Len(submission_queue') = n - 1
      /\ \A i \in 1 .. n - 1 : submission_queue'[i] = q[i + 1]
  BY <1>1, HeadTailProperties
<1>3. Entries \cap {Idle, Exited, termination_entry_id} = {} /\ Idle # Exited
  BY EntriesAssumption, Zenon DEF Idle, Exited
<1>4. worker \in [Workers -> Entries \cup {Idle, Exited}] /\ x \in Entries \cup {Exited}
  BY <1>2, Zenon DEF PoolInv, TypeInv
<1>5. worker'[w] = x /\ \A v \in Workers \ {w} : worker'[v] = worker[v]
  BY <1>1, <1>4, Zenon
<1>6. \A i \in 1 .. n - 1 : i + 1 \in 1 .. n /\ i + 1 # 1
  BY <1>2
<1>7. 1 \in 1 .. n
  BY <1>2
<1>8. x \in Entries <=> h \in Entries
  BY <1>2, <1>3, Zenon
<1> HIDE DEF h, x
<1>9. TypeInv'
  BY <1>1, <1>2, <1>4, Zenon DEF PoolInv, TypeInv
<1>10. PreparedInv' /\ RunsInv'
  BY <1>1, Zenon DEF PoolInv, PreparedInv, RunsInv
<1>11. x \in Entries => x = q[1]
  BY <1>2, <1>3, Zenon DEF x
<1>12. QueueInv'
  <2>1. ASSUME NEW i \in 1 .. n - 1, submission_queue'[i] \in Entries
        PROVE  /\ submission_queue'[i] \in onthefly' \ completion_queue'
               /\ \A v \in Workers : worker'[v] # submission_queue'[i]
    <3>1. submission_queue'[i] = q[i + 1] /\ i + 1 \in 1 .. n /\ i + 1 # 1
      BY <1>2, <1>6, <2>1, Zenon
    <3>2. q[i + 1] \in onthefly \ completion_queue /\ q[i + 1] # q[1]
          /\ \A v \in Workers : worker[v] # q[i + 1]
      BY <1>7, <2>1, <3>1, Zenon DEF PoolInv, QueueInv
    <3>3. x # q[i + 1]
      BY <1>11, <2>1, <3>1, <3>2, Zenon
    <3> QED
      BY <1>1, <1>5, <3>1, <3>2, <3>3, Zenon
  <2>2. ASSUME NEW i \in 1 .. n - 1, NEW j \in 1 .. n - 1, submission_queue'[i] \in Entries,
               submission_queue'[i] = submission_queue'[j]
        PROVE  i = j
    <3>1. q[i + 1] \in Entries /\ q[i + 1] = q[j + 1] /\ i + 1 \in 1 .. n /\ j + 1 \in 1 .. n
      BY <1>2, <1>6, <2>2, Zenon
    <3>2. i + 1 = j + 1
      BY <3>1, Zenon DEF PoolInv, QueueInv
    <3> QED
      BY <2>2, <3>2
  <2>3. ASSUME NEW u \in Workers, worker'[u] \in Entries
        PROVE  /\ worker'[u] \in onthefly' \ completion_queue'
               /\ \A v \in Workers : worker'[v] = worker'[u] => v = u
    <3>1. x \in Entries => /\ x \in onthefly \ completion_queue
                           /\ \A v \in Workers : worker[v] # x
      BY <1>7, <1>11 DEF PoolInv, QueueInv
    <3>2. CASE u = w
      BY <1>1, <1>5, <2>3, <3>1, <3>2, Zenon
    <3>3. CASE u # w
      <4>1. worker'[u] = worker[u] /\ worker[u] \in Entries
        BY <1>5, <2>3, <3>3, Zenon
      <4>2. /\ worker[u] \in onthefly \ completion_queue
            /\ \A v \in Workers : worker[v] = worker[u] => v = u
        BY <4>1, Zenon DEF PoolInv, QueueInv
      <4> QED
        BY <1>1, <1>5, <3>1, <3>3, <4>1, <4>2, Zenon
    <3> QED
      BY <3>2, <3>3, Zenon
  <2>4. ASSUME NEW e \in onthefly' \ completion_queue'
        PROVE  \/ \E i \in 1 .. n - 1 : submission_queue'[i] = e
               \/ \E v \in Workers : worker'[v] = e
    <3>1. e \in Entries
      BY <1>1, <2>4, Zenon DEF PoolInv, TypeInv
    <3>2. \/ \E i \in 1 .. n : q[i] = e
          \/ \E v \in Workers : worker[v] = e
      BY <1>1, <2>4, Zenon DEF PoolInv, QueueInv
    <3>3. ASSUME NEW v \in Workers, worker[v] = e PROVE worker'[v] = e
      BY <1>1, <1>3, <1>5, <3>1, <3>3, Zenon
    <3>4. ASSUME q[1] = e PROVE worker'[w] = e
      BY <1>2, <1>3, <1>5, <3>1, <3>4, Zenon DEF x
    <3>5. ASSUME NEW i \in 1 .. n, i # 1, q[i] = e
          PROVE  \E j \in 1 .. n - 1 : submission_queue'[j] = e
      <4>1. i - 1 \in 1 .. n - 1 /\ (i - 1) + 1 = i
        BY <1>2, <3>5
      <4> QED
        BY <1>2, <3>5, <4>1, Zenon
    <3> QED
      BY <3>2, <3>3, <3>4, <3>5, Zenon
  <2> QED
    BY <1>2, <2>1, <2>2, <2>3, <2>4, Zenon DEF QueueInv
<1>13. EndInv'
  <2>1. CASE h = termination_entry_id
    <3>1. pc # "client" /\ x = Exited
      BY <1>2, <1>7, <2>1, Zenon DEF PoolInv, EndInv, x
    <3>2. ~cleaning /\ Cardinality(Alive) <= n /\ 1 > n - Cardinality(Alive)
      BY <1>2, <1>7, <2>1, <3>1, Zenon DEF PoolInv, EndInv
    <3>3. Cardinality(Alive) = n
      BY <1>2, <3>2, AliveFinite
    <3>4. Alive' = Alive \ {w} /\ w \in Alive
      BY <1>1, <1>3, <1>5, <3>1, Zenon DEF Alive
    <3>5. Cardinality(Alive') = n - 1
      BY <3>3, <3>4, AliveFinite, FS_RemoveElement, Zenon
    <3>6. \A i \in 1 .. n : q[i] = termination_entry_id
      BY <1>2, <3>1, <3>3 DEF PoolInv, EndInv
    <3>7. \A i \in 1 .. n - 1 : submission_queue'[i] = termination_entry_id
      BY <1>2, <1>6, <3>6, Zenon
    <3>8. n - 1 = 0 => submission_queue' = << >>
      BY <1>2, EmptySeq, Zenon
    <3>9. pc' # "gone"
      BY <1>1, <3>4, Zenon DEF PoolInv, EndInv
    <3> QED
      BY <1>1, <1>2, <3>1, <3>2, <3>5, <3>7, <3>8, <3>9 DEF EndInv
  <2>2. CASE h # termination_entry_id
    <3>1. x = h /\ h \in Entries /\ h # Exited
      BY <1>2, <1>3, <2>2, Zenon DEF x
    <3>2. Alive' = Alive
      BY <1>1, <1>3, <1>5, <3>1, Zenon DEF Alive
    <3>3. CASE pc = "client"
      BY <1>1, <1>2, <1>6, <3>2, <3>3, Zenon DEF PoolInv, EndInv
    <3>4. CASE pc # "client"
      <4> DEFINE k == Cardinality(Alive)
      <4>1. /\ ~cleaning /\ k <= n /\ k # 0 /\ k \in Nat
            /\ \A i \in 1 .. n : q[i] = termination_entry_id <=> i > n - k
        BY <1>1, <3>4, AliveFinite, Zenon DEF PoolInv, EndInv
      <4>2. pc # "gone" /\ Cardinality(Alive') = k
        BY <3>2, <4>1, AliveFinite, Zenon DEF PoolInv, EndInv
      <4> HIDE DEF k
      <4>3. k <= n - 1
        BY <1>2, <1>7, <2>2, <4>1
      <4>4. \A i \in 1 .. n - 1 :
              submission_queue'[i] = termination_entry_id <=> i > n - 1 - k
        BY <1>2, <1>6, <4>1, SMTT(30)
      <4> QED
        BY <1>1, <1>2, <3>4, <4>1, <4>2, <4>3, <4>4, Zenon DEF EndInv
    <3> QED
      BY <3>3, <3>4, Zenon
  <2> QED
    BY <2>1, <2>2, Zenon
<1> QED
  BY <1>9, <1>10, <1>12, <1>13, Zenon DEF PoolInv

(* A worker completes the request it holds. *)
LEMMA HandleKeeps ==
  ASSUME PoolInv, NEW w \in Workers, HandleSQEntry(w)
  PROVE  PoolInv'
<1> DEFINE e == worker[w]
<1>1. /\ e \in Entries
      /\ runs' = [runs EXCEPT ![e] = @ + 1]
      /\ completion_queue' = completion_queue \cup {e}
      /\ worker' = [worker EXCEPT ![w] = Idle]
      /\ UNCHANGED <<pc, cleaning, prepared, onthefly, submission_queue>>
  BY Zenon DEF HandleSQEntry
<1>2. e \in onthefly \ completion_queue
  BY <1>1, Zenon DEF PoolInv, QueueInv
<1>3. worker \in [Workers -> Entries \cup {Idle, Exited}]
  BY Zenon DEF PoolInv, TypeInv
<1>4. worker'[w] = Idle /\ \A v \in Workers \ {w} : worker'[v] = worker[v]
  BY <1>1, <1>3, Zenon
<1>5. Idle \notin Entries /\ Idle # Exited /\ e # Exited
  BY <1>1, EntriesAssumption, Zenon DEF Idle, Exited
<1> HIDE DEF e
<1>6. TypeInv'
  <2>1. runs' \in [Entries -> Nat]
    BY <1>1 DEF PoolInv, TypeInv
  <2>2. worker' \in [Workers -> Entries \cup {Idle, Exited}]
    BY <1>1, <1>3, Zenon
  <2> QED
    BY <1>1, <1>2, <2>1, <2>2, Zenon DEF PoolInv, TypeInv
<1>7. PreparedInv'
  BY <1>1, Zenon DEF PoolInv, PreparedInv
<1>8. QueueInv'
  <2>1. ASSUME NEW i \in 1 .. Len(submission_queue), submission_queue[i] \in Entries
        PROVE  /\ submission_queue[i] \in onthefly \ completion_queue'
               /\ \A v \in Workers : worker'[v] # submission_queue[i]
    <3>1. submission_queue[i] # e /\ submission_queue[i] \in onthefly \ completion_queue
          /\ \A v \in Workers : worker[v] # submission_queue[i]
      BY <2>1, Zenon DEF PoolInv, QueueInv, e
    <3> QED
      BY <1>1, <1>4, <1>5, <2>1, <3>1, Zenon
  <2>2. ASSUME NEW u \in Workers, worker'[u] \in Entries
        PROVE  /\ worker'[u] \in onthefly \ completion_queue'
               /\ \A v \in Workers : worker'[v] = worker'[u] => v = u
    <3>1. u # w /\ worker'[u] = worker[u]
      BY <1>4, <1>5, <2>2, Zenon
    <3>2. /\ worker[u] \in onthefly \ completion_queue
          /\ \A v \in Workers : worker[v] = worker[u] => v = u
      BY <2>2, <3>1, Zenon DEF PoolInv, QueueInv
    <3>3. worker[u] # e
      BY <3>1, <3>2, Zenon DEF e
    <3> QED
      BY <1>1, <1>4, <1>5, <2>2, <3>1, <3>2, <3>3
  <2>3. ASSUME NEW f \in onthefly \ completion_queue'
        PROVE  \/ \E i \in 1 .. Len(submission_queue) : submission_queue[i] = f
               \/ \E v \in Workers : worker'[v] = f
    <3>1. f # e /\ f \in onthefly \ completion_queue
      BY <1>1, <2>3, Zenon
    <3>2. \/ \E i \in 1 .. Len(submission_queue) : submission_queue[i] = f
          \/ \E v \in Workers : worker[v] = f
      BY <3>1, Zenon DEF PoolInv, QueueInv
    <3> QED
      BY <1>4, <3>1, <3>2, Zenon DEF e
  <2>4. \A i \in 1 .. Len(submission_queue) : submission_queue[i] \in Entries =>
          \A j \in 1 .. Len(submission_queue) : submission_queue[i] = submission_queue[j] => i = j
    BY Zenon DEF PoolInv, QueueInv
  <2> QED
    BY <1>1, <2>1, <2>2, <2>3, <2>4 DEF QueueInv
<1>9. RunsInv'
  <2>1. runs[e] = 0
    BY <1>1, <1>2, Zenon DEF PoolInv, RunsInv
  <2> QED
    BY <1>1, <2>1 DEF PoolInv, TypeInv, RunsInv
<1>10. EndInv'
  <2>1. Alive' = Alive
    BY <1>4, <1>5, Zenon DEF Alive, e
  <2> QED
    BY <1>1, <2>1, Zenon DEF PoolInv, EndInv
<1> QED
  BY <1>6, <1>7, <1>8, <1>9, <1>10, Zenon DEF PoolInv

(* Every step of the pool and its client preserves the invariant. *)
LEMMA NextPoolInv == PoolInv /\ [Next]_vars => PoolInv'
<1> SUFFICES ASSUME PoolInv, [Next]_vars PROVE PoolInv'
  BY Zenon
<1>1. CASE \E e \in Entries : Prepare(e)
  BY <1>1, PrepareKeeps, Zenon
<1>2. CASE SubmitAll
  BY <1>2, SubmitAllKeeps, Zenon
<1>3. CASE Complete
  BY <1>3, CompleteOneKeeps, Zenon DEF Complete
<1>4. CASE CleanUp \/ CleanedUp \/ Joined
  BY <1>4, CleanUpKeeps, Zenon
<1>5. CASE Destroy
  BY <1>5, DestroyKeeps, Zenon
<1>6. CASE \E w \in Workers : Worker(w)
  BY <1>6, DequeueKeeps, HandleKeeps, Zenon DEF Worker
<1>7. CASE UNCHANGED vars
  BY <1>7 DEF vars, PoolInv, TypeInv, PreparedInv, QueueInv, RunsInv, EndInv, Alive
<1> QED
  BY <1>1, <1>2, <1>3, <1>4, <1>5, <1>6, <1>7, Zenon DEF Next

(* The invariant holds always. *)
LEMMA PoolInvariant == Spec => []PoolInv
  BY InitPoolInv, NextPoolInv, PTL DEF Spec

(* Workers never handle a request twice, and when the destructor returns   *)
(* they have handled every submitted one, whatever the number of workers   *)
(* and requests.                                                           *)
THEOREM PoolSafe == Spec => []HandledOnce
  BY PoolInvariant, PoolInvSafe, PTL

-----------------------------------------------------------------------------
(* A step of the pool is a step of IOEngine, or leaves its state alone. *)
LEMMA StepImplements == PoolInv /\ [Next]_vars => [E!Next]_(E!vars)
<1> SUFFICES ASSUME PoolInv, [Next]_vars PROVE [E!Next]_(E!vars)
  BY Zenon
<1>0. E!Elements(prepared) = Range(prepared)
  BY Zenon DEF E!Elements, Range
<1>1. ASSUME NEW e \in Entries, Prepare(e) PROVE E!Next
  <2>1. E!MaxInFlight = MaxInFlight /\ E!MaxPrepared = MaxPrepared
    BY Zenon DEF MaxInFlight, E!MaxInFlight, MaxPrepared, E!MaxPrepared, Linked
  <2>2. E!Cardinality(onthefly) = Cardinality(onthefly)
    BY Zenon DEF Cardinality, E!Cardinality
  <2>3. E!Prepare(e)
    BY <1>0, <1>1, <2>1, <2>2, Zenon DEF Prepare, E!Prepare
  <2> QED
    BY <1>1, <2>3, Zenon DEF E!Next
<1>2. CASE SubmitAll
  <2>1. ~E!DanglingLink /\ E!Chained(prepared) = {}
    BY Zenon DEF E!DanglingLink, E!Chained, Linked
  <2>2. E!SubmitAll
    BY <1>0, <1>2, <2>1, Zenon DEF SubmitAll, E!SubmitAll
  <2> QED
    BY <2>2, Zenon DEF E!Next
<1>3. ASSUME NEW e \in Entries, CompleteOne(e) PROVE E!Next
  <2>1. E!CompleteOne(e)
    BY <1>3, Zenon DEF CompleteOne, E!CompleteOne
  <2> QED
    BY <1>3, <2>1, Zenon DEF E!Next
<1>4. CASE CleanUp
  BY <1>4, Zenon DEF CleanUp, E!CleanUp, E!Next
<1>5. CASE CleanedUp
  BY <1>5, Zenon DEF CleanedUp, E!CleanedUp, E!Next
<1>6. CASE Destroy \/ Joined \/ UNCHANGED vars
  BY <1>6, Zenon DEF Destroy, Joined, vars, E!vars
<1>7. ASSUME NEW w \in Workers, Dequeue(w) PROVE UNCHANGED E!vars
  BY <1>7, Zenon DEF Dequeue, E!vars
<1>8. ASSUME NEW w \in Workers, HandleSQEntry(w) PROVE E!Next
  <2>1. worker[w] \in Entries /\ worker[w] \in onthefly \ completion_queue
    BY <1>8, Zenon DEF PoolInv, QueueInv, HandleSQEntry
  <2>2. E!Run(worker[w])
    BY <1>8, <2>1, Zenon DEF HandleSQEntry, E!Run
  <2> QED
    BY <2>1, <2>2, Zenon DEF E!Next
<1> QED
  BY <1>1, <1>2, <1>3, <1>4, <1>5, <1>6, <1>7, <1>8, Zenon DEF Next, Complete, Worker

(* The thread pool is an engine as the pre-issuing algorithm assumes it,   *)
(* for every number of workers and every depth.                            *)
THEOREM PoolImplementsEngine == Spec => ImplementsIOEngine
<1>1. Init => E!Init
  BY Zenon DEF Init, E!Init
<1> QED
  BY <1>1, PoolInvariant, StepImplements, PTL DEF Spec, ImplementsIOEngine, E!Spec
=============================================================================
