-------------------------- MODULE PosixItf_proofs --------------------------
(***************************************************************************)
(* For any number of threads and graphs, any depth of recursion and any    *)
(* settings: the assertions of foreactor.cpp on sessions hold; the         *)
(* frontier of every graph has moved by exactly the calls its function has *)
(* made; and the read(), write() and lseek() of posix_itf.cpp implement    *)
(* the atomic ones of module PosixFile.                                    *)
(***************************************************************************)
EXTENDS PosixItf, FiniteSetTheorems, SequenceTheorems, TLAPS

Elements == Graphs \cup {NoGraph}

(* The graphs of the wrapped functions a thread is in, pauses as NoGraph.  *)
Nest(t) == [i \in 1 .. Len(stack[t]) |-> stack[t][i].graph]

At(n, g) == {i \in 1 .. Len(n) : n[i] = g}

(* A nest is some invocations of one function, and then maybe a pause and  *)
(* some invocations of another one.                                        *)
NestOK(n) ==
  /\ n \in Seq(Elements)
  /\ n # << >> => n[1] # NoGraph
  /\ \A i \in 1 .. Len(n) - 1 : n[i] = n[i + 1] \/ n[i] = NoGraph \/ n[i + 1] = NoGraph
  /\ \A i, j \in 1 .. Len(n) : n[i] = NoGraph /\ n[j] = NoGraph => i = j
  /\ \A i, p, j \in 1 .. Len(n) : i < p /\ p < j /\ n[p] = NoGraph => n[i] # n[j]

TopOf(n) == IF n = << >> THEN NoGraph ELSE n[Len(n)]

(* What the thread-local variables of foreactor.cpp say about a nest: the  *)
(* innermost graph is active, the one below the pause is paused, and the   *)
(* invocations of each graph are counted.                                  *)
Describes(t, n) ==
  /\ active_scgraph[t] = TopOf(n)
  /\ \A i \in 1 .. Len(n) : n[i] = NoGraph => paused_scgraph[t] = n[i - 1]
  /\ At(n, NoGraph) = {} => paused_scgraph[t] = NoGraph
  /\ \A g \in Graphs : nest_cnts[t][g] = Cardinality(At(n, g))

TypeInv ==
  /\ use \in BOOLEAN
  /\ active_scgraph \in [Threads -> Elements]
  /\ paused_scgraph \in [Threads -> Elements]
  /\ nest_cnts \in [Threads -> [Graphs -> Int]]
  /\ stack \in [Threads -> Seq([graph : Elements, made : Int])]

SessionInv ==
  /\ TypeInv
  /\ ~failed
  /\ \A t \in Threads : NestOK(Nest(t)) /\ (use => Describes(t, Nest(t)))

-----------------------------------------------------------------------------
(* Lemmas about nests. *)

(* What is left of a stack when its top is removed. *)
LEMMA FrontProps ==
  ASSUME NEW S, NEW s \in Seq(S), s # << >>
  PROVE  /\ Len(s) \in Nat \ {0}
         /\ Front(s) \in Seq(S)
         /\ Len(Front(s)) = Len(s) - 1
         /\ \A i \in 1 .. Len(s) - 1 : Front(s)[i] = s[i]
<1> DEFINE k == Len(s) - 1
           f == SubSeq(s, 1, k)
<1>1. Len(s) \in Nat \ {0} /\ k \in Nat /\ Len(s) - 1 = k
  OBVIOUS
<1>2. \A i \in 1 .. k : s[i] \in S
  BY <1>1
<1>3. Front(s) = f
  BY Zenon DEF Front
<1> HIDE DEF k
<1>4. /\ f \in Seq(S)
      /\ Len(f) = IF 1 <= k THEN k - 1 + 1 ELSE 0
      /\ \A i \in 1 .. k - 1 + 1 : f[i] = s[1 + i - 1]
  BY <1>1, <1>2, SubSeqProperties
<1> HIDE DEF f
<1>5. Len(f) = k
  BY <1>1, <1>4
<1>6. \A i \in 1 .. k : f[i] = s[i]
  BY <1>1, <1>4
<1> QED
  BY <1>1, <1>3, <1>4, <1>5, <1>6, Zenon

(* The invocations of a graph are finitely many, and none if it is not in  *)
(* the nest.                                                               *)
LEMMA AtFinite ==
  ASSUME NEW n \in Seq(Elements), NEW g
  PROVE  /\ IsFiniteSet(At(n, g))
         /\ Cardinality(At(n, g)) \in Nat
         /\ Cardinality(At(n, g)) = 0 <=> At(n, g) = {}
<1>1. IsFiniteSet(1 .. Len(n)) /\ At(n, g) \in SUBSET (1 .. Len(n))
  BY FS_Interval DEF At
<1>2. IsFiniteSet(At(n, g))
  BY <1>1, FS_Subset, Zenon
<1> QED
  BY <1>2, FS_CardinalityType, FS_EmptySet, Zenon

(* An invocation that is entered is one more of its graph. *)
LEMMA AtAppend ==
  ASSUME NEW n \in Seq(Elements), NEW e \in Elements, NEW g
  PROVE  /\ At(Append(n, e), g) = IF e = g THEN At(n, g) \cup {Len(n) + 1} ELSE At(n, g)
         /\ Cardinality(At(Append(n, e), g)) = Cardinality(At(n, g)) + (IF e = g THEN 1 ELSE 0)
<1>1. At(Append(n, e), g) = IF e = g THEN At(n, g) \cup {Len(n) + 1} ELSE At(n, g)
  BY DEF At
<1>2. Len(n) + 1 \notin At(n, g)
  BY DEF At
<1>3. Cardinality(At(n, g) \cup {Len(n) + 1}) = Cardinality(At(n, g)) + 1
  BY <1>2, AtFinite, FS_AddElement, Zenon
<1> QED
  BY <1>1, <1>3, AtFinite

(* An invocation that is left is one less. *)
LEMMA AtFront ==
  ASSUME NEW n \in Seq(Elements), n # << >>, NEW g
  PROVE  /\ At(Front(n), g) = At(n, g) \ {Len(n)}
         /\ Cardinality(At(Front(n), g))
              = Cardinality(At(n, g)) - (IF n[Len(n)] = g THEN 1 ELSE 0)
<1>1. Len(n) \in Nat \ {0} /\ Len(Front(n)) = Len(n) - 1
      /\ \A i \in 1 .. Len(n) - 1 : Front(n)[i] = n[i]
  BY FrontProps, Zenon
<1>2. At(Front(n), g) = At(n, g) \ {Len(n)}
  BY <1>1 DEF At
<1>3. Len(n) \in At(n, g) <=> n[Len(n)] = g
  BY <1>1 DEF At
<1>4. Cardinality(At(n, g) \ {Len(n)})
        = IF Len(n) \in At(n, g) THEN Cardinality(At(n, g)) - 1 ELSE Cardinality(At(n, g))
  BY AtFinite, FS_RemoveElement, Zenon
<1> QED
  BY <1>2, <1>3, <1>4, AtFinite

(* Leaving and resuming keep the shape of the nest. *)
LEMMA FrontOK ==
  ASSUME NEW n, NestOK(n), n # << >>
  PROVE  NestOK(Front(n))
<1>1. n \in Seq(Elements) /\ Len(n) \in Nat \ {0}
  BY DEF NestOK
<1>2. Front(n) \in Seq(Elements) /\ Len(Front(n)) = Len(n) - 1
      /\ \A i \in 1 .. Len(n) - 1 : Front(n)[i] = n[i]
  BY <1>1, FrontProps, Zenon
<1> QED
  BY <1>1, <1>2, SMTT(30) DEF NestOK

(* Another invocation of the innermost function is below the last one: the *)
(* pause, if there is one, separates different functions.                  *)
LEMMA Below ==
  ASSUME NEW n, NestOK(n), n # << >>, n[Len(n)] # NoGraph
  PROVE  /\ Cardinality(At(n, n[Len(n)])) > 0
         /\ Cardinality(At(n, n[Len(n)])) = 1 => TopOf(Front(n)) = NoGraph
         /\ Cardinality(At(n, n[Len(n)])) # 1 => TopOf(Front(n)) = n[Len(n)]
<1> DEFINE g == n[Len(n)]
<1>0. n \in Seq(Elements) /\ Len(n) \in Nat \ {0}
  BY DEF NestOK
<1>1. Len(n) \in At(n, g)
  BY <1>0 DEF At
<1>2. Cardinality(At(n, g)) > 0
  BY <1>0, <1>1, AtFinite
<1>3. Len(Front(n)) = Len(n) - 1 /\ \A i \in 1 .. Len(n) - 1 : Front(n)[i] = n[i]
  BY <1>0, FrontProps, Zenon
<1>4. Front(n) \in Seq(Elements) /\ (Len(n) = 1 <=> Front(n) = << >>)
  BY <1>0, <1>3, FrontProps
<1>5. Cardinality(At(Front(n), g)) = Cardinality(At(n, g)) - 1
  BY <1>0, AtFront, Zenon
<1>6. ASSUME Cardinality(At(n, g)) = 1, TopOf(Front(n)) # NoGraph
      PROVE  FALSE
  <2>1. Len(n) > 1 /\ TopOf(Front(n)) = n[Len(n) - 1]
    BY <1>0, <1>3, <1>4, <1>6 DEF TopOf
  <2>2. n[Len(n) - 1] = g
    BY <1>0, <1>6, <2>1 DEF NestOK
  <2>3. Len(n) - 1 \in At(Front(n), g)
    BY <1>0, <1>3, <2>1, <2>2 DEF At
  <2> QED
    BY <1>0, <1>4, <1>5, <1>6, <2>3, AtFinite
<1>7. ASSUME Cardinality(At(n, g)) # 1
      PROVE  TopOf(Front(n)) = g
  <2>1. At(Front(n), g) # {}
    BY <1>0, <1>4, <1>5, <1>7, AtFinite
  <2>2. PICK i \in 1 .. Len(n) - 1 : n[i] = g
    BY <1>3, <2>1, Zenon DEF At
  <2>3. n[Len(n) - 1] # NoGraph
    BY <1>0, <2>2 DEF NestOK
  <2>4. n[Len(n) - 1] = g
    BY <1>0, <2>2, <2>3 DEF NestOK
  <2> QED
    BY <1>0, <1>3, <1>4, <2>2, <2>4 DEF TopOf
<1> QED
  BY <1>2, <1>6, <1>7, Zenon

-----------------------------------------------------------------------------
(* Session variables keep their meaning through every step. *)

(* No graph has been entered at first. *)
LEMMA InitSessionInv == Init => SessionInv
<1> SUFFICES ASSUME Init PROVE SessionInv
  BY Zenon
<1>1. TypeInv /\ ~failed
  BY DEF Init, TypeInv, Elements
<1>2. ASSUME NEW t \in Threads PROVE Nest(t) = << >>
  BY <1>2 DEF Init, Nest
<1>3. NestOK(<< >>)
  BY DEF NestOK
<1>4. \A g : At(<< >>, g) = {}
  BY DEF At
<1>5. ASSUME NEW t \in Threads PROVE Describes(t, << >>)
  <2>1. active_scgraph[t] = NoGraph /\ paused_scgraph[t] = NoGraph
    BY <1>5, Zenon DEF Init
  <2>2. \A g \in Graphs : nest_cnts[t][g] = Cardinality(At(<< >>, g))
    BY <1>4, <1>5, FS_EmptySet, Zenon DEF Init
  <2> QED
    BY <2>1, <2>2 DEF Describes, TopOf
<1> QED
  BY <1>1, <1>2, <1>3, <1>5, Zenon DEF SessionInv

(* The nest of a thread and the innermost frame of its stack. *)
LEMMA NestTop ==
  ASSUME TypeInv, NEW t \in Threads
  PROVE  /\ Len(Nest(t)) = Len(stack[t]) /\ Nest(t) \in Seq(Elements)
         /\ Nest(t) = << >> <=> stack[t] = << >>
         /\ Top(t).graph = TopOf(Nest(t))
         /\ \A g : InStack(t, g) <=> At(Nest(t), g) # {}
<1>1. stack[t] \in Seq([graph : Elements, made : Int])
  BY Zenon DEF TypeInv
<1>2. Nest(t) \in Seq(Elements) /\ Len(Nest(t)) = Len(stack[t])
  <2>1. ASSUME NEW i \in 1 .. Len(stack[t]) PROVE stack[t][i].graph \in Elements
    <3>1. stack[t][i] \in [graph : Elements, made : Int]
      BY <1>1, <2>1, ElementOfSeq, Zenon
    <3> QED
      BY <3>1, Zenon
  <2>2. Len(stack[t]) \in Nat
    BY <1>1
  <2> QED
    BY <2>1, <2>2 DEF Nest
<1>3. Nest(t) = << >> <=> stack[t] = << >>
  BY <1>1, <1>2
<1>4. Top(t).graph = TopOf(Nest(t))
  <2>1. CASE stack[t] = << >>
    BY <1>3, <2>1, Zenon DEF Top, TopOf, PauseFrame, Frame
  <2>2. CASE stack[t] # << >>
    <3>1. Len(stack[t]) \in 1 .. Len(stack[t])
      BY <1>1, <2>2
    <3>2. Top(t).graph = stack[t][Len(stack[t])].graph
      BY <2>2, Zenon DEF Top, Last
    <3>3. TopOf(Nest(t)) = Nest(t)[Len(stack[t])]
      BY <1>2, <1>3, <2>2, Zenon DEF TopOf
    <3> QED
      BY <3>1, <3>2, <3>3, Zenon DEF Nest
  <2> QED
    BY <2>1, <2>2, Zenon
<1>5. \A g : InStack(t, g) <=> At(Nest(t), g) # {}
  <2>1. DOMAIN stack[t] = 1 .. Len(stack[t])
    BY <1>1, LenProperties, Zenon
  <2> QED
    BY <1>2, <2>1, Zenon DEF InStack, At, Nest
<1> QED
  BY <1>2, <1>3, <1>4, <1>5, Zenon

(* A step that changes neither the session variables nor the nest of any   *)
(* thread keeps the invariant.                                             *)
LEMMA SameNest ==
  ASSUME SessionInv, TypeInv', failed' = failed,
         UNCHANGED <<use, active_scgraph, paused_scgraph, nest_cnts>>,
         \A t \in Threads : Nest(t)' = Nest(t)
  PROVE  SessionInv'
<1>1. ASSUME NEW t \in Threads PROVE NestOK(Nest(t)) /\ (use => Describes(t, Nest(t)))
  BY <1>1, Zenon DEF SessionInv
<1>2. ASSUME NEW t \in Threads PROVE NestOK(Nest(t)')
  BY <1>1, <1>2, Zenon
<1>3. ASSUME NEW t \in Threads, use' PROVE Describes(t, Nest(t))'
  BY <1>1, <1>3, Zenon DEF Describes
<1> QED
  BY <1>2, <1>3, Zenon DEF SessionInv

(* A step of one thread leaves the others as they are. *)
LEMMA OneThread ==
  ASSUME SessionInv, TypeInv', ~failed', use' = use,
         NEW t \in Threads,
         \A u \in Threads \ {t} :
           /\ Nest(u)' = Nest(u)
           /\ active_scgraph'[u] = active_scgraph[u]
           /\ paused_scgraph'[u] = paused_scgraph[u]
           /\ nest_cnts'[u] = nest_cnts[u],
         NestOK(Nest(t)'),
         use => Describes(t, Nest(t))'
  PROVE  SessionInv'
<1>1. ASSUME NEW u \in Threads, u # t
      PROVE  NestOK(Nest(u)') /\ (use' => Describes(u, Nest(u))')
  <2>1. NestOK(Nest(u)) /\ (use => Describes(u, Nest(u)))
    BY <1>1, Zenon DEF SessionInv
  <2>2. NestOK(Nest(u)')
    BY <1>1, <2>1, Zenon
  <2>3. use' => Describes(u, Nest(u))'
    BY <1>1, <2>1, Zenon DEF Describes
  <2> QED
    BY <2>2, <2>3, Zenon
<1> QED
  BY <1>1, Zenon DEF SessionInv

(* Entering a graph that MayCall allows, and a pause of the innermost one, *)
(* keep the shape of the nest.                                             *)
LEMMA AppendOK ==
  ASSUME NEW n, NestOK(n), NEW e \in Elements,
         IF e = NoGraph THEN TopOf(n) # NoGraph /\ At(n, NoGraph) = {}
         ELSE TopOf(n) = e \/ (TopOf(n) = NoGraph /\ At(n, e) = {})
  PROVE  NestOK(Append(n, e))
<1> DEFINE m == Append(n, e)
<1>1. n \in Seq(Elements) /\ Len(n) \in Nat /\ (n # << >> <=> Len(n) # 0)
  BY DEF NestOK
<1>2. m \in Seq(Elements) /\ Len(m) = Len(n) + 1 /\ m[Len(n) + 1] = e
      /\ \A i \in 1 .. Len(n) : m[i] = n[i]
  BY <1>1
<1> HIDE DEF m
<1>3. m # << >> => m[1] # NoGraph
  BY <1>1, <1>2 DEF NestOK, TopOf
<1>4. \A i \in 1 .. Len(m) - 1 : m[i] = m[i + 1] \/ m[i] = NoGraph \/ m[i + 1] = NoGraph
  BY <1>1, <1>2 DEF NestOK, TopOf
<1>5. \A i, j \in 1 .. Len(m) : m[i] = NoGraph /\ m[j] = NoGraph => i = j
  BY <1>1, <1>2, SMTT(30) DEF NestOK, TopOf, At
<1>6. ASSUME NEW i \in 1 .. Len(m), NEW p \in 1 .. Len(m), NEW j \in 1 .. Len(m),
             i < p, p < j, m[p] = NoGraph
      PROVE  m[i] # m[j]
  <2>1. i \in 1 .. Len(n) /\ p \in 1 .. Len(n) /\ n[p] = NoGraph /\ m[i] = n[i]
    BY <1>1, <1>2, <1>6
  <2>2. CASE j <= Len(n)
    BY <1>1, <1>2, <1>6, <2>1, <2>2, SMTT(30) DEF NestOK
  <2>3. CASE j = Len(n) + 1
    <3>1. e # NoGraph
      BY <2>1, Zenon DEF At
    <3>2. CASE TopOf(n) = e
      <4>1. n[Len(n)] = e /\ p # Len(n)
        BY <1>1, <2>1, <3>1, <3>2, Zenon DEF TopOf
      <4> QED
        BY <1>1, <1>2, <1>6, <2>1, <2>3, <4>1, SMTT(30) DEF NestOK
    <3>3. CASE At(n, e) = {}
      BY <1>2, <2>1, <2>3, <3>3, Zenon DEF At
    <3> QED
      BY <3>1, <3>2, <3>3, Zenon
  <2> QED
    BY <1>1, <1>2, <1>6, <2>2, <2>3
<1>7. NestOK(m)
  BY <1>2, <1>3, <1>4, <1>5, <1>6, Zenon DEF NestOK
<1> QED
  BY <1>7, Zenon DEF m

(* Pushing a frame appends to the nest of the thread. *)
LEMMA Push ==
  ASSUME TypeInv, NEW t \in Threads, NEW e \in Elements,
         stack' = [stack EXCEPT ![t] = Append(@, Frame(e))]
  PROVE  /\ stack' \in [Threads -> Seq([graph : Elements, made : Int])]
         /\ Nest(t)' = Append(Nest(t), e)
         /\ \A u \in Threads \ {t} : Nest(u)' = Nest(u)
<1>1. stack[t] \in Seq([graph : Elements, made : Int])
  BY Zenon DEF TypeInv
<1>2. Frame(e) \in [graph : Elements, made : Int] /\ Frame(e).graph = e
  BY DEF Frame
<1> DEFINE s == Append(stack[t], Frame(e))
<1>3. s \in Seq([graph : Elements, made : Int]) /\ Len(s) = Len(stack[t]) + 1
      /\ s[Len(stack[t]) + 1] = Frame(e) /\ \A i \in 1 .. Len(stack[t]) : s[i] = stack[t][i]
  BY <1>1, <1>2, AppendProperties
<1>4. stack' = [stack EXCEPT ![t] = s]
  BY Zenon
<1> HIDE DEF s
<1>5. stack' \in [Threads -> Seq([graph : Elements, made : Int])]
  BY <1>3, <1>4, Zenon DEF TypeInv
<1>6. stack'[t] = s /\ \A u \in Threads \ {t} : stack'[u] = stack[u]
  BY <1>4, Zenon DEF TypeInv
<1>7. Nest(t)' = [i \in 1 .. Len(stack[t]) + 1 |-> s[i].graph]
  BY <1>3, <1>6 DEF Nest
<1>8. Nest(t) \in Seq(Elements) /\ Len(Nest(t)) = Len(stack[t]) /\ Len(stack[t]) \in Nat
  BY <1>1, NestTop
<1>9. Append(Nest(t), e) = [i \in 1 .. Len(stack[t]) + 1 |-> s[i].graph]
  <2>1. Append(Nest(t), e)
          = [i \in 1 .. Len(stack[t]) + 1 |-> IF i = Len(stack[t]) + 1 THEN e ELSE Nest(t)[i]]
    <3> DEFINE a == Append(Nest(t), e)
    <3>1. a \in Seq(Elements) /\ Len(a) = Len(stack[t]) + 1
          /\ a[Len(stack[t]) + 1] = e /\ \A i \in 1 .. Len(stack[t]) : a[i] = Nest(t)[i]
      BY <1>8, AppendProperties
    <3> HIDE DEF a
    <3>2. a = [i \in 1 .. Len(stack[t]) + 1 |-> a[i]]
      BY <3>1, LenProperties, Zenon
    <3>3. \A i \in 1 .. Len(stack[t]) + 1 :
            a[i] = IF i = Len(stack[t]) + 1 THEN e ELSE Nest(t)[i]
      BY <1>8, <3>1
    <3> QED
      BY <3>2, <3>3, Zenon DEF a
  <2>2. ASSUME NEW i \in 1 .. Len(stack[t]) + 1
        PROVE  s[i].graph = IF i = Len(stack[t]) + 1 THEN e ELSE Nest(t)[i]
    BY <1>2, <1>3, <1>8, <2>2, SMTT(30) DEF Nest
  <2> QED
    BY <2>1, <2>2, Zenon
<1> QED
  BY <1>5, <1>6, <1>7, <1>9, Zenon DEF Nest

(* Popping a frame takes the last one off, even where what it has made is  *)
(* added to its caller.                                                    *)
LEMMA Pop ==
  ASSUME TypeInv, NEW t \in Threads, stack[t] # << >>,
         \/ stack' = [stack EXCEPT ![t] = Front(@)]
         \/ stack' = [stack EXCEPT ![t] = Popped(@)]
  PROVE  /\ stack' \in [Threads -> Seq([graph : Elements, made : Int])]
         /\ Nest(t)' = Front(Nest(t))
         /\ \A u \in Threads \ {t} : Nest(u)' = Nest(u)
<1> DEFINE R == [graph : Elements, made : Int]
           below == Front(stack[t])
<1>0. stack[t] \in Seq(R)
  BY Zenon DEF TypeInv
<1>1. stack[t] \in Seq(R) /\ Len(stack[t]) \in Nat \ {0}
  BY <1>0, EmptySeq, Zenon
<1>2. below \in Seq(R) /\ Len(below) = Len(stack[t]) - 1
      /\ \A i \in 1 .. Len(stack[t]) - 1 : below[i] = stack[t][i]
  BY <1>1, FrontProps, Zenon
<1>3. Popped(stack[t]) \in Seq(R) /\ Len(Popped(stack[t])) = Len(below)
      /\ \A i \in 1 .. Len(below) : Popped(stack[t])[i].graph = below[i].graph
  <2>1. CASE below # << >> /\ Last(below).graph = Last(stack[t]).graph
    <3> DEFINE l == Len(below)
               r == [below[l] EXCEPT !.made = @ + Last(stack[t]).made]
    <3>1. l \in 1 .. Len(below) /\ Len(stack[t]) \in 1 .. Len(stack[t])
      BY <1>1, <1>2, <2>1
    <3>2. below[l] \in R /\ stack[t][Len(stack[t])] \in R
      BY <1>1, <1>2, <3>1, ElementOfSeq, Zenon
    <3>3. r \in R /\ r.graph = below[l].graph
      BY <3>2 DEF Last
    <3>4. Popped(stack[t]) = [below EXCEPT ![l] = r]
      BY <2>1, Zenon DEF Popped
    <3> HIDE DEF r, R, below
    <3> QED
      BY <1>2, <3>1, <3>3, <3>4, ExceptSeq
  <2>2. CASE ~(below # << >> /\ Last(below).graph = Last(stack[t]).graph)
    BY <1>2, <2>2, Zenon DEF Popped
  <2> QED
    BY <2>1, <2>2, Zenon
<1>4. PICK s : /\ stack' = [stack EXCEPT ![t] = s]
               /\ s \in Seq(R) /\ Len(s) = Len(stack[t]) - 1
               /\ \A i \in 1 .. Len(stack[t]) - 1 : s[i].graph = stack[t][i].graph
  <2>1. \/ stack' = [stack EXCEPT ![t] = below]
        \/ stack' = [stack EXCEPT ![t] = Popped(stack[t])]
    BY Zenon
  <2> HIDE DEF R, below
  <2> QED
    BY <1>2, <1>3, <2>1, SMTT(30)
<1>5. stack' \in [Threads -> Seq(R)]
  BY <1>4, Zenon DEF TypeInv
<1>6. stack'[t] = s /\ \A u \in Threads \ {t} : stack'[u] = stack[u]
  BY <1>4, Zenon DEF TypeInv
<1>7. Nest(t)' = [i \in 1 .. Len(stack[t]) - 1 |-> stack[t][i].graph]
  BY <1>4, <1>6, Zenon DEF Nest
<1>8. Nest(t) \in Seq(Elements) /\ Len(Nest(t)) = Len(stack[t]) /\ Nest(t) # << >>
  BY NestTop, Zenon
<1>9. Front(Nest(t)) = [i \in 1 .. Len(stack[t]) - 1 |-> stack[t][i].graph]
  <2>1. Front(Nest(t)) \in Seq(Elements) /\ Len(Front(Nest(t))) = Len(stack[t]) - 1
        /\ \A i \in 1 .. Len(stack[t]) - 1 : Front(Nest(t))[i] = Nest(t)[i]
    BY <1>8, FrontProps, Zenon
  <2>2. Front(Nest(t)) = [i \in 1 .. Len(stack[t]) - 1 |-> Front(Nest(t))[i]]
    BY <2>1, LenProperties, Zenon
  <2>3. \A i \in 1 .. Len(stack[t]) - 1 : Front(Nest(t))[i] = stack[t][i].graph
    BY <1>1, <2>1 DEF Nest
  <2> QED
    BY <2>2, <2>3, Zenon
<1> QED
  BY <1>5, <1>6, <1>7, <1>9, Zenon DEF Nest

(* EnterSCGraph: the graph is the active one, or no graph is active and    *)
(* this one is not being used further down.                                *)
LEMMA EnterKeeps ==
  ASSUME SessionInv, NEW t \in Threads, NEW g \in Graphs, Enter(t, g)
  PROVE  SessionInv'
<1> DEFINE n == Nest(t)
<1>1. TypeInv /\ NestOK(n) /\ (use => Describes(t, n)) /\ ~failed
  BY Zenon DEF SessionInv
<1>2. g \in Elements /\ g # NoGraph
  BY GraphsAssumption, Zenon DEF Elements
<1>3. /\ stack' \in [Threads -> Seq([graph : Elements, made : Int])]
      /\ Nest(t)' = Append(n, g)
      /\ \A u \in Threads \ {t} : Nest(u)' = Nest(u)
  BY <1>1, <1>2, Push, Zenon DEF Enter
<1>4. TopOf(n) = g \/ (TopOf(n) = NoGraph /\ At(n, g) = {})
  BY <1>1, NestTop, Zenon DEF Enter, MayCall
<1>5. NestOK(Nest(t)')
  BY <1>1, <1>2, <1>3, <1>4, AppendOK, Zenon
<1>6. n \in Seq(Elements)
  BY <1>1, Zenon DEF NestOK
<1>7. UNCHANGED use
  BY Zenon DEF Enter
<1>8. CASE ~use
  <2>1. UNCHANGED <<active_scgraph, paused_scgraph, nest_cnts, failed>>
    BY <1>8, Zenon DEF Enter, EnterSCGraph
  <2>2. TypeInv'
    BY <1>1, <1>3, <1>7, <2>1, Zenon DEF TypeInv
  <2> QED
    BY <1>1, <1>3, <1>5, <1>7, <1>8, <2>1, <2>2, OneThread, Zenon
<1>9. CASE use
  <2>1. Describes(t, n)
    BY <1>1, <1>9, Zenon
  <2>2. /\ active_scgraph' = [active_scgraph EXCEPT ![t] = IF @ = NoGraph THEN g ELSE @]
        /\ nest_cnts' = [nest_cnts EXCEPT ![t][g] = nest_cnts[t][g] + 1]
        /\ failed' = ~EnterAsserts(t, g)
        /\ paused_scgraph' = paused_scgraph
    BY <1>9, Zenon DEF Enter, EnterSCGraph, NestAfterEnter
  <2>3. TypeInv'
    <3>1. nest_cnts' \in [Threads -> [Graphs -> Int]]
      BY <1>1, <2>2 DEF TypeInv
    <3>2. active_scgraph' \in [Threads -> Elements]
      BY <1>1, <1>2, <2>2, Zenon DEF TypeInv
    <3> QED
      BY <1>1, <1>3, <1>7, <2>2, <3>1, <3>2, Zenon DEF TypeInv
  <2>4. ~failed'
    <3>1. ASSUME active_scgraph[t] = NoGraph PROVE nest_cnts[t][g] = 0
      <4>1. At(n, g) = {}
        BY <1>2, <1>4, <2>1, <3>1, Zenon DEF Describes
      <4> QED
        BY <2>1, <4>1, FS_EmptySet, Zenon DEF Describes
    <3> QED
      BY <2>2, <3>1, Zenon DEF EnterAsserts
  <2>5. Len(Append(n, g)) = Len(n) + 1 /\ Append(n, g)[Len(n) + 1] = g
        /\ Len(n) \in Nat /\ (\A i \in 1 .. Len(n) : Append(n, g)[i] = n[i])
        /\ Append(n, g) # << >>
    BY <1>2, <1>6
  <2>6. active_scgraph'[t] = TopOf(Append(n, g))
    <3>1. active_scgraph'[t] = g
      BY <1>1, <1>4, <2>1, <2>2, Zenon DEF Describes, TypeInv
    <3> QED
      BY <2>5, <3>1, Zenon DEF TopOf
  <2>7. \A i \in 1 .. Len(Append(n, g)) :
          Append(n, g)[i] = NoGraph => paused_scgraph'[t] = Append(n, g)[i - 1]
    <3> SUFFICES ASSUME NEW i \in 1 .. Len(n) + 1, Append(n, g)[i] = NoGraph
                 PROVE  paused_scgraph'[t] = Append(n, g)[i - 1]
      BY <2>5, Zenon
    <3>1. i \in 1 .. Len(n) /\ n[i] = NoGraph
      BY <1>2, <2>5
    <3>2. paused_scgraph[t] = n[i - 1]
      BY <2>1, <3>1, Zenon DEF Describes
    <3>3. i # 1
      BY <1>1, <1>6, <3>1, SMTT(30) DEF NestOK
    <3> QED
      BY <2>2, <2>5, <3>1, <3>2, <3>3
  <2>8. At(Append(n, g), NoGraph) = {} => paused_scgraph'[t] = NoGraph
    BY <1>2, <1>6, <2>1, <2>2, AtAppend, SMTT(30) DEF Describes
  <2>9. ASSUME NEW h \in Graphs
        PROVE  nest_cnts'[t][h] = Cardinality(At(Append(n, g), h))
    <3>1. Cardinality(At(Append(n, g), h))
            = Cardinality(At(n, h)) + (IF g = h THEN 1 ELSE 0)
      BY <1>2, <1>6, AtAppend, Zenon
    <3>2. nest_cnts[t][h] = Cardinality(At(n, h)) /\ nest_cnts[t][h] \in Int
      BY <1>1, <2>1, <2>9, Zenon DEF Describes, TypeInv
    <3>3. nest_cnts'[t][h] = IF g = h THEN nest_cnts[t][h] + 1 ELSE nest_cnts[t][h]
      BY <1>1, <2>2, <2>9, Zenon DEF TypeInv
    <3> QED
      BY <3>1, <3>2, <3>3
  <2>10. Describes(t, Nest(t))'
    BY <1>3, <2>6, <2>7, <2>8, <2>9, Zenon DEF Describes
  <2>11. \A u \in Threads \ {t} :
           /\ active_scgraph'[u] = active_scgraph[u]
           /\ paused_scgraph'[u] = paused_scgraph[u]
           /\ nest_cnts'[u] = nest_cnts[u]
    BY <1>1, <2>2, Zenon DEF TypeInv
  <2> QED
    BY <1>3, <1>5, <1>7, <2>3, <2>4, <2>10, <2>11, OneThread, Zenon
<1> QED
  BY <1>1, <1>8, <1>9, Zenon DEF TypeInv

(* LeaveSCGraph: what is left is another invocation of the same function,  *)
(* and the graph stays active, or a pause or nothing.                      *)
LEMMA LeaveKeeps ==
  ASSUME SessionInv, NEW t \in Threads, Leave(t)
  PROVE  SessionInv'
<1> DEFINE n == Nest(t)
           g == TopOf(n)
<1>1. TypeInv /\ NestOK(n) /\ (use => Describes(t, n)) /\ ~failed
  BY Zenon DEF SessionInv
<1>2. Top(t).graph = g /\ g # NoGraph
  BY <1>1, NestTop, Zenon DEF Leave
<1>3. n \in Seq(Elements) /\ n # << >> /\ g = n[Len(n)] /\ stack[t] # << >>
  BY <1>1, <1>2, NestTop, Zenon DEF TopOf
<1>4. g \in Graphs /\ Len(n) \in Nat \ {0}
  BY <1>2, <1>3 DEF Elements
<1>5. /\ stack' \in [Threads -> Seq([graph : Elements, made : Int])]
      /\ Nest(t)' = Front(n)
      /\ \A u \in Threads \ {t} : Nest(u)' = Nest(u)
  BY <1>1, <1>3, Pop, Zenon DEF Leave
<1>6. NestOK(Nest(t)')
  BY <1>1, <1>3, <1>5, FrontOK, Zenon
<1>7. UNCHANGED use
  BY Zenon DEF Leave
<1>8. CASE ~use
  <2>1. UNCHANGED <<active_scgraph, paused_scgraph, nest_cnts, failed>>
    BY <1>8, Zenon DEF Leave, LeaveSCGraph
  <2>2. TypeInv'
    BY <1>1, <1>5, <1>7, <2>1, Zenon DEF TypeInv
  <2> QED
    BY <1>1, <1>5, <1>6, <1>7, <1>8, <2>1, <2>2, OneThread, Zenon
<1>9. CASE use
  <2>1. Describes(t, n)
    BY <1>1, <1>9, Zenon
  <2>2. nest_cnts[t][g] = Cardinality(At(n, g)) /\ nest_cnts[t][g] \in Int
    BY <1>1, <1>4, <2>1, Zenon DEF Describes, TypeInv
  <2>3. /\ nest_cnts[t][g] > 0
        /\ nest_cnts[t][g] = 1 => TopOf(Front(n)) = NoGraph
        /\ nest_cnts[t][g] # 1 => TopOf(Front(n)) = g
    BY <1>1, <1>2, <1>3, <2>2, Below, Zenon
  <2>4. /\ failed' = ~LeaveAsserts(t, g)
        /\ nest_cnts' = [nest_cnts EXCEPT ![t][g] = @ - 1]
        /\ active_scgraph' = IF nest_cnts[t][g] = 1
                             THEN [active_scgraph EXCEPT ![t] = NoGraph] ELSE active_scgraph
        /\ paused_scgraph' = paused_scgraph
    BY <1>2, <1>9, Zenon DEF Leave, LeaveSCGraph, Outermost
  <2>5. TypeInv'
    <3>1. nest_cnts' \in [Threads -> [Graphs -> Int]]
      <4>1. nest_cnts \in [Threads -> [Graphs -> Int]] /\ g \in Graphs
        BY <1>1, <1>4, Zenon DEF TypeInv
      <4> HIDE DEF g
      <4> QED
        BY <2>4, <4>1
    <3>2. active_scgraph' \in [Threads -> Elements]
      BY <1>1, <2>4, Zenon DEF TypeInv, Elements
    <3> QED
      BY <1>1, <1>5, <1>7, <2>4, <3>1, <3>2, Zenon DEF TypeInv
  <2>6. active_scgraph[t] = g
    BY <2>1, Zenon DEF Describes
  <2>7. ~failed'
    BY <1>2, <2>3, <2>4, <2>6, Zenon DEF LeaveAsserts
  <2>8. active_scgraph'[t] = TopOf(Front(n))
    BY <1>1, <2>3, <2>4, <2>6, Zenon DEF TypeInv
  <2>9. Len(Front(n)) = Len(n) - 1 /\ \A i \in 1 .. Len(n) - 1 : Front(n)[i] = n[i]
    BY <1>3, FrontProps, Zenon
  <2>10. \A i \in 1 .. Len(Front(n)) :
           Front(n)[i] = NoGraph => paused_scgraph'[t] = Front(n)[i - 1]
    <3> SUFFICES ASSUME NEW i \in 1 .. Len(n) - 1, Front(n)[i] = NoGraph
                 PROVE  paused_scgraph'[t] = Front(n)[i - 1]
      BY <2>9, Zenon
    <3>1. i \in 1 .. Len(n) /\ n[i] = NoGraph
      BY <1>4, <2>9
    <3>2. paused_scgraph[t] = n[i - 1]
      BY <2>1, <3>1, Zenon DEF Describes
    <3>3. i # 1
      BY <1>1, <1>3, <3>1, Zenon DEF NestOK
    <3> QED
      BY <1>4, <2>4, <2>9, <3>1, <3>2, <3>3, SMTT(30)
  <2>11. At(Front(n), NoGraph) = {} => paused_scgraph'[t] = NoGraph
    <3>1. Len(n) \notin At(n, NoGraph)
      BY <1>2, <1>3, Zenon DEF At
    <3>2. At(Front(n), NoGraph) = At(n, NoGraph) \ {Len(n)}
      BY <1>3, AtFront, Zenon
    <3> QED
      BY <2>1, <2>4, <3>1, <3>2, Zenon DEF Describes
  <2>12. ASSUME NEW h \in Graphs
         PROVE  nest_cnts'[t][h] = Cardinality(At(Front(n), h))
    <3>1. Cardinality(At(Front(n), h)) = Cardinality(At(n, h)) - (IF g = h THEN 1 ELSE 0)
      BY <1>3, AtFront, Zenon
    <3>2. nest_cnts[t][h] = Cardinality(At(n, h)) /\ nest_cnts[t][h] \in Int
      BY <1>1, <2>1, <2>12, Zenon DEF Describes, TypeInv
    <3>3. nest_cnts'[t][h] = IF g = h THEN nest_cnts[t][h] - 1 ELSE nest_cnts[t][h]
      BY <1>1, <1>4, <2>4, <2>12, Zenon DEF TypeInv
    <3> QED
      BY <3>1, <3>2, <3>3
  <2>13. Describes(t, Nest(t))'
    BY <1>5, <2>8, <2>10, <2>11, <2>12, Zenon DEF Describes
  <2>14. \A u \in Threads \ {t} :
           /\ active_scgraph'[u] = active_scgraph[u]
           /\ paused_scgraph'[u] = paused_scgraph[u]
           /\ nest_cnts'[u] = nest_cnts[u]
    BY <1>1, <2>4, Zenon DEF TypeInv
  <2> QED
    BY <1>5, <1>6, <1>7, <2>5, <2>7, <2>13, <2>14, OneThread, Zenon
<1> QED
  BY <1>1, <1>8, <1>9, Zenon DEF TypeInv

(* PauseCurrentSCGraph: a graph is active and none is paused. *)
LEMMA PauseKeeps ==
  ASSUME SessionInv, NEW t \in Threads, PauseCurrentSCGraph(t)
  PROVE  SessionInv'
<1> DEFINE n == Nest(t)
           m == Append(n, NoGraph)
<1>1. TypeInv /\ NestOK(n) /\ (use => Describes(t, n)) /\ ~failed
  BY Zenon DEF SessionInv
<1>2. TopOf(n) # NoGraph /\ At(n, NoGraph) = {}
  BY <1>1, NestTop, Zenon DEF PauseCurrentSCGraph, InStack
<1>3. NoGraph \in Elements
  BY Zenon DEF Elements
<1>4. /\ stack' \in [Threads -> Seq([graph : Elements, made : Int])]
      /\ Nest(t)' = m
      /\ \A u \in Threads \ {t} : Nest(u)' = Nest(u)
  BY <1>1, <1>3, Push, Zenon DEF PauseCurrentSCGraph, PauseFrame
<1>5. NestOK(Nest(t)')
  BY <1>1, <1>2, <1>3, <1>4, AppendOK, Zenon
<1>6. n \in Seq(Elements) /\ n # << >> /\ TopOf(n) = n[Len(n)]
  BY <1>1, <1>2, Zenon DEF NestOK, TopOf
<1>7. UNCHANGED <<use, nest_cnts>>
  BY Zenon DEF PauseCurrentSCGraph
<1>8. CASE ~use
  <2>1. UNCHANGED <<active_scgraph, paused_scgraph, failed>>
    BY <1>8, Zenon DEF PauseCurrentSCGraph
  <2>2. TypeInv'
    BY <1>1, <1>4, <1>7, <2>1, Zenon DEF TypeInv
  <2> QED
    BY <1>1, <1>4, <1>5, <1>7, <1>8, <2>1, <2>2, OneThread, Zenon
<1>9. CASE use
  <2>1. /\ active_scgraph[t] = TopOf(n)
        /\ paused_scgraph[t] = NoGraph
        /\ \A g \in Graphs : nest_cnts[t][g] = Cardinality(At(n, g))
    BY <1>1, <1>2, <1>9, Zenon DEF Describes
  <2>2. /\ failed' = ~(active_scgraph[t] # NoGraph /\ paused_scgraph[t] = NoGraph)
        /\ paused_scgraph' = [paused_scgraph EXCEPT ![t] = active_scgraph[t]]
        /\ active_scgraph' = [active_scgraph EXCEPT ![t] = NoGraph]
    BY <1>9, Zenon DEF PauseCurrentSCGraph, Pausing
  <2>3. TypeInv'
    BY <1>1, <1>3, <1>4, <1>7, <2>2, Zenon DEF TypeInv
  <2>4. ~failed'
    BY <1>2, <2>1, <2>2, Zenon
  <2>5. Len(m) = Len(n) + 1 /\ m[Len(n) + 1] = NoGraph /\ m # << >>
        /\ Len(n) \in Nat \ {0} /\ \A i \in 1 .. Len(n) : m[i] = n[i]
    BY <1>3, <1>6
  <2> HIDE DEF m
  <2>6. active_scgraph'[t] = TopOf(m) /\ paused_scgraph'[t] = n[Len(n)]
    BY <1>1, <1>6, <2>1, <2>2, <2>5, Zenon DEF TypeInv, TopOf
  <2>7. \A i \in 1 .. Len(m) : m[i] = NoGraph => paused_scgraph'[t] = m[i - 1]
    <3> SUFFICES ASSUME NEW i \in 1 .. Len(n) + 1, m[i] = NoGraph
                 PROVE  paused_scgraph'[t] = m[i - 1]
      BY <2>5, Zenon
    <3>1. i = Len(n) + 1
      BY <1>2, <2>5 DEF At
    <3> QED
      BY <2>5, <2>6, <3>1
  <2>8. At(m, NoGraph) # {}
    BY <2>5 DEF At
  <2>9. ASSUME NEW h \in Graphs
        PROVE  nest_cnts'[t][h] = Cardinality(At(m, h))
    <3>1. h # NoGraph
      BY <2>9, GraphsAssumption, Zenon
    <3>2. At(m, h) = At(n, h)
      BY <1>3, <1>6, <3>1, AtAppend, Zenon DEF m
    <3> QED
      BY <1>7, <2>1, <2>9, <3>2, Zenon
  <2>10. Describes(t, Nest(t))'
    BY <1>4, <2>6, <2>7, <2>8, <2>9, Zenon DEF Describes
  <2>11. \A u \in Threads \ {t} :
           /\ active_scgraph'[u] = active_scgraph[u]
           /\ paused_scgraph'[u] = paused_scgraph[u]
           /\ nest_cnts'[u] = nest_cnts[u]
    BY <1>1, <1>7, <2>2, Zenon DEF TypeInv
  <2> QED
    BY <1>4, <1>5, <1>7, <2>3, <2>4, <2>10, <2>11, OneThread, Zenon
<1> QED
  BY <1>1, <1>8, <1>9, Zenon DEF TypeInv

(* ResumeCurrentSCGraph: no graph is active and one is paused, the one of  *)
(* the function that paused it.                                            *)
LEMMA ResumeKeeps ==
  ASSUME SessionInv, NEW t \in Threads, ResumeCurrentSCGraph(t)
  PROVE  SessionInv'
<1> DEFINE n == Nest(t)
           m == Front(n)
<1>1. TypeInv /\ NestOK(n) /\ (use => Describes(t, n)) /\ ~failed
  BY Zenon DEF SessionInv
<1>2. stack[t] # << >> /\ n # << >> /\ TopOf(n) = NoGraph /\ n[Len(n)] = NoGraph
  BY <1>1, NestTop, Zenon DEF ResumeCurrentSCGraph, TopOf
<1>3. n \in Seq(Elements) /\ Len(n) \in Nat \ {0} /\ n[1] # NoGraph
  BY <1>1, <1>2 DEF NestOK
<1>4. Len(n) - 1 \in 1 .. Len(n) /\ n[Len(n) - 1] # NoGraph
  BY <1>1, <1>2, <1>3 DEF NestOK
<1>5. /\ stack' \in [Threads -> Seq([graph : Elements, made : Int])]
      /\ Nest(t)' = m
      /\ \A u \in Threads \ {t} : Nest(u)' = Nest(u)
  BY <1>1, <1>2, Pop, Zenon DEF ResumeCurrentSCGraph
<1>6. NestOK(Nest(t)')
  BY <1>1, <1>2, <1>5, FrontOK, Zenon
<1>7. UNCHANGED <<use, nest_cnts>>
  BY Zenon DEF ResumeCurrentSCGraph
<1>8. CASE ~use
  <2>1. UNCHANGED <<active_scgraph, paused_scgraph, failed>>
    BY <1>8, Zenon DEF ResumeCurrentSCGraph
  <2>2. TypeInv'
    BY <1>1, <1>5, <1>7, <2>1, Zenon DEF TypeInv
  <2> QED
    BY <1>1, <1>5, <1>6, <1>7, <1>8, <2>1, <2>2, OneThread, Zenon
<1>9. CASE use
  <2>1. /\ active_scgraph[t] = NoGraph
        /\ paused_scgraph[t] = n[Len(n) - 1]
        /\ \A g \in Graphs : nest_cnts[t][g] = Cardinality(At(n, g))
    BY <1>1, <1>2, <1>3, <1>9, SMTT(30) DEF Describes
  <2>2. /\ failed' = ~(active_scgraph[t] = NoGraph /\ paused_scgraph[t] # NoGraph)
        /\ active_scgraph' = [active_scgraph EXCEPT ![t] = paused_scgraph[t]]
        /\ paused_scgraph' = [paused_scgraph EXCEPT ![t] = NoGraph]
    BY <1>9, Zenon DEF ResumeCurrentSCGraph
  <2>3. TypeInv'
    BY <1>1, <1>5, <1>7, <2>2, Zenon DEF TypeInv, Elements
  <2>4. ~failed'
    BY <1>4, <2>1, <2>2, Zenon
  <2>5. Len(m) = Len(n) - 1 /\ m # << >> /\ \A i \in 1 .. Len(n) - 1 : m[i] = n[i]
    BY <1>3, <1>4, <1>2, FrontProps
  <2> HIDE DEF m
  <2>6. active_scgraph'[t] = TopOf(m) /\ paused_scgraph'[t] = NoGraph
    <3>1. active_scgraph'[t] = n[Len(n) - 1] /\ paused_scgraph'[t] = NoGraph
      BY <1>1, <2>1, <2>2, Zenon DEF TypeInv
    <3>2. TopOf(m) = m[Len(n) - 1] /\ m[Len(n) - 1] = n[Len(n) - 1]
      BY <1>3, <1>4, <2>5 DEF TopOf
    <3> QED
      BY <3>1, <3>2, Zenon
  <2>7. \A i \in 1 .. Len(m) : m[i] # NoGraph
    BY <1>1, <1>2, <1>3, <2>5 DEF NestOK
  <2>8. ASSUME NEW h \in Graphs
        PROVE  nest_cnts'[t][h] = Cardinality(At(m, h))
    <3>1. h # NoGraph
      BY <2>8, GraphsAssumption, Zenon
    <3>2. Len(n) \notin At(n, h) /\ At(m, h) = At(n, h) \ {Len(n)}
      BY <1>2, <1>3, <3>1, AtFront, Zenon DEF m, At
    <3>3. At(m, h) = At(n, h)
      BY <3>2, Zenon
    <3> QED
      BY <1>7, <2>1, <2>8, <3>3, Zenon
  <2>9. Describes(t, Nest(t))'
    BY <1>5, <2>6, <2>7, <2>8, Zenon DEF Describes
  <2>10. \A u \in Threads \ {t} :
           /\ active_scgraph'[u] = active_scgraph[u]
           /\ paused_scgraph'[u] = paused_scgraph[u]
           /\ nest_cnts'[u] = nest_cnts[u]
    BY <1>1, <1>7, <2>2, Zenon DEF TypeInv
  <2> QED
    BY <1>5, <1>6, <1>7, <2>3, <2>4, <2>9, <2>10, OneThread, Zenon
<1> QED
  BY <1>1, <1>8, <1>9, Zenon DEF TypeInv

(* A call counts for the innermost function and changes nothing else of    *)
(* the nest.                                                               *)
LEMMA ServedKeeps ==
  ASSUME SessionInv, NEW t \in Threads, NEW type, Served(t, type),
         UNCHANGED <<use, failed>>
  PROVE  SessionInv'
<1> DEFINE R == [graph : Elements, made : Int]
           l == Len(stack[t])
           r == [stack[t][l] EXCEPT !.made = @ + 1]
           s == [stack[t] EXCEPT ![l] = r]
<1>1. TypeInv /\ stack \in [Threads -> Seq(R)] /\ stack[t] \in Seq(R)
  BY Zenon DEF SessionInv, TypeInv
<1>2. UNCHANGED <<active_scgraph, paused_scgraph, nest_cnts>>
  BY Zenon DEF Served
<1>3. CASE stack' = stack
  BY <1>1, <1>2, <1>3, SameNest, Zenon DEF TypeInv, Nest
<1>4. CASE stack' # stack
  <2>1. Top(t).graph # NoGraph /\ stack' = [stack EXCEPT ![t][l].made = @ + 1]
    BY <1>4, Zenon DEF Served, Intercepts
  <2>2. stack[t] # << >>
    BY <2>1, Zenon DEF Top, PauseFrame, Frame
  <2>3. l \in 1 .. l /\ l \in Nat
    BY <1>1, <2>2, EmptySeq
  <2>4. stack[t][l] \in R
    BY <1>1, <2>3, ElementOfSeq, Zenon
  <2>5. r \in R /\ r.graph = stack[t][l].graph
    BY <2>4
  <2>6. stack' = [stack EXCEPT ![t] = s]
    BY <1>1, <2>1, Zenon
  <2> HIDE DEF r, R
  <2>7. s \in Seq(R) /\ Len(s) = l /\ \A i \in 1 .. l : s[i] = IF i = l THEN r ELSE stack[t][i]
    BY <1>1, <2>3, <2>5, ExceptSeq, SMTT(30)
  <2> HIDE DEF s
  <2>8. stack' \in [Threads -> Seq(R)] /\ stack'[t] = s
        /\ \A u \in Threads \ {t} : stack'[u] = stack[u]
    BY <1>1, <2>6, <2>7, Zenon
  <2>9. TypeInv'
    BY <1>1, <1>2, <2>8, Zenon DEF TypeInv, R
  <2>10. \A i \in 1 .. l : s[i].graph = stack[t][i].graph
    BY <2>5, <2>7, Zenon
  <2>11. Nest(t)' = Nest(t)
    BY <2>7, <2>8, <2>10, Zenon DEF Nest
  <2>12. \A u \in Threads : Nest(u)' = Nest(u)
    BY <2>8, <2>11, Zenon DEF Nest
  <2> QED
    BY <1>2, <2>9, <2>12, SameNest, Zenon
<1> QED
  BY <1>3, <1>4, Zenon

(* Every step of the interface keeps the session variables right. *)
LEMMA NextSessionInv == SessionInv /\ [Next]_vars => SessionInv'
<1> SUFFICES ASSUME SessionInv, [Next]_vars PROVE SessionInv'
  BY Zenon
<1>1. ASSUME UNCHANGED <<use, sessionVars, failed>> PROVE SessionInv'
  BY <1>1, SameNest, Zenon DEF SessionInv, TypeInv, sessionVars, Nest
<1>2. CASE UNCHANGED vars
  BY <1>1, <1>2, Zenon DEF vars
<1>3. CASE Next
  <2>1. PICK t \in Threads :
          \/ \E g \in Graphs : Enter(t, g) \/ Panic(t, g)
          \/ Leave(t)
          \/ PauseCurrentSCGraph(t) \/ ResumeCurrentSCGraph(t)
          \/ Lseek(t)
          \/ \E call \in {"pread", "pwrite"} : AskOffset(t, call)
          \/ Pread(t) \/ Pwrite(t) \/ CallFails(t)
          \/ Advance(t)
    BY <1>3, Zenon DEF Next
  <2>2. CASE \E g \in Graphs : Enter(t, g)
    BY <2>2, EnterKeeps, Zenon
  <2>3. CASE \E g \in Graphs : Panic(t, g)
    BY <1>1, <2>3, Zenon DEF Panic
  <2>4. CASE Leave(t)
    BY <2>4, LeaveKeeps, Zenon
  <2>5. CASE PauseCurrentSCGraph(t)
    BY <2>5, PauseKeeps, Zenon
  <2>6. CASE ResumeCurrentSCGraph(t)
    BY <2>6, ResumeKeeps, Zenon
  <2>7. CASE Lseek(t)
    BY <2>7, ServedKeeps, Zenon DEF Lseek, NewCall
  <2>8. CASE \E call \in {"pread", "pwrite"} : AskOffset(t, call)
    BY <1>1, <2>8, Zenon DEF AskOffset, NewCall
  <2>9. CASE Pread(t) \/ Pwrite(t) \/ CallFails(t)
    <3>1. Served(t, pc[t]) /\ UNCHANGED <<use, failed>>
      BY <2>9, Zenon DEF Pread, Pwrite, CallFails, Returned
    <3> QED
      BY <3>1, ServedKeeps, Zenon
  <2>10. CASE Advance(t)
    BY <1>1, <2>10, Zenon DEF Advance
  <2> QED
    BY <2>1, <2>2, <2>3, <2>4, <2>5, <2>6, <2>7, <2>8, <2>9, <2>10, Zenon
<1> QED
  BY <1>2, <1>3, Zenon

(* No assertion of EnterSCGraph, LeaveSCGraph, PauseCurrentSCGraph and     *)
(* ResumeCurrentSCGraph ever fails, for any number of threads and graphs   *)
(* and any depth of recursion.                                             *)
THEOREM SessionsSafe == Spec => []AssertsHold
<1>1. SessionInv => AssertsHold
  BY Zenon DEF SessionInv, AssertsHold
<1> QED
  BY <1>1, InitSessionInv, NextSessionInv, PTL DEF Spec

-----------------------------------------------------------------------------
(* Sums over finite sets.  The induction theorems of the library take an   *)
(* operator; this one takes the set of the subsets that have the property. *)

(* Induction over the subsets of a finite set, for a set of them. *)
LEMMA SetInduction ==
  ASSUME NEW S, IsFiniteSet(S), NEW B,
         \A s \in SUBSET S : (\A r \in SUBSET s : r # s => r \in B) => s \in B
  PROVE  SUBSET S \subseteq B
<1> DEFINE T == (SUBSET S) \ B
           R == StrictSubsetOrdering(S)
<1> SUFFICES ASSUME T # {} PROVE FALSE
  BY Zenon
<1>1. IsWellFoundedOn(R, SUBSET S)
  <2>1. FiniteSubsetsOf(S) = SUBSET S
    BY FS_FiniteSubsetsOfFinite, Zenon
  <2>2. IsWellFoundedOn(R, FiniteSubsetsOf(S))
    BY FS_StrictSubsetOrderingWellFounded, Zenon
  <2> QED
    BY <2>1, <2>2, Zenon
<1>2. PICK s \in T : \A r \in T : ~(<<r, s>> \in R)
  <2>1. T \subseteq SUBSET S
    BY Zenon
  <2> HIDE DEF R, T
  <2> QED
    BY <1>1, <2>1, WFMin
<1>3. ASSUME NEW r \in SUBSET s, r # s PROVE r \in B
  <2>1. <<r, s>> \in R
    BY <1>2, <1>3, Zenon DEF StrictSubsetOrdering
  <2> QED
    BY <1>2, <2>1, Zenon
<1> QED
  BY <1>2, <1>3, Zenon

(* The element that SumFunctionOnSet takes first. *)
Some(s) == CHOOSE x \in s : TRUE

(* iter is the recursive function that defines the sums of f over S. *)
Sums(f, S, iter) ==
  iter = [s \in SUBSET S |-> IF s = {} THEN 0 ELSE f[Some(s)] + iter[s \ {Some(s)}]]

(* A nonempty set loses an element. *)
LEMMA SomeIn == \A s : s # {} => Some(s) \in s
BY Zenon DEF Some

(* Two functions with that equation are the same. *)
LEMMA SumsUnique ==
  ASSUME NEW f, NEW S, IsFiniteSet(S), NEW g, NEW h, Sums(f, S, g), Sums(f, S, h)
  PROVE  g = h
<1> DEFINE B == {s \in SUBSET S : g[s] = h[s]}
<1>1. ASSUME NEW s \in SUBSET S, \A r \in SUBSET s : r # s => r \in B PROVE s \in B
  <2>0. /\ g[s] = IF s = {} THEN 0 ELSE f[Some(s)] + g[s \ {Some(s)}]
        /\ h[s] = IF s = {} THEN 0 ELSE f[Some(s)] + h[s \ {Some(s)}]
    BY Zenon DEF Sums
  <2>1. CASE s = {}
    BY <2>0, <2>1, Zenon
  <2>2. CASE s # {}
    <3> DEFINE q == s \ {Some(s)}
    <3>1. q \in SUBSET s /\ q # s
      BY <2>2, SomeIn, Zenon
    <3>2. g[q] = h[q]
      BY <1>1, <3>1, Zenon
    <3> QED
      BY <2>0, <2>2, <3>2, Zenon
  <2> QED
    BY <2>1, <2>2, Zenon
<1>2. SUBSET S \subseteq B
  <2> HIDE DEF B
  <2> QED
    BY <1>1, SetInduction, Zenon
<1>3. \A s \in SUBSET S : g[s] = h[s]
  BY <1>2, Zenon
<1>4. g = [s \in SUBSET S |-> g[s]] /\ h = [s \in SUBSET S |-> h[s]]
  BY Zenon DEF Sums
<1> QED
  BY <1>3, <1>4, Zenon

(* The equation holds of a smaller set. *)
LEMMA SumsRestrict ==
  ASSUME NEW f, NEW S, NEW g, Sums(f, S, g), NEW T \in SUBSET S
  PROVE  Sums(f, T, [s \in SUBSET T |-> g[s]])
<1> DEFINE h == [s \in SUBSET T |-> g[s]]
<1>1. ASSUME NEW s \in SUBSET T
      PROVE  h[s] = IF s = {} THEN 0 ELSE f[Some(s)] + h[s \ {Some(s)}]
  <2>1. s \in SUBSET S /\ s \ {Some(s)} \in SUBSET T
    BY Zenon
  <2>2. h[s] = g[s] /\ h[s \ {Some(s)}] = g[s \ {Some(s)}]
    BY <2>1, Zenon
  <2>3. g[s] = IF s = {} THEN 0 ELSE f[Some(s)] + g[s \ {Some(s)}]
    BY <2>1, Zenon DEF Sums
  <2> QED
    BY <2>2, <2>3, Zenon
<1> QED
  BY <1>1, Zenon DEF Sums

(* There is a function with that equation. *)
LEMMA SumsExist ==
  ASSUME NEW f, NEW S, IsFiniteSet(S) PROVE \E g : Sums(f, S, g)
<1> DEFINE B == {s \in SUBSET S : \E g : Sums(f, s, g)}
           sol(r) == CHOOSE g : Sums(f, r, g)
<1>1. ASSUME NEW s \in SUBSET S, \A r \in SUBSET s : r # s => r \in B PROVE s \in B
  <2> DEFINE less(r) == r \ {Some(r)}
             val == [r \in SUBSET s |-> IF r = {} THEN 0 ELSE f[Some(r)] + sol(less(r))[less(r)]]
  <2>1. \A r \in SUBSET s : r # {} => less(r) \in SUBSET s /\ less(r) # s
    BY SomeIn, Zenon
  <2>a. \A r \in SUBSET s :
           val[r] = IF r = {} THEN 0 ELSE f[Some(r)] + sol(less(r))[less(r)]
    BY Zenon
  <2>b. val = [r \in SUBSET s |-> val[r]]
    OBVIOUS
  <2>c. \A r \in SUBSET s : r # s => Sums(f, r, sol(r))
    BY <1>1, Zenon
  <2> HIDE DEF val, sol
  <2>2. ASSUME NEW q \in SUBSET s, q # s PROVE val[q] = sol(q)[q]
    <3>1. ASSUME NEW r \in SUBSET q PROVE Sums(f, r, sol(r))
      BY <2>2, <2>c, Zenon
    <3>2. q \in SUBSET q /\ Sums(f, q, sol(q))
      BY <3>1, Zenon
    <3>3. CASE q = {}
      <4>1. sol(q)[q] = 0
        BY <3>2, <3>3, Zenon DEF Sums
      <4> QED
        BY <2>a, <3>3, <4>1, Zenon
    <3>4. CASE q # {}
      <4> DEFINE p == less(q)
                 h == [r \in SUBSET p |-> sol(q)[r]]
      <4>1. p \in SUBSET q /\ p \in SUBSET S /\ IsFiniteSet(p)
        BY FS_Subset, Zenon
      <4>2. Sums(f, p, h) /\ Sums(f, p, sol(p))
        BY <3>1, <3>2, <4>1, SumsRestrict, Zenon
      <4>3. h = sol(p)
        BY <4>1, <4>2, SumsUnique, Zenon
      <4>4. sol(q)[p] = sol(p)[p]
        BY <4>3, Zenon
      <4>5. sol(q)[q] = f[Some(q)] + sol(q)[p]
        <5>1. sol(q)[q] = IF q = {} THEN 0 ELSE f[Some(q)] + sol(q)[q \ {Some(q)}]
          BY <3>2, Zenon DEF Sums
        <5> QED
          BY <3>4, <5>1, Zenon
      <4> QED
        BY <2>a, <3>4, <4>4, <4>5, Zenon
    <3> QED
      BY <3>3, <3>4, Zenon
  <2>3. ASSUME NEW r \in SUBSET s
        PROVE  val[r] = IF r = {} THEN 0 ELSE f[Some(r)] + val[r \ {Some(r)}]
    BY <2>1, <2>2, <2>a, Zenon
  <2>4. Sums(f, s, val)
    BY <2>3, <2>b, Zenon DEF Sums
  <2> QED
    BY <2>4, Zenon
<1>2. SUBSET S \subseteq B
  <2> HIDE DEF B
  <2> QED
    BY <1>1, SetInduction, Zenon
<1> QED
  BY <1>2, Zenon

(* The sum over a set is that function's value for the set. *)
LEMMA SumDef ==
  ASSUME NEW f, NEW S, IsFiniteSet(S)
  PROVE  \E g : Sums(f, S, g) /\ SumFunctionOnSet(f, S) = g[S]
<1> DEFINE iter == CHOOSE g : g = [s \in SUBSET S |->
                     IF s = {} THEN 0 ELSE f[Some(s)] + g[s \ {Some(s)}]]
<1>1. \E g : g = [s \in SUBSET S |->
                    IF s = {} THEN 0 ELSE f[Some(s)] + g[s \ {Some(s)}]]
  <2>1. PICK g : Sums(f, S, g)
    BY SumsExist, Zenon
  <2> QED
    BY <2>1, Zenon DEF Sums
<1>2. iter = [s \in SUBSET S |-> IF s = {} THEN 0 ELSE f[Some(s)] + iter[s \ {Some(s)}]]
  BY <1>1, Zenon
<1>3. Sums(f, S, iter)
  <2> HIDE DEF iter
  <2> QED
    BY <1>2, Zenon DEF Sums
<1>4. SumFunctionOnSet(f, S) = iter[S]
  BY Zenon DEF SumFunctionOnSet, FoldFunctionOnSet, MapThenFoldSet, Some
<1> QED
  BY <1>3, <1>4, Zenon

(* The recursive definition of a sum. *)
LEMMA SumStep ==
  ASSUME NEW f, NEW S, IsFiniteSet(S)
  PROVE  SumFunctionOnSet(f, S) =
           IF S = {} THEN 0 ELSE f[Some(S)] + SumFunctionOnSet(f, S \ {Some(S)})
<1>1. PICK g : Sums(f, S, g) /\ SumFunctionOnSet(f, S) = g[S]
  BY SumDef, Zenon
<1>2. g[S] = IF S = {} THEN 0 ELSE f[Some(S)] + g[S \ {Some(S)}]
  BY <1>1, Zenon DEF Sums
<1> DEFINE T == S \ {Some(S)}
           h == [s \in SUBSET T |-> g[s]]
<1>3. T \in SUBSET S /\ IsFiniteSet(T)
  BY FS_Subset, Zenon
<1>4. PICK k : Sums(f, T, k) /\ SumFunctionOnSet(f, T) = k[T]
  BY <1>3, SumDef, Zenon
<1>5. Sums(f, T, h)
  BY <1>1, <1>3, SumsRestrict, Zenon
<1>6. h = k
  BY <1>3, <1>4, <1>5, SumsUnique, Zenon
<1>7. k[T] = g[T]
  BY <1>6, Zenon
<1> QED
  BY <1>1, <1>2, <1>4, <1>7, Zenon

(* Only the values at the elements of the set count. *)
LEMMA SumSame ==
  ASSUME NEW S, IsFiniteSet(S), NEW f, NEW g, \A x \in S : f[x] = g[x]
  PROVE  SumFunctionOnSet(f, S) = SumFunctionOnSet(g, S)
<1> DEFINE B == {s \in SUBSET S : SumFunctionOnSet(f, s) = SumFunctionOnSet(g, s)}
<1>1. ASSUME NEW s \in SUBSET S, \A r \in SUBSET s : r # s => r \in B PROVE s \in B
  <2>1. IsFiniteSet(s)
    BY FS_Subset, Zenon
  <2>2. CASE s = {}
    BY <2>1, <2>2, SumStep, Zenon
  <2>3. CASE s # {}
    <3> DEFINE q == s \ {Some(s)}
    <3>1. q \in SUBSET s /\ q # s /\ Some(s) \in S
      BY <2>3, SomeIn, Zenon
    <3>2. SumFunctionOnSet(f, q) = SumFunctionOnSet(g, q) /\ f[Some(s)] = g[Some(s)]
      BY <1>1, <3>1, Zenon
    <3>3. /\ SumFunctionOnSet(f, s) = f[Some(s)] + SumFunctionOnSet(f, q)
          /\ SumFunctionOnSet(g, s) = g[Some(s)] + SumFunctionOnSet(g, q)
      BY <2>1, <2>3, SumStep, Zenon
    <3> QED
      BY <3>2, <3>3, Zenon
  <2> QED
    BY <2>2, <2>3, Zenon
<1>2. SUBSET S \subseteq B
  <2> HIDE DEF B
  <2> QED
    BY <1>1, SetInduction, Zenon
<1> QED
  BY <1>2, Zenon

(* A sum of integers is an integer, and does not depend on the order. *)
LEMMA SumRemove ==
  ASSUME NEW S, IsFiniteSet(S), NEW f, \A x \in S : f[x] \in Int
  PROVE  /\ SumFunctionOnSet(f, S) \in Int
         /\ \A y \in S : SumFunctionOnSet(f, S) = f[y] + SumFunctionOnSet(f, S \ {y})
<1> DEFINE B == {s \in SUBSET S :
                   /\ SumFunctionOnSet(f, s) \in Int
                   /\ \A y \in s : SumFunctionOnSet(f, s) = f[y] + SumFunctionOnSet(f, s \ {y})}
<1>1. ASSUME NEW s \in SUBSET S, \A r \in SUBSET s : r # s => r \in B PROVE s \in B
  <2>1. IsFiniteSet(s)
    BY FS_Subset, Zenon
  <2>2. CASE s = {}
    <3>1. SumFunctionOnSet(f, s) = 0
      BY <2>1, <2>2, SumStep, Zenon
    <3> QED
      BY <2>2, <3>1
  <2>3. CASE s # {}
    <3> DEFINE x == Some(s)
    <3>1. x \in s
      BY <2>3, SomeIn, Zenon
    <3>2. SumFunctionOnSet(f, s) = f[x] + SumFunctionOnSet(f, s \ {x})
      BY <2>1, <2>3, SumStep, Zenon
    <3> HIDE DEF x
    <3>3. s \ {x} \in B
      BY <1>1, <3>1, Zenon
    <3>4. SumFunctionOnSet(f, s) \in Int
      BY <3>1, <3>2, <3>3, SMTT(30)
    <3>5. ASSUME NEW y \in s, y # x
          PROVE  SumFunctionOnSet(f, s) = f[y] + SumFunctionOnSet(f, s \ {y})
      <4>1. y \in s \ {x} /\ x \in s \ {y} /\ (s \ {x}) \ {y} = (s \ {y}) \ {x}
        BY <3>1, <3>5, Zenon
      <4>2. s \ {y} \in B /\ (s \ {x}) \ {y} \in B
        BY <1>1, <3>1, Zenon
      <4>3. SumFunctionOnSet(f, s \ {x}) = f[y] + SumFunctionOnSet(f, (s \ {x}) \ {y})
        BY <3>3, <4>1, Zenon
      <4>4. SumFunctionOnSet(f, s \ {y}) = f[x] + SumFunctionOnSet(f, (s \ {x}) \ {y})
        BY <4>1, <4>2, Zenon
      <4>5. f[x] \in Int /\ f[y] \in Int /\ SumFunctionOnSet(f, (s \ {x}) \ {y}) \in Int
        BY <3>1, <4>2, Zenon
      <4> QED
        BY <3>2, <4>3, <4>4, <4>5, SMTT(30)
    <3> QED
      BY <3>2, <3>4, <3>5, Zenon
  <2> QED
    BY <2>2, <2>3, Zenon
<1>2. SUBSET S \subseteq B
  <2> HIDE DEF B
  <2> QED
    BY <1>1, SetInduction, Zenon
<1> QED
  BY <1>2, Zenon

-----------------------------------------------------------------------------
(* Progress. *)

Frames == [graph : Elements, made : Int]

(* The calls that the invocations of one function on a stack have made. *)
Made(s) == [i \in DOMAIN s |-> s[i].made]
Of(s, g) == {i \in DOMAIN s : s[i].graph = g}
MadeBy(s, g) == SumFunctionOnSet(Made(s), Of(s, g))

(* The frames of a stack. *)
LEMMA FramesOf ==
  ASSUME NEW s \in Seq(Frames), NEW g
  PROVE  /\ DOMAIN s = 1 .. Len(s) /\ Len(s) \in Nat
         /\ IsFiniteSet(Of(s, g)) /\ Of(s, g) \subseteq 1 .. Len(s)
         /\ \A i \in 1 .. Len(s) : s[i] \in Frames /\ Made(s)[i] = s[i].made /\ s[i].made \in Int
         /\ MadeBy(s, g) \in Int
<1>1. DOMAIN s = 1 .. Len(s) /\ Len(s) \in Nat
  BY LenProperties, Zenon
<1>2. IsFiniteSet(1 .. Len(s)) /\ Of(s, g) \subseteq 1 .. Len(s)
  BY <1>1, FS_Interval DEF Of
<1>3. IsFiniteSet(Of(s, g))
  BY <1>2, FS_Subset, Zenon
<1>4. \A i \in 1 .. Len(s) : s[i] \in Frames
  BY ElementOfSeq, Zenon
<1>5. \A i \in 1 .. Len(s) : Made(s)[i] = s[i].made /\ s[i].made \in Int
  BY <1>1, <1>4, Zenon DEF Made, Frames
<1>6. MadeBy(s, g) \in Int
  BY <1>2, <1>3, <1>5, SumRemove, Zenon DEF MadeBy
<1> QED
  BY <1>1, <1>2, <1>3, <1>4, <1>5, <1>6, Zenon

(* A frame more on the stack counts for its function. *)
LEMMA MadeOnTop ==
  ASSUME NEW s \in Seq(Frames), NEW u \in Seq(Frames), Len(u) = Len(s) + 1,
         \A i \in 1 .. Len(s) : u[i] = s[i], NEW g
  PROVE  MadeBy(u, g) = MadeBy(s, g) + (IF u[Len(u)].graph = g THEN u[Len(u)].made ELSE 0)
<1> DEFINE l == Len(u)
<1>1. /\ DOMAIN s = 1 .. Len(s) /\ Len(s) \in Nat /\ DOMAIN u = 1 .. l
      /\ l \in 1 .. l /\ l \notin 1 .. Len(s)
  BY FramesOf
<1>2. Of(u, g) \ {l} = Of(s, g)
  BY <1>1 DEF Of
<1>3. SumFunctionOnSet(Made(u), Of(s, g)) = MadeBy(s, g)
  <2>1. \A i \in Of(s, g) : Made(u)[i] = Made(s)[i]
    BY <1>1 DEF Of, Made
  <2> QED
    BY <2>1, FramesOf, SumSame, Zenon DEF MadeBy
<1>4. CASE u[l].graph = g
  <2>1. l \in Of(u, g)
    BY <1>1, <1>4, Zenon DEF Of
  <2>2. MadeBy(u, g) = Made(u)[l] + SumFunctionOnSet(Made(u), Of(u, g) \ {l})
    <3>1. \A i \in Of(u, g) : Made(u)[i] \in Int
      BY FramesOf, Zenon
    <3> QED
      BY <2>1, <3>1, FramesOf, SumRemove, SMTT(30) DEF MadeBy
  <2>3. Made(u)[l] = u[l].made /\ u[l].made \in Int /\ MadeBy(s, g) \in Int
    BY <1>1, FramesOf, Zenon
  <2>4. MadeBy(u, g) = u[l].made + MadeBy(s, g)
    BY <1>2, <1>3, <2>2, <2>3, Zenon
  <2> QED
    BY <1>4, <2>3, <2>4
<1>5. CASE u[l].graph # g
  <2>1. Of(u, g) = Of(s, g)
    BY <1>2, <1>5, Zenon DEF Of
  <2>2. MadeBy(u, g) = MadeBy(s, g) /\ MadeBy(s, g) \in Int
    BY <1>3, <2>1, FramesOf, Zenon DEF MadeBy
  <2> QED
    BY <1>5, <2>2
<1> QED
  BY <1>4, <1>5, Zenon

(* A call more counts for the function of its frame. *)
LEMMA MadeMore ==
  ASSUME NEW s \in Seq(Frames), NEW u \in Seq(Frames), Len(u) = Len(s),
         NEW l \in 1 .. Len(s), \A i \in 1 .. Len(s) : i # l => u[i] = s[i],
         u[l].graph = s[l].graph, NEW g
  PROVE  MadeBy(u, g) =
           MadeBy(s, g) + (IF s[l].graph = g THEN u[l].made - s[l].made ELSE 0)
<1>1. DOMAIN s = 1 .. Len(s) /\ DOMAIN u = 1 .. Len(s)
  BY FramesOf, Zenon
<1>2. Of(u, g) = Of(s, g)
  BY <1>1, Zenon DEF Of
<1> DEFINE O == Of(s, g)
<1>3. IsFiniteSet(O) /\ IsFiniteSet(O \ {l}) /\ O \subseteq 1 .. Len(s)
  BY FramesOf, FS_Subset, Zenon
<1>4. \A i \in O \ {l} : Made(u)[i] = Made(s)[i]
  BY <1>1, <1>3, Zenon DEF Made
<1>5. SumFunctionOnSet(Made(u), O \ {l}) = SumFunctionOnSet(Made(s), O \ {l})
  BY <1>3, <1>4, SumSame, Zenon
<1>6. MadeBy(s, g) \in Int
  BY FramesOf, Zenon
<1>7. /\ \A i \in 1 .. Len(s) : Made(s)[i] \in Int /\ Made(u)[i] \in Int
      /\ Made(u)[l] = u[l].made /\ Made(s)[l] = s[l].made
  BY FramesOf, Zenon
<1>8. CASE l \in O
  <2>1. /\ MadeBy(s, g) = Made(s)[l] + SumFunctionOnSet(Made(s), O \ {l})
        /\ MadeBy(u, g) = Made(u)[l] + SumFunctionOnSet(Made(u), O \ {l})
    <3>1. \A i \in O : Made(s)[i] \in Int /\ Made(u)[i] \in Int
      BY <1>3, <1>7, Zenon
    <3>2. MadeBy(s, g) = SumFunctionOnSet(Made(s), O) /\ MadeBy(u, g) = SumFunctionOnSet(Made(u), O)
      BY <1>2, Zenon DEF MadeBy
    <3> HIDE DEF O
    <3>3. SumFunctionOnSet(Made(s), O) = Made(s)[l] + SumFunctionOnSet(Made(s), O \ {l})
      BY <1>3, <1>8, <3>1, SumRemove, Zenon
    <3>4. SumFunctionOnSet(Made(u), O) = Made(u)[l] + SumFunctionOnSet(Made(u), O \ {l})
      BY <1>3, <1>8, <3>1, SumRemove, Zenon
    <3> QED
      BY <3>2, <3>3, <3>4, Zenon
  <2>2. SumFunctionOnSet(Made(s), O \ {l}) \in Int
    BY <1>3, <1>7, SumRemove, Zenon
  <2>3. s[l].graph = g
    BY <1>8, Zenon DEF Of
  <2> QED
    BY <1>5, <1>7, <2>1, <2>2, <2>3, SMTT(30)
<1>9. CASE l \notin O
  <2>1. O \ {l} = O /\ s[l].graph # g
    BY <1>1, <1>9, Zenon DEF Of
  <2>2. MadeBy(u, g) = MadeBy(s, g)
    BY <1>2, <1>5, <2>1, Zenon DEF MadeBy
  <2> QED
    BY <1>6, <2>1, <2>2
<1> QED
  BY <1>8, <1>9, Zenon

(* What Popped leaves: the calls of a recursive invocation are its         *)
(* caller's, those of an outermost one are gone.                           *)
LEMMA MadePopped ==
  ASSUME NEW s \in Seq(Frames), s # << >>, NEW g
  PROVE  /\ Popped(s) \in Seq(Frames)
         /\ g # s[Len(s)].graph => MadeBy(Popped(s), g) = MadeBy(s, g)
         /\ Len(s) > 1 /\ s[Len(s) - 1].graph = s[Len(s)].graph
              => MadeBy(Popped(s), g) = MadeBy(s, g)
         /\ (\A i \in 1 .. Len(s) - 1 : s[i].graph # g) => MadeBy(Popped(s), g) = 0
<1> DEFINE b == Front(s)
           l == Len(b)
           m == s[Len(s)]
<1>1. /\ Len(s) \in Nat \ {0} /\ b \in Seq(Frames) /\ l = Len(s) - 1
      /\ \A i \in 1 .. l : b[i] = s[i]
  BY FrontProps, Zenon
<1>2. m \in Frames /\ m.made \in Int /\ MadeBy(s, g) \in Int /\ MadeBy(b, g) \in Int
  <2>1. Len(s) \in 1 .. Len(s)
    BY <1>1
  <2>2. m \in Frames /\ m.made \in Int /\ MadeBy(s, g) \in Int
    BY <2>1, FramesOf, Zenon
  <2> QED
    BY <1>1, <2>2, FramesOf, Zenon
<1>3. MadeBy(s, g) = MadeBy(b, g) + (IF m.graph = g THEN m.made ELSE 0)
  BY <1>1, MadeOnTop
<1>4. CASE l > 0 /\ b[l].graph = m.graph
  <2> DEFINE r == [b[l] EXCEPT !.made = @ + m.made]
  <2>1. l \in 1 .. l /\ b[l] \in Frames /\ b # << >> /\ b[l].made \in Int
    <3>1. l \in 1 .. l /\ b # << >>
      BY <1>1, <1>4
    <3> HIDE DEF b
    <3> QED
      BY <1>1, <3>1, FramesOf, Zenon
  <2>2. r \in Frames /\ r.graph = b[l].graph /\ r.made = b[l].made + m.made
    BY <1>2, <2>1, SMTT(30) DEF Frames
  <2>3. Popped(s) = [b EXCEPT ![l] = r]
    BY <1>4, <2>1, Zenon DEF Popped, Last
  <2> HIDE DEF r, b, m
  <2>4. /\ Popped(s) \in Seq(Frames) /\ Len(Popped(s)) = l
        /\ \A i \in 1 .. l : Popped(s)[i] = IF i = l THEN r ELSE b[i]
    BY <1>1, <2>1, <2>2, <2>3, ExceptSeq
  <2>5. MadeBy(Popped(s), g) = MadeBy(b, g) + (IF b[l].graph = g THEN m.made ELSE 0)
    <3>1. PICK p \in Seq(Frames) : p = Popped(s)
      BY <2>4, Zenon
    <3>2. /\ Len(p) = Len(b) /\ (\A i \in 1 .. Len(b) : i # l => p[i] = b[i])
          /\ p[l].graph = b[l].graph /\ p[l].made = b[l].made + m.made
      BY <2>1, <2>2, <2>4, <3>1, Zenon
    <3>3. b \in Seq(Frames) /\ l \in 1 .. Len(b)
      BY <1>1, <2>1, Zenon
    <3> HIDE DEF l
    <3>4. MadeBy(p, g) =
            MadeBy(b, g) + (IF b[l].graph = g THEN p[l].made - b[l].made ELSE 0)
      BY <3>2, <3>3, MadeMore, SMTT(30)
    <3> QED
      BY <1>2, <2>1, <3>1, <3>2, <3>4, SMTT(30)
  <2>6. MadeBy(Popped(s), g) = MadeBy(s, g)
    BY <1>2, <1>3, <1>4, <2>5, SMTT(30)
  <2>7. (\A i \in 1 .. Len(s) - 1 : s[i].graph # g) => MadeBy(Popped(s), g) = 0
    <3> SUFFICES ASSUME \A i \in 1 .. Len(s) - 1 : s[i].graph # g
                 PROVE  MadeBy(Popped(s), g) = 0
      BY Zenon
    <3>1. Of(Popped(s), g) = {}
      BY <1>1, <2>1, <2>2, <2>4, FramesOf, SMTT(30) DEF Of
    <3> QED
      BY <3>1, FS_EmptySet, SumStep, Zenon DEF MadeBy
  <2> QED
    BY <2>4, <2>6, <2>7, Zenon
<1>5. CASE ~(l > 0 /\ b[l].graph = m.graph)
  <2>1. Popped(s) = b
    BY <1>1, <1>5 DEF Popped, Last
  <2>2. ASSUME \A i \in 1 .. Len(s) - 1 : s[i].graph # g PROVE MadeBy(b, g) = 0
    <3>1. Of(b, g) = {}
      BY <1>1, <2>2, FramesOf, Zenon DEF Of
    <3> QED
      BY <3>1, FS_EmptySet, SumStep, Zenon DEF MadeBy
  <2>3. g # m.graph => MadeBy(b, g) = MadeBy(s, g)
    BY <1>2, <1>3
  <2>4. ~(Len(s) > 1 /\ s[Len(s) - 1].graph = m.graph)
    BY <1>1, <1>5
  <2> HIDE DEF b
  <2> QED
    BY <1>1, <2>1, <2>2, <2>3, <2>4, Zenon
<1> QED
  BY <1>4, <1>5, Zenon

ProgressInv ==
  /\ progress \in [Threads -> [Graphs -> Int]]
  /\ ProgressKept

(* The property, with the names used here. *)
LEMMA KeptMeans ==
  ProgressKept <=>
    (use => \A t \in Threads, g \in Graphs : progress[t][g] = MadeBy(stack[t], g))
BY Zenon DEF ProgressKept, MadeBy, Made, Of

(* Only what the thread that takes a step does matters. *)
LEMMA ProgressOneThread ==
  ASSUME TypeInv, ProgressInv, UNCHANGED use, progress' \in [Threads -> [Graphs -> Int]],
         NEW t \in Threads,
         \A u \in Threads \ {t} : stack'[u] = stack[u] /\ progress'[u] = progress[u],
         use => \A g \in Graphs : progress'[t][g] = MadeBy(stack'[t], g)
  PROVE  ProgressInv'
<1>1. (use => \A u \in Threads, g \in Graphs : progress'[u][g] = MadeBy(stack'[u], g))
  BY KeptMeans, Zenon DEF ProgressInv
<1>2. ProgressKept'
  BY <1>1, Zenon DEF ProgressKept, MadeBy, Made, Of
<1> QED
  BY <1>2, Zenon DEF ProgressInv

(* A new frame has made no calls: EnterSCGraph and PauseCurrentSCGraph.    *)
LEMMA PushProgress ==
  ASSUME SessionInv, ProgressInv, NEW t \in Threads, NEW e \in Elements,
         stack' = [stack EXCEPT ![t] = Append(@, Frame(e))], UNCHANGED <<use, progress>>
  PROVE  ProgressInv'
<1>1. stack \in [Threads -> Seq(Frames)]
  BY Zenon DEF SessionInv, TypeInv, Frames
<1>2. PICK s \in Seq(Frames), r \in Frames : s = stack[t] /\ r = Frame(e)
  <2>1. Frame(e) \in Frames
    BY DEF Frames, Frame
  <2>2. stack[t] \in Seq(Frames)
    BY <1>1, Zenon
  <2> QED
    BY <2>1, <2>2, Zenon
<1>3. stack'[t] = Append(s, r) /\ \A u \in Threads \ {t} : stack'[u] = stack[u]
  BY <1>1, <1>2, Zenon
<1>4. PICK w \in Seq(Frames) : w = Append(s, r)
  BY AppendProperties, Zenon
<1>5. /\ Len(w) = Len(s) + 1 /\ (\A i \in 1 .. Len(s) : w[i] = s[i])
      /\ w[Len(w)] = r /\ r.made = 0
  BY <1>2, <1>4, AppendProperties, SMTT(30) DEF Frame
<1>6. ASSUME NEW g \in Graphs PROVE MadeBy(w, g) = MadeBy(s, g)
  <2>1. MadeBy(w, g) = MadeBy(s, g) + (IF w[Len(w)].graph = g THEN w[Len(w)].made ELSE 0)
    BY <1>5, MadeOnTop
  <2>2. MadeBy(s, g) \in Int
    BY FramesOf, Zenon
  <2>3. w[Len(w)].made = 0
    BY <1>5, Zenon
  <2> QED
    BY <2>1, <2>2, <2>3, SMTT(30)
<1>7. use => \A g \in Graphs : progress'[t][g] = MadeBy(stack'[t], g)
  BY <1>2, <1>3, <1>4, <1>6, KeptMeans, Zenon DEF ProgressInv
<1>8. TypeInv /\ progress' \in [Threads -> [Graphs -> Int]]
  BY Zenon DEF SessionInv, ProgressInv
<1> QED
  BY <1>3, <1>7, <1>8, ProgressOneThread, Zenon

(* LeaveSCGraph rewinds the graph exactly when no invocation of the        *)
(* function is left.                                                       *)
LEMMA LeaveProgress ==
  ASSUME SessionInv, ProgressInv, NEW t \in Threads, Leave(t)
  PROVE  ProgressInv'
<1>1. stack \in [Threads -> Seq(Frames)] /\ TypeInv
  BY Zenon DEF SessionInv, TypeInv, Frames
<1>2. PICK s \in Seq(Frames) : s = stack[t]
  BY <1>1, Zenon
<1> DEFINE n == Nest(t)
           h == s[Len(s)].graph
<1>3. s # << >> /\ Top(t).graph = h /\ h # NoGraph
  BY <1>2, Zenon DEF Leave, Top, PauseFrame, Frame, Last
<1>4. /\ DOMAIN s = 1 .. Len(s) /\ Len(s) \in Nat \ {0} /\ h \in Elements
  <2>1. DOMAIN s = 1 .. Len(s) /\ Len(s) \in Nat \ {0} /\ Len(s) \in 1 .. Len(s)
    BY <1>3, LenProperties
  <2>2. s[Len(s)] \in Frames
    BY <2>1, ElementOfSeq, Zenon
  <2> QED
    BY <2>1, <2>2, Zenon DEF Frames
<1>5. h \in Graphs
  BY <1>3, <1>4, Zenon DEF Elements
<1>6. /\ stack' = [stack EXCEPT ![t] = Popped(s)] /\ UNCHANGED use
      /\ stack'[t] = Popped(s) /\ \A u \in Threads \ {t} : stack'[u] = stack[u]
  BY <1>1, <1>2, Zenon DEF Leave
<1>7. CASE ~use
  <2>1. UNCHANGED progress
    BY <1>7, Zenon DEF Leave, LeaveSCGraph
  <2> QED
    BY <1>1, <1>6, <1>7, <2>1, ProgressOneThread, Zenon DEF ProgressInv
<1>8. CASE use
  <2>1. /\ NestOK(n) /\ nest_cnts[t][h] = Cardinality(At(n, h))
    BY <1>5, <1>8, Zenon DEF SessionInv, Describes
  <2>2. /\ n \in Seq(Elements) /\ n # << >> /\ Len(n) = Len(s)
        /\ \A i \in 1 .. Len(s) : n[i] = s[i].graph
    BY <1>1, <1>2, <1>3, NestTop, Zenon DEF Nest
  <2>3. n[Len(n)] = h
    BY <1>4, <2>2
  <2>4. /\ nest_cnts[t][h] = 1 => TopOf(Front(n)) = NoGraph
        /\ nest_cnts[t][h] # 1 => TopOf(Front(n)) = h
    BY <1>3, <2>1, <2>2, <2>3, Below, Zenon
  <2>5. progress' = IF nest_cnts[t][h] = 1 THEN [progress EXCEPT ![t][h] = 0] ELSE progress
    BY <1>3, <1>8, Zenon DEF Leave, LeaveSCGraph, Outermost, ResetToStart
  <2>6. progress' \in [Threads -> [Graphs -> Int]]
        /\ \A u \in Threads \ {t} : progress'[u] = progress[u]
    <3> HIDE DEF h
    <3> QED
      BY <1>5, <2>5 DEF ProgressInv
  <2>7. \A g \in Graphs : progress[t][g] = MadeBy(s, g)
    BY <1>2, <1>8, KeptMeans, Zenon DEF ProgressInv
  <2>8. ASSUME nest_cnts[t][h] = 1, NEW i \in 1 .. Len(s) - 1 PROVE s[i].graph # h
    <3>1. IsFiniteSet(At(n, h)) /\ Cardinality(At(n, h)) = 1
      BY <2>1, <2>2, <2>8, AtFinite, Zenon
    <3>2. PICK x : At(n, h) = {x}
      BY <3>1, FS_Singleton, Zenon
    <3>3. Len(s) \in At(n, h)
      BY <1>4, <2>2, <2>3, SMTT(30) DEF At
    <3>4. i \notin At(n, h) /\ i \in 1 .. Len(s)
      BY <1>4, <3>2, <3>3, SMTT(30)
    <3> QED
      BY <2>2, <3>4, Zenon DEF At
  <2>9. ASSUME nest_cnts[t][h] # 1 PROVE Len(s) > 1 /\ s[Len(s) - 1].graph = h
    <3>1. Len(Front(n)) = Len(n) - 1 /\ \A i \in 1 .. Len(n) - 1 : Front(n)[i] = n[i]
      BY <2>2, FrontProps, Zenon
    <3>2. Front(n) # << >> /\ Front(n)[Len(n) - 1] = h
      BY <1>3, <2>4, <2>9, <3>1, Zenon DEF TopOf
    <3>3. Front(n) \in Seq(Elements)
      BY <2>2, FrontProps, Zenon
    <3>4. Len(n) - 1 # 0
      BY <3>1, <3>2, <3>3, EmptySeq, Zenon
    <3> QED
      BY <1>4, <2>2, <3>1, <3>2, <3>4, SMTT(30)
  <2>10. ASSUME NEW g \in Graphs PROVE progress'[t][g] = MadeBy(Popped(s), g)
    <3>1. CASE g # h
      <4>1. progress'[t][g] = progress[t][g]
        BY <1>5, <2>5, <3>1, Zenon DEF ProgressInv
      <4> QED
        BY <1>3, <2>7, <3>1, <4>1, MadePopped, Zenon
    <3>2. CASE g = h /\ nest_cnts[t][h] # 1
      <4>1. progress'[t][g] = progress[t][g]
        BY <2>5, <3>2, Zenon
      <4> QED
        BY <1>3, <2>7, <2>9, <3>2, <4>1, MadePopped, SMTT(30)
    <3>3. CASE g = h /\ nest_cnts[t][h] = 1
      <4>1. progress'[t][g] = 0
        BY <1>5, <2>5, <3>3, Zenon DEF ProgressInv
      <4> QED
        BY <1>3, <2>8, <3>3, <4>1, MadePopped, Zenon
    <3> QED
      BY <3>1, <3>2, <3>3, Zenon
  <2> QED
    BY <1>1, <1>6, <2>6, <2>10, ProgressOneThread, Zenon
<1> QED
  BY <1>1, <1>7, <1>8, Zenon DEF TypeInv

(* A pause has made no calls of a graph: ResumeCurrentSCGraph.             *)
LEMMA ResumeProgress ==
  ASSUME SessionInv, ProgressInv, NEW t \in Threads, ResumeCurrentSCGraph(t)
  PROVE  ProgressInv'
<1>1. stack \in [Threads -> Seq(Frames)] /\ TypeInv
  BY Zenon DEF SessionInv, TypeInv, Frames
<1>2. PICK s \in Seq(Frames) : s = stack[t]
  BY <1>1, Zenon
<1>3. s # << >> /\ s[Len(s)].graph = NoGraph
  BY <1>2, Zenon DEF ResumeCurrentSCGraph, Top, Last
<1>4. /\ UNCHANGED <<use, progress>> /\ stack'[t] = Front(s)
      /\ \A u \in Threads \ {t} : stack'[u] = stack[u]
  BY <1>1, <1>2, Zenon DEF ResumeCurrentSCGraph
<1>5. PICK w \in Seq(Frames) :
        w = Front(s) /\ Len(s) = Len(w) + 1 /\ \A i \in 1 .. Len(w) : s[i] = w[i]
  <2>1. Len(Front(s)) = Len(s) - 1 /\ Len(s) \in Nat \ {0} /\ Front(s) \in Seq(Frames)
        /\ \A i \in 1 .. Len(s) - 1 : Front(s)[i] = s[i]
    BY <1>3, FrontProps, Zenon
  <2>2. Len(s) = Len(Front(s)) + 1 /\ \A i \in 1 .. Len(Front(s)) : s[i] = Front(s)[i]
    BY <2>1
  <2> QED
    BY <2>1, <2>2, Zenon
<1>6. ASSUME NEW g \in Graphs PROVE MadeBy(w, g) = MadeBy(s, g)
  <2>1. MadeBy(s, g) = MadeBy(w, g) + (IF s[Len(s)].graph = g THEN s[Len(s)].made ELSE 0)
    BY <1>5, MadeOnTop, Zenon
  <2>2. MadeBy(w, g) \in Int
    BY FramesOf, Zenon
  <2>3. s[Len(s)].graph # g
    BY <1>3, GraphsAssumption, Zenon
  <2> QED
    BY <2>1, <2>2, <2>3, SMTT(30)
<1>7. use => \A g \in Graphs : progress'[t][g] = MadeBy(stack'[t], g)
  BY <1>2, <1>4, <1>5, <1>6, KeptMeans, Zenon DEF ProgressInv
<1> QED
  BY <1>1, <1>4, <1>7, ProgressOneThread, Zenon DEF ProgressInv

(* The graph whose frontier a call moves is that of the innermost function *)
(* of the thread.                                                          *)
LEMMA ServedProgress ==
  ASSUME SessionInv, ProgressInv, NEW t \in Threads, NEW type, Served(t, type), UNCHANGED use
  PROVE  ProgressInv'
<1>1. stack \in [Threads -> Seq(Frames)] /\ TypeInv
  BY Zenon DEF SessionInv, TypeInv, Frames
<1>2. PICK s \in Seq(Frames) : s = stack[t]
  BY <1>1, Zenon
<1> DEFINE h == Top(t).graph
           a == active_scgraph[t]
<1>3. progress' \in [Threads -> [Graphs -> Int]]
      /\ \A u \in Threads \ {t} : progress'[u] = progress[u]
  <2>1. a \in Elements
    BY <1>1, Zenon DEF TypeInv
  <2>2. a # NoGraph => a \in Graphs
    BY <2>1, Zenon DEF Elements
  <2> QED
    BY <2>2 DEF Served, Intercepts, ProgressInv
<1>4. \A u \in Threads \ {t} : stack'[u] = stack[u]
  BY <1>1, Zenon DEF Served
<1>5. CASE ~use
  BY <1>1, <1>3, <1>4, <1>5, ProgressOneThread, Zenon
<1>6. CASE use
  <2>1. a = h
    BY <1>6, NestTop, Zenon DEF SessionInv, Describes
  <2>2. \A g \in Graphs : progress[t][g] = MadeBy(s, g)
    BY <1>2, <1>6, KeptMeans, Zenon DEF ProgressInv
  <2>3. CASE ~Intercepts(h, type)
    <3>1. UNCHANGED <<progress, stack>>
      BY <2>1, <2>3, Zenon DEF Served
    <3> QED
      BY <1>1, <1>2, <1>3, <1>4, <2>2, <3>1, ProgressOneThread, Zenon
  <2>4. CASE Intercepts(h, type)
    <3>1. h # NoGraph /\ s # << >> /\ h = s[Len(s)].graph
      BY <1>2, <2>4, Zenon DEF Intercepts, Top, PauseFrame, Frame, Last
    <3>2. Len(s) \in 1 .. Len(s) /\ DOMAIN s = 1 .. Len(s) /\ Len(s) \in Nat
      BY <3>1, LenProperties, EmptySeq, SMTT(30)
    <3>3. s[Len(s)] \in Frames
      BY <3>2, ElementOfSeq, Zenon
    <3>4. h \in Graphs
      BY <3>1, <3>3, Zenon DEF Frames, Elements
    <3>5. PICK r : r \in Frames /\ r = [s[Len(s)] EXCEPT !.made = @ + 1]
      <4>1. [s[Len(s)] EXCEPT !.made = @ + 1] \in Frames
        BY <3>3 DEF Frames
      <4> QED
        BY <4>1, Zenon
    <3>6. PICK w : /\ w \in Seq(Frames) /\ w = [s EXCEPT ![Len(s)] = r] /\ Len(w) = Len(s)
                   /\ \A i \in 1 .. Len(s) : w[i] = IF i = Len(s) THEN r ELSE s[i]
      <4>1. /\ [s EXCEPT ![Len(s)] = r] \in Seq(Frames) /\ Len([s EXCEPT ![Len(s)] = r]) = Len(s)
            /\ \A i \in 1 .. Len(s) : [s EXCEPT ![Len(s)] = r][i] = IF i = Len(s) THEN r ELSE s[i]
        BY <3>2, <3>5, ExceptSeq, SMTT(30)
      <4> QED
        BY <4>1, Zenon
    <3>7. stack'[t] = w
      <4>1. stack' = [stack EXCEPT ![t] = [s EXCEPT ![Len(s)].made = @ + 1]]
        BY <1>2, <2>4, Zenon DEF Served
      <4>2. w = [s EXCEPT ![Len(s)].made = @ + 1]
        BY <3>2, <3>5, <3>6, Zenon
      <4> QED
        BY <1>1, <4>1, <4>2, Zenon
    <3>8. /\ Len(w) = Len(s) /\ (\A i \in 1 .. Len(s) : i # Len(s) => w[i] = s[i])
          /\ w[Len(s)] = r
      BY <3>2, <3>6, Zenon
    <3>9. r.graph = s[Len(s)].graph /\ r.made = s[Len(s)].made + 1 /\ s[Len(s)].made \in Int
      BY <3>3, <3>5, Zenon DEF Frames
    <3>10. ASSUME NEW g \in Graphs PROVE progress'[t][g] = MadeBy(w, g)
      <4>1. MadeBy(w, g) =
              MadeBy(s, g) + (IF s[Len(s)].graph = g THEN w[Len(s)].made - s[Len(s)].made ELSE 0)
        <5>1. PICK l \in 1 .. Len(s) : l = Len(s)
          BY <3>2, Zenon
        <5>2. w \in Seq(Frames) /\ Len(w) = Len(s)
          BY <3>6, Zenon
        <5>3. \A i \in 1 .. Len(s) : i # l => w[i] = s[i]
          BY <3>8, <5>1, Zenon
        <5>4. w[l].graph = s[l].graph
          BY <3>8, <3>9, <5>1, Zenon
        <5>5. MadeBy(w, g) =
                MadeBy(s, g) + (IF s[l].graph = g THEN w[l].made - s[l].made ELSE 0)
          BY <5>2, <5>3, <5>4, MadeMore, SMTT(30)
        <5> QED
          BY <5>1, <5>5, Zenon
      <4>2. MadeBy(s, g) \in Int
        BY FramesOf, Zenon
      <4>3. MadeBy(w, g) = IF g = h THEN MadeBy(s, g) + 1 ELSE MadeBy(s, g)
        BY <3>1, <3>8, <3>9, <4>1, <4>2, SMTT(30)
      <4>4. progress' = [progress EXCEPT ![t][h] = @ + 1]
        BY <2>1, <2>4, Zenon DEF Served
      <4>5. progress'[t][g] = IF g = h THEN progress[t][g] + 1 ELSE progress[t][g]
        <5> HIDE DEF h
        <5> QED
          BY <3>4, <4>4, Zenon DEF ProgressInv
      <4> QED
        BY <2>2, <4>3, <4>5, Zenon
    <3> QED
      BY <1>1, <1>3, <1>4, <3>7, <3>10, ProgressOneThread, Zenon
  <2> QED
    BY <2>3, <2>4, Zenon
<1> QED
  BY <1>5, <1>6, Zenon

(* Nothing is made before the first call. *)
LEMMA InitProgressInv == Init => ProgressInv
<1> SUFFICES ASSUME Init PROVE ProgressInv
  BY Zenon
<1>1. progress \in [Threads -> [Graphs -> Int]]
  BY DEF Init
<1>2. ASSUME NEW t \in Threads, NEW g \in Graphs PROVE progress[t][g] = MadeBy(stack[t], g)
  <2>1. stack[t] = << >> /\ << >> \in Seq(Frames) /\ progress[t][g] = 0
    BY DEF Init
  <2>2. Of(<< >>, g) = {}
    BY DEF Of
  <2>3. SumFunctionOnSet(Made(<< >>), {}) = 0
    BY FS_EmptySet, SumStep, Zenon
  <2> QED
    BY <2>1, <2>2, <2>3, Zenon DEF MadeBy
<1> QED
  BY <1>1, <1>2, KeptMeans, Zenon DEF ProgressInv

(* Every step keeps the count of intercepted calls. *)
LEMMA NextProgressInv == SessionInv /\ ProgressInv /\ [Next]_vars => ProgressInv'
<1> SUFFICES ASSUME SessionInv, ProgressInv, [Next]_vars PROVE ProgressInv'
  BY Zenon
<1>1. ASSUME UNCHANGED <<use, stack, progress>> PROVE ProgressInv'
  BY <1>1, Zenon DEF ProgressInv, ProgressKept
<1>2. CASE UNCHANGED vars
  BY <1>1, <1>2, Zenon DEF vars, sessionVars
<1>3. CASE Next
  <2>1. PICK t \in Threads :
          \/ \E g \in Graphs : Enter(t, g) \/ Panic(t, g)
          \/ Leave(t)
          \/ PauseCurrentSCGraph(t) \/ ResumeCurrentSCGraph(t)
          \/ Lseek(t)
          \/ \E call \in {"pread", "pwrite"} : AskOffset(t, call)
          \/ Pread(t) \/ Pwrite(t) \/ CallFails(t)
          \/ Advance(t)
    BY <1>3, Zenon DEF Next
  <2>2. CASE \E g \in Graphs : Enter(t, g)
    <3>1. PICK g \in Graphs : Enter(t, g)
      BY <2>2, Zenon
    <3>2. /\ stack' = [stack EXCEPT ![t] = Append(@, Frame(g))] /\ g \in Elements
          /\ UNCHANGED <<use, progress>>
      BY <3>1, Zenon DEF Enter, EnterSCGraph, Elements
    <3> QED
      BY <3>2, PushProgress, Zenon
  <2>3. CASE \E g \in Graphs : Panic(t, g)
    BY <1>1, <2>3, Zenon DEF Panic, sessionVars
  <2>4. CASE Leave(t)
    BY <2>4, LeaveProgress, Zenon
  <2>5. CASE PauseCurrentSCGraph(t)
    <3>1. /\ stack' = [stack EXCEPT ![t] = Append(@, Frame(NoGraph))] /\ NoGraph \in Elements
          /\ UNCHANGED <<use, progress>>
      BY <2>5, Zenon DEF PauseCurrentSCGraph, PauseFrame, Elements
    <3> QED
      BY <3>1, PushProgress, Zenon
  <2>6. CASE ResumeCurrentSCGraph(t)
    BY <2>6, ResumeProgress, Zenon
  <2>7. CASE Lseek(t)
    BY <2>7, ServedProgress, Zenon DEF Lseek, NewCall
  <2>8. CASE \E call \in {"pread", "pwrite"} : AskOffset(t, call)
    BY <1>1, <2>8, Zenon DEF AskOffset, NewCall, sessionVars
  <2>9. CASE Pread(t) \/ Pwrite(t) \/ CallFails(t)
    <3>1. Served(t, pc[t]) /\ UNCHANGED use
      BY <2>9, Zenon DEF Pread, Pwrite, CallFails, Returned
    <3> QED
      BY <3>1, ServedProgress, Zenon
  <2>10. CASE Advance(t)
    BY <1>1, <2>10, Zenon DEF Advance, sessionVars
  <2> QED
    BY <2>1, <2>2, <2>3, <2>4, <2>5, <2>6, <2>7, <2>8, <2>9, <2>10, Zenon
<1> QED
  BY <1>2, <1>3, Zenon

(* The frontier of every graph stands where the calls of its function have *)
(* moved it: recursion and pauses (EnterSCGraph, PauseCurrentSCGraph)      *)
(* neither rewind it nor let another function's calls move it, and it is   *)
(* rewound (LeaveSCGraph) once the outermost invocation returns.           *)
THEOREM ProgressCorrect == Spec => []ProgressKept
<1>1. Init => SessionInv /\ ProgressInv
  BY InitSessionInv, InitProgressInv, Zenon
<1>2. SessionInv /\ ProgressInv /\ [Next]_vars => (SessionInv /\ ProgressInv)'
  BY NextSessionInv, NextProgressInv, Zenon
<1>3. SessionInv /\ ProgressInv => ProgressKept
  BY Zenon DEF ProgressInv
<1> QED
  BY <1>1, <1>2, <1>3, PTL DEF Spec

-----------------------------------------------------------------------------
(* read(), write() and lseek() are atomic.  Between its three calls a      *)
(* thread relies on the position of its descriptor: it is where it was     *)
(* asked for until pread() or pwrite() has been called there, and within   *)
(* the file once what these returned is counted.                           *)
Pending(t) == IF pc[t] = "advance" THEN result[t].ret ELSE 0

FileInv ==
  /\ file \in Seq(Threads)
  /\ pos \in [Kernel!Fds -> Nat]
  /\ result \in [Threads -> [ret : Int, data : Seq(Threads)]]
  /\ pc \in [Threads -> {"app", "pread", "pwrite", "advance"}]
  /\ offset \in [Threads -> Nat]
  /\ \A t \in Threads :
       /\ pc[t] = "advance" => result[t].ret > 0
       /\ pos[Fd[t]] + Pending(t) <= Len(file)
       /\ pc[t] \in {"pread", "pwrite"} => offset[t] = pos[Fd[t]]

(* What is available for a read. *)
LEMMA AvailableIs ==
  ASSUME NEW o \in Nat, file \in Seq(Threads)
  PROVE  /\ Kernel!Available(o) \in Seq(Threads) /\ Atomic!Available(o) = Kernel!Available(o)
         /\ o <= Len(file) => o + Len(Kernel!Available(o)) <= Len(file)
<1> DEFINE m == IF o + Count > Len(file) THEN Len(file) ELSE o + Count
<1>1. Atomic!Available(o) = Kernel!Available(o)
  BY Zenon DEF Atomic!Available, Kernel!Available
<1>2. Kernel!Available(o) = SubSeq(file, o + 1, m)
  BY Zenon DEF Kernel!Available
<1>3. m \in Nat /\ m <= Len(file) /\ Len(file) \in Nat
  BY CountAssumption, LenProperties
<1> HIDE DEF m
<1>4. /\ SubSeq(file, o + 1, m) \in Seq(Threads)
      /\ Len(SubSeq(file, o + 1, m)) = IF o + 1 <= m THEN m - o ELSE 0
  BY <1>3, LenProperties
<1> QED
  BY <1>1, <1>2, <1>3, <1>4, SMTT(30)

(* What a write leaves in the file. *)
LEMMA OverwrittenIs ==
  ASSUME NEW t \in Threads, NEW o \in Nat, NEW n \in Nat, file \in Seq(Threads), o <= Len(file)
  PROVE  /\ Kernel!Overwritten(t, o, n) \in Seq(Threads)
         /\ Atomic!Overwritten(t, o, n) = Kernel!Overwritten(t, o, n)
         /\ Len(Kernel!Overwritten(t, o, n)) >= o + n
         /\ Len(Kernel!Overwritten(t, o, n)) >= Len(file)
<1> DEFINE m == IF o + n > Len(file) THEN o + n ELSE Len(file)
           e(i) == IF i > o /\ i <= o + n THEN t ELSE file[i]
<1>1. Atomic!Overwritten(t, o, n) = Kernel!Overwritten(t, o, n)
  BY Zenon DEF Atomic!Overwritten, Kernel!Overwritten
<1>2. Kernel!Overwritten(t, o, n) = [i \in 1 .. m |-> e(i)]
  BY Zenon DEF Kernel!Overwritten
<1>3. m \in Nat /\ m >= o + n /\ m >= Len(file) /\ Len(file) \in Nat
  BY LenProperties
<1>4. ASSUME NEW i \in 1 .. m PROVE e(i) \in Threads
  BY <1>3, <1>4, ElementOfSeq, SMTT(30)
<1> HIDE DEF m, e
<1>5. [i \in 1 .. m |-> e(i)] \in Seq(Threads) /\ Len([i \in 1 .. m |-> e(i)]) = m
  BY <1>3, <1>4, SMTT(30)
<1> QED
  BY <1>1, <1>2, <1>3, <1>5, Zenon

(* The file is empty and every position at its start at first. *)
LEMMA InitFileInv == Init => FileInv
<1> SUFFICES ASSUME Init PROVE FileInv
  BY Zenon
<1>1. /\ file = << >> /\ pos = [f \in Kernel!Fds |-> 0]
      /\ result = [t \in Threads |-> [ret |-> 0, data |-> << >>]]
      /\ pc = [t \in Threads |-> "app"] /\ offset = [t \in Threads |-> 0]
  BY Zenon DEF Init, Kernel!Init, Kernel!Fds, Kernel!NoData
<1>2. /\ file \in Seq(Threads) /\ Len(file) = 0 /\ pos \in [Kernel!Fds -> Nat]
      /\ result \in [Threads -> [ret : Int, data : Seq(Threads)]]
      /\ pc \in [Threads -> {"app", "pread", "pwrite", "advance"}]
      /\ offset \in [Threads -> Nat]
  BY <1>1
<1>3. \A t \in Threads : Fd[t] \in Kernel!Fds
  BY Zenon DEF Kernel!Fds
<1>4. ASSUME NEW t \in Threads PROVE pc[t] = "app" /\ pos[Fd[t]] = 0 /\ Pending(t) = 0
  BY <1>1, <1>3, Zenon DEF Pending
<1> QED
  BY <1>2, <1>4, SMTT(30) DEF FileInv

(* A step of a thread leaves the position of the others alone, and the     *)
(* file never becomes shorter.                                             *)
LEMMA FileOneThread ==
  ASSUME FileInv, NEW t \in Threads,
         file' \in Seq(Threads), Len(file') >= Len(file), pos' \in [Kernel!Fds -> Nat],
         result' \in [Threads -> [ret : Int, data : Seq(Threads)]],
         pc' \in [Threads -> {"app", "pread", "pwrite", "advance"}],
         offset' \in [Threads -> Nat],
         \A u \in Threads \ {t} : /\ pc'[u] = pc[u] /\ result'[u] = result[u]
                                  /\ pos'[Fd[u]] = pos[Fd[u]] /\ offset'[u] = offset[u],
         pc'[t] = "advance" => result'[t].ret > 0,
         pos'[Fd[t]] + (IF pc'[t] = "advance" THEN result'[t].ret ELSE 0) <= Len(file'),
         pc'[t] \in {"pread", "pwrite"} => offset'[t] = pos'[Fd[t]]
  PROVE  FileInv'
<1>1. ASSUME NEW u \in Threads
      PROVE  /\ pc'[u] = "advance" => result'[u].ret > 0
             /\ pos'[Fd[u]] + Pending(u)' <= Len(file')
             /\ pc'[u] \in {"pread", "pwrite"} => offset'[u] = pos'[Fd[u]]
  <2>1. CASE u = t
    BY <2>1, Zenon DEF Pending
  <2>2. CASE u # t
    <3>1. /\ pc[u] = "advance" => result[u].ret > 0
          /\ pos[Fd[u]] + Pending(u) <= Len(file)
          /\ pc[u] \in {"pread", "pwrite"} => offset[u] = pos[Fd[u]]
      BY Zenon DEF FileInv
    <3>2. pc'[u] = pc[u] /\ result'[u] = result[u] /\ pos'[Fd[u]] = pos[Fd[u]] /\ offset'[u] = offset[u]
      BY <2>2, Zenon
    <3>3. Pending(u)' = Pending(u)
      BY <3>2, Zenon DEF Pending
    <3>4. Pending(u) \in Int /\ pos[Fd[u]] \in Int
      <4>1. result[u] \in [ret : Int, data : Seq(Threads)]
        BY Zenon DEF FileInv
      <4>2. result[u].ret \in Int
        BY <4>1, Zenon
      <4>3. Fd[u] \in Kernel!Fds
        BY Zenon DEF Kernel!Fds
      <4> QED
        BY <4>2, <4>3, SMTT(30) DEF Pending, FileInv
    <3>5. Len(file) \in Nat /\ Len(file') \in Nat
      BY LenProperties, Zenon DEF FileInv
    <3>6. pos[Fd[u]] + Pending(u) <= Len(file')
      BY <3>1, <3>4, <3>5, SMTT(30)
    <3> QED
      BY <3>1, <3>2, <3>3, <3>6, Zenon
  <2> QED
    BY <2>1, <2>2, Zenon
<1> QED
  BY <1>1, Zenon DEF FileInv

(* Descriptors are not shared. *)
LEMMA FdsDiffer ==
  ASSUME NEW t \in Threads
  PROVE  /\ Fd[t] \in Kernel!Fds
         /\ \A u \in Threads \ {t} : Fd[u] # Fd[t] /\ Fd[u] \in Kernel!Fds
BY FdAssumption, Zenon DEF Kernel!Fds

(* lseek keeps the invariant of the file. *)
LEMMA LseekKeeps ==
  ASSUME FileInv, NEW t \in Threads, Lseek(t)
  PROVE  FileInv'
<1>1. PICK o \in 0 .. Len(file) :
        /\ pos' = [pos EXCEPT ![Fd[t]] = o]
        /\ result' = [result EXCEPT ![t] = [ret |-> o, data |-> << >>]]
  BY Zenon DEF Lseek, Kernel!Seek, Kernel!NoData
<1>2. UNCHANGED <<file, pc, offset>> /\ pc[t] = "app"
  BY Zenon DEF Lseek, Kernel!Seek, NewCall, Running
<1>3. /\ file \in Seq(Threads) /\ Len(file) \in Nat /\ pos \in [Kernel!Fds -> Nat]
      /\ result \in [Threads -> [ret : Int, data : Seq(Threads)]]
      /\ pc \in [Threads -> {"app", "pread", "pwrite", "advance"}] /\ offset \in [Threads -> Nat]
  BY LenProperties, Zenon DEF FileInv
<1>4. o \in Nat /\ o <= Len(file)
  BY <1>3
<1>5. [ret |-> o, data |-> << >>] \in [ret : Int, data : Seq(Threads)]
  BY <1>4
<1>6. /\ result' \in [Threads -> [ret : Int, data : Seq(Threads)]]
      /\ \A u \in Threads \ {t} : result'[u] = result[u]
  BY <1>1, <1>3, <1>5, Zenon
<1>7. /\ pos' \in [Kernel!Fds -> Nat] /\ pos'[Fd[t]] = o
      /\ \A u \in Threads \ {t} : pos'[Fd[u]] = pos[Fd[u]]
  BY <1>1, <1>3, <1>4, FdsDiffer, Zenon
<1>8. /\ pos'[Fd[t]] + (IF pc'[t] = "advance" THEN result'[t].ret ELSE 0) <= Len(file')
      /\ pc'[t] = "app" /\ Len(file') >= Len(file)
  BY <1>2, <1>3, <1>4, <1>7, SMTT(30)
<1> QED
  BY <1>2, <1>3, <1>6, <1>7, <1>8, FileOneThread, Zenon

(* Asking the kernel for the position keeps the invariant of the file. *)
LEMMA AskOffsetKeeps ==
  ASSUME FileInv, NEW t \in Threads, NEW call \in {"pread", "pwrite"}, AskOffset(t, call)
  PROVE  FileInv'
<1>1. /\ offset' = [offset EXCEPT ![t] = pos[Fd[t]]] /\ pc' = [pc EXCEPT ![t] = call]
      /\ UNCHANGED <<file, pos, result>> /\ pc[t] = "app"
  BY Zenon DEF AskOffset, NewCall, Running, fileVars
<1>2. /\ file \in Seq(Threads) /\ Len(file) \in Nat /\ pos \in [Kernel!Fds -> Nat]
      /\ result \in [Threads -> [ret : Int, data : Seq(Threads)]]
      /\ pc \in [Threads -> {"app", "pread", "pwrite", "advance"}] /\ offset \in [Threads -> Nat]
  BY LenProperties, Zenon DEF FileInv
<1>3. pos[Fd[t]] \in Nat /\ pos[Fd[t]] + 0 <= Len(file)
  BY <1>1, <1>2, FdsDiffer, Zenon DEF FileInv, Pending
<1>4. /\ offset' \in [Threads -> Nat] /\ offset'[t] = pos'[Fd[t]]
      /\ pc' \in [Threads -> {"app", "pread", "pwrite", "advance"}] /\ pc'[t] = call
      /\ \A u \in Threads \ {t} : offset'[u] = offset[u] /\ pc'[u] = pc[u]
  BY <1>1, <1>2, <1>3, Zenon
<1>5. /\ pos'[Fd[t]] + (IF pc'[t] = "advance" THEN result'[t].ret ELSE 0) <= Len(file')
      /\ pc'[t] # "advance" /\ Len(file') >= Len(file)
  BY <1>1, <1>2, <1>3, <1>4, SMTT(30)
<1> QED
  BY <1>1, <1>2, <1>4, <1>5, FileOneThread, Zenon

(* pread() and pwrite(). *)
LEMMA ReturnedKeeps ==
  ASSUME FileInv, NEW t \in Threads, NEW ret \in Int, NEW data \in Seq(Threads),
         Returned(t, ret, data), pc[t] \in {"pread", "pwrite"},
         file' \in Seq(Threads), Len(file') >= Len(file),
         ret > 0 => pos[Fd[t]] + ret <= Len(file')
  PROVE  FileInv'
<1>1. /\ result' = [result EXCEPT ![t] = [ret |-> ret, data |-> data]]
      /\ pc' = [pc EXCEPT ![t] = IF ret > 0 THEN "advance" ELSE "app"]
      /\ UNCHANGED <<offset, pos>>
  BY Zenon DEF Returned
<1>2. /\ file \in Seq(Threads) /\ Len(file) \in Nat /\ pos \in [Kernel!Fds -> Nat]
      /\ result \in [Threads -> [ret : Int, data : Seq(Threads)]]
      /\ pc \in [Threads -> {"app", "pread", "pwrite", "advance"}] /\ offset \in [Threads -> Nat]
      /\ Len(file') \in Nat
  BY LenProperties, Zenon DEF FileInv
<1>3. pos[Fd[t]] \in Nat /\ pos[Fd[t]] + 0 <= Len(file)
  BY <1>2, FdsDiffer, Zenon DEF FileInv, Pending
<1>4. /\ result' \in [Threads -> [ret : Int, data : Seq(Threads)]] /\ result'[t].ret = ret
      /\ \A u \in Threads \ {t} : result'[u] = result[u]
  <2>1. [ret |-> ret, data |-> data] \in [ret : Int, data : Seq(Threads)]
    BY Zenon
  <2> QED
    BY <1>1, <1>2, <2>1, Zenon
<1>5. /\ pc' \in [Threads -> {"app", "pread", "pwrite", "advance"}]
      /\ pc'[t] = IF ret > 0 THEN "advance" ELSE "app"
      /\ \A u \in Threads \ {t} : pc'[u] = pc[u]
  BY <1>1, <1>2, Zenon
<1>6. pos'[Fd[t]] + (IF pc'[t] = "advance" THEN result'[t].ret ELSE 0) <= Len(file')
  BY <1>1, <1>2, <1>3, <1>4, <1>5, SMTT(30)
<1> QED
  BY <1>1, <1>2, <1>4, <1>5, <1>6, FileOneThread, Zenon

(* Moving the position after a call keeps the invariant of the file. *)
LEMMA AdvanceKeeps ==
  ASSUME FileInv, NEW t \in Threads, Advance(t)
  PROVE  /\ FileInv'
         /\ pos' = [pos EXCEPT ![Fd[t]] = @ + result[t].ret] /\ pc' = [pc EXCEPT ![t] = "app"]
         /\ UNCHANGED <<file, result>> /\ pc[t] = "advance"
<1>1. /\ pos' = [pos EXCEPT ![Fd[t]] = @ + result[t].ret] /\ pc' = [pc EXCEPT ![t] = "app"]
      /\ UNCHANGED <<file, result, offset>> /\ pc[t] = "advance"
  BY Zenon DEF Advance, Moved
<1>2. /\ file \in Seq(Threads) /\ Len(file) \in Nat /\ pos \in [Kernel!Fds -> Nat]
      /\ result \in [Threads -> [ret : Int, data : Seq(Threads)]]
      /\ pc \in [Threads -> {"app", "pread", "pwrite", "advance"}] /\ offset \in [Threads -> Nat]
  BY LenProperties, Zenon DEF FileInv
<1>3. result[t] \in [ret : Int, data : Seq(Threads)]
  BY <1>2, Zenon
<1>4. /\ result[t].ret \in Nat /\ pos[Fd[t]] \in Nat
      /\ pos[Fd[t]] + result[t].ret <= Len(file)
  BY <1>1, <1>2, <1>3, FdsDiffer, SMTT(30) DEF FileInv, Pending
<1>5. /\ pos' \in [Kernel!Fds -> Nat] /\ pos'[Fd[t]] = pos[Fd[t]] + result[t].ret
      /\ \A u \in Threads \ {t} : pos'[Fd[u]] = pos[Fd[u]]
  BY <1>1, <1>2, <1>4, FdsDiffer, SMTT(30)
<1>6. /\ pc' \in [Threads -> {"app", "pread", "pwrite", "advance"}] /\ pc'[t] = "app"
      /\ \A u \in Threads \ {t} : pc'[u] = pc[u]
  BY <1>1, <1>2, Zenon
<1>7. /\ pos'[Fd[t]] + (IF pc'[t] = "advance" THEN result'[t].ret ELSE 0) <= Len(file')
      /\ Len(file') >= Len(file)
  BY <1>1, <1>2, <1>4, <1>5, <1>6, SMTT(30)
<1>8. FileInv'
  BY <1>1, <1>2, <1>5, <1>6, <1>7, FileOneThread, Zenon
<1> QED
  BY <1>1, <1>8, Zenon

(* What pread() and pwrite() return and do to the file, where the          *)
(* descriptor stands.                                                      *)
LEMMA CallAt ==
  ASSUME FileInv, NEW t \in Threads, Pread(t) \/ Pwrite(t) \/ CallFails(t)
  PROVE  /\ pc[t] \in {"pread", "pwrite"}
         /\ \/ /\ UNCHANGED file
               /\ Returned(t, Len(Kernel!Available(pos[Fd[t]])), Kernel!Available(pos[Fd[t]]))
            \/ \E n \in 1 .. Count :
                 /\ pos[Fd[t]] + n <= MaxLen
                 /\ file' = Kernel!Overwritten(t, pos[Fd[t]], n)
                 /\ Returned(t, n, << >>)
            \/ UNCHANGED file /\ Returned(t, -1, << >>)
<1>1. pc[t] \in {"pread", "pwrite"}
  BY Zenon DEF Pread, Pwrite, CallFails
<1>2. offset[t] = pos[Fd[t]]
  BY <1>1, Zenon DEF FileInv
<1>3. CASE Pread(t)
  BY <1>1, <1>2, <1>3, Zenon DEF Pread
<1>4. CASE Pwrite(t)
  BY <1>1, <1>2, <1>4, Zenon DEF Pwrite
<1>5. CASE CallFails(t)
  BY <1>1, <1>5, Zenon DEF CallFails
<1> QED
  BY <1>3, <1>4, <1>5, Zenon

(* The pread or pwrite itself, done or failed, keeps the invariant of the  *)
(* file.                                                                   *)
LEMMA CallKeeps ==
  ASSUME FileInv, NEW t \in Threads, Pread(t) \/ Pwrite(t) \/ CallFails(t)
  PROVE  FileInv'
<1>1. /\ file \in Seq(Threads) /\ Len(file) \in Nat /\ pos[Fd[t]] \in Nat
      /\ pc[t] \in {"pread", "pwrite"} /\ << >> \in Seq(Threads)
  BY LenProperties, CallAt, FdsDiffer, SMTT(30) DEF FileInv
<1>2. pos[Fd[t]] <= Len(file)
  <2>1. pos[Fd[t]] + Pending(t) <= Len(file) /\ Pending(t) = 0
    BY <1>1, Zenon DEF FileInv, Pending
  <2> QED
    BY <1>1, <2>1
<1> DEFINE data == Kernel!Available(pos[Fd[t]])
<1>3. CASE UNCHANGED file /\ Returned(t, Len(data), data)
  <2>1. data \in Seq(Threads) /\ pos[Fd[t]] + Len(data) <= Len(file)
    BY <1>1, <1>2, AvailableIs, Zenon
  <2>2. Len(data) \in Nat
    BY <2>1, LenProperties, Zenon
  <2> HIDE DEF data
  <2>3. /\ Returned(t, Len(data), data) /\ file' \in Seq(Threads) /\ Len(file') >= Len(file)
        /\ Len(data) > 0 => pos[Fd[t]] + Len(data) <= Len(file')
    BY <1>1, <1>3, <2>1, SMTT(30)
  <2> QED
    BY <1>1, <2>1, <2>2, <2>3, ReturnedKeeps, SMTT(30)
<1>4. ASSUME NEW n \in 1 .. Count, file' = Kernel!Overwritten(t, pos[Fd[t]], n), Returned(t, n, << >>)
      PROVE  FileInv'
  <2>1. n \in Nat
    BY CountAssumption
  <2>2. file' \in Seq(Threads) /\ Len(file') >= Len(file) /\ Len(file') >= pos[Fd[t]] + n
    BY <1>1, <1>2, <1>4, <2>1, OverwrittenIs, Zenon
  <2>3. pos[Fd[t]] + n <= Len(file')
    BY <1>1, <2>1, <2>2, LenProperties, Zenon
  <2>4. n \in Int
    BY <2>1
  <2> QED
    BY <1>1, <1>4, <2>2, <2>3, <2>4, ReturnedKeeps, Zenon
<1>5. CASE UNCHANGED file /\ Returned(t, -1, << >>)
  <2>1. Len(file') >= Len(file) /\ file' \in Seq(Threads) /\ ~(-1 > 0) /\ -1 \in Int
    BY <1>1, <1>5, SMTT(30)
  <2> QED
    BY <1>1, <1>5, <2>1, ReturnedKeeps, Zenon
<1> QED
  BY <1>3, <1>4, <1>5, CallAt, Zenon

(* Every step keeps the invariant of the file. *)
LEMMA NextFileInv == FileInv /\ [Next]_vars => FileInv'
<1> SUFFICES ASSUME FileInv, [Next]_vars PROVE FileInv'
  BY Zenon
<1>1. ASSUME UNCHANGED <<pc, offset, fileVars>> PROVE FileInv'
  BY <1>1, Zenon DEF FileInv, Pending, fileVars
<1>2. CASE UNCHANGED vars
  BY <1>1, <1>2, Zenon DEF vars
<1>3. CASE Next
  <2>1. PICK t \in Threads :
          \/ \E g \in Graphs : Enter(t, g) \/ Panic(t, g)
          \/ Leave(t)
          \/ PauseCurrentSCGraph(t) \/ ResumeCurrentSCGraph(t)
          \/ Lseek(t)
          \/ \E call \in {"pread", "pwrite"} : AskOffset(t, call)
          \/ Pread(t) \/ Pwrite(t) \/ CallFails(t)
          \/ Advance(t)
    BY <1>3, Zenon DEF Next
  <2>2. CASE \/ \E g \in Graphs : Enter(t, g) \/ Panic(t, g)
             \/ Leave(t) \/ PauseCurrentSCGraph(t) \/ ResumeCurrentSCGraph(t)
    BY <1>1, <2>2, Zenon DEF Enter, Panic, Leave, PauseCurrentSCGraph, ResumeCurrentSCGraph
  <2>3. CASE Lseek(t)
    BY <2>3, LseekKeeps, Zenon
  <2>4. CASE \E call \in {"pread", "pwrite"} : AskOffset(t, call)
    BY <2>4, AskOffsetKeeps, Zenon
  <2>5. CASE Pread(t) \/ Pwrite(t) \/ CallFails(t)
    BY <2>5, CallKeeps, Zenon
  <2>6. CASE Advance(t)
    BY <2>6, AdvanceKeeps, Zenon
  <2> QED
    BY <2>1, <2>2, <2>3, <2>4, <2>5, <2>6, Zenon
<1> QED
  BY <1>2, <1>3, Zenon

(* The refinement mapping at the descriptor of a thread. *)
LEMMA Owner == \A t \in Threads : (CHOOSE u \in Threads : Fd[u] = Fd[t]) = t
BY FdAssumption, Zenon

Place(t) == IF pc[t] = "advance" THEN pos[Fd[t]] + result[t].ret ELSE pos[Fd[t]]

(* The position that a thread sees is its place, before and after a step. *)
LEMMA PositionIs ==
  /\ Position = [f \in Kernel!Fds |-> Position[f]]
  /\ Position' = [f \in Kernel!Fds |-> Position'[f]]
  /\ \A t \in Threads : Position[Fd[t]] = Place(t)
  /\ \A t \in Threads : Position'[Fd[t]] = Place(t)'
<1>1. /\ Position = [f \in Kernel!Fds |-> Position[f]]
      /\ Position' = [f \in Kernel!Fds |-> Position'[f]]
  BY DEF Position
<1>2. ASSUME NEW t \in Threads
      PROVE  Position[Fd[t]] = Place(t) /\ Position'[Fd[t]] = Place(t)'
  <2>1. Fd[t] \in Kernel!Fds
    BY Zenon DEF Kernel!Fds
  <2> DEFINE o(f) == CHOOSE u \in Threads : Fd[u] = f
  <2>2. /\ Position = [f \in Kernel!Fds |->
                       IF pc[o(f)] = "advance" THEN pos[f] + result[o(f)].ret ELSE pos[f]]
        /\ Position' = [f \in Kernel!Fds |->
                       IF pc'[o(f)] = "advance" THEN pos'[f] + result'[o(f)].ret ELSE pos'[f]]
    BY Zenon DEF Position
  <2>3. o(Fd[t]) = t
    BY Owner, Zenon
  <2> HIDE DEF o
  <2> QED
    BY <2>1, <2>2, <2>3, Zenon DEF Place
<1> QED
  BY <1>1, <1>2, Zenon

(* A step of a thread moves its own position only. *)
LEMMA PositionStep ==
  ASSUME NEW t \in Threads,
         \A u \in Threads \ {t} : /\ pc'[u] = pc[u] /\ result'[u] = result[u]
                                  /\ pos'[Fd[u]] = pos[Fd[u]]
  PROVE  Position' = [Position EXCEPT ![Fd[t]] = Place(t)']
<1>1. \A u \in Threads \ {t} : Place(u)' = Place(u) /\ Fd[u] # Fd[t]
  BY FdsDiffer, Zenon DEF Place
<1> DEFINE F == [Position EXCEPT ![Fd[t]] = Place(t)']
<1>2. F = [f \in Kernel!Fds |-> F[f]]
  BY PositionIs, Zenon
<1>3. ASSUME NEW f \in Kernel!Fds PROVE Position'[f] = F[f]
  <2>1. PICK u \in Threads : f = Fd[u]
    BY Zenon DEF Kernel!Fds
  <2>2. Position'[f] = Place(u)' /\ Position[f] = Place(u)
    BY <2>1, PositionIs, Zenon
  <2>3. F[f] = IF f = Fd[t] THEN Place(t)' ELSE Position[f]
    BY PositionIs, Zenon
  <2>4. CASE u = t
    BY <2>1, <2>2, <2>3, <2>4, Zenon
  <2>5. CASE u # t
    BY <1>1, <2>1, <2>2, <2>3, <2>5, Zenon
  <2> QED
    BY <2>4, <2>5, Zenon
<1> HIDE DEF F
<1>4. Position' = F
  BY <1>2, <1>3, PositionIs, Zenon
<1> QED
  BY <1>4, Zenon DEF F

(* The position moves when pread() or pwrite() returns. *)
LEMMA ReturnedMoves ==
  ASSUME FileInv, NEW t \in Threads, NEW ret \in Int, NEW data,
         Returned(t, ret, data), pc[t] \in {"pread", "pwrite"}
  PROVE  /\ result' = [result EXCEPT ![t] = [ret |-> ret, data |-> data]]
         /\ Position[Fd[t]] = pos[Fd[t]] /\ pos[Fd[t]] \in Nat
         /\ Position' = [Position EXCEPT ![Fd[t]] = @ + (IF ret > 0 THEN ret ELSE 0)]
<1>1. /\ result' = [result EXCEPT ![t] = [ret |-> ret, data |-> data]]
      /\ pc' = [pc EXCEPT ![t] = IF ret > 0 THEN "advance" ELSE "app"]
      /\ UNCHANGED pos
  BY Zenon DEF Returned
<1>2. /\ result'[t].ret = ret /\ pc'[t] = IF ret > 0 THEN "advance" ELSE "app"
      /\ \A u \in Threads \ {t} : /\ pc'[u] = pc[u] /\ result'[u] = result[u]
                                  /\ pos'[Fd[u]] = pos[Fd[u]]
  BY <1>1, Zenon DEF FileInv
<1>3. Position' = [Position EXCEPT ![Fd[t]] = Place(t)']
  BY <1>2, PositionStep, Zenon
<1>4. pos[Fd[t]] \in Nat
  BY FdsDiffer, Zenon DEF FileInv
<1>5. Position[Fd[t]] = pos[Fd[t]]
  BY PositionIs, Zenon DEF Place
<1>6. Place(t)' = Position[Fd[t]] + (IF ret > 0 THEN ret ELSE 0)
  BY <1>1, <1>2, <1>4, <1>5, SMTT(30) DEF Place
<1> QED
  BY <1>1, <1>3, <1>4, <1>5, <1>6, Zenon

(* The pread or pwrite is the atomic read or write at the position. *)
LEMMA CallRefines ==
  ASSUME FileInv, NEW t \in Threads, Pread(t) \/ Pwrite(t) \/ CallFails(t)
  PROVE  Atomic!Next
<1>1. /\ file \in Seq(Threads) /\ Len(file) \in Nat /\ pos[Fd[t]] \in Nat
      /\ pc[t] \in {"pread", "pwrite"}
  BY LenProperties, CallAt, FdsDiffer, Zenon DEF FileInv
<1>2. pos[Fd[t]] <= Len(file)
  <2>1. pos[Fd[t]] + Pending(t) <= Len(file) /\ Pending(t) = 0
    BY <1>1, Zenon DEF FileInv, Pending
  <2> QED
    BY <1>1, <2>1, SMTT(30)
<1> DEFINE data == Kernel!Available(pos[Fd[t]])
<1>3. CASE UNCHANGED file /\ Returned(t, Len(data), data)
  <2>1. PICK d, n : d = data /\ n = Len(d) /\ Returned(t, n, d)
    BY <1>3, Zenon
  <2>2. d = Atomic!Available(pos[Fd[t]]) /\ d \in Seq(Threads)
    BY <1>1, <2>1, AvailableIs, Zenon
  <2>3. n \in Nat /\ n \in Int
    BY <2>1, <2>2, LenProperties, SMTT(30)
  <2>4. /\ result' = [result EXCEPT ![t] = [ret |-> n, data |-> d]]
        /\ Position[Fd[t]] = pos[Fd[t]]
        /\ Position' = [Position EXCEPT ![Fd[t]] = @ + (IF n > 0 THEN n ELSE 0)]
    BY <1>1, <2>1, <2>3, ReturnedMoves, SMTT(30)
  <2>5. Position' = [Position EXCEPT ![Fd[t]] = @ + n]
    <3>1. (IF n > 0 THEN n ELSE 0) = n
      BY <2>3
    <3> QED
      BY <2>4, <3>1, Zenon
  <2>6. d = Atomic!Available(Position[Fd[t]])
    BY <2>2, <2>4, Zenon
  <2>7. Atomic!Read(t)
    BY <1>3, <2>1, <2>4, <2>5, <2>6, Zenon DEF Atomic!Read
  <2> QED
    BY <2>7, Zenon DEF Atomic!Next
<1>4. ASSUME NEW n \in 1 .. Count, pos[Fd[t]] + n <= MaxLen,
             file' = Kernel!Overwritten(t, pos[Fd[t]], n), Returned(t, n, << >>)
      PROVE  Atomic!Next
  <2>1. n \in Nat /\ n \in Int /\ n > 0
    BY CountAssumption
  <2>2. file' = Atomic!Overwritten(t, pos[Fd[t]], n)
    BY <1>1, <1>2, <1>4, <2>1, OverwrittenIs, Zenon
  <2>3. /\ result' = [result EXCEPT ![t] = [ret |-> n, data |-> << >>]]
        /\ Position[Fd[t]] = pos[Fd[t]]
        /\ Position' = [Position EXCEPT ![Fd[t]] = @ + (IF n > 0 THEN n ELSE 0)]
    BY <1>1, <1>4, <2>1, ReturnedMoves, Zenon
  <2>4. Position' = [Position EXCEPT ![Fd[t]] = @ + n]
    BY <2>1, <2>3, Zenon
  <2>5. /\ Position[Fd[t]] + n <= MaxLen
        /\ file' = Atomic!Overwritten(t, Position[Fd[t]], n)
    BY <1>4, <2>2, <2>3, Zenon
  <2>6. Atomic!Write(t)
    BY <2>3, <2>4, <2>5, Zenon DEF Atomic!Write, Atomic!NoData
  <2> QED
    BY <2>6, Zenon DEF Atomic!Next
<1>5. CASE UNCHANGED file /\ Returned(t, -1, << >>)
  <2>1. /\ result' = [result EXCEPT ![t] = [ret |-> -1, data |-> << >>]]
        /\ Position[Fd[t]] = pos[Fd[t]]
        /\ Position' = [Position EXCEPT ![Fd[t]] = @ + (IF -1 > 0 THEN -1 ELSE 0)]
    BY <1>1, <1>5, ReturnedMoves, SMTT(30)
  <2>2. Position' = [Position EXCEPT ![Fd[t]] = Position[Fd[t]]]
    <3>1. Position[Fd[t]] + (IF -1 > 0 THEN -1 ELSE 0) = Position[Fd[t]]
      BY <1>1, <2>1, SMTT(30)
    <3> QED
      BY <2>1, <3>1, Zenon
  <2>3. Position' = Position
    BY <2>2, PositionIs, Zenon
  <2>4. Atomic!Fails(t)
    BY <1>5, <2>1, <2>3, Zenon DEF Atomic!Fails, Atomic!NoData
  <2> QED
    BY <2>4, Zenon DEF Atomic!Next
<1> QED
  BY <1>3, <1>4, <1>5, CallAt, Zenon

(* The initial states are those of the atomic calls. *)
LEMMA InitRefines == Init => Atomic!Init
<1> SUFFICES ASSUME Init PROVE Atomic!Init
  BY Zenon
<1>1. /\ file = << >> /\ pos = [f \in Kernel!Fds |-> 0]
      /\ result = [t \in Threads |-> [ret |-> 0, data |-> << >>]]
      /\ pc = [t \in Threads |-> "app"]
  BY Zenon DEF Init, Kernel!Init, Kernel!Fds, Kernel!NoData
<1>2. ASSUME NEW f \in Kernel!Fds PROVE Position[f] = 0
  <2>1. PICK t \in Threads : f = Fd[t]
    BY Zenon DEF Kernel!Fds
  <2> QED
    BY <1>1, <2>1, PositionIs, Zenon DEF Place
<1>3. Position = [f \in Kernel!Fds |-> 0]
  BY <1>2, PositionIs, Zenon
<1> QED
  BY <1>1, <1>3, Zenon DEF Atomic!Init, Atomic!Fds, Kernel!Fds, Atomic!NoData

(* Every step is an atomic call, or changes nothing that can be seen. *)
LEMMA StepRefines == FileInv /\ [Next]_vars => [Atomic!Next]_(Atomic!vars)
<1> SUFFICES ASSUME FileInv, [Next]_vars PROVE [Atomic!Next]_(Atomic!vars)
  BY Zenon
<1>1. ASSUME UNCHANGED <<file, result, Position>> PROVE UNCHANGED Atomic!vars
  BY <1>1, Zenon DEF Atomic!vars
<1>2. ASSUME UNCHANGED <<pc, fileVars>> PROVE UNCHANGED <<file, result, Position>>
  <2>1. \A t \in Threads : Place(t)' = Place(t)
    BY <1>2, Zenon DEF fileVars, Place
  <2>2. \A f \in Kernel!Fds : Position'[f] = Position[f]
    BY <2>1, PositionIs, SMTT(30) DEF Kernel!Fds
  <2> QED
    BY <1>2, <2>2, PositionIs, Zenon DEF fileVars
<1>3. CASE UNCHANGED vars
  BY <1>1, <1>2, <1>3, Zenon DEF vars
<1>4. CASE Next
  <2>1. PICK t \in Threads :
          \/ \E g \in Graphs : Enter(t, g) \/ Panic(t, g)
          \/ Leave(t)
          \/ PauseCurrentSCGraph(t) \/ ResumeCurrentSCGraph(t)
          \/ Lseek(t)
          \/ \E call \in {"pread", "pwrite"} : AskOffset(t, call)
          \/ Pread(t) \/ Pwrite(t) \/ CallFails(t)
          \/ Advance(t)
    BY <1>4, Zenon DEF Next
  <2>2. CASE \/ \E g \in Graphs : Enter(t, g) \/ Panic(t, g)
             \/ Leave(t) \/ PauseCurrentSCGraph(t) \/ ResumeCurrentSCGraph(t)
    BY <1>1, <1>2, <2>2, Zenon DEF Enter, Panic, Leave, PauseCurrentSCGraph, ResumeCurrentSCGraph
  <2>3. CASE Lseek(t)
    <3>1. PICK o \in 0 .. Len(file) :
            /\ pos' = [pos EXCEPT ![Fd[t]] = o]
            /\ result' = [result EXCEPT ![t] = [ret |-> o, data |-> << >>]]
      BY <2>3, Zenon DEF Lseek, Kernel!Seek, Kernel!NoData
    <3>2. UNCHANGED <<file, pc>> /\ pc[t] = "app"
      BY <2>3, Zenon DEF Lseek, Kernel!Seek, NewCall, Running
    <3>3. /\ pos'[Fd[t]] = o
          /\ \A u \in Threads \ {t} : /\ pc'[u] = pc[u] /\ result'[u] = result[u]
                                      /\ pos'[Fd[u]] = pos[Fd[u]]
      BY <3>1, <3>2, FdsDiffer, Zenon DEF FileInv
    <3>4. Position' = [Position EXCEPT ![Fd[t]] = Place(t)'] /\ Place(t)' = o
      BY <3>2, <3>3, PositionStep, Zenon DEF Place
    <3>5. Atomic!Seek(t)
      BY <3>1, <3>2, <3>4, Zenon DEF Atomic!Seek, Atomic!NoData
    <3> QED
      BY <3>5, Zenon DEF Atomic!Next
  <2>4. CASE \E call \in {"pread", "pwrite"} : AskOffset(t, call)
    <3>1. PICK call \in {"pread", "pwrite"} : AskOffset(t, call)
      BY <2>4, Zenon
    <3>2. pc' = [pc EXCEPT ![t] = call] /\ UNCHANGED <<file, pos, result>> /\ pc[t] = "app"
      BY <3>1, Zenon DEF AskOffset, NewCall, Running, fileVars
    <3>3. pc'[t] = call /\ \A u \in Threads \ {t} : pc'[u] = pc[u]
      BY <3>2, Zenon DEF FileInv
    <3>4. Position' = [Position EXCEPT ![Fd[t]] = Place(t)'] /\ Place(t)' = Place(t)
      BY <3>2, <3>3, PositionStep, Zenon DEF Place
    <3>5. Position' = Position
      BY <3>4, PositionIs, Zenon
    <3> QED
      BY <1>1, <3>2, <3>5, Zenon
  <2>5. CASE Pread(t) \/ Pwrite(t) \/ CallFails(t)
    BY <2>5, CallRefines, Zenon
  <2>6. CASE Advance(t)
    <3>1. /\ pos' = [pos EXCEPT ![Fd[t]] = @ + result[t].ret] /\ pc' = [pc EXCEPT ![t] = "app"]
          /\ UNCHANGED <<file, result>> /\ pc[t] = "advance"
      BY <2>6, AdvanceKeeps, Zenon
    <3>2. /\ pos'[Fd[t]] = pos[Fd[t]] + result[t].ret /\ pc'[t] = "app"
          /\ \A u \in Threads \ {t} : pc'[u] = pc[u] /\ pos'[Fd[u]] = pos[Fd[u]]
      BY <3>1, FdsDiffer, Zenon DEF FileInv
    <3>3. Position' = [Position EXCEPT ![Fd[t]] = Place(t)'] /\ Place(t)' = Place(t)
      BY <3>1, <3>2, PositionStep, Zenon DEF Place
    <3>4. Position' = Position
      BY <3>3, PositionIs, Zenon
    <3> QED
      BY <1>1, <3>1, <3>4, Zenon
  <2> QED
    BY <2>1, <2>2, <2>3, <2>4, <2>5, <2>6, Zenon
<1> QED
  BY <1>3, <1>4, Zenon

(* The read() and write() of posix_itf.cpp, each made of three calls, and  *)
(* its lseek() implement atomic ones, whatever the other threads do to the *)
(* file in between and for any number of threads, each with a descriptor   *)
(* of its own.                                                             *)
THEOREM FileRefined == Spec => ImplementsFile
<1> QED
  BY InitFileInv, NextFileInv, InitRefines, StepRefines, PTL DEF Spec, ImplementsFile, Atomic!Spec
=============================================================================
