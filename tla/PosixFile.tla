----------------------------- MODULE PosixFile -----------------------------
(***************************************************************************)
(* What an application expects of read(), write() and lseek() on an open   *)
(* file: each is one atomic step on the file and on the position of the    *)
(* descriptor.  A byte of the file is the thread that wrote it.            *)
(***************************************************************************)
EXTENDS Integers, Sequences

CONSTANTS
  Threads,
  Fd,        \* the descriptor each thread uses
  Count,     \* number of bytes asked for
  MaxLen     \* bound on the length of the file

VARIABLES file, pos, result

vars == <<file, pos, result>>

NoData == << >>

Fds == {Fd[t] : t \in Threads}

Init ==
  /\ file = << >>
  /\ pos = [f \in Fds |-> 0]
  /\ result = [t \in Threads |-> [ret |-> 0, data |-> NoData]]

(* A read returns the bytes at the position, all it asked for or up to the *)
(* end of the file, or an error.                                           *)
Available(offset) ==
  SubSeq(file, offset + 1,
         IF offset + Count > Len(file) THEN Len(file) ELSE offset + Count)

Fails(t) ==
  /\ result' = [result EXCEPT ![t] = [ret |-> -1, data |-> NoData]]
  /\ UNCHANGED <<file, pos>>

Read(t) ==
  /\ result' = [result EXCEPT ![t] = [ret |-> Len(Available(pos[Fd[t]])),
                                      data |-> Available(pos[Fd[t]])]]
  /\ pos' = [pos EXCEPT ![Fd[t]] = @ + Len(Available(@))]
  /\ UNCHANGED file

(* A write may be short. *)
Overwritten(t, offset, n) ==
  [i \in 1 .. IF offset + n > Len(file) THEN offset + n ELSE Len(file) |->
     IF i > offset /\ i <= offset + n THEN t ELSE file[i]]

Write(t) ==
  \E n \in 1 .. Count :
    /\ pos[Fd[t]] + n <= MaxLen
    /\ file' = Overwritten(t, pos[Fd[t]], n)
    /\ pos' = [pos EXCEPT ![Fd[t]] = @ + n]
    /\ result' = [result EXCEPT ![t] = [ret |-> n, data |-> NoData]]

(* lseek() to a place in the file. *)
Seek(t) ==
  \E offset \in 0 .. Len(file) :
    /\ pos' = [pos EXCEPT ![Fd[t]] = offset]
    /\ result' = [result EXCEPT ![t] = [ret |-> offset, data |-> NoData]]
    /\ UNCHANGED file

Next == \E t \in Threads : Read(t) \/ Write(t) \/ Seek(t) \/ Fails(t)

Spec == Init /\ [][Next]_vars
=============================================================================
