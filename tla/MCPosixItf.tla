----------------------------- MODULE MCPosixItf -----------------------------
(* Instances of PosixItf for TLC. *)
EXTENDS PosixItf

CONSTANTS MCu, MCh  \* one of the threads and one of the graphs

(* Threads t and u, each with a descriptor of its own on the same file. *)
MCFd == [t \in Threads |-> t]

(* Graph g intercepts every call, h all but lseek(). *)
MCIgnored == [k \in Graphs |-> IF k = MCh THEN {"lseek"} ELSE {}]

(* Thread t nests, thread u does not. *)
MCMaxFrames == [k \in Threads |-> IF k = MCu THEN 1 ELSE 3]
MCMaxCalls == [k \in Threads |-> IF k = MCu THEN 1 ELSE 2]

(* Graph g has an io_uring and h a thread pool, or both have settings that *)
(* are rejected: a queue shorter than the depth, a flag that is not set, a *)
(* negative depth.                                                         *)
Uring(depth, queue, async) ==
  [depth |-> {depth}, queue |-> {queue}, async |-> async, uthreads |-> {}]
Pool(depth, n) == [depth |-> {depth}, queue |-> {}, async |-> {}, uthreads |-> {n}]

MCConfigs ==
  {[k \in Graphs |-> IF k = MCh THEN Pool(2, 1) ELSE Uring(2, 2, {FALSE})]}
    \cup {[k \in Graphs |-> c] :
            c \in {Uring(2, 1, {FALSE}), Uring(0, 1, {}), Uring(-1, 1, {TRUE})}}
=============================================================================
