----------------------------- MODULE MCSyscalls -----------------------------
(* An instance of module Syscalls for TLC, positions counted from 0. *)
EXTENDS Syscalls

(* A directory and a file are opened; a branch on the descriptors follows; *)
(* the directory is read, the file is stated and rewound, two entries are  *)
(* looked up in a loop that may be left after each, and the directory is   *)
(* closed.                                                                 *)
MCPath ==
  [i \in 0 .. 7 |->
     CASE i = 0 -> [node |-> "openat", class |-> SyscallOpenat]
       [] i = 1 -> [node |-> "open", class |-> SyscallOpen]
       [] i = 2 -> [node |-> "getdents", class |-> SyscallGetdents]
       [] i = 3 -> [node |-> "fstat", class |-> SyscallFstat]
       [] i = 4 -> [node |-> "lseek", class |-> SyscallLseek]
       [] i \in {5, 6} -> [node |-> "fstatat", class |-> SyscallFstatat]
       [] i = 7 -> [node |-> "close", class |-> SyscallClose]]
MCNeeds ==
  [i \in 0 .. 7 |-> IF i \in {0, 1} THEN -1 ELSE IF i \in {3, 4} THEN 1 ELSE 0]
MCSeff == {0, 1, 4, 7}
Lookups == {5, 6}
MCBranch == {2, 6, 7}
MCReady == {2}
NoLink == {}
Upool == -1      \* what the worker's call returned
=============================================================================
