----------------------------- MODULE MCDuFiles ------------------------------
(* Directory trees for TLC. *)
EXTENDS DuFiles

Flat(files) == Root :> files

(* Directories of files, as in the du benchmark, of any size that is not a *)
(* multiple of max_entries; one with a last entry that is a directory; one *)
(* whose directory is followed by a single file; and a plain file.         *)
PlainTrees ==
  {Flat(<<"f1">>), Flat(<<"f1", "f2">>), Flat(<<"f1", "f2", "f3">>),
   Flat(<<"f1", "f2", "f3", "f4", "f5">>),
   Flat(<<"f1", "f2", "f3", "f4", "f5", "f6", "f7">>),
   Flat(<<"f1", "f2", "d1">>) @@ ("d1" :> <<"g1", "g2", "g3">>),
   Flat(<<"d1", "f1">>) @@ ("d1" :> <<"g1", "g2", "g3">>),
   << >>}

(* Directories without entries, and one as long as max_entries. *)
EmptyTrees ==
  {Flat(<<"f1", "f2", "f3">>), Flat(<< >>),
   Flat(<<"f1", "f2", "d1">>) @@ ("d1" :> << >>),
   Flat(<<"f1", "f2", "f3", "f4">>)}

(* A directory with entries after it. *)
NestedTrees == {Flat(<<"d1", "f1", "f2">>) @@ ("d1" :> <<"g1", "g2">>)}

(* The benchmark's layout: each argument is a directory of files. *)
FlatTrees == {Flat(SubSeq(<<"f1", "f2", "f3", "f4", "f5", "f6", "f7", "f8">>,
                          1, n)) : n \in 1 .. 8}

Setup(trees, depths, max_entries, debug) ==
  [trees |-> trees, depths |-> depths, max_entries |-> max_entries, debug |-> debug]

(* Short lists at small depths, whole directories at larger ones, and a    *)
(* build without assertions, which goes on after a directory that is empty *)
(* or as long as max_entries and may be asked for any tree next.           *)
MCSetups == {Setup(PlainTrees, 0 .. 2, 4, TRUE), Setup(FlatTrees, 3 .. 5, 10, TRUE),
             Setup(PlainTrees \cup EmptyTrees, 0 .. 2, 4, FALSE)}

NestedSetups == {Setup(NestedTrees, 0 .. 2, 4, TRUE)}
=============================================================================
