----------------------------- MODULE MCBuffers ------------------------------
(* The copying loops of the plugins as instances of Buffers for TLC. *)
EXTENDS Buffers, TLC

Writes == {i \in Pos : ~IsRead(i)}

(* cp's sparse_copy: every pread but the last, which finds the end of the  *)
(* file, is linked to its pwrite.                                          *)
CopyLink == {i \in Pos : IsRead(i) /\ Offset(i) < Size}
CopyBranch == 1 .. PathLen

LinkPlugins == {Linking}
PlainPlugins == {StreamingSingle, StreamingMany, Crossing}

Sym == Permutations(IBufs)
=============================================================================
