------------------------------- MODULE MCPlic -------------------------------
(* Two sources in different halves of the tree, below, at and above the       *)
(* threshold, tied or not.                                                     *)
EXTENDS Plic
MCPriorities == {<<1, 2>>, <<2, 1>>, <<2, 2>>, <<0, 2>>}
MCOnePriority == {<<1, 1>>}
=============================================================================
