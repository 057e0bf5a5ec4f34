----------------------------- MODULE MCEventHandler ---------------------------
(***************************************************************************)
(* The event handler on small instances.  A fork: one slot with two versions *)
(* of its block.  Join: windows of three slots, a start at the second slot   *)
(* of the first and a block in mid-window of the next that may be finalized, *)
(* and become the root, with or without the window's parent-ready.  Rest: a  *)
(* window of which one block arrives, after a start just before it.          *)
(***************************************************************************)
EXTENDS EventHandler

Genesis == <<0, 0>>
ForkBlock == {<<1, 1>>, <<1, 2>>}
ForkParent == [b \in ForkBlock |-> Genesis]
ForkChain == {<<1, 1>>}
JoinStart == <<1, 1>>
JoinBlock == {<<3, 1>>, <<4, 1>>}
JoinParent == [b \in JoinBlock |-> IF b[1] = 3 THEN JoinStart ELSE <<3, 1>>]
JoinChain == {<<4, 1>>}
RestStart == <<1, 1>>
RestBlock == {<<2, 1>>}
RestParent == [b \in RestBlock |-> RestStart]
NoSlots == {}
SlotOne == {1}
SlotTwo == {2}
=============================================================================
