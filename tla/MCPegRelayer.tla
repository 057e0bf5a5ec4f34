---------------------------- MODULE MCPegRelayer ----------------------------
(* Deposits of 2, 1, 3 and 1 token units; the last one has no valid memo.   *)
EXTENDS PegRelayer

MCAmount == [d \in 1..N |-> <<2, 1, 3, 1>>[d]]
MCValid == 1..(N - 1)
=============================================================================
