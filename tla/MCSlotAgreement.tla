---------------------------- MODULE MCSlotAgreement ----------------------------
(* Four voters with about a fifth of the stake each, and one validator with  *)
(* just under a fifth that need not follow the code.                         *)
EXTENDS SlotAgreement, Functions

CONSTANTS v1, v2, v3, v4, w

MCStake == [v \in Validator |-> IF v = w THEN 19 ELSE IF v = v1 THEN 21 ELSE 20]
MCStakeOf == [S \in SUBSET Validator |-> SumFunctionOnSet(MCStake, S)]
================================================================================
