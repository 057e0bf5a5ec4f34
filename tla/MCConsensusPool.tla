---------------------------- MODULE MCConsensusPool ----------------------------
(* One validator with two fifths of the stake, three with a fifth each. *)
EXTENDS ConsensusPool, Functions, TLC

CONSTANTS v2, v3, v4, b1, b2, b3, b4

MCStake == [v \in Validator |-> IF v = Me THEN 40 ELSE 20]
MCStakeOf == [S \in SUBSET Validator |-> SumFunctionOnSet(MCStake, S)]
MCSentVotes ==
    {v \in Vote : /\ v.slot = 1
                  /\ v.type = "NotarizeFallback" \/ v.from = Me => v.block \in {b1, NoBlock}
                  /\ v.type = "SkipFallback" => v.from = Me}
MCSentCerts == {Cert("Finalize", 1, NoBlock), Cert("FinalizeFast", 2, b1)}
Symmetry == Permutations({v2, v3, v4}) \cup Permutations({b2, b3, b4})
=============================================================================
