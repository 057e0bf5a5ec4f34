------------------------------ MODULE VotorVotes ------------------------------
(***************************************************************************)
(* The votes of Alpenglow, the certificates made of them, and the stake they *)
(* need: what the consensus pool of a validator and the cluster have in      *)
(* common.  Genesis votes belong to the migration and are left out.          *)
(***************************************************************************)
EXTENDS Naturals, FiniteSets

CONSTANTS Validator,
          Block, NoBlock, \* block ids; the absence of one
          StakeOf         \* the stake of a set of validators

Total == StakeOf[Validator]

ASSUME StakeAssumption ==
    /\ IsFiniteSet(Validator) /\ IsFiniteSet(Block) /\ NoBlock \notin Block
    /\ StakeOf \in [SUBSET Validator -> Nat] /\ StakeOf[{}] = 0 /\ Total > 0
    /\ \A S, T \in SUBSET Validator :
           S \cap T = {} => StakeOf[S \cup T] = StakeOf[S] + StakeOf[T]

(* Fraction::new(stake, total) >= Fraction::from_percentage(percent)         *)
AtLeast(stake, percent) == stake * 100 >= percent * Total

-----------------------------------------------------------------------------
Key == Block \cup {NoBlock}
BlockTypes == {"Notarize", "NotarizeFallback"}
PlainTypes == {"Finalize", "Skip", "SkipFallback"}

(* Mutant: a skip-fallback vote is taken after a skip vote.                  *)
ConflictingTypesTwice(t) ==
    CASE t = "Finalize"         -> {"NotarizeFallback", "Skip", "SkipFallback"}
      [] t = "Notarize"         -> {"Skip", "NotarizeFallback"}
      [] t = "NotarizeFallback" -> {"Finalize", "Notarize"}
      [] t = "Skip"             -> {"Finalize", "Notarize", "SkipFallback"}
      [] t = "SkipFallback"     -> {"Finalize"}

ConflictingTypes(t) ==
    CASE t = "Finalize"         -> {"NotarizeFallback", "Skip", "SkipFallback"}
      [] t = "Notarize"         -> {"Skip", "NotarizeFallback"}
      [] t = "NotarizeFallback" -> {"Finalize", "Notarize"}
      [] t = "Skip"             -> {"Finalize", "Notarize", "SkipFallback"}
      [] t = "SkipFallback"     -> {"Skip", "Finalize"}

(* How many votes of a type a pool keeps of one validator for a slot.        *)
MaxEntries(t) == IF t = "NotarizeFallback" THEN 3 ELSE 1

(* The vote pools of a slot: who voted, by vote type and block.              *)
NewPools == [t \in BlockTypes \cup PlainTypes |-> [b \in Key |-> {}]]

SlotPools == [BlockTypes \cup PlainTypes -> [Key -> SUBSET Validator]]

-----------------------------------------------------------------------------
BlockCerts == {"Notarize", "NotarizeFallback", "FinalizeFast"}
PlainCerts == {"Finalize", "Skip"}

(* limits_and_vote_types()                                                  *)
Limit(t) == IF t = "FinalizeFast" THEN 80 ELSE 60
VoteTypes(t) ==
    CASE t = "NotarizeFallback" -> {"Notarize", "NotarizeFallback"}
      [] t = "Skip"             -> {"Skip", "SkipFallback"}
      [] t = "Finalize"         -> {"Finalize"}
      [] OTHER                  -> {"Notarize"}

(* The validators whose votes count for a certificate.                       *)
Backers(p, t, b) == UNION {p[u][b] : u \in VoteTypes(t)}
=============================================================================
