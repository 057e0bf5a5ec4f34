---------------------------- MODULE SlotAgreement ----------------------------
(***************************************************************************)
(* One slot of the cluster: the votes of the validators that run this code,  *)
(* next to others with less than a fifth of the stake that may send any vote *)
(* to any pool.                                                             *)
(*                                                                         *)
(* A validator casts its votes as EventHandler does, on the events that a    *)
(* ConsensusPool sends.  A pool holds any part of the votes that were cast,  *)
(* and any votes of the others, one pool not the same as the next.  More     *)
(* votes in a pool never undo an event or a certificate, so that one is      *)
(* possible in some pool exactly when it is in a pool with all the votes     *)
(* that were cast and all the help of the others.                            *)
(***************************************************************************)
EXTENDS VotorVotes

CONSTANT Others   \* the validators that need not follow the code

Voter == Validator \ Others

ASSUME OthersAssumption ==
    Others \subseteq Validator /\ StakeOf[Others] * 100 < 20 * Total

VARIABLE votes    \* votes that were cast, by type and block

Voters(t) == UNION {votes[t][b] : b \in Key}

Cast(v, t, b) == votes' = [votes EXCEPT ![t][b] = @ \cup {v}]

-----------------------------------------------------------------------------
(* A certificate that some pool may hold.                                    *)
Certified(t, b) == AtLeast(StakeOf[Backers(votes, t, b) \cup Others], Limit(t))

(* Mutant: only a block that could be notarized without the skips is safe.    *)
SafeToNotarLate(b, help) == AtLeast(StakeOf[votes.Notarize[b] \cup help], 60)

(* SlotStakeCounters, with the help of some validators.                      *)
SafeToNotar(b, help) ==
    LET notarize == votes.Notarize[b] \cup help
    IN  \/ AtLeast(StakeOf[notarize], 40)
        \/ /\ AtLeast(StakeOf[notarize], 20)
           /\ AtLeast(StakeOf[notarize \cup Voters("Skip")], 60)

(* Mutant: votes that are split between blocks do not count.                 *)
SafeToSkipOnSkips(help) == AtLeast(StakeOf[help \cup Voters("Skip")], 40)

(* Whichever block has the most votes.                                       *)
SafeToSkip(help) ==
    \A top \in Block :
        AtLeast(StakeOf[help \cup Voters("Skip")
                        \cup UNION {votes.Notarize[b] : b \in Block \ {top}}], 40)

-----------------------------------------------------------------------------
Voted(v)     == v \in Voters("Notarize") \cup Voters("Skip")
ItsOver(v)   == v \in Voters("Finalize")
BadWindow(v) == v \in Voters("Skip") \cup Voters("NotarizeFallback") \cup Voters("SkipFallback")

(* Mutant: a slot may be voted on twice.                                     *)
TryNotarAgain(v, b) == b \notin {c \in Block : v \in votes.Notarize[c]} /\ Cast(v, "Notarize", b)

TryNotar(v, b) == ~Voted(v) /\ Cast(v, "Notarize", b)

TrySkip(v) == ~Voted(v) /\ Cast(v, "Skip", NoBlock)

(* Mutant: a fallback vote does not count.                                   *)
TryFinalAfterFallback(v, b) ==
    /\ v \in votes.Notarize[b] /\ ~ItsOver(v) /\ v \notin Voters("Skip")
    /\ Certified("Notarize", b)
    /\ Cast(v, "Finalize", NoBlock)

TryFinal(v, b) ==
    /\ v \in votes.Notarize[b] /\ ~ItsOver(v) /\ ~BadWindow(v)
    /\ Certified("Notarize", b)
    /\ Cast(v, "Finalize", NoBlock)

(* The fallback votes, when the pool of the voter has this help.  The skips   *)
(* of the other slots of the window do not concern this slot.                *)
NotarizeFallback(v, b, help) ==
    /\ Voted(v) /\ v \notin votes.Notarize[b] /\ SafeToNotar(b, help)
    /\ ~ItsOver(v) /\ v \notin votes.NotarizeFallback[b]
    /\ Cast(v, "NotarizeFallback", b)

SkipFallback(v, help) ==
    /\ v \in Voters("Notarize") /\ SafeToSkip(help)
    /\ ~ItsOver(v) /\ v \notin Voters("SkipFallback")
    /\ Cast(v, "SkipFallback", NoBlock)

Init == votes = NewPools

Next ==
    \E v \in Voter :
        \/ \E b \in Block : TryNotar(v, b) \/ TryFinal(v, b) \/ NotarizeFallback(v, b, Others)
        \/ TrySkip(v) \/ SkipFallback(v, Others)

Spec == Init /\ [][Next]_votes

(* Every voter votes on the slot, by the block or by the timers, and in the   *)
(* end has the votes of every other voter in its pool; the others may be      *)
(* silent.                                                                  *)
Fairness ==
    \A v \in Voter :
        /\ WF_votes(TrySkip(v))
        /\ WF_votes(SkipFallback(v, {}))
        /\ \A b \in Block : WF_votes(NotarizeFallback(v, b, {}))

FairSpec == Spec /\ Fairness

-----------------------------------------------------------------------------
TypeOK ==
    /\ votes \in [BlockTypes \cup PlainTypes -> [Key -> SUBSET Voter]]
    /\ \A t \in BlockTypes : votes[t][NoBlock] = {}
    /\ \A t \in PlainTypes, b \in Block : votes[t][b] = {}

(* A block is final by the fast certificate, or by the Notarize and the       *)
(* Finalize certificate in the slot.                                         *)
Final(b) ==
    \/ Certified("FinalizeFast", b)
    \/ Certified("Notarize", b) /\ Certified("Finalize", NoBlock)

(* When a block is final in any pool, no pool ever holds a certificate that   *)
(* would let the chain go on without it: not a skip certificate of the slot,  *)
(* and none for another block.                                               *)
FinalAlone ==
    \A b \in Block : Final(b) =>
        /\ ~Certified("Skip", NoBlock)
        /\ \A c \in Block \ {b} : ~Certified("NotarizeFallback", c) /\ ~Final(c)

(* The pools never hold Notarize certificates of two blocks of the slot:      *)
(* get_notarize_cert() looks for the first and takes it for the only one.     *)
NotarizedOnce ==
    \A b, c \in Block : Certified("Notarize", b) /\ Certified("Notarize", c) => b = c

(* The slot is decided in the end without the others' votes: it has a skip    *)
(* certificate or one for a block, and the next window can start.             *)
Decided ==
    \E S \in {Backers(votes, "Skip", NoBlock)}
             \cup {Backers(votes, "NotarizeFallback", b) : b \in Block} :
        AtLeast(StakeOf[S], Limit("Skip"))

SlotDecided == <>Decided

(* When every voter has voted, and cast the fallback votes that the votes of  *)
(* the voters alone call for, the slot is decided: no split of the stake is   *)
(* without a way out.                                                        *)
Quiet ==
    \A v \in Voter :
        /\ Voted(v)
        /\ ~ItsOver(v) =>
              /\ v \in Voters("Notarize") /\ SafeToSkip({}) => v \in Voters("SkipFallback")
              /\ \A b \in Block : SafeToNotar(b, {}) =>
                     v \in votes.Notarize[b] \cup votes.NotarizeFallback[b]

QuietDecided == Quiet => Decided
=============================================================================
