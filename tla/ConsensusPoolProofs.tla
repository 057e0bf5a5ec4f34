-------------------------- MODULE ConsensusPoolProofs --------------------------
(***************************************************************************)
(* Proofs about the consensus pool, for any validators, stakes, blocks and   *)
(* slots, and any votes and certificates that are sent to it.                *)
(*                                                                         *)
(* SlotOK says of the pools and the counters of one slot what the conflict   *)
(* rules and the counters keep true vote by vote; CertsOK relates the        *)
(* certificates to the pools, and FinalOK the highest slot to the            *)
(* certificates.  A step changes one slot and then prunes whole slots.       *)
(***************************************************************************)
EXTENDS ConsensusPool, FiniteSetTheorems, TLAPS

(* Stake is only added up, so a few facts about it are all that is needed.   *)

(* A larger set of validators has no less stake.                             *)
LEMMA StakeMonotone ==
    ASSUME NEW S \in SUBSET Validator, NEW R \in SUBSET S
    PROVE  StakeOf[R] \in Nat /\ StakeOf[S] \in Nat /\ StakeOf[R] <= StakeOf[S]
  <1>1. R \in SUBSET Validator /\ S \ R \in SUBSET Validator
    OBVIOUS
  <1>2. StakeOf[R] \in Nat /\ StakeOf[S] \in Nat /\ StakeOf[S \ R] \in Nat
    BY <1>1, StakeAssumption
  <1>3. R \cap (S \ R) = {} /\ R \cup (S \ R) = S
    OBVIOUS
  <1>4. StakeOf[R \cup (S \ R)] = StakeOf[R] + StakeOf[S \ R]
    BY <1>1, <1>3, StakeAssumption
  <1> QED
    BY <1>2, <1>3, <1>4

(* The complement of a set has the rest of the stake.                        *)
LEMMA StakeRest ==
    ASSUME NEW S \in SUBSET Validator
    PROVE  /\ StakeOf[S] \in Nat /\ StakeOf[Validator \ S] \in Nat /\ Total \in Nat
           /\ StakeOf[S] + StakeOf[Validator \ S] = Total
  <1>1. Validator \ S \in SUBSET Validator /\ Validator \in SUBSET Validator
    OBVIOUS
  <1>2. StakeOf[S] \in Nat /\ StakeOf[Validator \ S] \in Nat /\ StakeOf[Validator] \in Nat
    BY <1>1, StakeAssumption
  <1>3. S \cap (Validator \ S) = {} /\ S \cup (Validator \ S) = Validator
    OBVIOUS
  <1>4. StakeOf[S \cup (Validator \ S)] = StakeOf[S] + StakeOf[Validator \ S]
    BY <1>1, <1>3, StakeAssumption
  <1> QED
    BY <1>2, <1>3, <1>4 DEF Total

(* A set of validators with more stake than needed.                          *)
LEMMA AtLeastMonotone ==
    ASSUME NEW S \in SUBSET Validator, NEW R \in SUBSET S, NEW p \in Nat, AtLeast(StakeOf[R], p)
    PROVE  AtLeast(StakeOf[S], p)
  <1>1. StakeOf[R] \in Nat /\ StakeOf[S] \in Nat /\ StakeOf[R] <= StakeOf[S]
    BY StakeMonotone
  <1>2. Total \in Nat
    BY StakeRest
  <1>3. StakeOf[R] * 100 <= StakeOf[S] * 100
    BY <1>1
  <1>4. p * Total \in Nat
    BY <1>2
  <1> QED
    BY <1>1, <1>3, <1>4 DEF AtLeast

(* One more validator adds its stake.                                        *)
LEMMA StakeAdds ==
    ASSUME NEW S \in SUBSET Validator, NEW v \in Validator, v \notin S
    PROVE  /\ StakeOf[S] \in Nat /\ StakeOf[{v}] \in Nat
           /\ StakeOf[S \cup {v}] = StakeOf[S] + StakeOf[{v}]
  <1>1. S \cap {v} = {} /\ {v} \in SUBSET Validator
    OBVIOUS
  <1> QED
    BY <1>1, StakeAssumption

-----------------------------------------------------------------------------
Kind == BlockTypes \cup PlainTypes

Counters == [first : {"None", "Skip", "Notarize"}, mine : Block \cup {NoBlock},
             skip : Nat, notarize : Nat, entry : [Block -> Nat], top : Nat,
             notarSent : SUBSET Block, skipSent : BOOLEAN]

(* Votes of one validator that a pool never holds together.                  *)
Apart(p) ==
    /\ \A b, c \in Block : b # c => p["Notarize"][b] \cap p["Notarize"][c] = {}
    /\ \A b \in Block : p["Notarize"][b] \cap p["Skip"][NoBlock] = {}
    /\ \A b \in Block : p["Notarize"][b] \cap p["NotarizeFallback"][b] = {}
    /\ p["Skip"][NoBlock] \cap p["SkipFallback"][NoBlock] = {}

Placed(p) ==
    /\ p \in SlotPools
    /\ \A t \in BlockTypes : p[t][NoBlock] = {}
    /\ \A t \in PlainTypes, b \in Block : p[t][b] = {}

Notarizers(p) == UNION {p["Notarize"][b] : b \in Block}

(* The counters are the stakes of the votes.                                 *)
Counted(p, c) ==
    /\ c \in Counters
    /\ c.skip = StakeOf[p["Skip"][NoBlock]]
    /\ \A b \in Block : c.entry[b] = StakeOf[p["Notarize"][b]]
    /\ c.notarize = StakeOf[Notarizers(p)]
    /\ \A b \in Block : c.entry[b] <= c.top
    /\ c.top # 0 => \E b \in Block : c.entry[b] = c.top

(* The events are sent when they are due.                                    *)
Sent(p, c) ==
    /\ c.notarSent = IF c.first = "None" THEN {} ELSE {b \in Block : IsSafeToNotar(c, b)}
    /\ c.skipSent = IsSafeToSkip(c)
    /\ c.first # "None" <=> Me \in Notarizers(p) \cup p["Skip"][NoBlock]

SlotOK(p, c) == Placed(p) /\ Apart(p) /\ Counted(p, c) /\ Sent(p, c)

(* The types, which the proofs name one by one.                              *)
LEMMA Kinds ==
    /\ {"Notarize", "NotarizeFallback", "Finalize", "Skip", "SkipFallback"} = Kind
    /\ BlockTypes = {"Notarize", "NotarizeFallback"}
    /\ PlainTypes = {"Finalize", "Skip", "SkipFallback"}
    /\ NoBlock \in Key /\ Block \subseteq Key /\ NoBlock \notin Block
  BY StakeAssumption DEF Kind, BlockTypes, PlainTypes, Key

(* Where votes can be.                                                       *)
LEMMA InPools ==
    ASSUME NEW p, Placed(p)
    PROVE  /\ \A t \in Kind, b \in Key : p[t][b] \in SUBSET Validator
           /\ Notarizers(p) \in SUBSET Validator
  <1>1. \A t \in Kind, b \in Key : p[t][b] \in SUBSET Validator
    BY DEF Placed, SlotPools, Kind
  <1> QED
    BY <1>1, Kinds DEF Notarizers

(* An empty slot is in order.                                                *)
LEMMA NewSlotOK == SlotOK(NewPools, NewCounters)
  <1> USE Kinds
  <1>1. \A t \in Kind, b \in Key : NewPools[t][b] = {}
    BY DEF NewPools, Kind
  <1>2. Placed(NewPools)
    BY <1>1 DEF Placed, NewPools, SlotPools
  <1>3. Apart(NewPools) /\ Notarizers(NewPools) = {}
    BY <1>1 DEF Apart, Notarizers
  <1>4. NewCounters \in Counters
    BY DEF NewCounters, Counters
  <1>5. StakeOf[{}] = 0
    BY StakeAssumption
  <1>6. Counted(NewPools, NewCounters)
    <2>1. /\ NewCounters.skip = 0 /\ NewCounters.notarize = 0 /\ NewCounters.top = 0
          /\ \A b \in Block : NewCounters.entry[b] = 0
      BY DEF NewCounters
    <2>2. /\ StakeOf[NewPools["Skip"][NoBlock]] = 0 /\ StakeOf[Notarizers(NewPools)] = 0
          /\ \A b \in Block : StakeOf[NewPools["Notarize"][b]] = 0
      BY <1>1, <1>3, <1>5, Zenon
    <2>3. \A b \in Block : NewCounters.entry[b] <= NewCounters.top
      BY <2>1
    <2> QED
      BY <1>4, <2>1, <2>2, <2>3, Zenon DEF Counted
  <1>7. Sent(NewPools, NewCounters)
    <2>1. /\ NewCounters.first = "None" /\ NewCounters.notarSent = {} /\ NewCounters.skipSent = FALSE
      BY DEF NewCounters
    <2>2. IsSafeToSkip(NewCounters) = FALSE
      BY <2>1 DEF IsSafeToSkip
    <2>3. Me \notin Notarizers(NewPools) \cup NewPools["Skip"][NoBlock]
      BY <1>1, <1>3
    <2> QED
      BY <2>1, <2>2, <2>3, Zenon DEF Sent
  <1> QED
    BY <1>2, <1>3, <1>6, <1>7 DEF SlotOK

-----------------------------------------------------------------------------
(* The pools of the slot after a vote.                                       *)
Added(p, v) == [p EXCEPT ![v.type][v.block] = @ \cup {v.from}]

(* What a vote looks like.                                                   *)
LEMMA VoteShape ==
    ASSUME NEW v \in Vote
    PROVE  /\ v.from \in Validator /\ v.slot \in Slot /\ v.type \in Kind /\ v.block \in Key
           /\ v.type \in BlockTypes => v.block \in Block
           /\ v.type \in PlainTypes => v.block = NoBlock
           /\ v.type \in {"Notarize", "NotarizeFallback"} \/ v.block = NoBlock
  <1>1. CASE v \in [from : Validator, slot : Slot, type : BlockTypes, block : Block]
    BY <1>1, Kinds
  <1>2. CASE v \in [from : Validator, slot : Slot, type : PlainTypes, block : {NoBlock}]
    BY <1>2, Kinds
  <1> QED
    BY <1>1, <1>2 DEF Vote

(* The vote is added to one set.                                             *)
LEMMA AddedEffect ==
    ASSUME NEW p, Placed(p), NEW v \in Vote
    PROVE  /\ Placed(Added(p, v))
           /\ Added(p, v)[v.type][v.block] = p[v.type][v.block] \cup {v.from}
           /\ \A t \in Kind, b \in Key : <<t, b>> # <<v.type, v.block>> => Added(p, v)[t][b] = p[t][b]
  <1> USE Kinds
  <1>1. /\ v.from \in Validator /\ v.type \in Kind /\ v.block \in Key
        /\ v.type \in BlockTypes => v.block \in Block
        /\ v.type \in PlainTypes => v.block = NoBlock
    BY VoteShape
  <1>2. /\ p \in [Kind -> [Key -> SUBSET Validator]]
        /\ Added(p, v) = [p EXCEPT ![v.type] = [p[v.type] EXCEPT ![v.block] = p[v.type][v.block] \cup {v.from}]]
    BY DEF Added, Placed, SlotPools, Kind
  <1>3. Added(p, v) \in [Kind -> [Key -> SUBSET Validator]]
    BY <1>1, <1>2
  <1>4. Added(p, v)[v.type][v.block] = p[v.type][v.block] \cup {v.from}
    BY <1>1, <1>2
  <1>5. \A t \in Kind, b \in Key : <<t, b>> # <<v.type, v.block>> => Added(p, v)[t][b] = p[t][b]
    BY <1>1, <1>2
  <1>6. \A t \in BlockTypes : Added(p, v)[t][NoBlock] = {}
    BY <1>1, <1>5 DEF Placed
  <1>7. \A t \in PlainTypes, b \in Block : Added(p, v)[t][b] = {}
    BY <1>1, <1>5 DEF Placed
  <1> QED
    BY <1>3, <1>4, <1>5, <1>6, <1>7 DEF Placed, SlotPools, Kind

(* What the conflict rules let through.                                      *)
LEMMA NoConflict ==
    ASSUME NEW v \in Vote, Placed(pools[v.slot]), ~HasConflictingVote(v), IsNew(v)
    PROVE  LET p == pools[v.slot] IN
           /\ v.from \notin p[v.type][v.block]
           /\ v.type = "Notarize" =>
                 /\ \A b \in Block : v.from \notin p["Notarize"][b]
                 /\ v.from \notin p["Skip"][NoBlock]
                 /\ v.from \notin p["NotarizeFallback"][v.block]
           /\ v.type = "NotarizeFallback" => v.from \notin p["Notarize"][v.block]
           /\ v.type = "Skip" =>
                 /\ \A b \in Block : v.from \notin p["Notarize"][b]
                 /\ v.from \notin p["SkipFallback"][NoBlock]
           /\ v.type = "SkipFallback" => v.from \notin p["Skip"][NoBlock]
  <1> USE Kinds, VoteShape
  <1> DEFINE p == pools[v.slot]
  <1>1. \A t : Entries(v, t) = {b \in Key : v.from \in p[t][b]}
    BY DEF Entries
  <1>2. v.from \notin p[v.type][v.block]
    BY <1>1 DEF IsNew
  <1>3. ASSUME NEW t \in ConflictingTypes(v.type)
        PROVE  /\ t \in BlockTypes /\ v.block # NoBlock => v.from \notin p[t][v.block]
               /\ ~(t \in BlockTypes /\ v.block # NoBlock) => \A b \in Key : v.from \notin p[t][b]
    BY <1>1 DEF HasConflictingVote
  <1>4. ASSUME v.type = "Notarize" PROVE \A b \in Block : v.from \notin p["Notarize"][b]
    <2>1. Cardinality(Entries(v, "Notarize")) < 1
      BY <1>4 DEF IsNew, MaxEntries
    <2>2. IsFiniteSet(Key)
      BY StakeAssumption, FS_AddElement DEF Key
    <2>3. IsFiniteSet(Entries(v, "Notarize"))
      <3>1. Entries(v, "Notarize") \in SUBSET Key
        BY <1>1
      <3> QED
        BY <2>2, <3>1, FS_Subset
    <2>4. Entries(v, "Notarize") = {}
      BY <2>1, <2>3, FS_EmptySet, FS_CardinalityType
    <2> QED
      BY <1>1, <2>4
  <1>5. ASSUME v.type = "Notarize"
        PROVE  v.from \notin p["Skip"][NoBlock] /\ v.from \notin p["NotarizeFallback"][v.block]
    <2>1. ConflictingTypes(v.type) = {"Skip", "NotarizeFallback"}
      BY <1>5 DEF ConflictingTypes
    <2> QED
      BY <1>3, <1>5, <2>1
  <1>6. ASSUME v.type = "NotarizeFallback" PROVE v.from \notin p["Notarize"][v.block]
    <2>1. ConflictingTypes(v.type) = {"Finalize", "Notarize"}
      BY <1>6 DEF ConflictingTypes
    <2> QED
      BY <1>3, <1>6, <2>1
  <1>7. ASSUME v.type = "Skip"
        PROVE  (\A b \in Block : v.from \notin p["Notarize"][b]) /\ v.from \notin p["SkipFallback"][NoBlock]
    <2>1. ConflictingTypes(v.type) = {"Finalize", "Notarize", "SkipFallback"}
      BY <1>7 DEF ConflictingTypes
    <2> QED
      BY <1>3, <1>7, <2>1
  <1>8. ASSUME v.type = "SkipFallback" PROVE v.from \notin p["Skip"][NoBlock]
    <2>1. ConflictingTypes(v.type) = {"Skip", "Finalize"}
      BY <1>8 DEF ConflictingTypes
    <2> QED
      BY <1>3, <1>8, <2>1
  <1> QED
    BY <1>2, <1>4, <1>5, <1>6, <1>7, <1>8

(* The rules keep the votes of a validator apart.                            *)
LEMMA AddedApart ==
    ASSUME NEW v \in Vote, Placed(pools[v.slot]), Apart(pools[v.slot]), ~HasConflictingVote(v), IsNew(v)
    PROVE  Apart(Added(pools[v.slot], v))
  <1> USE Kinds
  <1> DEFINE p == pools[v.slot]
             q == Added(p, v)
  <1>1. /\ q[v.type][v.block] = p[v.type][v.block] \cup {v.from}
        /\ \A t \in Kind, b \in Key : <<t, b>> # <<v.type, v.block>> => q[t][b] = p[t][b]
    BY AddedEffect
  <1>2. /\ v.type = "Notarize" =>
              /\ \A b \in Block : v.from \notin p["Notarize"][b]
              /\ v.from \notin p["Skip"][NoBlock]
              /\ v.from \notin p["NotarizeFallback"][v.block]
        /\ v.type = "NotarizeFallback" => v.from \notin p["Notarize"][v.block]
        /\ v.type = "Skip" =>
              /\ \A b \in Block : v.from \notin p["Notarize"][b]
              /\ v.from \notin p["SkipFallback"][NoBlock]
        /\ v.type = "SkipFallback" => v.from \notin p["Skip"][NoBlock]
    BY NoConflict
  <1>3. /\ \A b, c \in Block : b # c => p["Notarize"][b] \cap p["Notarize"][c] = {}
        /\ \A b \in Block : p["Notarize"][b] \cap p["Skip"][NoBlock] = {}
        /\ \A b \in Block : p["Notarize"][b] \cap p["NotarizeFallback"][b] = {}
        /\ p["Skip"][NoBlock] \cap p["SkipFallback"][NoBlock] = {}
    BY DEF Apart
  <1>4. /\ v.block \in Key
        /\ v.type \in {"Notarize", "NotarizeFallback"} \/ v.block = NoBlock
    BY VoteShape
  <1> HIDE DEF p, q
  <1>5. ASSUME NEW b \in Block, NEW c \in Block, b # c PROVE q["Notarize"][b] \cap q["Notarize"][c] = {}
    BY <1>1, <1>2, <1>3, <1>4, <1>5
  <1>6. ASSUME NEW b \in Block PROVE q["Notarize"][b] \cap q["Skip"][NoBlock] = {}
    BY <1>1, <1>2, <1>3, <1>4
  <1>7. ASSUME NEW b \in Block PROVE q["Notarize"][b] \cap q["NotarizeFallback"][b] = {}
    BY <1>1, <1>2, <1>3, <1>4
  <1>8. q["Skip"][NoBlock] \cap q["SkipFallback"][NoBlock] = {}
    BY <1>1, <1>2, <1>3, <1>4
  <1>9. Apart(q)
    BY <1>5, <1>6, <1>7, <1>8 DEF Apart
  <1> QED
    BY <1>9 DEF q, p

(* More stake is no less of a share.                                         *)
LEMMA ShareMonotone ==
    ASSUME NEW a \in Nat, NEW b \in Nat, a <= b, NEW percent \in Nat, AtLeast(a, percent)
    PROVE  AtLeast(b, percent)
  <1>1. Total \in Nat
    BY StakeAssumption DEF Total
  <1>2. percent * Total \in Nat
    BY <1>1
  <1> QED
    BY <1>2 DEF AtLeast

(* The two kinds of votes that are counted, and what the counters become.    *)
LEMMA CountSkip ==
    ASSUME NEW c \in Counters, NEW v, v.type = "Skip", NEW stake \in Nat
    PROVE  LET d == Count(c, v, stake) IN
           /\ d \in Counters /\ d.skip = stake
           /\ d.entry = c.entry /\ d.notarize = c.notarize /\ d.top = c.top
           /\ d.first = c.first /\ d.mine = c.mine /\ d.notarSent = c.notarSent /\ d.skipSent = c.skipSent
  BY DEF Count, Counters

LEMMA CountNotarize ==
    ASSUME NEW c \in Counters, NEW v, v.type = "Notarize", v.block \in Block, NEW stake \in Nat,
           (c.notarize - c.entry[v.block]) + stake \in Nat
    PROVE  LET d == Count(c, v, stake) IN
           /\ d \in Counters /\ d.skip = c.skip
           /\ d.entry[v.block] = stake /\ \A b \in Block \ {v.block} : d.entry[b] = c.entry[b]
           /\ d.notarize = (c.notarize - c.entry[v.block]) + stake
           /\ d.top = IF c.top < stake THEN stake ELSE c.top
           /\ d.first = c.first /\ d.mine = c.mine /\ d.notarSent = c.notarSent /\ d.skipSent = c.skipSent
  <1> DEFINE d == Count(c, v, stake)
  <1>1. d = [c EXCEPT !.entry = [c.entry EXCEPT ![v.block] = stake],
                      !.notarize = (c.notarize - c.entry[v.block]) + stake,
                      !.top = IF c.top < stake THEN stake ELSE c.top]
    BY DEF Count, Counters
  <1>2. [c.entry EXCEPT ![v.block] = stake] \in [Block -> Nat]
    BY DEF Counters
  <1>3. (IF c.top < stake THEN stake ELSE c.top) \in Nat
    BY DEF Counters
  <1> HIDE DEF d
  <1>4. d \in Counters
    BY <1>1, <1>2, <1>3, Zenon DEF Counters
  <1>5. /\ d.skip = c.skip /\ d.entry = [c.entry EXCEPT ![v.block] = stake]
        /\ d.notarize = (c.notarize - c.entry[v.block]) + stake
        /\ d.top = IF c.top < stake THEN stake ELSE c.top
        /\ d.first = c.first /\ d.mine = c.mine /\ d.notarSent = c.notarSent /\ d.skipSent = c.skipSent
    BY <1>1 DEF Counters
  <1>6. d.entry[v.block] = stake /\ \A b \in Block \ {v.block} : d.entry[b] = c.entry[b]
    BY <1>5 DEF Counters
  <1> QED
    BY <1>4, <1>5, <1>6 DEF d

(* The counters stay the stakes of the votes.                                *)
LEMMA CountCounted ==
    ASSUME NEW v \in Vote, NEW c, Placed(pools[v.slot]), Apart(pools[v.slot]), Counted(pools[v.slot], c),
           ~HasConflictingVote(v), IsNew(v), v.type \in {"Skip", "Notarize"}
    PROVE  LET q == Added(pools[v.slot], v)
               d == Count(c, v, StakeOf[q[v.type][v.block]])
           IN  /\ Counted(q, d)
               /\ d.first = c.first /\ d.mine = c.mine /\ d.notarSent = c.notarSent /\ d.skipSent = c.skipSent
               /\ c.skip <= d.skip /\ \A b \in Block : c.entry[b] <= d.entry[b]
               /\ c.skip + (c.notarize - c.top) <= d.skip + (d.notarize - d.top)
  <1> USE Kinds
  <1> DEFINE p == pools[v.slot]
             q == Added(p, v)
             stake == StakeOf[q[v.type][v.block]]
             d == Count(c, v, stake)
  <1>1. /\ q[v.type][v.block] = p[v.type][v.block] \cup {v.from}
        /\ \A t \in Kind, b \in Key : <<t, b>> # <<v.type, v.block>> => q[t][b] = p[t][b]
    BY AddedEffect
  <1>2. /\ v.from \notin p[v.type][v.block]
        /\ v.type = "Notarize" => \A b \in Block : v.from \notin p["Notarize"][b]
    BY NoConflict
  <1>3. /\ v.block \in Key /\ v.type \in Kind /\ v.from \in Validator
        /\ v.type = "Notarize" => v.block \in Block
        /\ v.type = "Skip" => v.block = NoBlock
    BY VoteShape
  <1>4. p[v.type][v.block] \in SUBSET Validator /\ Notarizers(p) \in SUBSET Validator
    BY <1>3, InPools
  <1>5. /\ c \in Counters
        /\ c.skip = StakeOf[p["Skip"][NoBlock]]
        /\ \A b \in Block : c.entry[b] = StakeOf[p["Notarize"][b]]
        /\ c.notarize = StakeOf[Notarizers(p)]
        /\ \A b \in Block : c.entry[b] <= c.top
        /\ c.top # 0 => \E b \in Block : c.entry[b] = c.top
    BY DEF Counted
  <1>6. /\ c.skip \in Nat /\ c.notarize \in Nat /\ c.top \in Nat /\ \A b \in Block : c.entry[b] \in Nat
    BY <1>5 DEF Counters
  <1> HIDE DEF p, q
  <1>7. /\ StakeOf[p[v.type][v.block]] \in Nat /\ StakeOf[{v.from}] \in Nat
        /\ stake = StakeOf[p[v.type][v.block]] + StakeOf[{v.from}]
    <2>1. ASSUME NEW S \in SUBSET Validator, v.from \notin S
          PROVE  /\ StakeOf[S] \in Nat /\ StakeOf[{v.from}] \in Nat
                 /\ StakeOf[S \cup {v.from}] = StakeOf[S] + StakeOf[{v.from}]
      BY <1>3, <2>1, StakeAdds, Zenon
    <2> QED
      BY <1>1, <1>2, <1>4, <2>1, Zenon
  <1> HIDE DEF stake
  <1>8. CASE v.type = "Skip"
    <2>1. stake \in Nat /\ c.skip <= stake
      BY <1>3, <1>5, <1>7, <1>8
    <2>2. /\ d \in Counters /\ d.skip = stake
          /\ d.entry = c.entry /\ d.notarize = c.notarize /\ d.top = c.top
          /\ d.first = c.first /\ d.mine = c.mine /\ d.notarSent = c.notarSent /\ d.skipSent = c.skipSent
      BY <1>5, <1>8, <2>1, CountSkip
    <2> HIDE DEF d
    <2>3. \A b \in Block : q["Notarize"][b] = p["Notarize"][b]
      BY <1>1, <1>3, <1>8
    <2>4. Notarizers(q) = Notarizers(p)
      BY <2>3 DEF Notarizers
    <2>5. d.skip = StakeOf[q["Skip"][NoBlock]]
      BY <1>3, <1>8, <2>2 DEF stake
    <2>6. Counted(q, d)
      BY <1>5, <2>2, <2>3, <2>4, <2>5 DEF Counted
    <2>7. /\ c.skip <= d.skip /\ \A b \in Block : c.entry[b] <= d.entry[b]
          /\ c.skip + (c.notarize - c.top) <= d.skip + (d.notarize - d.top)
      BY <1>6, <2>1, <2>2
    <2> QED
      BY <2>2, <2>6, <2>7, Zenon DEF d, stake, q, p
  <1>9. CASE v.type = "Notarize"
    <2> DEFINE w == StakeOf[{v.from}]
    <2>1. /\ v.block \in Block /\ w \in Nat /\ stake \in Nat /\ stake = c.entry[v.block] + w
      BY <1>3, <1>5, <1>7, <1>9
    <2>2. Notarizers(q) = Notarizers(p) \cup {v.from} /\ v.from \notin Notarizers(p)
      <3>1. \A x : x \in Notarizers(q) <=> x \in Notarizers(p) \/ x = v.from
        BY <1>1, <1>3, <1>9 DEF Notarizers
      <3> QED
        BY <1>2, <1>9, <3>1 DEF Notarizers
    <2>3. StakeOf[Notarizers(q)] = c.notarize + w
      BY <1>3, <1>4, <1>5, <2>2, StakeAdds, Zenon
    <2> HIDE DEF w
    <2>4. (c.notarize - c.entry[v.block]) + stake = c.notarize + w
      BY <1>6, <2>1
    <2>5. /\ d \in Counters /\ d.skip = c.skip
          /\ d.entry[v.block] = stake /\ \A b \in Block \ {v.block} : d.entry[b] = c.entry[b]
          /\ d.notarize = (c.notarize - c.entry[v.block]) + stake
          /\ d.top = IF c.top < stake THEN stake ELSE c.top
          /\ d.first = c.first /\ d.mine = c.mine /\ d.notarSent = c.notarSent /\ d.skipSent = c.skipSent
      <3>1. (c.notarize - c.entry[v.block]) + stake \in Nat
        BY <1>6, <2>1, <2>4
      <3> QED
        BY <1>5, <1>9, <2>1, <3>1, CountNotarize
    <2> HIDE DEF d
    <2>6. d.skip = StakeOf[q["Skip"][NoBlock]]
      BY <1>1, <1>5, <1>9, <2>5
    <2>7. ASSUME NEW b \in Block PROVE d.entry[b] = StakeOf[q["Notarize"][b]]
      <3>1. CASE b = v.block
        BY <1>9, <2>5, <3>1 DEF stake
      <3>2. CASE b # v.block
        BY <1>1, <1>5, <1>9, <2>5, <3>2
      <3> QED
        BY <3>1, <3>2
    <2>8. d.notarize = StakeOf[Notarizers(q)]
      BY <2>3, <2>4, <2>5
    <2>9. \A b \in Block : d.entry[b] <= d.top /\ c.entry[b] <= d.entry[b]
      BY <1>5, <1>6, <2>1, <2>5
    <2>10. d.top # 0 => \E b \in Block : d.entry[b] = d.top
      <3>1. CASE c.top < stake
        BY <2>1, <2>5, <3>1
      <3>2. CASE ~(c.top < stake)
        <4>1. SUFFICES ASSUME c.top # 0 PROVE \E b \in Block : d.entry[b] = c.top
          BY <2>5, <3>2
        <4>2. PICK b \in Block : c.entry[b] = c.top
          BY <1>5, <4>1
        <4>3. CASE b = v.block
          BY <1>6, <2>1, <2>5, <3>2, <4>2, <4>3
        <4>4. CASE b # v.block
          BY <2>5, <4>2, <4>4
        <4> QED
          BY <4>3, <4>4
      <3> QED
        BY <3>1, <3>2
    <2>11. Counted(q, d)
      BY <2>5, <2>6, <2>7, <2>8, <2>9, <2>10 DEF Counted
    <2>12. c.skip + (c.notarize - c.top) <= d.skip + (d.notarize - d.top)
      <3>1. c.entry[v.block] <= c.top
        BY <1>5, <2>1
      <3>2. d.top <= c.top + w /\ d.top \in Nat
        BY <1>6, <2>1, <2>5, <3>1
      <3>3. d.notarize = c.notarize + w
        BY <2>4, <2>5
      <3> QED
        BY <1>6, <2>1, <2>5, <3>2, <3>3
    <2>13. c.skip <= d.skip
      BY <1>6, <2>5
    <2> QED
      BY <2>5, <2>9, <2>11, <2>12, <2>13, Zenon DEF d, stake, q, p
  <1> QED
    BY <1>8, <1>9, Zenon

(* The owner's first vote is noted, the rest of the counters is as before.   *)
LEMMA FirstEffect ==
    ASSUME NEW v \in Vote, v.type \in {"Skip", "Notarize"}, NEW c \in Counters
    PROVE  LET d == First(c, v) IN
           /\ d \in Counters
           /\ d.skip = c.skip /\ d.entry = c.entry /\ d.notarize = c.notarize /\ d.top = c.top
           /\ d.notarSent = c.notarSent /\ d.skipSent = c.skipSent
           /\ d.first # "None" <=> c.first # "None" \/ v.from = Me
           /\ c.first # "None" => d.first = c.first /\ d.mine = c.mine
  <1>1. v.block \in Block \cup {NoBlock}
    BY VoteShape DEF Key
  <1> QED
    BY <1>1, Zenon DEF First, Counters

(* The events are sent, the rest of the counters is as before.               *)
LEMMA SendEffect ==
    ASSUME NEW c \in Counters
    PROVE  LET d == SendEvents(c) IN
           /\ d \in Counters
           /\ d.skip = c.skip /\ d.entry = c.entry /\ d.notarize = c.notarize /\ d.top = c.top
           /\ d.first = c.first /\ d.mine = c.mine
           /\ c.first = "None" => d.notarSent = c.notarSent /\ d.skipSent = c.skipSent
           /\ c.first # "None" => /\ d.notarSent = c.notarSent \cup {b \in Block : IsSafeToNotar(c, b)}
                                  /\ d.skipSent = (c.skipSent \/ IsSafeToSkip(c))
  <1>1. CASE c.first = "None"
    BY <1>1 DEF SendEvents
  <1>2. CASE c.first # "None"
    <2> DEFINE N == c.notarSent \cup {b \in Block : IsSafeToNotar(c, b)}
               S == c.skipSent \/ IsSafeToSkip(c)
               d == [c EXCEPT !.notarSent = N, !.skipSent = S]
    <2>1. N \in SUBSET Block /\ S \in BOOLEAN
      BY DEF Counters, IsSafeToSkip
    <2>2. SendEvents(c) = d
      BY <1>2 DEF SendEvents, Counters
    <2> HIDE DEF N, S
    <2>3. /\ d \in Counters
          /\ d.skip = c.skip /\ d.entry = c.entry /\ d.notarize = c.notarize /\ d.top = c.top
          /\ d.first = c.first /\ d.mine = c.mine /\ d.notarSent = N /\ d.skipSent = S
      BY <2>1, Zenon DEF Counters
    <2> QED
      BY <1>2, <2>2, <2>3 DEF N, S
  <1> QED
    BY <1>1, <1>2

(* What is safe only depends on the stakes and on the owner's vote.           *)
LEMMA SafeSame ==
    ASSUME NEW c, NEW d, d.skip = c.skip, d.entry = c.entry, d.notarize = c.notarize, d.top = c.top,
           d.first = c.first, d.mine = c.mine
    PROVE  /\ \A b \in Block : IsSafeToNotar(d, b) <=> IsSafeToNotar(c, b)
           /\ IsSafeToSkip(d) <=> IsSafeToSkip(c)
  BY DEF IsSafeToNotar, IsSafeToSkip

(* What is safe stays safe as the stakes grow.                               *)
LEMMA SafeMonotone ==
    ASSUME NEW c \in Counters, NEW d \in Counters,
           d.first = c.first, d.mine = c.mine, c.skip <= d.skip, \A b \in Block : c.entry[b] <= d.entry[b],
           c.skip + (c.notarize - c.top) <= d.skip + (d.notarize - d.top),
           c.top <= c.notarize, d.top <= d.notarize
    PROVE  /\ \A b \in Block : IsSafeToNotar(c, b) => IsSafeToNotar(d, b)
           /\ IsSafeToSkip(c) => IsSafeToSkip(d)
  <1>1. /\ c.skip \in Nat /\ d.skip \in Nat /\ \A b \in Block : c.entry[b] \in Nat /\ d.entry[b] \in Nat
        /\ c.notarize - c.top \in Nat /\ d.notarize - d.top \in Nat
    BY DEF Counters
  <1>2. ASSUME NEW b \in Block, IsSafeToNotar(c, b) PROVE IsSafeToNotar(d, b)
    <2>1. c.skip + c.entry[b] \in Nat /\ d.skip + d.entry[b] \in Nat /\ c.skip + c.entry[b] <= d.skip + d.entry[b]
      BY <1>1
    <2>2. \A n \in {20, 40} : AtLeast(c.entry[b], n) => AtLeast(d.entry[b], n)
      BY <1>1, ShareMonotone
    <2>3. AtLeast(c.skip + c.entry[b], 60) => AtLeast(d.skip + d.entry[b], 60)
      <3> DEFINE x == c.skip + c.entry[b]
                 y == d.skip + d.entry[b]
      <3> HIDE DEF x, y
      <3>1. x \in Nat /\ y \in Nat /\ x <= y
        BY <2>1 DEF x, y
      <3>2. AtLeast(x, 60) => AtLeast(y, 60)
        BY <3>1, ShareMonotone
      <3> QED
        BY <3>2 DEF x, y
    <2> QED
      BY <1>2, <2>2, <2>3 DEF IsSafeToNotar
  <1>3. ASSUME IsSafeToSkip(c) PROVE IsSafeToSkip(d)
    <2> DEFINE x == c.skip + (c.notarize - c.top)
               y == d.skip + (d.notarize - d.top)
    <2>1. x \in Nat /\ y \in Nat /\ x <= y
      BY <1>1
    <2>2. AtLeast(x, 40) /\ c.first = "Notarize"
      BY <1>3 DEF IsSafeToSkip
    <2> HIDE DEF x, y
    <2>3. AtLeast(y, 40)
      BY <2>1, <2>2, ShareMonotone
    <2> QED
      BY <2>2, <2>3 DEF IsSafeToSkip, y
  <1> QED
    BY <1>2, <1>3

(* The block with the most votes is one of those that are counted.           *)
LEMMA TopCounted ==
    ASSUME NEW p, NEW c, Placed(p), Counted(p, c)
    PROVE  c.top <= c.notarize
  <1>1. c.top \in Nat /\ c.notarize \in Nat
    BY DEF Counted, Counters
  <1>2. CASE c.top = 0
    BY <1>1, <1>2
  <1>3. CASE c.top # 0
    <2>1. PICK b \in Block : c.entry[b] = c.top
      BY <1>3 DEF Counted
    <2>2. Notarizers(p) \in SUBSET Validator /\ p["Notarize"][b] \in SUBSET Notarizers(p)
      BY InPools DEF Notarizers
    <2>3. StakeOf[p["Notarize"][b]] <= StakeOf[Notarizers(p)]
      BY <2>2, StakeMonotone
    <2> QED
      BY <2>1, <2>3 DEF Counted
  <1> QED
    BY <1>2, <1>3

(* The votes of the owner that the counters know.                            *)
LEMMA OwnVotes ==
    ASSUME NEW v \in Vote, Placed(pools[v.slot])
    PROVE  LET p == pools[v.slot]
               q == Added(p, v)
               mine == Me \in Notarizers(p) \cup p["Skip"][NoBlock]
           IN  Me \in Notarizers(q) \cup q["Skip"][NoBlock] <=>
                   mine \/ (v.from = Me /\ v.type \in {"Skip", "Notarize"})
  <1> USE Kinds
  <1> DEFINE p == pools[v.slot]
             q == Added(p, v)
  <1>1. /\ q[v.type][v.block] = p[v.type][v.block] \cup {v.from}
        /\ \A t \in Kind, b \in Key : <<t, b>> # <<v.type, v.block>> => q[t][b] = p[t][b]
    BY AddedEffect
  <1>2. /\ v.block \in Key /\ v.type \in Kind
        /\ v.type = "Notarize" => v.block \in Block
        /\ v.type = "Skip" => v.block = NoBlock
    BY VoteShape
  <1> HIDE DEF p, q
  <1>3. \A r : Me \in Notarizers(r) \cup r["Skip"][NoBlock] <=>
                   (\E b \in Block : Me \in r["Notarize"][b]) \/ Me \in r["Skip"][NoBlock]
    BY DEF Notarizers
  <1>4. Me \in q["Skip"][NoBlock] <=> Me \in p["Skip"][NoBlock] \/ (v.from = Me /\ v.type = "Skip")
    BY <1>1, <1>2
  <1>5. (\E b \in Block : Me \in q["Notarize"][b]) <=>
            (\E b \in Block : Me \in p["Notarize"][b]) \/ (v.from = Me /\ v.type = "Notarize")
    <2>1. CASE v.type = "Notarize"
      <3>1. \A b \in Block : Me \in q["Notarize"][b] <=> Me \in p["Notarize"][b] \/ (v.from = Me /\ b = v.block)
        BY <1>1, <1>2, <2>1
      <3> QED
        BY <1>2, <2>1, <3>1
    <2>2. CASE v.type # "Notarize"
      <3>1. \A b \in Block : q["Notarize"][b] = p["Notarize"][b]
        BY <1>1, <1>2, <2>2
      <3> QED
        BY <2>2, <3>1
    <2> QED
      BY <2>1, <2>2
  <1>6. Me \in Notarizers(q) \cup q["Skip"][NoBlock] <=>
            Me \in Notarizers(p) \cup p["Skip"][NoBlock] \/ (v.from = Me /\ v.type \in {"Skip", "Notarize"})
    BY <1>3, <1>4, <1>5
  <1> QED
    BY <1>6 DEF q, p

(* A vote leaves the slot in order.                                          *)
LEMMA AddedSlotOK ==
    ASSUME NEW v \in Vote, NEW c, SlotOK(pools[v.slot], c), ~HasConflictingVote(v), IsNew(v)
    PROVE  LET q == Added(pools[v.slot], v)
           IN  SlotOK(q, CounterAddVote(c, v, StakeOf[q[v.type][v.block]]))
  <1> USE Kinds
  <1> DEFINE p == pools[v.slot]
             q == Added(p, v)
             stake == StakeOf[q[v.type][v.block]]
             d == Count(c, v, stake)
             e == First(d, v)
             f == SendEvents(e)
  <1>1. Placed(p) /\ Apart(p) /\ Counted(p, c) /\ Sent(p, c) /\ c \in Counters
    BY DEF SlotOK, Counted
  <1>2. Placed(q) /\ Apart(q)
    BY <1>1, AddedEffect, AddedApart
  <1>3. Me \in Notarizers(q) \cup q["Skip"][NoBlock] <=>
            Me \in Notarizers(p) \cup p["Skip"][NoBlock] \/ (v.from = Me /\ v.type \in {"Skip", "Notarize"})
    BY <1>1, OwnVotes
  <1>4. CASE v.type \notin {"Skip", "Notarize"}
    <2>1. /\ \A t \in Kind, b \in Key : <<t, b>> # <<v.type, v.block>> => q[t][b] = p[t][b]
      BY <1>1, AddedEffect
    <2>2. CounterAddVote(c, v, stake) = c
      BY <1>4 DEF CounterAddVote
    <2> HIDE DEF p, q, stake
    <2>3. /\ \A b \in Block : q["Notarize"][b] = p["Notarize"][b]
          /\ q["Skip"][NoBlock] = p["Skip"][NoBlock]
      BY <1>4, <2>1
    <2>4. Notarizers(q) = Notarizers(p)
      BY <2>3 DEF Notarizers
    <2>5. Counted(q, c)
      BY <1>1, <2>3, <2>4 DEF Counted
    <2>6. Sent(q, c)
      BY <1>1, <2>3, <2>4 DEF Sent
    <2> QED
      BY <1>2, <2>2, <2>5, <2>6 DEF SlotOK, stake, q, p
  <1>5. CASE v.type \in {"Skip", "Notarize"}
    <2>1. /\ Counted(q, d)
          /\ d.first = c.first /\ d.mine = c.mine /\ d.notarSent = c.notarSent /\ d.skipSent = c.skipSent
          /\ c.skip <= d.skip /\ \A b \in Block : c.entry[b] <= d.entry[b]
          /\ c.skip + (c.notarize - c.top) <= d.skip + (d.notarize - d.top)
      BY <1>1, <1>5, CountCounted, Zenon
    <2>2. CounterAddVote(c, v, stake) = f
      BY <1>5 DEF CounterAddVote
    <2> HIDE DEF p, q, stake, d
    <2>3. d \in Counters /\ c.top <= c.notarize /\ d.top <= d.notarize
      BY <1>1, <1>2, <2>1, TopCounted DEF Counted
    <2>4. /\ e \in Counters
          /\ e.skip = d.skip /\ e.entry = d.entry /\ e.notarize = d.notarize /\ e.top = d.top
          /\ e.notarSent = c.notarSent /\ e.skipSent = c.skipSent
          /\ e.first # "None" <=> c.first # "None" \/ v.from = Me
          /\ c.first # "None" => e.first = c.first /\ e.mine = c.mine
      BY <1>5, <2>1, <2>3, FirstEffect
    <2> HIDE DEF e
    <2>5. /\ f \in Counters
          /\ f.skip = e.skip /\ f.entry = e.entry /\ f.notarize = e.notarize /\ f.top = e.top
          /\ f.first = e.first /\ f.mine = e.mine
          /\ e.first = "None" => f.notarSent = e.notarSent /\ f.skipSent = e.skipSent
          /\ e.first # "None" => /\ f.notarSent = e.notarSent \cup {b \in Block : IsSafeToNotar(e, b)}
                                 /\ f.skipSent = (e.skipSent \/ IsSafeToSkip(e))
      BY <2>4, SendEffect
    <2> HIDE DEF f
    <2>6. Counted(q, f)
      BY <2>1, <2>4, <2>5 DEF Counted
    <2>7. /\ \A b \in Block : IsSafeToNotar(f, b) <=> IsSafeToNotar(e, b)
          /\ IsSafeToSkip(f) <=> IsSafeToSkip(e)
      BY <2>5, SafeSame
    <2>8. f.first # "None" <=> Me \in Notarizers(q) \cup q["Skip"][NoBlock]
      BY <1>1, <1>3, <1>5, <2>4, <2>5 DEF Sent
    <2>9. ASSUME c.first # "None"
          PROVE  /\ \A b \in Block : IsSafeToNotar(c, b) => IsSafeToNotar(e, b)
                 /\ IsSafeToSkip(c) => IsSafeToSkip(e)
      BY <1>1, <2>1, <2>3, <2>4, <2>9, SafeMonotone
    <2>10. f.notarSent = IF f.first = "None" THEN {} ELSE {b \in Block : IsSafeToNotar(f, b)}
      <3>1. c.notarSent = IF c.first = "None" THEN {} ELSE {b \in Block : IsSafeToNotar(c, b)}
        BY <1>1 DEF Sent
      <3>2. CASE f.first = "None"
        BY <2>4, <2>5, <3>1, <3>2
      <3>3. CASE f.first # "None"
        <4>1. c.notarSent \subseteq {b \in Block : IsSafeToNotar(e, b)}
          BY <2>9, <3>1
        <4> QED
          BY <2>4, <2>5, <2>7, <3>3, <4>1
      <3> QED
        BY <3>2, <3>3
    <2>11. f.skipSent = IsSafeToSkip(f)
      <3>1. c.skipSent = IsSafeToSkip(c) /\ (c.first = "None" => ~IsSafeToSkip(c))
        BY <1>1 DEF Sent, IsSafeToSkip
      <3>2. IsSafeToSkip(f) \in BOOLEAN /\ f.skipSent \in BOOLEAN /\ (f.first = "None" => ~IsSafeToSkip(f))
        BY <2>5 DEF IsSafeToSkip, Counters
      <3>3. f.skipSent <=> IsSafeToSkip(f)
        BY <2>4, <2>5, <2>7, <2>9, <3>1, <3>2
      <3> QED
        BY <3>2, <3>3
    <2>12. Sent(q, f)
      BY <2>8, <2>10, <2>11 DEF Sent
    <2> QED
      BY <1>2, <2>2, <2>6, <2>12, Zenon DEF SlotOK, f, e, d, stake, q, p
  <1> QED
    BY <1>4, <1>5

-----------------------------------------------------------------------------
(* The certificates that finalize a slot, and the highest such slot.          *)
Heights == [slot : 0..MaxSlot, fast : BOOLEAN]

Fast(done, s) == \E b \in Block : Cert("FinalizeFast", s, b) \in done

Slow(done, s) ==
    Cert("Finalize", s, NoBlock) \in done /\ \E b \in Block : Cert("Notarize", s, b) \in done

FinalOK(h, done) ==
    /\ \A s \in Slot : Fast(done, s) \/ Slow(done, s) => s <= h.slot
    /\ Fast(done, h.slot) => h.fast
    /\ h.slot # 0 => IF h.fast THEN Fast(done, h.slot) ELSE Slow(done, h.slot)

(* What a certificate looks like.                                            *)
LEMMA CertShape ==
    ASSUME NEW c \in Certificate
    PROVE  /\ c = Cert(c.type, c.slot, c.block) /\ c.slot \in Slot
           /\ \/ c.type \in BlockCerts /\ c.block \in Block
              \/ c.type \in PlainCerts /\ c.block = NoBlock
  <1>1. CASE c \in [type : BlockCerts, slot : Slot, block : Block]
    BY <1>1 DEF Cert
  <1>2. CASE c \in [type : PlainCerts, slot : Slot, block : {NoBlock}]
    BY <1>2 DEF Cert
  <1> QED
    BY <1>1, <1>2 DEF Certificate

LEMMA CertFields ==
    ASSUME NEW t, NEW s, NEW b
    PROVE  Cert(t, s, b).type = t /\ Cert(t, s, b).slot = s /\ Cert(t, s, b).block = b
  BY DEF Cert

(* insert_certificate() keeps the highest finalized slot right.              *)
LEMMA HighestFinal ==
    ASSUME NEW h \in Heights, NEW s \in Slot, NEW old \in SUBSET Certificate, NEW new \in SUBSET Certificate,
           \A c \in new : c.slot = s, FinalOK(h, old)
    PROVE  LET g == Highest(h, s, new, old \cup new) IN
           /\ g \in Heights /\ FinalOK(g, old \cup new)
           /\ g.slot > h.slot \/ (g.slot = h.slot /\ (h.fast => g.fast))
  <1> DEFINE done == old \cup new
             g == Highest(h, s, new, done)
             HasFast == \E c \in new : c.type = "FinalizeFast"
             HasSlow == (\E c \in new : c.type = "Notarize") \/ (\E c \in new : c.type = "Finalize")
  <1>1. /\ h.slot \in 0..MaxSlot /\ h.fast \in BOOLEAN /\ s \in 0..MaxSlot /\ MaxSlot \in Nat
        /\ \A t \in Slot : t \in Nat
    BY PoolAssumption DEF Heights, Slot
  <1>2. g = IF HasFast /\ h.slot <= s THEN [slot |-> s, fast |-> TRUE]
            ELSE IF HasSlow /\ Slow(done, s) /\ h.slot < s THEN [slot |-> s, fast |-> FALSE]
            ELSE h
    BY DEF Highest, Slow
  <1>3. HasFast => Fast(done, s)
    BY CertShape DEF Fast, PlainCerts
  <1>4. ASSUME NEW t, Fast(done, t) PROVE Fast(old, t) \/ (t = s /\ HasFast)
    BY <1>4, CertFields DEF Fast
  <1>5. ASSUME NEW t, Slow(done, t) PROVE Slow(old, t) \/ (t = s /\ HasSlow)
    BY <1>5, CertFields DEF Slow
  <1>6. ASSUME NEW t PROVE (Fast(old, t) => Fast(done, t)) /\ (Slow(old, t) => Slow(done, t))
    BY DEF Fast, Slow
  <1> HIDE DEF done, g, HasFast, HasSlow
  <1>7. /\ \A t \in Slot : Fast(old, t) \/ Slow(old, t) => t <= h.slot
        /\ Fast(old, h.slot) => h.fast
        /\ h.slot # 0 => IF h.fast THEN Fast(old, h.slot) ELSE Slow(old, h.slot)
    BY DEF FinalOK
  <1>8. CASE HasFast /\ h.slot <= s
    <2>1. g.slot = s /\ g.fast = TRUE /\ g \in Heights
      BY <1>1, <1>2, <1>8 DEF Heights
    <2>2. ASSUME NEW t \in Slot, Fast(done, t) \/ Slow(done, t) PROVE t <= s
      BY <1>1, <1>4, <1>5, <1>7, <1>8, <2>2
    <2>3. FinalOK(g, done)
      BY <1>3, <1>8, <2>1, <2>2 DEF FinalOK
    <2> QED
      BY <1>1, <1>8, <2>1, <2>3 DEF g, done
  <1>9. CASE ~(HasFast /\ h.slot <= s) /\ HasSlow /\ Slow(done, s) /\ h.slot < s
    <2>1. g.slot = s /\ g.fast = FALSE /\ g \in Heights
      BY <1>1, <1>2, <1>9 DEF Heights
    <2>2. ~HasFast
      BY <1>1, <1>9
    <2>3. ASSUME NEW t \in Slot, Fast(done, t) \/ Slow(done, t) PROVE t <= s
      BY <1>1, <1>4, <1>5, <1>7, <1>9, <2>3
    <2>4. ~Fast(done, s)
      BY <1>1, <1>4, <1>7, <1>9, <2>2
    <2>5. FinalOK(g, done)
      BY <1>9, <2>1, <2>3, <2>4 DEF FinalOK
    <2> QED
      BY <1>1, <1>9, <2>1, <2>5 DEF g, done
  <1>10. CASE ~(HasFast /\ h.slot <= s) /\ ~(HasSlow /\ Slow(done, s) /\ h.slot < s)
    <2>1. g = h
      BY <1>2, <1>10
    <2>2. ASSUME NEW t \in Slot, Fast(done, t) \/ Slow(done, t) PROVE t <= h.slot
      BY <1>1, <1>4, <1>5, <1>7, <1>10, <2>2
    <2>3. Fast(done, h.slot) => h.fast
      BY <1>1, <1>4, <1>7, <1>10
    <2>4. FinalOK(h, done)
      BY <1>6, <1>7, <2>2, <2>3 DEF FinalOK
    <2> QED
      BY <2>1, <2>4 DEF g, done
  <1> QED
    BY <1>8, <1>9, <1>10

(* Pruning below the root takes nothing from the highest slot.                *)
LEMMA KeepFinal ==
    ASSUME NEW h \in Heights, NEW done, FinalOK(h, done), NEW r \in 0..h.slot
    PROVE  FinalOK(h, {x \in done : x.slot >= r})
  <1> DEFINE keep == {x \in done : x.slot >= r}
  <1>1. h.slot \in Nat /\ r \in Nat /\ h.slot >= r
    BY PoolAssumption DEF Heights
  <1>2. ASSUME NEW t PROVE (Fast(keep, t) => Fast(done, t)) /\ (Slow(keep, t) => Slow(done, t))
    BY DEF Fast, Slow
  <1>3. (Fast(done, h.slot) => Fast(keep, h.slot)) /\ (Slow(done, h.slot) => Slow(keep, h.slot))
    BY <1>1, CertFields DEF Fast, Slow
  <1> HIDE DEF keep
  <1>4. FinalOK(h, keep)
    BY <1>2, <1>3 DEF FinalOK
  <1> QED
    BY <1>4 DEF keep

(* What the properties ask for.                                              *)
LEMMA FinalGives ==
    ASSUME highest \in Heights, completed \subseteq Certificate, FinalOK(highest, completed)
    PROVE  StandstillSafe /\ HighestExact
  <1>1. HighestExact
    BY DEF HighestExact, FinalOK, Fast, Slow
  <1>2. ASSUME NEW c \in completed, c.type = "FinalizeFast", c.slot = highest.slot PROVE highest.fast
    BY <1>2, CertShape DEF FinalOK, Fast, PlainCerts
  <1>3. ASSUME highest.slot # 0,
               NEW t \in IF highest.fast THEN {"FinalizeFast"} ELSE {"Finalize", "Notarize"}
        PROVE  \E c \in Refreshed : c.slot = highest.slot /\ c.type = t
    <2>1. IF highest.fast THEN Fast(completed, highest.slot) ELSE Slow(completed, highest.slot)
      BY <1>3 DEF FinalOK
    <2>2. \E c \in completed : c.slot = highest.slot /\ c.type = t
      BY <1>3, <2>1, CertFields DEF Fast, Slow
    <2> QED
      BY <1>3, <2>2 DEF Refreshed
  <1> QED
    BY <1>1, <1>2, <1>3 DEF StandstillSafe

-----------------------------------------------------------------------------
(* The votes in the pools P are enough for a certificate.                    *)
Enough(P, c) == AtLeast(StakeOf[Backers(P[c.slot], c.type, c.block)], Limit(c.type))

CertsOK(P, done, made) ==
    /\ done \subseteq Certificate /\ made \subseteq done
    /\ \A c \in made : Enough(P, c)
    /\ \A c \in Certificate : Enough(P, c) => c \in done

(* The vote types of a certificate, one by one.                              *)
LEMMA BackersOf ==
    ASSUME NEW p, NEW b
    PROVE  /\ Backers(p, "Notarize", b) = p["Notarize"][b]
           /\ Backers(p, "FinalizeFast", b) = p["Notarize"][b]
           /\ Backers(p, "NotarizeFallback", b) = p["Notarize"][b] \cup p["NotarizeFallback"][b]
           /\ Backers(p, "Finalize", b) = p["Finalize"][b]
           /\ Backers(p, "Skip", b) = p["Skip"][b] \cup p["SkipFallback"][b]
  <1>1. /\ VoteTypes("Notarize") = {"Notarize"} /\ VoteTypes("FinalizeFast") = {"Notarize"}
        /\ VoteTypes("NotarizeFallback") = {"Notarize", "NotarizeFallback"}
        /\ VoteTypes("Finalize") = {"Finalize"} /\ VoteTypes("Skip") = {"Skip", "SkipFallback"}
    BY DEF VoteTypes
  <1> QED
    BY <1>1 DEF Backers

LEMMA CertTypes ==
    ASSUME NEW c \in Certificate
    PROVE  /\ c.slot \in Slot /\ c.block \in Key /\ Limit(c.type) \in {60, 80}
           /\ c.type \in {"Notarize", "NotarizeFallback", "FinalizeFast", "Finalize", "Skip"}
           /\ c.type \in {"Notarize", "NotarizeFallback", "FinalizeFast"} => c.block \in Block
           /\ c.type \in {"Finalize", "Skip"} => c.block = NoBlock
  BY CertShape, Kinds DEF Limit, BlockCerts, PlainCerts

(* The stakes of the pools add up, as nobody is in two of them.               *)
LEMMA Accumulated ==
    ASSUME NEW P, NEW c \in Certificate, Placed(P[c.slot]), Apart(P[c.slot])
    PROVE  AccumulatedStake(P, c) = StakeOf[Backers(P[c.slot], c.type, c.block)]
  <1> USE Kinds
  <1> DEFINE p == P[c.slot]
             b == c.block
             N(t) == StakeOf[p[t][b]]
  <1>1. c.block \in Key
    BY CertTypes
  <1>2. \A t \in Kind : p[t][b] \in SUBSET Validator /\ N(t) \in Nat
    <2>1. \A t \in Kind : p[t][b] \in SUBSET Validator
      BY <1>1, InPools
    <2> QED
      BY <2>1, StakeAssumption
  <1>3. ASSUME NEW t \in Kind, NEW u \in Kind, p[t][b] \cap p[u][b] = {}
        PROVE  StakeOf[p[t][b] \cup p[u][b]] = N(t) + N(u)
    BY <1>2, <1>3, StakeAssumption, Zenon
  <1>4. AccumulatedStake(P, c) =
            (((IF "Notarize" \in VoteTypes(c.type) THEN N("Notarize") ELSE 0)
              + (IF "NotarizeFallback" \in VoteTypes(c.type) THEN N("NotarizeFallback") ELSE 0))
             + (IF "Finalize" \in VoteTypes(c.type) THEN N("Finalize") ELSE 0))
            + (IF "Skip" \in VoteTypes(c.type) THEN N("Skip") ELSE 0)
            + (IF "SkipFallback" \in VoteTypes(c.type) THEN N("SkipFallback") ELSE 0)
    BY DEF AccumulatedStake
  <1> HIDE DEF N, p, b
  <1>5. CASE c.type \in {"Notarize", "FinalizeFast"}
    <2>1. VoteTypes(c.type) = {"Notarize"}
      BY <1>5 DEF VoteTypes
    <2>2. AccumulatedStake(P, c) = N("Notarize")
      BY <1>2, <1>4, <2>1
    <2> QED
      BY <1>5, <2>2, BackersOf DEF N, p, b
  <1>6. CASE c.type = "NotarizeFallback"
    <2>1. VoteTypes(c.type) = {"Notarize", "NotarizeFallback"}
      BY <1>6 DEF VoteTypes
    <2>2. AccumulatedStake(P, c) = N("Notarize") + N("NotarizeFallback")
      BY <1>2, <1>4, <2>1
    <2>3. p["Notarize"][b] \cap p["NotarizeFallback"][b] = {}
      BY <1>6, CertTypes DEF Apart, p, b
    <2>4. StakeOf[p["Notarize"][b] \cup p["NotarizeFallback"][b]] = N("Notarize") + N("NotarizeFallback")
      BY <1>3, <2>3
    <2>5. Backers(p, c.type, b) = p["Notarize"][b] \cup p["NotarizeFallback"][b]
      BY <1>6, BackersOf
    <2> QED
      BY <2>2, <2>4, <2>5 DEF p, b
  <1>7. CASE c.type = "Finalize"
    <2>1. VoteTypes(c.type) = {"Finalize"}
      BY <1>7 DEF VoteTypes
    <2>2. AccumulatedStake(P, c) = N("Finalize")
      BY <1>2, <1>4, <2>1
    <2> QED
      BY <1>7, <2>2, BackersOf DEF N, p, b
  <1>8. CASE c.type = "Skip"
    <2>1. VoteTypes(c.type) = {"Skip", "SkipFallback"}
      BY <1>8 DEF VoteTypes
    <2>2. AccumulatedStake(P, c) = N("Skip") + N("SkipFallback")
      BY <1>2, <1>4, <2>1
    <2>3. p["Skip"][b] \cap p["SkipFallback"][b] = {}
      BY <1>8, CertTypes DEF Apart, p, b
    <2>4. StakeOf[p["Skip"][b] \cup p["SkipFallback"][b]] = N("Skip") + N("SkipFallback")
      BY <1>3, <2>3
    <2>5. Backers(p, c.type, b) = p["Skip"][b] \cup p["SkipFallback"][b]
      BY <1>8, BackersOf
    <2> QED
      BY <2>2, <2>4, <2>5 DEF p, b
  <1> QED
    BY <1>5, <1>6, <1>7, <1>8, CertTypes

(* An empty slot has enough for nothing.                                     *)
LEMMA NothingEnough ==
    ASSUME NEW P, NEW c \in Certificate, P[c.slot] = NewPools
    PROVE  ~Enough(P, c)
  <1> USE Kinds
  <1>1. \A t \in Kind, b \in Key : NewPools[t][b] = {}
    BY DEF NewPools, Kind
  <1>2. Backers(NewPools, c.type, c.block) = {}
    BY <1>1, BackersOf, CertTypes
  <1>3. StakeOf[{}] = 0 /\ Total \in Nat /\ Total > 0
    BY StakeAssumption DEF Total
  <1>4. Limit(c.type) \in {60, 80}
    BY CertTypes
  <1> QED
    BY <1>2, <1>3, <1>4 DEF Enough, AtLeast

(* The certificates that a vote can complete.                                *)
LEMMA VoteCerts ==
    ASSUME NEW v \in Vote
    PROVE  /\ \A c \in VoteToCertTypes(v) : c \in Certificate /\ c.slot = v.slot
           /\ \A c \in Certificate :
                  c.slot = v.slot /\ c.block = v.block /\ v.type \in VoteTypes(c.type) => c \in VoteToCertTypes(v)
  <1> USE Kinds
  <1> DEFINE types == CASE v.type = "Notarize"                 -> {"Notarize", "NotarizeFallback", "FinalizeFast"}
                        [] v.type = "NotarizeFallback"         -> {"NotarizeFallback"}
                        [] v.type = "Finalize"                 -> {"Finalize"}
                        [] v.type \in {"Skip", "SkipFallback"} -> {"Skip"}
  <1>1. VoteToCertTypes(v) = {Cert(t, v.slot, v.block) : t \in types}
    BY DEF VoteToCertTypes
  <1>2. /\ v.slot \in Slot /\ v.type \in Kind
        /\ v.type \in BlockTypes => v.block \in Block
        /\ v.type \in PlainTypes => v.block = NoBlock
    BY VoteShape
  <1>3. /\ v.type = "Notarize" => types = {"Notarize", "NotarizeFallback", "FinalizeFast"}
        /\ v.type = "NotarizeFallback" => types = {"NotarizeFallback"}
        /\ v.type = "Finalize" => types = {"Finalize"}
        /\ v.type \in {"Skip", "SkipFallback"} => types = {"Skip"}
    OBVIOUS
  <1> HIDE DEF types
  <1>4. ASSUME NEW t \in types PROVE Cert(t, v.slot, v.block) \in Certificate
    <2>1. CASE v.type \in BlockTypes
      <3>1. t \in BlockCerts /\ v.block \in Block
        BY <1>2, <1>3, <2>1 DEF BlockCerts
      <3> QED
        BY <1>2, <3>1 DEF Cert, Certificate
    <2>2. CASE v.type \in PlainTypes
      <3>1. t \in PlainCerts /\ v.block = NoBlock
        BY <1>2, <1>3, <2>2 DEF PlainCerts
      <3> QED
        BY <1>2, <3>1 DEF Cert, Certificate
    <2> QED
      BY <1>2, <2>1, <2>2
  <1>5. ASSUME NEW c \in Certificate, c.slot = v.slot, c.block = v.block, v.type \in VoteTypes(c.type)
        PROVE  c \in VoteToCertTypes(v)
    <2>1. /\ VoteTypes("Notarize") = {"Notarize"} /\ VoteTypes("FinalizeFast") = {"Notarize"}
          /\ VoteTypes("NotarizeFallback") = {"Notarize", "NotarizeFallback"}
          /\ VoteTypes("Finalize") = {"Finalize"} /\ VoteTypes("Skip") = {"Skip", "SkipFallback"}
      BY DEF VoteTypes
    <2>2. c.type \in types
      BY <1>2, <1>3, <1>5, <2>1, CertTypes
    <2>3. c = Cert(c.type, v.slot, v.block)
      BY <1>5, CertShape
    <2> QED
      BY <1>1, <2>2, <2>3
  <1> QED
    BY <1>1, <1>4, <1>5, CertFields

(* A vote adds backers, and only to the certificates of its type and block.   *)
LEMMA AddedBackers ==
    ASSUME NEW p, Placed(p), NEW v \in Vote, NEW c \in Certificate
    PROVE  LET old == Backers(p, c.type, c.block)
               new == Backers(Added(p, v), c.type, c.block)
           IN  /\ old \in SUBSET new /\ new \in SUBSET Validator
               /\ ~(c.block = v.block /\ v.type \in VoteTypes(c.type)) => new = old
  <1> DEFINE q == Added(p, v)
             old == Backers(p, c.type, c.block)
             new == Backers(q, c.type, c.block)
  <1>1. /\ Placed(q) /\ q[v.type][v.block] = p[v.type][v.block] \cup {v.from}
        /\ \A t \in Kind, b \in Key : <<t, b>> # <<v.type, v.block>> => q[t][b] = p[t][b]
    BY AddedEffect
  <1>2. c.block \in Key /\ VoteTypes(c.type) \subseteq Kind
    BY CertTypes, Kinds DEF VoteTypes
  <1>3. /\ old = UNION {p[u][c.block] : u \in VoteTypes(c.type)}
        /\ new = UNION {q[u][c.block] : u \in VoteTypes(c.type)}
    BY DEF Backers
  <1> HIDE DEF q, old, new
  <1>4. \A t \in Kind : p[t][c.block] \in SUBSET q[t][c.block] /\ q[t][c.block] \in SUBSET Validator
    BY <1>1, <1>2, InPools
  <1>5. ASSUME NEW x \in old PROVE x \in new
    <2>1. PICK u \in VoteTypes(c.type) : x \in p[u][c.block]
      BY <1>3
    <2>2. u \in Kind
      BY <1>2
    <2>3. x \in q[u][c.block]
      BY <1>4, <2>1, <2>2, Zenon
    <2> QED
      BY <1>3, <2>3
  <1>6. ASSUME NEW x \in new PROVE x \in Validator
    <2>1. PICK u \in VoteTypes(c.type) : x \in q[u][c.block]
      BY <1>3
    <2>2. u \in Kind
      BY <1>2
    <2> QED
      BY <1>4, <2>1, <2>2, Zenon
  <1>7. ASSUME ~(c.block = v.block /\ v.type \in VoteTypes(c.type)) PROVE new = old
    <2>1. \A t \in VoteTypes(c.type) : q[t][c.block] = p[t][c.block]
      BY <1>1, <1>2, <1>7
    <2> QED
      BY <1>3, <2>1
  <1> QED
    BY <1>5, <1>6, <1>7 DEF old, new, q

LEMMA VoteBackers ==
    ASSUME NEW v \in Vote, NEW c \in Certificate, Placed(pools[c.slot]), NEW P,
           P[c.slot] = IF c.slot = v.slot THEN Added(pools[v.slot], v) ELSE pools[c.slot]
    PROVE  /\ Enough(pools, c) => Enough(P, c)
           /\ Enough(P, c) /\ c \notin VoteToCertTypes(v) => Enough(pools, c)
  <1>1. CASE c.slot # v.slot
    BY <1>1 DEF Enough
  <1>2. CASE c.slot = v.slot
    <2> DEFINE old == Backers(pools[c.slot], c.type, c.block)
               new == Backers(P[c.slot], c.type, c.block)
    <2>1. P[c.slot] = Added(pools[c.slot], v)
      BY <1>2
    <2>2. /\ old \in SUBSET new /\ new \in SUBSET Validator
          /\ ~(c.block = v.block /\ v.type \in VoteTypes(c.type)) => new = old
      BY <2>1, AddedBackers
    <2>3. Limit(c.type) \in Nat
      BY CertTypes
    <2>4. c \notin VoteToCertTypes(v) => new = old
      BY <1>2, <2>2, VoteCerts
    <2>5. (Enough(pools, c) <=> AtLeast(StakeOf[old], Limit(c.type)))
          /\ (Enough(P, c) <=> AtLeast(StakeOf[new], Limit(c.type)))
      BY DEF Enough
    <2> HIDE DEF old, new
    <2>6. AtLeast(StakeOf[old], Limit(c.type)) => AtLeast(StakeOf[new], Limit(c.type))
      BY <2>2, <2>3, AtLeastMonotone
    <2> QED
      BY <2>4, <2>5, <2>6
  <1> QED
    BY <1>1, <1>2

-----------------------------------------------------------------------------
SlotsOK(P, count) ==
    P \in [Slot -> SlotPools] /\ count \in [Slot -> Counters] /\ \A s \in Slot : SlotOK(P[s], count[s])

IInv ==
    /\ SlotsOK(pools, counters)
    /\ CertsOK(pools, completed, generated)
    /\ highest \in Heights /\ FinalOK(highest, completed)
    /\ root \in 0..highest.slot /\ pruned \in 0..root

LEMMA InitInv == Init => IInv
  <1> SUFFICES ASSUME Init PROVE IInv
    OBVIOUS
  <1>1. \A s \in Slot : pools[s] = NewPools /\ counters[s] = NewCounters
    BY DEF Init
  <1>2. NewPools \in SlotPools /\ NewCounters \in Counters
    BY NewSlotOK DEF SlotOK, Placed, Counted
  <1>3. SlotsOK(pools, counters)
    <2>1. pools \in [Slot -> SlotPools] /\ counters \in [Slot -> Counters]
      BY <1>2 DEF Init
    <2> QED
      BY <1>1, <2>1, NewSlotOK DEF SlotsOK
  <1>4. CertsOK(pools, completed, generated)
    <2>1. \A c \in Certificate : ~Enough(pools, c)
      BY <1>1, NothingEnough, CertTypes
    <2> QED
      BY <2>1 DEF Init, CertsOK
  <1>5. highest \in Heights /\ highest.slot = 0 /\ MaxSlot \in Nat
    BY PoolAssumption DEF Init, Heights
  <1>6. FinalOK(highest, completed)
    BY <1>5 DEF Init, FinalOK, Fast, Slow
  <1> QED
    BY <1>3, <1>4, <1>5, <1>6 DEF Init, IInv

(* What a message leaves is in order once the slots below the root are gone. *)
LEMMA SettleInv ==
    ASSUME IInv, NEW s \in Slot, NEW P, NEW count, SlotsOK(P, count),
           NEW new \in SUBSET Certificate, \A c \in new : c.slot = s, NEW made,
           CertsOK(P, completed \cup new, generated \cup made), Settle(s, P, count, new, made)
    PROVE  /\ IInv'
           /\ highest'.slot > highest.slot \/ (highest'.slot = highest.slot /\ (highest.fast => highest'.fast))
  <1> DEFINE done == completed \cup new
             all == generated \cup made
             h == Highest(highest, s, new, done)
  <1>1. PICK r \in root..highest.slot :
            /\ pools' = [t \in Slot |-> IF pruned < r /\ t < r THEN NewPools ELSE P[t]]
            /\ counters' = [t \in Slot |-> IF pruned < r /\ t < r THEN NewCounters ELSE count[t]]
            /\ completed' = IF pruned < r THEN {x \in done : x.slot >= r} ELSE done
            /\ generated' = IF pruned < r THEN {x \in all : x.slot >= r} ELSE all
            /\ highest' = h
            /\ root' = r
            /\ pruned' = IF pruned < r THEN r ELSE pruned
    BY Zenon DEF Settle
  <1>2. /\ highest \in Heights /\ completed \subseteq Certificate /\ FinalOK(highest, completed)
        /\ root \in 0..highest.slot /\ pruned \in 0..root
    BY DEF IInv, CertsOK
  <1>3. /\ h \in Heights /\ FinalOK(h, done)
        /\ h.slot > highest.slot \/ (h.slot = highest.slot /\ (highest.fast => h.fast))
    BY <1>2, HighestFinal
  <1> HIDE DEF h
  <1>4. /\ highest.slot \in Nat /\ h.slot \in Nat /\ root \in Nat /\ pruned \in Nat /\ r \in Nat
        /\ pruned <= root /\ root <= r /\ r <= highest.slot /\ r <= h.slot
    BY <1>2, <1>3 DEF Heights
  <1>5. /\ P \in [Slot -> SlotPools] /\ count \in [Slot -> Counters] /\ \A t \in Slot : SlotOK(P[t], count[t])
    BY DEF SlotsOK
  <1>6. NewPools \in SlotPools /\ NewCounters \in Counters /\ SlotOK(NewPools, NewCounters)
    BY NewSlotOK DEF SlotOK, Placed, Counted
  <1>7. SlotsOK(pools', counters')
    <2>1. pools' \in [Slot -> SlotPools] /\ counters' \in [Slot -> Counters]
      BY <1>1, <1>5, <1>6
    <2>2. ASSUME NEW t \in Slot PROVE SlotOK(pools'[t], counters'[t])
      <3>1. CASE pruned < r /\ t < r
        BY <1>1, <1>6, <3>1
      <3>2. CASE ~(pruned < r /\ t < r)
        BY <1>1, <1>5, <3>2
      <3> QED
        BY <3>1, <3>2
    <2> QED
      BY <2>1, <2>2 DEF SlotsOK
  <1>8. /\ done \subseteq Certificate /\ all \subseteq done
        /\ \A c \in all : Enough(P, c)
        /\ \A c \in Certificate : Enough(P, c) => c \in done
    BY DEF CertsOK
  <1>9. ASSUME NEW c \in Certificate, ~(pruned < r /\ c.slot < r)
        PROVE  Enough(pools', c) <=> Enough(P, c)
    <2>1. pools'[c.slot] = P[c.slot]
      BY <1>1, <1>9, CertTypes
    <2> QED
      BY <2>1, Zenon DEF Enough
  <1>10. ASSUME NEW c \in Certificate, pruned < r, c.slot < r PROVE ~Enough(pools', c)
    <2>1. pools'[c.slot] = NewPools
      BY <1>1, <1>10, CertTypes
    <2> QED
      BY <2>1, NothingEnough
  <1> HIDE DEF done, all
  <1>11. CertsOK(pools', completed', generated')
    <2>1. CASE pruned < r
      <3>1. /\ completed' = {x \in done : x.slot >= r} /\ generated' = {x \in all : x.slot >= r}
        BY <1>1, <2>1
      <3>2. \A c \in Certificate : c.slot \in Nat
        BY CertTypes DEF Slot
      <3>3. ASSUME NEW c \in generated' PROVE Enough(pools', c)
        <4>1. c \in Certificate /\ Enough(P, c) /\ ~(c.slot < r)
          BY <1>4, <1>8, <3>1, <3>2
        <4> QED
          BY <1>9, <4>1
      <3>4. ASSUME NEW c \in Certificate, Enough(pools', c) PROVE c \in completed'
        <4>1. ~(c.slot < r)
          BY <1>10, <2>1, <3>4
        <4>2. c \in done
          BY <1>8, <1>9, <3>4, <4>1
        <4> QED
          BY <1>4, <3>1, <3>2, <4>1, <4>2
      <3> QED
        BY <1>8, <3>1, <3>3, <3>4 DEF CertsOK
    <2>2. CASE ~(pruned < r)
      <3>1. completed' = done /\ generated' = all
        BY <1>1, <2>2
      <3> QED
        BY <1>8, <1>9, <2>2, <3>1 DEF CertsOK
    <2> QED
      BY <2>1, <2>2
  <1>12. FinalOK(highest', completed')
    <2>1. FinalOK(h, {x \in done : x.slot >= r})
      BY <1>3, <1>4, KeepFinal
    <2> QED
      BY <1>1, <1>3, <2>1
  <1>13. highest' \in Heights /\ root' \in 0..highest'.slot /\ pruned' \in 0..root'
    BY <1>1, <1>3, <1>4
  <1> QED
    BY <1>1, <1>3, <1>7, <1>11, <1>12, <1>13 DEF IInv

(* A vote that is taken.                                                     *)
LEMMA AddVoteInv ==
    ASSUME IInv, NEW v \in Vote, AddVote(v)
    PROVE  /\ IInv'
           /\ highest'.slot > highest.slot \/ (highest'.slot = highest.slot /\ (highest.fast => highest'.fast))
  <1> DEFINE P == [pools EXCEPT ![v.slot][v.type][v.block] = @ \cup {v.from}]
             stake == StakeOf[P[v.slot][v.type][v.block]]
             count == [counters EXCEPT ![v.slot] = CounterAddVote(@, v, stake)]
             made == {c \in VoteToCertTypes(v) :
                         c \notin completed /\ AtLeast(AccumulatedStake(P, c), Limit(c.type))}
  <1>1. ~HasConflictingVote(v) /\ IsNew(v) /\ Settle(v.slot, P, count, made, made)
    BY Zenon DEF AddVote
  <1>2. /\ pools \in [Slot -> SlotPools] /\ counters \in [Slot -> Counters] /\ v.slot \in Slot
        /\ \A t \in Slot : SlotOK(pools[t], counters[t])
    BY VoteShape DEF IInv, SlotsOK
  <1> DEFINE q == Added(pools[v.slot], v)
             d == CounterAddVote(counters[v.slot], v, stake)
  <1>3. P = [pools EXCEPT ![v.slot] = q]
    BY DEF Added
  <1>4. count = [counters EXCEPT ![v.slot] = d]
    OBVIOUS
  <1>5. stake = StakeOf[q[v.type][v.block]]
    <2> HIDE DEF P, q
    <2>1. P[v.slot] = q
      BY <1>2, <1>3
    <2> QED
      BY <2>1
  <1>6. SlotOK(q, d)
    <2>1. d = CounterAddVote(counters[v.slot], v, StakeOf[q[v.type][v.block]])
      BY <1>5
    <2>2. SlotOK(q, CounterAddVote(counters[v.slot], v, StakeOf[q[v.type][v.block]]))
      BY <1>1, <1>2, AddedSlotOK, Zenon
    <2> QED
      BY <2>1, <2>2, Zenon
  <1> HIDE DEF P, count, stake, q, d
  <1>7. /\ \A t \in Slot : P[t] = IF t = v.slot THEN q ELSE pools[t]
        /\ \A t \in Slot : count[t] = IF t = v.slot THEN d ELSE counters[t]
        /\ P = [t \in Slot |-> P[t]] /\ count = [t \in Slot |-> count[t]]
    BY <1>2, <1>3, <1>4, Zenon
  <1>8. \A t \in Slot : SlotOK(P[t], count[t])
    BY <1>2, <1>6, <1>7
  <1>9. SlotsOK(P, count)
    <2>1. \A t \in Slot : P[t] \in SlotPools /\ count[t] \in Counters
      BY <1>8 DEF SlotOK, Placed, Counted
    <2>2. P \in [Slot -> SlotPools] /\ count \in [Slot -> Counters]
      BY <1>7, <2>1, Zenon
    <2> QED
      BY <1>8, <2>2 DEF SlotsOK
  <1>10. \A c \in VoteToCertTypes(v) : c \in Certificate /\ c.slot = v.slot
    BY VoteCerts
  <1>11. made \in SUBSET Certificate /\ \A c \in made : c.slot = v.slot
    BY <1>10
  <1>12. ASSUME NEW c \in Certificate PROVE AccumulatedStake(P, c) = StakeOf[Backers(P[c.slot], c.type, c.block)]
    BY <1>8, CertTypes, Accumulated DEF SlotOK
  <1>13. ASSUME NEW c \in VoteToCertTypes(v), c \notin completed PROVE c \in made <=> Enough(P, c)
    BY <1>10, <1>12, <1>13 DEF Enough
  <1>14. ASSUME NEW c \in Certificate
         PROVE  /\ Enough(pools, c) => Enough(P, c)
                /\ Enough(P, c) /\ c \notin VoteToCertTypes(v) => Enough(pools, c)
    <2>1. c.slot \in Slot /\ Placed(pools[c.slot])
      BY <1>2, CertTypes DEF SlotOK
    <2>2. P[c.slot] = IF c.slot = v.slot THEN Added(pools[v.slot], v) ELSE pools[c.slot]
      BY <1>7, <2>1 DEF q
    <2> QED
      BY <2>1, <2>2, VoteBackers
  <1>15. made \subseteq VoteToCertTypes(v) /\ \A c \in made : c \notin completed
    OBVIOUS
  <1> HIDE DEF made
  <1>16. CertsOK(P, completed \cup made, generated \cup made)
    <2>1. /\ completed \subseteq Certificate /\ generated \subseteq completed
          /\ \A c \in generated : Enough(pools, c)
          /\ \A c \in Certificate : Enough(pools, c) => c \in completed
      BY DEF IInv, CertsOK
    <2>2. ASSUME NEW c \in generated \cup made PROVE Enough(P, c)
      BY <1>11, <1>13, <1>14, <1>15, <2>1
    <2>3. ASSUME NEW c \in Certificate, Enough(P, c) PROVE c \in completed \cup made
      BY <1>13, <1>14, <2>1, <2>3
    <2> QED
      BY <1>11, <2>1, <2>2, <2>3 DEF CertsOK
  <1> QED
    BY <1>1, <1>2, <1>9, <1>11, <1>16, SettleInv, Zenon

(* A certificate, or a vote that the pool has.                               *)
LEMMA MessageInv ==
    ASSUME IInv, NEW s \in Slot, NEW new \in SUBSET Certificate, \A c \in new : c.slot = s,
           Settle(s, pools, counters, new, {})
    PROVE  /\ IInv'
           /\ highest'.slot > highest.slot \/ (highest'.slot = highest.slot /\ (highest.fast => highest'.fast))
  <1>1. CertsOK(pools, completed \cup new, generated \cup {})
    BY DEF IInv, CertsOK
  <1>2. SlotsOK(pools, counters)
    BY DEF IInv
  <1> QED
    BY <1>1, <1>2, SettleInv

LEMMA NextInv ==
    ASSUME IInv, [Next]_vars
    PROVE  /\ IInv'
           /\ \/ UNCHANGED vars
              \/ highest'.slot > highest.slot \/ (highest'.slot = highest.slot /\ (highest.fast => highest'.fast))
  <1>1. ASSUME NEW v \in SentVotes, AddVote(v) \/ AddOldVote(v)
        PROVE  /\ IInv'
               /\ highest'.slot > highest.slot \/ (highest'.slot = highest.slot /\ (highest.fast => highest'.fast))
    <2>1. v \in Vote /\ v.slot \in Slot
      BY PoolAssumption, VoteShape
    <2>2. CASE AddVote(v)
      BY <2>1, <2>2, AddVoteInv
    <2>3. CASE AddOldVote(v)
      <3>1. Settle(v.slot, pools, counters, {}, {})
        BY <2>3 DEF AddOldVote
      <3> QED
        BY <2>1, <3>1, MessageInv
    <2> QED
      BY <1>1, <2>2, <2>3
  <1>2. ASSUME NEW c \in SentCerts, AddCertificate(c)
        PROVE  /\ IInv'
               /\ highest'.slot > highest.slot \/ (highest'.slot = highest.slot /\ (highest.fast => highest'.fast))
    <2>1. c \in Certificate /\ c.slot \in Slot
      BY PoolAssumption, CertTypes
    <2> DEFINE new == {c} \ completed
    <2>2. new \in SUBSET Certificate /\ \A d \in new : d.slot = c.slot
      BY <2>1
    <2>3. Settle(c.slot, pools, counters, new, {})
      BY <1>2 DEF AddCertificate
    <2> HIDE DEF new
    <2> QED
      BY <2>1, <2>2, <2>3, MessageInv
  <1>3. ASSUME NEW r \in Slot, SetRoot(r) PROVE IInv' /\ highest' = highest
    <2>1. root' = r /\ r > root /\ r <= highest.slot
          /\ UNCHANGED <<pools, counters, completed, generated, highest, pruned>>
      BY <1>3 DEF SetRoot
    <2>2. highest.slot \in Nat /\ root \in 0..highest.slot /\ pruned \in 0..root /\ r \in Nat
      BY DEF IInv, Heights, Slot
    <2>3. root' \in 0..highest'.slot /\ pruned' \in 0..root'
      BY <2>1, <2>2
    <2> QED
      BY <2>1, <2>3 DEF IInv
  <1>4. CASE UNCHANGED vars
    BY <1>4 DEF vars, IInv
  <1> QED
    BY <1>1, <1>2, <1>3, <1>4 DEF Next

-----------------------------------------------------------------------------
(* Four blocks that are safe to notarize would need more than all the stake. *)
LEMMA NotFour ==
    ASSUME NEW p, NEW c, SlotOK(p, c),
           NEW a1 \in Block, NEW a2 \in Block \ {a1}, NEW a3 \in Block \ {a1, a2}, NEW a4 \in Block \ {a1, a2, a3},
           \A b \in {a1, a2, a3, a4} : IsSafeToNotar(c, b)
    PROVE  FALSE
  <1> USE Kinds
  <1> DEFINE N(b) == p["Notarize"][b]
             K == p["Skip"][NoBlock]
  <1>1. /\ \A b \in Block : N(b) \in SUBSET Validator /\ N(b) \cap K = {} /\ c.entry[b] = StakeOf[N(b)]
        /\ K \in SUBSET Validator /\ c.skip = StakeOf[K]
        /\ \A b, d \in Block : b # d => N(b) \cap N(d) = {}
    BY InPools, Zenon DEF SlotOK, Apart, Counted
  <1>2. /\ \A S \in SUBSET Validator : StakeOf[S] \in Nat
        /\ \A S, T \in SUBSET Validator : S \cap T = {} => StakeOf[S \cup T] = StakeOf[S] + StakeOf[T]
        /\ Total \in Nat /\ Total > 0
    BY StakeAssumption DEF Total
  <1>3. \A b \in {a1, a2, a3, a4} :
            \/ AtLeast(c.entry[b], 40)
            \/ AtLeast(c.entry[b], 20) /\ AtLeast(c.skip + c.entry[b], 60)
    BY DEF IsSafeToNotar
  <1> HIDE DEF N, K
  <1> DEFINE S2 == N(a1) \cup N(a2)
             S3 == S2 \cup N(a3)
             S4 == S3 \cup N(a4)
             S5 == S4 \cup K
  <1>4. S2 \in SUBSET Validator /\ StakeOf[S2] = StakeOf[N(a1)] + StakeOf[N(a2)]
    BY <1>1, <1>2, Zenon
  <1>5. S3 \in SUBSET Validator /\ StakeOf[S3] = StakeOf[S2] + StakeOf[N(a3)]
    <2>1. S2 \cap N(a3) = {}
      BY <1>1
    <2> HIDE DEF S2
    <2> QED
      BY <1>1, <1>2, <1>4, <2>1, Zenon
  <1>6. S4 \in SUBSET Validator /\ StakeOf[S4] = StakeOf[S3] + StakeOf[N(a4)]
    <2>1. S3 \cap N(a4) = {}
      BY <1>1
    <2> HIDE DEF S3
    <2> QED
      BY <1>1, <1>2, <1>5, <2>1
  <1>7. S5 \in SUBSET Validator /\ StakeOf[S5] = StakeOf[S4] + StakeOf[K]
    <2>1. S4 \cap K = {}
      BY <1>1
    <2> HIDE DEF S4
    <2> QED
      BY <1>1, <1>2, <1>6, <2>1, Zenon
  <1>8. StakeOf[S5] <= Total
    <2> HIDE DEF S5
    <2>1. S5 \in SUBSET Validator /\ Validator \in SUBSET Validator
      BY <1>7
    <2> QED
      BY <2>1, StakeMonotone DEF Total
  <1> HIDE DEF S2, S3, S4, S5
  <1> DEFINE e1 == c.entry[a1]
             e2 == c.entry[a2]
             e3 == c.entry[a3]
             e4 == c.entry[a4]
             k == c.skip
  <1>9. /\ e1 \in Nat /\ e2 \in Nat /\ e3 \in Nat /\ e4 \in Nat /\ k \in Nat
        /\ e1 + e2 + e3 + e4 + k <= Total
    <2>1. /\ e1 = StakeOf[N(a1)] /\ e2 = StakeOf[N(a2)] /\ e3 = StakeOf[N(a3)] /\ e4 = StakeOf[N(a4)]
          /\ k = StakeOf[K]
      BY <1>1
    <2>2. e1 \in Nat /\ e2 \in Nat /\ e3 \in Nat /\ e4 \in Nat /\ k \in Nat
      BY <1>1, <1>2, <2>1
    <2> HIDE DEF e1, e2, e3, e4, k
    <2>3. StakeOf[S5] = e1 + e2 + e3 + e4 + k
      BY <1>4, <1>5, <1>6, <1>7, <2>1, <2>2
    <2> QED
      BY <1>8, <2>2, <2>3
  <1>10. ASSUME NEW e \in Nat, AtLeast(e, 40) \/ (AtLeast(e, 20) /\ AtLeast(k + e, 60))
         PROVE  e * 100 >= 40 * Total \/ (e * 100 >= 20 * Total /\ (k + e) * 100 >= 60 * Total)
    BY <1>10 DEF AtLeast
  <1>11. /\ e1 * 100 >= 40 * Total \/ (e1 * 100 >= 20 * Total /\ (k + e1) * 100 >= 60 * Total)
         /\ e2 * 100 >= 40 * Total \/ (e2 * 100 >= 20 * Total /\ (k + e2) * 100 >= 60 * Total)
         /\ e3 * 100 >= 40 * Total \/ (e3 * 100 >= 20 * Total /\ (k + e3) * 100 >= 60 * Total)
         /\ e4 * 100 >= 40 * Total \/ (e4 * 100 >= 20 * Total /\ (k + e4) * 100 >= 60 * Total)
    BY <1>3, <1>9, <1>10, Zenon
  <1> HIDE DEF e1, e2, e3, e4, k
  <1> QED
    BY <1>2, <1>9, <1>11

LEMMA AtMostThree ==
    ASSUME NEW p, NEW c, SlotOK(p, c)
    PROVE  Cardinality(c.notarSent) <= 3
  <1> DEFINE S == c.notarSent
  <1>1. S \in SUBSET Block /\ \A b \in S : IsSafeToNotar(c, b)
    BY DEF SlotOK, Sent
  <1>2. IsFiniteSet(S)
    BY <1>1, FS_Subset, StakeAssumption
  <1> HIDE DEF S
  <1>3. Cardinality(S) \in Nat
    BY <1>2, FS_CardinalityType
  <1>4. ASSUME NEW R \in SUBSET S, IsFiniteSet(R), Cardinality(R) > 0
        PROVE  \E b \in R : /\ IsFiniteSet(R \ {b}) /\ R \ {b} \in SUBSET S
                            /\ Cardinality(R \ {b}) = Cardinality(R) - 1
    <2>1. R # {}
      BY <1>4, FS_EmptySet
    <2>2. PICK b \in R : TRUE
      BY <2>1
    <2>3. IsFiniteSet(R \ {b}) /\ Cardinality(R \ {b}) = Cardinality(R) - 1
      BY <1>4, FS_RemoveElement
    <2> QED
      BY <2>2, <2>3
  <1>5. SUFFICES ASSUME Cardinality(S) > 3 PROVE FALSE
    BY <1>3 DEF S
  <1>6. PICK a1 \in S : /\ IsFiniteSet(S \ {a1}) /\ S \ {a1} \in SUBSET S
                        /\ Cardinality(S \ {a1}) = Cardinality(S) - 1
    BY <1>2, <1>3, <1>4, <1>5
  <1> DEFINE R1 == S \ {a1}
  <1>7. PICK a2 \in R1 : /\ IsFiniteSet(R1 \ {a2}) /\ R1 \ {a2} \in SUBSET S
                         /\ Cardinality(R1 \ {a2}) = Cardinality(R1) - 1
    <2> HIDE DEF R1
    <2>1. IsFiniteSet(R1) /\ R1 \in SUBSET S /\ Cardinality(R1) > 0
      BY <1>3, <1>5, <1>6 DEF R1
    <2> QED
      BY <1>4, <2>1
  <1> DEFINE R2 == R1 \ {a2}
  <1>8. PICK a3 \in R2 : /\ IsFiniteSet(R2 \ {a3}) /\ R2 \ {a3} \in SUBSET S
                         /\ Cardinality(R2 \ {a3}) = Cardinality(R2) - 1
    <2> HIDE DEF R1, R2
    <2>1. Cardinality(R1) = Cardinality(S) - 1
      BY <1>6 DEF R1
    <2>2. IsFiniteSet(R2) /\ R2 \in SUBSET S /\ Cardinality(R2) = Cardinality(R1) - 1
      BY <1>7 DEF R2
    <2>3. Cardinality(R2) > 0
      BY <1>3, <1>5, <2>1, <2>2
    <2> QED
      BY <1>4, <2>2, <2>3
  <1> DEFINE R3 == R2 \ {a3}
  <1>9. PICK a4 \in R3 : TRUE
    <2> HIDE DEF R1, R2, R3
    <2>1. Cardinality(R1) = Cardinality(S) - 1
      BY <1>6 DEF R1
    <2>2. Cardinality(R2) = Cardinality(R1) - 1
      BY <1>7 DEF R2
    <2>3. IsFiniteSet(R3) /\ R3 \in SUBSET S /\ Cardinality(R3) = Cardinality(R2) - 1
      BY <1>8 DEF R3
    <2>4. Cardinality(R3) > 0
      BY <1>3, <1>5, <2>1, <2>2, <2>3
    <2> QED
      BY <1>4, <2>3, <2>4
  <1>10. /\ a1 \in Block /\ a2 \in Block \ {a1} /\ a3 \in Block \ {a1, a2} /\ a4 \in Block \ {a1, a2, a3}
         /\ \A b \in {a1, a2, a3, a4} : b \in S
    BY <1>1, <1>6, <1>7, <1>8, <1>9
  <1> QED
    BY <1>1, <1>10, NotFour

-----------------------------------------------------------------------------
(* The invariant holds in every state of the pool.                           *)
LEMMA Invariant == Spec => []IInv
  <1>1. Init => IInv
    BY InitInv
  <1>2. IInv /\ [Next]_vars => IInv'
    BY NextInv
  <1> QED
    BY <1>1, <1>2, PTL DEF Spec

(* Every variable of the pool keeps its type, and pruning never overtakes     *)
(* the root.                                                                *)
THEOREM PoolTyped == Spec => []TypeOK
  <1>1. IInv => TypeOK
    BY Zenon DEF IInv, SlotsOK, SlotPools, Counters, CertsOK, Heights, TypeOK
  <1> QED
    BY <1>1, Invariant, PTL

(* SlotStakeCounters::add_vote() keeps its sums equal to the stakes of the    *)
(* votes in the pool, for any votes in any order.                            *)
THEOREM CountersAreExact == Spec => []CountersExact
  <1>1. ASSUME IInv PROVE CountersExact
    <2> SUFFICES ASSUME NEW s \in Slot
                 PROVE  LET c == counters[s]
                            skip == pools[s]["Skip"][NoBlock]
                            notarize == pools[s]["Notarize"]
                            notarizers == UNION {notarize[b] : b \in Block}
                        IN  /\ c.skip = StakeOf[skip]
                            /\ \A b \in Block : c.entry[b] = StakeOf[notarize[b]]
                            /\ c.notarize = StakeOf[notarizers]
                            /\ \A b \in Block : c.entry[b] <= c.top
                            /\ c.top # 0 => \E b \in Block : c.entry[b] = c.top
                            /\ notarizers \cap skip = {}
      BY DEF CountersExact
    <2>1. Counted(pools[s], counters[s]) /\ Apart(pools[s])
      BY <1>1 DEF IInv, SlotsOK, SlotOK
    <2>2. Notarizers(pools[s]) \cap pools[s]["Skip"][NoBlock] = {}
      BY <2>1 DEF Apart, Notarizers
    <2> QED
      BY <2>1, <2>2 DEF Counted, Notarizers
  <1> QED
    BY <1>1, Invariant, PTL

(* The pool makes a certificate exactly when different validators with the    *)
(* stake it needs have voted for it, for any votes in any order.             *)
THEOREM CertificatesAreExact == Spec => []CertificatesExact
  <1>1. IInv => CertificatesExact
    BY DEF IInv, CertsOK, Enough, CertificatesExact
  <1> QED
    BY <1>1, Invariant, PTL

(* SafeToNotar and SafeToSkip are sent exactly when the votes in the pool     *)
(* make them safe, wherever the own vote comes in the order.                 *)
THEOREM EventsAreExact == Spec => []EventsExact
  <1> USE Kinds
  <1>1. ASSUME IInv PROVE EventsExact
    <2> SUFFICES ASSUME NEW s \in Slot
                 PROVE  LET c == counters[s] IN
                        /\ c.notarSent = IF c.first = "None" THEN {} ELSE {b \in Block : IsSafeToNotar(c, b)}
                        /\ c.skipSent = IsSafeToSkip(c)
                        /\ c.first # "None" <=>
                               \E b \in Key : Me \in pools[s]["Skip"][b] \cup pools[s]["Notarize"][b]
      BY Zenon DEF EventsExact
    <2> DEFINE p == pools[s]
    <2>1. Sent(p, counters[s]) /\ Placed(p)
      BY <1>1 DEF IInv, SlotsOK, SlotOK
    <2>2. Me \in Notarizers(p) \cup p["Skip"][NoBlock] <=> \E b \in Key : Me \in p["Skip"][b] \cup p["Notarize"][b]
      <3>1. p["Notarize"][NoBlock] = {} /\ \A b \in Block : p["Skip"][b] = {}
        BY <2>1 DEF Placed
      <3>2. \A b \in Key : b = NoBlock \/ b \in Block
        BY DEF Key
      <3> QED
        BY <3>1, <3>2 DEF Notarizers
    <2> QED
      BY <2>1, <2>2, Zenon DEF Sent
  <1> QED
    BY <1>1, Invariant, PTL

(* The pool asks its owner for at most three fallback votes in a slot, which  *)
(* is what MAX_ENTRIES_PER_PUBKEY_FOR_NOTARIZE_LITE lets the other pools      *)
(* take, however many blocks the slot has.                                   *)
THEOREM FallbackVotesAreBounded == Spec => []FallbackBounded
  <1>1. ASSUME IInv, NEW s \in Slot PROVE Cardinality(counters[s].notarSent) <= 3
    BY <1>1, AtMostThree DEF IInv, SlotsOK
  <1>2. IInv => FallbackBounded
    BY <1>1 DEF FallbackBounded, MaxEntries
  <1> QED
    BY <1>2, Invariant, PTL

(* A standstill refreshes certificates that show the highest slot to be       *)
(* final, and does not panic, after any certificates and any pruning.        *)
THEOREM StandstillIsSafe == Spec => []StandstillSafe
  <1>1. IInv => StandstillSafe
    BY FinalGives DEF IInv, CertsOK
  <1> QED
    BY <1>1, Invariant, PTL

(* The highest finalized slot is never below one that the certificates        *)
(* finalize.                                                                *)
THEOREM HighestIsExact == Spec => []HighestExact
  <1>1. IInv => HighestExact
    BY FinalGives DEF IInv, CertsOK
  <1> QED
    BY <1>1, Invariant, PTL

(* insert_certificate() never takes the highest finalized slot back.          *)
THEOREM FinalizedStays == Spec => FinalizedForGood
  <1>1. IInv /\ [Next]_vars =>
            [highest'.slot > highest.slot \/ (highest'.slot = highest.slot /\ (highest.fast => highest'.fast))]_vars
    BY NextInv
  <1> QED
    BY <1>1, Invariant, PTL DEF Spec, FinalizedForGood

-----------------------------------------------------------------------------
(* The pools of the cluster.  SlotAgreement has one set of votes for all of   *)
(* them; a pool holds a part of it, and anything of the others.              *)
CONSTANT Others
VARIABLE votes
Cluster == INSTANCE SlotAgreement

(* The pool has no vote of a voter that it did not cast.                     *)
PartOf(s) ==
    /\ Others \subseteq Validator /\ Cluster!TypeOK
    /\ \A t \in Kind, b \in Key : pools[s][t][b] \subseteq votes[t][b] \cup Others

(* What the pool makes of them is possible in SlotAgreement.                 *)
Covered(s) ==
    /\ \A c \in generated : c.slot = s => Cluster!Certified(c.type, c.block)
    /\ \A b \in counters[s].notarSent : Cluster!SafeToNotar(b, Others)
    /\ counters[s].skipSent => Cluster!SafeToSkip(Others)

(* The instance has the same votes and the same stakes.                      *)
LEMMA SameVotes ==
    /\ Cluster!Key = Key /\ Cluster!BlockTypes = BlockTypes /\ Cluster!PlainTypes = PlainTypes
    /\ Cluster!Total = Total /\ Cluster!Voter = Validator \ Others
    /\ \A t : Cluster!VoteTypes(t) = VoteTypes(t) /\ Cluster!Limit(t) = Limit(t)
    /\ \A n, p : Cluster!AtLeast(n, p) <=> AtLeast(n, p)
  BY DEF Cluster!Key, Key, Cluster!BlockTypes, BlockTypes, Cluster!PlainTypes, PlainTypes,
         Cluster!Total, Total, Cluster!Voter, Cluster!VoteTypes, VoteTypes, Cluster!Limit, Limit,
         Cluster!AtLeast, AtLeast

(* Where the votes of the cluster are.                                       *)
LEMMA ClusterVotes ==
    ASSUME NEW s \in Slot, PartOf(s)
    PROVE  /\ Others \in SUBSET Validator
           /\ \A t \in Kind, b \in Key : votes[t][b] \in SUBSET Validator
           /\ Cluster!Voters("Skip") = votes["Skip"][NoBlock]
  <1> USE Kinds
  <1>1. votes \in [Kind -> [Key -> SUBSET (Validator \ Others)]]
    BY SameVotes DEF PartOf, Cluster!TypeOK, Kind
  <1>2. \A b \in Block : votes["Skip"][b] = {}
    BY SameVotes DEF PartOf, Cluster!TypeOK
  <1>3. Cluster!Voters("Skip") = votes["Skip"][NoBlock]
    BY <1>2, SameVotes DEF Cluster!Voters, Key
  <1> QED
    BY <1>1, <1>3 DEF PartOf

(* A certificate that the pool makes.                                        *)
LEMMA CertificateCovered ==
    ASSUME IInv, NEW s \in Slot, PartOf(s), NEW c \in generated, c.slot = s
    PROVE  Cluster!Certified(c.type, c.block)
  <1> USE Kinds
  <1> DEFINE R == Backers(pools[s], c.type, c.block)
             S == Backers(votes, c.type, c.block) \cup Others
  <1>1. c \in Certificate
    BY DEF IInv, CertsOK
  <1>2. c.block \in Key /\ VoteTypes(c.type) \in SUBSET Kind /\ Limit(c.type) \in Nat
    <2>1. c.block \in Key
      BY <1>1 DEF Certificate, Key
    <2>2. VoteTypes(c.type) \in SUBSET Kind
      BY DEF VoteTypes
    <2> QED
      BY <2>1, <2>2 DEF Limit
  <1>3. AtLeast(StakeOf[R], Limit(c.type))
    BY DEF IInv, CertsOK, Enough
  <1>4. R \in SUBSET S
    BY <1>2 DEF Backers, PartOf
  <1>5. S \in SUBSET Validator
    BY <1>2, ClusterVotes DEF Backers
  <1> HIDE DEF R, S
  <1>6. AtLeast(StakeOf[S], Limit(c.type))
    BY <1>2, <1>3, <1>4, <1>5, AtLeastMonotone
  <1> QED
    BY <1>6, SameVotes, Zenon DEF S, Cluster!Certified, Cluster!Backers, Backers

(* An event that the pool sends because of a block, ...                       *)
LEMMA SafeToNotarCovered ==
    ASSUME IInv, NEW s \in Slot, PartOf(s), NEW b \in counters[s].notarSent
    PROVE  Cluster!SafeToNotar(b, Others)
  <1> USE Kinds
  <1> DEFINE p == pools[s]
             c == counters[s]
             N == p["Notarize"][b]
             K == p["Skip"][NoBlock]
             M == votes["Notarize"][b] \cup Others
             MK == M \cup votes["Skip"][NoBlock]
  <1>1. Placed(p) /\ Apart(p) /\ Counted(p, c) /\ Sent(p, c)
    BY DEF IInv, SlotsOK, SlotOK
  <1>2. b \in Block /\ IsSafeToNotar(c, b)
    BY <1>1 DEF Sent
  <1>3. c.entry[b] = StakeOf[N] /\ c.skip = StakeOf[K]
    BY <1>1, <1>2 DEF Counted
  <1>4. N \in SUBSET Validator /\ K \in SUBSET Validator /\ N \cap K = {}
    BY <1>1, <1>2, InPools DEF Apart
  <1>5. N \in SUBSET M /\ N \cup K \in SUBSET MK /\ M \in SUBSET Validator /\ MK \in SUBSET Validator
    <2>1. /\ votes["Notarize"][b] \in SUBSET Validator /\ votes["Skip"][NoBlock] \in SUBSET Validator
          /\ Others \in SUBSET Validator
      BY <1>2, ClusterVotes
    <2>2. N \subseteq votes["Notarize"][b] \cup Others /\ K \subseteq votes["Skip"][NoBlock] \cup Others
      BY <1>2 DEF PartOf
    <2> QED
      BY <2>1, <2>2
  <1>6. StakeOf[N \cup K] = StakeOf[K] + StakeOf[N]
    <2>1. StakeOf[N \cup K] = StakeOf[N] + StakeOf[K] /\ StakeOf[N] \in Nat /\ StakeOf[K] \in Nat
      BY <1>4, StakeAssumption, Zenon
    <2> QED
      BY <2>1
  <1>7. AtLeast(StakeOf[N], 40) \/ (AtLeast(StakeOf[N], 20) /\ AtLeast(StakeOf[N \cup K], 60))
    BY <1>2, <1>3, <1>6 DEF IsSafeToNotar
  <1> HIDE DEF N, K, M, MK
  <1>8. /\ AtLeast(StakeOf[N], 40) => AtLeast(StakeOf[M], 40)
        /\ AtLeast(StakeOf[N], 20) => AtLeast(StakeOf[M], 20)
        /\ AtLeast(StakeOf[N \cup K], 60) => AtLeast(StakeOf[MK], 60)
    BY <1>5, AtLeastMonotone
  <1>9. AtLeast(StakeOf[M], 40) \/ (AtLeast(StakeOf[M], 20) /\ AtLeast(StakeOf[MK], 60))
    BY <1>7, <1>8
  <1>10. Cluster!Voters("Skip") = votes["Skip"][NoBlock]
    BY ClusterVotes
  <1> QED
    BY <1>9, <1>10, SameVotes, Zenon DEF Cluster!SafeToNotar, M, MK

(* ... and one that it sends because no block has enough.                     *)
LEMMA SafeToSkipCovered ==
    ASSUME IInv, NEW s \in Slot, PartOf(s), counters[s].skipSent
    PROVE  Cluster!SafeToSkip(Others)
  <1> USE Kinds
  <1> DEFINE p == pools[s]
             c == counters[s]
             K == p["Skip"][NoBlock]
             A == Notarizers(p)
  <1>1. Placed(p) /\ Apart(p) /\ Counted(p, c) /\ Sent(p, c)
    BY DEF IInv, SlotsOK, SlotOK
  <1>2. AtLeast(c.skip + (c.notarize - c.top), 40)
    BY <1>1, Zenon DEF Sent, IsSafeToSkip
  <1> SUFFICES ASSUME NEW top \in Block
               PROVE  AtLeast(StakeOf[Others \cup votes["Skip"][NoBlock]
                                      \cup UNION {votes["Notarize"][b] : b \in Block \ {top}}], 40)
    <2>1. Cluster!Voters("Skip") = votes["Skip"][NoBlock]
      BY ClusterVotes
    <2> QED
      BY <2>1, SameVotes, Zenon DEF Cluster!SafeToSkip
  <1> DEFINE T == p["Notarize"][top]
             R == UNION {p["Notarize"][b] : b \in Block \ {top}}
             M == Others \cup votes["Skip"][NoBlock]
                  \cup UNION {votes["Notarize"][b] : b \in Block \ {top}}
  <1>3. /\ T \in SUBSET Validator /\ R \in SUBSET Validator /\ K \in SUBSET Validator
        /\ A = T \cup R
    <2>1. \A b \in Block : p["Notarize"][b] \in SUBSET Validator
      BY <1>1, InPools
    <2>2. K \in SUBSET Validator
      BY <1>1, InPools
    <2>3. A = T \cup R
      BY DEF Notarizers
    <2> QED
      BY <2>1, <2>2, <2>3
  <1>4. T \cap R = {} /\ R \cap K = {}
    BY <1>1 DEF Apart
  <1>5. R \cup K \in SUBSET M /\ M \in SUBSET Validator
    <2>1. \A b \in Block : /\ votes["Notarize"][b] \in SUBSET Validator
                           /\ p["Notarize"][b] \subseteq votes["Notarize"][b] \cup Others
      BY ClusterVotes DEF PartOf
    <2>2. /\ votes["Skip"][NoBlock] \in SUBSET Validator /\ Others \in SUBSET Validator
          /\ K \subseteq votes["Skip"][NoBlock] \cup Others
      BY ClusterVotes DEF PartOf
    <2> QED
      BY <2>1, <2>2
  <1>6. c.skip = StakeOf[K] /\ c.notarize = StakeOf[A] /\ StakeOf[T] <= c.top /\ c.top \in Nat
    <2>1. c.entry[top] = StakeOf[T] /\ c.entry[top] <= c.top
      BY <1>1 DEF Counted
    <2>2. c.top \in Nat
      BY <1>1 DEF Counted, Counters
    <2>3. c.skip = StakeOf[K] /\ c.notarize = StakeOf[A]
      BY <1>1 DEF Counted
    <2> QED
      BY <2>1, <2>2, <2>3
  <1> HIDE DEF p, c, K, A, T, R, M
  <1>7. /\ StakeOf[A] = StakeOf[T] + StakeOf[R] /\ StakeOf[R \cup K] = StakeOf[R] + StakeOf[K]
        /\ StakeOf[T] \in Nat /\ StakeOf[R] \in Nat /\ StakeOf[K] \in Nat
    BY <1>3, <1>4, StakeAssumption
  <1>8. Total \in Nat
    BY <1>3, StakeRest, Zenon
  <1>9. AtLeast(StakeOf[R \cup K], 40)
    <2> DEFINE x == StakeOf[K]
               y == StakeOf[R]
               z == StakeOf[T]
               n == c.top
    <2>1. x \in Nat /\ y \in Nat /\ z \in Nat /\ n \in Nat /\ z <= n
      BY <1>6, <1>7
    <2>2. (x + ((z + y) - n)) * 100 >= 40 * Total
      BY <1>2, <1>6, <1>7 DEF AtLeast
    <2>3. StakeOf[R \cup K] = y + x
      BY <1>7
    <2> HIDE DEF x, y, z, n
    <2>4. (y + x) * 100 >= 40 * Total
      BY <1>8, <2>1, <2>2
    <2> QED
      BY <2>3, <2>4 DEF AtLeast
  <1>10. AtLeast(StakeOf[M], 40)
    BY <1>5, <1>9, AtLeastMonotone
  <1> QED
    BY <1>10 DEF M

(* Every pool is covered by SlotAgreement: whatever part of the votes of the  *)
(* voters a pool holds, in whatever order it got them, and whatever the       *)
(* others sent it, a certificate that update_certificates() makes is one that *)
(* SlotAgreement has, and an event that SlotStakeCounters sends is one that   *)
(* lets a voter of SlotAgreement cast its fallback vote.                      *)
THEOREM PoolsAreCovered ==
    ASSUME NEW CONSTANT s \in Slot
    PROVE  Spec /\ []PartOf(s) => []Covered(s)
  <1>1. IInv /\ PartOf(s) => Covered(s)
    BY CertificateCovered, SafeToNotarCovered, SafeToSkipCovered DEF Covered
  <1> QED
    BY <1>1, Invariant, PTL
=============================================================================
