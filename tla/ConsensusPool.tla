---------------------------- MODULE ConsensusPool ----------------------------
(***************************************************************************)
(* The consensus pool of one validator: the votes and certificates it has    *)
(* taken, the stake counters behind the safe-to-notar and safe-to-skip        *)
(* events, and the certificates it makes from the votes.                     *)
(*                                                                         *)
(* Votes and certificates come in any order, more than once, from any        *)
(* validator.  The root is moved by another thread.  What a new certificate  *)
(* does to the parent-ready tracker is in ParentReadyTracker, and what its    *)
(* event does to the voter is in EventHandler.  Genesis votes belong to the  *)
(* migration and are left out.                                              *)
(***************************************************************************)
EXTENDS VotorVotes

CONSTANTS Me,             \* the owner of the pool
          MaxSlot,        \* bound: the last slot
          SentVotes,      \* bound: the votes that are sent to the pool
          SentCerts       \* bound: the certificates that are sent to it

Slot == 1..MaxSlot
Vote == [from : Validator, slot : Slot, type : BlockTypes, block : Block]
        \cup [from : Validator, slot : Slot, type : PlainTypes, block : {NoBlock}]
Cert(t, s, b) == [type |-> t, slot |-> s, block |-> b]
Certificate == [type : BlockCerts, slot : Slot, block : Block]
               \cup [type : PlainCerts, slot : Slot, block : {NoBlock}]

ASSUME PoolAssumption ==
    /\ Me \in Validator /\ MaxSlot \in Nat
    /\ SentVotes \subseteq Vote /\ SentCerts \subseteq Certificate

VARIABLES pools,      \* vote_pools: who voted, by slot, vote type and block
          counters,   \* slot_stake_counters_map
          completed,  \* completed_certificates
          generated,  \* generated_cert_types
          highest,    \* highest_finalized_slot_cert; slot 0 for none
          root,       \* the slot of the root bank
          pruned      \* last_pruned_slot

vars == <<pools, counters, completed, generated, highest, root, pruned>>

-----------------------------------------------------------------------------
(* The blocks of the votes of a validator in one pool.                       *)
Entries(v, t) == {b \in Key : v.from \in pools[v.slot][t][b]}

(* Votes for a block conflict only when they are for the same one.           *)
HasConflictingVote(v) ==
    \E t \in ConflictingTypes(v.type) :
        IF t \in BlockTypes /\ v.block # NoBlock THEN v.block \in Entries(v, t)
                                               ELSE Entries(v, t) # {}

(* Mutant: the entries of a validator are not counted.                       *)
IsNewUncapped(v) == v.block \notin Entries(v, v.type)

(* update_vote_pool() makes an entry.                                        *)
IsNew(v) ==
    v.block \notin Entries(v, v.type) /\ Cardinality(Entries(v, v.type)) < MaxEntries(v.type)

-----------------------------------------------------------------------------
(* SlotStakeCounters                                                        *)
NewCounters ==
    [first |-> "None", mine |-> NoBlock, skip |-> 0, notarize |-> 0,
     entry |-> [b \in Block |-> 0], top |-> 0, notarSent |-> {}, skipSent |-> FALSE]

IsSafeToNotar(c, b) ==
    /\ c.mine # b
    /\ \/ AtLeast(c.entry[b], 40)
       \/ AtLeast(c.entry[b], 20) /\ AtLeast(c.skip + c.entry[b], 60)

IsSafeToSkip(c) ==
    c.first = "Notarize" /\ AtLeast(c.skip + (c.notarize - c.top), 40)

(* Mutant: the entry's old stake stays in the sum.                           *)
CountTwice(c, v, stake) ==
    IF v.type = "Skip" THEN [c EXCEPT !.skip = stake]
    ELSE [c EXCEPT !.entry[v.block] = stake, !.notarize = @ + stake,
                   !.top = IF @ < stake THEN stake ELSE @]

(* add_vote(): the stake of the entry of the vote, ...                       *)
Count(c, v, stake) ==
    IF v.type = "Skip" THEN [c EXCEPT !.skip = stake]
    ELSE [c EXCEPT !.entry[v.block] = stake,
                   !.notarize = (@ - c.entry[v.block]) + stake,
                   !.top = IF @ < stake THEN stake ELSE @]

(* ... the first vote of the owner, ...                                      *)
First(c, v) ==
    IF c.first = "None" /\ v.from = Me
    THEN [c EXCEPT !.first = v.type, !.mine = v.block] ELSE c

(* ... and the events that are due, which are sent once.                     *)
SendEvents(c) ==
    IF c.first = "None" THEN c
    ELSE [c EXCEPT !.notarSent = @ \cup {b \in Block : IsSafeToNotar(c, b)},
                   !.skipSent = @ \/ IsSafeToSkip(c)]

(* Mutant: the owner's vote is noted after the events are looked at.          *)
CounterAddVoteLate(c, v, stake) ==
    IF v.type \in {"Skip", "Notarize"} THEN First(SendEvents(Count(c, v, stake)), v) ELSE c

CounterAddVote(c, v, stake) ==
    IF v.type \in {"Skip", "Notarize"} THEN SendEvents(First(Count(c, v, stake), v)) ELSE c

-----------------------------------------------------------------------------
(* vote_to_cert_types()                                                     *)
VoteToCertTypes(v) ==
    LET types == CASE v.type = "Notarize"                 -> {"Notarize", "NotarizeFallback", "FinalizeFast"}
                   [] v.type = "NotarizeFallback"         -> {"NotarizeFallback"}
                   [] v.type = "Finalize"                 -> {"Finalize"}
                   [] v.type \in {"Skip", "SkipFallback"} -> {"Skip"}
    IN  {Cert(t, v.slot, v.block) : t \in types}

(* The stakes of the pools of a certificate are added up.                    *)
AccumulatedStake(p, c) ==
    LET stake(t) == IF t \in VoteTypes(c.type) THEN StakeOf[p[c.slot][t][c.block]] ELSE 0
    IN  stake("Notarize") + stake("NotarizeFallback") + stake("Finalize")
        + stake("Skip") + stake("SkipFallback")

(* Mutants: the fast certificate does not replace the slow one; the slow one  *)
(* replaces the fast one; a Notarize certificate after the Finalize one is    *)
(* not looked at.                                                           *)
HighestOf(h, s, new, done, fastOver, slowOver, either) ==
    LET Has(t) == \E c \in new : c.type = t
        slow == /\ Has("Finalize") \/ (either /\ Has("Notarize"))
                /\ Cert("Finalize", s, NoBlock) \in done
                /\ \E b \in Block : Cert("Notarize", s, b) \in done
    IN  IF Has("FinalizeFast") /\ (h.slot < s \/ (fastOver /\ h.slot = s)) THEN [slot |-> s, fast |-> TRUE]
        ELSE IF slow /\ (h.slot < s \/ (slowOver /\ h.slot = s)) THEN [slot |-> s, fast |-> FALSE]
        ELSE h
HighestNotReplaced(h, s, new, done) == HighestOf(h, s, new, done, FALSE, FALSE, TRUE)
HighestReplacedBack(h, s, new, done) == HighestOf(h, s, new, done, TRUE, TRUE, TRUE)
HighestOneOrder(h, s, new, done) == HighestOf(h, s, new, done, TRUE, FALSE, FALSE)

(* insert_certificate(), for the new certificates of a message: the slot is   *)
(* finalized by the fast certificate, or by the Notarize and the Finalize     *)
(* certificate in either order.  The fast one replaces the slow one.         *)
Highest(h, s, new, done) ==
    LET Has(t) == \E c \in new : c.type = t
        slow == /\ Has("Notarize") \/ Has("Finalize")
                /\ Cert("Finalize", s, NoBlock) \in done
                /\ \E b \in Block : Cert("Notarize", s, b) \in done
    IN  IF Has("FinalizeFast") /\ h.slot <= s THEN [slot |-> s, fast |-> TRUE]
        ELSE IF slow /\ h.slot < s THEN [slot |-> s, fast |-> FALSE]
        ELSE h

(* What a message leaves, once maybe_prune() has dropped the slots below the  *)
(* root, which may have moved since the message was looked at.               *)
Settle(s, p, count, new, made) ==
    LET done == completed \cup new
        h == Highest(highest, s, new, done)
    IN  \E r \in root..highest.slot :
            LET Keep(S) == IF pruned < r THEN {x \in S : x.slot >= r} ELSE S IN
            /\ pools' = [t \in Slot |-> IF pruned < r /\ t < r THEN NewPools ELSE p[t]]
            /\ counters' = [t \in Slot |-> IF pruned < r /\ t < r THEN NewCounters ELSE count[t]]
            /\ completed' = Keep(done)
            /\ generated' = Keep(generated \cup made)
            /\ highest' = h
            /\ root' = r
            /\ pruned' = IF pruned < r THEN r ELSE pruned

(* add_vote()                                                               *)
AddVote(v) ==
    LET p == [pools EXCEPT ![v.slot][v.type][v.block] = @ \cup {v.from}]
        stake == StakeOf[p[v.slot][v.type][v.block]]
        made == {c \in VoteToCertTypes(v) :
                     c \notin completed /\ AtLeast(AccumulatedStake(p, c), Limit(c.type))}
    IN  /\ v.slot >= root /\ ~HasConflictingVote(v) /\ IsNew(v)
        /\ Settle(v.slot, p, [counters EXCEPT ![v.slot] = CounterAddVote(@, v, stake)], made, made)

(* A vote that the pool has, or has too many of, changes nothing else.       *)
AddOldVote(v) ==
    /\ v.slot >= root /\ ~HasConflictingVote(v) /\ ~IsNew(v)
    /\ Settle(v.slot, pools, counters, {}, {})

(* add_certificate()                                                        *)
AddCertificate(c) ==
    /\ c.slot >= root
    /\ Settle(c.slot, pools, counters, {c} \ completed, {})

(* The voting loop roots a slot that the pool has reported as final.          *)
SetRoot(r) ==
    /\ r > root /\ r <= highest.slot /\ root' = r
    /\ UNCHANGED <<pools, counters, completed, generated, highest, pruned>>

Init ==
    /\ pools = [s \in Slot |-> NewPools] /\ counters = [s \in Slot |-> NewCounters]
    /\ completed = {} /\ generated = {} /\ highest = [slot |-> 0, fast |-> FALSE]
    /\ root = 0 /\ pruned = 0

Next ==
    \/ \E v \in SentVotes : AddVote(v) \/ AddOldVote(v)
    \/ \E c \in SentCerts : AddCertificate(c)
    \/ \E r \in Slot : SetRoot(r)

Spec == Init /\ [][Next]_vars

-----------------------------------------------------------------------------
(* Every variable keeps its type, and the pool is never pruned past the root. *)
TypeOK ==
    /\ pools \in [Slot -> [BlockTypes \cup PlainTypes -> [Key -> SUBSET Validator]]]
    /\ counters \in [Slot -> [first : {"None", "Skip", "Notarize"}, mine : Block \cup {NoBlock},
                              skip : Nat, notarize : Nat, entry : [Block -> Nat], top : Nat,
                              notarSent : SUBSET Block, skipSent : BOOLEAN]]
    /\ completed \subseteq Certificate /\ generated \subseteq completed
    /\ highest \in [slot : 0..MaxSlot, fast : BOOLEAN]
    /\ root \in 0..highest.slot /\ pruned \in 0..root

(* The counters, which are updated vote by vote, are the stakes of the votes  *)
(* that the pool holds: nobody counts for two blocks, or for one and a skip.  *)
CountersExact ==
    \A s \in Slot :
        LET c == counters[s]
            skip == pools[s].Skip[NoBlock]
            notarize == pools[s].Notarize
            notarizers == UNION {notarize[b] : b \in Block}
        IN  /\ c.skip = StakeOf[skip]
            /\ \A b \in Block : c.entry[b] = StakeOf[notarize[b]]
            /\ c.notarize = StakeOf[notarizers]
            /\ \A b \in Block : c.entry[b] <= c.top
            /\ c.top # 0 => \E b \in Block : c.entry[b] = c.top
            /\ notarizers \cap skip = {}

(* A certificate that the pool made has its stake from different validators,  *)
(* and a certificate whose votes have the stake is in the pool.               *)
CertificatesExact ==
    /\ \A c \in generated : AtLeast(StakeOf[Backers(pools[c.slot], c.type, c.block)], Limit(c.type))
    /\ \A c \in Certificate : AtLeast(StakeOf[Backers(pools[c.slot], c.type, c.block)], Limit(c.type)) => c \in completed

(* The event is sent exactly when the votes in the pool make it safe, in      *)
(* whatever order they came and wherever the own vote came among them.        *)
EventsExact ==
    \A s \in Slot :
        LET c == counters[s] IN
        /\ c.notarSent = IF c.first = "None" THEN {} ELSE {b \in Block : IsSafeToNotar(c, b)}
        /\ c.skipSent = IsSafeToSkip(c)
        /\ c.first # "None" <=>
               \E b \in Key : Me \in pools[s].Skip[b] \cup pools[s].Notarize[b]

(* The owner is never told to cast more fallback votes in a slot than every   *)
(* pool has room for: MAX_ENTRIES_PER_PUBKEY_FOR_NOTARIZE_LITE.               *)
FallbackBounded == \A s \in Slot : Cardinality(counters[s].notarSent) <= MaxEntries("NotarizeFallback")

(* get_certs_for_standstill() never panics on a fast certificate of the       *)
(* highest slot, and what it refreshes shows that this slot is final.         *)
Refreshed ==
    {c \in completed :
        \/ c.slot > highest.slot
        \/ c.slot = highest.slot
           /\ c.type \in IF highest.fast THEN {"FinalizeFast"} ELSE {"Finalize", "Notarize"}}

StandstillSafe ==
    /\ \A c \in completed : c.type = "FinalizeFast" /\ c.slot = highest.slot => highest.fast
    /\ highest.slot # 0 =>
           \A t \in IF highest.fast THEN {"FinalizeFast"} ELSE {"Finalize", "Notarize"} :
               \E c \in Refreshed : c.slot = highest.slot /\ c.type = t

(* The highest finalized slot is the highest one that the certificates        *)
(* finalize, whichever of the two slow certificates came first.               *)
HighestExact ==
    \A s \in Slot :
        \/ \E b \in Block : Cert("FinalizeFast", s, b) \in completed
        \/ /\ Cert("Finalize", s, NoBlock) \in completed
           /\ \E b \in Block : Cert("Notarize", s, b) \in completed
        => s <= highest.slot

(* The highest finalized slot never goes back, and a fast certificate of it   *)
(* is never replaced by a slow one.                                           *)
FinalizedForGood ==
    [][highest'.slot > highest.slot \/ (highest'.slot = highest.slot /\ (highest.fast => highest'.fast))]_vars
=============================================================================
