----------------------------- MODULE EventHandler -----------------------------
(***************************************************************************)
(* Votor's event handler with its vote history, the timers it sets and the  *)
(* voting service that stores the history and broadcasts the votes; the     *)
(* process may crash and come back with the stored history.                 *)
(*                                                                         *)
(* The handler's thread works on one event at a time.  The calls an event   *)
(* leads to are a list, todo, that is worked off before the next event: a   *)
(* step casts at most one vote, so the pool's thread, the voting service    *)
(* and a crash may come between the votes of one event.                     *)
(***************************************************************************)
EXTENDS Naturals, Sequences, FiniteSets

CONSTANTS MaxSlot,     \* bound: the last slot
          Window,      \* NUM_CONSECUTIVE_LEADER_SLOTS
          Start,       \* the root block of the first start
          Block,       \* the blocks <<slot, id>> that leaders made after it
          Parent,      \* parent of every block
          Chain,       \* blocks that the cluster may certify, one per slot
          Shredded,    \* slots of which a first shred may arrive
          MayFail,     \* slots for whose votes no message may be made
          MaxQueue,    \* bound: messages that wait when an event is taken
          MaxCrash,    \* bound: crashes of the process
          MaxRefresh   \* bound: Standstill events

Slot == 0..MaxSlot
Known == Block \cup {Start}

ASSUME HandlerAssumption ==
    /\ MaxSlot \in Nat /\ Window \in Nat \ {0} /\ (MaxSlot + 1) % Window = 0
    /\ Start \in Slot \X Nat
    /\ Block \subseteq Slot \X (Nat \ {0}) /\ IsFiniteSet(Block)
    /\ Parent \in [Block -> Known] /\ \A b \in Block : Parent[b][1] < b[1]
    /\ Chain \subseteq Block /\ Shredded \subseteq Slot
    /\ MaxQueue \in Nat /\ MaxCrash \in Nat /\ MaxRefresh \in Nat

VARIABLES h,           \* VoteHistory
          pending,     \* pending_blocks
          finalized,   \* finalized_blocks
          shreds,      \* received_shred
          todo,        \* calls of the current event still to be made
          ops,         \* BLSOp::PushVote: a vote and the history saved with it
          released,    \* how many of them are in the channel of the voting service
          stored,      \* votes whose history is stored and which go out next
          disk,        \* the stored vote history
          root,        \* root of bank forks and blockstore
          banks,       \* frozen banks
          arriving,    \* their Block events in the channel, in the order of replay
          timers,      \* events that the timer set at a slot has still to fire
          kicked,      \* the pool kicked off with the root block
          pooled,      \* votes of ours in our own certificate pool
          sent,        \* history: votes broadcast
          crashes, refreshes

handler == <<h, pending, finalized, shreds, todo, timers>>
service == <<released, stored, disk, sent>>
ledger  == <<root, banks, arriving>>
pool    == <<kicked, pooled>>
bounds  == <<crashes, refreshes>>
vars == <<handler, ops, service, ledger, pool, bounds>>

-----------------------------------------------------------------------------
(* Votes and the vote history                                               *)
Type == {"Notarize", "Finalize", "Skip", "NotarizeFallback", "SkipFallback"}
Vote == [type : Type, block : Slot \X Nat]

BlockVote(t, b) == [type |-> t, block |-> b]
SlotVote(t, s)  == [type |-> t, block |-> <<s, 0>>]
SlotOf(v) == v.block[1]

(* VoteHistory::new().  The sets of voted, skipped and finished slots are   *)
(* all views of votes_cast.                                                 *)
NewHistory == [cast |-> {}, notarized |-> {}, ready |-> {}, root |-> 0]

Cast(t, s) == \E v \in h.cast : v.type = t /\ SlotOf(v) = s
Voted(s)   == Cast("Notarize", s) \/ Cast("Skip", s)
ItsOver(s) == Cast("Finalize", s)
BadWindow(s) == Cast("Skip", s) \/ Cast("NotarizeFallback", s) \/ Cast("SkipFallback", s)

(* VoteHistory::set_root()                                                  *)
SetHistoryRoot(r) ==
    [cast      |-> {v \in h.cast : SlotOf(v) >= r},
     notarized |-> {b \in h.notarized : b[1] >= r},
     ready     |-> {p \in h.ready : p[1] >= r},
     root      |-> r]

FirstOf(s) == s - (s % Window)
LastOf(s)  == FirstOf(s) + Window - 1

(* generate_vote_message(): the vote enters the history; unless no message  *)
(* can be made of it (no rank, no key, waiting to vote) it goes to our own  *)
(* pool at once and, with a snapshot of the history, to the votes that are  *)
(* sent when the event is done.                                             *)
CastVote(v) ==
    LET g == [h EXCEPT !.cast = @ \cup {v}]
    IN  /\ h' = g
        /\ \/ ops' = Append(ops, [vote |-> v, hist |-> g]) /\ pooled' = pooled \cup {v}
           \/ SlotOf(v) \in MayFail /\ UNCHANGED <<ops, pooled>>

-----------------------------------------------------------------------------
(* The calls                                                                *)
Call(f, b) == <<f, b>>

Idle == todo = <<>> /\ released = Len(ops) /\ released <= MaxQueue

(* Mutant: the parent of a block in mid-window is not looked at.            *)
MayNotarizeAnyParent(b) ==
    /\ ~Voted(b[1])
    /\ \/ ~(b[1] % Window = 0 \/ b[1] = 1)
       \/ <<b[1], Parent[b]>> \in h.ready

(* The conditions of try_notar().                                           *)
MayNotarize(b) ==
    /\ ~Voted(b[1])
    /\ IF b[1] % Window = 0 \/ b[1] = 1
       THEN <<b[1], Parent[b]>> \in h.ready
       ELSE /\ Parent[b][1] + 1 = b[1]
            /\ BlockVote("Notarize", Parent[b]) \in h.cast

(* The slots that try_notar() asks the history about: that of the block and, *)
(* in mid-window, that of its parent; each question asserts slot >= root.   *)
AsksAbout(b, s) ==
    \/ s = b[1]
    \/ /\ ~Voted(b[1]) /\ ~(b[1] % Window = 0 \/ b[1] = 1)
       /\ Parent[b][1] + 1 = b[1] /\ s = Parent[b][1]

(* Mutant: the block needs no notarization certificate.                     *)
MayFinalizeUnnotarized(b) ==
    /\ ~ItsOver(b[1]) /\ ~BadWindow(b[1])
    /\ BlockVote("Notarize", b) \in h.cast

(* The conditions of try_final().                                           *)
MayFinalize(b) ==
    /\ b \in h.notarized /\ ~ItsOver(b[1]) /\ ~BadWindow(b[1])
    /\ BlockVote("Notarize", b) \in h.cast

(* Mutant: the last slot of the window is left out.                         *)
SkipWindowShort(s) ==
    LET from == CHOOSE t \in {FirstOf(s), root, 1} :
                    \A u \in {FirstOf(s), root, 1} : u <= t
    IN  [i \in 1..(LastOf(s) - from) |-> Call("skip", <<from + i - 1, 0>>)]

(* try_skip_window(): every slot of the window from the root on.            *)
SkipWindow(s) ==
    LET from == CHOOSE t \in {FirstOf(s), root, 1} :
                    \A u \in {FirstOf(s), root, 1} : u <= t
    IN  [i \in 1..(LastOf(s) + 1 - from) |-> Call("skip", <<from + i - 1, 0>>)]

(* check_pending_blocks(), in the order of the slots.                       *)
PendingCalls ==
    LET Q == {q \in [1..Cardinality(pending) -> pending] :
                 \A i, j \in DOMAIN q : i < j => q[i][1] < q[j][1]}
    IN  {[i \in DOMAIN q |-> Call("notar", q[i])] : q \in Q}

(* The rest of the event when the current call is done, with new calls.     *)
Then(calls) == todo' = calls \o Tail(todo)
Doing(f, b) == todo # <<>> /\ Head(todo) = Call(f, b)

(* The blocks that try_notar() is given next: by the current call, by the   *)
(* next check of the pending blocks, by the next Block event.               *)
Tried ==
    {b \in Block : Doing("notar", b)} \cup pending
    \cup {b \in Block : todo = <<>> /\ arriving # <<>> /\ b = Head(arriving) /\ b[1] > root}

TryNotar(b) ==
    /\ Doing("notar", b)
    /\ IF MayNotarize(b)
       THEN /\ CastVote(BlockVote("Notarize", b))
            /\ pending' = {p \in pending : p[1] # b[1]}
            /\ Then(<<Call("final", b)>>)
       ELSE Then(<<>>) /\ UNCHANGED <<h, ops, pooled, pending>>
    /\ UNCHANGED <<finalized, shreds, timers, service, ledger, kicked, bounds>>

TryFinal(b) ==
    /\ Doing("final", b)
    /\ Then(<<>>)
    /\ IF MayFinalize(b)
       THEN CastVote(SlotVote("Finalize", b[1]))
       ELSE UNCHANGED <<h, ops, pooled>>
    /\ UNCHANGED <<pending, finalized, shreds, timers, service, ledger, kicked, bounds>>

(* Mutant: the first vote of the slot is not looked at.                     *)
TrySkipVoted(s) ==
    /\ Doing("skip", <<s, 0>>)
    /\ Then(<<>>)
    /\ CastVote(SlotVote("Skip", s))
    /\ UNCHANGED <<pending, finalized, shreds, timers, service, ledger, kicked, bounds>>

TrySkip(s) ==
    /\ Doing("skip", <<s, 0>>)
    /\ Then(<<>>)
    /\ IF Voted(s)
       THEN UNCHANGED <<h, ops, pooled>>
       ELSE CastVote(SlotVote("Skip", s))
    /\ UNCHANGED <<pending, finalized, shreds, timers, service, ledger, kicked, bounds>>

(* The end of SafeToNotar, for a block, and of SafeToSkip.                   *)
Fallback(b) ==
    LET v == IF b[2] = 0 THEN SlotVote("SkipFallback", b[1]) ELSE BlockVote("NotarizeFallback", b)
    IN  /\ Doing("fallback", b)
        /\ Then(<<>>)
        /\ IF ItsOver(b[1]) \/ v \in h.cast
           THEN UNCHANGED <<h, ops, pooled>>
           ELSE CastVote(v)
        /\ UNCHANGED <<pending, finalized, shreds, timers, service, ledger, kicked, bounds>>

CheckPendingBlocks ==
    /\ Doing("pending", <<0, 0>>)
    /\ \E calls \in PendingCalls : Then(calls)
    /\ UNCHANGED <<h, pending, finalized, shreds, timers, ops, service, ledger, pool, bounds>>

(* A block and its ancestors.                                               *)
Ancestry[b \in Known] == IF b = Start THEN {b} ELSE {b} \cup Ancestry[Parent[b]]

(* Mutant: the slot of the new root may be without a vote.                  *)
RootableUnvoted == {b \in finalized \cap banks : b[1] > root}

Rootable == {b \in finalized \cap banks : b[1] > root /\ Voted(b[1])}

(* check_rootable_blocks() and root_utils::set_root()                       *)
CheckRootableBlocks ==
    /\ Doing("root", <<0, 0>>)
    /\ Then(<<>>)
    /\ \/ /\ Rootable = {}
          /\ UNCHANGED <<h, pending, finalized, shreds, root, banks>>
       \/ \E b \in Rootable :
             /\ \A c \in Rootable : c[1] <= b[1]
             /\ h' = SetHistoryRoot(b[1])
             /\ pending' = {p \in pending : p[1] >= b[1]}
             /\ finalized' = {f \in finalized : f[1] >= b[1]}
             /\ shreds' = {t \in shreds : t >= b[1]}
             /\ root' = b[1]
             /\ banks' = {c \in banks : b \in Ancestry[c]}
    /\ UNCHANGED <<timers, ops, service, arriving, pool, bounds>>

(* VoteHistory::add_parent_ready() and Timers::set_timeouts(): the first    *)
(* parent of a slot sets the timer of its window, from that slot on.        *)
AddParentReady(s, p) ==
    /\ h' = IF s < h.root THEN h ELSE [h EXCEPT !.ready = @ \cup {<<s, p>>}]
    /\ timers' = IF s < h.root \/ timers[s] > 0 \/ \E e \in h.ready : e[1] = s
                 THEN timers
                 ELSE [timers EXCEPT ![s] = LastOf(s) - s + 2]

(* add_missing_parent_ready(), for the block of a Block or Finalized event. *)
MissesParentReady(b) ==
    /\ FirstOf(b[1]) # b[1] /\ FirstOf(b[1]) # 0
    /\ \A e \in h.ready : e[1] < FirstOf(b[1])
    /\ b \in finalized \cap banks /\ b[1] > root

AddMissingParentReady(b) ==
    /\ Doing("missing", b)
    /\ IF MissesParentReady(b)
       THEN AddParentReady(b[1], Parent[b]) /\ Then(<<Call("pending", <<0, 0>>)>>)
       ELSE Then(<<>>) /\ UNCHANGED <<h, timers>>
    /\ UNCHANGED <<pending, finalized, shreds, ops, service, ledger, pool, bounds>>

(* The votes of the event go to the channel of the voting service.          *)
SendVotes ==
    /\ todo = <<>> /\ released < Len(ops)
    /\ released' = Len(ops)
    /\ UNCHANGED <<handler, ops, stored, disk, sent, ledger, pool, bounds>>

-----------------------------------------------------------------------------
(* The events; old ones are ignored                                         *)
BlockEvent(b) ==
    /\ Idle /\ arriving # <<>> /\ b = Head(arriving)
    /\ arriving' = Tail(arriving)
    /\ IF b[1] <= root
       THEN UNCHANGED <<h, pending, todo, ops, pooled>>
       ELSE IF MayNotarize(b)
       THEN /\ CastVote(BlockVote("Notarize", b))
            /\ pending' = {p \in pending : p[1] # b[1]}
            /\ todo' = <<Call("final", b), Call("pending", <<0, 0>>),
                         Call("root", <<0, 0>>), Call("missing", b)>>
       ELSE /\ pending' = IF Voted(b[1]) THEN pending ELSE pending \cup {b}
            /\ todo' = <<Call("root", <<0, 0>>), Call("missing", b)>>
            /\ UNCHANGED <<h, ops, pooled>>
    /\ UNCHANGED <<finalized, shreds, timers, service, root, banks, kicked, bounds>>

(* Also for a certificate that the restored history already holds: the pool  *)
(* of a new process makes it again.                                         *)
BlockNotarized(b) ==
    /\ Idle /\ kicked /\ b[1] > root
    /\ h' = [h EXCEPT !.notarized = @ \cup {b}]
    /\ todo' = <<Call("final", b)>>
    /\ UNCHANGED <<pending, finalized, shreds, timers, ops, service, ledger, pool, bounds>>

FirstShred(s) ==
    /\ Idle /\ s \in Shredded /\ s > root /\ s \notin shreds
    /\ shreds' = shreds \cup {s}
    /\ UNCHANGED <<h, pending, finalized, todo, timers, ops, service, ledger, pool, bounds>>

HandleParentReady(s, p) ==
    /\ Idle /\ s > root
    /\ AddParentReady(s, p)
    /\ todo' = <<Call("pending", <<0, 0>>)>>
    /\ UNCHANGED <<pending, finalized, shreds, ops, service, ledger, pooled, bounds>>

(* From the parent-ready tracker, at the first slot of a window; the tracker *)
(* of a restarted process announces again what the history already holds.   *)
ParentReady(s, p) ==
    /\ s % Window = 0 /\ p[1] < s /\ kicked
    /\ HandleParentReady(s, p)
    /\ UNCHANGED kicked

(* The first event of the pool after a start, before any other of its events. *)
KickOff(b) ==
    /\ ~kicked /\ kicked' = TRUE
    /\ b \in banks /\ b[1] = root /\ root < MaxSlot
    /\ HandleParentReady(root + 1, b)

(* Mutant: the timer ends with the slot before the last.                    *)
TimerFiresStopsEarly(s) ==
    LET crashedLeader == timers[s] = LastOf(s) - s + 2
        t == IF crashedLeader THEN s ELSE LastOf(s) + 1 - timers[s]
    IN  /\ Idle /\ timers[s] > 1
        /\ timers' = [timers EXCEPT ![s] = @ - 1]
        /\ todo' = IF t <= root \/ Voted(t) \/ (crashedLeader /\ t \in shreds)
                   THEN <<>> ELSE SkipWindow(t)
        /\ UNCHANGED <<h, pending, finalized, shreds, ops, service, ledger, pool, bounds>>

(* Timers::progress(): TimeoutCrashedLeader for the slot of the timer, then *)
(* a Timeout for it and every later slot of its window.                     *)
TimerFires(s) ==
    LET crashedLeader == timers[s] = LastOf(s) - s + 2
        t == IF crashedLeader THEN s ELSE LastOf(s) + 1 - timers[s]
    IN  /\ Idle /\ timers[s] > 0
        /\ timers' = [timers EXCEPT ![s] = @ - 1]
        /\ todo' = IF t <= root \/ Voted(t) \/ (crashedLeader /\ t \in shreds)
                   THEN <<>> ELSE SkipWindow(t)
        /\ UNCHANGED <<h, pending, finalized, shreds, ops, service, ledger, pool, bounds>>

(* SlotStakeCounters: the pool raises SafeToNotar and SafeToSkip only after *)
(* our own first vote in the slot, which is for something else.             *)
FirstVotes(s) == {v \in pooled : SlotOf(v) = s /\ v.type \in {"Notarize", "Skip"}}

SafeToNotar(b) ==
    /\ Idle /\ kicked /\ b[1] > root
    /\ FirstVotes(b[1]) # {} /\ BlockVote("Notarize", b) \notin FirstVotes(b[1])
    /\ BlockVote("NotarizeFallback", b) \notin h.cast
    /\ todo' = Append(SkipWindow(b[1]), Call("fallback", b))
    /\ UNCHANGED <<h, pending, finalized, shreds, timers, ops, service, ledger, pool, bounds>>

SafeToSkip(s) ==
    /\ Idle /\ kicked /\ s > root
    /\ \E v \in FirstVotes(s) : v.type = "Notarize"
    /\ ~Cast("SkipFallback", s)
    /\ todo' = Append(SkipWindow(s), Call("fallback", <<s, 0>>))
    /\ UNCHANGED <<h, pending, finalized, shreds, timers, ops, service, ledger, pool, bounds>>

Finalized(b) ==
    /\ Idle /\ kicked /\ b[1] > root
    /\ finalized' = finalized \cup {b}
    /\ todo' = <<Call("root", <<0, 0>>), Call("missing", b)>>
    /\ UNCHANGED <<h, pending, shreds, timers, ops, service, ledger, pool, bounds>>

Orders(S) == {q \in [1..Cardinality(S) -> S] : \A i, j \in DOMAIN q : q[i] = q[j] => i = j}

(* The highest slot that the pool saw finalized: 0 before the first one,     *)
(* also after a restart.                                                    *)
HighestFinalized(s) ==
    \/ s = 0 /\ finalized = {}
    \/ /\ s >= root /\ \E b \in Chain : b[1] = s
       /\ \A f \in finalized : f[1] <= s

(* Standstill: refresh_votes(), in any order; a vote may fail again.        *)
Standstill(s) ==
    /\ Idle /\ kicked /\ HighestFinalized(s) /\ refreshes < MaxRefresh
    /\ refreshes' = refreshes + 1
    /\ \E S \in SUBSET {v \in h.cast : SlotOf(v) > s} :
          /\ \A v \in h.cast : SlotOf(v) > s /\ SlotOf(v) \notin MayFail => v \in S
          /\ \E q \in Orders(S) :
                /\ ops' = ops \o [i \in DOMAIN q |-> [vote |-> q[i], hist |-> h]]
                /\ pooled' = pooled \cup S
    /\ UNCHANGED <<handler, service, ledger, kicked, crashes>>

-----------------------------------------------------------------------------
(* Mutant: a failed store is not fatal.                                     *)
StoreVoteIgnoresError ==
    /\ stored = {} /\ released > 0
    /\ disk' \in {disk, Head(ops).hist}
    /\ stored' = {Head(ops).vote}
    /\ ops' = Tail(ops) /\ released' = released - 1
    /\ UNCHANGED <<handler, sent, ledger, pool, bounds>>

(* The voting service: the saved history is stored, then the vote goes out. *)
StoreVote ==
    /\ stored = {} /\ released > 0
    /\ disk' = Head(ops).hist
    /\ stored' = {Head(ops).vote}
    /\ ops' = Tail(ops) /\ released' = released - 1
    /\ UNCHANGED <<handler, sent, ledger, pool, bounds>>

Broadcast ==
    /\ stored # {}
    /\ sent' = sent \cup stored /\ stored' = {}
    /\ UNCHANGED <<handler, ops, released, disk, ledger, pool, bounds>>

(* Replay freezes a bank and sends its Block event.                         *)
Replay(b) ==
    /\ b[1] > root /\ Parent[b] \in banks /\ \A c \in banks : c[1] # b[1]
    /\ banks' = banks \cup {b} /\ arriving' = Append(arriving, b)
    /\ UNCHANGED <<handler, ops, service, root, pool, bounds>>

(* The process dies and starts again: VoteHistory::restore(), and the banks *)
(* that the blockstore holds.                                               *)
Crash ==
    /\ crashes < MaxCrash /\ crashes' = crashes + 1
    /\ h' = disk
    /\ pending' = {} /\ finalized' = {} /\ shreds' = {} /\ todo' = <<>> /\ arriving' = <<>>
    /\ timers' = [s \in Slot |-> 0]
    /\ ops' = <<>> /\ released' = 0 /\ stored' = {}
    /\ kicked' = FALSE /\ pooled' = {}
    /\ UNCHANGED <<disk, sent, root, banks, refreshes>>

Init ==
    /\ h = NewHistory /\ disk = NewHistory
    /\ pending = {} /\ finalized = {} /\ shreds = {} /\ todo = <<>>
    /\ timers = [s \in Slot |-> 0]
    /\ ops = <<>> /\ released = 0 /\ stored = {} /\ sent = {}
    /\ root = Start[1] /\ banks = {Start} /\ arriving = <<>>
    /\ kicked = FALSE /\ pooled = {}
    /\ crashes = 0 /\ refreshes = 0

Calls ==
    \/ \E b \in Block : TryNotar(b) \/ TryFinal(b) \/ Fallback(b) \/ AddMissingParentReady(b)
    \/ \E s \in Slot : TrySkip(s) \/ Fallback(<<s, 0>>)
    \/ CheckPendingBlocks \/ CheckRootableBlocks \/ SendVotes

Events ==
    \/ \E b \in Block : BlockEvent(b) \/ SafeToNotar(b)
    \/ \E b \in Chain : BlockNotarized(b) \/ Finalized(b)
    \/ \E s \in Slot : FirstShred(s) \/ TimerFires(s) \/ SafeToSkip(s) \/ Standstill(s)
    \/ \E s \in Slot, p \in Chain \cup {Start} : ParentReady(s, p)
    \/ \E b \in Known : KickOff(b)

Others ==
    \/ StoreVote \/ Broadcast
    \/ \E b \in Block : Replay(b)
    \/ Crash

Next == Calls \/ Events \/ Others

Spec == Init /\ [][Next]_vars

-----------------------------------------------------------------------------
(* conflicting_types() and ConsensusPool::has_conflicting_vote(): votes of  *)
(* one validator that the pool of any other node refuses to hold together.  *)
ConflictingTypes(t) ==
    CASE t = "Finalize"         -> {"NotarizeFallback", "Skip", "SkipFallback"}
      [] t = "Notarize"         -> {"Skip", "NotarizeFallback"}
      [] t = "NotarizeFallback" -> {"Finalize", "Notarize"}
      [] t = "Skip"             -> {"Finalize", "Notarize", "SkipFallback"}
      [] t = "SkipFallback"     -> {"Skip", "Finalize"}

Conflict(v, w) ==
    /\ SlotOf(v) = SlotOf(w)
    /\ \/ /\ w.type \in ConflictingTypes(v.type)
          /\ v.block[2] = 0 \/ w.block[2] = 0 \/ v.block = w.block
       \/ v.type = "Notarize" /\ w.type = "Notarize" /\ v.block # w.block

History == [cast : SUBSET Vote, notarized : SUBSET Block, ready : SUBSET (Slot \X Known),
            root : Slot]

TypeOK ==
    /\ h \in History /\ disk \in History
    /\ pending \subseteq Block /\ finalized \subseteq Block /\ shreds \subseteq Slot
    /\ \A i \in DOMAIN todo : todo[i][2] \in Slot \X Nat
    /\ \A i \in DOMAIN ops : ops[i].vote \in Vote /\ ops[i].hist \in History
    /\ released \in 0..Len(ops)
    /\ stored \subseteq Vote /\ sent \subseteq Vote /\ pooled \subseteq Vote
    /\ root \in Slot /\ banks \subseteq Known /\ arriving \in Seq(Block)
    /\ \A s \in Slot : timers[s] \in 0..(LastOf(s) - s + 2)

(* Whatever the interleaving of events, voting service and crashes, the      *)
(* votes a node broadcasts never contradict each other: no pool of another   *)
(* node refuses one of them.                                                 *)
NeverConflicting == \A v, w \in sent : ~Conflict(v, w)

(* "Finalize" is voted only for a block that the node notarized itself and   *)
(* that has a notarization certificate, also when the history was pruned or  *)
(* came back from the disk.                                                  *)
FinalizesOwnNotarized ==
    \A v \in h.cast : v.type = "Finalize" =>
        \E b \in h.notarized : b[1] = SlotOf(v) /\ BlockVote("Notarize", b) \in h.cast

(* The node notarizes inside a window only on top of its own notarization    *)
(* of the slot before, unless that slot is below the root.  So a node that   *)
(* joins in mid-window, with a parent-ready that add_missing_parent_ready()  *)
(* made up, does not notarize there, although the comment of that function   *)
(* says that it "will immediately vote Notarize".                            *)
NotarizesOwnChain ==
    \A b \in Block : BlockVote("Notarize", b) \in h.cast /\ ~(b[1] % Window = 0 \/ b[1] = 1) =>
        \/ Parent[b][1] < h.root
        \/ Parent[b][1] + 1 = b[1] /\ BlockVote("Notarize", Parent[b]) \in h.cast

(* The assertions of VoteHistory hold: no call asks about a slot below the   *)
(* root of the history, although one call of an event may move it, and a     *)
(* fallback vote follows a first vote.  The blocks that try_notar() is given *)
(* are those of the calls, the pending ones and the next to arrive; other    *)
(* questions of an event are about slots above the root of bank forks.       *)
AssertionsHold ==
    /\ h.root <= root
    /\ todo # <<>> /\ Head(todo)[1] \in {"final", "skip", "fallback"} =>
          Head(todo)[2][1] >= h.root
    /\ todo # <<>> /\ Head(todo)[1] = "fallback" => Voted(Head(todo)[2][1])
    /\ \A b \in Tried, s \in Slot : AsksAbout(b, s) => s >= h.root

(* Our own pool takes a vote before its history is stored, and may send it   *)
(* out in a certificate at once.  What it holds agrees with itself, so that  *)
(* it refuses none of our votes, and with everything that the node has       *)
(* broadcast, before a crash too.                                            *)
OwnPoolAgrees == \A v \in pooled, w \in pooled \cup sent : ~Conflict(v, w)

(* Until the process dies no slot of a window with a ready parent is left    *)
(* without a way to a vote: it has its vote, or the root has passed it, or   *)
(* the skip is among the calls of the current event, or the timer of its     *)
(* window has its Timeout still to fire.                                     *)
NoSlotForgotten ==
    crashes = 0 => \A t \in Slot : (\E e \in h.ready : e[1] \in FirstOf(t)..t) =>
        \/ Voted(t) \/ root >= t
        \/ \E i \in DOMAIN todo : todo[i] = Call("skip", <<t, 0>>)
        \/ \E s \in FirstOf(t)..t : timers[s] > LastOf(t) - t

(* The slots that the first start leaves to vote on.                         *)
Later == {s \in Slot : s > Start[1]}

(* The handler's thread and the voting service keep running, and what the    *)
(* pool and the timers have put into the channel is handled in the end.      *)
Fairness ==
    /\ WF_vars(Calls) /\ WF_vars(StoreVote \/ Broadcast)
    /\ SF_vars((\E b \in Known : KickOff(b)) \/ \E s \in Later : TimerFires(s))

FairSpec == Spec /\ Fairness

(* A slot in a window whose parent is ready, from the slot of that parent-   *)
(* ready on, is voted on in the end, by the block or by the timers, unless   *)
(* the root passes it.                                                       *)
EverySlotVoted ==
    \A w \in {FirstOf(t) : t \in Later} :
        (\E e \in h.ready : FirstOf(e[1]) = w) ~>
            \A t \in Later : FirstOf(t) = w /\ (\E e \in h.ready : e[1] \in w..t) =>
                Voted(t) \/ root >= t
=============================================================================
