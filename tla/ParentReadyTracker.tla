-------------------------- MODULE ParentReadyTracker --------------------------
(***************************************************************************)
(* Votor's parent-ready tracker and the part of the certificate pool's      *)
(* service loop that feeds it, prunes it and turns its events into the      *)
(* production of leader windows.  A certificate is a block with a           *)
(* notarize-fallback or stronger certificate, or a slot with a skip         *)
(* certificate; the root moves in another thread.                           *)
(***************************************************************************)
EXTENDS Naturals

CONSTANTS MaxSlot,    \* bound: the last slot that gets a certificate
          Id,         \* block ids, ordered as the hashes are
          Window,     \* NUM_CONSECUTIVE_LEADER_SLOTS
          Mine        \* the slots whose leader this node is

ASSUME TrackerAssumption ==
    /\ MaxSlot \in Nat \ {0} /\ Window \in Nat \ {0}
    /\ Id \subseteq Nat /\ Id # {}
    /\ Mine \subseteq Nat

Slot == 0..MaxSlot
Tracked == 0..(MaxSlot + 1)
Block == Slot \X Id

VARIABLES skip,       \* slots with a skip certificate
          notar,      \* notar_fallbacks of all slots
          ready,      \* parents_ready of every slot
          root,       \* root of the tracker
          highest,    \* highest_with_parent_ready
          bankRoot,   \* root of bank forks, set by the event handler
          events,     \* ParentReady events the loop has not sent yet
          announced,  \* highest_parent_ready of the service loop
          sent,       \* history: ParentReady events sent
          mustPrune,  \* a message was added and maybe_prune() comes next
          windows,    \* history: ProduceWindow events sent
          certs       \* history: the certificates the tracker took

tracker == <<skip, notar, ready, root, highest>>
vars == <<tracker, bankRoot, events, announced, mustPrune, sent, windows, certs>>

(* new(), the kick-off of the service loop, at any root: a fresh start or a *)
(* restart in the middle of a window.                                       *)
Init ==
    /\ \E r \in 0..(MaxSlot - 1), i \in Id :
          /\ root = r /\ bankRoot = r
          /\ notar = {<<r, i>>}
          /\ ready = [s \in Tracked |-> IF s = r + 1 THEN {<<r, i>>} ELSE {}]
          /\ highest = r + 1
          /\ events = {<<r + 1, <<r, i>>>>}
          /\ announced = r + 1
          /\ certs = [notar |-> {<<r, i>>}, skip |-> {}]
    /\ skip = {} /\ sent = {} /\ windows = {} /\ mustPrune = FALSE

-----------------------------------------------------------------------------
(* The slots after s up to the first one that is not skipped, included.     *)
SkipConnected(sk, s) ==
    {t \in Tracked : s < t /\ \A m \in (s + 1)..(t - 1) : m \in sk}

FirstOfWindow(s) == s % Window = 0

Latest(S) == CHOOSE s \in S : \A t \in S : t <= s

(* Mutant: only the first parent of a slot is announced.                    *)
AddParentsFirstOnly(P, T) ==
    /\ ready' = [s \in Tracked |-> IF s \in T THEN ready[s] \cup P ELSE ready[s]]
    /\ highest' = Latest({highest} \cup T)
    /\ events' = events \cup {e \in T \X P : FirstOfWindow(e[1]) /\ ready[e[1]] = {}}

(* Mutant: a parent that the slot already has is announced again.           *)
AddParentsAgain(P, T) ==
    /\ ready' = [s \in Tracked |-> IF s \in T THEN ready[s] \cup P ELSE ready[s]]
    /\ highest' = Latest({highest} \cup T)
    /\ events' = events \cup {e \in T \X P : FirstOfWindow(e[1])}

(* Mutant: the highest slot with a parent is not tracked.                   *)
AddParentsStaleHighest(P, T) ==
    /\ ready' = [s \in Tracked |-> IF s \in T THEN ready[s] \cup P ELSE ready[s]]
    /\ highest' = highest
    /\ events' = events \cup
          {e \in T \X P : FirstOfWindow(e[1]) /\ e[2] \notin ready[e[1]]}

(* The blocks P become parents of the slots T; ParentReady is raised for    *)
(* what is new at the first slot of a window.                               *)
AddParents(P, T) ==
    /\ ready' = [s \in Tracked |-> IF s \in T THEN ready[s] \cup P ELSE ready[s]]
    /\ highest' = Latest({highest} \cup T)
    /\ events' = events \cup
          {e \in T \X P : FirstOfWindow(e[1]) /\ e[2] \notin ready[e[1]]}

(* add_new_notar_fallback_or_stronger()                                     *)
AddNewNotarFallbackOrStronger(b) ==
    IF b[1] <= root \/ b \in notar
    THEN UNCHANGED <<skip, notar, ready, highest, events, certs>>
    ELSE /\ notar' = notar \cup {b}
         /\ AddParents({b}, SkipConnected(skip, b[1]))
         /\ certs' = [certs EXCEPT !.notar = @ \cup {b}]
         /\ UNCHANGED skip

(* Mutant: a notarized previous slot hides the parents before it.           *)
PotentialParentsNearest(s) ==
    LET here == {b \in notar : b[1] = s - 1}
    IN  IF here = {} /\ s - 1 \in skip THEN ready[s - 1] ELSE here

(* Mutant: the parents of the previous slot count although it is not skipped. *)
PotentialParentsUnskipped(s) == {b \in notar : b[1] = s - 1} \cup ready[s - 1]

(* The parents that a skip of slot s connects to the slots after it.        *)
PotentialParents(s) ==
    {b \in notar : b[1] = s - 1} \cup (IF s - 1 \in skip THEN ready[s - 1] ELSE {})

(* add_new_skip()                                                           *)
AddNewSkip(s) ==
    IF s <= root
    THEN UNCHANGED <<skip, notar, ready, highest, events, certs>>
    ELSE /\ skip' = skip \cup {s}
         /\ IF PotentialParents(s) = {}
            THEN UNCHANGED <<ready, highest, events>>
            ELSE AddParents(PotentialParents(s), SkipConnected(skip, s))
         /\ certs' = [certs EXCEPT !.skip = @ \cup {s}]
         /\ UNCHANGED notar

(* process_consensus_message(): a certificate at or above the root is added, *)
(* and a vote or a certificate that is known already changes nothing; then   *)
(* maybe_prune() runs, with the root that bank forks has by then.            *)
Receive(s) ==
    /\ ~mustPrune
    /\ bankRoot <= s
    /\ mustPrune' = TRUE
    /\ UNCHANGED <<root, bankRoot, announced, sent, windows>>

ReceiveNotar(b) == Receive(b[1]) /\ AddNewNotarFallbackOrStronger(b)

ReceiveSkip(s) == Receive(s) /\ AddNewSkip(s)

ReceiveOther ==
    /\ Receive(bankRoot)
    /\ UNCHANGED <<skip, notar, ready, highest, events, certs>>

(* set_root()                                                               *)
SetRoot(r) ==
    /\ root' = r
    /\ skip' = {s \in skip : s >= r}
    /\ notar' = {b \in notar : b[1] >= r}
    /\ ready' = [s \in Tracked |-> IF s >= r THEN ready[s] ELSE {}]

MaybePrune ==
    /\ mustPrune
    /\ SetRoot(bankRoot)
    /\ mustPrune' = FALSE
    /\ UNCHANGED <<highest, bankRoot, events, announced, sent, windows, certs>>

(* The event handler roots a block that the pool reported as finalized.     *)
RootBank(r) ==
    /\ bankRoot < r
    /\ \E b \in notar : b[1] = r
    /\ bankRoot' = r
    /\ UNCHANGED <<tracker, events, announced, mustPrune, sent, windows, certs>>

(* block_production_parent()                                                *)
MissedWindow(s) == highest > s

Least(P) == CHOOSE b \in P : \A c \in P : b[1] < c[1] \/ (b[1] = c[1] /\ b[2] <= c[2])

(* The new window that add_produce_block_event() looks at, if there is one.  *)
NewWindows == {s \in {e[1] : e \in events} :
                  announced < s /\ \A e \in events : e[1] <= s}

(* The head of the service loop: add_produce_block_event(), unless shreds of *)
(* the window exist already, and the events go to the event handler.         *)
Loop(shreds) ==
    /\ ~mustPrune
    /\ announced' = Latest({announced} \cup NewWindows)
    /\ windows' = windows \cup
          {<<s, Least(ready[s])>> : s \in {w \in NewWindows \cap Mine :
                                             ~shreds /\ ~MissedWindow(w)}}
    /\ sent' = sent \cup events
    /\ events' = {}
    /\ UNCHANGED <<tracker, bankRoot, mustPrune, certs>>

Next ==
    \/ \E b \in Block : ReceiveNotar(b)
    \/ \E s \in Slot : ReceiveSkip(s)
    \/ ReceiveOther
    \/ MaybePrune
    \/ \E r \in Slot : RootBank(r)
    \/ \E shreds \in BOOLEAN : Loop(shreds)

Spec == Init /\ [][Next]_vars

-----------------------------------------------------------------------------
TypeOK ==
    /\ skip \subseteq root..MaxSlot /\ notar \subseteq (root..MaxSlot) \X Id
    /\ ready \in [Tracked -> SUBSET Block]
    /\ root \in Slot /\ bankRoot \in Slot /\ highest \in Tracked
    /\ events \subseteq Tracked \X Block /\ sent \subseteq Tracked \X Block
    /\ announced \in Tracked /\ mustPrune \in BOOLEAN
    /\ windows \subseteq Tracked \X Block
    /\ certs \in [notar : SUBSET Block, skip : SUBSET Slot]

(* "Block b is notarized or notarized-fallback, and slots slot(b) + 1 to s   *)
(* are skip-certified" (module documentation), over all certificates that    *)
(* were ever taken.                                                          *)
IsParentReady(s, b) ==
    b \in certs.notar /\ s \in SkipConnected(certs.skip, b[1])

(* In whatever order certificates arrive and whatever was pruned between     *)
(* them, parents_ready of a slot above the root holds exactly the blocks     *)
(* for which the parent-ready condition of the module documentation holds.   *)
ReadyExact ==
    \A s \in Tracked : s > root => ready[s] = {b \in Block : IsParentReady(s, b)}

(* ParentReady is raised for every parent of the first slot of a window: no  *)
(* event that the event handler needs to vote there is lost by a late        *)
(* certificate or by pruning.                                                *)
NoLostEvent ==
    \A s \in Tracked : s > root /\ FirstOfWindow(s) =>
        {b \in Block : <<s, b>> \in events \cup sent} = ready[s]

(* Every parent is announced at most once: no event is raised that was sent  *)
(* before.                                                                   *)
AnnouncedOnce == [][events' \cap sent = {}]_vars

(* add_produce_block_event() marks ParentNotReady as unreachable: at a new   *)
(* window either a parent is ready or a later slot already has one, also     *)
(* when the root moved past the window in the meantime.                      *)
ParentKnown == \A s \in NewWindows : MissedWindow(s) \/ ready[s] # {}

(* The node builds only on a block whose certificates connect it to the      *)
(* window, and builds no window twice.                                       *)
BuildsOnReadyParent ==
    /\ \A w \in windows : IsParentReady(w[1], w[2])
    /\ \A v, w \in windows : v[1] = w[1] => v = w
=============================================================================
