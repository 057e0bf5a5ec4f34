# BlackBullChain: specifications and proofs

BlackBullChain is a fork of the Agave validator (`src/node`) with a bridge that
credits native BBC for tokens locked on Solana (`scripts/peg-relayer`), a web
application and operation scripts. This directory holds TLA+ models of the parts
whose correctness depends on the order of events, TLC configurations that check
them on small instances, and TLAPS proofs of their properties for every value of
the constants.

## 1. The system

| Part | State | Operations | Talks to |
|---|---|---|---|
| Peg relayer | processed signatures, state file | poll, fetch, send, confirm, mark, restart | two RPC services |
| Unified scheduler logic | usage queue per address, blocked counts, unblocked tasks | schedule, deschedule, clear, reinitialize | scheduler pool |
| Parent-ready tracker | skip and notarize-fallback certificates, ready parents per slot | add certificate, set root, produce window | consensus pool, block creation |
| Votor event handler | vote history, pending and finalized blocks, timers | one per `VotorEvent` | consensus pool, replay, voting service |
| Votor voting service | stored history, votes to broadcast | store, broadcast | event handler, disk |
| Consensus pool | votes and certificates per slot, stake counters | add vote, add certificate, prune | event handler, voting service, network |
| PoH service and record channel | packed bank and count, channel, hash position | send, receive, record, hash, tick, restart | banking stage, replay |
| Tower BFT, fork choice, duplicate slots | tower, lockouts, subtree weights | vote, switch, restore | replay, vote program |
| Banking stage, scheduler pool | containers, locks, sessions | receive, schedule, retry | PoH, bank |
| Bank, bank forks, status cache | banks, root, seen signatures | insert, set root, prune | everything above |
| Gossip, turbine, ledger, accounts, snapshots | tables, shreds, files | insert, store, purge | network, disk |
| SVM, RPC, networking, tools, web | - | - | - |

Under Alpenglow a block travels as follows. Replay freezes its bank and sends a
`Block` event. The event handler votes, puts the vote into its own pool and hands
it, with a snapshot of its history, to the voting service, which stores the
snapshot and then broadcasts the vote. The consensus pool of every validator
collects votes and certificates; it raises `SafeToNotar` and `SafeToSkip` for its
own event handler, makes certificates, and tells the parent-ready tracker, which
decides on what block the next window may be built. A leader's workers send their
transactions through the record channel to the PoH service.

`PROJECT.json` lists every part with its sources and, for those without a module,
the reason.

### What is hard

* Votes reach the network, the own pool and the disk at different moments; a
  crash may come between any two of them.
* One event of the voter makes several calls, and one of them may move the root
  below which the others must not ask.
* Votes and certificates arrive in any order, and each pool holds another part of
  them.
* Workers and the PoH service share one atomic word without a lock, and a record
  that was accepted must still find a hash in its slot.
* A scheduled task may be pushed back into the queues by a later one of higher
  priority, and counters must stay exact throughout.
* The relayer acts on two chains, and what it remembers of an action can be lost
  after the action.

The hazards, each at the line where it bites, are in `PROJECT.json`.

## 2. Modules

| Module | Models | A step is |
|---|---|---|
| `PegRelayer` | `scripts/peg-relayer/index.mjs` | one await of `main()` |
| `OrderedExecution` | the promise of a transaction scheduler | abstract: accept, start, finish |
| `SchedulingStateMachine` | `unified-scheduler-logic/src/lib.rs` | one method |
| `ParentReadyTracker` | `parent_ready_tracker.rs`, the loop of `consensus_pool_service.rs` around it | a message, a pruning, a turn of the loop |
| `EventHandler` | `event_handler.rs`, `vote_history.rs`, `voting_utils.rs`, `timer_manager/`, `root_utils.rs`, `voting_service.rs` | one event, or one call it leads to |
| `VotorVotes` | `common.rs`, vote types and limits | definitions only |
| `ConsensusPool` | `consensus_pool.rs`, `slot_stake_counters.rs`, `vote_pool.rs` | one vote or certificate added, a pruning |
| `SlotAgreement` | the handlers and pools of a whole cluster, for one slot | one vote of one validator |
| `PohService` | `record_channels.rs`, `poh_service.rs`, `poh_controller.rs`, parts of `poh_recorder.rs` | one access to the shared word, the channel or the recorder |

`MC<Module>` gives the constants for TLC, `<Module>Proofs` holds the theorems.
Those of the event handler are in two modules: `EventHandlerProofs` has the
invariant of the histories and what follows from it directly,
`EventHandlerVotingProofs` the rest.

**PegRelayer.** `pc` is the await at which `main()` stands. `processed` is the
in-memory set and `file` the state file; a file that cannot be parsed reads as
empty, as in `loadState`. The chains are external: a transfer lands, fails for
lack of funds, or expires. `doubts[d]` counts how often the process forgot a
transfer that it had sent for deposit `d`. The constant `Faults` says what may go
wrong: a fetch that answers null, a call that throws although the transfer is
out, a crash, a state file cut short.

**SchedulingStateMachine.** A single thread owns the state, so a method is a
step. A usage queue is the set of its holders and the set of its waiters with
their rank: arrival for `FifoQueueing`, `task_id` for `PriorityQueueing`.
Reblocking, the cap on unique tasks, duplicate hashes and the loop of
`clear_and_reinitialize` are included.

**ParentReadyTracker.** `skip`, `notar`, `ready`, `root` and `highest` are the
fields of the tracker. `bankRoot` is moved by another thread between a message
and `maybe_prune()`. `certs`, `sent` and `windows` are histories that the
properties compare with.

**EventHandler.** The calls of an event are a list, `todo`. A step casts at most
one vote, so the voting service and a crash may come between two votes of one
event. Each vote waits in `ops` with the snapshot of the history that is stored
before it is broadcast. `timers[s]` counts the events that the timer set at slot
`s` has still to fire. `Crash` keeps the disk, the root and the banks, and loses
everything else. The pool is seen through the events it sends and the votes of
ours that it holds.

**ConsensusPool.** `pools[s][t][b]` is who voted with type `t` for block `b`;
`counters[s]` is the `SlotStakeCounters` of the slot, with the events it has sent.
Stakes are a function on sets of validators that adds up over disjoint sets
(`StakeAssumption`); nothing else is assumed of them. A threshold is compared as
in `Fraction`, by cross-multiplication.

**SlotAgreement.** `votes` holds the votes of the validators that follow the code.
`Others`, with less than a fifth of the stake, may send any vote to any pool. A
pool holds any part of the votes; an event or certificate is possible in some
pool when it is in one with all the votes and all the help of the others. That
this is a fair picture of the two components is itself proved: `PoolsAreCovered`
for the pool, `VotesByTheRules` for the handler (section 5).

**PohService.** `word` is the packed `bank_id_allowed_insertions`, with the carry
of `fetch_add` into the bank id. Each sender has its place `pc` in `try_send` and
the word it loaded. `at` is the place of the tick producer, and `slot`, `tick`,
`left` are the position of the hash chain.

## 3. Runs

| Run | Properties | Instance |
|---|---|---|
| `peg` | SendsBounded, CreditsInOrder, EachDepositReleased | 4 deposits, listing of 3, throws, crashes, disk errors, fair |
| `peg_double` | PegHeld (violated) | 2 deposits, a crash |
| `sched_fifo` | IngestionOrder, ImplementsPromise | 5 tasks, 3 addresses |
| `sched_priority` | SafeInParallel, CountsExact, AssertionsHold, NeverStuck, NoPriorityInversion, ImplementsPromise, EveryTaskFinishes | the same, 4 unique tasks, two handlers, fair |
| `ready` | ReadyExact, NoLostEvent, ParentKnown, BuildsOnReadyParent, AnnouncedOnce | slots 0 to 4, windows of 2 |
| `handler_crash` | NeverConflicting, FinalizesOwnNotarized, OwnPoolAgrees | one slot, two versions of its block, a crash, a refresh |
| `handler_window` | NotarizesOwnChain, AssertionsHold, NoSlotForgotten, EverySlotVoted | two windows of 3 slots, a start and a join in mid-window, fair |
| `handler_restart` | EverySlotVoted (violated) | a window of 2 with one block, a crash, fair |
| `poh` | RecordsFit, BudgetExact, IndexesExact, NothingLost, MessageHandled | two senders, capacity 1, two banks, fair |
| `poh_overrun` | RecordsFit (violated) | a batch larger than the ticks of a slot |
| `pool` | CountersExact, CertificatesExact, EventsExact, FallbackBounded, StandstillSafe, HighestExact, FinalizedForGood | 4 validators, 4 blocks, 2 slots |
| `cluster` | FinalAlone, NotarizedOnce, QuietDecided, SlotDecided | 4 voters, one validator outside the rules, 3 blocks, fair |

What each property says, and the code it is about, is the comment above its
definition. Types are proved for every component (section 5) and not repeated in
the runs.

### Bounds

* Peg: with a listing of 3 and 4 signatures the oldest one leaves the listing, and
  two transfers per deposit let one be repeated. Amounts differ, so that a sum
  cannot hide a swap. The last deposit has no valid memo.
* Scheduler: five tasks over three addresses contain chains of writers, readers
  that share, a reader between two writers and two tasks with one hash. Every
  order of arrival is explored.
* Tracker: four slots hold a window that is skipped whole between two others,
  and a start in mid-window.
* Handler: two versions of a block are the smallest shape in which a node can be
  on the wrong one; every vote may fail to become a message, and one queued vote
  lets a crash come between votes. A certificate is announced as often as the pool
  likes, so also again after a restart whose history already holds it. The other
  instance starts at the second slot of a window and has blocks in the first two
  slots of the next: the kick-off comes in mid-window, the tracker may announce
  the next window or not, and a finalized block in the middle of that window makes
  `add_missing_parent_ready()` act and the root move there while an event is
  still at work.
* Pool: the owner has 40% and three validators 20% each, so that every threshold
  (20, 40, 60, 80) is met exactly by some votes and missed by one vote less. Four
  blocks are one more than may become safe to notarize. The
  second slot exists for certificates that finalize it before the first.
* Cluster: four voters of about a fifth and one of 19% outside the rules. Three
  blocks let the stake split so that nothing has 60% without fallback votes.
* PoH: capacity 1 makes every reservation the last one, two senders race for it,
  and two banks let a restart come between a reservation and its push. Capacity 2
  with 7 hashes per tick passes as well (1,285,822 states), in five minutes.

### Fairness

* Peg: weak fairness of the steps of `main()`, which loops for ever and sleeps a
  bounded time, and of the native chain including a transfer. Deposits, crashes
  and faults owe nothing.
* Scheduler: weak fairness of taking an unblocked task, of each handler giving
  its task back, and of the loop of `clear_and_reinitialize`. Arrivals owe nothing.
* Handler: weak fairness of the calls of an event and of the voting service, each
  a thread of its own that blocks only on its channel. The kick-off and the
  timers need strong fairness, as one action: they are enabled only while the
  handler is idle, and their events wait in a channel that is served in order.
  EverySlotVoted is stated window by window. Blocks, votes of
  others and certificates owe nothing.
* Cluster: every voter votes on the slot, which is what EverySlotVoted gives, and
  in the end has the votes of every other voter in its pool, which retransmission
  at a standstill is for. The others owe nothing.
* PoH: weak fairness of the tick producer's thread and of the senders inside
  `try_send` taken together. Starting to send owes nothing.

### Deadlock

It is checked for the scheduler and the tracker. The relayer's model stops when
its bounds are used up, the handler's when there are no more blocks, timers or
crashes, the pool's and the cluster's when every vote is cast, and PoH's at exit.

## 4. Findings

1. `peg_double`: the transfer is sent before the signature is recorded. A restart
   between the two releases the deposit again, while ADR 0002 says
   "Locked $BBC == native BBC in circulation".
2. `handler_restart`: `parent_ready_slots` are restored from the disk and the
   timers are not. The kick-off after a restart then sets no timer, and a slot
   whose block never arrives gets no vote from this node. NoSlotForgotten, which
   holds while the process lives, shows that in a window with a ready parent
   nothing but a restart leads to this.
3. `poh_overrun`: a comment promises that every record sent can be recorded. The
   check after a record does not count the batch of hashes that follows it, and
   `DEFAULT_HASHES_PER_BATCH` is far above the ticks of a slot.
   `OnlyABlindBatchLoses` proves that such a batch is the only step of the service
   that can break the promise.
4. `handler_window`: the comment of `add_missing_parent_ready()`
   (`event_handler.rs:524-526`) says that a node that joins in mid-window "will
   immediately vote Notarize for  slot 9, then vote Notarize for all later slots".
   The function makes up a parent-ready for slot 9, but `try_notar()` looks at a
   parent-ready only in the first slot of a window; elsewhere it asks for the
   node's own Notarize vote on the parent, which a node that joined has not cast.
   NotarizesOwnChain holds in the run, which reaches that parent-ready, and is
   proved in general: the node notarizes neither slot 9 nor a later slot of the
   window, and the timers of the new parent-ready skip them.

Observations without a run:

* The listing of the relayer has a limit of 25 and no cursor: the oldest of more
  than 25 signatures between two polls are never paid. EachDepositReleased
  speaks only of deposits that stay listed.
* `getParsedTransaction` may answer null for a signature that is already listed;
  the relayer takes this for "no deposit" and marks it processed. The `peg` run
  violates EachDepositReleased when `Faults` is changed to `{"null"}`.
* A vote of ours can leave in a certificate before its history is stored. After a
  crash the node may then vote otherwise in that slot. OwnPoolAgrees says what the
  code does ensure: the own pool agrees with itself and with all that was
  broadcast by the voting service, which stores first.
* The stored vote history is written without a sync (`vote_history_storage.rs:163`),
  and a missing one may be replaced by an empty one (`validator.rs:1526`). The
  model takes what was stored as durable.
* A service message received in the turn that sees the exit signal is not handled
  (`poh_service.rs:606-614`), and the guard that holds it panics
  (`poh_controller.rs:143-155`).
* Agreement between slots is not stated. It also rests on the parents of blocks
  that got fallback votes, and the code marks that check as still to be written
  (`event_handler.rs:376`).

## 5. Theorems

All proofs are checked by TLAPS, for every value of the constants that satisfies
the named assumption of the module (`PegAssumption`, `SchedAssumption`,
`TrackerAssumption`, `HandlerAssumption`, `StakeAssumption`, `PoolAssumption`,
`OthersAssumption`, `PohAssumption`). Every safety property of a passing run has
a theorem.

| Component | Theorems | State |
|---|---|---|
| Peg relayer | `RelayerTyped`, `RepeatsNeedDoubt`, `CreditsGoOutInOrder` | types, SendsBounded, CreditsInOrder when no fetch answers null |
| Scheduler | `SchedulerTyped`, `SchedulerSafe`, `BlockedCountsExact`, `NoAssertionFires`, `SchedulerNeverStuck`, `FifoKeepsIngestionOrder`, `PriorityRespected`, `SchedulerImplementsPromise` | every safety property of its runs, and the refinement of `OrderedExecution` |
| Tracker | `TrackerTyped`, `TrackerExact`, `EventsComplete`, `EventsOnce`, `UnreachableArm`, `WindowsSound` | every property of its run |
| Event handler | `HandlerTyped`, `VotesNeverConflict`, `NoAssertionFails`, `NotarizesItsOwnChain`, `FinalizesItsOwn`, `OwnPoolAgreesAlways`, `NoSlotIsForgotten`, `VotesByTheRules` | every safety property of its runs, and the rules of `SlotAgreement` |
| Consensus pool | `PoolTyped`, `CountersAreExact`, `CertificatesAreExact`, `EventsAreExact`, `FallbackVotesAreBounded`, `StandstillIsSafe`, `HighestIsExact`, `FinalizedStays`, `PoolsAreCovered` | every property of its run, and its place in `SlotAgreement` |
| Cluster | `VotesTyped`, `FinalBlocksAreAlone`, `OneNotarizedBlock`, `QuietSlotsAreDecided`, `FallbackBlocksAreFew` | every safety property of its run, and the bound of the tracker |
| PoH | `PohTyped`, `BudgetIsExact`, `NothingIsLost`, `IndexesAreExact`, `OnlyABlindBatchLoses` | every safety property of its run, RecordsFit up to blind batches |

### The arguments

**Peg.** SendsBounded is inductive with the types and what `pc` says about the
head of the batch. Order needs more: a batch is a contiguous run of signatures,
what comes before its head is settled, and every deposit before one that was sent
is settled too.

**Scheduler.** The counts are exact only if every active task sits in each of its
queues exactly once, and that is kept only if a free queue has no waiters, a
writer holds alone and a queue held by readers has a writer first. `IInv` is the
conjunction. The refinement maps `arrival`, `active` and `running` to themselves.

**Tracker.** ReadyExact speaks of all certificates ever taken, while the tracker
prunes. `IInv` adds that everything at or above the root is kept, how `highest`
bounds the slots with a parent, and which events are still to be sent.

**Event handler.** NeverConflicting is about votes that are out, and a crash makes
the node act on an older history. `IInv` says that the histories on the disk, in
the queue and in memory form a chain in which each is free of conflicts and
extends the one before above its root, and that every vote out is known to the
disk, or lies below its root. One lemma per action follows from three lemmas
about effects: nothing relevant changes, votes stay the same, one vote is cast.
NotarizesOwnChain and FinalizesOwnNotarized are properties of a single history
(`Own`) that every history in the chain keeps; `Own` also says that the node voted
on the slot of its history's root (`VotedRoot`). AssertionsHold rests on that for
the question about a parent: when the parent of a pending block lies below the
root, the block's slot is the root's and voted on, and `try_notar()` returns
before it asks. OwnPoolAgrees is kept with `Agreed`: a vote on its way out is in
the pool, and a new vote agrees with what the history in memory knows, which is
all that is in the pool or out above its root. NoSlotForgotten is not inductive by
itself: a parent-ready slot whose timer was set earlier sets none, so `Alive` adds
that a running timer has its slot among the ready ones or below the root, and the
types (`Rest`) add how far a timer has come. `VotesByTheRules` is an action
property: a new vote obeys the guards that `SlotAgreement` puts on a voter's own
votes. For the fallback votes it needs `IInv`, because the handler looks at the
first vote when the event comes and not when it casts.

**Consensus pool.** The counters are exact because a validator enters each pool
once per type and block, whatever repeats and conflicts arrive; certificates and
events follow from the counters, and every later vote only adds stake. That at
most three blocks become safe to notarize is stake arithmetic: each needs a fifth
of the stake of its own, besides the own vote. HighestExact needs the relation
between completed certificates, the pruned slots and the highest slot.

**Cluster.** `IInv` says that a voter has one first vote, no Finalize vote beside
a fallback or skip vote, and that whoever cast a fallback vote did so with enough
votes of others. A final block then leaves less than 60% for anything else, also
with the help of the others. `FallbackBlocksAreFew` counts: each certified block
has 60%, of which the others give less than 20%, and a voter stands behind at most
four blocks (its notarize vote and three fallback votes), so eight blocks would
need more than the stake there is. Its hypothesis `Sparing`, that no voter casts
more than three fallback votes in a slot, is `FallbackVotesAreBounded` of the pool
for a process that does not restart in the slot; a pool rebuilt by a restart may
count again, and the bound is not claimed for that.

**From the parts to the cluster.** `SlotAgreement` stands for many handlers and
pools. `PoolsAreCovered` says: if the votes in the pool of a slot are votes that
were cast or come from the others, then each certificate it makes and each
SafeToNotar and SafeToSkip it raises is possible in `SlotAgreement`; the reason is
that more votes never take stake away, also not from the runner-up blocks of
SafeToSkip. `VotesByTheRules` is the other half. The two halves are joined in
words and not by a refinement of the composed system, which would need a vector
of handlers and pools with a network between them.

**PoH.** The budget is a sum over the word, the reservations of all senders, the
channel and what the producer has taken but not yet given back. A fixed number of
senders is not assumed. `RecordsFit` needs in addition where the producer stands
between its check and its next hash. A batch is blind (`BlindBatch`) when it is
hashed in the last tick of a slot with no more hashes left than the batch and the
records under way, or those an open channel still lets in, need together. Without
a blind batch the hashes left outnumber the records (`Room`), so every record is
recorded; the only condition on the constants is that a tick has more hashes than
capacity and ticks together, which the defaults meet many times over. The
corollary `SmallBatchesAreSafe` adds that a batch no larger than the ticks of a
slot is never blind. The default batch is larger, and finding 3 is such a step.

### Only model-checked

Liveness under fairness is outside the prover's reach: EachDepositReleased,
EveryTaskFinishes, EverySlotVoted, SlotDecided and MessageHandled. For three of
them the step that could be stuck is proved: NeverStuck for the scheduler,
NoSlotForgotten for the voter, QuietDecided for the cluster. PegHeld and the two
other violated properties have counterexamples and no theorems, except that
`OnlyABlindBatchLoses` says which step breaks RecordsFit.

## 6. Not modelled

In the modelled parts: identity changes, repair requests, the stretching of
timeouts and commitment of the event handler; signatures, genesis votes and
stakes that change between epochs in the pool; amounts above 2^53 lamports, which
`Number` rounds, in the relayer; entries, grace ticks and the low-power producers
of PoH; a crash of the machine that loses an unsynced file.

The other parts of section 1 have no module. Tower BFT, fork choice and
duplicate-slot handling belong to the protocol that Alpenglow replaces; the
banking stage's own scheduler is the one that the unified scheduler replaces.
Accounts, ledger, snapshots and gossip are data structures on disk and network
rather than protocols between actors. The SVM, RPC, networking and the web
application hold no protocol state.
