------------------------------ MODULE PohService ------------------------------
(***************************************************************************)
(* The PoH service of a leader: worker threads send records through the     *)
(* record channel, the tick producer hashes, records and ticks, and the     *)
(* replay stage tells it which bank to record into.                         *)
(*                                                                         *)
(* The channel has no lock around it.  One atomic word holds the bank and   *)
(* how many records may still be sent; active_senders counts the senders    *)
(* in flight.  A step is one access to these, or to the channel.  Records   *)
(* have one batch, as TransactionRecorder::record_transactions makes them.  *)
(***************************************************************************)
EXTENDS Naturals, Sequences, FiniteSets

CONSTANTS Sender,      \* worker threads
          Capacity,    \* MAX_ALLOWED_INSERTIONS
          Hashes,      \* hashes_per_tick
          Ticks,       \* ticks_per_slot
          Batch,       \* hashes_per_batch
          MaxBank,     \* bound: banks that the replay stage makes
          MaxSlot      \* bound: slots that a message names; PoH stays in the one after

ASSUME PohAssumption ==
    /\ IsFiniteSet(Sender)
    /\ Capacity \in Nat \ {0} /\ Hashes \in Nat \ {0, 1} /\ Ticks \in Nat \ {0}
    /\ Batch \in Nat \ {0} /\ MaxBank \in Nat /\ MaxSlot \in Nat

VARIABLES word,        \* bank_id_allowed_insertions
          active,      \* active_senders
          chan,        \* the channel of records
          tracked,     \* whether transaction_indexes exists
          index,       \* transaction_indexes
          holder,      \* who holds its lock
          pc, seen,    \* of every sender: its place in try_send, the word it loaded
          at, from,    \* of the tick producer: its place, and what it does there
          next,        \* next_record, or the record just received
          msg,         \* the service message taken from the controller
          mail,        \* the message in the channel of the controller
          exit,        \* poh_exit or shutdown_poh
          stopping,    \* should_exit
          slot, tick,  \* tick_height = slot * Ticks + tick
          left,        \* remaining_hashes_until_tick
          bank,        \* working_bank
          newest,      \* the id of the newest bank
          count        \* history: records in the working bank

sender   == <<pc, seen>>
channel  == <<word, active, chan, index, holder>>
producer == <<at, from, next, msg, stopping>>
poh      == <<slot, tick, left, bank, count>>
control  == <<mail, exit, newest>>
vars == <<sender, channel, producer, poh, control, tracked>>

-----------------------------------------------------------------------------
(* The word.  The id above all others means that the channel is shut down.   *)
Disabled == MaxBank + 1
Closed == [bank |-> Disabled, allowed |-> 0]
Word == [bank : 0..Disabled, allowed : 0..Capacity]

(* fetch_add() on the packed word: the count carries into the bank id.       *)
FetchAdd(w) ==
    IF w.allowed < Capacity THEN [w EXCEPT !.allowed = @ + 1]
    ELSE [bank |-> IF w.bank = Disabled THEN 0 ELSE w.bank + 1, allowed |-> 0]

(* Mutant: no room is kept for the ticks of the slot.                        *)
ShouldShutdownNoTicks(remaining) == remaining <= Capacity

(* RecordReceiver::should_shutdown(); a subtraction below zero stays there.   *)
ShouldShutdown(remaining) == remaining <= Capacity + Ticks

(* Poh::remaining_hashes_in_slot()                                          *)
RemainingHashes(t, l) == (Ticks - (t + 1)) * Hashes + l

NoBank == [id |-> 0, slot |-> 0]
Message == [type : {"Reset", "SetBank"}, id : 0..MaxBank, slot : 0..MaxSlot]

-----------------------------------------------------------------------------
(* RecordSender::try_send()                                                 *)
Release == holder' = IF tracked THEN {} ELSE holder

(* Mutant: the indexes are not locked.                                      *)
LoadNoLock(s) ==
    /\ pc[s] = "idle" /\ word.bank # Disabled /\ word.allowed >= 1
    /\ seen' = [seen EXCEPT ![s] = word]
    /\ pc' = [pc EXCEPT ![s] = "loaded"]
    /\ UNCHANGED <<channel, producer, poh, control, tracked>>

(* The lock, the load and the checks; a send that is refused changes nothing. *)
Load(s) ==
    /\ pc[s] = "idle" /\ holder = {}
    /\ word.bank # Disabled /\ word.allowed >= 1
    /\ holder' = IF tracked THEN {s} ELSE {}
    /\ seen' = [seen EXCEPT ![s] = word]
    /\ pc' = [pc EXCEPT ![s] = "loaded"]
    /\ UNCHANGED <<word, active, chan, index, producer, poh, control, tracked>>

Enter(s) ==
    /\ pc[s] = "loaded"
    /\ active' = active + 1
    /\ pc' = [pc EXCEPT ![s] = "entered"]
    /\ UNCHANGED <<seen, word, chan, index, holder, producer, poh, control, tracked>>

(* Mutant: the word is stored without a comparison.                         *)
ReserveStore(s) ==
    /\ pc[s] = "entered"
    /\ word' = [seen[s] EXCEPT !.allowed = @ - 1]
    /\ pc' = [pc EXCEPT ![s] = "reserved"]
    /\ UNCHANGED <<seen, active, chan, index, holder, producer, poh, control, tracked>>

(* compare_exchange()                                                       *)
Reserve(s) ==
    /\ pc[s] = "entered"
    /\ IF word = seen[s]
       THEN /\ word' = [word EXCEPT !.allowed = @ - 1]
            /\ pc' = [pc EXCEPT ![s] = "reserved"]
       ELSE pc' = [pc EXCEPT ![s] = "failed"] /\ UNCHANGED word
    /\ UNCHANGED <<seen, active, chan, index, holder, producer, poh, control, tracked>>

(* Mutant: the sender stays counted when it tries again.                    *)
RetryActive(s) ==
    /\ pc[s] = "failed" /\ Release
    /\ pc' = [pc EXCEPT ![s] = "idle"] /\ seen' = [seen EXCEPT ![s] = Closed]
    /\ UNCHANGED <<word, active, chan, index, producer, poh, control, tracked>>

(* The word has changed: try again.                                         *)
Retry(s) ==
    /\ pc[s] = "failed"
    /\ active' = active - 1
    /\ Release
    /\ pc' = [pc EXCEPT ![s] = "idle"] /\ seen' = [seen EXCEPT ![s] = Closed]
    /\ UNCHANGED <<word, chan, index, producer, poh, control, tracked>>

(* The channel takes the record.  The index that the sender will be told     *)
(* goes with it for the properties only.                                    *)
Push(s) ==
    /\ pc[s] = "reserved"
    /\ chan' = Append(chan, [bank |-> seen[s].bank, index |-> index])
    /\ pc' = [pc EXCEPT ![s] = "pushed"]
    /\ UNCHANGED <<seen, word, active, index, holder, producer, poh, control, tracked>>

Finish(s) ==
    /\ pc[s] = "pushed"
    /\ active' = active - 1
    /\ index' = IF tracked THEN index + 1 ELSE index
    /\ Release
    /\ pc' = [pc EXCEPT ![s] = "idle"] /\ seen' = [seen EXCEPT ![s] = Closed]
    /\ UNCHANGED <<word, chan, producer, poh, control, tracked>>

-----------------------------------------------------------------------------
(* PohService::tick_producer()                                              *)
Doing(place, what) == at' = place /\ from' = what
Goto(place) ==
    Doing(place, IF place \in {"look", "again", "recv", "add", "empty"} THEN from ELSE "hash")

(* The top of the loop: the exit signal, then check_for_service_message().   *)
Top ==
    /\ at = "top" /\ Goto("work")
    /\ stopping' = (stopping \/ exit)
    /\ msg' = mail /\ mail' = <<>>
    /\ word' = IF stopping' \/ mail # <<>> THEN Closed ELSE word
    /\ UNCHANGED <<sender, active, chan, index, holder, next, poh, exit, newest, tracked>>

(* PohRecorder::tick(), when the last hash of a tick is due: at the end of   *)
(* its slot the working bank is cleared.                                    *)
NextTick ==
    IF tick + 1 < Ticks THEN tick' = tick + 1 /\ UNCHANGED <<slot, bank>>
    ELSE /\ tick' = 0
         /\ slot' = IF slot <= MaxSlot THEN slot + 1 ELSE slot
         /\ bank' = NoBank

(* record_or_hash() without a record: Poh::hash(), the check for the next    *)
(* batch, and then a tick or a look at the channel.                         *)
Hash ==
    LET n == IF left - 1 < Batch THEN left - 1 ELSE Batch
        r == RemainingHashes(tick, left - n)
    IN  /\ at = "work" /\ next = <<>>
        /\ left' = left - n
        /\ word' = IF ShouldShutdown(IF r < Batch THEN 0 ELSE r - Batch) THEN Closed ELSE word
        /\ Doing(IF left - n = 1 THEN "tick" ELSE "recv", "hash")
        /\ UNCHANGED <<sender, active, chan, index, holder, next, msg, stopping, slot, tick,
                       bank, count, control, tracked>>

Tick ==
    /\ at = "tick" /\ Goto("end")
    /\ left' = Hashes
    /\ NextTick
    /\ UNCHANGED <<sender, channel, next, msg, stopping, count, control, tracked>>

(* PohRecorder::record() of the record at hand: an early tick when the next  *)
(* hash has to be one.  It fails without the working bank of the record.     *)
CanRecord(r) ==
    /\ bank # NoBank /\ bank.id = r.bank
    /\ left > 1 \/ tick + 1 < Ticks

Record ==
    /\ at = "work" /\ next # <<>>
    /\ IF CanRecord(next[1])
       THEN /\ IF left > 1 THEN left' = left - 1 /\ UNCHANGED <<slot, tick, bank>>
                           ELSE left' = Hashes - 1 /\ NextTick
            /\ count' = IF tracked THEN count + 1 ELSE count
            /\ next' = <<>>
            /\ word' = IF ShouldShutdown(RemainingHashes(tick', left')) THEN Closed ELSE word
            /\ Doing("recv", "record")
       ELSE Goto("panic") /\ UNCHANGED <<next, word, poh>>
    /\ UNCHANGED <<sender, active, chan, index, holder, msg, stopping, control, tracked>>

(* RecordReceiver::try_recv()                                               *)
Pop ==
    /\ chan # <<>>
    /\ next' = <<Head(chan)>> /\ chan' = Tail(chan)
    /\ Goto("add")
    /\ UNCHANGED <<sender, word, active, index, holder, msg, stopping, poh, control,
                   tracked>>

Empty(places) ==
    /\ chan = <<>>
    /\ \E place \in places : Goto(place)
    /\ UNCHANGED <<sender, channel, next, msg, stopping, poh, control, tracked>>

Recv == at = "recv" /\ (Pop \/ Empty({"look"}))

Look ==
    /\ at = "look"
    /\ Goto(IF active = 0 THEN "again" ELSE "recv")
    /\ UNCHANGED <<sender, channel, next, msg, stopping, poh, control, tracked>>

(* Nothing received: after a hash it goes on hashing, or leaves once it has  *)
(* waited for the time of the next hash.  The polls of that wait are the     *)
(* same as coming here later.                                               *)
Again ==
    /\ at = "again"
    /\ Pop \/ Empty(IF from = "hash" THEN {"work", "end"} ELSE {"end"})

(* on_received_record()                                                     *)
Add ==
    /\ at = "add" /\ Goto(IF from = "hash" THEN "end" ELSE "work")
    /\ word' = FetchAdd(word)
    /\ UNCHANGED <<sender, active, chan, index, holder, next, msg, stopping, poh, control,
                   tracked>>

(* The end of the inner loop, and can_process_service_message().             *)
End ==
    /\ at = "end"
    /\ IF next # <<>> THEN Goto("work")
       ELSE IF msg # <<>> THEN Doing("safe", "message")
       ELSE Goto("last")
    /\ UNCHANGED <<sender, channel, next, msg, stopping, poh, control, tracked>>

(* is_safe_to_restart(): active_senders is looked at first.                  *)
NotSafe == Goto(IF from = "message" THEN "work" ELSE "top")

(* Mutant: the senders in flight are not looked at.                         *)
SafeNoSenders ==
    /\ at = "safe" /\ Goto("empty")
    /\ UNCHANGED <<sender, channel, next, msg, stopping, poh, control, tracked>>

Safe ==
    /\ at = "safe"
    /\ IF active = 0 THEN Goto("empty") ELSE NotSafe
    /\ UNCHANGED <<sender, channel, next, msg, stopping, poh, control, tracked>>

IsEmpty ==
    /\ at = "empty"
    /\ IF chan = <<>> THEN Goto(IF from = "message" THEN "handle" ELSE "done") ELSE NotSafe
    /\ UNCHANGED <<sender, channel, next, msg, stopping, poh, control, tracked>>

(* handle_service_message().  After the exit signal the message is dropped,  *)
(* and the guard that holds it panics.                                      *)
HandleReset ==
    /\ at = "handle" /\ ~stopping /\ msg[1].type = "Reset"
    /\ slot' = msg[1].slot + 1 /\ tick' = 0 /\ left' = Hashes /\ bank' = NoBank
    /\ msg' = <<>> /\ Goto("last")
    /\ UNCHANGED <<sender, channel, next, stopping, count, control, tracked>>

(* PohRecorder::set_bank(): a bank whose slot is over is cleared at once.     *)
(* RecordReceiver::restart() waits for the lock of the indexes.              *)
HandleSetBank ==
    LET m == msg[1]
        restart == slot = m.slot /\ tick + 1 < Ticks
    IN  /\ at = "handle" /\ ~stopping /\ m.type = "SetBank"
        /\ bank = NoBank /\ (restart => chan = <<>>)
        /\ bank' = IF slot = m.slot THEN [id |-> m.id, slot |-> m.slot] ELSE NoBank
        /\ count' = 0
        /\ IF restart
           THEN /\ holder = {}
                /\ word' = [bank |-> m.id, allowed |-> Capacity]
                /\ index' = 0
           ELSE UNCHANGED <<word, index>>
        /\ msg' = <<>> /\ Goto("last")
        /\ UNCHANGED <<sender, active, chan, holder, next, stopping, slot, tick, left,
                       control, tracked>>

HandleFails ==
    /\ at = "handle" /\ Goto("panic")
    /\ \/ stopping
       \/ msg[1].type = "SetBank" /\ (bank # NoBank \/ chan # <<>>)
    /\ UNCHANGED <<sender, channel, next, msg, stopping, poh, control, tracked>>

Last ==
    /\ at = "last"
    /\ IF stopping THEN Doing("safe", "exit") ELSE Goto("top")
    /\ UNCHANGED <<sender, channel, next, msg, stopping, poh, control, tracked>>

-----------------------------------------------------------------------------
(* The replay stage sends a message only when none is pending: it resets PoH  *)
(* to a bank, or makes a bank for the slot that PoH is in  *)
(* when PoH has none.                                                       *)
Send(m) ==
    /\ mail = <<>> /\ msg = <<>>
    /\ mail' = <<m>>
    /\ UNCHANGED <<sender, channel, producer, poh, exit, tracked>>

SendReset(s) ==
    /\ Send([type |-> "Reset", id |-> 0, slot |-> s])
    /\ UNCHANGED newest

SendSetBank ==
    /\ bank = NoBank /\ slot <= MaxSlot /\ newest < MaxBank /\ newest' = newest + 1
    /\ Send([type |-> "SetBank", id |-> newest + 1, slot |-> slot])

Exit ==
    /\ ~exit /\ exit' = TRUE
    /\ UNCHANGED <<sender, channel, producer, poh, mail, newest, tracked>>

Init ==
    /\ pc = [s \in Sender |-> "idle"] /\ seen = [s \in Sender |-> Closed]
    /\ word = Closed /\ active = 0 /\ chan = <<>>
    /\ tracked \in BOOLEAN /\ index = 0 /\ holder = {}
    /\ at = "top" /\ from = "hash" /\ next = <<>> /\ msg = <<>> /\ stopping = FALSE
    /\ slot = 1 /\ tick = 0 /\ left = Hashes /\ bank = NoBank /\ count = 0
    /\ mail = <<>> /\ exit = FALSE /\ newest = 0

TrySend(s) == Load(s) \/ Enter(s) \/ Reserve(s) \/ Retry(s) \/ Push(s) \/ Finish(s)

TickProducer ==
    \/ Top \/ Hash \/ Tick \/ Record \/ Recv \/ Look \/ Again \/ Add \/ End
    \/ Safe \/ IsEmpty \/ HandleReset \/ HandleSetBank \/ HandleFails \/ Last

ReplayStage == (\E s \in 0..MaxSlot : SendReset(s)) \/ SendSetBank \/ Exit

Next == (\E s \in Sender : TrySend(s)) \/ TickProducer \/ ReplayStage

Spec == Init /\ [][Next]_vars

(* The tick producer goes on, and so does some send of those that have begun. *)
FairSpec ==
    /\ Spec /\ WF_vars(TickProducer)
    /\ WF_vars(\E s \in Sender : Enter(s) \/ Reserve(s) \/ Retry(s) \/ Push(s) \/ Finish(s))

-----------------------------------------------------------------------------
Places == {"top", "work", "tick", "recv", "look", "again", "add", "end", "safe", "empty",
           "handle", "last", "done", "panic"}
RecordType == [bank : 1..MaxBank, index : Nat]

(* Every variable keeps its type; at most one record is at hand, and one      *)
(* service message is under way.                                            *)
TypeOK ==
    /\ pc \in [Sender -> {"idle", "loaded", "entered", "reserved", "failed", "pushed"}]
    /\ seen \in [Sender -> Word]
    /\ word \in Word /\ active \in Nat /\ chan \in Seq(RecordType)
    /\ tracked \in BOOLEAN /\ index \in Nat /\ holder \in SUBSET Sender
    /\ at \in Places /\ from \in {"hash", "record", "message", "exit"}
    /\ next \in Seq(RecordType) /\ Len(next) <= 1
    /\ msg \in Seq(Message) /\ mail \in Seq(Message) /\ Len(msg) + Len(mail) <= 1
    /\ stopping \in BOOLEAN /\ exit \in BOOLEAN
    /\ slot \in 0..MaxSlot + 1 /\ tick \in 0..Ticks - 1 /\ left \in 1..Hashes
    /\ bank \in [id : 0..MaxBank, slot : 0..MaxSlot]
    /\ newest \in 0..MaxBank /\ count \in Nat

At(place) == {s \in Sender : pc[s] = place}

(* "Once sent records can be guaranteed to be recorded": record() never fails *)
(* on a record that try_send() took, so the tick producer never panics there. *)
RecordsFit == at = "work" /\ next # <<>> => CanRecord(next[1])

(* The budget of insertions is exact: what may still be sent, what is         *)
(* reserved, what is in the channel and what was taken out of it but not yet  *)
(* given back add up to the capacity.  So the channel is never full when a    *)
(* sender pushes, and giving back never carries into the bank id.             *)
BudgetExact ==
    LET used == Cardinality(At("reserved")) + Len(chan) + (IF at = "add" THEN 1 ELSE 0)
    IN  IF word.bank = Disabled THEN word.allowed + used <= Capacity
                                ELSE word.allowed + used = Capacity

(* With transaction indexes, the index that a sender is told is the position  *)
(* at which the transaction is recorded in its bank.                          *)
IndexesExact ==
    tracked =>
        /\ next # <<>> => next[1].index = count
        /\ \A i \in 1..Len(chan) : chan[i].index = count + Len(next) + i - 1

(* A restart finds no record of the bank before, and neither does the end of  *)
(* the service: no record is in the channel, and none will come.              *)
NothingLost ==
    at \in {"handle", "done"} =>
        chan = <<>> /\ next = <<>> /\ At("reserved") = {} /\ At("pushed") = {}

(* A service message that the replay stage sends is handled, however busy the *)
(* senders are, unless the service stops first.                               *)
MessageHandled ==
    mail # <<>> ~> (mail = <<>> /\ msg = <<>>) \/ at \in {"done", "panic"}
=============================================================================
