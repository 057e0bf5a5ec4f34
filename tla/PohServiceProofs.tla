--------------------------- MODULE PohServiceProofs ---------------------------
(***************************************************************************)
(* The record channel keeps its promise, for any number of senders and any  *)
(* capacity; that every record sent is recorded is proved up to the one     *)
(* step that can break it, a batch that the room left was not kept for.     *)
(*                                                                         *)
(* The argument: the word stays closed from the moment that a message or    *)
(* the exit signal is taken until the restart, so a sender that has not     *)
(* reserved by then fails its compare_exchange().  active_senders = 0 after *)
(* that means that nothing more is pushed, and an empty channel then means  *)
(* that nothing is lost.                                                    *)
(***************************************************************************)
EXTENDS PohService, FiniteSetTheorems, TLAPS

(* A channel or a batch with nothing in it.                                  *)
LEMMA EmptySequence == ASSUME NEW S PROVE <<>> \in Seq(S)
  OBVIOUS

ChannelTypes ==
    /\ pc \in [Sender -> {"idle", "loaded", "entered", "reserved", "failed", "pushed"}]
    /\ seen \in [Sender -> Word]
    /\ word \in Word /\ active \in Nat /\ chan \in Seq(RecordType)
    /\ tracked \in BOOLEAN /\ index \in Nat /\ holder \in SUBSET Sender

ProducerTypes ==
    /\ at \in Places /\ from \in {"hash", "record", "message", "exit"}
    /\ next \in Seq(RecordType) /\ Len(next) <= 1
    /\ msg \in Seq(Message) /\ mail \in Seq(Message) /\ Len(msg) + Len(mail) <= 1
    /\ stopping \in BOOLEAN /\ exit \in BOOLEAN

PohTypes ==
    /\ slot \in 0..MaxSlot + 1 /\ tick \in 0..Ticks - 1 /\ left \in 1..Hashes
    /\ bank \in [id : 0..MaxBank, slot : 0..MaxSlot]
    /\ newest \in 0..MaxBank /\ count \in Nat

(* What a sender has loaded: an open word with room.                         *)
Loaded ==
    \A s \in Sender : pc[s] \in {"loaded", "entered", "reserved"} =>
        seen[s].bank \in 1..MaxBank /\ seen[s].allowed >= 1

(* active_senders counts the senders between its two updates.                *)
Flight == {s \in Sender : pc[s] \in {"entered", "reserved", "failed", "pushed"}}
Counted == active = Cardinality(Flight)

(* A message that sets a bank names one; the word names one or is closed.    *)
Named ==
    /\ mail # <<>> /\ mail[1].type = "SetBank" => mail[1].id >= 1
    /\ msg # <<>> /\ msg[1].type = "SetBank" => msg[1].id >= 1
    /\ word.bank \in 1..MaxBank \cup {Disabled}

(* Where the tick producer can be with a record, a message, an exit signal.  *)
Flow ==
    /\ next # <<>> => at \in {"add", "work", "end", "panic"}
    /\ at = "add" => next # <<>>
    /\ at \in {"safe", "empty"} => \/ from = "message" /\ msg # <<>>
                                   \/ from = "exit" /\ stopping
    /\ at = "handle" => msg # <<>>
    /\ at = "done" => stopping
    /\ msg # <<>> \/ stopping => word.bank = Disabled

(* Once active_senders was 0 behind a closed word, nothing comes any more.   *)
Sealed ==
    /\ at \in {"empty", "handle", "done"} => At("reserved") = {} /\ At("pushed") = {}
    /\ at \in {"handle", "done"} => chan = <<>>

IInv ==
    /\ ChannelTypes /\ ProducerTypes /\ PohTypes
    /\ Loaded /\ Counted /\ Named /\ Flow /\ Sealed /\ BudgetExact

LEMMA TypesSplit == TypeOK <=> ChannelTypes /\ ProducerTypes /\ PohTypes
BY DEF TypeOK, ChannelTypes, ProducerTypes, PohTypes

-----------------------------------------------------------------------------
(* The senders, counted                                                      *)

LEMMA AtFinite ==
    ASSUME NEW place
    PROVE  IsFiniteSet(At(place)) /\ Cardinality(At(place)) \in Nat
<1>1. At(place) \subseteq Sender
  BY DEF At
<1> QED
  BY <1>1, PohAssumption, FS_Subset, FS_CardinalityType

LEMMA FlightFinite == IsFiniteSet(Flight) /\ Cardinality(Flight) \in Nat
<1>1. Flight \subseteq Sender
  BY DEF Flight
<1> QED
  BY <1>1, PohAssumption, FS_Subset, FS_CardinalityType

(* A sender goes from one place to another.                                  *)
LEMMA Moves ==
    ASSUME ChannelTypes, NEW s \in Sender, NEW p, pc' = [pc EXCEPT ![s] = p], NEW q
    PROVE  /\ pc[s] = p => At(q)' = At(q)
           /\ q # p /\ q # pc[s] => At(q)' = At(q)
           /\ q = p /\ pc[s] # p => /\ At(q)' = At(q) \cup {s} /\ s \notin At(q)
                                    /\ Cardinality(At(q)') = Cardinality(At(q)) + 1
           /\ q = pc[s] /\ pc[s] # p => /\ At(q)' = At(q) \ {s} /\ s \in At(q)
                                        /\ Cardinality(At(q)') = Cardinality(At(q)) - 1
<1>1. pc' = [t \in Sender |-> IF t = s THEN p ELSE pc[t]]
  BY Zenon DEF ChannelTypes
<1>2. At(q)' = {t \in Sender : pc'[t] = q}
  BY DEF At
<1>3. pc[s] = p => At(q)' = At(q)
  BY <1>1, <1>2 DEF At
<1>4. q # p /\ q # pc[s] => At(q)' = At(q)
  BY <1>1, <1>2 DEF At
<1>5. q = p /\ pc[s] # p => At(q)' = At(q) \cup {s} /\ s \notin At(q)
  BY <1>1, <1>2 DEF At
<1>6. q = pc[s] /\ pc[s] # p => At(q)' = At(q) \ {s} /\ s \in At(q)
  BY <1>1, <1>2 DEF At
<1>7. IsFiniteSet(At(q))
  BY AtFinite
<1>8. q = p /\ pc[s] # p => Cardinality(At(q)') = Cardinality(At(q)) + 1
  BY <1>5, <1>7, FS_AddElement, Zenon
<1>9. q = pc[s] /\ pc[s] # p => Cardinality(At(q)') = Cardinality(At(q)) - 1
  BY <1>6, <1>7, FS_RemoveElement, Zenon
<1> QED
  BY <1>3, <1>4, <1>5, <1>6, <1>8, <1>9, Zenon

(* The same for the senders in flight.                                       *)
LEMMA FlightMoves ==
    ASSUME ChannelTypes, Counted, NEW s \in Sender, NEW p, pc' = [pc EXCEPT ![s] = p]
    PROVE  /\ pc[s] \in {"idle", "loaded"} /\ p \in {"idle", "loaded"} => Flight' = Flight
           /\ pc[s] = "loaded" /\ p = "entered" => active + 1 = Cardinality(Flight')
           /\ pc[s] \in {"entered", "reserved"} /\ p \in {"reserved", "failed", "pushed"} => Flight' = Flight
           /\ pc[s] \in {"failed", "pushed"} /\ p = "idle" =>
                 active - 1 = Cardinality(Flight') /\ active >= 1
<1>1. pc' = [t \in Sender |-> IF t = s THEN p ELSE pc[t]]
  BY Zenon DEF ChannelTypes
<1>2. Flight' = {t \in Sender : pc'[t] \in {"entered", "reserved", "failed", "pushed"}}
  BY DEF Flight
<1>3. IsFiniteSet(Flight) /\ Cardinality(Flight) \in Nat
  BY FlightFinite
<1>4. pc[s] \in {"idle", "loaded"} /\ p \in {"idle", "loaded"} => Flight' = Flight
  BY <1>1, <1>2 DEF Flight
<1>5. pc[s] \in {"entered", "reserved"} /\ p \in {"reserved", "failed", "pushed"} => Flight' = Flight
  BY <1>1, <1>2 DEF Flight
<1>6. ASSUME pc[s] = "loaded", p = "entered" PROVE active + 1 = Cardinality(Flight')
  <2>1. Flight' = Flight \cup {s} /\ s \notin Flight
    BY <1>1, <1>2, <1>6 DEF Flight
  <2> QED
    BY <1>3, <2>1, FS_AddElement, Zenon DEF Counted
<1>7. ASSUME pc[s] \in {"failed", "pushed"}, p = "idle"
      PROVE  active - 1 = Cardinality(Flight') /\ active >= 1
  <2>1. Flight' = Flight \ {s} /\ s \in Flight
    BY <1>1, <1>2, <1>7 DEF Flight
  <2>2. active - 1 = Cardinality(Flight')
    BY <1>3, <2>1, FS_RemoveElement, Zenon DEF Counted
  <2>3. Cardinality(Flight) # 0
    BY <1>3, <2>1, FS_EmptySet
  <2> QED
    BY <1>3, <2>2, <2>3 DEF Counted
<1> QED
  BY <1>4, <1>5, <1>6, <1>7, Zenon

-----------------------------------------------------------------------------
(* The steps of a sender                                                     *)

LEMMA SenderFrame ==
    ASSUME NEW s \in Sender, TrySend(s)
    PROVE  UNCHANGED <<producer, poh, control, tracked>>
BY Zenon DEF TrySend, Load, Enter, Reserve, Retry, Push, Finish

LEMMA SenderTypes ==
    ASSUME ChannelTypes, Loaded, Counted, NEW s \in Sender, TrySend(s)
    PROVE  ChannelTypes'
<1>1. UNCHANGED tracked
  BY SenderFrame
<1>2. \A p : pc' = [pc EXCEPT ![s] = p] /\ p \in {"idle", "loaded", "entered", "reserved", "failed", "pushed"}
            => pc' \in [Sender -> {"idle", "loaded", "entered", "reserved", "failed", "pushed"}]
  BY DEF ChannelTypes
<1>3. Closed \in Word
  BY PohAssumption DEF Closed, Word, Disabled
<1>4. CASE Load(s)
  BY <1>1, <1>2, <1>4 DEF Load, ChannelTypes
<1>5. CASE Enter(s)
  BY <1>1, <1>2, <1>5 DEF Enter, ChannelTypes
<1>6. CASE Reserve(s)
  <2>1. word' \in Word
    <3>1. CASE word = seen[s]
      <4>1. word \in Word /\ word.allowed >= 1 /\ word' = [word EXCEPT !.allowed = @ - 1]
        BY <1>6, <3>1 DEF Reserve, Loaded, ChannelTypes
      <4> QED
        BY <4>1, PohAssumption DEF Word
    <3>2. CASE word # seen[s]
      BY <1>6, <3>2 DEF Reserve, ChannelTypes
    <3> QED
      BY <3>1, <3>2
  <2> QED
    BY <1>1, <1>2, <1>6, <2>1 DEF Reserve, ChannelTypes
<1>7. CASE Retry(s)
  <2>1. active' \in Nat
    <3>1. pc[s] = "failed" /\ pc' = [pc EXCEPT ![s] = "idle"] /\ active' = active - 1
      BY <1>7 DEF Retry
    <3>2. active >= 1
      BY <3>1, FlightMoves, Zenon
    <3> QED
      BY <3>1, <3>2 DEF ChannelTypes
  <2> QED
    BY <1>1, <1>2, <1>3, <1>7, <2>1 DEF Retry, Release, ChannelTypes
<1>8. CASE Push(s)
  <2>1. [bank |-> seen[s].bank, index |-> index] \in RecordType
    BY <1>8 DEF Push, Loaded, RecordType, ChannelTypes
  <2>2. chan' \in Seq(RecordType)
    BY <1>8, <2>1 DEF Push, ChannelTypes
  <2> QED
    BY <1>1, <1>2, <1>8, <2>2 DEF Push, ChannelTypes
<1>9. CASE Finish(s)
  <2>1. active' \in Nat
    <3>1. pc[s] = "pushed" /\ pc' = [pc EXCEPT ![s] = "idle"] /\ active' = active - 1
      BY <1>9 DEF Finish
    <3>2. active >= 1
      BY <3>1, FlightMoves, Zenon
    <3> QED
      BY <3>1, <3>2 DEF ChannelTypes
  <2> QED
    BY <1>1, <1>2, <1>3, <1>9, <2>1 DEF Finish, Release, ChannelTypes
<1> QED
  BY <1>4, <1>5, <1>6, <1>7, <1>8, <1>9 DEF TrySend

LEMMA SenderLoaded ==
    ASSUME ChannelTypes, Loaded, Named, NEW s \in Sender, TrySend(s)
    PROVE  Loaded' /\ Named'
<1>1. UNCHANGED <<mail, msg>>
  BY SenderFrame DEF producer, control
<1>2. word'.bank = word.bank
  BY DEF TrySend, Load, Enter, Reserve, Retry, Push, Finish, ChannelTypes, Word
<1>3. Named'
  BY <1>1, <1>2 DEF Named
<1>4. Loaded'
  <2>1. SUFFICES ASSUME NEW t \in Sender, pc'[t] \in {"loaded", "entered", "reserved"}
                 PROVE  seen'[t].bank \in 1..MaxBank /\ seen'[t].allowed >= 1
    BY DEF Loaded
  <2>2. CASE Load(s)
    BY <2>1, <2>2 DEF Load, Loaded, Named, ChannelTypes
  <2>3. CASE Enter(s) \/ Reserve(s) \/ Push(s)
    BY <2>1, <2>3 DEF Enter, Reserve, Push, Loaded, ChannelTypes
  <2>4. CASE Retry(s) \/ Finish(s)
    BY <2>1, <2>4 DEF Retry, Finish, Loaded, ChannelTypes
  <2> QED
    BY <2>2, <2>3, <2>4 DEF TrySend
<1> QED
  BY <1>3, <1>4

LEMMA SenderCounted ==
    ASSUME ChannelTypes, Counted, NEW s \in Sender, TrySend(s)
    PROVE  Counted'
<1>1. CASE Load(s)
  BY <1>1, FlightMoves, Zenon DEF Load, Counted
<1>2. CASE Enter(s)
  BY <1>2, FlightMoves, Zenon DEF Enter, Counted
<1>3. CASE Reserve(s)
  BY <1>3, FlightMoves DEF Reserve, Counted
<1>4. CASE Retry(s)
  BY <1>4, FlightMoves, Zenon DEF Retry, Counted
<1>5. CASE Push(s)
  BY <1>5, FlightMoves, Zenon DEF Push, Counted
<1>6. CASE Finish(s)
  BY <1>6, FlightMoves, Zenon DEF Finish, Counted
<1> QED
  BY <1>1, <1>2, <1>3, <1>4, <1>5, <1>6 DEF TrySend

(* The word and the places in Flow do not change, whatever a sender does.    *)
LEMMA SenderFlow ==
    ASSUME ChannelTypes, Flow, NEW s \in Sender, TrySend(s)
    PROVE  Flow'
<1>1. UNCHANGED <<at, from, next, msg, stopping>>
  BY SenderFrame DEF producer
<1>2. word'.bank = word.bank
  BY DEF TrySend, Load, Enter, Reserve, Retry, Push, Finish, ChannelTypes, Word
<1> QED
  BY <1>1, <1>2, Zenon DEF Flow

(* A closed word cannot be reserved.                                         *)
LEMMA ReserveOpen ==
    ASSUME ChannelTypes, Loaded, NEW s \in Sender, pc[s] = "entered", word = seen[s]
    PROVE  word.bank # Disabled /\ word.allowed >= 1
BY PohAssumption DEF Loaded, Disabled

LEMMA Closing ==
    ASSUME Flow, at \in {"safe", "empty", "handle", "done"}
    PROVE  word.bank = Disabled
BY DEF Flow

LEMMA SenderSealed ==
    ASSUME ChannelTypes, Loaded, Flow, Sealed, NEW s \in Sender, TrySend(s)
    PROVE  Sealed'
<1>1. UNCHANGED at
  BY SenderFrame DEF producer
<1>2. SUFFICES ASSUME at \in {"empty", "handle", "done"}
               PROVE  At("reserved")' = {} /\ At("pushed")' = {} /\ UNCHANGED chan
  BY <1>1 DEF Sealed
<1>3. At("reserved") = {} /\ At("pushed") = {} /\ word.bank = Disabled
  BY <1>2, Closing DEF Sealed
<1>4. pc[s] \notin {"reserved", "pushed"}
  BY <1>3 DEF At
<1>5. ~Push(s) /\ ~Finish(s)
  BY <1>4 DEF Push, Finish
<1>6. UNCHANGED chan
  BY <1>5 DEF TrySend, Load, Enter, Reserve, Retry
<1>7. \E p \in {"idle", "loaded", "entered", "failed"} : pc' = [pc EXCEPT ![s] = p]
  <2>1. CASE Reserve(s)
    BY <1>3, <2>1, ReserveOpen DEF Reserve
  <2> QED
    BY <1>5, <2>1 DEF TrySend, Load, Enter, Retry
<1> QED
  BY <1>3, <1>4, <1>6, <1>7, Moves, Zenon

(* The insertions in use.                                                    *)
Used == Cardinality(At("reserved")) + Len(chan) + (IF at = "add" THEN 1 ELSE 0)

LEMMA BudgetUsed ==
    BudgetExact <=> IF word.bank = Disabled THEN word.allowed + Used <= Capacity
                                            ELSE word.allowed + Used = Capacity
BY DEF BudgetExact, Used

LEMMA UsedType ==
    ASSUME ChannelTypes
    PROVE  Used \in Nat /\ Cardinality(At("reserved")) \in Nat /\ Len(chan) \in Nat
<1>1. Cardinality(At("reserved")) \in Nat
  BY AtFinite
<1>2. Len(chan) \in Nat
  BY DEF ChannelTypes
<1> QED
  BY <1>1, <1>2 DEF Used

LEMMA SenderBudget ==
    ASSUME ChannelTypes, Loaded, BudgetExact, NEW s \in Sender, TrySend(s)
    PROVE  BudgetExact'
<1>1. UNCHANGED at
  BY SenderFrame DEF producer
<1>2. ASSUME UNCHANGED <<word, chan>>, At("reserved")' = At("reserved") PROVE BudgetExact'
  BY <1>1, <1>2 DEF BudgetExact
<1>3. Used \in Nat /\ Cardinality(At("reserved")) \in Nat /\ Len(chan) \in Nat
  BY UsedType
<1>4. CASE Load(s)
  BY <1>2, <1>4, Moves, Zenon DEF Load
<1>5. CASE Enter(s)
  BY <1>2, <1>5, Moves, Zenon DEF Enter
<1>6. CASE Reserve(s)
  <2>1. CASE word = seen[s]
    <3>1. word.bank # Disabled /\ word.allowed >= 1
      BY <1>6, <2>1, ReserveOpen DEF Reserve
    <3>2. word'.bank = word.bank /\ word'.allowed = word.allowed - 1 /\ UNCHANGED chan
      BY <1>6, <2>1 DEF Reserve, ChannelTypes, Word
    <3>3. Cardinality(At("reserved")') = Cardinality(At("reserved")) + 1
      BY <1>6, <2>1, Moves DEF Reserve
    <3>4. Used' = Used + 1
      BY <1>1, <1>3, <3>2, <3>3 DEF Used
    <3>5. word.allowed + Used = Capacity /\ word.allowed \in Nat
      BY <3>1, BudgetUsed, PohAssumption DEF ChannelTypes, Word
    <3>6. word'.allowed + Used' = Capacity /\ word'.bank # Disabled
      BY <1>3, <3>1, <3>2, <3>4, <3>5
    <3> QED
      BY <3>6 DEF BudgetExact, Used
  <2>2. CASE word # seen[s]
    BY <1>2, <1>6, <2>2, Moves DEF Reserve
  <2> QED
    BY <2>1, <2>2
<1>7. CASE Retry(s)
  BY <1>2, <1>7, Moves, Zenon DEF Retry
<1>8. CASE Push(s)
  <2>0. pc[s] = "reserved" /\ pc' = [pc EXCEPT ![s] = "pushed"] /\ "reserved" # "pushed"
    BY <1>8 DEF Push
  <2>1. Cardinality(At("reserved")') = Cardinality(At("reserved")) - 1
    BY <2>0, Moves, Zenon
  <2>2. Len(chan') = Len(chan) + 1 /\ UNCHANGED word
    BY <1>8 DEF Push, ChannelTypes
  <2>3. Used' = Used
    BY <1>1, <1>3, <2>1, <2>2 DEF Used
  <2> QED
    <3>1. IF word'.bank = Disabled THEN word'.allowed + Used' <= Capacity
                                   ELSE word'.allowed + Used' = Capacity
      BY <2>2, <2>3, BudgetUsed
    <3> QED
      BY <3>1 DEF BudgetExact, Used
<1>9. CASE Finish(s)
  BY <1>2, <1>9, Moves, Zenon DEF Finish
<1> QED
  BY <1>4, <1>5, <1>6, <1>7, <1>8, <1>9 DEF TrySend

LEMMA SenderKeeps ==
    ASSUME IInv, NEW s \in Sender, TrySend(s)
    PROVE  IInv'
<1>1. UNCHANGED <<producer, poh, control, tracked>>
  BY SenderFrame
<1>2. ProducerTypes' /\ PohTypes'
  BY <1>1 DEF IInv, ProducerTypes, PohTypes, producer, poh, control
<1> QED
  BY <1>2, SenderTypes, SenderLoaded, SenderCounted, SenderFlow, SenderSealed, SenderBudget DEF IInv

-----------------------------------------------------------------------------
(* The steps of the tick producer                                            *)

LEMMA ClosedWord ==
    Closed \in Word /\ Closed.bank = Disabled /\ Closed.allowed = 0 /\ Disabled \notin 1..MaxBank
BY PohAssumption DEF Closed, Word, Disabled

LEMMA NoBankType == NoBank \in [id : 0..MaxBank, slot : 0..MaxSlot]
BY PohAssumption DEF NoBank

LEMMA NextTickTypes ==
    ASSUME PohTypes, NextTick
    PROVE  slot' \in 0..MaxSlot + 1 /\ tick' \in 0..Ticks - 1 /\ bank' \in [id : 0..MaxBank, slot : 0..MaxSlot]
BY NoBankType, PohAssumption DEF PohTypes, NextTick

(* The steps that touch neither the channel nor PoH, and the places they     *)
(* lead to.                                                                  *)
LEMMA ProducerTypesStep ==
    ASSUME ChannelTypes, ProducerTypes, TickProducer
    PROVE  ProducerTypes'
<1> USE DEF Doing, Goto, Places
<1>1. CASE Top
  BY <1>1 DEF Top, ProducerTypes
<1>2. CASE Hash \/ Tick \/ Look \/ End \/ Safe \/ IsEmpty \/ HandleFails \/ Last
  BY <1>2 DEF Hash, Tick, Look, End, Safe, IsEmpty, HandleFails, Last, NotSafe, ProducerTypes, control
<1>3. CASE Record
  BY <1>3 DEF Record, ProducerTypes, control
<1>4. ASSUME NEW P \in SUBSET Places, Empty(P) PROVE ProducerTypes'
  BY <1>4 DEF Empty, ProducerTypes, control
<1>5. CASE Pop
  <2>1. Head(chan) \in RecordType /\ next' = <<Head(chan)>>
    BY <1>5 DEF Pop, ChannelTypes
  <2>2. next' \in Seq(RecordType) /\ Len(next') = 1
    BY <2>1
  <2> QED
    BY <1>5, <2>2 DEF Pop, ProducerTypes, control
<1>6. CASE Recv
  BY <1>4, <1>5, <1>6 DEF Recv
<1>7. CASE Again
  <2>1. Pop \/ Empty({"work", "end"}) \/ Empty({"end"})
    BY <1>7 DEF Again
  <2> QED
    BY <1>4, <1>5, <2>1
<1>8. CASE Add
  BY <1>8 DEF Add, ProducerTypes, control
<1>9. CASE HandleReset \/ HandleSetBank
  BY <1>9 DEF HandleReset, HandleSetBank, ProducerTypes, control
<1> QED
  BY <1>1, <1>2, <1>3, <1>6, <1>7, <1>8, <1>9 DEF TickProducer

LEMMA ProducerFrame ==
    ASSUME TickProducer
    PROVE  UNCHANGED <<pc, seen, active, holder, tracked, exit, newest>>
<1>1. CASE Top \/ Hash \/ Tick \/ Look \/ End \/ Safe \/ IsEmpty \/ Last
  BY <1>1, Zenon DEF Top, Hash, Tick, Look, End, Safe, IsEmpty, Last, sender, channel, control
<1>2. CASE Record \/ Add \/ HandleReset \/ HandleSetBank \/ HandleFails
  BY <1>2, Zenon DEF Record, Add, HandleReset, HandleSetBank, HandleFails, sender, channel, control
<1>3. CASE Recv \/ Again
  BY <1>3, Zenon DEF Recv, Again, Pop, Empty, sender, channel, control
<1> QED
  BY <1>1, <1>2, <1>3 DEF TickProducer

(* What each step does to the word.                                          *)
LEMMA ProducerWord ==
    ASSUME TickProducer
    PROVE  \/ word' = word \/ word' = Closed
           \/ Add
           \/ HandleSetBank /\ word' = [bank |-> msg[1].id, allowed |-> Capacity] /\ UNCHANGED chan
<1>1. CASE Top \/ Hash
  BY <1>1, Zenon DEF Top, Hash
<1>2. CASE Record
  BY <1>2, Zenon DEF Record
<1>3. CASE Tick \/ Look \/ End \/ Safe \/ IsEmpty \/ Last \/ HandleReset \/ HandleFails
  BY <1>3, Zenon DEF Tick, Look, End, Safe, IsEmpty, Last, HandleReset, HandleFails, channel
<1>4. CASE Recv \/ Again
  BY <1>4, Zenon DEF Recv, Again, Pop, Empty, channel
<1>5. CASE HandleSetBank
  BY <1>5, Zenon DEF HandleSetBank
<1> QED
  BY <1>1, <1>2, <1>3, <1>4, <1>5 DEF TickProducer

(* Only a Pop changes the channel.                                           *)
LEMMA ProducerChan ==
    ASSUME TickProducer
    PROVE  \/ UNCHANGED chan /\ at' # "add"
           \/ Pop /\ at \in {"recv", "again"} /\ at' = "add" /\ UNCHANGED word
<1> USE DEF Doing, Goto
<1>1. CASE Top \/ Hash \/ Tick \/ Look \/ End \/ Safe
  BY <1>1 DEF Top, Hash, Tick, Look, End, Safe, NotSafe, channel
<1>2. CASE IsEmpty \/ Last \/ HandleReset \/ HandleFails
  BY <1>2 DEF IsEmpty, Last, HandleReset, HandleFails, NotSafe, channel
<1>3. CASE Record \/ Add \/ HandleSetBank
  BY <1>3 DEF Record, Add, HandleSetBank
<1>4. ASSUME NEW P, Empty(P), "add" \notin P PROVE UNCHANGED chan /\ at' # "add"
  BY <1>4, Zenon DEF Empty, channel
<1>5. Pop => at' = "add" /\ UNCHANGED word
  BY DEF Pop
<1>6. CASE Recv
  BY <1>4, <1>5, <1>6 DEF Recv
<1>7. CASE Again
  <2>1. at = "again" /\ (Pop \/ Empty({"work", "end"}) \/ Empty({"end"}))
    BY <1>7 DEF Again
  <2> QED
    BY <1>4, <1>5, <2>1
<1> QED
  BY <1>1, <1>2, <1>3, <1>6, <1>7 DEF TickProducer

LEMMA FetchAddBelow ==
    ASSUME ChannelTypes, BudgetExact, at = "add"
    PROVE  /\ word.allowed < Capacity /\ FetchAdd(word) \in Word
           /\ FetchAdd(word).bank = word.bank /\ FetchAdd(word).allowed = word.allowed + 1
<1>1. word \in Word /\ word.allowed \in Nat /\ Capacity \in Nat
  BY PohAssumption DEF ChannelTypes, Word
<1>2. Used \in Nat /\ Cardinality(At("reserved")) \in Nat /\ Len(chan) \in Nat
  BY UsedType
<1>3. Used >= 1
  BY <1>2 DEF Used
<1>4. word.allowed + Used <= Capacity
  BY <1>1, <1>2, BudgetUsed
<1>5. word.allowed < Capacity
  BY <1>1, <1>2, <1>3, <1>4
<1>6. FetchAdd(word) = [word EXCEPT !.allowed = @ + 1]
  BY <1>5 DEF FetchAdd
<1> QED
  BY <1>1, <1>5, <1>6, PohAssumption DEF Word

LEMMA ProducerIndex ==
    ASSUME TickProducer
    PROVE  index' = index \/ (index' = 0 /\ HandleSetBank)
<1>1. CASE Top \/ Hash \/ Tick \/ Look \/ End \/ Safe \/ IsEmpty \/ Last
  BY <1>1, Zenon DEF Top, Hash, Tick, Look, End, Safe, IsEmpty, Last, channel
<1>2. CASE Record \/ Add \/ HandleReset \/ HandleSetBank \/ HandleFails
  BY <1>2, Zenon DEF Record, Add, HandleReset, HandleSetBank, HandleFails, channel
<1>3. CASE Recv \/ Again
  BY <1>3, Zenon DEF Recv, Again, Pop, Empty, channel
<1> QED
  BY <1>1, <1>2, <1>3 DEF TickProducer

(* The message at hand, when the tick producer handles it.                   *)
LEMMA MessageAtHand ==
    ASSUME ProducerTypes, Named, Flow, at = "handle"
    PROVE  /\ msg # <<>> /\ msg[1] \in Message
           /\ msg[1].type = "SetBank" => msg[1].id \in 1..MaxBank
<1>1. msg # <<>> /\ msg \in Seq(Message)
  BY DEF Flow, ProducerTypes
<1>2. msg[1] \in Message
  BY <1>1
<1> QED
  BY <1>1, <1>2, PohAssumption DEF Named, Message

LEMMA RestartWord ==
    ASSUME ProducerTypes, Named, Flow, HandleSetBank,
           word' = [bank |-> msg[1].id, allowed |-> Capacity]
    PROVE  word' \in Word /\ word'.bank \in 1..MaxBank /\ word'.allowed = Capacity
<1>1. at = "handle" /\ msg[1].type = "SetBank"
  BY DEF HandleSetBank
<1>2. msg[1].id \in 1..MaxBank
  BY <1>1, MessageAtHand
<1> QED
  BY <1>2, PohAssumption DEF Word, Disabled

LEMMA ProducerChannelTypes ==
    ASSUME ChannelTypes, ProducerTypes, Named, Flow, BudgetExact, TickProducer
    PROVE  ChannelTypes'
<1>1. UNCHANGED <<pc, seen, active, holder, tracked>>
  BY ProducerFrame
<1>2. word' \in Word
  <2>1. Closed \in Word /\ word \in Word
    BY ClosedWord DEF ChannelTypes
  <2>2. ASSUME Add PROVE word' \in Word
    BY <2>2, FetchAddBelow DEF Add
  <2> QED
    BY <2>1, <2>2, ProducerWord, RestartWord
<1>3. chan' \in Seq(RecordType)
  <2>1. CASE Pop
    BY <2>1 DEF Pop, ChannelTypes
  <2> QED
    BY <2>1, ProducerChan DEF ChannelTypes
<1>4. index' \in Nat
  BY ProducerIndex DEF ChannelTypes
<1> QED
  BY <1>1, <1>2, <1>3, <1>4 DEF ChannelTypes

LEMMA ProducerPohTypes ==
    ASSUME ProducerTypes, PohTypes, Named, Flow, TickProducer
    PROVE  PohTypes'
<1>1. UNCHANGED newest
  BY ProducerFrame
<1>2. CASE UNCHANGED poh
  BY <1>1, <1>2 DEF PohTypes, poh
<1>3. CASE Top \/ Look \/ Add \/ End \/ Safe \/ IsEmpty \/ HandleFails \/ Last
  BY <1>2, <1>3, Zenon DEF Top, Look, Add, End, Safe, IsEmpty, HandleFails, Last
<1>4. CASE Recv \/ Again
  BY <1>2, <1>4, Zenon DEF Recv, Again, Pop, Empty
<1>5. CASE Hash
  BY <1>1, <1>5, PohAssumption DEF Hash, PohTypes
<1>6. CASE Tick
  <2>1. NextTick /\ left' = Hashes /\ UNCHANGED count
    BY <1>6 DEF Tick
  <2> QED
    BY <1>1, <2>1, NextTickTypes, PohAssumption DEF PohTypes
<1>7. CASE Record
  <2>1. CASE ~CanRecord(next[1])
    BY <1>2, <1>7, <2>1 DEF Record
  <2>2. CASE CanRecord(next[1])
    <3>1. count' \in Nat
      BY <1>7, <2>2 DEF Record, PohTypes
    <3>2. CASE left > 1
      BY <1>1, <1>7, <2>2, <3>1, <3>2, PohAssumption DEF Record, PohTypes
    <3>3. CASE ~(left > 1)
      <4>1. NextTick /\ left' = Hashes - 1
        BY <1>7, <2>2, <3>3 DEF Record
      <4>2. left' \in 1..Hashes
        BY <4>1, PohAssumption
      <4> QED
        BY <1>1, <3>1, <4>1, <4>2, NextTickTypes DEF PohTypes
    <3> QED
      BY <3>2, <3>3
  <2> QED
    BY <2>1, <2>2
<1>8. CASE HandleReset
  <2>1. msg[1] \in Message
    BY <1>8, MessageAtHand DEF HandleReset
  <2> QED
    BY <1>1, <1>8, <2>1, NoBankType, PohAssumption DEF HandleReset, PohTypes, Message
<1>9. CASE HandleSetBank
  <2>1. msg[1] \in Message
    BY <1>9, MessageAtHand DEF HandleSetBank
  <2>2. bank' \in [id : 0..MaxBank, slot : 0..MaxSlot] /\ count' = 0
    BY <1>9, <2>1, NoBankType DEF HandleSetBank, Message
  <2>3. UNCHANGED <<slot, tick, left>>
    BY <1>9 DEF HandleSetBank
  <2> QED
    BY <1>1, <2>2, <2>3 DEF PohTypes
<1> QED
  BY <1>3, <1>4, <1>5, <1>6, <1>7, <1>8, <1>9 DEF TickProducer

LEMMA ProducerNamed ==
    ASSUME ChannelTypes, ProducerTypes, Named, Flow, BudgetExact, TickProducer
    PROVE  Named'
<1>1. word'.bank \in 1..MaxBank \cup {Disabled}
  <2>1. ASSUME Add PROVE word'.bank = word.bank
    BY <2>1, FetchAddBelow DEF Add
  <2> QED
    BY <2>1, ClosedWord, ProducerWord, RestartWord DEF Named
<1>2. \/ UNCHANGED <<mail, msg>>
      \/ mail' = <<>> /\ msg' = mail
      \/ mail' = mail /\ msg' = <<>>
  <2>1. CASE Hash \/ Tick \/ Look \/ End \/ Safe \/ IsEmpty \/ Last \/ Record \/ Add \/ HandleFails
    BY <2>1, Zenon DEF Hash, Tick, Look, End, Safe, IsEmpty, Last, Record, Add, HandleFails, control
  <2>2. CASE Top \/ HandleReset \/ HandleSetBank
    BY <2>2, Zenon DEF Top, HandleReset, HandleSetBank, control
  <2>3. CASE Recv \/ Again
    BY <2>3, Zenon DEF Recv, Again, Pop, Empty, control
  <2> QED
    BY <2>1, <2>2, <2>3 DEF TickProducer
<1> QED
  BY <1>1, <1>2, Zenon DEF Named

LEMMA ProducerFlow ==
    ASSUME ChannelTypes, ProducerTypes, Named, Flow, BudgetExact, TickProducer
    PROVE  Flow'
<1> USE DEF Doing, Goto, Flow
<1>0. Closed.bank = Disabled
  BY ClosedWord
<1>1. CASE Top
  BY <1>0, <1>1 DEF Top, ProducerTypes
<1>2. CASE Hash
  BY <1>0, <1>2 DEF Hash
<1>3. CASE Tick
  BY <1>3 DEF Tick, channel
<1>4. CASE Record
  BY <1>0, <1>4 DEF Record
<1>5. CASE Pop /\ at \in {"recv", "again"}
  <2>1. next' # <<>>
    BY <1>5 DEF Pop
  <2> QED
    BY <1>5, <2>1 DEF Pop
<1>6. ASSUME NEW P \in SUBSET {"look", "work", "end"}, Empty(P), at \in {"recv", "again"} PROVE Flow'
  BY <1>6 DEF Empty, channel
<1>7. CASE Recv
  BY <1>5, <1>6, <1>7 DEF Recv
<1>8. CASE Again
  <2>1. at = "again" /\ (Pop \/ Empty({"work", "end"}) \/ Empty({"end"}))
    BY <1>8 DEF Again
  <2> QED
    BY <1>5, <1>6, <2>1
<1>9. CASE Look
  BY <1>9 DEF Look, channel
<1>10. CASE Add
  <2>1. word'.bank = word.bank
    BY <1>10, FetchAddBelow DEF Add
  <2> QED
    BY <1>10, <2>1 DEF Add
<1>11. CASE End
  BY <1>11 DEF End, channel
<1>12. CASE Safe
  BY <1>12 DEF Safe, NotSafe, channel
<1>13. CASE IsEmpty
  BY <1>13 DEF IsEmpty, NotSafe, channel
<1>14. CASE HandleReset
  BY <1>14 DEF HandleReset, channel
<1>15. CASE HandleSetBank
  BY <1>15 DEF HandleSetBank, ProducerTypes
<1>16. CASE HandleFails
  BY <1>16 DEF HandleFails, channel
<1>17. CASE Last
  BY <1>17 DEF Last, channel
<1> QED
  BY <1>1, <1>2, <1>3, <1>4, <1>7, <1>8, <1>9, <1>10, <1>11, <1>12, <1>13, <1>14, <1>15, <1>16, <1>17, Zenon
     DEF TickProducer

LEMMA ProducerSealed ==
    ASSUME ChannelTypes, ProducerTypes, Counted, Flow, Sealed, TickProducer
    PROVE  Sealed'
<1> USE DEF Doing, Goto
<1>1. UNCHANGED pc
  BY ProducerFrame
<1>2. At("reserved")' = At("reserved") /\ At("pushed")' = At("pushed")
  BY <1>1 DEF At
<1>3. CASE Safe
  <2>1. at' \notin {"handle", "done"}
    BY <1>3 DEF Safe, NotSafe
  <2>2. CASE active = 0
    <3>1. Flight = {}
      BY <2>2, FlightFinite, FS_EmptySet, Zenon DEF Counted
    <3>2. At("reserved") = {} /\ At("pushed") = {}
      BY <3>1 DEF Flight, At
    <3> QED
      BY <1>2, <2>1, <3>2 DEF Sealed
  <2>3. CASE active # 0
    <3>1. at' \notin {"empty", "handle", "done"}
      BY <1>3, <2>3 DEF Safe, NotSafe
    <3> QED
      BY <3>1 DEF Sealed
  <2> QED
    BY <2>2, <2>3
<1>4. CASE IsEmpty
  <2>1. CASE chan = <<>>
    <3>1. at = "empty" /\ UNCHANGED chan
      BY <1>4 DEF IsEmpty, channel
    <3> QED
      BY <1>2, <2>1, <3>1 DEF Sealed
  <2>2. CASE chan # <<>>
    <3>1. at' \notin {"empty", "handle", "done"}
      BY <1>4, <2>2 DEF IsEmpty, NotSafe
    <3> QED
      BY <3>1 DEF Sealed
  <2> QED
    BY <2>1, <2>2
<1>5. ASSUME at' \notin {"empty", "handle", "done"} PROVE Sealed'
  BY <1>5 DEF Sealed
<1>6. CASE Top \/ Hash \/ Tick \/ Look \/ End \/ Last
  <2>1. at' \notin {"empty", "handle", "done"}
    BY <1>6 DEF Top, Hash, Tick, Look, End, Last
  <2> QED
    BY <1>5, <2>1
<1>7. CASE Record \/ Add \/ HandleReset \/ HandleSetBank \/ HandleFails
  <2>1. at' \notin {"empty", "handle", "done"}
    BY <1>7 DEF Record, Add, HandleReset, HandleSetBank, HandleFails
  <2> QED
    BY <1>5, <2>1
<1>8. CASE Recv \/ Again
  <2>1. at' \notin {"empty", "handle", "done"}
    BY <1>8 DEF Recv, Again, Pop, Empty
  <2> QED
    BY <1>5, <2>1
<1> QED
  BY <1>3, <1>4, <1>6, <1>7, <1>8 DEF TickProducer

LEMMA ProducerBudget ==
    ASSUME ChannelTypes, ProducerTypes, Named, Flow, Sealed, BudgetExact, TickProducer
    PROVE  BudgetExact'
<1> DEFINE r == Cardinality(At("reserved"))
           a == IF at = "add" THEN 1 ELSE 0
<1>1. UNCHANGED pc
  BY ProducerFrame
<1>2. r' = r /\ r \in Nat /\ Len(chan) \in Nat
  BY <1>1, UsedType DEF At
<1>3. /\ word.allowed \in Nat /\ Capacity \in Nat /\ word.allowed + (r + Len(chan) + a) <= Capacity
      /\ word.bank # Disabled => word.allowed + (r + Len(chan) + a) = Capacity
  BY <1>2, PohAssumption DEF BudgetExact, ChannelTypes, Word
<1>4. Closed.bank = Disabled /\ Closed.allowed = 0
  BY ClosedWord
<1>5. BudgetExact' <=> IF word'.bank = Disabled THEN word'.allowed + (r' + Len(chan') + a') <= Capacity
                                               ELSE word'.allowed + (r' + Len(chan') + a') = Capacity
  BY DEF BudgetExact
<1> HIDE DEF r
<1>6. CASE Add
  <2>1. at = "add" /\ at' # "add" /\ UNCHANGED chan /\ word' = FetchAdd(word)
    BY <1>6 DEF Add, Doing, Goto
  <2>2. word'.bank = word.bank /\ word'.allowed = word.allowed + 1
    BY <2>1, FetchAddBelow
  <2> QED
    BY <1>2, <1>3, <1>5, <2>1, <2>2
<1>7. CASE Pop /\ at \in {"recv", "again"} /\ at' = "add" /\ UNCHANGED word
  <2>1. Len(chan') = Len(chan) - 1
    BY <1>7 DEF Pop, ChannelTypes
  <2> QED
    BY <1>2, <1>3, <1>5, <1>7, <2>1
<1>8. CASE HandleSetBank /\ word' = [bank |-> msg[1].id, allowed |-> Capacity] /\ UNCHANGED chan
  <2>1. at = "handle" /\ at' # "add"
    BY <1>8 DEF HandleSetBank, Doing, Goto
  <2>2. At("reserved") = {} /\ chan = <<>>
    BY <2>1 DEF Sealed
  <2>3. r = 0 /\ Len(chan) = 0
    BY <2>2, FS_EmptySet DEF r
  <2>4. word'.allowed = Capacity
    BY <1>8
  <2> QED
    BY <1>2, <1>3, <1>5, <1>8, <2>1, <2>3, <2>4
<1>9. CASE ~Add /\ (word' = word \/ word' = Closed) /\ UNCHANGED chan /\ at' # "add"
  <2>1. at # "add"
    <3>1. SUFFICES ASSUME at = "add" PROVE FALSE
      OBVIOUS
    <3> QED
      BY <1>9, <3>1, Zenon DEF TickProducer, Top, Hash, Tick, Record, Recv, Look, Again, End, Safe, IsEmpty,
                        HandleReset, HandleSetBank, HandleFails, Last
  <2> QED
    BY <1>2, <1>3, <1>4, <1>5, <1>9, <2>1, SMTT(20), Zenon
<1> QED
  BY <1>6, <1>7, <1>8, <1>9, ProducerWord, ProducerChan

LEMMA ProducerKeeps ==
    ASSUME IInv, TickProducer
    PROVE  IInv'
<1>1. UNCHANGED <<pc, seen, active>>
  BY ProducerFrame
<1>2. Loaded' /\ Counted'
  BY <1>1 DEF IInv, Loaded, Counted, Flight
<1> QED
  BY <1>2, ProducerTypesStep, ProducerChannelTypes, ProducerPohTypes, ProducerNamed, ProducerFlow,
     ProducerSealed, ProducerBudget DEF IInv

-----------------------------------------------------------------------------
(* The replay stage, the initial state, and the invariant                    *)

LEMMA ReplayFrame ==
    ASSUME ReplayStage
    PROVE  UNCHANGED <<pc, seen, word, active, chan, index, holder, at, from, next, msg, stopping,
                       slot, tick, left, bank, count, tracked>>
<1>1. CASE \E s \in 0..MaxSlot : SendReset(s)
  BY <1>1 DEF SendReset, Send, sender, channel, producer, poh
<1>2. CASE SendSetBank
  BY <1>2 DEF SendSetBank, Send, sender, channel, producer, poh
<1>3. CASE Exit
  BY <1>3 DEF Exit, sender, channel, producer, poh
<1> QED
  BY <1>1, <1>2, <1>3 DEF ReplayStage

LEMMA ReplayMail ==
    ASSUME ProducerTypes, PohTypes, Named, ReplayStage
    PROVE  /\ mail' \in Seq(Message) /\ Len(msg) + Len(mail') <= 1
           /\ mail' # <<>> /\ mail'[1].type = "SetBank" => mail'[1].id >= 1
           /\ exit' \in BOOLEAN /\ newest' \in 0..MaxBank
<1>1. ASSUME NEW s \in 0..MaxSlot, SendReset(s)
      PROVE  /\ mail' \in Seq(Message) /\ Len(msg) + Len(mail') <= 1
             /\ mail' # <<>> /\ mail'[1].type = "SetBank" => mail'[1].id >= 1
             /\ exit' \in BOOLEAN /\ newest' \in 0..MaxBank
  <2>1. [type |-> "Reset", id |-> 0, slot |-> s] \in Message
    BY PohAssumption DEF Message
  <2>2. mail' = <<[type |-> "Reset", id |-> 0, slot |-> s]>> /\ msg = <<>> /\ exit' = exit /\ newest' = newest
    BY <1>1 DEF SendReset, Send
  <2> QED
    BY <2>1, <2>2 DEF ProducerTypes, PohTypes
<1>2. ASSUME SendSetBank
      PROVE  /\ mail' \in Seq(Message) /\ Len(msg) + Len(mail') <= 1
             /\ mail' # <<>> /\ mail'[1].type = "SetBank" => mail'[1].id >= 1
             /\ exit' \in BOOLEAN /\ newest' \in 0..MaxBank
  <2>1. newest + 1 \in 1..MaxBank /\ slot \in 0..MaxSlot
    BY <1>2, PohAssumption DEF SendSetBank, PohTypes
  <2>2. [type |-> "SetBank", id |-> newest + 1, slot |-> slot] \in Message
    BY <2>1, PohAssumption DEF Message
  <2>3. mail' = <<[type |-> "SetBank", id |-> newest + 1, slot |-> slot]>> /\ msg = <<>> /\ exit' = exit /\ newest' = newest + 1
    BY <1>2 DEF SendSetBank, Send
  <2> QED
    BY <2>1, <2>2, <2>3, PohAssumption DEF ProducerTypes, PohTypes
<1>3. CASE Exit
  BY <1>3 DEF Exit, ProducerTypes, PohTypes, Named
<1> QED
  BY <1>1, <1>2, <1>3 DEF ReplayStage

(* Nothing but the mail, the exit signal and the newest bank changes.        *)
LEMMA FrameKeeps ==
    ASSUME IInv, UNCHANGED <<pc, seen, word, active, chan, index, holder, at, from, next, msg, stopping,
                             slot, tick, left, bank, count, tracked>>,
           mail' \in Seq(Message), Len(msg) + Len(mail') <= 1,
           mail' # <<>> /\ mail'[1].type = "SetBank" => mail'[1].id >= 1,
           exit' \in BOOLEAN, newest' \in 0..MaxBank
    PROVE  IInv'
<1>1. ChannelTypes' /\ ProducerTypes' /\ PohTypes'
  BY DEF IInv, ChannelTypes, ProducerTypes, PohTypes
<1>2. Loaded' /\ Counted' /\ Named'
  BY DEF IInv, Loaded, Counted, Flight, Named
<1>3. Flow' /\ Sealed' /\ BudgetExact'
  BY DEF IInv, Flow, Sealed, BudgetExact, At
<1> QED
  BY <1>1, <1>2, <1>3 DEF IInv

LEMMA InitKeeps == Init => IInv
<1> SUFFICES ASSUME Init PROVE IInv
  OBVIOUS
<1>0. Closed \in Word /\ Closed.bank = Disabled /\ Closed.allowed = 0
  BY ClosedWord, PohAssumption DEF Closed, Word, Disabled
<1>1. ChannelTypes
  BY <1>0 DEF Init, ChannelTypes
<1>2. ProducerTypes
  <2>1. /\ at \in Places /\ from \in {"hash", "record", "message", "exit"}
        /\ next \in Seq(RecordType) /\ Len(next) <= 1
        /\ msg \in Seq(Message) /\ mail \in Seq(Message) /\ Len(msg) + Len(mail) <= 1
    BY DEF Init, Places
  <2>2. stopping \in BOOLEAN /\ exit \in BOOLEAN
    BY Zenon DEF Init
  <2> QED
    BY <2>1, <2>2 DEF ProducerTypes
<1>3. PohTypes
  BY NoBankType, PohAssumption DEF Init, PohTypes
<1>4. Flight = {} /\ At("reserved") = {} /\ At("pushed") = {}
  BY DEF Init, Flight, At
<1>5. Loaded /\ Named /\ Flow /\ Sealed
  BY <1>0 DEF Init, Loaded, Named, Flow, Sealed
<1>6. Counted
  BY <1>4, FS_EmptySet DEF Init, Counted
<1>7. BudgetExact
  <2>1. Cardinality(At("reserved")) = 0
    BY <1>4, FS_EmptySet
  <2> QED
    BY <1>0, <2>1, PohAssumption DEF Init, BudgetExact
<1> QED
  BY <1>1, <1>2, <1>3, <1>5, <1>6, <1>7 DEF IInv

LEMMA StepKeeps ==
    ASSUME IInv, [Next]_vars
    PROVE  IInv'
<1>1. CASE \E s \in Sender : TrySend(s)
  BY <1>1, SenderKeeps
<1>2. CASE TickProducer
  BY <1>2, ProducerKeeps
<1>3. CASE ReplayStage
  BY <1>3, ReplayFrame, ReplayMail, FrameKeeps, SMTT(20), Zenon DEF IInv
<1>4. CASE UNCHANGED vars
  BY <1>4, FrameKeeps, Zenon DEF vars, sender, channel, producer, poh, control, IInv, ProducerTypes, PohTypes, Named
<1> QED
  BY <1>1, <1>2, <1>3, <1>4 DEF Next

LEMMA Invariance == Spec => []IInv
  BY InitKeeps, StepKeeps, PTL DEF Spec

(* Every variable keeps its type.                                            *)
THEOREM PohTyped == Spec => []TypeOK
<1>1. IInv => TypeOK
  BY TypesSplit DEF IInv
<1> QED
  BY <1>1, Invariance, PTL

(* However loads, compare_exchange() and fetch_add() of the senders and the   *)
(* tick producer interleave, the budget of insertions is exact: no sender    *)
(* finds the channel full, and no count carries into the bank id.            *)
THEOREM BudgetIsExact == Spec => []BudgetExact
<1>1. IInv => BudgetExact
  BY DEF IInv
<1> QED
  BY <1>1, Invariance, PTL

(* is_safe_to_restart() reads active_senders and then the channel; when both  *)
(* say yes, no record sent before is left and none will come.                *)
THEOREM NothingIsLost == Spec => []NothingLost
<1>1. IInv => NothingLost
  BY DEF IInv, NothingLost, Sealed, Flow
<1> QED
  BY <1>1, Invariance, PTL

-----------------------------------------------------------------------------
(* The indexes: their lock is held from the load to the end of a send, so     *)
(* the records in the channel are numbered without a gap.                    *)

Locked == tracked => \A s \in Sender : pc[s] # "idle" => holder = {s}

(* No record is under way, and none can be sent.                             *)
Quiet ==
    /\ word.bank = Disabled /\ chan = <<>> /\ next = <<>>
    /\ At("reserved") = {} /\ At("pushed") = {}

Numbered ==
    tracked /\ ~Quiet =>
        index + (IF At("pushed") = {} THEN 0 ELSE 1) = count + Len(next) + Len(chan)

IndexInv == Locked /\ Numbered /\ IndexesExact

LEMMA SenderLocked ==
    ASSUME ChannelTypes, Locked, NEW s \in Sender, TrySend(s)
    PROVE  Locked'
<1> SUFFICES ASSUME tracked', NEW t \in Sender, pc'[t] # "idle" PROVE holder' = {t}
  BY DEF Locked
<1>1. tracked
  BY SenderFrame, Zenon
<1>2. pc[t] # "idle" => holder = {t}
  BY <1>1 DEF Locked
<1>3. pc[s] # "idle" => holder = {s}
  BY <1>1 DEF Locked
<1>4. CASE Load(s)
  <2>1. holder = {} /\ holder' = {s} /\ pc' = [pc EXCEPT ![s] = "loaded"]
    BY <1>1, <1>4 DEF Load
  <2> QED
    BY <1>2, <2>1 DEF ChannelTypes
<1>5. CASE Enter(s) \/ Reserve(s) \/ Push(s)
  <2>1. pc[s] # "idle" /\ holder' = holder /\ \E p : pc' = [pc EXCEPT ![s] = p]
    BY <1>5, Zenon DEF Enter, Reserve, Push
  <2> QED
    BY <1>2, <1>3, <2>1 DEF ChannelTypes
<1>6. CASE Retry(s) \/ Finish(s)
  <2>1. pc[s] # "idle" /\ pc' = [pc EXCEPT ![s] = "idle"]
    BY <1>6, Zenon DEF Retry, Finish
  <2>2. t # s /\ pc[t] # "idle"
    BY <2>1 DEF ChannelTypes
  <2> QED
    BY <1>2, <1>3, <2>1, <2>2
<1> QED
  BY <1>4, <1>5, <1>6 DEF TrySend

(* Whoever is in try_send() is alone there.                                  *)
LEMMA Alone ==
    ASSUME Locked, tracked, NEW s \in Sender, pc[s] # "idle", NEW p, p # "idle"
    PROVE  At(p) \subseteq {s}
<1> SUFFICES ASSUME NEW t \in Sender, pc[t] = p PROVE t = s
  BY DEF At
<1>1. holder = {s} /\ holder = {t}
  BY DEF Locked
<1> QED
  BY <1>1

LEMMA SenderNumbered ==
    ASSUME ChannelTypes, ProducerTypes, PohTypes, Loaded, IndexInv, tracked, NEW s \in Sender, TrySend(s)
    PROVE  Numbered' /\ IndexesExact'
<1>1. UNCHANGED <<next, count, tracked>>
  BY SenderFrame, Zenon DEF producer, poh
<1>2. index \in Nat /\ count \in Nat /\ Len(next) \in Nat /\ Len(chan) \in Nat
  BY DEF ChannelTypes, ProducerTypes, PohTypes
<1>3. ASSUME UNCHANGED <<word, chan, index>>, At("reserved")' = At("reserved"), At("pushed")' = At("pushed")
      PROVE  Numbered' /\ IndexesExact'
  BY <1>1, <1>3, Zenon DEF Numbered, Quiet, IndexesExact, IndexInv
<1>4. CASE Load(s)
  <2>1. pc[s] = "idle" /\ pc' = [pc EXCEPT ![s] = "loaded"] /\ UNCHANGED <<word, chan, index>>
    BY <1>4 DEF Load
  <2>2. At("reserved")' = At("reserved") /\ At("pushed")' = At("pushed")
    BY <2>1, Moves, Zenon
  <2> QED
    BY <1>3, <2>1, <2>2
<1>5. CASE Enter(s)
  <2>1. pc[s] = "loaded" /\ pc' = [pc EXCEPT ![s] = "entered"] /\ UNCHANGED <<word, chan, index>>
    BY <1>5 DEF Enter
  <2>2. At("reserved")' = At("reserved") /\ At("pushed")' = At("pushed")
    BY <2>1, Moves, Zenon
  <2> QED
    BY <1>3, <2>1, <2>2
<1>6. CASE Reserve(s) /\ word # seen[s]
  <2>1. pc[s] = "entered" /\ pc' = [pc EXCEPT ![s] = "failed"] /\ UNCHANGED <<word, chan, index>>
    BY <1>6 DEF Reserve
  <2>2. At("reserved")' = At("reserved") /\ At("pushed")' = At("pushed")
    BY <2>1, Moves, Zenon
  <2> QED
    BY <1>3, <2>1, <2>2
<1>7. CASE Retry(s)
  <2>1. pc[s] = "failed" /\ pc' = [pc EXCEPT ![s] = "idle"] /\ UNCHANGED <<word, chan, index>>
    BY <1>7 DEF Retry
  <2>2. At("reserved")' = At("reserved") /\ At("pushed")' = At("pushed")
    BY <2>1, Moves, Zenon
  <2> QED
    BY <1>3, <2>1, <2>2
<1>8. CASE Reserve(s) /\ word = seen[s]
  <2>1. pc[s] = "entered" /\ pc' = [pc EXCEPT ![s] = "reserved"] /\ UNCHANGED <<chan, index>>
    BY <1>8 DEF Reserve
  <2>2. At("pushed")' = At("pushed")
    BY <2>1, Moves, Zenon
  <2>3. ~Quiet
    BY <1>8, <2>1, ReserveOpen DEF Quiet
  <2> QED
    BY <1>1, <2>1, <2>2, <2>3 DEF IndexInv, Numbered, IndexesExact
<1>9. CASE Push(s)
  <2>1. /\ pc[s] = "reserved" /\ pc' = [pc EXCEPT ![s] = "pushed"] /\ UNCHANGED index
        /\ chan' = Append(chan, [bank |-> seen[s].bank, index |-> index])
    BY <1>9 DEF Push
  <2>2. At("pushed") = {}
    <3>1. At("pushed") \subseteq {s}
      BY <2>1, Alone DEF IndexInv
    <3> QED
      BY <2>1, <3>1 DEF At
  <2>3. At("pushed")' # {}
    BY <2>1 DEF At, ChannelTypes
  <2>4. ~Quiet
    BY <2>1 DEF Quiet, At
  <2>5. index = count + Len(next) + Len(chan)
    BY <1>2, <2>2, <2>4 DEF IndexInv, Numbered
  <2>6. Len(chan') = Len(chan) + 1
    BY <2>1 DEF ChannelTypes, RecordType
  <2>7. Numbered'
    BY <1>1, <1>2, <2>1, <2>3, <2>5, <2>6 DEF Numbered
  <2>8. IndexesExact'
    <3>1. ASSUME NEW i \in 1..Len(chan') PROVE chan'[i].index = count + Len(next) + i - 1
      <4>1. CASE i \in 1..Len(chan)
        <5>1. chan'[i] = chan[i]
          BY <2>1, <4>1 DEF ChannelTypes
        <5>2. chan[i].index = count + Len(next) + i - 1
          BY <4>1 DEF IndexInv, IndexesExact
        <5> QED
          BY <5>1, <5>2
      <4>2. CASE i = Len(chan) + 1
        <5>1. chan'[i] = [bank |-> seen[s].bank, index |-> index]
          BY <2>1, <4>2 DEF ChannelTypes
        <5> QED
          BY <1>2, <2>5, <4>2, <5>1
      <4> QED
        BY <1>2, <2>6, <4>1, <4>2
    <3> QED
      BY <1>1, <3>1 DEF IndexInv, IndexesExact
  <2> QED
    BY <2>7, <2>8
<1>10. CASE Finish(s)
  <2>1. /\ pc[s] = "pushed" /\ pc' = [pc EXCEPT ![s] = "idle"] /\ UNCHANGED <<word, chan>>
        /\ index' = index + 1
    BY <1>10 DEF Finish
  <2>2. At("pushed") # {}
    BY <2>1 DEF At
  <2>3. At("pushed")' = {}
    <3>1. At("pushed") \subseteq {s}
      BY <2>1, Alone DEF IndexInv
    <3> QED
      BY <2>1, <3>1 DEF At, ChannelTypes
  <2>4. index + 1 = count + Len(next) + Len(chan)
    BY <1>2, <2>2 DEF IndexInv, Numbered, Quiet
  <2> QED
    BY <1>1, <1>2, <2>1, <2>3, <2>4 DEF IndexInv, Numbered, IndexesExact
<1> QED
  BY <1>4, <1>5, <1>6, <1>7, <1>8, <1>9, <1>10 DEF TrySend

(* What the tick producer does to the records under way.                     *)
LEMMA ProducerRecords ==
    ASSUME TickProducer
    PROVE  \/ UNCHANGED <<count, next, chan>>
           \/ Record /\ next # <<>> /\ next' = <<>> /\ count' = (IF tracked THEN count + 1 ELSE count) /\ UNCHANGED chan
           \/ Pop /\ at \in {"recv", "again"} /\ UNCHANGED count
           \/ HandleSetBank /\ count' = 0 /\ UNCHANGED <<next, chan>>
<1>1. CASE Top \/ Hash \/ Tick \/ Look \/ End \/ Safe \/ IsEmpty \/ Last
  BY <1>1, Zenon DEF Top, Hash, Tick, Look, End, Safe, IsEmpty, Last, channel, poh
<1>2. CASE Record
  BY <1>2, Zenon DEF Record, poh
<1>3. CASE Add \/ HandleReset \/ HandleSetBank \/ HandleFails
  BY <1>3, Zenon DEF Add, HandleReset, HandleSetBank, HandleFails, channel, poh
<1>4. Pop => UNCHANGED count
  BY Zenon DEF Pop, poh
<1>5. ASSUME NEW P, Empty(P) PROVE UNCHANGED <<count, next, chan>>
  BY <1>5, Zenon DEF Empty, channel, poh
<1>6. CASE Recv
  BY <1>4, <1>5, <1>6 DEF Recv
<1>7. CASE Again
  <2>1. at = "again" /\ (Pop \/ \E P : Empty(P))
    BY <1>7, Zenon DEF Again
  <2> QED
    BY <1>4, <1>5, <2>1
<1> QED
  BY <1>1, <1>2, <1>3, <1>6, <1>7 DEF TickProducer

LEMMA HandlesQuiet ==
    ASSUME IInv, at = "handle"
    PROVE  Quiet
BY DEF IInv, Flow, Sealed, Quiet

LEMMA ProducerNumbered ==
    ASSUME IInv, IndexInv, tracked, TickProducer
    PROVE  Numbered' /\ IndexesExact'
<1>1. UNCHANGED <<pc, tracked>> /\ At("reserved")' = At("reserved") /\ At("pushed")' = At("pushed")
  BY ProducerFrame DEF At
<1>2. index \in Nat /\ count \in Nat /\ Len(next) \in Nat /\ Len(chan) \in Nat
  BY SMTT(20), Zenon DEF IInv, ChannelTypes, ProducerTypes, PohTypes
<1>3. CASE HandleSetBank
  <2>1. Quiet
    BY <1>3, HandlesQuiet DEF HandleSetBank
  <2>2. next' = <<>> /\ chan' = <<>> /\ count' = 0 /\ (index' = 0 \/ UNCHANGED word)
    BY <1>3, <2>1, Zenon DEF HandleSetBank, Quiet
  <2>3. IndexesExact'
    BY <2>2 DEF IndexesExact
  <2>4. CASE index' = 0
    BY <1>1, <2>1, <2>2, <2>3, <2>4 DEF Numbered, Quiet
  <2>5. CASE UNCHANGED word
    BY <1>1, <2>1, <2>2, <2>3, <2>5 DEF Numbered, Quiet
  <2> QED
    BY <2>2, <2>3, <2>4, <2>5
<1>4. CASE ~HandleSetBank /\ UNCHANGED <<count, next, chan>>
  <2>1. index' = index
    BY <1>4, ProducerIndex
  <2>2. Quiet => Quiet'
    <3>1. SUFFICES ASSUME Quiet PROVE word'.bank = Disabled
      BY <1>1, <1>4 DEF Quiet
    <3>2. ~Add
      BY <3>1, Zenon DEF Add, Quiet, IInv, Flow
    <3>3. word' = word \/ word' = Closed
      BY <1>4, <3>2, ProducerWord
    <3> QED
      BY <3>1, <3>3, ClosedWord DEF Quiet
  <2>3. Numbered'
    BY <1>1, <1>4, <2>1, <2>2 DEF IndexInv, Numbered
  <2>4. IndexesExact'
    BY <1>1, <1>4 DEF IndexInv, IndexesExact
  <2> QED
    BY <2>3, <2>4
<1>5. CASE Record /\ next # <<>> /\ next' = <<>> /\ count' = count + 1 /\ UNCHANGED chan
  <2>1. UNCHANGED index
    BY <1>5 DEF Record
  <2>2. Len(next) = 1 /\ Len(next') = 0
    <3>1. next \in Seq(RecordType) /\ next # <<>> /\ Len(next) <= 1 /\ next' = <<>>
      BY <1>5 DEF IInv, ProducerTypes
    <3>2. Len(next) \in Nat \ {0} /\ Len(next') = 0
      BY <3>1, EmptySequence
    <3>3. Len(next) <= 1
      BY <3>1, Zenon
    <3>4. \A n \in Nat \ {0} : n <= 1 => n = 1
      OBVIOUS
    <3> QED
      BY <3>2, <3>3, <3>4, Zenon
  <2>3. index + (IF At("pushed") = {} THEN 0 ELSE 1) = count + 1 + Len(chan)
    BY <1>2, <1>5, <2>2 DEF IndexInv, Numbered, Quiet
  <2>4. Numbered'
    BY <1>1, <1>2, <1>5, <2>1, <2>2, <2>3 DEF Numbered
  <2>5. ASSUME NEW i \in 1..Len(chan') PROVE chan'[i].index = count' + Len(next') + i - 1
    <3>1. chan'[i] = chan[i] /\ i \in 1..Len(chan)
      BY <1>5
    <3>2. chan[i].index = count + Len(next) + i - 1
      BY <3>1 DEF IndexInv, IndexesExact
    <3> QED
      BY <1>2, <1>5, <2>2, <3>1, <3>2
  <2>6. IndexesExact'
    BY <1>5, <2>5 DEF IndexesExact
  <2> QED
    BY <2>4, <2>6
<1>6. CASE Pop /\ at \in {"recv", "again"} /\ UNCHANGED count
  <2>1. /\ chan # <<>> /\ next = <<>> /\ next' = <<Head(chan)>> /\ chan' = Tail(chan) /\ UNCHANGED index
        /\ chan \in Seq(RecordType)
    BY <1>6 DEF Pop, IInv, Flow, ChannelTypes
  <2>2. Len(next) = 0 /\ Len(next') = 1 /\ Len(chan') = Len(chan) - 1
    BY <2>1
  <2>3. Numbered'
    BY <1>1, <1>2, <1>6, <2>1, <2>2 DEF IndexInv, Numbered, Quiet
  <2>4. ASSUME NEW i \in 1..Len(chan) PROVE chan[i].index = count + i - 1
    <3>1. chan[i].index = count + Len(next) + i - 1
      BY DEF IndexInv, IndexesExact
    <3> QED
      BY <1>2, <2>2, <3>1
  <2>5. next'[1].index = count'
    <3>1. next'[1] = chan[1] /\ 1 \in 1..Len(chan)
      BY <2>1
    <3> QED
      BY <1>2, <1>6, <2>4, <3>1
  <2>6. ASSUME NEW i \in 1..Len(chan') PROVE chan'[i].index = count' + Len(next') + i - 1
    <3>1. chan'[i] = chan[i + 1] /\ i + 1 \in 1..Len(chan)
      BY <2>1, <2>2
    <3>2. chan[i + 1].index = count + (i + 1) - 1
      BY <2>4, <3>1
    <3> QED
      BY <1>2, <1>6, <2>2, <3>1, <3>2
  <2>7. IndexesExact'
    BY <2>5, <2>6 DEF IndexesExact
  <2> QED
    BY <2>3, <2>7
<1> QED
  BY <1>3, <1>4, <1>5, <1>6, ProducerRecords

LEMMA IndexStep ==
    ASSUME IInv, IndexInv, [Next]_vars
    PROVE  IndexInv'
<1>1. CASE \E s \in Sender : TrySend(s)
  <2>1. PICK s \in Sender : TrySend(s)
    BY <1>1
  <2>2. UNCHANGED tracked
    BY <2>1, SenderFrame
  <2>3. Locked'
    BY <2>1, SenderLocked DEF IInv, IndexInv
  <2>4. tracked => Numbered' /\ IndexesExact'
    BY <2>1, SenderNumbered DEF IInv
  <2>5. ~tracked => Numbered' /\ IndexesExact'
    BY <2>2 DEF Numbered, IndexesExact
  <2> QED
    BY <2>3, <2>4, <2>5 DEF IndexInv
<1>2. CASE TickProducer
  <2>1. UNCHANGED <<pc, holder, tracked>>
    BY <1>2, ProducerFrame
  <2>2. Locked'
    BY <2>1 DEF IndexInv, Locked
  <2>3. tracked => Numbered' /\ IndexesExact'
    BY <1>2, ProducerNumbered
  <2>4. ~tracked => Numbered' /\ IndexesExact'
    BY <2>1, SMTT(20), Zenon DEF Numbered, IndexesExact
  <2> QED
    BY <2>2, <2>3, <2>4 DEF IndexInv
<1>3. CASE ReplayStage
  BY <1>3, ReplayFrame, SMTT(20), Zenon DEF IndexInv, Locked, Numbered, Quiet, At, IndexesExact
<1>4. CASE UNCHANGED vars
  BY <1>4, Zenon DEF vars, sender, channel, producer, poh, control, IndexInv, Locked, Numbered, Quiet, At, IndexesExact
<1> QED
  BY <1>1, <1>2, <1>3, <1>4 DEF Next

(* The sender is told its index before the record is recorded, outside of     *)
(* the tick producer's sight; the lock and the restart at the right moment    *)
(* make it the position in the bank.                                         *)
THEOREM IndexesAreExact == Spec => []IndexesExact
<1>1. Init => IndexInv
  BY DEF Init, IndexInv, Locked, Numbered, Quiet, At, IndexesExact, Closed
<1>2. IndexInv => IndexesExact
  BY DEF IndexInv
<1> QED
  BY <1>1, <1>2, IndexStep, Invariance, PTL DEF Spec

-----------------------------------------------------------------------------
(* Room for the records: sent records and hashes until the last tick.        *)

Out == Cardinality(At("reserved")) + Len(chan) + Len(next)

(* Places from which the next thing may be a batch of hashes.                *)
ToHash == {"end", "safe", "empty", "last", "top", "work"}

(* The records under way are for the working bank.                           *)
Banked ==
    /\ word.bank # Disabled => bank.id = word.bank
    /\ \A s \in Sender : pc[s] = "reserved" => seen[s].bank = bank.id
    /\ \A i \in 1..Len(chan) : chan[i].bank = bank.id
    /\ next # <<>> => next[1].bank = bank.id

(* In the last tick of a slot no early tick helps a record: the hashes left   *)
(* have to do.                                                               *)
Room ==
    tick + 1 = Ticks =>
        /\ word.bank # Disabled => left > Capacity + Ticks
        /\ word.bank = Disabled /\ Out # 0 =>
              /\ left > Out
              /\ Batch <= Ticks /\ next = <<>> /\ at \in ToHash => left > Out + Batch

(* After a look at active_senders behind a closed word nothing is reserved.  *)
Steady ==
    /\ at = "again" /\ word.bank = Disabled => At("reserved") = {}
    /\ at = "tick" => left = 1 /\ next = <<>>

FitInv == Banked /\ Room /\ Steady

(* A tick is long enough for a full channel and the ticks of a slot.         *)
Roomy == Hashes > Capacity + Ticks

(* A batch of the last tick that may take the hashes of records: of those     *)
(* under way, or of as many as an open channel still lets in.                *)
BlindBatch ==
    /\ Hash /\ tick + 1 = Ticks
    /\ \/ word.bank # Disabled /\ left <= Capacity + Batch
       \/ Out # 0 /\ left <= Out + Batch

LEMMA LastHashes ==
    ASSUME NEW t \in Nat, NEW l \in Nat, t + 1 = Ticks
    PROVE  RemainingHashes(t, l) = l
<1>1. Ticks - (t + 1) = 0
  BY PohAssumption
<1>2. 0 * Hashes = 0
  BY PohAssumption
<1> QED
  BY <1>1, <1>2 DEF RemainingHashes

LEMMA OutType ==
    ASSUME IInv
    PROVE  /\ Cardinality(At("reserved")) \in Nat /\ Len(chan) \in Nat /\ Len(next) \in Nat
           /\ Cardinality(At("reserved")) + Len(chan) <= Capacity
           /\ Out \in Nat
           /\ next = <<>> => Out <= Capacity
<1>1. Cardinality(At("reserved")) \in Nat /\ Len(chan) \in Nat /\ Len(next) \in Nat
  BY UsedType DEF IInv, ProducerTypes
<1>2. word.allowed \in Nat /\ Capacity \in Nat
  BY PohAssumption DEF IInv, ChannelTypes, Word
<1>3. Cardinality(At("reserved")) + Len(chan) <= Capacity
  BY <1>1, <1>2 DEF IInv, BudgetExact
<1>4. next = <<>> => Len(next) = 0
  BY EmptySequence, SMTT(20), Zenon
<1> QED
  BY <1>1, <1>2, <1>3, <1>4 DEF Out

LEMMA SenderOut ==
    ASSUME IInv, NEW s \in Sender, TrySend(s)
    PROVE  /\ word'.bank = word.bank
           /\ word.bank # Disabled \/ (Out' = Out /\ At("reserved")' \subseteq At("reserved"))
<1>1. UNCHANGED next
  BY SenderFrame DEF producer
<1>2. Cardinality(At("reserved")) \in Nat /\ Len(chan) \in Nat /\ Len(next) \in Nat
  BY OutType
<1>3. ChannelTypes /\ Loaded
  BY DEF IInv
<1>4. ASSUME UNCHANGED <<word, chan>>, At("reserved")' = At("reserved")
      PROVE  word'.bank = word.bank /\ Out' = Out /\ At("reserved")' \subseteq At("reserved")
  BY <1>1, <1>4 DEF Out
<1>5. CASE Load(s)
  <2>1. pc[s] = "idle" /\ pc' = [pc EXCEPT ![s] = "loaded"] /\ UNCHANGED <<word, chan>>
    BY <1>5 DEF Load
  <2>2. At("reserved")' = At("reserved")
    BY <1>3, <2>1, Moves, Zenon
  <2> QED
    BY <1>4, <2>1, <2>2
<1>6. CASE Enter(s)
  <2>1. pc[s] = "loaded" /\ pc' = [pc EXCEPT ![s] = "entered"] /\ UNCHANGED <<word, chan>>
    BY <1>6 DEF Enter
  <2>2. At("reserved")' = At("reserved")
    BY <1>3, <2>1, Moves, Zenon
  <2> QED
    BY <1>4, <2>1, <2>2
<1>7. CASE Reserve(s) /\ word = seen[s]
  <2>1. word.bank # Disabled
    BY <1>3, <1>7, ReserveOpen DEF Reserve
  <2>2. word'.bank = word.bank
    BY <1>3, <1>7 DEF Reserve, ChannelTypes, Word
  <2> QED
    BY <2>1, <2>2
<1>8. CASE Reserve(s) /\ word # seen[s]
  <2>1. pc[s] = "entered" /\ pc' = [pc EXCEPT ![s] = "failed"] /\ UNCHANGED <<word, chan>>
    BY <1>8 DEF Reserve
  <2>2. At("reserved")' = At("reserved")
    BY <1>3, <2>1, Moves, Zenon
  <2> QED
    BY <1>4, <2>1, <2>2
<1>9. CASE Retry(s)
  <2>1. pc[s] = "failed" /\ pc' = [pc EXCEPT ![s] = "idle"] /\ UNCHANGED <<word, chan>>
    BY <1>9 DEF Retry
  <2>2. At("reserved")' = At("reserved")
    BY <1>3, <2>1, Moves, Zenon
  <2> QED
    BY <1>4, <2>1, <2>2
<1>10. CASE Push(s)
  <2>0. pc[s] = "reserved" /\ pc' = [pc EXCEPT ![s] = "pushed"] /\ "reserved" # "pushed"
    BY <1>10 DEF Push
  <2>1. /\ Cardinality(At("reserved")') = Cardinality(At("reserved")) - 1
        /\ At("reserved")' = At("reserved") \ {s}
    BY <1>3, <2>0, Moves, Zenon
  <2>2. Len(chan') = Len(chan) + 1 /\ UNCHANGED word
    BY <1>3, <1>10 DEF Push, ChannelTypes
  <2> QED
    BY <1>1, <1>2, <2>1, <2>2 DEF Out
<1>11. CASE Finish(s)
  <2>1. pc[s] = "pushed" /\ pc' = [pc EXCEPT ![s] = "idle"] /\ UNCHANGED <<word, chan>>
    BY <1>11 DEF Finish
  <2>2. At("reserved")' = At("reserved")
    BY <1>3, <2>1, Moves, Zenon
  <2> QED
    BY <1>4, <2>1, <2>2
<1> QED
  BY <1>5, <1>6, <1>7, <1>8, <1>9, <1>10, <1>11, Zenon DEF TrySend

LEMMA SenderBanked ==
    ASSUME IInv, Banked, NEW s \in Sender, TrySend(s)
    PROVE  Banked'
<1>1. UNCHANGED <<next, bank>> /\ word'.bank = word.bank
  BY SenderFrame, SenderOut DEF producer, poh
<1>2. pc \in [Sender -> {"idle", "loaded", "entered", "reserved", "failed", "pushed"}]
      /\ seen \in [Sender -> Word] /\ chan \in Seq(RecordType)
  BY DEF IInv, ChannelTypes
<1>3. (word.bank # Disabled => bank.id = word.bank)' /\ (next # <<>> => next[1].bank = bank.id)'
  BY <1>1, SMTT(20), Zenon DEF Banked
<1>4. ASSUME NEW t \in Sender, pc'[t] = "reserved" PROVE seen'[t].bank = bank'.id
  <2>1. CASE Load(s) \/ Retry(s) \/ Finish(s)
    BY <1>1, <1>2, <1>4, <2>1, Zenon DEF Load, Retry, Finish, Banked
  <2>2. CASE Enter(s) \/ Push(s)
    BY <1>1, <1>2, <1>4, <2>2 DEF Enter, Push, Banked
  <2>3. CASE Reserve(s)
    <3>1. UNCHANGED seen /\ (t # s => pc[t] = "reserved")
      BY <1>2, <1>4, <2>3 DEF Reserve
    <3>2. CASE t = s
      <4>1. word = seen[s]
        BY <1>2, <1>4, <2>3, <3>2 DEF Reserve
      <4>2. word.bank # Disabled
        BY <2>3, <4>1, ReserveOpen DEF Reserve, IInv
      <4> QED
        BY <1>1, <3>1, <3>2, <4>1, <4>2 DEF Banked
    <3> QED
      BY <1>1, <3>1, <3>2 DEF Banked
  <2> QED
    BY <2>1, <2>2, <2>3, SMTT(20), Zenon DEF TrySend
<1>5. ASSUME NEW i \in 1..Len(chan') PROVE chan'[i].bank = bank'.id
  <2>1. CASE UNCHANGED chan
    BY <1>1, <1>5, <2>1 DEF Banked
  <2>2. CASE Push(s)
    <3> DEFINE e == [bank |-> seen[s].bank, index |-> index]
    <3>1. pc[s] = "reserved" /\ chan' = Append(chan, e) /\ e.bank = seen[s].bank
      BY <2>2 DEF Push
    <3> HIDE DEF e
    <3>2. i \in 1..Len(chan) => chan'[i] = chan[i]
      BY <1>2, <3>1
    <3>3. i \in 1..Len(chan) \/ chan'[i] = e
      BY <1>2, <1>5, <3>1
    <3> QED
      BY <1>1, <3>1, <3>2, <3>3 DEF Banked
  <2> QED
    BY <2>1, <2>2 DEF TrySend, Load, Enter, Reserve, Retry, Finish
<1> QED
  BY <1>3, <1>4, <1>5, Zenon DEF Banked

LEMMA SenderFit ==
    ASSUME IInv, FitInv, NEW s \in Sender, TrySend(s)
    PROVE  FitInv'
<1>1. UNCHANGED <<at, next, tick, left>>
  BY SenderFrame DEF producer, poh
<1>2. word'.bank = word.bank /\ (word.bank # Disabled \/ (Out' = Out /\ At("reserved")' \subseteq At("reserved")))
  BY SenderOut
<1>3. Room'
  BY <1>1, <1>2 DEF FitInv, Room
<1>4. Steady'
  BY <1>1, <1>2 DEF FitInv, Steady
<1> QED
  BY <1>3, <1>4, SenderBanked DEF FitInv

LEMMA ProducerSteady ==
    ASSUME IInv, TickProducer
    PROVE  Steady'
<1> USE DEF Doing, Goto
<1>1. At("reserved")' = At("reserved")
  BY ProducerFrame DEF At
<1>2. ASSUME at' \notin {"again", "tick"} PROVE Steady'
  BY <1>2 DEF Steady
<1>3. CASE Look
  <2>1. active # 0 => at' = "recv"
    BY <1>3 DEF Look
  <2>2. at' # "tick"
    BY <1>3 DEF Look
  <2>3. CASE active = 0
    <3>1. Flight = {}
      BY <2>3, FlightFinite, FS_EmptySet, Zenon DEF IInv, Counted
    <3>2. At("reserved") = {}
      BY <3>1 DEF Flight, At
    <3> QED
      BY <1>1, <2>2, <3>2 DEF Steady
  <2> QED
    BY <1>2, <2>1, <2>3
<1>4. CASE Hash
  BY <1>4 DEF Hash, Steady
<1>5. CASE Top \/ Tick \/ End \/ Safe \/ IsEmpty \/ Last
  BY <1>2, <1>5 DEF Top, Tick, End, Safe, NotSafe, IsEmpty, Last
<1>6. CASE Record \/ Add \/ HandleReset \/ HandleSetBank \/ HandleFails
  BY <1>2, <1>6, Zenon DEF Record, Add, HandleReset, HandleSetBank, HandleFails
<1>7. CASE Recv \/ Again
  BY <1>2, <1>7 DEF Recv, Again, Pop, Empty
<1> QED
  BY <1>3, <1>4, <1>5, <1>6, <1>7 DEF TickProducer

(* The last tick of a slot finds no record under way.                        *)
LEMMA TickIsQuiet ==
    ASSUME IInv, FitInv, at = "tick", tick + 1 = Ticks
    PROVE  word.bank = Disabled /\ Out = 0
<1>1. left = 1
  BY DEF FitInv, Steady
<1>2. Out \in Nat /\ Capacity \in Nat /\ Ticks \in Nat \ {0} /\ Capacity # 0
  BY OutType, PohAssumption
<1>3. word.bank = Disabled
  BY <1>1, <1>2 DEF FitInv, Room
<1>4. Out # 0 => 1 > Out
  BY <1>1, <1>3 DEF FitInv, Room
<1> QED
  BY <1>2, <1>3, <1>4

LEMMA OutIsEmpty ==
    ASSUME IInv
    PROVE  Out = 0 <=> At("reserved") = {} /\ chan = <<>> /\ next = <<>>
<1>1. Cardinality(At("reserved")) \in Nat /\ Len(chan) \in Nat /\ Len(next) \in Nat
  BY OutType
<1>2. IsFiniteSet(At("reserved"))
  BY AtFinite
<1>3. Cardinality(At("reserved")) = 0 <=> At("reserved") = {}
  BY <1>2, FS_EmptySet
<1>4. Len(chan) = 0 <=> chan = <<>>
  BY EmptySequence DEF IInv, ChannelTypes
<1>5. Len(next) = 0 <=> next = <<>>
  BY EmptySequence DEF IInv, ProducerTypes
<1>6. Out = 0 <=> Cardinality(At("reserved")) = 0 /\ Len(chan) = 0 /\ Len(next) = 0
  BY <1>1 DEF Out
<1> QED
  BY <1>3, <1>4, <1>5, <1>6, Zenon

LEMMA RecordBank ==
    ASSUME IInv, Record
    PROVE  UNCHANGED bank
<1>1. CASE CanRecord(next[1]) /\ left <= 1
  <2>1. tick + 1 < Ticks /\ NextTick
    BY <1>1 DEF Record, CanRecord, IInv, PohTypes
  <2> QED
    BY <2>1 DEF NextTick
<1>2. CASE CanRecord(next[1]) /\ left > 1
  BY <1>2 DEF Record
<1>3. CASE ~CanRecord(next[1])
  BY <1>3 DEF Record, poh
<1>4. left <= 1 \/ left > 1
  BY PohAssumption DEF IInv, PohTypes
<1> QED
  BY <1>1, <1>2, <1>3, <1>4

(* Who changes the working bank.                                             *)
LEMMA ProducerBank ==
    ASSUME IInv, TickProducer
    PROVE  \/ UNCHANGED bank
           \/ Tick /\ tick + 1 = Ticks
           \/ HandleReset \/ HandleSetBank
<1>1. CASE Top \/ Hash \/ Look \/ End \/ Safe \/ IsEmpty \/ Last
  BY <1>1, Zenon DEF Top, Hash, Look, End, Safe, IsEmpty, Last, poh
<1>2. CASE Add \/ HandleFails
  BY <1>2, Zenon DEF Add, HandleFails, poh
<1>3. CASE Record
  BY <1>3, RecordBank
<1>4. CASE Recv \/ Again
  BY <1>4, Zenon DEF Recv, Again, Pop, Empty, poh
<1>5. CASE Tick
  <2>1. tick + 1 < Ticks \/ tick + 1 = Ticks
    BY PohAssumption DEF IInv, PohTypes
  <2>2. tick + 1 < Ticks => UNCHANGED bank
    BY <1>5 DEF Tick, NextTick
  <2> QED
    BY <1>5, <2>1, <2>2
<1> QED
  BY <1>1, <1>2, <1>3, <1>4, <1>5 DEF TickProducer

(* Nothing under way, and the word closed or just opened for the new bank.   *)
LEMMA NothingBanked ==
    ASSUME IInv, Out = 0, UNCHANGED <<pc, seen, chan, next>>,
           word'.bank # Disabled => bank'.id = word'.bank
    PROVE  Banked'
<1>1. At("reserved") = {} /\ chan = <<>> /\ next = <<>>
  BY OutIsEmpty
<1>2. chan' = <<>> /\ next' = <<>> /\ \A s \in Sender : pc'[s] # "reserved"
  BY <1>1 DEF At
<1>3. \A i \in 1..Len(chan') : chan'[i].bank = bank'.id
  BY <1>2
<1> QED
  BY <1>2, <1>3 DEF Banked

LEMMA ProducerBanked ==
    ASSUME IInv, FitInv, TickProducer
    PROVE  Banked'
<1>1. UNCHANGED <<pc, seen>>
  BY ProducerFrame
<1>2. CASE UNCHANGED bank /\ ~HandleSetBank
  <2>1. word'.bank # Disabled => word'.bank = word.bank
    <3>1. Add => word'.bank = word.bank
      BY FetchAddBelow DEF Add, IInv
    <3> QED
      BY <1>2, <3>1, ProducerWord, ClosedWord
  <2>2. (word.bank # Disabled => bank.id = word.bank)'
    BY <1>2, <2>1, SMTT(20), Zenon DEF FitInv, Banked
  <2>3. (\A s \in Sender : pc[s] = "reserved" => seen[s].bank = bank.id)'
    BY <1>1, <1>2, Zenon DEF FitInv, Banked
  <2>4. CASE Pop /\ at \in {"recv", "again"}
    <3>1. chan # <<>> /\ chan \in Seq(RecordType) /\ next' = <<Head(chan)>> /\ chan' = Tail(chan)
      BY <2>4 DEF Pop, IInv, ChannelTypes
    <3>2. next'[1] = chan[1] /\ 1 \in 1..Len(chan)
      BY <3>1
    <3>3. ASSUME NEW i \in 1..Len(chan') PROVE chan'[i] = chan[i + 1] /\ i + 1 \in 1..Len(chan)
      BY <3>1, SMTT(20), Zenon
    <3> QED
      BY <1>2, <2>2, <2>3, <3>2, <3>3 DEF FitInv, Banked
  <2>5. CASE UNCHANGED chan /\ (UNCHANGED next \/ next' = <<>>)
    BY <1>2, <2>2, <2>3, <2>5 DEF FitInv, Banked
  <2> QED
    BY <1>2, <2>4, <2>5, ProducerRecords
<1>3. CASE Tick /\ tick + 1 = Ticks
  <2>1. word.bank = Disabled /\ Out = 0
    BY <1>3, TickIsQuiet DEF Tick
  <2>2. UNCHANGED <<word, chan, next>>
    BY <1>3, SMTT(20), Zenon DEF Tick, channel
  <2> QED
    BY <1>1, <2>1, <2>2, NothingBanked
<1>4. CASE HandleReset \/ HandleSetBank
  <2>1. Quiet
    BY <1>4, HandlesQuiet, Zenon DEF HandleReset, HandleSetBank
  <2>2. Out = 0
    BY <2>1, OutIsEmpty, SMTT(20), Zenon DEF Quiet
  <2>3. UNCHANGED <<chan, next>>
    BY <1>4, Zenon DEF HandleReset, HandleSetBank, channel
  <2>4. word'.bank # Disabled => bank'.id = word'.bank
    <3>1. HandleReset => UNCHANGED word
      BY DEF HandleReset, channel
    <3>2. HandleSetBank => \/ UNCHANGED word
                           \/ bank' = [id |-> msg[1].id, slot |-> msg[1].slot] /\ word' = [bank |-> msg[1].id, allowed |-> Capacity]
      BY Zenon DEF HandleSetBank
    <3> QED
      BY <1>4, <2>1, <3>1, <3>2 DEF Quiet
  <2> QED
    BY <1>1, <2>2, <2>3, <2>4, NothingBanked, SMTT(20), Zenon
<1> QED
  BY <1>2, <1>3, <1>4, ProducerBank

(* Steps that leave the records, the hashes and the word alone.              *)
LEMMA RoomMoves ==
    ASSUME Room, UNCHANGED <<pc, chan, next, tick, left>>, word'.bank = word.bank,
           next = <<>> /\ at' \in ToHash => at \in ToHash \/ word.bank # Disabled \/ Out = 0
    PROVE  Room'
<1>1. Out' = Out
  BY DEF Out, At
<1> QED
  BY <1>1 DEF Room

LEMMA HashRoom ==
    ASSUME IInv, FitInv, Roomy, Hash, ~BlindBatch
    PROVE  Room'
<1> SUFFICES ASSUME tick + 1 = Ticks
             PROVE  /\ word'.bank # Disabled => left' > Capacity + Ticks
                    /\ word'.bank = Disabled /\ Out' # 0 =>
                          left' > Out' /\ (Batch <= Ticks /\ next' = <<>> /\ at' \in ToHash => left' > Out' + Batch)
  BY DEF Room, Hash
<1> DEFINE n == IF left - 1 < Batch THEN left - 1 ELSE Batch
<1>1. left \in Nat \ {0} /\ tick \in Nat /\ Batch \in Nat /\ Capacity \in Nat /\ Ticks \in Nat \ {0}
  BY PohAssumption DEF IInv, PohTypes
<1>2. left' = left - n /\ n \in Nat /\ n <= Batch /\ left - n \in Nat
  BY <1>1 DEF Hash
<1>3. RemainingHashes(tick, left - n) = left - n
  BY <1>1, <1>2, LastHashes
<1>4. word' = IF ShouldShutdown(IF left - n < Batch THEN 0 ELSE left - n - Batch) THEN Closed ELSE word
  BY <1>3 DEF Hash
<1>5. Out' = Out /\ at' \notin ToHash /\ at = "work" /\ next = <<>>
  <2>1. UNCHANGED <<pc, chan, next>> /\ at = "work" /\ next = <<>>
    BY DEF Hash, sender
  <2>2. at' \in {"tick", "recv"}
    BY DEF Hash, Doing
  <2> QED
    BY <2>1, <2>2 DEF Out, At, ToHash
<1>6. Out \in Nat /\ Out <= Capacity
  BY <1>5, OutType
<1> HIDE DEF n
<1>7. CASE word.bank = Disabled
  <2>1. word'.bank = Disabled
    BY <1>4, <1>7, ClosedWord
  <2>2. Out # 0 => left > Out + Batch
    BY <1>1, <1>6 DEF BlindBatch
  <2> QED
    BY <1>1, <1>2, <1>5, <1>6, <2>1, <2>2
<1>8. CASE word.bank # Disabled
  <2>1. left > Capacity + Batch
    BY <1>1, <1>8 DEF BlindBatch
  <2>2. left' > Out
    BY <1>1, <1>2, <1>6, <2>1
  <2>3. word'.bank # Disabled => left' > Capacity + Ticks
    BY <1>1, <1>2, <1>4, ClosedWord DEF ShouldShutdown
  <2> QED
    BY <1>5, <2>2, <2>3
<1> QED
  BY <1>7, <1>8

LEMMA RecordRoom ==
    ASSUME IInv, FitInv, Roomy, Record
    PROVE  Room'
<1>1. CASE ~CanRecord(next[1])
  <2>1. UNCHANGED <<pc, chan, next, tick, left, word>> /\ at' = "panic"
    BY <1>1 DEF Record, poh, sender, Goto, Doing
  <2> QED
    BY <2>1, RoomMoves DEF FitInv, ToHash
<1>2. CASE CanRecord(next[1])
  <2> SUFFICES ASSUME tick' + 1 = Ticks
               PROVE  /\ word'.bank # Disabled => left' > Capacity + Ticks
                      /\ word'.bank = Disabled /\ Out' # 0 =>
                            left' > Out' /\ (Batch <= Ticks /\ next' = <<>> /\ at' \in ToHash => left' > Out' + Batch)
    BY DEF Room
  <2>1. left \in Nat \ {0} /\ tick \in Nat /\ Batch \in Nat /\ Capacity \in Nat /\ Ticks \in Nat \ {0} /\ Hashes \in Nat
    BY PohAssumption DEF IInv, PohTypes
  <2>2. /\ next # <<>> /\ next' = <<>> /\ UNCHANGED <<pc, chan>>
        /\ word' = IF ShouldShutdown(RemainingHashes(tick', left')) THEN Closed ELSE word
    BY <1>2 DEF Record, sender
  <2>3. at' \notin ToHash
    BY <1>2 DEF Record, Doing, ToHash
  <2>4. /\ Cardinality(At("reserved")) \in Nat /\ Len(chan) \in Nat
        /\ Cardinality(At("reserved")) + Len(chan) <= Capacity
    BY OutType
  <2>5. Out' = Cardinality(At("reserved")) + Len(chan)
    <3>1. Len(next') = 0
      BY <2>2, EmptySequence
    <3> QED
      BY <2>2, <2>4, <3>1 DEF Out, At
  <2>6. Len(next) \in Nat \ {0}
    BY <2>2, EmptySequence DEF IInv, ProducerTypes
  <2>7. Out >= Out' + 1 /\ Out \in Nat /\ Out' \in Nat /\ Out' <= Capacity
    BY <2>4, <2>5, <2>6 DEF Out
  <2>8. tick' \in Nat /\ left' \in Nat
    BY ProducerPohTypes, PohAssumption DEF TickProducer, IInv, PohTypes
  <2>9. RemainingHashes(tick', left') = left'
    BY <2>8, LastHashes
  <2>10. word'.bank # Disabled => left' > Capacity + Ticks /\ word.bank # Disabled
    BY <2>1, <2>2, <2>8, <2>9, ClosedWord, SMTT(20), Zenon DEF ShouldShutdown
  <2>11. CASE left > 1
    <3>1. left' = left - 1 /\ tick' = tick
      BY <1>2, <2>11 DEF Record
    <3>2. word.bank # Disabled => left > Capacity + Ticks
      BY <3>1 DEF FitInv, Room
    <3>3. word.bank = Disabled => left > Out
      <4>0. \A o, p \in Nat : p >= o + 1 => p # 0
        OBVIOUS
      <4>1. Out # 0
        BY <2>7, <4>0, Zenon
      <4> QED
        BY <3>1, <4>1 DEF FitInv, Room
    <3>4. left' > Out'
      <4>1. \A l, c, t \in Nat, o \in Nat : t # 0 /\ o <= c /\ l > c + t => l - 1 > o
        OBVIOUS
      <4>2. \A l, o, p \in Nat : l > p /\ p >= o + 1 => l - 1 > o
        OBVIOUS
      <4>3. CASE word.bank # Disabled
        BY <2>1, <2>7, <3>1, <3>2, <4>1, <4>3
      <4>4. CASE word.bank = Disabled
        BY <2>1, <2>7, <3>1, <3>3, <4>2, <4>4, Zenon
      <4> QED
        BY <4>3, <4>4
    <3> QED
      BY <2>3, <2>10, <3>4
  <2>12. CASE ~(left > 1)
    <3>1. left' = Hashes - 1
      BY <1>2, <2>12 DEF Record
    <3>2. left' > Out'
      BY <2>1, <2>7, <3>1 DEF Roomy
    <3> QED
      BY <2>3, <2>10, <3>2
  <2> QED
    BY <2>11, <2>12
<1> QED
  BY <1>1, <1>2

LEMMA TickRoom ==
    ASSUME IInv, FitInv, Roomy, Tick
    PROVE  Room'
<1>1. left' = Hashes /\ UNCHANGED <<pc, chan, next, word>> /\ at = "tick"
  BY DEF Tick, sender, channel
<1>2. Out' = Out
  BY <1>1 DEF Out, At
<1>3. tick \in Nat /\ Batch \in Nat /\ Capacity \in Nat /\ Ticks \in Nat \ {0} /\ Hashes \in Nat /\ tick + 1 <= Ticks
  BY PohAssumption DEF IInv, PohTypes
<1>4. Out \in Nat /\ Out <= Capacity
  BY <1>1, OutType DEF FitInv, Steady
<1>5. left' > Capacity + Ticks /\ left' > Out /\ (Batch <= Ticks => left' > Out + Batch)
  BY <1>1, <1>3, <1>4 DEF Roomy
<1> QED
  BY <1>1, <1>2, <1>5 DEF Room

LEMMA TopRoom ==
    ASSUME IInv, FitInv, Roomy, Top
    PROVE  Room'
<1>1. UNCHANGED <<pc, chan, next, tick, left>> /\ at = "top" /\ (word' = word \/ word' = Closed)
  BY DEF Top, sender, poh
<1>2. next = <<>>
  BY <1>1 DEF IInv, Flow
<1>3. Out' = Out
  BY <1>1 DEF Out, At
<1>4. Out \in Nat /\ Out <= Capacity
  BY <1>2, OutType
<1>5. left \in Nat /\ Batch \in Nat /\ Capacity \in Nat /\ Ticks \in Nat \ {0}
  BY PohAssumption DEF IInv, PohTypes
<1>6. CASE word' = word
  BY <1>1, <1>6, RoomMoves DEF FitInv, ToHash
<1>7. CASE word' = Closed /\ word.bank = Disabled
  BY <1>1, <1>7, RoomMoves, ClosedWord DEF FitInv, ToHash
<1>8. CASE word' = Closed /\ word.bank # Disabled
  <2>1. tick + 1 = Ticks => left > Out /\ (Batch <= Ticks => left > Out + Batch)
    BY <1>4, <1>5, <1>8 DEF FitInv, Room
  <2> QED
    BY <1>1, <1>3, <1>8, <2>1, ClosedWord DEF Room
<1> QED
  BY <1>1, <1>6, <1>7, <1>8

LEMMA ProducerRoom ==
    ASSUME IInv, FitInv, Roomy, TickProducer, ~BlindBatch
    PROVE  Room'
<1> USE DEF Doing, Goto, ToHash
<1>0. Room
  BY DEF FitInv
<1>1. CASE Look \/ End \/ Safe \/ IsEmpty \/ Last \/ HandleFails
  <2>1. UNCHANGED <<pc, chan, next, tick, left, word>>
    BY <1>1, Zenon DEF Look, End, Safe, IsEmpty, Last, HandleFails, sender, channel, poh
  <2>2. at' \in ToHash => at \in ToHash
    BY <1>1, Zenon DEF Look, End, Safe, IsEmpty, Last, HandleFails
  <2> QED
    BY <1>0, <2>1, <2>2, RoomMoves
<1>2. ASSUME NEW P, Empty(P), at = "again" \/ P = {"look"}, at \in {"again", "recv"} PROVE Room'
  <2>1. UNCHANGED <<pc, chan, next, tick, left, word>> /\ chan = <<>>
    BY <1>2, Zenon DEF Empty, sender, channel, poh
  <2>2. CASE at = "again"
    <3>1. next = <<>>
      BY <2>2 DEF IInv, Flow
    <3>2. word.bank # Disabled \/ At("reserved") = {}
      BY <2>2 DEF FitInv, Steady
    <3>3. word.bank # Disabled \/ Out = 0
      BY <2>1, <3>1, <3>2, OutIsEmpty
    <3> QED
      BY <1>0, <2>1, <3>3, RoomMoves
  <2>3. CASE P = {"look"}
    <3>1. at' \notin ToHash
      BY <1>2, <2>3 DEF Empty
    <3> QED
      BY <1>0, <2>1, <3>1, RoomMoves
  <2> QED
    BY <1>2, <2>2, <2>3
<1>3. ASSUME Pop, at \in {"recv", "again"} PROVE Room'
  <2>1. UNCHANGED <<pc, tick, left, word>> /\ at' = "add"
    BY <1>3 DEF Pop, sender, poh
  <2>2. chan # <<>> /\ chan \in Seq(RecordType) /\ next = <<>> /\ next' = <<Head(chan)>> /\ chan' = Tail(chan)
    BY <1>3 DEF Pop, IInv, ChannelTypes, Flow
  <2>3. Len(next) = 0 /\ Len(next') = 1 /\ Len(chan') = Len(chan) - 1 /\ Len(chan) \in Nat
    BY <2>2
  <2>4. Cardinality(At("reserved")) \in Nat
    BY OutType
  <2>5. Out' = Out
    BY <2>1, <2>3, <2>4 DEF Out, At
  <2> QED
    BY <1>0, <2>1, <2>5 DEF Room
<1>4. CASE Recv
  BY <1>2, <1>3, <1>4 DEF Recv
<1>5. CASE Again
  <2>1. at = "again" /\ (Pop \/ \E P : Empty(P))
    BY <1>5, Zenon DEF Again
  <2> QED
    BY <1>2, <1>3, <2>1
<1>6. CASE Add
  <2>1. UNCHANGED <<pc, chan, next, tick, left>> /\ at = "add" /\ word' = FetchAdd(word)
    BY <1>6 DEF Add, sender, poh
  <2>2. next # <<>>
    BY <2>1 DEF IInv, Flow
  <2>3. word'.bank = word.bank
    BY <2>1, FetchAddBelow DEF IInv
  <2> QED
    BY <1>0, <2>1, <2>2, <2>3, RoomMoves
<1>7. CASE HandleReset \/ HandleSetBank
  <2>1. Quiet
    BY <1>7, HandlesQuiet, Zenon DEF HandleReset, HandleSetBank
  <2>2. Out = 0 /\ UNCHANGED <<pc, chan, next>>
    BY <1>7, <2>1, OutIsEmpty, Zenon DEF Quiet, HandleReset, HandleSetBank, sender, channel
  <2>3. Out' = 0
    BY <2>2 DEF Out, At
  <2>4. word'.bank # Disabled => tick' + 1 # Ticks
    <3>1. HandleReset => UNCHANGED word
      BY DEF HandleReset, channel
    <3>2. HandleSetBank => UNCHANGED word \/ (tick + 1 < Ticks /\ tick' = tick)
      BY Zenon DEF HandleSetBank
    <3>3. tick + 1 < Ticks => tick + 1 # Ticks
      BY PohAssumption DEF IInv, PohTypes
    <3> QED
      BY <1>7, <2>1, <3>1, <3>2, <3>3, SMTT(20), Zenon DEF Quiet
  <2> QED
    BY <2>3, <2>4, SMTT(20), Zenon DEF Room
<1> QED
  BY <1>1, <1>4, <1>5, <1>6, <1>7, HashRoom, RecordRoom, TickRoom, TopRoom DEF TickProducer

LEMMA FitStep ==
    ASSUME IInv, FitInv, Roomy, [Next]_vars, [~BlindBatch]_vars
    PROVE  FitInv'
<1>1. CASE \E s \in Sender : TrySend(s)
  BY <1>1, SenderFit
<1>2. CASE TickProducer /\ ~BlindBatch
  BY <1>2, ProducerBanked, ProducerSteady, ProducerRoom, SMTT(20), Zenon DEF FitInv
<1>3. CASE ReplayStage \/ UNCHANGED vars
  <2>1. UNCHANGED <<pc, seen, word, chan, at, next, tick, left, bank>>
    BY <1>3, ReplayFrame DEF vars, sender, channel, producer, poh
  <2> QED
    BY <2>1, Zenon DEF FitInv, Banked, Room, Steady, Out, At
<1> QED
  BY <1>1, <1>2, <1>3 DEF Next

LEMMA InitFit == Init => FitInv
<1>1. Init => Banked /\ Steady
  BY ClosedWord DEF Init, Banked, Steady
<1>2. ASSUME Init PROVE Room
  <2>1. Out = 0 /\ word.bank = Disabled
    BY <1>2, InitKeeps, OutIsEmpty, ClosedWord DEF Init, At
  <2> QED
    BY <2>1 DEF Room
<1> QED
  BY <1>1, <1>2 DEF FitInv

LEMMA FitRecords == ASSUME IInv, FitInv PROVE RecordsFit
<1> SUFFICES ASSUME at = "work", next # <<>> PROVE CanRecord(next[1])
  BY DEF RecordsFit
<1>1. next[1].bank = bank.id /\ next[1].bank \in 1..MaxBank
  <2>1. next[1].bank = bank.id
    BY DEF FitInv, Banked
  <2>2. next \in Seq(RecordType) /\ Len(next) \in Nat \ {0}
    BY EmptySequence DEF IInv, ProducerTypes
  <2>3. next[1] \in RecordType
    BY <2>2
  <2> QED
    BY <2>1, <2>3 DEF RecordType
<1>2. bank # NoBank
  BY <1>1, PohAssumption DEF NoBank
<1>3. left \in Nat \ {0} /\ tick + 1 <= Ticks /\ tick \in Nat /\ Capacity \in Nat /\ Ticks \in Nat \ {0}
  BY PohAssumption DEF IInv, PohTypes
<1>4. Out \in Nat /\ Out # 0
  BY OutType, OutIsEmpty
<1>5. tick + 1 = Ticks => left > 1
  BY <1>3, <1>4 DEF FitInv, Room
<1>6. left > 1 \/ tick + 1 < Ticks
  BY <1>3, <1>5
<1> QED
  BY <1>1, <1>2, <1>6, Zenon DEF CanRecord

(* "Once sent records can be guaranteed to be recorded", as far as it goes:   *)
(* for any number of senders, any capacity and any batch, record() fails on a *)
(* record that try_send() took only after record_or_hash() hashed a batch in  *)
(* the last tick with no more hashes left than the batch and the records that *)
(* are under way, or may still be sent, need together.  Its check after a     *)
(* record does not count that batch; nothing else in the service can lose a   *)
(* record.                                                                  *)
THEOREM OnlyABlindBatchLoses ==
    ASSUME Roomy PROVE Spec /\ [][~BlindBatch]_vars => []RecordsFit
  BY InitFit, FitStep, FitRecords, Invariance, PTL DEF Spec

(* No batch is blind when it fits into the room that should_shutdown() keeps   *)
(* for the ticks of a slot.  DEFAULT_HASHES_PER_BATCH does not.               *)
COROLLARY SmallBatchesAreSafe ==
    ASSUME Roomy, Batch <= Ticks PROVE Spec => []RecordsFit
<1>1. ASSUME IInv, FitInv, [Next]_vars PROVE [~BlindBatch]_vars
  <2> SUFFICES ASSUME BlindBatch PROVE FALSE
    OBVIOUS
  <2>1. tick + 1 = Ticks /\ at = "work" /\ next = <<>>
    BY DEF BlindBatch, Hash
  <2>2. left \in Nat /\ Batch \in Nat /\ Capacity \in Nat /\ Ticks \in Nat /\ Out \in Nat /\ Out <= Capacity
    BY <1>1, <2>1, OutType, PohAssumption DEF IInv, PohTypes
  <2>3. word.bank # Disabled => left > Capacity + Batch
    BY <1>1, <2>1, <2>2 DEF FitInv, Room
  <2>4. word.bank = Disabled /\ Out # 0 => left > Out + Batch
    BY <1>1, <2>1 DEF FitInv, Room, ToHash
  <2> QED
    BY <2>2, <2>3, <2>4 DEF BlindBatch
<1>2. ASSUME IInv, FitInv, [Next]_vars PROVE FitInv'
  BY <1>1, <1>2, FitStep
<1> QED
  BY <1>2, InitFit, FitRecords, Invariance, PTL DEF Spec
=============================================================================
