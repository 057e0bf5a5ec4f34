-------------------------- MODULE PegRelayerProofs --------------------------
(***************************************************************************)
(* For any number of deposits, any window and any faults: main() sends a    *)
(* second transfer for a deposit only after it forgot an earlier one.       *)
(***************************************************************************)
EXTENDS PegRelayer, TLAPS

(* While main() works on a signature the batch is not empty, it has not     *)
(* processed the signature it is about to pay, and the state file never     *)
(* holds a signature that the set in memory lacks.                          *)
LoopInv ==
    /\ pc \in {"send", "confirm", "mark"} => batch # <<>>
    /\ pc = "send" => Head(batch) \notin processed
    /\ file \subseteq processed

IInv == TypeOK /\ LoopInv /\ SendsBounded

(* The initial state satisfies the inductive invariant.                     *)
LEMMA InitIInv == Init => IInv
  BY PegAssumption DEF Init, IInv, TypeOK, LoopInv, SendsBounded, Known

(* The signature that main() works on is one of the treasury's.             *)
LEMMA HeadInSigs ==
    ASSUME IInv, batch # <<>>
    PROVE  Head(batch) \in Sigs /\ Tail(batch) \in Seq(Sigs)
  BY DEF IInv, TypeOK

(* The batch that an exception leaves behind is a sequence of signatures.   *)
LEMMA EmptyBatch == <<>> \in Seq(Sigs)
  OBVIOUS

(* A poll returns a sequence of signatures of the treasury.                 *)
LEMMA PollType ==
    ASSUME IInv, Poll
    PROVE  batch' \in Seq(Sigs)
  <1> DEFINE first == IF chain > Window THEN chain - Window + 1 ELSE 1
  <1>1. chain \in 1..N /\ chain \in Int /\ Window \in Nat \ {0} /\ N \in Nat
    BY PegAssumption DEF IInv, TypeOK, Poll
  <1>2. first \in 1..chain
    BY <1>1
  <1>3. batch' = [i \in 1..(chain - first + 1) |-> first + i - 1]
    BY DEF Poll
  <1> HIDE DEF first
  <1>4. chain - first + 1 \in Nat
    BY <1>1, <1>2
  <1>5. \A i \in 1..(chain - first + 1) : first + i - 1 \in Sigs
    BY <1>1, <1>2 DEF Sigs
  <1> QED
    BY <1>3, <1>4, <1>5

(* The bookkeeping of a transfer and of a forgotten one stays well typed.   *)
LEMMA BookkeepingType ==
    ASSUME IInv
    PROVE  /\ \A d \in Sigs : Sent(d) => /\ sends' \in [Sigs -> 0..MaxSends]
                                         /\ inflight' \subseteq Sigs \X (1..MaxSends)
           /\ \A d \in Sigs : Doubt(d) => doubts' \in [Sigs -> Nat]
           /\ CrashRestart => doubts' \in [Sigs -> Nat]
  <1>1. \A d \in Sigs : Sent(d) => sends[d] + 1 \in 1..MaxSends
    BY PegAssumption DEF Sent, IInv, TypeOK
  <1>2. ASSUME NEW d \in Sigs, Sent(d)
        PROVE  sends' \in [Sigs -> 0..MaxSends]
    <2>1. sends \in [Sigs -> 0..MaxSends]
      BY DEF IInv, TypeOK
    <2>2. sends[d] + 1 \in 0..MaxSends
      BY <1>1, <1>2, PegAssumption
    <2>3. sends' = [sends EXCEPT ![d] = sends[d] + 1]
      BY <1>2 DEF Sent
    <2> QED
      BY <2>1, <2>2, <2>3
  <1>3. ASSUME NEW d \in Sigs, Sent(d)
        PROVE  inflight' \subseteq Sigs \X (1..MaxSends)
    <2>1. <<d, sends[d] + 1>> \in Sigs \X (1..MaxSends)
      BY <1>1, <1>3
    <2>2. inflight' = inflight \cup {<<d, sends[d] + 1>>}
      BY <1>3 DEF Sent
    <2>3. inflight \subseteq Sigs \X (1..MaxSends)
      BY DEF IInv, TypeOK
    <2> QED
      BY <2>1, <2>2, <2>3
  <1>4. \A d \in Sigs : Doubt(d) => doubts' \in [Sigs -> Nat]
    BY DEF Doubt, IInv, TypeOK
  <1>5. CrashRestart => doubts' \in [Sigs -> Nat]
    BY DEF CrashRestart, IInv, TypeOK
  <1> QED
    BY <1>2, <1>3, <1>4, <1>5

(* Every step of main(), of the two chains and every restart preserves it.  *)
LEMMA NextIInv == IInv /\ [Next]_vars => IInv'
  <1> SUFFICES ASSUME IInv, [Next]_vars PROVE IInv'
    OBVIOUS
  <1>1. CASE Deposit
    <2>1. TypeOK'
      BY <1>1, PegAssumption DEF Deposit, relayer, native, IInv, TypeOK, Sigs
    <2>2. LoopInv'
      BY <1>1 DEF Deposit, relayer, native, IInv, TypeOK, LoopInv
    <2>3. SendsBounded'
      BY <1>1 DEF Deposit, relayer, native, IInv, TypeOK, LoopInv, SendsBounded, Known
    <2> QED
      BY <2>1, <2>2, <2>3 DEF IInv
  <1>2. CASE Poll
    <2>0. batch' \in Seq(Sigs)
      BY <1>2, PollType
    <2>1. TypeOK'
      BY <1>2, <2>0, PegAssumption DEF Poll, native, IInv, TypeOK
    <2>2. LoopInv'
      BY <1>2, <2>0 DEF Poll, native, IInv, TypeOK, LoopInv
    <2>3. SendsBounded'
      BY <1>2, <2>0 DEF Poll, native, IInv, TypeOK, LoopInv, SendsBounded, Known
    <2> QED
      BY <2>1, <2>2, <2>3 DEF IInv
  <1>3. CASE SkipProcessed
    <2>0. batch # <<>> /\ Head(batch) \in Sigs /\ Tail(batch) \in Seq(Sigs)
      BY <1>3, HeadInSigs DEF SkipProcessed, IInv, LoopInv
    <2>1. TypeOK'
      BY <1>3, <2>0, PegAssumption, Zenon DEF SkipProcessed, native, IInv, TypeOK
    <2>2. LoopInv'
      BY <1>3, <2>0 DEF SkipProcessed, native, IInv, TypeOK, LoopInv
    <2>3. SendsBounded'
      BY <1>3, <2>0 DEF SkipProcessed, native, IInv, TypeOK, LoopInv, SendsBounded, Known
    <2> QED
      BY <2>1, <2>2, <2>3 DEF IInv
  <1>4. CASE EndBatch
    <2>1. TypeOK'
      BY <1>4, PegAssumption DEF EndBatch, native, IInv, TypeOK
    <2>2. LoopInv'
      BY <1>4 DEF EndBatch, native, IInv, TypeOK, LoopInv
    <2>3. SendsBounded'
      BY <1>4 DEF EndBatch, native, IInv, TypeOK, LoopInv, SendsBounded, Known
    <2> QED
      BY <2>1, <2>2, <2>3 DEF IInv
  <1>5. CASE FetchTx
    <2>1. TypeOK'
      BY <1>5, PegAssumption, Zenon DEF FetchTx, native, IInv, TypeOK
    <2>2. LoopInv'
      BY <1>5 DEF FetchTx, native, IInv, TypeOK, LoopInv
    <2>3. SendsBounded'
      BY <1>5 DEF FetchTx, native, IInv, TypeOK, LoopInv, SendsBounded, Known
    <2> QED
      BY <2>1, <2>2, <2>3 DEF IInv
  <1>6. CASE Send
    <2>0. batch # <<>> /\ Head(batch) \in Sigs /\ Tail(batch) \in Seq(Sigs)
      BY <1>6, HeadInSigs DEF Send, IInv, LoopInv
    <2>b. sends' \in [Sigs -> 0..MaxSends] /\ inflight' \subseteq Sigs \X (1..MaxSends)
      BY <1>6, <2>0, BookkeepingType DEF Send
    <2>1. TypeOK'
      BY <1>6, <2>0, PegAssumption, <2>b, Zenon DEF Send, Sent, IInv, TypeOK
    <2>2. LoopInv'
      BY <1>6, <2>0 DEF Send, Sent, IInv, TypeOK, LoopInv
    <2>3. SendsBounded'
      BY <1>6, <2>0, SMTT(30) DEF Send, Sent, IInv, TypeOK, LoopInv, SendsBounded, Known
    <2> QED
      BY <2>1, <2>2, <2>3 DEF IInv
  <1>7. CASE SendRejected
    <2>1. TypeOK'
      BY <1>7, PegAssumption, EmptyBatch, Zenon DEF SendRejected, LoopError, native, IInv, TypeOK
    <2>2. LoopInv'
      BY <1>7 DEF SendRejected, LoopError, native, IInv, TypeOK, LoopInv
    <2>3. SendsBounded'
      BY <1>7 DEF SendRejected, LoopError, native, IInv, TypeOK, LoopInv, SendsBounded, Known
    <2> QED
      BY <2>1, <2>2, <2>3 DEF IInv
  <1>8. CASE SendThrows
    <2>0. batch # <<>> /\ Head(batch) \in Sigs /\ Tail(batch) \in Seq(Sigs)
      BY <1>8, HeadInSigs DEF SendThrows, IInv, LoopInv
    <2>b. sends' \in [Sigs -> 0..MaxSends] /\ inflight' \subseteq Sigs \X (1..MaxSends) /\ doubts' \in [Sigs -> Nat]
      BY <1>8, <2>0, BookkeepingType DEF SendThrows
    <2>1. TypeOK'
      BY <1>8, <2>0, PegAssumption, <2>b, EmptyBatch, Zenon DEF SendThrows, Sent, Doubt, LoopError, IInv, TypeOK
    <2>2. LoopInv'
      BY <1>8, <2>0 DEF SendThrows, Sent, Doubt, LoopError, IInv, TypeOK, LoopInv
    <2>3. SendsBounded'
      BY <1>8, <2>0, SMTT(30) DEF SendThrows, Sent, Doubt, LoopError, IInv, TypeOK, LoopInv, SendsBounded, Known
    <2> QED
      BY <2>1, <2>2, <2>3 DEF IInv
  <1>9. CASE Confirm
    <2>1. TypeOK'
      BY <1>9, PegAssumption, Zenon DEF Confirm, native, IInv, TypeOK
    <2>2. LoopInv'
      BY <1>9 DEF Confirm, native, IInv, TypeOK, LoopInv
    <2>3. SendsBounded'
      BY <1>9 DEF Confirm, native, IInv, TypeOK, LoopInv, SendsBounded, Known
    <2> QED
      BY <2>1, <2>2, <2>3 DEF IInv
  <1>10. CASE ConfirmThrows
    <2>0. batch # <<>> /\ Head(batch) \in Sigs /\ Tail(batch) \in Seq(Sigs)
      BY <1>10, HeadInSigs DEF ConfirmThrows, IInv, LoopInv
    <2>b. doubts' \in [Sigs -> Nat]
      BY <1>10, <2>0, BookkeepingType DEF ConfirmThrows
    <2>1. TypeOK'
      BY <1>10, <2>0, PegAssumption, <2>b, EmptyBatch, Zenon DEF ConfirmThrows, Doubt, LoopError, native, IInv, TypeOK
    <2>2. LoopInv'
      BY <1>10, <2>0 DEF ConfirmThrows, Doubt, LoopError, native, IInv, TypeOK, LoopInv
    <2>3. SendsBounded'
      BY <1>10, <2>0, SMTT(30) DEF ConfirmThrows, Doubt, LoopError, native, IInv, TypeOK, LoopInv, SendsBounded, Known
    <2> QED
      BY <2>1, <2>2, <2>3 DEF IInv
  <1>11. CASE Mark
    <2>0. batch # <<>> /\ Head(batch) \in Sigs /\ Tail(batch) \in Seq(Sigs)
      BY <1>11, HeadInSigs DEF Mark, IInv, LoopInv
    <2>1. TypeOK'
      BY <1>11, <2>0, PegAssumption, Zenon DEF Mark, native, IInv, TypeOK
    <2>2. LoopInv'
      BY <1>11, <2>0 DEF Mark, native, IInv, TypeOK, LoopInv
    <2>3. SendsBounded'
      BY <1>11, <2>0 DEF Mark, native, IInv, TypeOK, LoopInv, SendsBounded, Known
    <2> QED
      BY <2>1, <2>2, <2>3 DEF IInv
  <1>12. CASE MarkDiskError
    <2>0. batch # <<>> /\ Head(batch) \in Sigs /\ Tail(batch) \in Seq(Sigs)
      BY <1>12, HeadInSigs DEF MarkDiskError, IInv, LoopInv
    <2>1. TypeOK'
      BY <1>12, <2>0, PegAssumption, EmptyBatch, Zenon DEF MarkDiskError, native, IInv, TypeOK
    <2>2. LoopInv'
      BY <1>12, <2>0 DEF MarkDiskError, native, IInv, TypeOK, LoopInv
    <2>3. SendsBounded'
      BY <1>12, <2>0 DEF MarkDiskError, native, IInv, TypeOK, LoopInv, SendsBounded, Known
    <2> QED
      BY <2>1, <2>2, <2>3 DEF IInv
  <1>13. CASE CrashRestart
    <2>b. doubts' \in [Sigs -> Nat]
      BY <1>13, BookkeepingType
    <2>1. TypeOK'
      BY <1>13, PegAssumption, <2>b, EmptyBatch, Zenon DEF CrashRestart, Forgotten, native, IInv, TypeOK
    <2>2. LoopInv'
      BY <1>13 DEF CrashRestart, Forgotten, native, IInv, TypeOK, LoopInv
    <2>3. SendsBounded'
      BY <1>13, SMTT(30) DEF CrashRestart, Forgotten, native, IInv, TypeOK, LoopInv, SendsBounded, Known
    <2> QED
      BY <2>1, <2>2, <2>3 DEF IInv
  <1>14. CASE ChainStep
    <2>1. TypeOK'
      BY <1>14, PegAssumption, SMTT(30) DEF ChainStep, Land, Expire, relayer, IInv, TypeOK
    <2>2. LoopInv'
      BY <1>14, Zenon DEF ChainStep, Land, Expire, relayer, IInv, TypeOK, LoopInv
    <2>3. SendsBounded'
      BY <1>14, Zenon DEF ChainStep, Land, Expire, relayer, IInv, TypeOK, LoopInv, SendsBounded, Known
    <2> QED
      BY <2>1, <2>2, <2>3 DEF IInv
  <1>15. CASE UNCHANGED vars
    <2>1. TypeOK'
      BY <1>15, PegAssumption, Zenon DEF vars, IInv, TypeOK
    <2>2. LoopInv'
      BY <1>15 DEF vars, IInv, TypeOK, LoopInv
    <2>3. SendsBounded'
      BY <1>15 DEF vars, IInv, TypeOK, LoopInv, SendsBounded, Known
    <2> QED
      BY <2>1, <2>2, <2>3 DEF IInv
  <1> QED
    BY <1>1, <1>2, <1>3, <1>4, <1>5, <1>6, <1>7, <1>8, <1>9, <1>10, <1>11, <1>12,
       <1>13, <1>14, <1>15 DEF Next, RelayerStep

(* The relayer's variables keep their types under every fault.              *)
THEOREM RelayerTyped == Spec => []TypeOK
  <1>1. IInv => TypeOK
    BY DEF IInv
  <1> QED
    BY InitIInv, NextIInv, <1>1, PTL DEF Spec

(* Under every behaviour of the relayer, faults included, the transfers     *)
(* sent for a deposit are at most one more than the times it forgot one.    *)
THEOREM RepeatsNeedDoubt == Spec => []SendsBounded
  <1>1. IInv => SendsBounded
    BY DEF IInv
  <1> QED
    BY InitIInv, NextIInv, <1>1, PTL DEF Spec

-----------------------------------------------------------------------------
(***************************************************************************)
(* Order of the credits.  A deposit that was passed over is sent already,   *)
(* is no deposit, or has left the window for good; what is still in the     *)
(* batch has no later deposit sent before it.                               *)
(***************************************************************************)
Done(d) == sends[d] > 0 \/ ~IsDeposit(d)
Settled(d) == Done(d) \/ d <= chain - Window

Contiguous == \A i \in 1..Len(batch) : batch[i] = batch[1] + i - 1
HeadSettled == batch # <<>> => \A d \in Sigs : d < Head(batch) => Settled(d)
BatchFirst == \A i \in 1..Len(batch), e \in Sigs :
                 e > batch[i] /\ sends[e] > 0 => Done(batch[i])
SentSettled == \A e \in Sigs : sends[e] > 0 => \A d \in Sigs : d < e => Settled(d)
LoopDone ==
    /\ \A d \in processed : Done(d)
    /\ pc = "send" => IsDeposit(Head(batch))
    /\ pc \in {"confirm", "mark"} => Done(Head(batch))

OrderInv == Contiguous /\ HeadSettled /\ BatchFirst /\ SentSettled /\ LoopDone

(* The initial state: nothing sent and no batch.                            *)
LEMMA InitOrder == Init => OrderInv
  BY PegAssumption DEF Init, OrderInv, Contiguous, HeadSettled, BatchFirst, SentSettled,
     LoopDone, Done, Settled

(* What is done or out of the window stays so: transfers are never unsent   *)
(* and the treasury's signatures only grow in number.                       *)
LEMMA Monotone ==
    ASSUME IInv, [Next]_vars
    PROVE  /\ \A d \in Sigs : Done(d) => Done(d)'
           /\ \A d \in Sigs : Settled(d) => Settled(d)'
  <1>1. \A d \in Sigs : sends[d] > 0 => sends'[d] > 0
    <2>1. \A d \in Sigs : Sent(d) => \A e \in Sigs : sends[e] > 0 => sends'[e] > 0
      BY DEF Sent, IInv, TypeOK
    <2>2. Send \/ SendThrows => Head(batch) \in Sigs
      BY HeadInSigs DEF Send, SendThrows, IInv, LoopInv
    <2> QED
      BY <2>1, <2>2, Zenon DEF Next, RelayerStep, ChainStep, Deposit, Poll, SkipProcessed,
         EndBatch, FetchTx, Send, SendRejected, SendThrows, Confirm, ConfirmThrows,
         Mark, MarkDiskError, CrashRestart, Land, Expire, native, vars
  <1>2. chain' = chain \/ chain' = chain + 1
    BY Zenon DEF Next, RelayerStep, ChainStep, Deposit, Poll, SkipProcessed, EndBatch,
       FetchTx, Send, SendRejected, SendThrows, Confirm, ConfirmThrows, Mark,
       MarkDiskError, CrashRestart, Land, Expire, vars
  <1>3. \A d \in Sigs : Done(d) => Done(d)'
    BY <1>1 DEF Done, IsDeposit
  <1>4. \A d \in Sigs : d <= chain - Window => d <= chain' - Window
    <2>1. chain \in Int /\ Window \in Int
      BY PegAssumption DEF IInv, TypeOK
    <2>2. \A d \in Sigs : d \in Int
      BY PegAssumption DEF Sigs
    <2> QED
      BY <1>2, <2>1, <2>2
  <1> QED
    BY <1>3, <1>4 DEF Settled

(* Dropping the head of the batch keeps it contiguous.                      *)
LEMMA TailShape ==
    ASSUME IInv, OrderInv, batch # <<>>
    PROVE  /\ Len(batch) \in Nat \ {0} /\ Len(Tail(batch)) = Len(batch) - 1
           /\ \A i \in 1..Len(Tail(batch)) : Tail(batch)[i] = batch[i + 1]
           /\ \A i \in 1..Len(batch) : batch[i] \in Sigs /\ batch[i] \in Int
           /\ \A i \in 1..Len(batch) : batch[i] = batch[1] + i - 1
           /\ Head(batch) = batch[1]
           /\ Tail(batch) # <<>> => Head(Tail(batch)) = batch[1] + 1
  <1>1. batch \in Seq(Sigs)
    BY DEF IInv, TypeOK
  <1>2. Len(batch) \in Nat \ {0} /\ Len(Tail(batch)) = Len(batch) - 1 /\ Head(batch) = batch[1]
    BY <1>1
  <1>3. \A i \in 1..Len(Tail(batch)) : Tail(batch)[i] = batch[i + 1]
    BY <1>1
  <1>4. \A i \in 1..Len(batch) : batch[i] \in Sigs /\ batch[i] \in Int
    BY <1>1, PegAssumption, SMTT(30) DEF Sigs
  <1>5. \A i \in 1..Len(batch) : batch[i] = batch[1] + i - 1
    BY DEF OrderInv, Contiguous
  <1>6. ASSUME Tail(batch) # <<>>
        PROVE  Head(Tail(batch)) = batch[1] + 1
    <2>1. Tail(batch) \in Seq(Sigs)
      BY <1>1
    <2>2. Len(Tail(batch)) \in Nat \ {0} /\ Head(Tail(batch)) = Tail(batch)[1]
      <3>1. \A q \in Seq(Sigs) : q # <<>> => Len(q) \in Nat \ {0} /\ Head(q) = q[1]
        OBVIOUS
      <3> QED
        BY <1>6, <2>1, <3>1
    <2>3. Tail(batch)[1] = batch[2] /\ 2 \in 1..Len(batch)
      BY <1>2, <1>3, <2>2
    <2>4. batch[2] = batch[1] + 2 - 1 /\ batch[1] \in Int
      BY <1>4, <1>5, <2>3, <1>2
    <2> QED
      BY <2>2, <2>3, <2>4
  <1> QED
    BY <1>2, <1>3, <1>4, <1>5, <1>6

(* SkipProcessed, Mark: the head is done, so the order holds of the tail.   *)
LEMMA TailOrder ==
    ASSUME IInv, OrderInv, batch # <<>>, Done(Head(batch)),
           batch' = Tail(batch), UNCHANGED <<chain, sends>>
    PROVE  Contiguous' /\ HeadSettled' /\ BatchFirst'
  <1> DEFINE t == Tail(batch)
  <1>0. /\ Len(batch) \in Nat \ {0} /\ Len(t) = Len(batch) - 1
        /\ \A i \in 1..Len(t) : t[i] = batch[i + 1]
        /\ \A i \in 1..Len(batch) : batch[i] \in Sigs /\ batch[i] \in Int
        /\ \A i \in 1..Len(batch) : batch[i] = batch[1] + i - 1
        /\ Head(batch) = batch[1]
        /\ t # <<>> => Head(t) = batch[1] + 1
    BY TailShape
  <1>1. \A i \in 1..Len(t) : i + 1 \in 1..Len(batch)
    BY <1>0
  <1> HIDE DEF t
  <1>2. ASSUME NEW i \in 1..Len(t)
        PROVE  t[i] = t[1] + i - 1
    <2>1. 1 \in 1..Len(t) /\ i \in Int
      BY <1>0
    <2>2. t[i] = batch[1] + (i + 1) - 1 /\ t[1] = batch[1] + (1 + 1) - 1
      BY <1>0, <1>1, <2>1
    <2> QED
      BY <1>0, <2>1, <2>2, SMTT(30)
  <1>3. t # <<>> => \A d \in Sigs : d < Head(t) => Settled(d)
    <2>1. \A d \in Sigs : d < batch[1] + 1 => d < batch[1] \/ d = batch[1]
      BY <1>0, PegAssumption DEF Sigs
    <2> QED
      BY <1>0, <2>1 DEF OrderInv, HeadSettled, Settled
  <1>4. \A i \in 1..Len(t), e \in Sigs : e > t[i] /\ sends[e] > 0 => Done(t[i])
    BY <1>0, <1>1, Zenon DEF OrderInv, BatchFirst
  <1>5. batch' = t /\ sends' = sends /\ chain' = chain
    BY DEF t
  <1> QED
    BY <1>2, <1>3, <1>4, <1>5, Zenon DEF Contiguous, HeadSettled, BatchFirst, Done, Settled, IsDeposit

(* A poll starts from the oldest signature of the window.                   *)
LEMMA PollOrder ==
    ASSUME IInv, OrderInv, Poll
    PROVE  Contiguous' /\ HeadSettled' /\ BatchFirst'
  <1> DEFINE first == IF chain > Window THEN chain - Window + 1 ELSE 1
             q == [i \in 1..(chain - first + 1) |-> first + i - 1]
  <1>1. chain \in 1..N /\ chain \in Int /\ Window \in Nat \ {0} /\ N \in Nat
    BY PegAssumption DEF IInv, TypeOK, Poll
  <1>2. first \in 1..chain /\ \A d \in Sigs : d < first => d <= chain - Window
    BY <1>1 DEF Sigs
  <1>2a. \A d \in Sigs : d >= first => ~(d <= chain - Window)
    BY <1>1 DEF Sigs
  <1>3. batch' = q /\ sends' = sends /\ chain' = chain
    BY DEF Poll, native
  <1> HIDE DEF first
  <1>4. chain - first + 1 \in Nat \ {0} /\ first \in Int
    BY <1>1, <1>2
  <1>5. q \in Seq(Int) /\ Len(q) = chain - first + 1
    BY <1>4
  <1>6. \A i \in 1..Len(q) : q[i] = first + i - 1 /\ q[i] \in Sigs /\ q[i] >= first
    BY <1>1, <1>2, <1>4, <1>5 DEF Sigs
  <1>7. q[1] = first /\ Head(q) = first
    BY <1>4, <1>5, <1>6
  <1> HIDE DEF q
  <1>8. Contiguous'
    BY <1>3, <1>4, <1>6, <1>7 DEF Contiguous
  <1>9. HeadSettled'
    BY <1>2, <1>3, <1>7 DEF HeadSettled, Settled
  <1>10. BatchFirst'
    <2>1. ASSUME NEW i \in 1..Len(q), NEW e \in Sigs, e > q[i], sends[e] > 0
          PROVE  Done(q[i])
      BY <1>2a, <1>6, <2>1 DEF OrderInv, SentSettled, Settled
    <2> QED
      BY <1>3, <2>1 DEF BatchFirst, Done, IsDeposit
  <1> QED
    BY <1>8, <1>9, <1>10
(* A transfer is sent for the head of the batch: everything older is        *)
(* settled, and nothing younger in the batch is overtaken.                  *)
LEMMA SendOrder ==
    ASSUME IInv, OrderInv, pc = "send", Sent(Head(batch)), UNCHANGED chain
    PROVE  SentSettled' /\ (UNCHANGED batch => BatchFirst')
  <1> DEFINE h == Head(batch)
  <1>0. batch # <<>>
    BY DEF IInv, LoopInv
  <1>1. /\ h \in Sigs /\ h = batch[1] /\ h \in Int /\ Len(batch) \in Nat \ {0}
        /\ \A i \in 1..Len(batch) : batch[i] \in Sigs /\ batch[i] >= h
    <2>1. 1 \in 1..Len(batch)
      BY <1>0, TailShape
    <2> QED
      BY <1>0, <2>1, TailShape
  <1> HIDE DEF h
  <1>2. \A e \in Sigs : sends'[e] > 0 => sends[e] > 0 \/ e = h
    BY <1>1 DEF Sent, IInv, TypeOK, h
  <1>3. \A d \in Sigs : sends[d] > 0 => sends'[d] > 0
    BY <1>1 DEF Sent, IInv, TypeOK, h
  <1>4. \A d \in Sigs : Settled(d) => Settled(d)'
    BY <1>3 DEF Settled, Done, IsDeposit
  <1>5. \A d \in Sigs : Done(d) => Done(d)'
    BY <1>3 DEF Done, IsDeposit
  <1>6. SentSettled'
    BY <1>0, <1>1, <1>2, <1>4 DEF OrderInv, SentSettled, HeadSettled, h
  <1>7. ASSUME UNCHANGED batch
        PROVE  BatchFirst'
    <2>1. ASSUME NEW i \in 1..Len(batch), NEW e \in Sigs, e > batch[i], sends'[e] > 0
          PROVE  Done(batch[i])'
      <3>1. e \in Int /\ batch[i] \in Int
        BY <1>1, PegAssumption DEF Sigs
      <3>2. e # h
        BY <1>1, <2>1, <3>1
      <3>3. Done(batch[i])
        BY <1>2, <2>1, <3>2 DEF OrderInv, BatchFirst
      <3> QED
        BY <1>1, <1>5, <1>7, <3>3, Zenon DEF Done, IsDeposit
    <2> QED
      BY <1>7, <2>1 DEF BatchFirst
  <1> QED
    BY <1>6, <1>7

(* A step that leaves the batch and the transfers alone keeps the order.    *)
LEMMA SameBatchOrder ==
    ASSUME IInv, OrderInv, [Next]_vars, UNCHANGED <<batch, sends>>
    PROVE  Contiguous' /\ HeadSettled' /\ BatchFirst' /\ SentSettled'
  <1>1. \A d \in Sigs : Settled(d) => Settled(d)'
    BY Monotone
  <1>2. \A d : Done(d) => Done(d)'
    BY DEF Done, IsDeposit
  <1> QED
    BY <1>1, <1>2 DEF OrderInv, Contiguous, HeadSettled, BatchFirst, SentSettled

(* An exception or a restart empties the batch.                             *)
LEMMA EmptyBatchOrder ==
    ASSUME batch' = <<>>
    PROVE  Contiguous' /\ HeadSettled' /\ BatchFirst'
  BY DEF Contiguous, HeadSettled, BatchFirst

(* A step that sends nothing keeps what was sent settled.                   *)
LEMMA NothingSentOrder ==
    ASSUME IInv, OrderInv, [Next]_vars, UNCHANGED sends
    PROVE  SentSettled'
  BY Monotone DEF OrderInv, SentSettled

(* Where parseDeposit always sees the transaction, the loop marks only what *)
(* it has paid or what is no deposit.                                       *)
LEMMA NextOrder ==
    ASSUME "null" \notin Faults, IInv, OrderInv, [Next]_vars
    PROVE  OrderInv'
  <1> USE DEF native, relayer
  <1>0. \A d \in Sigs : Done(d) => Done(d)'
    BY Monotone
  <1>1. CASE Deposit \/ EndBatch \/ FetchTx \/ Confirm \/ ChainStep \/ UNCHANGED vars
    <2>1. UNCHANGED <<batch, sends, processed>>
      BY <1>1, Zenon DEF Deposit, EndBatch, FetchTx, Confirm, ChainStep, Land, Expire, vars
    <2>2. Contiguous' /\ HeadSettled' /\ BatchFirst' /\ SentSettled'
      BY <2>1, SameBatchOrder
    <2>3. LoopDone'
      BY <1>1, <2>1, Zenon DEF Deposit, EndBatch, FetchTx, Confirm, ChainStep, Land, Expire, vars,
         OrderInv, LoopDone, Done, IsDeposit
    <2> QED
      BY <2>2, <2>3 DEF OrderInv
  <1>2. CASE Poll
    <2>1. SentSettled'
      BY <1>2, NothingSentOrder DEF Poll
    <2>2. LoopDone'
      BY <1>2, Zenon DEF Poll, OrderInv, LoopDone, Done, IsDeposit
    <2> QED
      BY <1>2, <2>1, <2>2, PollOrder DEF OrderInv
  <1>3. CASE SkipProcessed \/ Mark
    <2>1. /\ batch # <<>> /\ batch' = Tail(batch) /\ UNCHANGED <<chain, sends>>
          /\ Done(Head(batch))
      BY <1>3 DEF SkipProcessed, Mark, IInv, LoopInv, OrderInv, LoopDone
    <2>2. SentSettled'
      BY <2>1, NothingSentOrder
    <2>3. LoopDone'
      BY <1>3, <2>1, Zenon DEF SkipProcessed, Mark, OrderInv, LoopDone, Done, IsDeposit
    <2> QED
      BY <2>1, <2>2, <2>3, TailOrder DEF OrderInv
  <1>4. CASE Send
    <2>1. SentSettled' /\ BatchFirst'
      BY <1>4, SendOrder DEF Send
    <2>2. Contiguous' /\ HeadSettled'
      BY <1>4, Monotone DEF Send, OrderInv, Contiguous, HeadSettled
    <2>3. Head(batch) \in Sigs
      BY <1>4, HeadInSigs DEF Send, IInv, LoopInv
    <2>4. sends'[Head(batch)] > 0
      BY <1>4, <2>3 DEF Send, Sent, IInv, TypeOK
    <2>5. LoopDone'
      BY <1>0, <1>4, <2>4 DEF Send, OrderInv, LoopDone, Done, IInv, TypeOK
    <2> QED
      BY <2>1, <2>2, <2>5 DEF OrderInv
  <1>5. CASE SendThrows
    <2>1. SentSettled'
      BY <1>5, SendOrder DEF SendThrows
    <2>2. LoopDone'
      BY <1>0, <1>5 DEF SendThrows, LoopError, OrderInv, LoopDone, IInv, TypeOK
    <2> QED
      BY <1>5, <2>1, <2>2, EmptyBatchOrder DEF SendThrows, LoopError, OrderInv
  <1>6. CASE SendRejected \/ ConfirmThrows \/ MarkDiskError \/ CrashRestart
    <2>1. batch' = <<>> /\ UNCHANGED sends /\ pc' = "poll"
      BY <1>6, Zenon DEF SendRejected, ConfirmThrows, MarkDiskError, CrashRestart, LoopError
    <2>2. \A d \in processed' : Done(d)
      BY <1>6, Zenon DEF SendRejected, ConfirmThrows, MarkDiskError, CrashRestart, LoopError,
         OrderInv, LoopDone, IInv, LoopInv
    <2>3. LoopDone'
      BY <2>1, <2>2 DEF LoopDone, Done, IsDeposit
    <2> QED
      BY <2>1, <2>3, EmptyBatchOrder, NothingSentOrder DEF OrderInv
  <1> QED
    BY <1>1, <1>2, <1>3, <1>4, <1>5, <1>6 DEF Next, RelayerStep

(* The first transfer for a deposit is sent from the head of the batch, and *)
(* no later deposit was paid by then.                                       *)
LEMMA FirstSendInOrder ==
    ASSUME IInv, OrderInv, [Next]_vars,
           NEW d \in Sigs, sends[d] = 0, sends'[d] > 0, NEW e \in Sigs, e > d
    PROVE  sends[e] = 0
  <1>1. pc = "send" /\ Sent(Head(batch))
    <2>1. CASE Send \/ SendThrows
      BY <2>1 DEF Send, SendThrows
    <2>2. CASE ~(Send \/ SendThrows)
      <3>1. sends' = sends
        BY <2>2, Zenon DEF Next, RelayerStep, ChainStep, Deposit, Poll, SkipProcessed, EndBatch,
           FetchTx, SendRejected, Confirm, ConfirmThrows, Mark, MarkDiskError,
           CrashRestart, Land, Expire, native, vars
      <3> QED
        BY <3>1
    <2> QED
      BY <2>1, <2>2
  <1>2. batch # <<>>
    BY <1>1 DEF IInv, LoopInv
  <1>3. d = Head(batch) /\ Head(batch) = batch[1] /\ 1 \in 1..Len(batch)
    <2>1. Head(batch) \in Sigs
      BY <1>2, HeadInSigs
    <2>2. d = Head(batch)
      BY <1>1, <2>1, SMTT(30) DEF Sent, IInv, TypeOK
    <2> QED
      BY <1>2, <2>2, TailShape
  <1>4. ~Done(d)
    BY <1>1, <1>3 DEF OrderInv, LoopDone, Done
  <1>5. ~(sends[e] > 0)
    BY <1>3, <1>4 DEF OrderInv, BatchFirst
  <1> QED
    BY <1>5, PegAssumption DEF IInv, TypeOK

(* "oldest first so credits happen in order" holds for every backlog,       *)
(* window, crash and exception, as long as getParsedTransaction never       *)
(* answers null for a signature it lists.                                   *)
THEOREM CreditsGoOutInOrder ==
    ASSUME "null" \notin Faults
    PROVE  Spec => CreditsInOrder
  <1>1. IInv /\ OrderInv /\ [Next]_vars => IInv' /\ OrderInv'
    BY NextIInv, NextOrder
  <1>2. IInv /\ OrderInv /\ [Next]_vars
          => [\A d \in Sigs : sends[d] = 0 /\ sends'[d] > 0
                => \A e \in Sigs : e > d => sends[e] = 0]_vars
    BY FirstSendInOrder
  <1> QED
    BY InitIInv, InitOrder, <1>1, <1>2, PTL DEF Spec, CreditsInOrder
=============================================================================
