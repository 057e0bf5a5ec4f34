----------------------------- MODULE PegRelayer -----------------------------
(***************************************************************************)
(* The 1:1 peg bridge of scripts/peg-relayer/index.mjs: a single process    *)
(* polls the treasury's token account on Solana, and for every deposit it   *)
(* has not processed sends the same amount of native BBC from the reserve.  *)
(*                                                                          *)
(* Signatures are numbered 1..chain in the order in which they reached the  *)
(* treasury.  A release transaction is <<d, k>>: the k-th transfer sent for *)
(* deposit d.  The two RPC services and the two chains are external.  What  *)
(* can go wrong around the process is chosen by the constant Faults:        *)
(*   "null"   getParsedTransaction has no transaction yet for a signature   *)
(*   "throw"  a send or a confirmation throws although the transfer is out  *)
(*   "crash"  the process stops between two awaits and is started again     *)
(*   "disk"   saveState fails and leaves the state file cut short           *)
(***************************************************************************)
EXTENDS Integers, Sequences, FiniteSetsExt

CONSTANTS
    N,            \* deposits that may reach the treasury (bound of the model)
    Window,       \* the limit of getSignaturesForAddress, 25 in the code
    Amount,       \* Amount[d]: token units received by the treasury
    Valid,        \* deposits whose memo is a BlackBullChain address
    Scale,        \* SCALE = 10^(9 - TOKEN_DECIMALS)
    Reserve,      \* lamports the genesis put in the bridge reserve
    MaxSends,     \* transfers sent for one deposit (bound of the model)
    Faults

Sigs == 1..N

ASSUME PegAssumption ==
    /\ N \in Nat /\ Window \in Nat \ {0} /\ MaxSends \in Nat \ {0}
    /\ Amount \in [Sigs -> Nat] /\ Scale \in Nat \ {0} /\ Reserve \in Nat
    /\ Valid \subseteq Sigs
    /\ Faults \subseteq {"null", "throw", "crash", "disk"}

VARIABLES
    chain,        \* signatures at the treasury so far
    pc,           \* await at which main() stands
    batch,        \* what is left of sigs.reverse()
    processed,    \* the in-memory set of main()
    file,         \* the set in STATE_FILE; unreadable reads as empty
    sends,        \* sends[d]: transfers handed to the native chain for d
    inflight,     \* transfers that may still land
    landed,       \* transfers executed on the native chain
    failed,       \* transfers included with an execution error
    doubts        \* doubts[d]: times the process forgot a transfer sent for d

relayer == <<pc, batch, processed, file>>
native == <<sends, inflight, landed, failed>>
vars == <<chain, pc, batch, processed, file, sends, inflight, landed, failed,
          doubts>>

Release(d) == <<d, sends[d]>>     \* the latest transfer sent for d

(* parseDeposit: the received amount in lamports; a failed transaction, no  *)
(* positive delta, no memo or a memo that is no address all give null.      *)
IsDeposit(d) == d \in Valid /\ Amount[d] > 0
Lamports(d) == Amount[d] * Scale
Total(deps) == MapThenSumSet(Lamports, deps)
Paid(txs) == MapThenSumSet(LAMBDA t : Lamports(t[1]), txs)
Balance == Reserve - Paid(landed)

Init ==
    /\ chain = 0
    /\ pc = "poll" /\ batch = <<>> /\ processed = {} /\ file = {}
    /\ sends = [d \in Sigs |-> 0]
    /\ inflight = {} /\ landed = {} /\ failed = {}
    /\ doubts = [d \in Sigs |-> 0]

-----------------------------------------------------------------------------
(* A transfer to the treasury is confirmed on Solana.                       *)
Deposit ==
    /\ chain < N
    /\ chain' = chain + 1
    /\ UNCHANGED <<relayer, native, doubts>>

(* Mutant: the batch is walked newest first, as the RPC returns it.         *)
PollNewestFirst ==
    /\ pc = "poll" /\ chain > 0
    /\ LET first == IF chain > Window THEN chain - Window + 1 ELSE 1
       IN batch' = [i \in 1..(chain - first + 1) |-> chain - i + 1]
    /\ pc' = "scan"
    /\ UNCHANGED <<chain, processed, file, native, doubts>>

(* sol.getSignaturesForAddress(ata, {limit: 25}), newest first, reversed.   *)
Poll ==
    /\ pc = "poll" /\ chain > 0
    /\ LET first == IF chain > Window THEN chain - Window + 1 ELSE 1
       IN batch' = [i \in 1..(chain - first + 1) |-> first + i - 1]
    /\ pc' = "scan"
    /\ UNCHANGED <<chain, processed, file, native, doubts>>

(* if (processed.has(signature)) continue                                   *)
SkipProcessed ==
    /\ pc = "scan" /\ batch # <<>> /\ Head(batch) \in processed
    /\ batch' = Tail(batch)
    /\ UNCHANGED <<chain, pc, processed, file, native, doubts>>

(* The loop over the batch is over: sleep, then poll again.                 *)
EndBatch ==
    /\ pc = "scan" /\ batch = <<>>
    /\ pc' = "poll"
    /\ UNCHANGED <<chain, batch, processed, file, native, doubts>>

(* Mutant: a signature in processed is handled again.                       *)
FetchTxAgain ==
    /\ pc = "scan" /\ batch # <<>>
    /\ \/ pc' = IF IsDeposit(Head(batch)) THEN "send" ELSE "mark"
       \/ "null" \in Faults /\ pc' = "mark"
    /\ UNCHANGED <<chain, batch, processed, file, native, doubts>>

(* Mutant: whatever was fetched is taken for something else than a deposit. *)
FetchTxIgnoring ==
    /\ pc = "scan" /\ batch # <<>> /\ Head(batch) \notin processed
    /\ pc' = "mark"
    /\ UNCHANGED <<chain, batch, processed, file, native, doubts>>

(* getParsedTransaction and parseDeposit.  No deposit (or no transaction    *)
(* yet) goes straight to processed.add.                                     *)
FetchTx ==
    /\ pc = "scan" /\ batch # <<>> /\ Head(batch) \notin processed
    /\ \/ pc' = IF IsDeposit(Head(batch)) THEN "send" ELSE "mark"
       \/ "null" \in Faults /\ pc' = "mark"
    /\ UNCHANGED <<chain, batch, processed, file, native, doubts>>

Sent(d) ==
    /\ sends[d] < MaxSends
    /\ sends' = [sends EXCEPT ![d] = @ + 1]
    /\ inflight' = inflight \cup {<<d, sends[d] + 1>>}
    /\ UNCHANGED <<landed, failed>>

Doubt(d) == doubts' = [doubts EXCEPT ![d] = @ + 1]

(* An exception reaches the catch of main(): the rest of the batch is       *)
(* dropped.                                                                 *)
LoopError == pc' = "poll" /\ batch' = <<>> /\ UNCHANGED <<processed, file>>

(* releaseNative up to sendTransaction returning the signature.             *)
Send ==
    /\ pc = "send" /\ Lamports(Head(batch)) <= Balance
    /\ Sent(Head(batch))
    /\ pc' = "confirm"
    /\ UNCHANGED <<chain, batch, processed, file, doubts>>

(* sendTransaction throws in preflight: the reserve cannot pay.             *)
SendRejected ==
    /\ pc = "send" /\ Lamports(Head(batch)) > Balance
    /\ LoopError
    /\ UNCHANGED <<chain, native, doubts>>

(* sendTransaction throws although the node forwarded the transfer.         *)
SendThrows ==
    /\ "throw" \in Faults
    /\ pc = "send" /\ Lamports(Head(batch)) <= Balance
    /\ Sent(Head(batch))
    /\ Doubt(Head(batch))
    /\ LoopError
    /\ UNCHANGED chain

(* confirmTransaction resolves once the transfer is in a block; the err of  *)
(* its value is not looked at.                                              *)
Confirm ==
    /\ pc = "confirm" /\ Release(Head(batch)) \in landed \cup failed
    /\ pc' = "mark"
    /\ UNCHANGED <<chain, batch, processed, file, native, doubts>>

(* confirmTransaction throws: the connection dropped, or the block height   *)
(* passed lastValidBlockHeight.                                             *)
Gone == Release(Head(batch)) \notin inflight \cup landed \cup failed

ConfirmThrows ==
    /\ pc = "confirm"
    /\ "throw" \in Faults \/ Gone
    /\ Doubt(Head(batch))
    /\ LoopError
    /\ UNCHANGED <<chain, native>>

(* processed.add(signature); saveState(processed).                          *)
Mark ==
    /\ pc = "mark"
    /\ processed' = processed \cup {Head(batch)}
    /\ file' = processed'
    /\ pc' = "scan" /\ batch' = Tail(batch)
    /\ UNCHANGED <<chain, native, doubts>>

(* processed.add(signature), then writeFileSync throws: the file is as it   *)
(* was, or cut short so that loadState will not parse it; the rest of the   *)
(* batch is dropped.                                                        *)
MarkDiskError ==
    /\ "disk" \in Faults
    /\ pc = "mark"
    /\ processed' = processed \cup {Head(batch)}
    /\ file' \in {file, {}}
    /\ pc' = "poll" /\ batch' = <<>>
    /\ UNCHANGED <<chain, native, doubts>>

-----------------------------------------------------------------------------
(* The process takes the latest transfer for d into account.               *)
Known(d) == d \in processed \/ (pc \in {"confirm", "mark"} /\ d = Head(batch))

(* The process dies at an await and is started again: loadState.            *)
Forgotten == {d \in Sigs : sends[d] > 0 /\ Known(d) /\ d \notin file}

CrashRestart ==
    /\ "crash" \in Faults
    /\ processed' = file
    /\ pc' = "poll" /\ batch' = <<>>
    /\ doubts' = [d \in Sigs |-> IF d \in Forgotten THEN doubts[d] + 1
                                 ELSE doubts[d]]
    /\ UNCHANGED <<chain, file, native>>

(* The native chain executes a transfer, or includes it with an error when  *)
(* the reserve no longer covers it, or its blockhash expires.               *)
Land(t) ==
    /\ t \in inflight
    /\ inflight' = inflight \ {t}
    /\ IF Lamports(t[1]) <= Balance
       THEN landed' = landed \cup {t} /\ UNCHANGED failed
       ELSE failed' = failed \cup {t} /\ UNCHANGED landed
    /\ UNCHANGED <<chain, relayer, sends, doubts>>

Expire(t) ==
    /\ "throw" \in Faults
    /\ t \in inflight
    /\ inflight' = inflight \ {t}
    /\ UNCHANGED <<chain, relayer, sends, landed, failed, doubts>>

RelayerStep ==
    \/ Poll \/ SkipProcessed \/ EndBatch \/ FetchTx
    \/ Send \/ SendRejected \/ SendThrows
    \/ Confirm \/ ConfirmThrows
    \/ Mark \/ MarkDiskError

ChainStep == \E d \in Sigs, k \in 1..MaxSends : Land(<<d, k>>) \/ Expire(<<d, k>>)

Next == Deposit \/ RelayerStep \/ CrashRestart \/ ChainStep

Spec == Init /\ [][Next]_vars

(* The process keeps running and the native chain keeps including what it   *)
(* was sent; deposits, crashes and faults need not happen.                  *)
Fairness ==
    /\ WF_vars(Poll) /\ WF_vars(SkipProcessed) /\ WF_vars(EndBatch)
    /\ WF_vars(FetchTx) /\ WF_vars(Send) /\ WF_vars(Confirm) /\ WF_vars(Mark)
    /\ WF_vars(ConfirmThrows /\ Gone)
    /\ \A d \in Sigs, k \in 1..MaxSends : WF_vars(Land(<<d, k>>))

FairSpec == Spec /\ Fairness

-----------------------------------------------------------------------------
TypeOK ==
    /\ chain \in 0..N
    /\ pc \in {"poll", "scan", "send", "confirm", "mark"}
    /\ batch \in Seq(Sigs)
    /\ processed \subseteq Sigs /\ file \subseteq Sigs
    /\ sends \in [Sigs -> 0..MaxSends] /\ doubts \in [Sigs -> Nat]
    /\ inflight \subseteq Sigs \X (1..MaxSends)
    /\ landed \subseteq Sigs \X (1..MaxSends)
    /\ failed \subseteq Sigs \X (1..MaxSends)

(* ADR 0002, "Locked $BBC == native BBC in circulation": what main() has    *)
(* released from the reserve never exceeds what is locked in the treasury.  *)
PegHeld == Paid(landed) <= Total({d \in 1..chain : IsDeposit(d)})

(* Every transfer beyond the first one for a deposit is paid for by a throw *)
(* or a crash that made the process forget an earlier one: no path through  *)
(* main(), loadState and saveState releases twice without one.              *)
SendsBounded ==
    \A d \in Sigs : /\ sends[d] <= doubts[d] + 1
                    /\ ~Known(d) => sends[d] <= doubts[d]

(* "oldest first so credits happen in order": the first transfer for a      *)
(* deposit is never sent after a transfer for a later deposit, whatever     *)
(* the window, the aborted batches and the restarts in between.             *)
CreditsInOrder ==
    [][\A d \in Sigs : sends[d] = 0 /\ sends'[d] > 0
          => \A e \in Sigs : e > d => sends[e] = 0]_vars

(* "for each confirmed deposit it sends the same amount of native BBC": once  *)
(* the faults stop, a deposit with a valid memo is paid in the end, unless    *)
(* Window later ones have pushed it out of the listing, the reserve cannot    *)
(* pay it or one before it, or the model sends no more transfers for those.   *)
FaultFree == ~CrashRestart /\ ~SendThrows /\ ~MarkDiskError /\ (ConfirmThrows => Gone)

EachDepositReleased ==
    <>[][FaultFree]_vars =>
        \A d \in Sigs : (d <= chain /\ IsDeposit(d))
                         ~> \/ \E k \in 1..MaxSends : <<d, k>> \in landed
                            \/ chain >= d + Window
                            \/ \E e \in 1..d : Lamports(e) > Balance \/ sends[e] = MaxSends
=============================================================================
