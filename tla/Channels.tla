------------------------------ MODULE Channels ------------------------------
(***************************************************************************)
(* How Kin puts transactions on the blockchain: Kin.pay, Kin.createWallet, *)
(* getMinimumFee, and the script that creates the channels. A transaction  *)
(* is sent through a channel, an account that lends it its sequence number *)
(* and is held from the first step of a call to its last. Every account    *)
(* (hot and warm wallet of each app, root) of every process has a pool of  *)
(* its own (kin-sdk-node) over the same channels; the blockchain accepts a *)
(* transaction only with the next sequence number and a sufficient fee.    *)
(***************************************************************************)
EXTENDS Naturals, Sequences, FiniteSets

CONSTANTS
    Processes,    \* processes with a Kin, each with a cached minimum fee
    Seeds,        \* Channels.generateSeeds: the channels, the same everywhere
    Calls,        \* calls of pay and createWallet
    Account,      \* Account[c]: the account that pays, see PaymentViews!payingAccount
    NoProcess, NoSeed,
    MaxFee,       \* bound: the minimum fee rises up to it
    MaxCrashes    \* bound: how often a process dies

ASSUME ChannelsAssumption ==
    /\ Seeds # {} /\ NoSeed \notin Seeds
    /\ NoProcess \notin Processes
    /\ DOMAIN Account = Calls
    /\ MaxFee \in Nat \ {0} /\ MaxCrashes \in Nat

VARIABLES
    call,        \* call[c]: where call c is, its process, channel, fee and sequence number
    minFee,      \* minFee[p]: the minimum fee as process p has it, 0 for undefined
    networkFee,  \* the minimum fee of the blockchain
    sequence,    \* sequence[k]: the next number of channel k, 0 if the account is missing
    mempool,     \* the transactions that were sent and are not decided
    ledger,      \* the transactions the blockchain has taken, and whether they did anything
    crashes,     \* how many processes died
    since        \* history: the minimum fee of the blockchain when p started

vars == <<call, minFee, networkFee, sequence, mempool, ledger, crashes, since>>

-----------------------------------------------------------------------------
NoCall == [at |-> "none", proc |-> NoProcess, channel |-> NoSeed, fee |-> 0, seq |-> 0]

\* With a channel, from acquireChannel until its callback settles.
Holding == {"asking", "told", "building", "submitted"}

Refusals == {"failed", "missing", "badSeq", "lowFee"}

GivenUp == {"lost", "died"}

Ends == {"ok"} \cup Refusals \cup GivenUp

CallState ==
    [at : {"none", "waiting"} \cup Holding \cup Ends, proc : Processes \cup {NoProcess},
     channel : Seeds \cup {NoSeed}, fee : 0..MaxFee, seq : Nat]

Transaction == [call : Calls, channel : Seeds, fee : 0..MaxFee, seq : Nat]

Entry == [tx : Transaction, ok : BOOLEAN]

ChannelsTypeOK ==
    /\ call \in [Calls -> CallState]
    /\ minFee \in [Processes -> 0..networkFee] /\ networkFee \in 1..MaxFee
    /\ sequence \in [Seeds -> Nat]
    /\ mempool \subseteq Transaction /\ ledger \in Seq(Entry)
    /\ crashes \in 0..MaxCrashes
    /\ since \in [Processes -> 1..networkFee]

Init ==
    /\ call = [c \in Calls |-> NoCall]
    /\ minFee = [p \in Processes |-> 0] /\ networkFee = 1
    /\ sequence = [k \in Seeds |-> 0]
    /\ mempool = {} /\ ledger = <<>>
    /\ crashes = 0
    /\ since = [p \in Processes |-> 1]

-----------------------------------------------------------------------------
(* Kin.pay, Kin.createWallet, Kin.getMinimumFee. *)

proc(c) == call[c].proc

\* A call that is over. One that the blockchain refused keeps what it was sent with.
Over(c, end) == [NoCall EXCEPT !.at = end, !.proc = proc(c)]

SamePool(c, d) == proc(c) = proc(d) /\ Account[c] = Account[d]

\* Variant for the mutation check: the channel is let go before the submission is over.
HoldsWhileBuilding(c, k) == call[c].channel = k /\ call[c].at \in Holding \ {"submitted"}

Holds(c, k) == call[c].channel = k /\ call[c].at \in Holding

\* Some process calls, for an account that it has: what is thrown before that changes nothing.
Start(c, p) ==
    /\ call[c] = NoCall
    /\ call' = [call EXCEPT ![c].proc = p, ![c].at = "waiting"]
    /\ UNCHANGED <<minFee, networkFee, sequence, mempool, ledger, crashes, since>>

\* Variant for the mutation check: who finds the fee being asked for does not wait for it.
NeedsFeeUnlessAsked(p) ==
    IF minFee[p] = 0 /\ \A d \in Calls : proc(d) = p => call[d].at \notin {"asking", "told"}
      THEN "asking" ELSE "building"

\* getMinimumFee asks the blockchain if there is no fee yet, several calls at once if need be.
NeedsFee(p) == IF minFee[p] = 0 THEN "asking" ELSE "building"

\* acquireChannel: a channel that is free in this pool.
Acquire(c) ==
    /\ call[c].at = "waiting"
    /\ \E k \in Seeds :
         /\ \A d \in Calls : SamePool(c, d) => ~Holds(d, k)
         /\ call' = [call EXCEPT ![c].channel = k, ![c].fee = minFee[proc(c)],
                                 ![c].at = NeedsFee(proc(c))]
    /\ UNCHANGED <<minFee, networkFee, sequence, mempool, ledger, crashes, since>>

\* Variant for the mutation check: a margin is added.
ReadFeeWithMargin(c) ==
    /\ call[c].at = "asking"
    /\ call' = [call EXCEPT ![c].at = "told", ![c].fee = networkFee + 1]
    /\ UNCHANGED <<minFee, networkFee, sequence, mempool, ledger, crashes, since>>

\* The blockchain reads its fee; the answer takes its time.
ReadFee(c) ==
    /\ call[c].at = "asking"
    /\ call' = [call EXCEPT ![c].at = "told", ![c].fee = networkFee]
    /\ UNCHANGED <<minFee, networkFee, sequence, mempool, ledger, crashes, since>>

\* The process keeps the answer that comes last.
GetFee(c) ==
    /\ call[c].at = "told"
    /\ call' = [call EXCEPT ![c].at = "building"]
    /\ minFee' = [minFee EXCEPT ![proc(c)] = call[c].fee]
    /\ UNCHANGED <<networkFee, sequence, mempool, ledger, crashes, since>>

\* Variant for the mutation check: a call whose channel is missing tries again and again.
SubmitAgain(c) ==
    /\ call[c].at = "building" /\ sequence[call[c].channel] = 0
    /\ call' = [call EXCEPT ![c].at = "asking"]
    /\ UNCHANGED <<minFee, networkFee, sequence, mempool, ledger, crashes, since>>

\* buildSendKin or buildCreateAccount loads the channel's account, then submitTransaction
\* sends.
Submit(c) ==
    /\ call[c].at = "building"
    /\ LET k == call[c].channel IN
         IF sequence[k] = 0
           THEN /\ call' = [call EXCEPT ![c] = Over(c, "missing")]
                /\ UNCHANGED mempool
           ELSE /\ call' = [call EXCEPT ![c].at = "submitted", ![c].seq = sequence[k]]
                /\ mempool' = mempool \cup
                     {[call |-> c, channel |-> k, fee |-> call[c].fee, seq |-> sequence[k]]}
    /\ UNCHANGED <<minFee, networkFee, sequence, ledger, crashes, since>>

\* An await before the submission is rejected.
Fails(c) ==
    /\ call[c].at \in {"asking", "told", "building"}
    /\ call' = [call EXCEPT ![c] = Over(c, "failed")]
    /\ UNCHANGED <<minFee, networkFee, sequence, mempool, ledger, crashes, since>>

\* submitTransaction returns the transaction's id.
Return(c) ==
    /\ call[c].at = "submitted"
    /\ \E n \in DOMAIN ledger : ledger[n].tx.call = c
    /\ call' = [call EXCEPT ![c] = Over(c, "ok")]
    /\ UNCHANGED <<minFee, networkFee, sequence, mempool, ledger, crashes, since>>

\* Variant for the mutation check: no answer is taken for a refusal.
LoseAsRefusal(c) ==
    /\ call[c].at = "submitted"
    /\ call' = [call EXCEPT ![c] = Over(c, "failed")]
    /\ UNCHANGED <<minFee, networkFee, sequence, mempool, ledger, crashes, since>>

\* It times out; the transaction may have landed, may still land, or may be refused.
Lose(c) ==
    /\ call[c].at = "submitted"
    /\ call' = [call EXCEPT ![c] = Over(c, "lost")]
    /\ UNCHANGED <<minFee, networkFee, sequence, mempool, ledger, crashes, since>>

-----------------------------------------------------------------------------
(* The blockchain. *)

\* The call of t, if it still waits for the answer, ends with an error.
Answer(t, error) ==
    call' = [call EXCEPT ![t.call].at = IF @ = "submitted" THEN error ELSE @]

\* A transaction is taken. It may fail all the same, for want of funds or because the
\* account to be created exists, and spends its sequence number.
Land(t) ==
    /\ t.seq = sequence[t.channel] /\ t.fee >= networkFee
    /\ sequence' = [sequence EXCEPT ![t.channel] = @ + 1]
    /\ mempool' = mempool \ {t}
    /\ \/ ledger' = Append(ledger, [tx |-> t, ok |-> TRUE]) /\ UNCHANGED call
       \/ ledger' = Append(ledger, [tx |-> t, ok |-> FALSE]) /\ Answer(t, "failed")
    /\ UNCHANGED <<minFee, networkFee, crashes, since>>

Refuse(t) ==
    /\ \/ t.seq # sequence[t.channel] /\ Answer(t, "badSeq")
       \/ t.fee < networkFee /\ Answer(t, "lowFee")
    /\ mempool' = mempool \ {t}
    /\ UNCHANGED <<minFee, networkFee, sequence, ledger, crashes, since>>

RaiseFee ==
    /\ networkFee < MaxFee
    /\ networkFee' = networkFee + 1
    /\ UNCHANGED <<call, minFee, sequence, mempool, ledger, crashes, since>>

-----------------------------------------------------------------------------
(* channelCreation.ts, run by hand before the service, or beside it. It leaves all to the
   SDK's createChannels and awaits one promise for all channels; a run that dies half way
   is one that does no more steps. *)

\* "creating channels if needed": one that is missing.
CreateChannel ==
    /\ \E k \in Seeds : sequence[k] = 0 /\ sequence' = [sequence EXCEPT ![k] = 1]
    /\ UNCHANGED <<call, minFee, networkFee, mempool, ledger, crashes, since>>

-----------------------------------------------------------------------------
\* A process dies and starts again: its calls, pools and fee are gone, what it sent is not.
Crash(p) ==
    /\ crashes < MaxCrashes
    /\ crashes' = crashes + 1
    /\ call' = [c \in Calls |-> IF proc(c) = p /\ call[c].at \notin Ends
                                  THEN Over(c, "died") ELSE call[c]]
    /\ minFee' = [minFee EXCEPT ![p] = 0]
    /\ since' = [since EXCEPT ![p] = networkFee]
    /\ UNCHANGED <<networkFee, sequence, mempool, ledger>>

\* Every call has ended and every transaction is decided.
AtRest ==
    /\ \A c \in Calls : call[c].at \in Ends
    /\ mempool = {}
    /\ UNCHANGED vars

Work(c) ==
    \/ Acquire(c) \/ ReadFee(c) \/ GetFee(c) \/ Submit(c) \/ Fails(c) \/ Return(c) \/ Lose(c)

Next ==
    \/ \E c \in Calls : Work(c) \/ \E p \in Processes : Start(c, p)
    \/ \E t \in mempool : Land(t) \/ Refuse(t)
    \/ RaiseFee \/ CreateChannel
    \/ \E p \in Processes : Crash(p)
    \/ AtRest

Spec == Init /\ [][Next]_vars

\* Every await ends, a submission at the latest with its timeout, and a pool with a free
\* channel gives it to a call that waits.
LiveSpec == Spec /\ \A c \in Calls : WF_vars(Work(c))

-----------------------------------------------------------------------------
(* Properties. *)

\* A sequence number that was taken already was taken through another pool, or by a call of
\* this one that its process knows no end of (acquireChannel is held until the submission
\* is over; the pools of the constructor know nothing of each other).
CollidesOnlyOutside ==
    \A c \in Calls : call[c].at = "badSeq" =>
        \E n \in DOMAIN ledger :
            LET t == ledger[n].tx IN
            /\ t.channel = call[c].channel /\ t.seq = call[c].seq
            /\ ~SamePool(c, t.call) \/ call[t.call].at \in GivenUp

\* No transaction is sent with a fee that was not the blockchain's minimum at some time
\* since the process started, however many calls ask for it at once (getMinimumFee).
FeeWasMinimum ==
    \A c \in Calls : call[c].at \in {"building", "submitted"} =>
        call[c].fee \in since[proc(c)]..networkFee

\* Every call comes to its end, with a pool smaller than the number of calls, whatever is
\* refused or lost (acquireChannel gives the channel back in any case).
CallsEnd == \A c \in Calls : call[c].at = "waiting" ~> call[c].at \in Ends

\* Kin.pay and Kin.createWallet are what PaymentSender and WalletCreator take them for.
Outcome(c) ==
    CASE call[c].at = "none"   -> "none"
      [] call[c].at = "ok"     -> "ok"
      [] call[c].at \in Refusals -> "refused"
      [] call[c].at \in GivenUp  -> "unknown"
      [] OTHER                 -> "open"

\* The places on the ledger with a transaction of c that did what it was to do.
LandedAt(c) == {n \in DOMAIN ledger : ledger[n].tx.call = c /\ ledger[n].ok}

Submissions == INSTANCE Submission WITH
    outcome <- [c \in Calls |-> Outcome(c)],
    landed <- [c \in Calls |-> Cardinality(LandedAt(c))]

KeepsSubmission == Submissions!Spec
=============================================================================
