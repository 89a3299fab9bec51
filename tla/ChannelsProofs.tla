---------------------------- MODULE ChannelsProofs ----------------------------
(***************************************************************************)
(* Proofs about Channels: type correctness, the fees, the collisions, and  *)
(* the refinement of Submission, for every set of processes, channels and  *)
(* calls, every account of a call, and every bound.                        *)
(***************************************************************************)
EXTENDS Channels, FiniteSetTheorems, TLAPS

USE ChannelsAssumption

\* A call has a process from its start on, and a channel while it holds one.
CallsAreSomewhere ==
    \A c \in Calls :
        /\ call[c].at = "none" => proc(c) = NoProcess
        /\ call[c].at # "none" => proc(c) \in Processes
        /\ call[c].at \in Holding => call[c].channel \in Seeds

\* No two calls of one pool hold the same channel.
PoolExclusive ==
    \A c, d \in Calls :
        c # d /\ SamePool(c, d) /\ call[c].at \in Holding /\ call[d].at \in Holding =>
            call[c].channel # call[d].channel

\* Every fee that a process keeps, or a call was told, was the minimum since it started.
FeesAreRecent ==
    /\ \A p \in Processes : minFee[p] # 0 => since[p] <= minFee[p]
    /\ \A c \in Calls : call[c].at \in {"told", "building", "submitted"} =>
            call[c].fee \in since[proc(c)]..networkFee

\* What is on its way is the only transaction of a call that waits for it or gave it up,
\* and its sequence number was the channel's.
SentIsWaitedFor ==
    \A t \in mempool :
        /\ call[t.call].at \in {"submitted"} \cup GivenUp
        /\ call[t.call].at = "submitted" =>
               call[t.call].channel = t.channel /\ call[t.call].seq = t.seq
        /\ t.seq \in 1..sequence[t.channel]
        /\ \A u \in mempool : u.call = t.call => u = t
        /\ \A n \in DOMAIN ledger : ledger[n].tx.call # t.call

\* What landed is the only transaction of a call that was not refused if it did anything,
\* and spent a sequence number of its channel.
LandedIsKnown ==
    \A n \in DOMAIN ledger :
        LET t == ledger[n].tx IN
        /\ call[t.call].at \in GivenUp \cup
               (IF ledger[n].ok THEN {"submitted", "ok"} ELSE {"failed"})
        /\ t.seq \in 1..sequence[t.channel] - 1
        /\ \A m \in DOMAIN ledger : ledger[m].tx.call = t.call => m = n

\* Every sequence number below the next one was spent by a transaction that landed.
SpentByLanded ==
    \A k \in Seeds : \A s \in 1..sequence[k] - 1 :
        \E n \in DOMAIN ledger : ledger[n].tx.channel = k /\ ledger[n].tx.seq = s

\* The number that a call submitted with was not spent by another call of its pool that its
\* process knows the end of, or still waits for.
OnlyOutsideSpends ==
    \A c \in Calls, n \in DOMAIN ledger :
        LET t == ledger[n].tx IN
        /\ call[c].at = "submitted" /\ t.call # c /\ SamePool(c, t.call)
        /\ t.channel = call[c].channel /\ t.seq = call[c].seq
        => call[t.call].at \in GivenUp

ChannelsInv ==
    /\ ChannelsTypeOK
    /\ CallsAreSomewhere
    /\ PoolExclusive
    /\ FeesAreRecent
    /\ SentIsWaitedFor
    /\ LandedIsKnown
    /\ SpentByLanded
    /\ OnlyOutsideSpends
    /\ CollidesOnlyOutside

-----------------------------------------------------------------------------
(* The state is well formed. *)

\* The parts of a call, and a call with new ones.
LEMMA CallType ==
    ASSUME ChannelsTypeOK, NEW c \in Calls
    PROVE  /\ call[c] \in CallState
           /\ call[c].at \in {"none", "waiting"} \cup Holding \cup Ends
           /\ call[c].proc \in Processes \cup {NoProcess}
           /\ call[c].channel \in Seeds \cup {NoSeed}
           /\ call[c].fee \in 0..MaxFee
           /\ call[c].seq \in Nat
<1>1. call[c] \in CallState
  BY DEF ChannelsTypeOK
<1> QED
  BY <1>1 DEF CallState

\* The steps of a call keep its record well formed.
LEMMA CallGoes ==
    ASSUME NEW s \in CallState
    PROVE  /\ \A at \in {"none", "waiting"} \cup Holding \cup Ends :
                  [s EXCEPT !.at = at] \in CallState
           /\ \A at \in {"none", "waiting"} \cup Holding \cup Ends, p \in Processes :
                  [s EXCEPT !.proc = p, !.at = at] \in CallState
           /\ \A at \in Ends, p \in Processes \cup {NoProcess} :
                  [s EXCEPT !.at = at, !.proc = p] \in CallState
           /\ \A at \in {"none", "waiting"} \cup Holding \cup Ends, f \in 0..MaxFee :
                  [s EXCEPT !.at = at, !.fee = f] \in CallState
           /\ \A at \in {"none", "waiting"} \cup Holding \cup Ends, q \in Nat :
                  [s EXCEPT !.at = at, !.seq = q] \in CallState
           /\ \A k \in Seeds, f \in 0..MaxFee :
                \A at \in {"none", "waiting"} \cup Holding \cup Ends :
                  [s EXCEPT !.channel = k, !.fee = f, !.at = at] \in CallState
BY DEF CallState

\* A call that is over is well formed, whatever its end.
LEMMA OverType ==
    ASSUME ChannelsTypeOK, NEW c \in Calls, NEW end \in Ends
    PROVE  Over(c, end) \in CallState
<1>1. proc(c) \in Processes \cup {NoProcess}
  BY CallType DEF proc
<1>2. NoCall \in CallState
  BY DEF NoCall, CallState
<1> QED
  BY <1>1, <1>2, CallGoes DEF Over

\* How the calls change in a step of one call.
LEMMA WorkChanges ==
    ASSUME ChannelsInv, NEW c \in Calls, Work(c) \/ \E p \in Processes : Start(c, p)
    PROVE  \E s \in CallState : call' = [call EXCEPT ![c] = s]
<1>1. /\ ChannelsTypeOK
      /\ call[c] \in CallState
      /\ call[c].at # "none" => proc(c) \in Processes
  BY CallType DEF ChannelsInv, CallsAreSomewhere
<1>2. ASSUME NEW k \in Seeds,
             call' = [call EXCEPT ![c].channel = k, ![c].fee = minFee[proc(c)],
                                  ![c].at = NeedsFee(proc(c))],
             call[c].at = "waiting"
      PROVE  \E s \in CallState : call' = [call EXCEPT ![c] = s]
  <2> DEFINE f == minFee[proc(c)]
             at == NeedsFee(proc(c))
  <2>1. f \in 0..MaxFee
    <3>1. minFee \in [Processes -> 0..MaxFee]
      BY <1>1 DEF ChannelsTypeOK
    <3> QED
      BY <1>1, <1>2, <3>1
  <2>2. at \in Holding
    BY DEF NeedsFee, Holding
  <2>3. [call[c] EXCEPT !.channel = k, !.fee = f, !.at = at] \in CallState
    BY <1>1, <2>1, <2>2, CallGoes
  <2>4. call' = [call EXCEPT ![c] = [call[c] EXCEPT !.channel = k, !.fee = f, !.at = at]]
    BY <1>1, <1>2 DEF ChannelsTypeOK
  <2> QED
    BY <2>3, <2>4
<1>3. CASE Acquire(c)
  BY <1>2, <1>3 DEF Acquire
<1>4. CASE ReadFee(c)
  <2>0. networkFee \in 0..MaxFee
    BY <1>1 DEF ChannelsTypeOK
  <2>1. [call[c] EXCEPT !.at = "told", !.fee = networkFee] \in CallState
    BY <1>1, <2>0, CallGoes DEF Holding
  <2>2. call' = [call EXCEPT ![c] = [call[c] EXCEPT !.at = "told", !.fee = networkFee]]
    BY <1>4 DEF ReadFee
  <2> QED
    BY <2>1, <2>2
<1>5. CASE GetFee(c)
  <2>1. [call[c] EXCEPT !.at = "building"] \in CallState
    BY <1>1, CallGoes DEF Holding
  <2>2. call' = [call EXCEPT ![c] = [call[c] EXCEPT !.at = "building"]]
    BY <1>5 DEF GetFee
  <2> QED
    BY <2>1, <2>2
<1>6. CASE Submit(c)
  <2> DEFINE q == sequence[call[c].channel]
  <2>1. call[c].channel \in Seeds
    BY <1>6 DEF ChannelsInv, CallsAreSomewhere, Submit, Holding
  <2>2. q \in Nat
    <3>1. sequence \in [Seeds -> Nat]
      BY <1>1 DEF ChannelsTypeOK
    <3> QED
      BY <2>1, <3>1
  <2>3. [call[c] EXCEPT !.at = "submitted", !.seq = q] \in CallState
    BY <1>1, <2>2, CallGoes DEF Holding
  <2>4. Over(c, "missing") \in CallState
    BY <1>1, OverType DEF Ends, Refusals
  <2>5. \/ call' = [call EXCEPT ![c] = Over(c, "missing")]
        \/ call' = [call EXCEPT ![c] = [call[c] EXCEPT !.at = "submitted", !.seq = q]]
    BY <1>6 DEF Submit
  <2> QED
    BY <2>3, <2>4, <2>5
<1>7. CASE Fails(c) \/ Return(c) \/ Lose(c)
  <2>1. PICK end \in {"failed", "ok", "lost"} : call' = [call EXCEPT ![c] = Over(c, end)]
    BY <1>7 DEF Fails, Return, Lose
  <2> QED
    BY <1>1, <2>1, OverType DEF Ends, Refusals, GivenUp
<1>8. CASE \E p \in Processes : Start(c, p)
  <2>1. PICK p \in Processes : Start(c, p)
    BY <1>8
  <2>2. [call[c] EXCEPT !.proc = p, !.at = "waiting"] \in CallState
    BY <1>1, CallGoes
  <2>3. call' = [call EXCEPT ![c] = [call[c] EXCEPT !.proc = p, !.at = "waiting"]]
    BY <2>1 DEF Start
  <2> QED
    BY <2>2, <2>3
<1> QED
  BY <1>3, <1>4, <1>5, <1>6, <1>7, <1>8 DEF Work

\* A step of a call keeps the state well formed.
LEMMA WorkType ==
    ASSUME ChannelsInv, NEW c \in Calls, Work(c) \/ \E p \in Processes : Start(c, p)
    PROVE  ChannelsTypeOK'
<1>1. ChannelsTypeOK
  BY DEF ChannelsInv
<1>2. call' \in [Calls -> CallState]
  BY <1>1, WorkChanges DEF ChannelsTypeOK
<1>3. UNCHANGED <<networkFee, sequence, ledger, crashes, since>>
  BY DEF Work, Start, Acquire, ReadFee, GetFee, Submit, Fails, Return, Lose
<1>4. minFee' \in [Processes -> 0..networkFee]
  <2>1. CASE GetFee(c)
    <3>1. call[c].fee \in 0..networkFee
      <4>1. call[c].fee \in since[proc(c)]..networkFee /\ proc(c) \in Processes
        BY <2>1 DEF ChannelsInv, FeesAreRecent, CallsAreSomewhere, GetFee
      <4>2. since[proc(c)] \in 1..networkFee /\ networkFee \in Nat
        BY <1>1, <4>1 DEF ChannelsTypeOK
      <4> QED
        BY <4>1, <4>2
    <3> QED
      BY <1>1, <2>1, <3>1 DEF GetFee, ChannelsTypeOK
  <2>2. CASE ~GetFee(c)
    BY <1>1, <2>2 DEF ChannelsTypeOK, Work, Start, Acquire, ReadFee, Submit, Fails, Return, Lose
  <2> QED
    BY <2>1, <2>2
<1>5. mempool' \subseteq Transaction
  <2>1. CASE Submit(c)
    <3> DEFINE k == call[c].channel
    <3>1. k \in Seeds
      BY <2>1 DEF ChannelsInv, CallsAreSomewhere, Submit, Holding
    <3>2. [call |-> c, channel |-> k, fee |-> call[c].fee, seq |-> sequence[k]] \in Transaction
      BY <1>1, <3>1, CallType DEF Transaction, ChannelsTypeOK
    <3> QED
      BY <1>1, <2>1, <3>2 DEF Submit, ChannelsTypeOK
  <2>2. CASE ~Submit(c)
    BY <1>1, <2>2 DEF ChannelsTypeOK, Work, Start, Acquire, ReadFee, GetFee, Fails, Return, Lose
  <2> QED
    BY <2>1, <2>2
<1> QED
  BY <1>1, <1>2, <1>3, <1>4, <1>5 DEF ChannelsTypeOK

\* The answer to a call keeps the calls well formed and is for it alone.
LEMMA AnswerType ==
    ASSUME ChannelsTypeOK, NEW t \in mempool, NEW error \in Refusals, Answer(t, error)
    PROVE  /\ call' \in [Calls -> CallState]
           /\ t.call \in Calls
           /\ \A d \in Calls : d # t.call => call'[d] = call[d]
           /\ call'[t.call] = [call[t.call] EXCEPT
                    !.at = IF call[t.call].at = "submitted" THEN error ELSE @]
<1> DEFINE c == t.call
           at == IF call[c].at = "submitted" THEN error ELSE call[c].at
<1>1. c \in Calls
  BY DEF ChannelsTypeOK, Transaction
<1>2. at \in {"none", "waiting"} \cup Holding \cup Ends
  BY <1>1, CallType DEF Ends
<1>3. [call[c] EXCEPT !.at = at] \in CallState
  BY <1>1, <1>2, CallType, CallGoes
<1>4. call' = [call EXCEPT ![c] = [call[c] EXCEPT !.at = at]]
  BY DEF Answer
<1> QED
  BY <1>1, <1>3, <1>4 DEF ChannelsTypeOK

\* What the ledger holds after a transaction has landed.
LEMMA Appended ==
    ASSUME ChannelsTypeOK, NEW e \in Entry, ledger' = Append(ledger, e)
    PROVE  /\ ledger' \in Seq(Entry)
           /\ DOMAIN ledger = 1..Len(ledger)
           /\ DOMAIN ledger' = DOMAIN ledger \cup {Len(ledger) + 1}
           /\ Len(ledger) + 1 \notin DOMAIN ledger
           /\ ledger'[Len(ledger) + 1] = e
           /\ \A n \in DOMAIN ledger : ledger'[n] = ledger[n] /\ ledger[n] \in Entry
BY DEF ChannelsTypeOK

\* A step of the blockchain on a transaction keeps the state well formed.
LEMMA DecideType ==
    ASSUME ChannelsTypeOK, NEW t \in mempool, Land(t) \/ Refuse(t)
    PROVE  ChannelsTypeOK'
<1>1. t \in Transaction
  BY DEF ChannelsTypeOK
<1>2. CASE Land(t)
  <2>1. PICK ok \in BOOLEAN : ledger' = Append(ledger, [tx |-> t, ok |-> ok])
    BY <1>2 DEF Land
  <2>2. [tx |-> t, ok |-> ok] \in Entry
    BY <1>1 DEF Entry
  <2>3. ledger' \in Seq(Entry)
    BY <2>1, <2>2, Appended
  <2>4. call' = call \/ Answer(t, "failed")
    BY <1>2 DEF Land
  <2>5. call' \in [Calls -> CallState]
    BY <2>4, AnswerType DEF ChannelsTypeOK, Refusals
  <2> QED
    BY <1>1, <1>2, <2>3, <2>5 DEF Land, ChannelsTypeOK, Transaction
<1>3. CASE Refuse(t)
  <2>1. Answer(t, "badSeq") \/ Answer(t, "lowFee")
    BY <1>3 DEF Refuse
  <2>2. call' \in [Calls -> CallState]
    BY <2>1, AnswerType DEF Refusals
  <2> QED
    BY <1>3, <2>2 DEF Refuse, ChannelsTypeOK
<1> QED
  BY <1>2, <1>3

\* The other steps keep the state well formed.
LEMMA RestType ==
    ASSUME ChannelsTypeOK,
           RaiseFee \/ CreateChannel \/ \E p \in Processes : Crash(p)
    PROVE  ChannelsTypeOK'
<1>1. CASE RaiseFee
  <2>1. networkFee \in 1..MaxFee /\ networkFee' = networkFee + 1 /\ networkFee' \in 1..MaxFee
    BY <1>1 DEF RaiseFee, ChannelsTypeOK
  <2>2. minFee' \in [Processes -> 0..networkFee']
    BY <1>1, <2>1 DEF RaiseFee, ChannelsTypeOK
  <2>3. since' \in [Processes -> 1..networkFee']
    BY <1>1, <2>1 DEF RaiseFee, ChannelsTypeOK
  <2> QED
    BY <1>1, <2>1, <2>2, <2>3 DEF RaiseFee, ChannelsTypeOK
<1>2. CASE CreateChannel
  BY <1>2 DEF CreateChannel, ChannelsTypeOK
<1>3. CASE \E p \in Processes : Crash(p)
  <2>1. PICK p \in Processes : Crash(p)
    BY <1>3
  <2>2. \A c \in Calls : Over(c, "died") \in CallState
    BY OverType DEF Ends, GivenUp
  <2>3. call' \in [Calls -> CallState]
    BY <2>1, <2>2 DEF Crash, ChannelsTypeOK
  <2>4. minFee' \in [Processes -> 0..networkFee] /\ since' \in [Processes -> 1..networkFee]
    BY <2>1 DEF Crash, ChannelsTypeOK
  <2> QED
    BY <2>1, <2>3, <2>4 DEF Crash, ChannelsTypeOK
<1> QED
  BY <1>1, <1>2, <1>3

\* Every step keeps the state well formed.
LEMMA ChannelsTypeStep ==
    ASSUME ChannelsInv, Next
    PROVE  ChannelsTypeOK'
<1>1. ChannelsTypeOK
  BY DEF ChannelsInv
<1>2. CASE AtRest
  BY <1>1, <1>2 DEF AtRest, vars, ChannelsTypeOK
<1> QED
  BY <1>1, <1>2, WorkType, DecideType, RestType DEF Next

-----------------------------------------------------------------------------
(* What each step does to the calls. *)

\* The fields of a call after an update.
LEMMA Fields ==
    ASSUME NEW s \in CallState
    PROVE  /\ \A a : LET r == [s EXCEPT !.at = a] IN
                  r.at = a /\ r.proc = s.proc /\ r.channel = s.channel /\ r.fee = s.fee
                    /\ r.seq = s.seq
           /\ \A a, p : LET r == [s EXCEPT !.proc = p, !.at = a] IN r.at = a /\ r.proc = p
           /\ \A a, p : LET r == [s EXCEPT !.at = a, !.proc = p] IN r.at = a /\ r.proc = p
           /\ \A a, f : LET r == [s EXCEPT !.at = a, !.fee = f] IN
                  r.at = a /\ r.proc = s.proc /\ r.channel = s.channel /\ r.fee = f
           /\ \A a, q : LET r == [s EXCEPT !.at = a, !.seq = q] IN
                  r.at = a /\ r.proc = s.proc /\ r.channel = s.channel /\ r.fee = s.fee
                    /\ r.seq = q
           /\ \A k, f, a : LET r == [s EXCEPT !.channel = k, !.fee = f, !.at = a] IN
                  r.at = a /\ r.proc = s.proc /\ r.channel = k /\ r.fee = f
BY DEF CallState

\* What is left of a call when it is over.
LEMMA OverIs ==
    ASSUME NEW c, NEW end
    PROVE  Over(c, end).at = end /\ Over(c, end).proc = call[c].proc
<1>1. NoCall \in CallState
  BY DEF NoCall, CallState
<1> QED
  BY <1>1, Fields DEF Over, proc

\* A call starts.
LEMMA StartMoves ==
    ASSUME ChannelsInv, NEW c \in Calls, NEW p \in Processes, Start(c, p)
    PROVE  /\ \A d \in Calls : d # c => call'[d] = call[d]
           /\ call[c].at = "none" /\ call'[c].at = "waiting" /\ call'[c].proc = p
           /\ UNCHANGED <<minFee, networkFee, sequence, mempool, ledger, crashes, since>>
<1>1. call \in [Calls -> CallState] /\ call[c] = NoCall
  BY DEF ChannelsInv, ChannelsTypeOK, Start
<1>2. call' = [call EXCEPT ![c] = [call[c] EXCEPT !.proc = p, !.at = "waiting"]]
  BY DEF Start
<1>3. call'[c] = [call[c] EXCEPT !.proc = p, !.at = "waiting"]
  BY <1>1, <1>2
<1>4. call'[c].at = "waiting" /\ call'[c].proc = p
  BY <1>1, <1>3, Fields
<1> QED
  BY <1>1, <1>2, <1>4 DEF Start, NoCall

\* A call takes a channel.
LEMMA AcquireMoves ==
    ASSUME ChannelsInv, NEW c \in Calls, Acquire(c)
    PROVE  /\ \A d \in Calls : d # c => call'[d] = call[d]
           /\ call[c].at = "waiting" /\ call'[c].at = NeedsFee(proc(c))
           /\ call'[c].proc = call[c].proc /\ call'[c].fee = minFee[proc(c)]
           /\ call'[c].channel \in Seeds
           /\ \A d \in Calls : SamePool(c, d) => ~Holds(d, call'[c].channel)
           /\ UNCHANGED <<minFee, networkFee, sequence, mempool, ledger, crashes, since>>
<1>1. call \in [Calls -> CallState] /\ call[c].at = "waiting"
  BY DEF ChannelsInv, ChannelsTypeOK, Acquire
<1> DEFINE a == NeedsFee(proc(c))
           f == minFee[proc(c)]
<1>2. PICK k \in Seeds :
        /\ \A d \in Calls : SamePool(c, d) => ~Holds(d, k)
        /\ call' = [call EXCEPT ![c] = [call[c] EXCEPT !.channel = k, !.fee = f, !.at = a]]
  BY <1>1 DEF Acquire
<1>3. call'[c] = [call[c] EXCEPT !.channel = k, !.fee = f, !.at = a]
  BY <1>1, <1>2
<1>4. call'[c].at = a /\ call'[c].proc = call[c].proc /\ call'[c].fee = f
        /\ call'[c].channel = k
  BY <1>1, <1>3, Fields
<1> QED
  BY <1>1, <1>2, <1>4 DEF Acquire

\* A call is told the fee, and its process keeps it.
LEMMA FeeMoves ==
    ASSUME ChannelsInv, NEW c \in Calls, ReadFee(c) \/ GetFee(c)
    PROVE  /\ \A d \in Calls : d # c => call'[d] = call[d]
           /\ call[c].at = (IF ReadFee(c) THEN "asking" ELSE "told")
           /\ call'[c].at = (IF ReadFee(c) THEN "told" ELSE "building")
           /\ call'[c].fee = (IF ReadFee(c) THEN networkFee ELSE call[c].fee)
           /\ call'[c].proc = call[c].proc /\ call'[c].channel = call[c].channel
           /\ minFee' = IF ReadFee(c) THEN minFee ELSE [minFee EXCEPT ![proc(c)] = call[c].fee]
           /\ UNCHANGED <<networkFee, sequence, mempool, ledger, crashes, since>>
<1>1. call \in [Calls -> CallState]
  BY DEF ChannelsInv, ChannelsTypeOK
<1>2. CASE ReadFee(c)
  <2>1. call' = [call EXCEPT ![c] = [call[c] EXCEPT !.at = "told", !.fee = networkFee]]
    BY <1>2 DEF ReadFee
  <2>2. call'[c] = [call[c] EXCEPT !.at = "told", !.fee = networkFee]
    BY <1>1, <2>1
  <2> QED
    BY <1>1, <1>2, <2>1, <2>2, Fields DEF ReadFee
<1>3. CASE ~ReadFee(c)
  <2>1. GetFee(c)
    BY <1>3
  <2>2. call' = [call EXCEPT ![c] = [call[c] EXCEPT !.at = "building"]]
    BY <2>1 DEF GetFee
  <2>3. call'[c] = [call[c] EXCEPT !.at = "building"]
    BY <1>1, <2>2
  <2> QED
    BY <1>1, <1>3, <2>1, <2>2, <2>3, Fields DEF GetFee
<1> QED
  BY <1>2, <1>3

\* The transaction of a call that submits.
SentBy(c) ==
    [call |-> c, channel |-> call[c].channel, fee |-> call[c].fee,
     seq |-> sequence[call[c].channel]]

\* A call sends its transaction.
LEMMA SendMoves ==
    ASSUME ChannelsInv, NEW c \in Calls, Submit(c), sequence[call[c].channel] # 0
    PROVE  /\ \A d \in Calls : d # c => call'[d] = call[d]
           /\ call[c].at = "building" /\ call'[c].at = "submitted"
           /\ call'[c].proc = call[c].proc /\ call'[c].channel = call[c].channel
           /\ call'[c].fee = call[c].fee /\ call'[c].seq = sequence[call[c].channel]
           /\ mempool' = mempool \cup {SentBy(c)}
           /\ UNCHANGED <<minFee, networkFee, sequence, ledger, crashes, since>>
<1>1. call \in [Calls -> CallState]
  BY DEF ChannelsInv, ChannelsTypeOK
<1> DEFINE q == sequence[call[c].channel]
<1>2. call' = [call EXCEPT ![c] = [call[c] EXCEPT !.at = "submitted", !.seq = q]]
  BY DEF Submit
<1>3. call'[c] = [call[c] EXCEPT !.at = "submitted", !.seq = q]
  BY <1>1, <1>2
<1> QED
  BY <1>1, <1>2, <1>3, Fields DEF Submit, SentBy

\* Whether c ends in this step.
EndsNow(c) ==
    \/ Submit(c) /\ sequence[call[c].channel] = 0
    \/ Fails(c) \/ Return(c) \/ Lose(c)

\* A call ends by itself.
LEMMA EndMoves ==
    ASSUME ChannelsInv, NEW c \in Calls, EndsNow(c)
    PROVE  /\ \A d \in Calls : d # c => call'[d] = call[d]
           /\ call'[c].proc = call[c].proc
           /\ \/ call[c].at = "building" /\ call'[c].at = "missing"
                   /\ sequence[call[c].channel] = 0
              \/ call[c].at \in {"asking", "told", "building"} /\ call'[c].at = "failed"
              \/ call[c].at = "submitted" /\ call'[c].at = "lost"
              \/ /\ call[c].at = "submitted" /\ call'[c].at = "ok"
                 /\ \E n \in DOMAIN ledger : ledger[n].tx.call = c
           /\ UNCHANGED <<minFee, networkFee, sequence, mempool, ledger, crashes, since>>
<1>1. call \in [Calls -> CallState]
  BY DEF ChannelsInv, ChannelsTypeOK
<1>2. CASE Submit(c) /\ sequence[call[c].channel] = 0
  <2>1. call' = [call EXCEPT ![c] = Over(c, "missing")]
    BY <1>2 DEF Submit
  <2> QED
    BY <1>1, <1>2, <2>1, OverIs DEF Submit
<1>3. CASE Fails(c)
  BY <1>1, <1>3, OverIs DEF Fails
<1>4. CASE Return(c)
  BY <1>1, <1>4, OverIs DEF Return
<1>5. CASE Lose(c)
  BY <1>1, <1>5, OverIs DEF Lose
<1> QED
  BY <1>2, <1>3, <1>4, <1>5 DEF EndsNow

\* A transaction lands.
LEMMA LandMoves ==
    ASSUME ChannelsInv, NEW t \in mempool, Land(t)
    PROVE  /\ t \in Transaction
           /\ \A d \in Calls : d # t.call => call'[d] = call[d]
           /\ \A d \in Calls : call'[d].proc = call[d].proc /\ call'[d].channel = call[d].channel
                /\ call'[d].fee = call[d].fee /\ call'[d].seq = call[d].seq
           /\ \E ok \in BOOLEAN :
                /\ ledger' = Append(ledger, [tx |-> t, ok |-> ok])
                /\ [tx |-> t, ok |-> ok] \in Entry
                /\ call'[t.call].at =
                     IF ~ok /\ call[t.call].at = "submitted" THEN "failed" ELSE call[t.call].at
           /\ t.seq = sequence[t.channel]
           /\ sequence' = [sequence EXCEPT ![t.channel] = @ + 1]
           /\ mempool' = mempool \ {t}
           /\ UNCHANGED <<minFee, networkFee, crashes, since>>
<1>1. ChannelsTypeOK /\ call \in [Calls -> CallState] /\ t \in Transaction
  BY DEF ChannelsInv, ChannelsTypeOK
<1>2. t.call \in Calls
  BY <1>1 DEF Transaction
<1>3. CASE ledger' = Append(ledger, [tx |-> t, ok |-> TRUE]) /\ UNCHANGED call
  <2>1. [tx |-> t, ok |-> TRUE] \in Entry
    BY <1>1 DEF Entry
  <2> QED
    BY <1>1, <1>3, <2>1 DEF Land
<1>4. CASE ledger' = Append(ledger, [tx |-> t, ok |-> FALSE]) /\ Answer(t, "failed")
  <2>1. [tx |-> t, ok |-> FALSE] \in Entry
    BY <1>1 DEF Entry
  <2>2. /\ \A d \in Calls : d # t.call => call'[d] = call[d]
        /\ call'[t.call] = [call[t.call] EXCEPT
                 !.at = IF call[t.call].at = "submitted" THEN "failed" ELSE @]
    BY <1>1, <1>4, AnswerType DEF Refusals
  <2>3. /\ call'[t.call].at = IF call[t.call].at = "submitted" THEN "failed" ELSE call[t.call].at
        /\ call'[t.call].proc = call[t.call].proc
        /\ call'[t.call].channel = call[t.call].channel
        /\ call'[t.call].fee = call[t.call].fee /\ call'[t.call].seq = call[t.call].seq
    BY <1>1, <1>2, <2>2, Fields
  <2> QED
    BY <1>1, <1>4, <2>1, <2>2, <2>3 DEF Land
<1> QED
  BY <1>3, <1>4 DEF Land

\* A transaction is refused.
LEMMA RefuseMoves ==
    ASSUME ChannelsInv, NEW t \in mempool, Refuse(t)
    PROVE  /\ t \in Transaction
           /\ \A d \in Calls : d # t.call => call'[d] = call[d]
           /\ \A d \in Calls : call'[d].proc = call[d].proc /\ call'[d].channel = call[d].channel
                /\ call'[d].fee = call[d].fee /\ call'[d].seq = call[d].seq
           /\ \/ /\ t.seq # sequence[t.channel]
                 /\ call'[t.call].at =
                      IF call[t.call].at = "submitted" THEN "badSeq" ELSE call[t.call].at
              \/ call'[t.call].at =
                   IF call[t.call].at = "submitted" THEN "lowFee" ELSE call[t.call].at
           /\ mempool' = mempool \ {t}
           /\ UNCHANGED <<minFee, networkFee, sequence, ledger, crashes, since>>
<1>1. ChannelsTypeOK /\ call \in [Calls -> CallState] /\ t \in Transaction
  BY DEF ChannelsInv, ChannelsTypeOK
<1>2. t.call \in Calls
  BY <1>1 DEF Transaction
<1>3. ASSUME NEW error \in Refusals, Answer(t, error)
      PROVE  /\ \A d \in Calls : d # t.call => call'[d] = call[d]
             /\ call'[t.call].at = IF call[t.call].at = "submitted" THEN error ELSE call[t.call].at
             /\ call'[t.call].proc = call[t.call].proc
             /\ call'[t.call].channel = call[t.call].channel
             /\ call'[t.call].fee = call[t.call].fee /\ call'[t.call].seq = call[t.call].seq
  <2>1. /\ \A d \in Calls : d # t.call => call'[d] = call[d]
        /\ call'[t.call] = [call[t.call] EXCEPT
                 !.at = IF call[t.call].at = "submitted" THEN error ELSE @]
    BY <1>1, <1>3, AnswerType
  <2> QED
    BY <1>1, <1>2, <2>1, Fields
<1>4. \/ t.seq # sequence[t.channel] /\ Answer(t, "badSeq")
      \/ Answer(t, "lowFee")
  BY DEF Refuse
<1> QED
  BY <1>1, <1>3, <1>4 DEF Refuse, Refusals

\* What the blockchain decides changes nothing else in a call, and in no other call.
LEMMA DecideMoves ==
    ASSUME ChannelsInv, NEW t \in mempool, Land(t) \/ Refuse(t)
    PROVE  /\ \A d \in Calls :
                /\ call'[d].proc = call[d].proc /\ call'[d].channel = call[d].channel
                /\ call'[d].fee = call[d].fee
                /\ \/ call'[d].at = call[d].at
                   \/ call[d].at = "submitted" /\ call'[d].at \in {"failed", "badSeq", "lowFee"}
           /\ UNCHANGED <<minFee, networkFee, crashes, since>>
<1>1. t.call \in Calls
  BY DEF ChannelsInv, ChannelsTypeOK, Transaction
<1>2. CASE Land(t)
  <2>1. PICK ok \in BOOLEAN : call'[t.call].at =
              IF ~ok /\ call[t.call].at = "submitted" THEN "failed" ELSE call[t.call].at
    BY <1>2, LandMoves
  <2>2. \A d \in Calls : \/ call'[d].at = call[d].at
                         \/ call[d].at = "submitted" /\ call'[d].at = "failed"
    BY <1>1, <1>2, <2>1, LandMoves
  <2> QED
    BY <1>2, <2>2, LandMoves
<1>3. CASE Refuse(t)
  BY <1>1, <1>3, RefuseMoves
<1> QED
  BY <1>2, <1>3

\* A process dies.
LEMMA CrashMoves ==
    ASSUME ChannelsInv, NEW p \in Processes, Crash(p)
    PROVE  /\ \A d \in Calls :
                IF call[d].proc = p /\ call[d].at \notin Ends
                  THEN call'[d].at = "died" /\ call'[d].proc = p
                  ELSE call'[d] = call[d]
           /\ minFee' = [minFee EXCEPT ![p] = 0]
           /\ since' = [since EXCEPT ![p] = networkFee]
           /\ UNCHANGED <<networkFee, sequence, mempool, ledger>>
BY OverIs DEF Crash, proc

\* Every step is one of these.
LEMMA Moves ==
    ASSUME [Next]_vars
    PROVE  \/ \E c \in Calls, p \in Processes : Start(c, p)
           \/ \E c \in Calls : Acquire(c)
           \/ \E c \in Calls : ReadFee(c) \/ GetFee(c)
           \/ \E c \in Calls : Submit(c) /\ sequence[call[c].channel] # 0
           \/ \E c \in Calls : EndsNow(c)
           \/ \E t \in mempool : Land(t)
           \/ \E t \in mempool : Refuse(t)
           \/ RaiseFee \/ CreateChannel
           \/ \E p \in Processes : Crash(p)
           \/ UNCHANGED vars
BY DEF Next, Work, EndsNow, AtRest

-----------------------------------------------------------------------------
(* The inductive invariant. *)

\* A call that has started has a process, one that holds a channel has it.
LEMMA SomewhereStep ==
    ASSUME ChannelsInv, [Next]_vars
    PROVE  CallsAreSomewhere'
<1> USE DEF CallsAreSomewhere, Holding, Ends, Refusals, GivenUp, proc
<1>1. ChannelsInv /\ ChannelsTypeOK /\ CallsAreSomewhere /\ CallsAreSomewhere
  BY DEF ChannelsInv
<1>2. CASE \E c \in Calls, p \in Processes : Start(c, p)
  BY <1>1, <1>2, StartMoves
<1>3. CASE \E c \in Calls : Acquire(c)
  BY <1>1, <1>3, AcquireMoves DEF NeedsFee
<1>4. CASE \E c \in Calls : ReadFee(c) \/ GetFee(c)
  BY <1>1, <1>4, FeeMoves
<1>5. CASE \E c \in Calls : Submit(c) /\ sequence[call[c].channel] # 0
  BY <1>1, <1>5, SendMoves
<1>6. CASE \E c \in Calls : EndsNow(c)
  BY <1>1, <1>6, EndMoves
<1>7. CASE \E t \in mempool : Land(t)
  BY <1>1, <1>7, DecideMoves
<1>8. CASE \E t \in mempool : Refuse(t)
  BY <1>1, <1>8, DecideMoves
<1>9. CASE RaiseFee \/ CreateChannel
  BY <1>1, <1>9 DEF RaiseFee, CreateChannel
<1>10. CASE \E p \in Processes : Crash(p)
  BY <1>1, <1>10, CrashMoves
<1>11. CASE UNCHANGED vars
  BY <1>1, <1>11 DEF vars
<1> QED
  BY <1>2, <1>3, <1>4, <1>5, <1>6, <1>7, <1>8, <1>9, <1>10, <1>11, Moves

\* acquireChannel gives no channel of a pool twice.
LEMMA PoolStep ==
    ASSUME ChannelsInv, [Next]_vars
    PROVE  PoolExclusive'
<1> USE DEF PoolExclusive, SamePool, Holds, Holding, Ends, Refusals, GivenUp, proc
<1>1. ChannelsInv /\ ChannelsTypeOK /\ CallsAreSomewhere /\ PoolExclusive
  BY DEF ChannelsInv
<1>2. CASE \E c \in Calls, p \in Processes : Start(c, p)
  BY <1>1, <1>2, StartMoves
<1>3. CASE \E c \in Calls : Acquire(c)
  BY <1>1, <1>3, AcquireMoves DEF NeedsFee
<1>4. CASE \E c \in Calls : ReadFee(c) \/ GetFee(c)
  BY <1>1, <1>4, FeeMoves
<1>5. CASE \E c \in Calls : Submit(c) /\ sequence[call[c].channel] # 0
  BY <1>1, <1>5, SendMoves
<1>6. CASE \E c \in Calls : EndsNow(c)
  BY <1>1, <1>6, EndMoves
<1>7. CASE \E t \in mempool : Land(t)
  BY <1>1, <1>7, DecideMoves
<1>8. CASE \E t \in mempool : Refuse(t)
  BY <1>1, <1>8, DecideMoves
<1>9. CASE RaiseFee \/ CreateChannel
  BY <1>1, <1>9 DEF RaiseFee, CreateChannel
<1>10. CASE \E p \in Processes : Crash(p)
  BY <1>1, <1>10, CrashMoves
<1>11. CASE UNCHANGED vars
  BY <1>1, <1>11 DEF vars
<1> QED
  BY <1>2, <1>3, <1>4, <1>5, <1>6, <1>7, <1>8, <1>9, <1>10, <1>11, Moves

\* Fees that are kept or were told are of the time since the process started.
LEMMA FeesStep ==
    ASSUME ChannelsInv, [Next]_vars
    PROVE  FeesAreRecent'
<1> USE DEF FeesAreRecent, Holding, Ends, Refusals, GivenUp, proc
<1>1. ChannelsInv /\ ChannelsTypeOK /\ CallsAreSomewhere /\ FeesAreRecent
  BY DEF ChannelsInv
<1>2. CASE \E c \in Calls, p \in Processes : Start(c, p)
  BY <1>1, <1>2, StartMoves
<1>3. CASE \E c \in Calls : Acquire(c)
  <2>1. PICK c \in Calls : Acquire(c)
    BY <1>3
  <2>2. proc(c) \in Processes
    BY <1>1, <2>1, AcquireMoves DEF CallsAreSomewhere
  <2>3. minFee[proc(c)] \in 0..networkFee /\ networkFee \in Nat
    BY <1>1, <2>2 DEF ChannelsTypeOK
  <2>4. /\ call'[c].at \in {"asking", "building"}
        /\ call'[c].at = "building" => call'[c].fee # 0
        /\ call'[c].fee = minFee[proc(c)] /\ call'[c].proc = call[c].proc
        /\ UNCHANGED <<minFee, networkFee, since>>
        /\ \A d \in Calls : d # c => call'[d] = call[d]
    BY <1>1, <2>1, AcquireMoves DEF NeedsFee
  <2> QED
    BY <1>1, <2>2, <2>3, <2>4 DEF ChannelsTypeOK
<1>4. CASE \E c \in Calls : ReadFee(c) \/ GetFee(c)
  <2>1. PICK c \in Calls : ReadFee(c) \/ GetFee(c)
    BY <1>4
  <2>2. proc(c) \in Processes
    BY <1>1, <2>1, FeeMoves DEF CallsAreSomewhere
  <2>3. since[proc(c)] \in 1..networkFee /\ networkFee \in Nat
    BY <1>1, <2>2 DEF ChannelsTypeOK
  <2>4. /\ call'[c].fee \in since[proc(c)]..networkFee
        /\ call'[c].proc = call[c].proc
        /\ UNCHANGED <<networkFee, since>>
        /\ \A d \in Calls : d # c => call'[d] = call[d]
    BY <1>1, <2>1, <2>3, FeeMoves
  <2>5. \/ minFee' = minFee
        \/ minFee' = [minFee EXCEPT ![proc(c)] = call[c].fee]
             /\ call[c].fee \in since[proc(c)]..networkFee
    BY <1>1, <2>1, FeeMoves
  <2>6. \A p \in Processes : minFee'[p] # 0 => since[p] <= minFee'[p]
    <3>1. minFee \in [Processes -> 0..networkFee]
      BY <1>1 DEF ChannelsTypeOK
    <3>2. CASE minFee' = minFee
      BY <1>1, <3>2
    <3>3. CASE /\ minFee' = [minFee EXCEPT ![proc(c)] = call[c].fee]
               /\ call[c].fee \in since[proc(c)]..networkFee
      BY <1>1, <2>3, <3>1, <3>3
    <3> QED
      BY <2>5, <3>2, <3>3
  <2> QED
    BY <1>1, <2>4, <2>6
<1>5. CASE \E c \in Calls : Submit(c) /\ sequence[call[c].channel] # 0
  BY <1>1, <1>5, SendMoves
<1>6. CASE \E c \in Calls : EndsNow(c)
  BY <1>1, <1>6, EndMoves
<1>7. CASE \E t \in mempool : Land(t)
  BY <1>1, <1>7, DecideMoves
<1>8. CASE \E t \in mempool : Refuse(t)
  BY <1>1, <1>8, DecideMoves
<1>9. CASE RaiseFee \/ CreateChannel
  <2>1. UNCHANGED <<call, minFee, since>> /\ networkFee' \in {networkFee, networkFee + 1}
    BY <1>9 DEF RaiseFee, CreateChannel
  <2>2. networkFee \in Nat
    BY <1>1 DEF ChannelsTypeOK
  <2>3. \A c \in Calls : call[c].at \in Holding => since[proc(c)] \in 1..networkFee
    BY <1>1 DEF ChannelsTypeOK, CallsAreSomewhere
  <2> QED
    BY <1>1, <2>1, <2>2, <2>3
<1>10. CASE \E p \in Processes : Crash(p)
  <2>1. PICK p \in Processes : Crash(p)
    BY <1>10
  <2>2. /\ \A c \in Calls : call'[c].at \in {"told", "building", "submitted"} =>
               call'[c] = call[c] /\ call[c].proc # p
        /\ minFee' = [minFee EXCEPT ![p] = 0]
        /\ since' = [since EXCEPT ![p] = networkFee]
        /\ UNCHANGED networkFee
    BY <1>1, <2>1, CrashMoves
  <2>3. \A q \in Processes : minFee'[q] # 0 => since'[q] <= minFee'[q]
    BY <1>1, <2>2 DEF ChannelsTypeOK
  <2>4. \A c \in Calls : call[c].proc # p => since'[proc(c)] = since[proc(c)]
    BY <1>1, <2>2, CallType DEF ChannelsTypeOK
  <2> QED
    BY <1>1, <2>2, <2>3, <2>4
<1>11. CASE UNCHANGED vars
  BY <1>1, <1>11 DEF vars
<1> QED
  BY <1>2, <1>3, <1>4, <1>5, <1>6, <1>7, <1>8, <1>9, <1>10, <1>11, Moves

\* What is in the mempool is a transaction of a call, with a channel.
LEMMA SentType ==
    ASSUME ChannelsInv, NEW t \in mempool
    PROVE  t.call \in Calls /\ t.channel \in Seeds /\ t.seq \in Nat /\ sequence[t.channel] \in Nat
BY DEF ChannelsInv, ChannelsTypeOK, Transaction

\* So is what the ledger holds.
LEMMA LandedType ==
    ASSUME ChannelsInv, NEW n \in DOMAIN ledger
    PROVE  /\ ledger[n].tx.call \in Calls /\ ledger[n].tx.channel \in Seeds
           /\ ledger[n].tx.seq \in Nat /\ sequence[ledger[n].tx.channel] \in Nat
           /\ ledger[n].ok \in BOOLEAN
<1>1. ledger[n] \in Entry
  BY DEF ChannelsInv, ChannelsTypeOK
<1> QED
  BY <1>1 DEF ChannelsInv, ChannelsTypeOK, Transaction, Entry

\* Where a call that is in the mempool or on the ledger can go without the blockchain.
LEMMA NothingSentGoes ==
    ASSUME ChannelsInv, [Next]_vars, ~\E t \in mempool : Land(t) \/ Refuse(t), NEW c \in Calls,
           call[c].at \notin {"none", "waiting", "asking", "told", "building"}
    PROVE  /\ call'[c].at = "submitted" => call'[c] = call[c]
           /\ call'[c].proc = call[c].proc
           /\ \/ call'[c] = call[c]
              \/ call[c].at = "submitted" /\ call'[c].at \in GivenUp
              \/ call[c].at = "submitted" /\ call'[c].at = "ok"
                   /\ \E n \in DOMAIN ledger : ledger[n].tx.call = c
<1>1. CASE \E d \in Calls, p \in Processes : Start(d, p)
  BY <1>1, StartMoves
<1>2. CASE \E d \in Calls : Acquire(d)
  BY <1>2, AcquireMoves
<1>3. CASE \E d \in Calls : ReadFee(d) \/ GetFee(d)
  BY <1>3, FeeMoves
<1>4. CASE \E d \in Calls : Submit(d) /\ sequence[call[d].channel] # 0
  BY <1>4, SendMoves
<1>5. CASE \E d \in Calls : EndsNow(d)
  BY <1>5, EndMoves DEF GivenUp
<1>6. CASE RaiseFee \/ CreateChannel
  BY <1>6 DEF RaiseFee, CreateChannel
<1>7. CASE \E p \in Processes : Crash(p)
  <2>1. PICK p \in Processes : Crash(p)
    BY <1>7
  <2>2. call[c].at \in {"submitted"} \cup Ends
    BY CallType DEF ChannelsInv, Holding
  <2>3. IF call[c].proc = p /\ call[c].at \notin Ends
          THEN call'[c].at = "died" /\ call'[c].proc = p
          ELSE call'[c] = call[c]
    BY <2>1, CrashMoves
  <2> QED
    BY <2>2, <2>3 DEF GivenUp
<1>8. CASE UNCHANGED vars
  BY <1>8 DEF vars
<1> QED
  BY <1>1, <1>2, <1>3, <1>4, <1>5, <1>6, <1>7, <1>8, Moves

\* What the other steps leave of the mempool, the ledger and the channels.
LEMMA NothingElseMoves ==
    ASSUME ChannelsInv, [Next]_vars, ~\E t \in mempool : Land(t) \/ Refuse(t)
    PROVE  /\ UNCHANGED ledger
           /\ \/ UNCHANGED mempool
              \/ \E c \in Calls : /\ mempool' = mempool \cup {SentBy(c)}
                                  /\ call[c].at = "building" /\ call'[c].at = "submitted"
                                  /\ call'[c].proc = call[c].proc
                                  /\ call'[c].channel = call[c].channel
                                  /\ call'[c].seq = sequence[call[c].channel]
                                  /\ sequence[call[c].channel] # 0 /\ UNCHANGED sequence
           /\ \/ UNCHANGED sequence
              \/ \E k \in Seeds : sequence[k] = 0 /\ sequence' = [sequence EXCEPT ![k] = 1]
<1>1. CASE \E d \in Calls, p \in Processes : Start(d, p)
  BY <1>1, StartMoves
<1>2. CASE \E d \in Calls : Acquire(d)
  BY <1>2, AcquireMoves
<1>3. CASE \E d \in Calls : ReadFee(d) \/ GetFee(d)
  BY <1>3, FeeMoves
<1>4. CASE \E d \in Calls : Submit(d) /\ sequence[call[d].channel] # 0
  BY <1>4, SendMoves
<1>5. CASE \E d \in Calls : EndsNow(d)
  BY <1>5, EndMoves
<1>6. CASE RaiseFee \/ CreateChannel
  BY <1>6 DEF RaiseFee, CreateChannel
<1>7. CASE \E p \in Processes : Crash(p)
  BY <1>7 DEF Crash
<1>8. CASE UNCHANGED vars
  BY <1>8 DEF vars
<1> QED
  BY <1>1, <1>2, <1>3, <1>4, <1>5, <1>6, <1>7, <1>8, Moves

\* Numbers only grow, so what is below the next one stays below it.
LEMMA SequenceGrows ==
    ASSUME ChannelsInv, [Next]_vars
    PROVE  /\ sequence' \in [Seeds -> Nat]
           /\ \A k \in Seeds : sequence[k] <= sequence'[k]
<1>1. sequence \in [Seeds -> Nat]
  BY DEF ChannelsInv, ChannelsTypeOK
<1>2. CASE \E t \in mempool : Land(t)
  <2>1. PICK t \in mempool : Land(t)
    BY <1>2
  <2>2. sequence' = [sequence EXCEPT ![t.channel] = @ + 1] /\ t.channel \in Seeds
    BY <2>1, SentType DEF Land
  <2> QED
    BY <1>1, <2>2
<1>3. CASE \E t \in mempool : Refuse(t)
  BY <1>1, <1>3 DEF Refuse
<1>4. CASE ~\E t \in mempool : Land(t) \/ Refuse(t)
  BY <1>1, <1>4, NothingElseMoves
<1> QED
  BY <1>2, <1>3, <1>4

\* Nothing is sent twice, and what was sent is waited for or given up.
LEMMA SentStep ==
    ASSUME ChannelsInv, [Next]_vars
    PROVE  SentIsWaitedFor'
<1>1. SentIsWaitedFor /\ LandedIsKnown /\ CallsAreSomewhere /\ ChannelsTypeOK
  BY DEF ChannelsInv
<1>2. \A t \in mempool : t.seq \in 1..sequence'[t.channel]
  BY <1>1, SentType, SequenceGrows DEF SentIsWaitedFor
<1>3. CASE \E t \in mempool : Land(t) \/ Refuse(t)
  <2>1. PICK t \in mempool : Land(t) \/ Refuse(t)
    BY <1>3
  <2>2. mempool' = mempool \ {t}
    BY <2>1, LandMoves, RefuseMoves
  <2>3. \A u \in mempool' : u.call # t.call
    BY <1>1, <2>2 DEF SentIsWaitedFor
  <2>4. \A u \in mempool' : call'[u.call] = call[u.call]
    BY <2>1, <2>2, <2>3, SentType, LandMoves, RefuseMoves
  <2>5. \A u \in mempool', n \in DOMAIN ledger' : ledger'[n].tx.call # u.call
    <3>1. CASE Land(t)
      <4>1. PICK ok \in BOOLEAN : /\ ledger' = Append(ledger, [tx |-> t, ok |-> ok])
                                  /\ [tx |-> t, ok |-> ok] \in Entry
        BY <3>1, LandMoves
      <4> QED
        BY <1>1, <2>2, <2>3, <4>1, Appended DEF SentIsWaitedFor
    <3>2. CASE Refuse(t)
      BY <1>1, <2>2, <3>2, RefuseMoves DEF SentIsWaitedFor
    <3> QED
      BY <2>1, <3>1, <3>2
  <2> QED
    BY <1>1, <1>2, <2>2, <2>4, <2>5 DEF SentIsWaitedFor
<1>4. CASE ~\E t \in mempool : Land(t) \/ Refuse(t)
  <2>1. \A t \in mempool :
          /\ call'[t.call].at \in {"submitted"} \cup GivenUp
          /\ call'[t.call].at = "submitted" =>
                 call'[t.call].channel = t.channel /\ call'[t.call].seq = t.seq
    <3>1. \A t \in mempool : t.call \in Calls
                /\ call[t.call].at \notin {"none", "waiting", "asking", "told", "building"}
      BY <1>1, SentType DEF SentIsWaitedFor, GivenUp
    <3>2. \A t \in mempool : ~\E n \in DOMAIN ledger : ledger[n].tx.call = t.call
      BY <1>1 DEF SentIsWaitedFor
    <3> QED
      BY <1>1, <1>4, <3>1, <3>2, NothingSentGoes DEF SentIsWaitedFor
  <2>2. CASE UNCHANGED mempool
    BY <1>1, <1>2, <1>4, <2>1, <2>2, NothingElseMoves DEF SentIsWaitedFor
  <2>3. CASE \E c \in Calls : /\ mempool' = mempool \cup {SentBy(c)}
                              /\ call[c].at = "building" /\ call'[c].at = "submitted"
                              /\ call'[c].channel = call[c].channel
                              /\ call'[c].seq = sequence[call[c].channel]
                              /\ sequence[call[c].channel] # 0 /\ UNCHANGED sequence
    <3>1. PICK c \in Calls : /\ mempool' = mempool \cup {SentBy(c)}
                             /\ call[c].at = "building" /\ call'[c].at = "submitted"
                             /\ call'[c].channel = call[c].channel
                             /\ call'[c].seq = sequence[call[c].channel]
                             /\ sequence[call[c].channel] # 0 /\ UNCHANGED sequence
      BY <2>3
    <3>2. sequence[call[c].channel] \in Nat
      BY <1>1, <3>1 DEF CallsAreSomewhere, Holding, ChannelsTypeOK
    <3>3. /\ SentBy(c).call = c /\ SentBy(c).channel = call[c].channel
          /\ SentBy(c).seq = sequence[call[c].channel]
      BY DEF SentBy
    <3>4. \A t \in mempool : t.call # c
      BY <1>1, <3>1 DEF SentIsWaitedFor, GivenUp
    <3>5. \A n \in DOMAIN ledger : ledger[n].tx.call # c
      BY <1>1, <3>1 DEF LandedIsKnown, GivenUp
    <3>6. UNCHANGED ledger
      BY <1>4, NothingElseMoves
    <3>7. SentBy(c).seq \in 1..sequence'[SentBy(c).channel]
      BY <3>1, <3>2, <3>3
    <3> QED
      BY <1>1, <1>2, <2>1, <3>1, <3>3, <3>4, <3>5, <3>6, <3>7 DEF SentIsWaitedFor
  <2> QED
    BY <1>4, <2>2, <2>3, NothingElseMoves
<1> QED
  BY <1>3, <1>4

\* Nothing lands twice, and what landed was not refused if it did anything.
LEMMA LandedStep ==
    ASSUME ChannelsInv, [Next]_vars
    PROVE  LandedIsKnown'
<1>1. SentIsWaitedFor /\ LandedIsKnown /\ CallsAreSomewhere /\ ChannelsTypeOK
  BY DEF ChannelsInv
<1>2. \A n \in DOMAIN ledger : ledger[n].tx.seq \in 1..sequence'[ledger[n].tx.channel] - 1
  <2> SUFFICES ASSUME NEW n \in DOMAIN ledger
               PROVE  ledger[n].tx.seq \in 1..sequence'[ledger[n].tx.channel] - 1
    OBVIOUS
  <2> DEFINE t == ledger[n].tx
  <2>1. t.seq \in 1..sequence[t.channel] - 1
    BY <1>1 DEF LandedIsKnown
  <2>2. t.channel \in Seeds /\ sequence[t.channel] \in Nat
    BY LandedType
  <2>3. sequence'[t.channel] \in Nat /\ sequence[t.channel] <= sequence'[t.channel]
    BY <2>2, SequenceGrows
  <2> QED
    BY <2>1, <2>2, <2>3
<1>3. CASE \E t \in mempool : Land(t)
  <2>1. PICK t \in mempool : Land(t)
    BY <1>3
  <2>2. PICK ok \in BOOLEAN :
          /\ ledger' = Append(ledger, [tx |-> t, ok |-> ok]) /\ [tx |-> t, ok |-> ok] \in Entry
          /\ call'[t.call].at =
               IF ~ok /\ call[t.call].at = "submitted" THEN "failed" ELSE call[t.call].at
    BY <2>1, LandMoves
  <2> DEFINE l == Len(ledger) + 1
  <2>3. /\ DOMAIN ledger' = DOMAIN ledger \cup {l}
        /\ \A n \in DOMAIN ledger : ledger'[n] = ledger[n]
        /\ ledger'[l].tx = t /\ ledger'[l].ok = ok
    BY <1>1, <2>2, Appended
  <2>4. \A n \in DOMAIN ledger : ledger[n].tx.call # t.call
    BY <1>1 DEF SentIsWaitedFor
  <2>5. \A n \in DOMAIN ledger : call'[ledger[n].tx.call] = call[ledger[n].tx.call]
    BY <2>1, <2>4, LandedType, LandMoves
  <2>6. call'[t.call].at \in GivenUp \cup (IF ok THEN {"submitted", "ok"} ELSE {"failed"})
    BY <1>1, <2>2 DEF SentIsWaitedFor, GivenUp
  <2>7. t.seq \in 1..sequence'[t.channel] - 1
    <3>1. t.seq = sequence[t.channel] /\ sequence' = [sequence EXCEPT ![t.channel] = @ + 1]
      BY <2>1, LandMoves
    <3>2. t.channel \in Seeds /\ sequence \in [Seeds -> Nat]
      BY <1>1, SentType DEF ChannelsTypeOK
    <3>3. t.seq \in 1..sequence[t.channel]
      BY <1>1 DEF SentIsWaitedFor
    <3> QED
      BY <3>1, <3>2, <3>3
  <2> HIDE DEF l
  <2> QED
    BY <1>1, <1>2, <2>3, <2>4, <2>5, <2>6, <2>7 DEF LandedIsKnown
<1>4. CASE \E t \in mempool : Refuse(t)
  <2>1. PICK t \in mempool : Refuse(t)
    BY <1>4
  <2>2. \A n \in DOMAIN ledger : ledger[n].tx.call # t.call
    BY <1>1 DEF SentIsWaitedFor
  <2>3. \A n \in DOMAIN ledger : call'[ledger[n].tx.call] = call[ledger[n].tx.call]
    BY <2>1, <2>2, LandedType, RefuseMoves
  <2> QED
    BY <1>1, <1>2, <2>1, <2>3, RefuseMoves DEF LandedIsKnown
<1>5. CASE ~\E t \in mempool : Land(t) \/ Refuse(t)
  <2>1. UNCHANGED ledger
    BY <1>5, NothingElseMoves
  <2>2. \A n \in DOMAIN ledger :
          call'[ledger[n].tx.call].at \in GivenUp \cup
              (IF ledger[n].ok THEN {"submitted", "ok"} ELSE {"failed"})
    <3> SUFFICES ASSUME NEW n \in DOMAIN ledger
                 PROVE  call'[ledger[n].tx.call].at \in GivenUp \cup
                            (IF ledger[n].ok THEN {"submitted", "ok"} ELSE {"failed"})
      OBVIOUS
    <3> DEFINE c == ledger[n].tx.call
    <3>1. c \in Calls
      BY LandedType
    <3>2. call[c].at \in GivenUp \cup (IF ledger[n].ok THEN {"submitted", "ok"} ELSE {"failed"})
      BY <1>1 DEF LandedIsKnown
    <3>3. call[c].at \notin {"none", "waiting", "asking", "told", "building"}
      BY <3>2 DEF GivenUp
    <3>4. \/ call'[c] = call[c]
          \/ call[c].at = "submitted" /\ call'[c].at \in GivenUp \cup {"ok"}
      BY <1>5, <3>1, <3>3, NothingSentGoes
    <3> QED
      BY <3>2, <3>4 DEF GivenUp
  <2> QED
    BY <1>1, <1>2, <2>1, <2>2 DEF LandedIsKnown
<1> QED
  BY <1>3, <1>4, <1>5

\* What a channel's number has passed is on the ledger.
LEMMA SpentStep ==
    ASSUME ChannelsInv, [Next]_vars
    PROVE  SpentByLanded'
<1>1. SpentByLanded /\ ChannelsTypeOK /\ sequence \in [Seeds -> Nat]
  BY DEF ChannelsInv, ChannelsTypeOK
<1>2. CASE \E t \in mempool : Land(t)
  <2>1. PICK t \in mempool : Land(t)
    BY <1>2
  <2>2. PICK ok \in BOOLEAN :
          ledger' = Append(ledger, [tx |-> t, ok |-> ok]) /\ [tx |-> t, ok |-> ok] \in Entry
    BY <2>1, LandMoves
  <2> DEFINE l == Len(ledger) + 1
  <2>3. /\ DOMAIN ledger' = DOMAIN ledger \cup {l}
        /\ \A n \in DOMAIN ledger : ledger'[n] = ledger[n]
        /\ ledger'[l].tx = t
    BY <1>1, <2>2, Appended
  <2>4. t.seq = sequence[t.channel] /\ sequence' = [sequence EXCEPT ![t.channel] = @ + 1]
    BY <2>1, LandMoves
  <2>5. t.channel \in Seeds
    BY SentType
  <2> HIDE DEF l
  <2> SUFFICES ASSUME NEW k \in Seeds, NEW s \in 1..sequence'[k] - 1
               PROVE  \E n \in DOMAIN ledger' :
                          ledger'[n].tx.channel = k /\ ledger'[n].tx.seq = s
    BY DEF SpentByLanded
  <2>6. CASE s \in 1..sequence[k] - 1
    <3>1. PICK n \in DOMAIN ledger : ledger[n].tx.channel = k /\ ledger[n].tx.seq = s
      BY <1>1, <2>6 DEF SpentByLanded
    <3> QED
      BY <2>3, <3>1
  <2>7. CASE s \notin 1..sequence[k] - 1
    <3>1. k = t.channel /\ s = t.seq
      BY <1>1, <2>4, <2>5, <2>7
    <3> QED
      BY <2>3, <3>1
  <2> QED
    BY <2>6, <2>7
<1>3. CASE \E t \in mempool : Refuse(t)
  BY <1>1, <1>3, RefuseMoves DEF SpentByLanded
<1>4. CASE ~\E t \in mempool : Land(t) \/ Refuse(t)
  <2>1. UNCHANGED ledger
    BY <1>4, NothingElseMoves
  <2>2. CASE UNCHANGED sequence
    BY <1>1, <2>1, <2>2 DEF SpentByLanded
  <2>3. CASE \E k \in Seeds : sequence[k] = 0 /\ sequence' = [sequence EXCEPT ![k] = 1]
    <3>1. \A k \in Seeds : sequence'[k] = sequence[k] \/ sequence'[k] = 1
      BY <1>1, <2>3
    <3> QED
      BY <1>1, <2>1, <3>1 DEF SpentByLanded
  <2> QED
    BY <1>4, <2>2, <2>3, NothingElseMoves
<1> QED
  BY <1>2, <1>3, <1>4

\* Without the blockchain a call is submitted with the number it just read, and not refused.
LEMMA NothingElseRefuses ==
    ASSUME ChannelsInv, [Next]_vars, ~\E t \in mempool : Land(t) \/ Refuse(t), NEW c \in Calls
    PROVE  /\ call'[c].at = "submitted" =>
                \/ call'[c] = call[c]
                \/ /\ call[c].at = "building" /\ call'[c].channel = call[c].channel
                   /\ call'[c].seq = sequence[call[c].channel]
           /\ call'[c].at = "badSeq" => call'[c] = call[c]
<1>1. CASE \E d \in Calls, p \in Processes : Start(d, p)
  BY <1>1, StartMoves
<1>2. CASE \E d \in Calls : Acquire(d)
  BY <1>2, AcquireMoves DEF NeedsFee
<1>3. CASE \E d \in Calls : ReadFee(d) \/ GetFee(d)
  BY <1>3, FeeMoves
<1>4. CASE \E d \in Calls : Submit(d) /\ sequence[call[d].channel] # 0
  BY <1>4, SendMoves
<1>5. CASE \E d \in Calls : EndsNow(d)
  BY <1>5, EndMoves
<1>6. CASE RaiseFee \/ CreateChannel
  BY <1>6 DEF RaiseFee, CreateChannel
<1>7. CASE \E p \in Processes : Crash(p)
  BY <1>7, CrashMoves
<1>8. CASE UNCHANGED vars
  BY <1>8 DEF vars
<1> QED
  BY <1>1, <1>2, <1>3, <1>4, <1>5, <1>6, <1>7, <1>8, Moves

\* Calls whose transaction landed keep their process, and once given up stay so.
LEMMA LandedStays ==
    ASSUME ChannelsInv, [Next]_vars, NEW n \in DOMAIN ledger
    PROVE  /\ ledger'[n] = ledger[n] /\ n \in DOMAIN ledger'
           /\ call'[ledger[n].tx.call].proc = call[ledger[n].tx.call].proc
           /\ call[ledger[n].tx.call].at \in GivenUp =>
                  call'[ledger[n].tx.call].at \in GivenUp
<1> DEFINE d == ledger[n].tx.call
<1>1. d \in Calls /\ ChannelsTypeOK /\ LandedIsKnown
  BY LandedType DEF ChannelsInv
<1>2. CASE \E t \in mempool : Land(t)
  <2>1. PICK t \in mempool : Land(t)
    BY <1>2
  <2>2. ledger'[n] = ledger[n] /\ n \in DOMAIN ledger'
    BY <1>1, <2>1, LandMoves, Appended
  <2> QED
    BY <1>1, <2>1, <2>2, DecideMoves DEF GivenUp
<1>3. CASE \E t \in mempool : Refuse(t)
  BY <1>1, <1>3, DecideMoves, RefuseMoves DEF GivenUp
<1>4. CASE ~\E t \in mempool : Land(t) \/ Refuse(t)
  <2>1. call[d].at \notin {"none", "waiting", "asking", "told", "building"}
    BY <1>1 DEF LandedIsKnown, GivenUp
  <2> QED
    BY <1>1, <1>4, <2>1, NothingSentGoes, NothingElseMoves DEF GivenUp
<1> QED
  BY <1>2, <1>3, <1>4

\* SamePool, after a step.
SamePoolThen(c, d) == call'[c].proc = call'[d].proc /\ Account[c] = Account[d]

\* acquireChannel is held until the submission is over: who spends the number of a call that
\* waits is of another pool or given up.
LEMMA OutsideStep ==
    ASSUME ChannelsInv, [Next]_vars
    PROVE  OnlyOutsideSpends'
<1>1. /\ ChannelsTypeOK /\ CallsAreSomewhere /\ PoolExclusive
      /\ SentIsWaitedFor /\ LandedIsKnown /\ OnlyOutsideSpends
  BY DEF ChannelsInv
<1> SUFFICES ASSUME NEW c \in Calls, NEW n \in DOMAIN ledger',
                    call'[c].at = "submitted", ledger'[n].tx.call # c,
                    SamePoolThen(c, ledger'[n].tx.call),
                    ledger'[n].tx.channel = call'[c].channel,
                    ledger'[n].tx.seq = call'[c].seq
             PROVE  call'[ledger'[n].tx.call].at \in GivenUp
  BY DEF OnlyOutsideSpends, SamePool, SamePoolThen, proc
<1>2. ASSUME n \in DOMAIN ledger, call[c].at = "submitted", call'[c].proc = call[c].proc,
             call'[c].channel = call[c].channel, call'[c].seq = call[c].seq
      PROVE  call'[ledger'[n].tx.call].at \in GivenUp
  <2>1. ledger'[n] = ledger[n] /\ SamePool(c, ledger[n].tx.call)
    BY <1>2, LandedStays DEF SamePool, SamePoolThen, proc
  <2>2. call[ledger[n].tx.call].at \in GivenUp
    BY <1>1, <1>2, <2>1 DEF OnlyOutsideSpends
  <2> QED
    BY <1>2, <2>1, <2>2, LandedStays
<1>3. CASE \E t \in mempool : Land(t)
  <2>1. PICK t \in mempool : Land(t)
    BY <1>3
  <2>2. /\ call[c].at = "submitted" /\ call'[c].proc = call[c].proc
        /\ call'[c].channel = call[c].channel /\ call'[c].seq = call[c].seq
    BY <2>1, DecideMoves, LandMoves
  <2>3. PICK ok \in BOOLEAN :
          ledger' = Append(ledger, [tx |-> t, ok |-> ok]) /\ [tx |-> t, ok |-> ok] \in Entry
    BY <2>1, LandMoves
  <2>4. CASE n \in DOMAIN ledger
    BY <1>2, <2>2, <2>4
  <2>5. CASE n \notin DOMAIN ledger
    <3>1. ledger'[n].tx = t
      BY <1>1, <2>3, <2>5, Appended
    <3>2. t.call \in Calls /\ SamePool(c, t.call)
      BY <2>1, <2>2, <3>1, SentType, DecideMoves DEF SamePool, SamePoolThen, proc
    <3>3. call[t.call].at # "submitted"
      BY <1>1, <2>2, <3>1, <3>2 DEF SentIsWaitedFor, PoolExclusive, Holding
    <3>4. call[t.call].at \in GivenUp
      BY <1>1, <3>3 DEF SentIsWaitedFor
    <3> QED
      BY <2>1, <3>1, <3>2, <3>3, <3>4, DecideMoves
  <2> QED
    BY <2>4, <2>5
<1>4. CASE \E t \in mempool : Refuse(t)
  <2>1. /\ call[c].at = "submitted" /\ call'[c].proc = call[c].proc
        /\ call'[c].channel = call[c].channel /\ call'[c].seq = call[c].seq
        /\ ledger' = ledger
    BY <1>4, DecideMoves, RefuseMoves
  <2> QED
    BY <1>2, <2>1
<1>5. CASE ~\E t \in mempool : Land(t) \/ Refuse(t)
  <2>1. ledger' = ledger
    BY <1>5, NothingElseMoves
  <2>2. CASE call'[c] = call[c]
    BY <1>2, <2>1, <2>2
  <2>3. CASE /\ call[c].at = "building" /\ call'[c].channel = call[c].channel
             /\ call'[c].seq = sequence[call[c].channel]
    <3>1. ledger[n].tx.seq \in 1..sequence[ledger[n].tx.channel] - 1
      BY <1>1, <2>1 DEF LandedIsKnown
    <3>2. sequence[ledger[n].tx.channel] \in Nat
      BY <2>1, LandedType
    <3> QED
      BY <2>1, <2>3, <3>1, <3>2
  <2> QED
    BY <1>5, <2>2, <2>3, NothingElseRefuses
<1> QED
  BY <1>3, <1>4, <1>5

\* A call that is refused for its number keeps the reason.
LEMMA CollidesStep ==
    ASSUME ChannelsInv, [Next]_vars
    PROVE  CollidesOnlyOutside'
<1>1. /\ ChannelsTypeOK /\ SentIsWaitedFor /\ SpentByLanded /\ OnlyOutsideSpends
      /\ CollidesOnlyOutside
  BY DEF ChannelsInv
<1> SUFFICES ASSUME NEW c \in Calls, call'[c].at = "badSeq"
             PROVE  \E n \in DOMAIN ledger' :
                        LET t == ledger'[n].tx IN
                        /\ t.channel = call'[c].channel /\ t.seq = call'[c].seq
                        /\ ~SamePoolThen(c, t.call) \/ call'[t.call].at \in GivenUp
  BY DEF CollidesOnlyOutside, SamePool, SamePoolThen, proc
<1>2. ASSUME NEW n \in DOMAIN ledger,
             ledger[n].tx.channel = call'[c].channel, ledger[n].tx.seq = call'[c].seq,
             ~SamePool(c, ledger[n].tx.call) \/ call[ledger[n].tx.call].at \in GivenUp,
             call'[c].proc = call[c].proc
      PROVE  \E m \in DOMAIN ledger' :
                 LET t == ledger'[m].tx IN
                 /\ t.channel = call'[c].channel /\ t.seq = call'[c].seq
                 /\ ~SamePoolThen(c, t.call) \/ call'[t.call].at \in GivenUp
  <2>1. n \in DOMAIN ledger' /\ ledger'[n] = ledger[n]
    BY LandedStays
  <2>2. ~SamePoolThen(c, ledger[n].tx.call) \/ call'[ledger[n].tx.call].at \in GivenUp
    BY <1>2, <2>1, LandedStays DEF SamePool, SamePoolThen, proc
  <2>3. LET t == ledger'[n].tx IN
        /\ t.channel = call'[c].channel /\ t.seq = call'[c].seq
        /\ ~SamePoolThen(c, t.call) \/ call'[t.call].at \in GivenUp
    BY <1>2, <2>1, <2>2 DEF SamePool, SamePoolThen, proc
  <2> QED
    BY <2>1, <2>3
<1>3. CASE /\ call[c].at = "badSeq" /\ call'[c].proc = call[c].proc
           /\ call'[c].channel = call[c].channel /\ call'[c].seq = call[c].seq
  <2>1. PICK n \in DOMAIN ledger :
            LET t == ledger[n].tx IN
            /\ t.channel = call[c].channel /\ t.seq = call[c].seq
            /\ ~SamePool(c, t.call) \/ call[t.call].at \in GivenUp
    BY <1>1, <1>3 DEF CollidesOnlyOutside
  <2> QED
    BY <1>2, <1>3, <2>1
<1>4. CASE \E t \in mempool : Land(t)
  <2>1. PICK t \in mempool : Land(t)
    BY <1>4
  <2>2. PICK ok \in BOOLEAN : call'[t.call].at =
              IF ~ok /\ call[t.call].at = "submitted" THEN "failed" ELSE call[t.call].at
    BY <2>1, LandMoves
  <2>3. call[c].at = "badSeq"
    BY <2>1, <2>2, LandMoves
  <2> QED
    BY <1>3, <2>1, <2>3, LandMoves
<1>5. CASE \E t \in mempool : Refuse(t)
  <2>1. PICK t \in mempool : Refuse(t)
    BY <1>5
  <2>2. /\ call'[c].proc = call[c].proc /\ call'[c].channel = call[c].channel
        /\ call'[c].seq = call[c].seq
    BY <2>1, RefuseMoves
  <2>3. CASE call[c].at = "badSeq"
    BY <1>3, <2>2, <2>3
  <2>4. CASE call[c].at # "badSeq"
    <3>1. c = t.call /\ call[c].at = "submitted" /\ t.seq # sequence[t.channel]
      BY <2>1, <2>4, RefuseMoves
    <3>2. call[c].channel = t.channel /\ call[c].seq = t.seq /\ t.seq \in 1..sequence[t.channel]
      BY <1>1, <3>1 DEF SentIsWaitedFor
    <3>3. t.channel \in Seeds /\ t.seq \in 1..sequence[t.channel] - 1
      BY <3>1, <3>2, SentType
    <3>4. PICK n \in DOMAIN ledger : ledger[n].tx.channel = t.channel /\ ledger[n].tx.seq = t.seq
      BY <1>1, <3>3 DEF SpentByLanded
    <3>5. ledger[n].tx.call # c
      BY <1>1, <3>1 DEF SentIsWaitedFor
    <3>6. ~SamePool(c, ledger[n].tx.call) \/ call[ledger[n].tx.call].at \in GivenUp
      BY <1>1, <3>1, <3>2, <3>4, <3>5 DEF OnlyOutsideSpends
    <3> QED
      BY <1>2, <2>2, <3>2, <3>4, <3>6
  <2> QED
    BY <2>3, <2>4
<1>6. CASE ~\E t \in mempool : Land(t) \/ Refuse(t)
  <2>1. call'[c] = call[c]
    BY <1>6, NothingElseRefuses
  <2> QED
    BY <1>3, <2>1
<1> QED
  BY <1>4, <1>5, <1>6

-----------------------------------------------------------------------------
(* The theorems. *)

\* The invariant holds at the start.
LEMMA ChannelsInvInit == Init => ChannelsInv
BY DEF Init, ChannelsInv, ChannelsTypeOK, CallsAreSomewhere, PoolExclusive, FeesAreRecent,
       SentIsWaitedFor, LandedIsKnown, SpentByLanded, OnlyOutsideSpends, CollidesOnlyOutside,
       NoCall, CallState, Holding, GivenUp, proc, Entry

\* Every step keeps it.
LEMMA ChannelsInvStep == ChannelsInv /\ [Next]_vars => ChannelsInv'
<1> SUFFICES ASSUME ChannelsInv, [Next]_vars
             PROVE  ChannelsInv'
  OBVIOUS
<1>1. ChannelsTypeOK'
  <2>1. CASE Next
    BY <2>1, ChannelsTypeStep
  <2>2. CASE UNCHANGED vars
    BY <2>2 DEF vars, ChannelsInv, ChannelsTypeOK
  <2> QED
    BY <2>1, <2>2
<1> QED
  BY <1>1, SomewhereStep, PoolStep, FeesStep, SentStep, LandedStep, SpentStep, OutsideStep,
     CollidesStep DEF ChannelsInv

\* In every reachable state: processes, calls, channels, the mempool and the ledger stand in the
\* relation on which fees, sequence numbers and the channels' locks depend.
THEOREM ChannelsInvariance == Spec => []ChannelsInv
BY ChannelsInvInit, ChannelsInvStep, PTL DEF Spec

\* The state of the calls, the channels and the blockchain is well formed.
THEOREM ChannelsTypeCorrect == Spec => []ChannelsTypeOK
<1>1. ChannelsInv => ChannelsTypeOK
  BY DEF ChannelsInv
<1> QED
  BY <1>1, ChannelsInvariance, PTL

\* However many calls ask for the minimum fee at once, and whichever answer comes last, no
\* transaction is sent with a fee that was not the minimum at some time since the process
\* started.
THEOREM FeesWereMinimum == Spec => []FeeWasMinimum
<1>1. ChannelsInv => FeeWasMinimum
  BY DEF ChannelsInv, FeesAreRecent, FeeWasMinimum
<1> QED
  BY <1>1, ChannelsInvariance, PTL

\* Two calls of one pool never collide on a sequence number, unless the process knows no end
\* of the one that spent it.
THEOREM CollisionsComeFromOutside == Spec => []CollidesOnlyOutside
<1>1. ChannelsInv => CollidesOnlyOutside
  BY DEF ChannelsInv
<1> QED
  BY <1>1, ChannelsInvariance, PTL

-----------------------------------------------------------------------------
(* Kin.pay and Kin.createWallet implement Submission. *)

\* The outcome of a call, before and after a step.
LEMMA OutcomeIs ==
    ASSUME NEW c \in Calls
    PROVE  /\ call[c].at = "none" => Outcome(c) = "none"
           /\ call[c].at \in {"waiting"} \cup Holding => Outcome(c) = "open"
           /\ call[c].at = "ok" => Outcome(c) = "ok"
           /\ call[c].at \in Refusals => Outcome(c) = "refused"
           /\ call[c].at \in GivenUp => Outcome(c) = "unknown"
BY DEF Outcome, Holding, Refusals, GivenUp

\* The outcome of a call after a step, from where the call is.
LEMMA OutcomeGoes ==
    ASSUME NEW c \in Calls
    PROVE  /\ call'[c].at \in {"waiting"} \cup Holding => Outcome(c)' = "open"
           /\ call'[c].at = "ok" => Outcome(c)' = "ok"
           /\ call'[c].at \in Refusals => Outcome(c)' = "refused"
           /\ call'[c].at \in GivenUp => Outcome(c)' = "unknown"
           /\ call'[c].at = call[c].at => Outcome(c)' = Outcome(c)
BY DEF Outcome, Holding, Refusals, GivenUp

\* How many transactions of a call have landed: one, if one did.
LEMMA LandedCount ==
    ASSUME ChannelsInv, NEW c \in Calls
    PROVE  /\ (\A n \in DOMAIN ledger : ledger[n].tx.call # c) => Cardinality(LandedAt(c)) = 0
           /\ \A n \in DOMAIN ledger : ledger[n].tx.call = c /\ ledger[n].ok =>
                  Cardinality(LandedAt(c)) = 1
<1>1. ASSUME \A n \in DOMAIN ledger : ledger[n].tx.call # c
      PROVE  Cardinality(LandedAt(c)) = 0
  <2>1. LandedAt(c) = {}
    BY <1>1 DEF LandedAt
  <2> QED
    BY <2>1, FS_EmptySet
<1>2. ASSUME NEW n \in DOMAIN ledger, ledger[n].tx.call = c, ledger[n].ok
      PROVE  Cardinality(LandedAt(c)) = 1
  <2>1. LandedAt(c) = {n}
    BY <1>2 DEF LandedAt, ChannelsInv, LandedIsKnown
  <2> QED
    BY <2>1, FS_Singleton
<1> QED
  BY <1>1, <1>2

\* Without the blockchain nothing lands.
LEMMA LandedStill ==
    ASSUME UNCHANGED ledger
    PROVE  [c \in Calls |-> Cardinality(LandedAt(c))]' = [c \in Calls |-> Cardinality(LandedAt(c))]
BY DEF LandedAt

\* A step that leaves every outcome and the ledger alone shows nothing.
LEMMA ShowsNothing ==
    ASSUME UNCHANGED ledger, \A c \in Calls : Outcome(c)' = Outcome(c)
    PROVE  UNCHANGED Submissions!svars
BY LandedStill DEF Submissions!svars

\* A step of one call that changes its outcome alone.
LEMMA GoesTo ==
    ASSUME UNCHANGED ledger, NEW c \in Calls, NEW from, NEW to,
           \A d \in Calls : d # c => call'[d] = call[d],
           Outcome(c) = from, Outcome(c)' = to
    PROVE  Submissions!Goes(c, from, to)
<1>1. \A d \in Calls : d # c => Outcome(d)' = Outcome(d)
  BY OutcomeGoes
<1>2. [d \in Calls |-> Outcome(d)]' = [[d \in Calls |-> Outcome(d)] EXCEPT ![c] = to]
  BY <1>1
<1> QED
  BY <1>2, LandedStill DEF Submissions!Goes

\* A call that ends by itself.
LEMMA EndImplements ==
    ASSUME ChannelsInv, NEW c \in Calls, EndsNow(c)
    PROVE  Submissions!Next
<1>1. /\ \A d \in Calls : d # c => call'[d] = call[d]
      /\ UNCHANGED ledger
  BY EndMoves
<1>2. LandedIsKnown
  BY DEF ChannelsInv
<1>3. CASE call[c].at \in {"asking", "told", "building"} /\ call'[c].at \in {"missing", "failed"}
  <2>1. Outcome(c) = "open" /\ Outcome(c)' = "refused"
    BY <1>3, OutcomeIs, OutcomeGoes DEF Holding, Refusals
  <2>2. \A n \in DOMAIN ledger : ledger[n].tx.call # c
    BY <1>2, <1>3 DEF LandedIsKnown, GivenUp
  <2>3. Submissions!Refuse(c)
    BY <1>1, <2>1, <2>2, GoesTo, LandedCount DEF Submissions!Refuse, Submissions!Landed
  <2> QED
    BY <2>3 DEF Submissions!Next
<1>4. CASE call[c].at = "submitted" /\ call'[c].at = "lost"
  <2>1. Outcome(c) = "open" /\ Outcome(c)' = "unknown"
    BY <1>4, OutcomeIs, OutcomeGoes DEF Holding, GivenUp
  <2>2. \A d \in Calls : d # c => Outcome(d)' = Outcome(d)
    BY <1>1, OutcomeGoes
  <2>3. Submissions!GiveUp({c})
    BY <1>1, <2>1, <2>2, LandedStill DEF Submissions!GiveUp
  <2> QED
    BY <2>3 DEF Submissions!Next
<1>5. CASE /\ call[c].at = "submitted" /\ call'[c].at = "ok"
           /\ \E n \in DOMAIN ledger : ledger[n].tx.call = c
  <2>1. PICK n \in DOMAIN ledger : ledger[n].tx.call = c
    BY <1>5
  <2>2. ledger[n].ok
    BY <1>2, <1>5, <2>1 DEF LandedIsKnown, GivenUp
  <2>3. Outcome(c) = "open" /\ Outcome(c)' = "ok"
    BY <1>5, OutcomeIs, OutcomeGoes DEF Holding
  <2>4. Cardinality(LandedAt(c)) = 1
    BY <2>1, <2>2, LandedCount
  <2>5. Submissions!Return(c)
    BY <1>1, <2>3, <2>4, GoesTo DEF Submissions!Return, Submissions!Landed
  <2> QED
    BY <2>5 DEF Submissions!Next
<1> QED
  BY <1>3, <1>4, <1>5, EndMoves

\* A transaction that lands, and does what it was to do or fails.
LEMMA LandImplements ==
    ASSUME ChannelsInv, NEW t \in mempool, Land(t)
    PROVE  [Submissions!Next]_(Submissions!svars)
<1> DEFINE c == t.call
           l == Len(ledger) + 1
           Counts == [d \in Calls |-> Cardinality(LandedAt(d))]
<1>1. PICK ok \in BOOLEAN :
        /\ ledger' = Append(ledger, [tx |-> t, ok |-> ok]) /\ [tx |-> t, ok |-> ok] \in Entry
        /\ call'[c].at = IF ~ok /\ call[c].at = "submitted" THEN "failed" ELSE call[c].at
  BY LandMoves
<1>2. /\ DOMAIN ledger' = DOMAIN ledger \cup {l}
      /\ l \notin DOMAIN ledger
      /\ \A n \in DOMAIN ledger : ledger'[n] = ledger[n]
      /\ ledger'[l].tx = t /\ ledger'[l].ok = ok
  BY <1>1, Appended DEF ChannelsInv
<1>3. /\ c \in Calls
      /\ call[c].at \in {"submitted"} \cup GivenUp
      /\ \A n \in DOMAIN ledger : ledger[n].tx.call # c
      /\ \A d \in Calls : d # c => call'[d] = call[d]
  BY SentType, LandMoves DEF ChannelsInv, SentIsWaitedFor
<1>4. \A d \in Calls : d # c => LandedAt(d)' = LandedAt(d)
  BY <1>2 DEF LandedAt
<1>5. Cardinality(LandedAt(c)) = 0
  BY <1>3, LandedCount
<1>6. CASE ok
  <2>1. LandedAt(c)' = {l}
    BY <1>2, <1>3, <1>6 DEF LandedAt
  <2>2. Cardinality(LandedAt(c)') = 1
    BY <2>1, FS_Singleton
  <2>3. Counts' = [Counts EXCEPT ![c] = 1]
    BY <1>4, <2>2
  <2>4. Outcome(c) \in {"open", "unknown"}
    BY <1>3, OutcomeIs DEF Holding
  <2>5. \A d \in Calls : Outcome(d)' = Outcome(d)
    BY <1>1, <1>3, <1>6, OutcomeGoes
  <2>6. Submissions!Land(c)
    BY <1>3, <1>5, <2>3, <2>4, <2>5 DEF Submissions!Land, Submissions!Landed
  <2> QED
    BY <1>3, <2>6 DEF Submissions!Next
<1>7. CASE ~ok
  <2>1. LandedAt(c)' = LandedAt(c)
    BY <1>2, <1>7 DEF LandedAt
  <2>2. Counts' = Counts
    BY <1>4, <2>1
  <2>3. CASE call[c].at = "submitted"
    <3>1. Outcome(c) = "open" /\ Outcome(c)' = "refused"
      BY <1>1, <1>3, <1>7, <2>3, OutcomeIs, OutcomeGoes DEF Holding, Refusals
    <3>2. \A d \in Calls : d # c => Outcome(d)' = Outcome(d)
      BY <1>3, OutcomeGoes
    <3>3. Submissions!Goes(c, "open", "refused")
      BY <1>3, <2>2, <3>1, <3>2 DEF Submissions!Goes
    <3>4. Submissions!Refuse(c)
      BY <1>3, <1>5, <3>3 DEF Submissions!Refuse, Submissions!Landed
    <3> QED
      BY <1>3, <3>4 DEF Submissions!Next
  <2>4. CASE call[c].at # "submitted"
    <3>1. \A d \in Calls : Outcome(d)' = Outcome(d)
      BY <1>1, <1>3, <2>4, OutcomeGoes
    <3> QED
      BY <2>2, <3>1 DEF Submissions!svars
  <2> QED
    BY <2>3, <2>4
<1> QED
  BY <1>6, <1>7

\* A transaction that is refused.
LEMMA RefuseImplements ==
    ASSUME ChannelsInv, NEW t \in mempool, Refuse(t)
    PROVE  [Submissions!Next]_(Submissions!svars)
<1> DEFINE c == t.call
<1>1. /\ c \in Calls
      /\ \A n \in DOMAIN ledger : ledger[n].tx.call # c
      /\ \A d \in Calls : d # c => call'[d] = call[d]
      /\ UNCHANGED ledger
  BY SentType, RefuseMoves DEF ChannelsInv, SentIsWaitedFor
<1>2. CASE call[c].at = "submitted"
  <2>1. Outcome(c) = "open" /\ Outcome(c)' = "refused"
    BY <1>1, <1>2, RefuseMoves, OutcomeIs, OutcomeGoes DEF Holding, Refusals
  <2>2. Submissions!Refuse(c)
    BY <1>1, <2>1, GoesTo, LandedCount DEF Submissions!Refuse, Submissions!Landed
  <2> QED
    BY <1>1, <2>2 DEF Submissions!Next
<1>3. CASE call[c].at # "submitted"
  <2>1. \A d \in Calls : Outcome(d)' = Outcome(d)
    BY <1>1, <1>3, RefuseMoves, OutcomeGoes
  <2> QED
    BY <1>1, <2>1, ShowsNothing
<1> QED
  BY <1>2, <1>3

\* The calls of a process that dies are given up together.
LEMMA CrashImplements ==
    ASSUME ChannelsInv, NEW p \in Processes, Crash(p)
    PROVE  Submissions!Next
<1> DEFINE lost == {c \in Calls : call[c].proc = p /\ call[c].at \notin Ends}
<1>1. UNCHANGED ledger
  BY CrashMoves
<1>2. \A c \in lost : Outcome(c) = "open" /\ Outcome(c)' = "unknown"
  <2> SUFFICES ASSUME NEW c \in Calls, call[c].proc = p, call[c].at \notin Ends
               PROVE  Outcome(c) = "open" /\ Outcome(c)' = "unknown"
    OBVIOUS
  <2>1. call[c].at \in {"waiting"} \cup Holding
    BY CallType DEF ChannelsInv, CallsAreSomewhere, proc
  <2>2. call'[c].at = "died"
    BY CrashMoves
  <2> QED
    BY <2>1, <2>2, OutcomeIs, OutcomeGoes DEF GivenUp
<1>3. \A c \in Calls : c \notin lost => Outcome(c)' = Outcome(c)
  BY CrashMoves, OutcomeGoes
<1>4. Submissions!GiveUp(lost)
  BY <1>1, <1>2, <1>3, LandedStill DEF Submissions!GiveUp
<1> QED
  BY <1>4 DEF Submissions!Next

\* Every other step starts a call, or shows nothing.
LEMMA OtherImplements ==
    ASSUME ChannelsInv,
           \/ \E c \in Calls, p \in Processes : Start(c, p)
           \/ \E c \in Calls : Acquire(c)
           \/ \E c \in Calls : ReadFee(c) \/ GetFee(c)
           \/ \E c \in Calls : Submit(c) /\ sequence[call[c].channel] # 0
           \/ RaiseFee \/ CreateChannel
           \/ UNCHANGED vars
    PROVE  [Submissions!Next]_(Submissions!svars)
<1>1. CASE \E c \in Calls, p \in Processes : Start(c, p)
  <2>1. PICK c \in Calls : \E p \in Processes : Start(c, p)
    BY <1>1
  <2>2. Outcome(c) = "none" /\ Outcome(c)' = "open"
    BY <2>1, StartMoves, OutcomeIs, OutcomeGoes
  <2>3. Submissions!Call(c)
    BY <2>1, <2>2, StartMoves, GoesTo DEF Submissions!Call
  <2> QED
    BY <2>3 DEF Submissions!Next
<1>2. ASSUME NEW c \in Calls, UNCHANGED ledger,
             \A d \in Calls : d # c => call'[d] = call[d],
             call[c].at \in {"waiting"} \cup Holding, call'[c].at \in {"waiting"} \cup Holding
      PROVE  UNCHANGED Submissions!svars
  <2>1. \A d \in Calls : Outcome(d)' = Outcome(d)
    BY <1>2, OutcomeIs, OutcomeGoes
  <2> QED
    BY <1>2, <2>1, ShowsNothing
<1>3. CASE \E c \in Calls : Acquire(c)
  BY <1>2, <1>3, AcquireMoves DEF NeedsFee, Holding
<1>4. CASE \E c \in Calls : ReadFee(c) \/ GetFee(c)
  BY <1>2, <1>4, FeeMoves DEF Holding
<1>5. CASE \E c \in Calls : Submit(c) /\ sequence[call[c].channel] # 0
  BY <1>2, <1>5, SendMoves DEF Holding
<1>6. CASE RaiseFee \/ CreateChannel \/ UNCHANGED vars
  <2>1. UNCHANGED <<call, ledger>>
    BY <1>6 DEF RaiseFee, CreateChannel, vars
  <2> QED
    BY <2>1, OutcomeGoes, ShowsNothing
<1> QED
  BY <1>1, <1>3, <1>4, <1>5, <1>6

\* Kin.pay and Kin.createWallet are what PaymentSender and WalletCreator take them for: a call
\* lands once at most, returns only what landed, and is refused only if it never lands.
THEOREM SubmissionIsKept == Spec => KeepsSubmission
<1>1. Init => Submissions!Init
  <2> SUFFICES ASSUME Init PROVE Submissions!Init
    OBVIOUS
  <2>1. \A c \in Calls : Outcome(c) = "none"
    BY OutcomeIs DEF Init, NoCall
  <2>2. \A c \in Calls : Cardinality(LandedAt(c)) = 0
    BY ChannelsInvInit, LandedCount DEF Init
  <2> QED
    BY <2>1, <2>2 DEF Submissions!Init
<1>2. ChannelsInv /\ [Next]_vars => [Submissions!Next]_(Submissions!svars)
  BY Moves, EndImplements, LandImplements, RefuseImplements, CrashImplements, OtherImplements
<1> QED
  BY <1>1, <1>2, ChannelsInvariance, PTL DEF Spec, KeepsSubmission, Submissions!Spec
=============================================================================
