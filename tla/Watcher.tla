------------------------------- MODULE Watcher -------------------------------
(***************************************************************************)
(* The watcher process (WatcherApp, WatcherProcessor and                   *)
(* Kin.getLatestPaymentTransactions): beat after beat it reads the watched *)
(* wallets and the cursor, asks Horizon for the transactions behind the    *)
(* cursor, tells the services that watch a wallet of a payment, and saves  *)
(* the cursor. The registry of watchers changes underneath it.             *)
(***************************************************************************)
EXTENDS WatcherRegistry, Integers

CONSTANTS
    Transactions,   \* what may land on the blockchain: see TransactionType
    MaxLedger,      \* bound: how many transactions land
    Limit,          \* transactions in one page of Horizon, 100 in the code
    MaxFailures     \* bound: how many beats fail for want of Redis, Horizon or power

NoCursor == -1      \* null value: no key "cursor"

\* A transaction between two wallets, with or without a memo, or of any other type.
TransactionType ==
    [type : {"payment", "other"}, source : Wallets, destination : Wallets, memo : BOOLEAN]

ASSUME WatcherAssumption ==
    /\ Transactions \subseteq TransactionType
    /\ MaxLedger \in Nat /\ MaxFailures \in Nat
    /\ Limit \in Nat \ {0}

VARIABLES
    ledger,      \* the transactions on the blockchain, in the order of their paging tokens
    cursor,      \* the cursor in Redis: how many transactions are behind it
    at,          \* where the beat is
    watched,     \* addresses: the watched wallets as the beat read them
    page,        \* the page of this beat: behind page.from, up to page.to
    done,        \* how far in the page the loop is
    todo,        \* the services that are still to be told of transaction done
    told,        \* told[s, n]: how many callback jobs tell s of transaction n
    failures,    \* how many beats failed
    steady       \* history: who watches which wallet ever since this beat began

beatVars == <<watched, page, done, todo>>
vars == <<rvars, ledger, cursor, at, beatVars, told, failures, steady>>

Stages == {"idle", "cursor", "request", "answer", "page", "notify"}

NoPage == [from |-> 0, to |-> 0]

\* Bound: told is not counted beyond this number.
MaxTold == MaxFailures + 2

Watch == Services \X Wallets

WatcherTypeOK ==
    /\ RegistryTypeOK
    /\ ledger \in Seq(Transactions) /\ Len(ledger) <= MaxLedger
    /\ cursor \in {NoCursor} \cup 0..Len(ledger)
    /\ at \in Stages
    /\ watched \subseteq Wallets
    /\ page \in [from : {NoCursor} \cup 0..Len(ledger), to : 0..Len(ledger)]
    /\ done \in 0..Len(ledger)
    /\ todo \subseteq Services
    /\ told \in [Services \X (1..MaxLedger) -> 0..MaxTold]
    /\ failures \in 0..MaxFailures
    /\ steady \subseteq Watch

Init ==
    /\ RegistryInit
    /\ ledger = <<>>
    /\ cursor = NoCursor
    /\ at = "idle"
    /\ watched = {} /\ page = NoPage /\ done = 0 /\ todo = {}
    /\ told = [d \in Services \X (1..MaxLedger) |-> 0]
    /\ failures = 0
    /\ steady = {}

-----------------------------------------------------------------------------
(* The blockchain and the API, while the beat is anywhere. *)

\* A transaction lands.
Land ==
    /\ Len(ledger) < MaxLedger
    /\ \E tx \in Transactions : ledger' = Append(ledger, tx)
    /\ UNCHANGED <<rvars, cursor, at, beatVars, told, failures, steady>>

\* A step of a request to the API.
ApiStep ==
    /\ RegistryNext
    /\ steady' = steady \cap Watching'
    /\ UNCHANGED <<ledger, cursor, at, beatVars, told, failures>>

-----------------------------------------------------------------------------
(* WatcherProcessor.processPayments *)

Goes(from, to) ==
    /\ at = from
    /\ at' = to

\* The timer of WatcherApp fires: await getAllWatchedAddresses.
StartBeat ==
    /\ Goes("idle", "cursor")
    /\ watched' = getAllWatchedAddresses
    /\ steady' = Watching
    /\ UNCHANGED <<rvars, ledger, cursor, page, done, todo, told, failures>>

\* Variant for the mutation check: the cursor is not passed on to Horizon.
ReadCursorInVain ==
    /\ Goes("cursor", "request")
    /\ page' = [NoPage EXCEPT !.from = NoCursor]
    /\ UNCHANGED <<rvars, ledger, cursor, watched, done, todo, told, failures, steady>>

\* await getCursor
ReadCursor ==
    /\ Goes("cursor", "request")
    /\ page' = [NoPage EXCEPT !.from = cursor]
    /\ UNCHANGED <<rvars, ledger, cursor, watched, done, todo, told, failures, steady>>

\* Kin.getLatestPaymentTransactions: Horizon turns the cursor "now" into its newest
\* transaction.
RequestPage ==
    /\ Goes("request", "answer")
    /\ page' = [page EXCEPT !.from = IF @ = NoCursor THEN Len(ledger) ELSE @]
    /\ UNCHANGED <<rvars, ledger, cursor, watched, done, todo, told, failures, steady>>

\* Horizon answers with the transactions behind it.
AnswerPage ==
    /\ Goes("answer", "page")
    /\ page' = [page EXCEPT !.to =
                  IF page.from + Limit < Len(ledger) THEN page.from + Limit ELSE Len(ledger)]
    /\ done' = page.from
    /\ UNCHANGED <<rvars, ledger, cursor, watched, todo, told, failures, steady>>

\* getLatestPaymentTransactions: the payments of a watched wallet, from it or else to it.
IsWatched(n) ==
    /\ ledger[n].type = "payment"
    /\ {ledger[n].source, ledger[n].destination} \cap watched # {}

watchedAddress(n) ==
    IF ledger[n].source \in watched THEN ledger[n].source ELSE ledger[n].destination

\* Transaction n is the next payment in the loop over data.payments.
IsNext(n) ==
    /\ IsWatched(n)
    /\ \A m \in done + 1 .. n - 1 : ~IsWatched(m)

\* parsePayment, then await getServicesByWatchedAddress.
FindServices ==
    /\ at = "page"
    /\ \E n \in done + 1 .. page.to :
         /\ IsNext(n)
         /\ ledger[n].memo
         /\ todo' = getServicesByWatchedAddress(watchedAddress(n))
         /\ at' = IF todo' = {} THEN "page" ELSE "notify"
         /\ done' = n
    /\ UNCHANGED <<rvars, ledger, cursor, watched, page, told, failures, steady>>

\* parsePayment of a payment without a memo throws: the beat fails.
ParseFails ==
    /\ Goes("page", "idle")
    /\ \E n \in done + 1 .. page.to : IsNext(n) /\ ~ledger[n].memo
    /\ UNCHANGED <<rvars, ledger, cursor, beatVars, told, failures, steady>>

enqueuePaymentCallback(s) ==
    told' = [told EXCEPT ![<<s, done>>] = IF @ < MaxTold THEN @ + 1 ELSE @]

\* await getService and enqueuePaymentCallback, for one service.
Notify ==
    /\ at = "notify"
    /\ \E s \in todo :
         /\ enqueuePaymentCallback(s)
         /\ todo' = todo \ {s}
    /\ at' = IF todo' = {} THEN "page" ELSE "notify"
    /\ UNCHANGED <<rvars, ledger, cursor, watched, page, done, failures, steady>>

\* Variant for the mutation check: the cursor is saved before the payments are looked at.
LoopIsOverAtOnce == done = page.from

\* The loop over data.payments is over.
LoopIsOver == \A n \in done + 1 .. page.to : ~IsWatched(n)

\* Variant for the mutation check: the token of the last transaction but one is saved.
SaveCursorBefore ==
    /\ Goes("page", "idle")
    /\ LoopIsOver
    /\ page.to > page.from
    /\ cursor' = page.to - 1
    /\ UNCHANGED <<rvars, ledger, beatVars, told, failures, steady>>

\* Variant for the mutation check: the token of the transaction to come is saved.
SaveCursorBeyond ==
    /\ Goes("page", "idle")
    /\ LoopIsOver
    /\ page.to > page.from
    /\ cursor' = page.to + 1
    /\ UNCHANGED <<rvars, ledger, beatVars, told, failures, steady>>

\* await saveCursor: the last transaction of the page.
SaveCursor ==
    /\ Goes("page", "idle")
    /\ LoopIsOver
    /\ page.to > page.from
    /\ cursor' = page.to
    /\ UNCHANGED <<rvars, ledger, beatVars, told, failures, steady>>

\* The page was empty: there is no paging token.
EmptyPage ==
    /\ Goes("page", "idle")
    /\ page.to = page.from
    /\ UNCHANGED <<rvars, ledger, cursor, beatVars, told, failures, steady>>

\* An await is rejected, or the process dies and starts again: the next beat begins anew.
\* The command that failed may have taken effect.
BeatFails ==
    /\ at # "idle"
    /\ at' = "idle"
    /\ failures < MaxFailures
    /\ failures' = failures + 1
    /\ \/ UNCHANGED <<cursor, told>>
       \/ at = "notify" /\ UNCHANGED cursor
            /\ \E s \in todo : enqueuePaymentCallback(s)
       \/ at = "page" /\ LoopIsOver /\ page.to > page.from
            /\ cursor' = page.to /\ UNCHANGED told
    /\ UNCHANGED <<rvars, ledger, beatVars, steady>>

Beat ==
    \/ StartBeat \/ ReadCursor \/ RequestPage \/ AnswerPage \/ FindServices \/ ParseFails
    \/ Notify \/ SaveCursor \/ EmptyPage

Next == Land \/ ApiStep \/ Beat \/ BeatFails

Spec == Init /\ [][Next]_vars

\* WatcherApp schedules the next beat whatever became of the last one.
LiveSpec == Spec /\ WF_vars(Beat)

-----------------------------------------------------------------------------
(* Properties. *)

Told(s, n) == told[<<s, n>>] > 0

\* The cursor only passes a payment when everyone was told who watched its wallet from the
\* beginning of the beat on (processPayments: callbacks first, cursor last, whatever fails).
CursorPassesOnlyTold ==
    [][cursor' # cursor =>
         LET from == IF cursor = NoCursor THEN page.from ELSE cursor
         IN  /\ cursor' > from
             /\ \A n \in from + 1 .. cursor' : IsWatched(n) =>
                  \A s \in Services : <<s, watchedAddress(n)>> \in steady => Told(s, n)]_vars

\* The watcher keeps the promise of Notifier.
Promise == INSTANCE Notifier WITH
    NoPosition <- NoCursor,
    position <- cursor,
    watching <- Watching,
    listed <- watched,
    promised <- steady,
    called <- IF at = "notify" THEN todo \X {done} ELSE {},
    told <- {d \in DOMAIN told : Told(d[1], d[2])}

KeepsPromise == Promise!Spec

\* The payments that no beat gets past.
Blocking == {n \in DOMAIN ledger : ledger[n].type = "payment" /\ ~ledger[n].memo}

\* A service is told of a payment once, and once more for every beat that failed, as long as
\* no payment fails them all (processPayments: the next beat starts where the last good one
\* ended).
ToldOncePerFailure == Blocking = {} => \A d \in DOMAIN told : told[d] <= failures + 1

\* Once there is a cursor, it gets to every transaction that lands, unless a payment before
\* or behind it blocks the page.
CursorGetsOn ==
    \A n \in 1..MaxLedger :
        (cursor # NoCursor /\ Len(ledger) >= n) ~> cursor >= n \/ Blocking # {}

\* Once there is a cursor, it gets to every transaction that lands: a payment may have no
\* memo, "if (paymentTx.memo)" (WalletService.getWalletPayments).
CursorCatchesUp ==
    \A n \in 1..MaxLedger : (cursor # NoCursor /\ Len(ledger) >= n) ~> cursor >= n
=============================================================================
