------------------------------ MODULE PaymentViews ------------------------------
(***************************************************************************)
(* What the service makes of one payment in its different places: Kin.pay  *)
(* writes id and app into the memo of a transaction; the record of         *)
(* GET /payments/<id>, the callbacks of the watcher and the history        *)
(* GET /wallets/<address>/payments show it; POST /whitelist compares the   *)
(* transaction of a client with the order it is to be for.                 *)
(*                                                                         *)
(* A string that parseMemo may split is the sequence of its parts between  *)
(* the dashes: "a-b" is <<"a", "b">>. No string at all is <<>>.            *)
(***************************************************************************)
EXTENDS Naturals, Sequences

CONSTANTS
    Hot, Warm,        \* appsAccounts: the addresses of the accounts of each known app
    Root, Channel,    \* the addresses of the root account and of a channel
    NoAddress,        \* null value
    AnonApp,          \* the app id the SDK puts into memos of an account without one
    Network,          \* the network the service is configured for
    PaymentRequests,  \* what POST /payments may ask for
    WhitelistRequests \* what POST /whitelist may ask for, xdr decoded

KnownApps == DOMAIN Hot

\* A string that may be split, and one without a dash: it has one part.
Text == Seq(STRING)
Plain(id) == Len(id) = 1

ASSUME ViewsAssumption ==
    /\ DOMAIN Warm = KnownApps
    /\ KnownApps \cup {AnonApp} \subseteq {app \in Text : Plain(app)}
    /\ NoAddress \notin {Root, Channel}
    /\ \A app \in KnownApps : NoAddress \notin {Hot[app], Warm[app]}
    /\ \A r \in PaymentRequests : r.id \in Text /\ (r.is_external => r.app_id \in KnownApps)
    /\ \A r \in WhitelistRequests : r.order_id \in Text

VARIABLES
    request,     \* the payment request a worker has
    order,       \* the whitelist request of a client
    answer,      \* the answer to it
    chain,       \* the transactions on the blockchain
    record       \* the record "payment:<request.id>", NoRecord for none

vars == <<request, order, answer, chain, record>>

Undefined == <<>>

NoRecord == [transaction_id |-> 0]

Answers == {"none", "whitelisted", "mismatch", "serverError"}

ViewsTypeOK ==
    /\ request \in PaymentRequests
    /\ order \in WhitelistRequests
    /\ answer \in Answers
    /\ Len(chain) <= 2
    /\ record.transaction_id \in 0..Len(chain)

Init ==
    /\ request \in PaymentRequests
    /\ order \in WhitelistRequests
    /\ answer = "none"
    /\ chain = <<>>
    /\ record = NoRecord

-----------------------------------------------------------------------------
(* Transactions and memos. *)

Part(memo, n) == IF n <= Len(memo) THEN <<memo[n]>> ELSE Undefined

\* Variant for the mutation check: the version is taken for the app id.
parseMemoFromFirst(memo) == [appId |-> Part(memo, 1), paymentId |-> Part(memo, 2)]

parseMemo(memo) == [appId |-> Part(memo, 2), paymentId |-> Part(memo, 3)]

\* The SDK writes version, app id and the text it was given into the memo.
memoOf(app, text) == [type |-> "text", value |-> <<"1">> \o app \o text]

\* An operation that names no source has that of its transaction.
sourceOf(tx, op) == IF op.source = NoAddress THEN tx.source ELSE op.source

\* The time of transaction n of the chain, the place of n in time; "" for none.
timestampOf(n) == n
NoTimestamp == 0

\* TransactionRetriever takes a transaction with one payment for a PaymentTransaction.
IsPaymentTransaction(tx) == Len(tx.operations) = 1 /\ tx.operations[1].type = "payment"

-----------------------------------------------------------------------------
(* Kin.pay and savePayment. *)

\* The account that pays: "joined wallet" unless the sender is the app's own wallet.
payingAccount(r) ==
    IF ~r.is_external THEN [address |-> Root, app |-> AnonApp]
    ELSE [address |-> IF r.sender_address = Hot[r.app_id] THEN Hot[r.app_id]
                                                          ELSE Warm[r.app_id],
          app |-> r.app_id]

buildSendKin(r, account) ==
    [source |-> Channel,
     memo |-> memoOf(account.app, r.id),
     operations |-> <<[type |-> "payment", source |-> account.address,
                       destination |-> r.recipient_address, amount |-> r.amount]>>]

\* Variant for the mutation check: the record names the sender that was asked for.
PayFromRequested ==
    /\ record = NoRecord
    /\ chain' = Append(chain, buildSendKin(request, payingAccount(request)))
    /\ record' = [id |-> request.id, app_id |-> request.app_id,
                  sender_address |-> request.sender_address,
                  recipient_address |-> request.recipient_address,
                  amount |-> request.amount, transaction_id |-> Len(chain) + 1,
                  timestamp |-> NoTimestamp]
    /\ UNCHANGED <<request, order, answer>>

\* The transaction lands, and what pay returns is saved, without its time.
Pay ==
    /\ record = NoRecord
    /\ LET account == payingAccount(request)
       IN  /\ chain' = Append(chain, buildSendKin(request, account))
           /\ record' = [id |-> request.id, app_id |-> request.app_id,
                         sender_address |-> account.address,
                         recipient_address |-> request.recipient_address,
                         amount |-> request.amount, transaction_id |-> Len(chain) + 1,
                         timestamp |-> NoTimestamp]
    /\ UNCHANGED <<request, order, answer>>

-----------------------------------------------------------------------------
(* WhitelistService. *)

\* Kin.decodeTransaction does not throw.
decodes(r) == r.network_id = Network /\ r.decodable

\* verifyTransaction: the memo is a text with the app and the order.
MemoMatches(tx, r) ==
    /\ tx.memo.type = "text"
    /\ parseMemo(tx.memo.value) = [appId |-> r.app_id, paymentId |-> r.order_id]

\* transaction.operations[0], if there is one.
FirstOperation(tx) == {tx.operations[n] : n \in DOMAIN tx.operations \cap {1}}

\* Variant for the mutation check: the source of the operation alone is compared.
OwnSourceMatches(tx, r) ==
    \E op \in FirstOperation(tx) :
        op.source = r.source /\ op.destination = r.destination /\ op.amount = r.amount

\* Variant for the mutation check: the amount is not compared.
AmountIgnored(tx, r) ==
    \E op \in FirstOperation(tx) :
        sourceOf(tx, op) = r.source /\ op.destination = r.destination

\* verifyTransaction: the first operation. Both amounts are printed in the same way.
OperationMatches(tx, r) ==
    \E op \in FirstOperation(tx) :
        /\ sourceOf(tx, op) = r.source
        /\ op.destination = r.destination
        /\ op.amount = r.amount

WhitelistGoes(to) ==
    /\ answer = "none"
    /\ answer' = to
    /\ UNCHANGED <<request, order, chain, record>>

\* TransactionMismatchError.
Mismatch ==
    /\ \/ ~decodes(order)
       \/ ~MemoMatches(order.tx, order)
       \/ order.tx.operations # <<>> /\ ~OperationMatches(order.tx, order)
    /\ WhitelistGoes("mismatch")

\* A TypeError: the transaction has no operation, or nothing is known of the app. The
\* NoSuchServiceError behind it is never thrown.
WhitelistThrows ==
    /\ decodes(order) /\ MemoMatches(order.tx, order)
    /\ \/ order.tx.operations = <<>>
       \/ OperationMatches(order.tx, order) /\ order.app_id \notin KnownApps
    /\ WhitelistGoes("serverError")

Whitelist ==
    /\ decodes(order) /\ MemoMatches(order.tx, order)
    /\ OperationMatches(order.tx, order)
    /\ order.app_id \in KnownApps
    /\ WhitelistGoes("whitelisted")

-----------------------------------------------------------------------------
(* The client and the end. *)

\* Variant for the mutation check: a transaction lands as often as it is submitted.
SubmitAgain ==
    /\ answer = "whitelisted"
    /\ chain' = Append(chain, order.tx)
    /\ UNCHANGED <<request, order, answer, record>>

\* The client submits its transaction with the signature of the service. Its sequence
\* number makes it land once.
Submit ==
    /\ answer = "whitelisted"
    /\ \A n \in DOMAIN chain : n = record.transaction_id
    /\ chain' = Append(chain, order.tx)
    /\ UNCHANGED <<request, order, answer, record>>

\* Everything was asked and answered.
AtRest ==
    /\ record # NoRecord
    /\ answer # "none"
    /\ answer = "whitelisted" => Len(chain) = 2
    /\ UNCHANGED vars

Next == Pay \/ Mismatch \/ WhitelistThrows \/ Whitelist \/ Submit \/ AtRest

Spec == Init /\ [][Next]_vars

-----------------------------------------------------------------------------
(* What is shown of a payment. *)

\* PaymentService.getPayment for the id of the request, 404 for NoRecord.
getPayment == record

\* Transaction n of the chain, a PaymentTransaction, as a Payment.
shown(n, memo) ==
    LET op == chain[n].operations[1]
    IN  [id |-> memo.paymentId, app_id |-> memo.appId,
         sender_address |-> sourceOf(chain[n], op), recipient_address |-> op.destination,
         amount |-> op.amount, transaction_id |-> n, timestamp |-> timestampOf(n)]

\* WatcherProcessor.parsePayment: the payment in the callback to who watches. It throws
\* when there is no memo (see Watcher).
parsePayment(n) == shown(n, parseMemo(chain[n].memo.value))

\* WalletService.getWalletPayments: the history of an address. Bound: the chain is shorter
\* than the 100 transactions Kin.getPaymentTransactions asks for.
getWalletPayments(address) ==
    LET ofWallet(n) == /\ IsPaymentTransaction(chain[n])
                       /\ LET op == chain[n].operations[1]
                          IN  address \in {sourceOf(chain[n], op), op.destination}
        memo(n) == IF chain[n].memo.type = "text" THEN parseMemo(chain[n].memo.value)
                   ELSE [appId |-> Undefined, paymentId |-> Undefined]
    IN  {shown(n, memo(n)) : n \in {m \in DOMAIN chain : ofWallet(m)}}

-----------------------------------------------------------------------------
(* Properties. *)

\* A payment that was made, if its id has no dash, is one and the same payment in the callback
\* of the watcher and in the histories of its sender and its recipient. GET /payments/<id>
\* answers the same, except that it knows no time, and the app of a payment by the root account
\* that nobody else can tell. ("timestamp cannot be extracted without reaching blockchain, do
\* it only when payment is being query from the outside world": Kin.pay; getPayment does not.)
ViewsAgree ==
    getPayment # NoRecord /\ Plain(getPayment.id) =>
        LET seen == parsePayment(getPayment.transaction_id)
        IN  /\ seen \in getWalletPayments(getPayment.sender_address)
            /\ seen \in getWalletPayments(getPayment.recipient_address)
            /\ \A field \in DOMAIN seen :
                   \/ getPayment[field] = seen[field]
                   \/ field = "timestamp" /\ getPayment.timestamp = NoTimestamp
                   \/ field = "app_id" /\ ~request.is_external /\ seen.app_id = AnonApp

\* A whitelisted transaction that lands as a payment is reported, to who watches, as the
\* very order it was whitelisted for (verifyTransaction, parsePayment).
WhitelistedIsOrder ==
    \A n \in DOMAIN chain : n # record.transaction_id /\ IsPaymentTransaction(chain[n]) =>
        parsePayment(n) = [id |-> order.order_id, app_id |-> order.app_id,
                           sender_address |-> order.source,
                           recipient_address |-> order.destination,
                           amount |-> order.amount, transaction_id |-> n,
                           timestamp |-> timestampOf(n)]

\* The transaction that an SDK builds for r, with or without a source of the operation.
IsBuiltFor(tx, r) ==
    /\ tx.memo = memoOf(r.app_id, r.order_id)
    /\ tx.operations \in {<<[type |-> "payment", source |-> s, destination |-> r.destination,
                             amount |-> r.amount]>> : s \in {NoAddress, r.source}}
    /\ tx.source = r.source

\* A client that builds its transaction for the order of a known app gets it whitelisted,
\* if the order id has no dash (whitelistTransaction).
OrderIsWhitelisted ==
    /\ answer # "none"
    /\ decodes(order) /\ IsBuiltFor(order.tx, order)
    /\ order.app_id \in KnownApps /\ Plain(order.order_id)
    => answer = "whitelisted"
=============================================================================
