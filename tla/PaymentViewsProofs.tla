-------------------------- MODULE PaymentViewsProofs --------------------------
(***************************************************************************)
(* Proofs about PaymentViews: the payment in its record, in the callbacks  *)
(* of the watcher and in the histories, and the transactions that are      *)
(* whitelisted, for every set of apps, of requests and of transactions.    *)
(***************************************************************************)
EXTENDS PaymentViews, TLAPS

USE ViewsAssumption

\* The transaction that pays for the request, and the record that is saved of it when it is
\* transaction n of the chain.
Paid == buildSendKin(request, payingAccount(request))

RecordOf(n) ==
    [id |-> request.id, app_id |-> request.app_id,
     sender_address |-> payingAccount(request).address,
     recipient_address |-> request.recipient_address,
     amount |-> request.amount, transaction_id |-> n, timestamp |-> NoTimestamp]

\* The order was compared with its transaction, and its app is known.
OrderWasVerified ==
    /\ decodes(order) /\ MemoMatches(order.tx, order) /\ OperationMatches(order.tx, order)
    /\ order.app_id \in KnownApps

\* The payment and the transaction of the client are on the chain, in either order and once
\* each; the record names the payment's place, and only a verified transaction is there.
ChainHolds ==
    \/ chain = <<>> /\ record = NoRecord
    \/ chain = <<Paid>> /\ record = RecordOf(1)
    \/ /\ answer = "whitelisted"
       /\ \/ chain = <<order.tx>> /\ record = NoRecord
          \/ chain = <<Paid, order.tx>> /\ record = RecordOf(1)
          \/ chain = <<order.tx, Paid>> /\ record = RecordOf(2)

ViewsInv ==
    /\ request \in PaymentRequests /\ order \in WhitelistRequests /\ answer \in Answers
    /\ ChainHolds
    /\ answer = "whitelisted" => OrderWasVerified
    /\ OrderIsWhitelisted

-----------------------------------------------------------------------------
(* Texts and memos. *)

\* Sequences are equal that have the same length and the same elements.
LEMMA SameSequence ==
    ASSUME NEW S, NEW s \in Seq(S), NEW t \in Seq(S), Len(s) = Len(t),
           \A n \in 1..Len(s) : s[n] = t[n]
    PROVE  s = t
OBVIOUS

\* Where the elements of two sequences are, one behind the other.
LEMMA Behind ==
    ASSUME NEW S, NEW s \in Seq(S), NEW t \in Seq(S)
    PROVE  /\ s \o t \in Seq(S) /\ Len(s \o t) = Len(s) + Len(t)
           /\ \A n \in 1..Len(s) : (s \o t)[n] = s[n]
           /\ \A n \in 1..Len(t) : (s \o t)[n + Len(s)] = t[n]
OBVIOUS

\* A memo that the SDK writes is split into what was put into it.
LEMMA MemoIsParsed ==
    ASSUME NEW app \in Text, NEW id \in Text, Plain(app), Plain(id)
    PROVE  parseMemo(<<"1">> \o app \o id) = [appId |-> app, paymentId |-> id]
<1> DEFINE S == STRING \cup {"1"}
           version == <<"1">>
           head == version \o app
           memo == head \o id
<1>1. app \in Seq(STRING) /\ id \in Seq(STRING) /\ Len(app) = 1 /\ Len(id) = 1
  BY DEF Text, Plain
<1>2. app \in Seq(S) /\ id \in Seq(S)
  BY <1>1
<1>3. version \in Seq(S) /\ Len(version) = 1
  OBVIOUS
<1> HIDE DEF S, version
<1>4. head \in Seq(S) /\ Len(head) = Len(version) + Len(app) /\ head[1 + Len(version)] = app[1]
  BY <1>1, <1>2, <1>3, Behind
<1> HIDE DEF head
<1>5. head \in Seq(S) /\ Len(head) = 2 /\ head[2] = app[1]
  BY <1>1, <1>3, <1>4
<1>6. /\ memo \in Seq(S) /\ Len(memo) = Len(head) + Len(id)
      /\ memo[2] = head[2] /\ memo[1 + Len(head)] = id[1]
  <2>1. head \in Seq(S) /\ id \in Seq(S)
    BY <1>2, <1>5
  <2>2. /\ memo \in Seq(S) /\ Len(memo) = Len(head) + Len(id)
        /\ \A n \in 1..Len(head) : memo[n] = head[n]
        /\ \A n \in 1..Len(id) : memo[n + Len(head)] = id[n]
    BY <2>1, Behind
  <2>3. 2 \in 1..Len(head) /\ 1 \in 1..Len(id)
    BY <1>1, <1>5
  <2> HIDE DEF memo
  <2> QED
    BY <2>2, <2>3
<1> HIDE DEF memo
<1>7. Len(memo) = 3 /\ memo[2] = app[1] /\ memo[3] = id[1]
  BY <1>1, <1>5, <1>6
<1>8. <<app[1]>> = app /\ <<id[1]>> = id
  BY <1>1
<1>9. Part(memo, 2) = app /\ Part(memo, 3) = id
  BY <1>7, <1>8 DEF Part
<1> QED
  BY <1>9 DEF parseMemo, memo, head, version

\* Kin.pay and SDKs write memos that parseMemo reads.
LEMMA MemoIsRead ==
    ASSUME NEW app \in Text, NEW id \in Text, Plain(app), Plain(id)
    PROVE  /\ memoOf(app, id).type = "text"
           /\ parseMemo(memoOf(app, id).value) = [appId |-> app, paymentId |-> id]
<1> DEFINE memo == <<"1">> \o app \o id
<1>1. parseMemo(memo) = [appId |-> app, paymentId |-> id]
  BY MemoIsParsed
<1> HIDE DEF memo
<1>2. memoOf(app, id) = [type |-> "text", value |-> memo]
  BY DEF memoOf, memo
<1> QED
  BY <1>1, <1>2

\* The account that pays has an address, and its app is written without a dash.
LEMMA AccountIsKnown ==
    ASSUME NEW r \in PaymentRequests
    PROVE  /\ payingAccount(r).address # NoAddress
           /\ payingAccount(r).app \in Text /\ Plain(payingAccount(r).app)
<1>1. CASE r.is_external
  BY <1>1 DEF payingAccount
<1>2. CASE ~r.is_external
  BY <1>2 DEF payingAccount
<1> QED
  BY <1>1, <1>2

\* An empty chain and chains of one and two transactions.
LEMMA ShortChains ==
    ASSUME NEW x, NEW y
    PROVE  /\ Len(<<>>) = 0 /\ Len(<<x>>) = 1 /\ Len(<<x, y>>) = 2
           /\ DOMAIN <<>> = {} /\ DOMAIN <<x>> = {1} /\ DOMAIN <<x, y>> = {1, 2}
           /\ <<x>>[1] = x /\ <<x, y>>[1] = x /\ <<x, y>>[2] = y
           /\ Append(<<>>, x) = <<x>> /\ Append(<<x>>, y) = <<x, y>>
<1> DEFINE S == {x, y}
           s == Append(<<x>>, y)
           t == <<x, y>>
<1>1. <<x>> \in Seq(S) /\ Len(<<x>>) = 1 /\ <<x>>[1] = x
  OBVIOUS
<1>2. t \in Seq(S) /\ Len(t) = 2 /\ t[1] = x /\ t[2] = y
  OBVIOUS
<1>3. s \in Seq(S) /\ Len(s) = 2 /\ s[1] = x /\ s[2] = y
  BY <1>1
<1>4. /\ Len(<<>>) = 0 /\ Len(<<x>>) = 1 /\ Len(<<x, y>>) = 2
      /\ DOMAIN <<>> = {} /\ DOMAIN <<x>> = {1} /\ DOMAIN <<x, y>> = {1, 2}
      /\ <<x>>[1] = x /\ <<x, y>>[1] = x /\ <<x, y>>[2] = y
      /\ Append(<<>>, x) = <<x>>
  OBVIOUS
<1> HIDE DEF S, s, t
<1>5. \A n \in 1..Len(s) : s[n] = t[n]
  BY <1>2, <1>3
<1>6. s = t
  BY <1>2, <1>3, <1>5, SameSequence
<1> QED
  BY <1>4, <1>6 DEF s, t

\* Records differ from no record, and name their place.
LEMMA RecordsNamePlaces ==
    /\ NoRecord.transaction_id = 0
    /\ \A n \in Nat : RecordOf(n).transaction_id = n
    /\ \A n \in Nat \ {0} : RecordOf(n) # NoRecord
<1>1. NoRecord.transaction_id = 0 /\ \A n \in Nat : RecordOf(n).transaction_id = n
  BY DEF NoRecord, RecordOf
<1> QED
  BY <1>1

-----------------------------------------------------------------------------
(* The invariant. *)

\* The invariant holds at the start.
LEMMA ViewsInvInit == Init => ViewsInv
BY DEF Init, ViewsInv, ChainHolds, OrderIsWhitelisted, Answers

\* What does not change the request, the order, the chain and the record.
LEMMA ChainStays ==
    ASSUME ChainHolds, UNCHANGED <<request, order, chain, record>>,
           answer = "whitelisted" => answer' = "whitelisted"
    PROVE  ChainHolds'
<1>1. Paid' = Paid /\ RecordOf(1)' = RecordOf(1) /\ RecordOf(2)' = RecordOf(2)
  BY DEF Paid, RecordOf
<1> QED
  BY <1>1 DEF ChainHolds

\* The payment lands, first or behind the transaction of the client, and is saved.
LEMMA PayStep ==
    ASSUME ViewsInv, Pay
    PROVE  ViewsInv'
<1>1. /\ record = NoRecord /\ chain' = Append(chain, Paid) /\ record' = RecordOf(Len(chain) + 1)
      /\ UNCHANGED <<request, order, answer>>
  BY DEF Pay, Paid, RecordOf
<1>2. chain = <<>> \/ (answer = "whitelisted" /\ chain = <<order.tx>>)
  BY <1>1, RecordsNamePlaces DEF ViewsInv, ChainHolds
<1>3. \/ chain' = <<Paid>> /\ record' = RecordOf(1)
      \/ answer = "whitelisted" /\ chain' = <<order.tx, Paid>> /\ record' = RecordOf(2)
  <2>1. CASE chain = <<>>
    BY <1>1, <2>1, ShortChains
  <2>2. CASE answer = "whitelisted" /\ chain = <<order.tx>>
    <3>1. Len(<<order.tx>>) = 1 /\ Append(<<order.tx>>, Paid) = <<order.tx, Paid>>
      BY ShortChains
    <3>2. Len(chain) + 1 = 2
      BY <2>2, <3>1
    <3> QED
      BY <1>1, <2>2, <3>1, <3>2
  <2> QED
    BY <1>2, <2>1, <2>2
<1>4. Paid' = Paid /\ RecordOf(1)' = RecordOf(1) /\ RecordOf(2)' = RecordOf(2)
  BY <1>1 DEF Paid, RecordOf
<1>5. ChainHolds'
  BY <1>1, <1>3, <1>4 DEF ChainHolds
<1> QED
  BY <1>1, <1>5 DEF ViewsInv, OrderWasVerified, OrderIsWhitelisted

\* The transaction of the client lands, once.
LEMMA SubmitStep ==
    ASSUME ViewsInv, Submit
    PROVE  ViewsInv'
<1>1. /\ answer = "whitelisted" /\ \A n \in DOMAIN chain : n = record.transaction_id
      /\ chain' = Append(chain, order.tx) /\ UNCHANGED <<request, order, answer, record>>
  BY DEF Submit
<1>2. (chain = <<>> /\ record = NoRecord) \/ (chain = <<Paid>> /\ record = RecordOf(1))
  BY <1>1, ShortChains, RecordsNamePlaces DEF ViewsInv, ChainHolds
<1>3. \/ chain' = <<order.tx>> /\ record = NoRecord
      \/ chain' = <<Paid, order.tx>> /\ record = RecordOf(1)
  <2>1. Append(<<>>, order.tx) = <<order.tx>> /\ Append(<<Paid>>, order.tx) = <<Paid, order.tx>>
    BY ShortChains
  <2> QED
    BY <1>1, <1>2, <2>1
<1>4. Paid' = Paid /\ RecordOf(1)' = RecordOf(1)
  BY <1>1 DEF Paid, RecordOf
<1>5. ChainHolds'
  BY <1>1, <1>3, <1>4 DEF ChainHolds
<1> QED
  BY <1>1, <1>5 DEF ViewsInv, OrderWasVerified, OrderIsWhitelisted

\* The transaction that an SDK builds for an order matches it.
LEMMA BuiltMatches ==
    ASSUME NEW r \in WhitelistRequests, IsBuiltFor(r.tx, r), r.app_id \in KnownApps,
           Plain(r.order_id)
    PROVE  MemoMatches(r.tx, r) /\ OperationMatches(r.tx, r) /\ r.tx.operations # <<>>
<1>1. MemoMatches(r.tx, r)
  <2>1. r.tx.memo = memoOf(r.app_id, r.order_id)
    BY DEF IsBuiltFor
  <2>2. r.app_id \in Text /\ Plain(r.app_id) /\ r.order_id \in Text
    OBVIOUS
  <2> QED
    BY <2>1, <2>2, MemoIsRead DEF MemoMatches
<1>2. PICK s \in {NoAddress, r.source} :
          r.tx.operations = <<[type |-> "payment", source |-> s,
                               destination |-> r.destination, amount |-> r.amount]>>
  BY DEF IsBuiltFor
<1>3. /\ r.tx.operations # <<>> /\ 1 \in DOMAIN r.tx.operations
      /\ r.tx.operations[1].source = s /\ r.tx.operations[1].destination = r.destination
      /\ r.tx.operations[1].amount = r.amount
  BY <1>2
<1>4. sourceOf(r.tx, r.tx.operations[1]) = r.source
  BY <1>3 DEF sourceOf, IsBuiltFor
<1> QED
  BY <1>1, <1>3, <1>4 DEF OperationMatches, FirstOperation

\* The order is answered: whitelisted if it was verified, and always if it can be.
LEMMA WhitelistStep ==
    ASSUME ViewsInv, Mismatch \/ WhitelistThrows \/ Whitelist
    PROVE  ViewsInv'
<1>1. /\ answer = "none" /\ answer' \in Answers
      /\ UNCHANGED <<request, order, chain, record>>
  BY DEF Mismatch, WhitelistThrows, Whitelist, WhitelistGoes, Answers
<1>2. ChainHolds'
  BY <1>1, ChainStays DEF ViewsInv
<1>3. answer' = "whitelisted" => OrderWasVerified
  BY DEF Mismatch, WhitelistThrows, Whitelist, WhitelistGoes, OrderWasVerified
<1>4. /\ decodes(order) /\ IsBuiltFor(order.tx, order)
      /\ order.app_id \in KnownApps /\ Plain(order.order_id)
      => answer' = "whitelisted"
  BY BuiltMatches DEF ViewsInv, Mismatch, WhitelistThrows, Whitelist, WhitelistGoes
<1> QED
  BY <1>1, <1>2, <1>3, <1>4 DEF ViewsInv, OrderWasVerified, OrderIsWhitelisted

\* Every step keeps it.
LEMMA ViewsInvStep == ViewsInv /\ [Next]_vars => ViewsInv'
<1>1. ViewsInv /\ UNCHANGED vars => ViewsInv'
  BY ChainStays DEF vars, ViewsInv, OrderWasVerified, OrderIsWhitelisted
<1> QED
  BY <1>1, PayStep, SubmitStep, WhitelistStep DEF Next, AtRest

-----------------------------------------------------------------------------
(* What is shown. *)

\* The payment on the chain is shown alike everywhere, and as the record has it except for its
\* time and the app of a payment by the root account.
LEMMA PaidIsShown ==
    ASSUME ViewsInv, NEW n \in DOMAIN chain, chain[n] = Paid, record = RecordOf(n),
           Plain(record.id)
    PROVE  LET seen == parsePayment(n)
           IN  /\ seen \in getWalletPayments(record.sender_address)
               /\ seen \in getWalletPayments(record.recipient_address)
               /\ \A field \in DOMAIN seen :
                      \/ record[field] = seen[field]
                      \/ field = "timestamp" /\ record.timestamp = NoTimestamp
                      \/ field = "app_id" /\ ~request.is_external /\ seen.app_id = AnonApp
<1> DEFINE account == payingAccount(request)
           op == chain[n].operations[1]
           seen == [id |-> request.id, app_id |-> account.app,
                    sender_address |-> account.address,
                    recipient_address |-> request.recipient_address,
                    amount |-> request.amount, transaction_id |-> n,
                    timestamp |-> timestampOf(n)]
           memo == [appId |-> account.app, paymentId |-> request.id]
<1>1. /\ account.address # NoAddress /\ account.app \in Text /\ Plain(account.app)
      /\ request.id \in Text /\ Plain(request.id)
  BY AccountIsKnown DEF ViewsInv, RecordOf
<1>2. chain[n].memo.type = "text" /\ parseMemo(chain[n].memo.value) = memo
  <2>1. chain[n].memo = memoOf(account.app, request.id)
    BY DEF Paid, buildSendKin
  <2> QED
    BY <1>1, <2>1, MemoIsRead
<1>3. /\ Len(chain[n].operations) = 1 /\ op.type = "payment"
      /\ op.source = account.address /\ op.destination = request.recipient_address
      /\ op.amount = request.amount
  BY DEF Paid, buildSendKin
<1>4. sourceOf(chain[n], op) = account.address /\ IsPaymentTransaction(chain[n])
  BY <1>1, <1>3 DEF sourceOf, IsPaymentTransaction
<1>5. shown(n, memo) = seen
  BY <1>3, <1>4 DEF shown
<1>6. /\ record.sender_address = account.address
      /\ record.recipient_address = request.recipient_address
  BY DEF RecordOf
<1>7. parsePayment(n) = seen
  BY <1>2, <1>5 DEF parsePayment
<1>8. /\ seen \in getWalletPayments(record.sender_address)
      /\ seen \in getWalletPayments(record.recipient_address)
  BY <1>2, <1>3, <1>4, <1>5, <1>6 DEF getWalletPayments
<1>9. account.app = request.app_id \/ (~request.is_external /\ account.app = AnonApp)
  BY DEF payingAccount
<1>10. ASSUME NEW field \in DOMAIN seen
       PROVE  \/ record[field] = seen[field]
              \/ field = "timestamp" /\ record.timestamp = NoTimestamp
              \/ field = "app_id" /\ ~request.is_external /\ seen.app_id = AnonApp
  BY <1>9, <1>10 DEF RecordOf
<1> QED
  BY <1>7, <1>8, <1>10

\* A transaction that was compared with its order shows the order.
LEMMA VerifiedIsShown ==
    ASSUME OrderWasVerified, NEW n \in DOMAIN chain, chain[n] = order.tx,
           IsPaymentTransaction(chain[n])
    PROVE  parsePayment(n) = [id |-> order.order_id, app_id |-> order.app_id,
                              sender_address |-> order.source,
                              recipient_address |-> order.destination,
                              amount |-> order.amount, transaction_id |-> n,
                              timestamp |-> timestampOf(n)]
<1> DEFINE op == chain[n].operations[1]
<1>1. parseMemo(chain[n].memo.value) = [appId |-> order.app_id, paymentId |-> order.order_id]
  BY DEF OrderWasVerified, MemoMatches
<1>2. /\ sourceOf(chain[n], op) = order.source /\ op.destination = order.destination
      /\ op.amount = order.amount
  BY DEF OrderWasVerified, OperationMatches, FirstOperation
<1> QED
  BY <1>1, <1>2 DEF parsePayment, shown

-----------------------------------------------------------------------------
(* The theorems. *)

\* The invariant holds for ever.
THEOREM ViewsInvariance == Spec => []ViewsInv
BY ViewsInvInit, ViewsInvStep, PTL DEF Spec

\* The chain holds no more than the payment and one transaction of the client, and the record
\* names a place of it.
THEOREM ViewsTypeCorrect == Spec => []ViewsTypeOK
<1>1. ViewsInv => ViewsTypeOK
  <2> SUFFICES ASSUME ViewsInv PROVE Len(chain) <= 2 /\ record.transaction_id \in 0..Len(chain)
    BY DEF ViewsInv, ViewsTypeOK
  <2>1. \/ Len(chain) = 0 /\ record = NoRecord
        \/ Len(chain) = 1 /\ (record = NoRecord \/ record = RecordOf(1))
        \/ Len(chain) = 2 /\ (record = RecordOf(1) \/ record = RecordOf(2))
    BY ShortChains DEF ViewsInv, ChainHolds
  <2>2. /\ RecordOf(1).transaction_id = 1 /\ RecordOf(2).transaction_id = 2
        /\ NoRecord.transaction_id = 0
    BY RecordsNamePlaces
  <2>3. 0 \in 0..Len(chain) /\ Len(chain) <= 2
    BY <2>1
  <2>4. Len(chain) = 1 => 1 \in 0..Len(chain)
    OBVIOUS
  <2>5. Len(chain) = 2 => 1 \in 0..Len(chain) /\ 2 \in 0..Len(chain)
    OBVIOUS
  <2> QED
    BY <2>1, <2>2, <2>3, <2>4, <2>5
<1> QED
  BY <1>1, ViewsInvariance, PTL

\* A payment whose id has no dash is one payment in the callback of the watcher and in the
\* histories of both its wallets, for every request. Its record has the same, but no time, and
\* an app of its own if the root account paid.
THEOREM ViewsAlwaysAgree == Spec => []ViewsAgree
<1>1. ViewsInv => ViewsAgree
  <2> SUFFICES ASSUME ViewsInv, record # NoRecord, Plain(record.id)
               PROVE  ViewsAgree
    BY DEF ViewsAgree, getPayment
  <2>1. PICK n \in {1, 2} : n \in DOMAIN chain /\ chain[n] = Paid /\ record = RecordOf(n)
    BY ShortChains DEF ViewsInv, ChainHolds
  <2>2. record.transaction_id = n
    BY <2>1, RecordsNamePlaces
  <2> QED
    BY <2>1, <2>2, PaidIsShown DEF ViewsAgree, getPayment
<1> QED
  BY <1>1, ViewsInvariance, PTL

\* Whatever transaction gets whitelisted and lands as a payment, it is reported as the order
\* it was whitelisted for.
THEOREM WhitelistedAreOrders == Spec => []WhitelistedIsOrder
<1>1. ViewsInv => WhitelistedIsOrder
  <2> SUFFICES ASSUME ViewsInv, NEW n \in DOMAIN chain, n # record.transaction_id,
                      IsPaymentTransaction(chain[n])
               PROVE  parsePayment(n) =
                          [id |-> order.order_id, app_id |-> order.app_id,
                           sender_address |-> order.source,
                           recipient_address |-> order.destination,
                           amount |-> order.amount, transaction_id |-> n,
                           timestamp |-> timestampOf(n)]
    BY DEF WhitelistedIsOrder
  <2>1. answer = "whitelisted" /\ chain[n] = order.tx
    BY ShortChains, RecordsNamePlaces DEF ViewsInv, ChainHolds
  <2> QED
    BY <2>1, VerifiedIsShown DEF ViewsInv
<1> QED
  BY <1>1, ViewsInvariance, PTL

\* A client that builds its transaction for the order of a known app gets it whitelisted, as
\* long as the order id has no dash.
THEOREM OrdersAreWhitelisted == Spec => []OrderIsWhitelisted
<1>1. ViewsInv => OrderIsWhitelisted
  BY DEF ViewsInv
<1> QED
  BY <1>1, ViewsInvariance, PTL
=============================================================================
