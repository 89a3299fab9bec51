---------------------------- MODULE MCPaymentViews ----------------------------
(* A small instance of PaymentViews for TLC: two apps, one of them known; ids with *)
(* and without a dash; transactions that differ from their orders in one place.    *)
EXTENDS PaymentViews

CONSTANTS hot, warm, user, none

app == <<"app">>
other == <<"other">>

MCHot == [a \in {app} |-> hot]
MCWarm == [a \in {app} |-> warm]

MCAnonApp == <<"anon">>

Ids == {<<"a">>, <<"a", "b">>}

MCPaymentRequests ==
    {r \in [id : Ids, app_id : {app, other}, is_external : BOOLEAN,
            sender_address : {hot, warm, user}, recipient_address : {user, hot}, amount : {1}] :
        r.is_external => r.app_id = app}

Memos == {[type |-> "none", value |-> <<>>]} \cup
         [type : {"text"},
          value : {<<>>, <<"a">>, <<"1", "app">>, <<"1", "other", "a">>} \cup
                  {<<"1", "app">> \o id : id \in Ids}]

payment == [type |-> "payment", source |-> user, destination |-> hot, amount |-> 1]
creation == [type |-> "createAccount", source |-> user, destination |-> hot, amount |-> 0]

OperationLists ==
    {<<>>, <<payment>>, <<[payment EXCEPT !.source = none]>>,
     <<[payment EXCEPT !.amount = 2]>>, <<creation>>, <<payment, creation>>}

MCWhitelistRequests ==
    [order_id : Ids, app_id : {app, other}, source : {user, warm}, destination : {hot},
     amount : {1}, network_id : {"public", "test"}, decodable : BOOLEAN,
     tx : [source : {user}, memo : Memos, operations : OperationLists]]
=============================================================================
