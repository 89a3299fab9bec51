------------------------------ MODULE Notifier ------------------------------
(***************************************************************************)
(* What the watcher promises: it goes through the ledger without a gap and *)
(* never back; it tells a service of a payment only while the payment is   *)
(* ahead of its position, and only if the service watches the wallet; and  *)
(* it passes a payment only when every service was told that has watched   *)
(* the wallet ever since the watcher last looked who watches what.         *)
(***************************************************************************)
EXTENDS Integers, Sequences

CONSTANTS Services, Wallets, NoPosition

VARIABLES
    ledger,     \* what landed on the blockchain
    position,   \* how much of it is done with
    watching,   \* who watches which wallet
    listed,     \* the wallets that were watched when the watcher last looked
    promised,   \* who has watched which wallet since then
    called,     \* who is being told of which payment
    told        \* who was told of which payment

nvars == <<ledger, position, watching, listed, promised, called, told>>

Init ==
    /\ ledger = <<>> /\ position = NoPosition
    /\ watching = {} /\ listed = {} /\ promised = {}
    /\ called = {} /\ told = {}

\* A payment of a listed wallet, and that wallet: its source, if that is listed.
Concerns(n) ==
    ledger[n].type = "payment" /\ {ledger[n].source, ledger[n].destination} \cap listed # {}

WalletOf(n) == IF ledger[n].source \in listed THEN ledger[n].source ELSE ledger[n].destination

Land ==
    /\ Len(ledger') = Len(ledger) + 1
    /\ SubSeq(ledger', 1, Len(ledger)) = ledger
    /\ UNCHANGED <<position, watching, listed, promised, called, told>>

Watch ==
    /\ watching' \subseteq Services \X Wallets
    /\ promised' = promised \cap watching'
    /\ UNCHANGED <<ledger, position, listed, called, told>>

Look ==
    /\ promised' = watching
    /\ listed' = {x[2] : x \in watching}
    /\ UNCHANGED <<ledger, position, watching, called, told>>

Call ==
    /\ \E n \in DOMAIN ledger :
         /\ Concerns(n) /\ n > position
         /\ called' = {s \in Services : <<s, WalletOf(n)>> \in watching} \X {n}
    /\ UNCHANGED <<ledger, position, watching, listed, promised, told>>

\* Those that are called are told one by one, or are no longer called when it fails.
Tell ==
    /\ called' \subseteq called
    /\ told' \in {told} \cup {told \cup {x} : x \in called}
    /\ UNCHANGED <<ledger, position, watching, listed, promised>>

Advance ==
    /\ position' \in position + 1 .. Len(ledger)
    /\ position # NoPosition =>
         \A n \in position + 1 .. position' : Concerns(n) =>
             \A s \in Services : <<s, WalletOf(n)>> \in promised => <<s, n>> \in told
    /\ UNCHANGED <<ledger, watching, listed, promised, called, told>>

Next == Land \/ Watch \/ Look \/ Call \/ Tell \/ Advance

Spec == Init /\ [][Next]_nvars
=============================================================================
