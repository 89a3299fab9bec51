---------------------------- MODULE WatcherProofs ----------------------------
(***************************************************************************)
(* Proofs about Watcher: type correctness, what the cursor passes, how     *)
(* often a service is told of a payment, and the refinement of Notifier,   *)
(* for every registry, ledger, page size and number of failures.           *)
(***************************************************************************)
EXTENDS Watcher, RegistryProofs

USE WatcherAssumption

\* The beat has a page behind it, and the page the cursor that was read.
InPage == at \in {"page", "notify"}

\* How the page, the loop and the ledger lie.
PageLies ==
    /\ at = "request" => page.from = cursor
    /\ at \in {"answer", "page", "notify"} =>
           page.from # NoCursor /\ (cursor # NoCursor => page.from = cursor)
    /\ InPage => page.from <= done /\ done <= page.to
    /\ at = "notify" => page.from < done /\ IsWatched(done) /\ todo # {}

\* Who watches ever since the beat began watches now.
SteadyWatches == steady \subseteq Watching

\* Everyone who watches ever since the beat began was told of what the loop has passed, or
\* is about to be.
ToldBehind ==
    InPage =>
        \A n \in page.from + 1 .. done : IsWatched(n) =>
            \A s \in Services : <<s, watchedAddress(n)>> \in steady =>
                Told(s, n) \/ (at = "notify" /\ n = done /\ s \in todo)

\* The loop has yet to come to transaction n, or to service s for it.
StillAhead(s, n) == done < n \/ (at = "notify" /\ n = done /\ s \in todo)

\* A service is told once for every beat that failed of what the cursor has not passed, and
\* once more of what this beat's loop has passed.
ToldSparingly ==
    Blocking = {} =>
        \A s \in Services, n \in 1..MaxLedger :
            /\ told[<<s, n>>] <= failures + 1
            /\ cursor < n /\ (InPage /\ page.from < n => StillAhead(s, n)) =>
                   told[<<s, n>>] <= failures

WatcherInv ==
    /\ WatcherTypeOK
    /\ PageLies
    /\ SteadyWatches
    /\ ToldBehind
    /\ ToldSparingly

-----------------------------------------------------------------------------
(* Types. *)

\* The parts of a well-formed state.
LEMMA WatcherTypes ==
    ASSUME WatcherTypeOK
    PROVE  /\ RegistryTypeOK
           /\ ledger \in Seq(Transactions) /\ Len(ledger) \in 0..MaxLedger
           /\ DOMAIN ledger = 1..Len(ledger)
           /\ cursor \in Int /\ cursor \in -1..Len(ledger)
           /\ page.from \in -1..Len(ledger) /\ page.to \in 0..Len(ledger)
           /\ done \in 0..Len(ledger)
           /\ told \in [Services \X (1..MaxLedger) -> 0..MaxTold]
           /\ failures \in 0..MaxFailures
           /\ MaxTold = MaxFailures + 2 /\ MaxLedger \in Nat /\ MaxFailures \in Nat
           /\ Limit \in Nat /\ Limit # 0
<1>1. Len(ledger) \in Nat
  BY DEF WatcherTypeOK
<1>2. page.from \in {NoCursor} \cup 0..Len(ledger) /\ page.to \in 0..Len(ledger)
  BY DEF WatcherTypeOK
<1> QED
  BY <1>1, <1>2 DEF WatcherTypeOK, NoCursor, MaxTold

\* A ledger with one transaction more holds what it held.
LEMMA LedgerGrows ==
    ASSUME WatcherTypeOK, Land
    PROVE  /\ ledger' \in Seq(Transactions)
           /\ Len(ledger') = Len(ledger) + 1 /\ Len(ledger') <= MaxLedger
           /\ \A n \in 1..Len(ledger) : ledger'[n] = ledger[n]
<1>1. PICK tx \in Transactions : ledger' = Append(ledger, tx)
  BY DEF Land
<1>2. ledger \in Seq(Transactions) /\ Len(ledger) < MaxLedger
  BY DEF WatcherTypeOK, Land
<1>3. /\ Append(ledger, tx) \in Seq(Transactions)
      /\ Len(Append(ledger, tx)) = Len(ledger) + 1
      /\ \A n \in 1..Len(ledger) : Append(ledger, tx)[n] = ledger[n]
  BY <1>1, <1>2
<1> QED
  BY <1>1, <1>2, <1>3, WatcherTypes

\* The registry stays well formed whatever requests do.
LEMMA RegistryTypeStep ==
    ASSUME RegistryTypeOK, [RegistryNext]_rvars
    PROVE  RegistryTypeOK'
<1>1. CASE RegistryNext
  BY <1>1, HandlerType DEF RegistryNext
<1>2. CASE UNCHANGED rvars
  BY <1>2 DEF rvars, RegistryTypeOK
<1> QED
  BY <1>1, <1>2

\* The place of the page after the page was asked for.
LEMMA PageTypes ==
    ASSUME WatcherTypeOK, NEW n \in {NoCursor} \cup 0..Len(ledger), NEW m \in 0..Len(ledger)
    PROVE  /\ [page EXCEPT !.from = n] \in
                  [from : {NoCursor} \cup 0..Len(ledger), to : 0..Len(ledger)]
           /\ [page EXCEPT !.to = m] \in
                  [from : {NoCursor} \cup 0..Len(ledger), to : 0..Len(ledger)]
           /\ [NoPage EXCEPT !.from = n] \in
                  [from : {NoCursor} \cup 0..Len(ledger), to : 0..Len(ledger)]
           /\ [page EXCEPT !.from = n].from = n
           /\ [page EXCEPT !.to = m].to = m /\ [page EXCEPT !.to = m].from = page.from
           /\ [NoPage EXCEPT !.from = n].from = n
<1>1. page \in [from : {NoCursor} \cup 0..Len(ledger), to : 0..Len(ledger)]
  BY DEF WatcherTypeOK
<1>2. NoPage \in [from : {NoCursor} \cup 0..Len(ledger), to : 0..Len(ledger)]
  BY WatcherTypes DEF NoPage
<1> QED
  BY <1>1, <1>2

\* The transactions behind the page's beginning, up to the limit.
LEMMA AnswerMoves ==
    ASSUME WatcherTypeOK, PageLies, AnswerPage
    PROVE  /\ page'.from = page.from /\ done' = page.from
           /\ page'.to \in page.from..Len(ledger)
           /\ page' \in [from : {NoCursor} \cup 0..Len(ledger), to : 0..Len(ledger)]
           /\ done' \in 0..Len(ledger)
<1>1. page.from \in 0..Len(ledger) /\ Limit \in Nat /\ Len(ledger) \in Nat
  BY WatcherTypes DEF AnswerPage, Goes, PageLies, NoCursor
<1> DEFINE m == IF page.from + Limit < Len(ledger) THEN page.from + Limit ELSE Len(ledger)
<1>2. m \in page.from..Len(ledger) /\ m \in 0..Len(ledger)
  BY <1>1
<1>3. page' = [page EXCEPT !.to = m] /\ done' = page.from
  BY DEF AnswerPage
<1> HIDE DEF m
<1> QED
  BY <1>1, <1>2, <1>3, PageTypes

\* Telling a service once more.
LEMMA TellMoves ==
    ASSUME WatcherTypeOK, NEW s \in Services, done # 0, enqueuePaymentCallback(s)
    PROVE  /\ told' \in [Services \X (1..MaxLedger) -> 0..MaxTold]
           /\ \A x \in Services, n \in 1..MaxLedger :
                  <<x, n>> # <<s, done>> => told'[<<x, n>>] = told[<<x, n>>]
           /\ told'[<<s, done>>] > 0
           /\ told'[<<s, done>>] <= told[<<s, done>>] + 1
           /\ <<s, done>> \in Services \X (1..MaxLedger)
<1>1. done \in 1..MaxLedger /\ <<s, done>> \in Services \X (1..MaxLedger)
  BY WatcherTypes
<1>2. told \in [Services \X (1..MaxLedger) -> 0..MaxTold] /\ MaxTold \in Nat /\ MaxTold > 0
  BY WatcherTypes
<1> DEFINE k == IF told[<<s, done>>] < MaxTold THEN told[<<s, done>>] + 1
                                               ELSE told[<<s, done>>]
<1>3. k \in 0..MaxTold /\ k > 0 /\ k <= told[<<s, done>>] + 1
  BY <1>1, <1>2
<1>4. told' = [told EXCEPT ![<<s, done>>] = k]
  BY <1>1, <1>2 DEF enqueuePaymentCallback
<1> HIDE DEF k
<1> QED
  BY <1>1, <1>2, <1>3, <1>4

\* Every step keeps the state well formed.
LEMMA WatcherTypeStep ==
    ASSUME WatcherInv, [Next]_vars
    PROVE  WatcherTypeOK'
<1>1. WatcherTypeOK /\ PageLies
  BY DEF WatcherInv
<1>2. CASE Land
  <2>1. /\ ledger' \in Seq(Transactions) /\ Len(ledger') = Len(ledger) + 1
        /\ Len(ledger') <= MaxLedger /\ Len(ledger) \in Nat
    BY <1>1, <1>2, LedgerGrows, WatcherTypes
  <2>2. /\ 0..Len(ledger) \subseteq 0..Len(ledger')
        /\ UNCHANGED <<rvars, cursor, at, watched, page, done, todo, told, failures, steady>>
    BY <1>2, <2>1 DEF Land, beatVars
  <2>3. page' \in [from : {NoCursor} \cup 0..Len(ledger'), to : 0..Len(ledger')]
    <3>1. page \in [from : {NoCursor} \cup 0..Len(ledger), to : 0..Len(ledger)]
      BY <1>1 DEF WatcherTypeOK
    <3>2. {NoCursor} \cup 0..Len(ledger) \subseteq {NoCursor} \cup 0..Len(ledger')
      BY <2>2
    <3> QED
      BY <2>2, <3>1, <3>2
  <2>4. RegistryTypeOK'
    BY <1>1, <2>2, RegistryTypeStep DEF WatcherTypeOK
  <2> QED
    BY <1>1, <2>1, <2>2, <2>3, <2>4 DEF WatcherTypeOK
<1>3. CASE ApiStep
  <2>1. RegistryTypeOK'
    BY <1>1, <1>3, RegistryTypeStep DEF ApiStep, WatcherTypeOK
  <2> QED
    BY <1>1, <1>3, <2>1 DEF ApiStep, beatVars, WatcherTypeOK
<1>4. ASSUME UNCHANGED rvars PROVE RegistryTypeOK'
  BY <1>1, <1>4, RegistryTypeStep DEF WatcherTypeOK
<1>5. CASE StartBeat
  BY <1>1, <1>4, <1>5 DEF StartBeat, Goes, Stages, WatcherTypeOK, Watch, Watching,
     getAllWatchedAddresses
<1>6. CASE ReadCursor
  <2>1. page' \in [from : {NoCursor} \cup 0..Len(ledger), to : 0..Len(ledger)]
    BY <1>1, <1>6, PageTypes DEF ReadCursor, WatcherTypeOK
  <2> QED
    BY <1>1, <1>4, <1>6, <2>1 DEF ReadCursor, Goes, Stages, WatcherTypeOK
<1>7. CASE RequestPage
  <2>1. Len(ledger) \in 0..Len(ledger)
    BY <1>1, WatcherTypes
  <2>2. page.from \in {NoCursor} \cup 0..Len(ledger)
    BY <1>1 DEF WatcherTypeOK
  <2>3. page' \in [from : {NoCursor} \cup 0..Len(ledger), to : 0..Len(ledger)]
    BY <1>1, <1>7, <2>1, <2>2, PageTypes DEF RequestPage
  <2> QED
    BY <1>1, <1>4, <1>7, <2>3 DEF RequestPage, Goes, Stages, WatcherTypeOK
<1>8. CASE AnswerPage
  BY <1>1, <1>4, <1>8, AnswerMoves DEF AnswerPage, Goes, Stages, WatcherTypeOK
<1>9. CASE FindServices
  <2>1. done' \in 0..Len(ledger)
    BY <1>1, <1>9, WatcherTypes DEF FindServices
  <2>2. todo' \subseteq Services /\ at' \in Stages
    BY <1>9 DEF FindServices, getServicesByWatchedAddress, Stages
  <2> QED
    BY <1>1, <1>4, <1>9, <2>1, <2>2 DEF FindServices, WatcherTypeOK
<1>10. CASE ParseFails \/ EmptyPage
  BY <1>1, <1>4, <1>10 DEF ParseFails, EmptyPage, Goes, Stages, beatVars, WatcherTypeOK
<1>11. at = "notify" => done # 0 /\ todo \subseteq Services
  <2> SUFFICES ASSUME at = "notify" PROVE done # 0 /\ todo \subseteq Services
    OBVIOUS
  <2>1. page.from # NoCursor /\ page.from < done
    BY <1>1 DEF PageLies
  <2> QED
    BY <1>1, <2>1, WatcherTypes DEF WatcherTypeOK, NoCursor
<1>12. CASE Notify
  <2>1. told' \in [Services \X (1..MaxLedger) -> 0..MaxTold]
    BY <1>1, <1>11, <1>12, TellMoves DEF Notify
  <2> QED
    BY <1>1, <1>4, <1>12, <2>1 DEF Notify, Stages, WatcherTypeOK
<1>13. CASE SaveCursor
  <2>1. cursor' \in {NoCursor} \cup 0..Len(ledger)
    BY <1>1, <1>13, WatcherTypes DEF SaveCursor
  <2> QED
    BY <1>1, <1>4, <1>13, <2>1 DEF SaveCursor, Goes, Stages, beatVars, WatcherTypeOK
<1>14. CASE BeatFails
  <2>1. told' \in [Services \X (1..MaxLedger) -> 0..MaxTold]
    BY <1>1, <1>11, <1>14, TellMoves DEF BeatFails, WatcherTypeOK
  <2>2. cursor' \in {NoCursor} \cup 0..Len(ledger)
    BY <1>1, <1>14, WatcherTypes DEF BeatFails, WatcherTypeOK
  <2>3. failures' \in 0..MaxFailures
    BY <1>1, <1>14, WatcherTypes DEF BeatFails
  <2> QED
    BY <1>1, <1>4, <1>14, <2>1, <2>2, <2>3 DEF BeatFails, Stages, beatVars, WatcherTypeOK
<1>15. CASE UNCHANGED vars
  BY <1>1, <1>4, <1>15 DEF vars, beatVars, WatcherTypeOK
<1> QED
  BY <1>2, <1>3, <1>5, <1>6, <1>7, <1>8, <1>9, <1>10, <1>12, <1>13, <1>14, <1>15 DEF Next, Beat

-----------------------------------------------------------------------------
(* The inductive invariant. *)

\* What a beat has read stays what it is, while the ledger grows.
LEMMA LookStays ==
    ASSUME WatcherTypeOK, UNCHANGED watched, UNCHANGED ledger \/ Land, NEW n \in 1..Len(ledger)
    PROVE  /\ IsWatched(n)' <=> IsWatched(n)
           /\ watchedAddress(n)' = watchedAddress(n)
<1>1. ledger'[n] = ledger[n]
  BY LedgerGrows
<1> QED
  BY <1>1 DEF IsWatched, watchedAddress

\* The page, the loop and the ledger.
LEMMA PageStep ==
    ASSUME WatcherInv, [Next]_vars
    PROVE  PageLies'
<1>1. WatcherTypeOK /\ PageLies
  BY DEF WatcherInv
<1>2. /\ cursor \in -1..Len(ledger) /\ page.from \in -1..Len(ledger)
      /\ page.to \in 0..Len(ledger) /\ done \in 0..Len(ledger) /\ Len(ledger) \in Nat
      /\ NoCursor = -1
  BY <1>1, WatcherTypes DEF NoCursor
<1>3. ASSUME UNCHANGED <<cursor, at, watched, page, done, todo>>, UNCHANGED ledger \/ Land
      PROVE  PageLies'
  <2>1. at = "notify" => (IsWatched(done)' <=> IsWatched(done))
    <3>1. at = "notify" => done \in 1..Len(ledger)
      BY <1>1, <1>2 DEF PageLies
    <3> QED
      BY <1>1, <1>3, <3>1, LookStays
  <2>2. at = "notify" => (IsWatched(done))'
    BY <1>1, <2>1 DEF PageLies
  <2> QED
    BY <1>1, <1>3, <2>2 DEF PageLies, InPage
<1>4. CASE Land \/ ApiStep \/ UNCHANGED vars
  BY <1>3, <1>4 DEF Land, ApiStep, vars, beatVars
<1>5. CASE StartBeat
  BY <1>5 DEF StartBeat, Goes, PageLies, InPage
<1>6. CASE ReadCursor
  <2>1. page'.from = cursor
    BY <1>1, <1>6, PageTypes DEF ReadCursor, WatcherTypeOK
  <2> QED
    BY <1>6, <2>1 DEF ReadCursor, Goes, PageLies, InPage
<1>7. CASE RequestPage
  <2>1. page.from = cursor /\ UNCHANGED cursor /\ at' = "answer"
    BY <1>1, <1>7 DEF RequestPage, Goes, PageLies
  <2>2. page'.from = IF page.from = NoCursor THEN Len(ledger) ELSE page.from
    BY <1>1, <1>2, <1>7, PageTypes DEF RequestPage, WatcherTypeOK
  <2>3. Len(ledger) # NoCursor
    BY <1>2
  <2> QED
    BY <2>1, <2>2, <2>3 DEF PageLies, InPage
<1>8. CASE AnswerPage
  <2>1. /\ page.from # NoCursor /\ (cursor # NoCursor => page.from = cursor)
        /\ UNCHANGED cursor /\ at' = "page"
    BY <1>1, <1>8 DEF AnswerPage, Goes, PageLies
  <2>2. page'.from = page.from /\ done' = page.from /\ page'.to \in page.from..Len(ledger)
    BY <1>1, <1>8, AnswerMoves
  <2> QED
    BY <1>2, <2>1, <2>2 DEF PageLies, InPage
<1>9. CASE FindServices
  <2>1. PICK n \in done + 1 .. page.to :
            IsNext(n) /\ done' = n /\ at' = IF todo' = {} THEN "page" ELSE "notify"
    BY <1>9 DEF FindServices
  <2>2. at = "page" /\ UNCHANGED <<ledger, cursor, watched, page>>
    BY <1>9 DEF FindServices
  <2>3. (IsWatched(done))'
    BY <2>1, <2>2 DEF IsNext, IsWatched
  <2> QED
    BY <1>1, <1>2, <2>1, <2>2, <2>3 DEF PageLies, InPage
<1>10. CASE ParseFails \/ EmptyPage \/ SaveCursor \/ BeatFails
  BY <1>10 DEF ParseFails, EmptyPage, SaveCursor, BeatFails, Goes, PageLies, InPage
<1>11. CASE Notify
  <2>1. /\ at = "notify" /\ UNCHANGED <<ledger, cursor, watched, page, done>>
        /\ at' = IF todo' = {} THEN "page" ELSE "notify"
    BY <1>11 DEF Notify
  <2>2. (IsWatched(done))'
    BY <1>1, <2>1 DEF PageLies, IsWatched
  <2> QED
    BY <1>1, <2>1, <2>2 DEF PageLies, InPage
<1> QED
  BY <1>4, <1>5, <1>6, <1>7, <1>8, <1>9, <1>10, <1>11 DEF Next, Beat

\* Watchers that go away do not watch steadily.
LEMMA SteadyStep ==
    ASSUME WatcherInv, [Next]_vars
    PROVE  SteadyWatches'
<1>1. SteadyWatches
  BY DEF WatcherInv
<1>2. CASE ApiStep \/ StartBeat
  BY <1>1, <1>2 DEF ApiStep, StartBeat, SteadyWatches, Watching, rvars
<1>3. CASE ~(ApiStep \/ StartBeat)
  <2>1. UNCHANGED <<rvars, steady>>
    BY <1>3 DEF Next, Beat, vars, Land, ReadCursor, RequestPage, AnswerPage, FindServices,
       ParseFails, Notify, SaveCursor, EmptyPage, BeatFails
  <2> QED
    BY <1>1, <2>1 DEF SteadyWatches, Watching, rvars
<1> QED
  BY <1>2, <1>3

\* The services that have watched a wallet since the beat began are found by its loop.
LEMMA FoundAreSteady ==
    ASSUME SteadyWatches, NEW s \in Services, NEW a, <<s, a>> \in steady
    PROVE  s \in getServicesByWatchedAddress(a)
BY DEF SteadyWatches, getServicesByWatchedAddress

\* Callbacks first: what the loop has passed was told to those who watch steadily.
LEMMA ToldBehindStep ==
    ASSUME WatcherInv, [Next]_vars
    PROVE  ToldBehind'
<1>1. WatcherTypeOK /\ PageLies /\ SteadyWatches /\ ToldBehind /\ PageLies' /\ WatcherTypeOK'
  BY PageStep, WatcherTypeStep DEF WatcherInv
<1>2. /\ page.from \in -1..Len(ledger) /\ page.to \in 0..Len(ledger)
      /\ done \in 0..Len(ledger) /\ Len(ledger) \in Nat /\ NoCursor = -1
  BY <1>1, WatcherTypes DEF NoCursor
<1>3. CASE Land \/ ApiStep \/ UNCHANGED vars
  <2>1. /\ UNCHANGED <<at, watched, page, done, todo, told>>
        /\ steady' \subseteq steady
        /\ UNCHANGED ledger \/ Land
    BY <1>3 DEF Land, ApiStep, vars, beatVars
  <2>2. ASSUME InPage, NEW n \in page.from + 1 .. done
        PROVE  /\ IsWatched(n)' <=> IsWatched(n)
               /\ watchedAddress(n)' = watchedAddress(n)
    <3>1. n \in 1..Len(ledger)
      BY <1>1, <1>2, <2>2 DEF PageLies, InPage
    <3> QED
      BY <1>1, <2>1, <3>1, LookStays
  <2>3. ASSUME InPage, NEW n \in page.from + 1 .. done, IsWatched(n)',
               NEW s \in Services, <<s, watchedAddress(n)'>> \in steady'
        PROVE  Told(s, n) \/ (at = "notify" /\ n = done /\ s \in todo)
    BY <1>1, <2>1, <2>2, <2>3 DEF ToldBehind
  <2> QED
    BY <2>1, <2>3 DEF ToldBehind, InPage, Told
<1>4. CASE FindServices
  <2>1. PICK n \in done + 1 .. page.to :
            /\ IsNext(n) /\ done' = n /\ at' = IF todo' = {} THEN "page" ELSE "notify"
            /\ todo' = getServicesByWatchedAddress(watchedAddress(n))
    BY <1>4 DEF FindServices
  <2>2. at = "page" /\ UNCHANGED <<ledger, watched, page, told, steady>>
    BY <1>4 DEF FindServices
  <2> SUFFICES ASSUME NEW m \in page.from + 1 .. n, IsWatched(m), NEW s \in Services,
                      <<s, watchedAddress(m)>> \in steady
               PROVE  Told(s, m) \/ (at' = "notify" /\ m = n /\ s \in todo')
    BY <2>1, <2>2 DEF ToldBehind, Told, IsWatched, watchedAddress
  <2>3. CASE m <= done
    BY <1>1, <1>2, <2>2, <2>3 DEF ToldBehind, InPage
  <2>4. CASE m > done
    <3>1. m = n
      BY <1>2, <2>1, <2>4 DEF IsNext
    <3>2. s \in todo'
      BY <1>1, <2>1, <3>1, FoundAreSteady
    <3> QED
      BY <2>1, <3>1, <3>2
  <2> QED
    BY <1>2, <2>3, <2>4
<1>5. CASE Notify
  <2>1. /\ at = "notify" /\ at' = (IF todo' = {} THEN "page" ELSE "notify")
        /\ UNCHANGED <<ledger, watched, page, done, steady>>
    BY <1>5 DEF Notify
  <2>2. PICK x \in todo : enqueuePaymentCallback(x) /\ todo' = todo \ {x}
    BY <1>5 DEF Notify
  <2>3. done # 0 /\ x \in Services
    BY <1>1, <1>2, <2>1, <2>2 DEF PageLies, WatcherTypeOK
  <2>4. /\ told'[<<x, done>>] > 0
        /\ \A s \in Services, n \in 1..MaxLedger :
               <<s, n>> # <<x, done>> => told'[<<s, n>>] = told[<<s, n>>]
    BY <1>1, <2>2, <2>3, TellMoves
  <2> SUFFICES ASSUME NEW n \in page.from + 1 .. done, IsWatched(n), NEW s \in Services,
                      <<s, watchedAddress(n)>> \in steady
               PROVE  Told(s, n)' \/ (at' = "notify" /\ n = done /\ s \in todo')
    BY <2>1 DEF ToldBehind, IsWatched, watchedAddress
  <2>5. Told(s, n) \/ (n = done /\ s \in todo)
    BY <1>1, <2>1 DEF ToldBehind, InPage
  <2>6. n \in 1..MaxLedger
    <3>1. Len(ledger) \in 0..MaxLedger /\ page.from # NoCursor
      BY <1>1, <2>1, WatcherTypes DEF PageLies
    <3> QED
      BY <1>2, <3>1
  <2>7. CASE <<s, n>> = <<x, done>>
    BY <2>4, <2>7 DEF Told
  <2>8. CASE <<s, n>> # <<x, done>>
    <3>1. told'[<<s, n>>] = told[<<s, n>>]
      BY <2>4, <2>6, <2>8
    <3> QED
      BY <2>1, <2>2, <2>5, <2>8, <3>1 DEF Told
  <2> QED
    BY <2>7, <2>8
<1>6. CASE AnswerPage
  <2>1. page'.from = page.from /\ done' = page.from
    BY <1>1, <1>6, AnswerMoves
  <2> QED
    BY <1>2, <2>1 DEF ToldBehind
<1>7. CASE StartBeat \/ ReadCursor \/ RequestPage \/ ParseFails \/ SaveCursor \/ EmptyPage
             \/ BeatFails
  BY <1>7 DEF StartBeat, ReadCursor, RequestPage, ParseFails, SaveCursor, EmptyPage, BeatFails,
     Goes, ToldBehind, InPage
<1> QED
  BY <1>3, <1>4, <1>5, <1>6, <1>7 DEF Next, Beat

\* Blocking payments stay on the ledger.
LEMMA BlockingStays ==
    ASSUME WatcherTypeOK, UNCHANGED ledger \/ Land, Blocking' = {}
    PROVE  Blocking = {}
<1>1. \A n \in 1..Len(ledger) : ledger'[n] = ledger[n] /\ n \in DOMAIN ledger'
  <2>1. CASE Land
    BY <2>1, LedgerGrows, WatcherTypes
  <2>2. CASE UNCHANGED ledger
    BY <2>2, WatcherTypes
  <2> QED
    BY <2>1, <2>2
<1> QED
  BY <1>1, WatcherTypes DEF Blocking

\* A beat tells a service of a payment once, and only of what is behind the cursor.
LEMMA ToldSparinglyStep ==
    ASSUME WatcherInv, [Next]_vars
    PROVE  ToldSparingly'
<1>1. WatcherTypeOK /\ PageLies /\ ToldSparingly
  BY DEF WatcherInv
<1>2. /\ page.from \in -1..Len(ledger) /\ page.to \in 0..Len(ledger)
      /\ done \in 0..Len(ledger) /\ Len(ledger) \in 0..MaxLedger /\ MaxLedger \in Nat
      /\ NoCursor = -1 /\ cursor \in -1..Len(ledger) /\ failures \in Nat
  BY <1>1, WatcherTypes DEF NoCursor
<1>3. UNCHANGED ledger \/ Land
  BY DEF Next, Beat, vars, ApiStep, StartBeat, ReadCursor, RequestPage, AnswerPage,
     FindServices, ParseFails, Notify, SaveCursor, EmptyPage, BeatFails
<1> SUFFICES ASSUME Blocking' = {}, NEW s \in Services, NEW n \in 1..MaxLedger
             PROVE  /\ told'[<<s, n>>] <= failures' + 1
                    /\ cursor' < n /\ (InPage' /\ page'.from < n => StillAhead(s, n)') =>
                           told'[<<s, n>>] <= failures'
  BY DEF ToldSparingly
<1>4. Blocking = {}
  BY <1>1, <1>3, BlockingStays
<1>5. /\ told[<<s, n>>] <= failures + 1
      /\ cursor < n /\ (InPage /\ page.from < n => StillAhead(s, n)) =>
             told[<<s, n>>] <= failures
      /\ told[<<s, n>>] \in Nat
  <2>1. told[<<s, n>>] \in Nat
    BY <1>1, WatcherTypes
  <2> QED
    BY <1>1, <1>4, <2>1 DEF ToldSparingly
<1>6. CASE Land \/ ApiStep \/ UNCHANGED vars
  <2>1. UNCHANGED <<cursor, at, page, done, todo, told, failures>>
    BY <1>6 DEF Land, ApiStep, vars, beatVars
  <2> QED
    BY <1>5, <2>1 DEF InPage, StillAhead
<1>7. CASE StartBeat \/ ReadCursor \/ RequestPage
  BY <1>5, <1>7 DEF StartBeat, ReadCursor, RequestPage, Goes, InPage
<1>8. CASE AnswerPage
  <2>1. ~InPage /\ UNCHANGED <<cursor, told, failures>>
    BY <1>8 DEF AnswerPage, Goes, InPage
  <2> QED
    BY <1>5, <2>1
<1>9. CASE FindServices
  <2>1. PICK m \in done + 1 .. page.to :
            done' = m /\ at' = IF todo' = {} THEN "page" ELSE "notify"
    BY <1>9 DEF FindServices
  <2>2. at = "page" /\ UNCHANGED <<cursor, page, told, failures>>
    BY <1>9 DEF FindServices
  <2> QED
    BY <1>2, <1>5, <2>1, <2>2 DEF InPage, StillAhead
<1>10. CASE ParseFails
  <2>1. PICK m \in done + 1 .. page.to : IsNext(m) /\ ~ledger[m].memo
    BY <1>10 DEF ParseFails
  <2>2. m \in Blocking
    BY <1>1, <1>2, <2>1, WatcherTypes DEF IsNext, IsWatched, Blocking
  <2> QED
    BY <1>4, <2>2
<1>11. at = "notify" => done # 0 /\ page.from < done /\ todo \subseteq Services
  BY <1>1, <1>2 DEF PageLies, WatcherTypeOK
<1>12. ASSUME at = "notify", NEW x \in todo, enqueuePaymentCallback(x)
       PROVE  /\ <<s, n>> # <<x, done>> => told'[<<s, n>>] = told[<<s, n>>]
              /\ <<s, n>> = <<x, done>> => told'[<<s, n>>] <= failures + 1
  <2>1. x \in Services /\ done # 0
    BY <1>11, <1>12
  <2>2. ASSUME <<s, n>> = <<x, done>> PROVE told'[<<s, n>>] <= failures + 1
    <3>1. StillAhead(s, n) /\ (cursor # NoCursor => cursor < n)
      BY <1>1, <1>11, <1>12, <2>2 DEF StillAhead, PageLies
    <3>2. cursor < n
      BY <1>2, <3>1
    <3>3. told[<<s, n>>] <= failures
      BY <1>5, <3>1, <3>2
    <3>4. told'[<<x, done>>] <= told[<<x, done>>] + 1 /\ told'[<<x, done>>] \in Nat
      BY <1>1, <1>12, <2>1, TellMoves, WatcherTypes
    <3> QED
      BY <1>2, <1>5, <2>2, <3>3, <3>4
  <2> QED
    BY <1>1, <1>12, <2>1, <2>2, TellMoves
<1>13. CASE Notify
  <2>1. PICK x \in todo : enqueuePaymentCallback(x) /\ todo' = todo \ {x}
    BY <1>13 DEF Notify
  <2>2. /\ at = "notify" /\ at' = (IF todo' = {} THEN "page" ELSE "notify")
        /\ UNCHANGED <<cursor, page, done, failures>>
    BY <1>13 DEF Notify
  <2>3. CASE <<s, n>> = <<x, done>>
    <3>1. told'[<<s, n>>] <= failures' + 1
      BY <1>12, <2>1, <2>2, <2>3
    <3>2. InPage' /\ page'.from < n /\ ~StillAhead(s, n)'
      BY <1>2, <1>11, <2>1, <2>2, <2>3 DEF InPage, StillAhead
    <3> QED
      BY <3>1, <3>2
  <2>4. CASE <<s, n>> # <<x, done>>
    <3>1. told'[<<s, n>>] = told[<<s, n>>]
      BY <1>12, <2>1, <2>2, <2>4
    <3>2. InPage /\ InPage' /\ (StillAhead(s, n)' => StillAhead(s, n))
      BY <2>1, <2>2 DEF InPage, StillAhead
    <3> QED
      BY <1>5, <2>2, <3>1, <3>2
  <2> QED
    BY <2>3, <2>4
<1>14. CASE SaveCursor
  <2>1. at = "page" /\ cursor' = page.to /\ at' = "idle" /\ UNCHANGED <<told, failures>>
    BY <1>14 DEF SaveCursor, Goes
  <2>2. done <= page.to /\ (cursor # NoCursor => page.from = cursor) /\ page.from <= done
    BY <1>1, <2>1 DEF PageLies, InPage
  <2>3. page.to < n => cursor < n /\ StillAhead(s, n)
    BY <1>2, <2>2 DEF StillAhead
  <2> QED
    BY <1>5, <2>1, <2>3 DEF InPage
<1>15. CASE EmptyPage
  <2>1. /\ at = "page" /\ page.to = page.from /\ at' = "idle"
        /\ UNCHANGED <<cursor, told, failures>>
    BY <1>15 DEF EmptyPage, Goes, beatVars
  <2>2. done = page.from
    BY <1>1, <1>2, <2>1 DEF PageLies, InPage
  <2>3. page.from < n => StillAhead(s, n)
    BY <2>2 DEF StillAhead
  <2> QED
    BY <1>5, <2>1, <2>3
<1>16. CASE BeatFails
  <2>1. failures' = failures + 1
    BY <1>16 DEF BeatFails
  <2>2. \/ UNCHANGED told
        \/ at = "notify" /\ \E x \in todo : enqueuePaymentCallback(x)
    BY <1>16 DEF BeatFails
  <2>3. told'[<<s, n>>] <= failures + 1
    BY <1>5, <1>12, <2>2
  <2>4. told'[<<s, n>>] \in Nat
    BY WatcherTypeStep DEF WatcherTypeOK, MaxTold
  <2> QED
    BY <1>2, <2>1, <2>3, <2>4
<1> QED
  BY <1>6, <1>7, <1>8, <1>9, <1>10, <1>13, <1>14, <1>15, <1>16 DEF Next, Beat

-----------------------------------------------------------------------------
(* The theorems. *)

\* The invariant holds at the start.
LEMMA WatcherInvInit == Init => WatcherInv
<1> SUFFICES ASSUME Init PROVE WatcherInv
  OBVIOUS
<1>1. RegistryTypeOK
  BY RegistryTypeInit DEF Init
<1>2. WatcherTypeOK
  BY <1>1 DEF Init, WatcherTypeOK, Stages, NoPage, MaxTold, Watch, NoCursor
<1>3. \A d \in Services \X (1..MaxLedger) : told[d] = 0
  BY DEF Init
<1>4. ToldSparingly
  BY <1>3 DEF Init, ToldSparingly
<1> QED
  BY <1>2, <1>4 DEF Init, WatcherInv, PageLies, InPage, SteadyWatches, ToldBehind

\* Every step keeps it.
LEMMA WatcherInvStep == WatcherInv /\ [Next]_vars => WatcherInv'
BY WatcherTypeStep, PageStep, SteadyStep, ToldBehindStep, ToldSparinglyStep DEF WatcherInv

\* The invariant holds for ever.
THEOREM WatcherInvariance == Spec => []WatcherInv
BY WatcherInvInit, WatcherInvStep, PTL DEF Spec

\* The state of the watcher and of its registry is well formed; the cursor and the page are
\* never ahead of the ledger.
THEOREM WatcherTypeCorrect == Spec => []WatcherTypeOK
<1>1. WatcherInv => WatcherTypeOK
  BY DEF WatcherInv
<1> QED
  BY <1>1, WatcherInvariance, PTL

\* As long as no payment fails every beat, a service is told of a payment once, and once more
\* at most for every beat that failed.
THEOREM ServicesAreToldSparingly == Spec => []ToldOncePerFailure
<1>1. WatcherInv => ToldOncePerFailure
  <2> SUFFICES ASSUME WatcherInv, Blocking = {}, NEW d \in DOMAIN told
               PROVE  told[d] <= failures + 1
    BY DEF ToldOncePerFailure
  <2>1. DOMAIN told = Services \X (1..MaxLedger)
    BY DEF WatcherInv, WatcherTypeOK
  <2>2. PICK s \in Services : \E n \in 1..MaxLedger : d = <<s, n>>
    BY <2>1
  <2> QED
    BY <2>2 DEF WatcherInv, ToldSparingly
<1> QED
  BY <1>1, WatcherInvariance, PTL

\* Where the cursor goes, and whom it leaves behind.
LEMMA CursorMoves ==
    ASSUME WatcherInv, [Next]_vars, cursor' # cursor
    PROVE  LET from == IF cursor = NoCursor THEN page.from ELSE cursor
           IN  /\ at = "page" /\ at' = "idle"
               /\ from \in Int /\ cursor' > from /\ cursor' \in cursor + 1 .. Len(ledger)
               /\ \A n \in from + 1 .. cursor' : IsWatched(n) =>
                    \A s \in Services : <<s, watchedAddress(n)>> \in steady => Told(s, n)
               /\ UNCHANGED <<rvars, ledger, watched, todo, done, told, steady>>
<1>1. WatcherTypeOK /\ PageLies /\ ToldBehind
  BY DEF WatcherInv
<1>2. /\ page.from \in -1..Len(ledger) /\ page.to \in 0..Len(ledger)
      /\ done \in 0..Len(ledger) /\ Len(ledger) \in Nat /\ cursor \in -1..Len(ledger)
      /\ NoCursor = -1
  BY <1>1, WatcherTypes DEF NoCursor
<1>3. /\ at = "page" /\ at' = "idle" /\ LoopIsOver /\ page.to > page.from /\ cursor' = page.to
      /\ UNCHANGED <<rvars, ledger, watched, todo, done, told, steady>>
  BY DEF Next, Beat, vars, Land, ApiStep, StartBeat, ReadCursor, RequestPage, AnswerPage,
     FindServices, ParseFails, Notify, SaveCursor, EmptyPage, BeatFails, Goes, beatVars
<1>4. (IF cursor = NoCursor THEN page.from ELSE cursor) = page.from
  BY <1>1, <1>3 DEF PageLies
<1>5. cursor <= page.from
  BY <1>1, <1>2, <1>3 DEF PageLies
<1>6. ASSUME NEW n \in page.from + 1 .. page.to, IsWatched(n), NEW s \in Services,
             <<s, watchedAddress(n)>> \in steady
      PROVE  Told(s, n)
  <2>1. n <= done
    BY <1>2, <1>3, <1>6 DEF LoopIsOver
  <2> QED
    BY <1>1, <1>2, <1>3, <1>6, <2>1 DEF ToldBehind, InPage
<1> QED
  BY <1>2, <1>3, <1>4, <1>5, <1>6

\* Whatever beats fail and however the registry changes, the cursor only passes a payment when
\* everyone was told who watched its wallet from the beginning of the beat on.
THEOREM CursorPassesTold == Spec => CursorPassesOnlyTold
<1> DEFINE PassesTold ==
        cursor' # cursor =>
            LET from == IF cursor = NoCursor THEN page.from ELSE cursor
            IN  /\ cursor' > from
                /\ \A n \in from + 1 .. cursor' : IsWatched(n) =>
                     \A s \in Services : <<s, watchedAddress(n)>> \in steady => Told(s, n)
<1>1. WatcherInv /\ [Next]_vars => [PassesTold]_vars
  BY CursorMoves
<1> QED
  BY <1>1, WatcherInvariance, PTL DEF Spec, CursorPassesOnlyTold

-----------------------------------------------------------------------------
(* The promise of Notifier, step by step. *)

\* Which callbacks are on their way, and which were ever made.
Calling == IF at = "notify" THEN todo \X {done} ELSE {}

EverTold == {d \in DOMAIN told : Told(d[1], d[2])}

\* A step that leaves alone what the promise speaks of.
LEMMA NothingPromised ==
    ASSUME UNCHANGED <<rvars, ledger, cursor, watched, steady>>,
           UNCHANGED told, Calling' = Calling
    PROVE  UNCHANGED Promise!nvars
BY DEF Promise!nvars, Calling, Watching, rvars, Told

\* A transaction lands.
LEMMA LandKeeps ==
    ASSUME WatcherInv, Land
    PROVE  Promise!Land
<1>1. PICK tx \in Transactions : ledger' = Append(ledger, tx)
  BY DEF Land
<1>2. ledger \in Seq(Transactions)
  BY DEF WatcherInv, WatcherTypeOK
<1>3. /\ Len(Append(ledger, tx)) = Len(ledger) + 1
      /\ SubSeq(Append(ledger, tx), 1, Len(ledger)) = ledger
  <2>1. /\ Append(ledger, tx) \in Seq(Transactions)
        /\ Len(Append(ledger, tx)) = Len(ledger) + 1 /\ Len(ledger) \in Nat
        /\ \A n \in 1..Len(ledger) : Append(ledger, tx)[n] = ledger[n]
    BY <1>2
  <2>2. SubSeq(Append(ledger, tx), 1, Len(ledger)) \in Seq(Transactions)
    BY <2>1
  <2>3. Len(SubSeq(Append(ledger, tx), 1, Len(ledger))) = Len(ledger)
    BY <2>1
  <2>4. \A n \in 1..Len(ledger) : SubSeq(Append(ledger, tx), 1, Len(ledger))[n] = ledger[n]
    BY <2>1
  <2> QED
    BY <1>2, <2>1, <2>2, <2>3, <2>4
<1>4. UNCHANGED <<rvars, cursor, at, watched, done, todo, told, steady>>
  BY DEF Land, beatVars
<1> QED
  BY <1>1, <1>3, <1>4 DEF Promise!Land, Watching, rvars, Told

\* A request to the API changes who watches what.
LEMMA ApiKeeps ==
    ASSUME ApiStep
    PROVE  Promise!Watch
<1>1. UNCHANGED <<ledger, cursor, at, watched, done, todo, told>>
  BY DEF ApiStep, beatVars
<1>2. Watching' \subseteq Services \X Wallets /\ steady' = steady \cap Watching'
  BY DEF ApiStep, Watching
<1> QED
  BY <1>1, <1>2 DEF Promise!Watch, Told

\* A beat begins by looking who watches what.
LEMMA StartKeeps ==
    ASSUME StartBeat
    PROVE  Promise!Look
<1>1. /\ at = "idle" /\ at' = "cursor" /\ watched' = {x[2] : x \in Watching}
      /\ steady' = Watching /\ UNCHANGED <<rvars, ledger, cursor, told>>
  BY DEF StartBeat, Goes, getAllWatchedAddresses
<1>2. Watching' = Watching
  BY <1>1 DEF Watching, rvars
<1> QED
  BY <1>1, <1>2 DEF Promise!Look, Told

\* The services of a payment are called: it is a watched one, and ahead of the cursor.
LEMMA FindKeeps ==
    ASSUME WatcherInv, FindServices
    PROVE  Promise!Call
<1>1. PICK n \in done + 1 .. page.to :
          /\ IsWatched(n) /\ done' = n /\ at' = IF todo' = {} THEN "page" ELSE "notify"
          /\ todo' = getServicesByWatchedAddress(watchedAddress(n))
  BY DEF FindServices, IsNext
<1>2. at = "page" /\ UNCHANGED <<rvars, ledger, cursor, watched, told, steady>>
  BY DEF FindServices
<1>3. WatcherTypeOK /\ PageLies
  BY DEF WatcherInv
<1>4. n \in DOMAIN ledger /\ n > cursor
  <2>1. /\ page.from \in -1..Len(ledger) /\ page.to \in 0..Len(ledger)
        /\ done \in 0..Len(ledger) /\ cursor \in -1..Len(ledger)
        /\ DOMAIN ledger = 1..Len(ledger) /\ Len(ledger) \in Nat
    BY <1>3, WatcherTypes
  <2>2. page.from <= done /\ (cursor # -1 => page.from = cursor)
    BY <1>2, <1>3 DEF PageLies, InPage, NoCursor
  <2> QED
    BY <2>1, <2>2
<1>5. Promise!Concerns(n) /\ Promise!WalletOf(n) = watchedAddress(n)
  BY <1>1 DEF Promise!Concerns, Promise!WalletOf, IsWatched, watchedAddress
<1>6. Calling' = {s \in Services : <<s, watchedAddress(n)>> \in Watching} \X {n}
  BY <1>1 DEF Calling, getServicesByWatchedAddress
<1>7. Watching' = Watching /\ EverTold' = EverTold
  BY <1>2 DEF Watching, rvars, EverTold, Told
<1> QED
  BY <1>2, <1>4, <1>5, <1>6, <1>7 DEF Promise!Call, Calling, EverTold

\* One of the services that are called is told.
LEMMA TellKeeps ==
    ASSUME WatcherInv, at = "notify", NEW s \in todo, enqueuePaymentCallback(s)
    PROVE  s \in Services /\ done \in Nat /\ EverTold' = EverTold \cup {<<s, done>>}
<1>1. WatcherTypeOK /\ PageLies
  BY DEF WatcherInv
<1>2. s \in Services /\ done # 0 /\ done \in Nat
  <2>1. /\ page.from < done /\ page.from # -1 /\ page.from \in -1..Len(ledger)
        /\ done \in 0..Len(ledger) /\ todo \subseteq Services /\ Len(ledger) \in Nat
    BY <1>1, WatcherTypes DEF PageLies, NoCursor, WatcherTypeOK
  <2> QED
    BY <2>1
<1>3. /\ told' \in [Services \X (1..MaxLedger) -> 0..MaxTold]
      /\ \A x \in Services, n \in 1..MaxLedger :
             <<x, n>> # <<s, done>> => told'[<<x, n>>] = told[<<x, n>>]
      /\ told'[<<s, done>>] > 0 /\ <<s, done>> \in Services \X (1..MaxLedger)
  BY <1>1, <1>2, TellMoves
<1>4. told \in [Services \X (1..MaxLedger) -> 0..MaxTold]
  BY <1>1 DEF WatcherTypeOK
<1>5. ASSUME NEW x \in Services, NEW n \in 1..MaxLedger
      PROVE  <<x, n>> \in EverTold' <=> <<x, n>> \in EverTold \cup {<<s, done>>}
  <2>1. CASE <<x, n>> = <<s, done>>
    BY <1>3, <2>1 DEF EverTold, Told
  <2>2. CASE <<x, n>> # <<s, done>>
    <3>1. told'[<<x, n>>] = told[<<x, n>>]
      BY <1>3, <2>2
    <3> QED
      BY <1>3, <1>4, <2>2, <3>1 DEF EverTold, Told
  <2> QED
    BY <2>1, <2>2
<1>6. /\ EverTold' \subseteq Services \X (1..MaxLedger)
      /\ EverTold \cup {<<s, done>>} \subseteq Services \X (1..MaxLedger)
  BY <1>3, <1>4 DEF EverTold
<1> QED
  BY <1>2, <1>5, <1>6

\* The loop over the services tells one of those that are called.
LEMMA NotifyKeeps ==
    ASSUME WatcherInv, Notify
    PROVE  Promise!Tell
<1>1. PICK s \in todo : enqueuePaymentCallback(s) /\ todo' = todo \ {s}
  BY DEF Notify
<1>2. /\ at = "notify" /\ at' = (IF todo' = {} THEN "page" ELSE "notify")
      /\ UNCHANGED <<rvars, ledger, cursor, watched, done, steady>>
  BY DEF Notify
<1>3. EverTold' = EverTold \cup {<<s, done>>}
  BY <1>1, <1>2, TellKeeps
<1>4. Calling = todo \X {done} /\ <<s, done>> \in Calling /\ Calling' \subseteq Calling
  BY <1>1, <1>2 DEF Calling
<1>5. Watching' = Watching
  BY <1>2 DEF Watching, rvars
<1> QED
  BY <1>2, <1>3, <1>4, <1>5 DEF Promise!Tell, Calling, EverTold

\* The cursor is saved.
LEMMA AdvanceKeeps ==
    ASSUME WatcherInv, [Next]_vars, cursor' # cursor
    PROVE  Promise!Advance
<1> DEFINE from == IF cursor = NoCursor THEN page.from ELSE cursor
<1>1. /\ at = "page" /\ at' = "idle" /\ cursor' \in cursor + 1 .. Len(ledger)
      /\ \A n \in from + 1 .. cursor' : IsWatched(n) =>
             \A s \in Services : <<s, watchedAddress(n)>> \in steady => Told(s, n)
      /\ UNCHANGED <<rvars, ledger, watched, todo, done, told, steady>>
  BY CursorMoves
<1>2. ASSUME cursor # NoCursor, NEW n \in cursor + 1 .. cursor', Promise!Concerns(n),
             NEW s \in Services, <<s, Promise!WalletOf(n)>> \in steady
      PROVE  <<s, n>> \in EverTold
  <2>1. IsWatched(n) /\ Promise!WalletOf(n) = watchedAddress(n)
    BY <1>2 DEF Promise!Concerns, Promise!WalletOf, IsWatched, watchedAddress
  <2>2. Told(s, n)
    BY <1>1, <1>2, <2>1
  <2>3. n \in 1..MaxLedger
    <3>1. cursor \in -1..Len(ledger) /\ Len(ledger) \in 0..MaxLedger /\ MaxLedger \in Nat
      BY WatcherTypes DEF WatcherInv
    <3> QED
      BY <1>1, <1>2, <3>1 DEF NoCursor
  <2> QED
    BY <2>2, <2>3, WatcherTypes DEF EverTold, WatcherInv
<1>3. Watching' = Watching /\ EverTold' = EverTold /\ Calling' = Calling
  BY <1>1 DEF Watching, rvars, EverTold, Told, Calling
<1> QED
  BY <1>1, <1>2, <1>3 DEF Promise!Advance, Calling, EverTold

\* A beat that fails tells one of those that are called, saves the cursor, or does nothing.
LEMMA FailureKeeps ==
    ASSUME WatcherInv, BeatFails
    PROVE  [Promise!Next]_(Promise!nvars)
<1>1. at' = "idle" /\ UNCHANGED <<rvars, ledger, watched, page, done, todo, steady>>
  BY DEF BeatFails, beatVars
<1>2. CASE cursor' # cursor
  BY <1>2, AdvanceKeeps DEF Promise!Next, Next
<1>3. CASE UNCHANGED <<cursor, told>>
  <2>1. Watching' = Watching /\ EverTold' = EverTold /\ Calling' \subseteq Calling
    BY <1>1, <1>3 DEF Watching, rvars, EverTold, Told, Calling
  <2>2. Promise!Tell
    BY <1>1, <1>3, <2>1 DEF Promise!Tell, Calling, EverTold
  <2> QED
    BY <2>2 DEF Promise!Next
<1>4. CASE at = "notify" /\ UNCHANGED cursor /\ \E s \in todo : enqueuePaymentCallback(s)
  <2>1. PICK s \in todo : enqueuePaymentCallback(s)
    BY <1>4
  <2>2. EverTold' = EverTold \cup {<<s, done>>}
    BY <1>4, <2>1, TellKeeps
  <2>3. Watching' = Watching /\ Calling' \subseteq Calling /\ <<s, done>> \in Calling
    BY <1>1, <1>4 DEF Watching, rvars, Calling
  <2>4. Promise!Tell
    BY <1>1, <1>4, <2>2, <2>3 DEF Promise!Tell, Calling, EverTold
  <2> QED
    BY <2>4 DEF Promise!Next
<1> QED
  BY <1>2, <1>3, <1>4 DEF BeatFails

\* The steps of a beat that the promise does not see.
LEMMA OtherKeeps ==
    ASSUME \/ ReadCursor \/ RequestPage \/ AnswerPage \/ ParseFails \/ EmptyPage
           \/ UNCHANGED vars
    PROVE  UNCHANGED Promise!nvars
<1>1. UNCHANGED <<rvars, ledger, cursor, watched, steady, told>>
  BY DEF ReadCursor, RequestPage, AnswerPage, ParseFails, EmptyPage, beatVars, vars
<1>2. Calling' = Calling
  BY DEF ReadCursor, RequestPage, AnswerPage, ParseFails, EmptyPage, beatVars, vars, Goes,
     Calling
<1> QED
  BY <1>1, <1>2, NothingPromised

\* The watcher goes through the ledger without a gap and never back, tells of a payment only
\* those that watch its wallet and only while it is ahead of the cursor, and passes none that
\* somebody it promised to tell has not been told of.
THEOREM PromiseIsKept == Spec => KeepsPromise
<1>1. Init => Promise!Init
  <2> SUFFICES ASSUME Init PROVE Promise!Init
    OBVIOUS
  <2>1. Watching = {}
    BY DEF Init, RegistryInit, Watching
  <2>2. EverTold = {}
    BY DEF Init, EverTold, Told
  <2> QED
    BY <2>1, <2>2 DEF Init, Promise!Init, EverTold
<1>2. WatcherInv /\ [Next]_vars => [Promise!Next]_(Promise!nvars)
  <2> SUFFICES ASSUME WatcherInv, [Next]_vars PROVE [Promise!Next]_(Promise!nvars)
    OBVIOUS
  <2>1. CASE SaveCursor
    <3>1. cursor' # cursor
      <4>1. cursor' = page.to /\ page.to > page.from /\ at = "page"
        BY <2>1 DEF SaveCursor, Goes
      <4>2. (cursor # NoCursor => page.from = cursor) /\ page.to \in Nat
        BY <4>1, WatcherTypes DEF WatcherInv, PageLies
      <4> QED
        BY <4>1, <4>2, WatcherTypes DEF NoCursor, WatcherInv
    <3> QED
      BY <3>1, AdvanceKeeps DEF Promise!Next
  <2> QED
    BY <2>1, LandKeeps, ApiKeeps, StartKeeps, FindKeeps, NotifyKeeps, FailureKeeps, OtherKeeps
       DEF Next, Beat, Promise!Next
<1> QED
  BY <1>1, <1>2, WatcherInvariance, PTL DEF Spec, KeepsPromise, Promise!Spec
=============================================================================
