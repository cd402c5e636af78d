------------------------- MODULE EventScannerProofs -------------------------
(***************************************************************************)
(* Proofs about EventScanner, for every value of its constants: a scan     *)
(* never throws, and the database is a copy of the bridge (BridgeMirror).  *)
(***************************************************************************)
EXTENDS EventScanner, WellFoundedInduction, TLAPS

-----------------------------------------------------------------------------
(* What the events of a chain say. A transfer gets each status once, so    *)
(* what an event list says of it needs no order: it is the status that     *)
(* follows all the others that it got.                                     *)

\* "Each batch is limited to 40 transfers so uint8 should be more than sufficient"
\* (FastBTCBridge.sol:69); nothing in the contract does so.
BatchesFit == \A call \in PossibleCalls : Len(call.ids) < 256

Statuses == {"NEW", "SENDING", "MINED", "REFUNDED", "RECLAIMED"}

\* The statuses that a transfer may get after others.
Follows == {<<"NEW", "SENDING">>, <<"NEW", "MINED">>, <<"NEW", "REFUNDED">>,
            <<"NEW", "RECLAIMED">>, <<"SENDING", "MINED">>}

EventsUpTo(chain, n) == UNION {ToSet(chain[b].log) : b \in 1 .. n}

AllEvents(chain) == EventsUpTo(chain, Len(chain))

IsNew(event) == event.args.name = "NewTransfer"
IsUpdate(event) == event.args.name = "StatusUpdated"
IsBatch(event) == event.args.name = "BatchSending"

About(event, t) == (IsNew(event) \/ IsUpdate(event)) /\ event.args.id = t

StatusOf(event) == IF IsNew(event) THEN "NEW" ELSE event.args.newStatus

Got(events, t, status) == \E e \in events : About(e, t) /\ StatusOf(e) = status

IsStatusAfter(events, t, status) ==
    \/ status = "NOT_APPLICABLE" /\ \A e \in events : ~About(e, t)
    \/ /\ Got(events, t, status)
       /\ \A e \in events :
             About(e, t) => StatusOf(e) = status \/ <<StatusOf(e), status>> \in Follows

\* e announces the hash of the transaction that pays t.
Announces(e, t, hash) ==
    IsBatch(e) /\ e.args.bitcoinTxHash = hash /\ t \in ToSet(hash)

IsHashAfter(events, t, hash) ==
    \/ ~Got(events, t, "SENDING") /\ hash = NoHash
    \/ Got(events, t, "SENDING") /\ \E e \in events : Announces(e, t, hash)

-----------------------------------------------------------------------------
(* The invariant of the chain *)

EventTypeOK(e) ==
    \/ IsNew(e) /\ e.args.id \in Transfers
    \/ IsUpdate(e) /\ e.args.id \in Transfers /\ e.args.newStatus \in Statuses \ {"NEW"}
    \/ /\ IsBatch(e)
       /\ e.args.bitcoinTxHash \in Seq(Transfers) \ {<<>>}
       /\ e.args.transferBatchSize = Len(e.args.bitcoinTxHash)

\* A log entry knows its place.
LogsOK(chain) ==
    \A b \in DOMAIN chain : \A i \in DOMAIN chain[b].log :
        LET e == chain[b].log[i]
        IN  e.block = b /\ e.log = i /\ EventTypeOK(e)

BlocksTypeOK(chain) ==
    /\ chain \in Seq(ToSet(chain))
    /\ Len(chain) \in Nat /\ Len(chain) >= StartBlock
    /\ DOMAIN chain = 1 .. Len(chain)
    /\ \A b \in DOMAIN chain :
         /\ chain[b].transactions \in Nat
         /\ chain[b].log \in Seq(ToSet(chain[b].log))
         /\ Len(chain[b].log) \in Nat /\ DOMAIN chain[b].log = 1 .. Len(chain[b].log)
         /\ chain[b].transfers = [t \in Transfers |->
                                    [status |-> chain[b].transfers[t].status,
                                     hash |-> chain[b].transfers[t].hash]]
    /\ \A b \in 1 .. StartBlock - 1 : chain[b].log = <<>>

\* What a later event may say of a transfer, and that nothing is said of it before
\* it is new.
EventsFollow(events) ==
    /\ \A e, f \in events : SortsBefore(e, f) =>
         \A t \in Transfers : About(e, t) /\ About(f, t) =>
             <<StatusOf(e), StatusOf(f)>> \in Follows
    /\ \A e \in events : \A t \in Transfers : About(e, t) /\ ~IsNew(e) =>
          \E f \in events : SortsBefore(f, e) /\ About(f, t)

\* A batch is followed by its updates, and these by nothing but a batch of theirs.
UpdateOf(c, i, e) ==
    /\ e.block = c.block /\ e.transaction = c.transaction /\ e.log = c.log + i
    /\ IsUpdate(e) /\ e.args.id = c.args.bitcoinTxHash[i] /\ e.args.newStatus = "SENDING"

BatchesOK(events) ==
    /\ \A c \in events : IsBatch(c) =>
          \A i \in DOMAIN c.args.bitcoinTxHash : \E e \in events : UpdateOf(c, i, e)
    /\ \A e \in events : IsUpdate(e) /\ e.args.newStatus = "SENDING" =>
          \E c \in events : IsBatch(c) /\ \E i \in DOMAIN c.args.bitcoinTxHash : UpdateOf(c, i, e)

\* What the bridge says of the transfers after a block is what the events say.
TransfersOK(chain) ==
    \A b \in DOMAIN chain : \A t \in Transfers :
        /\ IsStatusAfter(EventsUpTo(chain, b), t, chain[b].transfers[t].status)
        /\ IsHashAfter(EventsUpTo(chain, b), t, chain[b].transfers[t].hash)

ChainInv(chain) ==
    /\ BlocksTypeOK(chain)
    /\ LogsOK(chain)
    /\ EventsFollow(AllEvents(chain))
    /\ BatchesOK(AllEvents(chain))
    /\ TransfersOK(chain)

-----------------------------------------------------------------------------
(* The invariant of the scanner *)

SeenStatus(t, status) ==
    IF status = "NEW" /\ t \in InvalidAddresses THEN "INVALID" ELSE status

\* The database says what these events say.
Reflects(events, db) ==
    /\ DOMAIN db = {"status", "btcTransactionHash", "commitments"}
    /\ DOMAIN db.status = Transfers /\ DOMAIN db.btcTransactionHash = Transfers
    /\ \A t \in Transfers :
         /\ \E s \in Statuses \cup {"NOT_APPLICABLE"} :
               IsStatusAfter(events, t, s) /\ db.status[t] = SeenStatus(t, s)
         /\ IsHashAfter(events, t, db.btcTransactionHash[t])
    /\ db.commitments = {Commitment(e) : e \in {e \in events : IsBatch(e)}}

Arrived == {a.event : a \in scan.arrivals}

\* The events that the scan is about.
NewEvents == {e \in EventsUpTo(blocks, scan.toBlock) : e.block > lastProcessedBlock}

EachArrivesOnce == \A a, b \in scan.arrivals : a.event = b.event => a = b

\* The scan has read what the chunks before say, and of this chunk what the kinds of
\* events say that it has asked for.
IsRead(event) ==
    \/ event.block < scan.fromBlock
    \/ event.block <= BatchToBlock /\ \E k \in 1 .. scan.filter - 1 : event.args.name = Filters[k]

ReadingInv ==
    /\ DOMAIN scan = {"step", "fromBlock", "toBlock", "filter", "attempt", "arrivals"}
    /\ scan.step = "reading"
    /\ scan.filter \in 1 .. 3
    /\ scan.attempt \in 0 .. Retries
    /\ scan.fromBlock \in lastProcessedBlock + 1 .. scan.toBlock + 1
    /\ scan.fromBlock = scan.toBlock + 1 => scan.filter = 1
    /\ Arrived = {e \in NewEvents : IsRead(e)}

\* What is not processed yet comes after what is.
ProcessingInv ==
    /\ DOMAIN scan = {"step", "toBlock", "arrivals", "database"}
    /\ scan.step = "processing"
    /\ Arrived \subseteq NewEvents
    /\ \A e \in NewEvents \ Arrived : \A f \in Arrived : SortsBefore(e, f)
    /\ Reflects(EventsUpTo(blocks, scan.toBlock) \ Arrived, scan.database)

ScanInv ==
    /\ lastProcessedBlock \in Nat
    /\ \/ lastProcessedBlock = StartBlock - 1
       \/ lastProcessedBlock \in StartBlock .. ConfirmedBlocks
    /\ Reflects(EventsUpTo(blocks, lastProcessedBlock), database)
    /\ ~thrown
    /\ faultsLeft \in 0 .. MaxFaults
    /\ \/ scan = Idle
       \/ /\ scan.toBlock \in lastProcessedBlock + 1 .. ConfirmedBlocks
          /\ EachArrivesOnce
          /\ ReadingInv \/ ProcessingInv

ScannerInv == ChainInv(blocks) /\ ScanInv

-----------------------------------------------------------------------------
(* Events and their places *)

\* Where the events of a chain are.
LEMMA Places ==
    ASSUME NEW chain, BlocksTypeOK(chain), LogsOK(chain), NEW e \in AllEvents(chain)
    PROVE  /\ e.block \in DOMAIN chain /\ e.log \in DOMAIN chain[e.block].log
           /\ e.block \in Nat /\ e.log \in Nat
           /\ e = chain[e.block].log[e.log]
           /\ EventTypeOK(e)
<1>1. PICK b \in DOMAIN chain : \E i \in DOMAIN chain[b].log : e = chain[b].log[i]
  BY DEF AllEvents, EventsUpTo, ToSet, BlocksTypeOK
<1>2. PICK i \in DOMAIN chain[b].log : e = chain[b].log[i]
  BY <1>1
<1>3. e.block = b /\ e.log = i /\ EventTypeOK(e)
  BY <1>2 DEF LogsOK
<1>4. b \in Nat /\ i \in Nat
  <2>1. Len(chain) \in Nat /\ DOMAIN chain = 1 .. Len(chain)
    BY DEF BlocksTypeOK
  <2>2. Len(chain[b].log) \in Nat /\ DOMAIN chain[b].log = 1 .. Len(chain[b].log)
    BY <1>1 DEF BlocksTypeOK
  <2>3. QED
    BY <1>1, <1>2, <2>1, <2>2
<1>5. QED
  BY <1>1, <1>2, <1>3, <1>4

\* The events of the first blocks are those that say so.
LEMMA EventsUpToByBlock ==
    ASSUME NEW chain, BlocksTypeOK(chain), LogsOK(chain), NEW n \in Int, n <= Len(chain)
    PROVE  EventsUpTo(chain, n) = {e \in AllEvents(chain) : e.block \in 1 .. n}
<1>1. ASSUME NEW e \in EventsUpTo(chain, n)
      PROVE  e \in AllEvents(chain) /\ e.block \in 1 .. n
  <2>1. PICK b \in 1 .. n : \E i \in DOMAIN chain[b].log : e = chain[b].log[i]
    BY <1>1 DEF EventsUpTo, ToSet
  <2>2. b \in 1 .. Len(chain) /\ b \in DOMAIN chain
    BY <2>1 DEF BlocksTypeOK
  <2>3. e.block = b
    BY <2>1, <2>2 DEF LogsOK
  <2>4. e \in AllEvents(chain)
    BY <2>1, <2>2 DEF AllEvents, EventsUpTo, ToSet
  <2>5. QED
    BY <2>3, <2>4
<1>2. ASSUME NEW e \in AllEvents(chain), e.block \in 1 .. n
      PROVE  e \in EventsUpTo(chain, n)
  <2>1. e \in ToSet(chain[e.block].log)
    BY Places DEF ToSet
  <2>2. QED
    BY <1>2, <2>1 DEF EventsUpTo
<1>3. QED
  BY <1>1, <1>2

\* Of two events one comes before the other.
LEMMA EventsAreOrdered ==
    ASSUME NEW chain, BlocksTypeOK(chain), LogsOK(chain),
           NEW e \in AllEvents(chain), NEW f \in AllEvents(chain)
    PROVE  /\ e # f => SortsBefore(e, f) \/ SortsBefore(f, e)
           /\ ~(SortsBefore(e, f) /\ SortsBefore(f, e))
           /\ ~SortsBefore(e, e)
<1>1. e = chain[e.block].log[e.log] /\ f = chain[f.block].log[f.log]
  BY Places
<1>2. e.block \in Nat /\ e.log \in Nat /\ f.block \in Nat /\ f.log \in Nat
  BY Places
<1>3. e.block = f.block /\ e.log = f.log => e = f
  BY <1>1
<1>4. QED
  BY <1>2, <1>3 DEF SortsBefore

\* Among some natural numbers there is a smallest.
LEMMA SmallestNumber ==
    ASSUME NEW S, S \subseteq Nat, S # {}
    PROVE  \E x \in S : \A y \in S : x <= y
<1>1. PICK x \in S : \A y \in S : ~(<<y, x>> \in OpToRel(<, Nat))
  BY NatLessThanWellFounded, WFMin
<1>2. \A y \in S : ~(y < x)
  BY <1>1 DEF OpToRel
<1>3. QED
  BY <1>2

\* Some event comes first.
LEMMA SomeEventIsFirst ==
    ASSUME NEW S, S # {}, \A e \in S : e.block \in Nat /\ e.log \in Nat
    PROVE  \E e \in S : \A f \in S : ~SortsBefore(f, e)
<1> DEFINE B == {e.block : e \in S}
<1>1. PICK b \in B : \A c \in B : b <= c
  BY SmallestNumber
<1> DEFINE L == {e.log : e \in {f \in S : f.block = b}}
<1>2. L # {} /\ L \subseteq Nat
  BY <1>1
<1>3. PICK l \in L : \A k \in L : l <= k
  BY <1>2, SmallestNumber
<1>4. PICK e \in S : e.block = b /\ e.log = l
  BY <1>3
<1>5. ASSUME NEW f \in S, SortsBefore(f, e)
      PROVE  FALSE
  <2>1. b <= f.block /\ (f.block = b => l <= f.log)
    BY <1>1, <1>3
  <2>2. b \in Nat /\ l \in Nat /\ f.block \in Nat /\ f.log \in Nat
    BY <1>4
  <2>3. QED
    BY <1>4, <1>5, <2>1, <2>2 DEF SortsBefore
<1>6. QED
  BY <1>4, <1>5

-----------------------------------------------------------------------------
(* The events of a call *)

UpdateArgs(call, i) ==
    [name |-> "StatusUpdated", id |-> call.ids[i], newStatus |-> call.status]

BatchArgs(call) ==
    [name |-> "BatchSending", bitcoinTxHash |-> call.ids, transferBatchSize |-> Len(call.ids)]

\* What the arguments of its events are.
LEMMA ArgsOfCall ==
    ASSUME BatchesFit, NEW call \in PossibleCalls
    PROVE  /\ call.status = "NEW" =>
                /\ EventsOf(call)[1] = [name |-> "NewTransfer", id |-> call.ids[1]]
                /\ Len(EventsOf(call)) = 1
                /\ Len(call.ids) = 1
           /\ call.status = "SENDING" =>
                /\ Len(EventsOf(call)) = Len(call.ids) + 1
                /\ EventsOf(call)[1] = BatchArgs(call)
                /\ \A i \in DOMAIN call.ids : EventsOf(call)[i + 1] = UpdateArgs(call, i)
           /\ call.status \notin {"NEW", "SENDING"} =>
                /\ Len(EventsOf(call)) = Len(call.ids)
                /\ \A i \in DOMAIN call.ids : EventsOf(call)[i] = UpdateArgs(call, i)
           /\ Len(EventsOf(call)) \in Nat /\ DOMAIN EventsOf(call) = 1 .. Len(EventsOf(call))
           /\ Len(call.ids) \in Nat /\ DOMAIN call.ids = 1 .. Len(call.ids) /\ Len(call.ids) # 0
           /\ DOMAIN call.ids \subseteq Nat /\ 1 \in DOMAIN call.ids
           /\ call.ids \in Seq(Transfers) \ {<<>>}
           /\ call.status \in Statuses
<1>1. call.ids \in Seq(Transfers) \ {<<>>} /\ call.status \in Statuses
  BY ScannerAssumption DEF Statuses
<1>2. Len(call.ids) \in Nat /\ DOMAIN call.ids = 1 .. Len(call.ids) /\ Len(call.ids) # 0
      /\ DOMAIN call.ids \subseteq Nat /\ 1 \in DOMAIN call.ids
  <2> DEFINE l == Len(call.ids)
  <2>1. l \in Nat /\ DOMAIN call.ids = 1 .. l /\ l # 0
    BY <1>1
  <2> HIDE DEF l
  <2>2. DOMAIN call.ids \subseteq Nat /\ 1 \in DOMAIN call.ids
    BY <2>1
  <2>3. QED
    BY <2>1, <2>2 DEF l
<1> DEFINE updates == [i \in DOMAIN call.ids |->
                         [name |-> "StatusUpdated", id |-> call.ids[i], newStatus |-> call.status]]
           n == Len(call.ids)
<1>3. n % 256 = n
  <2>1. n \in Nat /\ n < 256
    BY <1>2 DEF BatchesFit
  <2> HIDE DEF n
  <2>2. QED
    BY <2>1
<1>4. call.status = "NEW" => EventsOf(call) = <<[name |-> "NewTransfer", id |-> call.ids[1]]>>
  BY DEF EventsOf
<1>5. call.status = "SENDING" => EventsOf(call) = <<BatchArgs(call)>> \o updates
  BY <1>3 DEF EventsOf, BatchArgs
<1>6. call.status \notin {"NEW", "SENDING"} => EventsOf(call) = updates
  BY DEF EventsOf
<1>7. updates = [i \in 1 .. Len(call.ids) |-> UpdateArgs(call, i)]
  BY <1>2 DEF UpdateArgs
<1> HIDE DEF updates
<1>8. Len(updates) = Len(call.ids) /\ DOMAIN updates = 1 .. Len(call.ids)
      /\ updates \in Seq({UpdateArgs(call, i) : i \in DOMAIN call.ids})
  BY <1>2, <1>7
<1>9. LET both == <<BatchArgs(call)>> \o updates
      IN  /\ Len(both) = Len(call.ids) + 1 /\ DOMAIN both = 1 .. Len(call.ids) + 1
          /\ both[1] = BatchArgs(call)
          /\ \A i \in DOMAIN call.ids : both[i + 1] = UpdateArgs(call, i)
  BY <1>2, <1>7, <1>8
<1>10. CASE call.status = "SENDING"
  <2>1. Len(EventsOf(call)) = n + 1 /\ DOMAIN EventsOf(call) = 1 .. n + 1 /\ n \in Nat
    BY <1>2, <1>5, <1>9, <1>10
  <2>2. EventsOf(call)[1] = BatchArgs(call)
        /\ \A i \in DOMAIN call.ids : EventsOf(call)[i + 1] = UpdateArgs(call, i)
    BY <1>5, <1>9, <1>10
  <2> HIDE DEF n
  <2>3. Len(EventsOf(call)) \in Nat /\ DOMAIN EventsOf(call) = 1 .. Len(EventsOf(call))
    BY <2>1
  <2>4. QED
    BY <1>1, <1>2, <1>10, <2>1, <2>2, <2>3 DEF n
<1>11. CASE call.status = "NEW"
  <2>1. Len(call.ids) = 1
    BY <1>11, ScannerAssumption
  <2> DEFINE only == [name |-> "NewTransfer", id |-> call.ids[1]]
  <2>2. EventsOf(call) = <<only>>
    BY <1>4, <1>11
  <2> HIDE DEF only
  <2>3. Len(<<only>>) = 1 /\ DOMAIN <<only>> = 1 .. 1 /\ <<only>>[1] = only
    OBVIOUS
  <2>4. QED
    BY <1>1, <1>2, <1>11, <2>1, <2>2, <2>3 DEF only
<1>12. CASE call.status \notin {"NEW", "SENDING"}
  BY <1>1, <1>2, <1>6, <1>7, <1>8, <1>12
<1>13. QED
  BY <1>10, <1>11, <1>12

\* The events of a call, when it has found its place.
PlacedEvents(call, transaction, number, log) == ToSet(Placed(call, transaction, number, log))

LEMMA PlacedIn ==
    ASSUME BatchesFit, NEW call \in PossibleCalls, NEW transaction, NEW number, NEW log
    PROVE  /\ Len(Placed(call, transaction, number, log)) = Len(EventsOf(call))
           /\ DOMAIN Placed(call, transaction, number, log) = 1 .. Len(EventsOf(call))
           /\ Placed(call, transaction, number, log)
                \in Seq(PlacedEvents(call, transaction, number, log))
           /\ \A i \in 1 .. Len(EventsOf(call)) :
                 Placed(call, transaction, number, log)[i] =
                   [block |-> number, transaction |-> transaction, log |-> Len(log) + i,
                    args |-> EventsOf(call)[i]]
<1> DEFINE placed == Placed(call, transaction, number, log)
           m == Len(EventsOf(call))
<1>1. m \in Nat /\ DOMAIN EventsOf(call) = 1 .. m
  BY ArgsOfCall
<1>2. placed = [i \in 1 .. m |-> [block |-> number, transaction |-> transaction,
                                  log |-> Len(log) + i, args |-> EventsOf(call)[i]]]
  BY <1>1 DEF Placed
<1> HIDE DEF placed, m
<1>3. Len(placed) = m /\ DOMAIN placed = 1 .. m
  BY <1>1, <1>2
<1>4. placed \in Seq(ToSet(placed))
  <2>1. \A i \in 1 .. m : placed[i] \in ToSet(placed)
    BY <1>3 DEF ToSet
  <2>2. placed \in [1 .. m -> ToSet(placed)]
    BY <1>2, <2>1
  <2>3. QED
    BY <1>1, <2>2
<1>5. QED
  BY <1>2, <1>3, <1>4 DEF placed, m, PlacedEvents

\* What they say.
LEMMA PlacedSay ==
    ASSUME BatchesFit, NEW call \in PossibleCalls, NEW transaction, NEW number, NEW log,
           Len(log) \in Nat, NEW e \in PlacedEvents(call, transaction, number, log)
    PROVE  /\ e.block = number /\ e.transaction = transaction
           /\ e.log \in Nat /\ e.log > Len(log)
           /\ e = Placed(call, transaction, number, log)[e.log - Len(log)]
           /\ EventTypeOK(e)
           /\ \/ IsNew(e) /\ call.status = "NEW" /\ call.ids[1] = e.args.id
                 /\ e.log = Len(log) + 1 /\ Len(call.ids) = 1
              \/ /\ IsBatch(e) /\ call.status = "SENDING" /\ e.args.bitcoinTxHash = call.ids
                 /\ e.log = Len(log) + 1
              \/ /\ IsUpdate(e) /\ e.args.newStatus = call.status /\ call.status # "NEW"
                 /\ \E i \in DOMAIN call.ids :
                      /\ e.args.id = call.ids[i]
                      /\ e.log = Len(log) + (IF call.status = "SENDING" THEN i + 1 ELSE i)
<1> DEFINE n == Len(call.ids)
           m == Len(EventsOf(call))
           k == Len(log)
<1>1. m \in Nat /\ n \in Nat /\ n # 0 /\ DOMAIN call.ids = 1 .. n /\ call.status \in Statuses
      /\ call.ids \in Seq(Transfers) \ {<<>>}
  BY ArgsOfCall
<1>2. PICK i \in 1 .. m : e = [block |-> number, transaction |-> transaction, log |-> k + i,
                               args |-> EventsOf(call)[i]]
  <2> DEFINE placed == Placed(call, transaction, number, log)
  <2>1. \E i \in DOMAIN placed : e = placed[i]
    BY DEF PlacedEvents, ToSet
  <2>2. DOMAIN placed = 1 .. m
    BY PlacedIn
  <2>3. \A i \in 1 .. m : placed[i] = [block |-> number, transaction |-> transaction, log |-> k + i,
                                      args |-> EventsOf(call)[i]]
    BY PlacedIn
  <2> HIDE DEF placed, m, k
  <2>4. QED
    BY <2>1, <2>2, <2>3
<1>3. e.block = number /\ e.transaction = transaction /\ e.log = k + i /\ e.args = EventsOf(call)[i]
  BY <1>2
<1>4. k \in Nat /\ i \in Nat /\ i >= 1 /\ i <= m
  BY <1>1, <1>2
<1>5. \A j \in 1 .. n : call.ids[j] \in Transfers
  BY <1>1
<1>6. e = Placed(call, transaction, number, log)[i]
  BY <1>2, PlacedIn
<1>7. CASE call.status = "NEW"
  <2>1. m = 1 /\ n = 1 /\ EventsOf(call)[1] = [name |-> "NewTransfer", id |-> call.ids[1]]
    BY <1>7, ArgsOfCall
  <2>2. i = 1
    BY <1>4, <2>1
  <2>3. IsNew(e) /\ e.args.id = call.ids[1]
    BY <1>3, <2>1, <2>2 DEF IsNew
  <2>4. EventTypeOK(e)
    BY <1>5, <2>1, <2>3 DEF EventTypeOK
  <2> HIDE DEF m, n, k
  <2>5. e.log - k = i /\ e.log \in Nat /\ e.log > k
    BY <1>3, <1>4
  <2>6. QED
    BY <1>3, <1>6, <1>7, <2>1, <2>2, <2>3, <2>4, <2>5 DEF k, n
<1>8. CASE call.status = "SENDING"
  <2>1. m = n + 1 /\ EventsOf(call)[1] = BatchArgs(call)
        /\ \A j \in DOMAIN call.ids : EventsOf(call)[j + 1] = UpdateArgs(call, j)
    BY <1>8, ArgsOfCall
  <2>2. ASSUME i = 1
        PROVE  IsBatch(e) /\ e.args.bitcoinTxHash = call.ids /\ EventTypeOK(e)
    <3>1. e.args = BatchArgs(call)
      BY <1>3, <2>1, <2>2
    <3>2. IsBatch(e) /\ e.args.bitcoinTxHash = call.ids
          /\ e.args.transferBatchSize = Len(e.args.bitcoinTxHash)
      BY <3>1 DEF BatchArgs, IsBatch
    <3>3. QED
      BY <1>1, <3>2 DEF EventTypeOK
  <2>3. ASSUME i # 1
        PROVE  /\ i - 1 \in 1 .. n
               /\ IsUpdate(e) /\ e.args.id = call.ids[i - 1] /\ e.args.newStatus = "SENDING"
               /\ EventTypeOK(e)
    <3> HIDE DEF m, n, k
    <3>1. i - 1 \in 1 .. n /\ (i - 1) + 1 = i
      BY <1>1, <1>4, <2>1, <2>3
    <3>2. e.args = UpdateArgs(call, i - 1)
      BY <1>1, <1>3, <2>1, <3>1
    <3>3. IsUpdate(e) /\ e.args.id = call.ids[i - 1] /\ e.args.newStatus = "SENDING"
      BY <1>8, <3>2 DEF UpdateArgs, IsUpdate
    <3>4. QED
      BY <1>5, <3>1, <3>3 DEF EventTypeOK, Statuses
  <2> HIDE DEF m, n, k
  <2>4. e.log - k = i /\ e.log \in Nat /\ e.log > k /\ (i - 1) + 1 = i
    BY <1>3, <1>4
  <2>5. CASE i = 1
    BY <1>3, <1>6, <1>8, <2>2, <2>4, <2>5 DEF k
  <2>6. CASE i # 1
    <3>1. i - 1 \in DOMAIN call.ids /\ e.log = k + ((i - 1) + 1)
      BY <1>1, <1>3, <2>3, <2>4, <2>6
    <3>2. QED
      BY <1>3, <1>6, <1>8, <2>3, <2>4, <2>6, <3>1 DEF k
  <2>7. QED
    BY <2>5, <2>6
<1>9. CASE call.status \notin {"NEW", "SENDING"}
  <2>1. m = n /\ \A j \in DOMAIN call.ids : EventsOf(call)[j] = UpdateArgs(call, j)
    BY <1>9, ArgsOfCall
  <2>2. i \in DOMAIN call.ids
    BY <1>1, <2>1
  <2>3. e.args = UpdateArgs(call, i)
    BY <1>3, <2>1, <2>2
  <2>4. IsUpdate(e) /\ e.args.id = call.ids[i] /\ e.args.newStatus = call.status
    BY <2>3 DEF UpdateArgs, IsUpdate
  <2>5. EventTypeOK(e)
    BY <1>1, <1>5, <1>9, <2>2, <2>4 DEF EventTypeOK
  <2> HIDE DEF m, n, k
  <2>6. e.log - k = i /\ e.log \in Nat /\ e.log > k
    BY <1>3, <1>4
  <2>7. QED
    BY <1>3, <1>6, <1>9, <2>2, <2>4, <2>5, <2>6 DEF k
<1>10. QED
  BY <1>7, <1>8, <1>9

\* The call says something of each of its transfers, and announces a batch.
LEMMA PlacedExist ==
    ASSUME BatchesFit, NEW call \in PossibleCalls, NEW transaction, NEW number, NEW log,
           Len(log) \in Nat, NEW i \in DOMAIN call.ids
    PROVE  \E e \in PlacedEvents(call, transaction, number, log) :
              /\ e.block = number /\ e.transaction = transaction
              /\ About(e, call.ids[i]) /\ StatusOf(e) = call.status
              /\ call.status = "SENDING" => IsUpdate(e) /\ e.log = Len(log) + (i + 1)
<1> DEFINE n == Len(call.ids)
           m == Len(EventsOf(call))
           k == Len(log)
           placed == Placed(call, transaction, number, log)
           at == IF call.status = "SENDING" THEN i + 1 ELSE i
<1>1. m \in Nat /\ n \in Nat /\ DOMAIN call.ids = 1 .. n
  BY ArgsOfCall
<1>2. at \in 1 .. m
  <2>1. call.status = "NEW" => m = 1 /\ n = 1
    BY ArgsOfCall
  <2>2. call.status = "SENDING" => m = n + 1
    BY ArgsOfCall
  <2>3. call.status \notin {"NEW", "SENDING"} => m = n
    BY ArgsOfCall
  <2> HIDE DEF m, n
  <2>4. QED
    BY <1>1, <2>1, <2>2, <2>3
<1>3. /\ placed[at] = [block |-> number, transaction |-> transaction, log |-> k + at,
                       args |-> EventsOf(call)[at]]
      /\ placed[at] \in PlacedEvents(call, transaction, number, log)
  <2>1. DOMAIN placed = 1 .. m
    BY PlacedIn
  <2>2. \A j \in 1 .. m : placed[j] = [block |-> number, transaction |-> transaction,
                                       log |-> k + j, args |-> EventsOf(call)[j]]
    BY PlacedIn
  <2> HIDE DEF m, k, at
  <2>3. placed[at] \in PlacedEvents(call, transaction, number, log)
    BY <1>2, <2>1 DEF PlacedEvents, ToSet
  <2>4. QED
    BY <1>2, <2>2, <2>3
<1>4. CASE call.status = "NEW"
  <2>1. n = 1 /\ EventsOf(call)[1] = [name |-> "NewTransfer", id |-> call.ids[1]]
    BY <1>4, ArgsOfCall
  <2>2. i = 1 /\ at = 1
    <3> HIDE DEF n
    <3>1. i = 1
      BY <1>1, <2>1
    <3>2. QED
      BY <3>1, <1>4
  <2>3. About(placed[at], call.ids[i]) /\ StatusOf(placed[at]) = call.status
    BY <1>3, <1>4, <2>1, <2>2 DEF About, IsNew, StatusOf
  <2>4. QED
    BY <1>3, <1>4, <2>3
<1>5. CASE call.status # "NEW"
  <2>1. EventsOf(call)[at] = UpdateArgs(call, i)
    <3>1. CASE call.status = "SENDING"
      BY <3>1, ArgsOfCall
    <3>2. CASE call.status # "SENDING"
      BY <1>5, <3>2, ArgsOfCall
    <3>3. QED
      BY <3>1, <3>2
  <2>2. IsUpdate(placed[at]) /\ ~IsNew(placed[at]) /\ placed[at].args.id = call.ids[i]
        /\ placed[at].args.newStatus = call.status
    BY <1>3, <2>1 DEF UpdateArgs, IsUpdate, IsNew
  <2>3. About(placed[at], call.ids[i]) /\ StatusOf(placed[at]) = call.status
    BY <2>2 DEF About, StatusOf
  <2>4. call.status = "SENDING" => placed[at].log = k + (i + 1)
    BY <1>3
  <2>5. QED
    BY <1>3, <2>2, <2>3, <2>4
<1>6. QED
  BY <1>4, <1>5

\* A batch is announced before the updates.
LEMMA PlacedBatch ==
    ASSUME BatchesFit, NEW call \in PossibleCalls, NEW transaction, NEW number, NEW log,
           Len(log) \in Nat, call.status = "SENDING"
    PROVE  \E c \in PlacedEvents(call, transaction, number, log) :
              /\ c.block = number /\ c.transaction = transaction
              /\ IsBatch(c) /\ c.args.bitcoinTxHash = call.ids
              /\ c.log = Len(log) + 1
<1> DEFINE m == Len(EventsOf(call))
           placed == Placed(call, transaction, number, log)
<1>1. m = Len(call.ids) + 1 /\ Len(call.ids) \in Nat /\ EventsOf(call)[1] = BatchArgs(call)
  BY ArgsOfCall
<1>2. 1 \in 1 .. m
  BY <1>1
<1>3. /\ placed[1] = [block |-> number, transaction |-> transaction, log |-> Len(log) + 1,
                      args |-> EventsOf(call)[1]]
      /\ DOMAIN placed = 1 .. m
  BY <1>2, PlacedIn
<1>4. placed[1] \in PlacedEvents(call, transaction, number, log)
  BY <1>2, <1>3 DEF PlacedEvents, ToSet
<1>5. IsBatch(placed[1]) /\ placed[1].args.bitcoinTxHash = call.ids
  BY <1>1, <1>3 DEF IsBatch, BatchArgs
<1>6. QED
  BY <1>3, <1>4, <1>5

\* And it says only one thing of a transfer.
LEMMA PlacedOnce ==
    ASSUME BatchesFit, NEW call \in PossibleCalls, NEW transaction, NEW number, NEW log,
           Len(log) \in Nat, NEW transfers, Succeeds(call, transfers), NEW t,
           NEW e \in PlacedEvents(call, transaction, number, log), About(e, t)
    PROVE  /\ StatusOf(e) = call.status
           /\ t \in ToSet(call.ids)
           /\ IsNew(e) <=> call.status = "NEW"
           /\ \A f \in PlacedEvents(call, transaction, number, log) : About(f, t) => f = e
<1>1. ~(IsNew(e) /\ IsUpdate(e)) /\ ~(IsNew(e) /\ IsBatch(e)) /\ ~(IsUpdate(e) /\ IsBatch(e))
      /\ (IsNew(e) \/ IsUpdate(e)) /\ e.args.id = t
  BY DEF IsNew, IsUpdate, IsBatch, About
<1>2. 1 \in DOMAIN call.ids
  BY ArgsOfCall
<1>3. /\ StatusOf(e) = call.status
      /\ IsNew(e) <=> call.status = "NEW"
      /\ \E i \in DOMAIN call.ids :
            /\ call.ids[i] = t
            /\ e.log = Len(log) + (IF call.status = "SENDING" THEN i + 1 ELSE i)
  BY <1>1, <1>2, PlacedSay DEF StatusOf
<1>4. PICK i \in DOMAIN call.ids :
            /\ call.ids[i] = t
            /\ e.log = Len(log) + (IF call.status = "SENDING" THEN i + 1 ELSE i)
  BY <1>3
<1>5. ASSUME NEW f \in PlacedEvents(call, transaction, number, log), About(f, t)
      PROVE  f = e
  <2>1. ~(IsNew(f) /\ IsUpdate(f)) /\ ~(IsNew(f) /\ IsBatch(f)) /\ ~(IsUpdate(f) /\ IsBatch(f))
        /\ (IsNew(f) \/ IsUpdate(f)) /\ f.args.id = t
    BY <1>5 DEF IsNew, IsUpdate, IsBatch, About
  <2>2. \E j \in DOMAIN call.ids :
            /\ call.ids[j] = t
            /\ f.log = Len(log) + (IF call.status = "SENDING" THEN j + 1 ELSE j)
    <3>1. \/ IsNew(f) /\ call.status = "NEW" /\ call.ids[1] = f.args.id /\ f.log = Len(log) + 1
          \/ IsUpdate(f)
      BY <2>1, PlacedSay
    <3>2. CASE IsUpdate(f)
      BY <2>1, <3>2, PlacedSay
    <3>3. CASE IsNew(f)
      BY <1>2, <2>1, <3>1, <3>3
    <3>4. QED
      BY <2>1, <3>2, <3>3
  <2>3. PICK j \in DOMAIN call.ids :
            /\ call.ids[j] = t
            /\ f.log = Len(log) + (IF call.status = "SENDING" THEN j + 1 ELSE j)
    BY <2>2
  <2>4. i = j
    BY <1>4, <2>3 DEF Succeeds
  <2>5. f.log = e.log
    BY <1>4, <2>3, <2>4
  <2>6. QED
    BY <2>5, PlacedSay
<1>6. QED
  BY <1>3, <1>4, <1>5 DEF ToSet

-----------------------------------------------------------------------------
(* A call of the bridge *)

\* The updates of a batch are its own.
LEMMA PlacedBatches ==
    ASSUME BatchesFit, NEW call \in PossibleCalls, NEW transaction, NEW number, NEW log,
           Len(log) \in Nat
    PROVE  BatchesOK(PlacedEvents(call, transaction, number, log))
<1> DEFINE P == PlacedEvents(call, transaction, number, log)
           k == Len(log)
<1>0. DOMAIN call.ids \subseteq Nat
  BY ArgsOfCall
<1>1. ASSUME NEW c \in P, IsBatch(c), NEW i \in DOMAIN c.args.bitcoinTxHash
      PROVE  \E e \in P : UpdateOf(c, i, e)
  <2>1. ~IsNew(c) /\ ~IsUpdate(c)
    BY <1>1 DEF IsBatch, IsNew, IsUpdate
  <2>2. call.status = "SENDING" /\ c.args.bitcoinTxHash = call.ids /\ c.log = k + 1
        /\ c.block = number /\ c.transaction = transaction
    BY <2>1, PlacedSay
  <2>3. i \in DOMAIN call.ids
    BY <1>1, <2>2
  <2>4. PICK e \in P : /\ e.block = number /\ e.transaction = transaction
                       /\ About(e, call.ids[i]) /\ StatusOf(e) = call.status
                       /\ IsUpdate(e) /\ e.log = k + (i + 1)
    BY <2>2, <2>3, PlacedExist
  <2>5. e.args.id = call.ids[i] /\ ~IsNew(e) /\ e.args.newStatus = "SENDING"
    BY <2>2, <2>4 DEF About, StatusOf, IsNew, IsUpdate
  <2> HIDE DEF k
  <2>6. k \in Nat /\ i \in Nat
    BY <1>0, <2>3 DEF k
  <2>7. e.log = c.log + i
    BY <2>2, <2>4, <2>6
  <2>8. QED
    BY <2>2, <2>4, <2>5, <2>7 DEF UpdateOf
<1>2. ASSUME NEW e \in P, IsUpdate(e), e.args.newStatus = "SENDING"
      PROVE  \E c \in P : IsBatch(c) /\ \E i \in DOMAIN c.args.bitcoinTxHash : UpdateOf(c, i, e)
  <2>1. ~IsNew(e) /\ ~IsBatch(e)
    BY <1>2 DEF IsBatch, IsNew, IsUpdate
  <2>2. call.status = "SENDING" /\ e.block = number /\ e.transaction = transaction
    BY <1>2, <2>1, PlacedSay
  <2>3. \E i \in DOMAIN call.ids :
          e.args.id = call.ids[i] /\ e.log = k + (IF call.status = "SENDING" THEN i + 1 ELSE i)
    BY <2>1, PlacedSay
  <2>4. PICK i \in DOMAIN call.ids : e.args.id = call.ids[i] /\ e.log = k + (i + 1)
    BY <2>2, <2>3
  <2>5. PICK c \in P : /\ c.block = number /\ c.transaction = transaction
                       /\ IsBatch(c) /\ c.args.bitcoinTxHash = call.ids
                       /\ c.log = k + 1
    BY <2>2, PlacedBatch
  <2> HIDE DEF k
  <2>6. k \in Nat /\ i \in Nat
    BY <1>0 DEF k
  <2>7. e.log = c.log + i
    BY <2>4, <2>5, <2>6
  <2>8. UpdateOf(c, i, e)
    BY <1>2, <2>2, <2>4, <2>5, <2>7 DEF UpdateOf
  <2>9. QED
    BY <2>5, <2>8
<1>3. QED
  BY <1>1, <1>2 DEF BatchesOK

\* What the events of a call add to earlier ones.
FollowOn(old, new, ids, status) ==
    /\ status \in Statuses
    /\ \A e \in old, f \in new : SortsBefore(e, f) /\ ~SortsBefore(f, e)
    /\ \A f \in new : ~SortsBefore(f, f)
    /\ \A f \in new : \A t : About(f, t) =>
         /\ t \in ids
         /\ StatusOf(f) = status
         /\ IsNew(f) <=> status = "NEW"
         /\ \A g \in new : About(g, t) => g = f
    /\ \A t \in ids : \E f \in new : About(f, t)
    /\ \A t \in ids : IsStatusAfter(old, t, Required(status))
    /\ \A e \in old : \A t : About(e, t) => StatusOf(e) \in Statuses

\* The status that a transfer must have, and those before, are followed by the new one.
LEMMA StatusFollows ==
    ASSUME NEW old, NEW new, NEW ids, NEW status, FollowOn(old, new, ids, status),
           NEW t \in ids
    PROVE  /\ \A e \in old : About(e, t) => <<StatusOf(e), status>> \in Follows
           /\ status # "NEW" => \E e \in old : About(e, t)
<1>1. IsStatusAfter(old, t, Required(status)) /\ status \in Statuses
      /\ \A e \in old : About(e, t) => StatusOf(e) \in Statuses
  BY DEF FollowOn
<1>2. CASE status = "NEW"
  <2>1. Required(status) = "NOT_APPLICABLE"
    BY <1>2 DEF Required
  <2>2. ~Got(old, t, "NOT_APPLICABLE")
    BY <1>1 DEF Got, Statuses
  <2>3. \A e \in old : ~About(e, t)
    BY <1>1, <2>1, <2>2 DEF IsStatusAfter
  <2>4. QED
    BY <1>2, <2>3
<1>3. CASE status = "MINED"
  <2>1. Required(status) = "SENDING"
    BY <1>3 DEF Required
  <2>2. /\ Got(old, t, "SENDING")
        /\ \A e \in old : About(e, t) =>
              StatusOf(e) = "SENDING" \/ <<StatusOf(e), "SENDING">> \in Follows
    BY <1>1, <2>1 DEF IsStatusAfter
  <2>3. \A e \in old : About(e, t) => StatusOf(e) \in {"NEW", "SENDING"}
    BY <2>2 DEF Follows
  <2>4. QED
    BY <1>3, <2>2, <2>3 DEF Got, Follows
<1>4. CASE status \notin {"NEW", "MINED"}
  <2>1. Required(status) = "NEW"
    BY <1>4 DEF Required
  <2>2. /\ Got(old, t, "NEW")
        /\ \A e \in old : About(e, t) => StatusOf(e) = "NEW" \/ <<StatusOf(e), "NEW">> \in Follows
    BY <1>1, <2>1 DEF IsStatusAfter
  <2>3. \A e \in old : About(e, t) => StatusOf(e) = "NEW"
    BY <2>2 DEF Follows
  <2>4. \A s \in Statuses \ {"NEW", "MINED"} : <<"NEW", s>> \in Follows
    BY DEF Statuses, Follows
  <2>5. QED
    BY <1>1, <1>4, <2>2, <2>3, <2>4 DEF Got
<1>5. QED
  BY <1>2, <1>3, <1>4

\* So they keep their order,
LEMMA FollowKept ==
    ASSUME NEW old, NEW new, NEW ids, NEW status, FollowOn(old, new, ids, status),
           EventsFollow(old)
    PROVE  EventsFollow(old \cup new)
<1>1. ASSUME NEW e \in old \cup new, NEW f \in old \cup new, SortsBefore(e, f),
             NEW t \in Transfers, About(e, t), About(f, t)
      PROVE  <<StatusOf(e), StatusOf(f)>> \in Follows
  <2>1. CASE e \in old /\ f \in old
    BY <1>1, <2>1 DEF EventsFollow
  <2>2. CASE e \in old /\ f \in new
    <3>1. t \in ids /\ StatusOf(f) = status
      BY <1>1, <2>2 DEF FollowOn
    <3>2. QED
      BY <1>1, <2>2, <3>1, StatusFollows
  <2>3. CASE e \in new /\ f \in old
    BY <1>1, <2>3 DEF FollowOn
  <2>4. CASE e \in new /\ f \in new
    <3>1. e = f
      BY <1>1, <2>4 DEF FollowOn
    <3>2. QED
      BY <1>1, <2>4, <3>1 DEF FollowOn
  <2>5. QED
    BY <1>1, <2>1, <2>2, <2>3, <2>4
<1>2. ASSUME NEW e \in old \cup new, NEW t \in Transfers, About(e, t), ~IsNew(e)
      PROVE  \E f \in old \cup new : SortsBefore(f, e) /\ About(f, t)
  <2>1. CASE e \in old
    BY <1>2, <2>1 DEF EventsFollow
  <2>2. CASE e \in new
    <3>1. t \in ids /\ status # "NEW"
      BY <1>2, <2>2 DEF FollowOn
    <3>2. PICK f \in old : About(f, t)
      BY <3>1, StatusFollows
    <3>3. QED
      BY <2>2, <3>2 DEF FollowOn
  <2>3. QED
    BY <2>1, <2>2
<1>3. QED
  BY <1>1, <1>2 DEF EventsFollow

\* and the transfers get the status, and the batch its hash.
LEMMA StatusAfterCall ==
    ASSUME NEW old, NEW new, NEW ids, NEW status, FollowOn(old, new, ids, status),
           NEW t, NEW s, IsStatusAfter(old, t, s)
    PROVE  IsStatusAfter(old \cup new, t, IF t \in ids THEN status ELSE s)
<1>1. CASE t \in ids
  <2>1. PICK f \in new : About(f, t)
    BY <1>1 DEF FollowOn
  <2>2. StatusOf(f) = status
    BY <2>1 DEF FollowOn
  <2>3. \A e \in old \cup new :
          About(e, t) => StatusOf(e) = status \/ <<StatusOf(e), status>> \in Follows
    <3>1. \A e \in new : About(e, t) => StatusOf(e) = status
      BY DEF FollowOn
    <3>2. QED
      BY <1>1, <3>1, StatusFollows
  <2>4. QED
    BY <1>1, <2>1, <2>2, <2>3 DEF IsStatusAfter, Got
<1>2. CASE t \notin ids
  <2>1. \A f \in new : ~About(f, t)
    BY <1>2 DEF FollowOn
  <2>2. QED
    BY <1>2, <2>1 DEF IsStatusAfter, Got
<1>3. QED
  BY <1>1, <1>2

LEMMA HashAfterCall ==
    ASSUME NEW old, NEW new, NEW ids, NEW status, FollowOn(old, new, ids, status),
           NEW t, NEW hash, NEW h, IsHashAfter(old, t, h),
           status = "SENDING" => \E c \in new : IsBatch(c) /\ c.args.bitcoinTxHash = hash,
           t \in ids => t \in ToSet(hash)
    PROVE  IsHashAfter(old \cup new, t,
                       IF t \notin ids THEN h ELSE IF status = "SENDING" THEN hash ELSE h)
<1>1. CASE t \in ids /\ status = "SENDING"
  <2>1. PICK f \in new : About(f, t) /\ StatusOf(f) = "SENDING"
    BY <1>1 DEF FollowOn
  <2>2. Got(old \cup new, t, "SENDING")
    BY <2>1 DEF Got
  <2>3. QED
    BY <1>1, <2>2 DEF IsHashAfter, Announces
<1>2. CASE ~(t \in ids /\ status = "SENDING")
  <2>1. \A f \in new : ~(About(f, t) /\ StatusOf(f) = "SENDING")
    BY <1>2 DEF FollowOn
  <2>2. Got(old \cup new, t, "SENDING") <=> Got(old, t, "SENDING")
    BY <2>1 DEF Got
  <2>3. QED
    BY <1>2, <2>2 DEF IsHashAfter
<1>3. QED
  BY <1>1, <1>2

\* Sequences.
LEMMA FunctionIsSeq ==
    ASSUME NEW n \in Nat, NEW S, NEW f \in [1 .. n -> S]
    PROVE  f \in Seq(S) /\ Len(f) = n
OBVIOUS

LEMMA ConcatenatedSeq ==
    ASSUME NEW S, NEW s \in Seq(S), NEW t \in Seq(S)
    PROVE  /\ s \o t \in Seq(S) /\ Len(s \o t) = Len(s) + Len(t)
           /\ DOMAIN (s \o t) = 1 .. Len(s) + Len(t)
           /\ \A i \in 1 .. Len(s) + Len(t) :
                 (s \o t)[i] = IF i <= Len(s) THEN s[i] ELSE t[i - Len(s)]
OBVIOUS

\* The log of the last block after a call.
LEMMA LogAfterCall ==
    ASSUME BatchesFit, NEW call \in PossibleCalls, NEW transaction, NEW number,
           NEW log, Len(log) \in Nat, DOMAIN log = 1 .. Len(log), log \in Seq(ToSet(log))
    PROVE  LET after == log \o Placed(call, transaction, number, log)
               P == PlacedEvents(call, transaction, number, log)
           IN  /\ Len(after) \in Nat /\ DOMAIN after = 1 .. Len(after)
               /\ after \in Seq(ToSet(after))
               /\ \A i \in DOMAIN after :
                     \/ i \in DOMAIN log /\ after[i] = log[i]
                     \/ after[i] \in P /\ after[i].log = i
               /\ ToSet(after) = ToSet(log) \cup P
<1> DEFINE after == log \o Placed(call, transaction, number, log)
           placed == Placed(call, transaction, number, log)
           P == PlacedEvents(call, transaction, number, log)
           k == Len(log)
           m == Len(EventsOf(call))
           S == ToSet(log) \cup P
<1>1. k \in Nat /\ DOMAIN log = 1 .. k
  OBVIOUS
<1>2. m \in Nat
  BY ArgsOfCall
<1>3. Len(placed) = m /\ DOMAIN placed = 1 .. m /\ placed \in Seq(P)
  BY PlacedIn
<1>4. \A i \in 1 .. m : placed[i].log = k + i /\ placed[i] \in P
  <2>1. \A i \in 1 .. m : placed[i] = [block |-> number, transaction |-> transaction,
                                       log |-> k + i, args |-> EventsOf(call)[i]]
    BY PlacedIn DEF m, placed
  <2> HIDE DEF k
  <2>2. \A i \in 1 .. m : placed[i].log = k + i
    <3> TAKE i \in 1 .. m
    <3>1. placed[i] = [block |-> number, transaction |-> transaction,
                       log |-> k + i, args |-> EventsOf(call)[i]]
      BY <2>1
    <3>2. QED
      BY <3>1
  <2>3. \A i \in 1 .. m : placed[i] \in P
    BY <1>3 DEF PlacedEvents, ToSet
  <2>4. QED
    BY <2>2, <2>3
<1>5. log \in Seq(S) /\ placed \in Seq(S)
  BY <1>3
<1>6. after = log \o placed
  OBVIOUS
<1> HIDE DEF placed, P, m, S, after
<1>7. /\ Len(after) = k + m /\ DOMAIN after = 1 .. k + m
      /\ \A i \in 1 .. k + m : after[i] = IF i <= k THEN log[i] ELSE placed[i - k]
      /\ after \in Seq(S)
  <2>1. /\ log \o placed \in Seq(S) /\ Len(log \o placed) = Len(log) + Len(placed)
        /\ DOMAIN (log \o placed) = 1 .. Len(log) + Len(placed)
        /\ \A i \in 1 .. Len(log) + Len(placed) :
              (log \o placed)[i] = IF i <= Len(log) THEN log[i] ELSE placed[i - Len(log)]
    BY <1>5, ConcatenatedSeq
  <2>2. QED
    BY <1>3, <1>6, <2>1
<1> HIDE DEF k
<1> USE DEF S
<1>8. ASSUME NEW i \in DOMAIN after
      PROVE  \/ i \in DOMAIN log /\ after[i] = log[i]
             \/ after[i] \in P /\ after[i].log = i
  <2>1. CASE i <= k
    BY <1>1, <1>2, <1>7, <2>1
  <2>2. CASE ~(i <= k)
    <3>1. i - k \in 1 .. m /\ k + (i - k) = i
      BY <1>1, <1>2, <1>7, <2>2
    <3>2. QED
      BY <1>4, <1>7, <2>2, <3>1
  <2>3. QED
    BY <2>1, <2>2
<1>9. ASSUME NEW e \in S
      PROVE  e \in ToSet(after)
  <2>1. CASE e \in ToSet(log)
    <3>1. PICK i \in 1 .. k : e = log[i]
      BY <1>1, <2>1 DEF ToSet
    <3>2. i \in 1 .. k + m /\ i <= k
      BY <1>1, <1>2, <3>1
    <3>3. QED
      BY <1>7, <3>1, <3>2 DEF ToSet
  <2>2. CASE e \in P
    <3>1. PICK i \in 1 .. m : e = placed[i]
      BY <1>3, <2>2 DEF ToSet, P, placed, PlacedEvents
    <3>2. k + i \in 1 .. k + m /\ ~(k + i <= k) /\ (k + i) - k = i
      BY <1>1, <1>2, <3>1
    <3>3. after[k + i] = placed[i]
      BY <1>7, <3>2
    <3>4. QED
      BY <1>7, <3>1, <3>2, <3>3 DEF ToSet
  <2>3. QED
    BY <2>1, <2>2
<1>10. ToSet(after) \subseteq S
  BY <1>8 DEF ToSet
<1>11. ToSet(after) = S
  BY <1>9, <1>10
<1>12. Len(after) \in Nat /\ DOMAIN after = 1 .. Len(after)
  BY <1>1, <1>2, <1>7
<1>13. QED
  BY <1>7, <1>8, <1>11, <1>12 DEF P, after

\* The events of a call follow those that there are.
LEMMA CallFollows ==
    ASSUME BatchesFit, NEW chain, ChainInv(chain), NEW call \in PossibleCalls, NEW transaction,
           Succeeds(call, chain[Len(chain)].transfers)
    PROVE  FollowOn(AllEvents(chain),
                    PlacedEvents(call, transaction, Len(chain), chain[Len(chain)].log),
                    ToSet(call.ids), call.status)
<1> DEFINE n == Len(chain)
           log == chain[n].log
           P == PlacedEvents(call, transaction, n, log)
           old == AllEvents(chain)
<1>1. BlocksTypeOK(chain) /\ LogsOK(chain) /\ TransfersOK(chain)
  BY DEF ChainInv
<1>2. n \in Nat /\ n >= 1 /\ DOMAIN chain = 1 .. n /\ n \in DOMAIN chain
  BY <1>1, ScannerAssumption DEF BlocksTypeOK
<1>3. Len(log) \in Nat /\ DOMAIN log = 1 .. Len(log)
  BY <1>1, <1>2 DEF BlocksTypeOK
<1>4. call.status \in Statuses /\ call.ids \in Seq(Transfers) \ {<<>>}
  BY ArgsOfCall
<1>5. ASSUME NEW e \in old
      PROVE  e.block \in Nat /\ e.log \in Nat /\ e.block <= n /\ (e.block = n => e.log <= Len(log))
  <2>1. e.block \in 1 .. n /\ e.log \in DOMAIN chain[e.block].log
    BY <1>1, <1>2, Places
  <2>2. e.block = n => e.log \in 1 .. Len(log)
    BY <1>3, <2>1
  <2>3. e.block \in Nat /\ e.log \in Nat
    BY <1>1, Places
  <2> HIDE DEF n, log
  <2>4. QED
    BY <1>2, <1>3, <2>1, <2>2, <2>3
<1>6. ASSUME NEW f \in P
      PROVE  f.block = n /\ f.log \in Nat /\ f.log > Len(log)
  BY <1>3, PlacedSay
<1>7. ASSUME NEW e \in old, NEW f \in P
      PROVE  SortsBefore(e, f) /\ ~SortsBefore(f, e)
  <2> HIDE DEF n, log, P, old
  <2>1. QED
    BY <1>2, <1>3, <1>5, <1>6 DEF SortsBefore
<1>8. ASSUME NEW f \in P
      PROVE  ~SortsBefore(f, f)
  <2> HIDE DEF n, log, P, old
  <2>1. QED
    BY <1>2, <1>6 DEF SortsBefore
<1>9. ASSUME NEW f \in P, NEW t, About(f, t)
      PROVE  /\ t \in ToSet(call.ids)
             /\ StatusOf(f) = call.status
             /\ IsNew(f) <=> call.status = "NEW"
             /\ \A g \in P : About(g, t) => g = f
  BY <1>3, <1>9, PlacedOnce
<1>10. ASSUME NEW t \in ToSet(call.ids)
       PROVE  \E f \in P : About(f, t)
  <2>1. PICK i \in DOMAIN call.ids : t = call.ids[i]
    BY DEF ToSet
  <2>2. QED
    BY <1>3, <2>1, PlacedExist
<1>11. ASSUME NEW t \in ToSet(call.ids)
       PROVE  IsStatusAfter(old, t, Required(call.status))
  <2>1. t \in Transfers
    BY <1>4 DEF ToSet
  <2>2. IsStatusAfter(old, t, chain[n].transfers[t].status)
    BY <1>1, <1>2, <2>1 DEF TransfersOK, AllEvents
  <2>3. chain[n].transfers[t].status = Required(call.status)
    BY DEF Succeeds
  <2>4. QED
    BY <2>2, <2>3
<1>12. ASSUME NEW e \in old, NEW t, About(e, t)
       PROVE  StatusOf(e) \in Statuses
  <2>1. EventTypeOK(e)
    BY <1>1, Places
  <2>2. QED
    BY <1>12, <2>1 DEF EventTypeOK, About, StatusOf, Statuses, IsNew, IsUpdate, IsBatch
<1> HIDE DEF n, log, P, old
<1>13. FollowOn(old, P, ToSet(call.ids), call.status)
  BY <1>4, <1>7, <1>8, <1>9, <1>10, <1>11, <1>12 DEF FollowOn
<1>14. QED
  BY <1>13 DEF n, log, P, old

CallOn(chain, new, call, transaction) ==
    new = [chain EXCEPT ![Len(chain)] = BlockAfter(call, transaction, Len(chain), @)]

\* What a call does to the chain.
LEMMA CallChanges ==
    ASSUME BatchesFit, NEW chain, ChainInv(chain), NEW call \in PossibleCalls,
           NEW transaction \in Nat, Succeeds(call, chain[Len(chain)].transfers),
           NEW new, CallOn(chain, new, call, transaction)
    PROVE  /\ Len(new) = Len(chain)
           /\ BlocksTypeOK(new) /\ LogsOK(new)
           /\ \A b \in Int : b < Len(chain) =>
                 /\ EventsUpTo(new, b) = EventsUpTo(chain, b)
                 /\ b \in DOMAIN chain => new[b] = chain[b]
           /\ AllEvents(new) = AllEvents(chain) \cup
                PlacedEvents(call, transaction, Len(chain), chain[Len(chain)].log)
           /\ new[Len(chain)].transfers = TransfersAfter(call, chain[Len(chain)].transfers)
<1> DEFINE n == Len(chain)
           log == chain[n].log
           P == PlacedEvents(call, transaction, n, log)
           block == BlockAfter(call, transaction, n, chain[n])
<1>1. BlocksTypeOK(chain) /\ LogsOK(chain)
  BY DEF ChainInv
<1>2. n \in Nat /\ n >= 1 /\ n >= StartBlock /\ DOMAIN chain = 1 .. n /\ n \in DOMAIN chain
      /\ StartBlock \in Nat
  BY <1>1, ScannerAssumption DEF BlocksTypeOK
<1>3. Len(log) \in Nat /\ DOMAIN log = 1 .. Len(log) /\ log \in Seq(ToSet(log))
  BY <1>1, <1>2 DEF BlocksTypeOK
<1>4. /\ block.transactions = transaction
      /\ block.log = log \o Placed(call, transaction, n, log)
      /\ block.transfers = TransfersAfter(call, chain[n].transfers)
  BY DEF BlockAfter
<1>5. /\ Len(block.log) \in Nat /\ DOMAIN block.log = 1 .. Len(block.log)
      /\ block.log \in Seq(ToSet(block.log))
      /\ \A i \in DOMAIN block.log :
            \/ i \in DOMAIN log /\ block.log[i] = log[i]
            \/ block.log[i] \in P /\ block.log[i].log = i
      /\ ToSet(block.log) = ToSet(log) \cup P
  <2> DEFINE after == log \o Placed(call, transaction, n, log)
  <2>1. block.log = after
    BY <1>4
  <2> HIDE DEF n, log, block
  <2>2. /\ Len(after) \in Nat /\ DOMAIN after = 1 .. Len(after)
        /\ after \in Seq(ToSet(after))
        /\ \A i \in DOMAIN after :
              \/ i \in DOMAIN log /\ after[i] = log[i]
              \/ after[i] \in P /\ after[i].log = i
        /\ ToSet(after) = ToSet(log) \cup P
    BY <1>3, LogAfterCall
  <2> HIDE DEF after
  <2>3. QED
    BY <2>1, <2>2
<1> HIDE DEF n, log, block
<1>6. /\ DOMAIN new = 1 .. n /\ new[n] = block
      /\ \A b \in 1 .. n : b # n => new[b] = chain[b]
  BY <1>2 DEF CallOn, n, block
<1>7. new \in Seq(ToSet(new)) /\ Len(new) = n
  <2>1. new \in [1 .. n -> ToSet(new)]
    <3>1. new = [b \in 1 .. n |-> new[b]]
      BY <1>2 DEF CallOn, n
    <3>2. \A b \in 1 .. n : new[b] \in ToSet(new)
      BY <1>6 DEF ToSet
    <3>3. QED
      BY <3>1, <3>2
  <2>2. QED
    BY <1>2, <2>1, FunctionIsSeq
<1> HIDE DEF P
<1>8. BlocksTypeOK(new)
  <2>1. ASSUME NEW b \in 1 .. n
        PROVE  /\ new[b].transactions \in Nat
               /\ new[b].log \in Seq(ToSet(new[b].log))
               /\ Len(new[b].log) \in Nat /\ DOMAIN new[b].log = 1 .. Len(new[b].log)
               /\ new[b].transfers = [t \in Transfers |->
                                        [status |-> new[b].transfers[t].status,
                                         hash |-> new[b].transfers[t].hash]]
    <3>1. chain[b].transfers = [t \in Transfers |->
                                  [status |-> chain[b].transfers[t].status,
                                   hash |-> chain[b].transfers[t].hash]]
      BY <1>1, <1>2 DEF BlocksTypeOK
    <3>2. CASE b # n
      BY <1>1, <1>2, <1>6, <3>2 DEF BlocksTypeOK
    <3>3. CASE b = n
      <4>1. new[b].transfers = TransfersAfter(call, chain[n].transfers)
        BY <1>4, <1>6, <3>3
      <4>2. \A t \in Transfers :
              TransfersAfter(call, chain[n].transfers)[t] =
                IF t \notin ToSet(call.ids) THEN chain[n].transfers[t]
                ELSE [status |-> call.status,
                      hash |-> IF call.status = "SENDING" THEN call.ids
                               ELSE chain[n].transfers[t].hash]
        BY DEF TransfersAfter
      <4>3. \A t \in Transfers :
              TransfersAfter(call, chain[n].transfers)[t] =
                [status |-> TransfersAfter(call, chain[n].transfers)[t].status,
                 hash |-> TransfersAfter(call, chain[n].transfers)[t].hash]
        <5> TAKE t \in Transfers
        <5>1. chain[n].transfers[t] = [status |-> chain[n].transfers[t].status,
                                       hash |-> chain[n].transfers[t].hash]
          BY <3>1, <3>3
        <5>2. CASE t \notin ToSet(call.ids)
          BY <4>2, <5>1, <5>2
        <5>3. CASE t \in ToSet(call.ids)
          <6> DEFINE h == IF call.status = "SENDING" THEN call.ids ELSE chain[n].transfers[t].hash
          <6>1. TransfersAfter(call, chain[n].transfers)[t] = [status |-> call.status, hash |-> h]
            BY <4>2, <5>3
          <6> HIDE DEF h
          <6>2. QED
            BY <6>1
        <5>4. QED
          BY <5>2, <5>3
      <4>4. TransfersAfter(call, chain[n].transfers) =
              [t \in Transfers |-> TransfersAfter(call, chain[n].transfers)[t]]
        BY DEF TransfersAfter
      <4>5. new[b].transfers = [t \in Transfers |->
                                  [status |-> new[b].transfers[t].status,
                                   hash |-> new[b].transfers[t].hash]]
        BY <4>1, <4>3, <4>4
      <4>6. QED
        BY <1>4, <1>5, <1>6, <3>3, <4>5
    <3>4. QED
      BY <3>2, <3>3
  <2>2. ASSUME NEW b \in 1 .. StartBlock - 1
        PROVE  new[b].log = <<>>
    <3>1. b # n /\ b \in 1 .. n
      BY <1>2
    <3>2. QED
      BY <1>1, <1>6, <3>1 DEF BlocksTypeOK
  <2>3. QED
    BY <1>2, <1>6, <1>7, <2>1, <2>2 DEF BlocksTypeOK
<1>9. LogsOK(new)
  <2>1. ASSUME NEW b \in 1 .. n, NEW i \in DOMAIN new[b].log
        PROVE  LET e == new[b].log[i] IN e.block = b /\ e.log = i /\ EventTypeOK(e)
    <3>1. CASE b # n
      BY <1>1, <1>2, <1>6, <2>1, <3>1 DEF LogsOK
    <3>2. CASE b = n /\ i \in DOMAIN log /\ block.log[i] = log[i]
      BY <1>1, <1>2, <1>6, <2>1, <3>2 DEF LogsOK, log
    <3>3. CASE b = n /\ block.log[i] \in P /\ block.log[i].log = i
      <4>1. block.log[i].block = n /\ EventTypeOK(block.log[i])
        BY <1>3, <3>3, PlacedSay DEF P
      <4>2. QED
        BY <1>6, <3>3, <4>1
    <3>4. QED
      BY <1>5, <1>6, <3>1, <3>2, <3>3
  <2>2. QED
    BY <1>6, <2>1 DEF LogsOK
<1>10. ASSUME NEW b \in Int, b < n
       PROVE  EventsUpTo(new, b) = EventsUpTo(chain, b)
  <2>1. \A c \in 1 .. b : new[c].log = chain[c].log
    BY <1>2, <1>6, <1>10
  <2>2. QED
    BY <2>1 DEF EventsUpTo
<1>11. AllEvents(new) = AllEvents(chain) \cup P
  <2>1. ASSUME NEW e
        PROVE  e \in EventsUpTo(new, n) <=> e \in EventsUpTo(chain, n) \/ e \in P
    <3>1. e \in EventsUpTo(new, n) <=> \E b \in 1 .. n : e \in ToSet(new[b].log)
      BY DEF EventsUpTo
    <3>2. e \in EventsUpTo(chain, n) <=> \E b \in 1 .. n : e \in ToSet(chain[b].log)
      BY DEF EventsUpTo
    <3>3. \A b \in 1 .. n : e \in ToSet(new[b].log) <=>
             e \in ToSet(chain[b].log) \/ (b = n /\ e \in P)
      BY <1>5, <1>6 DEF log
    <3>4. n \in 1 .. n
      BY <1>2
    <3>5. QED
      BY <3>1, <3>2, <3>3, <3>4
  <2>2. QED
    BY <1>7, <2>1 DEF AllEvents, n
<1>12. new[n].transfers = TransfersAfter(call, chain[n].transfers)
  BY <1>4, <1>6
<1>13. \A b \in Int : b < n /\ b \in DOMAIN chain => new[b] = chain[b]
  BY <1>2, <1>6
<1>14. QED
  BY <1>7, <1>8, <1>9, <1>10, <1>11, <1>12, <1>13 DEF n, log, P

\* The blocks that have their confirmations, and those before the contract, stay.
Keeps(chain, new) ==
    /\ Len(new) >= Len(chain)
    /\ \A b \in Int : b <= Len(chain) - 1 - RequiredConfirmations \/ b <= StartBlock - 1 =>
          /\ EventsUpTo(new, b) = EventsUpTo(chain, b)
          /\ b \in DOMAIN chain => new[b].transfers = chain[b].transfers

LEMMA CallKeepsChain ==
    ASSUME BatchesFit, NEW chain, ChainInv(chain), NEW call \in PossibleCalls,
           NEW transaction \in Nat, Succeeds(call, chain[Len(chain)].transfers),
           NEW new, CallOn(chain, new, call, transaction)
    PROVE  ChainInv(new) /\ Keeps(chain, new)
<1> DEFINE n == Len(chain)
           P == PlacedEvents(call, transaction, n, chain[n].log)
           old == AllEvents(chain)
           ids == ToSet(call.ids)
           status == call.status
<1>1. BlocksTypeOK(chain) /\ LogsOK(chain) /\ EventsFollow(old) /\ BatchesOK(old)
      /\ TransfersOK(chain)
  BY DEF ChainInv
<1>2. n \in Nat /\ n >= StartBlock /\ DOMAIN chain = 1 .. n /\ n \in DOMAIN chain
      /\ Len(chain[n].log) \in Nat
  BY <1>1, ScannerAssumption DEF BlocksTypeOK
<1>3. /\ Len(new) = n
      /\ BlocksTypeOK(new) /\ LogsOK(new)
      /\ \A b \in Int : b < n =>
            /\ EventsUpTo(new, b) = EventsUpTo(chain, b)
            /\ b \in DOMAIN chain => new[b] = chain[b]
      /\ AllEvents(new) = old \cup P
      /\ new[n].transfers = TransfersAfter(call, chain[n].transfers)
  BY CallChanges
<1>4. FollowOn(old, P, ids, status)
  BY CallFollows
<1>5. BatchesOK(P)
  BY <1>2, PlacedBatches
<1>6. status = "SENDING" => \E c \in P : IsBatch(c) /\ c.args.bitcoinTxHash = call.ids
  BY <1>2, PlacedBatch
<1>7. StartBlock \in Nat /\ RequiredConfirmations \in Nat
  BY ScannerAssumption
<1>8. old = EventsUpTo(chain, n) /\ AllEvents(new) = EventsUpTo(new, n)
  BY <1>3 DEF AllEvents
<1> HIDE DEF n, P, old, ids, status
<1>9. EventsFollow(AllEvents(new))
  BY <1>1, <1>3, <1>4, FollowKept
<1>10. BatchesOK(AllEvents(new))
  <2>1. BatchesOK(old \cup P)
    BY <1>1, <1>5 DEF BatchesOK
  <2>2. QED
    BY <1>3, <2>1
<1>11. TransfersOK(new)
  <2>1. ASSUME NEW b \in 1 .. n, NEW t \in Transfers
        PROVE  /\ IsStatusAfter(EventsUpTo(new, b), t, new[b].transfers[t].status)
               /\ IsHashAfter(EventsUpTo(new, b), t, new[b].transfers[t].hash)
    <3>1. /\ IsStatusAfter(EventsUpTo(chain, b), t, chain[b].transfers[t].status)
          /\ IsHashAfter(EventsUpTo(chain, b), t, chain[b].transfers[t].hash)
      BY <1>1, <1>2 DEF TransfersOK
    <3>2. CASE b # n
      <4>1. b \in Int /\ b < n /\ b \in DOMAIN chain
        BY <1>2, <3>2
      <4>2. QED
        BY <1>3, <3>1, <4>1
    <3>3. CASE b = n
      <4>1. new[n].transfers[t] = IF t \notin ids THEN chain[n].transfers[t]
                                  ELSE [status |-> status,
                                        hash |-> IF status = "SENDING" THEN call.ids
                                                 ELSE chain[n].transfers[t].hash]
        BY <1>3 DEF TransfersAfter, ids, status
      <4> DEFINE s == chain[n].transfers[t].status
                 h == chain[n].transfers[t].hash
      <4>2. new[n].transfers[t].status = IF t \in ids THEN status ELSE s
        BY <4>1
      <4>3. new[n].transfers[t].hash =
              IF t \notin ids THEN h ELSE IF status = "SENDING" THEN call.ids ELSE h
        <5>1. CASE t \notin ids
          BY <4>1, <5>1
        <5>2. CASE t \in ids
          <6> DEFINE g == IF status = "SENDING" THEN call.ids ELSE h
          <6>1. new[n].transfers[t] = [status |-> status, hash |-> g]
            BY <4>1, <5>2
          <6> HIDE DEF g
          <6>2. new[n].transfers[t].hash = g
            BY <6>1
          <6>3. QED
            BY <5>2, <6>2 DEF g
        <5>3. QED
          BY <5>1, <5>2
      <4> HIDE DEF s, h
      <4>4. IsStatusAfter(old, t, s) /\ IsHashAfter(old, t, h)
        BY <1>8, <3>1, <3>3 DEF s, h
      <4>5. IsStatusAfter(old \cup P, t, IF t \in ids THEN status ELSE s)
        BY <1>4, <4>4, StatusAfterCall
      <4>6. IsHashAfter(old \cup P, t,
                        IF t \notin ids THEN h ELSE IF status = "SENDING" THEN call.ids ELSE h)
        BY <1>4, <1>6, <4>4, HashAfterCall DEF ids
      <4>7. EventsUpTo(new, b) = old \cup P
        BY <1>3, <1>8, <3>3
      <4>8. QED
        BY <3>3, <4>2, <4>3, <4>5, <4>6, <4>7
    <3>4. QED
      BY <3>2, <3>3
  <2>2. DOMAIN new = 1 .. n
    BY <1>3 DEF BlocksTypeOK
  <2>3. QED
    BY <2>1, <2>2 DEF TransfersOK
<1>12. Keeps(chain, new)
  <2>1. ASSUME NEW b \in Int, b <= n - 1 - RequiredConfirmations \/ b <= StartBlock - 1
        PROVE  b < n
    BY <1>2, <1>7, <2>1
  <2>2. \A b \in Int : b < n =>
            /\ EventsUpTo(new, b) = EventsUpTo(chain, b)
            /\ b \in DOMAIN chain => new[b].transfers = chain[b].transfers
    BY <1>3
  <2>3. Len(new) >= n
    BY <1>2, <1>3
  <2>4. QED
    BY <2>1, <2>2, <2>3 DEF Keeps, n
<1>13. QED
  BY <1>3, <1>9, <1>10, <1>11, <1>12 DEF ChainInv

-----------------------------------------------------------------------------
(* Other blocks *)

\* Nothing is said before the contract.
LEMMA NothingBeforeStart ==
    ASSUME NEW chain, BlocksTypeOK(chain), NEW b \in Int, b <= StartBlock - 1
    PROVE  EventsUpTo(chain, b) = {}
<1>1. \A c \in 1 .. b : c \in 1 .. StartBlock - 1
  BY ScannerAssumption
<1>2. \A c \in 1 .. b : chain[c].log = <<>>
  BY <1>1 DEF BlocksTypeOK
<1>3. ToSet(<<>>) = {}
  BY DEF ToSet
<1>4. ASSUME NEW e \in EventsUpTo(chain, b)
      PROVE  FALSE
  BY <1>2, <1>3 DEF EventsUpTo
<1>5. QED
  BY <1>4

LEMMA TransfersBeforeStart ==
    ASSUME NEW chain, ChainInv(chain), NEW b \in DOMAIN chain, b <= StartBlock - 1,
           NEW t \in Transfers
    PROVE  chain[b].transfers[t] = [status |-> "NOT_APPLICABLE", hash |-> NoHash]
<1>1. BlocksTypeOK(chain) /\ TransfersOK(chain) /\ b \in Int
  BY DEF ChainInv, BlocksTypeOK
<1>2. EventsUpTo(chain, b) = {}
  BY <1>1, NothingBeforeStart
<1>3. chain[b].transfers[t].status = "NOT_APPLICABLE"
  BY <1>1, <1>2 DEF TransfersOK, IsStatusAfter, Got
<1>4. chain[b].transfers[t].hash = NoHash
  BY <1>1, <1>2 DEF TransfersOK, IsHashAfter, Got
<1>5. chain[b].transfers[t] = [status |-> chain[b].transfers[t].status,
                               hash |-> chain[b].transfers[t].hash]
  BY <1>1 DEF BlocksTypeOK
<1>6. QED
  BY <1>3, <1>4, <1>5

\* Blocks are added after b, or take the place of those.
EmptyAfter(chain, new, b) ==
    /\ new \in Seq(ToSet(new))
    /\ Len(new) \in Nat /\ Len(new) >= Len(chain) /\ DOMAIN new = 1 .. Len(new)
    /\ \A i \in 1 .. b : new[i] = chain[i]
    /\ \A i \in 1 .. Len(new) : i > b => new[i] = EmptyBlock(chain[b].transfers)

\* What the events say is so for those of the first blocks, too.
LEMMA FirstEvents ==
    ASSUME NEW chain, ChainInv(chain), NEW b \in DOMAIN chain
    PROVE  EventsFollow(EventsUpTo(chain, b)) /\ BatchesOK(EventsUpTo(chain, b))
<1> DEFINE E == EventsUpTo(chain, b)
           A == AllEvents(chain)
<1>1. BlocksTypeOK(chain) /\ LogsOK(chain) /\ EventsFollow(A) /\ BatchesOK(A)
  BY DEF ChainInv
<1>2. b \in Nat /\ b <= Len(chain)
  BY <1>1 DEF BlocksTypeOK
<1>3. E = {e \in A : e.block \in 1 .. b}
  BY <1>1, <1>2, EventsUpToByBlock
<1>4. \A e \in A : e.block \in Nat /\ e.block >= 1
  <2> TAKE e \in A
  <2>1. e.block \in DOMAIN chain /\ e.block \in Nat
    BY <1>1, Places
  <2>2. QED
    BY <1>1, <2>1 DEF BlocksTypeOK
<1> HIDE DEF E, A
<1>5. EventsFollow(E)
  <2>1. ASSUME NEW e \in E, NEW f \in A, SortsBefore(f, e)
        PROVE  f \in E
    BY <1>2, <1>3, <1>4, <2>1 DEF SortsBefore
  <2>2. ASSUME NEW e \in E, NEW t \in Transfers, About(e, t), ~IsNew(e)
        PROVE  \E f \in E : SortsBefore(f, e) /\ About(f, t)
    <3>1. PICK f \in A : SortsBefore(f, e) /\ About(f, t)
      BY <1>1, <1>3, <2>2 DEF EventsFollow
    <3>2. QED
      BY <2>1, <3>1
  <2>3. QED
    BY <1>1, <1>3, <2>2 DEF EventsFollow
<1>6. BatchesOK(E)
  <2>1. ASSUME NEW c \in E, IsBatch(c), NEW i \in DOMAIN c.args.bitcoinTxHash
        PROVE  \E e \in E : UpdateOf(c, i, e)
    <3>1. PICK e \in A : UpdateOf(c, i, e)
      BY <1>1, <1>3, <2>1 DEF BatchesOK
    <3>2. QED
      BY <1>3, <3>1 DEF UpdateOf
  <2>2. ASSUME NEW e \in E, IsUpdate(e), e.args.newStatus = "SENDING"
        PROVE  \E c \in E : IsBatch(c) /\ \E i \in DOMAIN c.args.bitcoinTxHash : UpdateOf(c, i, e)
    <3>1. PICK c \in A : IsBatch(c) /\ \E i \in DOMAIN c.args.bitcoinTxHash : UpdateOf(c, i, e)
      BY <1>1, <1>3, <2>2 DEF BatchesOK
    <3>2. c \in E
      BY <1>3, <3>1 DEF UpdateOf
    <3>3. QED
      BY <3>1, <3>2
  <2>3. QED
    BY <2>1, <2>2 DEF BatchesOK
<1>7. QED
  BY <1>5, <1>6 DEF E

LEMMA EmptyBlocksKeepChain ==
    ASSUME NEW chain, ChainInv(chain), NEW b \in DOMAIN chain, NEW new,
           EmptyAfter(chain, new, b), b >= Len(chain) - 1 - RequiredConfirmations
    PROVE  ChainInv(new) /\ Keeps(chain, new)
<1> DEFINE n == Len(chain)
           m == Len(new)
<1>1. BlocksTypeOK(chain) /\ LogsOK(chain) /\ TransfersOK(chain)
  BY DEF ChainInv
<1>2. n \in Nat /\ n >= StartBlock /\ DOMAIN chain = 1 .. n /\ StartBlock \in Nat
      /\ RequiredConfirmations \in Nat
  BY <1>1, ScannerAssumption DEF BlocksTypeOK
<1>3. m \in Nat /\ m >= n /\ DOMAIN new = 1 .. m /\ new \in Seq(ToSet(new))
  BY DEF EmptyAfter
<1>4. \A i \in 1 .. m : new[i] = IF i <= b THEN chain[i] ELSE EmptyBlock(chain[b].transfers)
  BY <1>2, <1>3 DEF EmptyAfter
<1>5. b \in 1 .. n
  BY <1>2
<1> HIDE DEF n, m
<1>6. \A i \in 1 .. m : i > b =>
        new[i].log = <<>> /\ new[i].transactions = 0 /\ new[i].transfers = chain[b].transfers
  BY <1>2, <1>3, <1>4, <1>5 DEF EmptyBlock
<1>7. ASSUME NEW c \in Int, c <= b
      PROVE  EventsUpTo(new, c) = EventsUpTo(chain, c)
  <2>1. \A i \in 1 .. c : new[i] = chain[i]
    BY <1>3, <1>4, <1>5, <1>7, <1>2
  <2>2. QED
    BY <2>1 DEF EventsUpTo
<1>8. ASSUME NEW c \in b .. m
      PROVE  EventsUpTo(new, c) = EventsUpTo(chain, b)
  <2>1. ToSet(<<>>) = {}
    BY DEF ToSet
  <2>2. ASSUME NEW e
        PROVE  e \in EventsUpTo(new, c) <=> e \in EventsUpTo(chain, b)
    <3>1. e \in EventsUpTo(new, c) <=> \E i \in 1 .. c : e \in ToSet(new[i].log)
      BY DEF EventsUpTo
    <3>2. e \in EventsUpTo(chain, b) <=> \E i \in 1 .. b : e \in ToSet(chain[i].log)
      BY DEF EventsUpTo
    <3>3. \A i \in 1 .. c : i > b => ~(e \in ToSet(new[i].log))
      BY <1>3, <1>5, <1>6, <2>1
    <3>4. \A i \in 1 .. b : new[i] = chain[i] /\ i \in 1 .. c
      BY <1>2, <1>3, <1>4, <1>5
    <3>5. QED
      BY <1>2, <1>5, <3>1, <3>2, <3>3, <3>4
  <2>3. QED
    BY <2>2
<1>9. AllEvents(new) = EventsUpTo(chain, b)
  BY <1>2, <1>3, <1>5, <1>8 DEF AllEvents, m
<1>10. BlocksTypeOK(new)
  <2>1. ASSUME NEW i \in 1 .. m
        PROVE  /\ new[i].transactions \in Nat
               /\ new[i].log \in Seq(ToSet(new[i].log))
               /\ Len(new[i].log) \in Nat /\ DOMAIN new[i].log = 1 .. Len(new[i].log)
               /\ new[i].transfers = [t \in Transfers |->
                                        [status |-> new[i].transfers[t].status,
                                         hash |-> new[i].transfers[t].hash]]
    <3>1. CASE i <= b
      <4>1. new[i] = chain[i] /\ i \in DOMAIN chain
        BY <1>2, <1>4, <1>5, <3>1
      <4>2. QED
        BY <1>1, <4>1 DEF BlocksTypeOK
    <3>2. CASE ~(i <= b)
      <4>1. new[i].log = <<>> /\ new[i].transactions = 0 /\ new[i].transfers = chain[b].transfers
        BY <1>2, <1>3, <1>5, <1>6, <3>2
      <4>2. chain[b].transfers = [t \in Transfers |->
                                    [status |-> chain[b].transfers[t].status,
                                     hash |-> chain[b].transfers[t].hash]]
        BY <1>1 DEF BlocksTypeOK
      <4>3. <<>> \in Seq(ToSet(<<>>)) /\ Len(<<>>) = 0 /\ DOMAIN <<>> = 1 .. 0
        OBVIOUS
      <4>4. QED
        BY <4>1, <4>2, <4>3
    <3>3. QED
      BY <3>1, <3>2
  <2>2. ASSUME NEW i \in 1 .. StartBlock - 1
        PROVE  new[i].log = <<>>
    <3>1. i \in 1 .. m
      BY <1>2, <1>3
    <3>2. CASE i <= b
      BY <1>1, <1>4, <3>1, <3>2 DEF BlocksTypeOK
    <3>3. CASE ~(i <= b)
      BY <1>2, <1>5, <1>6, <3>1, <3>3
    <3>4. QED
      BY <3>2, <3>3
  <2>3. m >= StartBlock
    BY <1>2, <1>3
  <2>4. QED
    BY <1>3, <2>1, <2>2, <2>3 DEF BlocksTypeOK, m
<1>11. LogsOK(new)
  <2>1. ASSUME NEW i \in 1 .. m, NEW j \in DOMAIN new[i].log
        PROVE  LET e == new[i].log[j] IN e.block = i /\ e.log = j /\ EventTypeOK(e)
    <3>1. i <= b
      <4>1. ASSUME i > b
            PROVE  FALSE
        <5>1. new[i].log = <<>>
          BY <1>6, <4>1
        <5>2. QED
          BY <2>1, <5>1
      <4>2. QED
        BY <1>2, <1>5, <4>1
    <3>2. new[i] = chain[i] /\ i \in DOMAIN chain
      BY <1>2, <1>4, <1>5, <3>1
    <3>3. QED
      BY <1>1, <2>1, <3>2 DEF LogsOK
  <2>2. QED
    BY <1>3, <2>1 DEF LogsOK
<1>12. EventsFollow(AllEvents(new)) /\ BatchesOK(AllEvents(new))
  BY <1>9, FirstEvents
<1>13. TransfersOK(new)
  <2>1. ASSUME NEW i \in 1 .. m, NEW t \in Transfers
        PROVE  /\ IsStatusAfter(EventsUpTo(new, i), t, new[i].transfers[t].status)
               /\ IsHashAfter(EventsUpTo(new, i), t, new[i].transfers[t].hash)
    <3>1. CASE i <= b
      <4>1. i \in DOMAIN chain /\ new[i] = chain[i] /\ EventsUpTo(new, i) = EventsUpTo(chain, i)
        BY <1>2, <1>4, <1>5, <1>7, <3>1
      <4>2. QED
        BY <1>1, <4>1 DEF TransfersOK
    <3>2. CASE ~(i <= b)
      <4>1. i \in b .. m /\ i > b
        BY <1>2, <1>5, <3>2
      <4>2. EventsUpTo(new, i) = EventsUpTo(chain, b) /\ new[i].transfers = chain[b].transfers
        BY <1>6, <1>8, <4>1
      <4>3. QED
        BY <1>1, <4>2 DEF TransfersOK
    <3>3. QED
      BY <3>1, <3>2
  <2>2. QED
    BY <1>3, <2>1 DEF TransfersOK
<1>14. ChainInv(new)
  BY <1>10, <1>11, <1>12, <1>13 DEF ChainInv
<1>15. Keeps(chain, new)
  <2>1. ASSUME NEW c \in Int, c <= n - 1 - RequiredConfirmations \/ c <= StartBlock - 1
        PROVE  /\ EventsUpTo(new, c) = EventsUpTo(chain, c)
               /\ c \in DOMAIN chain => new[c].transfers = chain[c].transfers
    <3>1. CASE c <= b
      <4>1. c \in DOMAIN chain => new[c] = chain[c]
        BY <1>2, <1>3, <1>4, <3>1
      <4>2. QED
        BY <1>7, <3>1, <4>1
    <3>2. CASE c > b
      <4>1. c <= StartBlock - 1
        BY <1>2, <1>5, <2>1, <3>2 DEF n
      <4>2. EventsUpTo(new, c) = {} /\ EventsUpTo(chain, c) = {}
        BY <1>1, <1>10, <4>1, NothingBeforeStart
      <4>3. ASSUME c \in DOMAIN chain
            PROVE  new[c].transfers = chain[c].transfers
        <5>1. c \in DOMAIN new
          BY <1>2, <1>3, <4>3
        <5>2. \A t \in Transfers : new[c].transfers[t] = chain[c].transfers[t]
          BY <1>14, <4>1, <4>3, <5>1, TransfersBeforeStart
        <5>3. chain[c].transfers = [t \in Transfers |-> chain[c].transfers[t]]
          BY <1>1, <4>3 DEF BlocksTypeOK
        <5>4. new[c].transfers = [t \in Transfers |-> new[c].transfers[t]]
          BY <1>10, <5>1 DEF BlocksTypeOK
        <5>5. QED
          BY <5>2, <5>3, <5>4
      <4>4. QED
        BY <4>2, <4>3
    <3>3. QED
      BY <1>5, <3>1, <3>2
  <2>2. QED
    BY <1>3, <2>1 DEF Keeps, n, m
<1>16. QED
  BY <1>14, <1>15

-----------------------------------------------------------------------------
(* The steps of the chain *)

LEMMA ChainSteps ==
    ASSUME BatchesFit, ChainInv(blocks),
           \/ \E call \in PossibleCalls, transaction \in 1 .. Last(blocks).transactions + 1 :
                 CallBridge(call, transaction)
           \/ MineBlock
           \/ \E b \in DOMAIN blocks : Reorganize(b)
    PROVE  ChainInv(blocks') /\ Keeps(blocks, blocks')
<1> DEFINE n == Len(blocks)
<1>1. BlocksTypeOK(blocks)
  BY DEF ChainInv
<1>2. /\ n \in Nat /\ n \in DOMAIN blocks /\ DOMAIN blocks = 1 .. n
      /\ blocks \in Seq(ToSet(blocks)) /\ blocks[n].transactions \in Nat
      /\ Last(blocks) = blocks[n]
  <2>1. n \in Nat /\ n >= StartBlock /\ DOMAIN blocks = 1 .. n /\ blocks \in Seq(ToSet(blocks))
    BY <1>1 DEF BlocksTypeOK
  <2>2. n \in DOMAIN blocks
    BY <2>1, ScannerAssumption
  <2>3. blocks[n].transactions \in Nat
    BY <1>1, <2>2 DEF BlocksTypeOK
  <2>4. QED
    BY <2>1, <2>2, <2>3 DEF Last
<1>3. ASSUME NEW call \in PossibleCalls, NEW transaction \in 1 .. Last(blocks).transactions + 1,
             CallBridge(call, transaction)
      PROVE  ChainInv(blocks') /\ Keeps(blocks, blocks')
  <2>1. transaction \in Nat
    BY <1>2
  <2>2. CallOn(blocks, blocks', call, transaction) /\ Succeeds(call, blocks[n].transfers)
    BY <1>3 DEF CallBridge, CallOn
  <2>3. QED
    BY <2>1, <2>2, CallKeepsChain
<1>4. CASE MineBlock
  <2> DEFINE block == EmptyBlock(blocks[n].transfers)
             S == ToSet(blocks) \cup {block}
  <2>1. blocks' = Append(blocks, block)
    BY <1>2, <1>4 DEF MineBlock
  <2>2. blocks \in Seq(S) /\ block \in S
    BY <1>2
  <2> HIDE DEF block, S, n
  <2>3. /\ Len(blocks') = n + 1 /\ DOMAIN blocks' = 1 .. n + 1
        /\ blocks' \in Seq(S)
        /\ \A i \in 1 .. n : blocks'[i] = blocks[i]
        /\ blocks'[n + 1] = block
    BY <2>1, <2>2 DEF n
  <2>4. blocks' \in Seq(ToSet(blocks'))
    <3>1. blocks' \in [1 .. n + 1 -> ToSet(blocks')]
      BY <2>3 DEF ToSet
    <3>2. QED
      BY <1>2, <3>1, FunctionIsSeq
  <2>5. /\ Len(blocks') \in Nat /\ Len(blocks') >= n /\ DOMAIN blocks' = 1 .. Len(blocks')
        /\ \A i \in 1 .. Len(blocks') : i > n => i = n + 1
    BY <1>2, <2>3
  <2>6. EmptyAfter(blocks, blocks', n)
    BY <2>3, <2>4, <2>5 DEF EmptyAfter, block, n
  <2>7. n >= n - 1 - RequiredConfirmations
    BY <1>2, ScannerAssumption
  <2>8. QED
    BY <1>2, <2>6, <2>7, EmptyBlocksKeepChain DEF n
<1>5. ASSUME NEW b \in DOMAIN blocks, Reorganize(b)
      PROVE  ChainInv(blocks') /\ Keeps(blocks, blocks')
  <2>1. blocks' = [i \in 1 .. n |-> IF i <= b THEN blocks[i] ELSE EmptyBlock(blocks[b].transfers)]
        /\ b >= n - 1 - RequiredConfirmations
    BY <1>2, <1>5 DEF Reorganize, CurrentBlock
  <2> HIDE DEF n
  <2>2. blocks' \in [1 .. n -> ToSet(blocks')]
    BY <2>1 DEF ToSet
  <2>3. blocks' \in Seq(ToSet(blocks')) /\ Len(blocks') = n
    BY <1>2, <2>2, FunctionIsSeq
  <2>4. \A i \in 1 .. n : blocks'[i] = IF i <= b THEN blocks[i] ELSE EmptyBlock(blocks[b].transfers)
    BY <2>1
  <2>5. b \in 1 .. n
    BY <1>2
  <2>6. EmptyAfter(blocks, blocks', b)
    BY <1>2, <2>1, <2>3, <2>4, <2>5 DEF EmptyAfter, n
  <2>7. QED
    BY <2>1, <2>6, EmptyBlocksKeepChain DEF n
<1>6. QED
  BY <1>3, <1>4, <1>5

\* What the scanner knows stays true.
LEMMA ScanInvKept ==
    ASSUME ScannerInv, ChainInv(blocks'), Keeps(blocks, blocks'),
           UNCHANGED <<lastProcessedBlock, database, scan, thrown>>,
           faultsLeft' \in 0 .. MaxFaults
    PROVE  ScanInv'
<1>1. lastProcessedBlock' = lastProcessedBlock /\ database' = database /\ scan' = scan
      /\ thrown' = thrown
  OBVIOUS
<1>2. ScanInv
  BY DEF ScannerInv
<1>3. Len(blocks) \in Nat /\ Len(blocks') \in Nat /\ Len(blocks') >= Len(blocks)
      /\ RequiredConfirmations \in Nat /\ StartBlock \in Nat
  BY ScannerAssumption DEF ScannerInv, ChainInv, BlocksTypeOK, Keeps
<1>4. ConfirmedBlocks = Len(blocks) - 1 - RequiredConfirmations
      /\ ConfirmedBlocks' = Len(blocks') - 1 - RequiredConfirmations
  BY DEF ConfirmedBlocks, CurrentBlock
<1>5. ConfirmedBlocks \in Int /\ ConfirmedBlocks' \in Int /\ ConfirmedBlocks' >= ConfirmedBlocks
  BY <1>3, <1>4
<1>6. EventsUpTo(blocks', lastProcessedBlock) = EventsUpTo(blocks, lastProcessedBlock)
  <2>1. lastProcessedBlock \in Int
        /\ (lastProcessedBlock <= Len(blocks) - 1 - RequiredConfirmations
            \/ lastProcessedBlock <= StartBlock - 1)
    BY <1>2, <1>3, <1>4 DEF ScanInv
  <2>2. QED
    BY <2>1 DEF Keeps
<1>7. lastProcessedBlock' = StartBlock - 1 \/ lastProcessedBlock' \in StartBlock .. ConfirmedBlocks'
  BY <1>1, <1>2, <1>3, <1>5 DEF ScanInv
<1>8. CASE scan = Idle
  BY <1>1, <1>2, <1>6, <1>7, <1>8 DEF ScanInv, Idle
<1>9. CASE scan # Idle
  <2>1. scan.toBlock \in lastProcessedBlock + 1 .. ConfirmedBlocks /\ EachArrivesOnce
        /\ (ReadingInv \/ ProcessingInv) /\ lastProcessedBlock \in Nat
    BY <1>2, <1>9 DEF ScanInv
  <2>2. scan'.toBlock \in lastProcessedBlock' + 1 .. ConfirmedBlocks'
    BY <1>1, <1>5, <2>1
  <2>3. scan.toBlock \in Int /\ scan.toBlock <= Len(blocks) - 1 - RequiredConfirmations
    BY <1>4, <1>5, <2>1
  <2>4. EventsUpTo(blocks', scan.toBlock) = EventsUpTo(blocks, scan.toBlock)
    BY <2>3 DEF Keeps
  <2>5. EachArrivesOnce'
    BY <1>1, <2>1 DEF EachArrivesOnce
  <2>6. NewEvents' = NewEvents /\ Arrived' = Arrived
    BY <1>1, <2>4 DEF NewEvents, Arrived
  <2>7. ASSUME ReadingInv PROVE ReadingInv'
    <3>1. \A e : IsRead(e)' <=> IsRead(e)
      BY <1>1 DEF IsRead, BatchToBlock
    <3>2. {e \in NewEvents : IsRead(e)}' = {e \in NewEvents : IsRead(e)}
      BY <2>6, <3>1
    <3>3. QED
      BY <1>1, <2>6, <2>7, <3>2 DEF ReadingInv
  <2>8. ASSUME ProcessingInv PROVE ProcessingInv'
    BY <1>1, <2>4, <2>6, <2>8 DEF ProcessingInv
  <2>9. QED
    BY <1>1, <1>2, <1>6, <1>7, <2>1, <2>2, <2>5, <2>7, <2>8 DEF ScanInv
<1>10. QED
  BY <1>8, <1>9

-----------------------------------------------------------------------------
(* What follows from the events for their order *)

EventsOK(events) ==
    /\ EventsFollow(events)
    /\ BatchesOK(events)
    /\ \A e \in events : EventTypeOK(e) /\ e.block \in Nat /\ e.log \in Nat
    /\ \A e, f \in events : e.block = f.block /\ e.log = f.log => e = f

LEMMA EventsAreOK ==
    ASSUME NEW chain, ChainInv(chain), NEW b \in DOMAIN chain
    PROVE  EventsOK(EventsUpTo(chain, b))
<1>1. BlocksTypeOK(chain) /\ LogsOK(chain)
  BY DEF ChainInv
<1>2. b \in Int /\ b <= Len(chain)
  BY <1>1 DEF BlocksTypeOK
<1>3. EventsUpTo(chain, b) \subseteq AllEvents(chain)
  BY <1>1, <1>2, EventsUpToByBlock
<1>4. \A e \in AllEvents(chain) : EventTypeOK(e) /\ e.block \in Nat /\ e.log \in Nat
                                  /\ e = chain[e.block].log[e.log]
  BY <1>1, Places
<1>5. \A e, f \in AllEvents(chain) : e.block = f.block /\ e.log = f.log => e = f
  BY <1>4
<1>6. QED
  BY <1>3, <1>4, <1>5, FirstEvents DEF EventsOK

LEMMA Ordered ==
    ASSUME NEW events, EventsOK(events), NEW e \in events, NEW f \in events
    PROVE  e = f \/ SortsBefore(e, f) \/ SortsBefore(f, e)
BY DEF EventsOK, SortsBefore

\* An event has one kind.
LEMMA OneKind ==
    ASSUME NEW e
    PROVE  /\ ~(IsNew(e) /\ IsUpdate(e)) /\ ~(IsNew(e) /\ IsBatch(e))
           /\ ~(IsUpdate(e) /\ IsBatch(e))
           /\ IsBatch(e) => \A t : ~About(e, t)
           /\ IsUpdate(e) => StatusOf(e) = e.args.newStatus
           /\ IsNew(e) => StatusOf(e) = "NEW"
BY DEF IsNew, IsUpdate, IsBatch, About, StatusOf

LEMMA StatusTypes ==
    ASSUME NEW events, EventsOK(events), NEW e \in events, NEW t, About(e, t)
    PROVE  StatusOf(e) \in Statuses /\ t \in Transfers
<1>1. EventTypeOK(e)
  BY DEF EventsOK
<1>2. QED
  BY <1>1 DEF EventTypeOK, About, StatusOf, Statuses, IsNew, IsUpdate, IsBatch

\* A transfer gets a status once.
LEMMA StatusOnce ==
    ASSUME NEW events, EventsOK(events), NEW e \in events, NEW f \in events, NEW t,
           About(e, t), About(f, t), StatusOf(e) = StatusOf(f)
    PROVE  e = f
<1>1. t \in Transfers /\ StatusOf(e) \in Statuses
  BY StatusTypes
<1>2. \A s : ~(<<s, s>> \in Follows)
  BY DEF Follows
<1>3. ~SortsBefore(e, f) /\ ~SortsBefore(f, e)
  BY <1>1, <1>2 DEF EventsOK, EventsFollow
<1>4. QED
  BY <1>3, Ordered

\* No transfer is part of two batches.
LEMMA BatchesDisjoint ==
    ASSUME NEW events, EventsOK(events), NEW c \in events, NEW d \in events,
           IsBatch(c), IsBatch(d), NEW t,
           t \in ToSet(c.args.bitcoinTxHash), t \in ToSet(d.args.bitcoinTxHash)
    PROVE  c = d
<1> DEFINE ids(e) == e.args.bitcoinTxHash
<1>1. \A e \in events : IsBatch(e) =>
        /\ DOMAIN ids(e) = 1 .. Len(ids(e)) /\ Len(ids(e)) \in Nat
        /\ \A i \in DOMAIN ids(e) : \E u \in events : UpdateOf(e, i, u)
  <2> TAKE e \in events
  <2> HAVE IsBatch(e)
  <2>1. EventTypeOK(e)
    BY DEF EventsOK
  <2>2. ids(e) \in Seq(Transfers)
    BY <2>1, OneKind DEF EventTypeOK
  <2>3. QED
    BY <2>2 DEF EventsOK, BatchesOK
<1>2. \A e \in events : e.block \in Nat /\ e.log \in Nat
  BY DEF EventsOK
<1>3. \A e, f \in events : e.block = f.block /\ e.log = f.log => e = f
  BY DEF EventsOK
<1>4. PICK i \in DOMAIN ids(c) : ids(c)[i] = t
  BY DEF ToSet
<1>5. PICK j \in DOMAIN ids(d) : ids(d)[j] = t
  BY DEF ToSet
<1>6. PICK u \in events : UpdateOf(c, i, u)
  BY <1>1, <1>4
<1>7. PICK v \in events : UpdateOf(d, j, v)
  BY <1>1, <1>5
<1>8. u = v
  <2>1. About(u, t) /\ StatusOf(u) = "SENDING"
    BY <1>4, <1>6, OneKind DEF UpdateOf, About
  <2>2. About(v, t) /\ StatusOf(v) = "SENDING"
    BY <1>5, <1>7, OneKind DEF UpdateOf, About
  <2>3. QED
    BY <2>1, <2>2, StatusOnce
<1>9. c.block = d.block /\ c.log + i = d.log + j
  BY <1>6, <1>7, <1>8 DEF UpdateOf
<1>10. i \in Nat /\ j \in Nat /\ i >= 1 /\ j >= 1
       /\ (\A k \in 1 .. i : k \in DOMAIN ids(c)) /\ (\A k \in 1 .. j : k \in DOMAIN ids(d))
  <2>1. DOMAIN ids(c) = 1 .. Len(ids(c)) /\ Len(ids(c)) \in Nat
        /\ DOMAIN ids(d) = 1 .. Len(ids(d)) /\ Len(ids(d)) \in Nat
    BY <1>1
  <2> HIDE DEF ids
  <2>2. QED
    BY <1>4, <1>5, <2>1
<1>11. ASSUME NEW k \in DOMAIN ids(c), d.log = c.log + k
       PROVE  FALSE
  <2>1. PICK w \in events : UpdateOf(c, k, w)
    BY <1>1, <1>11
  <2>2. w = d
    BY <1>3, <1>9, <1>11, <2>1 DEF UpdateOf
  <2>3. QED
    BY <2>1, <2>2, OneKind DEF UpdateOf
<1>12. ASSUME NEW k \in DOMAIN ids(d), c.log = d.log + k
       PROVE  FALSE
  <2>1. PICK w \in events : UpdateOf(d, k, w)
    BY <1>1, <1>12
  <2>2. w = c
    BY <1>3, <1>9, <1>12, <2>1 DEF UpdateOf
  <2>3. QED
    BY <2>1, <2>2, OneKind DEF UpdateOf
<1> HIDE DEF ids
<1>13. CASE c.log < d.log
  <2>1. d.log - c.log \in 1 .. i /\ d.log = c.log + (d.log - c.log)
    BY <1>2, <1>9, <1>10, <1>13
  <2>2. QED
    BY <1>10, <1>11, <2>1
<1>14. CASE d.log < c.log
  <2>1. c.log - d.log \in 1 .. j /\ c.log = d.log + (c.log - d.log)
    BY <1>2, <1>9, <1>10, <1>14
  <2>2. QED
    BY <1>10, <1>12, <2>1
<1>15. CASE c.log = d.log
  BY <1>3, <1>9, <1>15
<1>16. QED
  BY <1>2, <1>13, <1>14, <1>15

\* So what the events say of a transfer is one status and one hash.
LEMMA OneStatusAfter ==
    ASSUME NEW events, EventsOK(events), NEW t, NEW s, NEW r,
           IsStatusAfter(events, t, s), IsStatusAfter(events, t, r)
    PROVE  s = r
<1>1. ~Got(events, t, "NOT_APPLICABLE")
  BY StatusTypes DEF Got, Statuses
<1>2. CASE \A e \in events : ~About(e, t)
  BY <1>2 DEF IsStatusAfter, Got
<1>3. CASE Got(events, t, s) /\ Got(events, t, r)
  <2>1. s = r \/ <<s, r>> \in Follows
    BY <1>3 DEF IsStatusAfter, Got
  <2>2. s = r \/ <<r, s>> \in Follows
    BY <1>3 DEF IsStatusAfter, Got
  <2>3. ~(<<s, r>> \in Follows /\ <<r, s>> \in Follows)
    BY DEF Follows
  <2>4. QED
    BY <2>1, <2>2, <2>3
<1>4. QED
  BY <1>2, <1>3 DEF IsStatusAfter

LEMMA OneHashAfter ==
    ASSUME NEW events, EventsOK(events), NEW t, NEW h, NEW g,
           IsHashAfter(events, t, h), IsHashAfter(events, t, g)
    PROVE  h = g
<1>1. CASE ~Got(events, t, "SENDING")
  BY <1>1 DEF IsHashAfter
<1>2. CASE Got(events, t, "SENDING")
  <2>1. PICK c \in events : Announces(c, t, h)
    BY <1>2 DEF IsHashAfter
  <2>2. PICK d \in events : Announces(d, t, g)
    BY <1>2 DEF IsHashAfter
  <2>3. c = d
    BY <2>1, <2>2, BatchesDisjoint DEF Announces
  <2>4. QED
    BY <2>1, <2>2, <2>3 DEF Announces
<1>3. QED
  BY <1>1, <1>2

-----------------------------------------------------------------------------
(* Processing an event *)

\* The next event, after those that have been processed.
NextOf(events, done, e) ==
    /\ done \subseteq events
    /\ e \in events \ done
    /\ \A f \in events : SortsBefore(f, e) => f \in done
    /\ \A d \in done : SortsBefore(d, e)

LEMMA ReflectsNew ==
    ASSUME NEW events, EventsOK(events), NEW done, NEW e, NextOf(events, done, e),
           NEW db, Reflects(done, db), IsNew(e), NEW new,
           new = [db EXCEPT !.status[e.args.id] =
                    IF e.args.id \in InvalidAddresses THEN "INVALID" ELSE "NEW"]
    PROVE  Reflects(done \cup {e}, new)
<1> DEFINE id == e.args.id
           after == done \cup {e}
<1>1. e \in events /\ done \subseteq events /\ EventTypeOK(e)
  BY DEF NextOf, EventsOK
<1>2. id \in Transfers
  BY <1>1, OneKind DEF EventTypeOK
<1>3. DOMAIN db = {"status", "btcTransactionHash", "commitments"}
      /\ DOMAIN db.status = Transfers /\ DOMAIN db.btcTransactionHash = Transfers
  BY DEF Reflects
<1>4. /\ DOMAIN new = {"status", "btcTransactionHash", "commitments"}
      /\ DOMAIN new.status = Transfers
      /\ new.btcTransactionHash = db.btcTransactionHash
      /\ new.commitments = db.commitments
      /\ \A t \in Transfers : new.status[t] = IF t = id THEN SeenStatus(t, "NEW") ELSE db.status[t]
  BY <1>2, <1>3 DEF SeenStatus
<1>5. About(e, id) /\ StatusOf(e) = "NEW" /\ \A t : t # id => ~About(e, t)
  BY OneKind DEF About
<1>6. \A d \in done : ~About(d, id)
  <2>1. ASSUME NEW d \in done, About(d, id)
        PROVE  FALSE
    <3>1. SortsBefore(d, e)
      BY DEF NextOf
    <3>2. <<StatusOf(d), "NEW">> \in Follows
      BY <1>1, <1>2, <1>5, <2>1, <3>1 DEF EventsOK, EventsFollow
    <3>3. QED
      BY <3>2 DEF Follows
  <2>2. QED
    BY <2>1
<1> HIDE DEF id
<1>7. ASSUME NEW t \in Transfers
      PROVE  /\ \E s \in Statuses \cup {"NOT_APPLICABLE"} :
                   IsStatusAfter(after, t, s) /\ new.status[t] = SeenStatus(t, s)
             /\ IsHashAfter(after, t, new.btcTransactionHash[t])
  <2>1. /\ \E s \in Statuses \cup {"NOT_APPLICABLE"} :
              IsStatusAfter(done, t, s) /\ db.status[t] = SeenStatus(t, s)
        /\ IsHashAfter(done, t, db.btcTransactionHash[t])
    BY DEF Reflects
  <2>2. IsHashAfter(after, t, new.btcTransactionHash[t])
    <3>1. Got(after, t, "SENDING") <=> Got(done, t, "SENDING")
      BY <1>5 DEF Got
    <3>2. QED
      BY <1>4, <2>1, <3>1 DEF IsHashAfter
  <2>3. CASE t = id
    <3>1. IsStatusAfter(after, t, "NEW")
      BY <1>5, <1>6, <2>3 DEF IsStatusAfter, Got
    <3>2. QED
      BY <1>4, <2>2, <2>3, <3>1 DEF Statuses
  <2>4. CASE t # id
    <3>1. \A s : IsStatusAfter(done, t, s) => IsStatusAfter(after, t, s)
      BY <1>5, <2>4 DEF IsStatusAfter, Got
    <3>2. QED
      BY <1>4, <2>1, <2>2, <2>4, <3>1
  <2>5. QED
    BY <2>3, <2>4
<1>8. new.commitments = {Commitment(d) : d \in {d \in after : IsBatch(d)}}
  <2>1. {d \in after : IsBatch(d)} = {d \in done : IsBatch(d)}
    BY OneKind
  <2>2. QED
    BY <1>4, <2>1 DEF Reflects
<1>9. QED
  BY <1>3, <1>4, <1>7, <1>8 DEF Reflects

\* The transfer of an update is known, and so is its batch.
LEMMA UpdateIsKnown ==
    ASSUME NEW events, EventsOK(events), NEW done, NEW e, NextOf(events, done, e),
           NEW db, Reflects(done, db), IsUpdate(e)
    PROVE  /\ db.status[e.args.id] # "NOT_APPLICABLE"
           /\ e.args.newStatus = "SENDING" => CommitmentsOf(db.commitments, e) # {}
           /\ \A c \in CommitmentsOf(db.commitments, e) :
                e.args.newStatus = "SENDING" =>
                  \E d \in done : Announces(d, e.args.id, c.btcTransactionHash)
<1> DEFINE id == e.args.id
<1>1. e \in events /\ done \subseteq events /\ EventTypeOK(e)
      /\ \A f \in events : SortsBefore(f, e) => f \in done
  BY DEF NextOf, EventsOK
<1>2. id \in Transfers
  BY <1>1, OneKind DEF EventTypeOK
<1>3. About(e, id) /\ ~IsNew(e)
  BY OneKind DEF About
<1>4. db.status[id] # "NOT_APPLICABLE"
  <2>1. PICK f \in events : SortsBefore(f, e) /\ About(f, id)
    BY <1>1, <1>2, <1>3 DEF EventsOK, EventsFollow
  <2>2. f \in done
    BY <1>1, <2>1
  <2>3. PICK s \in Statuses \cup {"NOT_APPLICABLE"} :
             IsStatusAfter(done, id, s) /\ db.status[id] = SeenStatus(id, s)
    BY <1>2 DEF Reflects
  <2>4. s # "NOT_APPLICABLE"
    <3>1. ~Got(done, id, "NOT_APPLICABLE")
      BY <1>1, StatusTypes DEF Got, Statuses
    <3>2. QED
      BY <2>1, <2>2, <2>3, <3>1 DEF IsStatusAfter
  <2>5. QED
    BY <2>3, <2>4 DEF SeenStatus
<1>5. db.commitments = {Commitment(d) : d \in {d \in done : IsBatch(d)}}
  BY DEF Reflects
<1>6. \A d \in events : IsBatch(d) =>
        /\ DOMAIN d.args.bitcoinTxHash = 1 .. Len(d.args.bitcoinTxHash)
        /\ Len(d.args.bitcoinTxHash) \in Nat
        /\ d.args.transferBatchSize = Len(d.args.bitcoinTxHash)
        /\ \A i \in DOMAIN d.args.bitcoinTxHash : \E u \in events : UpdateOf(d, i, u)
  <2> TAKE d \in events
  <2> HAVE IsBatch(d)
  <2>1. EventTypeOK(d)
    BY DEF EventsOK
  <2>2. d.args.bitcoinTxHash \in Seq(Transfers)
        /\ d.args.transferBatchSize = Len(d.args.bitcoinTxHash)
    BY <2>1, OneKind DEF EventTypeOK
  <2>3. QED
    BY <2>2 DEF EventsOK, BatchesOK
<1>7. \A d \in events : d.block \in Nat /\ d.log \in Nat
  BY DEF EventsOK
<1> HIDE DEF id
<1>8. ASSUME e.args.newStatus = "SENDING"
      PROVE  CommitmentsOf(db.commitments, e) # {}
  <2>1. PICK d \in events : IsBatch(d) /\ \E i \in DOMAIN d.args.bitcoinTxHash : UpdateOf(d, i, e)
    BY <1>1, <1>8 DEF EventsOK, BatchesOK
  <2>2. PICK i \in DOMAIN d.args.bitcoinTxHash : UpdateOf(d, i, e)
    BY <2>1
  <2> DEFINE size == Len(d.args.bitcoinTxHash)
  <2>3. size \in Nat /\ i \in 1 .. size /\ d.args.transferBatchSize = size
    BY <1>6, <2>1, <2>2
  <2>4. e.block = d.block /\ e.transaction = d.transaction /\ e.log = d.log + i
    BY <2>2 DEF UpdateOf
  <2> HIDE DEF size
  <2>5. SortsBefore(d, e) /\ d.log < e.log /\ e.log <= d.log + size
    BY <1>1, <1>7, <2>3, <2>4 DEF SortsBefore
  <2>6. Commitment(d) \in db.commitments
    BY <1>1, <1>5, <2>1, <2>5
  <2>7. Commitment(d) \in CommitmentsOf(db.commitments, e)
    BY <2>3, <2>4, <2>5, <2>6 DEF CommitmentsOf, Commitment
  <2>8. QED
    BY <2>7
<1>9. ASSUME NEW c \in CommitmentsOf(db.commitments, e), e.args.newStatus = "SENDING"
      PROVE  \E d \in done : Announces(d, id, c.btcTransactionHash)
  <2>1. /\ c \in db.commitments /\ c.block = e.block /\ c.transaction = e.transaction
        /\ c.log < e.log /\ e.log <= c.log + c.transferBatchSize
    BY DEF CommitmentsOf
  <2>2. PICK d \in done : IsBatch(d) /\ c = Commitment(d)
    BY <1>5, <2>1
  <2>3. /\ c.block = d.block /\ c.transaction = d.transaction /\ c.log = d.log
        /\ c.btcTransactionHash = d.args.bitcoinTxHash
        /\ c.transferBatchSize = d.args.transferBatchSize
    BY <2>2 DEF Commitment
  <2> DEFINE size == Len(d.args.bitcoinTxHash)
             i == e.log - d.log
  <2>4. size \in Nat /\ DOMAIN d.args.bitcoinTxHash = 1 .. size
        /\ d.args.transferBatchSize = size /\ d.log \in Nat /\ e.log \in Nat
    BY <1>1, <1>6, <1>7, <2>2
  <2> HIDE DEF size
  <2>5. i \in 1 .. size /\ d.log + i = e.log
    BY <2>1, <2>3, <2>4
  <2> HIDE DEF i
  <2>6. PICK u \in events : UpdateOf(d, i, u)
    BY <1>1, <1>6, <2>2, <2>4, <2>5
  <2>7. u.block = e.block /\ u.log = e.log
    BY <2>1, <2>3, <2>5, <2>6 DEF UpdateOf
  <2>8. u = e
    BY <1>1, <2>7 DEF EventsOK
  <2>9. d.args.bitcoinTxHash[i] = id
    BY <2>6, <2>8 DEF UpdateOf, id
  <2>10. id \in ToSet(d.args.bitcoinTxHash)
    BY <2>4, <2>5, <2>9 DEF ToSet
  <2>11. QED
    BY <2>2, <2>3, <2>10 DEF Announces
<1>10. QED
  BY <1>4, <1>8, <1>9 DEF id

LEMMA ReflectsUpdate ==
    ASSUME NEW events, EventsOK(events), NEW done, NEW e, NextOf(events, done, e),
           NEW db, Reflects(done, db), IsUpdate(e), NEW new,
           DOMAIN new = {"status", "btcTransactionHash", "commitments"},
           new.status = [db.status EXCEPT ![e.args.id] = e.args.newStatus],
           new.commitments = db.commitments,
           DOMAIN new.btcTransactionHash = Transfers,
           \A t \in Transfers \ {e.args.id} :
              new.btcTransactionHash[t] = db.btcTransactionHash[t],
           e.args.newStatus # "SENDING" => new.btcTransactionHash = db.btcTransactionHash,
           e.args.newStatus = "SENDING" =>
              \E d \in done : Announces(d, e.args.id, new.btcTransactionHash[e.args.id])
    PROVE  Reflects(done \cup {e}, new)
<1> DEFINE id == e.args.id
           status == e.args.newStatus
           after == done \cup {e}
<1>1. e \in events /\ done \subseteq events /\ EventTypeOK(e)
      /\ \A d \in done : SortsBefore(d, e)
  BY DEF NextOf, EventsOK
<1>2. id \in Transfers /\ status \in Statuses \ {"NEW"}
  BY <1>1, OneKind DEF EventTypeOK
<1>3. DOMAIN db.status = Transfers /\ DOMAIN db.btcTransactionHash = Transfers
  BY DEF Reflects
<1>4. About(e, id) /\ StatusOf(e) = status /\ ~IsBatch(e) /\ \A t : t # id => ~About(e, t)
  BY OneKind DEF About
<1>5. /\ DOMAIN new.status = Transfers /\ DOMAIN new.btcTransactionHash = Transfers
      /\ \A t \in Transfers : new.status[t] = IF t = id THEN status ELSE db.status[t]
      /\ \A t \in Transfers : t # id => new.btcTransactionHash[t] = db.btcTransactionHash[t]
      /\ status # "SENDING" => new.btcTransactionHash = db.btcTransactionHash
      /\ status = "SENDING" =>
           \E d \in done : Announces(d, id, new.btcTransactionHash[id])
  BY <1>2, <1>3
<1> HIDE DEF id, status
<1>6. ASSUME NEW t \in Transfers
      PROVE  \E s \in Statuses \cup {"NOT_APPLICABLE"} :
                IsStatusAfter(after, t, s) /\ new.status[t] = SeenStatus(t, s)
  <2>1. CASE t = id
    <3>1. \A d \in done : About(d, t) => <<StatusOf(d), status>> \in Follows
      BY <1>1, <1>2, <1>4, <2>1 DEF EventsOK, EventsFollow
    <3>2. IsStatusAfter(after, t, status)
      BY <1>4, <2>1, <3>1 DEF IsStatusAfter, Got
    <3>3. new.status[t] = SeenStatus(t, status)
      BY <1>2, <1>5, <2>1 DEF SeenStatus
    <3>4. QED
      BY <1>2, <3>2, <3>3
  <2>2. CASE t # id
    <3>1. PICK s \in Statuses \cup {"NOT_APPLICABLE"} :
             IsStatusAfter(done, t, s) /\ db.status[t] = SeenStatus(t, s)
      BY DEF Reflects
    <3>2. IsStatusAfter(after, t, s)
      BY <1>4, <2>2, <3>1 DEF IsStatusAfter, Got
    <3>3. QED
      BY <1>5, <2>2, <3>1, <3>2
  <2>3. QED
    BY <2>1, <2>2
<1>7. ASSUME NEW t \in Transfers
      PROVE  IsHashAfter(after, t, new.btcTransactionHash[t])
  <2>1. IsHashAfter(done, t, db.btcTransactionHash[t])
    BY DEF Reflects
  <2>2. CASE t = id /\ status = "SENDING"
    <3>1. Got(after, t, "SENDING")
      BY <1>4, <2>2 DEF Got
    <3>2. QED
      BY <1>5, <2>2, <3>1 DEF IsHashAfter
  <2>3. CASE ~(t = id /\ status = "SENDING")
    <3>1. new.btcTransactionHash[t] = db.btcTransactionHash[t]
      BY <1>5, <2>3
    <3>2. Got(after, t, "SENDING") <=> Got(done, t, "SENDING")
      BY <1>4, <2>3 DEF Got
    <3>3. QED
      BY <2>1, <3>1, <3>2 DEF IsHashAfter
  <2>4. QED
    BY <2>2, <2>3
<1>8. new.commitments = {Commitment(d) : d \in {d \in after : IsBatch(d)}}
  <2>1. {d \in after : IsBatch(d)} = {d \in done : IsBatch(d)}
    BY <1>4
  <2>2. QED
    BY <2>1 DEF Reflects
<1>9. QED
  BY <1>5, <1>6, <1>7, <1>8 DEF Reflects

\* Batches have hashes of their own.
LEMMA ReflectsBatch ==
    ASSUME NEW events, EventsOK(events), NEW done, NEW e, NextOf(events, done, e),
           NEW db, Reflects(done, db), IsBatch(e)
    PROVE  /\ ~\E c \in db.commitments : c.btcTransactionHash = e.args.bitcoinTxHash
           /\ Reflects(done \cup {e}, [db EXCEPT !.commitments = @ \cup {Commitment(e)}])
<1> DEFINE after == done \cup {e}
           new == [db EXCEPT !.commitments = @ \cup {Commitment(e)}]
<1>1. e \in events /\ done \subseteq events /\ EventTypeOK(e) /\ e \notin done
  BY DEF NextOf, EventsOK
<1>2. db.commitments = {Commitment(d) : d \in {d \in done : IsBatch(d)}}
  BY DEF Reflects
<1>3. ASSUME NEW c \in db.commitments, c.btcTransactionHash = e.args.bitcoinTxHash
      PROVE  FALSE
  <2>1. PICK d \in done : IsBatch(d) /\ c = Commitment(d)
    BY <1>2
  <2>2. d.args.bitcoinTxHash = e.args.bitcoinTxHash
    BY <1>3, <2>1 DEF Commitment
  <2>3. e.args.bitcoinTxHash \in Seq(Transfers) \ {<<>>}
    BY <1>1, OneKind DEF EventTypeOK
  <2>4. e.args.bitcoinTxHash[1] \in ToSet(e.args.bitcoinTxHash)
    BY <2>3 DEF ToSet
  <2>5. d = e
    BY <1>1, <2>1, <2>2, <2>4, BatchesDisjoint
  <2>6. QED
    BY <1>1, <2>5
<1>4. /\ DOMAIN db = {"status", "btcTransactionHash", "commitments"}
      /\ DOMAIN db.status = Transfers /\ DOMAIN db.btcTransactionHash = Transfers
  BY DEF Reflects
<1>5. /\ DOMAIN new = DOMAIN db
      /\ new.status = db.status /\ new.btcTransactionHash = db.btcTransactionHash
      /\ new.commitments = db.commitments \cup {Commitment(e)}
  BY <1>4
<1> HIDE DEF new
<1>6. ~IsNew(e) /\ ~IsUpdate(e) /\ \A t : ~About(e, t)
  BY OneKind
<1>7. ASSUME NEW t \in Transfers
      PROVE  /\ \E s \in Statuses \cup {"NOT_APPLICABLE"} :
                   IsStatusAfter(after, t, s) /\ new.status[t] = SeenStatus(t, s)
             /\ IsHashAfter(after, t, new.btcTransactionHash[t])
  <2>1. /\ \E s \in Statuses \cup {"NOT_APPLICABLE"} :
              IsStatusAfter(done, t, s) /\ db.status[t] = SeenStatus(t, s)
        /\ IsHashAfter(done, t, db.btcTransactionHash[t])
    BY DEF Reflects
  <2>2. \A s : IsStatusAfter(done, t, s) => IsStatusAfter(after, t, s)
    BY <1>6 DEF IsStatusAfter, Got
  <2>3. Got(after, t, "SENDING") <=> Got(done, t, "SENDING")
    BY <1>6 DEF Got
  <2>4. IsHashAfter(after, t, db.btcTransactionHash[t])
    BY <2>1, <2>3 DEF IsHashAfter
  <2>5. QED
    BY <1>5, <2>1, <2>2, <2>4
<1>8. new.commitments = {Commitment(d) : d \in {d \in after : IsBatch(d)}}
  BY <1>2, <1>5
<1>9. Reflects(after, new)
  BY <1>4, <1>5, <1>7, <1>8 DEF Reflects
<1>10. QED
  BY <1>3, <1>9 DEF new

-----------------------------------------------------------------------------
(* The steps of the scanner *)

\* What holds while there is a scan.
LEMMA ScanFacts ==
    ASSUME ScannerInv, scan # Idle
    PROVE  /\ scan.toBlock \in lastProcessedBlock + 1 .. ConfirmedBlocks
           /\ EachArrivesOnce /\ (ReadingInv \/ ProcessingInv)
           /\ lastProcessedBlock \in Nat /\ scan.toBlock \in Nat
           /\ scan.toBlock \in DOMAIN blocks /\ scan.toBlock <= Len(blocks)
           /\ scan.toBlock >= StartBlock
           /\ BlocksTypeOK(blocks) /\ LogsOK(blocks)
           /\ EventsOK(EventsUpTo(blocks, scan.toBlock))
<1>1. BlocksTypeOK(blocks) /\ LogsOK(blocks) /\ ScanInv
  BY DEF ScannerInv, ChainInv
<1>2. scan.toBlock \in lastProcessedBlock + 1 .. ConfirmedBlocks
      /\ EachArrivesOnce /\ (ReadingInv \/ ProcessingInv) /\ lastProcessedBlock \in Nat
      /\ (lastProcessedBlock = StartBlock - 1 \/ lastProcessedBlock \in StartBlock .. ConfirmedBlocks)
  BY <1>1 DEF ScanInv
<1>3. Len(blocks) \in Nat /\ DOMAIN blocks = 1 .. Len(blocks)
      /\ RequiredConfirmations \in Nat /\ StartBlock \in Nat \ {0}
  BY <1>1, ScannerAssumption DEF BlocksTypeOK
<1>4. ConfirmedBlocks = Len(blocks) - 1 - RequiredConfirmations
  BY DEF ConfirmedBlocks, CurrentBlock
<1>5. scan.toBlock \in Nat /\ scan.toBlock \in DOMAIN blocks /\ scan.toBlock <= Len(blocks)
      /\ scan.toBlock >= StartBlock
  BY <1>2, <1>3, <1>4
<1>6. EventsOK(EventsUpTo(blocks, scan.toBlock))
  BY <1>5, EventsAreOK DEF ScannerInv
<1>7. QED
  BY <1>1, <1>2, <1>5, <1>6

\* The events up to the last processed block are those that are not new.
LEMMA OldEvents ==
    ASSUME ScannerInv, scan # Idle
    PROVE  EventsUpTo(blocks, scan.toBlock) \ NewEvents = EventsUpTo(blocks, lastProcessedBlock)
<1> DEFINE A == AllEvents(blocks)
<1>1. BlocksTypeOK(blocks) /\ LogsOK(blocks) /\ lastProcessedBlock \in Nat
      /\ scan.toBlock \in Nat /\ lastProcessedBlock < scan.toBlock /\ scan.toBlock <= Len(blocks)
      /\ Len(blocks) \in Nat
  BY ScanFacts DEF BlocksTypeOK
<1>2. lastProcessedBlock <= Len(blocks)
  BY <1>1
<1>3. EventsUpTo(blocks, lastProcessedBlock) = {e \in A : e.block \in 1 .. lastProcessedBlock}
  BY <1>1, <1>2, EventsUpToByBlock
<1>4. EventsUpTo(blocks, scan.toBlock) = {e \in A : e.block \in 1 .. scan.toBlock}
  BY <1>1, EventsUpToByBlock
<1> HIDE DEF A
<1>5. \A e : e.block \in 1 .. scan.toBlock /\ ~(e.block > lastProcessedBlock)
             <=> e.block \in 1 .. lastProcessedBlock
  BY <1>1
<1>6. QED
  BY <1>3, <1>4, <1>5 DEF NewEvents

LEMMA BeginScanStep ==
    ASSUME ScannerInv, BeginScan
    PROVE  ScanInv'
<1>1. ScanInv /\ blocks' = blocks /\ lastProcessedBlock' = lastProcessedBlock
      /\ database' = database /\ thrown' = thrown /\ faultsLeft' = faultsLeft
  BY DEF ScannerInv, BeginScan
<1>2. scan' = [step |-> "reading", fromBlock |-> lastProcessedBlock + 1,
               toBlock |-> ConfirmedBlocks, filter |-> 1, attempt |-> 0, arrivals |-> {}]
      /\ lastProcessedBlock + 1 <= ConfirmedBlocks
  BY DEF BeginScan
<1>3. lastProcessedBlock \in Nat /\ ConfirmedBlocks' = ConfirmedBlocks /\ ConfirmedBlocks \in Int
      /\ Retries \in Nat
  <2>1. Len(blocks) \in Nat /\ RequiredConfirmations \in Nat /\ Retries \in Nat
    BY ScannerAssumption DEF ScannerInv, ChainInv, BlocksTypeOK
  <2>2. QED
    BY <1>1, <2>1 DEF ScanInv, ConfirmedBlocks, CurrentBlock
<1>4. scan'.toBlock \in lastProcessedBlock' + 1 .. ConfirmedBlocks'
  BY <1>1, <1>2, <1>3
<1>5. Arrived' = {} /\ EachArrivesOnce'
  BY <1>2 DEF Arrived, EachArrivesOnce
<1>6. {e \in NewEvents : IsRead(e)}' = {}
  <2>1. ASSUME NEW e \in NewEvents', IsRead(e)' PROVE FALSE
    <3>1. e.block > lastProcessedBlock
      BY <1>1 DEF NewEvents
    <3>2. e.block < lastProcessedBlock + 1 \/ \E k \in 1 .. 0 : TRUE
      BY <1>2, <2>1 DEF IsRead
    <3>3. e.block \in Nat
      <4>1. e \in EventsUpTo(blocks, ConfirmedBlocks)
        BY <1>1, <1>2 DEF NewEvents
      <4>2. ConfirmedBlocks <= Len(blocks) /\ BlocksTypeOK(blocks) /\ LogsOK(blocks)
        BY ScannerAssumption
           DEF ScannerInv, ChainInv, BlocksTypeOK, ConfirmedBlocks, CurrentBlock
      <4>3. e \in AllEvents(blocks)
        BY <1>3, <4>1, <4>2, EventsUpToByBlock
      <4>4. QED
        BY <4>2, <4>3, Places
    <3>4. QED
      BY <1>3, <3>1, <3>2, <3>3
  <2>2. QED
    BY <2>1
<1>7. ReadingInv'
  BY <1>1, <1>2, <1>3, <1>5, <1>6 DEF ReadingInv
<1>8. QED
  BY <1>1, <1>3, <1>4, <1>5, <1>7 DEF ScanInv

\* A scan that is given up leaves everything as it was.
LEMMA GivenUp ==
    ASSUME ScannerInv, scan' = Idle, thrown' = thrown, faultsLeft' \in 0 .. MaxFaults,
           UNCHANGED <<blocks, lastProcessedBlock, database>>
    PROVE  ScanInv'
<1>1. ConfirmedBlocks' = ConfirmedBlocks
  BY DEF ConfirmedBlocks, CurrentBlock
<1>2. QED
  BY <1>1 DEF ScannerInv, ScanInv, Idle

LEMMA FaultCounts ==
    ASSUME faultsLeft \in 0 .. MaxFaults, Fault
    PROVE  faultsLeft' \in 0 .. MaxFaults
BY ScannerAssumption DEF Fault

LEMMA ReadFailsStep ==
    ASSUME ScannerInv, ReadFails
    PROVE  ScanInv'
<1>1. /\ scan.step = "reading" /\ scan # Idle
      /\ UNCHANGED <<blocks, lastProcessedBlock, database, thrown>>
      /\ faultsLeft' \in 0 .. MaxFaults
  <2>1. faultsLeft \in 0 .. MaxFaults
    BY DEF ScannerInv, ScanInv
  <2>2. QED
    BY <2>1, FaultCounts DEF ReadFails, HasMoreToRead, Idle
<1>2. CASE scan' = Idle
  BY <1>1, <1>2, GivenUp
<1>3. CASE scan' = [scan EXCEPT !.attempt = @ + 1] /\ ~(scan.attempt + 1 > Retries)
  <2>1. ScanInv /\ scan.toBlock \in lastProcessedBlock + 1 .. ConfirmedBlocks /\ EachArrivesOnce
    BY <1>1, ScanFacts DEF ScannerInv
  <2>2. ReadingInv
    BY <1>1, ScanFacts DEF ProcessingInv
  <2>3. /\ DOMAIN scan' = DOMAIN scan
        /\ scan'.step = "reading" /\ scan'.fromBlock = scan.fromBlock
        /\ scan'.toBlock = scan.toBlock /\ scan'.filter = scan.filter
        /\ scan'.attempt = scan.attempt + 1 /\ scan'.arrivals = scan.arrivals
    BY <1>1, <1>3, <2>2 DEF ReadingInv
  <2>4. scan'.attempt \in 0 .. Retries
    BY <1>3, <2>2, <2>3, ScannerAssumption DEF ReadingInv
  <2>5. NewEvents' = NewEvents /\ Arrived' = Arrived /\ ConfirmedBlocks' = ConfirmedBlocks
    BY <1>1, <2>3 DEF NewEvents, Arrived, ConfirmedBlocks, CurrentBlock
  <2>6. \A e : IsRead(e)' <=> IsRead(e)
    BY <2>3 DEF IsRead, BatchToBlock
  <2>7. {e \in NewEvents : IsRead(e)}' = {e \in NewEvents : IsRead(e)}
    BY <2>5, <2>6
  <2>8. ReadingInv'
    BY <1>1, <2>2, <2>3, <2>4, <2>5, <2>7 DEF ReadingInv
  <2>9. EachArrivesOnce'
    BY <2>1, <2>3 DEF EachArrivesOnce
  <2>10. QED
    BY <1>1, <2>1, <2>3, <2>5, <2>8, <2>9 DEF ScanInv
<1>4. QED
  BY <1>2, <1>3 DEF ReadFails

\* What a request returns.
LEMMA QueriedEvents ==
    ASSUME BlocksTypeOK(blocks), LogsOK(blocks), NEW name, NEW from \in Nat, NEW to \in Nat,
           from >= 1, NEW last \in Nat, to <= last, last <= Len(blocks)
    PROVE  \A e : e \in QueryFilter(name, from, to) <=>
             e \in EventsUpTo(blocks, last) /\ e.block \in from .. to /\ e.args.name = name
<1>1. ASSUME NEW e, NEW b \in from .. to, e \in ToSet(blocks[b].log)
      PROVE  e.block = b /\ e \in EventsUpTo(blocks, last)
  <2>1. b \in 1 .. last /\ b \in DOMAIN blocks
    BY DEF BlocksTypeOK
  <2>2. e.block = b
    BY <1>1, <2>1 DEF LogsOK, ToSet
  <2>3. QED
    BY <1>1, <2>1, <2>2 DEF EventsUpTo
<1>2. ASSUME NEW e \in EventsUpTo(blocks, last), e.block \in from .. to
      PROVE  e \in ToSet(blocks[e.block].log)
  <2>1. PICK b \in 1 .. last : e \in ToSet(blocks[b].log)
    BY DEF EventsUpTo
  <2>2. b \in DOMAIN blocks
    BY <2>1 DEF BlocksTypeOK
  <2>3. e.block = b
    BY <2>1, <2>2 DEF LogsOK, ToSet
  <2>4. QED
    BY <2>1, <2>3
<1>3. ASSUME NEW e
      PROVE  e \in QueryFilter(name, from, to) <=>
               e \in EventsUpTo(blocks, last) /\ e.block \in from .. to /\ e.args.name = name
  <2>1. e \in QueryFilter(name, from, to) <=>
          (\E b \in from .. to : e \in ToSet(blocks[b].log)) /\ e.args.name = name
    BY DEF QueryFilter
  <2>2. QED
    BY <1>1, <1>2, <2>1
<1>4. QED
  BY <1>3

LEMMA ReadEventsStep ==
    ASSUME ScannerInv, ReadEvents
    PROVE  ScanInv'
<1> DEFINE from == scan.fromBlock
           to == BatchToBlock
           last == scan.toBlock
           k == scan.filter
           E == EventsUpTo(blocks, last)
           read == QueryFilter(Filters[k], from, to)
<1>1. /\ scan.step = "reading" /\ scan # Idle /\ from <= last
      /\ UNCHANGED <<blocks, lastProcessedBlock, database, thrown, faultsLeft>>
  BY DEF ReadEvents, HasMoreToRead, Idle
<1>2. ScanInv /\ last \in lastProcessedBlock + 1 .. ConfirmedBlocks /\ EachArrivesOnce
      /\ lastProcessedBlock \in Nat /\ last \in Nat /\ last <= Len(blocks)
      /\ BlocksTypeOK(blocks) /\ LogsOK(blocks) /\ EventsOK(E)
  BY <1>1, ScanFacts DEF ScannerInv
<1>3. ReadingInv
  BY <1>1, ScanFacts DEF ProcessingInv
<1>4. Len(Filters) = 3 /\ Filters[1] = "NewTransfer" /\ Filters[2] = "StatusUpdated"
      /\ Filters[3] = "BatchSending"
  BY DEF Filters
<1>5. k \in 1 .. 3 /\ from \in Nat /\ from > lastProcessedBlock
  BY <1>2, <1>3 DEF ReadingInv
<1>6. to \in Nat /\ from <= to /\ to <= last
  BY <1>1, <1>2, <1>5, ScannerAssumption DEF BatchToBlock
<1>7. read = {e \in E : e.block \in from .. to /\ e.args.name = Filters[k]}
  <2>1. from >= 1 /\ from \in Nat /\ to \in Nat /\ last \in Nat /\ to <= last
    BY <1>2, <1>5, <1>6
  <2> DEFINE name == Filters[k]
  <2> HIDE DEF from, to, last, name
  <2>2. BlocksTypeOK(blocks) /\ LogsOK(blocks) /\ last <= Len(blocks)
    BY <1>2 DEF last
  <2>3. \A e : e \in QueryFilter(name, from, to) <=>
                e \in EventsUpTo(blocks, last) /\ e.block \in from .. to /\ e.args.name = name
    BY <2>1, <2>2, QueriedEvents
  <2>4. QED
    BY <2>3 DEF name
<1>8. scan' = [scan EXCEPT
                 !.arrivals = @ \cup {[request |-> <<from, k>>, event |-> e] : e \in read},
                 !.attempt = 0,
                 !.filter = IF @ < Len(Filters) THEN @ + 1 ELSE 1,
                 !.fromBlock = IF k < Len(Filters) THEN @ ELSE to + 1]
  BY DEF ReadEvents
<1>9. DOMAIN scan = {"step", "fromBlock", "toBlock", "filter", "attempt", "arrivals"}
  BY <1>3 DEF ReadingInv
<1> DEFINE new == {[request |-> <<from, k>>, event |-> e] : e \in read}
<1>10. new = {[request |-> <<from, k>>, event |-> e] : e \in read}
  OBVIOUS
<1> HIDE DEF from, to, last, k, E, read, new
<1>11. /\ DOMAIN scan' = {"step", "fromBlock", "toBlock", "filter", "attempt", "arrivals"}
       /\ scan'.step = "reading" /\ scan'.toBlock = last
       /\ scan'.arrivals = scan.arrivals \cup new
       /\ scan'.attempt = 0
       /\ scan'.filter = IF k < 3 THEN k + 1 ELSE 1
       /\ scan'.fromBlock = IF k < 3 THEN from ELSE to + 1
  BY <1>1, <1>4, <1>8, <1>9, <1>10 DEF from, last, k
<1>12. Arrived' = Arrived \cup read
  <2>1. \A e : (\E a \in new : a.event = e) <=> e \in read
    <3> DEFINE request == <<from, k>>
    <3>1. new = {[request |-> request, event |-> e] : e \in read}
      BY <1>10
    <3> HIDE DEF request
    <3>2. ASSUME NEW e \in read
          PROVE  \E a \in new : a.event = e
      <4> DEFINE a == [request |-> request, event |-> e]
      <4>1. a \in new
        BY <3>1
      <4>2. a.event = e
        OBVIOUS
      <4>3. QED
        BY <4>1, <4>2
    <3>3. ASSUME NEW e, NEW a \in new, a.event = e
          PROVE  e \in read
      BY <3>1, <3>3
    <3>4. QED
      BY <3>2, <3>3
  <2>2. \A e : e \in Arrived' <=> e \in Arrived \/ \E a \in new : a.event = e
    BY <1>11 DEF Arrived
  <2>3. QED
    BY <2>1, <2>2
<1>13. Arrived = {e \in NewEvents : IsRead(e)}
  BY <1>3 DEF ReadingInv
<1>14. \A e \in E : e.block \in Nat /\ \E j \in 1 .. 3 : e.args.name = Filters[j]
  <2> TAKE e \in E
  <2>1. EventTypeOK(e) /\ e.block \in Nat
    BY <1>2 DEF EventsOK
  <2>2. QED
    BY <1>4, <2>1 DEF EventTypeOK, IsNew, IsUpdate, IsBatch
<1>15. NewEvents' = NewEvents /\ NewEvents = {e \in E : e.block > lastProcessedBlock}
  BY <1>1, <1>11 DEF NewEvents, E, last
<1>16. \A e : IsRead(e) <=> e.block < from \/ (e.block <= to /\ \E j \in 1 .. k - 1 : e.args.name = Filters[j])
  BY DEF IsRead, from, to, k
<1>17. \A i, j \in 1 .. 3 : Filters[i] = Filters[j] => i = j
  BY <1>4
<1>18. \A e \in read : e \notin Arrived
  <2>1. ASSUME NEW e \in read, e \in Arrived
        PROVE  FALSE
    <3>1. e.block \in from .. to /\ e.args.name = Filters[k]
      BY <1>7
    <3>2. IsRead(e)
      BY <1>13, <2>1
    <3>3. PICK j \in 1 .. k - 1 : e.args.name = Filters[j]
      BY <1>5, <1>6, <1>16, <3>1, <3>2
    <3>4. j \in 1 .. 3 /\ j # k
      BY <1>5
    <3>5. QED
      BY <1>5, <1>17, <3>1, <3>3, <3>4
  <2>2. QED
    BY <2>1
<1>19. EachArrivesOnce'
  <2>1. ASSUME NEW a \in scan'.arrivals, NEW b \in scan'.arrivals, a.event = b.event
        PROVE  a = b
    <3>1. a \in scan.arrivals /\ b \in scan.arrivals => a = b
      BY <1>2, <2>1 DEF EachArrivesOnce
    <3>2. a \in new /\ b \in new => a = b
      BY <1>10, <2>1
    <3>3. \A c \in scan.arrivals : c.event \in Arrived
      BY DEF Arrived
    <3>4. \A c \in new : c.event \in read
      BY <1>10
    <3>5. QED
      BY <1>11, <1>18, <2>1, <3>1, <3>2, <3>3, <3>4
  <2>2. QED
    BY <2>1 DEF EachArrivesOnce
<1>20. ASSUME NEW e \in NewEvents
       PROVE  IsRead(e)' <=> IsRead(e) \/ e \in read
  <2>1. e \in E /\ e.block \in Nat /\ \E j \in 1 .. 3 : e.args.name = Filters[j]
    BY <1>14, <1>15
  <2>2. e \in read <=> e.block \in from .. to /\ e.args.name = Filters[k]
    BY <1>7, <2>1
  <2>3. CASE k < 3
    <3>1. scan'.fromBlock = from /\ scan'.filter = k + 1
      BY <1>11, <2>3
    <3>2. BatchToBlock' = to
      BY <1>11, <3>1 DEF BatchToBlock, to, from, last
    <3>3. IsRead(e)' <=> e.block < from \/ (e.block <= to /\ \E j \in 1 .. (k + 1) - 1 : e.args.name = Filters[j])
      BY <3>1, <3>2 DEF IsRead
    <3>4. \A j : j \in 1 .. (k + 1) - 1 <=> j \in 1 .. k - 1 \/ j = k
      BY <1>5
    <3>5. QED
      BY <1>5, <1>6, <1>16, <2>1, <2>2, <3>3, <3>4
  <2>4. CASE ~(k < 3)
    <3>1. k = 3 /\ scan'.fromBlock = to + 1 /\ scan'.filter = 1
      BY <1>5, <1>11, <2>4
    <3>2. IsRead(e)' <=> e.block < to + 1
      <4>1. ~\E j \in 1 .. 1 - 1 : e.args.name = Filters[j]
        OBVIOUS
      <4>2. QED
        BY <3>1, <4>1 DEF IsRead
    <3>3. \A j \in 1 .. 3 : j \in 1 .. k - 1 \/ j = k
      BY <3>1
    <3>4. QED
      BY <1>5, <1>6, <1>16, <2>1, <2>2, <3>1, <3>2, <3>3
  <2>5. QED
    BY <2>3, <2>4
<1>21. read \subseteq NewEvents
  BY <1>5, <1>6, <1>7, <1>15, <1>2
<1>22. Arrived' = {e \in NewEvents' : IsRead(e)'}
  BY <1>12, <1>13, <1>15, <1>20, <1>21
<1>23. /\ scan'.filter \in 1 .. 3
       /\ scan'.fromBlock \in lastProcessedBlock' + 1 .. last + 1
       /\ scan'.fromBlock = last + 1 => scan'.filter = 1
  BY <1>1, <1>2, <1>5, <1>6, <1>11 DEF from, last
<1>24. ReadingInv'
  BY <1>11, <1>22, <1>23, ScannerAssumption DEF ReadingInv
<1>25. ConfirmedBlocks' = ConfirmedBlocks
  BY <1>1 DEF ConfirmedBlocks, CurrentBlock
<1>26. QED
  BY <1>1, <1>2, <1>11, <1>19, <1>24, <1>25 DEF ScanInv

LEMMA BeginProcessingStep ==
    ASSUME ScannerInv, BeginProcessing
    PROVE  ScanInv'
<1>1. /\ scan.step = "reading" /\ scan # Idle /\ scan.fromBlock > scan.toBlock
      /\ UNCHANGED <<blocks, lastProcessedBlock, database, thrown, faultsLeft>>
      /\ scan' = [step |-> "processing", toBlock |-> scan.toBlock,
                  arrivals |-> scan.arrivals, database |-> database]
  BY DEF BeginProcessing, Idle
<1>2. ScanInv /\ scan.toBlock \in lastProcessedBlock + 1 .. ConfirmedBlocks /\ EachArrivesOnce
      /\ scan.toBlock \in Nat /\ scan.toBlock <= Len(blocks) /\ lastProcessedBlock \in Nat
      /\ BlocksTypeOK(blocks) /\ LogsOK(blocks)
  BY <1>1, ScanFacts DEF ScannerInv
<1>3. ReadingInv
  BY <1>1, ScanFacts DEF ProcessingInv
<1>4. \A e \in NewEvents : IsRead(e)
  <2> TAKE e \in NewEvents
  <2>1. e.block \in 1 .. scan.toBlock
    BY <1>2, EventsUpToByBlock DEF NewEvents
  <2>2. e.block < scan.fromBlock
    BY <1>1, <1>2, <1>3, <2>1 DEF ReadingInv
  <2>3. QED
    BY <2>2 DEF IsRead
<1>5. Arrived = NewEvents
  BY <1>3, <1>4 DEF ReadingInv
<1>6. Arrived' = Arrived /\ NewEvents' = NewEvents /\ EachArrivesOnce'
      /\ ConfirmedBlocks' = ConfirmedBlocks
  BY <1>1, <1>2 DEF Arrived, NewEvents, EachArrivesOnce, ConfirmedBlocks, CurrentBlock
<1>7. EventsUpTo(blocks, scan.toBlock) \ Arrived = EventsUpTo(blocks, lastProcessedBlock)
  BY <1>1, <1>5, OldEvents
<1>8. Reflects(EventsUpTo(blocks, lastProcessedBlock), database)
  BY <1>2 DEF ScanInv
<1>9. ProcessingInv'
  BY <1>1, <1>5, <1>6, <1>7, <1>8 DEF ProcessingInv
<1>10. QED
  BY <1>1, <1>2, <1>6, <1>9 DEF ScanInv

\* The event to process is the first of those that are left.
LEMMA NextEvent ==
    ASSUME ScannerInv, scan.step = "processing", scan.arrivals # {}
    PROVE  /\ FirstSorted(scan.arrivals) \in scan.arrivals
           /\ NextOf(EventsUpTo(blocks, scan.toBlock),
                     EventsUpTo(blocks, scan.toBlock) \ Arrived,
                     FirstSorted(scan.arrivals).event)
           /\ \A f \in Arrived \ {FirstSorted(scan.arrivals).event} :
                 SortsBefore(FirstSorted(scan.arrivals).event, f)
<1> DEFINE E == EventsUpTo(blocks, scan.toBlock)
           first == FirstSorted(scan.arrivals)
           e == first.event
           done == E \ Arrived
<1>1. scan # Idle
  BY DEF Idle
<1>2. EventsOK(E) /\ lastProcessedBlock \in Nat /\ ProcessingInv
  BY <1>1, ScanFacts DEF ReadingInv
<1>3. Arrived \subseteq NewEvents /\ NewEvents \subseteq E /\ Arrived # {}
  BY <1>2 DEF ProcessingInv, NewEvents, Arrived
<1>4. \A f \in E : f.block \in Nat /\ f.log \in Nat
  BY <1>2 DEF EventsOK
<1>5. PICK f \in Arrived : \A g \in Arrived : ~SortsBefore(g, f)
  BY <1>3, <1>4, SomeEventIsFirst
<1>6. \E a \in scan.arrivals : \A b \in scan.arrivals : ~SortsBefore(b.event, a.event)
  BY <1>5 DEF Arrived
<1>7. first \in scan.arrivals /\ \A b \in scan.arrivals : ~SortsBefore(b.event, first.event)
  BY <1>6 DEF FirstSorted
<1> HIDE DEF first
<1>8. e \in Arrived /\ \A g \in Arrived : ~SortsBefore(g, e)
  BY <1>7 DEF Arrived
<1> HIDE DEF e, E, done
<1>9. \A g \in E : SortsBefore(g, e) => g \in done
  BY <1>8 DEF done
<1>10. \A d \in done : SortsBefore(d, e)
  <2> TAKE d \in done
  <2>1. d \in E /\ d \notin Arrived
    BY DEF done
  <2>2. CASE d \in NewEvents
    BY <1>2, <1>8, <2>1, <2>2 DEF ProcessingInv
  <2>3. CASE d \notin NewEvents
    <3>1. d.block <= lastProcessedBlock
      BY <1>2, <1>4, <2>1, <2>3 DEF NewEvents, E
    <3>2. e.block > lastProcessedBlock /\ e \in E
      BY <1>3, <1>8 DEF NewEvents
    <3>3. QED
      BY <1>2, <1>4, <2>1, <3>1, <3>2 DEF SortsBefore
  <2>4. QED
    BY <2>2, <2>3
<1>11. NextOf(E, done, e)
  BY <1>3, <1>8, <1>9, <1>10 DEF NextOf, done
<1>12. \A g \in Arrived \ {e} : SortsBefore(e, g)
  BY <1>2, <1>3, <1>8, Ordered
<1>13. QED
  BY <1>7, <1>11, <1>12 DEF first, e, E, done

LEMMA ProcessedStep ==
    ASSUME ScannerInv, scan.step = "processing", scan.arrivals # {}, NEW db, Processed(db),
           UNCHANGED <<blocks, lastProcessedBlock, database, faultsLeft>>,
           Reflects((EventsUpTo(blocks, scan.toBlock) \ Arrived)
                      \cup {FirstSorted(scan.arrivals).event}, db)
    PROVE  ScanInv'
<1> DEFINE E == EventsUpTo(blocks, scan.toBlock)
           first == FirstSorted(scan.arrivals)
           e == first.event
<1>1. scan # Idle
  BY DEF Idle
<1>2. /\ ScanInv /\ scan.toBlock \in lastProcessedBlock + 1 .. ConfirmedBlocks
      /\ EachArrivesOnce /\ ProcessingInv
  BY <1>1, ScanFacts DEF ReadingInv, ScannerInv
<1>3. first \in scan.arrivals /\ NextOf(E, E \ Arrived, e)
      /\ \A f \in Arrived \ {e} : SortsBefore(e, f)
  BY NextEvent
<1>4. /\ DOMAIN scan' = DOMAIN scan
      /\ scan'.step = "processing" /\ scan'.toBlock = scan.toBlock
      /\ scan'.arrivals = scan.arrivals \ {first} /\ scan'.database = db
      /\ thrown' = thrown
  BY <1>2 DEF Processed, ProcessingInv
<1> HIDE DEF first
<1>5. Arrived' = Arrived \ {e}
  <2>1. \A a \in scan.arrivals : a.event = e <=> a = first
    BY <1>2, <1>3 DEF EachArrivesOnce
  <2>2. QED
    BY <1>4, <2>1 DEF Arrived
<1> HIDE DEF e
<1>6. NewEvents' = NewEvents
  BY <1>4 DEF NewEvents
<1>7. EachArrivesOnce'
  BY <1>2, <1>4 DEF EachArrivesOnce
<1>8. E' = E /\ E' \ Arrived' = (E \ Arrived) \cup {e}
  <2>1. E' = E
    BY <1>4
  <2>2. e \in E
    BY <1>3 DEF NextOf
  <2>3. QED
    BY <1>5, <2>1, <2>2
<1>9. \A d \in NewEvents' \ Arrived' : \A f \in Arrived' : SortsBefore(d, f)
  <2>1. \A d \in NewEvents \ Arrived : \A f \in Arrived : SortsBefore(d, f)
    BY <1>2 DEF ProcessingInv
  <2>2. QED
    BY <1>3, <1>5, <1>6, <2>1
<1>10. ProcessingInv'
  <2>1. Arrived' \subseteq NewEvents'
    BY <1>2, <1>5, <1>6 DEF ProcessingInv
  <2>2. Reflects(E' \ Arrived', scan'.database)
    BY <1>4, <1>8 DEF e, first
  <2>3. DOMAIN scan' = {"step", "toBlock", "arrivals", "database"}
    BY <1>2, <1>4 DEF ProcessingInv
  <2>4. QED
    BY <1>4, <1>9, <2>1, <2>2, <2>3 DEF ProcessingInv
<1>11. ConfirmedBlocks' = ConfirmedBlocks
  BY DEF ConfirmedBlocks, CurrentBlock
<1>12. QED
  BY <1>2, <1>4, <1>7, <1>10, <1>11 DEF ScanInv

LEMMA ProcessEventStep ==
    ASSUME ScannerInv, ProcessEvent
    PROVE  ScanInv'
<1> DEFINE E == EventsUpTo(blocks, scan.toBlock)
           e == FirstSorted(scan.arrivals).event
           done == E \ Arrived
           db == scan.database
<1>1. /\ scan.step = "processing" /\ scan.arrivals # {} /\ scan # Idle
      /\ UNCHANGED <<blocks, lastProcessedBlock, database, faultsLeft>>
      /\ OnNewTransfer(e) \/ OnStatusUpdated(e) \/ OnBatchSending(e)
  BY DEF ProcessEvent, Idle
<1>2. EventsOK(E) /\ Reflects(done, db)
  BY <1>1, ScanFacts DEF ReadingInv, ProcessingInv
<1>3. NextOf(E, done, e)
  BY <1>1, NextEvent
<1>4. \A new : Processed(new) /\ Reflects(done \cup {e}, new) => ScanInv'
  BY <1>1, ProcessedStep
<1> HIDE DEF e, E, done
<1>5. CASE OnNewTransfer(e)
  <2> DEFINE status == IF e.args.id \in InvalidAddresses THEN "INVALID" ELSE "NEW"
             new == [db EXCEPT !.status[e.args.id] = status]
  <2>1. IsNew(e) /\ Processed(new)
    BY <1>5 DEF OnNewTransfer, IsNew
  <2>2. Reflects(done \cup {e}, new)
    BY <1>2, <1>3, <2>1, ReflectsNew
  <2> HIDE DEF new
  <2>3. QED
    BY <1>4, <2>1, <2>2
<1>6. CASE OnStatusUpdated(e)
  <2> DEFINE id == e.args.id
             status == e.args.newStatus
             updated == [db EXCEPT !.status[id] = status]
             found == CommitmentsOf(db.commitments, e)
  <2>1. IsUpdate(e)
    BY <1>6 DEF OnStatusUpdated, IsUpdate
  <2>2. /\ db.status[id] # "NOT_APPLICABLE"
        /\ status = "SENDING" => found # {}
        /\ \A c \in found : status = "SENDING" => \E d \in done : Announces(d, id, c.btcTransactionHash)
    BY <1>2, <1>3, <2>1, UpdateIsKnown
  <2>3. \/ status # "SENDING" /\ Processed(updated)
        \/ status = "SENDING" /\ \E c \in found :
             Processed([updated EXCEPT !.btcTransactionHash[id] = c.btcTransactionHash])
    BY <1>6, <2>2 DEF OnStatusUpdated
  <2>4. DOMAIN db = {"status", "btcTransactionHash", "commitments"}
        /\ DOMAIN db.status = Transfers /\ DOMAIN db.btcTransactionHash = Transfers
    BY <1>2 DEF Reflects
  <2>5. /\ DOMAIN updated = {"status", "btcTransactionHash", "commitments"}
        /\ updated.status = [db.status EXCEPT ![id] = status]
        /\ updated.commitments = db.commitments
        /\ updated.btcTransactionHash = db.btcTransactionHash
    BY <2>4
  <2> HIDE DEF updated, found, db
  <2>6. CASE status # "SENDING" /\ Processed(updated)
    <3>1. Reflects(done \cup {e}, updated)
      BY <1>2, <1>3, <2>1, <2>4, <2>5, <2>6, ReflectsUpdate
    <3>2. QED
      BY <1>4, <2>6, <3>1
  <2>7. ASSUME status = "SENDING", NEW c \in found,
               Processed([updated EXCEPT !.btcTransactionHash[id] = c.btcTransactionHash])
        PROVE  ScanInv'
    <3> DEFINE new == [updated EXCEPT !.btcTransactionHash[id] = c.btcTransactionHash]
    <3>1. /\ DOMAIN new = {"status", "btcTransactionHash", "commitments"}
          /\ new.status = [db.status EXCEPT ![id] = status]
          /\ new.commitments = db.commitments
          /\ new.btcTransactionHash = [db.btcTransactionHash EXCEPT ![id] = c.btcTransactionHash]
      BY <2>5
    <3>2. Processed(new)
      BY <2>7
    <3> HIDE DEF new
    <3>3. new.btcTransactionHash[id] = c.btcTransactionHash
          /\ DOMAIN new.btcTransactionHash = Transfers
          /\ \A t \in Transfers \ {id} : new.btcTransactionHash[t] = db.btcTransactionHash[t]
      <4>1. id \in Transfers
        BY <1>2, <1>3, <2>1, OneKind DEF NextOf, EventsOK, EventTypeOK
      <4>2. QED
        BY <2>4, <3>1, <4>1
    <3>4. \E d \in done : Announces(d, id, new.btcTransactionHash[id])
      BY <2>2, <2>7, <3>3
    <3>5. Reflects(done \cup {e}, new)
      BY <1>2, <1>3, <2>1, <2>7, <3>1, <3>3, <3>4, ReflectsUpdate
    <3>6. QED
      BY <1>4, <3>2, <3>5
  <2>8. QED
    BY <2>3, <2>6, <2>7
<1>7. CASE OnBatchSending(e)
  <2> DEFINE new == [db EXCEPT !.commitments = @ \cup {Commitment(e)}]
  <2>1. IsBatch(e)
    BY <1>7 DEF OnBatchSending, IsBatch
  <2>2. /\ ~\E c \in db.commitments : c.btcTransactionHash = e.args.bitcoinTxHash
        /\ Reflects(done \cup {e}, new)
    BY <1>2, <1>3, <2>1, ReflectsBatch
  <2>3. Processed(new)
    BY <1>7, <2>2 DEF OnBatchSending
  <2> HIDE DEF new
  <2>4. QED
    BY <1>4, <2>2, <2>3
<1>8. QED
  BY <1>1, <1>5, <1>6, <1>7

LEMMA CommitStep ==
    ASSUME ScannerInv, Commit
    PROVE  ScanInv'
<1>1. /\ scan.step = "processing" /\ scan.arrivals = {} /\ scan # Idle
      /\ database' = scan.database /\ lastProcessedBlock' = scan.toBlock /\ scan' = Idle
      /\ UNCHANGED <<blocks, thrown, faultsLeft>>
  BY DEF Commit, Idle
<1>2. /\ ScanInv /\ ProcessingInv
      /\ scan.toBlock \in lastProcessedBlock + 1 .. ConfirmedBlocks
      /\ scan.toBlock \in Nat /\ scan.toBlock >= StartBlock
  BY <1>1, ScanFacts DEF ReadingInv, ScannerInv
<1>3. Reflects(EventsUpTo(blocks, scan.toBlock), scan.database)
  <2>1. Arrived = {}
    BY <1>1 DEF Arrived
  <2>2. EventsUpTo(blocks, scan.toBlock) \ {} = EventsUpTo(blocks, scan.toBlock)
    OBVIOUS
  <2>3. QED
    BY <1>2, <2>1, <2>2 DEF ProcessingInv
<1>4. ConfirmedBlocks' = ConfirmedBlocks
  BY <1>1 DEF ConfirmedBlocks, CurrentBlock
<1>5. lastProcessedBlock' \in StartBlock .. ConfirmedBlocks'
  BY <1>1, <1>2, <1>4, ScannerAssumption
<1>6. QED
  BY <1>1, <1>2, <1>3, <1>5 DEF ScanInv

-----------------------------------------------------------------------------
(* The theorems *)

LEMMA InitScannerInv ==
    ASSUME Init
    PROVE  ScannerInv
<1> DEFINE none == [t \in Transfers |-> [status |-> "NOT_APPLICABLE", hash |-> NoHash]]
           block == EmptyBlock(none)
<1>1. /\ blocks = [b \in 1 .. StartBlock |-> block]
      /\ lastProcessedBlock = StartBlock - 1
      /\ database = [status |-> [t \in Transfers |-> "NOT_APPLICABLE"],
                     btcTransactionHash |-> [t \in Transfers |-> NoHash],
                     commitments |-> {}]
      /\ scan = Idle /\ thrown = FALSE /\ faultsLeft = MaxFaults
  BY DEF Init
<1>2. StartBlock \in Nat \ {0} /\ MaxFaults \in Nat
  BY ScannerAssumption
<1>3. block.log = <<>> /\ block.transactions = 0 /\ block.transfers = none
  BY DEF EmptyBlock
<1> HIDE DEF block
<1>4. blocks \in [1 .. StartBlock -> ToSet(blocks)]
  BY <1>1 DEF ToSet
<1>5. blocks \in Seq(ToSet(blocks)) /\ Len(blocks) = StartBlock /\ DOMAIN blocks = 1 .. StartBlock
  BY <1>1, <1>2, <1>4, FunctionIsSeq
<1>6. \A b \in 1 .. StartBlock : blocks[b] = block
  BY <1>1
<1>7. BlocksTypeOK(blocks)
  <2>1. <<>> \in Seq(ToSet(<<>>)) /\ Len(<<>>) = 0 /\ DOMAIN <<>> = 1 .. 0
    OBVIOUS
  <2>2. none = [t \in Transfers |-> [status |-> none[t].status, hash |-> none[t].hash]]
    OBVIOUS
  <2> HIDE DEF none
  <2>3. ASSUME NEW b \in 1 .. StartBlock
        PROVE  /\ blocks[b].transactions \in Nat
               /\ blocks[b].log = <<>>
               /\ blocks[b].log \in Seq(ToSet(blocks[b].log))
               /\ Len(blocks[b].log) \in Nat /\ DOMAIN blocks[b].log = 1 .. Len(blocks[b].log)
               /\ blocks[b].transfers = [t \in Transfers |->
                                           [status |-> blocks[b].transfers[t].status,
                                            hash |-> blocks[b].transfers[t].hash]]
    <3>1. blocks[b] = block
      BY <1>6
    <3>2. block.transfers = [t \in Transfers |-> [status |-> block.transfers[t].status,
                                                  hash |-> block.transfers[t].hash]]
      BY <1>3, <2>2
    <3>3. blocks[b].transactions = 0 /\ blocks[b].log = <<>>
      BY <1>3, <3>1
    <3> DEFINE log == blocks[b].log
    <3>4. log = <<>>
      BY <3>3
    <3> HIDE DEF log
    <3>5. log \in Seq(ToSet(log)) /\ Len(log) = 0 /\ DOMAIN log = 1 .. 0
      BY <2>1, <3>4
    <3>6. log \in Seq(ToSet(log)) /\ Len(log) \in Nat /\ DOMAIN log = 1 .. Len(log)
      BY <3>5
    <3>7. blocks[b].transfers = [t \in Transfers |-> [status |-> blocks[b].transfers[t].status,
                                                     hash |-> blocks[b].transfers[t].hash]]
      <4> HIDE DEF none
      <4>1. QED
        BY <3>1, <3>2
    <3>8. blocks[b].transactions \in Nat
      BY <3>3
    <3>9. QED
      BY <3>3, <3>6, <3>7, <3>8 DEF log
  <2>4. ASSUME NEW b \in 1 .. StartBlock - 1
        PROVE  blocks[b].log = <<>>
    <3>1. b \in 1 .. StartBlock
      BY <1>2, <2>4
    <3>2. QED
      BY <2>3, <3>1
  <2>5. Len(blocks) \in Nat /\ Len(blocks) >= StartBlock /\ DOMAIN blocks = 1 .. Len(blocks)
    BY <1>2, <1>5
  <2>6. \A b \in DOMAIN blocks : b \in 1 .. StartBlock
    BY <1>5
  <2>7. QED
    BY <1>5, <2>3, <2>4, <2>5, <2>6 DEF BlocksTypeOK
<1>8. \A n \in Int : n <= StartBlock => EventsUpTo(blocks, n) = {}
  <2>1. ASSUME NEW n \in Int, n <= StartBlock, NEW e \in EventsUpTo(blocks, n)
        PROVE  FALSE
    <3>1. PICK b \in 1 .. n : e \in ToSet(blocks[b].log)
      BY <2>1 DEF EventsUpTo
    <3>2. b \in 1 .. StartBlock
      BY <1>2, <2>1
    <3>3. e \in ToSet(<<>>)
      BY <1>3, <1>6, <3>1, <3>2
    <3>4. QED
      BY <3>3 DEF ToSet
  <2>2. QED
    BY <2>1
<1>9. AllEvents(blocks) = {}
  BY <1>2, <1>5, <1>8 DEF AllEvents
<1>10. LogsOK(blocks)
  BY <1>3, <1>5, <1>6 DEF LogsOK
<1>11. EventsFollow(AllEvents(blocks)) /\ BatchesOK(AllEvents(blocks))
  BY <1>9 DEF EventsFollow, BatchesOK
<1>12. \A t \in Transfers : IsStatusAfter({}, t, "NOT_APPLICABLE") /\ IsHashAfter({}, t, NoHash)
  BY DEF IsStatusAfter, IsHashAfter, Got
<1>13. TransfersOK(blocks)
  <2>1. \A b \in 1 .. StartBlock : EventsUpTo(blocks, b) = {}
    BY <1>2, <1>8
  <2>2. \A t \in Transfers : none[t].status = "NOT_APPLICABLE" /\ none[t].hash = NoHash
    OBVIOUS
  <2> HIDE DEF none
  <2>3. QED
    BY <1>3, <1>5, <1>6, <1>12, <2>1, <2>2 DEF TransfersOK
<1>14. Reflects(EventsUpTo(blocks, lastProcessedBlock), database)
  <2>1. EventsUpTo(blocks, lastProcessedBlock) = {}
    BY <1>1, <1>2, <1>8
  <2>2. /\ DOMAIN database = {"status", "btcTransactionHash", "commitments"}
        /\ DOMAIN database.status = Transfers /\ DOMAIN database.btcTransactionHash = Transfers
        /\ database.commitments = {}
        /\ \A t \in Transfers : /\ database.status[t] = "NOT_APPLICABLE"
                                /\ database.btcTransactionHash[t] = NoHash
    BY <1>1
  <2>3. {Commitment(e) : e \in {e \in {} : IsBatch(e)}} = {}
    OBVIOUS
  <2>4. \A t : SeenStatus(t, "NOT_APPLICABLE") = "NOT_APPLICABLE"
    BY DEF SeenStatus
  <2>5. QED
    BY <1>12, <2>1, <2>2, <2>3, <2>4 DEF Reflects
<1>15. ScanInv
  BY <1>1, <1>2, <1>14 DEF ScanInv
<1>16. QED
  BY <1>7, <1>10, <1>11, <1>13, <1>15 DEF ScannerInv, ChainInv

LEMMA NextScannerInv ==
    ASSUME BatchesFit, ScannerInv, [Next]_vars
    PROVE  ScannerInv'
<1>1. ChainInv(blocks) /\ faultsLeft \in 0 .. MaxFaults
  BY DEF ScannerInv, ScanInv
<1>2. CASE \/ \E call \in PossibleCalls, transaction \in 1 .. Last(blocks).transactions + 1 :
                 CallBridge(call, transaction)
           \/ MineBlock
           \/ \E b \in DOMAIN blocks : Reorganize(b)
  <2>1. ChainInv(blocks') /\ Keeps(blocks, blocks')
    BY <1>1, <1>2, ChainSteps
  <2>2. UNCHANGED <<lastProcessedBlock, database, scan, thrown>>
    BY <1>2 DEF CallBridge, MineBlock, Reorganize
  <2>3. faultsLeft' \in 0 .. MaxFaults
    <3>1. faultsLeft' = faultsLeft \/ Fault
      BY <1>2 DEF CallBridge, MineBlock, Reorganize
    <3>2. QED
      BY <1>1, <3>1, FaultCounts
  <2>4. QED
    BY <2>1, <2>2, <2>3, ScanInvKept DEF ScannerInv
<1>3. ASSUME blocks' = blocks, ScanInv'
      PROVE  ScannerInv'
  BY <1>1, <1>3 DEF ScannerInv
<1>4. CASE BeginScan
  BY <1>3, <1>4, BeginScanStep DEF BeginScan
<1>5. CASE ReadEvents
  BY <1>3, <1>5, ReadEventsStep DEF ReadEvents
<1>6. CASE BeginProcessing
  BY <1>3, <1>6, BeginProcessingStep DEF BeginProcessing
<1>7. CASE ProcessEvent
  BY <1>3, <1>7, ProcessEventStep DEF ProcessEvent
<1>8. CASE Commit
  BY <1>3, <1>8, CommitStep DEF Commit
<1>9. CASE ReadFails
  BY <1>3, <1>9, ReadFailsStep DEF ReadFails
<1>10. CASE Restart
  <2>1. faultsLeft' \in 0 .. MaxFaults
    BY <1>1, <1>10, FaultCounts DEF Restart
  <2>2. ScanInv'
    BY <1>10, <2>1, GivenUp DEF Restart
  <2>3. QED
    BY <1>3, <1>10, <2>2 DEF Restart
<1>11. CASE UNCHANGED vars
  <2>1. Keeps(blocks, blocks') /\ blocks' = blocks
    <3>1. blocks' = blocks
      BY <1>11 DEF vars
    <3>2. Len(blocks) \in Nat
      BY <1>1 DEF ChainInv, BlocksTypeOK
    <3>3. QED
      BY <3>1, <3>2 DEF Keeps
  <2>2. QED
    BY <1>1, <1>11, <2>1, ScanInvKept DEF vars, ScannerInv
<1>12. QED
  BY <1>2, <1>4, <1>5, <1>6, <1>7, <1>8, <1>9, <1>10, <1>11 DEF Next, ScanNewEvents

\* What the chain and the scanner keep, if no batch is too big for its uint8
\* (FastBTCBridge.sol:69).
THEOREM ScannerInvIsInvariant ==
    ASSUME BatchesFit
    PROVE  Spec => []ScannerInv
<1>1. Init => ScannerInv
  BY InitScannerInv
<1>2. ScannerInv /\ [Next]_vars => ScannerInv'
  BY NextScannerInv
<1>3. QED
  BY <1>1, <1>2, PTL DEF Spec

\* A scan reads between the last processed block and those that have their
\* confirmations, whatever becomes of the chain (scanner.ts:51-82).
THEOREM TypeCorrect ==
    ASSUME BatchesFit
    PROVE  Spec => []ScannerTypeOK
<1>1. ASSUME ScannerInv
      PROVE  ScannerTypeOK
  <2>1. ScanInv /\ lastProcessedBlock \in Nat /\ lastProcessedBlock >= StartBlock - 1
        /\ faultsLeft \in 0 .. MaxFaults
    BY <1>1, ScannerAssumption DEF ScannerInv, ScanInv
  <2>2. /\ DOMAIN database.status = Transfers
        /\ \A t \in Transfers :
             database.status[t] \in {"NOT_APPLICABLE", "NEW", "INVALID", "SENDING", "MINED",
                                     "REFUNDED", "RECLAIMED"}
    BY <2>1 DEF ScanInv, Reflects, SeenStatus, Statuses
  <2>3. scan # Idle => scan.toBlock \in lastProcessedBlock + 1 .. ConfirmedBlocks
    BY <2>1 DEF ScanInv
  <2>4. ASSUME scan.step = "reading"
        PROVE  /\ scan.fromBlock \in lastProcessedBlock + 1 .. scan.toBlock + 1
               /\ scan.filter \in DOMAIN Filters
               /\ scan.attempt \in 0 .. Retries
    <3>1. scan # Idle
      BY <2>4 DEF Idle
    <3>2. ReadingInv
      BY <1>1, <2>4, <3>1, ScanFacts DEF ProcessingInv
    <3>3. DOMAIN Filters = 1 .. 3
      BY DEF Filters
    <3>4. QED
      BY <3>2, <3>3 DEF ReadingInv
  <2>5. QED
    BY <2>1, <2>2, <2>3, <2>4 DEF ScannerTypeOK
<1>2. QED
  BY <1>1, ScannerInvIsInvariant, PTL

\* No order of calls makes a scan throw (scanner.ts:150), whatever the size of the
\* chunks, the confirmations and the retries.
THEOREM NeverThrows ==
    ASSUME BatchesFit
    PROVE  Spec => []ScanNeverThrows
<1>1. ScannerInv => ScanNeverThrows
  BY DEF ScannerInv, ScanInv, ScanNeverThrows
<1>2. QED
  BY <1>1, ScannerInvIsInvariant, PTL

-----------------------------------------------------------------------------
(* The database is a copy of the bridge *)

\* The copy that an invalid address makes of a block.
LEMMA SeenTransfers ==
    ASSUME NEW chain, ChainInv(chain), NEW b \in DOMAIN chain
    PROVE  Seen(chain[b].transfers) =
             [t \in Transfers |-> [status |-> SeenStatus(t, chain[b].transfers[t].status),
                                   hash |-> chain[b].transfers[t].hash]]
<1> DEFINE transfers == chain[b].transfers
<1>1. transfers = [t \in Transfers |-> [status |-> transfers[t].status, hash |-> transfers[t].hash]]
  BY DEF ChainInv, BlocksTypeOK
<1> HIDE DEF transfers
<1>2. ASSUME NEW t \in Transfers
      PROVE  (IF transfers[t].status = "NEW" /\ t \in InvalidAddresses
              THEN [transfers[t] EXCEPT !.status = "INVALID"] ELSE transfers[t])
             = [status |-> SeenStatus(t, transfers[t].status), hash |-> transfers[t].hash]
  <2>1. transfers[t] = [status |-> transfers[t].status, hash |-> transfers[t].hash]
    BY <1>1
  <2> DEFINE s == transfers[t].status
             h == transfers[t].hash
  <2>2. transfers[t] = [status |-> s, hash |-> h]
    BY <2>1
  <2> HIDE DEF s, h
  <2>3. [transfers[t] EXCEPT !.status = "INVALID"] = [status |-> "INVALID", hash |-> h]
    BY <2>2
  <2>4. QED
    BY <2>2, <2>3 DEF SeenStatus, s, h
<1>3. Seen(transfers) = [t \in Transfers |-> [status |-> SeenStatus(t, transfers[t].status),
                                              hash |-> transfers[t].hash]]
  BY <1>2 DEF Seen
<1>4. QED
  BY <1>3 DEF transfers

\* A database that says what the events up to a block say is a copy of it.
LEMMA ReflectsIsCopy ==
    ASSUME NEW chain, ChainInv(chain), NEW b \in DOMAIN chain, NEW db,
           Reflects(EventsUpTo(chain, b), db)
    PROVE  [t \in Transfers |-> [status |-> db.status[t], hash |-> db.btcTransactionHash[t]]]
             = Seen(chain[b].transfers)
<1> DEFINE E == EventsUpTo(chain, b)
           transfers == chain[b].transfers
<1>1. EventsOK(E)
  BY EventsAreOK
<1>2. ASSUME NEW t \in Transfers
      PROVE  /\ db.status[t] = SeenStatus(t, transfers[t].status)
             /\ db.btcTransactionHash[t] = transfers[t].hash
  <2>1. IsStatusAfter(E, t, transfers[t].status) /\ IsHashAfter(E, t, transfers[t].hash)
    BY DEF ChainInv, TransfersOK
  <2>2. PICK s \in Statuses \cup {"NOT_APPLICABLE"} :
           IsStatusAfter(E, t, s) /\ db.status[t] = SeenStatus(t, s)
    BY DEF Reflects
  <2>3. IsHashAfter(E, t, db.btcTransactionHash[t])
    BY DEF Reflects
  <2> HIDE DEF E, transfers
  <2>4. s = transfers[t].status
    BY <1>1, <2>1, <2>2, OneStatusAfter
  <2>5. db.btcTransactionHash[t] = transfers[t].hash
    BY <1>1, <2>1, <2>3, OneHashAfter
  <2>6. QED
    BY <2>2, <2>4, <2>5
<1>3. Seen(transfers) = [t \in Transfers |-> [status |-> SeenStatus(t, transfers[t].status),
                                              hash |-> transfers[t].hash]]
  BY SeenTransfers
<1> HIDE DEF transfers
<1>4. [t \in Transfers |-> [status |-> db.status[t], hash |-> db.btcTransactionHash[t]]]
        = [t \in Transfers |-> [status |-> SeenStatus(t, transfers[t].status),
                                hash |-> transfers[t].hash]]
  BY <1>2
<1>5. QED
  BY <1>3, <1>4 DEF transfers

\* What BridgeMirror calls history and mirror.
History == [b \in 1 .. CurrentBlock |-> Seen(blocks[b].transfers)]

Copied == [t \in Transfers |-> [status |-> database.status[t],
                                hash |-> database.btcTransactionHash[t]]]

LEMMA HistoryLength ==
    ASSUME NEW chain, BlocksTypeOK(chain), NEW history,
           history = [b \in 1 .. Len(chain) - 1 |-> Seen(chain[b].transfers)]
    PROVE  /\ Len(history) = Len(chain) - 1 /\ DOMAIN history = 1 .. Len(chain) - 1
           /\ \A b \in 1 .. Len(chain) - 1 : history[b] = Seen(chain[b].transfers)
<1> DEFINE n == Len(chain) - 1
<1>1. n \in Nat
  BY ScannerAssumption DEF BlocksTypeOK
<1> HIDE DEF n
<1>2. history = [b \in 1 .. n |-> Seen(chain[b].transfers)]
  BY DEF n
<1>3. history \in [1 .. n -> {Seen(chain[b].transfers) : b \in 1 .. n}]
  BY <1>2
<1>4. Len(history) = n
  BY <1>1, <1>3, FunctionIsSeq
<1>5. QED
  BY <1>2, <1>4 DEF n

LEMMA InitIsMirrorInit ==
    ASSUME Init
    PROVE  Mirror!Init
<1> DEFINE none == [t \in Transfers |-> [status |-> "NOT_APPLICABLE", hash |-> NoHash]]
<1>1. BlocksTypeOK(blocks) /\ ChainInv(blocks)
  BY InitScannerInv DEF ScannerInv, ChainInv
<1>2. Len(History) = Len(blocks) - 1 /\ DOMAIN History = 1 .. Len(blocks) - 1
      /\ \A b \in 1 .. Len(blocks) - 1 : History[b] = Seen(blocks[b].transfers)
  BY <1>1, HistoryLength DEF History, CurrentBlock
<1>3. Len(blocks) \in Nat /\ Len(blocks) >= StartBlock /\ StartBlock \in Nat
      /\ DOMAIN blocks = 1 .. Len(blocks)
  BY <1>1, ScannerAssumption DEF BlocksTypeOK
<1>4. lastProcessedBlock = StartBlock - 1
  BY DEF Init
<1>5. ScanInv
  BY InitScannerInv DEF ScannerInv
<1>6. ASSUME NEW b \in 1 .. Len(blocks) - 1
      PROVE  History[b] = Copied
  <2>1. b \in DOMAIN blocks /\ b \in 1 .. StartBlock
    <3>1. Len(blocks) = StartBlock
      BY <1>3, FunctionIsSeq DEF Init
    <3>2. QED
      BY <1>3, <3>1
  <2>2. blocks[b].transfers = none
    BY <2>1 DEF Init, EmptyBlock
  <2>3. Copied = none
    BY DEF Copied, Init
  <2>4. Seen(blocks[b].transfers) = none
    <3>1. Seen(blocks[b].transfers) =
             [t \in Transfers |-> [status |-> SeenStatus(t, none[t].status), hash |-> none[t].hash]]
      BY <1>1, <2>1, <2>2, SeenTransfers
    <3>2. \A t \in Transfers : none[t].status = "NOT_APPLICABLE" /\ none[t].hash = NoHash
      OBVIOUS
    <3>3. \A t : SeenStatus(t, "NOT_APPLICABLE") = "NOT_APPLICABLE"
      BY DEF SeenStatus
    <3>4. QED
      BY <3>1, <3>2, <3>3
  <2>5. QED
    BY <1>2, <2>3, <2>4
<1>7. Len(History) >= lastProcessedBlock
  BY <1>2, <1>3, <1>4
<1>8. \A b \in DOMAIN History : History[b] = Copied
  BY <1>2, <1>6
<1>9. QED
  BY <1>4, <1>7, <1>8 DEF Mirror!Init, History, Copied

\* A call of the bridge, a new block or a reorganization changes no block that has
\* been copied.
LEMMA ChainIsMirrorBlocksChange ==
    ASSUME ChainInv(blocks), ChainInv(blocks'), Keeps(blocks, blocks'), ScanInv,
           UNCHANGED <<lastProcessedBlock, database>>
    PROVE  Mirror!BlocksChange
<1>1. /\ Len(History) = Len(blocks) - 1
      /\ \A b \in 1 .. Len(blocks) - 1 : History[b] = Seen(blocks[b].transfers)
  BY HistoryLength DEF History, CurrentBlock, ChainInv
<1>2. /\ Len(History') = Len(blocks') - 1
      /\ \A b \in 1 .. Len(blocks') - 1 : History'[b] = Seen(blocks'[b].transfers)
  BY HistoryLength DEF History, CurrentBlock, ChainInv
<1>3. /\ Len(blocks) \in Nat /\ Len(blocks) >= StartBlock
      /\ Len(blocks') \in Nat /\ Len(blocks') >= Len(blocks)
      /\ StartBlock \in Nat \ {0} /\ RequiredConfirmations \in Nat
  BY ScannerAssumption DEF ChainInv, BlocksTypeOK, Keeps
<1>4. /\ lastProcessedBlock \in Nat
      /\ \/ lastProcessedBlock = StartBlock - 1
         \/ lastProcessedBlock \in StartBlock .. Len(blocks) - 1 - RequiredConfirmations
  BY DEF ScanInv, ConfirmedBlocks, CurrentBlock
<1>5. Len(History') >= Len(History)
  BY <1>1, <1>2, <1>3
<1>6. ASSUME NEW b \in 1 .. lastProcessedBlock
      PROVE  History'[b] = History[b]
  <2>1. b \in 1 .. Len(blocks) - 1 /\ b \in 1 .. Len(blocks') - 1
    BY <1>3, <1>4, <1>6
  <2>2. blocks'[b].transfers = blocks[b].transfers
    BY <1>3, <1>4, <1>6 DEF Keeps
  <2>3. QED
    BY <1>1, <1>2, <2>1, <2>2
<1>7. UNCHANGED <<lastProcessedBlock, Copied>>
  BY DEF Copied
<1>8. QED
  BY <1>5, <1>6, <1>7 DEF Mirror!BlocksChange, History, Copied

\* The commit of a scan is the copy of a block.
LEMMA CommitIsMirrorCopy ==
    ASSUME ScannerInv, ScannerInv', Commit
    PROVE  Mirror!Copy
<1>1. blocks' = blocks /\ ChainInv(blocks)
  BY DEF Commit, ScannerInv
<1>2. /\ Len(History) = Len(blocks) - 1
      /\ \A b \in 1 .. Len(blocks) - 1 : History[b] = Seen(blocks[b].transfers)
  BY <1>1, HistoryLength DEF History, CurrentBlock, ChainInv
<1>3. /\ Len(blocks) \in Nat /\ DOMAIN blocks = 1 .. Len(blocks)
      /\ RequiredConfirmations \in Nat
  BY <1>1, ScannerAssumption DEF ChainInv, BlocksTypeOK
<1>4. lastProcessedBlock \in Nat
  BY DEF ScannerInv, ScanInv
<1>5. lastProcessedBlock' \in lastProcessedBlock + 1 .. Len(blocks) - 1 - RequiredConfirmations
  BY DEF Commit, ScannerInv, ScanInv, Idle, ConfirmedBlocks, CurrentBlock
<1>6. lastProcessedBlock' \in DOMAIN blocks /\ lastProcessedBlock' \in 1 .. Len(blocks) - 1
  BY <1>3, <1>4, <1>5
<1>7. Reflects(EventsUpTo(blocks, lastProcessedBlock'), database')
  BY <1>1 DEF ScannerInv, ScanInv
<1>8. Copied' = Seen(blocks[lastProcessedBlock'].transfers)
  BY <1>1, <1>6, <1>7, ReflectsIsCopy DEF Copied
<1>9. Copied' = History[lastProcessedBlock']
  BY <1>2, <1>6, <1>8
<1>10. lastProcessedBlock' \in lastProcessedBlock + 1 .. Len(History) - RequiredConfirmations
  BY <1>2, <1>5
<1>11. History' = History
  BY <1>1 DEF History, CurrentBlock
<1>12. QED
  BY <1>9, <1>10, <1>11 DEF Mirror!Copy, History, Copied

LEMMA NextIsMirrorNext ==
    ASSUME BatchesFit, ScannerInv, ScannerInv', [Next]_vars
    PROVE  \/ Mirror!Next
           \/ UNCHANGED <<lastProcessedBlock, History, Copied>>
<1>1. ChainInv(blocks) /\ ChainInv(blocks') /\ ScanInv
  BY DEF ScannerInv
<1>2. CASE \/ \E call \in PossibleCalls, transaction \in 1 .. Last(blocks).transactions + 1 :
                 CallBridge(call, transaction)
           \/ MineBlock
           \/ \E b \in DOMAIN blocks : Reorganize(b)
  <2>1. Keeps(blocks, blocks')
    BY <1>1, <1>2, ChainSteps
  <2>2. UNCHANGED <<lastProcessedBlock, database>>
    BY <1>2 DEF CallBridge, MineBlock, Reorganize
  <2>3. QED
    BY <1>1, <2>1, <2>2, ChainIsMirrorBlocksChange DEF Mirror!Next
<1>3. CASE Commit
  BY <1>3, CommitIsMirrorCopy DEF Mirror!Next
<1>4. CASE UNCHANGED <<blocks, lastProcessedBlock, database>>
  BY <1>4 DEF History, Copied, CurrentBlock
<1>5. CASE BeginScan \/ ReadEvents \/ BeginProcessing \/ ProcessEvent \/ ReadFails \/ Restart
  BY <1>4, <1>5 DEF BeginScan, ReadEvents, BeginProcessing, ProcessEvent, ReadFails, Restart
<1>6. CASE UNCHANGED vars
  BY <1>4, <1>6 DEF vars
<1>7. QED
  BY <1>2, <1>3, <1>5, <1>6 DEF Next, ScanNewEvents

\* The database is always a copy of what the bridge said after one confirmed block,
\* and goes to a later one in one step (scanner.ts:51-189): what the node's other
\* parts read there is never half an update, nor taken back by a reorganization.
THEOREM ScannerImplementsMirror ==
    ASSUME BatchesFit
    PROVE  Spec => ImplementsMirror
<1>1. Init => Mirror!Init
  BY InitIsMirrorInit
<1>2. ScannerInv /\ ScannerInv' /\ [Next]_vars
        => [Mirror!Next]_<<History, lastProcessedBlock, Copied>>
  BY NextIsMirrorNext
<1>3. QED
  BY <1>1, <1>2, ScannerInvIsInvariant, PTL DEF Spec, ImplementsMirror, Mirror!Spec, History, Copied
=============================================================================
