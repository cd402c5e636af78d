---------------------------- MODULE EventScanner ----------------------------
(***************************************************************************)
(* rsk/scanner.ts and rsk/utils.ts: how a node copies what the bridge did  *)
(* to transfers into its database. It reads the events of the blocks that  *)
(* have enough confirmations in chunks, each kind of event with a request  *)
(* of its own, while the chain goes on, requests fail and the node         *)
(* restarts.                                                               *)
(*                                                                         *)
(* A call of the bridge, [ids, status], moves transfers to a status; if    *)
(* that is SENDING it announces the hash of the Bitcoin transaction that   *)
(* pays exactly these transfers, which is known by them. A block holds the *)
(* events of its calls, and what the bridge says of the transfers after    *)
(* them.                                                                   *)
(***************************************************************************)
EXTENDS Integers, Sequences, SequencesExt

CONSTANTS
    Transfers,
    InvalidAddresses,        \* the transfers to an address that Bitcoin does not know
    StartBlock,              \* config.rskStartBlock
    RequiredConfirmations,   \* config.rskRequiredConfirmations
    BatchSize,               \* blocks of a chunk
    Retries,
    NoHash,                  \* the empty string
    PossibleCalls,           \* calls of the bridge that are tried
    MaxBlocks,               \* bound on the blocks
    MaxFaults                \* bound on what goes wrong

ASSUME ScannerAssumption ==
    /\ InvalidAddresses \subseteq Transfers
    /\ PossibleCalls \subseteq
         [ids : Seq(Transfers) \ {<<>>},
          status : {"NEW", "SENDING", "MINED", "REFUNDED", "RECLAIMED"}]
    /\ \A call \in PossibleCalls : call.status = "NEW" => Len(call.ids) = 1
    /\ StartBlock \in Nat \ {0}
    /\ RequiredConfirmations \in Nat
    /\ BatchSize \in Nat \ {0}
    /\ Retries \in Nat
    /\ MaxBlocks \in Nat
    /\ MaxFaults \in Nat

VARIABLES
    blocks,                 \* the chain; the last block is being made
    lastProcessedBlock,     \* in the database, as is the next
    database,
    scan,                   \* the scan that is going on
    thrown,                 \* history: processing events threw an error
    faultsLeft

vars == <<blocks, lastProcessedBlock, database, scan, thrown, faultsLeft>>

Fault == faultsLeft > 0 /\ faultsLeft' = faultsLeft - 1

-----------------------------------------------------------------------------
(* The bridge *)

\* NewBitcoinTransfer, BitcoinTransferStatusUpdated and BitcoinTransferBatchSending,
\* whose size is a uint8.
EventsOf(call) ==
    LET updates == [i \in DOMAIN call.ids |->
                      [name |-> "StatusUpdated", id |-> call.ids[i], newStatus |-> call.status]]
    IN  CASE call.status = "NEW" -> <<[name |-> "NewTransfer", id |-> call.ids[1]]>>
          [] call.status = "SENDING" ->
               <<[name |-> "BatchSending", bitcoinTxHash |-> call.ids,
                  transferBatchSize |-> Len(call.ids) % 256]>> \o updates
          [] OTHER -> updates

EmptyBlock(transfers) == [transactions |-> 0, log |-> <<>>, transfers |-> transfers]

Required(status) ==
    CASE status = "NEW" -> "NOT_APPLICABLE" [] status = "MINED" -> "SENDING" [] OTHER -> "NEW"

\* A call does not revert if each transfer has the status it must have, and, as it
\* changes at once, none is named twice.
Succeeds(call, transfers) ==
    /\ \A t \in ToSet(call.ids) : transfers[t].status = Required(call.status)
    /\ \A i, j \in DOMAIN call.ids : i # j => call.ids[i] # call.ids[j]

\* What the bridge says of the transfers after the call.
TransfersAfter(call, transfers) ==
    [t \in Transfers |->
        IF t \notin ToSet(call.ids) THEN transfers[t]
        ELSE [status |-> call.status,
              hash |-> IF call.status = "SENDING" THEN call.ids ELSE transfers[t].hash]]

\* The events of the call follow the others in the log of the block.
Placed(call, transaction, number, log) ==
    [i \in DOMAIN EventsOf(call) |->
        [block |-> number, transaction |-> transaction, log |-> Len(log) + i,
         args |-> EventsOf(call)[i]]]

BlockAfter(call, transaction, number, block) ==
    [transactions |-> transaction,
     log |-> block.log \o Placed(call, transaction, number, block.log),
     transfers |-> TransfersAfter(call, block.transfers)]

\* The calls are part of the last transaction of the block being made, or of one of
\* their own. (What the last blocks before the bound do is never scanned.)
CallBridge(call, transaction) ==
    LET made == Len(blocks)
    IN  /\ made + RequiredConfirmations < MaxBlocks
        /\ Succeeds(call, blocks[made].transfers)
        /\ transaction \in {blocks[made].transactions, blocks[made].transactions + 1} \ {0}
        /\ blocks' = [blocks EXCEPT ![made] = BlockAfter(call, transaction, made, @)]
        /\ UNCHANGED <<lastProcessedBlock, database, scan, thrown, faultsLeft>>

MineBlock ==
    /\ Len(blocks) < MaxBlocks
    /\ blocks' = Append(blocks, EmptyBlock(Last(blocks).transfers))
    /\ UNCHANGED <<lastProcessedBlock, database, scan, thrown, faultsLeft>>

CurrentBlock == Len(blocks) - 1

\* RSK replaces the blocks after b, which have too few confirmations, by others.
Reorganize(b) ==
    /\ Fault
    /\ b >= CurrentBlock - RequiredConfirmations
    /\ blocks' = [i \in DOMAIN blocks |->
                    IF i <= b THEN blocks[i] ELSE EmptyBlock(blocks[b].transfers)]
    /\ UNCHANGED <<lastProcessedBlock, database, scan, thrown>>

-----------------------------------------------------------------------------
(* getEvents *)

\* contract.queryFilter.
QueryFilter(name, from, to) ==
    {event \in UNION {ToSet(blocks[b].log) : b \in from .. to} : event.args.name = name}

\* By block, transaction and log index (in a block the latter says it all).
SortsBefore(a, b) == a.block < b.block \/ (a.block = b.block /\ a.log < b.log)

\* Wrong: they come in order anyway.
FirstToArrive(arrivals) ==
    LET a \prec b ==
            \/ a.request[1] < b.request[1]
            \/ a.request[1] = b.request[1] /\ a.request[2] < b.request[2]
            \/ a.request = b.request /\ SortsBefore(a.event, b.event)
    IN  CHOOSE a \in arrivals : \A b \in arrivals : ~(b \prec a)

\* Which of the events that arrived comes first when they are sorted.
FirstSorted(arrivals) ==
    CHOOSE a \in arrivals : \A b \in arrivals : ~SortsBefore(b.event, a.event)

Filters == <<"NewTransfer", "StatusUpdated", "BatchSending">>

Idle == [step |-> "idle"]

\* Wrong: nobody waits for confirmations.
BlocksSoFar == CurrentBlock

ConfirmedBlocks == CurrentBlock - RequiredConfirmations

\* Wrong: it does not matter whether there are new blocks.
BeginScanAnyway ==
    /\ scan = Idle
    /\ scan' = [step |-> "reading", fromBlock |-> lastProcessedBlock + 1,
                toBlock |-> ConfirmedBlocks, filter |-> 1, attempt |-> 0, arrivals |-> {}]
    /\ UNCHANGED <<blocks, lastProcessedBlock, database, thrown, faultsLeft>>

\* scanNewEvents begins, unless there are no new blocks.
BeginScan ==
    /\ scan = Idle
    /\ lastProcessedBlock + 1 <= ConfirmedBlocks
    /\ scan' = [step |-> "reading", fromBlock |-> lastProcessedBlock + 1,
                toBlock |-> ConfirmedBlocks, filter |-> 1, attempt |-> 0, arrivals |-> {}]
    /\ UNCHANGED <<blocks, lastProcessedBlock, database, thrown, faultsLeft>>

BatchToBlock ==
    IF scan.toBlock < scan.fromBlock + BatchSize - 1
    THEN scan.toBlock ELSE scan.fromBlock + BatchSize - 1

HasMoreToRead == scan.step = "reading" /\ scan.fromBlock <= scan.toBlock

\* The events of one kind in one chunk arrive; then come the next kind, and the
\* next chunk.
ReadEvents ==
    /\ HasMoreToRead
    /\ LET read == QueryFilter(Filters[scan.filter], scan.fromBlock, BatchToBlock)
           request == <<scan.fromBlock, scan.filter>>
       IN  scan' = [scan EXCEPT
                      !.arrivals = @ \cup {[request |-> request, event |-> event] : event \in read},
                      !.attempt = 0,
                      !.filter = IF @ < Len(Filters) THEN @ + 1 ELSE 1,
                      !.fromBlock = IF scan.filter < Len(Filters) THEN @ ELSE BatchToBlock + 1]
    /\ UNCHANGED <<blocks, lastProcessedBlock, database, thrown, faultsLeft>>

\* The request fails, and is repeated, or the scan fails with it.
ReadFails ==
    /\ HasMoreToRead
    /\ Fault
    /\ scan' = IF scan.attempt + 1 > Retries THEN Idle ELSE [scan EXCEPT !.attempt = @ + 1]
    /\ UNCHANGED <<blocks, lastProcessedBlock, database, thrown>>

-----------------------------------------------------------------------------
(* Processing the events *)

\* Wrong: the last transfer of a batch does not count.
CommitmentBeforeTheLast(commitments, event) ==
    {c \in commitments : /\ c.block = event.block /\ c.transaction = event.transaction
                         /\ c.log < event.log /\ event.log < c.log + c.transferBatchSize}

\* The commitment in the same transaction among whose updates this event is.
CommitmentsOf(commitments, event) ==
    {c \in commitments : /\ c.block = event.block /\ c.transaction = event.transaction
                         /\ c.log < event.log /\ event.log <= c.log + c.transferBatchSize}

Commitment(event) ==
    [block |-> event.block, transaction |-> event.transaction, log |-> event.log,
     btcTransactionHash |-> event.args.bitcoinTxHash,
     transferBatchSize |-> event.args.transferBatchSize]

\* All has been read and gets sorted: a database transaction begins.
BeginProcessing ==
    /\ scan.step = "reading"
    /\ scan.fromBlock > scan.toBlock
    /\ scan' = [step |-> "processing", toBlock |-> scan.toBlock,
                arrivals |-> scan.arrivals, database |-> database]
    /\ UNCHANGED <<blocks, lastProcessedBlock, database, thrown, faultsLeft>>

Processed(newDatabase) ==
    /\ scan' = [scan EXCEPT !.arrivals = @ \ {FirstSorted(@)}, !.database = newDatabase]
    /\ UNCHANGED thrown

\* The transaction is rolled back.
Throw ==
    /\ scan' = Idle
    /\ thrown' = TRUE

OnNewTransfer(event) ==
    LET status == IF event.args.id \in InvalidAddresses THEN "INVALID" ELSE "NEW"
    IN  /\ event.args.name = "NewTransfer"
        /\ Processed([scan.database EXCEPT !.status[event.args.id] = status])

\* It throws if it does not know the transfer, or finds no commitment.
OnStatusUpdated(event) ==
    LET id == event.args.id
        isSending == event.args.newStatus = "SENDING"
        updated == [scan.database EXCEPT !.status[id] = event.args.newStatus]
        found == CommitmentsOf(scan.database.commitments, event)
    IN  /\ event.args.name = "StatusUpdated"
        /\ IF scan.database.status[id] = "NOT_APPLICABLE" \/ (isSending /\ found = {})
           THEN Throw
           ELSE \/ ~isSending /\ Processed(updated)
                \/ /\ isSending
                   /\ \E last \in found :
                        /\ \A c \in found : c.log <= last.log
                        /\ Processed([updated EXCEPT
                                        !.btcTransactionHash[id] = last.btcTransactionHash])

\* The hash is unique in the database.
OnBatchSending(event) ==
    /\ event.args.name = "BatchSending"
    /\ IF \E c \in scan.database.commitments : c.btcTransactionHash = event.args.bitcoinTxHash
       THEN Throw
       ELSE Processed([scan.database EXCEPT !.commitments = @ \cup {Commitment(event)}])

ProcessEvent ==
    /\ scan.step = "processing"
    /\ scan.arrivals # {}
    /\ LET event == FirstSorted(scan.arrivals).event
       IN  OnNewTransfer(event) \/ OnStatusUpdated(event) \/ OnBatchSending(event)
    /\ UNCHANGED <<blocks, lastProcessedBlock, database, faultsLeft>>

\* The transaction is committed, with the last processed block.
Commit ==
    /\ scan.step = "processing"
    /\ scan.arrivals = {}
    /\ database' = scan.database
    /\ lastProcessedBlock' = scan.toBlock
    /\ scan' = Idle
    /\ UNCHANGED <<blocks, thrown, faultsLeft>>

\* The node restarts, or loses its database connection.
Restart ==
    /\ Fault
    /\ scan # Idle
    /\ scan' = Idle
    /\ UNCHANGED <<blocks, lastProcessedBlock, database, thrown>>

-----------------------------------------------------------------------------
Init ==
    /\ blocks = [b \in 1 .. StartBlock |->
                   EmptyBlock([t \in Transfers |-> [status |-> "NOT_APPLICABLE", hash |-> NoHash]])]
    /\ lastProcessedBlock = StartBlock - 1
    /\ database = [status |-> [t \in Transfers |-> "NOT_APPLICABLE"],
                   btcTransactionHash |-> [t \in Transfers |-> NoHash],
                   commitments |-> {}]
    /\ scan = Idle
    /\ thrown = FALSE
    /\ faultsLeft = MaxFaults

ScanNewEvents == BeginScan \/ ReadEvents \/ BeginProcessing \/ ProcessEvent \/ Commit

Next ==
    \/ \E call \in PossibleCalls, transaction \in 1 .. Last(blocks).transactions + 1 :
          CallBridge(call, transaction)
    \/ MineBlock
    \/ \E b \in DOMAIN blocks : Reorganize(b)
    \/ ScanNewEvents
    \/ ReadFails
    \/ Restart

Spec == Init /\ [][Next]_vars

\* The main loop goes on scanning.
FairSpec == Spec /\ WF_vars(ScanNewEvents)

-----------------------------------------------------------------------------
\* Type invariant: a scan reads between the last processed block and those that
\* have their confirmations, whatever becomes of the chain meanwhile.
ScannerTypeOK ==
    /\ lastProcessedBlock >= StartBlock - 1
    /\ scan # Idle => scan.toBlock \in lastProcessedBlock + 1 .. ConfirmedBlocks
    /\ scan.step = "reading" =>
         /\ scan.fromBlock \in lastProcessedBlock + 1 .. scan.toBlock + 1
         /\ scan.filter \in DOMAIN Filters
         /\ scan.attempt \in 0 .. Retries
    /\ DOMAIN database.status = Transfers
    /\ \A t \in Transfers :
         database.status[t] \in {"NOT_APPLICABLE", "NEW", "INVALID", "SENDING", "MINED",
                                 "REFUNDED", "RECLAIMED"}
    /\ faultsLeft \in 0 .. MaxFaults

\* "We should always see a BitcoinTransferBatchSending event" before the updates to
\* SENDING (scanner.ts:150): no order of calls, be it in one transaction, makes the
\* scan throw, and so repeat for ever: requests by kind of event and chunk by chunk
\* lose none of the events, and put none before what it needs.
ScanNeverThrows == ~thrown

\* The scanner takes a new transfer with an unknown address for invalid.
Seen(transfers) ==
    [t \in Transfers |->
        IF transfers[t].status = "NEW" /\ t \in InvalidAddresses
        THEN [transfers[t] EXCEPT !.status = "INVALID"] ELSE transfers[t]]

Mirror ==
    INSTANCE BridgeMirror WITH
        FirstBlock <- StartBlock,
        history <- [b \in 1 .. CurrentBlock |-> Seen(blocks[b].transfers)],
        copied <- lastProcessedBlock,
        mirror <- [t \in Transfers |-> [status |-> database.status[t],
                                        hash |-> database.btcTransactionHash[t]]]

\* The database goes from a copy of the bridge after one confirmed block to a copy
\* of it after a later one, in one step, and with the hash that a transfer's own
\* batch was committed with: nodes sign for Bitcoin by it ("to avoid double
\* spending", models.ts:204).
ImplementsMirror == Mirror!Spec

\* A node that goes on scanning gets all there is, although requests fail, scans are
\* given up and the chain goes on.
CatchesUp == []<>(lastProcessedBlock >= ConfirmedBlocks)
=============================================================================
