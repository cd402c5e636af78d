---------------------------- MODULE FastBTCNode ----------------------------
(***************************************************************************)
(* The fastbtc-node network: core/node.ts, core/transfers.ts, db/models.ts *)
(* and rsk/scanner.ts. One node, the initiator, gathers signatures for a   *)
(* batch of transfers, marks it as sending on RSK together with the hash   *)
(* of the Bitcoin transaction that will pay it, sends that transaction to  *)
(* Bitcoin and marks the batch as mined. The others check and sign what it *)
(* asks for. Which node is the initiator changes, nodes restart, messages  *)
(* are lost, delayed and repeated, and RSK drops unconfirmed blocks.       *)
(*                                                                         *)
(* Transfers are numbered in the order users create them. A batch is known *)
(* by its Bitcoin transaction [coin, pays]: the multisig output it spends  *)
(* and the transfers it pays, in order; the hash is the record itself, so  *)
(* two transactions have one hash only if they are the same. The signature *)
(* of a node is the node's name: no node signs what the model does not say *)
(* it signs.                                                               *)
(***************************************************************************)
EXTENDS Integers, Sequences, FiniteSets, Bags, FiniteSetsExt

CONSTANTS
    Nodes,
    NumTransfers,         \* transfers that users create
    TotalAmount,          \* what each of them costs, in BTC
    MaxTransfersInBatch,  \* config.maxTransfersInBatch
    MaxBtcInBatch,        \* MAX_BTC_IN_BATCH
    NumRequiredSigners,   \* config.numRequiredSigners; the contract asks as many
    NumCoins,             \* outputs the multisig wallet starts with
    InitialInitiators,    \* whom each node takes for the initiator at the start
    Turns,                \* <<node, initiator>>: which node may turn to which
    Returns,              \* <<transfer, status>>: who may reclaim or be refunded
    NoBatch

\* Bounds: how many transfers users create, and how often it happens that one is
\* returned, a node turns to another initiator, restarts or gives up waiting, and
\* that RSK drops blocks.
CONSTANT Scenarios

\* Bound on the messages of a node that may still arrive: when there are more, the
\* network has lost some.
CONSTANT MaxInFlight

Transfers == 1 .. NumTransfers

\* A Bitcoin transaction, who signed something and how often, and a TransferBatch.
Transactions == [coin : Nat, pays : Seq(Transfers)]

Signatures == UNION {[S -> Nat \ {0}] : S \in SUBSET Nodes}

Batches == [tx : Transactions, sendingSigners : Signatures, bitcoinSigners : SUBSET Nodes,
            minedSigners : Signatures]

ASSUME NodeAssumption ==
    /\ IsFiniteSet(Nodes)
    /\ NoBatch \notin Batches
    /\ InitialInitiators \in [Nodes -> Nodes]
    /\ Turns \subseteq Nodes \X Nodes
    /\ NumTransfers \in Nat \ {0}
    /\ TotalAmount \in [1 .. NumTransfers -> Nat]
    /\ MaxTransfersInBatch \in Nat \ {0}
    /\ MaxBtcInBatch \in Nat
    /\ NumRequiredSigners \in 2 .. Cardinality(Nodes)
    /\ NumCoins \in Nat \ {0}
    /\ Returns \subseteq (1 .. NumTransfers) \X {"RECLAIMED", "REFUNDED"}
    /\ Scenarios \subseteq
         [transfers : 1 .. NumTransfers, returns : Nat, changes : Nat, restarts : Nat,
          timeouts : Nat, reorgs : Nat, turned : {{}}, unreclaimed : {{}}]
    /\ MaxInFlight \in Nat \ {0}

VARIABLES
    chain,      \* what RSK transactions did to transfers, in order
    final,      \* entries of chain that have rskRequiredConfirmations
    rskPool,    \* transactions nodes sent to RSK that are in no block
    submitted,  \* transactions nodes sent to Bitcoin
    mined,      \* Bitcoin transactions with btcRequiredConfirmations, in order
    requests,   \* node -> messages it broadcast that may still arrive
    responses,  \* signatures on their way to an initiator
    scanned,    \* node -> entries of chain its event scanner has processed
    status,     \* node -> transfer -> status in its database
    stored,     \* node -> its StoredBitcoinTransferBatch rows, by createdAt
    current,    \* node -> transientInitiatorData.currentTransferBatch
    phase,      \* node -> where its main loop is
    initiator,  \* node -> whom it takes for the initiator
    scenario    \* how many transfers there may be, what may still happen, and what did:
                \* turned, the nodes that turned to another initiator, and unreclaimed,
                \* the transfers whose reclaim RSK dropped (no step depends on these)

chainVars == <<chain, final, rskPool>>
bitcoinVars == <<submitted, mined>>
messageVars == <<requests, responses>>
vars == <<chain, final, rskPool, submitted, mined, requests, responses, scanned,
          status, stored, current, phase, initiator, scenario>>

HappensTo(what, history, members) ==
    /\ scenario[what] > 0
    /\ scenario' = [scenario EXCEPT ![what] = @ - 1, ![history] = @ \cup members]

Happens(what) ==
    /\ scenario[what] > 0
    /\ scenario' = [scenario EXCEPT ![what] = @ - 1]

-----------------------------------------------------------------------------
(* RSK *)

SetOf(seq) == {seq[i] : i \in DOMAIN seq}

\* The members of a set of numbers, the smallest first.
InOrder(S) == [i \in 1 .. Cardinality(S) |-> CHOOSE x \in S : Cardinality({y \in S : y < x}) = i - 1]

\* What is left of seq at the indices in kept.
Filtered(seq, kept) == [i \in DOMAIN InOrder(kept) |-> seq[InOrder(kept)[i]]]

\* An entry that concerns t; a transaction that reverted has no identifiers.
Concerns(entry, t) == t \in SetOf(entry.ids)

\* Status of t after the first m entries of the chain.
StatusAt(m, t) ==
    IF \E i \in 1 .. m : Concerns(chain[i], t)
    THEN chain[CHOOSE i \in 1 .. m :
                 /\ Concerns(chain[i], t)
                 /\ \A j \in i + 1 .. m : ~Concerns(chain[j], t)].status
    ELSE "NOT_APPLICABLE"

OnRsk(t) == StatusAt(Len(chain), t)

AllOnRsk(ids, s) == \A i \in DOMAIN ids : OnRsk(ids[i]) = s

\* checkFederatorSignatures: enough signatures, each by a federator of its own.
EnoughSigners(signers) ==
    /\ BagCardinality(signers) = Cardinality(BagToSet(signers))
    /\ BagCardinality(signers) >= NumRequiredSigners

\* markTransfersAsSending and markTransfersAsMined do not revert.
Accepted(rskTx) ==
    /\ EnoughSigners(rskTx.signers)
    /\ AllOnRsk(rskTx.tx.pays, IF rskTx.status = "SENDING" THEN "NEW" ELSE "SENDING")

UserEntry(t, s) == [status |-> s, ids |-> <<t>>, tx |-> NoBatch, by |-> NoBatch]

\* A user creates a transfer.
TransferToBtc(t) ==
    /\ t <= scenario.transfers
    /\ OnRsk(t) = "NOT_APPLICABLE"
    /\ t = 1 \/ OnRsk(t - 1) # "NOT_APPLICABLE"
    /\ chain' = Append(chain, UserEntry(t, "NEW"))
    /\ UNCHANGED <<final, rskPool, bitcoinVars, messageVars, scanned, status, stored,
                   current, phase, initiator, scenario>>

\* Wrong: the status is not checked.
ReturnTransferEvenIfSending(t, s) ==
    /\ <<t, s>> \in Returns
    /\ OnRsk(t) \in {"NEW", "SENDING"}
    /\ Happens("returns")
    /\ chain' = Append(chain, UserEntry(t, s))
    /\ UNCHANGED <<final, rskPool, bitcoinVars, messageVars, scanned, status, stored,
                   current, phase, initiator>>

\* A user reclaims a transfer, or federators refund it.
ReturnTransfer(t, s) ==
    /\ <<t, s>> \in Returns
    /\ OnRsk(t) = "NEW"
    /\ Happens("returns")
    /\ chain' = Append(chain, UserEntry(t, s))
    /\ UNCHANGED <<final, rskPool, bitcoinVars, messageVars, scanned, status, stored,
                   current, phase, initiator>>

\* A block includes a transaction of a node: it changes the statuses, or it
\* reverts, which matters only to a node that waits for it.
IncludeRskTransaction(rskTx) ==
    /\ \/ /\ Accepted(rskTx)
          /\ chain' = Append(chain, [status |-> rskTx.status, ids |-> rskTx.tx.pays,
                                     tx |-> rskTx.tx, by |-> rskTx])
       \/ /\ ~Accepted(rskTx)
          /\ phase[rskTx.by] = rskTx.status
          /\ chain' = Append(chain, [status |-> "REVERTED", ids |-> <<>>,
                                     tx |-> NoBatch, by |-> rskTx])
       \/ /\ ~Accepted(rskTx)
          /\ phase[rskTx.by] # rskTx.status
          /\ UNCHANGED chain
    /\ rskPool' = rskPool \ {rskTx}
    /\ UNCHANGED <<final, bitcoinVars, messageVars, scanned, status, stored, current,
                   phase, initiator, scenario>>

\* RSK drops the blocks after the first m entries; the transactions of nodes
\* may be included again.
Reorganize(m) ==
    /\ HappensTo("reorgs", "unreclaimed",
         {t \in Transfers : \E i \in m + 1 .. Len(chain) :
            chain[i].status = "RECLAIMED" /\ Concerns(chain[i], t)})
    /\ chain' = SubSeq(chain, 1, m)
    /\ rskPool' = (rskPool \cup {chain[i].by : i \in m + 1 .. Len(chain)}) \ {NoBatch}
    /\ UNCHANGED <<final, bitcoinVars, messageVars, scanned, status, stored, current,
                   phase, initiator>>

-----------------------------------------------------------------------------
(* Bitcoin *)

\* Coin NumCoins + i is the change of the i-th mined transaction.
Unspent == (1 .. NumCoins + Len(mined)) \ {mined[i].coin : i \in DOMAIN mined}

\* createPartiallySignedTransaction takes the coin with the most confirmations
\* in its wallet. The first coins are equally old, and come in any order. A
\* wallet does not list the coins of the submitted transactions it knows.
Age(coin) == IF coin <= NumCoins THEN 0 ELSE coin

OldestCoins ==
    {c \in Unspent : \A older \in Unspent :
        Age(older) < Age(c) => older \in {tx.coin : tx \in submitted}}

\* Wrong: a transaction in the mempool counts.
IsMinedOrSubmitted(tx) == tx \in submitted

IsMined(tx) == \E i \in DOMAIN mined : mined[i] = tx

MineBitcoinTransaction(tx) ==
    /\ tx.coin \in Unspent
    /\ mined' = Append(mined, tx)
    /\ UNCHANGED <<chainVars, submitted, messageVars, scanned, status, stored, current,
                   phase, initiator, scenario>>

-----------------------------------------------------------------------------
(* TransferBatch, in the eyes of node n *)

NewBatch(tx) ==
    [tx |-> tx, sendingSigners |-> EmptyBag, bitcoinSigners |-> {}, minedSigners |-> EmptyBag]

Ids(batch) == batch.tx.pays

Statuses(n, batch) == {status[n][t] : t \in SetOf(Ids(batch))}

\* Wrong: SENDING is missing from the valid statuses.
HasNewOrMinedState(n, batch) ==
    /\ Statuses(n, batch) \subseteq {"NEW", "MINED"}
    /\ Cardinality(Statuses(n, batch)) <= 1

HasValidTransferState(n, batch) ==
    /\ Statuses(n, batch) \subseteq {"NEW", "SENDING", "MINED"}
    /\ Cardinality(Statuses(n, batch)) <= 1

IsMarkedAsSending(n, batch) == Statuses(n, batch) \subseteq {"SENDING", "MINED"}

\* Wrong: a batch that is only being sent is taken for mined.
IsMarkedAsMinedOrSending(n, batch) == Statuses(n, batch) \subseteq {"SENDING", "MINED"}

IsMarkedAsMined(n, batch) == Statuses(n, batch) \subseteq {"MINED"}

\* How often n signed.
Copies(n, signers) == IF BagIn(n, signers) THEN signers[n] ELSE 0

HasEnough(signers) == BagCardinality(signers) >= NumRequiredSigners
HasEnoughBitcoinSignatures(batch) == Cardinality(batch.bitcoinSigners) >= NumRequiredSigners

\* validateRskSignatures: nobody signed twice.
NoneSignedTwice(signers) == \A n \in BagToSet(signers) : signers[n] = 1

\* hasValidState: the local statuses are valid and those of the contract.
HasValidState(n, batch) ==
    /\ Ids(batch) # <<>>
    /\ HasValidTransferState(n, batch)
    /\ \A t \in SetOf(Ids(batch)) : status[n][t] = OnRsk(t)

\* validateTransferBatch without the status of the contract. Every PSBT of the
\* model pays the transfers of its batch, as validatePsbt demands.
IsSound(n, batch) ==
    /\ HasValidTransferState(n, batch)
    /\ NoneSignedTwice(batch.sendingSigners)
    /\ NoneSignedTwice(batch.minedSigners)

ValidForSigningSending(n, batch) ==
    /\ IsSound(n, batch)
    /\ AllOnRsk(Ids(batch), "NEW")

ValidForSigningMined(n, batch) ==
    /\ IsMined(batch.tx)
    /\ IsSound(n, batch)
    /\ AllOnRsk(Ids(batch), "SENDING")

\* transfer.btcTransactionHash is tx: the last SENDING entry of t that n scanned.
ScannedHash(n, t, tx) ==
    \E i \in 1 .. scanned[n] :
        /\ chain[i].status = "SENDING" /\ chain[i].tx = tx /\ Concerns(chain[i], t)
        /\ \A j \in i + 1 .. scanned[n] : ~(chain[j].status = "SENDING" /\ Concerns(chain[j], t))

\* Wrong: the commitment is looked up by the transfers, whatever the transaction.
HasCommitmentForTransfers(n, tx) ==
    \E i \in 1 .. scanned[n] : chain[i].status = "SENDING" /\ chain[i].ids = tx.pays

\* validateTransferBatchCommitment: RSK events that n scanned commit to tx.
HasCommitment(n, tx) ==
    /\ \E i \in 1 .. scanned[n] :
          /\ chain[i].status = "SENDING"
          /\ chain[i].tx = tx
          /\ Len(chain[i].ids) = Len(tx.pays)
    /\ \A t \in SetOf(tx.pays) : ScannedHash(n, t, tx)

ValidForSigningBitcoin(n, batch) ==
    /\ IsMarkedAsSending(n, batch)
    /\ IsSound(n, batch)
    /\ AllOnRsk(Ids(batch), "SENDING")
    /\ HasCommitment(n, batch.tx)

ValidForSendingToBitcoin(n, batch) ==
    /\ HasEnoughBitcoinSignatures(batch)
    /\ IsMarkedAsSending(n, batch)
    /\ IsSound(n, batch)

ValidComplete(n, batch) ==
    /\ IsMarkedAsSending(n, batch)
    /\ HasEnough(batch.minedSigners) \/ IsMarkedAsMined(n, batch)
    /\ IsMined(batch.tx)
    /\ batch.bitcoinSigners # {}
    /\ IsSound(n, batch)

-----------------------------------------------------------------------------
(* StoredBitcoinTransferBatch *)

\* findByTransferIds compares the identifiers as sets.
SameIds(row, batch) == SetOf(Ids(row.data)) = SetOf(Ids(batch))

\* createOrUpdateFromTransferBatch.
CreateOrUpdate(rows, batch, markFinalized) ==
    IF \E i \in DOMAIN rows : SameIds(rows[i], batch)
    THEN [i \in DOMAIN rows |->
             IF SameIds(rows[i], batch)
             THEN [data |-> batch, finalized |-> rows[i].finalized \/ markFinalized]
             ELSE rows[i]]
    ELSE Append(rows, [data |-> batch, finalized |-> markFinalized])

\* updateStoredTransferBatch.
UpdateStored(n, rows, batch) == CreateOrUpdate(rows, batch, IsMarkedAsMined(n, batch))

\* The removal in purgeTransferBatch.
RemoveStored(rows, batch) == Filtered(rows, {i \in DOMAIN rows : ~SameIds(rows[i], batch)})

-----------------------------------------------------------------------------
(* The main loop: scan, then load the batch and act on it, then wait for    *)
(* the RSK transaction if one was sent. Other nodes, users and messages     *)
(* come in between. Loading reads the database of n, which nothing changes  *)
(* but its own main loop and the messages it handles; the state of RSK is   *)
(* read when the batch is acted on.                                         *)

\* Wrong: entries without confirmations are scanned, too.
ScanUnconfirmedEvents(n) ==
    /\ phase[n] = "idle"
    /\ \E m \in scanned[n] + 1 .. Len(chain) :
         /\ scanned' = [scanned EXCEPT ![n] = m]
         /\ status' = [status EXCEPT ![n] =
              [t \in Transfers |->
                 IF \E i \in scanned[n] + 1 .. m : Concerns(chain[i], t)
                 THEN StatusAt(m, t) ELSE @[t]]]
    /\ UNCHANGED <<chainVars, bitcoinVars, messageVars, stored, current, phase,
                   initiator, scenario>>

\* scanNewEvents, up to an entry with rskRequiredConfirmations. It may find
\* nothing, so the iteration may go on without it.
ScanNewEvents(n) ==
    /\ phase[n] = "idle"
    /\ \E m \in scanned[n] + 1 .. Len(chain) :
         /\ scanned' = [scanned EXCEPT ![n] = m]
         /\ status' = [status EXCEPT ![n] =
              [t \in Transfers |->
                 IF \E i \in scanned[n] + 1 .. m : Concerns(chain[i], t)
                 THEN StatusAt(m, t) ELSE @[t]]]
         /\ final' = IF m > final THEN m ELSE final
    /\ UNCHANGED <<chain, rskPool, bitcoinVars, messageVars, stored, current, phase,
                   initiator, scenario>>

\* Wrong: the node forgets at any time, even while it waits for RSK.
NotInitiatorAnymore(n) ==
    /\ initiator[n] # n
    /\ current[n] # NoBatch
    /\ current' = [current EXCEPT ![n] = NoBatch]
    /\ UNCHANGED <<chainVars, bitcoinVars, messageVars, scanned, status, stored, phase,
                   initiator, scenario>>

\* A node that is not the initiator forgets what it gathered.
NotInitiator(n) ==
    /\ phase[n] = "idle"
    /\ initiator[n] # n
    /\ current[n] # NoBatch
    /\ current' = [current EXCEPT ![n] = NoBatch]
    /\ UNCHANGED <<chainVars, bitcoinVars, messageVars, scanned, status, stored, phase,
                   initiator, scenario>>

Total(transfers) == MapThenSumSet(LAMBDA t : TotalAmount[t], transfers)

\* getNextBatchTransfers: the oldest NEW transfers, until the next one is too much.
NextBatchTransfers(n) ==
    LET new == {t \in Transfers : status[n][t] = "NEW"}
        first == {t \in new : Cardinality({u \in new : u < t}) < MaxTransfersInBatch}
    IN  InOrder({t \in first : Total({u \in first : u <= t}) <= MaxBtcInBatch})

\* getPendingTransferBatch marks the rows it passes as finalized.
PassedRows(n) ==
    {i \in DOMAIN stored[n] : \A j \in 1 .. i :
        stored[n][j].finalized \/ IsMarkedAsMined(n, stored[n][j].data)}

RowsAfterPassing(n) ==
    [i \in DOMAIN stored[n] |-> [stored[n][i] EXCEPT !.finalized = @ \/ i \in PassedRows(n)]]

\* getCurrentTransferBatch: the first pending row, or a new batch.
CurrentTransferBatches(n) ==
    IF PassedRows(n) # DOMAIN stored[n]
    THEN {stored[n][Cardinality(PassedRows(n)) + 1].data}
    ELSE {NewBatch([coin |-> c, pays |-> NextBatchTransfers(n)]) : c \in OldestCoins}

\* The signatures of kind that arrived for the batch, by nodes not in signers.
Gathered(arrived, kind, signers) ==
    {r.by : r \in {r \in arrived : r.kind = kind}} \ signers

\* Wrong: the node signs only when no signature is missing any more.
AddRskSignaturesTooLate(n, signers, new) ==
    LET missing == NumRequiredSigners - BagCardinality(signers)
        kept == {S \in SUBSET new : Cardinality(S) <= missing
                                    /\ (S = new \/ Cardinality(S) = missing)}
    IN  {signers (+) SetToBag(S) : S \in kept}

\* addRskSendingSignatures and addRskMinedSignatures: keep signatures as long
\* as some are missing, and sign when one is missing.
AddRskSignatures(n, signers, new) ==
    LET missing == NumRequiredSigners - BagCardinality(signers)
        kept == {S \in SUBSET new : Cardinality(S) <= missing
                                    /\ (S = new \/ Cardinality(S) = missing)}
    IN  {LET all == signers (+) SetToBag(S)
         IN  IF BagCardinality(all) = NumRequiredSigners - 1
             THEN all (+) SetToBag({n}) ELSE all : S \in kept}

\* addBitcoinSignatures counts the signers it starts with twice when it
\* decides to stop, its own signature comes last, and combine keeps as many as
\* are required.
AddBitcoinSignatures(n, signers, new) ==
    IF new = {} \/ Cardinality(signers) >= NumRequiredSigners THEN {signers}
    ELSE LET missing == NumRequiredSigners - Cardinality(signers)
             stop == missing - Cardinality(signers)
             room == IF stop > 0 THEN stop ELSE missing
             others == new \ {n}
             all == (others \cup {n}) \ signers
         IN  {signers \cup S : S \in {S \in SUBSET all :
                /\ S = all \/ Cardinality(S) = room
                /\ Cardinality(S) <= room
                /\ n \in S => others \subseteq S}}

\* What updateTransferBatchFromTransientInitiatorData makes of batch when
\* arrived came for the batch n had in mind: the batches that can result.
\* There is none when signing or combining throws an error.
BatchesWithGathered(n, batch, arrived) ==
    LET same == current[n].tx = batch.tx
        bitcoinSigs == {r \in arrived : r.kind = "bitcoin"}
        sending ==
            IF IsMarkedAsSending(n, batch) \/ {r \in arrived : r.kind = "sending"} = {}
            THEN {batch.sendingSigners}
            ELSE {s \in AddRskSignatures(n, batch.sendingSigners,
                        IF same THEN Gathered(arrived, "sending", BagToSet(batch.sendingSigners))
                        ELSE {}) :
                  BagCardinality(s) = NumRequiredSigners =>
                      \/ s = batch.sendingSigners
                      \/ Copies(n, s) = Copies(n, batch.sendingSigners)
                      \/ ValidForSigningSending(n, batch)}
        bitcoin ==
            IF bitcoinSigs # {} /\ ~same /\ ~HasEnoughBitcoinSignatures(batch) THEN {}
            ELSE AddBitcoinSignatures(n, batch.bitcoinSigners, {r.by : r \in bitcoinSigs})
        minedSigners ==
            IF IsMarkedAsMined(n, batch) \/ {r \in arrived : r.kind = "mined"} = {}
            THEN {batch.minedSigners}
            ELSE {s \in AddRskSignatures(n, batch.minedSigners,
                        Gathered(arrived, "mined", BagToSet(batch.minedSigners))) :
                  BagCardinality(s) = NumRequiredSigners =>
                      \/ s = batch.minedSigners
                      \/ Copies(n, s) = Copies(n, batch.minedSigners)
                      \/ ValidForSigningMined(n, batch)}
    IN  {[tx |-> batch.tx, sendingSigners |-> s, bitcoinSigners |-> b, minedSigners |-> m] :
            s \in sending, b \in bitcoin, m \in minedSigners}

\* Responses that n accepts: they are for the batch it has in mind.
Answers(n) ==
    IF current[n] = NoBatch THEN {}
    ELSE {r \in responses : r.to = n /\ r.tx = current[n].tx}

Message(n, kind, batch) == [kind |-> kind, from |-> n, batch |-> batch]

\* network.broadcast. A message stays in flight, and may arrive at a node any
\* number of times, until it makes room for a later one.
Broadcast(n, messages) ==
    \E inFlight \in SUBSET (requests[n] \cup messages) :
        /\ inFlight \cap messages # {}
        /\ Cardinality(inFlight) <= MaxInFlight
        /\ inFlight = requests[n] \cup messages \/ Cardinality(inFlight) = MaxInFlight
        /\ requests' = [requests EXCEPT ![n] = inFlight]

\* The transaction by which n marks batch as s on RSK.
RskTx(n, s, batch) ==
    [by |-> n, status |-> s, tx |-> batch.tx,
     signers |-> IF s = "SENDING" THEN batch.sendingSigners ELSE batch.minedSigners]

\* sendRskTransaction: estimating its gas throws an error if the transaction
\* would revert now; else the main loop waits for it.
SendRskTransaction(n, s, batch) ==
    IF Accepted(RskTx(n, s, batch))
    THEN /\ rskPool' = rskPool \cup {RskTx(n, s, batch)}
         /\ phase' = [phase EXCEPT ![n] = s]
    ELSE UNCHANGED <<rskPool, phase>>

\* The tests by which an iteration chooses what to do with its batch.
NotSent(n, batch) ==
    /\ Ids(batch) # <<>>
    /\ HasValidTransferState(n, batch)
    /\ ~IsMarkedAsSending(n, batch)

Sent(n, batch) ==
    /\ Ids(batch) # <<>>
    /\ HasValidTransferState(n, batch)
    /\ IsMarkedAsSending(n, batch)

ReclaimedIn(batch) == {t \in SetOf(Ids(batch)) : OnRsk(t) = "RECLAIMED"}

\* What follows are the ends of an iteration that has batch, and has left rows
\* in the database of n.

Leave(n, rows, batch) ==
    /\ stored' = [stored EXCEPT ![n] = rows]
    /\ current' = [current EXCEPT ![n] = batch]

PurgeInvalidBatch(n, rows, batch) ==
    /\ ~HasValidTransferState(n, batch)
    /\ Leave(n, RemoveStored(rows, batch), batch)
    /\ Broadcast(n, {Message(n, "purge-transfer-batch", batch)})
    /\ UNCHANGED <<rskPool, submitted, phase>>

\* ~isDue: the batch is empty, or it is not full and its oldest transfer is too
\* young.
NotDue(n, rows, batch) ==
    /\ HasValidTransferState(n, batch)
    /\ Len(Ids(batch)) < MaxTransfersInBatch
    /\ Leave(n, rows, batch)
    /\ UNCHANGED <<rskPool, submitted, requests, phase>>

\* handleReclaimedTransfers: the transfers that are left make a new batch, for
\* which n asks for signatures at once.
PurgeReclaimed(n, rows, batch) ==
    /\ NotSent(n, batch)
    /\ ReclaimedIn(batch) # {}
    /\ ~HasValidState(n, batch)
    /\ LET valid == Filtered(Ids(batch),
                             {i \in DOMAIN Ids(batch) : OnRsk(Ids(batch)[i]) # "RECLAIMED"})
           purge == Message(n, "purge-transfer-batch", batch)
           purged == RemoveStored(rows, batch)
       IN  \/ /\ valid = <<>>
              /\ Leave(n, purged, batch)
              /\ Broadcast(n, {purge})
           \/ /\ valid # <<>>
              /\ \E c \in OldestCoins :
                   LET left == NewBatch([coin |-> c, pays |-> valid])
                   IN  /\ Leave(n, UpdateStored(n, purged, left), left)
                       /\ Broadcast(n,
                            {purge, Message(n, "request-rsk-sending-signature", left)})
    /\ UNCHANGED <<rskPool, submitted, phase>>

Request(n, kind, rows, batch) ==
    /\ Leave(n, rows, batch)
    /\ Broadcast(n, {Message(n, kind, batch)})
    /\ UNCHANGED <<rskPool, submitted, phase>>

RequestSendingSignatures(n, rows, batch) ==
    /\ NotSent(n, batch)
    /\ ReclaimedIn(batch) = {}
    /\ ~HasEnough(batch.sendingSigners)
    /\ Request(n, "request-rsk-sending-signature", rows, batch)

MarkAsSending(n, rows, batch) ==
    /\ NotSent(n, batch)
    /\ ReclaimedIn(batch) = {}
    /\ HasEnough(batch.sendingSigners)
    /\ Leave(n, rows, batch)
    /\ Broadcast(n, {Message(n, "marking-as-sending-in-rsk", batch)})
    /\ SendRskTransaction(n, "SENDING", batch)
    /\ UNCHANGED submitted

RequestBitcoinSignatures(n, rows, batch) ==
    /\ Sent(n, batch)
    /\ ~IsMined(batch.tx)
    /\ ~HasEnoughBitcoinSignatures(batch)
    /\ Request(n, "request-bitcoin-signature", rows, batch)

\* sendToBitcoin. Bitcoin refuses a transaction whose coin is spent. The wait
\* for confirmations ends by itself and changes nothing.
SendToBitcoin(n, rows, batch) ==
    /\ Sent(n, batch)
    /\ ~IsMined(batch.tx)
    /\ HasEnoughBitcoinSignatures(batch)
    /\ Leave(n, rows, batch)
    /\ Broadcast(n, {Message(n, "sending-to-bitcoin", batch)})
    /\ submitted' = IF ValidForSendingToBitcoin(n, batch) /\ batch.tx.coin \in Unspent
                    THEN submitted \cup {batch.tx} ELSE submitted
    /\ UNCHANGED <<rskPool, phase>>

RequestMinedSignatures(n, rows, batch) ==
    /\ Sent(n, batch)
    /\ IsMined(batch.tx)
    /\ ~IsMarkedAsMined(n, batch)
    /\ ~HasEnough(batch.minedSigners)
    /\ Request(n, "request-rsk-mined-signature", rows, batch)

MarkAsMined(n, rows, batch) ==
    /\ Sent(n, batch)
    /\ IsMined(batch.tx)
    /\ ~IsMarkedAsMined(n, batch)
    /\ HasEnough(batch.minedSigners)
    /\ Leave(n, rows, batch)
    /\ Broadcast(n, {Message(n, "marking-as-mined-in-rsk", batch)})
    /\ SendRskTransaction(n, "MINED", batch)
    /\ UNCHANGED submitted

\* The iteration acts on its batch only if that is due.
Act(n, rows, batch, due) ==
    \/ PurgeInvalidBatch(n, rows, batch)
    \/ ~due /\ NotDue(n, rows, batch)
    \/ due /\ PurgeReclaimed(n, rows, batch)
    \/ due /\ RequestSendingSignatures(n, rows, batch)
    \/ due /\ MarkAsSending(n, rows, batch)
    \/ due /\ RequestBitcoinSignatures(n, rows, batch)
    \/ due /\ SendToBitcoin(n, rows, batch)
    \/ due /\ RequestMinedSignatures(n, rows, batch)
    \/ due /\ MarkAsMined(n, rows, batch)

\* The initiator loads the current batch, adds the signatures that arrived for
\* the one it had in mind, if both have the same transfers in the same order,
\* and acts. It asks again for the signatures that did not arrive by now, so
\* the model loses those. If adding signatures throws an error, the iteration
\* ends.
Iterate(n, arrived, due) ==
    /\ phase[n] = "idle"
    /\ initiator[n] = n
    /\ \E batch \in CurrentTransferBatches(n) :
         LET used == IF current[n] # NoBatch /\ Ids(current[n]) = Ids(batch)
                     THEN arrived ELSE {}
             rows == RowsAfterPassing(n)
             results == BatchesWithGathered(n, batch, used)
         IN  \/ used = {} /\ Act(n, rows, batch, due)
             \/ /\ used # {}
                /\ \E result \in results : Act(n, UpdateStored(n, rows, result), result, due)
             \/ /\ used # {}
                /\ results = {}
                /\ Leave(n, rows, batch)
                /\ UNCHANGED <<rskPool, submitted, requests, phase>>
    /\ responses' = {r \in responses : r.to # n}
    /\ UNCHANGED <<chain, final, mined, scanned, status, initiator, scenario>>

\* The transaction n waits for has its confirmations. waitForTransaction does
\* not tell whether it reverted, and n writes the new statuses in either case.
FinishMarking(n) ==
    /\ phase[n] \in {"SENDING", "MINED"}
    /\ \E i \in DOMAIN chain :
         /\ chain[i].by = RskTx(n, phase[n], current[n])
         /\ final' = IF i > final THEN i ELSE final
    /\ status' = [status EXCEPT ![n] =
         [t \in Transfers |-> IF t \in SetOf(Ids(current[n])) THEN phase[n] ELSE @[t]]]
    /\ stored' = [stored EXCEPT ![n] = CreateOrUpdate(@, current[n], FALSE)]
    /\ IF phase[n] = "MINED"
       THEN Broadcast(n, {Message(n, "transfer-batch-complete", current[n])})
       ELSE UNCHANGED requests
    /\ phase' = [phase EXCEPT ![n] = "idle"]
    /\ UNCHANGED <<chain, rskPool, bitcoinVars, responses, scanned, current, initiator,
                   scenario>>

\* waitForTransaction gives up after timeoutMs, and nothing is written.
TimeOut(n) ==
    /\ Happens("timeouts")
    /\ phase[n] \in {"SENDING", "MINED"}
    /\ phase' = [phase EXCEPT ![n] = "idle"]
    /\ UNCHANGED <<chainVars, bitcoinVars, messageVars, scanned, status, stored, current,
                   initiator>>

-----------------------------------------------------------------------------
(* Messages from the initiator. A request whose checks fail is dropped.    *)

\* loadFromDto: n knows all transfers of the batch.
IsLoadable(n, batch) == "NOT_APPLICABLE" \notin Statuses(n, batch)

\* The checks of each kind of request but purge-transfer-batch.
Validates(n, kind, batch) ==
    CASE kind \in {"request-rsk-sending-signature", "marking-as-sending-in-rsk"} ->
            ValidForSigningSending(n, batch)
      [] kind = "request-bitcoin-signature" -> ValidForSigningBitcoin(n, batch)
      [] kind = "sending-to-bitcoin" -> ValidForSendingToBitcoin(n, batch)
      [] kind \in {"request-rsk-mined-signature", "marking-as-mined-in-rsk"} ->
            ValidForSigningMined(n, batch)
      [] kind = "transfer-batch-complete" -> ValidComplete(n, batch)
      [] OTHER -> FALSE

\* The signature a kind of request asks for.
Wanted(kind) ==
    CASE kind = "request-rsk-sending-signature" -> {"sending"}
      [] kind = "request-bitcoin-signature" -> {"bitcoin"}
      [] kind = "request-rsk-mined-signature" -> {"mined"}
      [] OTHER -> {}

FromInitiator(n, m) ==
    /\ m.from # n
    /\ m.from = initiator[n]
    /\ IsLoadable(n, m.batch)

\* Store the batch and answer with a signature. signTransaction refuses a PSBT
\* that n signed, but initialBtcTransaction never carries a signature.
HandleRequest(n, m) ==
    /\ FromInitiator(n, m)
    /\ Validates(n, m.kind, m.batch)
    /\ stored' = [stored EXCEPT ![n] = UpdateStored(n, @, m.batch)]
    /\ responses' = responses \cup
         {[kind |-> kind, by |-> n, to |-> m.from, tx |-> m.batch.tx] : kind \in Wanted(m.kind)}
    /\ UNCHANGED <<chainVars, bitcoinVars, requests, scanned, status, current, phase,
                   initiator, scenario>>

\* onPurgeTransferBatch.
HandlePurge(n, m) ==
    /\ m.kind = "purge-transfer-batch"
    /\ FromInitiator(n, m)
    /\ ~HasValidState(n, m.batch)
    /\ stored' = [stored EXCEPT ![n] = RemoveStored(@, m.batch)]
    /\ UNCHANGED <<chainVars, bitcoinVars, messageVars, scanned, status, current, phase,
                   initiator, scenario>>

-----------------------------------------------------------------------------
(* What goes wrong *)

\* n takes i for the initiator from now on.
ChangeInitiator(n, i) ==
    /\ HappensTo("changes", "turned", {n})
    /\ initiator[n] # i
    /\ initiator' = [initiator EXCEPT ![n] = i]
    /\ UNCHANGED <<chainVars, bitcoinVars, messageVars, scanned, status, stored, current,
                   phase>>

\* n restarts: only its database is left.
Restart(n) ==
    /\ Happens("restarts")
    /\ current' = [current EXCEPT ![n] = NoBatch]
    /\ phase' = [phase EXCEPT ![n] = "idle"]
    /\ UNCHANGED <<chainVars, bitcoinVars, messageVars, scanned, status, stored, initiator>>

-----------------------------------------------------------------------------
Init ==
    /\ chain = <<>> /\ final = 0 /\ rskPool = {}
    /\ submitted = {} /\ mined = <<>>
    /\ requests = [n \in Nodes |-> {}] /\ responses = {}
    /\ scanned = [n \in Nodes |-> 0]
    /\ status = [n \in Nodes |-> [t \in Transfers |-> "NOT_APPLICABLE"]]
    /\ stored = [n \in Nodes |-> <<>>]
    /\ current = [n \in Nodes |-> NoBatch]
    /\ phase = [n \in Nodes |-> "idle"]
    /\ initiator = InitialInitiators
    /\ scenario \in Scenarios

RunIteration(n) ==
    \/ ScanNewEvents(n)
    \/ NotInitiator(n)
    \/ \E arrived \in SUBSET Answers(n), due \in BOOLEAN : Iterate(n, arrived, due)
    \/ FinishMarking(n)
    \/ TimeOut(n)

OnMessage(n) ==
    \E m \in requests[initiator[n]] : HandleRequest(n, m) \/ HandlePurge(n, m)

Rsk ==
    \/ \E t \in Transfers : TransferToBtc(t)
    \/ \E return \in Returns : ReturnTransfer(return[1], return[2])
    \/ \E rskTx \in rskPool : IncludeRskTransaction(rskTx)
    \/ \E m \in final .. Len(chain) - 1 : Reorganize(m)

Bitcoin == \E tx \in submitted : MineBitcoinTransaction(tx)

Next ==
    \/ \E n \in Nodes : RunIteration(n) \/ OnMessage(n) \/ Restart(n)
    \/ \E turn \in Turns : ChangeInitiator(turn[1], turn[2])
    \/ Rsk
    \/ Bitcoin

Spec == Init /\ [][Next]_vars

\* Nodes loop for ever, messages and signatures arrive if asked for again and
\* again, batches come due, and both chains go on.
Fairness ==
    /\ \A n \in Nodes :
         /\ WF_vars(ScanNewEvents(n))
         /\ WF_vars(FinishMarking(n))
         /\ SF_vars(Answers(n) # {} /\ Iterate(n, Answers(n), TRUE))
         /\ SF_vars(Answers(n) = {} /\ Iterate(n, {}, TRUE))
         /\ SF_vars(OnMessage(n))
    /\ WF_vars(\E rskTx \in rskPool : IncludeRskTransaction(rskTx))
    /\ WF_vars(Bitcoin)

FairSpec == Spec /\ Fairness

\* The network agrees in the end on the initiator that is left.
FailoverSpec ==
    FairSpec /\ \A turn \in Turns : WF_vars(ChangeInitiator(turn[1], turn[2]))

-----------------------------------------------------------------------------
(* Properties *)

\* The state of every component has its type: whatever the messages and the
\* chain do, a node waits for a transaction only with the batch it is about,
\* and reads no further than the chain.
TypeOK ==
    /\ final \in 0 .. Len(chain)
    /\ \A i \in DOMAIN chain :
         /\ chain[i].status \in {"NEW", "SENDING", "MINED", "RECLAIMED", "REFUNDED", "REVERTED"}
         /\ SetOf(chain[i].ids) \subseteq Transfers
    /\ \A rskTx \in rskPool : rskTx.by \in Nodes /\ rskTx.status \in {"SENDING", "MINED"}
    /\ SetOf(mined) \subseteq submitted
    /\ \A n \in Nodes :
         /\ scanned[n] \in 0 .. final
         /\ status[n] \in [Transfers ->
               {"NOT_APPLICABLE", "NEW", "SENDING", "MINED", "RECLAIMED", "REFUNDED"}]
         /\ \A i \in DOMAIN stored[n] : stored[n][i].finalized \in BOOLEAN
         /\ phase[n] \in {"idle", "SENDING", "MINED"}
         /\ phase[n] # "idle" => current[n] # NoBatch
         /\ Cardinality(requests[n]) <= MaxInFlight

PaidBy(tx, t) == t \in SetOf(tx.pays)

\* No transfer is paid twice on Bitcoin, whoever takes himself for the initiator:
\* the promise of validateTransferBatchCommitment (transfers.ts).
NoDoublePayment ==
    \A i, j \in DOMAIN mined : i # j => SetOf(mined[i].pays) \cap SetOf(mined[j].pays) = {}

\* A transaction that reaches Bitcoin pays transfers that RSK committed to that
\* very transaction in blocks that stay, so none that a user got back.
PaidIsCommitted ==
    \A tx \in submitted :
        /\ \E i \in 1 .. final : chain[i].status = "SENDING" /\ chain[i].tx = tx
        /\ \A t \in SetOf(tx.pays) : StatusAt(final, t) \in {"SENDING", "MINED"}

\* The bridge records a transfer as mined only when a confirmed Bitcoin
\* transaction pays it (validateForSigningRskMinedUpdate).
MinedIsPaid ==
    \A t \in Transfers : OnRsk(t) = "MINED" => \E tx \in SetOf(mined) : PaidBy(tx, t)

\* A node gives up a stored batch as finalized only when all its transfers are
\* paid, although it writes statuses before the scanner sees them.
FinalizedIsPaid ==
    \A n \in Nodes : \A i \in DOMAIN stored[n] :
        stored[n][i].finalized =>
            \A t \in SetOf(Ids(stored[n][i].data)) : \E tx \in SetOf(mined) : PaidBy(tx, t)

\* While RSK is committed to a transaction that Bitcoin has not mined, the node
\* that sent the commitment stores its batch: whatever other initiators, purges,
\* late answers, restarts, timeouts and reorganizations do, that node never loses
\* the only Bitcoin transaction that may pay its transfers. It may lose it when it
\* has turned to another initiator, whose requests replace what it stores, and
\* when RSK drops a reclaim that made it purge the batch (README.md).
CommittedBatchSurvives ==
    \A i \in 1 .. final :
        LET tx == chain[i].tx
            sender == chain[i].by.by
        IN  /\ chain[i].status = "SENDING"
            /\ ~IsMined(tx)
            /\ sender \notin scenario.turned
            /\ SetOf(tx.pays) \cap scenario.unreclaimed = {}
            => \E row \in SetOf(stored[sender]) : row.data.tx = tx

\* Transactions that RSK committed to and Bitcoin has not mined spend coins of
\* their own, so each of them can still be mined. "The network is built so that
\* the initiator can change at any given time" (README.md of fastbtc-node).
CommitmentsCanBeMined ==
    \A i, j \in 1 .. final :
        /\ chain[i].status = "SENDING" /\ chain[j].status = "SENDING"
        /\ ~IsMined(chain[i].tx)
        => chain[i].tx = chain[j].tx \/ chain[i].tx.coin # chain[j].tx.coin

\* Whatever nodes, messages, and blocks do, the transfers in blocks that stay and
\* the payments that Bitcoin confirmed are those of the abstract payouts: it takes
\* all of signing, committing and marking (transfers.ts) to keep that promise.
Fate(s) ==
    CASE s = "NOT_APPLICABLE" -> "none"
      [] s = "NEW" -> "open"
      [] s = "SENDING" -> "committed"
      [] s = "MINED" -> "recorded"
      [] OTHER -> "returned"

CommittedTo(t) ==
    {chain[i].tx : i \in {i \in 1 .. final : chain[i].status = "SENDING"
                                           /\ Concerns(chain[i], t)}}

Payouts ==
    INSTANCE BitcoinPayouts WITH
        fate <- [t \in Transfers |-> Fate(StatusAt(final, t))],
        commitments <- [t \in Transfers |-> CommittedTo(t)],
        payouts <- [i \in DOMAIN mined |-> SetOf(mined[i].pays)]

ImplementsPayouts == Payouts!Spec

\* Nobody signs a batch twice (validateSignatureAndAddresses refuses such a batch).
NobodySignsTwice ==
    \A n \in Nodes : \A i \in DOMAIN stored[n] : NoneSignedTwice(stored[n][i].data.sendingSigners)

\* What a user creates ends: it is paid, or returned.
EveryTransferEnds ==
    \A t \in Transfers : OnRsk(t) = "NEW" ~> OnRsk(t) \in {"MINED", "RECLAIMED", "REFUNDED"}

\* What the bridge took for sending is paid.
EverySendingIsMined ==
    \A t \in Transfers : OnRsk(t) = "SENDING" ~> OnRsk(t) = "MINED"
=============================================================================
