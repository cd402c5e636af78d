# Bi-directional FastBTC in TLA+

FastBTC pays users Bitcoin for rBTC. A user deposits rBTC in a contract on RSK
(`FastBTCBridge`). A network of federator nodes (`fastbtc-node`) agrees on a
Bitcoin transaction that pays a batch of users, records on RSK that it is about
to send it, sends it from a multisig wallet, and records that it was mined.

The modules here model the contracts, the network of nodes that pays transfers,
how its nodes find each other and elect an initiator, how they learn what happens
on RSK, and how their wallet is refilled. TLC checks them on small instances, and
TLAPS proves their invariants and the three refinements, for all
instances. All paths below are relative to the repository; `contracts/`
stands for `packages/fastbtc-contracts/contracts/` and `node/` for
`packages/fastbtc-node/src/`.

## Inventory

| Component | State | Operations | Made correct by |
|---|---|---|---|
| `FastBTCAccessControl.sol` | members of five roles | grant, revoke, renounce; checks of callers and of lists of signatures | two accepted lists of signatures have a federator in common |
| `FastBTCBridge.sol`, `Freezable.sol`, `FastBTCAccessControllable.sol` | transfers, nonces, fee structures, limits, withdrawable rBTC, balance, paused/frozen/initialized | deposits, reclaims, batch updates by federators, refunds, settings, withdrawals, pausing, upgrade (`copyNonces`, `markReady`, `markObsolete`) | solvency, money leaves once, identifiers are never reused, users get out of NEW |
| `BTCAddressValidator.sol` | prefixes, lengths, a mask of characters | checks prefix, length and characters of a string (no checksum) | all characters of Bitcoin addresses are accepted, and no others |
| `node/core/node.ts` | the batch the initiator has in mind, the signatures it gathered | the main loop `runIteration`, ten kinds of messages | transfers progress, whoever is the initiator |
| `node/core/transfers.ts`, `node/db/models.ts` | stored batches, local statuses of transfers | load or make a batch, validate it, sign, mark on RSK, send to Bitcoin, purge | no double payment, no lost batch |
| `node/rsk/scanner.ts`, `node/rsk/utils.ts` | statuses, commitments, last processed block | copy events of confirmed blocks to the database | the database lags behind RSK, and does nothing else; a scan never gets stuck |
| `node/btc/multisig.ts` | the wallet | make, sign, combine, submit a PSBT | a coin is not promised to two transactions |
| `node/core/initiator.ts`, `networkutil.ts`, `utils/nodevalues.ts` | for each node, whom every other one votes for | poll, vote, forget nodes that leave | nodes converge on one initiator, and a majority keeps it |
| `node/replenisher/` | replenishments per period, one unsigned PSBT, gathered signatures | refill the multisig from another wallet | the cap per period, one replenishment at a time, and a low balance is made up for |
| `node/p2p/auth.ts`, `node/core/statuschecker.ts` | cached federator addresses | let peers in; stop when no federator | federators, and only they, take part |
| `node/btc/fees.ts` | a cached fee rate | estimate | - |
| configuration, secrets, logging, alerts, `fastbtc-ui`, deployment scripts | - | - | - |

Components interact in three ways. Users, admins and federators **call** the
contracts, one transaction at a time. Nodes learn of them by **scanning events**
of confirmed blocks, and by asking the contract for the current status of
transfers before they sign. Nodes **send messages**: the initiator broadcasts a
batch with a request, and the others answer with signatures. The election and the
replenisher have messages of their own; the election's result is what every other
part asks for when it wants to know whether this node is the initiator.

What is hard here: several nodes may take themselves for the initiator; a node
acts on statuses that are some blocks old; messages are late, lost or repeated;
a restart, a timeout or a revert falls between sending an RSK transaction and
writing what it did; RSK drops blocks; users reclaim transfers of a batch that
is being signed; connections break and federators change while nodes vote; counts
kept in memory are lost or overwritten by older ones. `PROJECT.json` lists these
hazards at the lines where they bite, with the properties that are about them.

## Modules

| Module | About |
|---|---|
| `FastBTCAccessControl` | roles and signature lists |
| `FastBTCBridge` | the bridge; extends `FastBTCAccessControl`, whose roles it checks |
| `PegOutLedger` | the abstract specification of the bridge: what happens to the money of a transfer |
| `BTCAddressValidator` | which strings the bridge takes for addresses |
| `BridgeAddresses` | composes `FastBTCBridge` with `BTCAddressValidator`: addresses are texts, read byte by byte |
| `BitcoinPayouts` | the abstract specification of what nodes, bridge and Bitcoin do together: which transfers are returned and which are paid, by what |
| `FastBTCNode` | the network of nodes with the parts of RSK and Bitcoin it uses; implements `BitcoinPayouts` |
| `BridgeMirror` | the abstract specification of a node's copy of the bridge, on which `FastBTCNode` relies |
| `EventScanner` | how a node makes that copy; implements `BridgeMirror` |
| `InitiatorVoting` | votes, synchronisations and their messages; has no specification of its own |
| `FederatorNetwork` | composes `FastBTCAccessControl` and `InitiatorVoting` with who runs a node, who is let in and who is connected to whom |
| `Replenisher` | refilling the multisig |
| `MC...` | small instances for TLC |
| `...Proofs` | theorems about `FastBTCAccessControl`, `FastBTCBridge`, `BridgeAddresses`, `FastBTCNode` (`FastBTCNodeRecoveryProofs`: that nodes keep what they committed RSK to), `EventScanner`, `FederatorNetwork` and `Replenisher` |

### FastBTCAccessControl and FastBTCBridge

Each external function that changes state is an action with the same name. A
call that reverts changes nothing, so all its `require`s, modifiers and checks,
those of the calls it makes included, are conjuncts of its guard. A call is one
action: Ethereum transactions are atomic, and `nonReentrant` keeps the calls that
send rBTC from being entered again. The variables are the storage variables.
These are different from the code:

- a transfer is identified by `<<btcAddress, nonce>>`, which the code hashes;
- `waited` stands for `block.number - blockNumber` while a transfer is NEW,
  and stops at `MaxRequiredBlocksBeforeReclaim`, because no delay is longer.
  `MineBlock` is the passing of a block;
- `netAmounts` remembers the `amountSatoshi` that `NewBitcoinTransfer` announces;
- a signature is the address it recovers to;
- an address validator is the set of addresses it accepts (`BridgeAddresses`
  computes that set with `BTCAddressValidator` from the bytes of the addresses, `Text`,
  for the validator of the mainnet with and without legacy addresses), and a receiver
  that refuses rBTC is a member of `RejectingAccounts`;
- `TotalSatoshi` counts pairs of a transfer and one of its satoshis, so that a
  sum is the size of a set and needs no recursion, which keeps the module within
  reach of the proof system.

`previousFastBtcBridgeContract`, `replacementReason` (nothing reads them) and
`withdrawTokens` (which only calls a foreign contract) are left out.

`PegOutLedger` knows transfers whose money is *held*, then either *returned* to
its owner or *released* to the admins and later confirmed as *paid*.
`FastBTCBridge` implements it with `escrow <- balance - withdrawable`.

### FastBTCNode and BitcoinPayouts

| In the model | In the code |
|---|---|
| `chain`, `final` | what RSK transactions did, in order; the first `final` entries have been relied on as confirmed by somebody, so `Reorganize` drops later ones only |
| `rskPool`, `IncludeRskTransaction` | transactions nodes sent; in a block they change statuses or revert |
| `submitted`, `mined`, `OldestCoins` | Bitcoin, and the wallet's choice of a coin |
| `scanned`, `status`, `stored` | the database of a node: last processed block, `Transfer.status`, `StoredBitcoinTransferBatch` |
| `current`, `phase` | `transientInitiatorData`, and the RSK transaction the main loop waits for |
| `requests`, `responses` | messages in flight |
| `ScanNewEvents` | `scanNewEvents` |
| `Iterate` and the actions under `Act` | the rest of `runIteration` of an initiator: load or make the batch, add the signatures that arrived, then one branch |
| `NotInitiator` | `runIteration` of any other node |
| `FinishMarking`, `TimeOut` | `sendRskTransaction` returns, or throws; what `markAs...InRsk` writes after it |
| `HandleRequest`, `HandlePurge` | the handlers of messages from the initiator |
| `ChangeInitiator`, `Restart` | the node votes otherwise; the process restarts with its database |

How the code is split into steps: the database of a node is changed by its own
main loop and handlers only, so loading a batch and acting on it is one step that
reads RSK as it is when the node acts. Waiting for an RSK transaction lets
everything else happen: `SendRskTransaction` and `FinishMarking` are two
steps, between which blocks come, users reclaim, messages are handled, and the
node may restart or give up.

Abstractions:

- a batch is known by its Bitcoin transaction `[coin, pays]`, and the hash is that
  record: a PSBT made anew for the same transfers has the same hash only if it
  spends the same coin. A transaction spends one coin and leaves one as change.
  Amounts, fees and scripts are left out, and `validatePsbt`, which compares the
  transfers a PSBT names with those of the batch, holds of every batch. What a
  transfer costs (`TotalAmount`) matters only for how many of them fit in a batch
  (`NextBatchTransfers`, with `MaxTransfersInBatch` and `MaxBtcInBatch`);
- the wallet's first coins are equally old, so it offers them in any order;
- a node is a signer; who signed is a bag, since the code may add a signature twice;
- a broadcast stays in flight, to be delivered to anybody any number of times,
  until there are more than `MaxInFlight` of one sender, when the network loses
  some. Signatures that did not arrive by the next iteration of the initiator
  are lost, because it asks for them again;
- Bitcoin transactions are mined with all the confirmations that the code asks for;
- a reverted transaction is recorded only if its sender waits for it: nobody else
  looks;
- a scan copies all confirmed events at once, which is what `BridgeMirror` promises
  and `EventScanner` implements;
- a node may turn to another initiator at any moment, as far as `Turns` and the
  scenario's number of changes allow: elections can do no more than that;
- `Scenarios` lists combinations of how many transfers there are and how often
  something goes wrong; a behaviour starts with one of them. `scenario` also
  remembers what happened: who has `turned` from himself to another initiator, and
  which transfers are `unreclaimed`, because RSK dropped the block of their reclaim.
  No guard reads these two;
- left out: addresses that are invalid for Bitcoin (`EventScanner` has them), the
  number of nodes online (too few only make an iteration do nothing), the
  replenisher's step of an iteration, metrics and logging.

`BitcoinPayouts` has no initiators, signatures or blocks. A transfer is *open*, then
*returned* or *committed* to one transaction of Bitcoin, then perhaps *recorded* as
paid; a transaction pays all the transfers that were committed to it, at once, and
only once. `FastBTCNode` implements it (`ImplementsPayouts`): the fate of a transfer is
its status in the first `final` blocks, it is committed to the transactions that these
blocks name for it, and `mined` says what was paid.

### EventScanner and BridgeMirror

`blocks` is the chain, each block with the log of the calls of the bridge in it
and with what the bridge says of the transfers after it. `BeginScan`, `ReadEvents`
(one request: one kind of event, one chunk of blocks), `BeginProcessing`,
`ProcessEvent` (`OnNewTransfer`, `OnStatusUpdated`, `OnBatchSending`) and `Commit`
are the steps of `scanNewEvents`, between which blocks come, RSK reorganizes,
requests fail and the node restarts. Processing happens in a copy of the database,
`scan.database`, which `Commit` writes: the code runs in a database transaction.
`Throw` is where the code throws; `thrown` remembers that it did. The code sorts what
arrived before it processes it; in the model what arrived is a set, with the request it
arrived by, and `FirstSorted` picks the one that sorting would put first.

A call of the bridge is put in a block only if the bridge would accept it, alone in
its transaction or in the last one of the block; the commitment's size is a `uint8`,
hence `% 256`. Calls happen only in blocks that the run is long enough to scan. A
provider answers from the chain as it is (one that lags behind is not modelled), and
events without arguments or of another name, which are only logged, are left out. The
statuses that the node's main loop writes to the database itself are in `FastBTCNode`.

### InitiatorVoting and FederatorNetwork

| In the model | In the code |
|---|---|
| `process`, `Join`, `GiveUp`, `Quit` | `StatusChecker`: wait for the role (the repeated questions are one step), give up, stop when it is lost |
| `cached`, `PeerAddresses`, `Authenticate` | `RSKKeyedAuth`: the address list of the last ten minutes, and the handshake, whose two directions are one step; a signature is its signer |
| `online`, `NodeUnavailable` | `network.nodes` and its events |
| `votes`, `MostPopularValue`, `DefaultInitiatorId` | `NodeValues`, `getMostPopularValue`, `getDefaultInitiatorId` |
| `syncs`, `Ask`, `Decide` | `syncInitiatorFromNetwork`, several of which run at once: the number of tries each has left |
| `OnMessage`, `OnNodeUnavailable` | the handlers of the same names |

The transport is the library ataraxia, modelled from its use: nodes have connections
to any others, a connection delivers in order and loses what is on its way when it
breaks, and each end notices the break by itself. A synchronisation sleeps two
seconds after it asks; `Decide` therefore happens when the answers that will arrive
have arrived. In the code a node announces its choice with the message type of an
answer, too; the model's `announcement` is handled the same and only tells `Decide`
which messages to wait for. A process that restarts draws a new id, so it is another
element of `Nodes`.

### Replenisher

`BeginIteration`, `CreatePsbt`, `RequestAgain`, `Submit`, `Confirmed`,
`WaitTimesOut` and `WaitFails` are the steps of `handleReplenisherIteration`, cut
where it awaits something; `OnRequest` and `OnResponse` are `onMessage`. `sent`,
`handovers` and `mishaps` are history. A replenishment is the set of coins it spends:
it has no change, pays the same fee for every input, and `ReplenishPsbt` takes the
oldest coins until they are enough or too many. What bitcoind answers to a submission is
external: refused as spent, refused otherwise, or accepted. The checks of
`signReplenishPsbt` on addresses, inputs and outputs hold of every PSBT of the model, and
`checkBalances`, which only alerts, is left out. The first multisig is a balance that
batches lower (`PegOut`).

## Runs

All bounds are constants of the configurations.

| Run | Instance | Shows |
|---|---|---|
| `federator_network` | 3 nodes and accounts; two nodes that start up while a third waits for its role, two that follow one of them, three of which the initiator has just died; each with one more fault (role change, crash, broken connection, lost message); lists of up to 2 signatures | `InitiatorIsOnline`, `DepartedHaveNoVote`, `UndecidedNodesAsk`, `StickyInitiator`, `OneInitiatorInTheEnd` (liveness), and `MajoritiesIntersect` for majorities of one to two, lists with repetitions, outsiders and signatures that do not recover |
| `replenisher` | 3 nodes, 2 of them replenishers who both have to sign, 4 coins, 2 periods, a limit of 2, one fault of any kind | `CapHolds`, `FewAtOnce`, `RefilledInTheEnd` (liveness) |
| `bridge_funds` | 2 transfers, 2 federators, batches of up to 2 with repetitions, amounts above and below the limits and not divisible, receivers that refuse rBTC, delays 0 to 2 that admins change | `Solvency`, `FrozenIsPaused`, `ImplementsLedger`, and `NoTransferStuckInNew` (liveness) |
| `bridge_settings` | a segwit and a legacy address of the mainnet, byte by byte, 2 fee slots, 4 fee structures, a change of roles, nonces copied up to the maximum | `NextSlotFree`, `FeeStructuresExplainAmounts`, `OneWrongByteIsRefused` |
| `network_two_initiators` | 3 nodes, 2 signers, 2 coins; one node turns from the initiator to itself, another follows it | `NoDoublePayment`, `PaidIsCommitted`, `CommittedBatchSurvives` |
| `network_failures` | 2 nodes, 2 coins; one transfer with 2 changes, a restart and a reorganization; with one change, a restart, a timeout and a reorganization; with a reclaim, a timeout and a reorganization; or a batch of two with a reclaim and one change, or with a reclaim and a refund | `PaidIsCommitted`, `MinedIsPaid`, `FinalizedIsPaid`, `CommittedBatchSurvives`, `ImplementsPayouts` |
| `network_progress` | 2 nodes, 2 transfers of which only one fits in a batch, one coin, one restart, lost messages | `EveryTransferEnds` (liveness) |
| `event_scanner` | 2 transfers, one to an address Bitcoin does not know; batches of both in either order and of one; 5 blocks in chunks of 2, one confirmation, 2 faults | `ScanNeverThrows`, `ImplementsMirror`, `CatchesUp` (liveness) |

Each passing run also checks the type invariant of its module, where no other run
of that module does.

The arithmetic of the bridge is scaled: a satoshi is 2 wei, the fee divisor 4,
amounts go up to 3 satoshi. Two transfers are enough for every interaction
of the money of one transfer with that of others, and for a batch that repeats a
transfer or mixes statuses. The addresses of `bridge_settings` contain every
character of their alphabet, and each of their bytes is replaced by each of the
256 values.

Double payment needs two transactions, hence two coins; two nodes that act as
initiators; and a signer that listens to one and then to the other: three nodes
and two changes, which `OthersTurnToN2` picks. Timeouts and reorganizations do not
fit in that run; `network_failures` has them, with two nodes, of which two changes
make a split, a hand-over or a return. In the network runs deadlock is not checked:
once all transfers have ended and the bounds are used up, nothing is left to do. The
same goes for the scanner, the election and the replenisher.

In `event_scanner` a batch, its commitment and a second call can be in one
transaction, in one block or in different chunks, and a chunk border lies between
any two blocks. In `federator_network` a third node is what a majority of two can
disagree with, and two synchronisations at once in a node (`MaxSyncs`) are the timer's
and that of a departure. `MaxAsking` = 2 lets two nodes of three ask at the same time.
`Tries` is 2 instead of 5: a first and a last one. In `replenisher`, answers arrive
between two iterations (`MaxInFlight` = 0; ten seconds in the code), or get lost, and
each of two coins alone or both together may be enough.

Four runs expect a violation; they are the places where the code does not do
what the repository says of it.

| Run | The code |
|---|---|
| `coins_committed_twice` | A node makes the next batch from the coins its wallet shows. If it never stored the batch that RSK is committed to, it takes that batch's coin again, and gets a commitment to a second transaction with it. |
| `sending_stalls` | Nodes continue with the batches they have stored. If all agree on an initiator that did not store the committed batch, no node goes on with it. |
| `revert_taken_for_success` | `waitForTransaction` does not tell that a transaction reverted. If a transfer is reclaimed just before its batch is marked, the initiator writes SENDING for the whole batch; when the scan shows the reclaim it purges the batch, and the other transfers, NEW on RSK and SENDING in its database, are never batched again. |
| `signs_twice` | An initiator adds its own signature to a batch it signed as a follower. |

`CapHolds` ends with the first handover: the count of a period is in memory, so a
restart or a new initiator starts it again, and requests of an initiator that counts
less overwrite the counts of the replenishers. Without that condition TLC finds, with
a limit of 2, five replenishments in one period. `RefilledInTheEnd` has an exception,
`Outdated`: a PSBT that was mined already (the wait for it failed) is refused with an
error that does not drop it, until the multisig has spent its output.

`CommittedBatchSurvives` speaks of the node that sent the marking transaction, and has
two exceptions. Both are there because TLC finds a node that loses a committed batch
without them:

- RSK drops a reclaim (`unreclaimed`). The initiator sends the marking transaction and
  gives up the wait; the user reclaims the transfer; all nodes purge the batch as
  invalid; RSK drops the block of the reclaim and includes the marking transaction.
  One reclaim, one timeout and one reorganization are enough, with no other fault.
- The sender turned to another initiator (`turned`). Rows are looked up by the
  transfers of a batch alone, so a fresh batch that a rival made for the same transfers
  replaces the sender's row. That needs three changes of mind among three nodes.

Two more things happen that are not stated as properties because nothing promises
their absence clearly. A node that did not send the marking transaction may replace a
committed batch it stores by a fresh one with the same transfers. And a late message
overwrites a stored batch that has more signatures, which costs another round of
requests.

`PaidIsCommitted` is the stronger form of `NoDoublePayment`: blocks that stay commit a
transfer to one transaction only. So `network_failures` checks it alone.

## Fairness

`FairSpec` of `FastBTCBridge`: blocks keep coming, and an owner whose transfer can
be reclaimed does it. `frozen` is the way out that the code leaves to guards, so
`NoTransferStuckInNew` allows it.

`FairSpec` of `FastBTCNode`: the main loop of every node is an endless loop
(`enterMainLoop`, which catches what an iteration throws), so scanning and the
end of a wait are weakly fair. The initiator asks again in each iteration and the
network does not lose all the messages, so iterations (with all the answers that
came) and handlers are strongly fair: a message may make room for another again
and again, but not always before it arrives. Both chains include what they can.
`FailoverSpec` adds that the votes of all nodes settle on the same initiator.

`FairSpec` of `EventScanner`: every iteration of the main loop scans, so the steps of a
scan go on. Nothing is assumed of the chain, and faults are bounded.

`FairSpec` of `FederatorNetwork`: timers go on, connections that are possible come
about (ataraxia keeps trying), messages arrive. Voting is strongly fair, because a
node decides only when nothing is on its way to it, and so is noticing a departure, which
has to wait for room in `syncs`. Role changes, crashes and losses are not fair.

`FairSpec` of `Replenisher`: main loops go on, messages arrive, Bitcoin mines.
Iterations are strongly fair, because they begin only between messages.

## Proofs

Checked by TLAPS for every value of the constants that satisfies the assumptions
named in the modules (`AccountsAssumption`, `BridgeAssumption`, `NodeAssumption`,
`ScannerAssumption`, `VotingAssumption`, `NetworkAssumption`, `ReplenisherAssumption`,
`TextAssumption`). Some theorems have a hypothesis of their own: `InitiatorSticks`
(nobody is forced, below), `WrongBytesAlwaysRefused` (admins install no validators but
those of the mainnet, with or without legacy addresses), and those about the scanner
`BatchesFit`, that batches have fewer than 256 transfers.
`FastBTCBridge.sol:69` says that they have at most 40, which nothing enforces there; in a
batch of 256 the size in the event would be 0, and the scanner would find no commitment
for its updates.

The contracts:

- `AccessControlTypeCorrect`: only accounts hold roles. Inductive as it stands;
  the step that needs an argument is `grantRole`, which refuses the zero address.
- `MajoritiesAlwaysIntersect`: `AcceptedSigners` shows that an accepted list has
  as many distinct federators as signatures, `AcceptedListsIntersect` counts: two
  disjoint sets of them would be more than all federators. It needs the type
  invariant, for finiteness.
- `TypeCorrect`: the types of the bridge. What admins may withdraw and the balance
  never get negative by the guards of the calls, one step per call.
- `AlwaysSolvent`: `Solvency` with `TypeOK` is inductive. The lemmas on `Sum` say how
  the total of the NEW transfers changes when some leave NEW (`LeavingNew`), when
  others move (`StayingOutOfNew`) and when one is made (`DepositAddsToOwed`); the
  last needs that the transfer was not NEW before, which `transferToBtc` checks.
- `FrozenIsAlwaysPaused`: inductive as it stands.
- `NextSlotAlwaysFree`: `NextSlotFree` alone is not inductive, since `copyNonces` may lower
  a nonce. `NonceInvariant` adds that there are no transfers before `markReady`,
  after which `copyNonces` is refused.
- `FeesAlwaysExplained`: `FeeInvariant` adds to `FeeStructuresExplainAmounts` that the
  current structure and those of all transfers exist; a structure is never overwritten.
- `BridgeImplementsLedger`: the ledger counts money in wei, the contract keeps
  amounts in satoshi. `LedgerTotal` shows by a bijection that the totals agree, so that
  `Solvency` says that what the ledger holds in escrow is the balance without what admins may
  withdraw. Then each call is a deposit, a return, a release, a confirmation or an
  expense of the ledger, or changes nothing of it.
- `WrongBytesAlwaysRefused`: TLC has two addresses, the theorem all texts that the
  validator accepts. `MaskedCharacters` decodes the mask, word by word and bit by bit,
  and `Bech32Characters` and `Base58Characters` compare what passes with the alphabets
  of the encoders. `MainnetTakesWhatMayStand` then takes the wrong byte in the prefix or
  after it; a text of one kind never passes for one of the other, because their
  lengths, 42 to 64 and 26 to 35, have nothing in common. That each transfer is to an
  address that some validator accepted is inductive.

The nodes (`FastBTCNodeProofs`). `NodeInv` is inductive and has four parts: `TypesOK`;
`Backed`, that wherever a batch is (stored, in mind, in a message), a Bitcoin signature on
it, as any transaction that was submitted, means that RSK committed to its transaction in a
block that stays, and a signature that it was mined means that its transfers were paid (two
facts that never become false, so a batch may be as old as it likes); `HistoryOK`, how a chain of blocks
grows, namely that a transfer is committed once and mined after it; and `CoinsOK`, that a
coin is spent once. From it follow `TypeCorrect`, `PaymentsAreCommitted`,
`NobodyIsPaidTwice`, `RecordedAsMinedIsPaid` and `GivenUpIsPaid`, for any number of nodes,
of whom any may take themselves for the initiator, of coins, faults and reorganizations.
The status of a transfer is that of the last entry of the chain about it, so `HistoryOK`,
which says what a later entry may do after an earlier one, needs no induction over the
chain; and what a reorganization drops leaves the entries that stay.

`NodesImplementPayouts`, from the same invariant: the first `final` entries only grow
(`ChainsGoOn`), so the last entry about a transfer stays the last or is followed by one that
`Follows` allows, and the fate of the transfer goes on along `Paths` or stays
(`TransferGoesOn`, `SettleTransfer`). A commitment is to a transaction that nothing else was
committed to: an entry commits all transfers of its batch at once, and the
transaction names them. `SettleStep` puts this together for the steps in which Bitcoin does
nothing; in the others (`PayStep`), a transaction is mined, which `SubmittedPays` says
pays somebody and `HistoryOK` that it pays nobody a second time.

What nodes keep (`FastBTCNodeRecoveryProofs`). `CommittedBatchSurvives` says what a node
stores when its transaction is in a block that stays; to prove it one has to follow the
batch from the moment the node sends the marking transaction, through blocks that come
and go, to the payment:

- `Keeps` is about a node that is its own initiator and never turned: it has at most one row
  that is not finalized, the batch it waits for is that row, and of each marking
  transaction it sent, in a block or not, it can still go on with the batch
  (`CanGoOn`), unless Bitcoin mined its transaction or it is `Void`.
- `Void` is what makes the node right to drop a batch: one of the transfers was
  reclaimed, refunded or committed to something else. An entry that stays never
  becomes untrue, and a reclaim that RSK drops is remembered by `unreclaimed`, so
  `Void` is stable.
- `CanGoOn` says that the row is there and that the node saw all transfers of the batch
  in one status, NEW until it writes or scans the marking and SENDING from then
  on. A batch whose transfers have one status is not found invalid, and getting the
  next batch returns its row, so no purge and no fresh batch removes it
  (`GoesOn` and the lemmas about purging, updating and scanning).

From it follow `InitiatorsKeep`, which is about what is pending as well, and
`CommittedBatchesSurvive`: a transaction in a block that stays, and not `unreclaimed`, is not
`Void`, by `HistoryOK`.

The scanner (`EventScannerProofs`). `ScannerInv` is inductive. `ChainInv` is about every
chain of blocks that calls and reorganizations can lead to: the events of a transfer follow
one another as its statuses may (`Follows`), a batch is followed by its updates and by
nothing else before them, and what the bridge says after a block is what the events up to
it say. That a transfer gets each status once makes the latter a matter of sets of
events, without induction over the log. `ScanInv`: the database says what the events up to
the last processed block say, what has arrived is what has been asked for so far, and
while it is processed, what is done comes before what is left. From it:

- `TypeCorrect` and `NeverThrows`: the next event finds its transfer, and an update its
  batch, because these come before it and are done.
- `ScannerImplementsMirror`: `Commit` makes the database say what the events up to the new
  last processed block say, which is what the bridge said after it (`ReflectsIsCopy`);
  a call or a reorganization leaves the blocks that have their confirmations.

The network of federators (`FederatorNetworkProofs`):

- `NetworkTypeCorrect`, `InitiatorIsAlwaysOnline`, `DepartedNeverHaveVotes` and
  `UndecidedNodesAlwaysAsk` follow from one inductive invariant, the types and the
  last three together: a node that loses its initiator forgets the vote and starts
  to ask in one step, and a synchronisation that ends has elected somebody online.
- `MajoritiesIntersectInTheNetwork`: the theorem about signature lists, while federators
  change under a running network.
- `InitiatorSticks`: `StickyInitiator`, if nobody is forced. A group that agrees and is
  more than half of what each of its members sees has the most popular value
  (`MajorityIsMostPopular`), whatever the others vote; so those who decide choose it
  again, and all they say to each other is that.

The replenisher (`ReplenisherProofs`):

- `CapAlwaysHolds`: as long as nothing was handed over, one node alone iterates, no
  request is on its way to it that might overwrite its counts, and it has counted all
  that was sent but the one it waits for (`InitiatorCounts`).
- `AlwaysFewAtOnce`: nodes that are active, with replenishments in the mempool that nobody
  waits for, are no more than one and the number of things that went wrong
  (`FewUnawaited`). It needs that a PSBT spends some coin, so that one that is accepted
  was not mined before.
- `ReplenisherTypeCorrect`: `Wallets` adds to the types that what a node holds and what is in
  the mempool is a PSBT (`IsPsbt`): `ReplenishPsbt` stops at the least number of inputs
  that is enough or too many, and the `k` oldest coins are no more than `k`
  (`OldestCoinsAreFew`). `Total` counts the units in coins, so it needs no recursion.

Checked by TLC only: liveness (`NoTransferStuckInNew`, `EveryTransferEnds`,
`OneInitiatorInTheEnd`, `RefilledInTheEnd` and `CatchesUp`), which is out of the prover's
reach. All other properties of the passing runs are theorems.

## Not modelled

- Amounts, scripts, sizes and fees of Bitcoin transactions, and with them
  `btc/fees.ts`, which picks a fee rate, and what `validatePsbt` leaves to it.
- The setters of `BTCAddressValidator`, and what Bitcoin makes of a string with a wrong
  checksum, other than that a node takes such a transfer for `INVALID`.
- Two bridges during an upgrade: `bridge_settings` has the new one, with any nonces the
  old one may have. That `copyNonces` is called when the old one no longer takes deposits
  is up to the admins.
- One model of elections and payments: `FastBTCNode` allows more changes of mind than
  `FederatorNetwork` makes, and together they are out of TLC's reach.
- `withdrawTokens`, configuration, secrets, logging, alerts and statistics, the web
  interface, deployment, tests and integration scripts.

What could be proved next: that the composition is sound, namely that
`ScanNewEvents` of `FastBTCNode` is a `Copy` of `BridgeMirror` and its bridge a part of
`FastBTCBridge`. Both are argued above only.
