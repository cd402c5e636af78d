--------------------- MODULE FastBTCNodeRecoveryProofs ---------------------
(***************************************************************************)
(* Proof that a node keeps what it committed RSK to: the batch of a        *)
(* marking transaction stays in the database of the node that sent it      *)
(* until Bitcoin has mined its transaction, for any number of nodes,       *)
(* initiators at a time, transfers, restarts, timeouts and dropped blocks. *)
(***************************************************************************)
EXTENDS FastBTCNodeProofs

-----------------------------------------------------------------------------
(* The inductive invariant. A node that is its own initiator changes its    *)
(* database only by itself, and has at most one row that is not finalized.  *)
(* What keeps the row of a marking transaction there is that all transfers  *)
(* of its batch have one local status, NEW until the marking is done or     *)
(* scanned, and SENDING from then on, so the batch is never found invalid.  *)

Pending(row) == ~row.finalized

OnePending(rows) ==
    \A i, j \in DOMAIN rows : Pending(rows[i]) /\ Pending(rows[j]) => i = j

\* A pending row is that of tx, and every pending row is.
PendingFor(rows, tx) == \E i \in DOMAIN rows : Pending(rows[i]) /\ rows[i].data.tx = tx

PendingOnlyFor(rows, tx) == \A i \in DOMAIN rows : Pending(rows[i]) => rows[i].data.tx = tx

NonePending(rows) == \A i \in DOMAIN rows : ~Pending(rows[i])

\* The transactions of nodes that are in blocks, or may be.
Markings ==
    rskPool \cup {chain[i].by : i \in {i \in DOMAIN chain :
                                        chain[i].status \in {"SENDING", "MINED", "REVERTED"}}}

\* What makes a node right to drop tx: one of its transfers was reclaimed, even
\* in a block that RSK dropped, or blocks that stay refunded it, or committed it
\* to another transaction.
Rivals(entry, tx) ==
    entry.status = "REFUNDED" \/ (entry.status \in {"SENDING", "MINED"} /\ entry.tx # tx)

Void(tx) ==
    \E t \in SetOf(tx.pays) :
        \/ t \in scenario.unreclaimed
        \/ \E i \in DOMAIN chain : Concerns(chain[i], t) /\ chain[i].status = "RECLAIMED"
        \/ \E i \in 1 .. final : Concerns(chain[i], t) /\ Rivals(chain[i], tx)

\* n can go on with tx: it stores it, and saw all its transfers in one status.
CanGoOn(n, tx) ==
    /\ tx.pays # <<>>
    /\ PendingFor(stored[n], tx)
    /\ \E s \in {"NEW", "SENDING"} : \A t \in SetOf(tx.pays) : status[n][t] = s
    /\ \A t \in SetOf(tx.pays) : \E i \in 1 .. scanned[n] : Concerns(chain[i], t)

Keeps(n) ==
    /\ OnePending(stored[n])
    /\ phase[n] # "idle" => PendingFor(stored[n], current[n].tx)
    /\ \A m \in Markings : m.by = n /\ m.status = "SENDING" =>
         IsMined(m.tx) \/ Void(m.tx) \/ CanGoOn(n, m.tx)

\* A local status NEW comes from an entry that was scanned.
NewIsScanned ==
    \A n \in Nodes : \A t \in Transfers : status[n][t] = "NEW" =>
        \E i \in 1 .. scanned[n] : Concerns(chain[i], t)

\* An entry that changes statuses says what its transaction says.
EntriesMatch ==
    \A i \in DOMAIN chain : chain[i].status \in {"SENDING", "MINED"} =>
        chain[i].by.status = chain[i].status /\ chain[i].by.tx = chain[i].tx

ScenarioTypes ==
    scenario \in [transfers : Nat, returns : Nat, changes : Nat, restarts : Nat,
                  timeouts : Nat, reorgs : Nat, turned : SUBSET Nodes,
                  unreclaimed : SUBSET Transfers]

\* Who never turned takes himself for the initiator if he sent anything to RSK.
SendersAreInitiators ==
    \A m \in Markings : m.by \notin scenario.turned => initiator[m.by] = m.by

RecoveryInv ==
    /\ NewIsScanned /\ EntriesMatch /\ ScenarioTypes /\ SendersAreInitiators
    /\ \A n \in Nodes \ scenario.turned : initiator[n] = n => Keeps(n)

-----------------------------------------------------------------------------
(* Lemmas about rows *)

\* createOrUpdateFromTransferBatch replaces the data of a row with the same
\* transfers (models.ts:188).
LEMMA RowsReplaced ==
    ASSUME NEW rows \in Seq(Rows), NEW batch, NEW mark \in BOOLEAN,
           \E i \in DOMAIN rows : SameIds(rows[i], batch)
    PROVE  LET after == CreateOrUpdate(rows, batch, mark)
           IN  /\ DOMAIN after = DOMAIN rows
               /\ \A i \in DOMAIN rows :
                    IF SameIds(rows[i], batch)
                    THEN after[i].data = batch /\ after[i].finalized = (rows[i].finalized \/ mark)
                    ELSE after[i] = rows[i]
<1> DEFINE after == CreateOrUpdate(rows, batch, mark)
<1>1. after = [i \in DOMAIN rows |->
                 IF SameIds(rows[i], batch)
                 THEN [data |-> batch, finalized |-> rows[i].finalized \/ mark]
                 ELSE rows[i]]
  BY DEF CreateOrUpdate
<1>2. DOMAIN after = DOMAIN rows
  BY <1>1
<1>3. ASSUME NEW i \in DOMAIN rows
      PROVE  IF SameIds(rows[i], batch)
             THEN after[i].data = batch /\ after[i].finalized = (rows[i].finalized \/ mark)
             ELSE after[i] = rows[i]
  BY <1>1
<1> HIDE DEF after
<1>4. QED
  BY <1>2, <1>3 DEF after

\* When there is none, it adds a row.
LEMMA RowAdded ==
    ASSUME NEW rows \in Seq(Rows), NEW batch, NEW mark \in BOOLEAN,
           ~\E i \in DOMAIN rows : SameIds(rows[i], batch)
    PROVE  LET after == CreateOrUpdate(rows, batch, mark)
           IN  /\ DOMAIN after = DOMAIN rows \cup {Len(rows) + 1}
               /\ \A i \in DOMAIN rows : after[i] = rows[i]
               /\ after[Len(rows) + 1] = [data |-> batch, finalized |-> mark]
<1> DEFINE after == CreateOrUpdate(rows, batch, mark)
           row == [data |-> batch, finalized |-> mark]
<1>1. after = Append(rows, row)
  BY DEF CreateOrUpdate
<1> HIDE DEF after, row
<1>2. DOMAIN rows = 1 .. Len(rows) /\ Len(rows) \in Nat
  OBVIOUS
<1>3. 1 .. Len(rows) + 1 = (1 .. Len(rows)) \cup {Len(rows) + 1}
  BY <1>2
<1>4. /\ DOMAIN after = DOMAIN rows \cup {Len(rows) + 1}
      /\ \A i \in DOMAIN rows : after[i] = rows[i]
      /\ after[Len(rows) + 1] = row
  BY <1>1, <1>2, <1>3
<1>5. QED
  BY <1>4 DEF after, row

\* Storing the batch of the pending row changes no other pending row.
LEMMA StoringPending ==
    ASSUME NEW rows \in Seq(Rows), NEW batch, NEW mark \in BOOLEAN,
           OnePending(rows), PendingFor(rows, batch.tx)
    PROVE  LET after == CreateOrUpdate(rows, batch, mark)
           IN  /\ OnePending(after)
               /\ PendingOnlyFor(after, batch.tx)
               /\ ~mark => PendingFor(after, batch.tx)
<1> DEFINE after == CreateOrUpdate(rows, batch, mark)
<1>1. PICK p \in DOMAIN rows : Pending(rows[p]) /\ rows[p].data.tx = batch.tx
  BY DEF PendingFor
<1>2. SameIds(rows[p], batch)
  BY <1>1 DEF SameIds, Ids
<1>3. /\ DOMAIN after = DOMAIN rows
      /\ \A i \in DOMAIN rows :
           IF SameIds(rows[i], batch)
           THEN after[i].data = batch /\ after[i].finalized = (rows[i].finalized \/ mark)
           ELSE after[i] = rows[i]
  BY <1>2, RowsReplaced
<1> HIDE DEF after
<1>4. \A i \in DOMAIN rows : Pending(after[i]) => Pending(rows[i])
  BY <1>3 DEF Pending
<1>5. \A i \in DOMAIN rows : Pending(rows[i]) => i = p
  BY <1>1 DEF OnePending
<1>6. after[p].data = batch /\ after[p].finalized = (rows[p].finalized \/ mark)
  BY <1>2, <1>3
<1>7. OnePending(after)
  BY <1>3, <1>4 DEF OnePending
<1>8. PendingOnlyFor(after, batch.tx)
  BY <1>3, <1>4, <1>5, <1>6 DEF PendingOnlyFor
<1>9. ~mark => PendingFor(after, batch.tx)
  BY <1>1, <1>3, <1>6 DEF PendingFor, Pending
<1>10. QED
  BY <1>7, <1>8, <1>9 DEF after

\* Storing a batch when no row is pending.
LEMMA StoringFirstPending ==
    ASSUME NEW rows \in Seq(Rows), NEW batch, NEW mark \in BOOLEAN, NonePending(rows)
    PROVE  LET after == CreateOrUpdate(rows, batch, mark)
           IN  /\ OnePending(after)
               /\ PendingOnlyFor(after, batch.tx)
               /\ \/ PendingFor(after, batch.tx)
                  \/ mark
                  \/ \E i \in DOMAIN rows : rows[i].finalized /\ SameIds(rows[i], batch)
<1> DEFINE after == CreateOrUpdate(rows, batch, mark)
<1>1. CASE \E i \in DOMAIN rows : SameIds(rows[i], batch)
  <2>1. /\ DOMAIN after = DOMAIN rows
        /\ \A i \in DOMAIN rows :
             IF SameIds(rows[i], batch)
             THEN after[i].data = batch /\ after[i].finalized = (rows[i].finalized \/ mark)
             ELSE after[i] = rows[i]
    BY <1>1, RowsReplaced
  <2> HIDE DEF after
  <2>2. NonePending(after)
    BY <2>1 DEF NonePending, Pending
  <2>3. QED
    BY <1>1, <2>2 DEF NonePending, OnePending, PendingOnlyFor, Pending, after
<1>2. CASE ~\E i \in DOMAIN rows : SameIds(rows[i], batch)
  <2>1. /\ DOMAIN after = DOMAIN rows \cup {Len(rows) + 1}
        /\ \A i \in DOMAIN rows : after[i] = rows[i]
        /\ after[Len(rows) + 1] = [data |-> batch, finalized |-> mark]
    BY <1>2, RowAdded
  <2> HIDE DEF after
  <2>2. \A i \in DOMAIN after : Pending(after[i]) => i = Len(rows) + 1
    BY <2>1 DEF NonePending, Pending
  <2>3. after[Len(rows) + 1].data = batch /\ after[Len(rows) + 1].finalized = mark
    BY <2>1
  <2>4. OnePending(after) /\ PendingOnlyFor(after, batch.tx)
    BY <2>2, <2>3 DEF OnePending, PendingOnlyFor
  <2>5. PendingFor(after, batch.tx) \/ mark
    BY <2>1, <2>3 DEF PendingFor, Pending
  <2>6. QED
    BY <2>4, <2>5 DEF after
<1>3. QED
  BY <1>1, <1>2

\* Removing the batch that every pending row is for.
LEMMA RemovingPending ==
    ASSUME NEW rows \in Seq(Rows), NEW batch, PendingOnlyFor(rows, batch.tx)
    PROVE  RemoveStored(rows, batch) \in Seq(Rows) /\ NonePending(RemoveStored(rows, batch))
<1> DEFINE kept == {i \in DOMAIN rows : ~SameIds(rows[i], batch)}
<1>1. \A i \in kept : i \in DOMAIN rows /\ ~Pending(rows[i])
  BY DEF PendingOnlyFor, SameIds, Ids
<1>2. kept \subseteq DOMAIN rows
  OBVIOUS
<1> HIDE DEF kept
<1>3. /\ Filtered(rows, kept) \in Seq(Rows)
      /\ \A k \in DOMAIN Filtered(rows, kept) : \E i \in kept : Filtered(rows, kept)[k] = rows[i]
  BY <1>2, FilteredMembers
<1>4. NonePending(Filtered(rows, kept))
  BY <1>1, <1>3 DEF NonePending
<1>5. QED
  BY <1>3, <1>4 DEF RemoveStored, kept

\* getPendingTransferBatch finds the first row that is not passed, and it is
\* pending.
LEMMA FirstNotPassed ==
    ASSUME NodeTypesOK, NEW n \in Nodes, PassedRows(n) # DOMAIN stored[n]
    PROVE  LET p == Cardinality(PassedRows(n)) + 1
           IN  /\ p \in DOMAIN stored[n] /\ p \notin PassedRows(n)
               /\ Pending(stored[n][p]) /\ ~IsMarkedAsMined(n, stored[n][p].data)
<1> DEFINE rows == stored[n]
           Over(j) == rows[j].finalized \/ IsMarkedAsMined(n, rows[j].data)
           passed == PassedRows(n)
           rest == DOMAIN rows \ passed
<1>1. rows \in Seq(Rows) /\ DOMAIN rows = 1 .. Len(rows) /\ Len(rows) \in Nat
  BY DEF NodeTypesOK
<1>2. passed = {i \in DOMAIN rows : \A j \in 1 .. i : Over(j)}
  BY DEF PassedRows
<1> HIDE DEF rows, passed, Over
<1>3. rest \subseteq Nat /\ rest # {}
  BY <1>1, <1>2 DEF rows, passed
<1>4. PICK p \in rest : \A i \in rest : p <= i
  BY <1>3, SmallestNumber
<1>5. p \in 1 .. Len(rows) /\ p \notin passed
  BY <1>1, <1>4
<1>6. \A i \in 1 .. p - 1 : i \in passed
  <2> SUFFICES ASSUME NEW i \in 1 .. p - 1
               PROVE  i \in passed
    OBVIOUS
  <2>1. i \in DOMAIN rows /\ ~(p <= i)
    BY <1>1, <1>5
  <2>2. QED
    BY <1>4, <2>1
<1>7. \A j \in 1 .. p - 1 : Over(j)
  <2> SUFFICES ASSUME NEW j \in 1 .. p - 1
               PROVE  Over(j)
    OBVIOUS
  <2>1. j \in passed /\ j \in 1 .. j
    BY <1>5, <1>6
  <2>2. QED
    BY <1>2, <2>1
<1>8. ~Over(p)
  <2> SUFFICES ASSUME Over(p)
               PROVE  FALSE
    OBVIOUS
  <2>1. \A j \in 1 .. p : j = p \/ j \in 1 .. p - 1
    BY <1>5
  <2>2. \A j \in 1 .. p : Over(j)
    BY <1>7, <2>1
  <2>3. QED
    BY <1>1, <1>2, <1>5, <2>2
<1>9. \A i \in passed : i \in 1 .. p - 1
  <2> SUFFICES ASSUME NEW i \in passed
               PROVE  i \in 1 .. p - 1
    OBVIOUS
  <2>1. i \in 1 .. Len(rows) /\ p \notin 1 .. i
    BY <1>1, <1>2, <1>8
  <2>2. QED
    BY <1>5, <2>1
<1>10. passed = 1 .. p - 1
  BY <1>6, <1>9
<1>11. Cardinality(1 .. p - 1) = p - 1
  <2>1. 1 \in Int /\ p - 1 \in Int
    BY <1>5
  <2>2. Cardinality(1 .. p - 1) = IF 1 > p - 1 THEN 0 ELSE (p - 1) - 1 + 1
    BY <2>1, FS_Interval
  <2>3. QED
    BY <1>5, <2>2
<1>12. Cardinality(passed) + 1 = p
  BY <1>5, <1>10, <1>11
<1>13. Pending(rows[p]) /\ ~IsMarkedAsMined(n, rows[p].data)
  BY <1>8 DEF Over, Pending
<1>14. QED
  BY <1>1, <1>5, <1>12, <1>13 DEF rows, passed

-----------------------------------------------------------------------------
(* Lemmas about transactions that are not void *)

\* None of the transfers of a transaction that is neither mined nor void is paid.
LEMMA OpenIsUnpaid ==
    ASSUME NodeInv, NEW tx, ~IsMined(tx), ~Void(tx), NEW t \in SetOf(tx.pays)
    PROVE  t \notin PaidTransfers
<1> SUFFICES ASSUME t \in PaidTransfers
             PROVE  FALSE
  OBVIOUS
<1>1. PICK i \in 1 .. final :
        /\ i \in DOMAIN chain
        /\ Concerns(chain[i], t) /\ chain[i].status = "SENDING" /\ IsMined(chain[i].tx)
  BY PaidHasEntry
<1>2. Rivals(chain[i], tx)
  BY <1>1 DEF Rivals
<1>3. QED
  BY <1>1, <1>2 DEF Void

\* A transfer that is NEW on RSK is not paid.
LEMMA NewIsUnpaid ==
    ASSUME NodeInv, NEW t, OnRsk(t) = "NEW"
    PROVE  t \notin PaidTransfers
<1> SUFFICES ASSUME t \in PaidTransfers
             PROVE  FALSE
  OBVIOUS
<1>1. PICK i \in 1 .. final :
        /\ i \in DOMAIN chain
        /\ Concerns(chain[i], t) /\ chain[i].status = "SENDING"
  BY PaidHasEntry
<1>2. Len(chain) \in Nat /\ DOMAIN chain = 1 .. Len(chain) /\ ChainTypesOK
  BY DEF NodeInv, TypesOK, ChainTypesOK
<1>3. PICK k \in DOMAIN chain :
        Concerns(chain[k], t) /\ chain[k].status = "NEW" /\ i <= k
  BY <1>1, <1>2, LastEntry DEF OnRsk
<1>4. t \in Transfers
  BY DEF PaidTransfers
<1>5. i < k
  BY <1>1, <1>2, <1>3
<1>6. <<"SENDING", "NEW">> \in Follows
  BY <1>1, <1>3, <1>4, <1>5 DEF NodeInv, HistoryOK
<1>7. QED
  BY <1>6 DEF Follows

\* The local statuses of a batch with valid states are one status, and that is
\* NEW if the batch is not marked as sending.
LEMMA NotSentIsNew ==
    ASSUME NEW n \in Nodes, NEW batch, NotSent(n, batch)
    PROVE  Ids(batch) # <<>> /\ \A t \in SetOf(Ids(batch)) : status[n][t] = "NEW"
<1> DEFINE S == Statuses(n, batch)
<1>1. /\ Ids(batch) # <<>> /\ S \subseteq {"NEW", "SENDING", "MINED"} /\ Cardinality(S) <= 1
      /\ ~(S \subseteq {"SENDING", "MINED"})
  BY DEF NotSent, HasValidTransferState, IsMarkedAsSending
<1> HIDE DEF S
<1>2. "NEW" \in S
  BY <1>1
<1>3. IsFiniteSet({"NEW", "SENDING", "MINED"})
  <2>1. IsFiniteSet({}) /\ IsFiniteSet({} \cup {"NEW"})
    BY FS_EmptySet, FS_AddElement
  <2>2. IsFiniteSet(({} \cup {"NEW"}) \cup {"SENDING"})
    BY <2>1, FS_AddElement
  <2>3. IsFiniteSet((({} \cup {"NEW"}) \cup {"SENDING"}) \cup {"MINED"})
    BY <2>2, FS_AddElement
  <2>4. (({} \cup {"NEW"}) \cup {"SENDING"}) \cup {"MINED"} = {"NEW", "SENDING", "MINED"}
    OBVIOUS
  <2>5. QED
    BY <2>3, <2>4
<1>4. IsFiniteSet(S)
  BY <1>1, <1>3, FS_Subset
<1>5. IsFiniteSet(S \ {"NEW"}) /\ Cardinality(S \ {"NEW"}) = Cardinality(S) - 1
  BY <1>2, <1>4, FS_RemoveElement
<1>6. Cardinality(S) \in Nat /\ Cardinality(S \ {"NEW"}) \in Nat
  BY <1>4, <1>5, FS_CardinalityType
<1>7. Cardinality(S \ {"NEW"}) = 0
  BY <1>1, <1>5, <1>6
<1>8. S \ {"NEW"} = {}
  BY <1>5, <1>7, FS_EmptySet
<1>9. \A s \in S : s = "NEW"
  BY <1>8
<1>10. QED
  BY <1>1, <1>9 DEF S, Statuses

\* A batch whose transfers all have the status s, NEW or SENDING, is valid.
LEMMA OneStatusIsValid ==
    ASSUME NEW n \in Nodes, NEW batch, NEW s \in {"NEW", "SENDING"},
           \A t \in SetOf(Ids(batch)) : status[n][t] = s
    PROVE  HasValidTransferState(n, batch)
<1>1. \A x \in Statuses(n, batch) : x = s
  BY DEF Statuses
<1>2. CASE Statuses(n, batch) = {}
  <2>1. Cardinality(Statuses(n, batch)) = 0
    BY <1>2, FS_EmptySet
  <2>2. QED
    BY <1>2, <2>1 DEF HasValidTransferState
<1>3. CASE Statuses(n, batch) # {}
  <2>1. Statuses(n, batch) = {s}
    BY <1>1, <1>3
  <2>2. Cardinality(Statuses(n, batch)) = 1
    BY <2>1, FS_Singleton
  <2>3. QED
    BY <2>1, <2>2 DEF HasValidTransferState
<1>4. QED
  BY <1>2, <1>3

\* Some transfer of a batch that has any is in its identifiers.
LEMMA SomeId ==
    ASSUME NEW ids \in Seq(Transfers), ids # <<>>
    PROVE  \E t : t \in SetOf(ids)
<1>1. 1 \in DOMAIN ids
  OBVIOUS
<1>2. QED
  BY <1>1 DEF SetOf

\* A transaction that n can go on with is not marked as mined.
LEMMA CanGoOnIsNotMined ==
    ASSUME NEW n \in Nodes, NEW tx \in Transactions, CanGoOn(n, tx),
           NEW batch, batch.tx = tx
    PROVE  ~IsMarkedAsMined(n, batch)
<1>1. PICK s \in {"NEW", "SENDING"} : \A t \in SetOf(tx.pays) : status[n][t] = s
  BY DEF CanGoOn
<1>2. PICK t : t \in SetOf(tx.pays)
  BY SomeId DEF CanGoOn, Transactions
<1>3. status[n][t] \in Statuses(n, batch)
  BY <1>2 DEF Statuses, Ids
<1>4. QED
  BY <1>1, <1>2, <1>3 DEF IsMarkedAsMined

-----------------------------------------------------------------------------
(* An iteration of an initiator keeps what it can go on with *)

KeepsPending(n, rows) ==
    \A tx \in Transactions : ~IsMined(tx) /\ ~Void(tx) /\ CanGoOn(n, tx) => PendingFor(rows, tx)

\* The rows and the batch that an iteration acts on. The batch is that of the
\* pending row, if there is one; else it has just been made of transfers that are
\* NEW, and nobody signed it, or a finalized row already has the same transfers.
CanActOn(n, rows, batch) ==
    /\ rows \in Seq(Rows) /\ batch \in Batches
    /\ OnePending(rows) /\ PendingOnlyFor(rows, batch.tx) /\ KeepsPending(n, rows)
    /\ \/ PendingFor(rows, batch.tx)
       \/ IsMarkedAsMined(n, batch)
       \/ /\ \A t \in SetOf(Ids(batch)) : status[n][t] = "NEW"
          /\ BagToSet(batch.sendingSigners) = {} \/ SetOf(Ids(batch)) \subseteq PaidTransfers

\* What one iteration of n leaves: every open transaction that n could go on with
\* keeps its row, and n sends RSK only what a pending row stores.
LeavesKept(n) ==
    \E rows : \E left \in Batches :
        /\ Leave(n, rows, left)
        /\ OnePending(rows) /\ KeepsPending(n, rows)
        /\ \/ rskPool' = rskPool /\ phase' = phase
           \/ \E s \in {"SENDING", "MINED"} :
                /\ rskPool' = rskPool \cup {RskTx(n, s, left)}
                /\ phase' = [phase EXCEPT ![n] = s]
                /\ PendingFor(rows, left.tx)
                /\ s = "SENDING" =>
                     /\ Ids(left) # <<>>
                     /\ \A t \in SetOf(Ids(left)) : status[n][t] = "NEW"

\* Acting without a change of the rows, or of what n sent to RSK.
LEMMA StayingKeeps ==
    ASSUME NEW n \in Nodes, NEW rows, NEW batch, CanActOn(n, rows, batch),
           Leave(n, rows, batch), rskPool' = rskPool, phase' = phase
    PROVE  LeavesKept(n)
BY DEF LeavesKept, CanActOn

\* Purging removes the only pending row, so it must not be one that n can go on
\* with: the batch is invalid, or one of its transfers was reclaimed.
LEMMA PurgingKeeps ==
    ASSUME NodeInv, NEW n \in Nodes, NEW rows, NEW batch, CanActOn(n, rows, batch),
           ~HasValidTransferState(n, batch) \/ ReclaimedIn(batch) # {}
    PROVE  /\ \A tx \in Transactions : ~(~IsMined(tx) /\ ~Void(tx) /\ CanGoOn(n, tx))
           /\ RemoveStored(rows, batch) \in Seq(Rows)
           /\ NonePending(RemoveStored(rows, batch))
<1>1. ASSUME NEW tx \in Transactions, ~IsMined(tx), ~Void(tx), CanGoOn(n, tx)
      PROVE  FALSE
  <2>1. tx = batch.tx
    BY <1>1 DEF CanActOn, KeepsPending, PendingFor, PendingOnlyFor
  <2>2. PICK s \in {"NEW", "SENDING"} : \A t \in SetOf(Ids(batch)) : status[n][t] = s
    BY <1>1, <2>1 DEF CanGoOn, Ids
  <2>3. HasValidTransferState(n, batch)
    BY <2>2, OneStatusIsValid
  <2>4. PICK t \in SetOf(tx.pays) : OnRsk(t) = "RECLAIMED"
    BY <2>1, <2>3 DEF ReclaimedIn, Ids
  <2>5. Len(chain) \in Nat /\ DOMAIN chain = 1 .. Len(chain)
    BY DEF NodeInv, TypesOK, ChainTypesOK
  <2>6. \E i \in DOMAIN chain : Concerns(chain[i], t) /\ chain[i].status = "RECLAIMED"
    BY <2>4, <2>5, LastEntry DEF OnRsk
  <2>7. QED
    BY <1>1, <2>4, <2>6 DEF Void
<1>2. QED
  BY <1>1, RemovingPending DEF CanActOn

\* Sending RSK a transaction that it accepts now, for a pending row.
LEMMA MarkingKeeps ==
    ASSUME NodeInv, NEW n \in Nodes, NEW rows, NEW batch, CanActOn(n, rows, batch),
           NEW s \in {"SENDING", "MINED"}, Leave(n, rows, batch),
           SendRskTransaction(n, s, batch),
           s = "SENDING" => NotSent(n, batch),
           s = "MINED" => Sent(n, batch) /\ ~IsMarkedAsMined(n, batch)
    PROVE  LeavesKept(n)
<1>1. CASE ~Accepted(RskTx(n, s, batch))
  BY <1>1, StayingKeeps DEF SendRskTransaction
<1>2. CASE Accepted(RskTx(n, s, batch))
  <2>1. batch \in Batches /\ Ids(batch) \in Seq(Transfers)
    BY DEF CanActOn, Ids, Batches, Transactions
  <2>2. Ids(batch) # <<>>
    BY DEF NotSent, Sent
  <2>3. PICK t : t \in SetOf(Ids(batch))
    BY <2>1, <2>2, SomeId
  <2>4. s = "SENDING" => \A u \in SetOf(Ids(batch)) : status[n][u] = "NEW"
    BY NotSentIsNew
  <2>5. status[n][t] \in Statuses(n, batch)
    BY <2>3 DEF Statuses
  <2>6. ~IsMarkedAsMined(n, batch)
    <3>1. s = "SENDING" => status[n][t] # "MINED"
      BY <2>3, <2>4
    <3>2. QED
      BY <2>5, <3>1 DEF IsMarkedAsMined
  <2>7. s = "MINED" => status[n][t] # "NEW"
    BY <2>5 DEF Sent, IsMarkedAsSending
  <2>8. s = "SENDING" => t \notin PaidTransfers
    <3>1. SUFFICES ASSUME s = "SENDING"
                   PROVE  t \notin PaidTransfers
      OBVIOUS
    <3>2. AllOnRsk(batch.tx.pays, "NEW")
      BY <1>2, <3>1 DEF Accepted, RskTx
    <3>3. OnRsk(t) = "NEW"
      BY <2>3, <3>2 DEF AllOnRsk, SetOf, Ids
    <3>4. QED
      BY <3>3, NewIsUnpaid
  <2>9. PendingFor(rows, batch.tx)
    <3>1. s = "SENDING" => BagToSet(batch.sendingSigners) # {}
      BY <1>2, EnoughIsSomebody DEF Accepted, RskTx
    <3>2. QED
      BY <2>3, <2>6, <2>7, <2>8, <3>1 DEF CanActOn
  <2>10. /\ rskPool' = rskPool \cup {RskTx(n, s, batch)}
         /\ phase' = [phase EXCEPT ![n] = s]
    BY <1>2 DEF SendRskTransaction
  <2>11. OnePending(rows) /\ KeepsPending(n, rows)
    BY DEF CanActOn
  <2>12. QED
    BY <2>1, <2>2, <2>4, <2>9, <2>10, <2>11 DEF LeavesKept
<1>3. QED
  BY <1>1, <1>2

\* handleReclaimedTransfers.
LEMMA PurgeReclaimedKeeps ==
    ASSUME NodeInv, NEW n \in Nodes, NEW rows, NEW batch, CanActOn(n, rows, batch),
           PurgeReclaimed(n, rows, batch)
    PROVE  LeavesKept(n)
<1> DEFINE purged == RemoveStored(rows, batch)
<1>1. /\ \A tx \in Transactions : ~(~IsMined(tx) /\ ~Void(tx) /\ CanGoOn(n, tx))
      /\ purged \in Seq(Rows) /\ NonePending(purged)
  BY PurgingKeeps DEF PurgeReclaimed
<1>2. \A after : KeepsPending(n, after)
  BY <1>1 DEF KeepsPending
<1>3. batch \in Batches
  BY DEF CanActOn
<1>4. rskPool' = rskPool /\ phase' = phase
  BY DEF PurgeReclaimed
<1> DEFINE valid == Filtered(Ids(batch),
                             {i \in DOMAIN Ids(batch) : OnRsk(Ids(batch)[i]) # "RECLAIMED"})
           left(c) == NewBatch([coin |-> c, pays |-> valid])
<1>5. \/ Leave(n, purged, batch)
      \/ \E c \in OldestCoins : Leave(n, UpdateStored(n, purged, left(c)), left(c))
  BY DEF PurgeReclaimed
<1>6. CASE Leave(n, purged, batch)
  <2>1. OnePending(purged)
    BY <1>1 DEF NonePending, OnePending
  <2> HIDE DEF purged
  <2>2. QED
    BY <1>2, <1>3, <1>4, <1>6, <2>1 DEF LeavesKept
<1>7. ASSUME NEW c \in OldestCoins, Leave(n, UpdateStored(n, purged, left(c)), left(c))
      PROVE  LeavesKept(n)
  <2>1. valid \in Seq(Transfers)
    <3>1. Ids(batch) \in Seq(Transfers)
      BY <1>3 DEF Ids, Batches, Transactions
    <3>2. QED
      BY <3>1, FilteredMembers
  <2>2. c \in Nat
    BY CoinsAreNumbers DEF NodeInv, TypesOK
  <2> HIDE DEF valid
  <2>3. left(c) \in Batches
    BY <2>1, <2>2, NewBatchTypes DEF Transactions
  <2> DEFINE new == left(c)
             mark == IsMarkedAsMined(n, new)
  <2>4. mark \in BOOLEAN
    BY DEF IsMarkedAsMined
  <2>5. Leave(n, CreateOrUpdate(purged, new, mark), new) /\ new \in Batches
    BY <1>7, <2>3 DEF UpdateStored
  <2> HIDE DEF purged, new, mark
  <2>6. OnePending(CreateOrUpdate(purged, new, mark))
    BY <1>1, <2>4, StoringFirstPending
  <2>7. QED
    BY <1>2, <1>4, <2>5, <2>6 DEF LeavesKept
<1>8. QED
  BY <1>5, <1>6, <1>7

\* Whatever an iteration does with its batch.
LEMMA ActKeeps ==
    ASSUME NodeInv, NEW n \in Nodes, NEW rows, NEW batch, CanActOn(n, rows, batch),
           NEW due \in BOOLEAN, Act(n, rows, batch, due)
    PROVE  LeavesKept(n)
<1>1. CASE PurgeInvalidBatch(n, rows, batch)
  <2> DEFINE purged == RemoveStored(rows, batch)
  <2>1. /\ \A tx \in Transactions : ~(~IsMined(tx) /\ ~Void(tx) /\ CanGoOn(n, tx))
        /\ NonePending(purged)
    BY <1>1, PurgingKeeps DEF PurgeInvalidBatch
  <2>2. Leave(n, purged, batch) /\ rskPool' = rskPool /\ phase' = phase /\ batch \in Batches
    BY <1>1 DEF PurgeInvalidBatch, CanActOn
  <2> HIDE DEF purged
  <2>3. KeepsPending(n, purged) /\ OnePending(purged)
    BY <2>1 DEF KeepsPending, NonePending, OnePending
  <2>4. QED
    BY <2>2, <2>3 DEF LeavesKept
<1>2. CASE NotDue(n, rows, batch)
  BY <1>2, StayingKeeps DEF NotDue
<1>3. CASE PurgeReclaimed(n, rows, batch)
  BY <1>3, PurgeReclaimedKeeps
<1>4. CASE RequestSendingSignatures(n, rows, batch)
  BY <1>4, StayingKeeps DEF RequestSendingSignatures, Request
<1>5. CASE MarkAsSending(n, rows, batch)
  BY <1>5, MarkingKeeps DEF MarkAsSending
<1>6. CASE RequestBitcoinSignatures(n, rows, batch)
  BY <1>6, StayingKeeps DEF RequestBitcoinSignatures, Request
<1>7. CASE SendToBitcoin(n, rows, batch)
  BY <1>7, StayingKeeps DEF SendToBitcoin
<1>8. CASE RequestMinedSignatures(n, rows, batch)
  BY <1>8, StayingKeeps DEF RequestMinedSignatures, Request
<1>9. CASE MarkAsMined(n, rows, batch)
  BY <1>9, MarkingKeeps DEF MarkAsMined
<1>10. QED
  BY <1>1, <1>2, <1>3, <1>4, <1>5, <1>6, <1>7, <1>8, <1>9 DEF Act

\* getPendingTransferBatch finalizes the rows it passes.
LEMMA PassingFinalizes ==
    ASSUME NodeTypesOK, NEW n \in Nodes, NEW i \in DOMAIN stored[n]
    PROVE  RowsAfterPassing(n)[i].finalized = (stored[n][i].finalized \/ i \in PassedRows(n))
<1>1. stored[n][i] \in Rows
  BY DEF NodeTypesOK
<1> DEFINE row == stored[n][i]
           isPassed == i \in PassedRows(n)
<1>2. RowsAfterPassing(n)[i] = [row EXCEPT !.finalized = @ \/ isPassed]
  BY DEF RowsAfterPassing
<1> HIDE DEF row, isPassed
<1>3. [row EXCEPT !.finalized = @ \/ isPassed].finalized = (row.finalized \/ isPassed)
  BY <1>1 DEF Rows, row
<1>4. QED
  BY <1>2, <1>3 DEF row, isPassed

\* getNextBatchTransfers takes transfers that are NEW.
LEMMA NextTransfersAreNew ==
    ASSUME NEW n \in Nodes, NEW t \in SetOf(NextBatchTransfers(n))
    PROVE  status[n][t] = "NEW"
<1>1. PICK S : /\ S \subseteq {u \in Transfers : status[n][u] = "NEW"}
               /\ NextBatchTransfers(n) = InOrder(S)
  BY DEF NextBatchTransfers
<1>2. S \subseteq Nat /\ IsFiniteSet(S)
  <2>1. Transfers \subseteq Nat /\ IsFiniteSet(Transfers)
    BY NodeAssumption, FS_Interval DEF Transfers
  <2>2. S \subseteq Transfers
    BY <1>1
  <2>3. QED
    BY <2>1, <2>2, FS_Subset
<1>3. InOrder(S) \in Seq(S)
  BY <1>2, InOrderMembers
<1>4. t \in S
  BY <1>1, <1>3 DEF SetOf
<1>5. QED
  BY <1>1, <1>4

\* The batch that getCurrentTransferBatch loads is that of the only pending row;
\* if there is none, it is a new one, and there is nothing that n can go on with.
LEMMA LoadedBatch ==
    ASSUME NodeInv, NEW n \in Nodes, OnePending(stored[n]), NEW batch \in CurrentTransferBatches(n)
    PROVE  LET rows == RowsAfterPassing(n)
           IN  \/ /\ OnePending(rows) /\ PendingFor(rows, batch.tx)
                  /\ PendingOnlyFor(rows, batch.tx) /\ KeepsPending(n, rows)
               \/ /\ NonePending(rows)
                  /\ \A tx \in Transactions : ~(~IsMined(tx) /\ ~Void(tx) /\ CanGoOn(n, tx))
                  /\ \A t \in SetOf(Ids(batch)) : status[n][t] = "NEW"
                  /\ BagToSet(batch.sendingSigners) = {}
<1> DEFINE rows == RowsAfterPassing(n)
<1>1. NodeTypesOK /\ BitcoinTypesOK
  BY DEF NodeInv, TypesOK
<1>2. /\ DOMAIN rows = DOMAIN stored[n]
      /\ \A i \in DOMAIN stored[n] :
           /\ rows[i].data = stored[n][i].data
           /\ rows[i].finalized = (stored[n][i].finalized \/ i \in PassedRows(n))
  BY <1>1, RowsAfterPassingTypes, PassingFinalizes
<1> HIDE DEF rows
<1>3. \A i \in DOMAIN rows : Pending(rows[i]) => Pending(stored[n][i])
  BY <1>2 DEF Pending
<1>4. OnePending(rows)
  BY <1>2, <1>3 DEF OnePending
<1>5. CASE PassedRows(n) # DOMAIN stored[n]
  <2> DEFINE p == Cardinality(PassedRows(n)) + 1
  <2>1. /\ p \in DOMAIN stored[n] /\ p \notin PassedRows(n)
        /\ Pending(stored[n][p])
    BY <1>1, <1>5, FirstNotPassed
  <2>2. batch = stored[n][p].data
    BY <1>5 DEF CurrentTransferBatches
  <2> HIDE DEF p
  <2>3. Pending(rows[p]) /\ p \in DOMAIN rows /\ rows[p].data = batch
    BY <1>2, <2>1, <2>2 DEF Pending
  <2>4. PendingFor(rows, batch.tx)
    BY <2>3 DEF PendingFor
  <2>5. \A i \in DOMAIN rows : Pending(rows[i]) => i = p
    BY <1>4, <2>3 DEF OnePending
  <2>6. PendingOnlyFor(rows, batch.tx)
    BY <2>3, <2>5 DEF PendingOnlyFor
  <2>7. KeepsPending(n, rows)
    <3>1. ASSUME NEW tx, PendingFor(stored[n], tx)
          PROVE  tx = batch.tx
      BY <2>1, <2>2, <3>1 DEF PendingFor, OnePending
    <3>2. QED
      BY <2>4, <3>1 DEF KeepsPending, CanGoOn
  <2>8. QED
    BY <1>4, <2>4, <2>6, <2>7 DEF rows
<1>6. CASE PassedRows(n) = DOMAIN stored[n]
  <2>1. NonePending(rows)
    BY <1>2, <1>6 DEF NonePending, Pending
  <2>2. ASSUME NEW tx \in Transactions, CanGoOn(n, tx)
        PROVE  FALSE
    <3>1. PICK i \in DOMAIN stored[n] : Pending(stored[n][i]) /\ stored[n][i].data.tx = tx
      BY <2>2 DEF CanGoOn, PendingFor
    <3>2. i \in 1 .. i
      BY <1>1 DEF NodeTypesOK
    <3>3. IsMarkedAsMined(n, stored[n][i].data)
      BY <1>6, <3>1, <3>2 DEF PassedRows, Pending
    <3>4. QED
      BY <2>2, <3>1, <3>3, CanGoOnIsNotMined
  <2>3. PICK c \in OldestCoins : batch = NewBatch([coin |-> c, pays |-> NextBatchTransfers(n)])
    BY <1>6 DEF CurrentTransferBatches
  <2>4. Ids(batch) = NextBatchTransfers(n) /\ batch.sendingSigners = EmptyBag
    BY <2>3 DEF NewBatch, Ids
  <2>5. \A t \in SetOf(Ids(batch)) : status[n][t] = "NEW"
    BY <2>4, NextTransfersAreNew
  <2>6. BagToSet(batch.sendingSigners) = {}
    BY <2>4, EmptySignatures
  <2>7. QED
    BY <2>1, <2>2, <2>5, <2>6 DEF rows
<1>7. QED
  BY <1>5, <1>6

\* The initiator's iteration, whatever signatures arrived.
LEMMA IterateKeeps ==
    ASSUME NodeInv, NEW n \in Nodes, OnePending(stored[n]),
           NEW arrived, arrived \subseteq Answers(n),
           NEW due \in BOOLEAN, Iterate(n, arrived, due)
    PROVE  LeavesKept(n)
<1> DEFINE rows == RowsAfterPassing(n)
           Used(batch) == IF current[n] # NoBatch /\ Ids(current[n]) = Ids(batch)
                          THEN arrived ELSE {}
<1>1. PICK batch \in CurrentTransferBatches(n) :
        \/ Used(batch) = {} /\ Act(n, rows, batch, due)
        \/ \E result \in BatchesWithGathered(n, batch, Used(batch)) :
             Act(n, UpdateStored(n, rows, result), result, due)
        \/ /\ Leave(n, rows, batch)
           /\ UNCHANGED <<rskPool, submitted, requests, phase>>
  BY DEF Iterate
<1> DEFINE used == Used(batch)
<1>2. NodeTypesOK /\ BitcoinTypesOK /\ MessageTypesOK
  BY DEF NodeInv, TypesOK
<1>3. batch \in Batches
  BY <1>2, CurrentBatchTypes
<1>4. /\ rows \in Seq(Rows)
      /\ RowsAreBacked(rows, CommittedTransactions, PaidTransfers)
  BY <1>2, PassingKeepsBacking DEF NodeInv, Backed, IsBacked
<1> DEFINE IsLoaded == /\ OnePending(rows) /\ PendingFor(rows, batch.tx)
                       /\ PendingOnlyFor(rows, batch.tx) /\ KeepsPending(n, rows)
           IsMade == /\ NonePending(rows)
                     /\ \A tx \in Transactions : ~(~IsMined(tx) /\ ~Void(tx) /\ CanGoOn(n, tx))
                     /\ \A t \in SetOf(Ids(batch)) : status[n][t] = "NEW"
                     /\ BagToSet(batch.sendingSigners) = {}
<1>5. IsLoaded \/ IsMade
  BY LoadedBatch
<1>6. used \subseteq Answers(n)
  OBVIOUS
<1> HIDE DEF rows, used
<1>7. CanActOn(n, rows, batch)
  <2>1. CASE IsLoaded
    BY <1>3, <1>4, <2>1 DEF CanActOn
  <2>2. CASE IsMade
    <3>1. OnePending(rows) /\ PendingOnlyFor(rows, batch.tx)
      BY <2>2 DEF NonePending, OnePending, PendingOnlyFor
    <3>2. KeepsPending(n, rows)
      BY <2>2 DEF KeepsPending
    <3>3. QED
      BY <1>3, <1>4, <2>2, <3>1, <3>2 DEF CanActOn
  <2>3. QED
    BY <1>5, <2>1, <2>2
<1>8. ASSUME NEW result \in BatchesWithGathered(n, batch, used)
      PROVE  CanActOn(n, UpdateStored(n, rows, result), result)
  <2>1. result \in Batches /\ result.tx = batch.tx /\ Ids(result) = Ids(batch)
    BY <1>2, <1>3, <1>6, GatheredBatch DEF Ids
  <2> DEFINE mark == IsMarkedAsMined(n, result)
             after == CreateOrUpdate(rows, result, mark)
  <2>2. mark \in BOOLEAN
    BY DEF IsMarkedAsMined
  <2>3. UpdateStored(n, rows, result) = after
    BY DEF UpdateStored
  <2> HIDE DEF mark
  <2>4. after \in Seq(Rows)
    BY <1>4, <2>1, <2>2, RowsAfterStoring
  <2>5. CASE IsLoaded
    <3>1. PendingFor(rows, result.tx)
      BY <2>1, <2>5
    <3>2. /\ OnePending(after) /\ PendingOnlyFor(after, result.tx)
          /\ ~mark => PendingFor(after, result.tx)
      BY <1>4, <2>2, <2>5, <3>1, StoringPending
    <3> HIDE DEF after
    <3>3. ASSUME NEW tx \in Transactions, ~IsMined(tx), ~Void(tx), CanGoOn(n, tx)
          PROVE  PendingFor(after, tx)
      <4>1. tx = result.tx
        BY <2>1, <2>5, <3>3 DEF KeepsPending, PendingFor, PendingOnlyFor
      <4>2. ~mark
        BY <3>3, <4>1, CanGoOnIsNotMined DEF mark
      <4>3. QED
        BY <3>2, <4>1, <4>2
    <3>4. KeepsPending(n, after)
      BY <3>3 DEF KeepsPending
    <3>5. QED
      BY <2>1, <2>3, <2>4, <3>2, <3>4 DEF CanActOn, mark
  <2>6. CASE IsMade
    <3>1. /\ OnePending(after) /\ PendingOnlyFor(after, result.tx)
          /\ \/ PendingFor(after, result.tx)
             \/ mark
             \/ \E i \in DOMAIN rows : rows[i].finalized /\ SameIds(rows[i], result)
      BY <1>4, <2>2, <2>6, StoringFirstPending
    <3> HIDE DEF after
    <3>2. KeepsPending(n, after)
      BY <2>6 DEF KeepsPending
    <3>3. (\E i \in DOMAIN rows : rows[i].finalized /\ SameIds(rows[i], result)) =>
             SetOf(Ids(result)) \subseteq PaidTransfers
      BY <1>4 DEF RowsAreBacked, SameIds
    <3>4. \A t \in SetOf(Ids(result)) : status[n][t] = "NEW"
      BY <2>1, <2>6
    <3>5. QED
      BY <2>1, <2>3, <2>4, <3>1, <3>2, <3>3, <3>4 DEF CanActOn, mark
  <2>7. QED
    BY <1>5, <2>5, <2>6
<1>9. CASE Act(n, rows, batch, due)
  BY <1>7, <1>9, ActKeeps
<1>10. ASSUME NEW result \in BatchesWithGathered(n, batch, used),
              Act(n, UpdateStored(n, rows, result), result, due)
       PROVE  LeavesKept(n)
  <2>1. CanActOn(n, UpdateStored(n, rows, result), result)
    BY <1>8
  <2> DEFINE after == UpdateStored(n, rows, result)
  <2>2. CanActOn(n, after, result) /\ Act(n, after, result, due)
    BY <1>10, <2>1
  <2> HIDE DEF after
  <2>3. QED
    BY <2>2, ActKeeps
<1>11. CASE Leave(n, rows, batch) /\ UNCHANGED <<rskPool, submitted, requests, phase>>
  <2>1. Leave(n, rows, batch) /\ rskPool' = rskPool /\ phase' = phase
    BY <1>11
  <2>2. QED
    BY <1>7, <2>1, StayingKeeps
<1>12. QED
  BY <1>1, <1>9, <1>10, <1>11 DEF used

-----------------------------------------------------------------------------
(* What steps do to the facts that the invariant speaks of *)

\* The transactions of nodes have their type.
LEMMA MarkingTypes ==
    ASSUME ChainTypesOK
    PROVE  Markings \subseteq RskTransactions
<1>1. ASSUME NEW i \in DOMAIN chain, chain[i].status \in {"SENDING", "MINED", "REVERTED"}
      PROVE  chain[i].by \in RskTransactions
  <2>1. chain[i] \in Entries
    BY DEF ChainTypesOK
  <2>2. QED
    BY <1>1, <2>1 DEF Entries
<1>2. QED
  BY <1>1 DEF Markings, ChainTypesOK

\* What happens leaves the histories as they are.
LEMMA HappensKeepsHistories ==
    ASSUME ScenarioTypes, NEW what \in {"returns", "restarts", "timeouts"}, Happens(what)
    PROVE  /\ ScenarioTypes'
           /\ scenario'.turned = scenario.turned
           /\ scenario'.unreclaimed = scenario.unreclaimed
BY DEF ScenarioTypes, Happens

\* Turning to another initiator is remembered, and so are dropped reclaims.
LEMMA HappensToIsRemembered ==
    ASSUME ScenarioTypes,
           NEW members,
           \/ members \subseteq Nodes /\ HappensTo("changes", "turned", members)
           \/ members \subseteq Transfers /\ HappensTo("reorgs", "unreclaimed", members)
    PROVE  /\ ScenarioTypes'
           /\ scenario'.turned = scenario.turned \/ scenario'.turned = scenario.turned \cup members
           /\ scenario.unreclaimed \subseteq scenario'.unreclaimed
           /\ HappensTo("changes", "turned", members) => members \subseteq scenario'.turned
           /\ HappensTo("reorgs", "unreclaimed", members) => members \subseteq scenario'.unreclaimed
<1>1. CASE members \subseteq Nodes /\ HappensTo("changes", "turned", members)
  <2>1. scenario' = [scenario EXCEPT !.changes = @ - 1, !.turned = @ \cup members]
    BY <1>1 DEF HappensTo
  <2>2. scenario.changes - 1 \in Nat /\ scenario.turned \cup members \subseteq Nodes
    BY <1>1 DEF HappensTo, ScenarioTypes
  <2>3. ScenarioTypes'
    BY <2>1, <2>2 DEF ScenarioTypes
  <2>4. /\ scenario'.turned = scenario.turned \cup members
        /\ scenario'.unreclaimed = scenario.unreclaimed
        /\ scenario'.reorgs = scenario.reorgs
    BY <2>1 DEF ScenarioTypes
  <2>5. ~HappensTo("reorgs", "unreclaimed", members)
    <3>1. HappensTo("reorgs", "unreclaimed", members) => scenario'.reorgs = scenario.reorgs - 1
      BY DEF HappensTo, ScenarioTypes
    <3>2. scenario.reorgs \in Nat
      BY DEF ScenarioTypes
    <3>3. QED
      BY <2>4, <3>1, <3>2
  <2>6. QED
    BY <2>3, <2>4, <2>5
<1>2. CASE members \subseteq Transfers /\ HappensTo("reorgs", "unreclaimed", members)
  <2>1. scenario' = [scenario EXCEPT !.reorgs = @ - 1, !.unreclaimed = @ \cup members]
    BY <1>2 DEF HappensTo
  <2>2. scenario.reorgs - 1 \in Nat /\ scenario.unreclaimed \cup members \subseteq Transfers
    BY <1>2 DEF HappensTo, ScenarioTypes
  <2>3. ScenarioTypes'
    BY <2>1, <2>2 DEF ScenarioTypes
  <2>4. /\ scenario'.unreclaimed = scenario.unreclaimed \cup members
        /\ scenario'.turned = scenario.turned
        /\ scenario'.changes = scenario.changes
    BY <2>1 DEF ScenarioTypes
  <2>5. ~HappensTo("changes", "turned", members)
    <3>1. HappensTo("changes", "turned", members) => scenario'.changes = scenario.changes - 1
      BY DEF HappensTo, ScenarioTypes
    <3>2. scenario.changes \in Nat
      BY DEF ScenarioTypes
    <3>3. QED
      BY <2>4, <3>1, <3>2
  <2>6. QED
    BY <2>3, <2>4, <2>5
<1>3. QED
  BY <1>1, <1>2

\* What makes a transaction void stays: blocks that stay, and reclaims, if only
\* as ones that RSK dropped.
LEMMA VoidStays ==
    ASSUME NEW tx, Void(tx), final \in Nat, final' \in Nat, final <= final',
           SetOf(tx.pays) \subseteq Transfers,
           scenario.unreclaimed \subseteq scenario'.unreclaimed,
           \A i \in 1 .. final : chain'[i] = chain[i],
           \A i \in DOMAIN chain : \A t \in Transfers :
              chain[i].status = "RECLAIMED" /\ Concerns(chain[i], t) =>
                  \/ i \in DOMAIN chain' /\ chain'[i] = chain[i]
                  \/ t \in scenario'.unreclaimed
    PROVE  Void(tx)'
<1>1. PICK t \in SetOf(tx.pays) :
        \/ t \in scenario.unreclaimed
        \/ \E i \in DOMAIN chain : Concerns(chain[i], t) /\ chain[i].status = "RECLAIMED"
        \/ \E i \in 1 .. final : Concerns(chain[i], t) /\ Rivals(chain[i], tx)
  BY DEF Void
<1>2. \A i \in 1 .. final : i \in 1 .. final'
  OBVIOUS
<1>3. \/ t \in scenario'.unreclaimed
      \/ \E i \in DOMAIN chain' : Concerns(chain'[i], t) /\ chain'[i].status = "RECLAIMED"
      \/ \E i \in 1 .. final' : Concerns(chain'[i], t) /\ Rivals(chain'[i], tx)
  BY <1>1, <1>2
<1>4. QED
  BY <1>3 DEF Void

\* A node whose own state does not change keeps what it has, if what it knows of
\* the chain stays, and it sent nothing new.
LEMMA OthersKeep ==
    ASSUME NodeInv, NEW k \in Nodes, Keeps(k),
           stored'[k] = stored[k], status'[k] = status[k], scanned'[k] = scanned[k],
           phase'[k] = "idle" \/ (phase'[k] = phase[k] /\ current'[k] = current[k]),
           \A i \in 1 .. scanned[k] : chain'[i] = chain[i],
           \A m \in Markings' : m.by = k /\ m.status = "SENDING" => m \in Markings,
           \A tx \in Transactions : IsMined(tx) => IsMined(tx)',
           \A tx \in Transactions : Void(tx) => Void(tx)'
    PROVE  Keeps(k)'
<1>1. OnePending(stored'[k])
  BY DEF Keeps
<1>2. phase'[k] # "idle" => PendingFor(stored'[k], current'[k].tx)
  BY DEF Keeps
<1>3. \A tx : CanGoOn(k, tx) => CanGoOn(k, tx)'
  BY DEF CanGoOn
<1>4. ASSUME NEW m \in Markings', m.by = k, m.status = "SENDING"
      PROVE  IsMined(m.tx)' \/ Void(m.tx)' \/ CanGoOn(k, m.tx)'
  <2>1. m \in Markings
    BY <1>4
  <2>2. m.tx \in Transactions
    BY <2>1, MarkingTypes DEF NodeInv, TypesOK, RskTransactions
  <2>3. IsMined(m.tx) \/ Void(m.tx) \/ CanGoOn(k, m.tx)
    BY <1>4, <2>1 DEF Keeps
  <2>4. QED
    BY <1>3, <2>2, <2>3
<1>5. QED
  BY <1>1, <1>2, <1>4 DEF Keeps

-----------------------------------------------------------------------------
(* The steps by which a node changes its own database *)

\* The initiator's iteration.
LEMMA IterateKeepsOwn ==
    ASSUME NodeInv, NewIsScanned, NEW n \in Nodes, Keeps(n),
           NEW arrived, arrived \subseteq Answers(n),
           NEW due \in BOOLEAN, Iterate(n, arrived, due)
    PROVE  Keeps(n)'
<1>1. PICK rows, left :
        /\ left \in Batches
        /\ Leave(n, rows, left)
        /\ OnePending(rows) /\ KeepsPending(n, rows)
        /\ \/ rskPool' = rskPool /\ phase' = phase
           \/ \E s \in {"SENDING", "MINED"} :
                /\ rskPool' = rskPool \cup {RskTx(n, s, left)}
                /\ phase' = [phase EXCEPT ![n] = s]
                /\ PendingFor(rows, left.tx)
                /\ s = "SENDING" =>
                     /\ Ids(left) # <<>>
                     /\ \A t \in SetOf(Ids(left)) : status[n][t] = "NEW"
  <2>1. OnePending(stored[n])
    BY DEF Keeps
  <2>2. LeavesKept(n)
    BY <2>1, IterateKeeps
  <2>3. QED
    BY <2>2 DEF LeavesKept
<1>2. /\ phase[n] = "idle"
      /\ chain' = chain /\ final' = final /\ mined' = mined /\ scanned' = scanned
      /\ status' = status /\ scenario' = scenario
  BY DEF Iterate
<1>3. NodeTypesOK /\ ChainTypesOK
  BY DEF NodeInv, TypesOK
<1>4. stored'[n] = rows /\ current'[n] = left
  BY <1>1, <1>3 DEF Leave, NodeTypesOK
<1>5. phase'[n] # "idle" => PendingFor(rows, left.tx)
  BY <1>1, <1>2
<1>6. /\ \A tx : IsMined(tx)' = IsMined(tx)
      /\ \A tx : Void(tx)' = Void(tx)
  BY <1>2 DEF IsMined, Void
<1>7. \A tx \in Transactions : ~IsMined(tx) /\ ~Void(tx) /\ CanGoOn(n, tx) => CanGoOn(n, tx)'
  BY <1>1, <1>2, <1>4 DEF KeepsPending, CanGoOn
<1>8. ASSUME NEW m \in Markings', m.by = n, m.status = "SENDING"
      PROVE  IsMined(m.tx)' \/ Void(m.tx)' \/ CanGoOn(n, m.tx)'
  <2>1. CASE m \in Markings
    <3>1. m.tx \in Transactions
      BY <1>3, <2>1, MarkingTypes DEF RskTransactions
    <3>2. IsMined(m.tx) \/ Void(m.tx) \/ CanGoOn(n, m.tx)
      BY <1>8, <2>1 DEF Keeps
    <3>3. QED
      BY <1>6, <1>7, <3>1, <3>2
  <2>2. CASE m \notin Markings
    <3>1. m \in rskPool' /\ m \notin rskPool
      BY <1>2, <1>8, <2>2 DEF Markings
    <3>2. PICK s \in {"SENDING", "MINED"} :
            /\ m = RskTx(n, s, left)
            /\ PendingFor(rows, left.tx)
            /\ s = "SENDING" => /\ Ids(left) # <<>>
                                /\ \A t \in SetOf(Ids(left)) : status[n][t] = "NEW"
      BY <1>1, <3>1
    <3>3. s = "SENDING" /\ m.tx = left.tx /\ Ids(left) = left.tx.pays
      BY <1>8, <3>2 DEF RskTx, Ids
    <3>4. SetOf(left.tx.pays) \subseteq Transfers
      BY <1>1 DEF Batches, Transactions, SetOf
    <3>5. \A t \in SetOf(left.tx.pays) : \E i \in 1 .. scanned[n] : Concerns(chain[i], t)
      BY <3>2, <3>3, <3>4 DEF NewIsScanned
    <3>6. CanGoOn(n, left.tx)'
      BY <1>2, <1>4, <3>2, <3>3, <3>5 DEF CanGoOn
    <3>7. QED
      BY <3>3, <3>6
  <2>3. QED
    BY <2>1, <2>2
<1>9. QED
  BY <1>1, <1>4, <1>5, <1>8 DEF Keeps

\* FinishMarking writes the batch and the statuses that the node waited with.
LEMMA FinishMarkingKeeps ==
    ASSUME NodeInv, NEW n \in Nodes, Keeps(n), FinishMarking(n),
           \A tx \in Transactions : Void(tx) => Void(tx)'
    PROVE  Keeps(n)'
<1> DEFINE batch == current[n]
           after == CreateOrUpdate(stored[n], batch, FALSE)
<1>1. NodeTypesOK /\ ChainTypesOK
  BY DEF NodeInv, TypesOK
<1>2. /\ phase[n] \in {"SENDING", "MINED"}
      /\ stored'[n] = after /\ phase'[n] = "idle"
      /\ \A t \in Transfers : status'[n][t] = IF t \in SetOf(Ids(batch)) THEN phase[n] ELSE status[n][t]
      /\ chain' = chain /\ rskPool' = rskPool /\ mined' = mined /\ scanned' = scanned
  BY <1>1 DEF FinishMarking, bitcoinVars, NodeTypesOK
<1>3. batch \in Batches /\ stored[n] \in Seq(Rows)
  BY <1>1, <1>2 DEF NodeTypesOK
<1>4. OnePending(stored[n]) /\ PendingFor(stored[n], batch.tx)
  BY <1>2 DEF Keeps
<1>5. OnePending(after) /\ PendingFor(after, batch.tx)
  BY <1>3, <1>4, StoringPending
<1>6. phase[n] = "MINED" => SetOf(Ids(batch)) \subseteq PaidTransfers
  BY DEF NodeInv, Backed, IsBacked, NodeIsBacked
<1> HIDE DEF after, batch
<1>7. Markings' = Markings /\ \A tx : IsMined(tx)' = IsMined(tx)
  BY <1>2 DEF Markings, IsMined
<1>8. ASSUME NEW tx \in Transactions, CanGoOn(n, tx), ~IsMined(tx), ~Void(tx)
      PROVE  CanGoOn(n, tx)'
  <2>1. tx = batch.tx
    BY <1>4, <1>8 DEF CanGoOn, PendingFor, OnePending
  <2>2. SetOf(tx.pays) = SetOf(Ids(batch)) /\ SetOf(tx.pays) \subseteq Transfers
    BY <2>1 DEF Ids, SetOf, Transactions
  <2>3. phase[n] = "SENDING"
    <3>1. PICK t : t \in SetOf(tx.pays)
      BY <1>8, SomeId DEF CanGoOn, Transactions
    <3>2. t \notin PaidTransfers
      BY <1>8, <3>1, OpenIsUnpaid
    <3>3. QED
      BY <1>2, <1>6, <2>2, <3>1, <3>2
  <2>4. \A t \in SetOf(tx.pays) : status'[n][t] = "SENDING"
    BY <1>2, <2>2, <2>3
  <2>5. QED
    BY <1>2, <1>5, <1>8, <2>1, <2>4 DEF CanGoOn
<1>9. ASSUME NEW m \in Markings', m.by = n, m.status = "SENDING"
      PROVE  IsMined(m.tx)' \/ Void(m.tx)' \/ CanGoOn(n, m.tx)'
  <2>1. m \in Markings /\ m.tx \in Transactions
    BY <1>1, <1>7, <1>9, MarkingTypes DEF RskTransactions
  <2>2. IsMined(m.tx) \/ Void(m.tx) \/ CanGoOn(n, m.tx)
    BY <1>9, <2>1 DEF Keeps
  <2>3. QED
    BY <1>7, <1>8, <2>1, <2>2
<1>10. QED
  BY <1>2, <1>5, <1>9 DEF Keeps

\* An entry that n scans and that concerns a transfer of a transaction n can go
\* on with is the commitment to that transaction, so it concerns all of them.
LEMMA ScannedEntryIsCommitment ==
    ASSUME NodeInv, NEW n \in Nodes, NEW tx \in Transactions, CanGoOn(n, tx),
           ~IsMined(tx), ~Void(tx),
           NEW m \in scanned[n] + 1 .. Len(chain),
           ~\E t \in SetOf(tx.pays) : \E i \in 1 .. m : Concerns(chain[i], t) /\ Rivals(chain[i], tx),
           NEW i \in scanned[n] + 1 .. m, NEW t \in SetOf(tx.pays), Concerns(chain[i], t)
    PROVE  chain[i].status = "SENDING" /\ chain[i].ids = tx.pays
<1>1. /\ scanned[n] \in Nat /\ Len(chain) \in Nat /\ DOMAIN chain = 1 .. Len(chain)
      /\ ChainTypesOK
  BY DEF NodeInv, TypesOK, ChainTypesOK, NodeTypesOK
<1>2. i \in DOMAIN chain /\ i \in 1 .. m
  BY <1>1
<1>3. /\ chain[i].status \in {"NEW", "SENDING", "MINED", "RECLAIMED", "REFUNDED"}
      /\ t \in Transfers
  BY <1>1, <1>2, EntryStatuses DEF Concerns
<1>4. chain[i].status # "NEW"
  <2>1. PICK j \in 1 .. scanned[n] : Concerns(chain[j], t)
    BY DEF CanGoOn
  <2>2. j \in DOMAIN chain /\ j < i
    BY <1>1, <1>2
  <2>3. <<chain[j].status, chain[i].status>> \in Follows
    BY <1>2, <1>3, <2>1, <2>2 DEF NodeInv, HistoryOK
  <2>4. QED
    BY <2>3 DEF Follows
<1>5. chain[i].status # "RECLAIMED"
  BY <1>2 DEF Void
<1>6. ~Rivals(chain[i], tx)
  BY <1>2
<1>7. chain[i].status # "MINED"
  <2>1. chain[i].status = "MINED" => t \in PaidTransfers
    BY <1>2 DEF NodeInv, Backed, IsBacked, EntriesAreBacked, Concerns
  <2>2. QED
    BY <2>1, OpenIsUnpaid
<1>8. chain[i].status = "SENDING" /\ chain[i].tx = tx
  BY <1>3, <1>4, <1>5, <1>6, <1>7 DEF Rivals
<1>9. QED
  BY <1>2, <1>8 DEF NodeInv, HistoryOK

\* scanNewEvents takes all transfers of such a transaction from NEW to SENDING, or
\* none.
LEMMA ScanKeeps ==
    ASSUME NodeInv, NEW n \in Nodes, Keeps(n), ScanNewEvents(n),
           \A tx \in Transactions : Void(tx) => Void(tx)'
    PROVE  Keeps(n)'
<1>1. NodeTypesOK /\ ChainTypesOK
  BY DEF NodeInv, TypesOK
<1>2. PICK m \in scanned[n] + 1 .. Len(chain) :
        /\ scanned' = [scanned EXCEPT ![n] = m]
        /\ status' = [status EXCEPT ![n] =
             [t \in Transfers |->
                IF \E i \in scanned[n] + 1 .. m : Concerns(chain[i], t)
                THEN StatusAt(m, t) ELSE @[t]]]
        /\ final' = IF m > final THEN m ELSE final
  BY DEF ScanNewEvents
<1>3. /\ chain' = chain /\ rskPool' = rskPool /\ mined' = mined /\ stored' = stored
      /\ phase' = phase /\ phase[n] = "idle"
  BY DEF ScanNewEvents, bitcoinVars
<1>4. /\ scanned[n] \in Nat /\ final \in Nat /\ Len(chain) \in Nat
      /\ m \in Nat /\ scanned[n] < m /\ m <= final' /\ final' \in Nat
  <2>1. scanned[n] \in Nat /\ final \in Nat /\ Len(chain) \in Nat
    BY <1>1 DEF NodeTypesOK, ChainTypesOK
  <2>2. QED
    BY <1>2, <2>1
<1>5. /\ scanned'[n] = m
      /\ \A t \in Transfers : status'[n][t] =
            IF \E i \in scanned[n] + 1 .. m : Concerns(chain[i], t)
            THEN StatusAt(m, t) ELSE status[n][t]
  BY <1>1, <1>2 DEF NodeTypesOK
<1>6. Markings' = Markings /\ \A tx : IsMined(tx)' = IsMined(tx)
  BY <1>3 DEF Markings, IsMined
<1>7. ASSUME NEW tx \in Transactions, CanGoOn(n, tx), ~IsMined(tx), ~Void(tx), ~Void(tx)'
      PROVE  CanGoOn(n, tx)'
  <2>1. SetOf(tx.pays) \subseteq Transfers
    BY DEF SetOf, Transactions
  <2>2. ~\E t \in SetOf(tx.pays) : \E i \in 1 .. m : Concerns(chain[i], t) /\ Rivals(chain[i], tx)
    <3>1. \A i \in 1 .. m : i \in 1 .. final'
      BY <1>4
    <3>2. ~\E t \in SetOf(tx.pays) : \E i \in 1 .. final' :
             Concerns(chain'[i], t) /\ Rivals(chain'[i], tx)
      BY <1>7 DEF Void
    <3>3. QED
      BY <1>3, <3>1, <3>2
  <2>3. \A i \in scanned[n] + 1 .. m : \A t \in SetOf(tx.pays) : Concerns(chain[i], t) =>
           chain[i].status = "SENDING" /\ chain[i].ids = tx.pays
    BY <1>2, <1>7, <2>2, ScannedEntryIsCommitment
  <2>4. \E s \in {"NEW", "SENDING"} : \A t \in SetOf(tx.pays) : status'[n][t] = s
    <3>1. CASE \E i \in scanned[n] + 1 .. m : \E t \in SetOf(tx.pays) : Concerns(chain[i], t)
      <4>1. PICK i \in scanned[n] + 1 .. m : chain[i].ids = tx.pays
        BY <2>3, <3>1
      <4>2. ASSUME NEW t \in SetOf(tx.pays)
            PROVE  status'[n][t] = "SENDING"
        <5>1. Concerns(chain[i], t) /\ i \in 1 .. m
          BY <1>4, <4>1 DEF Concerns
        <5>2. PICK k \in 1 .. m : /\ Concerns(chain[k], t)
                                  /\ StatusAt(m, t) = chain[k].status
                                  /\ i <= k
          BY <1>4, <5>1, LastEntry
        <5>3. k \in scanned[n] + 1 .. m
          BY <1>4, <5>2
        <5>4. StatusAt(m, t) = "SENDING"
          BY <2>3, <5>2, <5>3
        <5>5. QED
          BY <1>5, <2>1, <5>1, <5>4
      <4>3. QED
        BY <4>2
    <3>2. CASE ~\E i \in scanned[n] + 1 .. m : \E t \in SetOf(tx.pays) : Concerns(chain[i], t)
      <4>1. \A t \in SetOf(tx.pays) : status'[n][t] = status[n][t]
        BY <1>5, <2>1, <3>2
      <4>2. QED
        BY <1>7, <4>1 DEF CanGoOn
    <3>3. QED
      BY <3>1, <3>2
  <2>5. \A t \in SetOf(tx.pays) : \E i \in 1 .. m : Concerns(chain[i], t)
    <3>1. \A i \in 1 .. scanned[n] : i \in 1 .. m
      BY <1>4
    <3>2. QED
      BY <1>7, <3>1 DEF CanGoOn
  <2>6. QED
    BY <1>3, <1>5, <1>7, <2>4, <2>5 DEF CanGoOn
<1>8. ASSUME NEW k \in Markings', k.by = n, k.status = "SENDING"
      PROVE  IsMined(k.tx)' \/ Void(k.tx)' \/ CanGoOn(n, k.tx)'
  <2>1. k \in Markings /\ k.tx \in Transactions
    BY <1>1, <1>6, <1>8, MarkingTypes DEF RskTransactions
  <2>2. IsMined(k.tx) \/ Void(k.tx) \/ CanGoOn(n, k.tx)
    BY <1>8, <2>1 DEF Keeps
  <2>3. QED
    BY <1>6, <1>7, <2>1, <2>2
<1>9. QED
  BY <1>3, <1>8 DEF Keeps

-----------------------------------------------------------------------------
(* Every step keeps the invariant *)

\* What no step takes back.
GoesOn ==
    /\ ScenarioTypes'
    /\ scenario.turned \subseteq scenario'.turned
    /\ scenario.unreclaimed \subseteq scenario'.unreclaimed
    /\ final <= final'
    /\ \A i \in 1 .. final : chain'[i] = chain[i]
    /\ \A i \in DOMAIN chain : \A t \in Transfers :
          chain[i].status = "RECLAIMED" /\ Concerns(chain[i], t) =>
              \/ i \in DOMAIN chain' /\ chain'[i] = chain[i]
              \/ t \in scenario'.unreclaimed
    /\ \A tx \in Transactions : IsMined(tx) => IsMined(tx)'

LEMMA VoidGoesOn ==
    ASSUME NodeInv, NodeInv', GoesOn, NEW tx \in Transactions, Void(tx)
    PROVE  Void(tx)'
<1>1. final \in Nat /\ final' \in Nat
  BY DEF NodeInv, TypesOK, ChainTypesOK
<1>2. SetOf(tx.pays) \subseteq Transfers
  BY DEF SetOf, Transactions
<1>3. QED
  BY <1>1, <1>2, VoidStays DEF GoesOn

\* A step that only nodes in changed take notice of keeps the invariant, if it
\* does at these nodes.
LEMMA OthersStay ==
    ASSUME NodeInv, NodeInv', RecoveryInv, GoesOn, EntriesMatch',
           NEW changed, changed \subseteq Nodes,
           \A m \in Markings' : m \in Markings \/ (m.by \in changed /\ initiator[m.by] = m.by),
           \A k \in Nodes \ changed :
               /\ stored'[k] = stored[k] /\ status'[k] = status[k] /\ scanned'[k] = scanned[k]
               /\ phase'[k] = "idle" \/ (phase'[k] = phase[k] /\ current'[k] = current[k]),
           \A k \in Nodes : k \in scenario'.turned \/ initiator'[k] = initiator[k],
           \A k \in changed : \A t \in Transfers : status'[k][t] = "NEW" =>
               \E i \in 1 .. scanned'[k] : Concerns(chain'[i], t),
           \A k \in changed : k \in scenario'.turned \/ initiator'[k] # k \/ Keeps(k)'
    PROVE  RecoveryInv'
<1>1. ScenarioTypes' /\ scenario.turned \subseteq scenario'.turned
  BY DEF GoesOn
<1>2. \A k \in Nodes : \A i \in 1 .. scanned[k] : chain'[i] = chain[i]
  <2>1. \A k \in Nodes : scanned[k] \in 0 .. final
    BY DEF NodeInv, TypesOK, NodeTypesOK
  <2>2. final \in Nat
    BY DEF NodeInv, TypesOK, ChainTypesOK
  <2>3. QED
    BY <2>1, <2>2 DEF GoesOn
<1>3. ASSUME NEW k \in Nodes, NEW t \in Transfers, status'[k][t] = "NEW"
      PROVE  \E i \in 1 .. scanned'[k] : Concerns(chain'[i], t)
  <2>1. CASE k \in changed
    BY <1>3, <2>1
  <2>2. CASE k \notin changed
    <3>1. status[k][t] = "NEW" /\ scanned'[k] = scanned[k]
      BY <1>3, <2>2
    <3>2. PICK i \in 1 .. scanned[k] : Concerns(chain[i], t)
      BY <3>1 DEF RecoveryInv, NewIsScanned
    <3>3. QED
      BY <1>2, <3>1, <3>2
  <2>3. QED
    BY <2>1, <2>2
<1>4. NewIsScanned'
  BY <1>3 DEF NewIsScanned
<1>5. SendersAreInitiators'
  <2> SUFFICES ASSUME NEW m \in Markings', m.by \notin scenario'.turned
               PROVE  initiator'[m.by] = m.by
    BY DEF SendersAreInitiators
  <2>1. m \in Markings \/ (m.by \in changed /\ initiator[m.by] = m.by)
    OBVIOUS
  <2>2. m.by \in Nodes
    BY <2>1, MarkingTypes DEF NodeInv, TypesOK, RskTransactions
  <2>3. initiator[m.by] = m.by
    BY <1>1, <2>1 DEF RecoveryInv, SendersAreInitiators
  <2>4. QED
    BY <2>2, <2>3
<1>6. ASSUME NEW k \in Nodes, k \notin scenario'.turned, initiator'[k] = k
      PROVE  Keeps(k)'
  <2>1. CASE k \in changed
    BY <1>6, <2>1
  <2>2. CASE k \notin changed
    <3>1. Keeps(k)
      BY <1>1, <1>6 DEF RecoveryInv
    <3>2. \A m \in Markings' : m.by = k /\ m.status = "SENDING" => m \in Markings
      BY <2>2
    <3>3. \A tx \in Transactions : Void(tx) => Void(tx)'
      BY VoidGoesOn
    <3>4. /\ stored'[k] = stored[k] /\ status'[k] = status[k] /\ scanned'[k] = scanned[k]
          /\ phase'[k] = "idle" \/ (phase'[k] = phase[k] /\ current'[k] = current[k])
      BY <2>2
    <3>5. QED
      BY <1>2, <3>1, <3>2, <3>3, <3>4, OthersKeep DEF GoesOn
  <2>3. QED
    BY <2>1, <2>2
<1>7. QED
  BY <1>1, <1>4, <1>5, <1>6 DEF RecoveryInv

\* A step that leaves the chain and what Bitcoin confirmed.
LEMMA QuietGoesOn ==
    ASSUME NodeInv, RecoveryInv, ScenarioTypes',
           scenario.turned \subseteq scenario'.turned,
           scenario.unreclaimed \subseteq scenario'.unreclaimed,
           chain' = chain, final <= final', mined' = mined
    PROVE  GoesOn /\ EntriesMatch'
<1>1. EntriesMatch'
  BY DEF RecoveryInv, EntriesMatch
<1>2. \A tx : IsMined(tx) => IsMined(tx)'
  BY DEF IsMined
<1>3. QED
  BY <1>1, <1>2 DEF GoesOn

\* When neither chain nor pool change, no node sent anything.
LEMMA QuietMarkings ==
    ASSUME chain' = chain, rskPool' = rskPool
    PROVE  Markings' = Markings
BY DEF Markings

\* The initiator's iteration.
LEMMA IterateKeepsRecovery ==
    ASSUME NodeInv, NodeInv', RecoveryInv, NEW n \in Nodes,
           NEW arrived, arrived \subseteq Answers(n),
           NEW due \in BOOLEAN, Iterate(n, arrived, due)
    PROVE  RecoveryInv'
<1>1. /\ initiator[n] = n /\ chain' = chain /\ final' = final /\ mined' = mined
      /\ scanned' = scanned /\ status' = status /\ initiator' = initiator /\ scenario' = scenario
  BY DEF Iterate
<1>2. final \in Nat /\ NodeTypesOK /\ ChainTypesOK
  BY DEF NodeInv, TypesOK, ChainTypesOK
<1>3. GoesOn /\ EntriesMatch'
  BY <1>1, <1>2, QuietGoesOn DEF RecoveryInv, ScenarioTypes
<1>4. PICK rows, left :
        /\ Leave(n, rows, left)
        /\ \/ rskPool' = rskPool /\ phase' = phase
           \/ \E s \in {"SENDING", "MINED"} :
                /\ rskPool' = rskPool \cup {RskTx(n, s, left)}
                /\ phase' = [phase EXCEPT ![n] = s]
  <2>1. LeavesBacked(n, CommittedTransactions, PaidTransfers)
    BY IterateLeavesBacked DEF NodeInv
  <2>2. QED
    BY <2>1 DEF LeavesBacked
<1>5. \A m \in Markings' : m \in Markings \/ (m.by = n /\ initiator[m.by] = m.by)
  <2>1. \A s : RskTx(n, s, left).by = n
    BY DEF RskTx
  <2>2. QED
    BY <1>1, <1>4, <2>1 DEF Markings
<1>6. \A k \in Nodes \ {n} : /\ stored'[k] = stored[k] /\ phase'[k] = phase[k]
                             /\ current'[k] = current[k]
  BY <1>2, <1>4 DEF Leave, NodeTypesOK
<1>7. n \in scenario.turned \/ Keeps(n)'
  <2>1. CASE n \notin scenario.turned
    <3>1. Keeps(n) /\ NewIsScanned
      BY <1>1, <2>1 DEF RecoveryInv
    <3>2. QED
      BY <3>1, IterateKeepsOwn
  <2>2. QED
    BY <2>1
<1>8. \A t \in Transfers : status'[n][t] = "NEW" =>
          \E i \in 1 .. scanned'[n] : Concerns(chain'[i], t)
  BY <1>1 DEF RecoveryInv, NewIsScanned
<1> DEFINE changed == {n}
<1>9. /\ changed \subseteq Nodes
      /\ \A m \in Markings' : m \in Markings \/ (m.by \in changed /\ initiator[m.by] = m.by)
      /\ \A k \in Nodes \ changed :
            /\ stored'[k] = stored[k] /\ status'[k] = status[k] /\ scanned'[k] = scanned[k]
            /\ phase'[k] = "idle" \/ (phase'[k] = phase[k] /\ current'[k] = current[k])
      /\ \A k \in Nodes : k \in scenario'.turned \/ initiator'[k] = initiator[k]
      /\ \A k \in changed : \A t \in Transfers : status'[k][t] = "NEW" =>
            \E i \in 1 .. scanned'[k] : Concerns(chain'[i], t)
      /\ \A k \in changed : k \in scenario'.turned \/ initiator'[k] # k \/ Keeps(k)'
  BY <1>1, <1>5, <1>6, <1>7, <1>8
<1> HIDE DEF changed
<1>10. QED
  BY <1>3, <1>9, OthersStay

\* The node has its transaction in a block with confirmations.
LEMMA FinishMarkingKeepsRecovery ==
    ASSUME NodeInv, NodeInv', RecoveryInv, NEW n \in Nodes, FinishMarking(n)
    PROVE  RecoveryInv'
<1>1. /\ NodeTypesOK /\ ChainTypesOK /\ final \in Nat /\ final' \in Nat
      /\ DOMAIN chain = 1 .. Len(chain)
  BY DEF NodeInv, TypesOK, ChainTypesOK
<1>2. PICK i \in DOMAIN chain : final' = IF i > final THEN i ELSE final
  BY DEF FinishMarking
<1>3. final <= final'
  BY <1>1, <1>2
<1>4. /\ chain' = chain /\ rskPool' = rskPool /\ mined' = mined /\ scanned' = scanned
      /\ initiator' = initiator /\ scenario' = scenario /\ current' = current
  BY DEF FinishMarking, bitcoinVars
<1>5. GoesOn /\ EntriesMatch'
  BY <1>3, <1>4, QuietGoesOn DEF RecoveryInv, ScenarioTypes
<1>6. /\ phase[n] \in {"SENDING", "MINED"}
      /\ \A t \in Transfers :
            status'[n][t] = IF t \in SetOf(Ids(current[n])) THEN phase[n] ELSE status[n][t]
      /\ \A k \in Nodes \ {n} : /\ stored'[k] = stored[k] /\ phase'[k] = phase[k]
                                /\ status'[k] = status[k]
  BY <1>1 DEF FinishMarking, NodeTypesOK
<1>7. \A t \in Transfers : status'[n][t] = "NEW" =>
          \E j \in 1 .. scanned'[n] : Concerns(chain'[j], t)
  BY <1>4, <1>6 DEF RecoveryInv, NewIsScanned
<1>8. \A tx \in Transactions : Void(tx) => Void(tx)'
  BY <1>5, VoidGoesOn
<1>9. n \in scenario'.turned \/ initiator'[n] # n \/ Keeps(n)'
  <2>1. CASE n \notin scenario.turned /\ initiator[n] = n
    <3>1. Keeps(n)
      BY <2>1 DEF RecoveryInv
    <3>2. QED
      BY <1>8, <3>1, FinishMarkingKeeps
  <2>2. QED
    BY <1>4, <2>1
<1>10. Markings' = Markings
  BY <1>4, QuietMarkings
<1> DEFINE changed == {n}
<1>11. /\ changed \subseteq Nodes
       /\ \A m \in Markings' : m \in Markings \/ (m.by \in changed /\ initiator[m.by] = m.by)
       /\ \A k \in Nodes \ changed :
             /\ stored'[k] = stored[k] /\ status'[k] = status[k] /\ scanned'[k] = scanned[k]
             /\ phase'[k] = "idle" \/ (phase'[k] = phase[k] /\ current'[k] = current[k])
       /\ \A k \in Nodes : k \in scenario'.turned \/ initiator'[k] = initiator[k]
       /\ \A k \in changed : \A t \in Transfers : status'[k][t] = "NEW" =>
             \E j \in 1 .. scanned'[k] : Concerns(chain'[j], t)
       /\ \A k \in changed : k \in scenario'.turned \/ initiator'[k] # k \/ Keeps(k)'
  BY <1>4, <1>6, <1>7, <1>9, <1>10
<1> HIDE DEF changed
<1>12. QED
  BY <1>5, <1>11, OthersStay

\* scanNewEvents: a local status NEW comes from an entry that was scanned.
LEMMA ScanKeepsRecovery ==
    ASSUME NodeInv, NodeInv', RecoveryInv, NEW n \in Nodes, ScanNewEvents(n)
    PROVE  RecoveryInv'
<1>1. /\ NodeTypesOK /\ ChainTypesOK /\ final \in Nat /\ final' \in Nat
      /\ Len(chain) \in Nat /\ scanned[n] \in Nat
  BY DEF NodeInv, TypesOK, ChainTypesOK, NodeTypesOK
<1>2. PICK m \in scanned[n] + 1 .. Len(chain) :
        /\ scanned' = [scanned EXCEPT ![n] = m]
        /\ status' = [status EXCEPT ![n] =
             [t \in Transfers |->
                IF \E i \in scanned[n] + 1 .. m : Concerns(chain[i], t)
                THEN StatusAt(m, t) ELSE @[t]]]
        /\ final' = IF m > final THEN m ELSE final
  BY DEF ScanNewEvents
<1>3. final <= final'
  BY <1>1, <1>2
<1>4. /\ chain' = chain /\ rskPool' = rskPool /\ mined' = mined /\ stored' = stored
      /\ initiator' = initiator /\ scenario' = scenario /\ current' = current /\ phase' = phase
  BY DEF ScanNewEvents, bitcoinVars
<1>5. GoesOn /\ EntriesMatch'
  BY <1>3, <1>4, QuietGoesOn DEF RecoveryInv, ScenarioTypes
<1>6. /\ scanned'[n] = m
      /\ \A t \in Transfers :
            (\A i \in scanned[n] + 1 .. m : ~Concerns(chain[i], t)) => status'[n][t] = status[n][t]
      /\ \A k \in Nodes \ {n} : scanned'[k] = scanned[k] /\ status'[k] = status[k]
  BY <1>1, <1>2 DEF NodeTypesOK
<1>7. ASSUME NEW t \in Transfers, status'[n][t] = "NEW"
      PROVE  \E i \in 1 .. scanned'[n] : Concerns(chain'[i], t)
  <2>1. CASE \E i \in scanned[n] + 1 .. m : Concerns(chain[i], t)
    <3>1. PICK i \in scanned[n] + 1 .. m : Concerns(chain[i], t)
      BY <2>1
    <3>2. i \in 1 .. m
      BY <1>1
    <3>3. QED
      BY <1>4, <1>6, <3>1, <3>2
  <2>2. CASE \A i \in scanned[n] + 1 .. m : ~Concerns(chain[i], t)
    <3>1. status[n][t] = "NEW"
      BY <1>6, <1>7, <2>2
    <3>2. PICK i \in 1 .. scanned[n] : Concerns(chain[i], t)
      BY <3>1 DEF RecoveryInv, NewIsScanned
    <3>3. i \in 1 .. m
      BY <1>1, <1>2
    <3>4. QED
      BY <1>4, <1>6, <3>2, <3>3
  <2>3. QED
    BY <2>1, <2>2
<1>8. \A tx \in Transactions : Void(tx) => Void(tx)'
  BY <1>5, VoidGoesOn
<1>9. n \in scenario'.turned \/ initiator'[n] # n \/ Keeps(n)'
  <2>1. CASE n \notin scenario.turned /\ initiator[n] = n
    <3>1. Keeps(n)
      BY <2>1 DEF RecoveryInv
    <3>2. QED
      BY <1>8, <3>1, ScanKeeps
  <2>2. QED
    BY <1>4, <2>1
<1>10. Markings' = Markings
  BY <1>4, QuietMarkings
<1> DEFINE changed == {n}
<1>11. /\ changed \subseteq Nodes
       /\ \A x \in Markings' : x \in Markings \/ (x.by \in changed /\ initiator[x.by] = x.by)
       /\ \A k \in Nodes \ changed :
             /\ stored'[k] = stored[k] /\ status'[k] = status[k] /\ scanned'[k] = scanned[k]
             /\ phase'[k] = "idle" \/ (phase'[k] = phase[k] /\ current'[k] = current[k])
       /\ \A k \in Nodes : k \in scenario'.turned \/ initiator'[k] = initiator[k]
       /\ \A k \in changed : \A t \in Transfers : status'[k][t] = "NEW" =>
             \E i \in 1 .. scanned'[k] : Concerns(chain'[i], t)
       /\ \A k \in changed : k \in scenario'.turned \/ initiator'[k] # k \/ Keeps(k)'
  BY <1>4, <1>6, <1>7, <1>9, <1>10
<1> HIDE DEF changed
<1>12. QED
  BY <1>5, <1>11, OthersStay

\* A message changes the database of a node that another one leads.
LEMMA OnMessageKeepsRecovery ==
    ASSUME NodeInv, NodeInv', RecoveryInv, NEW n \in Nodes, NEW m,
           HandleRequest(n, m) \/ HandlePurge(n, m)
    PROVE  RecoveryInv'
<1>1. NodeTypesOK /\ final \in Nat
  BY DEF NodeInv, TypesOK, ChainTypesOK
<1>2. /\ chain' = chain /\ final' = final /\ rskPool' = rskPool /\ mined' = mined
      /\ scanned' = scanned /\ status' = status /\ initiator' = initiator
      /\ scenario' = scenario /\ current' = current /\ phase' = phase
  BY DEF HandleRequest, HandlePurge, chainVars, bitcoinVars
<1>3. GoesOn /\ EntriesMatch'
  BY <1>1, <1>2, QuietGoesOn DEF RecoveryInv, ScenarioTypes
<1>4. initiator'[n] # n
  BY <1>2 DEF HandleRequest, HandlePurge, FromInitiator
<1>5. \A k \in Nodes \ {n} : stored'[k] = stored[k]
  BY <1>1 DEF HandleRequest, HandlePurge, NodeTypesOK
<1>6. Markings' = Markings
  BY <1>2, QuietMarkings
<1>7. \A t \in Transfers : status'[n][t] = "NEW" =>
          \E i \in 1 .. scanned'[n] : Concerns(chain'[i], t)
  BY <1>2 DEF RecoveryInv, NewIsScanned
<1> DEFINE changed == {n}
<1>8. /\ changed \subseteq Nodes
      /\ \A x \in Markings' : x \in Markings \/ (x.by \in changed /\ initiator[x.by] = x.by)
      /\ \A k \in Nodes \ changed :
            /\ stored'[k] = stored[k] /\ status'[k] = status[k] /\ scanned'[k] = scanned[k]
            /\ phase'[k] = "idle" \/ (phase'[k] = phase[k] /\ current'[k] = current[k])
      /\ \A k \in Nodes : k \in scenario'.turned \/ initiator'[k] = initiator[k]
      /\ \A k \in changed : \A t \in Transfers : status'[k][t] = "NEW" =>
            \E i \in 1 .. scanned'[k] : Concerns(chain'[i], t)
      /\ \A k \in changed : k \in scenario'.turned \/ initiator'[k] # k \/ Keeps(k)'
  BY <1>2, <1>4, <1>5, <1>6, <1>7
<1> HIDE DEF changed
<1>9. QED
  BY <1>3, <1>8, OthersStay

\* A step that changes no node, if not to make it idle.
LEMMA NobodyActs ==
    ASSUME NodeInv, NodeInv', RecoveryInv, GoesOn, EntriesMatch', Markings' \subseteq Markings,
           stored' = stored, status' = status, scanned' = scanned,
           \A k \in Nodes :
               /\ phase'[k] = "idle" \/ (phase'[k] = phase[k] /\ current'[k] = current[k])
               /\ k \in scenario'.turned \/ initiator'[k] = initiator[k]
    PROVE  RecoveryInv'
<1> DEFINE changed == {}
<1>1. /\ changed \subseteq Nodes
      /\ \A x \in Markings' : x \in Markings \/ (x.by \in changed /\ initiator[x.by] = x.by)
      /\ \A k \in Nodes \ changed :
            /\ stored'[k] = stored[k] /\ status'[k] = status[k] /\ scanned'[k] = scanned[k]
            /\ phase'[k] = "idle" \/ (phase'[k] = phase[k] /\ current'[k] = current[k])
      /\ \A k \in Nodes : k \in scenario'.turned \/ initiator'[k] = initiator[k]
      /\ \A k \in changed : \A t \in Transfers : status'[k][t] = "NEW" =>
            \E i \in 1 .. scanned'[k] : Concerns(chain'[i], t)
      /\ \A k \in changed : k \in scenario'.turned \/ initiator'[k] # k \/ Keeps(k)'
  OBVIOUS
<1> HIDE DEF changed
<1>2. QED
  BY <1>1, OthersStay

\* A node forgets, gives up waiting, restarts, or turns to another initiator.
LEMMA ForgettingKeepsRecovery ==
    ASSUME NodeInv, NodeInv', RecoveryInv, NEW n \in Nodes,
           NotInitiator(n) \/ TimeOut(n) \/ Restart(n) \/ \E i \in Nodes : ChangeInitiator(n, i)
    PROVE  RecoveryInv'
<1>1. NodeTypesOK /\ final \in Nat /\ ScenarioTypes
  BY DEF NodeInv, TypesOK, ChainTypesOK, RecoveryInv
<1>2. /\ chain' = chain /\ final' = final /\ rskPool' = rskPool /\ mined' = mined
      /\ scanned' = scanned /\ status' = status /\ stored' = stored
  BY DEF NotInitiator, TimeOut, Restart, ChangeInitiator, chainVars, bitcoinVars
<1>3. \A k \in Nodes : phase'[k] = "idle" \/ (phase'[k] = phase[k] /\ current'[k] = current[k])
  BY <1>1 DEF NotInitiator, TimeOut, Restart, ChangeInitiator, NodeTypesOK
<1>4. /\ ScenarioTypes' /\ scenario.turned \subseteq scenario'.turned
      /\ scenario.unreclaimed \subseteq scenario'.unreclaimed
      /\ \A k \in Nodes : k \in scenario'.turned \/ initiator'[k] = initiator[k]
  <2>1. CASE NotInitiator(n)
    <3>1. scenario' = scenario /\ initiator' = initiator
      BY <2>1 DEF NotInitiator
    <3>2. QED
      BY <1>1, <3>1 DEF ScenarioTypes
  <2>2. CASE TimeOut(n) \/ Restart(n)
    <3>1. initiator' = initiator /\ (Happens("timeouts") \/ Happens("restarts"))
      BY <2>2 DEF TimeOut, Restart
    <3>2. QED
      BY <1>1, <3>1, HappensKeepsHistories
  <2>3. CASE \E i \in Nodes : ChangeInitiator(n, i)
    <3>1. HappensTo("changes", "turned", {n}) /\ \A k \in Nodes \ {n} : initiator'[k] = initiator[k]
      BY <1>1, <2>3 DEF ChangeInitiator, NodeTypesOK
    <3>2. {n} \subseteq Nodes
      OBVIOUS
    <3>3. QED
      BY <1>1, <3>1, <3>2, HappensToIsRemembered
  <2>4. QED
    BY <2>1, <2>2, <2>3
<1>5. GoesOn /\ EntriesMatch'
  BY <1>1, <1>2, <1>4, QuietGoesOn
<1>6. QED
  BY <1>2, <1>3, <1>4, <1>5, NobodyActs, QuietMarkings

\* Bitcoin confirms a transaction.
LEMMA MineKeepsRecovery ==
    ASSUME NodeInv, NodeInv', RecoveryInv, NEW tx \in submitted, MineBitcoinTransaction(tx)
    PROVE  RecoveryInv'
<1>1. /\ mined \in Seq(submitted) /\ final \in Nat
  BY DEF NodeInv, TypesOK, BitcoinTypesOK, ChainTypesOK
<1>2. /\ chain' = chain /\ final' = final /\ rskPool' = rskPool
      /\ scanned' = scanned /\ status' = status /\ stored' = stored /\ current' = current
      /\ phase' = phase /\ initiator' = initiator /\ scenario' = scenario
      /\ mined' = Append(mined, tx)
  BY DEF MineBitcoinTransaction, chainVars
<1>3. \A i \in DOMAIN mined : i \in DOMAIN mined' /\ mined'[i] = mined[i]
  BY <1>1, <1>2
<1>4. \A x : IsMined(x) => IsMined(x)'
  BY <1>3 DEF IsMined
<1>5. GoesOn
  BY <1>1, <1>2, <1>4 DEF GoesOn, RecoveryInv, ScenarioTypes
<1>6. EntriesMatch'
  BY <1>2 DEF RecoveryInv, EntriesMatch
<1>7. QED
  BY <1>2, <1>5, <1>6, NobodyActs, QuietMarkings

\* One entry more, which no node sent or one of the pool is for.
LEMMA AppendKeepsRecovery ==
    ASSUME NodeInv, NodeInv', RecoveryInv, NEW e, chain' = Append(chain, e),
           e.status \in {"SENDING", "MINED"} => e.by.status = e.status /\ e.by.tx = e.tx,
           e.status \in {"SENDING", "MINED", "REVERTED"} => e.by \in rskPool,
           rskPool' \subseteq rskPool, final' = final, mined' = mined, scanned' = scanned,
           status' = status, stored' = stored, current' = current, phase' = phase,
           initiator' = initiator, ScenarioTypes',
           scenario'.turned = scenario.turned, scenario'.unreclaimed = scenario.unreclaimed
    PROVE  RecoveryInv'
<1>1. /\ chain \in Seq(Entries) /\ Len(chain) \in Nat /\ DOMAIN chain = 1 .. Len(chain)
      /\ final \in 0 .. Len(chain) /\ final \in Nat
  BY DEF NodeInv, TypesOK, ChainTypesOK
<1>2. /\ DOMAIN chain' = 1 .. Len(chain) + 1
      /\ \A i \in DOMAIN chain : i \in DOMAIN chain' /\ chain'[i] = chain[i]
      /\ chain'[Len(chain) + 1] = e
  BY <1>1
<1>3. \A i \in DOMAIN chain' : i \in DOMAIN chain \/ i = Len(chain) + 1
  BY <1>1, <1>2
<1>4. EntriesMatch'
  BY <1>2, <1>3 DEF RecoveryInv, EntriesMatch
<1>5. \A x : IsMined(x) => IsMined(x)'
  BY DEF IsMined
<1>6. \A i \in 1 .. final : chain'[i] = chain[i]
  BY <1>1, <1>2
<1>7. GoesOn
  BY <1>1, <1>2, <1>5, <1>6 DEF GoesOn
<1>8. Markings' \subseteq Markings
  BY <1>2, <1>3 DEF Markings
<1>9. QED
  BY <1>4, <1>7, <1>8, NobodyActs

\* A user creates a transfer, or gets one back.
LEMMA UserStepKeepsRecovery ==
    ASSUME NodeInv, NodeInv', RecoveryInv, NEW t,
           TransferToBtc(t) \/ \E s \in {"RECLAIMED", "REFUNDED"} : ReturnTransfer(t, s)
    PROVE  RecoveryInv'
<1>1. PICK s \in {"NEW", "RECLAIMED", "REFUNDED"} : chain' = Append(chain, UserEntry(t, s))
  BY DEF TransferToBtc, ReturnTransfer
<1> DEFINE e == UserEntry(t, s)
<1>2. e.status \notin {"SENDING", "MINED", "REVERTED"} /\ chain' = Append(chain, e)
  BY <1>1 DEF UserEntry
<1> HIDE DEF e
<1>3. /\ rskPool' = rskPool /\ final' = final /\ mined' = mined /\ scanned' = scanned
      /\ status' = status /\ stored' = stored /\ current' = current /\ phase' = phase
      /\ initiator' = initiator /\ (scenario' = scenario \/ Happens("returns"))
  BY DEF TransferToBtc, ReturnTransfer, bitcoinVars
<1>4. /\ ScenarioTypes' /\ scenario'.turned = scenario.turned
      /\ scenario'.unreclaimed = scenario.unreclaimed
  BY <1>3, HappensKeepsHistories DEF RecoveryInv, ScenarioTypes
<1>5. QED
  BY <1>2, <1>3, <1>4, AppendKeepsRecovery

\* A block includes a transaction of a node.
LEMMA IncludeKeepsRecovery ==
    ASSUME NodeInv, NodeInv', RecoveryInv, NEW rskTx \in rskPool, IncludeRskTransaction(rskTx)
    PROVE  RecoveryInv'
<1>1. /\ rskPool' \subseteq rskPool /\ final' = final /\ mined' = mined /\ scanned' = scanned
      /\ status' = status /\ stored' = stored /\ current' = current /\ phase' = phase
      /\ initiator' = initiator /\ scenario' = scenario
  BY DEF IncludeRskTransaction, bitcoinVars
<1>2. ScenarioTypes' /\ final \in Nat
  BY <1>1 DEF RecoveryInv, ScenarioTypes, NodeInv, TypesOK, ChainTypesOK
<1>3. ASSUME NEW e, chain' = Append(chain, e), e.by = rskTx,
             e.status = "REVERTED" \/ (e.status = rskTx.status /\ e.tx = rskTx.tx)
      PROVE  RecoveryInv'
  <2>1. /\ e.status \in {"SENDING", "MINED"} => e.by.status = e.status /\ e.by.tx = e.tx
        /\ e.by \in rskPool
    BY <1>3
  <2>2. QED
    BY <1>1, <1>2, <1>3, <2>1, AppendKeepsRecovery
<1>4. CASE chain' = Append(chain, [status |-> rskTx.status, ids |-> rskTx.tx.pays,
                                   tx |-> rskTx.tx, by |-> rskTx])
  <2> DEFINE e == [status |-> rskTx.status, ids |-> rskTx.tx.pays, tx |-> rskTx.tx, by |-> rskTx]
  <2>1. chain' = Append(chain, e) /\ e.by = rskTx /\ e.status = rskTx.status /\ e.tx = rskTx.tx
    BY <1>4
  <2> HIDE DEF e
  <2>2. QED
    BY <1>3, <2>1
<1>5. CASE chain' = Append(chain, [status |-> "REVERTED", ids |-> <<>>,
                                   tx |-> NoBatch, by |-> rskTx])
  <2> DEFINE e == [status |-> "REVERTED", ids |-> <<>>, tx |-> NoBatch, by |-> rskTx]
  <2>1. chain' = Append(chain, e) /\ e.by = rskTx /\ e.status = "REVERTED"
    BY <1>5
  <2> HIDE DEF e
  <2>2. QED
    BY <1>3, <2>1
<1>6. CASE chain' = chain
  <2>1. GoesOn /\ EntriesMatch'
    BY <1>1, <1>2, <1>6, QuietGoesOn
  <2>2. Markings' \subseteq Markings
    BY <1>1, <1>6 DEF Markings
  <2>3. QED
    BY <1>1, <2>1, <2>2, NobodyActs
<1>7. QED
  BY <1>4, <1>5, <1>6 DEF IncludeRskTransaction

\* RSK drops blocks: what nodes sent is in its pool again, and the reclaims that
\* were in these blocks are remembered.
LEMMA ReorganizeKeepsRecovery ==
    ASSUME NodeInv, NodeInv', RecoveryInv, NEW m \in final .. Len(chain) - 1, Reorganize(m)
    PROVE  RecoveryInv'
<1>1. /\ chain \in Seq(Entries) /\ Len(chain) \in Nat /\ DOMAIN chain = 1 .. Len(chain)
      /\ final \in 0 .. Len(chain) /\ final \in Nat /\ m \in 0 .. Len(chain) /\ final <= m
  BY DEF NodeInv, TypesOK, ChainTypesOK
<1>2. /\ chain' = SubSeq(chain, 1, m)
      /\ rskPool' = (rskPool \cup {chain[i].by : i \in m + 1 .. Len(chain)}) \ {NoBatch}
      /\ final' = final /\ mined' = mined /\ scanned' = scanned
      /\ status' = status /\ stored' = stored /\ current' = current /\ phase' = phase
      /\ initiator' = initiator
  BY DEF Reorganize, bitcoinVars
<1>3. DOMAIN chain' = 1 .. m /\ \A i \in DOMAIN chain' : i \in DOMAIN chain /\ chain'[i] = chain[i]
  BY <1>1, <1>2
<1> DEFINE dropped == {t \in Transfers : \E i \in m + 1 .. Len(chain) :
                         chain[i].status = "RECLAIMED" /\ Concerns(chain[i], t)}
<1>4. HappensTo("reorgs", "unreclaimed", dropped) /\ dropped \subseteq Transfers
  BY DEF Reorganize
<1>5. \A i \in m + 1 .. Len(chain) : \A t \in Transfers :
         chain[i].status = "RECLAIMED" /\ Concerns(chain[i], t) => t \in dropped
  OBVIOUS
<1> HIDE DEF dropped
<1>6. /\ ScenarioTypes' /\ scenario.turned \subseteq scenario'.turned
      /\ scenario.unreclaimed \subseteq scenario'.unreclaimed
      /\ dropped \subseteq scenario'.unreclaimed
  BY <1>4, HappensToIsRemembered DEF RecoveryInv
<1>7. \A i \in 1 .. final : chain'[i] = chain[i]
  BY <1>1, <1>3
<1>8. ASSUME NEW i \in DOMAIN chain, NEW t \in Transfers,
             chain[i].status = "RECLAIMED", Concerns(chain[i], t)
      PROVE  (i \in DOMAIN chain' /\ chain'[i] = chain[i]) \/ t \in scenario'.unreclaimed
  <2>1. i \in 1 .. m \/ i \in m + 1 .. Len(chain)
    BY <1>1
  <2>2. QED
    BY <1>3, <1>5, <1>6, <1>8, <2>1
<1>9. \A x : IsMined(x) => IsMined(x)'
  BY <1>2 DEF IsMined
<1>10. GoesOn
  BY <1>1, <1>2, <1>6, <1>7, <1>8, <1>9 DEF GoesOn
<1>11. EntriesMatch'
  BY <1>3 DEF RecoveryInv, EntriesMatch
<1>12. ASSUME NEW i \in m + 1 .. Len(chain), chain[i].by # NoBatch
       PROVE  chain[i].by \in Markings
  <2>1. i \in DOMAIN chain /\ chain[i] \in Entries
    BY <1>1
  <2>2. chain[i].status \in {"SENDING", "MINED", "REVERTED"}
    BY <1>12, <2>1 DEF Entries
  <2>3. QED
    BY <2>1, <2>2 DEF Markings
<1>13. Markings' \subseteq Markings
  BY <1>2, <1>3, <1>12 DEF Markings
<1>14. QED
  BY <1>2, <1>10, <1>11, <1>13, NobodyActs

\* At the start no node sent anything.
LEMMA InitRecovery == Init => RecoveryInv
<1> SUFFICES ASSUME Init
             PROVE  RecoveryInv
  OBVIOUS
<1>1. /\ chain = <<>> /\ DOMAIN chain = {} /\ rskPool = {} /\ scenario \in Scenarios
      /\ \A n \in Nodes : stored[n] = <<>> /\ DOMAIN stored[n] = {} /\ phase[n] = "idle"
      /\ \A n \in Nodes : \A t \in Transfers : status[n][t] = "NOT_APPLICABLE"
  BY DEF Init
<1>2. Markings = {}
  BY <1>1 DEF Markings
<1>3. NewIsScanned /\ EntriesMatch /\ SendersAreInitiators
  BY <1>1, <1>2 DEF NewIsScanned, EntriesMatch, SendersAreInitiators
<1>4. ScenarioTypes
  <2>1. scenario \in [transfers : 1 .. NumTransfers, returns : Nat, changes : Nat,
                      restarts : Nat, timeouts : Nat, reorgs : Nat, turned : {{}},
                      unreclaimed : {{}}]
    BY <1>1, NodeAssumption
  <2>2. scenario.transfers \in Nat
    BY <2>1, NodeAssumption
  <2>3. QED
    BY <2>1, <2>2 DEF ScenarioTypes
<1>5. \A n \in Nodes : Keeps(n)
  BY <1>1, <1>2 DEF Keeps, OnePending
<1>6. QED
  BY <1>3, <1>4, <1>5 DEF RecoveryInv

\* A step, or none, keeps the invariant.
LEMMA NextRecovery == NodeInv /\ NodeInv' /\ RecoveryInv /\ [Next]_vars => RecoveryInv'
<1> SUFFICES ASSUME NodeInv, NodeInv', RecoveryInv, [Next]_vars
             PROVE  RecoveryInv'
  OBVIOUS
<1>1. CASE \E n \in Nodes : RunIteration(n)
  <2>1. PICK n \in Nodes : RunIteration(n)
    BY <1>1
  <2>2. ASSUME NEW arrived \in SUBSET Answers(n), NEW due \in BOOLEAN, Iterate(n, arrived, due)
        PROVE  RecoveryInv'
    <3>1. arrived \subseteq Answers(n)
      OBVIOUS
    <3>2. QED
      BY <2>2, <3>1, IterateKeepsRecovery
  <2>3. QED
    BY <2>1, <2>2, ScanKeepsRecovery, FinishMarkingKeepsRecovery, ForgettingKeepsRecovery
    DEF RunIteration
<1>2. CASE \E n \in Nodes : OnMessage(n) \/ Restart(n)
  BY <1>2, OnMessageKeepsRecovery, ForgettingKeepsRecovery DEF OnMessage
<1>3. CASE \E turn \in Turns : ChangeInitiator(turn[1], turn[2])
  <2>1. PICK turn \in Turns : ChangeInitiator(turn[1], turn[2])
    BY <1>3
  <2>2. turn[1] \in Nodes /\ turn[2] \in Nodes
    BY NodeAssumption
  <2>3. QED
    BY <2>1, <2>2, ForgettingKeepsRecovery
<1>4. CASE Rsk
  <2>1. ASSUME NEW return \in Returns, ReturnTransfer(return[1], return[2])
        PROVE  RecoveryInv'
    <3>1. return[2] \in {"RECLAIMED", "REFUNDED"}
      BY NodeAssumption
    <3>2. QED
      BY <2>1, <3>1, UserStepKeepsRecovery
  <2>2. ASSUME NEW t \in Transfers, TransferToBtc(t)
        PROVE  RecoveryInv'
    BY <2>2, UserStepKeepsRecovery
  <2>3. QED
    BY <1>4, <2>1, <2>2, IncludeKeepsRecovery, ReorganizeKeepsRecovery DEF Rsk
<1>5. CASE Bitcoin
  BY <1>5, MineKeepsRecovery DEF Bitcoin
<1>6. CASE UNCHANGED vars
  <2>1. /\ chain' = chain /\ final' = final /\ rskPool' = rskPool /\ mined' = mined
        /\ scanned' = scanned /\ status' = status /\ stored' = stored
        /\ current' = current /\ phase' = phase /\ initiator' = initiator
        /\ scenario' = scenario
    BY <1>6 DEF vars
  <2>2. ScenarioTypes' /\ final \in Nat
    BY <2>1 DEF RecoveryInv, ScenarioTypes, NodeInv, TypesOK, ChainTypesOK
  <2>3. GoesOn /\ EntriesMatch'
    BY <2>1, <2>2, QuietGoesOn
  <2>4. QED
    BY <2>1, <2>3, QuietMarkings, NobodyActs
<1>7. QED
  BY <1>1, <1>2, <1>3, <1>4, <1>5, <1>6 DEF Next

-----------------------------------------------------------------------------
(* What follows from it *)

\* A node that is its own initiator and never turned to another one has at most
\* one row that is not finalized, and goes on with whatever it committed RSK to
\* (transfers.ts:204, getCurrentTransferBatch; models.ts:188).
THEOREM InitiatorsKeep ==
    Spec => []\A n \in Nodes \ scenario.turned : initiator[n] = n => Keeps(n)
<1>1. Init => NodeInv /\ RecoveryInv
  BY InitNodeInv, InitRecovery
<1>2. NodeInv /\ RecoveryInv /\ [Next]_vars => NodeInv' /\ RecoveryInv'
  BY NextNodeInv, NextRecovery
<1>3. NodeInv /\ RecoveryInv => \A n \in Nodes \ scenario.turned : initiator[n] = n => Keeps(n)
  BY DEF RecoveryInv
<1>4. QED
  BY <1>1, <1>2, <1>3, PTL DEF Spec

\* An entry in blocks that stay, whose transaction is not mined, and whose
\* transfers lost no reclaim, does not name a void transaction.
LEMMA CommittedIsNotVoid ==
    ASSUME NodeInv, NEW i \in 1 .. final, chain[i].status = "SENDING",
           ~IsMined(chain[i].tx), SetOf(chain[i].tx.pays) \cap scenario.unreclaimed = {}
    PROVE  ~Void(chain[i].tx)
<1> DEFINE tx == chain[i].tx
<1>1. /\ final \in 0 .. Len(chain) /\ Len(chain) \in Nat /\ DOMAIN chain = 1 .. Len(chain)
      /\ final \in Nat /\ i \in DOMAIN chain /\ ChainTypesOK
  BY DEF NodeInv, TypesOK, ChainTypesOK
<1>2. chain[i].ids = tx.pays
  BY <1>1 DEF NodeInv, HistoryOK
<1>3. ASSUME NEW t \in SetOf(tx.pays), NEW j \in DOMAIN chain, Concerns(chain[j], t), j # i
      PROVE  /\ <<chain[i].status, chain[j].status>> \in Follows
                \/ <<chain[j].status, chain[i].status>> \in Follows
  <2>1. Concerns(chain[i], t) /\ t \in Transfers
    BY <1>1, <1>2, EntryStatuses DEF Concerns
  <2>2. i < j \/ j < i
    BY <1>1, <1>3
  <2>3. QED
    BY <1>1, <1>3, <2>1, <2>2 DEF NodeInv, HistoryOK
<1>4. ASSUME NEW t \in SetOf(tx.pays), NEW j \in DOMAIN chain, Concerns(chain[j], t)
      PROVE  j = i \/ chain[j].status \in {"NEW", "MINED"}
  BY <1>3, <1>4 DEF Follows
<1>5. ASSUME NEW t \in SetOf(tx.pays), NEW j \in DOMAIN chain, Concerns(chain[j], t),
             chain[j].status = "MINED"
      PROVE  FALSE
  <2>1. t \in Transfers
    BY <1>1, <1>5, EntryStatuses DEF Concerns
  <2>2. t \in PaidTransfers
    BY <1>5 DEF NodeInv, Backed, IsBacked, EntriesAreBacked, Concerns
  <2>3. PICK k \in 1 .. final :
          /\ k \in DOMAIN chain
          /\ Concerns(chain[k], t) /\ chain[k].status = "SENDING" /\ IsMined(chain[k].tx)
    BY <2>2, PaidHasEntry
  <2>4. k = i
    BY <1>4, <2>3
  <2>5. QED
    BY <2>3, <2>4
<1>6. ASSUME NEW t \in SetOf(tx.pays), NEW j \in DOMAIN chain, Concerns(chain[j], t),
             chain[j].status = "RECLAIMED" \/ Rivals(chain[j], tx)
      PROVE  FALSE
  BY <1>4, <1>5, <1>6 DEF Rivals
<1>7. \A j \in 1 .. final : j \in DOMAIN chain
  BY <1>1
<1>8. ~Void(tx)
  BY <1>6, <1>7 DEF Void
<1>9. QED
  BY <1>8

\* While RSK is committed to a transaction that Bitcoin has not mined, the node
\* that sent the commitment stores its batch, unless it turned to another
\* initiator or RSK dropped a reclaim of one of the transfers: no purge, late
\* answer, restart, timeout or initiator elsewhere makes it lose the one Bitcoin
\* transaction that may pay them (transfers.ts:331, models.ts:188).
THEOREM CommittedBatchesSurvive == Spec => []CommittedBatchSurvives
<1>1. NodeInv /\ RecoveryInv => CommittedBatchSurvives
  <2> SUFFICES ASSUME NodeInv, RecoveryInv, NEW i \in 1 .. final,
                      chain[i].status = "SENDING", ~IsMined(chain[i].tx),
                      chain[i].by.by \notin scenario.turned,
                      SetOf(chain[i].tx.pays) \cap scenario.unreclaimed = {}
               PROVE  \E row \in SetOf(stored[chain[i].by.by]) : row.data.tx = chain[i].tx
    BY DEF CommittedBatchSurvives
  <2> DEFINE m == chain[i].by
  <2>1. i \in DOMAIN chain /\ ChainTypesOK
    BY DEF NodeInv, TypesOK, ChainTypesOK
  <2>2. m \in Markings /\ m.status = "SENDING" /\ m.tx = chain[i].tx
    BY <2>1 DEF Markings, RecoveryInv, EntriesMatch
  <2>3. m.by \in Nodes
    BY <2>1, <2>2, MarkingTypes DEF RskTransactions
  <2>4. initiator[m.by] = m.by
    BY <2>2 DEF RecoveryInv, SendersAreInitiators
  <2>5. Keeps(m.by)
    BY <2>3, <2>4 DEF RecoveryInv
  <2>6. ~Void(m.tx)
    BY <2>2, CommittedIsNotVoid
  <2>7. CanGoOn(m.by, m.tx)
    BY <2>2, <2>5, <2>6 DEF Keeps
  <2>8. PICK j \in DOMAIN stored[m.by] : stored[m.by][j].data.tx = m.tx
    BY <2>7 DEF CanGoOn, PendingFor
  <2>9. QED
    BY <2>2, <2>8 DEF SetOf
<1>2. Init => NodeInv /\ RecoveryInv
  BY InitNodeInv, InitRecovery
<1>3. NodeInv /\ RecoveryInv /\ [Next]_vars => NodeInv' /\ RecoveryInv'
  BY NextNodeInv, NextRecovery
<1>4. QED
  BY <1>1, <1>2, <1>3, PTL DEF Spec
=============================================================================
