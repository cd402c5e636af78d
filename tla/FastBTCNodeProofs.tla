------------------------- MODULE FastBTCNodeProofs -------------------------
(***************************************************************************)
(* Proofs about FastBTCNode: they hold for any number of nodes, transfers, *)
(* coins, required signers, returns, restarts, timeouts, changes of the    *)
(* initiator and reorganizations.                                          *)
(***************************************************************************)
EXTENDS FastBTCNode, FiniteSetTheorems, WellFoundedInduction, TLAPS

-----------------------------------------------------------------------------
(* Lemmas about the operators *)

\* Among some natural numbers there is a smallest.
LEMMA SmallestNumber ==
    ASSUME NEW S, S \subseteq Nat, S # {}
    PROVE  \E x \in S : \A y \in S : x <= y
<1>1. PICK x \in S : \A y \in S : ~(<<y, x>> \in OpToRel(<, Nat))
  BY NatLessThanWellFounded, WFMin
<1>2. \A y \in S : ~(y < x)
  BY <1>1 DEF OpToRel
<1>3. QED
  BY <1>2

\* Among some of the first m numbers there is a largest.
LEMMA LargestNumber ==
    ASSUME NEW m \in Nat, NEW S, S \subseteq 1 .. m, S # {}
    PROVE  \E x \in S : \A y \in S : y <= x
<1> DEFINE D == {m - x : x \in S}
<1>1. D \subseteq Nat
  OBVIOUS
<1>2. D # {}
  OBVIOUS
<1>3. PICK d \in D : \A e \in D : d <= e
  BY <1>1, <1>2, SmallestNumber
<1>4. PICK x \in S : d = m - x
  BY <1>3
<1>5. ASSUME NEW y \in S
      PROVE  y <= x
  <2>1. m - x <= m - y
    BY <1>3, <1>4
  <2>2. QED
    BY <2>1
<1>6. QED
  BY <1>4, <1>5

\* InOrder finds every member: for each k up to the size of a finite set of
\* numbers there is one with k - 1 smaller members.
LEMMA MemberAtPlace ==
    ASSUME NEW S, S \subseteq Nat, IsFiniteSet(S), NEW k \in 1 .. Cardinality(S)
    PROVE  \E x \in S : Cardinality({y \in S : y < x}) = k - 1
<1> DEFINE At(i) == \E x \in S : Cardinality({y \in S : y < x}) = i - 1
           Missing == {i \in 1 .. Cardinality(S) : ~At(i)}
<1>1. Cardinality(S) \in Nat
  BY FS_CardinalityType
<1>2. SUFFICES ASSUME Missing # {}
               PROVE  FALSE
  OBVIOUS
<1>3. PICK i \in Missing : \A j \in Missing : i <= j
  <2>1. Missing \subseteq Nat
    BY <1>1
  <2> HIDE DEF Missing
  <2>2. QED
    BY <1>2, <2>1, SmallestNumber
<1>4. i \in 1 .. Cardinality(S) /\ ~At(i)
  BY <1>3
<1>5. CASE i = 1
  <2>1. S # {}
    BY <1>4, FS_EmptySet
  <2>2. PICK x \in S : \A y \in S : x <= y
    BY <2>1, SmallestNumber
  <2>3. {y \in S : y < x} = {}
    <3>1. \A y \in S : ~(y < x)
      BY <2>2
    <3>2. QED
      BY <3>1, Zenon
  <2>4. Cardinality({y \in S : y < x}) = i - 1
    BY <1>5, <2>3, FS_EmptySet
  <2>5. QED
    BY <1>4, <2>4
<1>6. CASE i # 1
  <2>1. i - 1 \in 1 .. Cardinality(S) /\ At(i - 1)
    <3>1. i - 1 \in 1 .. Cardinality(S) /\ ~(i <= i - 1)
      BY <1>1, <1>4, <1>6
    <3>2. i - 1 \notin Missing
      BY <1>3, <3>1
    <3>3. QED
      BY <3>1, <3>2
  <2>2. PICK x \in S : Cardinality({y \in S : y < x}) = i - 2
    <3>1. (i - 1) - 1 = i - 2
      BY <1>4
    <3>2. QED
      BY <2>1, <3>1
  <2> DEFINE below == {y \in S : y < x}
             upto == {y \in S : y <= x}
             above == {y \in S : y > x}
  <2>3. IsFiniteSet(below) /\ Cardinality(upto) = i - 1
    <3>1. IsFiniteSet(below)
      BY FS_Subset
    <3>2. upto = below \cup {x} /\ x \notin below
      <4>1. \A y \in S : (y <= x <=> y < x \/ y = x) /\ ~(x < x)
        OBVIOUS
      <4>2. QED
        BY <4>1, Zenon
    <3> HIDE DEF below, upto
    <3>3. Cardinality(upto) = Cardinality(below) + 1
      BY <3>1, <3>2, FS_AddElement
    <3>4. Cardinality(below) = i - 2
      BY <2>2 DEF below
    <3>5. QED
      BY <1>4, <3>1, <3>3, <3>4
  <2>4. above # {}
    <3>1. SUFFICES ASSUME above = {}
                   PROVE  FALSE
      OBVIOUS
    <3>2. upto = S
      <4>1. \A y \in S : ~(y > x)
        BY <3>1, Zenon
      <4>2. \A y \in S : y <= x
        BY <4>1
      <4>3. QED
        BY <4>2, Zenon
    <3>3. Cardinality(S) = i - 1
      BY <2>3, <3>2, Zenon
    <3>4. QED
      BY <1>1, <1>4, <3>3
  <2>5. PICK z \in above : \A y \in above : z <= y
    BY <2>4, SmallestNumber
  <2>6. {y \in S : y < z} = upto
    <3>1. \A y \in S : y > x => z <= y
      BY <2>5
    <3>2. z \in S /\ z > x
      BY <2>5
    <3>3. \A y \in S : y < z <=> y <= x
      BY <3>1, <3>2
    <3>4. QED
      BY <3>3, Zenon
  <2>7. At(i)
    BY <2>3, <2>5, <2>6
  <2>8. QED
    BY <1>4, <2>7
<1>7. QED
  BY <1>5, <1>6

\* InOrder lists members of the set.
LEMMA InOrderMembers ==
    ASSUME NEW S, S \subseteq Nat, IsFiniteSet(S)
    PROVE  InOrder(S) \in Seq(S)
<1>1. Cardinality(S) \in Nat
  BY FS_CardinalityType
<1>2. ASSUME NEW i \in 1 .. Cardinality(S)
      PROVE  InOrder(S)[i] \in S
  <2>1. \E x \in S : Cardinality({y \in S : y < x}) = i - 1
    BY MemberAtPlace
  <2>2. QED
    BY <2>1 DEF InOrder
<1>3. InOrder(S) \in [1 .. Cardinality(S) -> S]
  BY <1>2 DEF InOrder
<1>4. QED
  BY <1>1, <1>3

\* Filtered keeps members of the sequence, and nothing else.
LEMMA FilteredMembers ==
    ASSUME NEW T, NEW seq \in Seq(T), NEW kept, kept \subseteq DOMAIN seq
    PROVE  /\ Filtered(seq, kept) \in Seq(T)
           /\ \A k \in DOMAIN Filtered(seq, kept) :
                 \E i \in kept : Filtered(seq, kept)[k] = seq[i]
<1>1. kept \subseteq Nat /\ IsFiniteSet(kept)
  <2>1. kept \subseteq 1 .. Len(seq) /\ Len(seq) \in Nat
    OBVIOUS
  <2>2. IsFiniteSet(1 .. Len(seq))
    BY <2>1, FS_Interval
  <2>3. QED
    BY <2>1, <2>2, FS_Subset
<1>2. InOrder(kept) \in Seq(kept)
  BY <1>1, InOrderMembers
<1>3. DOMAIN InOrder(kept) = 1 .. Len(InOrder(kept)) /\ Len(InOrder(kept)) \in Nat
  BY <1>2
<1>4. \A k \in DOMAIN InOrder(kept) : InOrder(kept)[k] \in kept
  BY <1>2
<1>5. \A k \in DOMAIN InOrder(kept) : seq[InOrder(kept)[k]] \in T
  BY <1>4
<1>6. Filtered(seq, kept) \in [1 .. Len(InOrder(kept)) -> T]
  BY <1>3, <1>5 DEF Filtered
<1>7. Filtered(seq, kept) \in Seq(T)
  BY <1>3, <1>6
<1>8. QED
  BY <1>4, <1>7 DEF Filtered

\* The status of transfer t after the first m entries of a chain c, be it the one
\* before a step or the one after it, is that of the last entry that concerns it.
LastStatus(c, m, t) ==
    IF \E i \in 1 .. m : Concerns(c[i], t)
    THEN c[CHOOSE i \in 1 .. m :
             /\ Concerns(c[i], t)
             /\ \A j \in i + 1 .. m : ~Concerns(c[j], t)].status
    ELSE "NOT_APPLICABLE"

LEMMA LastEntryOf ==
    ASSUME NEW c, NEW m \in Nat, NEW t
    PROVE  \/ /\ LastStatus(c, m, t) = "NOT_APPLICABLE"
              /\ \A i \in 1 .. m : ~Concerns(c[i], t)
           \/ \E i \in 1 .. m :
                /\ Concerns(c[i], t)
                /\ LastStatus(c, m, t) = c[i].status
                /\ \A j \in 1 .. m : Concerns(c[j], t) => j <= i
<1> DEFINE entries == {i \in 1 .. m : Concerns(c[i], t)}
           IsLast(i) == Concerns(c[i], t) /\ \A j \in i + 1 .. m : ~Concerns(c[j], t)
<1>1. CASE entries = {}
  BY <1>1 DEF LastStatus
<1>2. CASE entries # {}
  <2>1. PICK k \in entries : \A j \in entries : j <= k
    BY <1>2, LargestNumber
  <2>2. \A j \in k + 1 .. m : j \in 1 .. m /\ ~(j <= k)
    OBVIOUS
  <2>3. IsLast(k)
    BY <2>1, <2>2
  <2> DEFINE i == CHOOSE i \in 1 .. m : IsLast(i)
  <2>4. i \in 1 .. m /\ IsLast(i)
    BY <2>3
  <2>5. LastStatus(c, m, t) = c[i].status
    BY <1>2 DEF LastStatus
  <2> HIDE DEF i
  <2>6. \A j \in 1 .. m : j <= i \/ j \in i + 1 .. m
    BY <2>4
  <2>7. QED
    BY <2>4, <2>5, <2>6
<1>3. QED
  BY <1>1, <1>2

\* The same of the chain as it is.
LEMMA LastEntry ==
    ASSUME NEW m \in Nat, NEW t
    PROVE  \/ /\ StatusAt(m, t) = "NOT_APPLICABLE"
              /\ \A i \in 1 .. m : ~Concerns(chain[i], t)
           \/ \E i \in 1 .. m :
                /\ Concerns(chain[i], t)
                /\ StatusAt(m, t) = chain[i].status
                /\ \A j \in 1 .. m : Concerns(chain[j], t) => j <= i
<1>1. StatusAt(m, t) = LastStatus(chain, m, t)
  BY DEF StatusAt, LastStatus
<1>2. QED
  BY <1>1, LastEntryOf

-----------------------------------------------------------------------------
(* Types. TypeOK says what the checked runs can evaluate; TypesOK is what    *)
(* every step preserves.                                                     *)

RskTransactions ==
    [by : Nodes, status : {"SENDING", "MINED"}, tx : Transactions, signers : Signatures]

Entries ==
    [status : {"NEW", "RECLAIMED", "REFUNDED"}, ids : Seq(Transfers), tx : {NoBatch},
     by : {NoBatch}]
    \cup [status : {"SENDING", "MINED"}, ids : Seq(Transfers), tx : Transactions,
          by : RskTransactions]
    \cup [status : {"REVERTED"}, ids : {<<>>}, tx : {NoBatch}, by : RskTransactions]

Rows == [data : Batches, finalized : BOOLEAN]

WellFormed(messages) == \A m \in messages : m.from \in Nodes /\ m.batch \in Batches

Responses == [kind : {"sending", "bitcoin", "mined"}, by : Nodes, to : Nodes, tx : Transactions]

LocalStatuses ==
    [Transfers -> {"NOT_APPLICABLE", "NEW", "SENDING", "MINED", "RECLAIMED", "REFUNDED"}]

ChainTypesOK ==
    /\ chain \in Seq(Entries)
    /\ final \in 0 .. Len(chain)
    /\ rskPool \subseteq RskTransactions

BitcoinTypesOK ==
    /\ submitted \subseteq Transactions
    /\ mined \in Seq(submitted)

NodeTypesOK ==
    /\ scanned \in [Nodes -> 0 .. final]
    /\ status \in [Nodes -> LocalStatuses]
    /\ stored \in [Nodes -> Seq(Rows)]
    /\ current \in [Nodes -> Batches \cup {NoBatch}]
    /\ phase \in [Nodes -> {"idle", "SENDING", "MINED"}]
    /\ initiator \in [Nodes -> Nodes]
    /\ \A n \in Nodes : phase[n] # "idle" => current[n] # NoBatch

MessageTypesOK ==
    /\ DOMAIN requests = Nodes
    /\ \A n \in Nodes : WellFormed(requests[n]) /\ Cardinality(requests[n]) <= MaxInFlight
    /\ responses \subseteq Responses

TypesOK == ChainTypesOK /\ BitcoinTypesOK /\ NodeTypesOK /\ MessageTypesOK

\* It takes at least two nodes.
LEMMA TwoSigners == NumRequiredSigners \in Int /\ NumRequiredSigners >= 2
<1>1. Cardinality(Nodes) \in Nat
  BY NodeAssumption, FS_CardinalityType
<1>2. QED
  BY <1>1, NodeAssumption

\* Nobody signed the empty bag.
LEMMA EmptySignatures == EmptyBag \in Signatures /\ BagToSet(EmptyBag) = {}
<1>1. EmptyBag = [e \in {} |-> 1]
  BY DEF EmptyBag, SetToBag
<1>2. DOMAIN EmptyBag = {} /\ EmptyBag \in [{} -> Nat \ {0}]
  BY <1>1
<1>3. QED
  BY <1>2 DEF BagToSet, Signatures

\* Signatures of nodes are added to those of a batch.
LEMMA SignaturesAfterAdding ==
    ASSUME NEW b \in Signatures, NEW S, S \subseteq Nodes
    PROVE  b (+) SetToBag(S) \in Signatures
<1>1. PICK T \in SUBSET Nodes : b \in [T -> Nat \ {0}]
  BY DEF Signatures
<1> DEFINE c == b (+) SetToBag(S)
<1>2. c = [e \in T \cup S |->
             (IF e \in T THEN b[e] ELSE 0) + (IF e \in S THEN 1 ELSE 0)]
  <2>1. DOMAIN b = T /\ DOMAIN SetToBag(S) = S /\ \A e \in S : SetToBag(S)[e] = 1
    BY <1>1 DEF SetToBag
  <2>2. QED
    BY <2>1 DEF (+)
<1>3. \A e \in T \cup S :
        (IF e \in T THEN b[e] ELSE 0) + (IF e \in S THEN 1 ELSE 0) \in Nat \ {0}
  BY <1>1
<1>4. c \in [T \cup S -> Nat \ {0}]
  BY <1>2, <1>3
<1>5. T \cup S \in SUBSET Nodes
  OBVIOUS
<1> HIDE DEF c
<1>6. c \in Signatures
  BY <1>4, <1>5 DEF Signatures
<1>7. QED
  BY <1>6 DEF c

\* So do addRskSendingSignatures and addRskMinedSignatures (transfers.ts:417 and 458).
LEMMA RskSignaturesAfterAdding ==
    ASSUME NEW n \in Nodes, NEW b \in Signatures, NEW new, new \subseteq Nodes,
           NEW s \in AddRskSignatures(n, b, new)
    PROVE  s \in Signatures
<1>1. PICK S : /\ S \subseteq new
               /\ s = LET all == b (+) SetToBag(S)
                      IN  IF BagCardinality(all) = NumRequiredSigners - 1
                          THEN all (+) SetToBag({n}) ELSE all
  BY DEF AddRskSignatures
<1>2. b (+) SetToBag(S) \in Signatures
  BY <1>1, SignaturesAfterAdding
<1>3. \A all \in Signatures : all (+) SetToBag({n}) \in Signatures
  BY SignaturesAfterAdding
<1>4. QED
  BY <1>1, <1>2, <1>3

\* addBitcoinSignatures adds names of nodes (transfers.ts:499).
LEMMA BitcoinSignaturesAfterAdding ==
    ASSUME NEW n \in Nodes, NEW signers, signers \subseteq Nodes, NEW new, new \subseteq Nodes,
           NEW s \in AddBitcoinSignatures(n, signers, new)
    PROVE  /\ s \subseteq Nodes
           /\ new = {} \/ Cardinality(signers) >= NumRequiredSigners => s = signers
<1>1. CASE new = {} \/ Cardinality(signers) >= NumRequiredSigners
  BY <1>1 DEF AddBitcoinSignatures
<1>2. CASE ~(new = {} \/ Cardinality(signers) >= NumRequiredSigners)
  <2>1. PICK S : /\ S \subseteq (((new \ {n}) \cup {n}) \ signers)
                 /\ s = signers \cup S
    BY <1>2 DEF AddBitcoinSignatures
  <2>2. QED
    BY <1>2, <2>1
<1>3. QED
  BY <1>1, <1>2

\* Rows a node leaves when it stores a batch are those it had, but for one with
\* the batch, which is finalized only if it is now, or was a row with the same
\* transfers.
LEMMA RowsAfterStoring ==
    ASSUME NEW rows \in Seq(Rows), NEW batch \in Batches, NEW mark \in BOOLEAN
    PROVE  LET after == CreateOrUpdate(rows, batch, mark)
           IN  /\ after \in Seq(Rows)
               /\ \A i \in DOMAIN after :
                    \/ i \in DOMAIN rows /\ after[i] = rows[i]
                    \/ /\ after[i].data = batch
                       /\ after[i].finalized =>
                            \/ mark
                            \/ \E j \in DOMAIN rows :
                                 rows[j].finalized /\ SameIds(rows[j], batch)
<1> DEFINE after == CreateOrUpdate(rows, batch, mark)
<1>1. CASE \E i \in DOMAIN rows : SameIds(rows[i], batch)
  <2>1. after = [i \in DOMAIN rows |->
                   IF SameIds(rows[i], batch)
                   THEN [data |-> batch, finalized |-> rows[i].finalized \/ mark]
                   ELSE rows[i]]
    BY <1>1 DEF CreateOrUpdate
  <2>2. DOMAIN rows = 1 .. Len(rows) /\ Len(rows) \in Nat
    OBVIOUS
  <2>3. \A i \in DOMAIN rows : (rows[i].finalized \/ mark) \in BOOLEAN
    OBVIOUS
  <2>4. \A i \in DOMAIN rows : [data |-> batch, finalized |-> rows[i].finalized \/ mark] \in Rows
    BY <2>3 DEF Rows
  <2>5. \A i \in DOMAIN rows : rows[i] \in Rows
    OBVIOUS
  <2>6. after \in [1 .. Len(rows) -> Rows]
    BY <2>1, <2>2, <2>4, <2>5
  <2>7. after \in Seq(Rows)
    BY <2>2, <2>6
  <2>8. QED
    BY <2>1, <2>7
<1>2. CASE ~\E i \in DOMAIN rows : SameIds(rows[i], batch)
  <2>1. after = Append(rows, [data |-> batch, finalized |-> mark])
    BY <1>2 DEF CreateOrUpdate
  <2>2. [data |-> batch, finalized |-> mark] \in Rows
    BY DEF Rows
  <2>3. QED
    BY <2>1, <2>2
<1>3. QED
  BY <1>1, <1>2

\* What is in flight after a broadcast was before, or is new.
LEMMA InFlightAfterBroadcast ==
    ASSUME MessageTypesOK, NEW n \in Nodes, NEW messages, WellFormed(messages),
           Broadcast(n, messages), responses' \subseteq responses
    PROVE  /\ MessageTypesOK'
           /\ \A k \in Nodes : \A m \in requests'[k] : m \in requests[k] \/ (k = n /\ m \in messages)
<1>1. PICK inFlight : /\ inFlight \subseteq requests[n] \cup messages
                      /\ Cardinality(inFlight) <= MaxInFlight
                      /\ requests' = [requests EXCEPT ![n] = inFlight]
  BY DEF Broadcast
<1>2. DOMAIN requests' = Nodes
  BY <1>1 DEF MessageTypesOK
<1>3. \A k \in Nodes : requests'[k] = IF k = n THEN inFlight ELSE requests[k]
  BY <1>1 DEF MessageTypesOK
<1>4. WellFormed(inFlight)
  BY <1>1 DEF MessageTypesOK, WellFormed
<1>5. responses' \subseteq Responses
  BY DEF MessageTypesOK
<1>6. ASSUME NEW k \in Nodes
      PROVE  WellFormed(requests'[k]) /\ Cardinality(requests'[k]) <= MaxInFlight
  <2>1. CASE k = n
    <3>1. requests'[k] = inFlight
      BY <1>3, <2>1
    <3>2. QED
      BY <1>1, <1>4, <3>1
  <2>2. CASE k # n
    <3>1. requests'[k] = requests[k]
      BY <1>3, <2>2
    <3>2. QED
      BY <3>1 DEF MessageTypesOK
  <2>3. QED
    BY <2>1, <2>2
<1>7. \A k \in Nodes : \A m \in requests'[k] : m \in requests[k] \/ (k = n /\ m \in messages)
  BY <1>1, <1>3
<1>8. MessageTypesOK'
  BY <1>2, <1>5, <1>6 DEF MessageTypesOK
<1>9. QED
  BY <1>7, <1>8

\* A row passed by getPendingTransferBatch keeps its batch, and is finalized.
LEMMA RowsAfterPassingTypes ==
    ASSUME NodeTypesOK, NEW n \in Nodes
    PROVE  /\ RowsAfterPassing(n) \in Seq(Rows)
           /\ DOMAIN RowsAfterPassing(n) = DOMAIN stored[n]
           /\ \A i \in DOMAIN stored[n] :
                /\ RowsAfterPassing(n)[i].data = stored[n][i].data
                /\ RowsAfterPassing(n)[i].finalized =>
                     stored[n][i].finalized \/ IsMarkedAsMined(n, stored[n][i].data)
<1> DEFINE rows == stored[n]
           passed == PassedRows(n)
<1>1. rows \in Seq(Rows)
  BY DEF NodeTypesOK
<1>2. DOMAIN rows = 1 .. Len(rows) /\ Len(rows) \in Nat /\ \A i \in DOMAIN rows : rows[i] \in Rows
  BY <1>1
<1>3. \A i \in passed : rows[i].finalized \/ IsMarkedAsMined(n, rows[i].data)
  <2>1. \A i \in passed : i \in 1 .. i
    BY <1>2 DEF PassedRows
  <2>2. \A i \in passed : \A j \in 1 .. i : rows[j].finalized \/ IsMarkedAsMined(n, rows[j].data)
    BY DEF PassedRows
  <2>3. QED
    BY <2>1, <2>2, Zenon
<1> HIDE DEF rows, passed
<1>4. RowsAfterPassing(n) =
        [i \in DOMAIN rows |-> [rows[i] EXCEPT !.finalized = @ \/ i \in passed]]
  BY DEF RowsAfterPassing, rows, passed
<1>5. \A i \in DOMAIN rows :
        /\ [rows[i] EXCEPT !.finalized = @ \/ i \in passed] \in Rows
        /\ [rows[i] EXCEPT !.finalized = @ \/ i \in passed].data = rows[i].data
        /\ [rows[i] EXCEPT !.finalized = @ \/ i \in passed].finalized
             = (rows[i].finalized \/ i \in passed)
  BY <1>2 DEF Rows
<1>6. RowsAfterPassing(n) \in [1 .. Len(rows) -> Rows]
  BY <1>2, <1>4, <1>5
<1>7. RowsAfterPassing(n) \in Seq(Rows)
  BY <1>2, <1>6
<1>8. QED
  BY <1>3, <1>4, <1>5, <1>7 DEF rows

\* A batch without signatures.
LEMMA NewBatchTypes ==
    ASSUME NEW tx \in Transactions
    PROVE  /\ NewBatch(tx) \in Batches
           /\ NewBatch(tx).tx = tx
           /\ NewBatch(tx).bitcoinSigners = {}
           /\ BagToSet(NewBatch(tx).minedSigners) = {}
BY EmptySignatures DEF NewBatch, Batches

\* A coin that createPartiallySignedTransaction takes is a number.
LEMMA CoinsAreNumbers ==
    ASSUME BitcoinTypesOK
    PROVE  OldestCoins \subseteq Nat
BY NodeAssumption DEF OldestCoins, Unspent, BitcoinTypesOK

\* What getCurrentTransferBatch loads is the batch of a stored row, or new.
LEMMA CurrentBatchTypes ==
    ASSUME BitcoinTypesOK, NodeTypesOK, NEW n \in Nodes, NEW batch \in CurrentTransferBatches(n)
    PROVE  /\ batch \in Batches
           /\ \/ \E i \in DOMAIN stored[n] : batch = stored[n][i].data
              \/ (batch.bitcoinSigners = {} /\ BagToSet(batch.minedSigners) = {})
<1>1. stored[n] \in Seq(Rows)
  BY DEF NodeTypesOK
<1>2. CASE PassedRows(n) # DOMAIN stored[n]
  <2>1. batch = stored[n][Cardinality(PassedRows(n)) + 1].data
    BY <1>2 DEF CurrentTransferBatches
  <2>2. PassedRows(n) \subseteq 1 .. Len(stored[n]) /\ PassedRows(n) # 1 .. Len(stored[n])
    BY <1>1, <1>2 DEF PassedRows
  <2>3. IsFiniteSet(1 .. Len(stored[n])) /\ Cardinality(1 .. Len(stored[n])) = Len(stored[n])
    BY <1>1, FS_Interval
  <2>4. /\ IsFiniteSet(PassedRows(n))
        /\ Cardinality(PassedRows(n)) <= Cardinality(1 .. Len(stored[n]))
        /\ Cardinality(PassedRows(n)) # Cardinality(1 .. Len(stored[n]))
    <3> DEFINE all == 1 .. Len(stored[n])
    <3>1. PassedRows(n) \in SUBSET all /\ PassedRows(n) # all /\ IsFiniteSet(all)
      BY <2>2, <2>3
    <3> HIDE DEF all
    <3>2. QED
      BY <3>1, FS_Subset DEF all
  <2>5. /\ Cardinality(PassedRows(n)) \in Nat /\ Len(stored[n]) \in Nat
        /\ Cardinality(PassedRows(n)) < Len(stored[n])
    BY <1>1, <2>3, <2>4, FS_CardinalityType
  <2>6. Cardinality(PassedRows(n)) + 1 \in DOMAIN stored[n]
    BY <1>1, <2>5
  <2>7. stored[n][Cardinality(PassedRows(n)) + 1] \in Rows
    BY <1>1, <2>6
  <2>8. QED
    BY <2>1, <2>6, <2>7 DEF Rows
<1>3. CASE PassedRows(n) = DOMAIN stored[n]
  <2>1. PICK c \in OldestCoins : batch = NewBatch([coin |-> c, pays |-> NextBatchTransfers(n)])
    BY <1>3 DEF CurrentTransferBatches
  <2>2. NextBatchTransfers(n) \in Seq(Transfers)
    <3>1. PICK S : S \subseteq Transfers /\ NextBatchTransfers(n) = InOrder(S)
      BY DEF NextBatchTransfers
    <3>2. S \subseteq Nat /\ IsFiniteSet(S)
      <4>1. Transfers \subseteq Nat /\ IsFiniteSet(Transfers)
        BY NodeAssumption, FS_Interval DEF Transfers
      <4>2. QED
        BY <3>1, <4>1, FS_Subset
    <3>3. InOrder(S) \in Seq(S)
      BY <3>2, InOrderMembers
    <3>4. QED
      BY <3>1, <3>3
  <2>3. [coin |-> c, pays |-> NextBatchTransfers(n)] \in Transactions
    BY <2>1, <2>2, CoinsAreNumbers DEF Transactions
  <2>4. QED
    BY <2>1, <2>3, NewBatchTypes
<1>4. QED
  BY <1>2, <1>3

\* What updateTransferBatchFromTransientInitiatorData makes of a batch is for the
\* same transaction. It gains Bitcoin signatures only with one that came for that
\* transaction, and mined signatures only with one for the batch n had in mind.
LEMMA GatheredBatch ==
    ASSUME MessageTypesOK, NEW n \in Nodes, NEW batch \in Batches,
           NEW arrived, arrived \subseteq Answers(n),
           NEW result \in BatchesWithGathered(n, batch, arrived)
    PROVE  /\ result \in Batches
           /\ result.tx = batch.tx
           /\ \/ result.bitcoinSigners = batch.bitcoinSigners
              \/ \E r \in arrived : r.kind = "bitcoin" /\ r.tx = batch.tx
           /\ \/ result.minedSigners = batch.minedSigners
              \/ \E r \in arrived : r.kind = "mined" /\ r.tx = current[n].tx
<1> DEFINE same == current[n].tx = batch.tx
           bitcoinSigs == {r \in arrived : r.kind = "bitcoin"}
           New(kind, signers) == Gathered(arrived, kind, signers)
<1>1. \A r \in arrived : r \in Responses /\ r.tx = current[n].tx
  BY DEF Answers, MessageTypesOK
<1>2. \A kind, signers : New(kind, signers) \subseteq Nodes
  BY <1>1 DEF Gathered, Responses
<1>3. PICK sending, bitcoin, minedSigners :
        /\ result = [tx |-> batch.tx, sendingSigners |-> sending, bitcoinSigners |-> bitcoin,
                     minedSigners |-> minedSigners]
        /\ \/ sending = batch.sendingSigners
           \/ \E new : /\ new \in {New("sending", BagToSet(batch.sendingSigners)), {}}
                       /\ sending \in AddRskSignatures(n, batch.sendingSigners, new)
        /\ bitcoinSigs # {} /\ ~same => HasEnoughBitcoinSignatures(batch)
        /\ bitcoin \in AddBitcoinSignatures(n, batch.bitcoinSigners, {r.by : r \in bitcoinSigs})
        /\ \/ minedSigners = batch.minedSigners
           \/ /\ {r \in arrived : r.kind = "mined"} # {}
              /\ minedSigners \in AddRskSignatures(n, batch.minedSigners,
                                     New("mined", BagToSet(batch.minedSigners)))
  BY SMTT(30) DEF BatchesWithGathered
<1>4. /\ batch.tx \in Transactions /\ batch.sendingSigners \in Signatures
      /\ batch.bitcoinSigners \subseteq Nodes /\ batch.minedSigners \in Signatures
  BY DEF Batches
<1>5. sending \in Signatures /\ minedSigners \in Signatures
  <2>1. \A kind, signers : New(kind, signers) \subseteq Nodes /\ {} \subseteq Nodes
    BY <1>2
  <2> HIDE DEF New
  <2>2. sending = batch.sendingSigners
        \/ \E new : new \subseteq Nodes /\ sending \in AddRskSignatures(n, batch.sendingSigners, new)
    BY <1>3, <2>1
  <2>3. minedSigners = batch.minedSigners
        \/ \E new : new \subseteq Nodes /\ minedSigners \in AddRskSignatures(n, batch.minedSigners, new)
    BY <1>3, <2>1
  <2>4. sending \in Signatures
    BY <1>4, <2>2, RskSignaturesAfterAdding
  <2>5. minedSigners \in Signatures
    BY <1>4, <2>3, RskSignaturesAfterAdding
  <2>6. QED
    BY <2>4, <2>5
<1>6. {r.by : r \in bitcoinSigs} \subseteq Nodes
  BY <1>1 DEF Responses
<1>7. /\ bitcoin \subseteq Nodes
      /\ bitcoin = batch.bitcoinSigners \/ (bitcoinSigs # {} /\ ~HasEnoughBitcoinSignatures(batch))
  <2>1. /\ bitcoin \subseteq Nodes
        /\ \/ {r.by : r \in bitcoinSigs} = {}
           \/ Cardinality(batch.bitcoinSigners) >= NumRequiredSigners
           => bitcoin = batch.bitcoinSigners
    BY <1>3, <1>4, <1>6, BitcoinSignaturesAfterAdding
  <2>2. bitcoinSigs = {} => {r.by : r \in bitcoinSigs} = {}
    OBVIOUS
  <2>3. QED
    BY <2>1, <2>2 DEF HasEnoughBitcoinSignatures
<1>8. result \in Batches
  BY <1>3, <1>4, <1>5, <1>7 DEF Batches
<1>9. result.bitcoinSigners = bitcoin /\ result.minedSigners = minedSigners /\ result.tx = batch.tx
  BY <1>3
<1>10. bitcoin = batch.bitcoinSigners \/ \E r \in arrived : r.kind = "bitcoin" /\ r.tx = batch.tx
  BY <1>1, <1>3, <1>7
<1>11. minedSigners = batch.minedSigners \/ \E r \in arrived : r.kind = "mined" /\ r.tx = current[n].tx
  BY <1>1, <1>3
<1>12. QED
  BY <1>8, <1>9, <1>10, <1>11

-----------------------------------------------------------------------------
(* The inductive invariant. A batch goes from the database of a node to its *)
(* messages, to the databases of others and back, and what matters is not   *)
(* where it is but what its signatures stand for: somebody saw RSK commit   *)
(* to its transaction, or saw Bitcoin mine one that pays its transfers.     *)
(* These two facts stay true, so a batch may be as old as it likes.         *)

\* The transactions RSK committed to in blocks that stay, and the transfers that
\* Bitcoin transactions with confirmations pay.
CommittedTransactions ==
    {chain[i].tx : i \in {i \in 1 .. final : chain[i].status = "SENDING"}}

PaidTransfers == {t \in Transfers : \E i \in DOMAIN mined : PaidBy(mined[i], t)}

BatchIsBacked(batch, committed, paid) ==
    /\ batch.bitcoinSigners # {} => batch.tx \in committed
    /\ BagToSet(batch.minedSigners) # {} => SetOf(Ids(batch)) \subseteq paid

RowsAreBacked(rows, committed, paid) ==
    \A i \in DOMAIN rows :
        /\ BatchIsBacked(rows[i].data, committed, paid)
        /\ rows[i].finalized => SetOf(Ids(rows[i].data)) \subseteq paid

MessagesAreBacked(messages, committed, paid) ==
    \A m \in messages : BatchIsBacked(m.batch, committed, paid)

LocalStatusesAreBacked(statuses, paid) ==
    \A t \in Transfers : statuses[t] = "MINED" => t \in paid

ResponsesAreBacked(answers, committed, paid) ==
    \A r \in answers :
        /\ r.kind = "bitcoin" => r.tx \in committed
        /\ r.kind = "mined" => SetOf(r.tx.pays) \subseteq paid

RskTransactionIsBacked(rskTx, paid) ==
    rskTx.status = "MINED" /\ BagToSet(rskTx.signers) # {} => SetOf(rskTx.tx.pays) \subseteq paid

EntriesAreBacked(entries, paid) ==
    \A i \in DOMAIN entries :
        /\ entries[i].by # NoBatch => RskTransactionIsBacked(entries[i].by, paid)
        /\ entries[i].status = "MINED" => SetOf(entries[i].ids) \subseteq paid

NodeIsBacked(n, committed, paid) ==
    /\ RowsAreBacked(stored[n], committed, paid)
    /\ current[n] # NoBatch => BatchIsBacked(current[n], committed, paid)
    /\ MessagesAreBacked(requests[n], committed, paid)
    /\ LocalStatusesAreBacked(status[n], paid)
    /\ phase[n] = "MINED" => SetOf(Ids(current[n])) \subseteq paid

\* Everything that nodes know and RSK has is backed by these facts.
IsBacked(committed, paid) ==
    /\ \A n \in Nodes : NodeIsBacked(n, committed, paid)
    /\ ResponsesAreBacked(responses, committed, paid)
    /\ \A rskTx \in rskPool : RskTransactionIsBacked(rskTx, paid)
    /\ EntriesAreBacked(chain, paid)
    /\ submitted \subseteq committed

Backed == IsBacked(CommittedTransactions, PaidTransfers)

\* What a later entry of the chain may do to a transfer that an earlier one
\* concerns: RSK commits to it at most once, and never after it was returned.
Follows == {<<"NEW", "SENDING">>, <<"NEW", "MINED">>, <<"NEW", "RECLAIMED">>,
            <<"NEW", "REFUNDED">>, <<"SENDING", "MINED">>}

HistoryOK ==
    /\ \A i, j \in DOMAIN chain : i < j =>
         \A t \in Transfers : Concerns(chain[i], t) /\ Concerns(chain[j], t) =>
             <<chain[i].status, chain[j].status>> \in Follows
    /\ \A i \in DOMAIN chain :
         chain[i].status \in {"SENDING", "MINED"} => chain[i].ids = chain[i].tx.pays

\* No coin is spent twice.
CoinsOK == \A i, j \in DOMAIN mined : i # j => mined[i].coin # mined[j].coin

NodeInv == TypesOK /\ Backed /\ HistoryOK /\ CoinsOK

-----------------------------------------------------------------------------
(* Lemmas about what is backed *)

\* Facts are never taken back.
LEMMA BackingGrows ==
    ASSUME NEW committed, NEW paid, NEW moreCommitted, NEW morePaid,
           committed \subseteq moreCommitted, paid \subseteq morePaid
    PROVE  IsBacked(committed, paid)' => IsBacked(moreCommitted, morePaid)'
<1>1. \A batch : BatchIsBacked(batch, committed, paid) =>
                   BatchIsBacked(batch, moreCommitted, morePaid)
  BY DEF BatchIsBacked
<1>2. \A rows : RowsAreBacked(rows, committed, paid) =>
                  RowsAreBacked(rows, moreCommitted, morePaid)
  BY <1>1 DEF RowsAreBacked
<1>3. \A messages : MessagesAreBacked(messages, committed, paid) =>
                      MessagesAreBacked(messages, moreCommitted, morePaid)
  BY <1>1 DEF MessagesAreBacked
<1>4. \A statuses : LocalStatusesAreBacked(statuses, paid) =>
                      LocalStatusesAreBacked(statuses, morePaid)
  BY DEF LocalStatusesAreBacked
<1>5. \A answers : ResponsesAreBacked(answers, committed, paid) =>
                     ResponsesAreBacked(answers, moreCommitted, morePaid)
  BY DEF ResponsesAreBacked
<1>6. \A rskTx : RskTransactionIsBacked(rskTx, paid) => RskTransactionIsBacked(rskTx, morePaid)
  BY DEF RskTransactionIsBacked
<1>7. \A entries : EntriesAreBacked(entries, paid) => EntriesAreBacked(entries, morePaid)
  BY <1>6 DEF EntriesAreBacked
<1>8. \A n : NodeIsBacked(n, committed, paid)' => NodeIsBacked(n, moreCommitted, morePaid)'
  BY <1>1, <1>2, <1>3, <1>4 DEF NodeIsBacked
<1>9. QED
  BY <1>5, <1>6, <1>7, <1>8 DEF IsBacked

\* A batch whose transfers all have the local status MINED is paid.
LEMMA MarkedAsMinedIsPaid ==
    ASSUME NEW n \in Nodes, NEW batch \in Batches, NEW paid,
           LocalStatusesAreBacked(status[n], paid), IsMarkedAsMined(n, batch)
    PROVE  SetOf(Ids(batch)) \subseteq paid
<1>1. SetOf(Ids(batch)) \subseteq Transfers
  BY DEF SetOf, Ids, Batches, Transactions
<1>2. \A t \in SetOf(Ids(batch)) : status[n][t] = "MINED"
  BY DEF IsMarkedAsMined, Statuses
<1>3. QED
  BY <1>1, <1>2 DEF LocalStatusesAreBacked

\* A transaction with confirmations pays its transfers.
LEMMA MinedPays ==
    ASSUME NEW tx \in Transactions, IsMined(tx)
    PROVE  SetOf(tx.pays) \subseteq PaidTransfers
<1>1. SetOf(tx.pays) \subseteq Transfers
  BY DEF SetOf, Transactions
<1>2. QED
  BY <1>1 DEF IsMined, PaidTransfers, PaidBy

\* Storing a backed batch.
LEMMA StoringKeepsBacking ==
    ASSUME NEW rows \in Seq(Rows), NEW batch \in Batches, NEW mark \in BOOLEAN,
           NEW committed, NEW paid, RowsAreBacked(rows, committed, paid),
           BatchIsBacked(batch, committed, paid), mark => SetOf(Ids(batch)) \subseteq paid
    PROVE  LET after == CreateOrUpdate(rows, batch, mark)
           IN  after \in Seq(Rows) /\ RowsAreBacked(after, committed, paid)
<1> DEFINE after == CreateOrUpdate(rows, batch, mark)
<1>1. /\ after \in Seq(Rows)
      /\ \A i \in DOMAIN after :
           \/ i \in DOMAIN rows /\ after[i] = rows[i]
           \/ /\ after[i].data = batch
              /\ after[i].finalized =>
                   mark \/ \E j \in DOMAIN rows : rows[j].finalized /\ SameIds(rows[j], batch)
  BY RowsAfterStoring
<1> HIDE DEF after
<1>2. (\E j \in DOMAIN rows : rows[j].finalized /\ SameIds(rows[j], batch)) =>
        SetOf(Ids(batch)) \subseteq paid
  BY DEF RowsAreBacked, SameIds
<1>3. RowsAreBacked(after, committed, paid)
  BY <1>1, <1>2 DEF RowsAreBacked
<1>4. QED
  BY <1>1, <1>3 DEF after

\* updateStoredTransferBatch.
LEMMA UpdatingKeepsBacking ==
    ASSUME NEW n \in Nodes, NEW rows \in Seq(Rows), NEW batch \in Batches,
           NEW committed, NEW paid, RowsAreBacked(rows, committed, paid),
           BatchIsBacked(batch, committed, paid), LocalStatusesAreBacked(status[n], paid)
    PROVE  LET after == UpdateStored(n, rows, batch)
           IN  after \in Seq(Rows) /\ RowsAreBacked(after, committed, paid)
<1> DEFINE mark == IsMarkedAsMined(n, batch)
<1>1. mark \in BOOLEAN
  BY DEF IsMarkedAsMined
<1>2. mark => SetOf(Ids(batch)) \subseteq paid
  BY MarkedAsMinedIsPaid
<1>3. UpdateStored(n, rows, batch) = CreateOrUpdate(rows, batch, mark)
  BY DEF UpdateStored
<1> HIDE DEF mark
<1>4. QED
  BY <1>1, <1>2, <1>3, StoringKeepsBacking

\* Removing rows.
LEMMA RemovingKeepsBacking ==
    ASSUME NEW rows \in Seq(Rows), NEW batch, NEW committed, NEW paid,
           RowsAreBacked(rows, committed, paid)
    PROVE  LET after == RemoveStored(rows, batch)
           IN  after \in Seq(Rows) /\ RowsAreBacked(after, committed, paid)
<1> DEFINE kept == {i \in DOMAIN rows : ~SameIds(rows[i], batch)}
<1>1. kept \subseteq DOMAIN rows
  OBVIOUS
<1> HIDE DEF kept
<1>2. /\ Filtered(rows, kept) \in Seq(Rows)
      /\ \A k \in DOMAIN Filtered(rows, kept) : \E i \in kept : Filtered(rows, kept)[k] = rows[i]
  BY <1>1, FilteredMembers
<1>3. RowsAreBacked(Filtered(rows, kept), committed, paid)
  BY <1>1, <1>2 DEF RowsAreBacked
<1>4. QED
  BY <1>2, <1>3 DEF RemoveStored, kept

\* Passing rows whose transfers are all MINED.
LEMMA PassingKeepsBacking ==
    ASSUME NodeTypesOK, NEW n \in Nodes, NEW committed, NEW paid,
           NodeIsBacked(n, committed, paid)
    PROVE  /\ RowsAfterPassing(n) \in Seq(Rows)
           /\ RowsAreBacked(RowsAfterPassing(n), committed, paid)
<1>1. stored[n] \in Seq(Rows)
  BY DEF NodeTypesOK
<1>2. \A i \in DOMAIN stored[n] : stored[n][i].data \in Batches
  <2>1. \A i \in DOMAIN stored[n] : stored[n][i] \in Rows
    BY <1>1
  <2>2. QED
    BY <2>1 DEF Rows
<1>3. LocalStatusesAreBacked(status[n], paid) /\ RowsAreBacked(stored[n], committed, paid)
  BY DEF NodeIsBacked
<1>4. \A i \in DOMAIN stored[n] : IsMarkedAsMined(n, stored[n][i].data) =>
        SetOf(Ids(stored[n][i].data)) \subseteq paid
  BY <1>2, <1>3, MarkedAsMinedIsPaid
<1>5. QED
  BY <1>3, <1>4, RowsAfterPassingTypes DEF RowsAreBacked

-----------------------------------------------------------------------------
(* An iteration of the initiator leaves what is backed *)

\* What one iteration of n does to the state: rows and the batch it leaves, what
\* it broadcasts, and sends to Bitcoin and RSK are backed.
LeavesBacked(n, committed, paid) ==
    \E rows \in Seq(Rows), left \in Batches :
        /\ RowsAreBacked(rows, committed, paid)
        /\ BatchIsBacked(left, committed, paid)
        /\ Leave(n, rows, left)
        /\ \/ requests' = requests
           \/ \E messages :
                /\ WellFormed(messages)
                /\ MessagesAreBacked(messages, committed, paid)
                /\ Broadcast(n, messages)
        /\ \/ submitted' = submitted
           \/ \E tx \in Transactions : tx \in committed /\ submitted' = submitted \cup {tx}
        /\ \/ rskPool' = rskPool /\ phase' = phase
           \/ \E s \in {"SENDING", "MINED"} :
                /\ rskPool' = rskPool \cup {RskTx(n, s, left)}
                /\ phase' = [phase EXCEPT ![n] = s]
                /\ s = "MINED" => SetOf(Ids(left)) \subseteq paid

\* One message about a batch.
LEMMA OneMessage ==
    ASSUME NEW n \in Nodes, NEW kind, NEW batch \in Batches,
           NEW committed, NEW paid, BatchIsBacked(batch, committed, paid)
    PROVE  /\ WellFormed({Message(n, kind, batch)})
           /\ MessagesAreBacked({Message(n, kind, batch)}, committed, paid)
BY DEF Message, WellFormed, MessagesAreBacked

\* The end of an iteration that asks for signatures.
LEMMA RequestLeavesBacked ==
    ASSUME NEW n \in Nodes, NEW kind, NEW rows \in Seq(Rows), NEW batch \in Batches,
           NEW committed, NEW paid, RowsAreBacked(rows, committed, paid),
           BatchIsBacked(batch, committed, paid), Request(n, kind, rows, batch)
    PROVE  LeavesBacked(n, committed, paid)
<1>1. /\ WellFormed({Message(n, kind, batch)})
      /\ MessagesAreBacked({Message(n, kind, batch)}, committed, paid)
  BY OneMessage
<1>2. /\ Leave(n, rows, batch)
      /\ Broadcast(n, {Message(n, kind, batch)})
      /\ rskPool' = rskPool /\ phase' = phase /\ submitted' = submitted
  BY DEF Request
<1>3. QED
  BY <1>1, <1>2 DEF LeavesBacked

\* The end of an iteration that marks the batch on RSK.
LEMMA MarkLeavesBacked ==
    ASSUME NEW n \in Nodes, NEW kind, NEW rows \in Seq(Rows), NEW batch \in Batches,
           NEW s \in {"SENDING", "MINED"},
           NEW committed, NEW paid, RowsAreBacked(rows, committed, paid),
           BatchIsBacked(batch, committed, paid),
           s = "MINED" => SetOf(Ids(batch)) \subseteq paid,
           Leave(n, rows, batch), Broadcast(n, {Message(n, kind, batch)}),
           SendRskTransaction(n, s, batch), UNCHANGED submitted
    PROVE  LeavesBacked(n, committed, paid)
<1>1. /\ WellFormed({Message(n, kind, batch)})
      /\ MessagesAreBacked({Message(n, kind, batch)}, committed, paid)
  BY OneMessage
<1>2. \/ rskPool' = rskPool /\ phase' = phase
      \/ /\ rskPool' = rskPool \cup {RskTx(n, s, batch)}
         /\ phase' = [phase EXCEPT ![n] = s]
  BY DEF SendRskTransaction
<1>3. QED
  BY <1>1, <1>2 DEF LeavesBacked

\* handleReclaimedTransfers replaces the batch by one that nobody has signed.
LEMMA PurgeReclaimedLeavesBacked ==
    ASSUME BitcoinTypesOK, NEW n \in Nodes, NEW rows \in Seq(Rows), NEW batch \in Batches,
           NEW committed, NEW paid, LocalStatusesAreBacked(status[n], paid),
           RowsAreBacked(rows, committed, paid), BatchIsBacked(batch, committed, paid),
           PurgeReclaimed(n, rows, batch)
    PROVE  LeavesBacked(n, committed, paid)
<1> DEFINE valid == Filtered(Ids(batch),
                             {i \in DOMAIN Ids(batch) : OnRsk(Ids(batch)[i]) # "RECLAIMED"})
           purge == Message(n, "purge-transfer-batch", batch)
           purged == RemoveStored(rows, batch)
<1>1. purged \in Seq(Rows) /\ RowsAreBacked(purged, committed, paid)
  BY RemovingKeepsBacking
<1>2. WellFormed({purge}) /\ MessagesAreBacked({purge}, committed, paid)
  BY OneMessage
<1>3. rskPool' = rskPool /\ phase' = phase /\ submitted' = submitted
  BY DEF PurgeReclaimed
<1>4. CASE Leave(n, purged, batch) /\ Broadcast(n, {purge})
  <2> HIDE DEF purged, purge
  <2>1. QED
    BY <1>1, <1>2, <1>3, <1>4 DEF LeavesBacked
<1>5. ASSUME NEW c \in OldestCoins,
             LET left == NewBatch([coin |-> c, pays |-> valid])
             IN  /\ Leave(n, UpdateStored(n, purged, left), left)
                 /\ Broadcast(n, {purge, Message(n, "request-rsk-sending-signature", left)})
      PROVE  LeavesBacked(n, committed, paid)
  <2> DEFINE tx == [coin |-> c, pays |-> valid]
             left == NewBatch(tx)
             request == Message(n, "request-rsk-sending-signature", left)
             after == UpdateStored(n, purged, left)
  <2>1. valid \in Seq(Transfers)
    <3> DEFINE kept == {i \in DOMAIN Ids(batch) : OnRsk(Ids(batch)[i]) # "RECLAIMED"}
    <3>1. Ids(batch) \in Seq(Transfers)
      BY DEF Ids, Batches, Transactions
    <3>2. kept \subseteq DOMAIN Ids(batch)
      OBVIOUS
    <3> HIDE DEF kept
    <3>3. QED
      BY <3>1, <3>2, FilteredMembers DEF kept
  <2>2. tx \in Transactions
    BY <2>1, CoinsAreNumbers DEF Transactions
  <2> HIDE DEF valid, tx, purge, purged
  <2>3. /\ left \in Batches /\ left.bitcoinSigners = {} /\ BagToSet(left.minedSigners) = {}
    BY <2>2, NewBatchTypes
  <2> HIDE DEF left
  <2>4. BatchIsBacked(left, committed, paid)
    BY <2>3 DEF BatchIsBacked
  <2>5. after \in Seq(Rows) /\ RowsAreBacked(after, committed, paid)
    BY <1>1, <2>3, <2>4, UpdatingKeepsBacking
  <2>6. WellFormed({request}) /\ MessagesAreBacked({request}, committed, paid)
    BY <2>3, <2>4, OneMessage
  <2> HIDE DEF after, request
  <2>7. WellFormed({purge, request}) /\ MessagesAreBacked({purge, request}, committed, paid)
    BY <1>2, <2>6 DEF MessagesAreBacked, WellFormed
  <2>8. Leave(n, after, left) /\ Broadcast(n, {purge, request})
    BY <1>5 DEF after, left, request, tx, valid, purge, purged
  <2>9. QED
    BY <1>3, <2>3, <2>4, <2>5, <2>7, <2>8 DEF LeavesBacked
<1>6. QED
  BY <1>4, <1>5 DEF PurgeReclaimed

\* So does every end of an iteration.
LEMMA ActLeavesBacked ==
    ASSUME BitcoinTypesOK, NEW n \in Nodes, NEW rows \in Seq(Rows), NEW batch \in Batches,
           NEW due \in BOOLEAN, NEW committed, LocalStatusesAreBacked(status[n], PaidTransfers),
           RowsAreBacked(rows, committed, PaidTransfers),
           BatchIsBacked(batch, committed, PaidTransfers), Act(n, rows, batch, due)
    PROVE  LeavesBacked(n, committed, PaidTransfers)
<1> DEFINE paid == PaidTransfers
<1>1. CASE PurgeInvalidBatch(n, rows, batch)
  <2> DEFINE purged == RemoveStored(rows, batch)
             purge == Message(n, "purge-transfer-batch", batch)
  <2>1. purged \in Seq(Rows) /\ RowsAreBacked(purged, committed, paid)
    BY RemovingKeepsBacking
  <2>2. WellFormed({purge}) /\ MessagesAreBacked({purge}, committed, paid)
    BY OneMessage
  <2>3. /\ Leave(n, purged, batch) /\ Broadcast(n, {purge})
        /\ rskPool' = rskPool /\ phase' = phase /\ submitted' = submitted
    BY <1>1 DEF PurgeInvalidBatch
  <2> HIDE DEF purged, purge
  <2>4. QED
    BY <2>1, <2>2, <2>3 DEF LeavesBacked
<1>2. CASE NotDue(n, rows, batch)
  <2>1. /\ Leave(n, rows, batch)
        /\ rskPool' = rskPool /\ phase' = phase /\ submitted' = submitted /\ requests' = requests
    BY <1>2 DEF NotDue
  <2>2. QED
    BY <2>1 DEF LeavesBacked
<1>3. CASE PurgeReclaimed(n, rows, batch)
  BY <1>3, PurgeReclaimedLeavesBacked
<1>4. CASE RequestSendingSignatures(n, rows, batch)
  BY <1>4, RequestLeavesBacked DEF RequestSendingSignatures
<1>5. CASE MarkAsSending(n, rows, batch)
  BY <1>5, MarkLeavesBacked DEF MarkAsSending
<1>6. CASE RequestBitcoinSignatures(n, rows, batch)
  BY <1>6, RequestLeavesBacked DEF RequestBitcoinSignatures
<1>7. CASE SendToBitcoin(n, rows, batch)
  <2> DEFINE announcement == Message(n, "sending-to-bitcoin", batch)
  <2>1. WellFormed({announcement}) /\ MessagesAreBacked({announcement}, committed, paid)
    BY OneMessage
  <2>2. batch.bitcoinSigners # {} /\ batch.tx \in Transactions
    <3>1. Cardinality(batch.bitcoinSigners) >= NumRequiredSigners
      BY <1>7 DEF SendToBitcoin, HasEnoughBitcoinSignatures
    <3>2. batch.bitcoinSigners # {}
      <4>1. SUFFICES ASSUME batch.bitcoinSigners = {}
                     PROVE  FALSE
        OBVIOUS
      <4>2. Cardinality(batch.bitcoinSigners) = 0
        BY <4>1, FS_EmptySet, Zenon
      <4>3. QED
        BY <3>1, <4>2, TwoSigners
    <3>3. batch.tx \in Transactions
      BY DEF Batches
    <3>4. QED
      BY <3>2, <3>3
  <2>3. /\ Leave(n, rows, batch) /\ Broadcast(n, {announcement})
        /\ rskPool' = rskPool /\ phase' = phase
        /\ submitted' = submitted \/ submitted' = submitted \cup {batch.tx}
    BY <1>7 DEF SendToBitcoin
  <2>4. batch.tx \in committed
    BY <2>2 DEF BatchIsBacked
  <2> HIDE DEF announcement
  <2>5. QED
    BY <2>1, <2>2, <2>3, <2>4 DEF LeavesBacked
<1>8. CASE RequestMinedSignatures(n, rows, batch)
  BY <1>8, RequestLeavesBacked DEF RequestMinedSignatures
<1>9. CASE MarkAsMined(n, rows, batch)
  <2>1. SetOf(Ids(batch)) \subseteq paid
    BY <1>9, MinedPays DEF MarkAsMined, Batches, Ids
  <2>2. QED
    BY <1>9, <2>1, MarkLeavesBacked DEF MarkAsMined
<1>10. QED
  BY <1>1, <1>2, <1>3, <1>4, <1>5, <1>6, <1>7, <1>8, <1>9 DEF Act

\* The batch an iteration acts on is backed, and so are the rows it finds.
LEMMA IterateLeavesBacked ==
    ASSUME TypesOK, Backed, NEW n \in Nodes, NEW arrived, arrived \subseteq Answers(n),
           NEW due \in BOOLEAN, Iterate(n, arrived, due)
    PROVE  LeavesBacked(n, CommittedTransactions, PaidTransfers)
<1> DEFINE committed == CommittedTransactions
           paid == PaidTransfers
           rows == RowsAfterPassing(n)
<1>1. NodeIsBacked(n, committed, paid) /\ ResponsesAreBacked(responses, committed, paid)
  BY DEF Backed, IsBacked
<1>2. LocalStatusesAreBacked(status[n], paid) /\ RowsAreBacked(stored[n], committed, paid)
  BY <1>1 DEF NodeIsBacked
<1>3. rows \in Seq(Rows) /\ RowsAreBacked(rows, committed, paid)
  BY <1>1, PassingKeepsBacking DEF TypesOK
<1> DEFINE Used(batch) == IF current[n] # NoBatch /\ Ids(current[n]) = Ids(batch)
                          THEN arrived ELSE {}
<1>4. PICK batch \in CurrentTransferBatches(n) :
        \/ Used(batch) = {} /\ Act(n, rows, batch, due)
        \/ \E result \in BatchesWithGathered(n, batch, Used(batch)) :
             Used(batch) # {} /\ Act(n, UpdateStored(n, rows, result), result, due)
        \/ /\ Leave(n, rows, batch)
           /\ UNCHANGED <<rskPool, submitted, requests, phase>>
  BY DEF Iterate
<1> DEFINE used == Used(batch)
<1>5. batch \in Batches /\ BatchIsBacked(batch, committed, paid)
  <2>1. /\ batch \in Batches
        /\ \/ \E i \in DOMAIN stored[n] : batch = stored[n][i].data
           \/ (batch.bitcoinSigners = {} /\ BagToSet(batch.minedSigners) = {})
    BY CurrentBatchTypes DEF TypesOK
  <2>2. QED
    BY <1>2, <2>1 DEF RowsAreBacked, BatchIsBacked
<1>6. \A r \in used : /\ r \in responses
                      /\ r.tx = current[n].tx
                      /\ Ids(current[n]) = Ids(batch)
  BY DEF Answers
<1>7. used \subseteq Answers(n)
  OBVIOUS
<1> HIDE DEF rows, used, committed, paid
<1>8. ASSUME NEW result \in BatchesWithGathered(n, batch, used)
      PROVE  result \in Batches /\ BatchIsBacked(result, committed, paid)
  <2>1. /\ result \in Batches
        /\ result.tx = batch.tx
        /\ \/ result.bitcoinSigners = batch.bitcoinSigners
           \/ \E r \in used : r.kind = "bitcoin" /\ r.tx = batch.tx
        /\ \/ result.minedSigners = batch.minedSigners
           \/ \E r \in used : r.kind = "mined" /\ r.tx = current[n].tx
    BY <1>5, <1>7, GatheredBatch DEF TypesOK
  <2>2. result.bitcoinSigners # {} => result.tx \in committed
    BY <1>1, <1>5, <1>6, <2>1 DEF ResponsesAreBacked, BatchIsBacked
  <2>3. BagToSet(result.minedSigners) # {} => SetOf(Ids(result)) \subseteq paid
    <3>1. Ids(result) = Ids(batch)
      BY <2>1 DEF Ids
    <3>2. CASE result.minedSigners = batch.minedSigners
      BY <1>5, <3>1, <3>2 DEF BatchIsBacked
    <3>3. CASE \E r \in used : r.kind = "mined" /\ r.tx = current[n].tx
      <4>1. PICK r \in used : r.kind = "mined" /\ r.tx = current[n].tx
        BY <3>3
      <4>2. SetOf(r.tx.pays) \subseteq paid /\ r.tx.pays = Ids(batch)
        BY <1>1, <1>6, <4>1 DEF ResponsesAreBacked, Ids
      <4>3. QED
        BY <3>1, <4>2
    <3>4. QED
      BY <2>1, <3>2, <3>3
  <2>4. QED
    BY <2>1, <2>2, <2>3 DEF BatchIsBacked
<1>9. CASE Act(n, rows, batch, due)
  BY <1>2, <1>3, <1>5, <1>9, ActLeavesBacked DEF TypesOK, paid, committed
<1>10. ASSUME NEW result \in BatchesWithGathered(n, batch, used),
              Act(n, UpdateStored(n, rows, result), result, due)
       PROVE  LeavesBacked(n, committed, paid)
  <2>1. result \in Batches /\ BatchIsBacked(result, committed, paid)
    BY <1>8
  <2> DEFINE after == UpdateStored(n, rows, result)
  <2>2. after \in Seq(Rows) /\ RowsAreBacked(after, committed, paid)
    BY <1>2, <1>3, <2>1, UpdatingKeepsBacking
  <2>3. Act(n, after, result, due)
    BY <1>10
  <2> HIDE DEF after
  <2>4. QED
    BY <1>2, <2>1, <2>2, <2>3, ActLeavesBacked DEF TypesOK, paid, committed
<1>11. CASE Leave(n, rows, batch) /\ UNCHANGED <<rskPool, submitted, requests, phase>>
  <2>1. /\ Leave(n, rows, batch)
        /\ rskPool' = rskPool /\ submitted' = submitted /\ requests' = requests /\ phase' = phase
    BY <1>11
  <2>2. QED
    BY <1>3, <1>5, <2>1 DEF LeavesBacked, committed, paid
<1>12. QED
  BY <1>4, <1>9, <1>10, <1>11 DEF committed, paid, used

-----------------------------------------------------------------------------
(* Every action keeps the types, and leaves what is backed *)

\* The initiator's iteration.
LEMMA IteratePreserves ==
    ASSUME TypesOK, Backed, NEW n \in Nodes, NEW arrived, arrived \subseteq Answers(n),
           NEW due \in BOOLEAN, Iterate(n, arrived, due),
           NEW committed, committed = CommittedTransactions, NEW paid, paid = PaidTransfers
    PROVE  TypesOK' /\ IsBacked(committed, paid)'
<1>1. LeavesBacked(n, committed, paid)
  BY IterateLeavesBacked
<1>2. PICK rows \in Seq(Rows), left \in Batches :
        /\ RowsAreBacked(rows, committed, paid)
        /\ BatchIsBacked(left, committed, paid)
        /\ Leave(n, rows, left)
        /\ \/ requests' = requests
           \/ \E messages : /\ WellFormed(messages)
                            /\ MessagesAreBacked(messages, committed, paid)
                            /\ Broadcast(n, messages)
        /\ \/ submitted' = submitted
           \/ \E tx \in Transactions : tx \in committed /\ submitted' = submitted \cup {tx}
        /\ \/ rskPool' = rskPool /\ phase' = phase
           \/ \E s \in {"SENDING", "MINED"} :
                /\ rskPool' = rskPool \cup {RskTx(n, s, left)}
                /\ phase' = [phase EXCEPT ![n] = s]
                /\ s = "MINED" => SetOf(Ids(left)) \subseteq paid
  BY <1>1 DEF LeavesBacked
<1>3. /\ phase[n] = "idle"
      /\ responses' \subseteq responses
      /\ chain' = chain /\ final' = final /\ mined' = mined /\ scanned' = scanned
      /\ status' = status /\ initiator' = initiator
  BY DEF Iterate
<1>4. IsBacked(committed, paid)
  BY DEF Backed
<1>5. /\ MessageTypesOK'
      /\ \A k \in Nodes : MessagesAreBacked(requests'[k], committed, paid)
  <2>1. \A k \in Nodes : MessagesAreBacked(requests[k], committed, paid)
    BY <1>4 DEF IsBacked, NodeIsBacked
  <2>2. CASE requests' = requests
    BY <1>3, <2>1, <2>2 DEF TypesOK, MessageTypesOK
  <2>3. ASSUME NEW messages, WellFormed(messages),
               MessagesAreBacked(messages, committed, paid), Broadcast(n, messages)
        PROVE  /\ MessageTypesOK'
               /\ \A k \in Nodes : MessagesAreBacked(requests'[k], committed, paid)
    <3>1. /\ MessageTypesOK'
          /\ \A k \in Nodes : \A m \in requests'[k] :
               m \in requests[k] \/ (k = n /\ m \in messages)
      BY <1>3, <2>3, InFlightAfterBroadcast DEF TypesOK
    <3>2. QED
      BY <2>1, <2>3, <3>1 DEF MessagesAreBacked
  <2>4. QED
    BY <1>2, <2>2, <2>3
<1>6. \A s \in {"SENDING", "MINED"} :
        /\ RskTx(n, s, left) \in RskTransactions
        /\ RskTransactionIsBacked(RskTx(n, s, left), paid)
  BY <1>2 DEF RskTx, RskTransactions, Batches, RskTransactionIsBacked, BatchIsBacked, Ids
<1>7. /\ ChainTypesOK'
      /\ \A rskTx \in rskPool' : RskTransactionIsBacked(rskTx, paid)
      /\ EntriesAreBacked(chain', paid)
  <2>1. /\ rskPool' \subseteq RskTransactions
        /\ \A rskTx \in rskPool' : RskTransactionIsBacked(rskTx, paid)
    BY <1>2, <1>4, <1>6 DEF TypesOK, ChainTypesOK, IsBacked
  <2>2. QED
    BY <1>3, <1>4, <2>1 DEF TypesOK, ChainTypesOK, IsBacked
<1>8. BitcoinTypesOK' /\ submitted' \subseteq committed
  <2>1. submitted' \subseteq Transactions /\ submitted \subseteq submitted' /\ submitted' \subseteq committed
    BY <1>2, <1>4 DEF TypesOK, BitcoinTypesOK, IsBacked
  <2>2. mined' \in Seq(submitted')
    BY <1>3, <2>1 DEF TypesOK, BitcoinTypesOK
  <2>3. QED
    BY <2>1, <2>2 DEF BitcoinTypesOK
<1>9. /\ NodeTypesOK'
      /\ \A k \in Nodes :
           /\ RowsAreBacked(stored'[k], committed, paid)
           /\ current'[k] # NoBatch => BatchIsBacked(current'[k], committed, paid)
           /\ LocalStatusesAreBacked(status'[k], paid)
           /\ phase'[k] = "MINED" => SetOf(Ids(current'[k])) \subseteq paid
  <2>1. /\ stored' = [stored EXCEPT ![n] = rows]
        /\ current' = [current EXCEPT ![n] = left]
    BY <1>2 DEF Leave
  <2>2. left # NoBatch
    BY NodeAssumption
  <2>3. \/ phase' = phase
        \/ \E s \in {"SENDING", "MINED"} :
             /\ phase' = [phase EXCEPT ![n] = s]
             /\ s = "MINED" => SetOf(Ids(left)) \subseteq paid
    BY <1>2
  <2>4. stored' \in [Nodes -> Seq(Rows)] /\ current' \in [Nodes -> Batches \cup {NoBatch}]
    BY <2>1 DEF TypesOK, NodeTypesOK
  <2>5. phase' \in [Nodes -> {"idle", "SENDING", "MINED"}]
    BY <2>3 DEF TypesOK, NodeTypesOK
  <2>6. \A k \in Nodes : phase'[k] # "idle" => current'[k] # NoBatch
    BY <1>3, <2>1, <2>2, <2>3 DEF TypesOK, NodeTypesOK
  <2>7. NodeTypesOK'
    BY <1>3, <2>4, <2>5, <2>6 DEF TypesOK, NodeTypesOK
  <2>8. ASSUME NEW k \in Nodes
        PROVE  /\ RowsAreBacked(stored'[k], committed, paid)
               /\ current'[k] # NoBatch => BatchIsBacked(current'[k], committed, paid)
               /\ LocalStatusesAreBacked(status'[k], paid)
               /\ phase'[k] = "MINED" => SetOf(Ids(current'[k])) \subseteq paid
    <3>1. NodeIsBacked(k, committed, paid)
      BY <1>4 DEF IsBacked
    <3>2. CASE k = n
      <4>1. stored'[k] = rows /\ current'[k] = left
        BY <2>1, <3>2 DEF TypesOK, NodeTypesOK
      <4>2. phase'[k] = "MINED" => SetOf(Ids(left)) \subseteq paid
        BY <1>3, <2>3, <3>2 DEF TypesOK, NodeTypesOK
      <4>3. QED
        BY <1>2, <1>3, <3>1, <4>1, <4>2 DEF NodeIsBacked
    <3>3. CASE k # n
      <4>1. stored'[k] = stored[k] /\ current'[k] = current[k] /\ phase'[k] = phase[k]
        BY <2>1, <2>3, <3>3 DEF TypesOK, NodeTypesOK
      <4>2. QED
        BY <1>3, <3>1, <4>1 DEF NodeIsBacked
    <3>4. QED
      BY <3>2, <3>3
  <2>9. QED
    BY <2>7, <2>8
<1>10. ResponsesAreBacked(responses', committed, paid)
  BY <1>3, <1>4 DEF IsBacked, ResponsesAreBacked
<1>11. \A k \in Nodes : NodeIsBacked(k, committed, paid)'
  BY <1>5, <1>9 DEF NodeIsBacked
<1>12. QED
  BY <1>5, <1>7, <1>8, <1>9, <1>10, <1>11 DEF TypesOK, IsBacked

\* FinishMarking: n believes that its transaction succeeded, and for a batch it
\* marks as mined that is right.
LEMMA FinishMarkingPreserves ==
    ASSUME TypesOK, Backed, NEW n \in Nodes, FinishMarking(n),
           NEW committed, committed = CommittedTransactions, NEW paid, paid = PaidTransfers
    PROVE  TypesOK' /\ IsBacked(committed, paid)'
<1> DEFINE batch == current[n]
           rows == CreateOrUpdate(stored[n], batch, FALSE)
           statuses == [t \in Transfers |-> IF t \in SetOf(Ids(batch)) THEN phase[n]
                                            ELSE status[n][t]]
<1>1. /\ phase[n] \in {"SENDING", "MINED"}
      /\ chain' = chain /\ rskPool' = rskPool /\ submitted' = submitted /\ mined' = mined
      /\ responses' = responses /\ scanned' = scanned /\ current' = current
      /\ initiator' = initiator
      /\ phase' = [phase EXCEPT ![n] = "idle"]
      /\ status' = [status EXCEPT ![n] = statuses]
      /\ stored' = [stored EXCEPT ![n] = rows]
      /\ \/ requests' = requests
         \/ Broadcast(n, {Message(n, "transfer-batch-complete", batch)})
      /\ \E i \in DOMAIN chain : final' = IF i > final THEN i ELSE final
  BY DEF FinishMarking, bitcoinVars
<1>2. final' \in 0 .. Len(chain) /\ final <= final' /\ final \in Nat /\ final' \in Nat
  BY <1>1 DEF TypesOK, ChainTypesOK
<1>3. IsBacked(committed, paid) /\ NodeIsBacked(n, committed, paid)
  BY DEF Backed, IsBacked
<1>4. batch \in Batches /\ BatchIsBacked(batch, committed, paid)
  BY <1>1, <1>3 DEF TypesOK, NodeTypesOK, NodeIsBacked
<1>5. rows \in Seq(Rows) /\ RowsAreBacked(rows, committed, paid)
  BY <1>3, <1>4, StoringKeepsBacking DEF TypesOK, NodeTypesOK, NodeIsBacked
<1>6. statuses \in LocalStatuses
  BY <1>1 DEF LocalStatuses, TypesOK, NodeTypesOK
<1>7. LocalStatusesAreBacked(statuses, paid)
  BY <1>1, <1>3 DEF LocalStatusesAreBacked, NodeIsBacked
<1> HIDE DEF batch, rows, statuses
<1>8. /\ MessageTypesOK'
      /\ \A k \in Nodes : MessagesAreBacked(requests'[k], committed, paid)
  <2>1. \A k \in Nodes : MessagesAreBacked(requests[k], committed, paid)
    BY <1>3 DEF IsBacked, NodeIsBacked
  <2>2. CASE requests' = requests
    BY <1>1, <2>1, <2>2 DEF TypesOK, MessageTypesOK
  <2>3. CASE Broadcast(n, {Message(n, "transfer-batch-complete", batch)})
    <3> DEFINE messages == {Message(n, "transfer-batch-complete", batch)}
    <3>1. WellFormed(messages) /\ MessagesAreBacked(messages, committed, paid)
      BY <1>4, OneMessage
    <3>2. Broadcast(n, messages)
      BY <2>3
    <3> HIDE DEF messages
    <3>3. /\ MessageTypesOK'
          /\ \A k \in Nodes : \A m \in requests'[k] :
               m \in requests[k] \/ (k = n /\ m \in messages)
      BY <1>1, <3>1, <3>2, InFlightAfterBroadcast DEF TypesOK
    <3>4. QED
      BY <2>1, <3>1, <3>3 DEF MessagesAreBacked
  <2>4. QED
    BY <1>1, <2>2, <2>3
<1>9. ChainTypesOK' /\ BitcoinTypesOK'
  BY <1>1, <1>2 DEF TypesOK, ChainTypesOK, BitcoinTypesOK
<1>10. NodeTypesOK'
  <2>1. scanned' \in [Nodes -> 0 .. final']
    BY <1>1, <1>2 DEF TypesOK, NodeTypesOK
  <2>2. status' \in [Nodes -> LocalStatuses] /\ stored' \in [Nodes -> Seq(Rows)]
    BY <1>1, <1>5, <1>6 DEF TypesOK, NodeTypesOK
  <2>3. /\ phase' \in [Nodes -> {"idle", "SENDING", "MINED"}]
        /\ \A k \in Nodes : phase'[k] # "idle" => current'[k] # NoBatch
    BY <1>1 DEF TypesOK, NodeTypesOK
  <2>4. QED
    BY <1>1, <2>1, <2>2, <2>3 DEF TypesOK, NodeTypesOK
<1>11. ASSUME NEW k \in Nodes
       PROVE  NodeIsBacked(k, committed, paid)'
  <2>1. NodeIsBacked(k, committed, paid)
    BY <1>3 DEF IsBacked
  <2>2. RowsAreBacked(stored'[k], committed, paid)
    BY <1>1, <1>5, <2>1 DEF TypesOK, NodeTypesOK, NodeIsBacked
  <2>3. LocalStatusesAreBacked(status'[k], paid)
    BY <1>1, <1>7, <2>1 DEF TypesOK, NodeTypesOK, NodeIsBacked
  <2>4. phase'[k] = "MINED" => phase[k] = "MINED"
    BY <1>1 DEF TypesOK, NodeTypesOK
  <2>5. QED
    BY <1>1, <1>8, <2>1, <2>2, <2>3, <2>4 DEF NodeIsBacked
<1>12. QED
  BY <1>1, <1>3, <1>8, <1>9, <1>10, <1>11 DEF TypesOK, IsBacked

\* HandleRequest: n answers with a Bitcoin signature only when it has seen RSK
\* commit to the transaction, and with a mined signature only when it has seen
\* Bitcoin mine it (validateForSigningBitcoin and validateForSigningRskMinedUpdate).
LEMMA HandleRequestPreserves ==
    ASSUME TypesOK, Backed, NEW n \in Nodes, NEW m \in requests[initiator[n]], HandleRequest(n, m),
           NEW committed, committed = CommittedTransactions, NEW paid, paid = PaidTransfers
    PROVE  TypesOK' /\ IsBacked(committed, paid)'
<1> DEFINE batch == m.batch
           rows == UpdateStored(n, stored[n], batch)
           answers == {[kind |-> kind, by |-> n, to |-> m.from, tx |-> batch.tx] :
                         kind \in Wanted(m.kind)}
<1>1. initiator[n] \in Nodes
  BY DEF TypesOK, NodeTypesOK
<1>2. IsBacked(committed, paid) /\ NodeIsBacked(n, committed, paid)
  BY DEF Backed, IsBacked
<1>3. batch \in Batches /\ BatchIsBacked(batch, committed, paid) /\ m.from \in Nodes
  <2>1. MessagesAreBacked(requests[initiator[n]], committed, paid)
    BY <1>1, <1>2 DEF IsBacked, NodeIsBacked
  <2>2. WellFormed(requests[initiator[n]])
    BY <1>1 DEF TypesOK, MessageTypesOK
  <2>3. QED
    BY <2>1, <2>2 DEF MessagesAreBacked, WellFormed
<1>4. /\ stored' = [stored EXCEPT ![n] = rows]
      /\ responses' = responses \cup answers
      /\ chain' = chain /\ final' = final /\ rskPool' = rskPool /\ submitted' = submitted
      /\ mined' = mined /\ requests' = requests /\ scanned' = scanned /\ status' = status
      /\ current' = current /\ phase' = phase /\ initiator' = initiator
  BY DEF HandleRequest, chainVars, bitcoinVars
<1>5. rows \in Seq(Rows) /\ RowsAreBacked(rows, committed, paid)
  BY <1>2, <1>3, UpdatingKeepsBacking DEF TypesOK, NodeTypesOK, NodeIsBacked
<1>6. Wanted(m.kind) \subseteq {"sending", "bitcoin", "mined"}
  BY DEF Wanted
<1>7. "bitcoin" \in Wanted(m.kind) => batch.tx \in committed
  <2>1. "bitcoin" \in Wanted(m.kind) => m.kind = "request-bitcoin-signature"
    BY DEF Wanted
  <2>2. m.kind = "request-bitcoin-signature" => HasCommitment(n, batch.tx)
    BY DEF HandleRequest, Validates, ValidForSigningBitcoin
  <2>3. scanned[n] \in 0 .. final /\ final \in Nat
    BY DEF TypesOK, NodeTypesOK, ChainTypesOK
  <2>4. HasCommitment(n, batch.tx) => batch.tx \in committed
    BY <2>3 DEF HasCommitment, CommittedTransactions
  <2>5. QED
    BY <2>1, <2>2, <2>4
<1>8. "mined" \in Wanted(m.kind) => SetOf(batch.tx.pays) \subseteq paid
  <2>1. "mined" \in Wanted(m.kind) => m.kind = "request-rsk-mined-signature"
    BY DEF Wanted
  <2>2. m.kind = "request-rsk-mined-signature" => IsMined(batch.tx)
    BY DEF HandleRequest, Validates, ValidForSigningMined
  <2>3. IsMined(batch.tx) => SetOf(batch.tx.pays) \subseteq paid
    BY <1>3, MinedPays DEF Batches
  <2>4. QED
    BY <2>1, <2>2, <2>3
<1>9. answers \subseteq Responses /\ ResponsesAreBacked(answers, committed, paid)
  BY <1>3, <1>6, <1>7, <1>8 DEF Responses, ResponsesAreBacked, Batches
<1> HIDE DEF batch, rows, answers
<1>10. /\ responses' \subseteq Responses /\ ResponsesAreBacked(responses', committed, paid)
  BY <1>2, <1>4, <1>9 DEF IsBacked, ResponsesAreBacked, TypesOK, MessageTypesOK
<1>11. stored' \in [Nodes -> Seq(Rows)]
  BY <1>4, <1>5 DEF TypesOK, NodeTypesOK
<1>12. TypesOK'
  BY <1>4, <1>10, <1>11 DEF TypesOK, ChainTypesOK, BitcoinTypesOK, NodeTypesOK, MessageTypesOK
<1>13. ASSUME NEW k \in Nodes
       PROVE  NodeIsBacked(k, committed, paid)'
  <2>1. NodeIsBacked(k, committed, paid)
    BY <1>2 DEF IsBacked
  <2>2. RowsAreBacked(stored'[k], committed, paid)
    BY <1>4, <1>5, <2>1 DEF TypesOK, NodeTypesOK, NodeIsBacked
  <2>3. QED
    BY <1>4, <2>1, <2>2 DEF NodeIsBacked
<1>14. QED
  BY <1>2, <1>4, <1>10, <1>12, <1>13 DEF IsBacked

\* Steps that write no new batch anywhere: n forgets one (NotInitiator, Restart,
\* TimeOut), drops a row (HandlePurge), or turns to another initiator.
LEMMA QuietStepPreserves ==
    ASSUME TypesOK, Backed, NEW n \in Nodes,
           NEW committed, committed = CommittedTransactions, NEW paid, paid = PaidTransfers,
           NEW rows \in Seq(Rows), RowsAreBacked(rows, committed, paid),
           stored' = stored \/ stored' = [stored EXCEPT ![n] = rows],
           current' = current \/ current' = [current EXCEPT ![n] = NoBatch],
           phase' = phase \/ phase' = [phase EXCEPT ![n] = "idle"],
           current' = current \/ phase'[n] = "idle",
           initiator' \in [Nodes -> Nodes],
           chain' = chain, final' = final, rskPool' = rskPool, submitted' = submitted,
           mined' = mined, requests' = requests, responses' = responses,
           scanned' = scanned, status' = status
    PROVE  TypesOK' /\ IsBacked(committed, paid)'
<1>1. IsBacked(committed, paid)
  BY DEF Backed
<1>2. stored' \in [Nodes -> Seq(Rows)]
  BY DEF TypesOK, NodeTypesOK
<1>3. current' \in [Nodes -> Batches \cup {NoBatch}]
  BY DEF TypesOK, NodeTypesOK
<1>4. phase' \in [Nodes -> {"idle", "SENDING", "MINED"}]
  BY DEF TypesOK, NodeTypesOK
<1>5. \A k \in Nodes : phase'[k] # "idle" => current'[k] = current[k] /\ phase'[k] = phase[k]
  BY DEF TypesOK, NodeTypesOK
<1>6. \A k \in Nodes : current'[k] # NoBatch => current'[k] = current[k]
  BY DEF TypesOK, NodeTypesOK
<1>7. NodeTypesOK'
  BY <1>2, <1>3, <1>4, <1>5 DEF TypesOK, NodeTypesOK
<1>8. TypesOK'
  BY <1>7 DEF TypesOK, ChainTypesOK, BitcoinTypesOK, MessageTypesOK
<1>9. ASSUME NEW k \in Nodes
      PROVE  NodeIsBacked(k, committed, paid)'
  <2>1. NodeIsBacked(k, committed, paid)
    BY <1>1 DEF IsBacked
  <2>2. RowsAreBacked(stored'[k], committed, paid)
    BY <2>1 DEF TypesOK, NodeTypesOK, NodeIsBacked
  <2>3. QED
    BY <1>5, <1>6, <2>1, <2>2 DEF NodeIsBacked
<1>10. QED
  BY <1>1, <1>8, <1>9 DEF IsBacked

\* The rows that n has are backed.
LEMMA OwnRowsAreBacked ==
    ASSUME TypesOK, Backed, NEW n \in Nodes
    PROVE  /\ stored[n] \in Seq(Rows)
           /\ RowsAreBacked(stored[n], CommittedTransactions, PaidTransfers)
BY DEF TypesOK, NodeTypesOK, Backed, IsBacked, NodeIsBacked

\* onPurgeTransferBatch.
LEMMA HandlePurgePreserves ==
    ASSUME TypesOK, Backed, NEW n \in Nodes, NEW m, HandlePurge(n, m),
           NEW committed, committed = CommittedTransactions, NEW paid, paid = PaidTransfers
    PROVE  TypesOK' /\ IsBacked(committed, paid)'
<1> DEFINE rows == RemoveStored(stored[n], m.batch)
<1>1. rows \in Seq(Rows) /\ RowsAreBacked(rows, committed, paid)
  BY OwnRowsAreBacked, RemovingKeepsBacking
<1>2. /\ stored' = [stored EXCEPT ![n] = rows]
      /\ current' = current /\ phase' = phase /\ initiator' \in [Nodes -> Nodes]
      /\ chain' = chain /\ final' = final /\ rskPool' = rskPool /\ submitted' = submitted
      /\ mined' = mined /\ requests' = requests /\ responses' = responses
      /\ scanned' = scanned /\ status' = status
  BY DEF HandlePurge, chainVars, bitcoinVars, messageVars, TypesOK, NodeTypesOK
<1> HIDE DEF rows
<1>3. QED
  BY <1>1, <1>2, QuietStepPreserves

\* Forgetting, giving up and turning to another initiator.
LEMMA ForgettingPreserves ==
    ASSUME TypesOK, Backed, NEW n \in Nodes,
           \/ NotInitiator(n)
           \/ TimeOut(n)
           \/ Restart(n)
           \/ \E i \in Nodes : ChangeInitiator(n, i),
           NEW committed, committed = CommittedTransactions, NEW paid, paid = PaidTransfers
    PROVE  TypesOK' /\ IsBacked(committed, paid)'
<1>1. stored[n] \in Seq(Rows) /\ RowsAreBacked(stored[n], committed, paid)
  BY OwnRowsAreBacked
<1>2. /\ stored' = stored
      /\ chain' = chain /\ final' = final /\ rskPool' = rskPool /\ submitted' = submitted
      /\ mined' = mined /\ requests' = requests /\ responses' = responses
      /\ scanned' = scanned /\ status' = status
  BY DEF NotInitiator, TimeOut, Restart, ChangeInitiator, chainVars, bitcoinVars, messageVars
<1>3. initiator' \in [Nodes -> Nodes]
  BY DEF NotInitiator, TimeOut, Restart, ChangeInitiator, TypesOK, NodeTypesOK
<1>4. /\ current' = current \/ current' = [current EXCEPT ![n] = NoBatch]
      /\ phase' = phase \/ phase' = [phase EXCEPT ![n] = "idle"]
      /\ current' = current \/ phase'[n] = "idle"
  BY DEF NotInitiator, TimeOut, Restart, ChangeInitiator, TypesOK, NodeTypesOK
<1>5. QED
  BY <1>1, <1>2, <1>3, <1>4, QuietStepPreserves

\* An entry that concerns a transfer has a status of its own kind.
LEMMA EntryStatuses ==
    ASSUME ChainTypesOK, NEW i \in DOMAIN chain
    PROVE  /\ i \in 1 .. Len(chain)
           /\ chain[i].status \in
                {"NEW", "SENDING", "MINED", "RECLAIMED", "REFUNDED", "REVERTED"}
           /\ SetOf(chain[i].ids) \subseteq Transfers
           /\ chain[i].by \in RskTransactions \cup {NoBatch}
           /\ \A t : Concerns(chain[i], t) => chain[i].status # "REVERTED"
<1>1. chain[i] \in Entries /\ i \in 1 .. Len(chain)
  BY DEF ChainTypesOK
<1>2. chain[i].ids \in Seq(Transfers)
  <2>1. <<>> \in Seq(Transfers)
    OBVIOUS
  <2>2. chain[i].ids \in Seq(Transfers) \/ chain[i].ids = <<>>
    BY <1>1 DEF Entries
  <2>3. QED
    BY <2>1, <2>2
<1>3. SetOf(chain[i].ids) \subseteq Transfers
  BY <1>2 DEF SetOf
<1>4. /\ chain[i].status \in {"NEW", "SENDING", "MINED", "RECLAIMED", "REFUNDED", "REVERTED"}
      /\ chain[i].by \in RskTransactions \cup {NoBatch}
      /\ chain[i].status = "REVERTED" => chain[i].ids = <<>>
  BY <1>1 DEF Entries
<1>5. \A t : Concerns(chain[i], t) => chain[i].status # "REVERTED"
  BY <1>4 DEF Concerns, SetOf
<1>6. QED
  BY <1>1, <1>3, <1>4, <1>5

\* scanNewEvents: a local status MINED comes from an entry that is backed.
LEMMA ScanPreserves ==
    ASSUME TypesOK, Backed, NEW n \in Nodes, ScanNewEvents(n),
           NEW committed, committed = CommittedTransactions, NEW paid, paid = PaidTransfers
    PROVE  TypesOK' /\ IsBacked(committed, paid)'
<1>1. PICK m \in scanned[n] + 1 .. Len(chain) :
        /\ scanned' = [scanned EXCEPT ![n] = m]
        /\ status' = [status EXCEPT ![n] =
             [t \in Transfers |->
                IF \E i \in scanned[n] + 1 .. m : Concerns(chain[i], t)
                THEN StatusAt(m, t) ELSE @[t]]]
        /\ final' = IF m > final THEN m ELSE final
  BY DEF ScanNewEvents
<1>2. /\ chain' = chain /\ rskPool' = rskPool /\ submitted' = submitted /\ mined' = mined
      /\ requests' = requests /\ responses' = responses /\ stored' = stored
      /\ current' = current /\ phase' = phase /\ initiator' = initiator
  BY DEF ScanNewEvents, bitcoinVars, messageVars
<1>3. IsBacked(committed, paid) /\ NodeIsBacked(n, committed, paid)
  BY DEF Backed, IsBacked
<1>4. /\ scanned[n] \in 0 .. final /\ final \in 0 .. Len(chain) /\ Len(chain) \in Nat
      /\ m \in 1 .. Len(chain) /\ DOMAIN chain = 1 .. Len(chain)
  BY DEF TypesOK, ChainTypesOK, NodeTypesOK
<1>5. /\ final' \in 0 .. Len(chain) /\ m \in 0 .. final' /\ final <= final'
      /\ final' \in Nat /\ final \in Nat
  BY <1>1, <1>4
<1> DEFINE statuses == [t \in Transfers |->
                IF \E i \in scanned[n] + 1 .. m : Concerns(chain[i], t)
                THEN StatusAt(m, t) ELSE status[n][t]]
<1>6. ASSUME NEW t \in Transfers
      PROVE  /\ StatusAt(m, t) \in
                  {"NOT_APPLICABLE", "NEW", "SENDING", "MINED", "RECLAIMED", "REFUNDED"}
             /\ StatusAt(m, t) = "MINED" => t \in paid
  <2>1. CASE StatusAt(m, t) = "NOT_APPLICABLE"
    BY <2>1
  <2>2. CASE \E i \in 1 .. m : Concerns(chain[i], t) /\ StatusAt(m, t) = chain[i].status
    <3>1. PICK i \in 1 .. m : Concerns(chain[i], t) /\ StatusAt(m, t) = chain[i].status
      BY <2>2
    <3>2. i \in DOMAIN chain
      BY <1>4, <3>1
    <3>3. /\ chain[i].status \in {"NEW", "SENDING", "MINED", "RECLAIMED", "REFUNDED"}
      BY <3>1, <3>2, EntryStatuses DEF TypesOK
    <3>4. chain[i].status = "MINED" => t \in paid
      BY <1>3, <3>1, <3>2 DEF IsBacked, EntriesAreBacked, Concerns
    <3>5. QED
      BY <3>1, <3>3, <3>4
  <2>3. QED
    BY <1>4, <2>1, <2>2, LastEntry
<1>7. status[n] \in LocalStatuses
  BY DEF TypesOK, NodeTypesOK
<1>8. statuses \in LocalStatuses
  BY <1>6, <1>7 DEF LocalStatuses
<1>9. LocalStatusesAreBacked(statuses, paid)
  BY <1>3, <1>6 DEF LocalStatusesAreBacked, NodeIsBacked
<1>10. status' = [status EXCEPT ![n] = statuses]
  BY <1>1
<1> HIDE DEF statuses
<1>11. status' \in [Nodes -> LocalStatuses]
  BY <1>8, <1>10 DEF TypesOK, NodeTypesOK
<1>12. scanned' \in [Nodes -> 0 .. final']
  BY <1>1, <1>4, <1>5 DEF TypesOK, NodeTypesOK
<1>13. NodeTypesOK'
  BY <1>2, <1>11, <1>12 DEF TypesOK, NodeTypesOK
<1>14. ChainTypesOK' /\ BitcoinTypesOK' /\ MessageTypesOK'
  BY <1>2, <1>5 DEF TypesOK, ChainTypesOK, BitcoinTypesOK, MessageTypesOK
<1>15. ASSUME NEW k \in Nodes
       PROVE  NodeIsBacked(k, committed, paid)'
  <2>1. NodeIsBacked(k, committed, paid)
    BY <1>3 DEF IsBacked
  <2>2. LocalStatusesAreBacked(status'[k], paid)
    BY <1>9, <1>10, <2>1 DEF TypesOK, NodeTypesOK, NodeIsBacked
  <2>3. QED
    BY <1>2, <2>1, <2>2 DEF NodeIsBacked
<1>16. QED
  BY <1>2, <1>3, <1>13, <1>14, <1>15 DEF TypesOK, IsBacked

-----------------------------------------------------------------------------
(* Steps of the two chains *)

\* What the bridge says of a transfer leaves no choice for what happened to it.
LEMMA StatusTellsHistory ==
    ASSUME ChainTypesOK, HistoryOK, NEW t \in Transfers, NEW i \in DOMAIN chain,
           Concerns(chain[i], t)
    PROVE  /\ OnRsk(t) # "NOT_APPLICABLE"
           /\ OnRsk(t) = "NEW" => chain[i].status = "NEW"
           /\ OnRsk(t) = "SENDING" => chain[i].status \in {"NEW", "SENDING"}
<1>1. Len(chain) \in Nat /\ DOMAIN chain = 1 .. Len(chain)
  BY DEF ChainTypesOK
<1>2. PICK k \in DOMAIN chain :
        /\ Concerns(chain[k], t)
        /\ OnRsk(t) = chain[k].status
        /\ i <= k
  BY <1>1, LastEntry DEF OnRsk
<1>3. chain[k].status # "NOT_APPLICABLE"
  BY <1>2, EntryStatuses
<1>4. CASE i = k
  BY <1>2, <1>3, <1>4
<1>5. CASE i # k
  <2>1. i < k
    BY <1>1, <1>2, <1>5
  <2>2. <<chain[i].status, chain[k].status>> \in Follows
    BY <1>2, <2>1 DEF HistoryOK
  <2>3. QED
    BY <1>2, <1>3, <2>2 DEF Follows
<1>6. QED
  BY <1>4, <1>5

\* One entry more.
LEMMA AppendPreserves ==
    ASSUME TypesOK, Backed, HistoryOK, NEW e \in Entries,
           NEW committed, committed = CommittedTransactions, NEW paid, paid = PaidTransfers,
           \A i \in DOMAIN chain : \A t \in Transfers : Concerns(chain[i], t) /\ Concerns(e, t) =>
               <<chain[i].status, e.status>> \in Follows,
           e.status \in {"SENDING", "MINED"} => e.ids = e.tx.pays,
           e.status = "MINED" => SetOf(e.ids) \subseteq paid,
           e.by # NoBatch => RskTransactionIsBacked(e.by, paid),
           chain' = Append(chain, e), rskPool' \subseteq rskPool,
           final' = final, submitted' = submitted, mined' = mined,
           requests' = requests, responses' = responses, scanned' = scanned,
           status' = status, stored' = stored, current' = current, phase' = phase,
           initiator' = initiator
    PROVE  TypesOK' /\ IsBacked(committed, paid)' /\ HistoryOK'
<1>1. chain \in Seq(Entries) /\ final \in 0 .. Len(chain) /\ rskPool \subseteq RskTransactions
  BY DEF TypesOK, ChainTypesOK
<1>2. /\ chain' \in Seq(Entries) /\ Len(chain') = Len(chain) + 1
      /\ DOMAIN chain' = 1 .. Len(chain) + 1 /\ DOMAIN chain = 1 .. Len(chain)
      /\ Len(chain) \in Nat
  BY <1>1
<1>3. /\ \A i \in DOMAIN chain : chain'[i] = chain[i]
      /\ chain'[Len(chain) + 1] = e
  BY <1>1
<1>4. \A i \in DOMAIN chain' : i \in DOMAIN chain \/ i = Len(chain) + 1
  BY <1>2
<1>5. ChainTypesOK'
  BY <1>1, <1>2 DEF ChainTypesOK
<1>6. TypesOK'
  BY <1>5 DEF TypesOK, BitcoinTypesOK, NodeTypesOK, MessageTypesOK
<1>7. IsBacked(committed, paid)
  BY DEF Backed
<1>8. EntriesAreBacked(chain', paid)
  BY <1>3, <1>4, <1>7 DEF EntriesAreBacked, IsBacked
<1>9. IsBacked(committed, paid)'
  <2>1. \A n \in Nodes : NodeIsBacked(n, committed, paid)'
    BY <1>7 DEF IsBacked, NodeIsBacked
  <2>2. QED
    BY <1>7, <1>8, <2>1 DEF IsBacked
<1>10. ASSUME NEW i \in DOMAIN chain', NEW j \in DOMAIN chain', i < j, NEW t \in Transfers,
              Concerns(chain'[i], t), Concerns(chain'[j], t)
       PROVE  <<chain'[i].status, chain'[j].status>> \in Follows
  <2>1. i \in DOMAIN chain
    BY <1>2, <1>10
  <2>2. chain'[i] = chain[i] /\ Concerns(chain[i], t)
    BY <1>3, <1>10, <2>1
  <2>3. CASE j \in DOMAIN chain
    <3>1. chain'[j] = chain[j] /\ Concerns(chain[j], t)
      BY <1>3, <1>10, <2>3
    <3>2. QED
      BY <1>10, <2>1, <2>2, <2>3, <3>1 DEF HistoryOK
  <2>4. CASE j = Len(chain) + 1
    <3>1. chain'[j] = e /\ Concerns(e, t)
      BY <1>3, <1>10, <2>4
    <3>2. QED
      BY <2>1, <2>2, <3>1
  <2>5. QED
    BY <1>4, <2>3, <2>4
<1>11. \A i \in DOMAIN chain' :
         chain'[i].status \in {"SENDING", "MINED"} => chain'[i].ids = chain'[i].tx.pays
  BY <1>3, <1>4 DEF HistoryOK
<1>12. HistoryOK'
  BY <1>10, <1>11 DEF HistoryOK
<1>13. QED
  BY <1>6, <1>9, <1>12

\* A user creates a transfer, or gets one back that was NEW.
LEMMA UserStepPreserves ==
    ASSUME TypesOK, Backed, HistoryOK, NEW t \in Transfers,
           TransferToBtc(t) \/ \E s \in {"RECLAIMED", "REFUNDED"} : ReturnTransfer(t, s),
           NEW committed, committed = CommittedTransactions, NEW paid, paid = PaidTransfers
    PROVE  TypesOK' /\ IsBacked(committed, paid)' /\ HistoryOK'
<1>1. PICK s \in {"NEW", "RECLAIMED", "REFUNDED"} :
        /\ chain' = Append(chain, UserEntry(t, s))
        /\ OnRsk(t) = IF s = "NEW" THEN "NOT_APPLICABLE" ELSE "NEW"
  BY DEF TransferToBtc, ReturnTransfer
<1> DEFINE e == UserEntry(t, s)
<1>2. e \in Entries
  BY DEF UserEntry, Entries
<1>3. \A u : Concerns(e, u) => u = t
  BY DEF UserEntry, Concerns, SetOf
<1>4. ASSUME NEW i \in DOMAIN chain, NEW u \in Transfers, Concerns(chain[i], u), Concerns(e, u)
      PROVE  <<chain[i].status, e.status>> \in Follows
  <2>1. u = t /\ e.status = s
    BY <1>3, <1>4 DEF UserEntry
  <2>2. chain[i].status = "NEW" /\ s \in {"RECLAIMED", "REFUNDED"}
    BY <1>1, <1>4, <2>1, StatusTellsHistory DEF TypesOK
  <2>3. QED
    BY <2>1, <2>2 DEF Follows
<1>5. e.status \notin {"SENDING", "MINED"} /\ e.by = NoBatch
  BY DEF UserEntry
<1>6. /\ rskPool' \subseteq rskPool /\ final' = final /\ submitted' = submitted
      /\ mined' = mined /\ requests' = requests /\ responses' = responses
      /\ scanned' = scanned /\ status' = status /\ stored' = stored
      /\ current' = current /\ phase' = phase /\ initiator' = initiator
  BY DEF TransferToBtc, ReturnTransfer, bitcoinVars, messageVars
<1>7. chain' = Append(chain, e)
  BY <1>1
<1> HIDE DEF e
<1>8. QED
  BY <1>2, <1>4, <1>5, <1>6, <1>7, AppendPreserves

\* Signatures that are enough are those of somebody.
LEMMA EnoughIsSomebody ==
    ASSUME NEW signers, EnoughSigners(signers)
    PROVE  BagToSet(signers) # {}
<1>1. Cardinality(BagToSet(signers)) >= NumRequiredSigners
  BY DEF EnoughSigners
<1>2. BagToSet(signers) = {} => Cardinality(BagToSet(signers)) = 0
  BY FS_EmptySet
<1>3. QED
  BY <1>1, <1>2, TwoSigners

\* A block includes a transaction of a node.
LEMMA IncludePreserves ==
    ASSUME TypesOK, Backed, HistoryOK, NEW rskTx \in rskPool, IncludeRskTransaction(rskTx),
           NEW committed, committed = CommittedTransactions, NEW paid, paid = PaidTransfers
    PROVE  TypesOK' /\ IsBacked(committed, paid)' /\ HistoryOK'
<1>1. rskTx \in RskTransactions
  BY DEF TypesOK, ChainTypesOK
<1>2. /\ rskTx.tx \in Transactions /\ rskTx.status \in {"SENDING", "MINED"}
      /\ rskTx.tx.pays \in Seq(Transfers)
  BY <1>1 DEF RskTransactions, Transactions
<1>3. IsBacked(committed, paid) /\ RskTransactionIsBacked(rskTx, paid)
  BY DEF Backed, IsBacked
<1>4. /\ rskPool' \subseteq rskPool /\ final' = final /\ submitted' = submitted
      /\ mined' = mined /\ requests' = requests /\ responses' = responses
      /\ scanned' = scanned /\ status' = status /\ stored' = stored
      /\ current' = current /\ phase' = phase /\ initiator' = initiator
  BY DEF IncludeRskTransaction, bitcoinVars, messageVars
<1>5. CASE /\ Accepted(rskTx)
           /\ chain' = Append(chain, [status |-> rskTx.status, ids |-> rskTx.tx.pays,
                                      tx |-> rskTx.tx, by |-> rskTx])
  <2> DEFINE e == [status |-> rskTx.status, ids |-> rskTx.tx.pays, tx |-> rskTx.tx, by |-> rskTx]
  <2>1. e \in Entries
    BY <1>1, <1>2 DEF Entries
  <2>2. \A u : Concerns(e, u) =>
          OnRsk(u) = IF rskTx.status = "SENDING" THEN "NEW" ELSE "SENDING"
    BY <1>5 DEF Accepted, AllOnRsk, Concerns, SetOf
  <2>3. ASSUME NEW i \in DOMAIN chain, NEW u \in Transfers, Concerns(chain[i], u), Concerns(e, u)
        PROVE  <<chain[i].status, e.status>> \in Follows
    <3>1. rskTx.status = "SENDING" => chain[i].status = "NEW"
      BY <2>2, <2>3, StatusTellsHistory DEF TypesOK
    <3>2. rskTx.status = "MINED" => chain[i].status \in {"NEW", "SENDING"}
      BY <2>2, <2>3, StatusTellsHistory DEF TypesOK
    <3>3. QED
      BY <1>2, <3>1, <3>2 DEF Follows
  <2>4. e.status \in {"SENDING", "MINED"} => e.ids = e.tx.pays
    OBVIOUS
  <2>5. BagToSet(rskTx.signers) # {}
    BY <1>5, EnoughIsSomebody DEF Accepted
  <2>6. e.status = "MINED" => SetOf(e.ids) \subseteq paid
    BY <1>3, <2>5 DEF RskTransactionIsBacked
  <2>7. RskTransactionIsBacked(e.by, paid) /\ chain' = Append(chain, e)
    BY <1>3, <1>5
  <2> HIDE DEF e
  <2>8. QED
    BY <1>4, <2>1, <2>3, <2>4, <2>6, <2>7, AppendPreserves
<1>6. CASE chain' = Append(chain, [status |-> "REVERTED", ids |-> <<>>,
                                   tx |-> NoBatch, by |-> rskTx])
  <2> DEFINE e == [status |-> "REVERTED", ids |-> <<>>, tx |-> NoBatch, by |-> rskTx]
  <2>1. e \in Entries
    BY <1>1 DEF Entries
  <2>2. \A u : ~Concerns(e, u)
    BY DEF Concerns, SetOf
  <2>3. e.status \notin {"SENDING", "MINED"}
    OBVIOUS
  <2>4. RskTransactionIsBacked(e.by, paid) /\ chain' = Append(chain, e)
    BY <1>3, <1>6
  <2> HIDE DEF e
  <2>5. QED
    BY <1>4, <2>1, <2>2, <2>3, <2>4, AppendPreserves
<1>7. CASE chain' = chain
  <2>1. TypesOK'
    BY <1>4, <1>7 DEF TypesOK, ChainTypesOK, BitcoinTypesOK, NodeTypesOK, MessageTypesOK
  <2>2. \A n \in Nodes : NodeIsBacked(n, committed, paid)'
    BY <1>3, <1>4 DEF IsBacked, NodeIsBacked
  <2>3. IsBacked(committed, paid)'
    BY <1>3, <1>4, <1>7, <2>2 DEF IsBacked
  <2>4. HistoryOK'
    BY <1>7 DEF HistoryOK
  <2>5. QED
    BY <2>1, <2>3, <2>4
<1>8. QED
  BY <1>5, <1>6, <1>7 DEF IncludeRskTransaction

\* RSK drops blocks, and what nodes sent is in its pool again.
LEMMA ReorganizePreserves ==
    ASSUME TypesOK, Backed, HistoryOK, NEW m \in final .. Len(chain) - 1, Reorganize(m),
           NEW committed, committed = CommittedTransactions, NEW paid, paid = PaidTransfers
    PROVE  TypesOK' /\ IsBacked(committed, paid)' /\ HistoryOK'
<1>1. /\ chain \in Seq(Entries) /\ final \in 0 .. Len(chain) /\ rskPool \subseteq RskTransactions
      /\ Len(chain) \in Nat /\ DOMAIN chain = 1 .. Len(chain) /\ m \in 0 .. Len(chain)
  BY DEF TypesOK, ChainTypesOK
<1>2. /\ chain' \in Seq(Entries) /\ Len(chain') = m /\ DOMAIN chain' = 1 .. m
      /\ DOMAIN chain' \subseteq DOMAIN chain
      /\ \A i \in DOMAIN chain' : chain'[i] = chain[i]
  <2>1. chain' = SubSeq(chain, 1, m)
    BY DEF Reorganize
  <2>2. QED
    BY <1>1, <2>1
<1>3. /\ final' = final /\ submitted' = submitted
      /\ mined' = mined /\ requests' = requests /\ responses' = responses
      /\ scanned' = scanned /\ status' = status /\ stored' = stored
      /\ current' = current /\ phase' = phase /\ initiator' = initiator
  BY DEF Reorganize, bitcoinVars, messageVars
<1>4. \A rskTx \in rskPool' :
        \/ rskTx \in rskPool
        \/ rskTx # NoBatch /\ \E i \in DOMAIN chain : rskTx = chain[i].by
  <2>1. rskPool' = (rskPool \cup {chain[i].by : i \in m + 1 .. Len(chain)}) \ {NoBatch}
    BY DEF Reorganize
  <2>2. m + 1 .. Len(chain) \subseteq DOMAIN chain
    BY <1>1
  <2>3. QED
    BY <2>1, <2>2
<1>5. rskPool' \subseteq RskTransactions
  BY <1>1, <1>4, EntryStatuses DEF TypesOK
<1>6. ChainTypesOK'
  BY <1>1, <1>2, <1>3, <1>5 DEF ChainTypesOK
<1>7. TypesOK'
  BY <1>3, <1>6 DEF TypesOK, BitcoinTypesOK, NodeTypesOK, MessageTypesOK
<1>8. IsBacked(committed, paid)
  BY DEF Backed
<1>9. \A rskTx \in rskPool' : RskTransactionIsBacked(rskTx, paid)
  BY <1>4, <1>8 DEF IsBacked, EntriesAreBacked
<1>10. EntriesAreBacked(chain', paid)
  BY <1>2, <1>8 DEF IsBacked, EntriesAreBacked
<1>11. \A n \in Nodes : NodeIsBacked(n, committed, paid)'
  BY <1>3, <1>8 DEF IsBacked, NodeIsBacked
<1>12. IsBacked(committed, paid)'
  BY <1>3, <1>8, <1>9, <1>10, <1>11 DEF IsBacked
<1>13. HistoryOK'
  BY <1>2 DEF HistoryOK
<1>14. QED
  BY <1>7, <1>12, <1>13

\* Bitcoin confirms a transaction, which spends a coin that nobody spent.
LEMMA MinePreserves ==
    ASSUME TypesOK, Backed, HistoryOK, CoinsOK, NEW tx \in submitted, MineBitcoinTransaction(tx),
           NEW committed, committed = CommittedTransactions, NEW paid, paid = PaidTransfers
    PROVE  TypesOK' /\ IsBacked(committed, paid)' /\ HistoryOK' /\ CoinsOK'
<1>1. mined \in Seq(submitted) /\ Len(mined) \in Nat /\ DOMAIN mined = 1 .. Len(mined)
  BY DEF TypesOK, BitcoinTypesOK
<1>2. mined' = Append(mined, tx) /\ tx.coin \in Unspent
  BY DEF MineBitcoinTransaction
<1>3. /\ mined' \in Seq(submitted) /\ DOMAIN mined' = 1 .. Len(mined) + 1
      /\ \A i \in DOMAIN mined : mined'[i] = mined[i]
      /\ mined'[Len(mined) + 1] = tx
  BY <1>1, <1>2
<1>4. /\ chain' = chain /\ final' = final /\ rskPool' = rskPool /\ submitted' = submitted
      /\ requests' = requests /\ responses' = responses
      /\ scanned' = scanned /\ status' = status /\ stored' = stored
      /\ current' = current /\ phase' = phase /\ initiator' = initiator
  BY DEF MineBitcoinTransaction, chainVars, messageVars
<1>5. TypesOK'
  BY <1>3, <1>4 DEF TypesOK, ChainTypesOK, BitcoinTypesOK, NodeTypesOK, MessageTypesOK
<1>6. IsBacked(committed, paid)
  BY DEF Backed
<1>7. \A n \in Nodes : NodeIsBacked(n, committed, paid)'
  BY <1>4, <1>6 DEF IsBacked, NodeIsBacked
<1>8. IsBacked(committed, paid)'
  BY <1>4, <1>6, <1>7 DEF IsBacked
<1>9. \A i \in DOMAIN mined : mined[i].coin # tx.coin
  BY <1>2 DEF Unspent
<1>10. \A i \in DOMAIN mined' : i \in DOMAIN mined \/ i = Len(mined) + 1
  BY <1>1, <1>3
<1>11. ASSUME NEW i \in DOMAIN mined', NEW j \in DOMAIN mined', i # j
       PROVE  mined'[i].coin # mined'[j].coin
  <2>1. CASE i \in DOMAIN mined /\ j \in DOMAIN mined
    BY <1>3, <1>11, <2>1 DEF CoinsOK
  <2>2. CASE i \in DOMAIN mined /\ j = Len(mined) + 1
    BY <1>3, <1>9, <2>2
  <2>3. CASE i = Len(mined) + 1 /\ j \in DOMAIN mined
    BY <1>3, <1>9, <2>3
  <2>4. QED
    BY <1>10, <1>11, <2>1, <2>2, <2>3
<1>12. CoinsOK'
  BY <1>11 DEF CoinsOK
<1>13. HistoryOK'
  BY <1>4 DEF HistoryOK
<1>14. QED
  BY <1>5, <1>8, <1>12, <1>13

\* The steps of nodes, one by one.
LEMMA NodeStepPreserves ==
    ASSUME TypesOK, Backed,
           \/ \E n \in Nodes : RunIteration(n) \/ OnMessage(n) \/ Restart(n)
           \/ \E turn \in Turns : ChangeInitiator(turn[1], turn[2]),
           NEW committed, committed = CommittedTransactions, NEW paid, paid = PaidTransfers
    PROVE  /\ TypesOK' /\ IsBacked(committed, paid)'
           /\ chain' = chain /\ mined' = mined /\ final <= final'
<1>1. Turns \subseteq Nodes \X Nodes
  BY NodeAssumption
<1>2. final \in Nat
  BY DEF TypesOK, ChainTypesOK
<1>3. ASSUME NEW n \in Nodes, ScanNewEvents(n)
      PROVE  /\ TypesOK' /\ IsBacked(committed, paid)'
             /\ chain' = chain /\ mined' = mined /\ final <= final'
  <2>1. TypesOK' /\ IsBacked(committed, paid)'
    BY <1>3, ScanPreserves
  <2>2. chain' = chain /\ mined' = mined
    BY <1>3 DEF ScanNewEvents, bitcoinVars
  <2>3. PICK m \in scanned[n] + 1 .. Len(chain) : final' = IF m > final THEN m ELSE final
    BY <1>3 DEF ScanNewEvents
  <2>4. scanned[n] \in Nat /\ Len(chain) \in Nat
    BY DEF TypesOK, ChainTypesOK, NodeTypesOK
  <2>5. final <= final'
    BY <1>2, <2>3, <2>4
  <2>6. QED
    BY <2>1, <2>2, <2>5
<1>4. ASSUME NEW n \in Nodes, FinishMarking(n)
      PROVE  /\ TypesOK' /\ IsBacked(committed, paid)'
             /\ chain' = chain /\ mined' = mined /\ final <= final'
  <2>1. TypesOK' /\ IsBacked(committed, paid)'
    BY <1>4, FinishMarkingPreserves
  <2>2. chain' = chain /\ mined' = mined
    BY <1>4 DEF FinishMarking, bitcoinVars
  <2>3. PICK i \in DOMAIN chain : final' = IF i > final THEN i ELSE final
    BY <1>4 DEF FinishMarking
  <2>4. DOMAIN chain = 1 .. Len(chain) /\ Len(chain) \in Nat
    BY DEF TypesOK, ChainTypesOK
  <2>5. final <= final'
    BY <1>2, <2>3, <2>4
  <2>6. QED
    BY <2>1, <2>2, <2>5
<1>5. ASSUME NEW n \in Nodes, NEW arrived \in SUBSET Answers(n), NEW due \in BOOLEAN,
             Iterate(n, arrived, due)
      PROVE  /\ TypesOK' /\ IsBacked(committed, paid)'
             /\ chain' = chain /\ mined' = mined /\ final' = final
  <2>1. arrived \subseteq Answers(n)
    OBVIOUS
  <2>2. TypesOK' /\ IsBacked(committed, paid)'
    BY <1>5, <2>1, IteratePreserves
  <2>3. QED
    BY <1>5, <2>2 DEF Iterate
<1>6. ASSUME NEW n \in Nodes, NEW m \in requests[initiator[n]], HandleRequest(n, m)
      PROVE  /\ TypesOK' /\ IsBacked(committed, paid)'
             /\ chain' = chain /\ mined' = mined /\ final' = final
  <2>1. TypesOK' /\ IsBacked(committed, paid)'
    BY <1>6, HandleRequestPreserves
  <2>2. QED
    BY <1>6, <2>1 DEF HandleRequest, chainVars, bitcoinVars
<1>7. ASSUME NEW n \in Nodes, NEW m, HandlePurge(n, m)
      PROVE  /\ TypesOK' /\ IsBacked(committed, paid)'
             /\ chain' = chain /\ mined' = mined /\ final' = final
  <2>1. TypesOK' /\ IsBacked(committed, paid)'
    BY <1>7, HandlePurgePreserves
  <2>2. QED
    BY <1>7, <2>1 DEF HandlePurge, chainVars, bitcoinVars
<1>8. ASSUME NEW n \in Nodes,
             NotInitiator(n) \/ TimeOut(n) \/ Restart(n) \/ \E i \in Nodes : ChangeInitiator(n, i)
      PROVE  /\ TypesOK' /\ IsBacked(committed, paid)'
             /\ chain' = chain /\ mined' = mined /\ final' = final
  <2>1. TypesOK' /\ IsBacked(committed, paid)'
    BY <1>8, ForgettingPreserves
  <2>2. QED
    BY <1>8, <2>1 DEF NotInitiator, TimeOut, Restart, ChangeInitiator, chainVars, bitcoinVars
<1>9. ASSUME NEW turn \in Turns, ChangeInitiator(turn[1], turn[2])
      PROVE  /\ TypesOK' /\ IsBacked(committed, paid)'
             /\ chain' = chain /\ mined' = mined /\ final' = final
  <2>1. turn[1] \in Nodes /\ turn[2] \in Nodes
    BY <1>1
  <2>2. QED
    BY <1>8, <1>9, <2>1
<1>10. final' = final => final <= final'
  BY <1>2
<1>11. QED
  BY <1>3, <1>4, <1>5, <1>6, <1>7, <1>8, <1>9, <1>10 DEF RunIteration, OnMessage

-----------------------------------------------------------------------------
(* The invariant is inductive *)

\* What RSK committed to in blocks that stay, it stays committed to.
LEMMA CommittedStays ==
    ASSUME ChainTypesOK, final' \in Nat, final <= final',
           \A i \in 1 .. final : chain'[i] = chain[i]
    PROVE  CommittedTransactions \subseteq CommittedTransactions'
<1>1. final \in Nat
  BY DEF ChainTypesOK
<1>2. \A i \in 1 .. final : i \in 1 .. final'
  BY <1>1
<1>3. QED
  BY <1>2 DEF CommittedTransactions

\* What Bitcoin paid stays paid.
LEMMA PaidStays ==
    ASSUME BitcoinTypesOK, mined' = mined \/ \E tx \in submitted : mined' = Append(mined, tx)
    PROVE  PaidTransfers \subseteq PaidTransfers'
<1>1. mined \in Seq(submitted)
  BY DEF BitcoinTypesOK
<1>2. \A i \in DOMAIN mined : i \in DOMAIN mined' /\ mined'[i] = mined[i]
  BY <1>1
<1>3. QED
  BY <1>2 DEF PaidTransfers, PaidBy

\* Blocks that stay do stay, and no step does something to both chains.
LEMMA ChainsGoOn ==
    ASSUME NodeInv, Next
    PROVE  /\ final <= final' /\ \A i \in 1 .. final : chain'[i] = chain[i]
           /\ \/ mined' = mined
              \/ /\ chain' = chain /\ final' = final
                 /\ \E tx \in submitted : tx.coin \in Unspent /\ mined' = Append(mined, tx)
<1>1. /\ chain \in Seq(Entries) /\ final \in 0 .. Len(chain) /\ final \in Nat
      /\ Len(chain) \in Nat /\ final <= final
  BY DEF NodeInv, TypesOK, ChainTypesOK
<1>2. CASE \/ \E n \in Nodes : RunIteration(n) \/ OnMessage(n) \/ Restart(n)
           \/ \E turn \in Turns : ChangeInitiator(turn[1], turn[2])
  <2>1. PICK committed : committed = CommittedTransactions
    OBVIOUS
  <2>2. PICK paid : paid = PaidTransfers
    OBVIOUS
  <2>3. QED
    BY <1>2, <2>1, <2>2, NodeStepPreserves DEF NodeInv
<1>3. CASE Rsk
  <2>1. mined' = mined /\ final' = final
    BY <1>3 DEF Rsk, TransferToBtc, ReturnTransfer, IncludeRskTransaction, Reorganize,
                bitcoinVars
  <2>2. ASSUME NEW e, chain' = Append(chain, e)
        PROVE  \A i \in 1 .. final : chain'[i] = chain[i]
    BY <1>1, <2>2
  <2>3. ASSUME NEW m \in final .. Len(chain) - 1, Reorganize(m)
        PROVE  \A i \in 1 .. final : chain'[i] = chain[i]
    BY <1>1, <2>3 DEF Reorganize
  <2>4. \/ chain' = chain
        \/ \E e : chain' = Append(chain, e)
        \/ \E m \in final .. Len(chain) - 1 : Reorganize(m)
    BY <1>3 DEF Rsk, TransferToBtc, ReturnTransfer, IncludeRskTransaction
  <2>5. QED
    BY <1>1, <2>1, <2>2, <2>3, <2>4
<1>4. CASE Bitcoin
  BY <1>1, <1>4 DEF Bitcoin, MineBitcoinTransaction, chainVars
<1>5. QED
  BY <1>2, <1>3, <1>4 DEF Next

\* Every step keeps the invariant, measured with the facts before the step, and
\* takes no fact back.
LEMMA StepPreserves ==
    ASSUME NodeInv, Next,
           NEW committed, committed = CommittedTransactions, NEW paid, paid = PaidTransfers
    PROVE  /\ TypesOK' /\ IsBacked(committed, paid)' /\ HistoryOK' /\ CoinsOK'
           /\ CommittedTransactions \subseteq CommittedTransactions'
           /\ PaidTransfers \subseteq PaidTransfers'
<1> USE DEF NodeInv
<1>1. /\ chain \in Seq(Entries) /\ final \in 0 .. Len(chain) /\ final \in Nat
      /\ Len(chain) \in Nat /\ DOMAIN chain = 1 .. Len(chain)
      /\ ChainTypesOK /\ BitcoinTypesOK
  BY DEF TypesOK, ChainTypesOK
<1>2. CASE \/ \E n \in Nodes : RunIteration(n) \/ OnMessage(n) \/ Restart(n)
           \/ \E turn \in Turns : ChangeInitiator(turn[1], turn[2])
  <2>1. /\ TypesOK' /\ IsBacked(committed, paid)'
        /\ chain' = chain /\ mined' = mined /\ final <= final'
    BY <1>2, NodeStepPreserves
  <2>2. final' \in Nat
    BY <2>1 DEF TypesOK, ChainTypesOK
  <2>3. CommittedTransactions \subseteq CommittedTransactions'
    BY <1>1, <2>1, <2>2, CommittedStays
  <2>4. PaidTransfers \subseteq PaidTransfers'
    BY <1>1, <2>1, PaidStays
  <2>5. HistoryOK' /\ CoinsOK'
    BY <2>1 DEF HistoryOK, CoinsOK
  <2>6. QED
    BY <2>1, <2>3, <2>4, <2>5
<1>3. CASE Rsk
  <2>1. mined' = mined /\ final' = final /\ TypesOK' /\ IsBacked(committed, paid)' /\ HistoryOK'
    <3>1. ASSUME NEW t \in Transfers, TransferToBtc(t)
          PROVE  TypesOK' /\ IsBacked(committed, paid)' /\ HistoryOK'
      BY <3>1, UserStepPreserves
    <3>2. ASSUME NEW return \in Returns, ReturnTransfer(return[1], return[2])
          PROVE  TypesOK' /\ IsBacked(committed, paid)' /\ HistoryOK'
      <4>1. return[1] \in Transfers /\ return[2] \in {"RECLAIMED", "REFUNDED"}
        BY NodeAssumption DEF Transfers
      <4>2. QED
        BY <3>2, <4>1, UserStepPreserves
    <3>3. ASSUME NEW rskTx \in rskPool, IncludeRskTransaction(rskTx)
          PROVE  TypesOK' /\ IsBacked(committed, paid)' /\ HistoryOK'
      BY <3>3, IncludePreserves
    <3>4. ASSUME NEW m \in final .. Len(chain) - 1, Reorganize(m)
          PROVE  TypesOK' /\ IsBacked(committed, paid)' /\ HistoryOK'
      BY <3>4, ReorganizePreserves
    <3>5. TypesOK' /\ IsBacked(committed, paid)' /\ HistoryOK'
      BY <1>3, <3>1, <3>2, <3>3, <3>4 DEF Rsk
    <3>6. mined' = mined /\ final' = final
      BY <1>3 DEF Rsk, TransferToBtc, ReturnTransfer, IncludeRskTransaction, Reorganize,
                  bitcoinVars
    <3>7. QED
      BY <3>5, <3>6
  <2>2. \A i \in 1 .. final : chain'[i] = chain[i]
    BY ChainsGoOn
  <2>3. CommittedTransactions \subseteq CommittedTransactions'
    BY <1>1, <2>1, <2>2, CommittedStays
  <2>4. PaidTransfers \subseteq PaidTransfers'
    BY <1>1, <2>1, PaidStays
  <2>5. CoinsOK'
    BY <2>1 DEF CoinsOK
  <2>6. QED
    BY <2>1, <2>3, <2>4, <2>5
<1>4. CASE Bitcoin
  <2>1. PICK tx \in submitted : MineBitcoinTransaction(tx)
    BY <1>4 DEF Bitcoin
  <2>2. TypesOK' /\ IsBacked(committed, paid)' /\ HistoryOK' /\ CoinsOK'
    BY <2>1, MinePreserves
  <2>3. chain' = chain /\ final' = final /\ mined' = Append(mined, tx)
    BY <2>1 DEF MineBitcoinTransaction, chainVars
  <2>4. CommittedTransactions \subseteq CommittedTransactions'
    BY <1>1, <2>3, CommittedStays
  <2>5. PaidTransfers \subseteq PaidTransfers'
    BY <1>1, <2>3, PaidStays
  <2>6. QED
    BY <2>2, <2>4, <2>5
<1>5. QED
  BY <1>2, <1>3, <1>4 DEF Next

\* At the start nobody knows anything.
LEMMA InitNodeInv == Init => NodeInv
<1> SUFFICES ASSUME Init
             PROVE  NodeInv
  OBVIOUS
<1> USE DEF Init
<1>1. /\ chain = <<>> /\ Len(chain) = 0 /\ DOMAIN chain = {} /\ chain \in Seq(Entries)
      /\ mined = <<>> /\ DOMAIN mined = {} /\ mined \in Seq(submitted)
  OBVIOUS
<1>2. ChainTypesOK /\ BitcoinTypesOK
  BY <1>1 DEF ChainTypesOK, BitcoinTypesOK
<1>3. NodeTypesOK
  <2>1. <<>> \in Seq(Rows)
    OBVIOUS
  <2>2. [t \in Transfers |-> "NOT_APPLICABLE"] \in LocalStatuses
    BY DEF LocalStatuses
  <2>3. initiator \in [Nodes -> Nodes]
    BY NodeAssumption
  <2>4. QED
    BY <2>1, <2>2, <2>3 DEF NodeTypesOK
<1>4. MessageTypesOK
  <2>1. Cardinality({}) = 0
    BY FS_EmptySet
  <2>2. 0 <= MaxInFlight
    BY NodeAssumption
  <2>3. QED
    BY <2>1, <2>2 DEF MessageTypesOK, WellFormed
<1>5. ASSUME NEW n \in Nodes
      PROVE  NodeIsBacked(n, CommittedTransactions, PaidTransfers)
  <2>1. stored[n] = <<>> /\ DOMAIN stored[n] = {}
    OBVIOUS
  <2>2. RowsAreBacked(stored[n], CommittedTransactions, PaidTransfers)
    BY <2>1 DEF RowsAreBacked
  <2>3. QED
    BY <2>2 DEF NodeIsBacked, MessagesAreBacked, LocalStatusesAreBacked
<1>6. Backed
  BY <1>1, <1>5 DEF Backed, IsBacked, ResponsesAreBacked, EntriesAreBacked
<1>7. HistoryOK /\ CoinsOK
  BY <1>1 DEF HistoryOK, CoinsOK
<1>8. QED
  BY <1>2, <1>3, <1>4, <1>6, <1>7 DEF NodeInv, TypesOK

\* A step, or none, keeps the invariant.
LEMMA NextNodeInv == NodeInv /\ [Next]_vars => NodeInv'
<1> SUFFICES ASSUME NodeInv, [Next]_vars
             PROVE  NodeInv'
  OBVIOUS
<1>1. CASE Next
  <2>1. PICK committed : committed = CommittedTransactions
    OBVIOUS
  <2>2. PICK paid : paid = PaidTransfers
    OBVIOUS
  <2>3. PICK moreCommitted : moreCommitted = CommittedTransactions'
    OBVIOUS
  <2>4. PICK morePaid : morePaid = PaidTransfers'
    OBVIOUS
  <2>5. /\ TypesOK' /\ IsBacked(committed, paid)' /\ HistoryOK' /\ CoinsOK'
        /\ committed \subseteq moreCommitted /\ paid \subseteq morePaid
    BY <1>1, <2>1, <2>2, <2>3, <2>4, StepPreserves
  <2>6. IsBacked(moreCommitted, morePaid)'
    BY <2>5, BackingGrows
  <2>7. Backed'
    BY <2>3, <2>4, <2>6 DEF Backed
  <2>8. QED
    BY <2>5, <2>7 DEF NodeInv
<1>2. CASE UNCHANGED vars
  <2>1. /\ chain' = chain /\ final' = final /\ rskPool' = rskPool /\ submitted' = submitted
        /\ mined' = mined /\ requests' = requests /\ responses' = responses
        /\ scanned' = scanned /\ status' = status /\ stored' = stored
        /\ current' = current /\ phase' = phase /\ initiator' = initiator
    BY <1>2 DEF vars
  <2>2. TypesOK'
    BY <2>1 DEF NodeInv, TypesOK, ChainTypesOK, BitcoinTypesOK, NodeTypesOK, MessageTypesOK
  <2>3. HistoryOK' /\ CoinsOK'
    BY <2>1 DEF NodeInv, HistoryOK, CoinsOK
  <2>4. CommittedTransactions' = CommittedTransactions /\ PaidTransfers' = PaidTransfers
    BY <2>1 DEF CommittedTransactions, PaidTransfers
  <2>5. Backed'
    BY <2>1, <2>4 DEF NodeInv, Backed, IsBacked, NodeIsBacked
  <2>6. QED
    BY <2>2, <2>3, <2>5 DEF NodeInv
<1>3. QED
  BY <1>1, <1>2

\* Whatever the messages, restarts, turns of the initiator and dropped blocks do,
\* all that nodes know and sign for is backed by what the two chains did.
THEOREM NodeInvIsInvariant == Spec => []NodeInv
<1>1. QED
  BY InitNodeInv, NextNodeInv, PTL DEF Spec

-----------------------------------------------------------------------------
(* What follows from it *)

\* The types that the runs check.
THEOREM TypeCorrect == Spec => []TypeOK
<1>1. TypesOK => TypeOK
  <2> SUFFICES ASSUME TypesOK
               PROVE  TypeOK
    OBVIOUS
  <2>1. \A i \in DOMAIN chain :
          /\ chain[i].status \in {"NEW", "SENDING", "MINED", "RECLAIMED", "REFUNDED", "REVERTED"}
          /\ SetOf(chain[i].ids) \subseteq Transfers
    BY EntryStatuses DEF TypesOK
  <2>2. \A rskTx \in rskPool : rskTx.by \in Nodes /\ rskTx.status \in {"SENDING", "MINED"}
    BY DEF TypesOK, ChainTypesOK, RskTransactions
  <2>3. SetOf(mined) \subseteq submitted
    BY DEF TypesOK, BitcoinTypesOK, SetOf
  <2>4. ASSUME NEW n \in Nodes
        PROVE  \A i \in DOMAIN stored[n] : stored[n][i].finalized \in BOOLEAN
    <3>1. \A i \in DOMAIN stored[n] : stored[n][i] \in Rows
      BY DEF TypesOK, NodeTypesOK
    <3>2. QED
      BY <3>1 DEF Rows
  <2>5. ASSUME NEW n \in Nodes
        PROVE  /\ scanned[n] \in 0 .. final
               /\ status[n] \in LocalStatuses
               /\ phase[n] \in {"idle", "SENDING", "MINED"}
               /\ phase[n] # "idle" => current[n] # NoBatch
               /\ Cardinality(requests[n]) <= MaxInFlight
    BY DEF TypesOK, NodeTypesOK, MessageTypesOK
  <2>6. QED
    BY <2>1, <2>2, <2>3, <2>4, <2>5 DEF TypesOK, ChainTypesOK, TypeOK, LocalStatuses
<1>2. QED
  BY <1>1, NodeInvIsInvariant, PTL DEF NodeInv

\* A transaction with confirmations, or on its way, is one that an entry in
\* blocks that stay names for exactly the transfers it pays.
LEMMA SubmittedHasEntry ==
    ASSUME NodeInv, NEW tx \in submitted
    PROVE  \E i \in 1 .. final :
             /\ i \in DOMAIN chain
             /\ chain[i].status = "SENDING" /\ chain[i].tx = tx /\ chain[i].ids = tx.pays
<1>1. tx \in CommittedTransactions
  BY DEF NodeInv, Backed, IsBacked
<1>2. PICK i \in 1 .. final : chain[i].status = "SENDING" /\ chain[i].tx = tx
  BY <1>1 DEF CommittedTransactions
<1>3. i \in DOMAIN chain
  BY DEF NodeInv, TypesOK, ChainTypesOK
<1>4. QED
  BY <1>2, <1>3 DEF NodeInv, HistoryOK

\* What Bitcoin pays, RSK committed to in blocks that stay.
LEMMA PaidHasEntry ==
    ASSUME NodeInv, NEW t \in PaidTransfers
    PROVE  \E i \in 1 .. final :
             /\ i \in DOMAIN chain
             /\ Concerns(chain[i], t) /\ chain[i].status = "SENDING" /\ IsMined(chain[i].tx)
<1>1. PICK k \in DOMAIN mined : PaidBy(mined[k], t)
  BY DEF PaidTransfers
<1>2. mined[k] \in submitted
  BY DEF NodeInv, TypesOK, BitcoinTypesOK
<1>3. PICK i \in 1 .. final :
        /\ i \in DOMAIN chain
        /\ chain[i].status = "SENDING" /\ chain[i].tx = mined[k] /\ chain[i].ids = mined[k].pays
  BY <1>2, SubmittedHasEntry
<1>4. QED
  BY <1>1, <1>3 DEF Concerns, PaidBy, IsMined

\* RSK is committed to every transfer of a transaction that reaches Bitcoin.
LEMMA SubmittedIsCommitted ==
    ASSUME NodeInv, NEW tx \in submitted, NEW t \in SetOf(tx.pays)
    PROVE  StatusAt(final, t) \in {"SENDING", "MINED"}
<1>1. PICK i \in 1 .. final :
        /\ i \in DOMAIN chain
        /\ chain[i].status = "SENDING" /\ chain[i].tx = tx /\ chain[i].ids = tx.pays
  BY SubmittedHasEntry
<1>2. final \in Nat /\ Len(chain) \in Nat /\ final <= Len(chain)
      /\ DOMAIN chain = 1 .. Len(chain) /\ ChainTypesOK
  BY DEF NodeInv, TypesOK, ChainTypesOK
<1>3. Concerns(chain[i], t) /\ t \in Transfers
  BY <1>1, <1>2, EntryStatuses DEF Concerns
<1>4. PICK k \in 1 .. final :
        /\ Concerns(chain[k], t)
        /\ StatusAt(final, t) = chain[k].status
        /\ i <= k
  BY <1>2, <1>3, LastEntry
<1>5. k \in DOMAIN chain
  BY <1>2
<1>6. CASE i = k
  BY <1>1, <1>4, <1>6
<1>7. CASE i < k
  <2>1. <<chain[i].status, chain[k].status>> \in Follows
    BY <1>1, <1>3, <1>4, <1>5, <1>7 DEF NodeInv, HistoryOK
  <2>2. QED
    BY <1>1, <1>4, <2>1 DEF Follows
<1>8. QED
  BY <1>2, <1>4, <1>6, <1>7

\* A transaction that reaches Bitcoin pays transfers that RSK committed to that
\* very transaction in blocks that stay, so none that a user got back
\* (transfers.ts:1052, validateTransferBatchCommitment).
THEOREM PaymentsAreCommitted == Spec => []PaidIsCommitted
<1>1. NodeInv => PaidIsCommitted
  BY SubmittedHasEntry, SubmittedIsCommitted DEF PaidIsCommitted
<1>2. QED
  BY <1>1, NodeInvIsInvariant, PTL

\* No transfer is paid twice on Bitcoin, however many nodes take themselves for
\* the initiator, and whatever happens to messages, nodes and blocks.
THEOREM NobodyIsPaidTwice == Spec => []NoDoublePayment
<1>1. NodeInv => NoDoublePayment
  <2> SUFFICES ASSUME NodeInv, NEW i \in DOMAIN mined, NEW j \in DOMAIN mined, i # j,
                      NEW t \in SetOf(mined[i].pays), t \in SetOf(mined[j].pays)
               PROVE  FALSE
    <3>1. \A A, B : (\A t \in A : t \notin B) => A \cap B = {}
      OBVIOUS
    <3>2. QED
      BY <3>1 DEF NoDoublePayment
  <2>1. mined[i] \in submitted /\ mined[j] \in submitted
    BY DEF NodeInv, TypesOK, BitcoinTypesOK
  <2>2. PICK a \in 1 .. final :
          /\ a \in DOMAIN chain
          /\ chain[a].status = "SENDING" /\ chain[a].tx = mined[i] /\ chain[a].ids = mined[i].pays
    BY <2>1, SubmittedHasEntry
  <2>3. PICK b \in 1 .. final :
          /\ b \in DOMAIN chain
          /\ chain[b].status = "SENDING" /\ chain[b].tx = mined[j] /\ chain[b].ids = mined[j].pays
    BY <2>1, SubmittedHasEntry
  <2>4. t \in Transfers /\ Concerns(chain[a], t) /\ Concerns(chain[b], t)
    BY <2>2, <2>3, EntryStatuses DEF NodeInv, TypesOK, Concerns
  <2>5. <<"SENDING", "SENDING">> \notin Follows
    BY DEF Follows
  <2>6. ~(a < b) /\ ~(b < a)
    BY <2>2, <2>3, <2>4, <2>5 DEF NodeInv, HistoryOK
  <2>7. a = b
    <3>1. final \in Nat
      BY DEF NodeInv, TypesOK, ChainTypesOK
    <3>2. QED
      BY <2>6, <3>1
  <2>8. mined[i].coin = mined[j].coin
    BY <2>2, <2>3, <2>7
  <2>9. QED
    BY <2>8 DEF NodeInv, CoinsOK
<1>2. QED
  BY <1>1, NodeInvIsInvariant, PTL

\* A transfer that Bitcoin pays is paid by a transaction with confirmations.
LEMMA PaidTransfersArePaid ==
    \A t \in PaidTransfers : \E tx \in SetOf(mined) : PaidBy(tx, t)
BY DEF PaidTransfers, SetOf

\* The bridge records a transfer as mined only when a Bitcoin transaction with
\* confirmations pays it (transfers.ts:847, validateForSigningRskMinedUpdate).
THEOREM RecordedAsMinedIsPaid == Spec => []MinedIsPaid
<1>1. NodeInv => MinedIsPaid
  <2> SUFFICES ASSUME NodeInv, NEW t \in Transfers, OnRsk(t) = "MINED"
               PROVE  \E tx \in SetOf(mined) : PaidBy(tx, t)
    BY DEF MinedIsPaid
  <2>1. Len(chain) \in Nat /\ DOMAIN chain = 1 .. Len(chain)
    BY DEF NodeInv, TypesOK, ChainTypesOK
  <2>2. PICK i \in DOMAIN chain : Concerns(chain[i], t) /\ chain[i].status = "MINED"
    BY <2>1, LastEntry DEF OnRsk
  <2>3. t \in PaidTransfers
    BY <2>2 DEF NodeInv, Backed, IsBacked, EntriesAreBacked, Concerns
  <2>4. QED
    BY <2>3, PaidTransfersArePaid
<1>2. QED
  BY <1>1, NodeInvIsInvariant, PTL

\* A node gives up a stored batch as finalized only when all its transfers are
\* paid, even if RSK drops the block that the node took them for mined from.
THEOREM GivenUpIsPaid == Spec => []FinalizedIsPaid
<1>1. NodeInv => FinalizedIsPaid
  <2> SUFFICES ASSUME NodeInv, NEW n \in Nodes, NEW i \in DOMAIN stored[n],
                      stored[n][i].finalized, NEW t \in SetOf(Ids(stored[n][i].data))
               PROVE  \E tx \in SetOf(mined) : PaidBy(tx, t)
    BY DEF FinalizedIsPaid
  <2>1. t \in PaidTransfers
    BY DEF NodeInv, Backed, IsBacked, NodeIsBacked, RowsAreBacked
  <2>2. QED
    BY <2>1, PaidTransfersArePaid
<1>2. QED
  BY <1>1, NodeInvIsInvariant, PTL

-----------------------------------------------------------------------------
(* The network implements the abstract payouts: a step that confirms a      *)
(* payment is Pay, and every other is Settle. How a transfer goes on         *)
(* depends on the two chains alone, so it is stated of any chain c and of a  *)
(* chain d that goes on from it.                                             *)

\* The transactions that the first m entries commit anything, or transfer t, to.
SendingIn(c, m) == {c[i].tx : i \in {i \in 1 .. m : c[i].status = "SENDING"}}

CommittedIn(c, m, t) ==
    {c[i].tx : i \in {i \in 1 .. m : c[i].status = "SENDING" /\ Concerns(c[i], t)}}

\* The first m entries of chain c are also those of chain d, of whose first k
\* entries Follows and the other invariants say this about transfer t; paid are
\* the transfers that Bitcoin pays.
Extends(c, m, d, k, t, paid) ==
    /\ m <= k
    /\ \A i \in 1 .. m : d[i] = c[i]
    /\ \A i, j \in 1 .. k : i < j /\ Concerns(d[i], t) /\ Concerns(d[j], t) =>
         <<d[i].status, d[j].status>> \in Follows
    /\ \A i \in 1 .. k : Concerns(d[i], t) =>
         d[i].status \in {"NEW", "SENDING", "MINED", "RECLAIMED", "REFUNDED"}
    /\ \A i \in 1 .. k : Concerns(d[i], t) /\ d[i].status = "MINED" =>
         t \in paid /\ \E j \in 1 .. m : Concerns(c[j], t) /\ c[j].status = "SENDING"
    /\ \A i, j \in 1 .. k :
         d[i].status = "SENDING" /\ d[j].status = "SENDING" /\ d[i].tx = d[j].tx =>
         d[i].ids = d[j].ids

\* t goes from status s to s2, and what it is committed to from C to D; old are the
\* transactions that anything was committed to.
GoesTo(t, s, C, s2, D, old, paid) ==
    \/ s2 = s /\ D = C
    \/ /\ s \in {"NOT_APPLICABLE", "NEW"} /\ s2 \in {"NEW", "RECLAIMED", "REFUNDED"}
       /\ s2 # s /\ D = C
    \/ /\ s \in {"NOT_APPLICABLE", "NEW"} /\ s2 = "SENDING"
       /\ \E p : D = {p} /\ p \notin old
    \/ s = "SENDING" /\ s2 = "MINED" /\ t \in paid /\ D = C

\* How a transfer goes on when the chain does.
LEMMA TransferGoesOn ==
    ASSUME NEW c, NEW d, NEW m \in Nat, NEW k \in Nat, NEW t, NEW paid,
           Extends(c, m, d, k, t, paid),
           NEW s, s = LastStatus(c, m, t), NEW s2, s2 = LastStatus(d, k, t)
    PROVE  GoesTo(t, s, CommittedIn(c, m, t), s2, CommittedIn(d, k, t),
                  SendingIn(c, m), paid)
<1> USE DEF Extends
<1> DEFINE C == CommittedIn(c, m, t)
           D == CommittedIn(d, k, t)
<1>1. \A i \in 1 .. m : i \in 1 .. k /\ d[i] = c[i]
  OBVIOUS
<1>2. C \subseteq D
  BY <1>1 DEF CommittedIn
<1>3. ASSUME D # C
      PROVE  \E i \in 1 .. k : i \notin 1 .. m /\ d[i].status = "SENDING" /\ Concerns(d[i], t)
  BY <1>1, <1>2, <1>3 DEF CommittedIn
<1>4. CASE \A i \in m + 1 .. k : ~Concerns(d[i], t)
  <2>1. \A i \in 1 .. k : Concerns(d[i], t) => i \in 1 .. m
    BY <1>4
  <2>2. D = C
    BY <1>3, <2>1
  <2>3. s2 = s
    <3>1. CASE \A i \in 1 .. k : ~Concerns(d[i], t)
      <4>1. s2 = "NOT_APPLICABLE"
        BY <3>1, LastEntryOf
      <4>2. \A i \in 1 .. m : ~Concerns(c[i], t)
        BY <1>1, <3>1
      <4>3. s = "NOT_APPLICABLE"
        BY <4>2, LastEntryOf
      <4>4. QED
        BY <4>1, <4>3
    <3>2. CASE \E i \in 1 .. k : Concerns(d[i], t)
      <4>1. PICK i \in 1 .. k : /\ Concerns(d[i], t) /\ s2 = d[i].status
                                /\ \A j \in 1 .. k : Concerns(d[j], t) => j <= i
        BY <3>2, LastEntryOf
      <4>2. i \in 1 .. m /\ Concerns(c[i], t) /\ s2 = c[i].status
        BY <1>1, <2>1, <4>1
      <4>3. PICK j \in 1 .. m : /\ Concerns(c[j], t) /\ s = c[j].status
                                /\ \A l \in 1 .. m : Concerns(c[l], t) => l <= j
        BY <4>2, LastEntryOf
      <4>4. i <= j /\ j <= i
        BY <1>1, <4>1, <4>2, <4>3
      <4>5. i = j
        BY <4>4
      <4>6. QED
        BY <4>2, <4>3, <4>5
    <3>3. QED
      BY <3>1, <3>2
  <2>4. QED
    BY <2>2, <2>3 DEF GoesTo
<1>5. CASE \E i \in m + 1 .. k : Concerns(d[i], t)
  <2>1. PICK new \in m + 1 .. k : Concerns(d[new], t)
    BY <1>5
  <2>2. new \in 1 .. k
    OBVIOUS
  <2>3. PICK last \in 1 .. k : /\ Concerns(d[last], t) /\ s2 = d[last].status
                               /\ \A j \in 1 .. k : Concerns(d[j], t) => j <= last
    BY <2>1, <2>2, LastEntryOf
  <2>4. m < last
    BY <2>1, <2>2, <2>3
  <2>5. \A i \in 1 .. k : Concerns(d[i], t) /\ i # last => i < last /\ <<d[i].status, s2>> \in Follows
    BY <2>3
  <2>6. \A i \in 1 .. m : Concerns(c[i], t) => <<c[i].status, s2>> \in Follows
    BY <1>1, <2>4, <2>5
  <2>7. s = "NOT_APPLICABLE" \/ <<s, s2>> \in Follows
    BY <2>6, LastEntryOf
  <2>8. s2 \in {"NEW", "SENDING", "MINED", "RECLAIMED", "REFUNDED"}
    BY <2>3
  <2>9. CASE s2 \in {"NEW", "RECLAIMED", "REFUNDED"}
    <3>1. \A i \in 1 .. k : Concerns(d[i], t) => d[i].status # "SENDING"
      <4>1. <<"SENDING", s2>> \notin Follows
        BY <2>9 DEF Follows
      <4>2. QED
        BY <2>3, <2>5, <2>9, <4>1
    <3>2. D = C
      BY <1>3, <3>1
    <3>3. s \in {"NOT_APPLICABLE", "NEW"} /\ s2 # s
      BY <2>7, <2>9 DEF Follows
    <3>4. QED
      BY <2>9, <3>2, <3>3 DEF GoesTo
  <2>10. CASE s2 = "SENDING"
    <3>1. s \in {"NOT_APPLICABLE", "NEW"}
      BY <2>7, <2>10 DEF Follows
    <3>2. <<"SENDING", "SENDING">> \notin Follows
      BY DEF Follows
    <3>3. \A i \in 1 .. k : Concerns(d[i], t) /\ d[i].status = "SENDING" => i = last
      BY <2>5, <2>10, <3>2
    <3>4. D = {d[last].tx}
      BY <2>3, <2>10, <3>3 DEF CommittedIn
    <3>5. ASSUME d[last].tx \in SendingIn(c, m)
          PROVE  FALSE
      <4>1. PICK j \in 1 .. m : c[j].status = "SENDING" /\ c[j].tx = d[last].tx
        BY <3>5 DEF SendingIn
      <4>2. j \in 1 .. k /\ d[j] = c[j] /\ j # last
        BY <1>1, <2>4
      <4>3. Concerns(d[j], t)
        BY <2>3, <2>10, <4>1, <4>2 DEF Concerns
      <4>4. QED
        BY <3>3, <4>1, <4>2, <4>3
    <3>6. QED
      BY <2>10, <3>1, <3>4, <3>5 DEF GoesTo
  <2>11. CASE s2 = "MINED"
    <3>1. t \in paid
      BY <2>3, <2>11
    <3>2. PICK j \in 1 .. m : Concerns(c[j], t) /\ c[j].status = "SENDING"
      BY <2>3, <2>11
    <3>3. PICK i \in 1 .. m : /\ Concerns(c[i], t) /\ s = c[i].status
                              /\ j <= i
      BY <3>2, LastEntryOf
    <3>4. <<s, "MINED">> \in Follows
      BY <2>6, <2>11, <3>3
    <3>5. s = "SENDING"
      <4>1. CASE i = j
        BY <3>2, <3>3, <4>1
      <4>2. CASE i # j
        <5>1. j < i /\ i \in 1 .. k /\ j \in 1 .. k /\ d[i] = c[i] /\ d[j] = c[j]
          BY <1>1, <3>3, <4>2
        <5>2. <<"SENDING", s>> \in Follows
          BY <3>2, <3>3, <5>1
        <5>3. QED
          BY <3>4, <5>2 DEF Follows
      <4>3. QED
        BY <4>1, <4>2
    <3>6. ASSUME NEW i1 \in 1 .. k, Concerns(d[i1], t), d[i1].status = "SENDING"
          PROVE  i1 \in 1 .. m
      <4>1. j \in 1 .. k /\ d[j] = c[j]
        BY <1>1
      <4>2. <<"SENDING", "SENDING">> \notin Follows
        BY DEF Follows
      <4>3. ~(j < i1) /\ ~(i1 < j)
        BY <3>2, <3>6, <4>1, <4>2
      <4>4. QED
        BY <4>3
    <3>7. D = C
      BY <1>3, <3>6
    <3>8. QED
      BY <2>11, <3>1, <3>5, <3>7 DEF GoesTo
  <2>12. QED
    BY <2>8, <2>9, <2>10, <2>11
<1>6. QED
  BY <1>4, <1>5
\* No transaction on its way to Bitcoin pays nobody.
SubmittedPays == \A tx \in submitted : tx.pays # <<>>

LEMMA NextSubmittedPays == SubmittedPays /\ [Next]_vars => SubmittedPays'
<1> SUFFICES ASSUME SubmittedPays, [Next]_vars
             PROVE  SubmittedPays'
  OBVIOUS
<1>1. ASSUME NEW n, NEW rows, NEW batch, NEW due, Act(n, rows, batch, due)
      PROVE  \A tx \in submitted' : tx \in submitted \/ tx.pays # <<>>
  <2>1. CASE SendToBitcoin(n, rows, batch)
    <3>1. batch.tx.pays # <<>>
      BY <2>1 DEF SendToBitcoin, Sent, Ids
    <3>2. \A tx \in submitted' : tx \in submitted \/ tx = batch.tx
      BY <2>1 DEF SendToBitcoin
    <3>3. QED
      BY <3>1, <3>2
  <2>2. CASE submitted' = submitted
    BY <2>2
  <2>3. QED
    BY <1>1, <2>1, <2>2 DEF Act, PurgeInvalidBatch, NotDue, PurgeReclaimed, Request,
         RequestSendingSignatures, MarkAsSending, RequestBitcoinSignatures,
         RequestMinedSignatures, MarkAsMined
<1>2. ASSUME NEW n \in Nodes, NEW arrived, NEW due, Iterate(n, arrived, due)
      PROVE  \A tx \in submitted' : tx \in submitted \/ tx.pays # <<>>
  <2>1. \/ submitted' = submitted
        \/ \E rows, batch : Act(n, rows, batch, due)
    BY <1>2 DEF Iterate
  <2>2. QED
    BY <1>1, <2>1
<1>3. ASSUME NEW n \in Nodes, RunIteration(n) \/ OnMessage(n) \/ Restart(n)
      PROVE  \A tx \in submitted' : tx \in submitted \/ tx.pays # <<>>
  BY <1>2, <1>3 DEF RunIteration, ScanNewEvents, NotInitiator, FinishMarking, TimeOut,
       OnMessage, HandleRequest, HandlePurge, Restart, bitcoinVars
<1>4. ASSUME NEW turn \in Turns, ChangeInitiator(turn[1], turn[2])
      PROVE  submitted' = submitted
  BY <1>4 DEF ChangeInitiator, bitcoinVars
<1>5. CASE Rsk \/ Bitcoin
  BY <1>5 DEF Rsk, TransferToBtc, ReturnTransfer, IncludeRskTransaction, Reorganize, Bitcoin,
       MineBitcoinTransaction, bitcoinVars, SubmittedPays
<1>6. CASE UNCHANGED vars
  BY <1>6 DEF vars, SubmittedPays
<1>7. \A tx \in submitted' : tx \in submitted \/ tx.pays # <<>>
  BY <1>3, <1>4, <1>5, <1>6 DEF Next, SubmittedPays
<1>8. QED
  BY <1>7 DEF SubmittedPays

\* What the abstract payouts say of transfer t, in terms of the chain.
LEMMA MappedTransfer ==
    ASSUME NEW t
    PROVE  /\ StatusAt(final, t) = LastStatus(chain, final, t)
           /\ CommittedTo(t) = CommittedIn(chain, final, t)
           /\ StatusAt(final, t)' = LastStatus(chain', final', t)
           /\ CommittedTo(t)' = CommittedIn(chain', final', t)
           /\ CommittedTransactions = SendingIn(chain, final)
BY DEF StatusAt, LastStatus, CommittedTo, CommittedIn, CommittedTransactions, SendingIn

\* How a transfer goes on in a step of the network that confirms no payment.
LEMMA SettleTransfer ==
    ASSUME NodeInv, NodeInv', mined' = mined, final <= final',
           \A i \in 1 .. final : chain'[i] = chain[i],
           NEW t \in Transfers, NEW s, s = StatusAt(final, t), NEW s2, s2 = StatusAt(final, t)'
    PROVE  GoesTo(t, s, CommittedTo(t), s2, CommittedTo(t)', CommittedTransactions, PaidTransfers)
<1>1. /\ final \in Nat /\ final' \in Nat /\ Len(chain') \in Nat /\ final' <= Len(chain')
      /\ DOMAIN chain' = 1 .. Len(chain')
      /\ \A i \in DOMAIN chain' : chain'[i] \in Entries
      /\ \A i \in 1 .. final' : i \in DOMAIN chain'
  BY DEF NodeInv, TypesOK, ChainTypesOK
<1>2. PaidTransfers' = PaidTransfers
  BY DEF PaidTransfers
<1> DEFINE d == chain'
           k == final'
           paid == PaidTransfers
<1>3. \A i, j \in 1 .. k : i < j /\ Concerns(d[i], t) /\ Concerns(d[j], t) =>
         <<d[i].status, d[j].status>> \in Follows
  BY <1>1 DEF NodeInv, HistoryOK
<1>4. \A i \in 1 .. k : Concerns(d[i], t) =>
         d[i].status \in {"NEW", "SENDING", "MINED", "RECLAIMED", "REFUNDED"}
  <2> SUFFICES ASSUME NEW i \in 1 .. k, Concerns(d[i], t)
               PROVE  d[i].status \in {"NEW", "SENDING", "MINED", "RECLAIMED", "REFUNDED"}
    OBVIOUS
  <2>1. d[i] \in Entries /\ d[i].ids # <<>>
    BY <1>1 DEF Concerns, SetOf
  <2>2. QED
    BY <2>1 DEF Entries
<1>5. ASSUME NEW i \in 1 .. k, Concerns(d[i], t), d[i].status = "MINED"
      PROVE  t \in paid /\ \E j \in 1 .. final : Concerns(chain[j], t) /\ chain[j].status = "SENDING"
  <2>1. EntriesAreBacked(chain', PaidTransfers')
    BY DEF NodeInv, Backed, IsBacked
  <2>2. t \in paid
    BY <1>1, <1>2, <1>5, <2>1 DEF EntriesAreBacked, Concerns
  <2>3. QED
    BY <2>2, PaidHasEntry
<1>6. \A i \in 1 .. k : d[i].status = "SENDING" => d[i].ids = d[i].tx.pays
  BY <1>1 DEF NodeInv, HistoryOK
<1>7. Extends(chain, final, d, k, t, paid)
  BY <1>3, <1>4, <1>5, <1>6 DEF Extends
<1>8. GoesTo(t, s, CommittedIn(chain, final, t), s2, CommittedIn(d, k, t),
             SendingIn(chain, final), paid)
  <2> DEFINE c == chain
             m == final
  <2>1. Extends(c, m, d, k, t, paid) /\ s = LastStatus(c, m, t) /\ s2 = LastStatus(d, k, t)
    BY <1>7, MappedTransfer
  <2>2. m \in Nat /\ k \in Nat
    BY <1>1
  <2> HIDE DEF c, m, d, k, paid
  <2>3. GoesTo(t, s, CommittedIn(c, m, t), s2, CommittedIn(d, k, t), SendingIn(c, m), paid)
    BY <2>1, <2>2, TransferGoesOn
  <2>4. QED
    BY <2>3 DEF c, m
<1>9. QED
  BY <1>8, MappedTransfer

\* Transfers that Bitcoin pays are those the mapped payouts hold.
LEMMA MappedPaid == \A t \in Transfers : Payouts!Paid(t) <=> t \in PaidTransfers
BY DEF Payouts!Paid, PaidTransfers, PaidBy

\* The fates of the statuses.
LEMMA FatesDiffer ==
    /\ Fate("NOT_APPLICABLE") = "none" /\ Fate("NEW") = "open" /\ Fate("SENDING") = "committed"
    /\ Fate("MINED") = "recorded" /\ Fate("RECLAIMED") = "returned"
    /\ Fate("REFUNDED") = "returned"
BY DEF Fate

\* A step that confirms no payment is one of Settle.
LEMMA SettleStep ==
    ASSUME NodeInv, NodeInv', mined' = mined, final <= final',
           \A i \in 1 .. final : chain'[i] = chain[i]
    PROVE  Payouts!Settle
<1> DEFINE f == [t \in Transfers |-> Fate(StatusAt(final, t))]
           C == [t \in Transfers |-> CommittedTo(t)]
<1>1. ASSUME NEW t \in Transfers
      PROVE  /\ f'[t] = f[t] => C'[t] = C[t]
             /\ f'[t] # f[t] =>
                  /\ <<f[t], f'[t]>> \in Payouts!Paths
                  /\ f'[t] = "recorded" => Payouts!Paid(t)
                  /\ f'[t] # "committed" => C'[t] = C[t]
                  /\ f'[t] = "committed" =>
                       \E p \in C'[t] : C'[t] = {p} /\ \A u \in Transfers : p \notin C[u]
  <2>1. PICK s : s = StatusAt(final, t)
    OBVIOUS
  <2>2. PICK s2 : s2 = StatusAt(final, t)'
    OBVIOUS
  <2>3. f[t] = Fate(s)
    BY <2>1
  <2>4. f'[t] = Fate(s2)
    BY <2>2
  <2>5. C[t] = CommittedTo(t) /\ C'[t] = CommittedTo(t)'
    OBVIOUS
  <2>6. GoesTo(t, s, C[t], s2, C'[t], CommittedTransactions, PaidTransfers)
    BY <2>1, <2>2, <2>5, SettleTransfer
  <2> HIDE DEF f, C
  <2>7. CASE s2 = s /\ C'[t] = C[t]
    <3>1. f'[t] = f[t]
      BY <2>3, <2>4, <2>7
    <3>2. QED
      BY <2>7, <3>1
  <2>8. CASE /\ s \in {"NOT_APPLICABLE", "NEW"} /\ s2 \in {"NEW", "RECLAIMED", "REFUNDED"}
             /\ s2 # s
             /\ C'[t] = C[t]
    <3>1. /\ Fate(s2) \notin {"recorded", "committed"}
          /\ <<Fate(s), Fate(s2)>> \in Payouts!Paths
      BY <2>8, FatesDiffer DEF Payouts!Paths
    <3>2. QED
      BY <2>3, <2>4, <2>8, <3>1
  <2>9. CASE /\ s \in {"NOT_APPLICABLE", "NEW"} /\ s2 = "SENDING"
             /\ \E p : C'[t] = {p} /\ p \notin CommittedTransactions
    <3>1. /\ Fate(s2) = "committed" /\ Fate(s) # Fate(s2)
          /\ <<Fate(s), Fate(s2)>> \in Payouts!Paths
      BY <2>9, FatesDiffer DEF Payouts!Paths
    <3>2. \E p \in C'[t] : C'[t] = {p} /\ \A u \in Transfers : p \notin C[u]
      <4>1. \A u \in Transfers : C[u] \subseteq CommittedTransactions
        BY DEF C, CommittedTo, CommittedTransactions
      <4>2. QED
        BY <2>9, <4>1
    <3>3. QED
      BY <2>3, <2>4, <3>1, <3>2
  <2>10. CASE s = "SENDING" /\ s2 = "MINED" /\ t \in PaidTransfers /\ C'[t] = C[t]
    <3>1. Fate(s2) = "recorded" /\ <<Fate(s), Fate(s2)>> \in Payouts!Paths
      BY <2>10, FatesDiffer DEF Payouts!Paths
    <3>2. Payouts!Paid(t)
      BY <2>10, MappedPaid
    <3>3. QED
      BY <2>3, <2>4, <2>10, <3>1, <3>2
  <2>11. QED
    BY <2>6, <2>7, <2>8, <2>9, <2>10 DEF GoesTo
<1>2. DOMAIN f' = Transfers /\ DOMAIN C' = Transfers
  OBVIOUS
<1>3. ASSUME NEW t \in Transfers, \E p \in C'[t] : C'[t] = {p} /\ \A u \in Transfers : p \notin C[u]
      PROVE  Payouts!Commits(t)
  BY <1>3 DEF Payouts!Commits, Payouts!Group
<1>4. UNCHANGED [i \in DOMAIN mined |-> SetOf(mined[i].pays)]
  OBVIOUS
<1>5. ASSUME NEW t \in Transfers
      PROVE  (f'[t] = f[t] /\ C'[t] = C[t]) \/ Payouts!GoesOn(t)
  <2>1. CASE f'[t] = f[t]
    BY <1>1, <2>1
  <2>2. CASE f'[t] # f[t]
    <3>1. f'[t] = "committed" => Payouts!Commits(t)
      BY <1>1, <1>3, <2>2
    <3>2. Payouts!GoesOn(t)
      BY <1>1, <2>2, <3>1 DEF Payouts!GoesOn
    <3>3. QED
      BY <3>2
  <2>3. QED
    BY <2>1, <2>2
<1>6. QED
  BY <1>2, <1>4, <1>5 DEF Payouts!Settle

\* Bitcoin confirms a transaction: it pays all that was committed to it, at once,
\* and none of that is paid before or recorded as paid.
LEMMA PayStep ==
    ASSUME NodeInv, SubmittedPays, chain' = chain, final' = final,
           NEW tx \in submitted, tx.coin \in Unspent, mined' = Append(mined, tx)
    PROVE  \E t \in Transfers : \E p \in CommittedTo(t) : Payouts!Pay(p)
<1>1. /\ final \in Nat /\ Len(mined) \in Nat /\ mined \in Seq(submitted)
      /\ DOMAIN mined = 1 .. Len(mined)
      /\ tx.pays \in Seq(Transfers) /\ tx.pays # <<>>
      /\ submitted \subseteq Transactions
  BY DEF NodeInv, TypesOK, ChainTypesOK, BitcoinTypesOK, Transactions, SubmittedPays
<1>2. PICK i \in 1 .. final :
        /\ i \in DOMAIN chain
        /\ chain[i].status = "SENDING" /\ chain[i].tx = tx /\ chain[i].ids = tx.pays
  BY SubmittedHasEntry
<1>3. SetOf(tx.pays) \subseteq Transfers
  BY <1>1 DEF SetOf
<1>4. Payouts!Group(tx) = SetOf(tx.pays)
  <2>1. ASSUME NEW t \in Transfers
        PROVE  tx \in CommittedTo(t) <=> t \in SetOf(tx.pays)
    <3>1. ASSUME NEW j \in 1 .. final, chain[j].status = "SENDING", chain[j].tx = tx
          PROVE  chain[j].ids = tx.pays
      BY <3>1 DEF NodeInv, HistoryOK, TypesOK, ChainTypesOK
    <3>2. QED
      BY <1>2, <3>1 DEF CommittedTo, Concerns
  <2>2. QED
    BY <1>3, <2>1 DEF Payouts!Group
<1>5. ASSUME NEW t \in SetOf(tx.pays)
      PROVE  Fate(StatusAt(final, t)) = "committed" /\ ~Payouts!Paid(t)
  <2>1. t \in Transfers /\ Concerns(chain[i], t)
    BY <1>2, <1>3, <1>5 DEF Concerns
  <2>2. t \notin PaidTransfers
    <3> SUFFICES ASSUME t \in PaidTransfers
                 PROVE  FALSE
      OBVIOUS
    <3>1. PICK j \in 1 .. final :
            /\ j \in DOMAIN chain
            /\ Concerns(chain[j], t) /\ chain[j].status = "SENDING" /\ IsMined(chain[j].tx)
      BY PaidHasEntry
    <3>2. <<"SENDING", "SENDING">> \notin Follows
      BY DEF Follows
    <3>3. ~(i < j) /\ ~(j < i)
      BY <1>2, <2>1, <3>1, <3>2 DEF NodeInv, HistoryOK
    <3>4. i = j
      BY <1>1, <3>3
    <3>5. IsMined(tx)
      BY <1>2, <3>1, <3>4
    <3>6. QED
      BY <3>5 DEF IsMined, Unspent
  <2>3. StatusAt(final, t) \in {"SENDING", "MINED"}
    BY <1>5, SubmittedIsCommitted
  <2>4. StatusAt(final, t) # "MINED"
    <3> SUFFICES ASSUME StatusAt(final, t) = "MINED"
                 PROVE  FALSE
      OBVIOUS
    <3>1. PICK j \in 1 .. final : Concerns(chain[j], t) /\ chain[j].status = "MINED"
      BY <1>1, LastEntry
    <3>2. QED
      BY <2>2, <3>1 DEF NodeInv, Backed, IsBacked, EntriesAreBacked, Concerns, TypesOK,
                        ChainTypesOK
  <2>5. QED
    BY <2>1, <2>2, <2>3, <2>4, FatesDiffer, MappedPaid
<1>6. [j \in DOMAIN mined |-> SetOf(mined[j].pays)]' =
        Append([j \in DOMAIN mined |-> SetOf(mined[j].pays)], SetOf(tx.pays))
  <2> DEFINE paid == [j \in DOMAIN mined |-> SetOf(mined[j].pays)]
             after == [j \in DOMAIN mined' |-> SetOf(mined'[j].pays)]
  <2>1. /\ mined' \in Seq(submitted) /\ DOMAIN mined' = 1 .. Len(mined) + 1
        /\ \A j \in DOMAIN mined : mined'[j] = mined[j]
        /\ mined'[Len(mined) + 1] = tx
    BY <1>1
  <2>2. paid \in Seq(SUBSET Transfers) /\ Len(paid) = Len(mined)
    <3>1. \A j \in DOMAIN mined : SetOf(mined[j].pays) \in SUBSET Transfers
      BY <1>1 DEF Transactions, SetOf
    <3>2. QED
      BY <1>1, <3>1
  <2> DEFINE appended == Append(paid, SetOf(tx.pays))
  <2>3. /\ appended \in Seq(SUBSET Transfers) /\ DOMAIN appended = 1 .. Len(mined) + 1
        /\ \A j \in DOMAIN mined : appended[j] = paid[j]
        /\ appended[Len(mined) + 1] = SetOf(tx.pays)
    BY <1>1, <1>3, <2>2
  <2>4. \A j \in 1 .. Len(mined) + 1 : j \in DOMAIN mined \/ j = Len(mined) + 1
    BY <1>1
  <2>5. \A j \in 1 .. Len(mined) + 1 : appended[j] = SetOf(mined'[j].pays)
    BY <2>1, <2>3, <2>4
  <2> HIDE DEF appended
  <2>6. appended = [j \in 1 .. Len(mined) + 1 |-> appended[j]]
    BY <2>3
  <2>7. after = appended
    BY <2>1, <2>5, <2>6
  <2>8. QED
    BY <2>7 DEF appended
<1>7. PICK t : t \in SetOf(tx.pays)
  <2>1. 1 \in DOMAIN tx.pays
    BY <1>1
  <2>2. QED
    BY <2>1 DEF SetOf
<1>8. t \in Transfers /\ tx \in CommittedTo(t)
  BY <1>2, <1>3, <1>7 DEF CommittedTo, Concerns
<1>9. Payouts!Group(tx) # {}
  BY <1>4, <1>7
<1>10. /\ UNCHANGED [u \in Transfers |-> Fate(StatusAt(final, u))]
       /\ UNCHANGED [u \in Transfers |-> CommittedTo(u)]
  BY DEF StatusAt, CommittedTo
<1>11. Payouts!Pay(tx)
  BY <1>3, <1>4, <1>5, <1>6, <1>9, <1>10 DEF Payouts!Pay
<1>12. QED
  BY <1>8, <1>11

\* The network implements the abstract payouts: however many nodes take themselves
\* for the initiator, and whatever happens to messages, nodes and blocks, a transfer
\* in blocks that stay is returned or committed to one Bitcoin transaction and never
\* both, that transaction pays what was committed to it, at once and only once, and
\* only what it paid is recorded as mined (transfers.ts:847, transfers.ts:1052).
THEOREM NodesImplementPayouts == Spec => ImplementsPayouts
<1>1. Init => Payouts!Init /\ SubmittedPays
  <2> SUFFICES ASSUME Init PROVE Payouts!Init /\ SubmittedPays
    OBVIOUS
  <2>1. \A t \in Transfers : StatusAt(final, t) = "NOT_APPLICABLE" /\ CommittedTo(t) = {}
    BY DEF Init, StatusAt, CommittedTo
  <2>2. [i \in DOMAIN mined |-> SetOf(mined[i].pays)] = <<>>
    BY DEF Init
  <2>3. SubmittedPays
    BY DEF Init, SubmittedPays
  <2>4. QED
    BY <2>1, <2>2, <2>3, FatesDiffer DEF Payouts!Init
<1>2. NodeInv /\ NodeInv' /\ SubmittedPays /\ [Next]_vars => [Payouts!Next]_(Payouts!payoutVars)
  <2> SUFFICES ASSUME NodeInv, NodeInv', SubmittedPays, [Next]_vars
               PROVE  Payouts!Next \/ UNCHANGED Payouts!payoutVars
    OBVIOUS
  <2>1. CASE Next
    <3>1. /\ final <= final' /\ \A i \in 1 .. final : chain'[i] = chain[i]
          /\ \/ mined' = mined
             \/ /\ chain' = chain /\ final' = final
                /\ \E tx \in submitted : tx.coin \in Unspent /\ mined' = Append(mined, tx)
      BY <2>1, ChainsGoOn
    <3>2. CASE mined' = mined
      <4>1. Payouts!Settle
        BY <3>1, <3>2, SettleStep
      <4>2. QED
        BY <4>1 DEF Payouts!Next
    <3>3. CASE /\ chain' = chain /\ final' = final
               /\ \E tx \in submitted : tx.coin \in Unspent /\ mined' = Append(mined, tx)
      <4>1. \E t \in Transfers : \E p \in CommittedTo(t) : Payouts!Pay(p)
        BY <3>3, PayStep
      <4>2. QED
        BY <4>1 DEF Payouts!Next
    <3>4. QED
      BY <3>1, <3>2, <3>3
  <2>2. CASE UNCHANGED vars
    BY <2>2 DEF vars, Payouts!payoutVars, StatusAt, CommittedTo
  <2>3. QED
    BY <2>1, <2>2
<1>3. QED
  BY <1>1, <1>2, NextSubmittedPays, InitNodeInv, NextNodeInv, PTL
  DEF Spec, ImplementsPayouts, Payouts!Spec
=============================================================================
