-------------------------- MODULE ReplenisherProofs --------------------------
(***************************************************************************)
(* What holds of the replenisher for any number of nodes, coins, periods   *)
(* and faults: its limit is kept, and replenishments do not pile up.       *)
(***************************************************************************)
EXTENDS Replenisher, FiniteSetTheorems, WellFoundedInduction, TLAPS

-----------------------------------------------------------------------------
(* The inductive invariant *)

Iterations ==
    {Idle} \cup [step : {"checked"}, period : Periods, times : Nat]
           \cup [step : {"waiting"}, period : Periods, psbt : SUBSET Coins]

\* The types the proofs need. A PSBT spends some coin, and one that is in the mempool
\* was not mined.
Types ==
    /\ initiators \in SUBSET Nodes
    /\ unsignedReplenishPsbt \in [Nodes -> ((SUBSET Coins) \ {{}}) \cup {NoPsbt}]
    /\ timesReplenishedPerPeriod \in [Nodes -> [Periods -> Nat]]
    /\ iteration \in [Nodes -> Iterations]
    /\ \A msg \in messages : msg.type = "request" => msg.times \in Nat
    /\ IsFiniteSet(mempool)
    /\ mempool \cap mined = {}
    /\ period \in Periods
    /\ sent \in [Periods -> Nat]
    /\ handovers \in Nat
    /\ mishaps \in Nat

AwaitsIn(n, p) == iteration[n].step = "waiting" /\ iteration[n].period = p

\* Node n is the only one that ever was the initiator, and has counted what it sent,
\* but for the replenishment it waits for.
Counts(n) ==
    /\ initiators = {n}
    /\ \A m \in Nodes \ {n} : iteration[m] = Idle
    /\ \A msg \in messages : msg.type = "request" => msg.to # n
    /\ \A p \in Periods :
         /\ timesReplenishedPerPeriod[n][p] <= MaxReplenishmentsDuringPeriod
         /\ AwaitsIn(n, p) => sent[p] <= timesReplenishedPerPeriod[n][p] + 1
         /\ ~AwaitsIn(n, p) => sent[p] <= timesReplenishedPerPeriod[n][p]
    /\ iteration[n] # Idle =>
         timesReplenishedPerPeriod[n][iteration[n].period] < MaxReplenishmentsDuringPeriod

InitiatorCounts == handovers = 0 => \E n \in Nodes : Counts(n)

\* The nodes that replenish, and the replenishments they wait for.
Active == initiators \cup {n \in Nodes : iteration[n] # Idle}
WaitingNodes == {n \in Nodes : iteration[n].step = "waiting"}
Awaited == {iteration[n].psbt : n \in WaitingNodes}

\* Each that goes wrong makes one more node active, or leaves one replenishment that
\* nobody waits for.
FewUnawaited ==
    Cardinality(Active) + Cardinality(mempool \ Awaited) <= 1 + handovers + mishaps

Inv == Types /\ InitiatorCounts /\ FewUnawaited

-----------------------------------------------------------------------------
(* Facts about the wallet and about sets *)

LEMMA SmallestNumber ==
    ASSUME NEW S \in SUBSET Nat, S # {}
    PROVE  \E k \in S : \A other \in S : k <= other
<1>1. PICK k \in S : \A other \in S : ~(<<other, k>> \in OpToRel(<, Nat))
  BY NatLessThanWellFounded, WFMin
<1>2. S \subseteq Nat
  OBVIOUS
<1>3. \A other \in S : ~(other < k)
  BY <1>1, <1>2 DEF OpToRel
<1>4. QED
  BY <1>2, <1>3

\* The oldest coins are some of the unspent ones, at least one if there is one.
LEMMA OldestCoinsAreCoins ==
    ASSUME NEW k \in Nat \ {0}, Unspent # {}
    PROVE  OldestCoins(k) \in (SUBSET Coins) \ {{}}
<1>1. Unspent \in SUBSET Coins /\ Unspent \in SUBSET Nat
  BY ReplenisherAssumption DEF Unspent, Coins
<1>2. PICK c \in Unspent : \A d \in Unspent : c <= d
  BY <1>1, SmallestNumber
<1>3. {d \in Unspent : d <= c} = {c}
  <2>1. \A d \in Unspent : d \in Nat
    BY <1>1
  <2>2. \A d \in Unspent : d <= c <=> d = c
    BY <1>2, <2>1
  <2>3. QED
    BY <2>2
<1>4. Cardinality({d \in Unspent : d <= c}) = 1
  BY <1>3, FS_Singleton
<1>5. c \in OldestCoins(k)
  BY <1>4 DEF OldestCoins
<1>6. OldestCoins(k) \subseteq Unspent
  BY DEF OldestCoins
<1>7. QED
  BY <1>1, <1>5, <1>6

\* A new PSBT spends some coins.
LEMMA ReplenishPsbtSpendsCoins ==
    ASSUME CanReplenish
    PROVE  ReplenishPsbt \in (SUBSET Coins) \ {{}}
<1>1. Unspent # {} /\ IsFiniteSet(Unspent)
  <2>1. IsFiniteSet(Coins)
    BY ReplenisherAssumption, FS_Interval DEF Coins
  <2>2. Unspent \subseteq Coins
    BY DEF Unspent
  <2>3. QED
    BY <2>1, <2>2, FS_Subset DEF CanReplenish
<1> DEFINE shortage == IF balance < ReplenishThreshold THEN ReplenishThreshold - balance ELSE 0
           amount == IF shortage > ReplenishMinAmount THEN shortage ELSE ReplenishMinAmount
           IsEnough(k) == Total(OldestCoins(k)) >= amount + Fee(OldestCoins(k))
           all == Cardinality(Unspent)
           stops == {k \in 1 .. all : IsEnough(k) \/ k = MaxReplenishTxInputs \/ k = all}
<1>2. all \in Nat \ {0}
  BY <1>1, FS_CardinalityType, FS_EmptySet
<1>3. all \in stops
  BY <1>2
<1> HIDE DEF IsEnough
<1>4. stops \in SUBSET (Nat \ {0}) /\ stops # {}
  BY <1>2, <1>3
<1>5. PICK k \in stops : \A other \in stops : k <= other
  <2>1. stops \in SUBSET Nat
    BY <1>4
  <2>2. QED
    BY <1>4, <2>1, SmallestNumber
<1>6. Min(stops) \in stops
  BY <1>5 DEF Min
<1>7. ReplenishPsbt = OldestCoins(Min(stops))
  BY DEF ReplenishPsbt, IsEnough
<1>8. QED
  BY <1>1, <1>4, <1>6, <1>7, OldestCoinsAreCoins

LEMMA NoMore ==
    ASSUME NEW S, NEW T, IsFiniteSet(S), T \subseteq S
    PROVE  /\ IsFiniteSet(T)
           /\ Cardinality(S) \in Nat
           /\ Cardinality(T) \in Nat
           /\ Cardinality(T) <= Cardinality(S)
<1>1. IsFiniteSet(T) /\ Cardinality(T) <= Cardinality(S)
  BY FS_Subset
<1>2. QED
  BY <1>1, FS_CardinalityType

LEMMA OneMore ==
    ASSUME NEW S, NEW T, NEW x, IsFiniteSet(S), T \subseteq S \cup {x}
    PROVE  /\ IsFiniteSet(T)
           /\ Cardinality(S) \in Nat
           /\ Cardinality(T) \in Nat
           /\ Cardinality(T) <= Cardinality(S) + 1
<1>1. /\ IsFiniteSet(S \cup {x})
      /\ Cardinality(S) \in Nat
      /\ Cardinality(S \cup {x}) <= Cardinality(S) + 1
  <2>1. Cardinality(S) \in Nat
    BY FS_CardinalityType
  <2>2. QED
    BY <2>1, FS_AddElement
<1>2. /\ IsFiniteSet(T)
      /\ Cardinality(T) \in Nat
      /\ Cardinality(S \cup {x}) \in Nat
      /\ Cardinality(T) <= Cardinality(S \cup {x})
  BY <1>1, NoMore
<1>3. QED
  BY <1>1, <1>2

-----------------------------------------------------------------------------
(* Types *)

LEMMA IterationFields ==
    ASSUME Types, NEW n \in Nodes
    PROVE  /\ Idle.step = "idle"
           /\ iteration[n].step = "idle" <=> iteration[n] = Idle
           /\ iteration[n].step = "checked" =>
                iteration[n].period \in Periods /\ iteration[n].times \in Nat
           /\ iteration[n].step = "waiting" =>
                iteration[n].period \in Periods /\ iteration[n].psbt \in SUBSET Coins
  BY DEF Types, Iterations, Idle

LEMMA BeginIterationPreservesTypes ==
    ASSUME Types, NEW n \in Nodes, BeginIteration(n)
    PROVE  Types'
<1>1. Checked(period, timesReplenishedPerPeriod[n][period]) \in Iterations
  BY DEF Types, Checked, Iterations
<1>2. iteration' \in [Nodes -> Iterations]
  BY <1>1 DEF Types, BeginIteration
<1>3. QED
  BY <1>2 DEF Types, BeginIteration, bitcoinVars, faultVars

LEMMA RequestsAreTyped ==
    ASSUME NEW n, NEW psbt, NEW p, NEW times \in Nat
    PROVE  \A msg \in Requests(n, psbt, p, times) : msg.times \in Nat /\ msg.to # n
  BY DEF Requests

LEMMA CreatePsbtPreservesTypes ==
    ASSUME Types, NEW n \in Nodes, CreatePsbt(n)
    PROVE  Types'
<1>1. iteration' \in [Nodes -> Iterations]
  BY DEF Types, CreatePsbt, Iterations
<1>2. iteration[n].times \in Nat
  BY IterationFields DEF CreatePsbt
<1>3. unsignedReplenishPsbt' \in [Nodes -> ((SUBSET Coins) \ {{}}) \cup {NoPsbt}]
  BY ReplenishPsbtSpendsCoins DEF Types, CreatePsbt
<1>4. \A msg \in messages' : msg.type = "request" => msg.times \in Nat
  BY <1>2, RequestsAreTyped DEF Types, CreatePsbt
<1>5. QED
  BY <1>1, <1>3, <1>4 DEF Types, CreatePsbt, bitcoinVars, faultVars

LEMMA RequestAgainPreservesTypes ==
    ASSUME Types, NEW n \in Nodes, RequestAgain(n)
    PROVE  Types'
<1>1. iteration' \in [Nodes -> Iterations]
  BY DEF Types, RequestAgain, Iterations
<1>2. iteration[n].times \in Nat
  BY IterationFields DEF RequestAgain
<1>3. \A msg \in messages' : msg.type = "request" => msg.times \in Nat
  BY <1>2, RequestsAreTyped DEF Types, RequestAgain
<1>4. QED
  BY <1>1, <1>3 DEF Types, RequestAgain, bitcoinVars, faultVars

\* What is submitted was not mined: Bitcoin would have refused it.
LEMMA SubmitPreservesTypes ==
    ASSUME Types, NEW n \in Nodes, Submit(n)
    PROVE  Types'
<1> DEFINE psbt == unsignedReplenishPsbt[n]
<1>1. psbt \in (SUBSET Coins) \ {{}}
  BY DEF Types, Submit
<1>2. iteration[n].period \in Periods
  BY IterationFields DEF Submit
<1>3. Idle \in Iterations /\ Waiting(iteration[n].period, psbt) \in Iterations
  BY <1>1, <1>2 DEF Waiting, Iterations
<1>4. iteration' \in [Nodes -> Iterations]
  BY <1>3 DEF Types, Submit
<1>5. unsignedReplenishPsbt' \in [Nodes -> ((SUBSET Coins) \ {{}}) \cup {NoPsbt}]
  BY DEF Types, Submit
<1>6. sent' \in [Periods -> Nat]
  BY <1>2 DEF Types, Submit
<1>7. IsFiniteSet(mempool') /\ mempool' \cap mined' = {}
  <2>1. CASE UNCHANGED mempool
    BY <2>1 DEF Types, Submit
  <2>2. CASE ~InputsMissingOrSpent(psbt) /\ ~IsRefused(psbt) /\ mempool' = mempool \cup {psbt}
    <3>1. psbt \notin mined
      <4>1. psbt \cap (UNION mined) = {}
        BY <2>2 DEF InputsMissingOrSpent, IsRefused
      <4>2. QED
        BY <1>1, <4>1
    <3>2. IsFiniteSet(mempool')
      BY <2>2, FS_AddElement DEF Types
    <3>3. UNCHANGED mined
      BY DEF Submit
    <3>4. QED
      BY <2>2, <3>1, <3>2, <3>3 DEF Types
  <2>3. QED
    BY <2>1, <2>2 DEF Submit
<1>8. QED
  BY <1>4, <1>5, <1>6, <1>7 DEF Types, Submit, faultVars

\* A wait ends, one way or the other, or a node starts over.
LEMMA EndOfWaitPreservesTypes ==
    ASSUME Types, NEW n \in Nodes,
           Confirmed(n) \/ WaitTimesOut(n) \/ WaitFails(n) \/ Restart(n)
    PROVE  Types'
<1>1. iteration' = [iteration EXCEPT ![n] = Idle]
  BY DEF Confirmed, WaitTimesOut, WaitFails, Restart, Count, Forget
<1>2. iteration' \in [Nodes -> Iterations]
  BY <1>1 DEF Types, Iterations
<1>3. unsignedReplenishPsbt' \in [Nodes -> ((SUBSET Coins) \ {{}}) \cup {NoPsbt}]
  BY DEF Types, Confirmed, WaitTimesOut, WaitFails, Restart, Count, Forget
<1>4. timesReplenishedPerPeriod' \in [Nodes -> [Periods -> Nat]]
  <2>1. CASE Count(n) /\ iteration[n].step = "waiting"
    <3>1. iteration[n].period \in Periods
      BY <2>1, IterationFields
    <3>2. QED
      BY <2>1, <3>1 DEF Types, Count
  <2>2. CASE Forget(n)
    BY <2>2 DEF Types, Forget
  <2>3. QED
    BY <2>1, <2>2 DEF Types, Confirmed, WaitTimesOut, WaitFails, Restart
<1>5. handovers' \in Nat /\ mishaps' \in Nat
  BY DEF Types, Confirmed, WaitTimesOut, WaitFails, Restart, Handover, Mishap, faultVars
<1>6. UNCHANGED <<initiators, messages, bitcoinVars, period, sent>>
  BY DEF Confirmed, WaitTimesOut, WaitFails, Restart, Count
<1>7. QED
  BY <1>2, <1>3, <1>4, <1>5, <1>6 DEF Types, bitcoinVars

LEMMA OnMessagePreservesTypes ==
    ASSUME Types, NEW msg \in messages, OnMessage(msg)
    PROVE  Types'
<1>1. \A other \in messages' : other.type = "request" => other.times \in Nat
  BY DEF Types, OnMessage, OnRequest, OnResponse
<1>2. timesReplenishedPerPeriod' \in [Nodes -> [Periods -> Nat]]
  <2>1. CASE msg.type = "request"
    <3>1. [timesReplenishedPerPeriod[msg.to] EXCEPT ![msg.period] = msg.times]
            \in [Periods -> Nat]
          \/ msg.to \notin Nodes
      BY <2>1 DEF Types
    <3>2. QED
      BY <2>1, <3>1 DEF Types, OnMessage, OnRequest, OnResponse
  <2>2. CASE msg.type = "response"
    BY <2>2 DEF Types, OnMessage, OnRequest, OnResponse
  <2>3. QED
    BY <2>1, <2>2 DEF OnMessage, OnRequest, OnResponse
<1>3. QED
  BY <1>1, <1>2 DEF Types, OnMessage, bitcoinVars, faultVars

\* The steps of the surroundings.
LEMMA OtherStepsPreserveTypes ==
    ASSUME Types,
           \/ \E msg \in messages : MessageGetsLost(msg)
           \/ \E tx \in mempool : Mine(tx)
           \/ \E amount \in Amounts, spent \in SUBSET outputs : PegOut(amount, spent)
           \/ NextPeriod
           \/ \E n \in Nodes : ChangeInitiators(n)
           \/ \E c \in Coins : CoinIsTaken(c)
           \/ UNCHANGED vars
    PROVE  Types'
<1>1. CASE \E msg \in messages : MessageGetsLost(msg)
  BY <1>1 DEF Types, MessageGetsLost, Mishap, nodeVars, bitcoinVars
<1>2. CASE \E tx \in mempool : Mine(tx)
  BY <1>2, FS_RemoveElement DEF Types, Mine, nodeVars, faultVars
<1>3. CASE \E amount \in Amounts, spent \in SUBSET outputs : PegOut(amount, spent)
  BY <1>3 DEF Types, PegOut, nodeVars, faultVars
<1>4. CASE NextPeriod
  BY <1>4, ReplenisherAssumption DEF Types, Periods, NextPeriod, nodeVars, bitcoinVars, faultVars
<1>5. CASE \E n \in Nodes : ChangeInitiators(n)
  BY <1>5 DEF Types, ChangeInitiators, Handover, nodeVars, bitcoinVars
<1>6. CASE \E c \in Coins : CoinIsTaken(c)
  BY <1>6 DEF Types, CoinIsTaken, Mishap, nodeVars
<1>7. CASE UNCHANGED vars
  BY <1>7 DEF Types, vars, nodeVars, bitcoinVars, faultVars
<1>8. QED
  BY <1>1, <1>2, <1>3, <1>4, <1>5, <1>6, <1>7

LEMMA NextPreservesTypes ==
    ASSUME Types, [Next]_vars
    PROVE  Types'
<1>1. CASE \E n \in Nodes : Iterate(n) \/ WaitTimesOut(n) \/ WaitFails(n) \/ Restart(n)
  BY <1>1, BeginIterationPreservesTypes, CreatePsbtPreservesTypes, RequestAgainPreservesTypes,
     SubmitPreservesTypes, EndOfWaitPreservesTypes DEF Iterate
<1>2. CASE \E msg \in messages : OnMessage(msg)
  BY <1>2, OnMessagePreservesTypes
<1>3. QED
  BY <1>1, <1>2, OtherStepsPreserveTypes DEF Next

-----------------------------------------------------------------------------
(* The limit of a period *)

\* Only the initiator iterates.
LEMMA OnlyTheInitiatorIterates ==
    ASSUME Types, NEW n \in Nodes, Counts(n), NEW m \in Nodes, iteration[m].step # "idle"
    PROVE  m = n
  BY IterationFields DEF Counts

LEMMA BeginIterationCounts ==
    ASSUME Types, NEW n \in Nodes, Counts(n), BeginIteration(n)
    PROVE  Counts(n)'
<1>1. iteration[n] = Idle /\ iteration'[n] = Checked(period, timesReplenishedPerPeriod[n][period])
  BY DEF Types, BeginIteration
<1>2. \A m \in Nodes \ {n} : iteration'[m] = iteration[m]
  BY DEF Types, BeginIteration
<1>3. /\ Idle.step # "waiting"
      /\ iteration'[n].step # "waiting"
      /\ iteration'[n].period = period
  BY <1>1 DEF Idle, Checked
<1>4. timesReplenishedPerPeriod[n][period] < MaxReplenishmentsDuringPeriod
  BY DEF BeginIteration
<1>5. UNCHANGED <<initiators, messages, timesReplenishedPerPeriod, sent>>
  BY DEF BeginIteration
<1>6. QED
  BY <1>1, <1>2, <1>3, <1>4, <1>5 DEF Counts, AwaitsIn

\* It made a PSBT, or asked again.
LEMMA RequestingCounts ==
    ASSUME Types, NEW n \in Nodes, Counts(n), CreatePsbt(n) \/ RequestAgain(n)
    PROVE  Counts(n)'
<1>1. /\ iteration[n].step = "checked"
      /\ iteration'[n] = Idle
      /\ \A m \in Nodes \ {n} : iteration'[m] = iteration[m]
  BY DEF Types, CreatePsbt, RequestAgain
<1>2. iteration'[n].step # "waiting"
  BY <1>1 DEF Idle
<1>3. \A msg \in messages' : msg \in messages \/ msg.to # n
  BY DEF CreatePsbt, RequestAgain, Requests
<1>4. UNCHANGED <<initiators, timesReplenishedPerPeriod, sent>>
  BY DEF CreatePsbt, RequestAgain
<1>5. QED
  BY <1>1, <1>2, <1>3, <1>4 DEF Counts, AwaitsIn

LEMMA SubmitCounts ==
    ASSUME Types, NEW n \in Nodes, Counts(n), Submit(n)
    PROVE  Counts(n)'
<1> DEFINE q == iteration[n].period
<1>1. /\ iteration[n].step = "checked"
      /\ q \in Periods
      /\ \A m \in Nodes \ {n} : iteration'[m] = iteration[m]
  BY IterationFields DEF Types, Submit
<1>2. UNCHANGED <<initiators, messages, timesReplenishedPerPeriod>>
  BY DEF Submit
<1>3. timesReplenishedPerPeriod[n][q] < MaxReplenishmentsDuringPeriod
  BY <1>1 DEF Counts, Idle
<1>4. CASE iteration' = [iteration EXCEPT ![n] = Idle] /\ UNCHANGED sent
  <2>1. iteration'[n] = Idle /\ iteration'[n].step # "waiting"
    BY <1>4 DEF Types, Idle
  <2>2. QED
    BY <1>1, <1>2, <1>4, <2>1 DEF Counts, AwaitsIn
<1>5. CASE /\ iteration' = [iteration EXCEPT ![n] = Waiting(q, unsignedReplenishPsbt[n])]
           /\ sent' = [sent EXCEPT ![q] = @ + IF unsignedReplenishPsbt[n] \in mempool THEN 0 ELSE 1]
  <2>1. iteration'[n] = Waiting(q, unsignedReplenishPsbt[n])
    BY <1>5 DEF Types
  <2>2. iteration'[n].step = "waiting" /\ iteration'[n].period = q
    BY <2>1 DEF Waiting
  <2>3. \A p \in Periods : p # q => sent'[p] = sent[p]
    BY <1>5 DEF Types
  <2>4. sent'[q] <= sent[q] + 1
    BY <1>1, <1>5 DEF Types
  <2>5. \A p \in Periods : sent[p] <= timesReplenishedPerPeriod[n][p]
    BY <1>1 DEF Counts, AwaitsIn
  <2>6. \A p \in Periods : /\ sent[p] \in Nat
                           /\ sent'[p] \in Nat
                           /\ timesReplenishedPerPeriod[n][p] \in Nat
    BY SubmitPreservesTypes DEF Types
  <2>7. sent'[q] <= timesReplenishedPerPeriod[n][q] + 1
    BY <1>1, <2>4, <2>5, <2>6
  <2>8. QED
    BY <1>1, <1>2, <1>3, <2>2, <2>3, <2>5, <2>7 DEF Counts, AwaitsIn
<1>6. QED
  BY <1>4, <1>5 DEF Submit

\* The wait ends, and is counted.
LEMMA CountCounts ==
    ASSUME Types, NEW n \in Nodes, Counts(n), iteration[n].step = "waiting", Count(n)
    PROVE  Counts(n)'
<1> DEFINE q == iteration[n].period
           times == timesReplenishedPerPeriod[n]
<1>1. q \in Periods
  BY IterationFields
<1>2. /\ iteration'[n] = Idle
      /\ \A m \in Nodes \ {n} : iteration'[m] = iteration[m]
  BY DEF Types, Count
<1>3. timesReplenishedPerPeriod'[n] = [times EXCEPT ![q] = @ + 1]
  BY DEF Types, Count
<1>4. /\ timesReplenishedPerPeriod'[n][q] = times[q] + 1
      /\ \A p \in Periods : p # q => timesReplenishedPerPeriod'[n][p] = times[p]
  BY <1>1, <1>3 DEF Types
<1>5. times[q] < MaxReplenishmentsDuringPeriod
  BY DEF Counts, Idle
<1>6. times[q] \in Nat
  BY <1>1 DEF Types
<1>7. iteration'[n].step # "waiting"
  BY <1>2 DEF Idle
<1>8. UNCHANGED <<initiators, messages, sent>>
  BY DEF Count
<1>9. \A p \in Periods : /\ timesReplenishedPerPeriod'[n][p] <= MaxReplenishmentsDuringPeriod
                         /\ sent'[p] <= timesReplenishedPerPeriod'[n][p]
  BY <1>1, <1>4, <1>5, <1>6, <1>8, ReplenisherAssumption DEF Counts, AwaitsIn
<1>10. QED
  BY <1>2, <1>7, <1>8, <1>9 DEF Counts, AwaitsIn

\* Other nodes' counts come by messages, to others.
LEMMA OnMessageCounts ==
    ASSUME Types, NEW n \in Nodes, Counts(n), NEW msg \in messages, OnMessage(msg)
    PROVE  Counts(n)'
<1>1. timesReplenishedPerPeriod'[n] = timesReplenishedPerPeriod[n]
  <2>1. CASE msg.type = "request"
    <3>1. msg.to # n
      BY <2>1 DEF Counts
    <3>2. QED
      BY <2>1, <3>1 DEF Types, OnMessage, OnRequest, OnResponse
  <2>2. CASE msg.type = "response"
    BY <2>2 DEF OnMessage, OnRequest, OnResponse
  <2>3. QED
    BY <2>1, <2>2 DEF OnMessage, OnRequest, OnResponse
<1>2. \A other \in messages' : other \in messages \/ other.type # "request"
  BY DEF OnMessage, OnRequest, OnResponse
<1>3. UNCHANGED <<initiators, iteration, sent>>
  BY DEF OnMessage
<1>4. QED
  BY <1>1, <1>2, <1>3 DEF Counts, AwaitsIn

LEMMA NextCounts ==
    ASSUME Types, NEW n \in Nodes, Counts(n), [Next]_vars, handovers' = handovers
    PROVE  Counts(n)'
<1>1. ASSUME NEW m \in Nodes, Iterate(m) \/ WaitTimesOut(m)
      PROVE  Counts(n)'
  <2>1. m = n
    BY <1>1, OnlyTheInitiatorIterates
       DEF Iterate, BeginIteration, CreatePsbt, RequestAgain, Submit, Confirmed, WaitTimesOut, Counts
  <2>2. QED
    BY <1>1, <2>1, BeginIterationCounts, RequestingCounts, SubmitCounts, CountCounts
       DEF Iterate, Confirmed, WaitTimesOut
<1>2. ASSUME NEW m \in Nodes, WaitFails(m) \/ Restart(m) \/ ChangeInitiators(m)
      PROVE  FALSE
  BY <1>2 DEF Types, WaitFails, Restart, ChangeInitiators, Handover
<1>3. CASE \E msg \in messages : OnMessage(msg)
  BY <1>3, OnMessageCounts
<1>4. CASE \/ \E msg \in messages : MessageGetsLost(msg)
           \/ \E tx \in mempool : Mine(tx)
           \/ \E amount \in Amounts, spent \in SUBSET outputs : PegOut(amount, spent)
           \/ NextPeriod
           \/ \E c \in Coins : CoinIsTaken(c)
           \/ UNCHANGED vars
  <2>1. /\ UNCHANGED <<initiators, iteration, timesReplenishedPerPeriod, sent>>
        /\ messages' \subseteq messages
    BY <1>4 DEF MessageGetsLost, Mine, PegOut, NextPeriod, CoinIsTaken, vars, nodeVars
  <2>2. QED
    BY <2>1 DEF Counts, AwaitsIn
<1>5. QED
  BY <1>1, <1>2, <1>3, <1>4 DEF Next

-----------------------------------------------------------------------------
(* Few replenishments at once *)

LEMMA SetsAreFinite ==
    ASSUME Types
    PROVE  /\ IsFiniteSet(Active) /\ IsFiniteSet(mempool \ Awaited)
           /\ Cardinality(Active) \in Nat /\ Cardinality(mempool \ Awaited) \in Nat
           /\ handovers \in Nat /\ mishaps \in Nat
<1>1. Active \subseteq Nodes
  BY DEF Types, Active
<1>2. mempool \ Awaited \subseteq mempool
  OBVIOUS
<1>3. QED
  BY <1>1, <1>2, NoMore, ReplenisherAssumption DEF Types

\* Nothing more happened than what went wrong.
LEMMA StillFew ==
    ASSUME Types, FewUnawaited,
           Active' \subseteq Active,
           mempool' \ Awaited' \subseteq mempool \ Awaited,
           UNCHANGED faultVars
    PROVE  FewUnawaited'
<1>1. /\ Cardinality(Active') \in Nat /\ Cardinality(Active') <= Cardinality(Active)
      /\ Cardinality(mempool' \ Awaited') \in Nat
      /\ Cardinality(mempool' \ Awaited') <= Cardinality(mempool \ Awaited)
  BY SetsAreFinite, NoMore
<1>2. QED
  BY <1>1, SetsAreFinite DEF FewUnawaited, faultVars

LEMMA FewWhenOneIsGivenUp ==
    ASSUME Types, FewUnawaited, NEW tx,
           Active' \subseteq Active,
           mempool' \ Awaited' \subseteq (mempool \ Awaited) \cup {tx},
           Handover \/ Mishap
    PROVE  FewUnawaited'
<1>1. /\ Cardinality(Active') \in Nat /\ Cardinality(Active') <= Cardinality(Active)
      /\ Cardinality(mempool' \ Awaited') \in Nat
      /\ Cardinality(mempool' \ Awaited') <= Cardinality(mempool \ Awaited) + 1
  BY SetsAreFinite, NoMore, OneMore
<1>2. handovers' + mishaps' = handovers + mishaps + 1
  BY SetsAreFinite DEF Handover, Mishap
<1>3. handovers' \in Nat /\ mishaps' \in Nat
  BY SetsAreFinite DEF Handover, Mishap
<1>4. QED
  BY <1>1, <1>2, <1>3, SetsAreFinite DEF FewUnawaited

LEMMA FewWhenOneMoreIsActive ==
    ASSUME Types, FewUnawaited, NEW n,
           Active' \subseteq Active \cup {n},
           mempool' \ Awaited' \subseteq mempool \ Awaited,
           Handover
    PROVE  FewUnawaited'
<1>1. /\ Cardinality(Active') \in Nat /\ Cardinality(Active') <= Cardinality(Active) + 1
      /\ Cardinality(mempool' \ Awaited') \in Nat
      /\ Cardinality(mempool' \ Awaited') <= Cardinality(mempool \ Awaited)
  BY SetsAreFinite, NoMore, OneMore
<1>2. QED
  BY <1>1, SetsAreFinite DEF FewUnawaited, Handover

\* A node that is active goes on, and waits for what it waited for.
LEMMA AwaitedIfWaitingStay ==
    ASSUME Types, NEW n \in Nodes, n \in Active, initiators' = initiators,
           iteration[n].step # "waiting",
           iteration' \in [Nodes -> Iterations],
           \A m \in Nodes \ {n} : iteration'[m] = iteration[m]
    PROVE  Active' \subseteq Active /\ Awaited \subseteq Awaited'
<1>1. Active' \subseteq Active
  BY DEF Active
<1>2. WaitingNodes \subseteq WaitingNodes'
  BY DEF WaitingNodes
<1>3. \A m \in WaitingNodes : iteration'[m] = iteration[m]
  BY DEF WaitingNodes
<1>4. QED
  BY <1>1, <1>2, <1>3 DEF Awaited

LEMMA IterationKeepsFew ==
    ASSUME Types, FewUnawaited, NEW n \in Nodes,
           BeginIteration(n) \/ CreatePsbt(n) \/ RequestAgain(n)
    PROVE  FewUnawaited'
<1>1. /\ initiators' = initiators
      /\ mempool' = mempool
      /\ UNCHANGED faultVars
      /\ n \in Active
      /\ iteration[n].step # "waiting"
      /\ \A m \in Nodes \ {n} : iteration'[m] = iteration[m]
  BY IterationFields
     DEF Types, BeginIteration, CreatePsbt, RequestAgain, bitcoinVars, faultVars, Active, Idle
<1>2. iteration' \in [Nodes -> Iterations]
  BY BeginIterationPreservesTypes, CreatePsbtPreservesTypes, RequestAgainPreservesTypes DEF Types
<1>3. Active' \subseteq Active /\ Awaited \subseteq Awaited'
  BY <1>1, <1>2, AwaitedIfWaitingStay
<1>4. QED
  BY <1>1, <1>3, StillFew

\* What it submits it waits for.
LEMMA SubmitKeepsFew ==
    ASSUME Types, FewUnawaited, NEW n \in Nodes, Submit(n)
    PROVE  FewUnawaited'
<1>1. /\ initiators' = initiators
      /\ UNCHANGED faultVars
      /\ n \in Active
      /\ iteration[n].step # "waiting"
      /\ \A m \in Nodes \ {n} : iteration'[m] = iteration[m]
  BY IterationFields DEF Types, Submit, Active, Idle
<1>2. iteration' \in [Nodes -> Iterations]
  BY SubmitPreservesTypes DEF Types
<1>3. Active' \subseteq Active /\ Awaited \subseteq Awaited'
  BY <1>1, <1>2, AwaitedIfWaitingStay
<1>4. CASE UNCHANGED mempool
  BY <1>1, <1>3, <1>4, StillFew
<1>5. CASE /\ mempool' = mempool \cup {unsignedReplenishPsbt[n]}
           /\ iteration' = [iteration EXCEPT ![n] = Waiting(iteration[n].period, unsignedReplenishPsbt[n])]
  <2>1. iteration'[n] = Waiting(iteration[n].period, unsignedReplenishPsbt[n])
    BY <1>5 DEF Types
  <2>2. n \in WaitingNodes' /\ iteration'[n].psbt = unsignedReplenishPsbt[n]
    BY <2>1 DEF WaitingNodes, Waiting
  <2>3. unsignedReplenishPsbt[n] \in Awaited'
    BY <2>2 DEF Awaited
  <2>4. QED
    BY <1>1, <1>3, <1>5, <2>3, StillFew
<1>6. QED
  BY <1>4, <1>5 DEF Submit

\* When one wait ends, all others go on.
LEMMA AwaitedWhenOneEnds ==
    ASSUME Types, NEW n \in Nodes, initiators' = initiators,
           iteration' = [iteration EXCEPT ![n] = Idle]
    PROVE  /\ Active' \subseteq Active
           /\ Awaited \subseteq Awaited' \cup {iteration[n].psbt}
<1>1. /\ iteration'[n] = Idle
      /\ \A m \in Nodes \ {n} : iteration'[m] = iteration[m]
  BY DEF Types
<1>2. Active' \subseteq Active
  BY <1>1 DEF Active
<1>3. \A m \in WaitingNodes : m = n \/ (m \in WaitingNodes' /\ iteration'[m] = iteration[m])
  BY <1>1 DEF WaitingNodes
<1>4. QED
  BY <1>2, <1>3 DEF Awaited

LEMMA EndOfWaitKeepsFew ==
    ASSUME Types, FewUnawaited, NEW n \in Nodes,
           Confirmed(n) \/ WaitTimesOut(n) \/ WaitFails(n) \/ Restart(n)
    PROVE  FewUnawaited'
<1>1. /\ initiators' = initiators
      /\ mempool' = mempool
      /\ iteration' = [iteration EXCEPT ![n] = Idle]
  BY DEF Confirmed, WaitTimesOut, WaitFails, Restart, Count, Forget, bitcoinVars
<1>2. Active' \subseteq Active /\ Awaited \subseteq Awaited' \cup {iteration[n].psbt}
  BY <1>1, AwaitedWhenOneEnds
<1>3. CASE Confirmed(n)
  <2>1. iteration[n].psbt \notin mempool /\ UNCHANGED faultVars
    BY <1>3 DEF Types, Confirmed
  <2>2. mempool' \ Awaited' \subseteq mempool \ Awaited
    BY <1>1, <1>2, <2>1
  <2>3. QED
    BY <1>2, <2>1, <2>2, StillFew
<1>4. CASE Handover \/ Mishap
  <2>1. mempool' \ Awaited' \subseteq (mempool \ Awaited) \cup {iteration[n].psbt}
    BY <1>1, <1>2
  <2>2. QED
    BY <1>2, <1>4, <2>1, FewWhenOneIsGivenUp
<1>5. QED
  BY <1>3, <1>4 DEF WaitTimesOut, WaitFails, Restart

LEMMA ChangeInitiatorsKeepsFew ==
    ASSUME Types, FewUnawaited, NEW n \in Nodes, ChangeInitiators(n)
    PROVE  FewUnawaited'
<1>1. /\ initiators' \subseteq initiators \cup {n}
      /\ iteration' = iteration
      /\ mempool' = mempool
      /\ Handover
  BY DEF ChangeInitiators, nodeVars, bitcoinVars
<1>2. Active' \subseteq Active \cup {n} /\ Awaited' = Awaited
  BY <1>1 DEF Active, Awaited, WaitingNodes
<1>3. QED
  BY <1>1, <1>2, FewWhenOneMoreIsActive

\* What goes on around sends no replenishments.
LEMMA OtherStepsKeepFew ==
    ASSUME Types, FewUnawaited,
           \/ \E msg \in messages : OnMessage(msg) \/ MessageGetsLost(msg)
           \/ \E tx \in mempool : Mine(tx)
           \/ \E amount \in Amounts, spent \in SUBSET outputs : PegOut(amount, spent)
           \/ NextPeriod
           \/ \E c \in Coins : CoinIsTaken(c)
           \/ UNCHANGED vars
    PROVE  FewUnawaited'
<1>1. /\ UNCHANGED <<initiators, iteration>>
      /\ mempool' \subseteq mempool
  BY DEF OnMessage, MessageGetsLost, Mine, PegOut, NextPeriod, CoinIsTaken, vars, nodeVars, bitcoinVars
<1>2. Active' = Active /\ Awaited' = Awaited
  BY <1>1 DEF Active, Awaited, WaitingNodes
<1>3. CASE UNCHANGED faultVars
  BY <1>1, <1>2, <1>3, StillFew
<1>4. CASE Mishap
  <2>1. mempool' \ Awaited' \subseteq (mempool \ Awaited) \cup {{}}
    BY <1>1, <1>2
  <2>2. QED
    BY <1>2, <1>4, <2>1, FewWhenOneIsGivenUp
<1>5. QED
  BY <1>3, <1>4
     DEF OnMessage, MessageGetsLost, Mine, PegOut, NextPeriod, CoinIsTaken, vars, faultVars

LEMMA NextKeepsFew ==
    ASSUME Types, FewUnawaited, [Next]_vars
    PROVE  FewUnawaited'
  BY IterationKeepsFew, SubmitKeepsFew, EndOfWaitKeepsFew, ChangeInitiatorsKeepsFew,
     OtherStepsKeepFew DEF Next, Iterate

-----------------------------------------------------------------------------
(* What PSBTs spend, and what the wallets hold *)

\* A PSBT spends some coins, no more than a node can sign, and they are worth their fee.
IsPsbt(psbt) ==
    /\ psbt \in SUBSET Coins
    /\ Cardinality(psbt) \in 1 .. MaxReplenishTxInputs
    /\ Total(psbt) >= Fee(psbt)

Messages ==
    [type : {"request"}, from : Nodes, to : Nodes, psbt : SUBSET Coins, period : Periods,
     times : Nat]
    \cup [type : {"response"}, from : Nodes, to : Nodes, psbt : SUBSET Coins]

Signatures == [signer : Nodes, psbt : SUBSET Coins]

Wallets ==
    /\ initiators # {}
    /\ \A n \in Nodes : unsignedReplenishPsbt[n] = NoPsbt \/ IsPsbt(unsignedReplenishPsbt[n])
    /\ \A tx \in mempool : IsPsbt(tx)
    /\ messages \subseteq Messages
    /\ gatheredPsbts \in [Nodes -> Seq(Signatures)]
    /\ \A n \in Nodes : Len(gatheredPsbts[n]) <= MaxGathered
    /\ balance \in Nat
    /\ outputs \subseteq mined

LEMMA TotalIsNatural ==
    ASSUME NEW coins \in SUBSET Coins
    PROVE  Total(coins) \in Nat
<1> DEFINE units == [c \in coins |-> {c} \X (1 .. CoinValue[c])]
           all == {{c} \X (1 .. CoinValue[c]) : c \in coins}
<1>1. IsFiniteSet(coins)
  <2>1. IsFiniteSet(Coins)
    BY ReplenisherAssumption, FS_Interval DEF Coins
  <2>2. QED
    BY <2>1, FS_Subset
<1>2. units \in Surjection(coins, all)
  BY DEF Surjection
<1>3. IsFiniteSet(all)
  BY <1>1, <1>2, FS_Surjection
<1>4. ASSUME NEW T \in all
      PROVE  IsFiniteSet(T)
  <2>1. PICK c \in coins : T = {c} \X (1 .. CoinValue[c])
    OBVIOUS
  <2>2. CoinValue[c] \in Nat
    BY ReplenisherAssumption
  <2>3. IsFiniteSet(1 .. CoinValue[c])
    BY <2>2, FS_Interval
  <2>4. IsFiniteSet({c})
    BY FS_Singleton
  <2>5. QED
    BY <2>1, <2>3, <2>4, FS_Product
<1> HIDE DEF all
<1>5. IsFiniteSet(UNION all)
  BY <1>3, <1>4, FS_UNION
<1>6. QED
  BY <1>5, FS_CardinalityType DEF Total, all

LEMMA FeeIsNatural ==
    ASSUME NEW psbt, IsPsbt(psbt)
    PROVE  Fee(psbt) \in Nat
<1> DEFINE size == Cardinality(psbt)
<1>1. size \in Nat /\ FeePerInput \in Nat
  BY ReplenisherAssumption DEF IsPsbt
<1> HIDE DEF size
<1>2. FeePerInput * size \in Nat
  BY <1>1
<1>3. QED
  BY <1>2 DEF Fee, size

\* The k oldest coins are no more than k.
LEMMA OldestCoinsAreFew ==
    ASSUME NEW k \in Nat \ {0}, Unspent # {}
    PROVE  Cardinality(OldestCoins(k)) \in 1 .. k
<1> DEFINE S == OldestCoins(k)
<1>1. S \in (SUBSET Coins) \ {{}} /\ S \subseteq Unspent
  BY OldestCoinsAreCoins DEF OldestCoins
<1>2. Unspent \subseteq Coins /\ Coins = 1 .. NumCoins /\ NumCoins \in Nat
  BY ReplenisherAssumption DEF Unspent, Coins
<1>3. IsFiniteSet(Unspent) /\ IsFiniteSet(S)
  <2>1. IsFiniteSet(Coins)
    BY <1>2, FS_Interval
  <2>2. QED
    BY <1>1, <1>2, <2>1, FS_Subset
<1>4. PICK c \in S : \A d \in S : d <= c
  <2> DEFINE D == {NumCoins - d : d \in S}
  <2>1. D \in SUBSET Nat /\ D # {}
    BY <1>1, <1>2
  <2>2. PICK x \in D : \A y \in D : x <= y
    BY <2>1, SmallestNumber
  <2>3. PICK c \in S : x = NumCoins - c
    BY <2>2
  <2>4. ASSUME NEW d \in S
        PROVE  d <= c
    <3>1. NumCoins - c <= NumCoins - d
      BY <2>2, <2>3
    <3>2. c \in Nat /\ d \in Nat
      BY <1>1, <1>2
    <3>3. QED
      BY <1>2, <3>1, <3>2
  <2>5. QED
    BY <2>4
<1> DEFINE upTo == {d \in Unspent : d <= c}
<1>5. Cardinality(upTo) <= k
  BY DEF OldestCoins
<1>6. S \subseteq upTo
  BY <1>1, <1>4
<1>7. IsFiniteSet(upTo)
  BY <1>3, FS_Subset
<1> HIDE DEF S, upTo
<1>8. Cardinality(S) \in Nat /\ Cardinality(upTo) \in Nat /\ Cardinality(S) <= Cardinality(upTo)
  BY <1>6, <1>7, NoMore
<1>9. Cardinality(S) # 0
  BY <1>1, <1>3, FS_EmptySet
<1>10. QED
  BY <1>5, <1>8, <1>9 DEF S

\* A new PSBT is one that nodes can sign.
LEMMA ReplenishPsbtIsPsbt ==
    ASSUME CanReplenish
    PROVE  IsPsbt(ReplenishPsbt)
<1>1. ReplenishPsbt \in SUBSET Coins /\ Total(ReplenishPsbt) >= Fee(ReplenishPsbt)
  BY ReplenishPsbtSpendsCoins DEF CanReplenish
<1>2. Unspent # {} /\ IsFiniteSet(Unspent)
  <2>1. IsFiniteSet(Coins) /\ Unspent \subseteq Coins
    BY ReplenisherAssumption, FS_Interval DEF Coins, Unspent
  <2>2. QED
    BY <2>1, FS_Subset DEF CanReplenish
<1> DEFINE shortage == IF balance < ReplenishThreshold THEN ReplenishThreshold - balance ELSE 0
           amount == IF shortage > ReplenishMinAmount THEN shortage ELSE ReplenishMinAmount
           IsEnough(k) == Total(OldestCoins(k)) >= amount + Fee(OldestCoins(k))
           all == Cardinality(Unspent)
           stops == {k \in 1 .. all : IsEnough(k) \/ k = MaxReplenishTxInputs \/ k = all}
<1>3. all \in Nat \ {0} /\ MaxReplenishTxInputs \in Nat \ {0}
  BY <1>2, FS_CardinalityType, FS_EmptySet, ReplenisherAssumption
<1> HIDE DEF IsEnough
<1>4. /\ stops \in SUBSET (Nat \ {0}) /\ all \in stops
      /\ MaxReplenishTxInputs <= all => MaxReplenishTxInputs \in stops
  BY <1>3
<1>5. ReplenishPsbt = OldestCoins(Min(stops))
  BY DEF ReplenishPsbt, IsEnough
<1> HIDE DEF stops, all
<1>6. Min(stops) \in stops /\ \A other \in stops : Min(stops) <= other
  <2>1. PICK k \in stops : \A other \in stops : k <= other
    <3>1. stops \in SUBSET Nat /\ stops # {}
      BY <1>4
    <3>2. QED
      BY <3>1, SmallestNumber
  <2>2. QED
    BY <2>1 DEF Min
<1> DEFINE min == Min(stops)
<1>7. min \in Nat \ {0} /\ min <= MaxReplenishTxInputs
  <2> HIDE DEF min
  <2>1. min \in Nat \ {0} /\ min <= all
        /\ (MaxReplenishTxInputs <= all => min <= MaxReplenishTxInputs)
    BY <1>4, <1>6 DEF min
  <2>2. QED
    BY <1>3, <2>1
<1>8. Cardinality(ReplenishPsbt) \in 1 .. min
  BY <1>2, <1>5, <1>7, OldestCoinsAreFew
<1> HIDE DEF min
<1>9. QED
  BY <1>1, <1>3, <1>7, <1>8 DEF IsPsbt

LEMMA RequestsAreMessages ==
    ASSUME NEW n \in Nodes, NEW psbt \in SUBSET Coins, NEW p \in Periods, NEW times \in Nat
    PROVE  Requests(n, psbt, p, times) \subseteq Messages
  BY DEF Requests, Messages

\* The steps of an iteration.
LEMMA IterationKeepsWallets ==
    ASSUME Types, Wallets, NEW n \in Nodes,
           BeginIteration(n) \/ CreatePsbt(n) \/ RequestAgain(n)
    PROVE  Wallets'
<1>1. UNCHANGED <<initiators, mempool, balance, outputs, mined>>
  BY DEF BeginIteration, CreatePsbt, RequestAgain, bitcoinVars
<1>2. /\ gatheredPsbts' \in [Nodes -> Seq(Signatures)]
      /\ \A m \in Nodes : Len(gatheredPsbts'[m]) <= MaxGathered
  <2>1. gatheredPsbts' = gatheredPsbts \/ gatheredPsbts' = [gatheredPsbts EXCEPT ![n] = <<>>]
    BY DEF BeginIteration, CreatePsbt, RequestAgain
  <2>2. <<>> \in Seq(Signatures) /\ Len(<<>>) <= MaxGathered
    BY ReplenisherAssumption
  <2>3. QED
    BY <2>1, <2>2 DEF Wallets
<1>3. \A m \in Nodes : unsignedReplenishPsbt'[m] = NoPsbt \/ IsPsbt(unsignedReplenishPsbt'[m])
  <2>1. \/ UNCHANGED unsignedReplenishPsbt
        \/ /\ CanReplenish
           /\ unsignedReplenishPsbt' = [unsignedReplenishPsbt EXCEPT ![n] = ReplenishPsbt]
    BY DEF BeginIteration, CreatePsbt, RequestAgain
  <2>2. unsignedReplenishPsbt \in [Nodes -> ((SUBSET Coins) \ {{}}) \cup {NoPsbt}]
    BY DEF Types
  <2>3. QED
    BY <2>1, <2>2, ReplenishPsbtIsPsbt DEF Wallets
<1>4. messages' \subseteq Messages
  <2>1. CASE BeginIteration(n)
    BY <2>1 DEF BeginIteration, Wallets
  <2>2. CASE CreatePsbt(n)
    <3>1. iteration[n].period \in Periods /\ iteration[n].times \in Nat
      BY <2>2, IterationFields DEF CreatePsbt
    <3>2. CanReplenish =>
            Requests(n, ReplenishPsbt, iteration[n].period, iteration[n].times) \subseteq Messages
      BY <3>1, RequestsAreMessages, ReplenishPsbtIsPsbt DEF IsPsbt
    <3>3. QED
      BY <2>2, <3>2 DEF CreatePsbt, Wallets
  <2>3. CASE RequestAgain(n)
    <3>1. /\ iteration[n].period \in Periods /\ iteration[n].times \in Nat
          /\ unsignedReplenishPsbt[n] \in SUBSET Coins
      BY <2>3, IterationFields DEF RequestAgain, Wallets, IsPsbt
    <3>2. Requests(n, unsignedReplenishPsbt[n], iteration[n].period, iteration[n].times)
            \subseteq Messages
      BY <3>1, RequestsAreMessages
    <3>3. QED
      BY <2>3, <3>2 DEF RequestAgain, Wallets
  <2>4. QED
    BY <2>1, <2>2, <2>3
<1>5. QED
  BY <1>1, <1>2, <1>3, <1>4 DEF Wallets

\* What is submitted, waited for or given up.
LEMMA SubmittingKeepsWallets ==
    ASSUME Types, Wallets, NEW n \in Nodes,
           Submit(n) \/ Confirmed(n) \/ WaitTimesOut(n) \/ WaitFails(n) \/ Restart(n)
    PROVE  Wallets'
<1>1. UNCHANGED <<initiators, messages, balance, outputs, mined>>
  BY DEF Submit, Confirmed, WaitTimesOut, WaitFails, Restart, Count, Forget, bitcoinVars
<1>2. /\ gatheredPsbts' \in [Nodes -> Seq(Signatures)]
      /\ \A m \in Nodes : Len(gatheredPsbts'[m]) <= MaxGathered
  <2>1. gatheredPsbts' = gatheredPsbts \/ gatheredPsbts' = [gatheredPsbts EXCEPT ![n] = <<>>]
    BY DEF Submit, Confirmed, WaitTimesOut, WaitFails, Restart, Count, Forget
  <2>2. <<>> \in Seq(Signatures) /\ Len(<<>>) <= MaxGathered
    BY ReplenisherAssumption
  <2>3. QED
    BY <2>1, <2>2 DEF Wallets
<1>3. \A m \in Nodes : unsignedReplenishPsbt'[m] = NoPsbt \/ IsPsbt(unsignedReplenishPsbt'[m])
  <2>1. \/ UNCHANGED unsignedReplenishPsbt
        \/ unsignedReplenishPsbt' = [unsignedReplenishPsbt EXCEPT ![n] = NoPsbt]
    BY DEF Submit, Confirmed, WaitTimesOut, WaitFails, Restart, Count, Forget
  <2>2. unsignedReplenishPsbt \in [Nodes -> ((SUBSET Coins) \ {{}}) \cup {NoPsbt}]
    BY DEF Types
  <2>3. QED
    BY <2>1, <2>2 DEF Wallets
<1>4. \A tx \in mempool' : IsPsbt(tx)
  <2>1. \/ UNCHANGED mempool
        \/ /\ unsignedReplenishPsbt[n] # NoPsbt
           /\ mempool' = mempool \cup {unsignedReplenishPsbt[n]}
    BY DEF Submit, Confirmed, WaitTimesOut, WaitFails, Restart, Count, Forget, bitcoinVars
  <2>2. QED
    BY <2>1 DEF Wallets
<1>5. QED
  BY <1>1, <1>2, <1>3, <1>4 DEF Wallets

LEMMA OnMessageKeepsWallets ==
    ASSUME Wallets, NEW msg \in messages, OnMessage(msg)
    PROVE  Wallets'
<1>1. /\ msg \in Messages
      /\ UNCHANGED <<initiators, unsignedReplenishPsbt, mempool, balance, outputs, mined>>
  BY DEF Wallets, OnMessage, bitcoinVars
<1>2. msg.from \in Nodes /\ msg.to \in Nodes /\ msg.psbt \in SUBSET Coins
  BY <1>1 DEF Messages
<1>3. messages' \subseteq Messages
  <2>1. [type |-> "response", from |-> msg.to, to |-> msg.from, psbt |-> msg.psbt] \in Messages
    BY <1>2 DEF Messages
  <2>2. QED
    BY <2>1 DEF Wallets, OnMessage, OnRequest, OnResponse
<1>4. /\ gatheredPsbts' \in [Nodes -> Seq(Signatures)]
      /\ \A n \in Nodes : Len(gatheredPsbts'[n]) <= MaxGathered
  <2>1. CASE OnRequest(msg)
    BY <2>1 DEF OnRequest, Wallets
  <2>2. CASE OnResponse(msg)
    <3> DEFINE old == gatheredPsbts[msg.to]
               new == [signer |-> msg.from, psbt |-> msg.psbt]
    <3>1. new \in Signatures
      BY <1>2 DEF Signatures
    <3>2. old \in Seq(Signatures) /\ Len(old) < MaxGathered
      BY <1>2, <2>2 DEF OnResponse, Wallets
    <3>3. gatheredPsbts' = [gatheredPsbts EXCEPT ![msg.to] = Append(old, new)]
      BY <1>2, <2>2 DEF OnResponse
    <3> HIDE DEF old, new
    <3>4. Append(old, new) \in Seq(Signatures) /\ Len(Append(old, new)) <= MaxGathered
      BY <3>1, <3>2, ReplenisherAssumption
    <3>5. QED
      BY <1>2, <3>3, <3>4 DEF Wallets
  <2>3. QED
    BY <2>1, <2>2 DEF OnMessage
<1>5. QED
  BY <1>1, <1>3, <1>4 DEF Wallets

\* Bitcoin and what goes on around: the balance grows by what a mined PSBT is worth
\* more than its fee.
LEMMA OtherStepsKeepWallets ==
    ASSUME Wallets,
           \/ \E msg \in messages : MessageGetsLost(msg)
           \/ \E tx \in mempool : Mine(tx)
           \/ \E amount \in Amounts, spent \in SUBSET outputs : PegOut(amount, spent)
           \/ NextPeriod
           \/ \E n \in Nodes : ChangeInitiators(n)
           \/ \E c \in Coins : CoinIsTaken(c)
           \/ UNCHANGED vars
    PROVE  Wallets'
<1>1. CASE \E msg \in messages : MessageGetsLost(msg)
  BY <1>1 DEF Wallets, MessageGetsLost, nodeVars, bitcoinVars
<1>2. ASSUME NEW tx \in mempool, Mine(tx)
      PROVE  Wallets'
  <2>1. IsPsbt(tx) /\ balance \in Nat
    BY DEF Wallets
  <2>2. Total(tx) \in Nat /\ Fee(tx) \in Nat /\ Total(tx) >= Fee(tx)
    BY <2>1, TotalIsNatural, FeeIsNatural DEF IsPsbt
  <2>3. balance + Value(tx) \in Nat
    BY <2>1, <2>2 DEF Value
  <2>4. QED
    BY <1>2, <2>3 DEF Wallets, Mine, nodeVars
<1>3. ASSUME NEW amount \in Amounts, NEW spent \in SUBSET outputs, PegOut(amount, spent)
      PROVE  Wallets'
  <2>1. balance' \in Nat
    BY <1>3, ReplenisherAssumption DEF Wallets, PegOut
  <2>2. QED
    BY <1>3, <2>1 DEF Wallets, PegOut, nodeVars
<1>4. CASE NextPeriod
  BY <1>4 DEF Wallets, NextPeriod, nodeVars, bitcoinVars
<1>5. CASE \E n \in Nodes : ChangeInitiators(n)
  BY <1>5 DEF Wallets, ChangeInitiators, nodeVars, bitcoinVars
<1>6. CASE \E c \in Coins : CoinIsTaken(c)
  BY <1>6 DEF Wallets, CoinIsTaken, nodeVars
<1>7. CASE UNCHANGED vars
  BY <1>7 DEF Wallets, vars, nodeVars, bitcoinVars
<1>8. QED
  BY <1>1, <1>2, <1>3, <1>4, <1>5, <1>6, <1>7

LEMMA NextKeepsWallets ==
    ASSUME Types, Wallets, [Next]_vars
    PROVE  Wallets'
  BY IterationKeepsWallets, SubmittingKeepsWallets, OnMessageKeepsWallets, OtherStepsKeepWallets
     DEF Next, Iterate

LEMMA InitImpliesWallets ==
    ASSUME Init
    PROVE  Wallets
<1>1. <<>> \in Seq(Signatures) /\ Len(<<>>) <= MaxGathered /\ InitialBalance \in Nat
  BY ReplenisherAssumption
<1>2. QED
  BY <1>1 DEF Init, Wallets

-----------------------------------------------------------------------------
(* The theorems *)

LEMMA InitImpliesInv == Init => Inv
<1> SUFFICES ASSUME Init PROVE Inv
  OBVIOUS
<1>1. PICK n \in Nodes : initiators = {n}
  BY DEF Init
<1>2. \A m \in Nodes : iteration[m] = Idle
  BY DEF Init
<1>3. Idle.step = "idle"
  BY DEF Idle
<1>4. Types
  BY FS_EmptySet, ReplenisherAssumption DEF Init, Types, Iterations, Periods
<1>5. InitiatorCounts
  <2>1. \A p \in Periods : timesReplenishedPerPeriod[n][p] = 0 /\ sent[p] = 0
    BY DEF Init
  <2>2. 0 <= MaxReplenishmentsDuringPeriod
    BY ReplenisherAssumption
  <2>3. \A p \in Periods : ~AwaitsIn(n, p)
    BY <1>2, <1>3 DEF AwaitsIn
  <2>4. messages = {}
    BY DEF Init
  <2>5. Counts(n)
    BY <1>1, <1>2, <2>1, <2>2, <2>3, <2>4 DEF Counts
  <2>6. QED
    BY <2>5 DEF InitiatorCounts
<1>6. FewUnawaited
  <2>1. Active = {n}
    BY <1>1, <1>2 DEF Active
  <2>2. mempool \ Awaited = {}
    BY DEF Init
  <2>3. Cardinality(Active) = 1 /\ Cardinality(mempool \ Awaited) = 0
    BY <2>1, <2>2, FS_Singleton, FS_EmptySet
  <2>4. QED
    BY <2>3 DEF Init, FewUnawaited
<1>7. QED
  BY <1>4, <1>5, <1>6 DEF Inv

LEMMA NextPreservesInv == Inv /\ [Next]_vars => Inv'
<1> SUFFICES ASSUME Inv, [Next]_vars PROVE Inv'
  OBVIOUS
<1>1. Types' /\ FewUnawaited'
  BY NextPreservesTypes, NextKeepsFew DEF Inv
<1>2. InitiatorCounts'
  <2>1. SUFFICES ASSUME handovers' = 0 PROVE \E n \in Nodes : Counts(n)'
    BY DEF InitiatorCounts
  <2>2. handovers \in Nat /\ (handovers' = handovers \/ handovers' = handovers + 1)
    BY DEF Inv, Types, Next, Iterate, BeginIteration, CreatePsbt, RequestAgain, Submit, Confirmed,
           WaitTimesOut, WaitFails, Restart, OnMessage, MessageGetsLost, Mine, PegOut, NextPeriod,
           ChangeInitiators, CoinIsTaken, Handover, Mishap, vars, faultVars
  <2>3. handovers = 0 /\ handovers' = handovers
    BY <2>1, <2>2
  <2>4. PICK n \in Nodes : Counts(n)
    BY <2>3 DEF Inv, InitiatorCounts
  <2>5. QED
    BY <2>3, <2>4, NextCounts DEF Inv
<1>3. QED
  BY <1>1, <1>2 DEF Inv

\* The limit of a period is kept.
LEMMA InvImpliesCapHolds == Inv => CapHolds
<1> SUFFICES ASSUME Inv, handovers = 0, NEW p \in Periods
             PROVE  sent[p] <= MaxReplenishmentsDuringPeriod
  BY DEF CapHolds
<1>1. PICK n \in Nodes : Counts(n)
  BY DEF Inv, InitiatorCounts
<1>2. /\ sent[p] \in Nat
      /\ timesReplenishedPerPeriod[n][p] \in Nat
      /\ MaxReplenishmentsDuringPeriod \in Nat
  BY ReplenisherAssumption DEF Inv, Types
<1>3. CASE AwaitsIn(n, p)
  <2>1. timesReplenishedPerPeriod[n][p] < MaxReplenishmentsDuringPeriod
    BY <1>1, <1>3 DEF Counts, AwaitsIn, Idle
  <2>2. QED
    BY <1>1, <1>2, <1>3, <2>1 DEF Counts
<1>4. CASE ~AwaitsIn(n, p)
  BY <1>1, <1>2, <1>4 DEF Counts
<1>5. QED
  BY <1>3, <1>4

\* Each node waits for one replenishment at a time.
LEMMA InvImpliesFewAtOnce == Inv => FewAtOnce
<1> SUFFICES ASSUME Inv PROVE FewAtOnce
  OBVIOUS
<1>1. /\ IsFiniteSet(Active) /\ IsFiniteSet(mempool \ Awaited)
      /\ Cardinality(Active) \in Nat /\ Cardinality(mempool \ Awaited) \in Nat
      /\ handovers \in Nat /\ mishaps \in Nat
  BY SetsAreFinite DEF Inv
<1>2. WaitingNodes \subseteq Active
  BY DEF WaitingNodes, Active, Idle
<1>3. /\ IsFiniteSet(WaitingNodes)
      /\ Cardinality(WaitingNodes) \in Nat
      /\ Cardinality(WaitingNodes) <= Cardinality(Active)
  BY <1>1, <1>2, NoMore
<1>4. [n \in WaitingNodes |-> iteration[n].psbt] \in Surjection(WaitingNodes, Awaited)
  BY DEF Surjection, Awaited
<1>5. /\ IsFiniteSet(Awaited)
      /\ Cardinality(Awaited) <= Cardinality(WaitingNodes)
  BY <1>3, <1>4, FS_Surjection
<1>6. Cardinality(Awaited) \in Nat
  BY <1>5, FS_CardinalityType
<1>7. /\ IsFiniteSet(Awaited \cup (mempool \ Awaited))
      /\ Cardinality(Awaited \cup (mempool \ Awaited)) =
           Cardinality(Awaited) + Cardinality(mempool \ Awaited)
                                - Cardinality(Awaited \cap (mempool \ Awaited))
  BY <1>1, <1>5, FS_Union
<1>8. Cardinality(Awaited \cap (mempool \ Awaited)) = 0
  <2>1. Awaited \cap (mempool \ Awaited) = {}
    OBVIOUS
  <2>2. QED
    BY <2>1, FS_EmptySet
<1>9. /\ Cardinality(mempool) \in Nat
      /\ Cardinality(mempool) <= Cardinality(Awaited \cup (mempool \ Awaited))
  <2>1. mempool \subseteq Awaited \cup (mempool \ Awaited)
    OBVIOUS
  <2>2. QED
    BY <1>7, <2>1, NoMore
<1>10. Cardinality(Active) + Cardinality(mempool \ Awaited) <= 1 + handovers + mishaps
  BY DEF Inv, FewUnawaited
<1>11. QED
  BY <1>1, <1>3, <1>5, <1>6, <1>7, <1>8, <1>9, <1>10 DEF FewAtOnce

LEMMA InvHolds == Spec => []Inv
  BY InitImpliesInv, NextPreservesInv, PTL DEF Spec

\* "Limit replenishments to N per period as a security measure" (replenisher.ts:38):
\* that holds for any number of nodes, coins and periods, until the initiator changes.
THEOREM CapAlwaysHolds == Spec => []CapHolds
  BY InvHolds, InvImpliesCapHolds, PTL

\* Unconfirmed replenishments do not pile up (replenisher.ts:160): there are never
\* more of them than one and one for each thing that went wrong.
THEOREM AlwaysFewAtOnce == Spec => []FewAtOnce
  BY InvHolds, InvImpliesFewAtOnce, PTL

\* A PSBT that a node holds spends between one and MaxReplenishTxInputs coins that are
\* worth their fee (replenishermultisig.ts), so a replenishment never lowers the balance.
THEOREM ReplenisherTypeCorrect == Spec => []ReplenisherTypeOK
<1>1. Init => Wallets
  BY InitImpliesWallets
<1>2. Inv /\ Wallets /\ [Next]_vars => Wallets'
  BY NextKeepsWallets DEF Inv
<1>3. Inv /\ Wallets => ReplenisherTypeOK
  <2> SUFFICES ASSUME Inv, Wallets
               PROVE  ReplenisherTypeOK
    OBVIOUS
  <2>1. \A n \in Nodes : iteration[n].step \in {"idle", "checked", "waiting"}
    BY DEF Inv, Types, Iterations, Idle
  <2>2. QED
    BY <2>1 DEF Inv, Types, Wallets, IsPsbt, ReplenisherTypeOK
<1>4. QED
  BY <1>1, <1>2, <1>3, InvHolds, PTL DEF Spec
=============================================================================
