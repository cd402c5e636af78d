----------------------- MODULE FederatorNetworkProofs -----------------------
(***************************************************************************)
(* Proofs about FederatorNetwork: they hold for any number of nodes,       *)
(* federators, tries and faults.                                           *)
(***************************************************************************)
EXTENDS FederatorNetwork, FastBTCAccessControlProofs, WellFoundedInduction

-----------------------------------------------------------------------------
(* Lemmas about the operators *)

\* A synchronisation is added to those of a node.
LEMMA BagAfterAdding ==
    ASSUME NEW b, IsABag(b), DOMAIN b \subseteq 0 .. Tries, NEW tries \in 0 .. Tries
    PROVE  LET c == b (+) SetToBag({tries})
           IN  IsABag(c) /\ DOMAIN c \subseteq 0 .. Tries /\ c # EmptyBag
<1> DEFINE c == b (+) SetToBag({tries})
<1>1. DOMAIN c = (DOMAIN b) \cup {tries}
  BY DEF (+), SetToBag
<1>2. \A e \in DOMAIN c : c[e] \in {k \in Nat : k > 0}
  BY <1>1 DEF (+), SetToBag, IsABag
<1>3. c = [e \in DOMAIN c |-> c[e]]
  BY DEF (+), SetToBag
<1>4. DOMAIN EmptyBag = {}
  BY DEF EmptyBag, SetToBag
<1>5. IsABag(c)
  BY <1>2, <1>3 DEF IsABag
<1>6. QED
  BY <1>1, <1>4, <1>5

\* A synchronisation ends.
LEMMA BagAfterRemoving ==
    ASSUME NEW b, IsABag(b), DOMAIN b \subseteq 0 .. Tries, NEW tries \in 0 .. Tries
    PROVE  LET c == b (-) SetToBag({tries})
           IN  IsABag(c) /\ DOMAIN c \subseteq 0 .. Tries
<1> DEFINE c == b (-) SetToBag({tries})
           d == [e \in DOMAIN b |->
                   IF e \in DOMAIN SetToBag({tries}) THEN b[e] - SetToBag({tries})[e] ELSE b[e]]
<1>1. c = [e \in {x \in DOMAIN d : d[x] > 0} |-> d[e]]
  BY DEF (-)
<1>2. \A e \in DOMAIN d : d[e] \in Int
  BY DEF SetToBag, IsABag
<1>3. /\ DOMAIN c = {x \in DOMAIN b : d[x] > 0}
      /\ \A e \in DOMAIN c : c[e] = d[e]
  BY <1>1
<1>4. \A e \in DOMAIN c : c[e] \in {k \in Nat : k > 0}
  <2> SUFFICES ASSUME NEW e \in DOMAIN c
               PROVE  c[e] \in {k \in Nat : k > 0}
    OBVIOUS
  <2>1. e \in DOMAIN d /\ d[e] > 0 /\ c[e] = d[e]
    BY <1>3
  <2> HIDE DEF c, d
  <2>2. QED
    BY <1>2, <2>1
<1>5. IsABag(c)
  BY <1>1, <1>3, <1>4 DEF IsABag
<1>6. QED
  BY <1>3, <1>5

\* Among some nodes there is one with the smallest id.
LEMMA SmallestId ==
    ASSUME NEW S \in SUBSET Nodes, S # {}
    PROVE  \E id \in S : \A other \in S : id <= other
<1>1. S \subseteq Nat
  BY VotingAssumption
<1>2. PICK id \in S : \A other \in S : ~(<<other, id>> \in OpToRel(<, Nat))
  BY <1>1, NatLessThanWellFounded, WFMin
<1>3. \A other \in S : ~(other < id)
  BY <1>1, <1>2 DEF OpToRel
<1>4. QED
  BY <1>1, <1>3

\* Whomever a node elects is online, with or without votes of the others.
LEMMA ElectedIsOnline ==
    ASSUME NetworkTypeOK, NEW n \in Nodes
    PROVE  /\ NodeIds(n) \subseteq Nodes
           /\ InitiatorFromNetwork(n) \in NodeIds(n) \cup {NoNode}
           /\ DefaultInitiatorId(n) \in NodeIds(n)
           /\ NoNode \notin NodeIds(n)
<1>1. NodeIds(n) \subseteq Nodes /\ NodeIds(n) # {}
  BY DEF NetworkTypeOK, NodeIds
<1>2. InitiatorFromNetwork(n) \in NodeIds(n) \cup {NoNode}
  BY DEF InitiatorFromNetwork
<1>3. DefaultInitiatorId(n) \in NodeIds(n)
  <2>1. CASE ForcedInitiatorId(n) # NoNode
    BY <2>1 DEF DefaultInitiatorId, ForcedInitiatorId
  <2>2. CASE ForcedInitiatorId(n) = NoNode
    <3>1. \E id \in NodeIds(n) : \A other \in NodeIds(n) : id <= other
      BY <1>1, SmallestId
    <3>2. QED
      BY <2>2, <3>1 DEF DefaultInitiatorId
  <2>3. QED
    BY <2>1, <2>2
<1>4. QED
  BY <1>1, <1>2, <1>3, VotingAssumption

\* Sending keeps messages well formed.
LEMMA QueuesAfterBroadcast ==
    ASSUME NetworkTypeOK, NEW n \in Nodes,
           NEW type \in {"sync-request", "sync-response", "announcement"},
           NEW vote \in Nodes \cup {NoNode}
    PROVE  WithBroadcast(n, type, vote) \in [Nodes -> [Nodes -> Seq(Messages)]]
<1>1. Message(type, vote) \in Messages
  BY DEF Message, Messages
<1>2. \A m \in Nodes : Append(messages[n][m], Message(type, vote)) \in Seq(Messages)
  BY <1>1 DEF NetworkTypeOK
<1>3. [m \in Nodes |-> IF m \in online[n] THEN Append(messages[n][m], Message(type, vote))
                       ELSE messages[n][m]] \in [Nodes -> Seq(Messages)]
  BY <1>2 DEF NetworkTypeOK
<1>4. QED
  BY <1>3 DEF NetworkTypeOK, WithBroadcast

\* So does taking a message off its queue.
LEMMA QueuesAfterTaking ==
    ASSUME NetworkTypeOK, NEW from \in Nodes, NEW to \in Nodes, messages[from][to] # <<>>
    PROVE  /\ Head(messages[from][to]) \in Messages
           /\ Taken(from, to) \in [Nodes -> [Nodes -> Seq(Messages)]]
<1>1. messages[from][to] \in Seq(Messages)
  BY DEF NetworkTypeOK
<1>2. /\ Head(messages[from][to]) \in Messages
      /\ Tail(messages[from][to]) \in Seq(Messages)
  BY <1>1
<1>3. QED
  BY <1>2 DEF NetworkTypeOK, Taken

-----------------------------------------------------------------------------
(* The voting keeps its types *)

VotingTypeOK ==
    /\ votes \in [Nodes -> [Nodes -> Nodes \cup {NoNode}]]
    /\ DOMAIN syncs = Nodes
    /\ \A n \in Nodes : IsABag(syncs[n]) /\ DOMAIN syncs[n] \subseteq 0 .. Tries
    /\ messages \in [Nodes -> [Nodes -> Seq(Messages)]]

\* Asking (initiator.ts:85) touches the synchronisations of the node that asks.
LEMMA AskPreservesTypes ==
    ASSUME NetworkTypeOK, NEW n \in Nodes, Ask(n)
    PROVE  VotingTypeOK' /\ \A m \in Nodes \ {n} : syncs'[m] = syncs[m]
<1>1. InitiatorId(n) \in Nodes \cup {NoNode}
  BY DEF NetworkTypeOK, InitiatorId
<1>2. messages' \in [Nodes -> [Nodes -> Seq(Messages)]]
  BY <1>1, QueuesAfterBroadcast DEF Ask
<1>3. votes' \in [Nodes -> [Nodes -> Nodes \cup {NoNode}]]
  BY DEF Ask, NetworkTypeOK
<1>4. Tries - 1 \in 0 .. Tries /\ Tries \in 0 .. Tries
  BY VotingAssumption
<1>5. \E b : /\ syncs' = [syncs EXCEPT ![n] = b]
             /\ IsABag(b) /\ DOMAIN b \subseteq 0 .. Tries
  <2>1. CASE syncs' = [syncs EXCEPT ![n] = SetToBag({Tries - 1})]
    <3>1. IsABag(SetToBag({Tries - 1})) /\ DOMAIN SetToBag({Tries - 1}) \subseteq 0 .. Tries
      BY <1>4 DEF IsABag, SetToBag
    <3>2. QED
      BY <2>1, <3>1
  <2>2. CASE syncs' = [syncs EXCEPT ![n] = (@ (-) SetToBag({Tries})) (+) SetToBag({Tries - 1})]
    <3> DEFINE b == syncs[n] (-) SetToBag({Tries})
    <3>1. IsABag(b) /\ DOMAIN b \subseteq 0 .. Tries
      BY <1>4, BagAfterRemoving DEF NetworkTypeOK
    <3> HIDE DEF b
    <3>2. LET c == b (+) SetToBag({Tries - 1}) IN IsABag(c) /\ DOMAIN c \subseteq 0 .. Tries
      BY <1>4, <3>1, BagAfterAdding
    <3>3. syncs' = [syncs EXCEPT ![n] = b (+) SetToBag({Tries - 1})]
      BY <2>2 DEF b
    <3>4. QED
      BY <3>2, <3>3
  <2>3. QED
    BY <2>1, <2>2 DEF Ask
<1>6. QED
  BY <1>2, <1>3, <1>5 DEF VotingTypeOK, NetworkTypeOK

\* A node that asks goes on with a synchronisation.
LEMMA AskAddsOne ==
    ASSUME NetworkTypeOK, NEW n \in Nodes, Ask(n)
    PROVE  syncs'[n] # EmptyBag
<1>1. DOMAIN EmptyBag = {} /\ DOMAIN SetToBag({Tries - 1}) = {Tries - 1}
  BY DEF EmptyBag, SetToBag
<1>2. \A b : Tries - 1 \in DOMAIN (b (+) SetToBag({Tries - 1}))
  BY <1>1 DEF (+)
<1>3. Tries - 1 \in DOMAIN syncs'[n]
  BY <1>1, <1>2 DEF Ask, NetworkTypeOK
<1>4. QED
  BY <1>1, <1>3

\* Deciding, too, and makes somebody online the initiator (initiator.ts:116-133),
\* unless the node tries again.
LEMMA DecidePreservesTypes ==
    ASSUME NetworkTypeOK, NEW n \in Nodes, NEW tries \in 0 .. Tries - 1, Decide(n, tries)
    PROVE  /\ VotingTypeOK'
           /\ \A m \in Nodes \ {n} : syncs'[m] = syncs[m]
           /\ \/ votes' = votes /\ syncs'[n] # EmptyBag
              \/ \E id \in NodeIds(n) : votes' = [votes EXCEPT ![n][n] = id]
<1> DEFINE b == syncs[n] (-) SetToBag({tries})
<1>1. /\ tries \in 0 .. Tries
      /\ tries > 0 => tries - 1 \in 0 .. Tries
  BY VotingAssumption
<1>2. IsABag(b) /\ DOMAIN b \subseteq 0 .. Tries
  BY <1>1, BagAfterRemoving DEF NetworkTypeOK
<1>3. CASE InitiatorFromNetwork(n) = NoNode /\ tries > 0
  <2>1. /\ syncs' = [syncs EXCEPT ![n] = b (+) SetToBag({tries - 1})]
        /\ messages' = WithBroadcast(n, "sync-request", InitiatorId(n))
        /\ votes' = votes
    BY <1>3 DEF Decide
  <2> HIDE DEF b
  <2>2. LET c == b (+) SetToBag({tries - 1})
        IN  IsABag(c) /\ DOMAIN c \subseteq 0 .. Tries /\ c # EmptyBag
    BY <1>1, <1>2, <1>3, BagAfterAdding
  <2>3. messages' \in [Nodes -> [Nodes -> Seq(Messages)]]
    <3>1. InitiatorId(n) \in Nodes \cup {NoNode}
      BY DEF NetworkTypeOK, InitiatorId
    <3>2. QED
      BY <2>1, <3>1, QueuesAfterBroadcast
  <2>4. QED
    BY <2>1, <2>2, <2>3 DEF VotingTypeOK, NetworkTypeOK
<1>4. CASE ~(InitiatorFromNetwork(n) = NoNode /\ tries > 0)
  <2> DEFINE id == IF InitiatorFromNetwork(n) # NoNode THEN InitiatorFromNetwork(n)
                   ELSE DefaultInitiatorId(n)
  <2>1. /\ votes' = [votes EXCEPT ![n][n] = id]
        /\ syncs' = [syncs EXCEPT ![n] = b]
        /\ messages' = WithBroadcast(n, "announcement", id)
    BY <1>4 DEF Decide
  <2>2. id \in NodeIds(n) /\ id \in Nodes
    BY ElectedIsOnline
  <2> HIDE DEF b, id
  <2>3. messages' \in [Nodes -> [Nodes -> Seq(Messages)]]
    BY <2>1, <2>2, QueuesAfterBroadcast
  <2>4. QED
    BY <1>2, <2>1, <2>2, <2>3 DEF VotingTypeOK, NetworkTypeOK
<1>5. QED
  BY <1>3, <1>4

\* A message changes one vote, that of a node online.
LEMMA OnMessagePreservesTypes ==
    ASSUME NetworkTypeOK, NEW from \in Nodes, NEW to \in Nodes, OnMessage(from, to)
    PROVE  /\ VotingTypeOK'
           /\ syncs' = syncs
           /\ \/ votes' = votes
              \/ /\ from \in online[to]
                 /\ \E vote : votes' = [votes EXCEPT ![to][from] = vote]
<1> DEFINE msg == Head(messages[from][to])
<1>1. msg \in Messages /\ Taken(from, to) \in [Nodes -> [Nodes -> Seq(Messages)]]
  BY QueuesAfterTaking DEF OnMessage
<1>2. msg.vote \in Nodes \cup {NoNode}
  BY <1>1 DEF Messages
<1>3. CASE from \in online[to]
  <2> DEFINE response == Message("sync-response", InitiatorId(to))
  <2>1. votes' = [votes EXCEPT ![to][from] = msg.vote]
    BY <1>3 DEF OnMessage
  <2>2. messages' \in [Nodes -> [Nodes -> Seq(Messages)]]
    <3>1. response \in Messages
      BY DEF Message, Messages, InitiatorId, NetworkTypeOK
    <3> HIDE DEF msg, response
    <3>2. Append(Taken(from, to)[to][from], response) \in Seq(Messages)
      BY <1>1, <3>1
    <3>3. [Taken(from, to) EXCEPT ![to][from] = Append(@, response)]
            \in [Nodes -> [Nodes -> Seq(Messages)]]
      BY <1>1, <3>2
    <3>4. \/ messages' = Taken(from, to)
          \/ messages' = [Taken(from, to) EXCEPT ![to][from] = Append(@, response)]
      BY <1>3 DEF OnMessage, response
    <3>5. QED
      BY <1>1, <3>3, <3>4
  <2> HIDE DEF msg
  <2>3. votes' \in [Nodes -> [Nodes -> Nodes \cup {NoNode}]]
    BY <1>2, <2>1 DEF NetworkTypeOK
  <2>4. QED
    BY <1>3, <2>1, <2>2, <2>3 DEF VotingTypeOK, NetworkTypeOK, OnMessage
<1>4. CASE from \notin online[to]
  BY <1>1, <1>4 DEF VotingTypeOK, NetworkTypeOK, OnMessage
<1>5. QED
  BY <1>3, <1>4

\* The vote of a node that leaves is dropped, and if it was the initiator so is the
\* own, and another synchronisation begins (initiator.ts:149-167).
LEMMA OnNodeUnavailablePreservesTypes ==
    ASSUME NetworkTypeOK, NEW n \in Nodes, NEW m \in Nodes, OnNodeUnavailable(n, m)
    PROVE  /\ VotingTypeOK'
           /\ \A k \in Nodes \ {n} : syncs'[k] = syncs[k]
           /\ \/ /\ InitiatorId(n) = m
                 /\ votes' = [votes EXCEPT ![n][m] = NoNode, ![n][n] = NoNode]
                 /\ syncs'[n] # EmptyBag
              \/ /\ InitiatorId(n) # m
                 /\ votes' = [votes EXCEPT ![n][m] = NoNode]
                 /\ syncs' = syncs
<1>1. messages' \in [Nodes -> [Nodes -> Seq(Messages)]]
  <2>1. <<>> \in Seq(Messages)
    OBVIOUS
  <2>2. messages' = [messages EXCEPT ![n][m] = <<>>, ![m][n] = <<>>]
    BY DEF OnNodeUnavailable
  <2>3. QED
    BY <2>1, <2>2 DEF NetworkTypeOK
<1>2. CASE InitiatorId(n) = m
  <2> DEFINE b == syncs[n] (+) SetToBag({Tries})
  <2>1. /\ votes' = [votes EXCEPT ![n][m] = NoNode, ![n][n] = NoNode]
        /\ syncs' = [syncs EXCEPT ![n] = b]
    BY <1>2 DEF OnNodeUnavailable, WithSync
  <2>2. IsABag(b) /\ DOMAIN b \subseteq 0 .. Tries /\ b # EmptyBag
    <3>1. /\ IsABag(syncs[n]) /\ DOMAIN syncs[n] \subseteq 0 .. Tries
          /\ Tries \in 0 .. Tries
      BY VotingAssumption DEF NetworkTypeOK
    <3>2. QED
      BY <3>1, BagAfterAdding
  <2> HIDE DEF b
  <2>3. QED
    BY <1>1, <1>2, <2>1, <2>2 DEF VotingTypeOK, NetworkTypeOK
<1>3. CASE InitiatorId(n) # m
  <2>1. votes' = [votes EXCEPT ![n][m] = NoNode] /\ syncs' = syncs
    BY <1>3 DEF OnNodeUnavailable
  <2>2. QED
    BY <1>1, <1>3, <2>1 DEF VotingTypeOK, NetworkTypeOK
<1>4. QED
  BY <1>2, <1>3

\* A node starts with a synchronisation (initiator.ts:44).
LEMMA StartVotingPreservesTypes ==
    ASSUME NetworkTypeOK, NEW n \in Nodes, StartVoting(n)
    PROVE  /\ VotingTypeOK'
           /\ votes' = votes
           /\ syncs'[n] # EmptyBag
           /\ \A m \in Nodes \ {n} : syncs'[m] = syncs[m]
<1> DEFINE b == syncs[n] (+) SetToBag({Tries})
<1>1. syncs' = [syncs EXCEPT ![n] = b] /\ votes' = votes /\ messages' = messages
  BY DEF StartVoting, WithSync
<1>2. IsABag(b) /\ DOMAIN b \subseteq 0 .. Tries /\ b # EmptyBag
  <2>1. /\ IsABag(syncs[n]) /\ DOMAIN syncs[n] \subseteq 0 .. Tries
        /\ Tries \in 0 .. Tries
    BY VotingAssumption DEF NetworkTypeOK
  <2>2. QED
    BY <2>1, BagAfterAdding
<1> HIDE DEF b
<1>3. QED
  BY <1>1, <1>2 DEF VotingTypeOK, NetworkTypeOK

\* A process that ends leaves nothing behind.
LEMMA StopVotingPreservesTypes ==
    ASSUME NetworkTypeOK, NEW n \in Nodes, StopVoting(n)
    PROVE  VotingTypeOK'
<1>1. IsABag(EmptyBag) /\ DOMAIN EmptyBag = {}
  BY DEF EmptyBag, SetToBag, IsABag
<1>2. messages' \in [Nodes -> [Nodes -> Seq(Messages)]]
  BY DEF StopVoting, NetworkTypeOK
<1>3. QED
  BY <1>1, <1>2 DEF StopVoting, VotingTypeOK, NetworkTypeOK

-----------------------------------------------------------------------------
(* The network keeps its types *)

\* Only the roles change, as the contract allows.
LEMMA ChangeFederatorsPreservesTypes ==
    ASSUME AccessControlTypeOK, NetworkTypeOK, NEW account \in RoleChanges,
           ChangeFederators(account)
    PROVE  AccessControlTypeOK' /\ NetworkTypeOK'
<1>1. account \in Addresses /\ Deployer \in Accounts /\ Deployer \in Addresses
  BY NetworkAssumption, AccountsAssumption DEF Addresses
<1>2. "FEDERATOR" \in Roles
  BY DEF Roles
<1>3. CheckFederator(account) => account \in Accounts
  BY <1>2 DEF CheckFederator, HasRole, AccessControlTypeOK
<1>4. AccessControlTypeOK'
  <2>1. CASE GrantRole(Deployer, "FEDERATOR", account)
    BY <1>1, <1>2, <2>1, RoleChangePreservesType
  <2>2. CASE RevokeRole(Deployer, "FEDERATOR", account)
    BY <1>1, <1>2, <2>2, RoleChangePreservesType
  <2>3. CASE CheckFederator(account) /\ RenounceRole(account, "FEDERATOR")
    BY <1>1, <1>2, <1>3, <2>3, RoleChangePreservesType
  <2>4. QED
    BY <2>1, <2>2, <2>3 DEF ChangeFederators
<1>5. NetworkTypeOK'
  BY DEF ChangeFederators, NetworkTypeOK, Members, peerVars, votingVars
<1>6. QED
  BY <1>4, <1>5

\* A process leaves the network (networkutil.ts:58-64) or crashes.
LEMMA LeavePreservesTypes ==
    ASSUME NetworkTypeOK, NEW n \in Nodes, Leave(n)
    PROVE  NetworkTypeOK'
<1>1. VotingTypeOK'
  BY StopVotingPreservesTypes DEF Leave
<1>2. /\ process' = [process EXCEPT ![n] = "gone"]
      /\ cached' = [cached EXCEPT ![n] = NotCached]
      /\ online' = [online EXCEPT ![n] = {}]
      /\ votes' = [votes EXCEPT ![n] = [m \in Nodes |-> NoNode]]
      /\ syncs' = [syncs EXCEPT ![n] = EmptyBag]
  BY DEF Leave, StopVoting
<1>3. /\ process' \in [Nodes -> {"waiting", "member", "gone"}]
      /\ cached' \in [Nodes -> {NotCached} \cup SUBSET Accounts]
      /\ online' \in [Nodes -> SUBSET Nodes]
      /\ \A m \in Nodes : m \notin online'[m]
  BY <1>2 DEF NetworkTypeOK
<1>4. \A k \in Nodes \ Members' :
         /\ online'[k] = {}
         /\ syncs'[k] = EmptyBag
         /\ \A m \in Nodes : votes'[k][m] = NoNode
  BY <1>2 DEF NetworkTypeOK, Members
<1>5. QED
  BY <1>1, <1>3, <1>4 DEF VotingTypeOK, NetworkTypeOK

\* Peers let each other in, by addresses of federators (auth.ts:129, :223).
LEMMA AuthenticatePreservesTypes ==
    ASSUME AccessControlTypeOK, NetworkTypeOK, NEW client \in Nodes, NEW server \in Nodes,
           Authenticate(client, server)
    PROVE  NetworkTypeOK'
<1>1. Federators \in SUBSET Accounts
  BY DEF Federators, AccessControlTypeOK, Roles
<1>2. \A n \in Nodes : PeerAddresses(n) \subseteq SUBSET Accounts
  BY <1>1 DEF PeerAddresses, NetworkTypeOK
<1>3. cached' \in [Nodes -> {NotCached} \cup SUBSET Accounts]
  <2>1. PICK ofClient \in PeerAddresses(client), ofServer \in PeerAddresses(server) :
           cached' = [cached EXCEPT ![client] = ofClient, ![server] = ofServer]
    BY DEF Authenticate
  <2>2. ofClient \in SUBSET Accounts /\ ofServer \in SUBSET Accounts
    BY <1>2
  <2>3. QED
    BY <2>1, <2>2 DEF NetworkTypeOK
<1>4. /\ client \in Members /\ server \in Members /\ client # server
      /\ online' = [online EXCEPT ![client] = @ \cup {server}, ![server] = @ \cup {client}]
      /\ UNCHANGED <<process, votes, syncs, messages>>
  BY DEF Authenticate, votingVars
<1>5. /\ online' \in [Nodes -> SUBSET Nodes]
      /\ \A n \in Nodes : n \notin online'[n]
      /\ \A n \in Nodes \ Members : online'[n] = {}
  <2>1. /\ online \in [Nodes -> SUBSET Nodes]
        /\ \A n \in Nodes : n \notin online[n]
        /\ \A n \in Nodes \ Members : online[n] = {}
    BY DEF NetworkTypeOK
  <2>2. /\ online' \in [Nodes -> SUBSET Nodes]
        /\ online'[client] = online[client] \cup {server}
        /\ online'[server] = online[server] \cup {client}
        /\ \A n \in Nodes \ {client, server} : online'[n] = online[n]
    BY <1>4, <2>1
  <2>3. QED
    BY <1>4, <2>1, <2>2
<1>6. Members' = Members
  BY <1>4 DEF Members
<1>7. \A k \in Nodes \ Members' :
         online'[k] = {} /\ syncs'[k] = EmptyBag /\ \A m \in Nodes : votes'[k][m] = NoNode
  <2>1. \A k \in Nodes \ Members :
           online[k] = {} /\ syncs[k] = EmptyBag /\ \A m \in Nodes : votes[k][m] = NoNode
    BY DEF NetworkTypeOK
  <2>2. QED
    BY <2>1, <1>4, <1>5, <1>6
<1>8. QED
  BY <1>3, <1>4, <1>5, <1>7 DEF NetworkTypeOK

\* One connection's end is noticed at one of its ends.
LEMMA DisconnectionPreservesTypes ==
    ASSUME NetworkTypeOK, NEW n \in Nodes, NEW m \in Nodes,
           m \in online[n],
           online' = [online EXCEPT ![n] = @ \ {m}],
           OnNodeUnavailable(n, m),
           UNCHANGED <<process, cached>>
    PROVE  NetworkTypeOK'
<1>1. /\ VotingTypeOK'
      /\ \A k \in Nodes \ {n} : syncs'[k] = syncs[k] /\ votes'[k] = votes[k]
  <2>1. /\ VotingTypeOK'
        /\ \A k \in Nodes \ {n} : syncs'[k] = syncs[k]
    BY OnNodeUnavailablePreservesTypes
  <2>2. \/ votes' = [votes EXCEPT ![n][m] = NoNode, ![n][n] = NoNode]
        \/ votes' = [votes EXCEPT ![n][m] = NoNode]
    BY OnNodeUnavailablePreservesTypes
  <2>3. \A k \in Nodes \ {n} : votes'[k] = votes[k]
    BY <2>2 DEF NetworkTypeOK
  <2>4. QED
    BY <2>1, <2>3
<1>2. n \in Members
  BY DEF NetworkTypeOK, Members
<1>3. /\ online' \in [Nodes -> SUBSET Nodes]
      /\ \A k \in Nodes : k \notin online'[k]
      /\ \A k \in Nodes \ {n} : online'[k] = online[k]
  BY DEF NetworkTypeOK
<1>4. Members' = Members
  BY DEF Members
<1>5. \A k \in Nodes \ Members' :
         online'[k] = {} /\ syncs'[k] = EmptyBag /\ \A i \in Nodes : votes'[k][i] = NoNode
  <2>1. \A k \in Nodes \ Members :
           online[k] = {} /\ syncs[k] = EmptyBag /\ \A i \in Nodes : votes[k][i] = NoNode
    BY DEF NetworkTypeOK
  <2>2. QED
    BY <2>1, <1>1, <1>2, <1>3, <1>4
<1>6. QED
  BY <1>1, <1>2, <1>3, <1>5 DEF VotingTypeOK, NetworkTypeOK

\* A synchronisation asks or decides.
LEMMA VotePreservesTypes ==
    ASSUME NetworkTypeOK, NEW n \in Nodes, Vote(n)
    PROVE  NetworkTypeOK'
<1>1. /\ n \in Members
      /\ UNCHANGED <<process, cached, online>>
  BY DEF Vote, Members, peerVars
<1>2. /\ VotingTypeOK'
      /\ \A m \in Nodes \ {n} : syncs'[m] = syncs[m] /\ votes'[m] = votes[m]
  <2>1. CASE Ask(n)
    BY <2>1, AskPreservesTypes DEF Ask
  <2>2. CASE \E tries \in 0 .. Tries - 1 : Decide(n, tries)
    <3>1. PICK tries \in 0 .. Tries - 1 : Decide(n, tries)
      BY <2>2
    <3>2. /\ VotingTypeOK'
          /\ \A m \in Nodes \ {n} : syncs'[m] = syncs[m]
          /\ votes' = votes \/ \E id \in NodeIds(n) : votes' = [votes EXCEPT ![n][n] = id]
      BY <3>1, DecidePreservesTypes
    <3>3. votes \in [Nodes -> [Nodes -> Nodes \cup {NoNode}]]
      BY DEF NetworkTypeOK
    <3>4. \A m \in Nodes \ {n} : votes'[m] = votes[m]
      BY <3>2, <3>3
    <3>5. QED
      BY <3>2, <3>4
  <2>3. QED
    BY <2>1, <2>2 DEF Vote
<1>3. Members' = Members
  BY <1>1 DEF Members
<1>4. \A k \in Nodes \ Members' :
         online'[k] = {} /\ syncs'[k] = EmptyBag /\ \A m \in Nodes : votes'[k][m] = NoNode
  <2>1. \A k \in Nodes \ Members :
           online[k] = {} /\ syncs[k] = EmptyBag /\ \A m \in Nodes : votes[k][m] = NoNode
    BY DEF NetworkTypeOK
  <2>2. QED
    BY <2>1, <1>1, <1>2, <1>3
<1>5. QED
  BY <1>1, <1>2, <1>4 DEF VotingTypeOK, NetworkTypeOK

\* A message arrives, or is dropped.
LEMMA ReceivePreservesTypes ==
    ASSUME NetworkTypeOK, NEW from \in Nodes, NEW to \in Nodes, Receive(from, to)
    PROVE  NetworkTypeOK'
<1>1. UNCHANGED <<process, cached, online>>
  BY DEF Receive, peerVars
<1>2. VotingTypeOK' /\ syncs' = syncs
  BY OnMessagePreservesTypes DEF Receive
<1>3. \A n \in Nodes \ Members, m \in Nodes : votes'[n][m] = votes[n][m]
  <2>1. CASE votes' = votes
    BY <2>1
  <2>2. CASE from \in online[to] /\ \E vote : votes' = [votes EXCEPT ![to][from] = vote]
    BY <2>2 DEF NetworkTypeOK, Members
  <2>3. QED
    BY <2>1, <2>2, OnMessagePreservesTypes DEF Receive
<1>4. QED
  BY <1>1, <1>2, <1>3 DEF VotingTypeOK, NetworkTypeOK, Members

\* Every step preserves the types.
LEMMA NextPreservesTypes ==
    ASSUME AccessControlTypeOK, NetworkTypeOK, [Next]_vars
    PROVE  AccessControlTypeOK' /\ NetworkTypeOK'
<1>1. ASSUME NEW n \in Nodes, Join(n)
      PROVE  AccessControlTypeOK' /\ NetworkTypeOK'
  <2>1. /\ VotingTypeOK' /\ votes' = votes
        /\ \A m \in Nodes \ {n} : syncs'[m] = syncs[m]
    BY <1>1, StartVotingPreservesTypes DEF Join
  <2>2. /\ process' = [process EXCEPT ![n] = "member"]
        /\ UNCHANGED <<roleMembers, cached, online>>
    BY <1>1 DEF Join
  <2>3. QED
    BY <2>1, <2>2 DEF VotingTypeOK, NetworkTypeOK, AccessControlTypeOK, Members
<1>2. ASSUME NEW n \in Nodes, GiveUp(n)
      PROVE  AccessControlTypeOK' /\ NetworkTypeOK'
  BY <1>2 DEF GiveUp, NetworkTypeOK, AccessControlTypeOK, Members, votingVars
<1>3. ASSUME NEW n \in Nodes, Leave(n)
      PROVE  AccessControlTypeOK' /\ NetworkTypeOK'
  BY <1>3, LeavePreservesTypes DEF Leave, AccessControlTypeOK
<1>4. ASSUME NEW n \in Nodes, Vote(n)
      PROVE  AccessControlTypeOK' /\ NetworkTypeOK'
  BY <1>4, VotePreservesTypes DEF Vote, AccessControlTypeOK
<1>5. ASSUME NEW n \in Nodes, NEW m \in Nodes, Authenticate(n, m)
      PROVE  AccessControlTypeOK' /\ NetworkTypeOK'
  BY <1>5, AuthenticatePreservesTypes DEF Authenticate, AccessControlTypeOK
<1>6. ASSUME NEW n \in Nodes, NEW m \in Nodes, NodeUnavailable(n, m) \/ ConnectionBreaks(n, m)
      PROVE  AccessControlTypeOK' /\ NetworkTypeOK'
  <2>1. /\ m \in online[n]
        /\ online' = [online EXCEPT ![n] = @ \ {m}]
        /\ OnNodeUnavailable(n, m)
        /\ UNCHANGED <<roleMembers, process, cached>>
    BY <1>6 DEF NodeUnavailable, ConnectionBreaks
  <2>2. QED
    BY <2>1, DisconnectionPreservesTypes DEF AccessControlTypeOK
<1>7. ASSUME NEW n \in Nodes, NEW m \in Nodes, Receive(n, m)
      PROVE  AccessControlTypeOK' /\ NetworkTypeOK'
  BY <1>7, ReceivePreservesTypes DEF Receive, AccessControlTypeOK
<1>8. ASSUME NEW n \in Nodes, NEW m \in Nodes, MessageGetsLost(n, m)
      PROVE  AccessControlTypeOK' /\ NetworkTypeOK'
  <2>1. messages' \in [Nodes -> [Nodes -> Seq(Messages)]]
    BY <1>8, QueuesAfterTaking DEF MessageGetsLost
  <2>2. UNCHANGED <<roleMembers, process, cached, online, votes, syncs>>
    BY <1>8 DEF MessageGetsLost, peerVars
  <2>3. QED
    BY <2>1, <2>2 DEF NetworkTypeOK, AccessControlTypeOK, Members
<1>9. CASE UNCHANGED vars
  BY <1>9 DEF vars, peerVars, votingVars, NetworkTypeOK, AccessControlTypeOK, Members
<1>10. QED
  BY <1>1, <1>2, <1>3, <1>4, <1>5, <1>6, <1>7, <1>8, <1>9, ChangeFederatorsPreservesTypes
     DEF Next, Quit, Crash

\* All networks that behaviours start with have them.
LEMMA InitTypes == Init => AccessControlTypeOK /\ NetworkTypeOK
<1> SUFFICES ASSUME Init PROVE AccessControlTypeOK /\ NetworkTypeOK
  OBVIOUS
<1>1. PICK network \in InitialNetworks : InitialState(network)
  BY DEF Init
<1> DEFINE nodes == {n \in Nodes : AddressOf[n] \in network.federators}
           members == nodes \ network.left
<1>2. /\ network.federators \in SUBSET Accounts
      /\ network.initiator \in Nodes \cup {NoNode}
  BY NetworkAssumption
<1>3. AccessControlTypeOK
  BY <1>1, <1>2, AccountsAssumption DEF AccessControlTypeOK, InitialState, Roles
<1>4. /\ process \in [Nodes -> {"waiting", "member", "gone"}]
      /\ Members = members
  BY <1>1 DEF InitialState, Members
<1>5. cached \in [Nodes -> {NotCached} \cup SUBSET Accounts]
  BY <1>1, <1>2 DEF InitialState
<1>6. /\ online \in [Nodes -> SUBSET Nodes]
      /\ \A n \in Nodes : n \notin online[n]
      /\ votes \in [Nodes -> [Nodes -> Nodes \cup {NoNode}]]
  BY <1>1, <1>2 DEF InitialState
<1>7. /\ DOMAIN syncs = Nodes
      /\ \A n \in Nodes : IsABag(syncs[n]) /\ DOMAIN syncs[n] \subseteq 0 .. Tries
  <2>1. \A n \in Nodes : syncs[n] = SetToBag({Tries}) \/ syncs[n] = EmptyBag
    BY <1>1 DEF InitialState
  <2>2. DOMAIN syncs = Nodes
    BY <1>1 DEF InitialState
  <2>3. /\ IsABag(SetToBag({Tries})) /\ DOMAIN SetToBag({Tries}) = {Tries}
        /\ IsABag(EmptyBag) /\ DOMAIN EmptyBag = {}
    BY DEF IsABag, SetToBag, EmptyBag
  <2>4. QED
    BY <2>1, <2>2, <2>3, VotingAssumption
<1>8. messages \in [Nodes -> [Nodes -> Seq(Messages)]]
  <2>1. <<>> \in Seq(Messages)
    OBVIOUS
  <2>2. messages = [n \in Nodes |-> [m \in Nodes |-> <<>>]]
    BY <1>1 DEF InitialState
  <2>3. QED
    BY <2>1, <2>2
<1>9. \A n \in Nodes \ members :
         online[n] = {} /\ syncs[n] = EmptyBag /\ \A m \in Nodes : votes[n][m] = NoNode
  BY <1>1 DEF InitialState
<1>10. QED
  BY <1>3, <1>4, <1>5, <1>6, <1>7, <1>8, <1>9 DEF NetworkTypeOK

-----------------------------------------------------------------------------
(* What nodes know of each other's votes *)

VotesInv == InitiatorIsOnline /\ DepartedHaveNoVote /\ UndecidedNodesAsk

\* The invariant holds at the start: nodes look for an initiator, or have settled on
\* one of them.
LEMMA InitVotes == Init => VotesInv
<1> SUFFICES ASSUME Init PROVE VotesInv
  OBVIOUS
<1>1. PICK network \in InitialNetworks : InitialState(network)
  BY DEF Init
<1> DEFINE nodes == {n \in Nodes : AddressOf[n] \in network.federators}
<1>2. /\ network.initiator \in Nodes \cup {NoNode}
      /\ network.initiator # NoNode => network.initiator \in nodes
  BY NetworkAssumption
<1>3. SUFFICES ASSUME NEW n \in Members
               PROVE  /\ InitiatorId(n) \in NodeIds(n) \cup {NoNode}
                      /\ \A m \in Nodes : votes[n][m] # NoNode => m \in NodeIds(n)
                      /\ InitiatorId(n) = NoNode => syncs[n] # EmptyBag
  BY DEF VotesInv, InitiatorIsOnline, DepartedHaveNoVote, UndecidedNodesAsk
<1>4. n \in nodes \ network.left
  BY <1>1 DEF Members, InitialState
<1>5. CASE network.initiator = NoNode
  <2>1. syncs[n] = SetToBag({Tries}) /\ \A m \in Nodes : votes[n][m] = NoNode
    BY <1>1, <1>4, <1>5 DEF InitialState
  <2>2. SetToBag({Tries}) # EmptyBag
    <3>1. DOMAIN SetToBag({Tries}) = {Tries} /\ DOMAIN EmptyBag = {}
      BY DEF SetToBag, EmptyBag
    <3>2. QED
      BY <3>1
  <2>3. QED
    BY <1>4, <2>1, <2>2 DEF InitiatorId
<1>6. CASE network.initiator # NoNode
  <2>1. /\ online[n] = nodes \ {n}
        /\ \A m \in Nodes : votes[n][m] = IF m \in nodes THEN network.initiator ELSE NoNode
    BY <1>1, <1>4, <1>6 DEF InitialState
  <2>2. QED
    BY <1>2, <1>4, <1>6, <2>1 DEF InitiatorId, NodeIds
<1>7. QED
  BY <1>5, <1>6

\* A node votes: when it decides, for somebody online.
LEMMA VotePreservesVotes ==
    ASSUME NetworkTypeOK, VotesInv, NEW n \in Nodes, Vote(n)
    PROVE  VotesInv'
<1>1. /\ n \in Members /\ Members' = Members
      /\ online' = online
  BY DEF Vote, Members, peerVars
<1>2. \A k \in Nodes : NodeIds(k)' = NodeIds(k)
  BY <1>1 DEF NodeIds
<1>3. \A k \in Nodes \ {n} : syncs'[k] = syncs[k]
  BY AskPreservesTypes, DecidePreservesTypes DEF Vote
<1>4. CASE votes' = votes /\ syncs'[n] # EmptyBag
  BY <1>1, <1>2, <1>3, <1>4
     DEF VotesInv, InitiatorIsOnline, DepartedHaveNoVote, UndecidedNodesAsk, InitiatorId, Members
<1>5. CASE \E id \in NodeIds(n) : votes' = [votes EXCEPT ![n][n] = id]
  <2>1. PICK id \in NodeIds(n) : votes' = [votes EXCEPT ![n][n] = id]
    BY <1>5
  <2>2. id # NoNode /\ n \in NodeIds(n)
    BY ElectedIsOnline DEF NodeIds
  <2>3. /\ votes'[n][n] = id
        /\ \A k, m \in Nodes : k # n \/ m # n => votes'[k][m] = votes[k][m]
    BY <2>1 DEF NetworkTypeOK
  <2>4. QED
    BY <1>1, <1>2, <1>3, <2>2, <2>3
       DEF VotesInv, InitiatorIsOnline, DepartedHaveNoVote, UndecidedNodesAsk, InitiatorId, Members
<1>6. CASE Ask(n)
  <2>1. votes' = votes
    BY <1>6 DEF Ask
  <2>2. syncs'[n] # EmptyBag
    BY <1>6, AskAddsOne
  <2>3. QED
    BY <1>4, <2>1, <2>2
<1>7. QED
  BY <1>4, <1>5, <1>6, DecidePreservesTypes DEF Vote

\* A message arrives, from a node online.
LEMMA ReceivePreservesVotes ==
    ASSUME NetworkTypeOK, VotesInv, NEW from \in Nodes, NEW to \in Nodes, Receive(from, to)
    PROVE  VotesInv'
<1>1. /\ Members' = Members
      /\ syncs' = syncs
      /\ online' = online
  BY OnMessagePreservesTypes DEF Receive, Members, peerVars
<1>2. \A k \in Nodes : NodeIds(k)' = NodeIds(k)
  BY <1>1 DEF NodeIds
<1>3. CASE votes' = votes
  BY <1>1, <1>2, <1>3
     DEF VotesInv, InitiatorIsOnline, DepartedHaveNoVote, UndecidedNodesAsk, InitiatorId, Members
<1>4. CASE from \in online[to] /\ \E vote : votes' = [votes EXCEPT ![to][from] = vote]
  <2>1. /\ \A n \in Nodes : votes'[n][n] = votes[n][n]
        /\ \A n, m \in Nodes : n # to \/ m # from => votes'[n][m] = votes[n][m]
        /\ from \in NodeIds(to)
    BY <1>4 DEF NetworkTypeOK, NodeIds
  <2>2. QED
    BY <1>1, <1>2, <2>1
       DEF VotesInv, InitiatorIsOnline, DepartedHaveNoVote, UndecidedNodesAsk, InitiatorId, Members
<1>5. QED
  BY <1>3, <1>4, OnMessagePreservesTypes DEF Receive

\* m leaves, as n sees it: its vote goes, and if it was the initiator, n asks.
LEMMA DisconnectionPreservesVotes ==
    ASSUME NetworkTypeOK, VotesInv, NEW n \in Nodes, NEW m \in Nodes,
           m \in online[n],
           online' = [online EXCEPT ![n] = @ \ {m}],
           OnNodeUnavailable(n, m),
           process' = process
    PROVE  VotesInv'
<1>1. /\ Members' = Members
      /\ m # n
      /\ NodeIds(n)' = NodeIds(n) \ {m}
      /\ \A k \in Nodes \ {n} : NodeIds(k)' = NodeIds(k) /\ syncs'[k] = syncs[k]
  <2>1. Members' = Members
    BY DEF Members
  <2>2. m # n /\ \A k \in Nodes \ {n} : online'[k] = online[k]
    BY DEF NetworkTypeOK
  <2>3. online'[n] = online[n] \ {m}
    BY DEF NetworkTypeOK
  <2>4. \A k \in Nodes \ {n} : syncs'[k] = syncs[k]
    BY OnNodeUnavailablePreservesTypes
  <2>5. QED
    BY <2>1, <2>2, <2>3, <2>4 DEF NodeIds
<1>2. CASE /\ InitiatorId(n) = m
           /\ votes' = [votes EXCEPT ![n][m] = NoNode, ![n][n] = NoNode]
           /\ syncs'[n] # EmptyBag
  <2>1. /\ votes'[n][n] = NoNode /\ votes'[n][m] = NoNode
        /\ \A k \in Nodes \ {m, n} : votes'[n][k] = votes[n][k]
        /\ \A k \in Nodes \ {n} : votes'[k] = votes[k]
    BY <1>1, <1>2 DEF NetworkTypeOK
  <2>2. InitiatorIsOnline' /\ UndecidedNodesAsk'
    BY <1>1, <1>2, <2>1 DEF VotesInv, InitiatorIsOnline, UndecidedNodesAsk, InitiatorId, Members
  <2>3. DepartedHaveNoVote'
    BY <1>1, <2>1 DEF VotesInv, DepartedHaveNoVote, Members
  <2>4. QED
    BY <2>2, <2>3 DEF VotesInv
<1>3. CASE /\ InitiatorId(n) # m
           /\ votes' = [votes EXCEPT ![n][m] = NoNode]
           /\ syncs' = syncs
  <2>1. /\ votes'[n][m] = NoNode
        /\ \A k \in Nodes \ {m} : votes'[n][k] = votes[n][k]
        /\ \A k \in Nodes \ {n} : votes'[k] = votes[k]
    BY <1>3 DEF NetworkTypeOK
  <2>2. QED
    BY <1>1, <1>3, <2>1
       DEF VotesInv, InitiatorIsOnline, DepartedHaveNoVote, UndecidedNodesAsk, InitiatorId, Members
<1>4. QED
  BY <1>2, <1>3, OnNodeUnavailablePreservesTypes

\* Every step preserves the invariant about votes.
LEMMA NextPreservesVotes ==
    ASSUME NetworkTypeOK, VotesInv, [Next]_vars
    PROVE  VotesInv'
<1> USE DEF VotesInv, InitiatorIsOnline, DepartedHaveNoVote, UndecidedNodesAsk, InitiatorId, NodeIds
<1>1. ASSUME NEW n \in Nodes, Join(n)
      PROVE  VotesInv'
  <2>1. /\ votes' = votes /\ online' = online
        /\ syncs'[n] # EmptyBag
        /\ \A m \in Nodes \ {n} : syncs'[m] = syncs[m]
    BY <1>1, StartVotingPreservesTypes DEF Join
  <2>2. n \notin Members /\ Members' = Members \cup {n}
    BY <1>1 DEF Join, NetworkTypeOK, Members
  <2>3. \A m \in Nodes : votes[n][m] = NoNode
    BY <2>2 DEF NetworkTypeOK
  <2>4. QED
    BY <2>1, <2>2, <2>3 DEF Members
<1>2. ASSUME NEW n \in Nodes, GiveUp(n)
      PROVE  VotesInv'
  BY <1>2 DEF GiveUp, NetworkTypeOK, Members, votingVars
<1>3. ASSUME NEW n \in Nodes, Leave(n)
      PROVE  VotesInv'
  <2>1. Members' = Members \ {n}
    BY <1>3 DEF Leave, NetworkTypeOK, Members
  <2>2. \A m \in Members' : votes'[m] = votes[m] /\ syncs'[m] = syncs[m] /\ online'[m] = online[m]
    BY <1>3, <2>1 DEF Leave, StopVoting, NetworkTypeOK, Members
  <2>3. QED
    BY <2>1, <2>2
<1>4. ASSUME NEW n \in Nodes, NEW m \in Nodes, Authenticate(n, m)
      PROVE  VotesInv'
  <2>1. /\ UNCHANGED <<process, votes, syncs>>
        /\ \A k \in Nodes : online[k] \subseteq online'[k]
    BY <1>4 DEF Authenticate, NetworkTypeOK, votingVars
  <2>2. Members' = Members
    BY <2>1 DEF Members
  <2>3. QED
    BY <2>1, <2>2 DEF Members
<1>5. ASSUME NEW n \in Nodes, NEW m \in Nodes, NodeUnavailable(n, m) \/ ConnectionBreaks(n, m)
      PROVE  VotesInv'
  <2>1. /\ m \in online[n]
        /\ online' = [online EXCEPT ![n] = @ \ {m}]
        /\ OnNodeUnavailable(n, m)
        /\ process' = process
    BY <1>5 DEF NodeUnavailable, ConnectionBreaks
  <2>2. QED
    BY <2>1, DisconnectionPreservesVotes
<1>6. CASE UNCHANGED <<process, online, votes, syncs>>
  <2>1. Members' = Members
    BY <1>6 DEF Members
  <2>2. QED
    BY <1>6, <2>1
<1>7. ASSUME NEW n \in Nodes, NEW m \in Nodes, MessageGetsLost(n, m)
      PROVE  UNCHANGED <<process, online, votes, syncs>>
  BY <1>7 DEF MessageGetsLost, peerVars
<1>8. ASSUME NEW account \in RoleChanges, ChangeFederators(account)
      PROVE  UNCHANGED <<process, online, votes, syncs>>
  BY <1>8 DEF ChangeFederators, peerVars, votingVars
<1>9. CASE UNCHANGED vars
  BY <1>6, <1>9 DEF vars, peerVars, votingVars
<1>10. QED
  BY <1>1, <1>2, <1>3, <1>4, <1>5, <1>6, <1>7, <1>8, <1>9,
     VotePreservesVotes, ReceivePreservesVotes DEF Next, Quit, Crash

-----------------------------------------------------------------------------
Inv == AccessControlTypeOK /\ NetworkTypeOK /\ VotesInv

\* The inductive invariant.
LEMMA InvHolds == Spec => []Inv
<1>1. Init => Inv
  BY InitTypes, InitVotes DEF Inv
<1>2. Inv /\ [Next]_vars => Inv'
  BY NextPreservesTypes, NextPreservesVotes DEF Inv
<1>3. QED
  BY <1>1, <1>2, PTL DEF Spec

\* The types of the network, whatever messages get lost and whoever leaves: a
\* process that is gone or waits takes no part in the voting.
THEOREM NetworkTypeCorrect == Spec => []NetworkTypeOK
BY InvHolds, PTL DEF Inv

\* The rest of the node never takes somebody for the initiator who is not online.
THEOREM InitiatorIsAlwaysOnline == Spec => []InitiatorIsOnline
BY InvHolds, PTL DEF Inv, VotesInv

\* Votes of nodes that left are never counted.
THEOREM DepartedNeverHaveVotes == Spec => []DepartedHaveNoVote
BY InvHolds, PTL DEF Inv, VotesInv

\* A node without an initiator is always looking for one.
THEOREM UndecidedNodesAlwaysAsk == Spec => []UndecidedNodesAsk
BY InvHolds, PTL DEF Inv, VotesInv

\* The contract's types and its majorities, in the network of nodes that depend on
\* them.
THEOREM MajoritiesIntersectInTheNetwork == Spec => [](AccessControlTypeOK /\ MajoritiesIntersect)
<1>1. Inv => AccessControlTypeOK /\ MajoritiesIntersect
  BY AcceptedListsIntersect DEF Inv
<1>2. QED
  BY <1>1, InvHolds, PTL

-----------------------------------------------------------------------------
(* A majority keeps its initiator *)

NobodyIsForced == \A n \in Nodes : Forced[n] = NoNode

\* Whom most of the nodes that n sees vote for has the most votes that n knows of.
LEMMA MajorityIsMostPopular ==
    ASSUME NetworkTypeOK, DepartedHaveNoVote, NEW n \in Members, NEW i \in Nodes,
           NEW group \in SUBSET NodeIds(n),
           2 * Cardinality(group) > Cardinality(NodeIds(n)),
           \A m \in group : votes[n][m] = i
    PROVE  MostPopularValue(n) = i
<1> DEFINE Voters(d) == {m \in Nodes : votes[n][m] = d}
           rest == NodeIds(n) \ group
<1>1. n \in Nodes /\ NodeIds(n) \subseteq Nodes /\ IsFiniteSet(Nodes)
  BY VotingAssumption DEF Members, NodeIds, NetworkTypeOK
<1>2. /\ IsFiniteSet(group) /\ IsFiniteSet(rest) /\ IsFiniteSet(NodeIds(n))
      /\ \A d : IsFiniteSet(Voters(d)) /\ Cardinality(Voters(d)) \in Nat
  BY <1>1, FS_Subset, FS_CardinalityType
<1>3. /\ Cardinality(group) \in Nat /\ Cardinality(rest) \in Nat
      /\ Cardinality(NodeIds(n)) = Cardinality(group) + Cardinality(rest)
  <2>1. group \cup rest = NodeIds(n) /\ group \cap rest = {}
    OBVIOUS
  <2>2. Cardinality({}) = 0
    BY FS_EmptySet
  <2>3. /\ Cardinality(group) \in Nat /\ Cardinality(rest) \in Nat
        /\ Cardinality(group \cup rest) =
             Cardinality(group) + Cardinality(rest) - Cardinality(group \cap rest)
    BY <1>2, FS_Union, FS_CardinalityType
  <2>4. /\ Cardinality(group \cup rest) = Cardinality(NodeIds(n))
        /\ Cardinality(group \cap rest) = 0
    BY <2>1, <2>2, Zenon
  <2> HIDE DEF rest
  <2>5. QED
    BY <2>3, <2>4
<1>4. Cardinality(group) <= Cardinality(Voters(i))
  BY <1>1, <1>2, FS_Subset
<1>5. \A d \in Nodes \ {i} : Cardinality(Voters(d)) <= Cardinality(rest)
  <2> SUFFICES ASSUME NEW d \in Nodes \ {i}
               PROVE  Cardinality(Voters(d)) <= Cardinality(rest)
    OBVIOUS
  <2>1. Voters(d) \subseteq rest
    BY VotingAssumption DEF DepartedHaveNoVote
  <2>2. QED
    BY <1>2, <2>1, FS_Subset
<1>6. \A d \in Nodes \ {i} : VotesFor(n, i) > VotesFor(n, d)
  <2>1. \A d : VotesFor(n, d) = Cardinality(Voters(d))
    BY DEF VotesFor
  <2> HIDE DEF Voters, rest
  <2>2. QED
    BY <1>2, <1>3, <1>4, <1>5, <2>1
<1> DEFINE candidates == {votes[n][m] : m \in Nodes} \ {NoNode}
<1>7. i \in candidates /\ candidates \subseteq Nodes
  <2>1. group # {}
    <3>1. Cardinality({}) = 0
      BY FS_EmptySet
    <3>2. QED
      BY <1>3, <3>1
  <2>2. PICK m \in group : votes[n][m] = i
    BY <2>1
  <2>3. m \in Nodes /\ i # NoNode
    BY <1>1, VotingAssumption
  <2>4. candidates \subseteq Nodes
    BY <1>1 DEF NetworkTypeOK
  <2>5. QED
    BY <2>2, <2>3, <2>4
<1>8. \A d : VotesFor(n, d) \in Nat
  BY <1>2 DEF VotesFor
<1> DEFINE Wins(c) == \A d \in candidates \ {c} :
                         \/ VotesFor(n, c) > VotesFor(n, d)
                         \/ VotesFor(n, c) = VotesFor(n, d) /\ c < d
<1>9. Wins(i)
  BY <1>6, <1>7
<1>10. \A c \in candidates : Wins(c) => c = i
  BY <1>6, <1>7, <1>8
<1>11. MostPopularValue(n) = CHOOSE c \in candidates : Wins(c)
  BY <1>7 DEF MostPopularValue
<1> HIDE DEF candidates, Wins
<1>12. QED
  BY <1>7, <1>9, <1>10, <1>11

\* All messages of a queue carry the vote i.
Says(queue, i) == \A k \in DOMAIN queue : queue[k].vote = i

\* One more message that carries i.
LEMMA SaysAfterAppending ==
    ASSUME NEW queue \in Seq(Messages), NEW i, Says(queue, i), NEW msg, msg.vote = i
    PROVE  Says(Append(queue, msg), i)
<1>1. /\ DOMAIN Append(queue, msg) = 1 .. Len(queue) + 1
      /\ \A k \in 1 .. Len(queue) : Append(queue, msg)[k] = queue[k]
      /\ Append(queue, msg)[Len(queue) + 1] = msg
      /\ DOMAIN queue = 1 .. Len(queue) /\ Len(queue) \in Nat
  OBVIOUS
<1>2. \A k \in 1 .. Len(queue) + 1 : k \in 1 .. Len(queue) \/ k = Len(queue) + 1
  BY <1>1
<1>3. QED
  BY <1>1, <1>2 DEF Says

\* The first message is taken off.
LEMMA SaysAfterTaking ==
    ASSUME NEW queue \in Seq(Messages), queue # <<>>, NEW i, Says(queue, i)
    PROVE  Head(queue).vote = i /\ Says(Tail(queue), i)
<1>1. /\ DOMAIN queue = 1 .. Len(queue) /\ Len(queue) \in Nat \ {0}
      /\ Head(queue) = queue[1]
      /\ DOMAIN Tail(queue) = 1 .. Len(queue) - 1
      /\ \A k \in 1 .. Len(queue) - 1 : Tail(queue)[k] = queue[k + 1]
  OBVIOUS
<1>2. \A k \in 1 .. Len(queue) - 1 : k + 1 \in 1 .. Len(queue)
  BY <1>1
<1>3. QED
  BY <1>1, <1>2 DEF Says

\* What the members of the group broadcast carries i, and what others broadcast is
\* not on its way between members of the group.
LEMMA SaysAfterBroadcast ==
    ASSUME NetworkTypeOK, NEW group \in SUBSET Nodes, NEW i, Agreed(group, i),
           NEW n \in Nodes, NEW type, NEW vote, n \in group => vote = i
    PROVE  \A a, b \in group : Says(WithBroadcast(n, type, vote)[a][b], i)
<1> SUFFICES ASSUME NEW a \in group, NEW b \in group
             PROVE  Says(WithBroadcast(n, type, vote)[a][b], i)
  OBVIOUS
<1>1. messages[a][b] \in Seq(Messages) /\ Says(messages[a][b], i)
  BY DEF NetworkTypeOK, Agreed, Says
<1>2. CASE a = n /\ b \in online[n]
  <2>1. WithBroadcast(n, type, vote)[a][b] = Append(messages[a][b], Message(type, vote))
    BY <1>2 DEF WithBroadcast, NetworkTypeOK
  <2>2. Message(type, vote).vote = i
    BY <1>2 DEF Message
  <2>3. QED
    BY <1>1, <2>1, <2>2, SaysAfterAppending
<1>3. CASE ~(a = n /\ b \in online[n])
  <2>1. WithBroadcast(n, type, vote)[a][b] = messages[a][b]
    BY <1>3 DEF WithBroadcast, NetworkTypeOK
  <2>2. QED
    BY <1>1, <2>1
<1>4. QED
  BY <1>2, <1>3

\* A message less is on its way.
LEMMA SaysAfterTakingOne ==
    ASSUME NetworkTypeOK, NEW group \in SUBSET Nodes, NEW i, Agreed(group, i),
           NEW from \in Nodes, NEW to \in Nodes, messages[from][to] # <<>>
    PROVE  /\ \A a, b \in group : Says(Taken(from, to)[a][b], i)
           /\ from \in group /\ to \in group => Head(messages[from][to]).vote = i
<1>1. \A a, b \in group : messages[a][b] \in Seq(Messages) /\ Says(messages[a][b], i)
  BY DEF NetworkTypeOK, Agreed, Says
<1>2. \A a, b \in group :
         Taken(from, to)[a][b] = IF a = from /\ b = to THEN Tail(messages[a][b]) ELSE messages[a][b]
  BY DEF Taken, NetworkTypeOK
<1>3. QED
  BY <1>1, <1>2, SaysAfterTaking

\* A node of the group decides for i, and another one's decision is its own.
LEMMA VoteKeepsAgreement ==
    ASSUME NobodyIsForced, NetworkTypeOK, VotesInv,
           NEW group \in SUBSET Nodes, NEW i \in Nodes, Quorate(group), Agreed(group, i),
           NEW n \in Nodes, Vote(n)
    PROVE  Agreed(group, i)'
<1>1. /\ i \in group
      /\ \A a, b \in group : votes[a][b] = i
      /\ n \in group => InitiatorId(n) = i
  BY DEF Agreed, InitiatorId
<1>2. CASE Ask(n)
  <2>1. votes' = votes /\ messages' = WithBroadcast(n, "sync-request", InitiatorId(n))
    BY <1>2 DEF Ask
  <2>2. \A a, b \in group : Says(messages'[a][b], i)
    BY <1>1, <2>1, SaysAfterBroadcast
  <2>3. QED
    BY <1>1, <2>1, <2>2 DEF Agreed, Says
<1>3. ASSUME NEW tries \in 0 .. Tries - 1, Decide(n, tries)
      PROVE  Agreed(group, i)'
  <2>1. ASSUME n \in group
        PROVE  InitiatorFromNetwork(n) = i
    <3>1. /\ n \in Members
          /\ group \subseteq NodeIds(n)
          /\ 2 * Cardinality(group) > Cardinality(NodeIds(n))
          /\ \A m \in group : votes[n][m] = i
      BY <1>1, <2>1 DEF Quorate
    <3>2. MostPopularValue(n) = i
      BY <3>1, MajorityIsMostPopular DEF VotesInv
    <3>3. ForcedInitiatorId(n) = NoNode
      BY DEF ForcedInitiatorId, NobodyIsForced
    <3>4. QED
      BY <1>1, <3>1, <3>2, <3>3 DEF InitiatorFromNetwork
  <2>2. i # NoNode
    BY VotingAssumption
  <2>3. CASE InitiatorFromNetwork(n) = NoNode /\ tries > 0
    <3>1. n \notin group
      BY <2>1, <2>2, <2>3
    <3>2. votes' = votes /\ messages' = WithBroadcast(n, "sync-request", InitiatorId(n))
      BY <1>3, <2>3 DEF Decide
    <3>3. \A a, b \in group : Says(messages'[a][b], i)
      BY <3>1, <3>2, SaysAfterBroadcast
    <3>4. QED
      BY <1>1, <3>2, <3>3 DEF Agreed, Says
  <2>4. CASE ~(InitiatorFromNetwork(n) = NoNode /\ tries > 0)
    <3> DEFINE id == IF InitiatorFromNetwork(n) # NoNode THEN InitiatorFromNetwork(n)
                     ELSE DefaultInitiatorId(n)
    <3>1. /\ votes' = [votes EXCEPT ![n][n] = id]
          /\ messages' = WithBroadcast(n, "announcement", id)
      BY <1>3, <2>4 DEF Decide
    <3>2. n \in group => id = i
      BY <2>1, <2>2
    <3> HIDE DEF id
    <3>3. \A a, b \in group : Says(messages'[a][b], i)
      BY <3>1, <3>2, SaysAfterBroadcast
    <3>4. \A a, b \in group : votes'[a][b] = i
      BY <1>1, <3>1, <3>2 DEF NetworkTypeOK
    <3>5. QED
      BY <1>1, <3>3, <3>4 DEF Agreed, Says
  <2>5. QED
    BY <2>3, <2>4
<1>4. QED
  BY <1>2, <1>3 DEF Vote

\* Within the group messages carry i, and so do their answers.
LEMMA ReceiveKeepsAgreement ==
    ASSUME NetworkTypeOK, NEW group \in SUBSET Nodes, NEW i \in Nodes, Agreed(group, i),
           NEW from \in Nodes, NEW to \in Nodes, OnMessage(from, to)
    PROVE  Agreed(group, i)'
<1> DEFINE msg == Head(messages[from][to])
           response == Message("sync-response", InitiatorId(to))
<1>1. /\ i \in group
      /\ \A a, b \in group : votes[a][b] = i
      /\ to \in group => InitiatorId(to) = i
  BY DEF Agreed, InitiatorId
<1>2. /\ \A a, b \in group : Says(Taken(from, to)[a][b], i)
      /\ from \in group /\ to \in group => msg.vote = i
      /\ Taken(from, to) \in [Nodes -> [Nodes -> Seq(Messages)]]
  BY SaysAfterTakingOne, QueuesAfterTaking DEF OnMessage
<1>3. \A a, b \in group : votes'[a][b] = i
  <2>1. votes' = votes \/ votes' = [votes EXCEPT ![to][from] = msg.vote]
    BY DEF OnMessage
  <2> HIDE DEF msg
  <2>2. CASE votes' = [votes EXCEPT ![to][from] = msg.vote]
    <3>1. \A a, b \in group :
             votes'[a][b] = IF a = to /\ b = from THEN msg.vote ELSE votes[a][b]
      BY <2>2 DEF NetworkTypeOK
    <3>2. QED
      BY <1>1, <1>2, <3>1
  <2>3. QED
    BY <1>1, <2>1, <2>2
<1>4. \A a, b \in group : Says(messages'[a][b], i)
  <2>1. \/ messages' = Taken(from, to)
        \/ messages' = [Taken(from, to) EXCEPT ![to][from] = Append(@, response)]
    BY DEF OnMessage
  <2>2. to \in group => response.vote = i
    BY <1>1 DEF Message
  <2> HIDE DEF response
  <2>3. CASE messages' = [Taken(from, to) EXCEPT ![to][from] = Append(@, response)]
    <3> SUFFICES ASSUME NEW a \in group, NEW b \in group
                 PROVE  Says(messages'[a][b], i)
      OBVIOUS
    <3>1. messages'[a][b] = IF a = to /\ b = from THEN Append(Taken(from, to)[a][b], response)
                            ELSE Taken(from, to)[a][b]
      BY <1>2, <2>3
    <3>2. Taken(from, to)[a][b] \in Seq(Messages) /\ Says(Taken(from, to)[a][b], i)
      BY <1>2
    <3>3. QED
      BY <2>2, <3>1, <3>2, SaysAfterAppending
  <2>4. QED
    BY <1>2, <2>1, <2>3
<1>5. QED
  BY <1>1, <1>3, <1>4 DEF Agreed, Says

\* A connection within the group does not break: afterwards they would not see each
\* other.
LEMMA DisconnectionKeepsAgreement ==
    ASSUME NetworkTypeOK, NEW group \in SUBSET Nodes, NEW i \in Nodes,
           Agreed(group, i), Quorate(group)',
           NEW n \in Nodes, NEW m \in Nodes,
           m \in online[n],
           online' = [online EXCEPT ![n] = @ \ {m}],
           OnNodeUnavailable(n, m)
    PROVE  Agreed(group, i)'
<1>1. /\ i \in group
      /\ \A a, b \in group : votes[a][b] = i
  BY DEF Agreed
<1>2. n \notin group \/ m \notin group
  <2>1. m # n /\ m \notin online'[n]
    BY DEF NetworkTypeOK
  <2>2. QED
    BY <2>1 DEF Quorate, NodeIds
<1>3. \A a, b \in group : votes'[a][b] = i
  <2>1. n \in group => InitiatorId(n) = i
    BY <1>1 DEF InitiatorId
  <2>2. \/ /\ InitiatorId(n) = m
           /\ votes' = [votes EXCEPT ![n][m] = NoNode, ![n][n] = NoNode]
        \/ votes' = [votes EXCEPT ![n][m] = NoNode]
    BY OnNodeUnavailablePreservesTypes
  <2>3. CASE n \in group
    <3>1. m \notin group /\ m # i
      BY <1>1, <1>2, <2>3
    <3>2. votes' = [votes EXCEPT ![n][m] = NoNode]
      BY <2>1, <2>2, <2>3, <3>1
    <3>3. \A a, b \in group : votes'[a][b] = votes[a][b]
      BY <3>1, <3>2 DEF NetworkTypeOK
    <3>4. QED
      BY <1>1, <3>3
  <2>4. CASE n \notin group
    <3>1. \A a \in group : votes'[a] = votes[a]
      BY <2>2, <2>4 DEF NetworkTypeOK
    <3>2. QED
      BY <1>1, <3>1
  <2>5. QED
    BY <2>3, <2>4
<1>4. \A a, b \in group : Says(messages'[a][b], i)
  <2>1. messages' = [messages EXCEPT ![n][m] = <<>>, ![m][n] = <<>>]
    BY DEF OnNodeUnavailable
  <2>2. \A a, b \in group : messages'[a][b] = messages[a][b]
    BY <1>2, <2>1 DEF NetworkTypeOK
  <2>3. QED
    BY <2>2 DEF Agreed, Says
<1>5. QED
  BY <1>1, <1>3, <1>4 DEF Agreed, Says

\* Every step keeps the agreement of a group that goes on seeing each other.
LEMMA NextKeepsAgreement ==
    ASSUME NobodyIsForced, NetworkTypeOK, VotesInv, Next
    PROVE  AgreementStays
<1> SUFFICES ASSUME NEW group \in SUBSET Nodes, NEW i \in Nodes,
                    Quorate(group), Agreed(group, i), Quorate(group)'
             PROVE  Agreed(group, i)'
  BY DEF AgreementStays
<1>1. ASSUME UNCHANGED <<votes, messages>>
      PROVE  Agreed(group, i)'
  BY <1>1 DEF Agreed
<1>2. ASSUME NEW n \in Nodes, Join(n) \/ GiveUp(n)
      PROVE  UNCHANGED <<votes, messages>>
  BY <1>2 DEF Join, GiveUp, StartVoting, votingVars
<1>3. ASSUME NEW n \in Nodes, Leave(n)
      PROVE  Agreed(group, i)'
  <2>1. n \notin group
    BY <1>3 DEF Leave, Quorate, Members, NetworkTypeOK
  <2>2. \A a, b \in group : votes'[a][b] = votes[a][b] /\ messages'[a][b] = messages[a][b]
    BY <1>3, <2>1 DEF Leave, StopVoting, NetworkTypeOK
  <2>3. QED
    BY <2>2 DEF Agreed
<1>4. ASSUME NEW n \in Nodes, NEW m \in Nodes, Authenticate(n, m)
      PROVE  UNCHANGED <<votes, messages>>
  BY <1>4 DEF Authenticate, votingVars
<1>5. ASSUME NEW n \in Nodes, NEW m \in Nodes, NodeUnavailable(n, m) \/ ConnectionBreaks(n, m)
      PROVE  Agreed(group, i)'
  BY <1>5, DisconnectionKeepsAgreement DEF NodeUnavailable, ConnectionBreaks
<1>6. ASSUME NEW n \in Nodes, NEW m \in Nodes, MessageGetsLost(n, m)
      PROVE  Agreed(group, i)'
  <2>1. /\ votes' = votes
        /\ \A a, b \in group : Says(messages'[a][b], i)
    BY <1>6, SaysAfterTakingOne DEF MessageGetsLost
  <2>2. QED
    BY <2>1 DEF Agreed, Says
<1>7. ASSUME NEW account \in RoleChanges, ChangeFederators(account)
      PROVE  UNCHANGED <<votes, messages>>
  BY <1>7 DEF ChangeFederators, votingVars
<1>8. QED
  BY <1>1, <1>2, <1>3, <1>4, <1>5, <1>6, <1>7, VoteKeepsAgreement, ReceiveKeepsAgreement
     DEF Next, Quit, Crash, Receive

\* Unless operators force an initiator, a majority of the nodes that see each other
\* and agree on one keep it, for any number of nodes and whatever goes wrong.
THEOREM InitiatorSticks ==
    ASSUME NobodyIsForced
    PROVE  Spec => StickyInitiator
<1>1. Inv /\ [Next]_vars => [AgreementStays]_vars
  BY NextKeepsAgreement DEF Inv
<1>2. QED
  BY <1>1, InvHolds, PTL DEF Spec, StickyInitiator
=============================================================================
