-------------------------- MODULE FederatorNetwork --------------------------
(***************************************************************************)
(* The network the federators' nodes form: which processes take part in it *)
(* (statuschecker.ts, networkutil.ts), who is let in (auth.ts), and whom   *)
(* they elect (InitiatorVoting), while the access control contract goes on *)
(* changing.                                                               *)
(***************************************************************************)
EXTENDS FastBTCAccessControl, InitiatorVoting

CONSTANTS
    AddressOf,          \* AddressOf[n]: the RSK account whose key process n holds
    InitialNetworks,    \* the networks behaviours start with (see Init)
    RoleChanges,        \* accounts that become or cease to be federators
    NotCached           \* no peer addresses fetched yet

ASSUME NetworkAssumption ==
    /\ AddressOf \in [Nodes -> Accounts]
    /\ InitialNetworks \subseteq
         [federators : SUBSET Accounts, initiator : Nodes \cup {NoNode},
          left : SUBSET Nodes, faults : Nat]
    /\ \A network \in InitialNetworks :
         network.initiator # NoNode => AddressOf[network.initiator] \in network.federators
    /\ RoleChanges \subseteq Addresses

VARIABLES
    process,      \* process[n]: "waiting", "member" or "gone"
    cached,       \* cached[n]: the peer addresses n fetched last
    faultsLeft    \* how much may still go wrong

peerVars == <<process, cached, online>>
vars == <<roleMembers, peerVars, votingVars, faultsLeft>>

Members == {n \in Nodes : process[n] = "member"}

IsFederator(n) == CheckFederator(AddressOf[n])

\* Something goes wrong, or the federators change.
Fault == faultsLeft > 0 /\ faultsLeft' = faultsLeft - 1

-----------------------------------------------------------------------------
(* StatusChecker and NetworkUtil.enterMainLoop *)

\* waitUntilThisNodeIsAFederator returns; the node joins and starts to vote.
Join(n) ==
    /\ process[n] = "waiting"
    /\ IsFederator(n)
    /\ process' = [process EXCEPT ![n] = "member"]
    /\ StartVoting(n)
    /\ UNCHANGED <<roleMembers, cached, online, faultsLeft>>

\* It waited for two minutes.
GiveUp(n) ==
    /\ process[n] = "waiting"
    /\ ~IsFederator(n)
    /\ process' = [process EXCEPT ![n] = "gone"]
    /\ UNCHANGED <<roleMembers, cached, online, votingVars, faultsLeft>>

Leave(n) ==
    /\ process[n] = "member"
    /\ process' = [process EXCEPT ![n] = "gone"]
    /\ cached' = [cached EXCEPT ![n] = NotCached]
    /\ online' = [online EXCEPT ![n] = {}]
    /\ StopVoting(n)
    /\ UNCHANGED roleMembers

\* makeSureThatThisNodeIsStillAFederator, at the start of an iteration. (When the
\* RSK node does not answer, the iteration goes on.)
Quit(n) == ~IsFederator(n) /\ Leave(n) /\ UNCHANGED faultsLeft

Crash(n) == Fault /\ Leave(n)

-----------------------------------------------------------------------------
(* RSKKeyedAuth *)

\* Wrong: the first list is kept forever.
AddressesCachedForever(n) == IF cached[n] = NotCached THEN {Federators} ELSE {cached[n]}

\* getPeerAddresses: the list n fetched within peerAddressCacheTime, or else the
\* federators of now.
PeerAddresses(n) == {Federators} \cup (IF cached[n] = NotCached THEN {} ELSE {cached[n]})

\* The client and the server challenge each other, and each looks for the
\* address that signed among its peer addresses.
Authenticate(client, server) ==
    /\ {client, server} \subseteq Members
    /\ client # server
    /\ client \notin online[server]
    /\ server \notin online[client]
    /\ \E ofClient \in PeerAddresses(client), ofServer \in PeerAddresses(server) :
         /\ AddressOf[server] \in ofClient
         /\ AddressOf[client] \in ofServer
         /\ cached' = [cached EXCEPT ![client] = ofClient, ![server] = ofServer]
    /\ online' = [online EXCEPT ![client] = @ \cup {server}, ![server] = @ \cup {client}]
    /\ UNCHANGED <<roleMembers, process, votingVars, faultsLeft>>

\* ataraxia notices that m is gone, or gave up the connection itself.
NodeUnavailable(n, m) ==
    /\ m \in online[n]
    /\ n \notin online[m]
    /\ online' = [online EXCEPT ![n] = @ \ {m}]
    /\ OnNodeUnavailable(n, m)
    /\ UNCHANGED <<roleMembers, process, cached, faultsLeft>>

\* The connection breaks, and n notices first.
ConnectionBreaks(n, m) ==
    /\ Fault
    /\ m \in online[n] /\ n \in online[m]
    /\ online' = [online EXCEPT ![n] = @ \ {m}]
    /\ OnNodeUnavailable(n, m)
    /\ UNCHANGED <<roleMembers, process, cached>>

MessageGetsLost(from, to) ==
    /\ Fault
    /\ messages[from][to] # <<>>
    /\ messages' = Taken(from, to)
    /\ UNCHANGED <<roleMembers, peerVars, votes, syncs>>

-----------------------------------------------------------------------------
Vote(n) ==
    /\ process[n] = "member"
    /\ Ask(n) \/ \E tries \in 0 .. Tries - 1 : Decide(n, tries)
    /\ UNCHANGED <<roleMembers, peerVars, faultsLeft>>

Receive(from, to) ==
    /\ OnMessage(from, to)
    /\ UNCHANGED <<roleMembers, peerVars, faultsLeft>>

ChangeFederators(account) ==
    /\ Fault
    /\ \/ ~CheckFederator(account) /\ GrantRole(Deployer, "FEDERATOR", account)
       \/ CheckFederator(account) /\ RevokeRole(Deployer, "FEDERATOR", account)
       \/ CheckFederator(account) /\ RenounceRole(account, "FEDERATOR")
    /\ UNCHANGED <<peerVars, votingVars>>

\* The federators of a network have just started their nodes, or have all
\* settled on an initiator, and some left since and nobody noticed; other
\* processes wait for their role.
InitialState(network) ==
    LET nodes == {n \in Nodes : AddressOf[n] \in network.federators}
        members == nodes \ network.left
        settled == network.initiator # NoNode
    IN  /\ roleMembers = [role \in Roles |->
             CASE role = "ADMIN" -> {Deployer}
               [] role = "FEDERATOR" -> network.federators
               [] OTHER -> {}]
        /\ process = [n \in Nodes |->
             CASE n \in members -> "member" [] n \in network.left -> "gone" [] OTHER -> "waiting"]
        /\ cached = [n \in Nodes |->
             IF settled /\ n \in members THEN network.federators ELSE NotCached]
        /\ online = [n \in Nodes |->
             IF settled /\ n \in members THEN nodes \ {n} ELSE {}]
        /\ votes = [n \in Nodes |-> [m \in Nodes |->
             IF n \in members /\ m \in nodes THEN network.initiator ELSE NoNode]]
        /\ syncs = [n \in Nodes |->
             IF ~settled /\ n \in members THEN SetToBag({Tries}) ELSE EmptyBag]
        /\ messages = [n \in Nodes |-> [m \in Nodes |-> <<>>]]
        /\ faultsLeft = network.faults

Init == \E network \in InitialNetworks : InitialState(network)

Next ==
    \/ \E n \in Nodes :
         \/ Join(n) \/ GiveUp(n) \/ Quit(n) \/ Crash(n)
         \/ Vote(n)
         \/ \E m \in Nodes :
              \/ Authenticate(n, m) \/ NodeUnavailable(n, m) \/ ConnectionBreaks(n, m)
              \/ Receive(n, m) \/ MessageGetsLost(n, m)
    \/ \E account \in RoleChanges : ChangeFederators(account)

Spec == Init /\ [][Next]_vars

\* The timers go on, connections that are possible come about and dead ones are
\* noticed, messages arrive. A node may vote only between bursts of messages, and
\* notices a departure only when a synchronisation has ended, hence SF.
Fairness ==
    /\ WF_vars(\E n \in Nodes : Join(n) \/ GiveUp(n) \/ Quit(n))
    /\ WF_vars(\E n, m \in Nodes : Authenticate(n, m))
    /\ SF_vars(\E n, m \in Nodes : NodeUnavailable(n, m))
    /\ WF_vars(\E n, m \in Nodes : Receive(n, m))
    /\ \A n \in Nodes : SF_vars(Vote(n))

FairSpec == Spec /\ Fairness

-----------------------------------------------------------------------------
\* Type invariant. A process that is not a member has no part in the voting.
NetworkTypeOK ==
    /\ process \in [Nodes -> {"waiting", "member", "gone"}]
    /\ cached \in [Nodes -> {NotCached} \cup SUBSET Accounts]
    /\ online \in [Nodes -> SUBSET Nodes]
    /\ \A n \in Nodes : n \notin online[n]
    /\ votes \in [Nodes -> [Nodes -> Nodes \cup {NoNode}]]
    /\ DOMAIN syncs = Nodes
    /\ \A n \in Nodes : IsABag(syncs[n]) /\ DOMAIN syncs[n] \subseteq 0 .. Tries
    /\ messages \in [Nodes -> [Nodes -> Seq(Messages)]]
    /\ \A n \in Nodes \ Members :
          online[n] = {} /\ syncs[n] = EmptyBag /\ \A m \in Nodes : votes[n][m] = NoNode

\* A node takes nobody for the initiator whom it does not see online, although the
\* others may go on voting for a node that it has found to be gone
\* (initiator.ts:103-110, :149).
InitiatorIsOnline == \A n \in Members : InitiatorId(n) \in NodeIds(n) \cup {NoNode}

\* The vote of a node that left does not count in later elections, although its
\* answers may have been on their way when it left.
DepartedHaveNoVote ==
    \A n \in Members : \A m \in Nodes : votes[n][m] # NoNode => m \in NodeIds(n)

\* A node without an initiator is looking for one already, and does not wait for
\* the timer: in the meantime it would neither propose nor sign anything. The
\* several synchronisations a node may run at once (the note at initiator.ts:159)
\* do not undo each other's result.
UndecidedNodesAsk ==
    \A n \in Members : InitiatorId(n) = NoNode => syncs[n] # EmptyBag

\* The nodes of a group see each other, and few others.
Quorate(group) ==
    /\ group \subseteq Members
    /\ \A n \in group :
          group \subseteq NodeIds(n) /\ 2 * Cardinality(group) > Cardinality(NodeIds(n))

\* They know of each other that they take i for the initiator, and nothing else is
\* on its way between them.
Agreed(group, i) ==
    /\ i \in group
    /\ \A n, m \in group : /\ votes[n][m] = i
                           /\ \A k \in DOMAIN messages[n][m] : messages[n][m][k].vote = i

AgreementStays ==
    \A group \in SUBSET Nodes, i \in Nodes :
        Quorate(group) /\ Agreed(group, i) /\ Quorate(group)' => Agreed(group, i)'

\* "A 'sticky' initiator so it doesn't change randomly" (initiator.ts:17): as long
\* as more than half of the nodes that any of them sees agree, they go on agreeing,
\* whoever else comes, leaves, crashes or votes, and whatever messages get lost.
StickyInitiator == [][AgreementStays]_vars

OneInitiator ==
    \E i \in Members :
        IsFederator(i) /\ IsThisNodeInitiator(i) /\ \A n \in Members : InitiatorId(n) = i

\* When no more faults happen and the federators stay the same, the nodes end up
\* with one initiator, which is one of them and a federator, and keep it: two
\* initiators would propose conflicting batches, and none would propose any.
OneInitiatorInTheEnd == <>[](Members # {} => OneInitiator)
=============================================================================
