-------------------------- MODULE InitiatorVoting --------------------------
(***************************************************************************)
(* initiator.ts and nodevalues.ts: how a node settles on the initiator.    *)
(*                                                                         *)
(* Each node keeps the vote of every node it heard of, its own among them, *)
(* and from time to time synchronises: it tells its vote to the others,    *)
(* waits two seconds for their votes, and adopts the most popular one. If  *)
(* nothing comes of that it asks again, and in the end elects the smallest *)
(* id. Its own vote is whom the rest of the node takes for the initiator.  *)
(*                                                                         *)
(* Which nodes are online is up to the peer-to-peer network (the library   *)
(* ataraxia), which delivers the messages of a connection in order and     *)
(* drops those of nodes it does not know. Whoever extends this module      *)
(* changes it.                                                             *)
(***************************************************************************)
EXTENDS Naturals, FiniteSets, Sequences, Bags

CONSTANTS
    Nodes,      \* network ids; a process draws a new one when it starts
    NoNode,     \* null
    Forced,     \* Forced[n]: FASTBTC_FORCED_INITIATOR_ID of n, or NoNode
    Tries,      \* how often a synchronisation asks
    MaxSyncs,   \* bound on the synchronisations a node runs at once
    MaxAsking   \* bound on the nodes that wait for votes at once

ASSUME VotingAssumption ==
    /\ Nodes \subseteq Nat
    /\ IsFiniteSet(Nodes)
    /\ NoNode \notin Nodes
    /\ Forced \in [Nodes -> Nodes \cup {NoNode}]
    /\ Tries \in Nat \ {0}
    /\ MaxSyncs \in Nat \ {0}
    /\ MaxAsking \in Nat \ {0}

VARIABLES
    online,     \* online[n]: the other nodes in network.nodes of n
    votes,      \* votes[n][m]: the vote of m as n knows it
    syncs,      \* syncs[n]: how many tries each synchronisation of n has left
    messages    \* messages[n][m]: requests and responses on their way from n to m

votingVars == <<votes, syncs, messages>>

Message(type, vote) == [type |-> type, vote |-> vote]

Messages == [type : {"sync-request", "sync-response", "announcement"}, vote : Nodes \cup {NoNode}]

\* getNodeIds: the nodes online, including n.
NodeIds(n) == online[n] \cup {n}

\* getInitiatorId.
InitiatorId(n) == votes[n][n]

IsThisNodeInitiator(n) == InitiatorId(n) = n

\* getForcedInitiatorId ("me" is n).
ForcedInitiatorId(n) == IF Forced[n] \in NodeIds(n) THEN Forced[n] ELSE NoNode

VotesFor(n, candidate) == Cardinality({m \in Nodes : votes[n][m] = candidate})

\* Wrong: the smallest of the ids voted for.
SmallestValue(n) ==
    LET candidates == {votes[n][m] : m \in Nodes} \ {NoNode}
    IN  IF candidates = {} THEN NoNode
        ELSE CHOOSE c \in candidates : \A d \in candidates : c <= d

\* getMostPopularValue: the most votes, then the smallest id.
MostPopularValue(n) ==
    LET candidates == {votes[n][m] : m \in Nodes} \ {NoNode}
    IN  IF candidates = {} THEN NoNode
        ELSE CHOOSE c \in candidates : \A d \in candidates \ {c} :
                \/ VotesFor(n, c) > VotesFor(n, d)
                \/ VotesFor(n, c) = VotesFor(n, d) /\ c < d

\* Wrong: whether that node is still online does not matter.
InitiatorOnlineOrNot(n) ==
    IF ForcedInitiatorId(n) # NoNode THEN ForcedInitiatorId(n) ELSE MostPopularValue(n)

\* The initiator that one try finds, if any.
InitiatorFromNetwork(n) ==
    LET id == IF ForcedInitiatorId(n) # NoNode THEN ForcedInitiatorId(n)
              ELSE MostPopularValue(n)
    IN  IF id \in NodeIds(n) THEN id ELSE NoNode

\* getDefaultInitiatorId.
DefaultInitiatorId(n) ==
    IF ForcedInitiatorId(n) # NoNode THEN ForcedInitiatorId(n)
    ELSE CHOOSE id \in NodeIds(n) : \A other \in NodeIds(n) : id <= other

\* network.broadcast: to every node online.
WithBroadcast(n, type, vote) ==
    [messages EXCEPT ![n] = [m \in Nodes |->
        IF m \in online[n] THEN Append(@[m], Message(type, vote)) ELSE @[m]]]

-----------------------------------------------------------------------------
(* syncInitiatorFromNetwork *)

HasRoomForSync(n) == BagCardinality(syncs[n]) < MaxSyncs

\* A synchronisation begins, and sleeps first.
WithSync(n) == [syncs EXCEPT ![n] = @ (+) SetToBag({Tries})]

\* Nodes that asked and wait for votes.
Asking == {n \in Nodes : \E tries \in 0 .. Tries - 1 : BagIn(tries, syncs[n])}

\* A synchronisation asks for the first time: one that began when the initiator
\* left or the node started, or one of the timer. The latter reads nothing
\* before it asks, so it begins here.
Ask(n) ==
    /\ Cardinality(Asking \ {n}) < MaxAsking
    /\ \/ syncs[n] = EmptyBag /\ syncs' = [syncs EXCEPT ![n] = SetToBag({Tries - 1})]
       \/ /\ BagIn(Tries, syncs[n])
          /\ syncs' = [syncs EXCEPT ![n] = (@ (-) SetToBag({Tries})) (+) SetToBag({Tries - 1})]
    /\ messages' = WithBroadcast(n, "sync-request", InitiatorId(n))
    /\ UNCHANGED votes

\* Nothing that n asked is on its way, nor an answer to it.
Answered(n) ==
    \A m \in Nodes : /\ \A i \in DOMAIN messages[n][m] : messages[n][m][i].type # "sync-request"
                    /\ \A i \in DOMAIN messages[m][n] : messages[m][n][i].type # "sync-response"

\* Two seconds after a request, when the answers have arrived that will: try
\* again, or settle on an initiator and announce it. (The code announces it in a
\* sync-response, too.)
Decide(n, tries) ==
    /\ tries < Tries
    /\ BagIn(tries, syncs[n])
    /\ Answered(n)
    /\ IF InitiatorFromNetwork(n) = NoNode /\ tries > 0
       THEN /\ syncs' = [syncs EXCEPT ![n] =
                            (@ (-) SetToBag({tries})) (+) SetToBag({tries - 1})]
            /\ messages' = WithBroadcast(n, "sync-request", InitiatorId(n))
            /\ votes' = votes
       ELSE LET id == IF InitiatorFromNetwork(n) # NoNode THEN InitiatorFromNetwork(n)
                      ELSE DefaultInitiatorId(n)
            IN  /\ votes' = [votes EXCEPT ![n][n] = id]
                /\ syncs' = [syncs EXCEPT ![n] = @ (-) SetToBag({tries})]
                /\ messages' = WithBroadcast(n, "announcement", id)

-----------------------------------------------------------------------------
(* Events of the network *)

\* The message at the head of messages[from][to] arrives, or is lost.
Taken(from, to) == [messages EXCEPT ![from][to] = Tail(@)]

\* onMessage. A request is answered with this node's vote.
OnMessage(from, to) ==
    /\ messages[from][to] # <<>>
    /\ LET msg == Head(messages[from][to]) IN
       IF from \in online[to]
       THEN /\ votes' = [votes EXCEPT ![to][from] = msg.vote]
            /\ messages' =
                 IF msg.type = "sync-request"
                 THEN [Taken(from, to) EXCEPT ![to][from] =
                          Append(@, Message("sync-response", InitiatorId(to)))]
                 ELSE Taken(from, to)
       ELSE /\ messages' = Taken(from, to)
            /\ votes' = votes
    /\ UNCHANGED syncs

\* Wrong: only the vote of the initiator is forgotten.
OnlyTheInitiatorIsForgotten(n, m) ==
    /\ IF InitiatorId(n) = m
       THEN /\ HasRoomForSync(n)
            /\ votes' = [votes EXCEPT ![n][m] = NoNode, ![n][n] = NoNode]
            /\ syncs' = WithSync(n)
       ELSE UNCHANGED <<votes, syncs>>
    /\ messages' = [messages EXCEPT ![n][m] = <<>>, ![m][n] = <<>>]

\* Wrong: the timer will synchronise some time.
NoSyncWhenTheInitiatorLeaves(n, m) ==
    /\ votes' = [votes EXCEPT ![n][m] = NoNode,
                              ![n][n] = IF votes[n][n] = m THEN NoNode ELSE @]
    /\ syncs' = syncs
    /\ messages' = [messages EXCEPT ![n][m] = <<>>, ![m][n] = <<>>]

\* onNodeUnavailable: the vote of m is forgotten; if m was the initiator, so is
\* the own vote, and another synchronisation begins. What was on its way between
\* the two is lost with the connection.
OnNodeUnavailable(n, m) ==
    /\ IF InitiatorId(n) = m
       THEN /\ HasRoomForSync(n)
            /\ votes' = [votes EXCEPT ![n][m] = NoNode, ![n][n] = NoNode]
            /\ syncs' = WithSync(n)
       ELSE /\ votes' = [votes EXCEPT ![n][m] = NoNode]
            /\ syncs' = syncs
    /\ messages' = [messages EXCEPT ![n][m] = <<>>, ![m][n] = <<>>]

\* n starts: InitiatorVoting.start begins with a synchronisation.
StartVoting(n) ==
    /\ syncs' = WithSync(n)
    /\ UNCHANGED <<votes, messages>>

\* Wrong: the synchronisations go on.
StopButGoOnVoting(n) ==
    /\ votes' = [votes EXCEPT ![n] = [m \in Nodes |-> NoNode]]
    /\ syncs' = syncs
    /\ messages' = [m \in Nodes |-> [messages[m] EXCEPT ![n] = <<>>]]

\* The process of n is gone, and with it all it knew.
StopVoting(n) ==
    /\ votes' = [votes EXCEPT ![n] = [m \in Nodes |-> NoNode]]
    /\ syncs' = [syncs EXCEPT ![n] = EmptyBag]
    /\ messages' = [m \in Nodes |-> [messages[m] EXCEPT ![n] = <<>>]]
=============================================================================
