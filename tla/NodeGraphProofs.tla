--------------------------- MODULE NodeGraphProofs ---------------------------
(***************************************************************************)
(* Proofs about NodeGraph: types and addresses in any case, and that       *)
(* entities are found and writes routed as long as no identifier has been  *)
(* repeated or read too early.  At the end, about Proquint: the name of an *)
(* identifier is read as that identifier.                                  *)
(***************************************************************************)
EXTENDS NodeGraph, Proquint, SequenceTheorems, TLAPS

(* The pieces every action is made of keep to the types.                   *)
LEMMA InsertType ==
  ASSUME NEW D, NEW V, NEW m \in [D -> V \cup {NoEntity}], NEW k \in D, NEW v \in V
  PROVE  Insert(m, k, v) \in [D -> V \cup {NoEntity}]
BY DEF Insert

(* An address is a topic.                                                  *)
LEMMA AddressType ==
  ASSUME TypeOK, NEW p \in InputPort \cup ParameterPort, NEW i \in Ids
  PROVE  Address(p, i) \in Topic
BY DEF TypeOK, Address, InputPortFullPath, Topic, InputPort, ParameterPort

(* Connecting the receiving end keeps the types of its three variables.    *)
LEMMA ReceivingEndType ==
  ASSUME TypeOK, NEW p \in InputPort \cup ParameterPort, NEW i \in Ids,
         ConnectReceivingEnd(p, i)
  PROVE  /\ topic' \in [InputPort \cup ParameterPort -> Topic \cup {NoTopic}]
         /\ channels' \in [Topic -> InputPort \cup {NoEntity}]
         /\ subscribers' \in [Topic -> SUBSET ParameterPort]
<1>1. Address(p, i) \in Topic
  BY AddressType
<1>2. topic' \in [InputPort \cup ParameterPort -> Topic \cup {NoTopic}]
  BY <1>1 DEF TypeOK, ConnectReceivingEnd
<1>3. channels' \in [Topic -> InputPort \cup {NoEntity}]
  <2>1. CASE topic[p] = NoTopic /\ p \in InputPort
    <3>1. channels \in [Topic -> InputPort \cup {NoEntity}]
      BY DEF TypeOK
    <3>2. Insert(channels, Address(p, i), p) \in [Topic -> InputPort \cup {NoEntity}]
      BY <1>1, <2>1, <3>1, InsertType
    <3> QED BY <2>1, <3>2 DEF ConnectReceivingEnd
  <2>2. CASE ~(topic[p] = NoTopic /\ p \in InputPort)
    BY <2>2 DEF TypeOK, ConnectReceivingEnd
  <2> QED BY <2>1, <2>2
<1>4. subscribers' \in [Topic -> SUBSET ParameterPort]
  <2>1. CASE topic[p] = NoTopic /\ p \in ParameterPort
    BY <1>1, <2>1 DEF TypeOK, ConnectReceivingEnd
  <2>2. CASE ~(topic[p] = NoTopic /\ p \in ParameterPort)
    BY <2>2 DEF TypeOK, ConnectReceivingEnd
  <2> QED BY <2>1, <2>2
<1> QED BY <1>2, <1>3, <1>4

(* Giving out an identifier keeps the types of the workspace.              *)
LEMMA AssignIdType ==
  ASSUME NodeGraphAssumption, TypeOK, NEW e \in Entities, NEW x \in Ids, AssignId(e, x)
  PROVE  /\ idDictionary' \in SUBSET Ids
         /\ owner' \in [Ids -> Entities \cup {NoEntity}]
BY DEF NodeGraphAssumption, TypeOK, AssignId

(* Each step keeps every variable's type.                                  *)
LEMMA TypeStep == TypeOK /\ [Next]_vars => TypeOK'
<1> USE NodeGraphAssumption
<1> SUFFICES ASSUME TypeOK, [Next]_vars PROVE TypeOK'
  OBVIOUS
<1>1. ASSUME NEW g \in Graphs, NEW x \in Ids, CreateEmptyGraph(g, x)
      PROVE  TypeOK'
  <2>1. /\ idDictionary' \in SUBSET Ids
        /\ owner' \in [Ids -> Entities \cup {NoEntity}]
    BY <1>1, AssignIdType DEF CreateEmptyGraph, Entities
  <2>2. graphs' \in [Ids -> Graphs \cup {NoEntity}]
    BY <1>1, InsertType DEF CreateEmptyGraph, TypeOK
  <2>3. id' \in [Entities -> Ids \cup {NoId}]
    BY <1>1 DEF CreateEmptyGraph, TypeOK, Entities
  <2>4. faults' \in 0 .. MaxFaults
    BY <1>1 DEF CreateEmptyGraph, TypeOK, NodeGraphAssumption, Repeated
  <2> QED BY <1>1, <2>1, <2>2, <2>3, <2>4 DEF CreateEmptyGraph, TypeOK, portVars
<1>2. ASSUME NEW g \in Graphs, NEW x \in Ids, NEW n \in Nodes, AddNode(g, n, x)
      PROVE  TypeOK'
  <2>1. /\ idDictionary' \in SUBSET Ids
        /\ owner' \in [Ids -> Entities \cup {NoEntity}]
    BY <1>2, AssignIdType DEF AddNode, Entities
  <2>2. nodes' \in [Graphs -> [Ids -> Nodes \cup {NoEntity}]]
    <3>1. nodes[g] \in [Ids -> Nodes \cup {NoEntity}]
      BY DEF TypeOK
    <3>2. Insert(nodes[g], x, n) \in [Ids -> Nodes \cup {NoEntity}]
      BY <3>1, InsertType
    <3> QED BY <1>2, <3>2 DEF AddNode, TypeOK
  <2>3. id' \in [Entities -> Ids \cup {NoId}]
    BY <1>2 DEF AddNode, TypeOK, Entities
  <2>4. parent' \in [Nodes -> Graphs \cup {NoEntity}]
    BY <1>2 DEF AddNode, TypeOK
  <2>5. faults' \in 0 .. MaxFaults
    BY <1>2 DEF AddNode, TypeOK, NodeGraphAssumption, Repeated
  <2> QED BY <1>2, <2>1, <2>2, <2>3, <2>4, <2>5 DEF AddNode, TypeOK, portVars
<1>3. ASSUME NEW g \in Graphs, NEW x \in Ids, NEW c \in Connections,
             NEW o \in OutputPort, NEW p \in InputPort \cup ParameterPort,
             NEW i \in Ids, AddConnection(g, c, o, p, i, x)
      PROVE  TypeOK'
  <2>1. /\ idDictionary' \in SUBSET Ids
        /\ owner' \in [Ids -> Entities \cup {NoEntity}]
    BY <1>3, AssignIdType DEF AddConnection, Entities
  <2>2. /\ topic' \in [InputPort \cup ParameterPort -> Topic \cup {NoTopic}]
        /\ channels' \in [Topic -> InputPort \cup {NoEntity}]
        /\ subscribers' \in [Topic -> SUBSET ParameterPort]
    BY <1>3, ReceivingEndType DEF AddConnection
  <2>3. pub' \in [OutputPort -> Topic \cup {NoTopic}]
    BY <1>3, AddressType DEF AddConnection, TypeOK
  <2>4. linked' \in [OutputPort -> InputPort \cup ParameterPort \cup {NoEntity}]
    BY <1>3 DEF AddConnection, TypeOK
  <2>5. connections' \in [Graphs -> [Ids -> Connections \cup {NoEntity}]]
    <3>1. connections[g] \in [Ids -> Connections \cup {NoEntity}]
      BY DEF TypeOK
    <3>2. Insert(connections[g], x, c) \in [Ids -> Connections \cup {NoEntity}]
      BY <3>1, InsertType
    <3> QED BY <1>3, <3>2 DEF AddConnection, TypeOK
  <2>6. id' \in [Entities -> Ids \cup {NoId}]
    BY <1>3 DEF AddConnection, TypeOK, Entities, InputPort, ParameterPort
  <2>7. faults' \in 0 .. MaxFaults
    BY <1>3 DEF AddConnection, TypeOK, NodeGraphAssumption, Repeated, Early
  <2> QED BY <1>3, <2>1, <2>2, <2>3, <2>4, <2>5, <2>6, <2>7 DEF AddConnection, TypeOK
<1>4. CASE UNCHANGED vars
  BY <1>4 DEF TypeOK, vars, workspaceVars, portVars
<1> QED BY <1>1, <1>2, <1>3, <1>4 DEF Next

(* The first state is well typed.                                          *)
LEMMA TypeInit == Init => TypeOK
BY NodeGraphAssumption DEF NodeGraphAssumption, Init, TypeOK, Entities

(* Every variable keeps its type (workspace.cc, graph.h, the ports).       *)
THEOREM TypeCorrect == Spec => []TypeOK
<1>1. Init => TypeOK
  BY TypeInit
<1>2. TypeOK /\ [Next]_vars => TypeOK'
  BY TypeStep
<1> QED BY <1>1, <1>2, PTL DEF Spec

-------------------------------------------------------------------------------
(* Every address of an input port is an open channel, and who receives     *)
(* from a channel has its name for an address.                             *)
ChannelsAnswer ==
  /\ \A p \in InputPort : topic[p] # NoTopic => channels[topic[p]] # NoEntity
  /\ \A t \in Topic : channels[t] # NoEntity => topic[channels[t]] = t

(* A connected output port has the address of its port.                    *)
LinksKnown ==
  \A o \in OutputPort :
    linked[o] # NoEntity => topic[linked[o]] # NoTopic /\ pub[o] = topic[linked[o]]

AddressInv == TypeOK /\ ChannelsAnswer /\ LinksKnown

(* Connecting a port gives it an address and leaves the others theirs.     *)
LEMMA ConnectNames ==
  ASSUME NodeGraphAssumption, TypeOK,
         NEW p \in InputPort \cup ParameterPort, NEW i \in Ids,
         ConnectReceivingEnd(p, i)
  PROVE  /\ Address(p, i) \in Topic /\ topic'[p] = Address(p, i) /\ topic'[p] # NoTopic
         /\ \A q \in InputPort \cup ParameterPort : q # p => topic'[q] = topic[q]
         /\ \A q \in InputPort \cup ParameterPort :
              topic[q] # NoTopic => topic'[q] = topic[q]
<1>1. Address(p, i) \in Topic /\ Address(p, i) # NoTopic
  BY AddressType DEF NodeGraphAssumption, Topic
<1>2. topic' = [topic EXCEPT ![p] = Address(p, i)]
  BY DEF ConnectReceivingEnd
<1>3. topic'[p] = Address(p, i) /\ \A q \in InputPort \cup ParameterPort : q # p => topic'[q] = topic[q]
  BY <1>2 DEF TypeOK
<1> QED BY <1>1, <1>3 DEF Address

(* Connecting a port opens its channel, or finds that one of that name     *)
(* answers.                                                                *)
LEMMA ConnectAnswers ==
  ASSUME NodeGraphAssumption, TypeOK, ChannelsAnswer,
         NEW p \in InputPort \cup ParameterPort, NEW i \in Ids,
         ConnectReceivingEnd(p, i)
  PROVE  ChannelsAnswer'
<1> DEFINE t == Address(p, i)
<1>1. /\ t \in Topic /\ topic'[p] = t /\ topic'[p] # NoTopic
      /\ \A q \in InputPort \cup ParameterPort : q # p => topic'[q] = topic[q]
      /\ \A q \in InputPort \cup ParameterPort : topic[q] # NoTopic => topic'[q] = topic[q]
  BY ConnectNames
<1>2. NoTopic \notin Topic
  BY DEF NodeGraphAssumption, Topic
<1>3. \A u \in Topic : channels[u] # NoEntity =>
        channels[u] \in InputPort /\ topic'[channels[u]] = u
  BY <1>1, <1>2 DEF ChannelsAnswer, TypeOK
<1>4. CASE channels' = channels /\ (topic[p] # NoTopic \/ p \notin InputPort)
  BY <1>1, <1>3, <1>4 DEF ChannelsAnswer
<1>5. CASE topic[p] = NoTopic /\ p \in InputPort
  <2>1. channels' = Insert(channels, t, p)
    BY <1>5 DEF ConnectReceivingEnd
  <2>2. p # NoEntity
    BY <1>5 DEF InputPort, NodeGraphAssumption
  <2>3. channels'[t] # NoEntity
    BY <1>1, <2>1, <2>2 DEF Insert, TypeOK
  <2>4. \A u \in Topic : channels[u] # NoEntity => channels'[u] = channels[u]
    BY <1>1, <2>1 DEF Insert, TypeOK
  <2>5. \A u \in Topic : channels[u] = NoEntity /\ channels'[u] # NoEntity =>
          u = t /\ channels'[u] = p
    BY <1>1, <2>1 DEF Insert, TypeOK
  <2>6. \A q \in InputPort : topic'[q] # NoTopic => channels'[topic'[q]] # NoEntity
    <3> SUFFICES ASSUME NEW q \in InputPort, topic'[q] # NoTopic
                 PROVE  channels'[topic'[q]] # NoEntity
      OBVIOUS
    <3>1. CASE q = p
      BY <1>1, <2>3, <3>1
    <3>2. CASE q # p
      <4>1. topic'[q] = topic[q] /\ topic[q] \in Topic /\ channels[topic[q]] # NoEntity
        BY <1>1, <3>2 DEF TypeOK, ChannelsAnswer
      <4> QED BY <2>4, <4>1
    <3> QED BY <3>1, <3>2
  <2> QED BY <1>1, <1>3, <2>4, <2>5, <2>6 DEF ChannelsAnswer
<1> QED BY <1>4, <1>5 DEF ConnectReceivingEnd

(* Whatever the identifiers, addresses, channels and connections stay in   *)
(* step (inputport.h, outputport.h, connection.h).                         *)
THEOREM AddressInvariance == Spec => []AddressInv
<1> USE NodeGraphAssumption
<1>1. Init => AddressInv
  <2> SUFFICES ASSUME Init PROVE AddressInv
    OBVIOUS
  <2>1. TypeOK
    BY TypeInit
  <2> QED BY <2>1 DEF Init, AddressInv, ChannelsAnswer, LinksKnown
<1>2. AddressInv /\ [Next]_vars => AddressInv'
  <2> SUFFICES ASSUME AddressInv, TypeOK', [Next]_vars PROVE AddressInv'
    BY TypeStep DEF AddressInv
  <2> USE DEF AddressInv
  <2>1. ASSUME UNCHANGED portVars PROVE AddressInv'
    BY <2>1 DEF portVars, ChannelsAnswer, LinksKnown
  <2>2. ASSUME NEW g \in Graphs, NEW x \in Ids, CreateEmptyGraph(g, x)
        PROVE  AddressInv'
    BY <2>1, <2>2 DEF CreateEmptyGraph
  <2>3. ASSUME NEW g \in Graphs, NEW x \in Ids, NEW n \in Nodes, AddNode(g, n, x)
        PROVE  AddressInv'
    BY <2>1, <2>3 DEF AddNode
  <2>4. ASSUME NEW g \in Graphs, NEW x \in Ids, NEW c \in Connections,
               NEW o \in OutputPort, NEW p \in InputPort \cup ParameterPort,
               NEW i \in Ids, AddConnection(g, c, o, p, i, x)
        PROVE  AddressInv'
    <3>1. ConnectReceivingEnd(p, i)
      BY <2>4 DEF AddConnection
    <3>2. ChannelsAnswer'
      BY <3>1, ConnectAnswers
    <3>3. LinksKnown'
      <4> SUFFICES ASSUME NEW u \in OutputPort, linked'[u] # NoEntity
                   PROVE  topic'[linked'[u]] # NoTopic /\ pub'[u] = topic'[linked'[u]]
        BY DEF LinksKnown
      <4>1. CASE u = o
        <5>1. linked'[u] = p /\ pub'[u] = Address(p, i)
          BY <2>4, <4>1 DEF AddConnection, TypeOK
        <5> QED BY <3>1, <5>1, ConnectNames
      <4>2. CASE u # o
        <5>1. linked'[u] = linked[u] /\ pub'[u] = pub[u]
          BY <2>4, <4>2 DEF AddConnection, TypeOK
        <5>2. linked[u] \in InputPort \cup ParameterPort
          BY <5>1 DEF TypeOK
        <5>3. topic[linked[u]] # NoTopic /\ pub[u] = topic[linked[u]]
          BY <5>1 DEF LinksKnown
        <5> QED BY <3>1, <5>1, <5>2, <5>3, ConnectNames
      <4> QED BY <4>1, <4>2
    <3> QED BY <3>2, <3>3
  <2>5. CASE UNCHANGED vars
    BY <2>1, <2>5 DEF vars
  <2> QED BY <2>2, <2>3, <2>4, <2>5 DEF Next
<1> QED BY <1>1, <1>2, PTL DEF Spec

(* A write to a connected output port is not dropped, and its receiver has *)
(* the address of the port connected (outputport.h), whatever happens to   *)
(* the identifiers.                                                        *)
THEOREM AddressesAreKnown == Spec => []AddressKnown
<1>1. AddressInv => AddressKnown
  <2> SUFFICES ASSUME AddressInv, NEW o \in OutputPort, linked[o] \in InputPort
               PROVE  Receiver(o) # NoEntity /\ topic[Receiver(o)] = topic[linked[o]]
    BY DEF AddressKnown
  <2>1. linked[o] # NoEntity
    BY NodeGraphAssumption DEF NodeGraphAssumption, InputPort
  <2>2. topic[linked[o]] # NoTopic /\ pub[o] = topic[linked[o]]
    BY <2>1 DEF AddressInv, LinksKnown
  <2>3. pub[o] \in Topic /\ pub[o] # NoTopic
    BY <2>2 DEF AddressInv, TypeOK
  <2>4. channels[pub[o]] # NoEntity /\ topic[channels[pub[o]]] = pub[o]
    BY <2>2, <2>3 DEF AddressInv, ChannelsAnswer
  <2> QED BY <2>2, <2>3, <2>4 DEF Receiver
<1> QED BY <1>1, AddressInvariance, PTL

-------------------------------------------------------------------------------
(* As long as nothing has gone wrong with the identifiers: a key of a map  *)
(* has been given out, and an identifier belongs to who has it.            *)
KeysGivenOut ==
  /\ \A y \in Ids : graphs[y] # NoEntity => owner[y] # NoEntity
  /\ \A g \in Graphs, y \in Ids : nodes[g][y] # NoEntity => owner[y] # NoEntity
  /\ \A g \in Graphs, y \in Ids : connections[g][y] # NoEntity => owner[y] # NoEntity
  /\ \A e \in Entities : id[e] # NoId => owner[id[e]] = e
  /\ \A n \in Nodes : parent[n] # NoEntity => id[n] # NoId

(* A port's address carries its label and an identifier of its node, the   *)
(* present one or one it had.                                              *)
TopicsOwned ==
  \A p \in InputPort \cup ParameterPort :
    topic[p] # NoTopic => topic[p][1] = p[2] /\ owner[topic[p][2]] = p[1]

OwnersInv == KeysGivenOut /\ EverythingFound /\ TopicsOwned

RouteInv == AddressInv /\ (faults = 0 => OwnersInv)

(* An identifier that is not repeated had no owner, and the others keep    *)
(* theirs.                                                                 *)
LEMMA FreshOwner ==
  ASSUME NodeGraphAssumption, TypeOK, NEW e \in Entities, NEW x \in Ids,
         AssignId(e, x), Repeated(x) = 0
  PROVE  /\ owner[x] = NoEntity
         /\ owner'[x] = e /\ e # NoEntity
         /\ \A y \in Ids : owner[y] # NoEntity => y # x /\ owner'[y] = owner[y]
BY DEF NodeGraphAssumption, TypeOK, AssignId, Repeated

(* If nothing has gone wrong after a step, nothing had before it.          *)
LEMMA NotRepeated ==
  ASSUME NodeGraphAssumption, TypeOK, NEW x \in Ids,
         faults' = 0, faults' = faults + Repeated(x)
  PROVE  faults = 0 /\ Repeated(x) = 0
BY DEF TypeOK, Repeated, NodeGraphAssumption

LEMMA NotEarly ==
  ASSUME NodeGraphAssumption, TypeOK, NEW x \in Ids, NEW n \in Nodes,
         faults' = 0, faults' = faults + Repeated(x) + Early(n)
  PROVE  faults = 0 /\ Repeated(x) = 0 /\ id[n] # NoId
<1>1. faults \in Nat /\ Repeated(x) \in {0, 1} /\ Early(n) \in {0, 1}
  BY DEF TypeOK, Repeated, Early, NodeGraphAssumption
<1>2. faults = 0 /\ Repeated(x) = 0 /\ Early(n) = 0
  BY <1>1
<1> QED BY <1>2 DEF Early

(* An identifier that is in use is not the fresh one.                      *)
LEMMA StaysKnown ==
  ASSUME NodeGraphAssumption, TypeOK, KeysGivenOut, NEW x \in Ids, owner[x] = NoEntity,
         NEW e \in Entities, id[e] # NoId
  PROVE  id[e] \in Ids /\ id[e] # x
BY DEF TypeOK, KeysGivenOut, NodeGraphAssumption

(* Identifiers keep their owners when a fresh one is given out.            *)
LEMMA KeysStay ==
  ASSUME NodeGraphAssumption, TypeOK, KeysGivenOut, NEW x \in Ids, NEW e \in Entities,
         owner[x] = NoEntity, owner'[x] = e, id' = [id EXCEPT ![e] = x],
         \A y \in Ids : owner[y] # NoEntity => owner'[y] = owner[y]
  PROVE  /\ \A f \in Entities : id'[f] # NoId => owner'[id'[f]] = f
         /\ \A f \in Entities : id[f] # NoId => id'[f] # NoId
         /\ id'[e] # NoId
<1> SUFFICES ASSUME NEW f \in Entities
             PROVE  /\ id'[f] # NoId => owner'[id'[f]] = f
                    /\ id[f] # NoId => id'[f] # NoId
                    /\ id'[e] # NoId
  OBVIOUS
<1>1. id'[e] = x /\ x # NoId /\ (f # e => id'[f] = id[f])
  BY DEF TypeOK, NodeGraphAssumption
<1>2. f # NoEntity
  BY DEF NodeGraphAssumption
<1>3. CASE f = e
  BY <1>1, <1>3
<1>4. CASE f # e
  BY <1>1, <1>2, <1>4 DEF KeysGivenOut, TypeOK
<1> QED BY <1>3, <1>4

(* Topics stay owned when ownership is only added to and no port is named. *)
LEMMA TopicsStay ==
  ASSUME NodeGraphAssumption, TypeOK, TopicsOwned, topic' = topic,
         \A y \in Ids : owner[y] # NoEntity => owner'[y] = owner[y]
  PROVE  TopicsOwned'
<1> SUFFICES ASSUME NEW p \in InputPort \cup ParameterPort, topic[p] # NoTopic
             PROVE  topic[p][1] = p[2] /\ owner'[topic[p][2]] = p[1]
  BY DEF TopicsOwned
<1>1. topic[p] \in Topic
  BY DEF TypeOK
<1>2. topic[p][2] \in Ids
  BY <1>1 DEF Topic
<1>3. p[1] \in Nodes /\ p[1] # NoEntity
  BY DEF InputPort, ParameterPort, NodeGraphAssumption, Entities
<1> QED BY <1>2, <1>3 DEF TopicsOwned

(* Topics stay owned when a port is named after the identifier of its node.*)
LEMMA TopicsConnected ==
  ASSUME NodeGraphAssumption, TypeOK, TopicsOwned,
         NEW p \in InputPort \cup ParameterPort, NEW i \in Ids,
         owner[i] = p[1], ConnectReceivingEnd(p, i),
         \A y \in Ids : owner[y] # NoEntity => owner'[y] = owner[y]
  PROVE  TopicsOwned'
<1>1. /\ topic'[p] = Address(p, i)
      /\ \A q \in InputPort \cup ParameterPort : q # p => topic'[q] = topic[q]
  BY ConnectNames
<1> SUFFICES ASSUME NEW q \in InputPort \cup ParameterPort, topic'[q] # NoTopic
             PROVE  topic'[q][1] = q[2] /\ owner'[topic'[q][2]] = q[1]
  BY DEF TopicsOwned
<1>2. q[1] \in Nodes /\ q[1] # NoEntity
  BY DEF InputPort, ParameterPort, NodeGraphAssumption, Entities
<1>3. CASE q = p /\ topic[p] = NoTopic
  <2>1. topic'[q] = <<p[2], i>>
    BY <1>1, <1>3 DEF Address, InputPortFullPath
  <2> QED BY <1>2, <1>3, <2>1
<1>4. CASE q # p \/ topic[p] # NoTopic
  <2>1. topic'[q] = topic[q] /\ topic[q] \in Topic
    BY <1>1, <1>4 DEF TypeOK, Address
  <2>2. topic[q][2] \in Ids
    BY <2>1 DEF Topic
  <2> QED BY <1>2, <2>1, <2>2 DEF TopicsOwned
<1> QED BY <1>3, <1>4

-------------------------------------------------------------------------------
(* Owners, keys and addresses stay in step until an identifier is repeated *)
(* or read too early.                                                      *)
THEOREM RouteInvariance == Spec => []RouteInv
<1> USE NodeGraphAssumption
<1>1. Init => RouteInv
  <2> SUFFICES ASSUME Init PROVE RouteInv
    OBVIOUS
  <2>1. AddressInv
    BY TypeInit DEF Init, AddressInv, ChannelsAnswer, LinksKnown
  <2>2. OwnersInv
    BY DEF Init, OwnersInv, KeysGivenOut, EverythingFound, TopicsOwned, Entities
  <2> QED BY <2>1, <2>2 DEF RouteInv
<1>2. RouteInv /\ AddressInv' /\ [Next]_vars => RouteInv'
  <2> SUFFICES ASSUME RouteInv, AddressInv', [Next]_vars, faults' = 0
               PROVE  OwnersInv'
    BY DEF RouteInv
  <2> USE DEF RouteInv, AddressInv
  <2>1. ASSUME NEW g \in Graphs, NEW x \in Ids, CreateEmptyGraph(g, x)
        PROVE  OwnersInv'
    <3> USE <2>1
    <3>1. OwnersInv /\ Repeated(x) = 0
      BY NotRepeated DEF CreateEmptyGraph
    <3> USE <3>1 DEF OwnersInv
    <3>2. /\ owner[x] = NoEntity /\ owner'[x] = g /\ g # NoEntity
          /\ \A y \in Ids : owner[y] # NoEntity => y # x /\ owner'[y] = owner[y]
      BY FreshOwner DEF CreateEmptyGraph, Entities
    <3>3. id' = [id EXCEPT ![g] = x] /\ UNCHANGED <<nodes, connections, parent, topic>>
      BY DEF CreateEmptyGraph, portVars
    <3>4. graphs'[x] = g /\ \A y \in Ids : y # x => graphs'[y] = graphs[y]
      BY <3>2 DEF CreateEmptyGraph, Insert, KeysGivenOut, TypeOK
    <3>5. KeysGivenOut'
      <4>1. g \in Entities /\ \A n \in Nodes : n \in Entities
        BY DEF Entities
      <4>2. /\ \A f \in Entities : id'[f] # NoId => owner'[id'[f]] = f
            /\ \A f \in Entities : id[f] # NoId => id'[f] # NoId
        BY <3>2, <3>3, <4>1, KeysStay
      <4>3. \A y \in Ids : owner[y] # NoEntity => owner'[y] # NoEntity
        BY <3>2
      <4>4. \A y \in Ids : graphs'[y] # NoEntity => owner'[y] # NoEntity
        BY <3>2, <3>4, <4>3 DEF KeysGivenOut
      <4> QED BY <3>3, <4>1, <4>2, <4>3, <4>4 DEF KeysGivenOut
    <3>6. EverythingFound'
      <4>1. \A e \in Entities : e # g => id'[e] = id[e]
        BY <3>3 DEF TypeOK
      <4>2. \A h \in Graphs : id'[h] # NoId => graphs'[id'[h]] = h
        BY <3>2, <3>3, <3>4, <4>1, StaysKnown DEF EverythingFound, TypeOK, Entities
      <4>3. \A e \in Nodes \cup Connections : e # g /\ e \in Entities
        BY DEF NodeGraphAssumption, Entities
      <4> QED BY <3>3, <4>1, <4>2, <4>3 DEF EverythingFound
    <3> QED BY <3>2, <3>3, <3>5, <3>6, TopicsStay
  <2>2. ASSUME NEW g \in Graphs, NEW x \in Ids, NEW n \in Nodes, AddNode(g, n, x)
        PROVE  OwnersInv'
    <3> USE <2>2
    <3>1. OwnersInv /\ Repeated(x) = 0
      BY NotRepeated DEF AddNode
    <3> USE <3>1 DEF OwnersInv
    <3>2. /\ owner[x] = NoEntity /\ owner'[x] = n /\ n # NoEntity
          /\ \A y \in Ids : owner[y] # NoEntity => y # x /\ owner'[y] = owner[y]
      BY FreshOwner DEF AddNode, Entities
    <3>3. id' = [id EXCEPT ![n] = x] /\ UNCHANGED <<graphs, connections, topic>>
      BY DEF AddNode, portVars
    <3>4. parent'[n] = g /\ \A m \in Nodes : m # n => parent'[m] = parent[m]
      BY DEF AddNode, TypeOK
    <3>5. /\ nodes'[g][x] = n
          /\ \A h \in Graphs, y \in Ids : y # x => nodes'[h][y] = nodes[h][y]
          /\ \A h \in Graphs : h # g => nodes'[h] = nodes[h]
      <4>1. nodes[g] \in [Ids -> Nodes \cup {NoEntity}] /\ nodes[g][x] = NoEntity
        BY <3>2 DEF KeysGivenOut, TypeOK
      <4>2. nodes'[g] = Insert(nodes[g], x, n)
            /\ \A h \in Graphs : h # g => nodes'[h] = nodes[h]
        BY DEF AddNode, TypeOK
      <4> QED BY <4>1, <4>2 DEF Insert
    <3>6. KeysGivenOut'
      BY <3>2, <3>3, <3>4, <3>5, KeysStay DEF AddNode, KeysGivenOut, Entities, TypeOK, NodeGraphAssumption
    <3>7. EverythingFound'
      <4>1. \A e \in Entities : e # n => id'[e] = id[e]
        BY <3>3 DEF TypeOK
      <4>2. ASSUME NEW m \in Nodes, parent'[m] # NoEntity
            PROVE  nodes'[parent'[m]][id'[m]] = m
        <5>1. CASE m = n
          BY <3>3, <3>4, <3>5, <5>1 DEF TypeOK, Entities
        <5>2. CASE m # n
          <6>1. m \in Entities /\ parent[m] \in Graphs /\ parent'[m] = parent[m]
                /\ id'[m] = id[m] /\ nodes[parent[m]][id[m]] = m
            BY <3>4, <4>1, <4>2, <5>2 DEF Entities, TypeOK, EverythingFound
          <6>2. id[m] \in Ids /\ id[m] # x
            BY <3>2, <3>4, <4>2, <5>2, <6>1, StaysKnown DEF KeysGivenOut
          <6> QED BY <3>5, <6>1, <6>2
        <5> QED BY <5>1, <5>2
      <4>3. \A e \in Graphs \cup Connections : e # n /\ e \in Entities
        BY DEF NodeGraphAssumption, Entities
      <4> QED BY <3>3, <4>1, <4>2, <4>3 DEF EverythingFound
    <3> QED BY <3>2, <3>3, <3>6, <3>7, TopicsStay
  <2>3. ASSUME NEW g \in Graphs, NEW x \in Ids, NEW c \in Connections,
               NEW o \in OutputPort, NEW p \in InputPort \cup ParameterPort,
               NEW i \in Ids, AddConnection(g, c, o, p, i, x)
        PROVE  OwnersInv'
    <3> USE <2>3
    <3>1. p[1] \in Nodes /\ p[1] \in Entities /\ p[1] # c /\ c \in Entities
      BY DEF InputPort, ParameterPort, Entities, NodeGraphAssumption
    <3>2. OwnersInv /\ Repeated(x) = 0 /\ id[p[1]] # NoId
      BY <3>1, NotEarly DEF AddConnection
    <3> USE <3>2 DEF OwnersInv
    <3>3. /\ owner[x] = NoEntity /\ owner'[x] = c /\ c # NoEntity
          /\ \A y \in Ids : owner[y] # NoEntity => y # x /\ owner'[y] = owner[y]
      BY <3>1, FreshOwner DEF AddConnection
    <3>4. i = id[p[1]] /\ owner[i] = p[1] /\ ConnectReceivingEnd(p, i)
          /\ UNCHANGED <<graphs, nodes, parent>>
      BY <3>1 DEF AddConnection, Reads, KeysGivenOut
    <3>5. id' = [id EXCEPT ![c] = x]
      <4>1. id' = [id EXCEPT ![p[1]] = i, ![c] = x]
        BY DEF AddConnection
      <4> QED BY <3>1, <3>4, <4>1 DEF TypeOK
    <3>6. /\ connections'[g][x] = c
          /\ \A h \in Graphs, y \in Ids : y # x => connections'[h][y] = connections[h][y]
          /\ \A h \in Graphs : h # g => connections'[h] = connections[h]
      <4>1. connections[g] \in [Ids -> Connections \cup {NoEntity}]
            /\ connections[g][x] = NoEntity
        BY <3>3 DEF KeysGivenOut, TypeOK
      <4>2. connections'[g] = Insert(connections[g], x, c)
            /\ \A h \in Graphs : h # g => connections'[h] = connections[h]
        BY DEF AddConnection, TypeOK
      <4> QED BY <4>1, <4>2 DEF Insert
    <3>7. KeysGivenOut'
      <4>1. \A n \in Nodes : n \in Entities
        BY DEF Entities
      <4>2. /\ \A f \in Entities : id'[f] # NoId => owner'[id'[f]] = f
            /\ \A f \in Entities : id[f] # NoId => id'[f] # NoId
        BY <3>1, <3>3, <3>5, KeysStay
      <4>3. \A y \in Ids : owner[y] # NoEntity => owner'[y] # NoEntity
        BY <3>3
      <4>4. ASSUME NEW h \in Graphs, NEW y \in Ids, connections'[h][y] # NoEntity
            PROVE  owner'[y] # NoEntity
        BY <3>3, <3>6, <4>3, <4>4 DEF KeysGivenOut
      <4> QED BY <3>4, <4>1, <4>2, <4>3, <4>4 DEF KeysGivenOut
    <3>8. EverythingFound'
      <4>1. \A e \in Entities : e # c => id'[e] = id[e]
        BY <3>5 DEF TypeOK
      <4>2. ASSUME NEW d \in Connections, id'[d] # NoId
            PROVE  \E h \in Graphs : connections'[h][id'[d]] = d
        <5>1. CASE d = c
          BY <3>1, <3>5, <3>6, <5>1 DEF TypeOK
        <5>2. CASE d # c
          <6>1. d \in Entities /\ id'[d] = id[d]
            BY <4>1, <5>2 DEF Entities
          <6>2. id[d] \in Ids /\ id[d] # x
            BY <3>3, <4>2, <6>1, StaysKnown
          <6>3. PICK h \in Graphs : connections[h][id[d]] = d
            BY <4>2, <6>1 DEF EverythingFound
          <6> QED BY <3>6, <6>1, <6>2, <6>3
        <5> QED BY <5>1, <5>2
      <4>3. \A e \in Graphs \cup Nodes : e # c /\ e \in Entities
        BY DEF NodeGraphAssumption, Entities
      <4> QED BY <3>4, <4>1, <4>2, <4>3 DEF EverythingFound
    <3> QED BY <3>3, <3>4, <3>7, <3>8, TopicsConnected
  <2>4. CASE UNCHANGED vars
    BY <2>4 DEF vars, workspaceVars, portVars, OwnersInv, KeysGivenOut, EverythingFound,
                TopicsOwned
  <2> QED BY <2>1, <2>2, <2>3, <2>4 DEF Next
<1> QED BY <1>1, <1>2, AddressInvariance, PTL DEF Spec

(* What is written to an output port reaches the input port connected to   *)
(* it last (outputport.h, inputport.h), for any nodes, labels and calls:   *)
(* who has the address of a port has its label and its node.               *)
THEOREM WritesAreRouted == Spec => []Routed
<1>1. RouteInv /\ AddressKnown => Routed
  <2> SUFFICES ASSUME RouteInv, AddressKnown, faults = 0,
                      NEW o \in OutputPort, linked[o] \in InputPort
               PROVE  Receiver(o) = linked[o]
    BY DEF Routed
  <2> DEFINE q == Receiver(o)
             p == linked[o]
  <2>1. q # NoEntity /\ topic[q] = topic[p] /\ topic[p] # NoTopic
    <3>1. p # NoEntity
      BY NodeGraphAssumption DEF NodeGraphAssumption, InputPort
    <3> QED BY <3>1 DEF AddressKnown, RouteInv, AddressInv, LinksKnown
  <2>2. q \in InputPort
    BY <2>1 DEF Receiver, RouteInv, AddressInv, TypeOK
  <2>3. q[1] = p[1] /\ q[2] = p[2]
    BY <2>1, <2>2 DEF RouteInv, OwnersInv, TopicsOwned
  <2> QED BY <2>2, <2>3 DEF InputPort
<1> QED BY <1>1, RouteInvariance, AddressesAreKnown, PTL

(* A graph, node or connection is found under its identifier               *)
(* (workspace.cc: getGraph, graph.h).                                      *)
THEOREM EntitiesAreFound == Spec => []Found
<1>1. RouteInv => Found
  BY DEF RouteInv, OwnersInv, Found
<1> QED BY <1>1, RouteInvariance, PTL

-------------------------------------------------------------------------------
(* The printed form of an identifier (Proquint), which NodeGraph takes to  *)
(* be one-to-one.                                                          *)
(* The places of consonants and vowels in a name; the separator is at 6.   *)
Consonants == {1, 3, 5, 7, 9, 11}
Vowels == {2, 4, 8, 10}
(* How many digits of the identifier the letters before a place stand for. *)
DigitsBefore == <<0, 2, 3, 5, 6, 8, 8, 10, 11, 13, 14, 16>>

(* The character that uint2quint puts at a place.                          *)
Letter(p) ==
  LET d == DigitsBefore[p] IN
  IF p \in Consonants THEN uint2consonant[4 * word[d + 1] + word[d + 2] + 1]
  ELSE IF p \in Vowels THEN uint2vowel[word[d + 1] + 1]
  ELSE sepChar

Characters ==
  ToSet(uint2consonant) \cup ToSet(uint2vowel)
    \cup {sepChar, Garbage}

(* What has been written are the first characters of the name.             *)
Spelt ==
  /\ quint \in Seq(Characters) /\ Len(quint) \in 0 .. 11
  /\ \A p \in 1 .. Len(quint) : quint[p] = Letter(p)

(* What uint2quint has left: the identifier without its first n digits.    *)
Left(n) ==
  rest \in Word /\ \A d \in 1 .. 16 - n : rest[d] = word[d + n]

(* What quint2uint has got: the first n digits of the identifier.          *)
Got(n) ==
  res = [d \in 1 .. 16 |-> IF d <= 16 - n THEN 0 ELSE word[d - (16 - n)]]

(* Writing, and then reading, have come to the same digits at a place.     *)
NameInv ==
  /\ word \in Words
  /\ Spelt
  /\ \/ next = 0 /\ Left(DigitsBefore[Len(quint) + 1]) /\ Got(0)
     \/ Len(quint) = 11 /\ next \in 1 .. 12 /\ Got(DigitsBefore[next])

(* A sequence of sixteen digits as a function.                             *)
LEMMA SeqIsWord ==
  ASSUME NEW D, NEW u \in Seq(D), Len(u) = 16
  PROVE  u = [d \in 1 .. 16 |-> u[d]]
BY SeqEqual

(* What a shift to the left leaves where.                                  *)
LEMMA ShiftIs ==
  ASSUME NEW u \in Word, NEW n \in 1 .. 2, NEW ds \in Seq(Digit), Len(ds) = n
  PROVE  Shift(u, n, ds) =
           [d \in 1 .. 16 |-> IF d <= 16 - n THEN u[d + n] ELSE ds[d - (16 - n)]]
<1> DEFINE f == SubSeq(u, n + 1, 16)
           g == f \o ds
<1>1. \A d \in n + 1 .. 16 : u[d] \in Digit
  BY DEF Word
<1>2. f \in Seq(Digit) /\ Len(f) = 16 - n /\ \A d \in 1 .. 16 - n : f[d] = u[d + n]
  <2>1. n + 1 \in Int /\ n + 1 <= 16 /\ 16 - (n + 1) + 1 = 16 - n
    OBVIOUS
  <2>2. /\ f \in Seq(Digit)
        /\ Len(f) = IF n + 1 <= 16 THEN 16 - (n + 1) + 1 ELSE 0
        /\ \A d \in 1 .. 16 - (n + 1) + 1 : f[d] = u[n + 1 + d - 1]
    BY <1>1, <2>1, SubSeqProperties
  <2>3. \A d \in 1 .. 16 - n : n + 1 + d - 1 = d + n
    OBVIOUS
  <2> HIDE DEF f
  <2> QED BY <2>1, <2>2, <2>3
<1> HIDE DEF f
<1>3. g \in Seq(Digit) /\ Len(g) = 16
  BY <1>2
<1>4. \A d \in 1 .. 16 : g[d] = IF d <= 16 - n THEN u[d + n] ELSE ds[d - (16 - n)]
  BY <1>2
<1>5. g = [d \in 1 .. 16 |-> g[d]]
  <2> HIDE DEF g
  <2> QED BY <1>3, SeqIsWord
<1> HIDE DEF g
<1>6. g = [d \in 1 .. 16 |-> IF d <= 16 - n THEN u[d + n] ELSE ds[d - (16 - n)]]
  BY <1>4, <1>5
<1> QED BY <1>6 DEF g, f, Shift

(* The letters stand for different digits, and consonants are no vowels.   *)
LEMMA Letters ==
  /\ \A m, n \in 1 .. 16 : uint2consonant[m] = uint2consonant[n] => m = n
  /\ \A m, n \in 1 .. 4 : uint2vowel[m] = uint2vowel[n] => m = n
  /\ \A m \in 1 .. 16, n \in 1 .. 4 : uint2consonant[m] # uint2vowel[n]
  /\ ToSet(uint2consonant) = {uint2consonant[m] : m \in 1 .. 16}
  /\ ToSet(uint2vowel) = {uint2vowel[n] : n \in 1 .. 4}
<1>1. \A m, n \in 1 .. 16 : uint2consonant[m] = uint2consonant[n] => m = n
  BY SMTT(60) DEF uint2consonant
<1>2. \A m, n \in 1 .. 4 : uint2vowel[m] = uint2vowel[n] => m = n
  BY DEF uint2vowel
<1>3. \A m \in 1 .. 16, n \in 1 .. 4 : uint2consonant[m] # uint2vowel[n]
  BY SMTT(60) DEF uint2consonant, uint2vowel
<1>4. ToSet(uint2consonant) = {uint2consonant[m] : m \in 1 .. 16}
  BY DEF uint2consonant, ToSet
<1>5. ToSet(uint2vowel) = {uint2vowel[n] : n \in 1 .. 4}
  BY DEF uint2vowel, ToSet
<1> QED BY <1>1, <1>2, <1>3, <1>4, <1>5

(* The switch of quint2uint inverts the table of uint2quint.               *)
LEMMA ValueIs ==
  ASSUME NEW m \in 1 .. 16
  PROVE  Value(uint2consonant[m]) = m - 1
<1> DEFINE c == uint2consonant[m]
           n == CHOOSE k \in 1 .. 16 : uint2consonant[k] = c
<1>1. n \in 1 .. 16 /\ uint2consonant[n] = c
  OBVIOUS
<1>2. n = m
  <2> HIDE DEF n
  <2> QED BY <1>1, Letters
<1> QED BY <1>2 DEF Value

(* A consonant takes two digits, a vowel one, the separator none.          *)
LEMMA Places ==
  /\ \A p \in 1 .. 12 : DigitsBefore[p] \in 0 .. 16
  /\ \A p \in Consonants :
       DigitsBefore[p] \in 0 .. 14 /\ DigitsBefore[p + 1] = DigitsBefore[p] + 2
  /\ \A p \in Vowels :
       DigitsBefore[p] \in 0 .. 15 /\ DigitsBefore[p + 1] = DigitsBefore[p] + 1
  /\ DigitsBefore[7] = DigitsBefore[6]
  /\ DigitsBefore[1] = 0 /\ DigitsBefore[12] = 16
BY DEF DigitsBefore, Consonants, Vowels

(* The kind of character at each place.                                    *)
LEMMA LetterIs ==
  ASSUME word \in Words, NEW p \in 1 .. 11
  PROVE  LET d == DigitsBefore[p] IN
         /\ p \in Consonants =>
              /\ 4 * word[d + 1] + word[d + 2] + 1 \in 1 .. 16
              /\ Letter(p) = uint2consonant[4 * word[d + 1] + word[d + 2] + 1]
              /\ Letter(p) \in ToSet(uint2consonant)
         /\ p \in Vowels =>
              /\ word[d + 1] + 1 \in 1 .. 4
              /\ Letter(p) = uint2vowel[word[d + 1] + 1]
              /\ Letter(p) \in ToSet(uint2vowel)
         /\ p = 6 => Letter(p) = sepChar
<1> DEFINE d == DigitsBefore[p]
<1>1. word \in [1 .. 16 -> 0 .. 3]
  BY ProquintAssumption DEF Word, Digit
<1>2. CASE p \in Consonants
  <2>1. d \in 0 .. 14
    BY <1>2, Places
  <2> HIDE DEF d
  <2>2. word[d + 1] \in 0 .. 3 /\ word[d + 2] \in 0 .. 3
    BY <1>1, <2>1
  <2>3. 4 * word[d + 1] + word[d + 2] + 1 \in 1 .. 16
    BY <2>2
  <2>4. Letter(p) = uint2consonant[4 * word[d + 1] + word[d + 2] + 1]
    BY <1>2 DEF Letter, d
  <2>5. Letter(p) \in ToSet(uint2consonant)
    BY <2>3, <2>4, Letters
  <2>6. p \notin Vowels /\ p # 6
    BY <1>2 DEF Consonants, Vowels
  <2> QED BY <2>3, <2>4, <2>5, <2>6 DEF d
<1>3. CASE p \in Vowels
  <2>1. d \in 0 .. 15
    BY <1>3, Places
  <2> HIDE DEF d
  <2>2. word[d + 1] + 1 \in 1 .. 4
    BY <1>1, <2>1
  <2>3. p \notin Consonants /\ p # 6
    BY <1>3 DEF Consonants, Vowels
  <2>4. Letter(p) = uint2vowel[word[d + 1] + 1]
    BY <1>3, <2>3 DEF Letter, d
  <2>5. Letter(p) \in ToSet(uint2vowel)
    BY <2>2, <2>4, Letters
  <2> QED BY <2>2, <2>3, <2>4, <2>5 DEF d
<1>4. CASE p = 6
  BY <1>4 DEF Letter, Consonants, Vowels
<1>5. p \in Consonants \/ p \in Vowels \/ p = 6
  BY DEF Consonants, Vowels
<1> QED BY <1>2, <1>3, <1>4, <1>5

(* Writing the next character.                                             *)
LEMMA AppendLetter ==
  ASSUME NameInv, Len(quint) \in 0 .. 10,
         quint' = Append(quint, Letter(Len(quint) + 1)), word' = word
  PROVE  Spelt' /\ Len(quint') = Len(quint) + 1
<1>1. Len(quint) + 1 \in 1 .. 11 /\ Len(quint) + 1 \in 0 .. 11
  <2>1. \A k \in 0 .. 10 : k + 1 \in 1 .. 11 /\ k + 1 \in 0 .. 11
    OBVIOUS
  <2> QED BY <2>1, Zenon
<1>2. quint \in Seq(Characters) /\ \A p \in 1 .. Len(quint) : quint[p] = Letter(p)
  BY DEF NameInv, Spelt
<1>3. ASSUME NEW p PROVE Letter(p)' = Letter(p)
  BY DEF Letter
<1> DEFINE c == Letter(Len(quint) + 1)
<1>4. c \in Characters
  <2>1. Len(quint) + 1 \in 1 .. 11
    BY <1>1, Zenon
  <2>2. word \in Words
    BY DEF NameInv
  <2> QED BY <2>1, <2>2, LetterIs DEF Characters, Consonants, Vowels
<1> HIDE DEF c
<1>5. quint' = Append(quint, c)
  BY DEF c
<1>6. quint' \in Seq(Characters) /\ Len(quint') = Len(quint) + 1
  BY <1>2, <1>4, <1>5
<1>7. \A p \in 1 .. Len(quint') : quint'[p] = Letter(p)
  BY <1>2, <1>4, <1>5, <1>6 DEF c
<1>8. Characters' = Characters
  BY DEF Characters
<1>9. \A p \in 1 .. Len(quint') : quint'[p] = Letter(p)'
  BY <1>3, <1>7
<1>10. Len(quint') \in 0 .. 11
  BY <1>1, <1>6, Zenon
<1> QED BY <1>6, <1>8, <1>9, <1>10 DEF Spelt

(* Taking digits from what is left, and adding them to what has been got.  *)
LEMMA LeftShift ==
  ASSUME word \in [1 .. 16 -> Digit], word' = word,
         NEW n \in 0 .. 16, NEW m \in 1 .. 2, n + m <= 16, Left(n),
         NEW ds \in Seq(Digit), Len(ds) = m,
         rest' = Shift(rest, m, ds)
  PROVE  Left(n + m)'
<1>1. rest \in Word /\ \A d \in 1 .. 16 - n : rest[d] = word[d + n]
  BY DEF Left
<1>2. rest' = [d \in 1 .. 16 |-> IF d <= 16 - m THEN rest[d + m] ELSE ds[d - (16 - m)]]
  BY <1>1, ShiftIs
<1>3. \A d \in 1 .. 16 : d <= 16 - m => rest[d + m] \in Digit
  BY <1>1 DEF Word
<1>4. \A d \in 1 .. 16 : ~(d <= 16 - m) => ds[d - (16 - m)] \in Digit
  BY ElementOfSeq
<1>5. rest' \in Word
  BY <1>2, <1>3, <1>4 DEF Word
<1>6. \A d \in 1 .. 16 - (n + m) : rest'[d] = word[d + (n + m)]
  <2> TAKE d \in 1 .. 16 - (n + m)
  <2>1. d \in 1 .. 16 /\ d <= 16 - m /\ d + m \in 1 .. 16 - n /\ d + m + n = d + (n + m)
    OBVIOUS
  <2> QED BY <1>1, <1>2, <2>1
<1> QED BY <1>5, <1>6 DEF Left

LEMMA GotShift ==
  ASSUME word \in [1 .. 16 -> Digit], word' = word,
         NEW n \in 0 .. 16, NEW m \in 1 .. 2, n + m <= 16, Got(n),
         NEW ds \in Seq(Digit), Len(ds) = m, \A k \in 1 .. m : ds[k] = word[n + k],
         res' = Shift(res, m, ds)
  PROVE  Got(n + m)'
<1>1. res \in Word
  <2>1. \A d \in 1 .. 16 :
          (IF d <= 16 - n THEN 0 ELSE word[d - (16 - n)]) \in Digit
    <3> TAKE d \in 1 .. 16
    <3>1. CASE d <= 16 - n
      BY <3>1 DEF Digit
    <3>2. CASE ~(d <= 16 - n)
      <4>1. d - (16 - n) \in 1 .. 16
        BY <3>2
      <4> QED BY <3>2, <4>1
    <3> QED BY <3>1, <3>2
  <2> QED BY <2>1 DEF Got, Word
<1>2. res' = [d \in 1 .. 16 |-> IF d <= 16 - m THEN res[d + m] ELSE ds[d - (16 - m)]]
  BY <1>1, ShiftIs
<1>3. \A d \in 1 .. 16 :
        (IF d <= 16 - m THEN res[d + m] ELSE ds[d - (16 - m)]) =
        IF d <= 16 - (n + m) THEN 0 ELSE word[d - (16 - (n + m))]
  <2> TAKE d \in 1 .. 16
  <2>1. CASE d <= 16 - m
    <3>1. d + m \in 1 .. 16
      BY <2>1
    <3>2. res[d + m] = IF d + m <= 16 - n THEN 0 ELSE word[d + m - (16 - n)]
      BY <3>1 DEF Got
    <3>3. (d + m <= 16 - n <=> d <= 16 - (n + m)) /\ d + m - (16 - n) = d - (16 - (n + m))
      OBVIOUS
    <3> QED BY <2>1, <3>2, <3>3
  <2>2. CASE ~(d <= 16 - m)
    <3>1. /\ d - (16 - m) \in 1 .. m /\ n + (d - (16 - m)) = d - (16 - (n + m))
          /\ ~(d <= 16 - (n + m))
      BY <2>2
    <3> QED BY <2>2, <3>1
  <2> QED BY <2>1, <2>2
<1> QED BY <1>2, <1>3 DEF Got

(* NameInv is kept by each letter written and by each character read.      *)
LEMMA ConsonantStep ==
  ASSUME NameInv, HandleConsonant
  PROVE  NameInv'
<1>1. PICK n \in 0 .. 10 : n = Len(quint) /\ n + 1 \in Consonants
  BY DEF HandleConsonant, Writing, Consonants
<1>2. PICK k \in 0 .. 14 : k = DigitsBefore[n + 1] /\ DigitsBefore[n + 2] = k + 2
  <2>1. n + 1 + 1 = n + 2
    OBVIOUS
  <2> QED BY <1>1, <2>1, Places
<1>3. /\ next = 0
      /\ quint' = Append(quint, uint2consonant[4 * rest[1] + rest[2] + 1])
      /\ rest' = Shift(rest, 2, <<0, 0>>)
      /\ word' = word /\ next' = next /\ res' = res
  BY Zenon DEF HandleConsonant, Writing
<1>4. word \in Words /\ Left(k) /\ Got(0)
  BY <1>1, <1>2, <1>3 DEF NameInv
<1>5. word \in [1 .. 16 -> Digit]
  BY <1>4, ProquintAssumption DEF Word
<1>6. rest[1] = word[k + 1] /\ rest[2] = word[k + 2]
  <2>1. 1 \in 1 .. 16 - k /\ 2 \in 1 .. 16 - k /\ 1 + k = k + 1 /\ 2 + k = k + 2
    OBVIOUS
  <2> QED BY <1>4, <2>1 DEF Left
<1>7. Letter(n + 1) = uint2consonant[4 * rest[1] + rest[2] + 1]
  BY <1>1, <1>2, <1>6 DEF Letter
<1>8. Spelt' /\ Len(quint') = n + 1
  BY <1>1, <1>3, <1>7, AppendLetter
<1>9. Left(k + 2)'
  <2>1. <<0, 0>> \in Seq(Digit) /\ Len(<<0, 0>>) = 2
    BY DEF Digit
  <2>2. k \in 0 .. 16 /\ k + 2 <= 16 /\ 2 \in 1 .. 2
    OBVIOUS
  <2> QED BY <1>3, <1>4, <1>5, <2>1, <2>2, LeftShift
<1>10. Left(DigitsBefore[Len(quint) + 1])'
  <2>1. Len(quint') + 1 = n + 2
    BY <1>8
  <2>2. DigitsBefore[Len(quint') + 1] = k + 2
    BY <1>2, <2>1
  <2> QED BY <1>9, <2>2 DEF Left
<1>11. Got(0)'
  BY <1>3, <1>4 DEF Got
<1> QED BY <1>3, <1>4, <1>8, <1>10, <1>11 DEF NameInv

LEMMA VowelStep ==
  ASSUME NameInv, HandleVowel
  PROVE  NameInv'
<1>1. PICK n \in 0 .. 10 : n = Len(quint) /\ n + 1 \in Vowels
  BY DEF HandleVowel, Writing, Vowels
<1>2. PICK k \in 0 .. 15 : k = DigitsBefore[n + 1] /\ DigitsBefore[n + 2] = k + 1
  <2>1. n + 1 + 1 = n + 2
    OBVIOUS
  <2> QED BY <1>1, <2>1, Places
<1>3. /\ next = 0
      /\ quint' = Append(quint, uint2vowel[rest[1] + 1])
      /\ rest' = Shift(rest, 1, <<0>>)
      /\ word' = word /\ next' = next /\ res' = res
  BY Zenon DEF HandleVowel, Writing
<1>4. word \in Words /\ Left(k) /\ Got(0)
  BY <1>1, <1>2, <1>3 DEF NameInv
<1>5. word \in [1 .. 16 -> Digit]
  BY <1>4, ProquintAssumption DEF Word
<1>6. rest[1] = word[k + 1]
  <2>1. 1 \in 1 .. 16 - k /\ 1 + k = k + 1
    OBVIOUS
  <2> QED BY <1>4, <2>1 DEF Left
<1>7. Letter(n + 1) = uint2vowel[rest[1] + 1]
  <2>1. n + 1 \notin Consonants
    BY <1>1 DEF Consonants, Vowels
  <2> QED BY <1>1, <1>2, <1>6, <2>1 DEF Letter
<1>8. Spelt' /\ Len(quint') = n + 1
  BY <1>1, <1>3, <1>7, AppendLetter
<1>9. Left(k + 1)'
  <2>1. <<0>> \in Seq(Digit) /\ Len(<<0>>) = 1
    BY DEF Digit
  <2>2. k \in 0 .. 16 /\ k + 1 <= 16 /\ 1 \in 1 .. 2
    OBVIOUS
  <2> QED BY <1>3, <1>4, <1>5, <2>1, <2>2, LeftShift
<1>10. Left(DigitsBefore[Len(quint) + 1])'
  <2>1. Len(quint') + 1 = n + 2
    BY <1>8
  <2>2. DigitsBefore[Len(quint') + 1] = k + 1
    BY <1>2, <2>1
  <2> QED BY <1>9, <2>2 DEF Left
<1>11. Got(0)'
  BY <1>3, <1>4 DEF Got
<1> QED BY <1>3, <1>4, <1>8, <1>10, <1>11 DEF NameInv

LEMMA SeparateStep ==
  ASSUME NameInv, Separate
  PROVE  NameInv'
<1>1. /\ next = 0 /\ Len(quint) = 5 /\ quint' = Append(quint, sepChar)
      /\ word' = word /\ rest' = rest /\ next' = next /\ res' = res
  BY DEF Separate, Writing
<1>2. word \in Words /\ Left(DigitsBefore[6]) /\ Got(0)
  BY <1>1 DEF NameInv
<1>3. Letter(6) = sepChar
  BY DEF Letter, Consonants, Vowels
<1>4. Spelt' /\ Len(quint') = 6
  <2>1. quint' = Append(quint, Letter(Len(quint) + 1)) /\ Len(quint) \in 0 .. 10
    BY <1>1, <1>3
  <2> QED BY <1>1, <2>1, AppendLetter
<1>5. Left(DigitsBefore[Len(quint) + 1])'
  <2>1. DigitsBefore[Len(quint') + 1] = DigitsBefore[6]
    BY <1>4, Places
  <2> QED BY <1>1, <1>2, <2>1 DEF Left
<1>6. Got(0)'
  BY <1>1, <1>2 DEF Got
<1> QED BY <1>1, <1>2, <1>4, <1>5, <1>6 DEF NameInv

LEMMA StrIdStep ==
  ASSUME NameInv, StrId
  PROVE  NameInv'
<1>1. /\ next = 0 /\ Len(quint) = 11 /\ quint' = SubSeq(quint \o <<Garbage>>, 1, 11)
      /\ word' = word /\ next' = 1 /\ res' = res
  BY DEF StrId, Writing
<1>2. word \in Words /\ Spelt /\ Got(0)
  BY <1>1 DEF NameInv
<1>3. quint' = quint
  <2>1. quint \in Seq(Characters) /\ <<Garbage>> \in Seq(Characters)
    BY <1>2 DEF Spelt, Characters
  <2> DEFINE s == quint \o <<Garbage>>
  <2>2. /\ s \in Seq(Characters)
        /\ \A p \in 1 .. 11 : s[p] = quint[p] /\ s[p] \in Characters
    <3>1. Len(<<Garbage>>) = 1
      OBVIOUS
    <3>2. /\ s \in Seq(Characters)
          /\ \A p \in 1 .. Len(quint) + Len(<<Garbage>>) :
               s[p] = IF p <= Len(quint) THEN quint[p] ELSE <<Garbage>>[p - Len(quint)]
      <4> HIDE DEF s
      <4>1. quint \o <<Garbage>> = s
        BY DEF s
      <4> QED BY <2>1, <4>1, ConcatProperties, Zenon
    <3>4. \A p \in 1 .. 11 : s[p] = quint[p]
      <4> HIDE DEF s
      <4> QED BY <1>1, <3>1, <3>2
    <3>3. \A p \in 1 .. 11 : quint[p] \in Characters
      BY <1>1, <2>1, ElementOfSeq
    <3> HIDE DEF s
    <3> QED BY <3>2, <3>3, <3>4
  <2> HIDE DEF s
  <2>3. /\ SubSeq(s, 1, 11) \in Seq(Characters) /\ Len(SubSeq(s, 1, 11)) = 11
        /\ \A p \in 1 .. 11 : SubSeq(s, 1, 11)[p] = quint[p]
    <3>1. /\ SubSeq(s, 1, 11) \in Seq(Characters)
          /\ Len(SubSeq(s, 1, 11)) = IF 1 <= 11 THEN 11 - 1 + 1 ELSE 0
          /\ \A p \in 1 .. 11 - 1 + 1 : SubSeq(s, 1, 11)[p] = s[1 + p - 1]
      BY <2>2, SubSeqProperties
    <3>2. \A p \in 1 .. 11 : 1 + p - 1 = p
      OBVIOUS
    <3> QED BY <2>2, <3>1, <3>2
  <2>4. SubSeq(s, 1, 11) = quint
    BY <1>1, <2>1, <2>3, SeqEqual
  <2> QED BY <1>1, <2>4 DEF s
<1>4. Spelt'
  BY <1>1, <1>2, <1>3 DEF Spelt, Characters, Letter
<1>5. Got(DigitsBefore[next])'
  BY <1>1, <1>2, Places DEF Got
<1> QED BY <1>1, <1>2, <1>3, <1>4, <1>5 DEF NameInv

LEMMA ReadConsonantStep ==
  ASSUME NameInv, ReadConsonant
  PROVE  NameInv'
<1>1. /\ next # 0 /\ next \in 1 .. Len(quint)
      /\ quint[next] \in ToSet(uint2consonant)
  BY DEF ReadConsonant
<1>2. PICK p \in 1 .. 11 : next = p /\ Len(quint) = 11
  BY <1>1 DEF NameInv
<1>3. /\ word \in Words /\ Spelt /\ Got(DigitsBefore[p])
      /\ quint[p] = Letter(p)
  BY <1>1, <1>2 DEF NameInv, Spelt
<1>4. word \in [1 .. 16 -> Digit]
  BY <1>3, ProquintAssumption DEF Word
<1>5. p \in Consonants
  <2>1. CASE p \in Vowels
    <3>1. Letter(p) \in ToSet(uint2vowel)
      BY <1>3, <2>1, LetterIs
    <3> QED BY <1>1, <1>2, <1>3, <3>1, Letters
  <2>2. CASE p = 6
    <3>1. Letter(p) = sepChar
      BY <2>2 DEF Letter, Consonants, Vowels
    <3> QED BY <1>1, <1>2, <1>3, <3>1, ProquintAssumption
  <2> QED BY <2>1, <2>2 DEF Consonants, Vowels
<1>6. PICK k \in 0 .. 14 : k = DigitsBefore[p] /\ DigitsBefore[p + 1] = k + 2
  BY <1>5, Places
<1>7. PICK a \in 0 .. 3, b \in 0 .. 3 : a = word[k + 1] /\ b = word[k + 2]
  BY <1>4 DEF Digit
<1>8. Value(quint[p]) = 4 * a + b
  <2>1. Letter(p) = uint2consonant[4 * a + b + 1]
    BY <1>5, <1>6, <1>7 DEF Letter
  <2>2. PICK m \in 1 .. 16 : m = 4 * a + b + 1
    OBVIOUS
  <2>3. Value(uint2consonant[m]) = m - 1
    BY ValueIs
  <2> QED BY <1>3, <2>1, <2>2, <2>3
<1>9. /\ res' = Shift(res, 2, <<a, b>>)
      /\ next' = p + 1 /\ word' = word /\ rest' = rest /\ quint' = quint
  <2>1. (4 * a + b) \div 4 = a /\ (4 * a + b) % 4 = b
    OBVIOUS
  <2> QED BY <1>2, <1>8, <2>1 DEF ReadConsonant
<1>10. Got(k + 2)'
  <2>1. <<a, b>> \in Seq(Digit) /\ Len(<<a, b>>) = 2
    BY DEF Digit
  <2>2. \A j \in 1 .. 2 : <<a, b>>[j] = word[k + j]
    BY <1>7
  <2>3. k \in 0 .. 16 /\ k + 2 <= 16 /\ 2 \in 1 .. 2
    OBVIOUS
  <2> QED BY <1>3, <1>4, <1>6, <1>9, <2>1, <2>2, <2>3, GotShift
<1>11. Got(DigitsBefore[next])'
  BY <1>6, <1>9, <1>10 DEF Got
<1>12. Spelt'
  BY <1>3, <1>9 DEF Spelt, Characters, Letter
<1> QED BY <1>2, <1>3, <1>9, <1>11, <1>12 DEF NameInv

LEMMA ReadVowelStep ==
  ASSUME NameInv, ReadVowel
  PROVE  NameInv'
<1>1. /\ next # 0 /\ next \in 1 .. Len(quint)
      /\ quint[next] \in ToSet(uint2vowel)
  BY DEF ReadVowel
<1>2. PICK p \in 1 .. 11 : next = p /\ Len(quint) = 11
  BY <1>1 DEF NameInv
<1>3. /\ word \in Words /\ Spelt /\ Got(DigitsBefore[p])
      /\ quint[p] = Letter(p)
  BY <1>1, <1>2 DEF NameInv, Spelt
<1>4. word \in [1 .. 16 -> Digit]
  BY <1>3, ProquintAssumption DEF Word
<1>5. p \in Vowels
  <2>1. CASE p \in Consonants
    <3>1. Letter(p) \in ToSet(uint2consonant)
      BY <1>3, <2>1, LetterIs
    <3> QED BY <1>1, <1>2, <1>3, <3>1, Letters
  <2>2. CASE p = 6
    <3>1. Letter(p) = sepChar
      BY <2>2 DEF Letter, Consonants, Vowels
    <3> QED BY <1>1, <1>2, <1>3, <3>1, ProquintAssumption
  <2> QED BY <2>1, <2>2 DEF Consonants, Vowels
<1>6. PICK k \in 0 .. 15 : k = DigitsBefore[p] /\ DigitsBefore[p + 1] = k + 1
  BY <1>5, Places
<1>7. PICK a \in 0 .. 3 : a = word[k + 1]
  BY <1>4 DEF Digit
<1>8. quint[p] = uint2vowel[a + 1]
  <2>1. p \notin Consonants
    BY <1>5 DEF Consonants, Vowels
  <2> QED BY <1>3, <1>5, <1>6, <1>7, <2>1 DEF Letter
<1>9. /\ res' = Shift(res, 1, <<a>>)
      /\ next' = p + 1 /\ word' = word /\ rest' = rest /\ quint' = quint
  <2>1. PICK v \in 0 .. 3 :
          uint2vowel[v + 1] = quint[p] /\ res' = Shift(res, 1, <<v>>)
    BY <1>2 DEF ReadVowel, Digit
  <2>2. v = a
    <3>1. v + 1 \in 1 .. 4 /\ a + 1 \in 1 .. 4
      OBVIOUS
    <3>2. v + 1 = a + 1
      BY <1>8, <2>1, <3>1, Letters
    <3> QED BY <3>2
  <2> QED BY <1>2, <2>1, <2>2 DEF ReadVowel
<1>10. Got(k + 1)'
  <2>1. <<a>> \in Seq(Digit) /\ Len(<<a>>) = 1
    BY DEF Digit
  <2>2. \A j \in 1 .. 1 : <<a>>[j] = word[k + j]
    BY <1>7
  <2>3. k \in 0 .. 16 /\ k + 1 <= 16 /\ 1 \in 1 .. 2
    OBVIOUS
  <2> QED BY <1>3, <1>4, <1>6, <1>9, <2>1, <2>2, <2>3, GotShift
<1>11. Got(DigitsBefore[next])'
  BY <1>6, <1>9, <1>10 DEF Got
<1>12. Spelt'
  BY <1>3, <1>9 DEF Spelt, Characters, Letter
<1> QED BY <1>2, <1>3, <1>9, <1>11, <1>12 DEF NameInv

LEMMA ReadOtherStep ==
  ASSUME NameInv, ReadOther
  PROVE  NameInv'
<1>1. /\ next # 0 /\ next \in 1 .. Len(quint)
      /\ quint[next] \notin ToSet(uint2consonant) \cup ToSet(uint2vowel)
  BY DEF ReadOther
<1>2. PICK p \in 1 .. 11 : next = p /\ Len(quint) = 11
  BY <1>1 DEF NameInv
<1>3. /\ word \in Words /\ Spelt /\ Got(DigitsBefore[p])
      /\ quint[p] = Letter(p)
  BY <1>1, <1>2 DEF NameInv, Spelt
<1>4. p = 6
  <2>1. p \notin Consonants /\ p \notin Vowels
    BY <1>1, <1>2, <1>3, LetterIs
  <2> QED BY <2>1 DEF Consonants, Vowels
<1>5. next' = 7 /\ word' = word /\ rest' = rest /\ quint' = quint /\ res' = res
  BY <1>2, <1>4 DEF ReadOther
<1>6. Got(DigitsBefore[next])'
  BY <1>3, <1>4, <1>5, Places DEF Got
<1>7. Spelt'
  BY <1>3, <1>5 DEF Spelt, Characters, Letter
<1> QED BY <1>2, <1>3, <1>5, <1>6, <1>7 DEF NameInv

(* It holds at first, and it implies that the name is read as the          *)
(* identifier.                                                             *)
LEMMA NameInvInit ==
  ASSUME NameInit
  PROVE  NameInv
<1>1. /\ word \in Words /\ rest = word /\ quint = <<>> /\ next = 0
      /\ res = [d \in 1 .. 16 |-> 0]
  BY DEF NameInit
<1>2. word \in Word
  BY <1>1, ProquintAssumption
<1>3. Spelt
  BY <1>1 DEF Spelt
<1>4. Left(DigitsBefore[Len(quint) + 1])
  <2>1. DigitsBefore[Len(quint) + 1] = 0
    BY <1>1, Places
  <2> QED BY <1>1, <1>2, <2>1 DEF Left
<1>5. Got(0)
  BY <1>1 DEF Got
<1> QED BY <1>1, <1>3, <1>4, <1>5 DEF NameInv

LEMMA NameInvStep ==
  ASSUME NameInv, [NameNext]_nameVars
  PROVE  NameInv'
<1>1. CASE NameNext
  BY <1>1, ConsonantStep, VowelStep, SeparateStep, StrIdStep, ReadConsonantStep,
     ReadVowelStep, ReadOtherStep, Zenon DEF NameNext
<1>2. CASE UNCHANGED nameVars
  <2>1. /\ word' = word /\ rest' = rest /\ quint' = quint
        /\ next' = next /\ res' = res
    BY <1>2 DEF nameVars
  <2> QED BY <2>1 DEF NameInv, Spelt, Characters, Letter, Left, Got
<1> QED BY <1>1, <1>2

LEMMA NameRead ==
  ASSUME NameInv
  PROVE  RoundTrip
<1>1. PICK n \in 0 .. 16 : Got(n) /\ (next > Len(quint) => n = 16)
  <2>1. CASE next = 0
    <3>1. Got(0)
      BY <2>1 DEF NameInv
    <3>2. ~(next > Len(quint))
      BY <2>1 DEF NameInv, Spelt
    <3> QED BY <3>1, <3>2
  <2>2. CASE next # 0
    <3>1. Len(quint) = 11 /\ next \in 1 .. 12 /\ Got(DigitsBefore[next])
      BY <2>2 DEF NameInv
    <3>2. PICK k \in 0 .. 16 : k = DigitsBefore[next]
      BY <3>1, Places
    <3>3. next > Len(quint) => k = 16
      BY <3>1, <3>2, Places
    <3>4. Got(k)
      BY <3>1, <3>2
    <3> QED BY <3>3, <3>4
  <2> QED BY <2>1, <2>2
<1>2. word \in [1 .. 16 -> 0 .. 3]
  BY ProquintAssumption DEF NameInv, Word, Digit
<1>3. n = 16 => res = word
  BY <1>1, <1>2 DEF Got
<1>4. res = [d \in 1 .. 16 - n |-> 0] \o SubSeq(word, 1, n)
  <2> DEFINE z == [d \in 1 .. 16 - n |-> 0]
             w == SubSeq(word, 1, n)
             v == [d \in 1 .. 16 |-> IF d <= 16 - n THEN 0 ELSE word[d - (16 - n)]]
  <2>1. z \in Seq(0 .. 3) /\ Len(z) = 16 - n /\ \A d \in 1 .. 16 - n : z[d] = 0
    OBVIOUS
  <2>2. w \in Seq(0 .. 3) /\ Len(w) = n /\ \A d \in 1 .. n : w[d] = word[d]
    <3>1. \A d \in 1 .. n : word[d] \in 0 .. 3
      BY <1>2
    <3>2. /\ w \in Seq(0 .. 3) /\ Len(w) = IF 1 <= n THEN n - 1 + 1 ELSE 0
          /\ \A d \in 1 .. n - 1 + 1 : w[d] = word[1 + d - 1]
      BY <3>1, SubSeqProperties
    <3> HIDE DEF w
    <3>3. n - 1 + 1 = n /\ \A d \in 1 .. n : 1 + d - 1 = d
      OBVIOUS
    <3> QED BY <3>2, <3>3
  <2>3. v = z \o w
    <3> HIDE DEF z, w
    <3>1. z \o w \in Seq(0 .. 3) /\ Len(z \o w) = 16
      BY <2>1, <2>2
    <3>2. \A d \in 1 .. 16 : (z \o w)[d] = v[d]
      <4> TAKE d \in 1 .. 16
      <4>1. CASE d <= 16 - n
        <5>1. d \in 1 .. 16 - n
          BY <4>1
        <5>2. (z \o w)[d] = z[d]
          BY <2>1, <2>2, <4>1
        <5>3. z[d] = 0
          BY <2>1, <5>1
        <5>4. v[d] = 0
          BY <4>1
        <5> HIDE DEF v
        <5> QED BY <5>2, <5>3, <5>4
      <4>2. CASE ~(d <= 16 - n)
        <5>1. d - (16 - n) \in 1 .. n
          BY <4>2
        <5>2. (z \o w)[d] = w[d - (16 - n)]
          BY <2>1, <2>2, <4>2
        <5> QED BY <2>2, <4>2, <5>1, <5>2
      <4> QED BY <4>1, <4>2
    <3>3. z \o w = [d \in 1 .. 16 |-> (z \o w)[d]]
      BY <3>1, SeqIsWord
    <3> QED BY <3>2, <3>3
  <2> QED BY <1>1, <2>3 DEF Got
<1> QED BY <1>1, <1>3, <1>4 DEF RoundTrip

(* The name of an identifier is read as that identifier (proquint.cc,      *)
(* identifiable.cc, workspace.cc), for every identifier, not only those of *)
(* the run, and for any separator that is no letter.  This is what lets    *)
(* NodeGraph take the name of a channel for a pair of label and identifier. *)
THEOREM NamesAreRead == NameSpec => []RoundTrip
<1>1. NameInit => NameInv
  BY NameInvInit
<1>2. NameInv /\ [NameNext]_nameVars => NameInv'
  BY NameInvStep
<1>3. NameInv => RoundTrip
  BY NameRead
<1> QED BY <1>1, <1>2, <1>3, PTL DEF NameSpec
===============================================================================
