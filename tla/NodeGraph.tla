------------------------------- MODULE NodeGraph -------------------------------
(***************************************************************************)
(* Graphs of nodes (lib/src/workspace.cc, lib/include/graph.h, node.h,     *)
(* connection.h and the ports).  Every graph, node and connection gets an  *)
(* identifier from the workspace; an input port opens a channel whose name *)
(* is its label and its node's identifier; an output port writes to the    *)
(* channel of the input port it was connected to last.                     *)
(*                                                                         *)
(* The printed form of an identifier (proquint.cc) is one-to-one, so that  *)
(* a channel name is the pair of label and identifier.  A graph is built   *)
(* by one thread.  Every node has the same ports here.                     *)
(***************************************************************************)
EXTENDS Naturals, FiniteSets

CONSTANTS
  Graphs, Nodes, Connections,
  InputLabels, ParameterLabels, OutputLabels,
  Ids,         \* uint32_t
  Zero,        \* the identifier 0
  MaxFaults,   \* bound: how often an identifier is repeated or read too early
  NoId, NoTopic, NoEntity

Entities == Graphs \cup Nodes \cup Connections

ASSUME NodeGraphAssumption ==
  /\ MaxFaults \in Nat
  /\ Zero \in Ids /\ NoId \notin Ids
  /\ Graphs \cap Nodes = {} /\ Graphs \cap Connections = {}
  /\ Nodes \cap Connections = {} /\ NoEntity \notin Entities
  /\ InputLabels \cap ParameterLabels = {}
  /\ NoTopic \notin (InputLabels \cup ParameterLabels) \X Ids
  /\ NoEntity \notin Nodes \X (InputLabels \cup ParameterLabels)

VARIABLES
  id,            \* _id of every entity, NoId while nobody has written or read it
  idDictionary,  \* _idDictionary of the workspace
  graphs,        \* _graphs: the graph inserted for each identifier
  nodes,         \* _nodes of each graph
  connections,   \* _connections of each graph
  parent,        \* _parent of each node
  topic,         \* _topic of an input or parameter port, set with _subCtx
  pub,           \* _pub of an output port
  channels,      \* the receiver of each open channel
  subscribers,   \* the parameter ports subscribed to each topic
  owner,         \* history: the entity an identifier was last assigned to
  linked,        \* history: the port each output port was last connected to
  faults         \* history: identifiers given out again, and read too early

workspaceVars == <<idDictionary, graphs, owner, faults>>
portVars == <<topic, pub, channels, subscribers, linked>>
vars == <<id, workspaceVars, nodes, connections, parent, portVars>>

InputPort == Nodes \X InputLabels
ParameterPort == Nodes \X ParameterLabels
OutputPort == Nodes \X OutputLabels
Topic == (InputLabels \cup ParameterLabels) \X Ids

TypeOK ==
  /\ id \in [Entities -> Ids \cup {NoId}]
  /\ idDictionary \in SUBSET Ids
  /\ graphs \in [Ids -> Graphs \cup {NoEntity}]
  /\ nodes \in [Graphs -> [Ids -> Nodes \cup {NoEntity}]]
  /\ connections \in [Graphs -> [Ids -> Connections \cup {NoEntity}]]
  /\ parent \in [Nodes -> Graphs \cup {NoEntity}]
  /\ topic \in [InputPort \cup ParameterPort -> Topic \cup {NoTopic}]
  /\ pub \in [OutputPort -> Topic \cup {NoTopic}]
  /\ channels \in [Topic -> InputPort \cup {NoEntity}]
  /\ subscribers \in [Topic -> SUBSET ParameterPort]
  /\ owner \in [Ids -> Entities \cup {NoEntity}]
  /\ linked \in [OutputPort -> InputPort \cup ParameterPort \cup {NoEntity}]
  /\ faults \in 0 .. MaxFaults

-------------------------------------------------------------------------------
Init ==
  /\ id = [e \in Entities |-> NoId]
  /\ idDictionary = {}
  /\ graphs = [x \in Ids |-> NoEntity]
  /\ nodes = [g \in Graphs |-> [x \in Ids |-> NoEntity]]
  /\ connections = [g \in Graphs |-> [x \in Ids |-> NoEntity]]
  /\ parent = [n \in Nodes |-> NoEntity]
  /\ topic = [p \in InputPort \cup ParameterPort |-> NoTopic]
  /\ pub = [o \in OutputPort |-> NoTopic]
  /\ channels = [t \in Topic |-> NoEntity]
  /\ subscribers = [t \in Topic |-> {}]
  /\ owner = [x \in Ids |-> NoEntity]
  /\ linked = [o \in OutputPort |-> NoEntity]
  /\ faults = 0

(* Mutant: the key is put in the place of the entity.                      *)
InsertKey(m, k, v) == IF m[k] = NoEntity THEN [m EXCEPT ![k] = k] ELSE m

(* map::insert: a key that is taken keeps its value.                       *)
Insert(m, k, v) == IF m[k] = NoEntity THEN [m EXCEPT ![k] = v] ELSE m

Repeated(x) == IF owner[x] = NoEntity THEN 0 ELSE 1
Early(n) == IF id[n] = NoId THEN 1 ELSE 0

(* assignId draws numbers until one is not in the dictionary.  registerId  *)
(* then records 0, not the number.                                         *)
AssignId(e, x) ==
  /\ x \notin idDictionary
  /\ owner' = [owner EXCEPT ![x] = e]
  /\ idDictionary' = idDictionary \cup {Zero}

(* Mutant: the graph is registered under 0, too.                           *)
CreateEmptyGraphAtZero(g, x) ==
  /\ id[g] = NoId
  /\ AssignId(g, x)
  /\ faults' = faults + Repeated(x) /\ faults' <= MaxFaults
  /\ id' = [id EXCEPT ![g] = x]
  /\ graphs' = Insert(graphs, Zero, g)
  /\ UNCHANGED <<nodes, connections, parent, portVars>>

CreateEmptyGraph(g, x) ==
  /\ id[g] = NoId
  /\ AssignId(g, x)
  /\ faults' = faults + Repeated(x) /\ faults' <= MaxFaults
  /\ id' = [id EXCEPT ![g] = x]
  /\ graphs' = Insert(graphs, x, g)
  /\ UNCHANGED <<nodes, connections, parent, portVars>>

(* A node may be added again, to this graph or another: it gets a new      *)
(* identifier and stays in the maps under the old one.                     *)
AddNode(g, n, x) ==
  /\ id[g] # NoId
  /\ AssignId(n, x)
  /\ faults' = faults + Repeated(x) /\ faults' <= MaxFaults
  /\ id' = [id EXCEPT ![n] = x]
  /\ parent' = [parent EXCEPT ![n] = g]
  /\ nodes' = [nodes EXCEPT ![g] = Insert(@, x, n)]
  /\ UNCHANGED <<graphs, connections, portVars>>

-------------------------------------------------------------------------------
(* The constructor of EntityIdentifiable leaves _id as it finds it: who    *)
(* reads it before assignId has written it sees any number, and the same   *)
(* one again later.                                                        *)
Reads(n, i) == i \in Ids /\ (id[n] # NoId => i = id[n])

(* Mutant: the node's identifier is left out.                              *)
PathWithoutNode(p, i) == <<p[2], Zero>>

(* Node::getInputPortFullPath.                                             *)
InputPortFullPath(p, i) == <<p[2], i>>

(* Port::pub_address after connectReceivingEnd, which names the port once. *)
Address(p, i) == IF topic[p] = NoTopic THEN InputPortFullPath(p, i) ELSE topic[p]

(* connectReceivingEnd: an input port opens a channel, a parameter port    *)
(* subscribes to a topic.                                                  *)
ConnectReceivingEnd(p, i) ==
  LET t == Address(p, i) IN
  /\ topic' = [topic EXCEPT ![p] = t]
  /\ IF topic[p] = NoTopic /\ p \in InputPort
       THEN channels' = Insert(channels, t, p)
       ELSE UNCHANGED channels
  /\ IF topic[p] = NoTopic /\ p \in ParameterPort
       THEN subscribers' = [subscribers EXCEPT ![t] = @ \cup {p}]
       ELSE UNCHANGED subscribers

(* Mutant: the emitting end asks for the address before the receiving end  *)
(* has one.                                                                *)
AddConnectionEmittingFirst(g, c, o, p, i, x) ==
  /\ id[g] # NoId /\ id[c] = NoId
  /\ Reads(p[1], i)
  /\ ConnectReceivingEnd(p, i)
  /\ pub' = [pub EXCEPT ![o] = topic[p]]
  /\ linked' = [linked EXCEPT ![o] = p]
  /\ AssignId(c, x)
  /\ faults' = faults + Repeated(x) + Early(p[1]) /\ faults' <= MaxFaults
  /\ id' = [id EXCEPT ![p[1]] = i, ![c] = x]
  /\ connections' = [connections EXCEPT ![g] = Insert(@, x, c)]
  /\ UNCHANGED <<graphs, nodes, parent>>

(* addConnection: the Connection connects the receiving end, then gives    *)
(* the emitting end its address, in place of any it had.                   *)
AddConnection(g, c, o, p, i, x) ==
  /\ id[g] # NoId /\ id[c] = NoId
  /\ Reads(p[1], i)
  /\ ConnectReceivingEnd(p, i)
  /\ pub' = [pub EXCEPT ![o] = Address(p, i)]
  /\ linked' = [linked EXCEPT ![o] = p]
  /\ AssignId(c, x)
  /\ faults' = faults + Repeated(x) + Early(p[1]) /\ faults' <= MaxFaults
  /\ id' = [id EXCEPT ![p[1]] = i, ![c] = x]
  /\ connections' = [connections EXCEPT ![g] = Insert(@, x, c)]
  /\ UNCHANGED <<graphs, nodes, parent>>

Next ==
  \E g \in Graphs, x \in Ids :
    \/ CreateEmptyGraph(g, x)
    \/ \E n \in Nodes : AddNode(g, n, x)
    \/ \E c \in Connections, o \in OutputPort, p \in InputPort \cup ParameterPort,
          i \in Ids : AddConnection(g, c, o, p, i, x)

Spec == Init /\ [][Next]_vars

(* Who gets what OutputPort::write hands to channel_write: the receiver of *)
(* the channel, if it is open.  No output port publishes to a topic, and   *)
(* so none reaches a parameter port.                                       *)
Receiver(o) ==
  IF pub[o] = NoTopic \/ pub[o] \notin Topic THEN NoEntity ELSE channels[pub[o]]

-------------------------------------------------------------------------------
(* Entities that have got an identifier have different ones (workspace.cc: *)
(* assignId draws again while a number is in use, "// Register id").       *)
IdsDistinct ==
  \A e, f \in Entities : id[e] # NoId /\ id[e] = id[f] => e = f

(* What is written to an output port reaches the input port it was         *)
(* connected to last, and no other (connection.h, inputport.h), however    *)
(* connections to and from other ports come and go.                        *)
Routed ==
  faults = 0 =>
    \A o \in OutputPort : linked[o] \in InputPort => Receiver(o) = linked[o]

(* Whatever the identifiers, a write to a connected output port is not     *)
(* dropped, and who receives it had the address of the port connected.     *)
AddressKnown ==
  \A o \in OutputPort :
    linked[o] \in InputPort =>
      Receiver(o) # NoEntity /\ topic[Receiver(o)] = topic[linked[o]]

(* A graph, node or connection is found under its identifier (workspace.cc:*)
(* getGraph, graph.h): no insert has met a key that was taken.             *)
EverythingFound ==
  /\ \A g \in Graphs : id[g] # NoId => graphs[id[g]] = g
  /\ \A n \in Nodes : parent[n] # NoEntity => nodes[parent[n]][id[n]] = n
  /\ \A c \in Connections :
       id[c] # NoId => \E g \in Graphs : connections[g][id[c]] = c
Found == faults = 0 => EverythingFound
===============================================================================
