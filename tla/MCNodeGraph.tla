----------------------------- MODULE MCNodeGraph -----------------------------
(* NodeGraph on small instances.                                           *)
EXTENDS NodeGraph, TLC

(* All identifiers but 0 are interchangeable, and so are nodes and         *)
(* connections.                                                            *)
GraphSymmetry ==
  Permutations(Ids \ {Zero}) \cup Permutations(Nodes) \cup Permutations(Connections)
===============================================================================
