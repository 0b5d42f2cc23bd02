-------------------------- MODULE MCImplicitProducer --------------------------
(* ImplicitProducer on small instances.                                    *)
EXTENDS ImplicitProducer, TLC

CONSTANTS w1, w2, r1, r2

Plan(a, b, c, d, f) ==
  [calls |-> w1 :> a @@ w2 :> b @@ r1 :> c @@ r2 :> d, faults |-> f]

(* The ring of the index turns and grows, an allocation or a copy fails;   *)
(* blocks go from one writer to the other; two readers at one stream, over *)
(* two blocks; everybody at once; two readers who overdraw a stream.       *)
MCPlans ==
  {Plan(0, 7, 4, 0, 1),
   Plan(1, 5, 4, 0, 0),
   Plan(0, 4, 3, 1, 0),
   Plan(1, 1, 1, 1, 1),
   Plan(0, 2, 2, 2, 0)}
BlockSymmetry == Permutations(Blocks \ InitialBlockPool)
===============================================================================
