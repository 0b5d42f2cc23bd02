---------------------------- MODULE MCProducerHash ----------------------------
(* ProducerHash with threads whose numbers collide at the end of a table.  *)
EXTENDS ProducerHash, TLC

CONSTANTS t1, t2, t3

Colliding == t1 :> 7 @@ t2 :> 7 @@ t3 :> 0
===============================================================================
