------------------------------ MODULE MCChannel ------------------------------
(* Channel on small instances.                                             *)
EXTENDS Channel
===============================================================================
