------------------------------- MODULE MCPubSub -------------------------------
(* PubSub on small instances; the .cfg files differ in what callbacks do,  *)
(* in the size of the queues and in whether the callers serialise their    *)
(* changes of the registry.                                                *)
EXTENDS PubSub
===============================================================================
