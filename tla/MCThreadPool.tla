----------------------------- MODULE MCThreadPool -----------------------------
(* ThreadPool on small instances: two workers, queues of two cells (the     *)
(* least MPMCBoundedQueue accepts), more tasks than a queue has cells.     *)
EXTENDS ThreadPool
===============================================================================
