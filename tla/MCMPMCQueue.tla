----------------------------- MODULE MCMPMCQueue -----------------------------
(* MPMCQueue on small instances: two cells, and more pushes than cells, so *)
(* that cells are used again while slow threads still hold old positions.  *)
EXTENDS MPMCQueue
===============================================================================
