------------------------------- MODULE MCUVLoop -------------------------------
(* UVLoop on a small instance.                                             *)
EXTENDS UVLoop
===============================================================================
