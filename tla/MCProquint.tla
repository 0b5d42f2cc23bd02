------------------------------ MODULE MCProquint ------------------------------
(* Proquint for identifiers that are any two digits at any two places and  *)
(* one digit everywhere else.                                              *)
EXTENDS Proquint

Background == {0, 1, 3}

MCWords ==
  {[d \in 1 .. 16 |-> IF d = p THEN x ELSE IF d = q THEN y ELSE b] :
     p, q \in 1 .. 16, x, y \in Digit, b \in Background}
===============================================================================
