------------------------------- MODULE OtaMC -------------------------------
(* Values for model checking Ota: two versions, of which the second has two *)
(* images, one that dies at its start.                                      *)
EXTENDS Ota
MCBuilt == [i \in Images |-> IF i = "i1" THEN "v1" ELSE "v2"]
=============================================================================
