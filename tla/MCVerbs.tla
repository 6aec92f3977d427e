------------------------------ MODULE MCVerbs ------------------------------
(* A lamp on a table, a key in the pocket, and Ray behind a gate, open or  *)
(* closed: to walk to Ray then leads to the fence, where the current actor *)
(* is at first.                                                            *)
EXTENDS Costumes

CONSTANTS atTable, atRay, atFence

Where == [x \in {"lamp", "Ray"} |-> IF x = "lamp" THEN atTable ELSE atRay]

Paths ==
  [s \in {atTable, atRay, atFence} |-> IF s = atRay THEN {atRay, atFence} ELSE {s}]

=============================================================================
