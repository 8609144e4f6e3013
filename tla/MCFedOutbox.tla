---------------------------- MODULE MCFedOutbox -----------------------------
(* Instances of FedOutbox: a server that answers and one that does not.    *)
EXTENDS FedOutbox

CONSTANTS near, dead, a, x, y, z

Dest == [l \in Letter |-> IF l = a THEN near ELSE dead]
=============================================================================
