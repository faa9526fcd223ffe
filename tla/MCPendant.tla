------------------------------ MODULE MCPendant ------------------------------
(* Model values and bounds for checking Pendant. *)
EXTENDS Pendant

CONSTANTS e1, e2   \* neighbours

Two == {e1, e2}

=============================================================================
