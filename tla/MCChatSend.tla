----------------------------- MODULE MCChatSend -----------------------------
(* Model values and bounds for checking ChatSend. *)
EXTENDS ChatSend

CONSTANTS n1, n2   \* neighbours

Two == {n1, n2}
One == {n1}

AllFaults == Fault
LinkOnly  == {"link"}

=============================================================================
