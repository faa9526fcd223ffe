-------------------------- MODULE MCFileTransfer --------------------------
(* Model values and bounds for checking FileTransfer. *)
EXTENDS FileTransfer

CONSTANTS p1, p2   \* phones

Pair == {p1, p2}
One  == {p1}

OneChunk  == 1..1
TwoChunks == 1..2

\* Every chunk is sent at first, or a test leaves out the second.
NoSkip == {{}}
Skips  == {{}, {2}}

\* Which faults a run allows.
AllFaults  == Fault
Heard      == {"repeat", "refusal", "loss"}
UnbindOnly == {"unbind"}

=============================================================================
