------------------------------ MODULE MCHostCmd ------------------------------
(* Model values and bounds for checking HostCmd. *)
EXTENDS HostCmd

CONSTANTS e   \* a neighbour

OneSeq     == {1}
TwoSeqs    == {1, 2}
Neighbour  == {e}
Requests   == {GET_DEVICE_INFO, 5, GET_PEER_PROFILES, CHAT_SEND}
TableOnly  == {GET_PEER_TABLE}
None       == {}

\* Bytes that spell no deferred command in either record.
PlainByte  == [x \in Neighbour |-> [i \in 0 .. 2 |-> 200 + i]]
\* A peer record that reads as an active FILE_SEND with sequence number 202.
FileByte   == [x \in Neighbour |-> [i \in 0 .. 2 |->
                IF i = 2 THEN FILE_SEND ELSE 201 + i]]

ShortTexts == {2}
Text192    == {22}   \* 192 bytes in fragments of 9

=============================================================================
