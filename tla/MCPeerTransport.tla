-------------------------- MODULE MCPeerTransport --------------------------
(* Model values and bounds for checking PeerTransport. *)
EXTENDS PeerTransport

CONSTANTS a, b   \* pendants
CONSTANTS m1, m2, m3

Pair  == {a, b}

\* Two reliable messages from a to b, the first of one or two fragments.
OneWay       == {m1, m2}
OneWayFrom   == [m \in OneWay |-> a]
OneWayTo     == [m \in OneWay |-> b]
OneWaySplit  == [m \in OneWay |-> IF m = m1 THEN 2 ELSE 1]
OneWaySingle == [m \in OneWay |-> 1]
OneWayReliable == [m \in OneWay |-> TRUE]

\* From a to b two unreliable messages of two fragments, as file frames are,
\* and a reliable one of one fragment.
Files         == {m1, m2, m3}
FilesFrom     == [m \in Files |-> a]
FilesTo       == [m \in Files |-> b]
FilesCount    == [m \in Files |-> IF m = m3 THEN 1 ELSE 2]
FilesReliable == [m \in Files |-> m = m3]

\* One reliable message of two fragments from a to b.
Alone         == {m1}
AloneFrom     == [m \in Alone |-> a]
AloneTo       == [m \in Alone |-> b]
AloneDouble   == [m \in Alone |-> 2]
AloneReliable == [m \in Alone |-> TRUE]

\* A reliable message each way, and between them a broadcast of two fragments.
Mixed         == {m1, m2, m3}
MixedFrom     == [m \in Mixed |-> IF m = m3 THEN b ELSE a]
MixedTo       == [m \in Mixed |-> CASE m = m1 -> b [] m = m2 -> Broadcast [] m = m3 -> a]
MixedCount    == [m \in Mixed |-> IF m = m2 THEN 2 ELSE 1]
MixedReliable == [m \in Mixed |-> m # m2]

\* Every status is sent once.
Once    == [s \in Status |-> 1]

=============================================================================
