-------------------------- MODULE ReliableMessage --------------------------
(***************************************************************************)
(* What the pendant-to-pendant transport promises its upper layers, as     *)
(* app_peer_transport.h and its callers use it: a message is accepted,     *)
(* handed up at most once at each pendant it is meant for, in the order    *)
(* its sender's messages were accepted, and ends once, which the sender of *)
(* a reliable one is told; it is told success only after the message was   *)
(* handed up.                                                              *)
(***************************************************************************)
EXTENDS Naturals, Sequences, FiniteSets

CONSTANTS Device, Broadcast, Message, From, To, Reliable

VARIABLES
  accepted,  \* messages the transport took on
  rank,      \* their place among their sender's messages
  received,  \* messages handed up at each device, in order
  report     \* how each ended

vars == <<accepted, rank, received, report>>

Has(d, m) == \E k \in DOMAIN received[d] : received[d][k] = m

Accept(m) ==
  /\ m \notin accepted /\ accepted' = accepted \cup {m}
  /\ \E r \in 1..Cardinality(Message) :
       /\ \A n \in accepted : From[n] = From[m] => rank[n] < r
       /\ rank' = [rank EXCEPT ![m] = r]
  /\ UNCHANGED <<received, report>>

Receive(d, m) ==
  /\ m \in accepted /\ To[m] \in {d, Broadcast} /\ d # From[m]
  /\ ~Has(d, m)
  /\ \A n \in accepted : From[n] = From[m] /\ Has(d, n) => rank[n] < rank[m]
  /\ received' = [received EXCEPT ![d] = Append(@, m)]
  /\ UNCHANGED <<accepted, rank, report>>

Report(m, result) ==
  /\ m \in accepted /\ report[m] = "none"
  /\ Reliable[m] /\ result = "ok" => Has(To[m], m)
  /\ report' = [report EXCEPT ![m] = result]
  /\ UNCHANGED <<accepted, rank, received>>

Init ==
  /\ accepted = {} /\ rank = [m \in Message |-> 0]
  /\ received = [d \in Device |-> <<>>]
  /\ report = [m \in Message |-> "none"]

Next ==
  \E m \in Message :
    \/ Accept(m)
    \/ \E d \in Device : Receive(d, m)
    \/ \E result \in {"ok", "failed"} : Report(m, result)

Spec == Init /\ [][Next]_vars

=============================================================================
