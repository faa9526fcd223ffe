-------------------------- MODULE ObjectTransfer --------------------------
(***************************************************************************)
(* What the app's object transfer (GlimmerFileTransfer.java) promises the  *)
(* chat page that uses it through Listener: each object it takes on ends   *)
(* with at most one of onFileTxCompleted and onFileTxFailed, it is called  *)
(* completed only after the other phone was given the whole object, and    *)
(* that phone is given it at most once for every round the sender made.    *)
(***************************************************************************)
EXTENDS Naturals

CONSTANTS Object, Rounds

VARIABLES
  outcome,  \* what the sending phone's chat page shows
  shown     \* how often the receiving phone's chat page was given the object

vars == <<outcome, shown>>

Init ==
  /\ outcome = [f \in Object |-> "none"]
  /\ shown = [f \in Object |-> 0]

Start(f) ==
  /\ outcome[f] = "none"
  /\ outcome' = [outcome EXCEPT ![f] = "sending"]
  /\ UNCHANGED shown

\* Also after the sender gave up: frames may still be on their way.
Show(f) ==
  /\ outcome[f] # "none" /\ shown[f] < Rounds
  /\ shown' = [shown EXCEPT ![f] = @ + 1]
  /\ UNCHANGED outcome

Complete(f) ==
  /\ outcome[f] = "sending" /\ shown[f] > 0
  /\ outcome' = [outcome EXCEPT ![f] = "completed"]
  /\ UNCHANGED shown

\* An object refused at once (busy, not ready) was never being sent.
Fail(f) ==
  /\ outcome[f] \in {"none", "sending"}
  /\ outcome' = [outcome EXCEPT ![f] = "failed"]
  /\ UNCHANGED shown

Next == \E f \in Object : Start(f) \/ Show(f) \/ Complete(f) \/ Fail(f)

Spec == Init /\ [][Next]_vars

=============================================================================
