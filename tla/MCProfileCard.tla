---------------------------- MODULE MCProfileCard ----------------------------
(* Model values and bounds for checking ProfileCard. *)
EXTENDS ProfileCard

CONSTANTS nick   \* a nickname

\* The user changes the mode and changes it back, and has two errands; two
\* links, and one disturbance: a loss of power, a lost packet, a link for an update.
Disturbed == [toggle |-> 2, errand |-> 2, link |-> 2, fault |-> 1]

\* Nothing is lost.
Undisturbed == [toggle |-> 1, errand |-> 1, link |-> 1, fault |-> 0]

=============================================================================
