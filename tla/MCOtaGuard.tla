----------------------------- MODULE MCOtaGuard -----------------------------
(* Model values and bounds for checking OtaGuard. *)
EXTENDS OtaGuard

CONSTANTS old, new, next

\* Three images: an older one, and two of the same newer version, so that
\* upgrades, downgrades and re-installations of a version all occur.
MCImages  == {old, new, next}
MCVersion == [i \in MCImages |-> IF i = old THEN 1 ELSE 2]

=============================================================================
