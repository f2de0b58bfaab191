------------------------------ MODULE MCEventBus ------------------------------
(* Instances of EventBus and AsyncEventBus for TLC.                         *)
EXTENDS AsyncEventBus

\* Two calls: one or two events, then none or one, side by side or one in the other.
TwoCalls == <<{1, 2}, {0, 1}>>
=============================================================================
