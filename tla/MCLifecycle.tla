----------------------------- MODULE MCLifecycle -----------------------------
(* Instances of the monitored lifecycle for TLC. *)
EXTENDS LifecycleMonitored

MCBound == {-1, 0, 1}
=============================================================================
