-------------------------- MODULE MCServiceLifecycle --------------------------
(* ServiceLifecycle for TLC: all modes, any set of ports taken. *)
EXTENDS ServiceLifecycle
=============================================================================
