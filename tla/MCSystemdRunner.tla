-------------------------- MODULE MCSystemdRunner --------------------------
(* A small instance of SystemdRunner for TLC. *)
EXTENDS SystemdRunner
=============================================================================
