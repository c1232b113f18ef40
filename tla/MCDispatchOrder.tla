-------------------------- MODULE MCDispatchOrder --------------------------
(* A small instance of DispatchOrder for TLC. *)
EXTENDS DispatchOrder
=============================================================================
