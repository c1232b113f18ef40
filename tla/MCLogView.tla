----------------------------- MODULE MCLogView -----------------------------
(* A small instance of LogView for TLC. *)
EXTENDS LogView

CONSTANT a
=============================================================================
