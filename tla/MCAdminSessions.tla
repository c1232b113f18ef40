-------------------------- MODULE MCAdminSessions --------------------------
(* A small instance of AdminSessions for TLC. *)
EXTENDS AdminSessions, TLC

\* Tokens and requests are interchangeable.
TokenSymmetry == Permutations(Tokens) \cup Permutations(Requests)
=============================================================================
