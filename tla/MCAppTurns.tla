----------------------------- MODULE MCAppTurns ------------------------------
(* AppTurns on a small instance. *)
EXTENDS AppTurns
=============================================================================
