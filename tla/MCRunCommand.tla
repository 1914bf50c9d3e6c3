---------------------------- MODULE MCRunCommand -----------------------------
(* RunCommand on a small instance. *)
EXTENDS RunCommand
=============================================================================
