--------------------------- MODULE MCSessionStore ----------------------------
(* SessionStore on a small instance. *)
EXTENDS SessionStore
=============================================================================
