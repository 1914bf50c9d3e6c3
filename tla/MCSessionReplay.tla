--------------------------- MODULE MCSessionReplay ---------------------------
(* SessionReplay with the bounds of the configuration files. *)
EXTENDS SessionReplay
=============================================================================
