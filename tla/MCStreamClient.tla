--------------------------- MODULE MCStreamClient ----------------------------
(* StreamClient on a small instance: two blocks, four wire events. *)
EXTENDS StreamClient
=============================================================================
