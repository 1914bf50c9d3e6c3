----------------------------- MODULE MCTuiModes ------------------------------
(* TuiModes on a small instance: every feature with the ones it meets. *)
EXTENDS TuiModes

Has(features, t, c, i) == [has |-> features, turns |-> t, calls |-> c, items |-> i]

MCUses == {Has({"calls"}, 1, 2, 5),
           Has({"calls", "new"}, 2, 1, 3),
           Has({"calls", "browsing", "overlays"}, 1, 1, 3),
           Has({"speech", "browsing", "new"}, 2, 0, 3),
           Has({"speech", "editing", "notices"}, 2, 0, 3),
           Has({"commands", "browsing", "overlays", "new"}, 1, 0, 3)}
=============================================================================
