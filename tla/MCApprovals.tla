---------------------------- MODULE MCApprovals ------------------------------
(* Approvals on a small instance: a listed command, a shell, a command with a word *)
(* that has a space, and one that the fields of that word would cover.            *)
EXTENDS Approvals

MCAllowlist == {<<"ls">>}
MCArgvs     == {<<"ls">>, <<"sh", "x">>, <<"mk", "a b">>, <<"mk", "a", "c">>}
MCFieldsOf  == [w \in {"ls", "sh", "x", "mk", "a", "b", "c", "a b"} |->
                   IF w = "a b" THEN <<"a", "b">> ELSE <<w>>]
Usual       == [grants |-> TRUE, askCommands |-> TRUE, askPatches |-> TRUE,
                concurrent |-> FALSE]
MCSettings  == {Usual, [Usual EXCEPT !.concurrent = TRUE], [Usual EXCEPT !.grants = FALSE],
                [Usual EXCEPT !.askCommands = FALSE, !.askPatches = FALSE]}
=============================================================================
