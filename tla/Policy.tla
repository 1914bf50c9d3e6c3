------------------------------- MODULE Policy --------------------------------
(***************************************************************************)
(* internal/policy: what may run without asking, and what may be granted   *)
(* for the rest of the session.  A command is its argv, a sequence of      *)
(* words; a grant is the argv it was given for, and covers what begins     *)
(* with it.                                                                *)
(***************************************************************************)
EXTENDS Naturals, Sequences, SequencesExt

CONSTANTS Argvs,      \* the commands asked for
          Allowlist,  \* the commands that never ask
          Shells,     \* the words whose base name is a shell or runs one
          FieldsOf    \* what strings.Fields makes of a word: a sequence of words

ASSUME PolicyAssumption ==
    /\ \A p \in Allowlist : p # <<>> /\ p[1] \notin Shells
    /\ <<>> \notin Argvs

\* What the configuration says, and whether another instance has the workspace.
Setting == [grants : BOOLEAN, askCommands : BOOLEAN, askPatches : BOOLEAN,
            concurrent : BOOLEAN]

\* A request is for a command or for a patch, which has no argv.
Patch      == [op |-> "patch", argv |-> <<>>]
Command(a) == [op |-> "command", argv |-> a]
Request    == {Patch} \cup {Command(a) : a \in Argvs}

IsShell(argv) == argv # <<>> /\ argv[1] \in Shells

MatchesPattern(pattern, extendable, argv) ==
    /\ pattern # <<>> /\ IsPrefix(pattern, argv)
    /\ extendable \/ Len(argv) = Len(pattern)

Listed(argv) == \E p \in Allowlist : MatchesPattern(p, FALSE, argv)

\* The grants, of those in force, that cover a command.
Covering(grants, argv) == {g \in grants : MatchesPattern(g.argv, TRUE, argv)}

\* ForCommand: allowed without asking.
ForCommand(s, grants, argv) ==
    /\ ~IsShell(argv)
    /\ \/ Listed(argv)
       \/ ~s.askCommands
       \/ s.grants /\ Covering(grants, argv) # {}

ForPatch(s) == ~s.askPatches

\* validateGrant, behind CanGrant and Grant.
CanGrant(s, r) ==
    /\ r.op = "command" /\ s.grants
    /\ r.argv \notin {<<>>, <<"*">>} /\ ~IsShell(r.argv)

CanApproveForSession(s, r) == ~s.concurrent /\ CanGrant(s, r)

\* A grant is logged with its words joined by spaces, and read back as fields.
Fields(argv) == FlattenSeq([i \in DOMAIN argv |-> FieldsOf[argv[i]]])
=============================================================================
