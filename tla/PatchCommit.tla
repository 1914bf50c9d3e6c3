----------------------------- MODULE PatchCommit -----------------------------
(***************************************************************************)
(* apply_patch (internal/tool/apply_patch.go, internal/patch/apply.go):    *)
(* every change of a patch is staged in a temp file, the user is asked,    *)
(* and the changes are committed one after the other with renames, the     *)
(* files they replace moved to backups.  When a call fails, what was done  *)
(* is undone, and undoing may fail too.                                    *)
(*                                                                         *)
(* A killed process stops in any state, so that an invariant of every      *)
(* state covers that too.  A file's bytes are one value, and the user edits *)
(* files only before the commit, which takes microseconds.                 *)
(***************************************************************************)
EXTENDS Naturals, Sequences, FiniteSets, SequencesExt

CONSTANTS Paths,       \* files of the workspace
          MaxChanges,  \* bound: changes of a patch
          MaxFaults,   \* bound: calls of the operating system that fail
          MaxEdits     \* bound: edits of the user while the patch is staged

VARIABLES
    fs,         \* the content of every file name
    changes,    \* the patch
    pc,         \* what apply_patch is doing
    at,         \* the change it is at, and in a commit the step of it
    committed,  \* the entries committed so far
    todo,       \* the calls left of a rollback or a cleanup, by entry
    result,     \* how it ends
    listed,     \* files an error lists as inconsistent
    told,       \* a file the failed change's own error names
    before,     \* the workspace when the commit began
    faults,     \* calls that failed without a reason in the model
    stuck,      \* one of these was a call of todo
    edits       \* edits of the user

vars == <<fs, changes, pc, at, committed, todo, result, listed, told, before, faults, stuck, edits>>

Indices == 1..MaxChanges
Temp(i)      == <<"temp", i>>
Backup(i)    == <<"backup", i>>
OldBackup(i) == <<"oldbackup", i>>
Names == Paths \cup {Temp(i) : i \in Indices} \cup {Backup(i) : i \in Indices}
               \cup {OldBackup(i) : i \in Indices}

\* os.CreateTemp makes names that nothing has.
ASSUME PatchAssumption ==
    /\ MaxChanges \in Nat /\ MaxFaults \in Nat /\ MaxEdits \in Nat
    /\ \A i \in Indices : {Temp(i), Backup(i), OldBackup(i)} \cap Paths = {}

Absent   == <<"absent">>
Contents == {Absent} \cup ({"original", "user"} \X Paths) \cup ({"new"} \X Indices)

\* FileChange: a rename is plain ("rename") or comes with hunks ("edit").
Change == [op : {"create", "modify", "delete"}, path : Paths, old : {Absent}]
            \cup {c \in [op : {"rename", "edit"}, path : Paths, old : Paths] : c.path # c.old}
Moves(c)   == c.op \in {"rename", "edit"}
HasTemp(c) == c.op \in {"create", "modify", "edit"}
Source(c)  == IF Moves(c) THEN c.old ELSE c.path

\* pendingRename as rollback finds it.
Entry == [disposition : {"rename", "restore", "create-or-modify", "delete"},
          hadOriginal : BOOLEAN, oldBackup : BOOLEAN]
NoEntry == [disposition |-> "none", hadOriginal |-> FALSE, oldBackup |-> FALSE]

Exists(n) == fs[n] # Absent
Renamed(f, from, to) == [f EXCEPT ![to] = f[from], ![from] = Absent]

Init ==
    /\ \E there \in SUBSET Paths :
         fs = [n \in Names |-> IF n \in there THEN <<"original", n>> ELSE Absent]
    /\ \E n \in Indices : changes \in [1..n -> Change]
    /\ pc = "staging"
    /\ at = [change |-> 1, step |-> "backup", entry |-> NoEntry]
    /\ committed = <<>>
    /\ todo = <<>>
    /\ result = "none"
    /\ listed = {}
    /\ told = {}
    /\ before = [p \in Paths |-> fs[p]]
    /\ faults = 0
    /\ stuck = FALSE
    /\ edits = 0

Now == changes[at.change]
Fault == faults < MaxFaults /\ faults' = faults + 1

-----------------------------------------------------------------------------
(* rollback, and the other lists of calls whose errors are only collected *)

\* A call of todo: the files its error names, the calls given up with it.
RenameBack(from, to, names, skips) ==
    [call |-> "rename", from |-> from, to |-> to, names |-> names, skips |-> skips]
RemoveFile(n, names) ==
    [call |-> "remove", from |-> n, to |-> n, names |-> names, skips |-> 0]

Call == [call : {"rename", "remove"}, from : Names, to : Names, names : SUBSET Names,
         skips : {0, 1}]

RestoreFinal(i, names) == RenameBack(Backup(i), changes[i].path, names, 0)

Undo(i, e) ==
    LET c == changes[i] IN
    CASE e.disposition = "rename" /\ e.oldBackup ->
            << IF e.hadOriginal THEN RestoreFinal(i, {c.path})
                                ELSE RemoveFile(c.path, {c.path}),
               RenameBack(OldBackup(i), c.old, {c.old}, 0) >>
      [] e.disposition = "rename" /\ ~e.oldBackup ->
            IF e.hadOriginal
            THEN << RenameBack(c.path, c.old, {c.path, c.old}, 1), RestoreFinal(i, {c.path}) >>
            ELSE << RenameBack(c.path, c.old, {c.path, c.old}, 0) >>
      [] e.disposition \in {"restore", "delete"} -> << RestoreFinal(i, {c.path}) >>
      [] e.disposition = "create-or-modify" -> << RemoveFile(c.path, {c.path}) >>

\* The temp files of changes 1..n, those already renamed into place too.
TempsOf(n) ==
    [j \in 1..n |-> IF HasTemp(changes[j]) THEN << RemoveFile(Temp(j), {Temp(j)}) >> ELSE <<>>]

Rollback == Reverse([j \in 1..Len(committed) |-> Undo(j, committed[j])])
                \o TempsOf(Len(changes))

\* (mutant) The failed change itself is forgotten.
SelfRepairNot == <<>>

\* selfRepairFinalPath, for the change whose commit failed.
SelfRepair == IF at.entry.hadOriginal
              THEN << RestoreFinal(at.change, {Now.path}) >> ELSE <<>>

GiveUp(entries, kind) ==
    /\ pc' = "clearing"
    /\ todo' = entries
    /\ result' = kind

HasCall == todo # <<>> /\ todo[1] # <<>>

CallWorks ==
    /\ HasCall
    /\ LET s == todo[1][1] IN
         /\ Exists(s.from)
         /\ fs' = IF s.call = "rename" THEN Renamed(fs, s.from, s.to)
                                       ELSE [fs EXCEPT ![s.from] = Absent]
    /\ todo' = [todo EXCEPT ![1] = Tail(@)]
    /\ UNCHANGED <<changes, pc, at, committed, result, listed, told, before, faults, stuck, edits>>

CallFails ==
    /\ HasCall
    /\ LET s == todo[1][1] IN
         /\ IF Exists(s.from) THEN Fault /\ stuck' = TRUE ELSE UNCHANGED <<faults, stuck>>
         /\ listed' = listed \cup s.names
         /\ todo' = [todo EXCEPT ![1] = SubSeq(@, 2 + s.skips, Len(@))]
    /\ UNCHANGED <<fs, changes, pc, at, committed, result, told, before, edits>>

NextEntry ==
    /\ todo # <<>> /\ todo[1] = <<>>
    /\ todo' = Tail(todo)
    /\ UNCHANGED <<fs, changes, pc, at, committed, result, listed, told, before, faults, stuck, edits>>

End ==
    /\ pc = "clearing"
    /\ todo = <<>>
    /\ pc' = "over"
    /\ result' = IF result # "commit_failed" THEN result
                 ELSE IF listed # {} THEN "partial_rollback" ELSE "rename_failed"
    /\ UNCHANGED <<fs, changes, at, committed, todo, listed, told, before, faults, stuck, edits>>

-----------------------------------------------------------------------------
(* Stage, the approval, and the user meanwhile *)

Stageable(c) == IF c.op = "create" THEN ~Exists(c.path) ELSE Exists(Source(c))

\* (mutant) The commit starts behind the last change.
StageChangeGoesOn ==
    /\ pc = "staging"
    /\ Stageable(Now)
    /\ fs' = IF HasTemp(Now) THEN [fs EXCEPT ![Temp(at.change)] = <<"new", at.change>>] ELSE fs
    /\ at' = [at EXCEPT !.change = @ + 1]
    /\ pc' = IF at.change < Len(changes) THEN pc ELSE "asking"
    /\ UNCHANGED <<changes, committed, todo, result, listed, told, before, faults, stuck, edits>>

StageChange ==
    /\ pc = "staging"
    /\ Stageable(Now)
    /\ fs' = IF HasTemp(Now) THEN [fs EXCEPT ![Temp(at.change)] = <<"new", at.change>>] ELSE fs
    /\ IF at.change < Len(changes)
       THEN at' = [at EXCEPT !.change = @ + 1] /\ UNCHANGED pc
       ELSE at' = [at EXCEPT !.change = 1] /\ pc' = "asking"
    /\ UNCHANGED <<changes, committed, todo, result, listed, told, before, faults, stuck, edits>>

\* The file is missing or in the way, or a hunk does not apply, or a write fails.
StageFails ==
    /\ pc = "staging"
    /\ GiveUp(TempsOf(at.change - 1), "not_staged")
    /\ UNCHANGED <<fs, changes, at, committed, listed, told, before, faults, stuck, edits>>

UserEdits ==
    /\ pc \in {"staging", "asking"}
    /\ edits < MaxEdits
    /\ edits' = edits + 1
    /\ \E p \in Paths : \E content \in {Absent, <<"user", p>>} :
         /\ fs' = [fs EXCEPT ![p] = content]
         /\ before' = [before EXCEPT ![p] = content]
    /\ UNCHANGED <<changes, pc, at, committed, todo, result, listed, told, faults, stuck>>

\* Request allowed it: Commit begins.
Allowed ==
    /\ pc = "asking"
    /\ pc' = "committing"
    /\ UNCHANGED <<fs, changes, at, committed, todo, result, listed, told, before, faults, stuck, edits>>

\* It is denied: Discard.
Denied ==
    /\ pc = "asking"
    /\ GiveUp(TempsOf(Len(changes)), "denied")
    /\ UNCHANGED <<fs, changes, at, committed, listed, told, before, faults, stuck, edits>>

-----------------------------------------------------------------------------
(* Commit, a change at a time: back up what is at the final path, back up   *)
(* the source of an edited rename, move the new content in.                 *)

Disposition(c, had) ==
    IF Moves(c) THEN "rename" ELSE IF c.op = "delete" THEN "delete"
    ELSE IF had THEN "restore" ELSE "create-or-modify"

\* (mutant) The copy of the file that is replaced is not kept.
BackUpNot ==
    /\ pc = "committing" /\ at.step = "backup"
    /\ LET had == Exists(Now.path) /\ Now.op # "delete" IN
         /\ at' = [at EXCEPT !.step = IF Now.op = "edit" THEN "source" ELSE "move",
                             !.entry = [disposition |-> Disposition(Now, had),
                                        hadOriginal |-> had, oldBackup |-> FALSE]]
    /\ UNCHANGED <<fs, changes, pc, committed, todo, result, listed, told, before, faults, stuck, edits>>

\* A delete's backup is its commit, and has nothing before it.
BackUp ==
    /\ pc = "committing" /\ at.step = "backup"
    /\ LET had == Exists(Now.path) /\ Now.op # "delete" IN
         /\ fs' = IF had THEN Renamed(fs, Now.path, Backup(at.change)) ELSE fs
         /\ at' = [at EXCEPT !.step = IF Now.op = "edit" THEN "source" ELSE "move",
                             !.entry = [disposition |-> Disposition(Now, had),
                                        hadOriginal |-> had, oldBackup |-> FALSE]]
    /\ UNCHANGED <<changes, pc, committed, todo, result, listed, told, before, faults, stuck, edits>>

BackUpFails ==
    /\ pc = "committing" /\ at.step = "backup"
    /\ Exists(Now.path) /\ Now.op # "delete"
    /\ Fault
    /\ GiveUp(Rollback, "backup_failed")
    /\ UNCHANGED <<fs, changes, at, committed, listed, told, before, stuck, edits>>

BackUpSource ==
    /\ pc = "committing" /\ at.step = "source"
    /\ Exists(Now.old)
    /\ fs' = Renamed(fs, Now.old, OldBackup(at.change))
    /\ at' = [at EXCEPT !.step = "move", !.entry.oldBackup = TRUE]
    /\ UNCHANGED <<changes, pc, committed, todo, result, listed, told, before, faults, stuck, edits>>

BackUpSourceFails ==
    /\ pc = "committing" /\ at.step = "source"
    /\ IF Exists(Now.old) THEN Fault ELSE UNCHANGED faults
    /\ GiveUp(<< SelfRepair >> \o Rollback, "backup_failed")
    /\ UNCHANGED <<fs, changes, at, committed, listed, told, before, stuck, edits>>

\* The rename that commits the change, and where it goes.
MovedFrom == IF HasTemp(Now) THEN Temp(at.change) ELSE Source(Now)
MovedTo   == IF Now.op = "delete" THEN Backup(at.change) ELSE Now.path

\* The last change's commit is followed by the removal of all backups.
Cleanup(entries) ==
    LET backups(i) ==
          (IF entries[i].hadOriginal THEN << RemoveFile(Backup(i), {}) >> ELSE <<>>)
            \o (IF entries[i].oldBackup THEN << RemoveFile(OldBackup(i), {}) >> ELSE <<>>)
    IN  [i \in 1..Len(entries) |-> backups(i)]

Move ==
    /\ pc = "committing" /\ at.step = "move"
    /\ Exists(MovedFrom)
    /\ fs' = Renamed(fs, MovedFrom, MovedTo)
    /\ LET entry == IF Now.op = "delete" THEN [at.entry EXCEPT !.hadOriginal = TRUE] ELSE at.entry
       IN  committed' = Append(committed, entry)
    /\ IF at.change < Len(changes)
       THEN /\ at' = [change |-> at.change + 1, step |-> "backup", entry |-> NoEntry]
            /\ UNCHANGED <<pc, todo, result>>
       ELSE GiveUp(Cleanup(committed'), "ok") /\ UNCHANGED at
    /\ UNCHANGED <<changes, listed, told, before, faults, stuck, edits>>

\* The source of an edited rename is put back at once; SelfRepair does the rest.
MoveFails ==
    /\ pc = "committing" /\ at.step = "move"
    /\ GiveUp(<< SelfRepair >> \o Rollback, "commit_failed")
    /\ \/ /\ IF Exists(MovedFrom) THEN Fault ELSE UNCHANGED faults
          /\ fs' = IF at.entry.oldBackup THEN Renamed(fs, OldBackup(at.change), Now.old) ELSE fs
          /\ UNCHANGED <<told, stuck>>
       \/ /\ at.entry.oldBackup
          /\ Exists(MovedFrom) /\ faults + 2 <= MaxFaults
          /\ faults' = faults + 2
          /\ told' = {Now.old}
          /\ stuck' = TRUE
          /\ UNCHANGED fs
    /\ UNCHANGED <<changes, at, committed, listed, before, edits>>

-----------------------------------------------------------------------------
Next ==
    \/ StageChange \/ StageFails \/ UserEdits \/ Allowed \/ Denied
    \/ BackUp \/ BackUpFails \/ BackUpSource \/ BackUpSourceFails \/ Move \/ MoveFails
    \/ CallWorks \/ CallFails \/ NextEntry \/ End

Spec == Init /\ [][Next]_vars

-----------------------------------------------------------------------------
TypeOK ==
    /\ fs \in [Names -> Contents]
    /\ changes \in UNION {[1..n -> Change] : n \in Indices}
    /\ pc \in {"staging", "asking", "committing", "clearing", "over"}
    /\ at \in [change : 1..Len(changes), step : {"backup", "source", "move"},
               entry : Entry \cup {NoEntry}]
    /\ committed \in Seq(Entry) /\ Len(committed) <= Len(changes)
    /\ todo \in Seq(Seq(Call))
    /\ result \in {"none", "ok", "not_staged", "denied", "backup_failed", "commit_failed",
                   "partial_rollback", "rename_failed"}
    /\ listed \subseteq Names /\ told \subseteq Paths
    /\ before \in [Paths -> Contents]
    /\ faults \in 0..MaxFaults
    /\ stuck \in BOOLEAN
    /\ edits \in 0..MaxEdits

Failed == result \in {"not_staged", "denied", "backup_failed", "commit_failed",
                      "partial_rollback", "rename_failed"}

\* No two changes of the patch name the same file.
Disjoint ==
    \A i, j \in DOMAIN changes :
        i # j => {changes[i].path, Source(changes[i])} \cap {changes[j].path, Source(changes[j])} = {}

\* No temp file and no backup is left.
NoLitter == \A n \in Names \ Paths : ~Exists(n)

Unchanged == \A p \in Paths : fs[p] = before[p]

\* A patch that succeeds has had all of its changes, and left no backup.
AppliedWhole ==
    Disjoint =>
        /\ \A i \in DOMAIN changes :
             LET c == changes[i] IN
             /\ HasTemp(c) => fs[c.path] = <<"new", i>>
             /\ c.op = "rename" => fs[c.path] = before[c.old]
             /\ Moves(c) => ~Exists(c.old)
             /\ c.op = "delete" => ~Exists(c.path)
        /\ \A p \in Paths :
             (\A i \in DOMAIN changes : p \notin {changes[i].path, Source(changes[i])})
                => fs[p] = before[p]
        /\ ~stuck => NoLitter

\* A patch that failed has changed nothing and left nothing beside, unless a call
\* of its undoing failed as well; then its error names each file that is not what it
\* was (rollback: "Returns a list of paths left in inconsistent state").
NothingApplied ==
    /\ ~stuck => Unchanged /\ NoLitter
    /\ Disjoint => {p \in Paths : fs[p] # before[p]} \subseteq listed \cup told

\* A patch is all or nothing (plan/spec/kirsch-plan.md, "Atomicity"), at whatever
\* call it fails, and whatever was done to its files while it waited for approval.
AllOrNothing ==
    pc = "over" => IF result = "ok" THEN AppliedWhole ELSE Failed /\ NothingApplied

\* While a commit is under way or being undone, and after it failed, whatever
\* calls failed, what a file held is in that file or in a backup: a process
\* killed at any point leaves the user something to restore from.  (Not when
\* undoing fails and the patch names a file twice: with a rename onto a file the
\* patch creates, the file that could not be moved back is then removed.)
NothingLost ==
    (result # "ok" /\ (Disjoint \/ ~stuck)) =>
        \A p \in Paths : before[p] # Absent => \E n \in Names : fs[n] = before[p]
=============================================================================
