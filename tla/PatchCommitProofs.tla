--------------------------- MODULE PatchCommitProofs ---------------------------
(***************************************************************************)
(* For any files, changes, failing calls and edits: a patch is all or      *)
(* nothing, and nothing of what the files held is lost on the way.         *)
(*                                                                         *)
(* Two arguments carry the proof.  While no call of the undoing has failed *)
(* the calls left lead from the files as they are to the files as they     *)
(* were (Undoable), even when the patch names a file twice.  When one has  *)
(* failed, each change is looked at by itself, with the files that no      *)
(* other change names (Local).                                             *)
(***************************************************************************)
EXTENDS PatchCommit, SequenceTheorems, WellFoundedInduction, TLAPS

\* Every name but the temp files, and what it holds.
Held == Names \ {Temp(i) : i \in Indices}
State(f) == [n \in Held |-> f[n]]
States   == [Held -> Contents]

\* The workspace as it was when the commit began, and no backups.
Clean == [n \in Held |-> IF n \in Paths THEN before[n] ELSE Absent]

\* What a call makes of such a state when it works, and an entry when all its calls do.
After(g, s) ==
    IF s.from \notin Held \/ g[s.from] = Absent THEN g
    ELSE IF s.call = "rename" THEN Renamed(g, s.from, s.to)
    ELSE [g EXCEPT ![s.from] = Absent]

AfterAll(g, calls) ==
    IF calls = <<>> THEN g
    ELSE IF Len(calls) = 1 THEN After(g, calls[1])
    ELSE After(After(g, calls[1]), calls[2])

\* No call of the entry is skipped.
Works(g, calls) ==
    calls # <<>> /\ calls[1].skips > 0 => calls[1].from \in Held /\ g[calls[1].from] # Absent

\* The entries lead from g to goal: there are states between them.
Undoes(g, entries, goal) ==
    \E h \in [0..Len(entries) -> States] :
        /\ h[0] = g /\ h[Len(entries)] = goal
        /\ \A j \in 1..Len(entries) :
              Works(h[j-1], entries[j]) /\ h[j] = AfterAll(h[j-1], entries[j])

\* What is done first about the change that failed.
SourceBack(i) == RenameBack(OldBackup(i), changes[i].old, {changes[i].old}, 0)
FinalBack(i)  == RestoreFinal(i, {changes[i].path})
FinalGone(i)  == RemoveFile(changes[i].path, {changes[i].path})
MoveBack(i, k) == RenameBack(changes[i].path, changes[i].old, {changes[i].path, changes[i].old}, k)
PutBackFor(i, e) == (IF e.oldBackup THEN << SourceBack(i) >> ELSE <<>>)
                      \o (IF e.hadOriginal THEN << FinalBack(i) >> ELSE <<>>)
PutBack == PutBackFor(at.change, at.entry)

Fits(c, e) ==
    /\ e.disposition = Disposition(c, e.hadOriginal)
    /\ c.op = "delete" => e.hadOriginal
    /\ e.oldBackup <=> c.op = "edit"

FitsNow ==
    /\ at.step = "backup" => at.entry = NoEntry
    /\ at.step # "backup" =>
         /\ at.entry.disposition = Disposition(Now, at.entry.hadOriginal)
         /\ Now.op = "delete" => ~at.entry.hadOriginal
         /\ at.entry.oldBackup <=> (Now.op = "edit" /\ at.step = "move")
    /\ at.step = "source" => Now.op = "edit"

Early == pc \in {"staging", "asking"}
Rolling == result \in {"backup_failed", "commit_failed"}

Shape ==
    /\ Early => committed = <<>> /\ at.step = "backup" /\ at.entry = NoEntry
    /\ pc = "asking" => at.change = 1
    /\ Early \/ pc = "committing" => /\ todo = <<>> /\ result = "none" /\ ~stuck
                                     /\ listed = {} /\ told = {}
    /\ pc = "committing" => Len(committed) = at.change - 1 /\ FitsNow
    /\ \A i \in 1..Len(committed) : Fits(changes[i], committed[i])
    /\ pc = "clearing" => result \in {"ok", "not_staged", "denied"} \/ Rolling
    /\ pc = "over" => todo = <<>> /\ (result = "ok" \/ Failed)
    /\ result = "ok" => Len(committed) = Len(changes)
    /\ pc = "clearing" /\ Rolling => Len(committed) = at.change - 1

\* An entry has two calls at most, only the first skips another, and none moves a
\* temp file.
Fit(calls) ==
    /\ Len(calls) <= 2 /\ (Len(calls) = 2 => calls[2].skips = 0)
    /\ \A m \in 1..Len(calls) :
          calls[m].call = "rename" => calls[m].from \in Held /\ calls[m].to \in Held

EntriesFit == \A j \in 1..Len(todo) : Fit(todo[j])

UndoEntry(i) == Undo(i, committed[i])
TempEntry(i) == IF HasTemp(changes[i]) THEN << RemoveFile(Temp(i), {Temp(i)}) >> ELSE <<>>

\* The entries of a rollback left: those of committed, then the temp files.
Left == Len(todo) - Len(changes)

RollbackShape ==
    pc = "clearing" /\ Rolling =>
        /\ Left <= Len(committed) + 1
        /\ \A i \in 1..Len(committed) : i < Left => todo[Left + 1 - i] = UndoEntry(i)
        /\ \A i \in 1..Len(changes) :
             /\ Left + i > 1 => todo[Left + i] = TempEntry(i)
             /\ Left + i = 1 => todo[1] \in {TempEntry(i), <<>>}

GivenUpShape ==
    pc = "clearing" /\ result \in {"not_staged", "denied"} =>
        \A j \in 1..Len(todo) : \/ todo[j] = <<>>
                                \/ \E i \in Indices : todo[j] = << RemoveFile(Temp(i), {Temp(i)}) >>

\* A cleanup removes backups, and skips nothing.
CleanupShape ==
    pc = "clearing" /\ result = "ok" =>
        \A j \in 1..Len(todo) : \A m \in 1..Len(todo[j]) :
            \E i \in Indices : todo[j][m] \in {RemoveFile(Backup(i), {}), RemoveFile(OldBackup(i), {})}

TempsHeld ==
    /\ \A i \in Indices : Exists(Temp(i)) =>
         /\ i <= Len(changes) /\ HasTemp(changes[i])
         /\ pc = "staging" => i < at.change
         /\ pc = "committing" => i >= at.change
         /\ result # "ok"
         /\ pc \in {"clearing", "over"} /\ ~stuck =>
              \E j \in 1..Len(todo) : todo[j] = << RemoveFile(Temp(i), {Temp(i)}) >>
    /\ \A i \in 1..Len(changes) :
         HasTemp(changes[i]) /\ (\/ pc = "staging" /\ i < at.change
                                 \/ pc = "asking"
                                 \/ pc = "committing" /\ i >= at.change)
             => fs[Temp(i)] = <<"new", i>>

BackupsHeld ==
    /\ pc = "committing" =>
         /\ \A i \in Indices :
              /\ Exists(Backup(i)) => \/ i <= Len(committed) /\ committed[i].hadOriginal
                                      \/ i = at.change /\ at.entry.hadOriginal
              /\ Exists(OldBackup(i)) => \/ i <= Len(committed) /\ committed[i].oldBackup
                                         \/ i = at.change /\ at.entry.oldBackup
         /\ at.step # "backup" =>
              /\ at.entry.hadOriginal => Exists(Backup(at.change))
              /\ Now.op # "delete" => ~Exists(Now.path)
              /\ at.entry.oldBackup => Exists(OldBackup(at.change)) /\ ~Exists(Now.old)
    /\ pc \in {"clearing", "over"} /\ result = "ok" /\ ~stuck =>
         \A i \in Indices :
            /\ Exists(Backup(i)) => \E j \in 1..Len(todo) : \E m \in 1..Len(todo[j]) :
                                        todo[j][m] = RemoveFile(Backup(i), {})
            /\ Exists(OldBackup(i)) => \E j \in 1..Len(todo) : \E m \in 1..Len(todo[j]) :
                                        todo[j][m] = RemoveFile(OldBackup(i), {})

Undoable ==
    /\ Early => State(fs) = Clean
    /\ pc = "committing" => Undoes(AfterAll(State(fs), PutBack), Rollback, Clean)
    /\ pc = "clearing" /\ result # "ok" /\ ~stuck => Undoes(State(fs), todo, Clean)
    /\ pc = "over" /\ result # "ok" /\ ~stuck => State(fs) = Clean

\* The files the patch names, and calls that leave the others alone.
Named == UNION {{changes[i].path, Source(changes[i])} : i \in DOMAIN changes}
Near(calls) == \A m \in 1..Len(calls) : {calls[m].from, calls[m].to} \cap Paths \subseteq Named

OthersStay ==
    /\ \A p \in Paths \ Named : fs[p] = before[p]
    /\ \A j \in 1..Len(todo) : Near(todo[j])

\* A change and its files, when no other change names them.
FilesOf(i) == {changes[i].path, Source(changes[i]), Backup(i), OldBackup(i)}

Untouched(i) ==
    LET c == changes[i] IN
    /\ fs[c.path] = before[c.path] /\ fs[Source(c)] = before[Source(c)]
    /\ ~Exists(Backup(i)) /\ ~Exists(OldBackup(i))

Backed(i, had) == IF had THEN fs[Backup(i)] = before[changes[i].path]
                         ELSE ~Exists(Backup(i)) /\ before[changes[i].path] = Absent

InPlace(i, e) ==
    LET c == changes[i] IN
    IF c.op = "delete" THEN Untouched(i)
    ELSE /\ Backed(i, e.hadOriginal) /\ ~Exists(c.path)
         /\ Moves(c) => IF e.oldBackup THEN fs[OldBackup(i)] = before[c.old] /\ ~Exists(c.old)
                                       ELSE fs[c.old] = before[c.old] /\ ~Exists(OldBackup(i))

Applied(i) ==
    LET c == changes[i] IN
    /\ HasTemp(c) => fs[c.path] = <<"new", i>>
    /\ c.op = "rename" => fs[c.path] = before[c.old]
    /\ Moves(c) => ~Exists(c.old)
    /\ c.op = "delete" => ~Exists(c.path)

Committed(i, e) ==
    /\ Applied(i) /\ Backed(i, e.hadOriginal)
    /\ changes[i].op = "edit" => fs[OldBackup(i)] = before[changes[i].old]

Known == listed \cup told
PathOver(i) ==
    LET p == changes[i].path IN
    /\ fs[p] = before[p] \/ p \in Known
    /\ before[p] = Absent \/ before[p] \in {fs[p], fs[Backup(i)]}
SourceOver(i) ==
    LET c == changes[i] IN
    Moves(c) => /\ fs[c.old] = before[c.old] \/ c.old \in Known
                /\ before[c.old] = Absent \/ before[c.old] \in {fs[c.old], fs[OldBackup(i)], fs[c.path]}
SourceSafe(i) ==
    LET c == changes[i] IN
    Moves(c) => /\ fs[c.old] = before[c.old] \/ c.old \in Known
                /\ before[c.old] = Absent \/ before[c.old] \in {fs[c.old], fs[OldBackup(i)]}
Over(i) == PathOver(i) /\ SourceOver(i)

\* What is left to do about an entry, and what its files hold until it is done.
Doing(i, calls) ==
    LET c == changes[i] IN
    \/ calls = <<>> /\ Over(i)
    \/ calls = << FinalBack(i) >> /\ SourceSafe(i) /\ fs[Backup(i)] = before[c.path]
    \/ calls = << FinalGone(i) >> /\ SourceSafe(i) /\ before[c.path] = Absent
    \/ /\ calls = << SourceBack(i) >>
       /\ Moves(c) /\ PathOver(i) /\ fs[OldBackup(i)] = before[c.old]
    \/ /\ calls = << FinalBack(i), SourceBack(i) >>
       /\ Moves(c) /\ fs[Backup(i)] = before[c.path] /\ fs[OldBackup(i)] = before[c.old]
    \/ /\ calls = << FinalGone(i), SourceBack(i) >>
       /\ Moves(c) /\ before[c.path] = Absent /\ fs[OldBackup(i)] = before[c.old]
    \/ /\ calls = << MoveBack(i, 1), FinalBack(i) >>
       /\ Moves(c) /\ fs[c.path] = before[c.old] /\ fs[Backup(i)] = before[c.path]
    \/ /\ calls = << MoveBack(i, 0) >>
       /\ Moves(c) /\ fs[c.path] = before[c.old] /\ before[c.path] = Absent

Local(i) ==
    /\ Early => Untouched(i)
    /\ pc = "committing" =>
         /\ i < at.change => Committed(i, committed[i])
         /\ i = at.change => IF at.step = "backup" THEN Untouched(i) ELSE InPlace(i, at.entry)
         /\ i > at.change => Untouched(i)
    /\ pc \in {"clearing", "over"} /\ result = "ok" => Applied(i)
    /\ pc = "clearing" /\ Rolling =>
         /\ i < Left => Committed(i, committed[i])
         /\ i = Left => Doing(i, todo[1])
         /\ i > Left => Over(i)
    /\ result \in {"not_staged", "denied"} => Over(i)
    /\ pc = "over" /\ result # "ok" => Over(i)

DisjointHolds == Disjoint => \A i \in DOMAIN changes : Local(i)

IInv == /\ TypeOK /\ Shape /\ EntriesFit /\ RollbackShape /\ GivenUpShape /\ CleanupShape
        /\ TempsHeld /\ BackupsHeld /\ Undoable /\ OthersStay /\ DisjointHolds
-----------------------------------------------------------------------------
(* Names, contents and the sequences of a patch *)

LEMMA NamesDiffer ==
    /\ \A i \in Indices : /\ Temp(i) \in Names /\ Backup(i) \in Names /\ OldBackup(i) \in Names
                          /\ Temp(i) \notin Paths /\ Backup(i) \notin Paths /\ OldBackup(i) \notin Paths
                          /\ Temp(i) \notin Held /\ Backup(i) \in Held /\ OldBackup(i) \in Held
    /\ \A i, j \in Indices : /\ Temp(i) # Backup(j) /\ Temp(i) # OldBackup(j)
                             /\ Backup(i) # OldBackup(j)
                             /\ Temp(i) = Temp(j) => i = j
                             /\ Backup(i) = Backup(j) => i = j
                             /\ OldBackup(i) = OldBackup(j) => i = j
    /\ Paths \subseteq Names /\ Paths \subseteq Held /\ Held \subseteq Names
<1>1. \A i, j : /\ Temp(i) # Backup(j) /\ Temp(i) # OldBackup(j) /\ Backup(i) # OldBackup(j)
                /\ Temp(i) = Temp(j) => i = j
                /\ Backup(i) = Backup(j) => i = j
                /\ OldBackup(i) = OldBackup(j) => i = j
  BY DEF Temp, Backup, OldBackup
<1>2. \A i \in Indices : Temp(i) \notin Paths /\ Backup(i) \notin Paths /\ OldBackup(i) \notin Paths
  BY PatchAssumption
<1> QED BY <1>1, <1>2 DEF Names, Held

LEMMA ContentsDiffer ==
    /\ Absent \in Contents
    /\ \A i \in Indices : <<"new", i>> \in Contents /\ <<"new", i>> # Absent
    /\ \A p \in Paths : <<"user", p>> \in Contents /\ <<"original", p>> \in Contents
<1>1. \A i : <<"new", i>> # Absent
  BY DEF Absent
<1> QED BY <1>1 DEF Contents

LEMMA NamesOf ==
    \A n \in Names : n \in Held \/ \E i \in Indices : n = Temp(i)
  BY DEF Held

LEMMA ChangesIs ==
    ASSUME TypeOK
    PROVE  /\ changes \in Seq(Change) /\ Len(changes) \in Indices /\ Len(changes) \in Nat
           /\ DOMAIN changes = 1..Len(changes)
           /\ 1..Len(changes) \subseteq Indices
<1>1. PICK n \in Indices : changes \in [1..n -> Change]
  BY DEF TypeOK
<1>2. n \in Nat /\ n <= MaxChanges /\ MaxChanges \in Nat
  BY <1>1, PatchAssumption DEF Indices
<1>3. changes \in Seq(Change) /\ Len(changes) = n /\ DOMAIN changes = 1..n
  BY <1>1, <1>2
<1> QED BY <1>1, <1>2, <1>3 DEF Indices

LEMMA ChangeIs ==
    ASSUME NEW c \in Change
    PROVE  /\ c.op \in {"create", "modify", "delete", "rename", "edit"}
           /\ c.path \in Paths /\ Source(c) \in Paths
           /\ Moves(c) => c.old \in Paths /\ c.old # c.path /\ Source(c) = c.old
           /\ ~Moves(c) => Source(c) = c.path
  BY DEF Change, Moves, Source
-----------------------------------------------------------------------------
(* What calls make of the files *)

LEMMA TailIs ==
    ASSUME NEW S, NEW s \in Seq(S), s # <<>>
    PROVE  /\ Tail(s) \in Seq(S) /\ Len(Tail(s)) = Len(s) - 1 /\ Len(s) \in Nat \ {0}
           /\ s[1] \in S
           /\ \A i \in 1..Len(s)-1 : Tail(s)[i] = s[i+1]
           /\ s = <<s[1]>> \o Tail(s)
           /\ Len(s) = 1 <=> Tail(s) = <<>>
<1>1. Tail(s) \in Seq(S) /\ Len(Tail(s)) = Len(s) - 1 /\ Len(s) \in Nat \ {0} /\ s[1] \in S
  BY EmptySeq
<1>2. \A i \in 1..Len(s)-1 : Tail(s)[i] = s[i+1]
  OBVIOUS
<1>3. Len(s) = 1 <=> Tail(s) = <<>>
  <2>1. \A t \in Seq(S) : t # <<>> => Len(t) # 0
    BY EmptySeq
  <2>2. Len(<<>>) = 0
    BY EmptySeq
  <2>3. Tail(s) = <<>> => Len(Tail(s)) = 0
    BY <2>2
  <2>4. Len(Tail(s)) = 0 => Tail(s) = <<>>
    BY <1>1, <2>1
  <2> QED BY <1>1, <2>3, <2>4
<1>4. s = <<s[1]>> \o Tail(s)
  BY <1>1
<1> QED BY <1>1, <1>2, <1>3, <1>4

LEMMA JoinIs ==
    ASSUME NEW S, NEW s \in Seq(S), NEW t \in Seq(S)
    PROVE  /\ s \o t \in Seq(S) /\ Len(s \o t) = Len(s) + Len(t)
           /\ \A i \in 1..Len(s) : (s \o t)[i] = s[i]
           /\ \A i \in Len(s)+1..Len(s)+Len(t) : (s \o t)[i] = t[i - Len(s)]
  OBVIOUS

LEMMA PairIs ==
    ASSUME NEW S, NEW x \in S, NEW y \in S
    PROVE  /\ << x >> \o << y >> = << x, y >> /\ << x >> \o <<>> = << x >>
           /\ <<>> \o << y >> = << y >> /\ <<>> \o <<>> = <<>>
<1>1. << x >> \o << y >> = << x, y >>
  <2>1. /\ << x >> \o << y >> \in Seq(S) /\ Len(<< x >> \o << y >>) = 2
        /\ (<< x >> \o << y >>)[1] = x /\ (<< x >> \o << y >>)[2] = y
    OBVIOUS
  <2>2. << x, y >> \in Seq(S) /\ Len(<< x, y >>) = 2 /\ << x, y >>[1] = x /\ << x, y >>[2] = y
    OBVIOUS
  <2> DEFINE s == << x >> \o << y >>
             t == << x, y >>
  <2> HIDE DEF s, t
  <2>3. \A i \in 1..2 : i = 1 \/ i = 2
    OBVIOUS
  <2>4. s \in Seq(S) /\ t \in Seq(S) /\ Len(s) = Len(t) /\ \A i \in 1..Len(s) : s[i] = t[i]
    BY <2>1, <2>2, <2>3 DEF s, t
  <2>5. s = t
    BY <2>4, SeqEqual
  <2> QED BY <2>5 DEF s, t
<1>2. << x >> \in Seq(S) /\ << y >> \in Seq(S) /\ <<>> \in Seq(S)
  OBVIOUS
<1> QED BY <1>1, <1>2, ConcatEmptySeq

LEMMA AfterIs ==
    ASSUME NEW g \in States, NEW s \in Call, s.call = "rename" => s.to \in Held
    PROVE  After(g, s) \in States
<1>1. s.call \in {"rename", "remove"} /\ Absent \in Contents
  BY ContentsDiffer DEF Call
<1> QED BY <1>1 DEF After, Renamed, States

LEMMA AfterAllIs ==
    ASSUME NEW g \in States, NEW calls \in Seq(Call), Fit(calls)
    PROVE  /\ AfterAll(g, calls) \in States
           /\ calls # <<>> => /\ Tail(calls) \in Seq(Call) /\ Fit(Tail(calls))
                              /\ AfterAll(g, calls) = AfterAll(After(g, calls[1]), Tail(calls))
                              /\ \A h : Works(h, Tail(calls))
<1>1. /\ Len(calls) \in Nat /\ Len(calls) <= 2
      /\ \A m \in 1..Len(calls) : /\ calls[m] \in Call
                                  /\ calls[m].call = "rename" => calls[m].from \in Held /\ calls[m].to \in Held
      /\ calls = <<>> <=> Len(calls) = 0
  BY DEF Fit
<1>2. CASE calls = <<>>
  BY <1>2 DEF AfterAll
<1>3. CASE Len(calls) = 1
  <2>1. After(g, calls[1]) \in States
    BY <1>1, <1>3, AfterIs
  <2>2. Tail(calls) = <<>> /\ calls # <<>>
    BY <1>1, <1>3, TailIs
  <2>3. AfterAll(g, calls) = After(g, calls[1]) /\ \A h : AfterAll(h, Tail(calls)) = h
    BY <1>3, <2>2 DEF AfterAll
  <2>4. Fit(Tail(calls)) /\ Tail(calls) \in Seq(Call) /\ \A h : Works(h, Tail(calls))
    BY <2>2 DEF Fit, Works
  <2> QED BY <2>1, <2>3, <2>4
<1>4. CASE Len(calls) = 2
  <2>1. After(g, calls[1]) \in States
    BY <1>1, <1>4, AfterIs
  <2>2. After(After(g, calls[1]), calls[2]) \in States
    BY <1>1, <1>4, <2>1, AfterIs
  <2>4. calls # <<>>
    BY <1>4
  <2>3. /\ Tail(calls) \in Seq(Call) /\ Len(Tail(calls)) = 1 /\ Tail(calls)[1] = calls[2]
        /\ Tail(calls) # <<>>
    <3>1. 2 \in 1..Len(calls) /\ 1 \in 1..Len(calls)-1
      BY <1>4
    <3>2. Tail(calls) \in Seq(Call) /\ Len(Tail(calls)) = 1
      BY <1>4, <2>4, TailIs
    <3>3. Tail(calls)[1] = calls[1+1]
      BY <2>4, <3>1, TailIs
    <3>4. Tail(calls) # <<>>
      BY <1>4, <2>4, TailIs
    <3> QED BY <3>2, <3>3, <3>4
  <2>5. calls[2].skips = 0
    BY <1>4 DEF Fit
  <2>6. Fit(Tail(calls))
    <3>1. calls[2].call = "rename" => calls[2].from \in Held /\ calls[2].to \in Held
      BY <1>1, <1>4
    <3> HIDE DEF Fit
    <3>2. \A t : Len(t) = 1 /\ t[1] = calls[2] => Fit(t)
      BY <3>1 DEF Fit
    <3> QED BY <2>3, <3>2
  <2>7. AfterAll(g, calls) = After(After(g, calls[1]), calls[2])
        /\ AfterAll(After(g, calls[1]), Tail(calls)) = After(After(g, calls[1]), Tail(calls)[1])
    BY <1>4, <2>3, <2>4 DEF AfterAll
  <2>8. \A h : Works(h, Tail(calls))
    BY <2>3, <2>5 DEF Works
  <2>9. AfterAll(g, calls) = AfterAll(After(g, calls[1]), Tail(calls))
    BY <2>3, <2>7
  <2>10. AfterAll(g, calls) \in States
    BY <2>2, <2>7
  <2> QED BY <2>3, <2>6, <2>8, <2>9, <2>10
<1>5. Len(calls) \in {0, 1, 2}
  <2>1. Len(calls) \in Nat
    OBVIOUS
  <2>2. Len(calls) <= 2
    BY DEF Fit
  <2>3. \A n \in Nat : n <= 2 => n \in {0, 1, 2}
    OBVIOUS
  <2> QED BY <2>1, <2>2, <2>3, Zenon
<1>6. CASE Len(calls) = 0
  BY <1>1, <1>2, <1>6
<1> QED BY <1>3, <1>4, <1>5, <1>6

LEMMA UndoesNone ==
    ASSUME NEW g \in States, NEW goal
    PROVE  Undoes(g, <<>>, goal) <=> g = goal
<1>1. Undoes(g, <<>>, goal) => g = goal
  BY DEF Undoes
<1>2. ASSUME g = goal PROVE Undoes(g, <<>>, goal)
  <2> DEFINE h == [j \in 0..0 |-> g]
  <2>1. /\ h \in [0..Len(<<>>) -> States] /\ h[0] = g /\ h[Len(<<>>)] = goal
        /\ \A j \in 1..Len(<<>>) : FALSE
    BY <1>2
  <2> HIDE DEF h
  <2> QED BY <2>1 DEF Undoes
<1> QED BY <1>1, <1>2

LEMMA UndoesOne ==
    ASSUME NEW g \in States, NEW x \in Seq(Call), Fit(x), NEW rest \in Seq(Seq(Call)), NEW goal
    PROVE  Undoes(g, <<x>> \o rest, goal)
             <=> Works(g, x) /\ Undoes(AfterAll(g, x), rest, goal)
<1> DEFINE all == <<x>> \o rest
<1>1. /\ Len(rest) \in Nat /\ Len(all) = Len(rest) + 1 /\ all[1] = x
      /\ \A j \in 1..Len(rest) : all[j+1] = rest[j]
  OBVIOUS
<1> HIDE DEF all
<1>2. ASSUME Undoes(g, all, goal)
      PROVE  Works(g, x) /\ Undoes(AfterAll(g, x), rest, goal)
  <2>1. PICK h \in [0..Len(all) -> States] :
            /\ h[0] = g /\ h[Len(all)] = goal
            /\ \A j \in 1..Len(all) : Works(h[j-1], all[j]) /\ h[j] = AfterAll(h[j-1], all[j])
    BY <1>2 DEF Undoes
  <2>2. Works(g, x) /\ h[1] = AfterAll(g, x)
    BY <1>1, <2>1
  <2> DEFINE t == [j \in 0..Len(rest) |-> h[j+1]]
  <2>3. t \in [0..Len(rest) -> States] /\ t[0] = h[1] /\ t[Len(rest)] = goal
    BY <1>1, <2>1
  <2>4. ASSUME NEW j \in 1..Len(rest)
        PROVE  Works(t[j-1], rest[j]) /\ t[j] = AfterAll(t[j-1], rest[j])
    <3>1. j+1 \in 1..Len(all) /\ all[j+1] = rest[j] /\ (j+1)-1 = j
      BY <1>1
    <3>2. Works(h[j], rest[j]) /\ h[j+1] = AfterAll(h[j], rest[j])
      BY <2>1, <3>1
    <3>3. t[j-1] = h[j] /\ t[j] = h[j+1]
      BY <1>1
    <3> QED BY <3>2, <3>3
  <2> HIDE DEF t
  <2> QED BY <2>2, <2>3, <2>4 DEF Undoes
<1>3. ASSUME Works(g, x), Undoes(AfterAll(g, x), rest, goal)
      PROVE  Undoes(g, all, goal)
  <2>1. PICK t \in [0..Len(rest) -> States] :
            /\ t[0] = AfterAll(g, x) /\ t[Len(rest)] = goal
            /\ \A j \in 1..Len(rest) : Works(t[j-1], rest[j]) /\ t[j] = AfterAll(t[j-1], rest[j])
    BY <1>3 DEF Undoes
  <2> DEFINE h == [j \in 0..Len(all) |-> IF j = 0 THEN g ELSE t[j-1]]
  <2>2. h \in [0..Len(all) -> States] /\ h[0] = g /\ h[Len(all)] = goal
    BY <1>1, <2>1
  <2>3. ASSUME NEW j \in 1..Len(all)
        PROVE  Works(h[j-1], all[j]) /\ h[j] = AfterAll(h[j-1], all[j])
    <3>1. CASE j = 1
      <4>1. h[j-1] = g /\ h[j] = t[0] /\ all[j] = x
        BY <1>1, <3>1
      <4> QED BY <1>3, <2>1, <4>1
    <3>2. CASE j > 1
      <4>1. j-1 \in 1..Len(rest) /\ all[j] = rest[j-1]
        <5>1. j-1 \in 1..Len(rest) /\ (j-1)+1 = j
          BY <1>1, <3>2
        <5> QED BY <1>1, <5>1
      <4>2. j \in 0..Len(all) /\ j-1 \in 0..Len(all) /\ j # 0 /\ j-1 # 0
        BY <1>1, <3>2
      <4>3. h[j-1] = t[(j-1)-1] /\ h[j] = t[j-1]
        BY <4>2
      <4> HIDE DEF h
      <4> QED BY <2>1, <4>1, <4>3
    <3> QED BY <3>1, <3>2
  <2> HIDE DEF h
  <2> QED BY <2>2, <2>3 DEF Undoes
<1> QED BY <1>2, <1>3 DEF all
-----------------------------------------------------------------------------
(* The lists of calls *)

LEMMA CallsIs ==
    ASSUME TypeOK, NEW i \in 1..Len(changes), NEW names \in SUBSET Names, NEW k \in {0, 1}
    PROVE  LET c == changes[i] IN
           /\ RestoreFinal(i, names) \in Call
           /\ RemoveFile(c.path, names) \in Call
           /\ RemoveFile(Temp(i), names) \in Call /\ RemoveFile(Backup(i), names) \in Call
           /\ RemoveFile(OldBackup(i), names) \in Call
           /\ Moves(c) => /\ RenameBack(OldBackup(i), c.old, names, 0) \in Call
                          /\ RenameBack(c.path, c.old, names, k) \in Call
<1>1. /\ changes[i] \in Change /\ i \in Indices
  BY ChangesIs
<1>2. /\ changes[i].path \in Names
      /\ Moves(changes[i]) => changes[i].old \in Names
      /\ Temp(i) \in Names /\ Backup(i) \in Names /\ OldBackup(i) \in Names
  BY <1>1, ChangeIs, NamesDiffer
<1> QED BY <1>2 DEF Call, RestoreFinal, RenameBack, RemoveFile

\* What a rollback does about an entry.
LEMMA UndoIs ==
    ASSUME TypeOK, NEW i \in 1..Len(changes), NEW e \in Entry, Fits(changes[i], e)
    PROVE  LET c == changes[i]
               restore == RestoreFinal(i, {c.path})
               remove  == RemoveFile(c.path, {c.path})
               back    == IF e.hadOriginal THEN restore ELSE remove
               source  == RenameBack(OldBackup(i), c.old, {c.old}, 0)
           IN  /\ c.op = "edit" => Undo(i, e) = << back, source >>
               /\ c.op = "rename" /\ e.hadOriginal =>
                    Undo(i, e) = << RenameBack(c.path, c.old, {c.path, c.old}, 1), restore >>
               /\ c.op = "rename" /\ ~e.hadOriginal =>
                    Undo(i, e) = << RenameBack(c.path, c.old, {c.path, c.old}, 0) >>
               /\ c.op \in {"create", "modify"} => Undo(i, e) = << back >>
               /\ c.op = "delete" => Undo(i, e) = << restore >>
<1>1. changes[i] \in Change
  BY ChangesIs
<1>2. changes[i].op \in {"create", "modify", "delete", "rename", "edit"}
  BY <1>1, ChangeIs
<1>3. /\ e.disposition = Disposition(changes[i], e.hadOriginal)
      /\ changes[i].op = "delete" => e.hadOriginal
      /\ e.oldBackup <=> changes[i].op = "edit"
      /\ e.hadOriginal \in BOOLEAN /\ e.oldBackup \in BOOLEAN
  BY DEF Fits, Entry
<1>4. CASE changes[i].op = "edit"
  <2>1. e.disposition = "rename" /\ e.oldBackup
    BY <1>3, <1>4 DEF Disposition, Moves
  <2> QED BY <1>4, <2>1 DEF Undo
<1>5. CASE changes[i].op = "rename"
  <2>1. e.disposition = "rename" /\ ~e.oldBackup
    BY <1>3, <1>5 DEF Disposition, Moves
  <2> QED BY <1>5, <2>1 DEF Undo
<1>6. CASE changes[i].op \in {"create", "modify"}
  <2>1. e.disposition = IF e.hadOriginal THEN "restore" ELSE "create-or-modify"
    BY <1>3, <1>6 DEF Disposition, Moves
  <2> QED BY <1>6, <2>1 DEF Undo
<1>7. CASE changes[i].op = "delete"
  <2>1. e.disposition = "delete"
    BY <1>3, <1>7 DEF Disposition, Moves
  <2> QED BY <1>7, <2>1 DEF Undo
<1> QED BY <1>2, <1>4, <1>5, <1>6, <1>7

LEMMA OneFits ==
    ASSUME NEW s \in Call, s.call = "rename" => s.from \in Held /\ s.to \in Held
    PROVE  << s >> \in Seq(Call) /\ Fit(<< s >>)
  BY DEF Fit

LEMMA TwoFit ==
    ASSUME NEW s \in Call, s.call = "rename" => s.from \in Held /\ s.to \in Held,
           NEW t \in Call, t.call = "rename" => t.from \in Held /\ t.to \in Held, t.skips = 0
    PROVE  << s, t >> \in Seq(Call) /\ Fit(<< s, t >>)
  BY DEF Fit

LEMMA UndoFits ==
    ASSUME TypeOK, NEW i \in 1..Len(changes), NEW e \in Entry, Fits(changes[i], e)
    PROVE  Undo(i, e) \in Seq(Call) /\ Fit(Undo(i, e))
<1> DEFINE c == changes[i]
           restore == RestoreFinal(i, {c.path})
           remove  == RemoveFile(c.path, {c.path})
           source  == RenameBack(OldBackup(i), c.old, {c.old}, 0)
           move(k) == RenameBack(c.path, c.old, {c.path, c.old}, k)
<1>1. c \in Change /\ i \in Indices
  BY ChangesIs
<1>2. /\ c.op \in {"create", "modify", "delete", "rename", "edit"}
      /\ c.path \in Held /\ c.path \in Names
      /\ Moves(c) => c.old \in Held /\ c.old \in Names
      /\ Backup(i) \in Held /\ OldBackup(i) \in Held
      /\ Moves(c) <=> c.op \in {"rename", "edit"}
  BY <1>1, ChangeIs, NamesDiffer DEF Moves
<1>3. /\ restore \in Call /\ remove \in Call
      /\ Moves(c) => source \in Call /\ move(0) \in Call /\ move(1) \in Call
  <2>1. {c.path} \in SUBSET Names /\ (Moves(c) => {c.old} \in SUBSET Names
                                                   /\ {c.path, c.old} \in SUBSET Names)
    BY <1>2
  <2> QED BY <2>1, CallsIs
<1>4. /\ restore.from \in Held /\ restore.to \in Held /\ restore.skips = 0
      /\ remove.call = "remove" /\ remove.skips = 0
      /\ Moves(c) => /\ source.from \in Held /\ source.to \in Held /\ source.skips = 0
                     /\ move(0).from \in Held /\ move(0).to \in Held
                     /\ move(1).from \in Held /\ move(1).to \in Held
  BY <1>2 DEF RestoreFinal, RenameBack, RemoveFile
<1>5. /\ c.op = "edit" => Undo(i, e) \in {<< restore, source >>, << remove, source >>}
      /\ c.op = "rename" => Undo(i, e) \in {<< move(1), restore >>, << move(0) >>}
      /\ c.op \in {"create", "modify", "delete"} => Undo(i, e) \in {<< restore >>, << remove >>}
  BY UndoIs DEF Entry
<1> HIDE DEF c, restore, remove, source, move
<1>6. remove.call # "rename"
  BY <1>4
<1>7. << restore >> \in Seq(Call) /\ Fit(<< restore >>) /\ << remove >> \in Seq(Call) /\ Fit(<< remove >>)
  BY <1>3, <1>4, <1>6, OneFits
<1>8. Moves(c) => /\ << restore, source >> \in Seq(Call) /\ Fit(<< restore, source >>)
                  /\ << remove, source >> \in Seq(Call) /\ Fit(<< remove, source >>)
                  /\ << move(1), restore >> \in Seq(Call) /\ Fit(<< move(1), restore >>)
                  /\ << move(0) >> \in Seq(Call) /\ Fit(<< move(0) >>)
  BY <1>3, <1>4, <1>6, OneFits, TwoFit
<1> QED BY <1>2, <1>5, <1>7, <1>8

LEMMA TempEntryFits ==
    ASSUME TypeOK, NEW i \in 1..Len(changes)
    PROVE  TempEntry(i) \in Seq(Call) /\ Fit(TempEntry(i))
<1>1. i \in Indices /\ {Temp(i)} \in SUBSET Names
  BY ChangesIs, NamesDiffer
<1>2. RemoveFile(Temp(i), {Temp(i)}) \in Call /\ RemoveFile(Temp(i), {Temp(i)}).call = "remove"
  <2>1. RemoveFile(Temp(i), {Temp(i)}) \in Call
    BY <1>1, CallsIs
  <2> QED BY <2>1 DEF RemoveFile
<1>3. <<>> \in Seq(Call) /\ Fit(<<>>)
  BY DEF Fit
<1> QED BY <1>2, <1>3, OneFits DEF TempEntry

LEMMA TempsOfIs ==
    ASSUME TypeOK, NEW n \in 0..Len(changes)
    PROVE  /\ TempsOf(n) \in Seq(Seq(Call)) /\ Len(TempsOf(n)) = n
           /\ \A j \in 1..n : TempsOf(n)[j] = TempEntry(j) /\ Fit(TempsOf(n)[j])
<1>1. n \in Nat /\ 1..n \subseteq 1..Len(changes)
  BY ChangesIs
<1>2. TempsOf(n) = [j \in 1..n |-> TempEntry(j)]
  BY DEF TempsOf, TempEntry
<1>3. \A j \in 1..n : TempEntry(j) \in Seq(Call) /\ Fit(TempEntry(j))
  BY <1>1, TempEntryFits
<1> QED BY <1>1, <1>2, <1>3

LEMMA RollbackIs ==
    ASSUME TypeOK, \A i \in 1..Len(committed) : Fits(changes[i], committed[i])
    PROVE  LET k == Len(committed) n == Len(changes) IN
           /\ Rollback \in Seq(Seq(Call)) /\ Len(Rollback) = k + n /\ k \in Nat /\ n \in Nat
           /\ \A j \in 1..k : Rollback[j] = Undo(k+1-j, committed[k+1-j])
           /\ \A j \in k+1..k+n : Rollback[j] = TempEntry(j-k)
           /\ \A j \in 1..k+n : Fit(Rollback[j])
<1> DEFINE k == Len(committed)
           n == Len(changes)
           U == [j \in 1..k |-> Undo(j, committed[j])]
<1>1. /\ n \in Nat /\ committed \in Seq(Entry) /\ k \in Nat /\ k <= n
  BY ChangesIs DEF TypeOK
<1>2. \A j \in 1..k : Undo(j, committed[j]) \in Seq(Call) /\ Fit(Undo(j, committed[j]))
  <2> SUFFICES ASSUME NEW j \in 1..k
               PROVE  Undo(j, committed[j]) \in Seq(Call) /\ Fit(Undo(j, committed[j]))
    OBVIOUS
  <2>1. j \in 1..Len(changes) /\ committed[j] \in Entry
    BY <1>1
  <2> QED BY <2>1, UndoFits
<1> HIDE DEF k, n
<1>3. U \in Seq(Seq(Call)) /\ Len(U) = k
  BY <1>1, <1>2
<1>4. /\ Reverse(U) \in Seq(Seq(Call)) /\ Len(Reverse(U)) = k
      /\ \A j \in 1..k : Reverse(U)[j] = Undo(k+1-j, committed[k+1-j])
  <2>0. \A u : Len(u) = k => Reverse(u) = [j \in 1..k |-> u[(k - j) + 1]]
    BY DEF Reverse
  <2>1. Reverse(U) = [j \in 1..k |-> U[(k - j) + 1]]
    BY <1>3, <2>0, Zenon
  <2>2. \A j \in 1..k : (k - j) + 1 \in 1..k /\ (k - j) + 1 = k+1-j
    BY <1>1
  <2>3. \A j \in 1..k : U[j] = Undo(j, committed[j])
    OBVIOUS
  <2> HIDE DEF U
  <2>4. \A j \in 1..k : U[(k-j)+1] = Undo(k+1-j, committed[k+1-j]) /\ U[(k-j)+1] \in Seq(Call)
    <3> SUFFICES ASSUME NEW j \in 1..k
                 PROVE  U[(k-j)+1] = Undo(k+1-j, committed[k+1-j]) /\ U[(k-j)+1] \in Seq(Call)
      OBVIOUS
    <3>1. PICK m \in 1..k : m = (k-j)+1 /\ m = k+1-j
      BY <2>2
    <3>2. U[m] = Undo(m, committed[m]) /\ U[m] \in Seq(Call)
      BY <1>2, <2>3
    <3> QED BY <3>1, <3>2
  <2>5. [j \in 1..k |-> U[(k - j) + 1]] \in Seq(Seq(Call))
        /\ Len([j \in 1..k |-> U[(k - j) + 1]]) = k
    BY <1>1, <2>4
  <2>6. \A j \in 1..k : Reverse(U)[j] = U[(k - j) + 1]
    BY <2>1
  <2> QED BY <2>1, <2>4, <2>5, <2>6
<1>5. /\ TempsOf(n) \in Seq(Seq(Call)) /\ Len(TempsOf(n)) = n
      /\ \A j \in 1..n : TempsOf(n)[j] = TempEntry(j) /\ Fit(TempsOf(n)[j])
  BY <1>1, TempsOfIs DEF n
<1>6. Rollback = Reverse(U) \o TempsOf(n)
  BY DEF Rollback, k, n
<1> HIDE DEF U
<1>7. /\ Rollback \in Seq(Seq(Call)) /\ Len(Rollback) = k + n
      /\ \A j \in 1..k : Rollback[j] = Reverse(U)[j]
      /\ \A j \in k+1..k+n : Rollback[j] = TempsOf(n)[j-k]
  <2> DEFINE R == Reverse(U)
             T == TempsOf(n)
  <2>1. R \in Seq(Seq(Call)) /\ Len(R) = k /\ T \in Seq(Seq(Call)) /\ Len(T) = n /\ Rollback = R \o T
    BY <1>4, <1>5, <1>6
  <2> HIDE DEF R, T
  <2>2. /\ R \o T \in Seq(Seq(Call)) /\ Len(R \o T) = k + n
        /\ \A j \in 1..k : (R \o T)[j] = R[j]
        /\ \A j \in k+1..k+n : (R \o T)[j] = T[j-k]
    BY <1>1, <2>1, JoinIs
  <2> QED BY <2>1, <2>2 DEF R, T
<1>8. \A j \in k+1..k+n : j-k \in 1..n
  BY <1>1
<1>9. \A j \in 1..k : k+1-j \in 1..k
  BY <1>1
<1>10. \A j \in 1..k : Fit(Rollback[j])
  <2> SUFFICES ASSUME NEW j \in 1..k PROVE Fit(Rollback[j])
    OBVIOUS
  <2>1. PICK m \in 1..k : m = k+1-j
    BY <1>9
  <2>2. Rollback[j] = Undo(m, committed[m])
    BY <1>4, <1>7, <2>1
  <2> QED BY <1>2, <2>2
<1>11. \A j \in k+1..k+n : Rollback[j] = TempEntry(j-k) /\ Fit(Rollback[j])
  <2> SUFFICES ASSUME NEW j \in k+1..k+n PROVE Rollback[j] = TempEntry(j-k) /\ Fit(Rollback[j])
    OBVIOUS
  <2>1. PICK m \in 1..n : m = j-k
    BY <1>8
  <2>2. Rollback[j] = TempsOf(n)[m]
    BY <1>7, <2>1
  <2>3. Rollback[j] = TempEntry(m) /\ Fit(Rollback[j])
    BY <1>5, <2>2
  <2> QED BY <2>1, <2>3
<1>12. \A j \in 1..k+n : j \in 1..k \/ j \in k+1..k+n
  BY <1>1
<1>13. \A j \in 1..k+n : Fit(Rollback[j])
  BY <1>10, <1>11, <1>12
<1>14. /\ Rollback \in Seq(Seq(Call)) /\ Len(Rollback) = k + n /\ k \in Nat /\ n \in Nat
       /\ \A j \in 1..k : Rollback[j] = Undo(k+1-j, committed[k+1-j])
       /\ \A j \in k+1..k+n : Rollback[j] = TempEntry(j-k)
       /\ \A j \in 1..k+n : Fit(Rollback[j])
  BY <1>1, <1>4, <1>7, <1>11, <1>13
<1> QED BY <1>14 DEF k, n

LEMMA ConsIs ==
    ASSUME NEW S, NEW x \in S, NEW s \in Seq(S)
    PROVE  /\ <<x>> \o s \in Seq(S) /\ Len(<<x>> \o s) = Len(s) + 1
           /\ (<<x>> \o s)[1] = x
           /\ \A i \in 2..Len(s)+1 : (<<x>> \o s)[i] = s[i-1]
           /\ \A i \in 1..Len(s) : (<<x>> \o s)[i+1] = s[i]
  OBVIOUS

LEMMA HeadIs ==
    ASSUME NEW S, NEW s \in Seq(S), s # <<>>, NEW x \in S
    PROVE  /\ [s EXCEPT ![1] = x] \in Seq(S) /\ Len([s EXCEPT ![1] = x]) = Len(s)
           /\ [s EXCEPT ![1] = x][1] = x
           /\ \A i \in 2..Len(s) : [s EXCEPT ![1] = x][i] = s[i]
           /\ [s EXCEPT ![1] = x] = <<x>> \o Tail(s)
           /\ [s EXCEPT ![1] = x] # <<>>
<1> DEFINE t == [s EXCEPT ![1] = x]
<1>1. t \in Seq(S) /\ Len(t) = Len(s) /\ t[1] = x /\ Len(s) \in Nat \ {0}
  BY EmptySeq
<1>2. \A i \in 2..Len(s) : t[i] = s[i]
  OBVIOUS
<1>3. t # <<>>
  BY <1>1, EmptySeq
<1>4. /\ Len(<<x>> \o Tail(s)) = Len(s) /\ <<x>> \o Tail(s) \in Seq(S)
      /\ (<<x>> \o Tail(s))[1] = x
      /\ \A i \in 2..Len(s) : (<<x>> \o Tail(s))[i] = s[i]
  <2>1. Tail(s) \in Seq(S) /\ Len(Tail(s)) = Len(s) - 1 /\ \A i \in 1..Len(s)-1 : Tail(s)[i] = s[i+1]
    BY TailIs
  <2> DEFINE u == Tail(s)
  <2> HIDE DEF u
  <2>2. /\ Len(<<x>> \o u) = Len(u) + 1 /\ <<x>> \o u \in Seq(S) /\ (<<x>> \o u)[1] = x
        /\ \A i \in 2..Len(u)+1 : (<<x>> \o u)[i] = u[i-1]
    BY <2>1, ConsIs DEF u
  <2>3. \A i \in 2..Len(s) : i-1 \in 1..Len(s)-1 /\ (i-1)+1 = i
    BY <1>1
  <2>4. Len(u) + 1 = Len(s)
    BY <1>1, <2>1 DEF u
  <2>5. \A i \in 2..Len(s) : u[i-1] = s[i]
    BY <2>1, <2>3 DEF u
  <2> QED BY <2>2, <2>4, <2>5 DEF u
<1>5. t = <<x>> \o Tail(s)
  <2> DEFINE v == <<x>> \o Tail(s)
  <2> HIDE DEF t, v
  <2>1. t \in Seq(S) /\ v \in Seq(S) /\ Len(t) = Len(v) /\ Len(t) \in Nat
    BY <1>1, <1>4 DEF v
  <2>2. \A i \in 1..Len(t) : t[i] = v[i]
    <3>1. \A i \in 1..Len(s) : i = 1 \/ i \in 2..Len(s)
      BY <1>1
    <3> QED BY <1>1, <1>2, <1>4, <3>1 DEF v, t
  <2>3. t = v
    BY <2>1, <2>2, SeqEqual
  <2> QED BY <2>3 DEF v
<1> QED BY <1>1, <1>2, <1>3, <1>5

LEMMA RenamedIs ==
    ASSUME NEW f \in [Names -> Contents], NEW from \in Names, NEW to \in Names, from # to
    PROVE  /\ Renamed(f, from, to) \in [Names -> Contents]
           /\ Renamed(f, from, to)[to] = f[from] /\ Renamed(f, from, to)[from] = Absent
           /\ \A n \in Names \ {from, to} : Renamed(f, from, to)[n] = f[n]
  BY ContentsDiffer DEF Renamed

LEMMA NowIs ==
    ASSUME TypeOK
    PROVE  /\ at.change \in 1..Len(changes) /\ at.change \in Indices /\ at.change \in Nat
           /\ Now \in Change /\ Now = changes[at.change]
           /\ Now.op \in {"create", "modify", "delete", "rename", "edit"}
           /\ Now.path \in Paths /\ Source(Now) \in Paths
           /\ Moves(Now) => Now.old \in Paths /\ Now.old # Now.path /\ Source(Now) = Now.old
           /\ ~Moves(Now) => Source(Now) = Now.path
           /\ at.step \in {"backup", "source", "move"}
           /\ at.entry \in Entry \cup {NoEntry}
           /\ at = [change |-> at.change, step |-> at.step, entry |-> at.entry]
<1>1. at \in [change : 1..Len(changes), step : {"backup", "source", "move"}, entry : Entry \cup {NoEntry}]
  BY DEF TypeOK
<1>2. at.change \in 1..Len(changes) /\ at.step \in {"backup", "source", "move"}
      /\ at.entry \in Entry \cup {NoEntry}
      /\ at = [change |-> at.change, step |-> at.step, entry |-> at.entry]
  BY <1>1
<1>3. at.change \in Indices /\ at.change \in Nat /\ Now \in Change
  BY <1>2, ChangesIs DEF Now
<1> QED BY <1>2, <1>3, ChangeIs DEF Now

LEMMA SelfRepairIs ==
    ASSUME TypeOK
    PROVE  /\ SelfRepair \in Seq(Call) /\ Fit(SelfRepair)
           /\ \A g : Works(g, SelfRepair)
<1>1. at.change \in 1..Len(changes) /\ at.change \in Indices /\ Now.path \in Paths /\ Now = changes[at.change]
  BY NowIs
<1> DEFINE r == RestoreFinal(at.change, {Now.path})
<1>2. r \in Call
  <2>1. {Now.path} \in SUBSET Names
    BY <1>1, NamesDiffer
  <2> QED BY <1>1, <2>1, CallsIs
<1>3. r.from \in Held /\ r.to \in Held /\ r.skips = 0
  BY <1>1, NamesDiffer DEF RestoreFinal, RenameBack
<1>4. SelfRepair = IF at.entry.hadOriginal THEN << r >> ELSE <<>>
  BY DEF SelfRepair
<1>5. <<>> \in Seq(Call) /\ Fit(<<>>)
  BY DEF Fit
<1> HIDE DEF r
<1>6. << r >> \in Seq(Call) /\ Fit(<< r >>)
  BY <1>2, <1>3, OneFits
<1>7. \A g : Works(g, << r >>) /\ Works(g, <<>>)
  BY <1>3 DEF Works
<1> QED BY <1>4, <1>5, <1>6, <1>7

\* The removal of an entry's backups.
Drop(i, e) ==
    (IF e.hadOriginal THEN << RemoveFile(Backup(i), {}) >> ELSE <<>>)
      \o (IF e.oldBackup THEN << RemoveFile(OldBackup(i), {}) >> ELSE <<>>)

LEMMA CleanupIs ==
    ASSUME TypeOK, NEW entries \in Seq(Entry), Len(entries) <= Len(changes)
    PROVE  /\ Cleanup(entries) \in Seq(Seq(Call)) /\ Len(Cleanup(entries)) = Len(entries)
           /\ \A i \in 1..Len(entries) :
                /\ Fit(Cleanup(entries)[i])
                /\ \A m \in 1..Len(Cleanup(entries)[i]) :
                     Cleanup(entries)[i][m] \in {RemoveFile(Backup(i), {}), RemoveFile(OldBackup(i), {})}
                /\ entries[i].hadOriginal => \E m \in 1..Len(Cleanup(entries)[i]) :
                     Cleanup(entries)[i][m] = RemoveFile(Backup(i), {})
                /\ entries[i].oldBackup => \E m \in 1..Len(Cleanup(entries)[i]) :
                     Cleanup(entries)[i][m] = RemoveFile(OldBackup(i), {})
<1>1. Cleanup(entries) = [i \in 1..Len(entries) |-> Drop(i, entries[i])]
  BY DEF Cleanup, Drop
<1>2. ASSUME NEW i \in 1..Len(entries)
      PROVE  /\ Drop(i, entries[i]) \in Seq(Call) /\ Fit(Drop(i, entries[i]))
             /\ \A m \in 1..Len(Drop(i, entries[i])) :
                  Drop(i, entries[i])[m] \in {RemoveFile(Backup(i), {}), RemoveFile(OldBackup(i), {})}
             /\ entries[i].hadOriginal => \E m \in 1..Len(Drop(i, entries[i])) :
                  Drop(i, entries[i])[m] = RemoveFile(Backup(i), {})
             /\ entries[i].oldBackup => \E m \in 1..Len(Drop(i, entries[i])) :
                  Drop(i, entries[i])[m] = RemoveFile(OldBackup(i), {})
  <2> DEFINE b == RemoveFile(Backup(i), {})
             o == RemoveFile(OldBackup(i), {})
  <2>1. i \in 1..Len(changes) /\ entries[i].hadOriginal \in BOOLEAN /\ entries[i].oldBackup \in BOOLEAN
    <3>1. entries[i] \in Entry /\ Len(entries) \in Nat
      OBVIOUS
    <3>2. Len(changes) \in Nat
      BY ChangesIs
    <3> QED BY <3>1, <3>2 DEF Entry
  <2>2. b \in Call /\ o \in Call /\ b.call # "rename" /\ o.call # "rename" /\ b.skips = 0 /\ o.skips = 0
    <3>1. b \in Call /\ o \in Call
      BY <2>1, CallsIs
    <3> QED BY <3>1 DEF RemoveFile
  <2>3. Drop(i, entries[i]) = (IF entries[i].hadOriginal THEN << b >> ELSE <<>>)
                                \o (IF entries[i].oldBackup THEN << o >> ELSE <<>>)
    BY DEF Drop
  <2> HIDE DEF b, o
  <2>4. /\ << b >> \o << o >> = << b, o >> /\ << b >> \o <<>> = << b >>
        /\ <<>> \o << o >> = << o >> /\ <<>> \o <<>> = <<>>
    BY <2>2, PairIs
  <2>5. Drop(i, entries[i]) = IF entries[i].hadOriginal
                              THEN IF entries[i].oldBackup THEN << b, o >> ELSE << b >>
                              ELSE IF entries[i].oldBackup THEN << o >> ELSE <<>>
    BY <2>1, <2>3, <2>4
  <2>6. /\ <<>> \in Seq(Call) /\ Fit(<<>>) /\ << b >> \in Seq(Call) /\ Fit(<< b >>)
        /\ << o >> \in Seq(Call) /\ Fit(<< o >>) /\ << b, o >> \in Seq(Call) /\ Fit(<< b, o >>)
    <3>1. <<>> \in Seq(Call) /\ Fit(<<>>)
      BY DEF Fit
    <3> QED BY <2>2, <3>1, OneFits, TwoFit
  <2>7. CASE entries[i].hadOriginal /\ entries[i].oldBackup
    <3>1. Drop(i, entries[i]) = << b, o >>
      BY <2>5, <2>7
    <3> QED BY <2>6, <3>1 DEF b, o
  <2>8. CASE entries[i].hadOriginal /\ ~entries[i].oldBackup
    <3>1. Drop(i, entries[i]) = << b >>
      BY <2>5, <2>8
    <3> QED BY <2>6, <2>8, <3>1 DEF b, o
  <2>9. CASE ~entries[i].hadOriginal /\ entries[i].oldBackup
    <3>1. Drop(i, entries[i]) = << o >>
      BY <2>5, <2>9
    <3> QED BY <2>6, <2>9, <3>1 DEF b, o
  <2>10. CASE ~entries[i].hadOriginal /\ ~entries[i].oldBackup
    <3>1. Drop(i, entries[i]) = <<>>
      BY <2>5, <2>10
    <3> QED BY <2>6, <2>10, <3>1
  <2> QED BY <2>1, <2>7, <2>8, <2>9, <2>10
<1> DEFINE d(i) == Drop(i, entries[i])
<1>3. \A i \in 1..Len(entries) : d(i) \in Seq(Call)
  BY <1>2
<1> HIDE DEF d
<1>4. /\ [i \in 1..Len(entries) |-> d(i)] \in Seq(Seq(Call)) /\ Len([i \in 1..Len(entries) |-> d(i)]) = Len(entries)
      /\ \A i \in 1..Len(entries) : [j \in 1..Len(entries) |-> d(j)][i] = d(i)
  BY <1>3
<1>5. /\ Cleanup(entries) \in Seq(Seq(Call)) /\ Len(Cleanup(entries)) = Len(entries)
      /\ \A i \in 1..Len(entries) : Cleanup(entries)[i] = Drop(i, entries[i])
  BY <1>1, <1>4 DEF d
<1> QED BY <1>2, <1>5

LEMMA RestIs ==
    ASSUME NEW S, NEW s \in Seq(S), s # <<>>
    PROVE  /\ SubSeq(s, 2, Len(s)) = Tail(s)
           /\ Len(s) <= 2 => SubSeq(s, 3, Len(s)) = <<>>
<1>1. SubSeq(s, 2, Len(s)) \in Seq(S) /\ Len(SubSeq(s, 2, Len(s))) = Len(s) - 1
      /\ \A i \in 1..Len(s)-1 : SubSeq(s, 2, Len(s))[i] = s[i+1]
  <2> DEFINE n == Len(s)
             t == SubSeq(s, 2, n)
  <2>1. n \in Nat \ {0} /\ n \in Int /\ 2 \in Int /\ \A i \in 2..n : s[i] \in S
    BY TailIs
  <2>2. /\ t \in Seq(S) /\ Len(t) = IF 2 <= n THEN n-2+1 ELSE 0
        /\ \A i \in 1..n-2+1 : t[i] = s[2+i-1]
    <3> HIDE DEF n
    <3> QED BY <2>1, SubSeqProperties
  <2> HIDE DEF n, t
  <2>3. n-2+1 = n-1 /\ (~(2 <= n) => n-1 = 0) /\ \A i \in 1..n-1 : 2+i-1 = i+1
    BY <2>1
  <2>4. t \in Seq(S) /\ Len(t) = n-1 /\ \A i \in 1..n-1 : t[i] = s[i+1]
    BY <2>2, <2>3
  <2> QED BY <2>4 DEF n, t
<1>2. Tail(s) \in Seq(S) /\ Len(Tail(s)) = Len(s) - 1 /\ \A i \in 1..Len(s)-1 : Tail(s)[i] = s[i+1]
  BY TailIs
<1>3. SubSeq(s, 2, Len(s)) = Tail(s)
  <2> DEFINE t == SubSeq(s, 2, Len(s))
             u == Tail(s)
  <2> HIDE DEF t, u
  <2>1. t \in Seq(S) /\ u \in Seq(S) /\ Len(t) = Len(u) /\ \A i \in 1..Len(t) : t[i] = u[i]
    BY <1>1, <1>2 DEF t, u
  <2>2. t = u
    BY <2>1, SeqEqual
  <2> QED BY <2>2 DEF t, u
<1>4. Len(s) <= 2 => SubSeq(s, 3, Len(s)) = <<>>
  OBVIOUS
<1> QED BY <1>3, <1>4

LEMMA CallIs ==
    ASSUME TypeOK, EntriesFit, HasCall
    PROVE  LET s == todo[1][1] IN
           /\ todo \in Seq(Seq(Call)) /\ todo # <<>> /\ todo[1] \in Seq(Call) /\ todo[1] # <<>>
           /\ Len(todo) \in Nat \ {0} /\ 1 \in 1..Len(todo)
           /\ s \in Call /\ s.from \in Names /\ s.to \in Names /\ s.names \subseteq Names
           /\ s.call \in {"rename", "remove"} /\ s.skips \in {0, 1}
           /\ s.call = "rename" => s.from \in Held /\ s.to \in Held
           /\ Fit(todo[1]) /\ Tail(todo[1]) \in Seq(Call)
           /\ SubSeq(todo[1], 2 + s.skips, Len(todo[1])) = IF s.skips = 0 THEN Tail(todo[1]) ELSE <<>>
           /\ <<>> \in Seq(Call)
           /\ SubSeq(todo[1], 2 + s.skips, Len(todo[1])) \in Seq(Call)
<1> DEFINE e == todo[1]
<1>1. todo \in Seq(Seq(Call)) /\ todo # <<>> /\ e # <<>>
  BY DEF TypeOK, HasCall
<1>2. e \in Seq(Call) /\ Len(todo) \in Nat \ {0}
  BY <1>1, TailIs
<1>3. Fit(e) /\ 1 \in 1..Len(todo)
  BY <1>2 DEF EntriesFit
<1> HIDE DEF e
<1>4. e[1] \in Call /\ Tail(e) \in Seq(Call) /\ Len(e) \in Nat \ {0}
  BY <1>1, <1>2, TailIs
<1>5. e[1].from \in Names /\ e[1].to \in Names /\ e[1].names \subseteq Names
      /\ e[1].call \in {"rename", "remove"} /\ e[1].skips \in {0, 1}
  BY <1>4 DEF Call
<1>6. Len(e) <= 2 /\ (e[1].call = "rename" => e[1].from \in Held /\ e[1].to \in Held)
  <2>1. 1 \in 1..Len(e)
    BY <1>4
  <2> QED BY <1>3, <2>1 DEF Fit
<1>7. SubSeq(e, 2 + e[1].skips, Len(e)) = IF e[1].skips = 0 THEN Tail(e) ELSE <<>>
  <2>1. SubSeq(e, 2, Len(e)) = Tail(e) /\ SubSeq(e, 3, Len(e)) = <<>>
    BY <1>1, <1>2, <1>6, RestIs
  <2>2. CASE e[1].skips = 0
    <3>1. 2 + e[1].skips = 2
      BY <2>2
    <3> QED BY <2>1, <2>2, <3>1
  <2>3. CASE e[1].skips = 1
    <3>1. 2 + e[1].skips = 3
      BY <2>3
    <3> QED BY <2>1, <2>3, <3>1
  <2> QED BY <1>5, <2>2, <2>3
<1>8. <<>> \in Seq(Call)
  OBVIOUS
<1>9. SubSeq(e, 2 + e[1].skips, Len(e)) \in Seq(Call)
  BY <1>4, <1>7, <1>8
<1> QED BY <1>1, <1>2, <1>3, <1>4, <1>5, <1>6, <1>7, <1>8, <1>9 DEF e

\* The call that moves a change's new content in.
LEMMA MovedIs ==
    ASSUME TypeOK
    PROVE  /\ MovedFrom \in Names /\ MovedTo \in Names /\ MovedFrom # MovedTo /\ MovedTo \in Held
<1>1. /\ at.change \in Indices
      /\ Now.op \in {"create", "modify", "delete", "rename", "edit"}
      /\ Now.path \in Paths /\ Source(Now) \in Paths
      /\ Moves(Now) => Now.old # Now.path /\ Source(Now) = Now.old
  BY NowIs
<1>2. /\ Now.op = "rename" => Moves(Now) /\ ~HasTemp(Now)
      /\ Now.op = "delete" => ~HasTemp(Now)
      /\ Now.op \notin {"rename", "delete"} => HasTemp(Now)
  BY <1>1 DEF Moves, HasTemp
<1> QED BY <1>1, <1>2, NamesDiffer DEF MovedFrom, MovedTo

LEMMA EntryNow ==
    ASSUME TypeOK, FitsNow, at.step = "move", NEW e,
           e = IF Now.op = "delete" THEN [at.entry EXCEPT !.hadOriginal = TRUE] ELSE at.entry
    PROVE  /\ e \in Entry /\ Fits(Now, e)
           /\ Now.op # "delete" => e = at.entry
           /\ e.hadOriginal <=> Now.op = "delete" \/ at.entry.hadOriginal
           /\ e.oldBackup = at.entry.oldBackup
           /\ at.entry \in Entry
<1>1. /\ at.entry \in Entry \cup {NoEntry}
      /\ Now.op \in {"create", "modify", "delete", "rename", "edit"}
  BY NowIs
<1>2. /\ at.entry.disposition = Disposition(Now, at.entry.hadOriginal)
      /\ Now.op = "delete" => ~at.entry.hadOriginal
      /\ at.entry.oldBackup <=> Now.op = "edit"
  BY DEF FitsNow
<1>3. at.entry.disposition \in {"rename", "restore", "create-or-modify", "delete"}
  BY <1>2 DEF Disposition
<1>4. at.entry \in Entry
  BY <1>1, <1>3 DEF NoEntry, Entry
<1>5. CASE Now.op = "delete"
  <2>1. e \in Entry /\ e.hadOriginal /\ e.oldBackup = at.entry.oldBackup
        /\ e.disposition = at.entry.disposition
    BY <1>4, <1>5 DEF Entry
  <2>2. e.disposition = Disposition(Now, e.hadOriginal)
    BY <1>2, <1>5, <2>1 DEF Disposition
  <2> QED BY <1>2, <1>4, <1>5, <2>1, <2>2 DEF Fits
<1>6. CASE Now.op # "delete"
  BY <1>2, <1>4, <1>6 DEF Fits
<1> QED BY <1>5, <1>6

LEMMA AppendIs ==
    ASSUME NEW S, NEW s \in Seq(S), NEW x \in S
    PROVE  /\ Append(s, x) \in Seq(S) /\ Len(Append(s, x)) = Len(s) + 1
           /\ Append(s, x)[Len(s) + 1] = x
           /\ \A i \in 1..Len(s) : Append(s, x)[i] = s[i]
  OBVIOUS
-----------------------------------------------------------------------------
(* The shape of the state *)

LEMMA InitKnows == Init => TypeOK /\ Shape /\ EntriesFit
<1> SUFFICES ASSUME Init PROVE TypeOK /\ Shape /\ EntriesFit
  OBVIOUS
<1>1. PICK there \in SUBSET Paths :
         fs = [n \in Names |-> IF n \in there THEN <<"original", n>> ELSE Absent]
  BY DEF Init
<1>2. fs \in [Names -> Contents] /\ before \in [Paths -> Contents]
  <2>1. fs \in [Names -> Contents]
    BY <1>1, ContentsDiffer
  <2> QED BY <2>1, NamesDiffer DEF Init
<1>3. PICK n \in Indices : changes \in [1..n -> Change]
  BY DEF Init
<1>4. Len(changes) = n /\ n \in Nat /\ 1 \in 1..n
  BY <1>3, PatchAssumption DEF Indices
<1>5. TypeOK
  <2>1. at \in [change : 1..Len(changes), step : {"backup", "source", "move"}, entry : Entry \cup {NoEntry}]
    BY <1>4 DEF Init
  <2>2. faults \in 0..MaxFaults /\ edits \in 0..MaxEdits
    BY PatchAssumption DEF Init
  <2>3. committed \in Seq(Entry) /\ Len(committed) <= Len(changes)
    BY <1>4 DEF Init
  <2>4. stuck \in BOOLEAN
    BY DEF Init
  <2>5. todo \in Seq(Seq(Call))
    BY DEF Init
  <2> QED BY <1>2, <1>3, <2>1, <2>2, <2>3, <2>4, <2>5 DEF Init, TypeOK
<1>6. Shape
  BY DEF Init, Shape, Early
<1>7. EntriesFit
  BY DEF Init, EntriesFit
<1> QED BY <1>5, <1>6, <1>7

\* Whoever gives up leaves entries of calls.
LEMMA GivesUp ==
    ASSUME TypeOK, Shape
    PROVE  /\ pc = "staging" => TempsOf(at.change - 1) \in Seq(Seq(Call))
                                /\ \A j \in 1..Len(TempsOf(at.change - 1)) : Fit(TempsOf(at.change - 1)[j])
           /\ TempsOf(Len(changes)) \in Seq(Seq(Call))
           /\ \A j \in 1..Len(TempsOf(Len(changes))) : Fit(TempsOf(Len(changes))[j])
           /\ Rollback \in Seq(Seq(Call)) /\ \A j \in 1..Len(Rollback) : Fit(Rollback[j])
           /\ << SelfRepair >> \o Rollback \in Seq(Seq(Call))
           /\ \A j \in 1..Len(<< SelfRepair >> \o Rollback) : Fit((<< SelfRepair >> \o Rollback)[j])
<1>1. Len(changes) \in 0..Len(changes) /\ at.change - 1 \in 0..Len(changes)
  BY ChangesIs, NowIs
<1>2. /\ TempsOf(at.change - 1) \in Seq(Seq(Call))
      /\ \A j \in 1..Len(TempsOf(at.change - 1)) : Fit(TempsOf(at.change - 1)[j])
      /\ TempsOf(Len(changes)) \in Seq(Seq(Call))
      /\ \A j \in 1..Len(TempsOf(Len(changes))) : Fit(TempsOf(Len(changes))[j])
  BY <1>1, TempsOfIs
<1>3. \A i \in 1..Len(committed) : Fits(changes[i], committed[i])
  BY DEF Shape
<1>4. Rollback \in Seq(Seq(Call)) /\ \A j \in 1..Len(Rollback) : Fit(Rollback[j])
  BY <1>3, RollbackIs
<1> DEFINE r == Rollback
           sr == SelfRepair
<1> HIDE DEF r, sr
<1>5. sr \in Seq(Call) /\ Fit(sr)
  BY SelfRepairIs DEF sr
<1>6. /\ << sr >> \o r \in Seq(Seq(Call)) /\ Len(<< sr >> \o r) = Len(r) + 1
      /\ (<< sr >> \o r)[1] = sr
      /\ \A j \in 2..Len(r)+1 : (<< sr >> \o r)[j] = r[j-1]
  BY <1>4, <1>5, ConsIs DEF r
<1>7. \A j \in 1..Len(r)+1 : j = 1 \/ (j \in 2..Len(r)+1 /\ j-1 \in 1..Len(r))
  <2>1. Len(r) \in Nat
    BY <1>4 DEF r
  <2> QED BY <2>1
<1>8. \A j \in 1..Len(<< sr >> \o r) : Fit((<< sr >> \o r)[j])
  BY <1>4, <1>5, <1>6, <1>7 DEF r
<1> QED BY <1>2, <1>4, <1>6, <1>8 DEF r, sr

\* A step leaves every variable in its type.
LEMMA TypeStep == TypeOK /\ Shape /\ EntriesFit /\ [Next]_vars => TypeOK'
<1> SUFFICES ASSUME TypeOK, Shape, EntriesFit, [Next]_vars PROVE TypeOK'
  OBVIOUS
<1> USE DEF Exists
<1>0. /\ changes \in UNION {[1..n -> Change] : n \in Indices}
      /\ fs \in [Names -> Contents] /\ before \in [Paths -> Contents]
      /\ faults \in 0..MaxFaults /\ edits \in 0..MaxEdits /\ MaxFaults \in Nat /\ MaxEdits \in Nat
      /\ Len(changes) \in Nat /\ Absent \in Contents
      /\ committed \in Seq(Entry) /\ Len(committed) \in Nat
  BY ChangesIs, ContentsDiffer, PatchAssumption DEF TypeOK
<1>1. /\ at.change \in 1..Len(changes) /\ at.change \in Indices /\ at.change \in Nat
      /\ Now.op \in {"create", "modify", "delete", "rename", "edit"}
      /\ Now.path \in Paths /\ Source(Now) \in Paths
      /\ Moves(Now) => Now.old \in Paths /\ Now.old # Now.path
      /\ at.step \in {"backup", "source", "move"}
      /\ at.entry \in Entry \cup {NoEntry}
      /\ at = [change |-> at.change, step |-> at.step, entry |-> at.entry]
  BY NowIs
<1>2. /\ Now.path \in Names /\ Source(Now) \in Names /\ (Moves(Now) => Now.old \in Names)
      /\ Temp(at.change) \in Names /\ Backup(at.change) \in Names /\ OldBackup(at.change) \in Names
      /\ Backup(at.change) # Now.path /\ OldBackup(at.change) \notin Paths
  BY <1>1, NamesDiffer
<1>3. ASSUME Fault PROVE faults' \in 0..MaxFaults
  BY <1>0, <1>3 DEF Fault
<1>4. CASE StageChange
  <2>1. fs' \in [Names -> Contents]
    BY <1>0, <1>1, <1>2, <1>4, ContentsDiffer DEF StageChange
  <2>2. at' \in [change : 1..Len(changes), step : {"backup", "source", "move"}, entry : Entry \cup {NoEntry}]
    <3>1. CASE at.change < Len(changes)
      BY <1>0, <1>1, <1>4, <3>1 DEF StageChange
    <3>2. CASE ~(at.change < Len(changes))
      BY <1>0, <1>1, <1>4, <3>2 DEF StageChange
    <3> QED BY <3>1, <3>2
  <2>3. pc' \in {"staging", "asking", "committing", "clearing", "over"}
    BY <1>4 DEF StageChange, TypeOK
  <2> QED BY <1>4, <2>1, <2>2, <2>3 DEF StageChange, TypeOK
<1>5. CASE StageFails
  BY <1>5, GivesUp DEF StageFails, GiveUp, TypeOK
<1>6. CASE UserEdits
  <2>0. PICK p \in Paths : \E content \in {Absent, <<"user", p>>} :
           fs' = [fs EXCEPT ![p] = content] /\ before' = [before EXCEPT ![p] = content]
    BY <1>6 DEF UserEdits
  <2>1. PICK content \in {Absent, <<"user", p>>} :
           fs' = [fs EXCEPT ![p] = content] /\ before' = [before EXCEPT ![p] = content]
    BY <2>0
  <2>2. content \in Contents /\ p \in Names
    BY <2>1, ContentsDiffer, NamesDiffer
  <2>3. fs' \in [Names -> Contents] /\ before' \in [Paths -> Contents]
    BY <1>0, <2>1, <2>2
  <2>4. edits' \in 0..MaxEdits
    BY <1>0, <1>6 DEF UserEdits
  <2> QED BY <1>6, <2>3, <2>4 DEF UserEdits, TypeOK
<1>7. CASE Allowed
  BY <1>7 DEF Allowed, TypeOK
<1>8. CASE Denied
  BY <1>8, GivesUp DEF Denied, GiveUp, TypeOK
<1>9. CASE BackUp
  <2> DEFINE had == Exists(Now.path) /\ Now.op # "delete"
             e == [disposition |-> Disposition(Now, had), hadOriginal |-> had, oldBackup |-> FALSE]
             st == IF Now.op = "edit" THEN "source" ELSE "move"
  <2>1. had \in BOOLEAN
    OBVIOUS
  <2>2. e \in Entry
    <3>1. Disposition(Now, had) \in {"rename", "restore", "create-or-modify", "delete"}
      BY DEF Disposition
    <3> HIDE DEF had
    <3> QED BY <2>1, <3>1 DEF Entry
  <2>3. at' = [at EXCEPT !.step = st, !.entry = e] /\ st \in {"backup", "source", "move"}
    BY <1>9 DEF BackUp
  <2>4. fs' \in [Names -> Contents]
    BY <1>0, <1>2, <1>9, RenamedIs DEF BackUp
  <2> HIDE DEF e, st, had
  <2>5. at' \in [change : 1..Len(changes), step : {"backup", "source", "move"}, entry : Entry \cup {NoEntry}]
    BY <1>1, <2>2, <2>3
  <2> QED BY <1>9, <2>4, <2>5 DEF BackUp, TypeOK
<1>10. CASE BackUpFails
  BY <1>3, <1>10, GivesUp DEF BackUpFails, GiveUp, TypeOK
<1>11. CASE BackUpSource
  <2>1. Now.op = "edit" /\ at.entry.disposition = Disposition(Now, at.entry.hadOriginal)
    BY <1>11 DEF BackUpSource, Shape, FitsNow
  <2>2. Moves(Now) /\ at.entry # NoEntry
    BY <2>1 DEF Moves, Disposition, NoEntry
  <2>3. fs' \in [Names -> Contents]
    BY <1>0, <1>1, <1>2, <1>11, <2>2, RenamedIs DEF BackUpSource
  <2>4. at' \in [change : 1..Len(changes), step : {"backup", "source", "move"}, entry : Entry \cup {NoEntry}]
    BY <1>1, <1>11, <2>2 DEF BackUpSource, Entry
  <2> QED BY <1>11, <2>3, <2>4 DEF BackUpSource, TypeOK
<1>12. CASE BackUpSourceFails
  <2>1. faults' \in 0..MaxFaults
    BY <1>0, <1>3, <1>12 DEF BackUpSourceFails
  <2> QED BY <1>12, <2>1, GivesUp DEF BackUpSourceFails, GiveUp, TypeOK
<1>13. CASE Move
  <2> DEFINE e == IF Now.op = "delete" THEN [at.entry EXCEPT !.hadOriginal = TRUE] ELSE at.entry
  <2>1. FitsNow /\ at.step = "move" /\ Len(committed) = at.change - 1 /\ committed' = Append(committed, e)
    BY <1>13 DEF Move, Shape
  <2>2. e \in Entry
    BY <2>1, EntryNow
  <2> HIDE DEF e
  <2>3. committed' \in Seq(Entry) /\ Len(committed') = at.change
    BY <1>0, <1>1, <2>1, <2>2, AppendIs
  <2>4. fs' \in [Names -> Contents]
    BY <1>0, <1>13, MovedIs, RenamedIs DEF Move
  <2>5. CASE at.change < Len(changes)
    <3>1. at' \in [change : 1..Len(changes), step : {"backup", "source", "move"}, entry : Entry \cup {NoEntry}]
      BY <1>0, <1>1, <1>13, <2>5 DEF Move
    <3>2. Len(committed') <= Len(changes)
      BY <1>0, <1>1, <2>3
    <3> QED BY <1>13, <2>3, <2>4, <2>5, <3>1, <3>2 DEF Move, TypeOK
  <2>6. CASE ~(at.change < Len(changes))
    <3>1. at' = at /\ todo' = Cleanup(committed') /\ pc' = "clearing" /\ result' = "ok"
      BY <1>13, <2>6 DEF Move, GiveUp
    <3>2. Len(committed') <= Len(changes)
      BY <1>0, <1>1, <2>3
    <3>3. todo' \in Seq(Seq(Call))
      BY <2>3, <3>1, <3>2, CleanupIs
    <3> QED BY <1>13, <2>3, <2>4, <3>1, <3>2, <3>3 DEF Move, TypeOK
  <2> QED BY <2>5, <2>6
<1>14. CASE MoveFails
  <2>1. fs' \in [Names -> Contents]
    <3>1. at.entry.oldBackup => Moves(Now)
      BY <1>14 DEF MoveFails, Shape, FitsNow, Moves
    <3> QED BY <1>0, <1>1, <1>2, <1>14, <3>1, RenamedIs DEF MoveFails
  <2>2. faults' \in 0..MaxFaults
    BY <1>0, <1>3, <1>14 DEF MoveFails
  <2>3. told' \subseteq Paths
    <3>1. at.entry.oldBackup => Moves(Now)
      BY <1>14 DEF MoveFails, Shape, FitsNow, Moves
    <3> QED BY <1>1, <1>14, <3>1 DEF MoveFails, TypeOK
  <2>4. stuck' \in BOOLEAN
    BY <1>14 DEF MoveFails, TypeOK
  <2> QED BY <1>14, <2>1, <2>2, <2>3, <2>4, GivesUp DEF MoveFails, GiveUp, TypeOK
<1>15. CASE CallWorks
  <2>1. HasCall
    BY <1>15 DEF CallWorks
  <2>2. fs' \in [Names -> Contents]
    BY <1>0, <1>15, <2>1, CallIs DEF CallWorks, Renamed
  <2>3. todo' \in Seq(Seq(Call))
    BY <1>15, <2>1, CallIs, HeadIs DEF CallWorks
  <2> QED BY <1>15, <2>2, <2>3 DEF CallWorks, TypeOK
<1>16. CASE CallFails
  <2>1. HasCall
    BY <1>16 DEF CallFails
  <2>2. todo' \in Seq(Seq(Call))
    BY <1>16, <2>1, CallIs, HeadIs DEF CallFails
  <2>3. listed' \subseteq Names
    BY <1>16, <2>1, CallIs DEF CallFails, TypeOK
  <2>4. faults' \in 0..MaxFaults /\ stuck' \in BOOLEAN
    BY <1>0, <1>3, <1>16 DEF CallFails, TypeOK
  <2> QED BY <1>16, <2>2, <2>3, <2>4 DEF CallFails, TypeOK
<1>17. CASE NextEntry
  <2>1. todo' \in Seq(Seq(Call))
    BY <1>17, TailIs DEF NextEntry, TypeOK
  <2> QED BY <1>17, <2>1 DEF NextEntry, TypeOK
<1>18. CASE End
  BY <1>18 DEF End, TypeOK
<1>19. CASE UNCHANGED vars
  BY <1>19 DEF vars, TypeOK
<1> QED BY <1>4, <1>5, <1>6, <1>7, <1>8, <1>9, <1>10, <1>11, <1>12, <1>13, <1>14, <1>15, <1>16,
           <1>17, <1>18, <1>19 DEF Next

\* Only an undoing or a cleanup makes calls.
LEMMA CallsWhen ==
    ASSUME TypeOK, Shape, todo # <<>>
    PROVE  pc = "clearing"
  BY DEF TypeOK, Shape, Early

LEMMA ShapeStep == TypeOK /\ Shape /\ EntriesFit /\ [Next]_vars => Shape'
<1> SUFFICES ASSUME TypeOK, Shape, EntriesFit, [Next]_vars PROVE Shape'
  OBVIOUS
<1>0. /\ Len(changes) \in Nat /\ committed \in Seq(Entry) /\ Len(committed) \in Nat
      /\ at.change \in 1..Len(changes) /\ at.change \in Nat /\ Now = changes[at.change]
      /\ at.step \in {"backup", "source", "move"}
      /\ at = [change |-> at.change, step |-> at.step, entry |-> at.entry]
      /\ pc \in {"staging", "asking", "committing", "clearing", "over"}
  BY ChangesIs, NowIs DEF TypeOK
<1>4. CASE StageChange
  <2>1. CASE at.change < Len(changes)
    <3>1. at'.step = at.step /\ at'.entry = at.entry /\ pc' = pc /\ pc = "staging"
      BY <1>0, <1>4, <2>1 DEF StageChange
    <3> QED BY <1>4, <3>1 DEF StageChange, Shape, Early, Rolling, FitsNow, Failed
  <2>2. CASE ~(at.change < Len(changes))
    <3>1. at'.step = at.step /\ at'.entry = at.entry /\ at'.change = 1 /\ pc' = "asking" /\ pc = "staging"
      BY <1>0, <1>4, <2>2 DEF StageChange
    <3> QED BY <1>4, <3>1 DEF StageChange, Shape, Early, Rolling, FitsNow, Failed
  <2> QED BY <2>1, <2>2
<1>5. CASE StageFails
  BY <1>5 DEF StageFails, GiveUp, Shape, Early, Rolling
<1>6. CASE UserEdits
  BY <1>6 DEF UserEdits, Shape, Early, Rolling, FitsNow, Failed
<1>7. CASE Allowed
  BY <1>0, <1>7 DEF Allowed, Shape, Early, Rolling, FitsNow
<1>8. CASE Denied
  BY <1>8 DEF Denied, GiveUp, Shape, Early, Rolling
<1>9. CASE BackUp
  <2> DEFINE had == Exists(Now.path) /\ Now.op # "delete"
             e == [disposition |-> Disposition(Now, had), hadOriginal |-> had, oldBackup |-> FALSE]
             st == IF Now.op = "edit" THEN "source" ELSE "move"
  <2>1. at' = [at EXCEPT !.step = st, !.entry = e]
    BY <1>9 DEF BackUp
  <2>2. at'.step = st /\ at'.entry = e /\ at'.change = at.change
    <3> HIDE DEF e, st
    <3> QED BY <1>0, <2>1
  <2>3. Now' = Now /\ changes' = changes
    BY <1>9, <2>2 DEF BackUp, Now
  <2>4. FitsNow'
    <3>1. /\ at'.step # "backup" /\ at'.entry.disposition = Disposition(Now, at'.entry.hadOriginal)
          /\ Now.op = "delete" => ~at'.entry.hadOriginal
          /\ at'.entry.oldBackup <=> (Now.op = "edit" /\ at'.step = "move")
          /\ at'.step = "source" => Now.op = "edit"
      <4>1. /\ e.disposition = Disposition(Now, e.hadOriginal)
            /\ Now.op = "delete" => ~e.hadOriginal
            /\ ~e.oldBackup
        OBVIOUS
      <4>2. st = IF Now.op = "edit" THEN "source" ELSE "move"
        OBVIOUS
      <4> HIDE DEF e, st
      <4> QED BY <2>2, <4>1, <4>2
    <3> QED BY <2>3, <3>1 DEF FitsNow
  <2> QED BY <1>9, <2>2, <2>4 DEF BackUp, Shape, Early, Rolling
<1>10. CASE BackUpFails
  BY <1>10 DEF BackUpFails, GiveUp, Shape, Early, Rolling
<1>11. CASE BackUpSource
  <2>1. Now.op = "edit" /\ at.entry.disposition = Disposition(Now, at.entry.hadOriginal)
        /\ at.entry.oldBackup = FALSE
    <3>1. at.entry \in Entry \cup {NoEntry}
      BY NowIs
    <3> QED BY <1>11, <3>1 DEF BackUpSource, Shape, FitsNow, Entry, NoEntry
  <2>2. at.entry \in Entry
    <3>1. at.entry \in Entry \cup {NoEntry} /\ at.entry # NoEntry
      BY <2>1, NowIs DEF Moves, Disposition, NoEntry
    <3> QED BY <3>1
  <2>3. /\ at'.step = "move" /\ at'.change = at.change
        /\ at'.entry.disposition = at.entry.disposition
        /\ at'.entry.hadOriginal = at.entry.hadOriginal /\ at'.entry.oldBackup = TRUE
    BY <1>0, <1>11, <2>2 DEF BackUpSource, Entry
  <2>4. Now' = Now /\ changes' = changes
    BY <1>11, <2>3 DEF BackUpSource, Now
  <2>5. FitsNow'
    BY <2>1, <2>3, <2>4 DEF FitsNow
  <2> QED BY <1>11, <2>3, <2>5 DEF BackUpSource, Shape, Early, Rolling
<1>12. CASE BackUpSourceFails
  BY <1>12 DEF BackUpSourceFails, GiveUp, Shape, Early, Rolling
<1>13. CASE Move
  <2> DEFINE e == IF Now.op = "delete" THEN [at.entry EXCEPT !.hadOriginal = TRUE] ELSE at.entry
  <2>1. FitsNow /\ at.step = "move" /\ Len(committed) = at.change - 1 /\ committed' = Append(committed, e)
    BY <1>13 DEF Move, Shape
  <2>2. e \in Entry /\ Fits(Now, e)
    BY <2>1, EntryNow
  <2> HIDE DEF e
  <2>3. /\ Len(committed') = at.change /\ committed'[at.change] = e
        /\ \A i \in 1..Len(committed) : committed'[i] = committed[i]
    <3>1. Len(committed) + 1 = at.change
      BY <1>0, <2>1
    <3> QED BY <1>0, <2>1, <2>2, <3>1, AppendIs
  <2>4. \A i \in 1..Len(committed') : Fits(changes'[i], committed'[i])
    <3>1. changes' = changes /\ \A i \in 1..at.change : i = at.change \/ i \in 1..Len(committed)
      BY <1>0, <1>13, <2>1 DEF Move
    <3>2. \A i \in 1..Len(committed) : Fits(changes[i], committed[i])
      BY DEF Shape
    <3> QED BY <1>0, <2>2, <2>3, <3>1, <3>2
  <2>5. CASE at.change < Len(changes)
    <3>1. /\ at' = [change |-> at.change + 1, step |-> "backup", entry |-> NoEntry]
          /\ pc' = pc /\ todo' = todo /\ result' = result /\ pc = "committing"
      BY <1>13, <2>5 DEF Move
    <3>2. at'.change = at.change + 1 /\ at'.step = "backup" /\ at'.entry = NoEntry
      BY <3>1
    <3>3. FitsNow' /\ Len(committed') = at'.change - 1
      BY <1>0, <2>3, <3>2 DEF FitsNow
    <3> QED BY <1>13, <2>4, <3>1, <3>3 DEF Move, Shape, Early, Rolling, Failed
  <2>6. CASE ~(at.change < Len(changes))
    <3>1. at' = at /\ pc' = "clearing" /\ result' = "ok"
      BY <1>13, <2>6 DEF Move, GiveUp
    <3>2. Len(committed') = Len(changes')
      BY <1>0, <1>13, <2>3, <2>6 DEF Move
    <3> QED BY <2>4, <3>1, <3>2 DEF Shape, Early, Rolling
  <2> QED BY <2>5, <2>6
<1>14. CASE MoveFails
  BY <1>14 DEF MoveFails, GiveUp, Shape, Early, Rolling
<1>15. CASE CallWorks
  <2>1. pc = "clearing"
    BY <1>15, CallsWhen DEF CallWorks, HasCall
  <2> QED BY <1>15, <2>1 DEF CallWorks, Shape, Early, Rolling
<1>16. CASE CallFails
  <2>1. pc = "clearing"
    BY <1>16, CallsWhen DEF CallFails, HasCall
  <2> QED BY <1>16, <2>1 DEF CallFails, Shape, Early, Rolling
<1>17. CASE NextEntry
  <2>1. pc = "clearing"
    BY <1>17, CallsWhen DEF NextEntry
  <2> QED BY <1>17, <2>1 DEF NextEntry, Shape, Early, Rolling
<1>18. CASE End
  BY <1>18 DEF End, Shape, Early, Rolling, Failed
<1>19. CASE UNCHANGED vars
  BY <1>19 DEF vars, Shape, Early, Rolling, FitsNow, Failed, Now
<1> QED BY <1>4, <1>5, <1>6, <1>7, <1>8, <1>9, <1>10, <1>11, <1>12, <1>13, <1>14, <1>15, <1>16,
           <1>17, <1>18, <1>19 DEF Next

LEMMA StateIs == TypeOK => State(fs) \in States
<1>1. TypeOK => fs \in [Names -> Contents]
  BY DEF TypeOK
<1> QED BY <1>1, NamesDiffer DEF State, States

\* What a call leaves to be done.
LEMMA CallLeaves ==
    ASSUME TypeOK, Shape, EntriesFit, CallWorks \/ CallFails
    PROVE  /\ pc = "clearing" /\ UNCHANGED <<changes, pc, at, committed, result, told, before, edits>>
           /\ todo # <<>> /\ todo[1] # <<>> /\ Len(todo') = Len(todo) /\ Len(todo) \in Nat \ {0}
           /\ todo' # <<>>
           /\ todo'[1] \in {Tail(todo[1]), <<>>} /\ Fit(todo'[1])
           /\ \A j \in 2..Len(todo) : todo'[j] = todo[j]
           /\ todo' = <<todo'[1]>> \o Tail(todo)
           /\ CallWorks \/ todo[1][1].skips = 0 => todo'[1] = Tail(todo[1])
           /\ todo[1][1].skips \in {0, 1} /\ (CallFails /\ todo[1][1].skips = 1 => todo'[1] = <<>>)
<1>1. HasCall
  BY DEF CallWorks, CallFails
<1>2. pc = "clearing"
  BY <1>1, CallsWhen DEF HasCall
<1>3. /\ todo \in Seq(Seq(Call)) /\ todo # <<>> /\ todo[1] \in Seq(Call) /\ todo[1] # <<>>
      /\ Len(todo) \in Nat \ {0} /\ Fit(todo[1]) /\ Tail(todo[1]) \in Seq(Call) /\ <<>> \in Seq(Call)
  BY <1>1, CallIs
<1>4. PICK x \in {Tail(todo[1]), <<>>} :
         /\ todo' = [todo EXCEPT ![1] = x]
         /\ CallWorks \/ todo[1][1].skips = 0 => x = Tail(todo[1])
         /\ ~CallWorks /\ todo[1][1].skips # 0 => x = <<>>
  <2>1. CASE CallWorks
    BY <2>1 DEF CallWorks
  <2>2. CASE CallFails /\ ~CallWorks
    <3> DEFINE t == SubSeq(todo[1], 2 + todo[1][1].skips, Len(todo[1]))
    <3>1. todo' = [todo EXCEPT ![1] = t]
      BY <2>2 DEF CallFails
    <3>2. t = IF todo[1][1].skips = 0 THEN Tail(todo[1]) ELSE <<>>
      BY <1>1, CallIs
    <3> HIDE DEF t
    <3> QED BY <2>2, <3>1, <3>2
  <2> QED BY <2>1, <2>2
<1>5. x \in Seq(Call)
  BY <1>3, <1>4
<1>6. Fit(<<>>) /\ Fit(Tail(todo[1]))
  <2>1. Fit(<<>>)
    BY DEF Fit
  <2>2. Fit(Tail(todo[1]))
    BY <1>3, StateIs, AfterAllIs
  <2> QED BY <2>1, <2>2
<1>7. /\ Len(todo') = Len(todo) /\ todo'[1] = x /\ \A j \in 2..Len(todo) : todo'[j] = todo[j]
      /\ todo' = <<x>> \o Tail(todo) /\ todo' # <<>>
  BY <1>3, <1>4, <1>5, HeadIs
<1>8. UNCHANGED <<changes, pc, at, committed, result, told, before, edits>>
  BY DEF CallWorks, CallFails
<1>9. todo[1][1].skips \in {0, 1} /\ (CallFails => \/ ~CallWorks
                                                \/ todo'[1] = SubSeq(todo[1], 2 + todo[1][1].skips, Len(todo[1])))
  <2>1. todo[1][1].skips \in {0, 1} /\ SubSeq(todo[1], 2 + todo[1][1].skips, Len(todo[1])) \in Seq(Call)
    BY <1>1, CallIs
  <2>2. CallFails => todo' = [todo EXCEPT ![1] = SubSeq(todo[1], 2 + todo[1][1].skips, Len(todo[1]))]
    BY DEF CallFails
  <2> QED BY <1>3, <2>1, <2>2, HeadIs
<1>10. CallFails /\ todo[1][1].skips = 1 => todo'[1] = <<>>
  <2>1. SubSeq(todo[1], 2 + todo[1][1].skips, Len(todo[1])) = IF todo[1][1].skips = 0 THEN Tail(todo[1]) ELSE <<>>
    BY <1>1, CallIs
  <2> QED BY <1>4, <1>7, <1>9, <2>1
<1> QED BY <1>2, <1>3, <1>4, <1>6, <1>7, <1>8, <1>9, <1>10

LEMMA NextLeaves ==
    ASSUME TypeOK, Shape, NextEntry
    PROVE  /\ pc = "clearing"
           /\ UNCHANGED <<fs, changes, pc, at, committed, result, listed, told, before, faults, stuck, edits>>
           /\ todo # <<>> /\ todo[1] = <<>> /\ todo' = Tail(todo)
           /\ Len(todo') = Len(todo) - 1 /\ Len(todo) \in Nat \ {0}
           /\ \A j \in 1..Len(todo)-1 : todo'[j] = todo[j+1]
           /\ todo = << <<>> >> \o Tail(todo)
<1>1. todo # <<>> /\ todo[1] = <<>> /\ todo' = Tail(todo) /\ todo \in Seq(Seq(Call))
  BY DEF NextEntry, TypeOK
<1>2. pc = "clearing"
  BY <1>1, CallsWhen
<1>3. /\ Len(Tail(todo)) = Len(todo) - 1 /\ Len(todo) \in Nat \ {0}
      /\ \A j \in 1..Len(todo)-1 : Tail(todo)[j] = todo[j+1]
      /\ todo = <<todo[1]>> \o Tail(todo)
  BY <1>1, TailIs
<1> QED BY <1>1, <1>2, <1>3 DEF NextEntry

LEMMA FitStep == TypeOK /\ Shape /\ EntriesFit /\ [Next]_vars => EntriesFit'
<1> SUFFICES ASSUME TypeOK, Shape, EntriesFit, [Next]_vars PROVE EntriesFit'
  OBVIOUS
<1>1. CASE UNCHANGED todo
  BY <1>1 DEF EntriesFit, Fit
<1>2. CASE StageFails \/ Denied \/ BackUpFails \/ BackUpSourceFails \/ MoveFails
  <2>1. todo' \in {TempsOf(at.change - 1), TempsOf(Len(changes)), Rollback, << SelfRepair >> \o Rollback}
        /\ (todo' = TempsOf(at.change - 1) => pc = "staging" \/ \A j \in 1..Len(todo') : Fit(todo'[j]))
    <3>1. CASE StageFails
      BY <3>1 DEF StageFails, GiveUp
    <3>2. CASE Denied
      BY <3>2, GivesUp DEF Denied, GiveUp
    <3>3. CASE BackUpFails
      BY <3>3, GivesUp DEF BackUpFails, GiveUp
    <3>4. CASE BackUpSourceFails \/ MoveFails
      BY <3>4, GivesUp DEF BackUpSourceFails, MoveFails, GiveUp
    <3> QED BY <1>2, <3>1, <3>2, <3>3, <3>4
  <2> QED BY <2>1, GivesUp DEF EntriesFit
<1>3. CASE Move
  <2>1. CASE at.change < Len(changes)
    BY <1>1, <1>3, <2>1 DEF Move
  <2>2. CASE ~(at.change < Len(changes))
    <3>1. todo' = Cleanup(committed')
      BY <1>3, <2>2 DEF Move, GiveUp
    <3>2. committed' \in Seq(Entry) /\ Len(committed') <= Len(changes)
      <4>1. TypeOK' /\ changes' = changes
        BY <1>3, TypeStep DEF Next, Move
      <4> QED BY <4>1 DEF TypeOK
    <3>3. \A i \in 1..Len(todo') : Fit(todo'[i])
      BY <3>1, <3>2, CleanupIs
    <3> QED BY <3>3 DEF EntriesFit
  <2> QED BY <2>1, <2>2
<1>4. CASE CallWorks \/ CallFails
  <2>1. \A j \in 1..Len(todo) : j = 1 \/ j \in 2..Len(todo)
    BY DEF TypeOK
  <2>2. Len(todo') = Len(todo) /\ Fit(todo'[1]) /\ \A j \in 2..Len(todo) : todo'[j] = todo[j]
    BY <1>4, CallLeaves
  <2> QED BY <2>1, <2>2 DEF EntriesFit
<1>5. CASE NextEntry
  <2>1. /\ Len(todo') = Len(todo) - 1 /\ Len(todo) \in Nat \ {0}
        /\ \A j \in 1..Len(todo)-1 : todo'[j] = todo[j+1]
    BY <1>5, NextLeaves
  <2>2. \A j \in 1..Len(todo') : j+1 \in 1..Len(todo) /\ j \in 1..Len(todo)-1
    BY <2>1
  <2> QED BY <2>1, <2>2 DEF EntriesFit
<1>6. ASSUME StageChange \/ UserEdits \/ Allowed \/ BackUp \/ BackUpSource \/ End \/ UNCHANGED vars
      PROVE  UNCHANGED todo
  BY <1>6 DEF StageChange, UserEdits, Allowed, BackUp, BackUpSource, End, vars
<1> QED BY <1>1, <1>2, <1>3, <1>4, <1>5, <1>6 DEF Next

\* What a rollback begins with.
LEMMA RollbackStarts ==
    ASSUME TypeOK, Shape, pc = "committing"
    PROVE  LET k == Len(committed) n == Len(changes) sr == << SelfRepair >> \o Rollback IN
           /\ k \in Nat /\ n \in Nat /\ n >= 1 /\ k = at.change - 1
           /\ Len(Rollback) = k + n /\ Len(sr) = k + 1 + n
           /\ Rollback \in Seq(Seq(Call)) /\ sr \in Seq(Seq(Call))
           /\ sr[1] = SelfRepair
           /\ \A i \in 1..k : Rollback[k+1-i] = UndoEntry(i) /\ sr[k+1+1-i] = UndoEntry(i)
           /\ \A i \in 1..n : Rollback[k+i] = TempEntry(i) /\ sr[k+1+i] = TempEntry(i)
<1> DEFINE k == Len(committed)
           n == Len(changes)
           r == Rollback
           s == SelfRepair
<1>1. \A i \in 1..Len(committed) : Fits(changes[i], committed[i])
  BY DEF Shape
<1>2. /\ r \in Seq(Seq(Call)) /\ Len(r) = k + n /\ k \in Nat /\ n \in Nat
      /\ \A j \in 1..k : r[j] = Undo(k+1-j, committed[k+1-j])
      /\ \A j \in k+1..k+n : r[j] = TempEntry(j-k)
  BY <1>1, RollbackIs
<1>3. k = at.change - 1 /\ n >= 1
  <2>1. at.change \in 1..Len(changes)
    BY NowIs
  <2> QED BY <1>2, <2>1 DEF Shape
<1>4. s \in Seq(Call)
  BY SelfRepairIs
<1> HIDE DEF k, n, r, s
<1>5. /\ << s >> \o r \in Seq(Seq(Call)) /\ Len(<< s >> \o r) = Len(r) + 1
      /\ (<< s >> \o r)[1] = s
      /\ \A j \in 1..Len(r) : (<< s >> \o r)[j+1] = r[j]
  BY <1>2, <1>4, ConsIs
<1>6. ASSUME NEW i \in 1..k PROVE r[k+1-i] = UndoEntry(i) /\ (<< s >> \o r)[k+1+1-i] = UndoEntry(i)
  <2>1. PICK j \in 1..k : j = k+1-i /\ k+1-j = i /\ j \in 1..Len(r) /\ k+1+1-i = j+1
    BY <1>2
  <2>2. r[j] = Undo(i, committed[i])
    BY <1>2, <2>1
  <2> QED BY <1>5, <2>1, <2>2 DEF UndoEntry
<1>7. ASSUME NEW i \in 1..n PROVE r[k+i] = TempEntry(i) /\ (<< s >> \o r)[k+1+i] = TempEntry(i)
  <2>1. PICK j \in k+1..k+n : j = k+i /\ j-k = i /\ j \in 1..Len(r) /\ k+1+i = j+1
    BY <1>2
  <2>2. r[j] = TempEntry(i)
    BY <1>2, <2>1
  <2> QED BY <1>5, <2>1, <2>2
<1>8. Len(<< s >> \o r) = k + 1 + n
  BY <1>2, <1>5
<1> QED BY <1>2, <1>3, <1>5, <1>6, <1>7, <1>8 DEF k, n, r, s

LEMMA RollStep == TypeOK /\ Shape /\ EntriesFit /\ RollbackShape /\ [Next]_vars => RollbackShape'
<1> SUFFICES ASSUME TypeOK, Shape, EntriesFit, RollbackShape, [Next]_vars PROVE RollbackShape'
  OBVIOUS
<1>0. todo \in Seq(Seq(Call)) /\ Len(todo) \in Nat /\ Len(changes) \in Nat /\ Len(committed) \in Nat
  BY ChangesIs DEF TypeOK
<1>1. ASSUME UNCHANGED <<changes, committed>>
      PROVE  /\ \A i : UndoEntry(i)' = UndoEntry(i)
             /\ \A i : TempEntry(i)' = TempEntry(i)
             /\ Left' = Len(todo') - Len(changes)
  BY <1>1 DEF UndoEntry, Undo, RestoreFinal, TempEntry, Left
<1>2. CASE BackUpFails \/ BackUpSourceFails \/ MoveFails
  <2> DEFINE k == Len(committed)
             n == Len(changes)
             sr == << SelfRepair >> \o Rollback
  <2>1. pc = "committing" /\ UNCHANGED <<changes, committed>> /\ todo' \in {Rollback, sr}
    BY <1>2 DEF BackUpFails, BackUpSourceFails, MoveFails, GiveUp
  <2>2. /\ k \in Nat /\ n \in Nat /\ n >= 1
        /\ Len(Rollback) = k + n /\ Len(sr) = k + 1 + n
        /\ \A i \in 1..k : Rollback[k+1-i] = UndoEntry(i) /\ sr[k+1+1-i] = UndoEntry(i)
        /\ \A i \in 1..n : Rollback[k+i] = TempEntry(i) /\ sr[k+1+i] = TempEntry(i)
    BY <2>1, RollbackStarts
  <2> HIDE DEF k, n, sr
  <2>3. Left' = Len(todo') - n /\ Len(committed') = k
    BY <1>1, <2>1 DEF n, k
  <2>4. CASE todo' = Rollback
    <3>1. Left' = k /\ Left' <= k + 1
      BY <2>2, <2>3, <2>4
    <3>2. /\ \A i \in 1..k : todo'[Left' + 1 - i] = UndoEntry(i)
          /\ \A i \in 1..n : todo'[Left' + i] = TempEntry(i)
      BY <2>2, <2>4, <3>1
    <3>3. \A i \in 1..n : Left' + i = 1 => todo'[1] = TempEntry(i)
      BY <3>2
    <3> QED BY <1>1, <2>1, <2>3, <3>1, <3>2, <3>3 DEF RollbackShape, k, n
  <2>5. CASE todo' = sr
    <3>1. Left' = k+1 /\ Left' <= k + 1
      BY <2>2, <2>3, <2>5
    <3>2. /\ \A i \in 1..k : todo'[Left' + 1 - i] = UndoEntry(i)
          /\ \A i \in 1..n : todo'[Left' + i] = TempEntry(i)
      BY <2>2, <2>5, <3>1
    <3>3. \A i \in 1..n : Left' + i = 1 => todo'[1] = TempEntry(i)
      BY <3>2
    <3> QED BY <1>1, <2>1, <2>3, <3>1, <3>2, <3>3 DEF RollbackShape, k, n
  <2> QED BY <2>1, <2>4, <2>5
<1>3. ASSUME pc' = "clearing", Rolling', pc = "clearing", UNCHANGED result
      PROVE  /\ Left <= Len(committed) + 1
             /\ \A i \in 1..Len(committed) : i < Left => todo[Left + 1 - i] = UndoEntry(i)
             /\ \A i \in 1..Len(changes) :
                  /\ Left + i > 1 => todo[Left + i] = TempEntry(i)
                  /\ Left + i = 1 => todo[1] \in {TempEntry(i), <<>>}
  BY <1>3 DEF RollbackShape, Rolling
<1>4. CASE CallWorks \/ CallFails
  <2> SUFFICES ASSUME pc' = "clearing", Rolling' PROVE RollbackShape'
    BY DEF RollbackShape
  <2>1. /\ pc = "clearing" /\ UNCHANGED <<changes, committed, result>>
        /\ todo # <<>> /\ todo[1] # <<>> /\ Len(todo') = Len(todo)
        /\ todo'[1] \in {Tail(todo[1]), <<>>}
        /\ \A j \in 2..Len(todo) : todo'[j] = todo[j]
    BY <1>4, CallLeaves
  <2>2. Left' = Left /\ Left \in Int /\ Left + Len(changes) = Len(todo)
    BY <1>0, <1>1, <2>1 DEF Left
  <2>3. ASSUME NEW i \in 1..Len(changes), Left + i = 1 PROVE todo'[1] = <<>>
    <3>1. todo[1] = TempEntry(i)
      BY <1>3, <2>1, <2>3
    <3>2. todo[1] = << RemoveFile(Temp(i), {Temp(i)}) >>
      BY <2>1, <3>1 DEF TempEntry
    <3>3. \A x : Tail(<< x >>) = <<>>
      <4> TAKE x
      <4>1. << x >> \in Seq({x}) /\ << x >> # <<>> /\ Len(<< x >>) = 1
        OBVIOUS
      <4> QED BY <4>1, TailIs
    <3> QED BY <2>1, <3>2, <3>3
  <2>4. ASSUME NEW i \in 1..Len(committed), i < Left PROVE todo'[Left + 1 - i] = UndoEntry(i)
    <3>1. Left + 1 - i \in 2..Len(todo)
      BY <1>0, <2>2, <2>4
    <3>2. todo[Left + 1 - i] = UndoEntry(i)
      BY <1>3, <2>1, <2>4
    <3> QED BY <2>1, <3>1, <3>2
  <2>5. ASSUME NEW i \in 1..Len(changes), Left + i > 1 PROVE todo'[Left + i] = TempEntry(i)
    <3>1. Left + i \in 2..Len(todo)
      BY <1>0, <2>2, <2>5
    <3>2. todo[Left + i] = TempEntry(i)
      BY <1>3, <2>1, <2>5
    <3> QED BY <2>1, <3>1, <3>2
  <2> QED BY <1>1, <1>3, <2>1, <2>2, <2>3, <2>4, <2>5 DEF RollbackShape
<1>5. CASE NextEntry
  <2> SUFFICES ASSUME pc' = "clearing", Rolling' PROVE RollbackShape'
    BY DEF RollbackShape
  <2>1. /\ pc = "clearing" /\ UNCHANGED <<changes, committed, result>>
        /\ Len(todo') = Len(todo) - 1
        /\ \A j \in 1..Len(todo)-1 : todo'[j] = todo[j+1]
    BY <1>5, NextLeaves
  <2>2. Left' = Left - 1 /\ Left \in Int /\ Left' + Len(changes) = Len(todo')
        /\ Left + Len(changes) = Len(todo)
    BY <1>0, <1>1, <2>1 DEF Left
  <2>3. Left' <= Len(committed') + 1
    BY <1>0, <1>3, <2>1, <2>2
  <2>4. ASSUME NEW i \in 1..Len(committed), i < Left' PROVE todo'[Left' + 1 - i] = UndoEntry(i)
    <3>1. PICK j \in 1..Len(todo)-1 : j = Left' + 1 - i /\ j + 1 = Left + 1 - i /\ i < Left
      BY <1>0, <2>2, <2>4
    <3>2. todo[j + 1] = UndoEntry(i)
      BY <1>3, <2>1, <3>1
    <3> QED BY <2>1, <3>1, <3>2
  <2>5. ASSUME NEW i \in 1..Len(changes), Left' + i >= 1 PROVE todo'[Left' + i] = TempEntry(i)
    <3>1. PICK j \in 1..Len(todo)-1 : j = Left' + i /\ j + 1 = Left + i /\ Left + i > 1
      BY <1>0, <2>2, <2>5
    <3>2. todo[j + 1] = TempEntry(i)
      BY <1>3, <2>1, <3>1
    <3> QED BY <2>1, <3>1, <3>2
  <2>6. \A i \in 1..Len(changes) : /\ Left' + i > 1 => todo'[Left' + i] = TempEntry(i)
                                   /\ Left' + i = 1 => todo'[1] = TempEntry(i)
    <3> SUFFICES ASSUME NEW i \in 1..Len(changes)
                 PROVE  /\ Left' + i > 1 => todo'[Left' + i] = TempEntry(i)
                        /\ Left' + i = 1 => todo'[1] = TempEntry(i)
      OBVIOUS
    <3>1. Left' + i \in Int /\ (Left' + i > 1 => Left' + i >= 1) /\ (Left' + i = 1 => Left' + i >= 1)
      BY <2>2
    <3> QED BY <2>5, <3>1
  <2> QED BY <1>1, <2>1, <2>3, <2>4, <2>6 DEF RollbackShape
<1>6. CASE UNCHANGED vars
  <2> SUFFICES ASSUME pc' = "clearing", Rolling' PROVE RollbackShape'
    BY DEF RollbackShape
  <2>1. pc = "clearing" /\ UNCHANGED <<changes, committed, result, todo>>
    BY <1>6 DEF vars
  <2>2. Left' = Left
    BY <1>1, <2>1 DEF Left
  <2> QED BY <1>1, <1>3, <2>1, <2>2 DEF RollbackShape
<1>7. CASE StageChange \/ UserEdits \/ Allowed \/ BackUp \/ BackUpSource \/ StageFails \/ Denied
            \/ Move \/ End
  <2>1. ~(pc' = "clearing" /\ Rolling')
    BY <1>7 DEF StageChange, UserEdits, Allowed, BackUp, BackUpSource, StageFails, Denied, Move, End,
                GiveUp, Rolling, Shape, Early
  <2> QED BY <2>1 DEF RollbackShape
<1> QED BY <1>2, <1>4, <1>5, <1>6, <1>7 DEF Next

LEMMA GivenStep == TypeOK /\ Shape /\ EntriesFit /\ GivenUpShape /\ [Next]_vars => GivenUpShape'
<1> DEFINE OneTemp(x) == x = <<>> \/ \E i \in Indices : x = << RemoveFile(Temp(i), {Temp(i)}) >>
<1> SUFFICES ASSUME TypeOK, Shape, EntriesFit, GivenUpShape, [Next]_vars,
                    pc' = "clearing", result' \in {"not_staged", "denied"}
             PROVE  \A j \in 1..Len(todo') : OneTemp(todo'[j])
  BY DEF GivenUpShape
<1>0. todo \in Seq(Seq(Call)) /\ Len(todo) \in Nat
  BY DEF TypeOK
<1>1. ASSUME NEW n \in 0..Len(changes)
      PROVE  \A j \in 1..Len(TempsOf(n)) : OneTemp(TempsOf(n)[j])
  <2> SUFFICES ASSUME NEW j \in 1..Len(TempsOf(n)) PROVE OneTemp(TempsOf(n)[j])
    OBVIOUS
  <2>1. j \in 1..n /\ TempsOf(n)[j] = TempEntry(j) /\ j \in Indices
    <3>1. j \in 1..n /\ TempsOf(n)[j] = TempEntry(j)
      BY TempsOfIs
    <3>2. n \in Nat /\ Len(changes) \in Nat /\ 1..Len(changes) \subseteq Indices
      BY ChangesIs
    <3> QED BY <3>1, <3>2
  <2> QED BY <2>1 DEF TempEntry
<1>2. CASE StageFails
  <2>1. at.change - 1 \in 0..Len(changes) /\ todo' = TempsOf(at.change - 1)
    BY <1>2, ChangesIs, NowIs DEF StageFails, GiveUp
  <2> QED BY <1>1, <2>1
<1>3. CASE Denied
  <2>1. Len(changes) \in 0..Len(changes) /\ todo' = TempsOf(Len(changes))
    BY <1>3, ChangesIs DEF Denied, GiveUp
  <2> QED BY <1>1, <2>1
<1>4. ASSUME pc = "clearing", UNCHANGED result
      PROVE  \A j \in 1..Len(todo) : OneTemp(todo[j])
  BY <1>4 DEF GivenUpShape
<1>5. CASE CallWorks \/ CallFails
  <2>1. /\ pc = "clearing" /\ UNCHANGED result /\ todo # <<>> /\ todo[1] # <<>>
        /\ Len(todo') = Len(todo) /\ Len(todo) \in Nat \ {0}
        /\ todo'[1] \in {Tail(todo[1]), <<>>} /\ \A j \in 2..Len(todo) : todo'[j] = todo[j]
    BY <1>5, CallLeaves
  <2>2. \A j \in 1..Len(todo) : j = 1 \/ j \in 2..Len(todo)
    BY <2>1
  <2>3. todo'[1] = <<>>
    <3>1. PICK i \in Indices : todo[1] = << RemoveFile(Temp(i), {Temp(i)}) >>
      <4>1. 1 \in 1..Len(todo)
        BY <2>1
      <4> QED BY <1>4, <2>1, <4>1
    <3>2. \A x : Tail(<< x >>) = <<>>
      <4> TAKE x
      <4>1. << x >> \in Seq({x}) /\ << x >> # <<>> /\ Len(<< x >>) = 1
        OBVIOUS
      <4> QED BY <4>1, TailIs
    <3> QED BY <2>1, <3>1, <3>2
  <2> QED BY <1>4, <2>1, <2>2, <2>3
<1>6. CASE NextEntry
  <2>1. /\ pc = "clearing" /\ UNCHANGED result /\ Len(todo') = Len(todo) - 1
        /\ \A j \in 1..Len(todo)-1 : todo'[j] = todo[j+1]
    BY <1>6, NextLeaves
  <2>2. \A j \in 1..Len(todo') : j \in 1..Len(todo)-1 /\ j+1 \in 1..Len(todo)
    BY <1>0, <2>1
  <2> HIDE DEF OneTemp
  <2> QED BY <1>4, <2>1, <2>2
<1>7. CASE UNCHANGED vars
  BY <1>4, <1>7 DEF vars
<1>8. CASE StageChange \/ UserEdits \/ Allowed \/ BackUp \/ BackUpSource \/ BackUpFails
            \/ BackUpSourceFails \/ Move \/ MoveFails \/ End
  <2>1. ~(pc' = "clearing" /\ result' \in {"not_staged", "denied"})
    BY <1>8 DEF StageChange, UserEdits, Allowed, BackUp, BackUpSource, BackUpFails, BackUpSourceFails,
                MoveFails, Move, End, GiveUp, Shape, Early
  <2> QED BY <2>1
<1> QED BY <1>2, <1>3, <1>5, <1>6, <1>7, <1>8 DEF Next

LEMMA CleanStep == TypeOK /\ Shape /\ EntriesFit /\ CleanupShape /\ [Next]_vars => CleanupShape'
<1> DEFINE Drops(x) == \A m \in 1..Len(x) :
                          \E i \in Indices : x[m] \in {RemoveFile(Backup(i), {}), RemoveFile(OldBackup(i), {})}
<1> SUFFICES ASSUME TypeOK, Shape, EntriesFit, CleanupShape, [Next]_vars,
                    pc' = "clearing", result' = "ok"
             PROVE  \A j \in 1..Len(todo') : Drops(todo'[j])
  BY DEF CleanupShape
<1>0. todo \in Seq(Seq(Call)) /\ Len(todo) \in Nat
  BY DEF TypeOK
<1>1. CASE Move
  <2>1. todo' = Cleanup(committed') /\ changes' = changes
    BY <1>1 DEF Move, GiveUp, Shape, Early
  <2>2. committed' \in Seq(Entry) /\ Len(committed') <= Len(changes)
    <3>1. TypeOK'
      BY <1>1, TypeStep DEF Next
    <3> QED BY <2>1, <3>1 DEF TypeOK
  <2>3. ASSUME NEW i \in 1..Len(committed') PROVE i \in Indices
    <3>1. i \in 1..Len(changes)
      BY <2>2, ChangesIs
    <3> QED BY <3>1, ChangesIs
  <2> QED BY <2>1, <2>2, <2>3, CleanupIs
<1>2. ASSUME pc = "clearing", UNCHANGED result
      PROVE  \A j \in 1..Len(todo) : Drops(todo[j])
  BY <1>2 DEF CleanupShape
<1>3. CASE CallWorks \/ CallFails
  <2>1. /\ pc = "clearing" /\ UNCHANGED result /\ todo # <<>> /\ todo[1] # <<>>
        /\ Len(todo') = Len(todo) /\ Len(todo) \in Nat \ {0}
        /\ todo'[1] \in {Tail(todo[1]), <<>>} /\ \A j \in 2..Len(todo) : todo'[j] = todo[j]
    BY <1>3, CallLeaves
  <2>2. \A j \in 1..Len(todo) : j = 1 \/ j \in 2..Len(todo)
    BY <2>1
  <2>3. Drops(todo'[1])
    <3>1. Drops(todo[1])
      <4>1. 1 \in 1..Len(todo)
        BY <2>1
      <4> QED BY <1>2, <2>1, <4>1
    <3> DEFINE e == todo[1]
    <3>2. e \in Seq(Call)
      BY <1>0, <2>1, TailIs
    <3> HIDE DEF e
    <3>3. Len(Tail(e)) = Len(e) - 1 /\ Len(e) \in Nat /\ \A m \in 1..Len(e)-1 : Tail(e)[m] = e[m+1]
      BY <2>1, <3>2, TailIs DEF e
    <3>4. \A m \in 1..Len(Tail(e)) : m \in 1..Len(e)-1 /\ m+1 \in 1..Len(e)
      BY <3>3
    <3>5. Drops(Tail(e))
      BY <3>1, <3>3, <3>4 DEF e
    <3>6. Drops(<<>>)
      OBVIOUS
    <3> HIDE DEF Drops
    <3> QED BY <2>1, <3>5, <3>6 DEF e
  <2> HIDE DEF Drops
  <2> QED BY <1>2, <2>1, <2>2, <2>3
<1>4. CASE NextEntry
  <2>1. /\ pc = "clearing" /\ UNCHANGED result /\ Len(todo') = Len(todo) - 1
        /\ \A j \in 1..Len(todo)-1 : todo'[j] = todo[j+1]
    BY <1>4, NextLeaves
  <2>2. \A j \in 1..Len(todo') : j \in 1..Len(todo)-1 /\ j+1 \in 1..Len(todo)
    BY <1>0, <2>1
  <2> HIDE DEF Drops
  <2> QED BY <1>2, <2>1, <2>2
<1>5. CASE UNCHANGED vars
  BY <1>2, <1>5 DEF vars
<1>6. CASE StageChange \/ StageFails \/ Denied \/ UserEdits \/ Allowed \/ BackUp \/ BackUpSource
            \/ BackUpFails \/ BackUpSourceFails \/ MoveFails \/ End
  <2>1. ~(pc' = "clearing" /\ result' = "ok")
    BY <1>6 DEF StageChange, StageFails, Denied, UserEdits, Allowed, BackUp, BackUpSource, BackUpFails,
                BackUpSourceFails, MoveFails, End, GiveUp, Shape, Early
  <2> QED BY <2>1
<1> QED BY <1>1, <1>3, <1>4, <1>5, <1>6 DEF Next
-----------------------------------------------------------------------------
(* The temp files *)

LEMMA OfThem ==
    /\ [Next]_vars => UNCHANGED changes
    /\ ~(pc \in {"staging", "asking"}) => ([Next]_vars => UNCHANGED before)
  BY DEF Next, vars, StageChange, StageFails, UserEdits, Allowed, Denied, BackUp, BackUpFails,
         BackUpSource, BackUpSourceFails, Move, MoveFails, CallWorks, CallFails, NextEntry, End

\* A call that fails although there is its file makes the undoing stuck.
LEMMA CallDoes ==
    ASSUME TypeOK, Shape, EntriesFit, CallWorks \/ CallFails
    PROVE  LET s == todo[1][1] IN
           /\ s \in Call /\ s.from \in Names /\ s.to \in Names /\ s.call \in {"rename", "remove"}
           /\ s.call = "rename" => s.from \in Held /\ s.to \in Held
           /\ CallWorks => /\ Exists(s.from)
                           /\ fs' = IF s.call = "rename" THEN Renamed(fs, s.from, s.to)
                                                         ELSE [fs EXCEPT ![s.from] = Absent]
                           /\ UNCHANGED <<stuck, listed>>
           /\ CallFails => /\ UNCHANGED fs /\ listed' = listed \cup s.names
                           /\ ~stuck' => ~stuck /\ ~Exists(s.from)
           /\ fs \in [Names -> Contents]
<1>1. HasCall
  BY DEF CallWorks, CallFails
<1>2. /\ todo[1][1] \in Call /\ todo[1][1].from \in Names /\ todo[1][1].to \in Names
      /\ todo[1][1].call \in {"rename", "remove"}
      /\ todo[1][1].call = "rename" => todo[1][1].from \in Held /\ todo[1][1].to \in Held
  BY <1>1, CallIs
<1> DEFINE s == todo[1][1]
<1>3. CallWorks => /\ Exists(s.from)
                   /\ fs' = IF s.call = "rename" THEN Renamed(fs, s.from, s.to)
                                                 ELSE [fs EXCEPT ![s.from] = Absent]
                   /\ UNCHANGED <<stuck, listed>>
  BY DEF CallWorks
<1>4. CallFails => /\ UNCHANGED fs /\ listed' = listed \cup s.names
                   /\ ~stuck' => ~stuck /\ ~Exists(s.from)
  BY DEF CallFails
<1> QED BY <1>2, <1>3, <1>4 DEF TypeOK

LEMMA TempsStep == TypeOK /\ Shape /\ EntriesFit /\ TempsHeld /\ [Next]_vars => TempsHeld'
<1> DEFINE Gone(i) == << RemoveFile(Temp(i), {Temp(i)}) >>
           Kept(i) == /\ i <= Len(changes) /\ HasTemp(changes[i])
                      /\ pc = "staging" => i < at.change
                      /\ pc = "committing" => i >= at.change
                      /\ result # "ok"
                      /\ pc \in {"clearing", "over"} /\ ~stuck => \E j \in 1..Len(todo) : todo[j] = Gone(i)
           Ready(i) == HasTemp(changes[i]) /\ (\/ pc = "staging" /\ i < at.change
                                               \/ pc = "asking"
                                               \/ pc = "committing" /\ i >= at.change)
                          => fs[Temp(i)] = <<"new", i>>
<1> SUFFICES ASSUME TypeOK, Shape, EntriesFit, [Next]_vars,
                    \A i \in Indices : fs[Temp(i)] # Absent => Kept(i),
                    \A i \in 1..Len(changes) : Ready(i)
             PROVE  /\ \A i \in Indices : fs'[Temp(i)] # Absent => Kept(i)'
                    /\ \A i \in 1..Len(changes) : Ready(i)'
  BY OfThem DEF TempsHeld, Exists
<1>0. /\ Len(changes) \in Nat /\ 1..Len(changes) \subseteq Indices /\ Len(changes) \in 1..Len(changes)
      /\ at.change \in 1..Len(changes) /\ at.change \in Indices /\ at.change \in Nat
      /\ fs \in [Names -> Contents] /\ todo \in Seq(Seq(Call)) /\ Len(todo) \in Nat
      /\ \A i \in Indices : i \in Nat /\ i >= 1
      /\ at = [change |-> at.change, step |-> at.step, entry |-> at.entry]
      /\ Now = changes[at.change]
  <2>1. Len(changes) \in Nat /\ 1..Len(changes) \subseteq Indices
    BY ChangesIs
  <2>2. /\ at.change \in 1..Len(changes) /\ at.change \in Indices /\ at.change \in Nat
        /\ at = [change |-> at.change, step |-> at.step, entry |-> at.entry] /\ Now = changes[at.change]
    BY NowIs
  <2>3. Len(changes) \in 1..Len(changes)
    BY <2>1, <2>2
  <2>4. \A i \in Indices : i \in Nat /\ i >= 1
    BY DEF Indices
  <2> QED BY <2>1, <2>2, <2>3, <2>4 DEF TypeOK
<1>1. changes' = changes
  BY OfThem
<1>2. /\ \A i \in Indices : Temp(i) \in Names /\ Temp(i) \notin Held /\ Temp(i) \notin Paths
      /\ \A i, j \in Indices : Temp(i) = Temp(j) => i = j
      /\ \A i \in Indices : Backup(i) \in Held /\ OldBackup(i) \in Held
      /\ Paths \subseteq Held /\ Held \subseteq Names
  BY NamesDiffer
<1>3. /\ Now.path \in Paths /\ Source(Now) \in Paths
      /\ Moves(Now) => Now.old \in Paths
  BY NowIs
<1>4. ASSUME NEW from \in Held, NEW to \in Held
      PROVE  \A i \in Indices : Renamed(fs, from, to)[Temp(i)] = fs[Temp(i)]
  BY <1>0, <1>2 DEF Renamed
<1>5. ASSUME NEW i \in 1..Len(changes)
      PROVE  /\ i \in Indices /\ Len(TempsOf(Len(changes))) = Len(changes) /\ TempsOf(Len(changes))[i] = TempEntry(i)
             /\ i < at.change => /\ Len(TempsOf(at.change - 1)) = at.change - 1 /\ i \in 1..at.change - 1
                                 /\ TempsOf(at.change - 1)[i] = TempEntry(i)
             /\ HasTemp(changes[i]) => TempEntry(i) = Gone(i)
  <2>1. at.change - 1 \in 0..Len(changes) /\ Len(changes) \in 0..Len(changes) /\ at.change - 1 \in Nat
    BY <1>0
  <2>2. i < at.change => i \in 1..at.change - 1
    BY <1>0
  <2> QED BY <1>0, <2>1, <2>2, TempsOfIs DEF TempEntry
<1>6. CASE StageChange
  <2>1. /\ pc = "staging" /\ pc' \in {"staging", "asking"} /\ result' = "none"
        /\ fs' = IF HasTemp(Now) THEN [fs EXCEPT ![Temp(at.change)] = <<"new", at.change>>] ELSE fs
    BY <1>6 DEF StageChange, Shape, Early
  <2>2. /\ at.change < Len(changes) => pc' = "staging" /\ at'.change = at.change + 1
        /\ ~(at.change < Len(changes)) => pc' = "asking"
    BY <1>0, <1>6 DEF StageChange
  <2>3. \A i \in Indices : /\ i # at.change => fs'[Temp(i)] = fs[Temp(i)]
                           /\ HasTemp(Now) => fs'[Temp(at.change)] = <<"new", at.change>>
                           /\ ~HasTemp(Now) => fs'[Temp(at.change)] = fs[Temp(at.change)]
    BY <1>0, <1>2, <2>1
  <2>4. ASSUME NEW i \in Indices, fs'[Temp(i)] # Absent PROVE Kept(i)'
    <3>1. i <= Len(changes) /\ HasTemp(changes[i]) /\ i <= at.change
      <4>1. CASE i = at.change /\ HasTemp(Now)
        BY <1>0, <4>1
      <4>2. CASE ~(i = at.change /\ HasTemp(Now))
        <5>1. fs[Temp(i)] # Absent
          BY <2>3, <2>4, <4>2
        <5> QED BY <1>0, <2>1, <5>1
      <4> QED BY <4>1, <4>2
    <3>2. pc' = "staging" => i < at'.change
      BY <1>0, <2>1, <2>2, <3>1
    <3> QED BY <1>1, <2>1, <3>1, <3>2
  <2>5. ASSUME NEW i \in 1..Len(changes) PROVE Ready(i)'
    <3>1. CASE i = at.change
      BY <1>0, <1>1, <2>3, <3>1
    <3>2. CASE i # at.change
      <4> SUFFICES ASSUME HasTemp(changes[i]), pc' = "asking" \/ i < at'.change
                   PROVE  fs'[Temp(i)] = <<"new", i>>
        BY <1>1, <2>1
      <4>1. i < at.change
        BY <1>0, <2>2, <2>1, <3>2
      <4>2. fs[Temp(i)] = <<"new", i>>
        BY <2>1, <4>1
      <4> QED BY <1>0, <2>3, <3>2, <4>2
    <3> QED BY <3>1, <3>2
  <2> QED BY <2>4, <2>5
<1>7. CASE StageFails \/ Denied
  <2>1. /\ UNCHANGED fs /\ pc' = "clearing" /\ result' # "ok"
        /\ pc = "staging" => todo' = TempsOf(at.change - 1)
        /\ pc = "asking" => todo' = TempsOf(Len(changes))
        /\ pc \in {"staging", "asking"}
    BY <1>7 DEF StageFails, Denied, GiveUp
  <2>2. ASSUME NEW i \in Indices, fs'[Temp(i)] # Absent PROVE Kept(i)'
    <3>1. Kept(i)
      BY <2>1, <2>2
    <3>2. i \in 1..Len(changes)
      BY <1>0, <3>1
    <3>3. i \in 1..Len(todo') /\ todo'[i] = Gone(i)
      BY <1>0, <1>5, <2>1, <3>1, <3>2
    <3> QED BY <1>1, <2>1, <3>1, <3>3
  <2> QED BY <1>1, <2>1, <2>2
<1>8. ASSUME pc' = pc, at'.change = at.change, result' = result, todo' = todo, pc \in {"staging", "asking", "committing"},
             \A i \in Indices : fs'[Temp(i)] = fs[Temp(i)]
      PROVE  /\ \A i \in Indices : fs'[Temp(i)] # Absent => Kept(i)'
             /\ \A i \in 1..Len(changes) : Ready(i)'
  <2>1. \A i \in 1..Len(changes) : Ready(i)'
    BY <1>0, <1>1, <1>8
  <2>2. \A i \in Indices : fs'[Temp(i)] # Absent => Kept(i)'
    BY <1>1, <1>8
  <2> QED BY <2>1, <2>2
<1>9. CASE UserEdits
  <2>1. \A i \in Indices : fs'[Temp(i)] = fs[Temp(i)]
    <3>1. PICK p \in Paths : \E content : fs' = [fs EXCEPT ![p] = content]
      BY <1>9 DEF UserEdits
    <3> QED BY <1>0, <1>2, <3>1
  <2> QED BY <1>8, <1>9, <2>1 DEF UserEdits
<1>10. CASE Allowed
  <2>1. pc = "asking" /\ pc' = "committing" /\ at.change = 1 /\ UNCHANGED <<fs, at, result>>
    BY <1>10 DEF Allowed, Shape
  <2>2. \A i \in Indices : i >= at.change
    BY <1>0, <2>1
  <2> QED BY <1>1, <2>1, <2>2
<1>11. CASE BackUp
  <2>1. \A i \in Indices : fs'[Temp(i)] = fs[Temp(i)]
    <3>1. fs' = fs \/ fs' = Renamed(fs, Now.path, Backup(at.change))
      BY <1>11 DEF BackUp
    <3> QED BY <1>0, <1>2, <1>3, <1>4, <3>1
  <2>2. at'.change = at.change
    BY <1>0, <1>11 DEF BackUp
  <2> QED BY <1>8, <1>11, <2>1, <2>2 DEF BackUp
<1>12. CASE BackUpSource
  <2>1. \A i \in Indices : fs'[Temp(i)] = fs[Temp(i)]
    <3>1. fs' = Renamed(fs, Now.old, OldBackup(at.change)) /\ Moves(Now)
      BY <1>12 DEF BackUpSource, Shape, FitsNow, Moves
    <3> QED BY <1>0, <1>2, <1>3, <1>4, <3>1
  <2>2. at'.change = at.change
    BY <1>0, <1>12 DEF BackUpSource
  <2> QED BY <1>8, <1>12, <2>1, <2>2 DEF BackUpSource
<1>13. CASE BackUpFails \/ BackUpSourceFails \/ MoveFails
  <2>1. /\ pc = "committing" /\ pc' = "clearing" /\ result' # "ok"
        /\ todo' \in {Rollback, << SelfRepair >> \o Rollback}
    BY <1>13 DEF BackUpFails, BackUpSourceFails, MoveFails, GiveUp
  <2>2. \A i \in Indices : fs'[Temp(i)] = fs[Temp(i)]
    <3>1. CASE BackUpFails \/ BackUpSourceFails
      BY <3>1 DEF BackUpFails, BackUpSourceFails
    <3>2. CASE MoveFails
      <4>1. fs' = fs \/ (Moves(Now) /\ fs' = Renamed(fs, OldBackup(at.change), Now.old))
        BY <3>2 DEF MoveFails, Shape, FitsNow, Moves
      <4> QED BY <1>0, <1>2, <1>3, <1>4, <4>1
    <3> QED BY <1>13, <3>1, <3>2
  <2>3. ASSUME NEW i \in Indices, fs'[Temp(i)] # Absent PROVE Kept(i)'
    <3>1. Kept(i)
      BY <2>2, <2>3
    <3>2. i \in 1..Len(changes)
      BY <1>0, <3>1
    <3>3. \E j \in 1..Len(todo') : todo'[j] = Gone(i)
      <4> DEFINE k == Len(committed)
                 n == Len(changes)
                 sr == << SelfRepair >> \o Rollback
      <4>1. /\ k \in Nat /\ n \in Nat /\ Len(Rollback) = k + n /\ Len(sr) = k + 1 + n
            /\ Rollback[k+i] = TempEntry(i) /\ sr[k+1+i] = TempEntry(i)
        BY <2>1, <3>2, RollbackStarts
      <4>2. TempEntry(i) = Gone(i)
        BY <1>5, <3>1, <3>2
      <4> HIDE DEF k, sr
      <4>3. k+i \in 1..Len(Rollback) /\ k+1+i \in 1..Len(sr)
        BY <3>2, <4>1
      <4> QED BY <2>1, <4>1, <4>2, <4>3 DEF sr
    <3> HIDE DEF Gone
    <3> QED BY <1>1, <2>1, <3>1, <3>3
  <2> QED BY <2>1, <2>3
<1>14. CASE Move
  <2>1. /\ pc = "committing" /\ MovedFrom \in Names /\ MovedTo \in Held /\ MovedFrom # MovedTo
        /\ fs' = Renamed(fs, MovedFrom, MovedTo) /\ result = "none"
    BY <1>14, MovedIs DEF Move, Shape, Early
  <2>2. \A i \in Indices : /\ fs'[Temp(i)] \in {fs[Temp(i)], Absent}
                           /\ i # at.change => fs'[Temp(i)] = fs[Temp(i)]
                           /\ fs'[Temp(at.change)] = Absent
    <3>1. \A i \in Indices : MovedTo # Temp(i)
      BY <1>2, <2>1
    <3>2. fs' \in [Names -> Contents] /\ fs'[MovedFrom] = Absent
          /\ \A n \in Names \ {MovedFrom, MovedTo} : fs'[n] = fs[n]
      BY <1>0, <1>2, <2>1, RenamedIs
    <3>3. CASE HasTemp(Now)
      <4>1. MovedFrom = Temp(at.change)
        BY <3>3 DEF MovedFrom
      <4> QED BY <1>0, <1>2, <3>1, <3>2, <4>1
    <3>4. CASE ~HasTemp(Now)
      <4>1. MovedFrom \in Paths /\ fs[Temp(at.change)] = Absent
        BY <1>0, <1>3, <3>4 DEF MovedFrom
      <4> QED BY <1>0, <1>2, <3>1, <3>2, <4>1
    <3> QED BY <3>3, <3>4
  <2>3. ASSUME NEW i \in Indices, fs'[Temp(i)] # Absent
        PROVE  /\ i <= Len(changes) /\ HasTemp(changes[i]) /\ i > at.change
    <3>1. Kept(i) /\ i # at.change
      BY <2>2, <2>3
    <3> QED BY <1>0, <2>1, <3>1
  <2>4. CASE at.change < Len(changes)
    <3>1. pc' = "committing" /\ at'.change = at.change + 1 /\ result' = "none"
      BY <1>14, <2>1, <2>4 DEF Move
    <3>2. \A i \in Indices : fs'[Temp(i)] # Absent => Kept(i)'
      <4> SUFFICES ASSUME NEW i \in Indices, fs'[Temp(i)] # Absent PROVE Kept(i)'
        OBVIOUS
      <4>1. i <= Len(changes) /\ HasTemp(changes[i]) /\ i > at.change
        BY <2>3
      <4>2. i >= at'.change
        BY <1>0, <3>1, <4>1
      <4> QED BY <1>1, <3>1, <4>1, <4>2
    <3>3. \A i \in 1..Len(changes) : Ready(i)'
      <4> SUFFICES ASSUME NEW i \in 1..Len(changes), HasTemp(changes[i]), i >= at'.change
                   PROVE  fs'[Temp(i)] = <<"new", i>>
        BY <1>1, <3>1
      <4>1. i >= at.change /\ i # at.change
        BY <1>0, <3>1
      <4> QED BY <1>0, <2>1, <2>2, <4>1
    <3> QED BY <3>2, <3>3
  <2>5. CASE ~(at.change < Len(changes))
    <3>1. pc' = "clearing"
      BY <1>14, <2>5 DEF Move, GiveUp
    <3>2. \A i \in Indices : fs'[Temp(i)] = Absent
      BY <1>0, <2>3, <2>5
    <3> QED BY <3>1, <3>2
  <2> QED BY <2>4, <2>5
<1>15. CASE CallWorks \/ CallFails
  <2> DEFINE s == todo[1][1]
  <2>1. /\ s.from \in Names /\ s.to \in Names /\ s.call \in {"rename", "remove"}
        /\ s.call = "rename" => s.from \in Held /\ s.to \in Held
        /\ CallWorks => /\ fs' = IF s.call = "rename" THEN Renamed(fs, s.from, s.to)
                                                      ELSE [fs EXCEPT ![s.from] = Absent]
                        /\ UNCHANGED <<stuck>>
        /\ CallFails => UNCHANGED fs /\ (~stuck' => ~stuck /\ fs[s.from] = Absent)
    BY <1>15, CallDoes DEF Exists
  <2>2. /\ pc = "clearing" /\ UNCHANGED <<pc, at, result>>
        /\ todo # <<>> /\ todo[1] # <<>> /\ Len(todo') = Len(todo) /\ Len(todo) \in Nat \ {0}
        /\ \A j \in 2..Len(todo) : todo'[j] = todo[j]
    BY <1>15, CallLeaves
  <2> HIDE DEF s
  <2>3. ASSUME NEW i \in Indices
        PROVE  /\ fs'[Temp(i)] \in {fs[Temp(i)], Absent}
               /\ ~stuck' => ~stuck /\ (s.from = Temp(i) => fs'[Temp(i)] = Absent)
    <3>1. CASE CallFails
      BY <2>1, <3>1
    <3>2. CASE CallWorks /\ s.call = "rename"
      <4>1. Temp(i) \in Names /\ s.from \in Held /\ s.to \in Held /\ Temp(i) \notin Held
        BY <1>2, <2>1, <3>2
      <4>2. fs'[Temp(i)] = fs[Temp(i)] /\ s.from # Temp(i)
        BY <1>4, <2>1, <3>2, <4>1
      <4> QED BY <2>1, <3>2, <4>2
    <3>3. CASE CallWorks /\ s.call = "remove"
      BY <1>0, <1>2, <2>1, <3>3
    <3> QED BY <1>15, <2>1, <3>1, <3>2, <3>3
  <2>4. ASSUME NEW i \in Indices, fs'[Temp(i)] # Absent PROVE Kept(i)'
    <3>1. Kept(i)
      BY <2>3, <2>4
    <3>2. ~stuck' => \E j \in 1..Len(todo') : todo'[j] = Gone(i)
      <4> HAVE ~stuck'
      <4>1. PICK j \in 1..Len(todo) : todo[j] = Gone(i)
        BY <2>2, <2>3, <3>1
      <4>2. j # 1
        <5>1. ASSUME j = 1 PROVE FALSE
          <6>1. s = RemoveFile(Temp(i), {Temp(i)})
            BY <4>1, <5>1 DEF s
          <6>2. s.from = Temp(i)
            BY <6>1 DEF RemoveFile
          <6> QED BY <2>3, <2>4, <6>2
        <5> QED BY <5>1
      <4>3. j \in 2..Len(todo)
        BY <2>2, <4>2
      <4> QED BY <2>2, <4>1, <4>3
    <3> HIDE DEF Gone
    <3> QED BY <1>1, <2>2, <3>1, <3>2
  <2> QED BY <2>2, <2>4
<1>16. CASE NextEntry
  <2>1. /\ pc = "clearing" /\ UNCHANGED <<fs, pc, at, result, stuck>>
        /\ todo[1] = <<>> /\ Len(todo') = Len(todo) - 1 /\ Len(todo) \in Nat \ {0}
        /\ \A j \in 1..Len(todo)-1 : todo'[j] = todo[j+1]
    BY <1>16, NextLeaves
  <2>2. ASSUME NEW i \in Indices, fs'[Temp(i)] # Absent PROVE Kept(i)'
    <3>1. Kept(i)
      BY <2>1, <2>2
    <3>2. ~stuck => \E j \in 1..Len(todo') : todo'[j] = Gone(i)
      <4> HAVE ~stuck
      <4>1. PICK j \in 1..Len(todo) : todo[j] = Gone(i)
        BY <2>1, <3>1
      <4>2. j # 1
        <5>1. \A x : << x >> # <<>>
          OBVIOUS
        <5>2. Gone(i) # <<>>
          BY <5>1
        <5> HIDE DEF Gone
        <5> QED BY <2>1, <4>1, <5>2
      <4>3. PICK m \in 1..Len(todo)-1 : m + 1 = j
        BY <2>1, <4>2
      <4>4. m \in 1..Len(todo') /\ todo'[m] = Gone(i)
        BY <2>1, <4>1, <4>3
      <4> QED BY <4>4
    <3> HIDE DEF Gone
    <3> QED BY <1>1, <2>1, <3>1, <3>2
  <2> QED BY <2>1, <2>2
<1>17. CASE End
  <2>1. pc = "clearing" /\ pc' = "over" /\ UNCHANGED <<fs, todo, stuck>> /\ (result' = "ok" => result = "ok")
    BY <1>17 DEF End
  <2>2. \A i \in Indices : fs'[Temp(i)] # Absent => Kept(i)'
    <3> HIDE DEF Gone
    <3> QED BY <1>1, <2>1
  <2> QED BY <2>1, <2>2
<1>18. CASE UNCHANGED vars
  <2>1. UNCHANGED <<fs, pc, at, result, stuck, todo>>
    BY <1>18 DEF vars
  <2> HIDE DEF Gone
  <2> QED BY <1>1, <2>1
<1> QED BY <1>6, <1>7, <1>9, <1>10, <1>11, <1>12, <1>13, <1>14, <1>15, <1>16, <1>17, <1>18 DEF Next
-----------------------------------------------------------------------------
(* The backups *)

LEMMA BackupsStep ==
    TypeOK /\ Shape /\ EntriesFit /\ CleanupShape /\ BackupsHeld /\ (Early => State(fs) = Clean) /\ [Next]_vars
        => BackupsHeld'
<1> DEFINE HasB(i) == \/ i <= Len(committed) /\ committed[i].hadOriginal
                      \/ i = at.change /\ at.entry.hadOriginal
           HasO(i) == \/ i <= Len(committed) /\ committed[i].oldBackup
                      \/ i = at.change /\ at.entry.oldBackup
           AtStep  == at.step # "backup" =>
                        /\ at.entry.hadOriginal => fs[Backup(at.change)] # Absent
                        /\ Now.op # "delete" => fs[Now.path] = Absent
                        /\ at.entry.oldBackup => fs[OldBackup(at.change)] # Absent /\ fs[Now.old] = Absent
           Has     == \A i \in Indices : /\ fs[Backup(i)] # Absent => HasB(i)
                                         /\ fs[OldBackup(i)] # Absent => HasO(i)
           ToDrop(x) == \E j \in 1..Len(todo) : \E m \in 1..Len(todo[j]) : todo[j][m] = RemoveFile(x, {})
           Drops   == \A i \in Indices : /\ fs[Backup(i)] # Absent => ToDrop(Backup(i))
                                         /\ fs[OldBackup(i)] # Absent => ToDrop(OldBackup(i))
<1> SUFFICES ASSUME TypeOK, Shape, EntriesFit, CleanupShape, Early => State(fs) = Clean, [Next]_vars,
                    pc = "committing" => Has /\ AtStep,
                    pc \in {"clearing", "over"} /\ result = "ok" /\ ~stuck => Drops
             PROVE  /\ pc' = "committing" => Has' /\ AtStep'
                    /\ pc' \in {"clearing", "over"} /\ result' = "ok" /\ ~stuck' => Drops'
  BY DEF BackupsHeld, Exists
<1>0. /\ Len(changes) \in Nat /\ at.change \in 1..Len(changes) /\ at.change \in Indices /\ at.change \in Nat
      /\ fs \in [Names -> Contents] /\ todo \in Seq(Seq(Call)) /\ Len(todo) \in Nat
      /\ committed \in Seq(Entry) /\ Len(committed) \in Nat
      /\ at = [change |-> at.change, step |-> at.step, entry |-> at.entry]
      /\ Now = changes[at.change] /\ \A i \in Indices : i \in Nat /\ i >= 1
      /\ Now.path \in Paths /\ Source(Now) \in Paths
      /\ Moves(Now) => Now.old \in Paths /\ Now.old # Now.path
      /\ at.entry \in Entry \cup {NoEntry}
  <2>1. Len(changes) \in Nat
    BY ChangesIs
  <2>2. \A i \in Indices : i \in Nat /\ i >= 1
    BY DEF Indices
  <2> QED BY <2>1, <2>2, NowIs DEF TypeOK
<1>2. /\ \A i \in Indices : /\ Backup(i) \in Names /\ Backup(i) \notin Paths /\ Backup(i) \in Held
                            /\ OldBackup(i) \in Names /\ OldBackup(i) \notin Paths /\ OldBackup(i) \in Held
      /\ \A i, j \in Indices : /\ Backup(i) # OldBackup(j) /\ Temp(i) # Backup(j) /\ Temp(i) # OldBackup(j)
                               /\ Backup(i) = Backup(j) => i = j
                               /\ OldBackup(i) = OldBackup(j) => i = j
      /\ Paths \subseteq Names
  BY NamesDiffer
<1>3. changes' = changes
  BY OfThem
<1>4. CASE Allowed
  <2>1. Early /\ at.step = "backup" /\ UNCHANGED <<fs, at>> /\ pc' = "committing"
    BY <1>4 DEF Allowed, Early, Shape
  <2>2. \A n \in Held : n \notin Paths => fs[n] = Absent
    <3>1. \A n \in Held : State(fs)[n] = fs[n] /\ (n \notin Paths => Clean[n] = Absent)
      BY DEF State, Clean
    <3> QED BY <2>1, <3>1
  <2>3. \A i \in Indices : fs'[Backup(i)] = Absent /\ fs'[OldBackup(i)] = Absent
    BY <1>2, <2>1, <2>2
  <2> QED BY <2>1, <2>3
<1>5. CASE BackUp
  <2> DEFINE had == fs[Now.path] # Absent /\ Now.op # "delete"
             e == [disposition |-> Disposition(Now, had), hadOriginal |-> had, oldBackup |-> FALSE]
             st == IF Now.op = "edit" THEN "source" ELSE "move"
  <2>1. /\ pc = "committing" /\ at.entry = NoEntry /\ UNCHANGED <<pc, committed>>
        /\ at' = [at EXCEPT !.step = st, !.entry = e]
        /\ fs' = IF had THEN Renamed(fs, Now.path, Backup(at.change)) ELSE fs
    BY <1>5 DEF BackUp, Exists, Shape, FitsNow
  <2>2. e.hadOriginal = had /\ e.oldBackup = FALSE
    OBVIOUS
  <2>3. at'.change = at.change /\ at'.entry = e
    <3> HIDE DEF e, st
    <3> QED BY <1>0, <2>1
  <2> HIDE DEF e, st, had
  <2>4. Now' = Now
    BY <1>3, <2>3 DEF Now
  <2>5. /\ had => /\ fs'[Now.path] = Absent /\ fs'[Backup(at.change)] = fs[Now.path]
                  /\ \A n \in Names \ {Now.path, Backup(at.change)} : fs'[n] = fs[n]
        /\ ~had => fs' = fs
    <3>1. Now.path \in Names /\ Backup(at.change) \in Names /\ Now.path # Backup(at.change)
      BY <1>0, <1>2
    <3> QED BY <1>0, <2>1, <3>1, RenamedIs
  <2>6. ~at.entry.hadOriginal /\ ~at.entry.oldBackup
    BY <2>1 DEF NoEntry
  <2>7. Has'
    <3> SUFFICES ASSUME NEW i \in Indices
                 PROVE  /\ fs'[Backup(i)] # Absent => HasB(i)'
                        /\ fs'[OldBackup(i)] # Absent => HasO(i)'
      OBVIOUS
    <3>1. /\ fs'[Backup(i)] # Absent => fs[Backup(i)] # Absent \/ (had /\ i = at.change)
          /\ fs'[OldBackup(i)] = fs[OldBackup(i)]
      BY <1>0, <1>2, <2>5
    <3>2. /\ fs[Backup(i)] # Absent => HasB(i)
          /\ fs[OldBackup(i)] # Absent => HasO(i)
      BY <2>1
    <3>3. HasB(i) \/ (had /\ i = at.change) => HasB(i)'
      BY <2>1, <2>2, <2>3, <2>6
    <3>4. HasO(i) => HasO(i)'
      BY <2>1, <2>2, <2>3, <2>6
    <3> HIDE DEF HasB, HasO
    <3> QED BY <3>1, <3>2, <3>3, <3>4
  <2>8. AtStep'
    <3>1. had => fs'[Backup(at.change)] # Absent
      BY <2>5 DEF had
    <3>2. Now.op # "delete" => fs'[Now.path] = Absent
      BY <2>5 DEF had
    <3> QED BY <2>2, <2>3, <2>4, <3>1, <3>2
  <2> HIDE DEF Has, AtStep
  <2> QED BY <2>1, <2>7, <2>8
<1>6. CASE BackUpSource
  <2>1. /\ pc = "committing" /\ at.step = "source" /\ UNCHANGED <<pc, committed>>
        /\ Now.op = "edit" /\ at.entry.disposition = Disposition(Now, at.entry.hadOriginal)
        /\ fs[Now.old] # Absent
        /\ at' = [at EXCEPT !.step = "move", !.entry.oldBackup = TRUE]
        /\ fs' = Renamed(fs, Now.old, OldBackup(at.change))
    BY <1>6 DEF BackUpSource, Exists, Shape, FitsNow
  <2>2. at.entry \in Entry /\ Moves(Now)
    <3>1. at.entry # NoEntry /\ Moves(Now)
      BY <2>1 DEF Moves, Disposition, NoEntry
    <3> QED BY <1>0, <3>1
  <2>3. /\ at'.step = "move" /\ at'.change = at.change
        /\ at'.entry.hadOriginal = at.entry.hadOriginal /\ at'.entry.oldBackup = TRUE
    BY <1>0, <2>1, <2>2 DEF Entry
  <2>4. Now' = Now
    BY <1>3, <2>3 DEF Now
  <2>5. /\ fs'[Now.old] = Absent /\ fs'[OldBackup(at.change)] = fs[Now.old]
        /\ \A n \in Names \ {Now.old, OldBackup(at.change)} : fs'[n] = fs[n]
    <3>1. Now.old \in Names /\ OldBackup(at.change) \in Names /\ Now.old # OldBackup(at.change)
      BY <1>0, <1>2, <2>2
    <3> QED BY <1>0, <2>1, <3>1, RenamedIs
  <2>6. Has'
    <3> SUFFICES ASSUME NEW i \in Indices
                 PROVE  /\ fs'[Backup(i)] # Absent => HasB(i)'
                        /\ fs'[OldBackup(i)] # Absent => HasO(i)'
      OBVIOUS
    <3>1. /\ fs'[Backup(i)] = fs[Backup(i)]
          /\ i # at.change => fs'[OldBackup(i)] = fs[OldBackup(i)]
      BY <1>0, <1>2, <2>2, <2>5
    <3>2. /\ fs[Backup(i)] # Absent => HasB(i)
          /\ fs[OldBackup(i)] # Absent => HasO(i)
      BY <2>1
    <3>3. HasB(i) => HasB(i)'
      BY <2>1, <2>3
    <3>4. i = at.change \/ HasO(i) => HasO(i)'
      BY <2>1, <2>3
    <3> HIDE DEF HasB, HasO
    <3> QED BY <3>1, <3>2, <3>3, <3>4
  <2>7. AtStep'
    <3>1. at.entry.hadOriginal => fs'[Backup(at.change)] # Absent
      BY <1>0, <1>2, <2>1, <2>2, <2>5
    <3>2. fs'[Now.path] = Absent
      BY <1>0, <1>2, <2>1, <2>2, <2>5
    <3>3. fs'[OldBackup(at.change)] # Absent /\ fs'[Now.old] = Absent
      BY <2>1, <2>5
    <3> QED BY <2>3, <2>4, <3>1, <3>2, <3>3
  <2> HIDE DEF Has, AtStep
  <2> QED BY <2>1, <2>6, <2>7
<1>7. CASE Move
  <2> DEFINE e == IF Now.op = "delete" THEN [at.entry EXCEPT !.hadOriginal = TRUE] ELSE at.entry
  <2>1. /\ pc = "committing" /\ FitsNow /\ at.step = "move" /\ Len(committed) = at.change - 1
        /\ committed' = Append(committed, e) /\ fs' = Renamed(fs, MovedFrom, MovedTo)
    BY <1>7 DEF Move, Shape
  <2>2. /\ e \in Entry
        /\ e.hadOriginal <=> Now.op = "delete" \/ at.entry.hadOriginal
        /\ e.oldBackup = at.entry.oldBackup
    BY <2>1, EntryNow
  <2> HIDE DEF e
  <2>3. /\ Len(committed') = at.change /\ committed'[at.change] = e
        /\ \A i \in 1..Len(committed) : committed'[i] = committed[i]
    <3>1. Len(committed) + 1 = at.change
      BY <1>0, <2>1
    <3> QED BY <1>0, <2>1, <2>2, <3>1, AppendIs
  <2>4. /\ MovedFrom \in Paths \cup {Temp(at.change)}
        /\ MovedTo \in Paths \/ (Now.op = "delete" /\ MovedTo = Backup(at.change))
    BY <1>0 DEF MovedFrom, MovedTo
  <2>5. ASSUME NEW i \in Indices
        PROVE  /\ fs'[Backup(i)] # Absent => i \in 1..Len(committed') /\ committed'[i].hadOriginal
               /\ fs'[OldBackup(i)] # Absent => i \in 1..Len(committed') /\ committed'[i].oldBackup
    <3>1. \A n \in Names : n \notin {MovedFrom, MovedTo} => fs'[n] = fs[n]
      <4>1. MovedFrom \in Names /\ MovedTo \in Names /\ MovedFrom # MovedTo
        BY MovedIs
      <4>2. \A n \in Names \ {MovedFrom, MovedTo} : Renamed(fs, MovedFrom, MovedTo)[n] = fs[n]
        BY <1>0, <4>1, RenamedIs
      <4> QED BY <2>1, <4>2
    <3>2. MovedFrom # Backup(i) /\ MovedFrom # OldBackup(i)
      BY <1>0, <1>2, <2>4
    <3>3. MovedTo # OldBackup(i) /\ (MovedTo = Backup(i) => Now.op = "delete" /\ i = at.change)
      BY <1>0, <1>2, <2>4
    <3>4. /\ fs'[OldBackup(i)] = fs[OldBackup(i)]
          /\ fs'[Backup(i)] = fs[Backup(i)] \/ (Now.op = "delete" /\ i = at.change)
      BY <1>2, <3>1, <3>2, <3>3
    <3>5. /\ fs[Backup(i)] # Absent => HasB(i)
          /\ fs[OldBackup(i)] # Absent => HasO(i)
      BY <2>1
    <3>6. HasB(i) \/ (Now.op = "delete" /\ i = at.change) => i \in 1..Len(committed') /\ committed'[i].hadOriginal
      <4>1. CASE i = at.change
        BY <1>0, <2>1, <2>2, <2>3, <4>1
      <4>2. CASE i # at.change
        <5> SUFFICES ASSUME i <= Len(committed), committed[i].hadOriginal
                     PROVE  i \in 1..Len(committed') /\ committed'[i].hadOriginal
          BY <4>2
        <5>1. i \in 1..Len(committed) /\ i \in 1..at.change
          BY <1>0, <2>1
        <5> QED BY <2>3, <5>1
      <4> QED BY <4>1, <4>2
    <3>7. HasO(i) => i \in 1..Len(committed') /\ committed'[i].oldBackup
      <4>1. CASE i = at.change
        BY <1>0, <2>1, <2>2, <2>3, <4>1
      <4>2. CASE i # at.change
        <5> SUFFICES ASSUME i <= Len(committed), committed[i].oldBackup
                     PROVE  i \in 1..Len(committed') /\ committed'[i].oldBackup
          BY <4>2
        <5>1. i \in 1..Len(committed) /\ i \in 1..at.change
          BY <1>0, <2>1
        <5> QED BY <2>3, <5>1
      <4> QED BY <4>1, <4>2
    <3> HIDE DEF HasB, HasO
    <3> QED BY <3>4, <3>5, <3>6, <3>7
  <2>6. CASE at.change < Len(changes)
    <3>1. at'.step = "backup" /\ pc' = pc
      BY <1>7, <2>6 DEF Move
    <3>2. \A i \in 1..Len(committed') : i <= Len(committed')
      BY <1>0, <2>3
    <3>3. Has'
      BY <2>5, <3>2
    <3> QED BY <2>1, <3>1, <3>3
  <2>7. CASE ~(at.change < Len(changes))
    <3>1. todo' = Cleanup(committed') /\ pc' = "clearing"
      BY <1>7, <2>7 DEF Move, GiveUp
    <3>2. committed' \in Seq(Entry) /\ Len(committed') <= Len(changes)
      <4>1. TypeOK'
        BY <1>7, TypeStep DEF Next
      <4> QED BY <1>3, <4>1 DEF TypeOK
    <3>3. /\ Len(todo') = Len(committed')
          /\ \A i \in 1..Len(committed') :
                /\ committed'[i].hadOriginal => \E m \in 1..Len(todo'[i]) : todo'[i][m] = RemoveFile(Backup(i), {})
                /\ committed'[i].oldBackup => \E m \in 1..Len(todo'[i]) : todo'[i][m] = RemoveFile(OldBackup(i), {})
      BY <3>1, <3>2, CleanupIs
    <3>4. Drops'
      BY <2>5, <3>3
    <3> QED BY <3>1, <3>4
  <2> QED BY <2>6, <2>7
<1>8. CASE CallWorks \/ CallFails
  <2> DEFINE s == todo[1][1]
  <2>1. /\ pc = "clearing" /\ UNCHANGED <<pc, result>>
        /\ todo # <<>> /\ todo[1] # <<>> /\ Len(todo') = Len(todo) /\ Len(todo) \in Nat \ {0}
        /\ \A j \in 2..Len(todo) : todo'[j] = todo[j]
        /\ CallWorks \/ s.skips = 0 => todo'[1] = Tail(todo[1])
    BY <1>8, CallLeaves
  <2> SUFFICES ASSUME result = "ok", ~stuck' PROVE Drops'
    BY <2>1
  <2>2. /\ s.from \in Names
        /\ CallWorks => /\ fs' = IF s.call = "rename" THEN Renamed(fs, s.from, s.to)
                                                      ELSE [fs EXCEPT ![s.from] = Absent]
                        /\ UNCHANGED stuck
        /\ CallFails => UNCHANGED fs /\ (~stuck' => ~stuck /\ fs[s.from] = Absent)
    BY <1>8, CallDoes DEF Exists
  <2>3. s.call = "remove" /\ s.skips = 0
    <3>1. 1 \in 1..Len(todo) /\ todo[1] \in Seq(Call)
      BY <1>0, <2>1, TailIs
    <3>2. 1 \in 1..Len(todo[1])
      BY <2>1, <3>1, TailIs
    <3>3. \E i \in Indices : s \in {RemoveFile(Backup(i), {}), RemoveFile(OldBackup(i), {})}
      BY <2>1, <3>1, <3>2 DEF CleanupShape
    <3> QED BY <3>3 DEF RemoveFile
  <2>4. Drops
    BY <1>8, <2>1, <2>2
  <2> HIDE DEF s
  <2>5. /\ fs'[s.from] = Absent
        /\ \A n \in Names : fs'[n] = fs[n] \/ fs'[n] = Absent
    BY <1>0, <1>8, <2>2, <2>3
  <2>6. ASSUME NEW n \in Names, fs'[n] # Absent, ToDrop(n) PROVE ToDrop(n)'
    <3>1. PICK j \in 1..Len(todo) : \E m \in 1..Len(todo[j]) : todo[j][m] = RemoveFile(n, {})
      BY <2>6
    <3>2. PICK m \in 1..Len(todo[j]) : todo[j][m] = RemoveFile(n, {})
      BY <3>1
    <3>3. CASE j # 1
      <4>1. j \in 2..Len(todo)
        BY <2>1, <3>3
      <4> QED BY <2>1, <3>2, <4>1
    <3>4. CASE j = 1
      <4> DEFINE x == todo[1]
      <4>1. x \in Seq(Call) /\ x # <<>>
        BY <1>0, <2>1, TailIs
      <4> HIDE DEF x
      <4>2. m # 1
        <5>1. ASSUME m = 1 PROVE FALSE
          <6>1. s = RemoveFile(n, {})
            BY <3>2, <3>4, <5>1 DEF s
          <6>2. s.from = n
            BY <6>1 DEF RemoveFile
          <6> QED BY <2>5, <2>6, <6>2
        <5> QED BY <5>1
      <4>3. m \in 1..Len(x) /\ Len(x) \in Nat
        BY <3>2, <3>4, <4>1 DEF x
      <4>4. PICK l \in 1..Len(x)-1 : l + 1 = m
        BY <4>2, <4>3
      <4>5. /\ Tail(x)[l] = x[m] /\ l \in 1..Len(Tail(x))
        BY <4>1, <4>4, TailIs
      <4>6. todo'[1][l] = RemoveFile(n, {}) /\ l \in 1..Len(todo'[1])
        BY <1>8, <2>1, <2>3, <3>2, <3>4, <4>5 DEF x
      <4>7. 1 \in 1..Len(todo')
        BY <2>1
      <4> QED BY <4>6, <4>7
    <3> QED BY <3>3, <3>4
  <2> HIDE DEF ToDrop
  <2> QED BY <1>2, <2>4, <2>5, <2>6
<1>9. CASE NextEntry
  <2>1. /\ pc = "clearing" /\ UNCHANGED <<fs, pc, result, stuck>>
        /\ todo[1] = <<>> /\ Len(todo') = Len(todo) - 1 /\ Len(todo) \in Nat \ {0}
        /\ \A j \in 1..Len(todo)-1 : todo'[j] = todo[j+1]
    BY <1>9, NextLeaves
  <2>2. ASSUME NEW n, ToDrop(n) PROVE ToDrop(n)'
    <3>1. PICK j \in 1..Len(todo) : \E m \in 1..Len(todo[j]) : todo[j][m] = RemoveFile(n, {})
      BY <2>2
    <3>2. j # 1
      <4>1. 1..Len(<<>>) = {}
        OBVIOUS
      <4>2. ASSUME j = 1 PROVE FALSE
        <5>1. 1..Len(todo[j]) = {}
          BY <2>1, <4>1, <4>2
        <5> QED BY <3>1, <5>1
      <4> QED BY <4>2
    <3>3. PICK l \in 1..Len(todo)-1 : l + 1 = j
      <4>1. Len(todo) \in Nat
        BY <2>1
      <4>2. j-1 \in 1..Len(todo)-1 /\ (j-1) + 1 = j
        BY <3>2, <4>1
      <4> QED BY <4>2
    <3>4. l \in 1..Len(todo') /\ todo'[l] = todo[j]
      BY <2>1, <3>3
    <3> QED BY <3>1, <3>4
  <2> HIDE DEF ToDrop
  <2> QED BY <2>1, <2>2
<1>10. CASE End
  <2>1. pc = "clearing" /\ pc' = "over" /\ UNCHANGED <<fs, todo, stuck>> /\ (result' = "ok" => result = "ok")
    BY <1>10 DEF End
  <2> QED BY <2>1
<1>11. CASE UNCHANGED vars
  <2>1. UNCHANGED <<fs, pc, at, result, stuck, todo, committed>>
    BY <1>11 DEF vars
  <2>2. Now' = Now
    BY <1>3, <2>1 DEF Now
  <2> QED BY <2>1, <2>2
<1>12. CASE StageChange \/ StageFails \/ UserEdits \/ Denied \/ BackUpFails \/ BackUpSourceFails \/ MoveFails
  <2>1. pc' # "committing" /\ (pc' \in {"clearing", "over"} => result' # "ok")
    BY <1>12 DEF StageChange, StageFails, UserEdits, Denied, BackUpFails, BackUpSourceFails, MoveFails, GiveUp
  <2> QED BY <2>1
<1> QED BY <1>4, <1>5, <1>6, <1>7, <1>8, <1>9, <1>10, <1>11, <1>12 DEF Next
-----------------------------------------------------------------------------
(* The files the patch does not name *)

LEMMA NamedIs ==
    ASSUME TypeOK
    PROVE  /\ Named \subseteq Paths
           /\ \A i \in 1..Len(changes) : /\ changes[i].path \in Named /\ Source(changes[i]) \in Named
                                         /\ Moves(changes[i]) => changes[i].old \in Named
           /\ Now.path \in Named /\ Source(Now) \in Named /\ (Moves(Now) => Now.old \in Named)
<1>1. DOMAIN changes = 1..Len(changes) /\ \A i \in 1..Len(changes) : changes[i] \in Change
  BY ChangesIs
<1>2. \A i \in 1..Len(changes) : /\ changes[i].path \in Paths /\ Source(changes[i]) \in Paths
                                 /\ Moves(changes[i]) => Source(changes[i]) = changes[i].old
  BY <1>1, ChangeIs
<1>3. Named \subseteq Paths
  BY <1>1, <1>2 DEF Named
<1>4. \A i \in 1..Len(changes) : changes[i].path \in Named /\ Source(changes[i]) \in Named
  BY <1>1 DEF Named
<1>5. at.change \in 1..Len(changes) /\ Now = changes[at.change]
  BY NowIs
<1> QED BY <1>2, <1>3, <1>4, <1>5

LEMMA NearOne ==
    ASSUME NEW s, {s.from, s.to} \cap Paths \subseteq Named
    PROVE  Near(<< s >>)
  BY DEF Near

LEMMA NearTwo ==
    ASSUME NEW s, {s.from, s.to} \cap Paths \subseteq Named,
           NEW t, {t.from, t.to} \cap Paths \subseteq Named
    PROVE  Near(<< s, t >>)
  BY DEF Near

LEMMA NearUndo ==
    ASSUME TypeOK, NEW i \in 1..Len(changes), NEW e \in Entry, Fits(changes[i], e)
    PROVE  Near(Undo(i, e))
<1> DEFINE c == changes[i]
           restore == RestoreFinal(i, {c.path})
           remove  == RemoveFile(c.path, {c.path})
           source  == RenameBack(OldBackup(i), c.old, {c.old}, 0)
           move(k) == RenameBack(c.path, c.old, {c.path, c.old}, k)
<1>1. c \in Change /\ i \in Indices
  BY ChangesIs
<1>2. /\ c.op \in {"create", "modify", "delete", "rename", "edit"}
      /\ c.path \in Named /\ (Moves(c) => c.old \in Named)
      /\ Backup(i) \notin Paths /\ OldBackup(i) \notin Paths
      /\ Moves(c) <=> c.op \in {"rename", "edit"}
  BY <1>1, ChangeIs, NamedIs, NamesDiffer DEF Moves
<1>3. /\ {restore.from, restore.to} \cap Paths \subseteq Named
      /\ {remove.from, remove.to} \cap Paths \subseteq Named
      /\ Moves(c) => /\ {source.from, source.to} \cap Paths \subseteq Named
                     /\ {move(0).from, move(0).to} \cap Paths \subseteq Named
                     /\ {move(1).from, move(1).to} \cap Paths \subseteq Named
  BY <1>2 DEF RestoreFinal, RenameBack, RemoveFile
<1>4. /\ c.op = "edit" => Undo(i, e) \in {<< restore, source >>, << remove, source >>}
      /\ c.op = "rename" => Undo(i, e) \in {<< move(1), restore >>, << move(0) >>}
      /\ c.op \in {"create", "modify", "delete"} => Undo(i, e) \in {<< restore >>, << remove >>}
  BY UndoIs DEF Entry
<1> HIDE DEF c, restore, remove, source, move
<1>5. Near(<< restore >>) /\ Near(<< remove >>)
  BY <1>3, NearOne
<1>6. Moves(c) => /\ Near(<< restore, source >>) /\ Near(<< remove, source >>)
                  /\ Near(<< move(1), restore >>) /\ Near(<< move(0) >>)
  BY <1>3, NearOne, NearTwo
<1> QED BY <1>2, <1>4, <1>5, <1>6

LEMMA NearOthers ==
    ASSUME TypeOK
    PROVE  /\ Near(<<>>) /\ Near(SelfRepair)
           /\ \A i \in 1..Len(changes) : Near(TempEntry(i))
           /\ \A n \in 0..Len(changes) : \A j \in 1..Len(TempsOf(n)) : Near(TempsOf(n)[j])
<1>1. Near(<<>>)
  BY DEF Near
<1>2. Near(SelfRepair)
  <2>1. {RestoreFinal(at.change, {Now.path}).from, RestoreFinal(at.change, {Now.path}).to} \cap Paths \subseteq Named
    <3>1. Backup(at.change) \notin Paths /\ changes[at.change].path \in Named
      BY NowIs, NamedIs, NamesDiffer
    <3> QED BY <3>1 DEF RestoreFinal, RenameBack
  <2> QED BY <1>1, <2>1, NearOne DEF SelfRepair
<1>3. ASSUME NEW i \in 1..Len(changes) PROVE Near(TempEntry(i))
  <2>1. Temp(i) \notin Paths
    BY ChangesIs, NamesDiffer
  <2>2. {RemoveFile(Temp(i), {Temp(i)}).from, RemoveFile(Temp(i), {Temp(i)}).to} \cap Paths \subseteq Named
    BY <2>1 DEF RemoveFile
  <2> QED BY <1>1, <2>2, NearOne DEF TempEntry
<1>4. ASSUME NEW n \in 0..Len(changes), NEW j \in 1..Len(TempsOf(n)) PROVE Near(TempsOf(n)[j])
  <2>1. j \in 1..n /\ TempsOf(n)[j] = TempEntry(j)
    BY TempsOfIs
  <2>2. j \in 1..Len(changes)
    BY <2>1, ChangesIs
  <2> QED BY <1>3, <2>1, <2>2
<1> QED BY <1>1, <1>2, <1>3, <1>4

LEMMA OthersStep == TypeOK /\ Shape /\ EntriesFit /\ OthersStay /\ [Next]_vars => OthersStay'
<1> SUFFICES ASSUME TypeOK, Shape, EntriesFit, OthersStay, [Next]_vars PROVE OthersStay'
  OBVIOUS
<1>0. /\ changes' = changes /\ Named' = Named /\ \A x : Near(x)' <=> Near(x)
  BY OfThem DEF Named, Near
<1>1. /\ fs \in [Names -> Contents] /\ before \in [Paths -> Contents] /\ todo \in Seq(Seq(Call)) /\ Len(todo) \in Nat
      /\ at.change \in Indices /\ Paths \subseteq Names
      /\ Temp(at.change) \notin Paths /\ Backup(at.change) \notin Paths /\ OldBackup(at.change) \notin Paths
      /\ \A p \in Paths \ Named : fs[p] = before[p]
      /\ \A j \in 1..Len(todo) : Near(todo[j])
      /\ Named \subseteq Paths
      /\ Now.path \in Named /\ Source(Now) \in Named /\ (Moves(Now) => Now.old \in Named)
  BY NowIs, NamedIs, NamesDiffer DEF TypeOK, OthersStay
<1>2. ASSUME NEW from, NEW to, {from, to} \cap Paths \subseteq Named
      PROVE  \A p \in Paths \ Named : /\ Renamed(fs, from, to)[p] = fs[p]
                                      /\ [fs EXCEPT ![from] = Absent][p] = fs[p]
  <2>1. \A p \in Paths \ Named : p # from /\ p # to /\ p \in Names
    BY <1>1, <1>2
  <2> QED BY <1>1, <2>1 DEF Renamed
<1>3. ASSUME \A p \in Paths \ Named : fs'[p] = fs[p] /\ before'[p] = before[p],
             \A j \in 1..Len(todo') : Near(todo'[j])
      PROVE  OthersStay'
  BY <1>0, <1>1, <1>3 DEF OthersStay
<1>4. \A n \in 0..Len(changes) : \A j \in 1..Len(TempsOf(n)) : Near(TempsOf(n)[j])
  BY NearOthers
<1>5. at.change - 1 \in 0..Len(changes) /\ Len(changes) \in 0..Len(changes)
  BY ChangesIs, NowIs
<1>6. CASE StageChange
  <2>1. fs' = fs \/ fs' = [fs EXCEPT ![Temp(at.change)] = <<"new", at.change>>]
    BY <1>6 DEF StageChange
  <2> QED BY <1>1, <1>3, <1>6, <2>1 DEF StageChange
<1>7. CASE StageFails
  BY <1>1, <1>3, <1>4, <1>5, <1>7 DEF StageFails, GiveUp
<1>8. CASE Denied
  BY <1>1, <1>3, <1>4, <1>5, <1>8 DEF Denied, GiveUp
<1>9. CASE UserEdits
  <2>1. PICK q \in Paths : \E content : fs' = [fs EXCEPT ![q] = content] /\ before' = [before EXCEPT ![q] = content]
    BY <1>9 DEF UserEdits
  <2>2. \A p \in Paths \ Named : fs'[p] = before'[p]
    BY <1>1, <2>1
  <2>3. todo' = todo
    BY <1>9 DEF UserEdits
  <2> QED BY <1>0, <1>1, <2>2, <2>3 DEF OthersStay
<1>10. CASE Allowed \/ UNCHANGED vars \/ End
  BY <1>1, <1>3, <1>10 DEF Allowed, vars, End
<1>11. CASE BackUp
  <2>1. fs' = fs \/ fs' = Renamed(fs, Now.path, Backup(at.change))
    BY <1>11 DEF BackUp
  <2>2. {Now.path, Backup(at.change)} \cap Paths \subseteq Named
    BY <1>1
  <2> QED BY <1>1, <1>2, <1>3, <1>11, <2>1, <2>2 DEF BackUp
<1>12. CASE BackUpSource
  <2>1. Moves(Now) /\ fs' = Renamed(fs, Now.old, OldBackup(at.change))
    BY <1>12 DEF BackUpSource, Shape, FitsNow, Moves
  <2>2. {Now.old, OldBackup(at.change)} \cap Paths \subseteq Named
    BY <1>1, <2>1
  <2> QED BY <1>1, <1>2, <1>3, <1>12, <2>1, <2>2 DEF BackUpSource
<1>13. CASE BackUpFails \/ BackUpSourceFails \/ MoveFails
  <2> DEFINE r == Rollback
             k == Len(committed)
             n == Len(changes)
             sr == << SelfRepair >> \o Rollback
  <2>1. pc = "committing" /\ todo' \in {r, sr} /\ before' = before
    BY <1>13 DEF BackUpFails, BackUpSourceFails, MoveFails, GiveUp
  <2>2. /\ k \in Nat /\ n \in Nat /\ Len(r) = k + n /\ Len(sr) = k + 1 + n
        /\ sr[1] = SelfRepair
        /\ \A i \in 1..k : r[k+1-i] = UndoEntry(i) /\ sr[k+1+1-i] = UndoEntry(i)
        /\ \A i \in 1..n : r[k+i] = TempEntry(i) /\ sr[k+1+i] = TempEntry(i)
    BY <2>1, RollbackStarts
  <2>3. \A i \in 1..k : Near(UndoEntry(i))
    <3> SUFFICES ASSUME NEW i \in 1..k PROVE Near(UndoEntry(i))
      OBVIOUS
    <3>1. committed[i] \in Entry /\ i \in 1..Len(changes) /\ Fits(changes[i], committed[i])
      <4>1. committed \in Seq(Entry) /\ Len(committed) <= Len(changes) /\ Len(changes) \in Nat
        BY ChangesIs DEF TypeOK
      <4>2. i \in 1..Len(committed)
        OBVIOUS
      <4>3. i \in 1..Len(changes)
        BY <4>1, <4>2
      <4> QED BY <4>1, <4>2, <4>3 DEF Shape
    <3> QED BY <3>1, NearUndo DEF UndoEntry
  <2>4. Near(SelfRepair) /\ \A i \in 1..n : Near(TempEntry(i))
    BY NearOthers
  <2> HIDE DEF r, k, n, sr
  <2>5. \A j \in 1..Len(r) : Near(r[j])
    <3> SUFFICES ASSUME NEW j \in 1..Len(r) PROVE Near(r[j])
      OBVIOUS
    <3>1. CASE j <= k
      <4>1. PICK i \in 1..k : k+1-i = j
        <5>1. k+1-j \in 1..k /\ k+1-(k+1-j) = j
          BY <2>2, <3>1
        <5> QED BY <5>1
      <4> QED BY <2>2, <2>3, <4>1
    <3>2. CASE j > k
      <4>1. PICK i \in 1..n : k+i = j
        <5>1. j-k \in 1..n /\ k+(j-k) = j
          BY <2>2, <3>2
        <5> QED BY <5>1
      <4> QED BY <2>2, <2>4, <4>1
    <3> QED BY <2>2, <3>1, <3>2
  <2>6. \A j \in 1..Len(sr) : Near(sr[j])
    <3> SUFFICES ASSUME NEW j \in 1..Len(sr) PROVE Near(sr[j])
      OBVIOUS
    <3>1. CASE j = 1
      BY <2>2, <2>4, <3>1
    <3>2. CASE j > 1 /\ j <= k+1
      <4>1. PICK i \in 1..k : k+1+1-i = j
        <5>1. k+1+1-j \in 1..k /\ k+1+1-(k+1+1-j) = j
          BY <2>2, <3>2
        <5> QED BY <5>1
      <4> QED BY <2>2, <2>3, <4>1
    <3>3. CASE j > k+1
      <4>1. PICK i \in 1..n : k+1+i = j
        <5>1. j-(k+1) \in 1..n /\ k+1+(j-(k+1)) = j
          BY <2>2, <3>3
        <5> QED BY <5>1
      <4> QED BY <2>2, <2>4, <4>1
    <3> QED BY <2>2, <3>1, <3>2, <3>3
  <2>7. \A p \in Paths \ Named : fs'[p] = fs[p]
    <3>1. CASE BackUpFails \/ BackUpSourceFails
      BY <3>1 DEF BackUpFails, BackUpSourceFails
    <3>2. CASE MoveFails
      <4>1. fs' = fs \/ (Moves(Now) /\ fs' = Renamed(fs, OldBackup(at.change), Now.old))
        BY <3>2 DEF MoveFails, Shape, FitsNow, Moves
      <4>2. Moves(Now) => {OldBackup(at.change), Now.old} \cap Paths \subseteq Named
        BY <1>1
      <4> QED BY <1>2, <4>1, <4>2
    <3> QED BY <1>13, <3>1, <3>2
  <2> QED BY <1>1, <1>3, <2>1, <2>5, <2>6, <2>7
<1>14. CASE Move
  <2>1. fs' = Renamed(fs, MovedFrom, MovedTo) /\ before' = before
    BY <1>14 DEF Move
  <2>2. {MovedFrom, MovedTo} \cap Paths \subseteq Named
    BY <1>1 DEF MovedFrom, MovedTo
  <2>3. CASE at.change < Len(changes)
    BY <1>1, <1>2, <1>3, <1>14, <2>1, <2>2, <2>3 DEF Move
  <2>4. CASE ~(at.change < Len(changes))
    <3>1. todo' = Cleanup(committed')
      BY <1>14, <2>4 DEF Move, GiveUp
    <3>2. committed' \in Seq(Entry) /\ Len(committed') <= Len(changes)
      <4>1. TypeOK'
        BY <1>14, TypeStep DEF Next
      <4> QED BY <1>0, <4>1 DEF TypeOK
    <3>3. ASSUME NEW j \in 1..Len(todo') PROVE Near(todo'[j])
      <4>1. j \in 1..Len(committed') /\ j \in Indices
        <5>1. j \in 1..Len(committed')
          BY <3>1, <3>2, CleanupIs
        <5>2. j \in 1..Len(changes)
          BY <3>2, <5>1, ChangesIs
        <5> QED BY <5>1, <5>2, ChangesIs
      <4>2. \A m \in 1..Len(todo'[j]) : todo'[j][m] \in {RemoveFile(Backup(j), {}), RemoveFile(OldBackup(j), {})}
        BY <3>1, <3>2, <4>1, CleanupIs
      <4>3. Backup(j) \notin Paths /\ OldBackup(j) \notin Paths
        BY <4>1, NamesDiffer
      <4>4. \A x \in {RemoveFile(Backup(j), {}), RemoveFile(OldBackup(j), {})} : {x.from, x.to} \cap Paths \subseteq Named
        BY <4>3 DEF RemoveFile
      <4> QED BY <4>2, <4>4 DEF Near
    <3> QED BY <1>1, <1>2, <1>3, <2>1, <2>2, <3>3
  <2> QED BY <2>3, <2>4
<1>15. CASE CallWorks \/ CallFails
  <2> DEFINE s == todo[1][1]
  <2>1. /\ UNCHANGED before /\ todo # <<>> /\ todo[1] # <<>> /\ Len(todo') = Len(todo) /\ Len(todo) \in Nat \ {0}
        /\ todo'[1] \in {Tail(todo[1]), <<>>} /\ \A j \in 2..Len(todo) : todo'[j] = todo[j]
    BY <1>15, CallLeaves
  <2>2. CallWorks => fs' = IF s.call = "rename" THEN Renamed(fs, s.from, s.to) ELSE [fs EXCEPT ![s.from] = Absent]
    BY <1>15, CallDoes
  <2>3. CallFails => fs' = fs
    BY <1>15, CallDoes
  <2> DEFINE x == todo[1]
  <2>4. x \in Seq(Call) /\ x # <<>> /\ 1 \in 1..Len(todo)
    BY <1>1, <2>1, TailIs
  <2>5. Near(x)
    BY <1>1, <2>4
  <2>6. s = x[1]
    OBVIOUS
  <2> HIDE DEF x, s
  <2>7. /\ Len(x) \in Nat \ {0} /\ Len(Tail(x)) = Len(x) - 1 /\ \A m \in 1..Len(x)-1 : Tail(x)[m] = x[m+1]
    BY <2>4, TailIs
  <2>8. {s.from, s.to} \cap Paths \subseteq Named
    <3>1. 1 \in 1..Len(x)
      BY <2>7
    <3> QED BY <2>5, <2>6, <3>1 DEF Near
  <2>9. Near(Tail(x))
    <3>1. \A m \in 1..Len(Tail(x)) : m+1 \in 1..Len(x) /\ Tail(x)[m] = x[m+1]
      BY <2>7
    <3>2. \A l \in 1..Len(x) : {x[l].from, x[l].to} \cap Paths \subseteq Named
      BY <2>5 DEF Near
    <3>3. \A m \in 1..Len(Tail(x)) : {Tail(x)[m].from, Tail(x)[m].to} \cap Paths \subseteq Named
      BY <3>1, <3>2
    <3> QED BY <3>3 DEF Near
  <2>10. \A p \in Paths \ Named : fs'[p] = fs[p]
    <3>1. \A p \in Paths \ Named : /\ Renamed(fs, s.from, s.to)[p] = fs[p]
                                    /\ [fs EXCEPT ![s.from] = Absent][p] = fs[p]
      BY <1>2, <2>8
    <3>2. CASE CallWorks
      BY <2>2, <3>1, <3>2
    <3>3. CASE CallFails
      BY <2>3, <3>3
    <3> QED BY <1>15, <3>2, <3>3
  <2>11. \A j \in 1..Len(todo) : j = 1 \/ j \in 2..Len(todo)
    BY <2>1
  <2>12. Near(<<>>)
    BY NearOthers
  <2>13. \A j \in 1..Len(todo') : Near(todo'[j])
    BY <1>1, <2>1, <2>9, <2>11, <2>12 DEF x
  <2> QED BY <1>3, <2>1, <2>10, <2>13
<1>16. CASE NextEntry
  <2>1. /\ UNCHANGED <<fs, before>> /\ Len(todo') = Len(todo) - 1 /\ Len(todo) \in Nat \ {0}
        /\ \A j \in 1..Len(todo)-1 : todo'[j] = todo[j+1]
    BY <1>16, NextLeaves
  <2>2. \A j \in 1..Len(todo') : j \in 1..Len(todo)-1 /\ j+1 \in 1..Len(todo)
    BY <2>1
  <2> QED BY <1>1, <1>3, <2>1, <2>2
<1> QED BY <1>6, <1>7, <1>8, <1>9, <1>10, <1>11, <1>12, <1>13, <1>14, <1>15, <1>16 DEF Next
-----------------------------------------------------------------------------
(* What the calls left lead to *)

LEMMA StatesEqual ==
    ASSUME NEW g \in States, NEW h \in States, \A n \in Held : g[n] = h[n]
    PROVE  g = h
  BY DEF States

LEMMA StateMoves ==
    ASSUME TypeOK, NEW from \in Names, NEW to \in Held, from # to
    PROVE  /\ State(Renamed(fs, from, to)) \in States
           /\ State(Renamed(fs, from, to))[to] = fs[from]
           /\ from \in Held => State(Renamed(fs, from, to))[from] = Absent
           /\ \A n \in Held \ {from, to} : State(Renamed(fs, from, to))[n] = fs[n]
<1>1. fs \in [Names -> Contents] /\ Held \subseteq Names
  BY NamesDiffer DEF TypeOK
<1>2. /\ Renamed(fs, from, to) \in [Names -> Contents]
      /\ Renamed(fs, from, to)[to] = fs[from] /\ Renamed(fs, from, to)[from] = Absent
      /\ \A n \in Names \ {from, to} : Renamed(fs, from, to)[n] = fs[n]
  BY <1>1, RenamedIs
<1> DEFINE f == Renamed(fs, from, to)
<1> HIDE DEF f
<1>3. State(f) \in States /\ \A n \in Held : State(f)[n] = f[n]
  BY <1>1, <1>2 DEF State, States, f
<1> QED BY <1>1, <1>2, <1>3 DEF f

LEMMA AfterMove ==
    ASSUME NEW g \in States, NEW from \in Held, NEW to \in Held, from # to, g[from] # Absent, NEW names, NEW k
    PROVE  LET h == After(g, RenameBack(from, to, names, k)) IN
           /\ h \in States /\ h[to] = g[from] /\ h[from] = Absent
           /\ \A n \in Held \ {from, to} : h[n] = g[n]
<1> DEFINE s == RenameBack(from, to, names, k)
<1>1. s.call = "rename" /\ s.from = from /\ s.to = to
  BY DEF RenameBack
<1> HIDE DEF s
<1>2. After(g, s) = Renamed(g, from, to)
  BY <1>1 DEF After
<1>3. Renamed(g, from, to) \in States
  BY ContentsDiffer DEF Renamed, States
<1>4. /\ Renamed(g, from, to)[to] = g[from] /\ Renamed(g, from, to)[from] = Absent
      /\ \A n \in Held \ {from, to} : Renamed(g, from, to)[n] = g[n]
  BY DEF Renamed, States
<1> QED BY <1>2, <1>3, <1>4 DEF s

LEMMA AfterRemove ==
    ASSUME NEW g \in States, NEW n, NEW names
    PROVE  LET h == After(g, RemoveFile(n, names)) IN
           /\ h \in States
           /\ n \in Held => h[n] = Absent
           /\ n \notin Held => h = g
           /\ \A m \in Held \ {n} : h[m] = g[m]
<1> DEFINE s == RemoveFile(n, names)
<1>1. s.call = "remove" /\ s.from = n
  BY DEF RemoveFile
<1> HIDE DEF s
<1>2. After(g, s) = IF n \notin Held \/ g[n] = Absent THEN g ELSE [g EXCEPT ![n] = Absent]
  BY <1>1 DEF After
<1>3. n \in Held => [g EXCEPT ![n] = Absent] \in States
  BY ContentsDiffer DEF States
<1>4. n \in Held => /\ [g EXCEPT ![n] = Absent][n] = Absent
                    /\ \A m \in Held \ {n} : [g EXCEPT ![n] = Absent][m] = g[m]
  BY DEF States
<1> QED BY <1>2, <1>3, <1>4 DEF s

LEMMA AfterPair ==
    ASSUME NEW g, NEW s, NEW t
    PROVE  AfterAll(g, << s, t >>) = After(After(g, s), t)
<1> DEFINE b == << s, t >>
<1>1. b # <<>> /\ Len(b) = 2 /\ b[1] = s /\ b[2] = t /\ 2 # 1
  OBVIOUS
<1> HIDE DEF b
<1>2. AfterAll(g, b) = After(After(g, s), t)
  BY <1>1 DEF AfterAll
<1> QED BY <1>2 DEF b

LEMMA AfterTwo ==
    ASSUME NEW g, NEW s, NEW t
    PROVE  /\ AfterAll(g, <<>>) = g
           /\ AfterAll(g, << s >>) = After(g, s)
           /\ AfterAll(g, << s, t >>) = After(After(g, s), t)
           /\ Works(g, <<>>)
           /\ s.skips = 0 => Works(g, << s >>) /\ Works(g, << s, t >>)
           /\ s.from \in Held /\ g[s.from] # Absent => Works(g, << s >>) /\ Works(g, << s, t >>)
<1>1. << s >> # <<>> /\ Len(<< s >>) = 1 /\ << s >>[1] = s
  OBVIOUS
<1>2. << s, t >> # <<>> /\ Len(<< s, t >>) = 2 /\ << s, t >>[1] = s /\ << s, t >>[2] = t
  OBVIOUS
<1>3. 2 # 1 /\ ~(0 > 0)
  OBVIOUS
<1>4. AfterAll(g, <<>>) = g /\ Works(g, <<>>)
  BY DEF AfterAll, Works
<1> DEFINE a == << s >>
           b == << s, t >>
<1> HIDE DEF a, b
<1>5. AfterAll(g, a) = After(g, s)
  BY <1>1 DEF AfterAll, a
<1>6. AfterAll(g, b) = After(After(g, s), t)
  BY <1>2, <1>3 DEF AfterAll, b
<1>7. /\ s.skips = 0 => Works(g, a) /\ Works(g, b)
      /\ s.from \in Held /\ g[s.from] # Absent => Works(g, a) /\ Works(g, b)
  BY <1>1, <1>2, <1>3 DEF Works, a, b
<1> QED BY <1>4, <1>5, <1>6, <1>7 DEF a, b

\* The removal of temp files changes nothing of what is held.
LEMMA UndoesTemps ==
    ASSUME TypeOK, NEW n \in 0..Len(changes), NEW g \in States
    PROVE  Undoes(g, TempsOf(n), g)
<1>1. n \in Nat /\ 1..n \subseteq 1..Len(changes)
  BY ChangesIs
<1> DEFINE t == TempsOf(n)
           h == [j \in 0..n |-> g]
<1>2. Len(t) = n /\ \A j \in 1..n : t[j] = TempEntry(j)
  BY TempsOfIs
<1> HIDE DEF t
<1>3. ASSUME NEW j \in 1..n
      PROVE  Works(g, TempEntry(j)) /\ AfterAll(g, TempEntry(j)) = g
  <2> DEFINE s == RemoveFile(Temp(j), {Temp(j)})
  <2>1. Temp(j) \notin Held /\ s.skips = 0
    <3>1. j \in Indices
      BY <1>1, ChangesIs
    <3> QED BY <3>1, NamesDiffer DEF RemoveFile
  <2>2. After(g, s) = g
    BY <2>1, AfterRemove
  <2>3. TempEntry(j) \in {<< s >>, <<>>}
    BY DEF TempEntry
  <2> HIDE DEF s
  <2> QED BY <2>1, <2>2, <2>3, AfterTwo
<1>4. h \in [0..n -> States] /\ h[0] = g /\ h[n] = g /\ \A j \in 1..n : h[j-1] = g /\ h[j] = g
  BY <1>1
<1> HIDE DEF h
<1> QED BY <1>2, <1>3, <1>4 DEF Undoes, t

LEMMA PutBackIs ==
    ASSUME NEW i, NEW e, NEW g
    PROVE  /\ e.hadOriginal /\ e.oldBackup => AfterAll(g, PutBackFor(i, e)) = After(After(g, SourceBack(i)), FinalBack(i))
           /\ ~e.hadOriginal /\ e.oldBackup => AfterAll(g, PutBackFor(i, e)) = After(g, SourceBack(i))
           /\ e.hadOriginal /\ ~e.oldBackup => AfterAll(g, PutBackFor(i, e)) = After(g, FinalBack(i))
           /\ ~e.hadOriginal /\ ~e.oldBackup => AfterAll(g, PutBackFor(i, e)) = g
<1> DEFINE put == PutBackFor(i, e)
           source == SourceBack(i)
           restore == FinalBack(i)
<1>1. put = (IF e.oldBackup THEN << source >> ELSE <<>>) \o (IF e.hadOriginal THEN << restore >> ELSE <<>>)
  BY DEF PutBackFor
<1> HIDE DEF put, source, restore
<1>2. /\ << source >> \o << restore >> = << source, restore >> /\ << source >> \o <<>> = << source >>
      /\ <<>> \o << restore >> = << restore >> /\ <<>> \o <<>> = <<>>
  <2>1. source \in {source, restore} /\ restore \in {source, restore}
    OBVIOUS
  <2> QED BY <2>1, PairIs
<1>3. AfterAll(g, << source, restore >>) = After(After(g, source), restore)
  BY AfterPair
<1>4. AfterAll(g, << source >>) = After(g, source)
  BY AfterTwo
<1>5. AfterAll(g, << restore >>) = After(g, restore)
  BY AfterTwo
<1>6. AfterAll(g, <<>>) = g
  BY AfterTwo
<1>7. /\ e.hadOriginal /\ e.oldBackup => put = << source, restore >>
      /\ ~e.hadOriginal /\ e.oldBackup => put = << source >>
      /\ e.hadOriginal /\ ~e.oldBackup => put = << restore >>
      /\ ~e.hadOriginal /\ ~e.oldBackup => put = <<>>
  BY <1>1, <1>2
<1> QED BY <1>3, <1>4, <1>5, <1>6, <1>7 DEF put, source, restore

LEMMA PutBackNow ==
    ASSUME TypeOK, NEW g, NEW source, source = SourceBack(at.change), NEW restore, restore = FinalBack(at.change)
    PROVE  /\ at.entry.hadOriginal /\ at.entry.oldBackup => AfterAll(g, PutBack) = After(After(g, source), restore)
           /\ ~at.entry.hadOriginal /\ at.entry.oldBackup => AfterAll(g, PutBack) = After(g, source)
           /\ at.entry.hadOriginal /\ ~at.entry.oldBackup => AfterAll(g, PutBack) = After(g, restore)
           /\ ~at.entry.hadOriginal /\ ~at.entry.oldBackup => AfterAll(g, PutBack) = g
           /\ at.entry = NoEntry => AfterAll(g, PutBack) = g
<1>1. at.entry = NoEntry => ~at.entry.hadOriginal /\ ~at.entry.oldBackup
  BY DEF NoEntry
<1>2. PutBack = PutBackFor(at.change, at.entry)
  BY DEF PutBack
<1> DEFINE i == at.change
           e == at.entry
<1> HIDE DEF i, e
<1>4. /\ e.hadOriginal /\ e.oldBackup => AfterAll(g, PutBackFor(i, e)) = After(After(g, SourceBack(i)), FinalBack(i))
      /\ ~e.hadOriginal /\ e.oldBackup => AfterAll(g, PutBackFor(i, e)) = After(g, SourceBack(i))
      /\ e.hadOriginal /\ ~e.oldBackup => AfterAll(g, PutBackFor(i, e)) = After(g, FinalBack(i))
      /\ ~e.hadOriginal /\ ~e.oldBackup => AfterAll(g, PutBackFor(i, e)) = g
  BY PutBackIs
<1> QED BY <1>1, <1>2, <1>4 DEF i, e

LEMMA SelfRepairDoes ==
    ASSUME NEW g
    PROVE  AfterAll(g, SelfRepair) = IF at.entry.hadOriginal THEN After(g, FinalBack(at.change)) ELSE g
<1> DEFINE restore == FinalBack(at.change)
<1>1. SelfRepair = IF at.entry.hadOriginal THEN << restore >> ELSE <<>>
  BY DEF SelfRepair, FinalBack, Now
<1> HIDE DEF restore
<1>2. AfterAll(g, << restore >>) = After(g, restore) /\ AfterAll(g, <<>>) = g
  BY AfterTwo
<1> QED BY <1>1, <1>2 DEF restore

\* A rollback with nothing committed, and with one more entry.
LEMMA RollbackNone ==
    ASSUME TypeOK, committed = <<>>
    PROVE  Rollback = TempsOf(Len(changes))
<1>1. Len(committed) = 0 /\ 1..Len(committed) = {}
  OBVIOUS
<1>2. /\ Rollback \in Seq(Seq(Call)) /\ Len(Rollback) = 0 + Len(changes) /\ Len(changes) \in Nat
      /\ \A j \in 0+1..0+Len(changes) : Rollback[j] = TempEntry(j-0)
  BY <1>1, RollbackIs
<1>3. Len(changes) \in 0..Len(changes)
  BY <1>2
<1>4. /\ TempsOf(Len(changes)) \in Seq(Seq(Call)) /\ Len(TempsOf(Len(changes))) = Len(changes)
      /\ \A j \in 1..Len(changes) : TempsOf(Len(changes))[j] = TempEntry(j)
  BY <1>3, TempsOfIs
<1> DEFINE r == Rollback
           t == TempsOf(Len(changes))
           n == Len(changes)
<1> HIDE DEF r, t, n
<1>5. \A j \in 1..n : j \in 0+1..0+n /\ j-0 = j
  BY <1>2 DEF n
<1>6. r \in Seq(Seq(Call)) /\ t \in Seq(Seq(Call)) /\ Len(r) = Len(t) /\ \A j \in 1..Len(r) : r[j] = t[j]
  BY <1>2, <1>4, <1>5 DEF r, t, n
<1>7. r = t
  BY <1>6, SeqEqual
<1> QED BY <1>7 DEF r, t

LEMMA RollbackGrows ==
    ASSUME TypeOK, Shape, pc = "committing", NEW e \in Entry, Fits(Now, e),
           changes' = changes, committed' = Append(committed, e)
    PROVE  Rollback' = << Undo(at.change, e) >> \o Rollback
<1> DEFINE k == Len(committed)
           x == Undo(at.change, e)
           U == [j \in 1..k |-> UndoEntry(j)]
           V == [j \in 1..k+1 |-> IF j <= k THEN UndoEntry(j) ELSE x]
           T == TempsOf(Len(changes))
<1>1. /\ k \in Nat /\ committed \in Seq(Entry) /\ at.change = k+1 /\ at.change \in 1..Len(changes)
      /\ Len(changes) \in Nat /\ Now = changes[at.change]
  BY NowIs, ChangesIs DEF TypeOK, Shape
<1>2. x \in Seq(Call)
  BY <1>1, UndoFits
<1>3. \A j \in 1..k : UndoEntry(j) \in Seq(Call)
  <2> SUFFICES ASSUME NEW j \in 1..k PROVE UndoEntry(j) \in Seq(Call)
    OBVIOUS
  <2>1. j \in 1..Len(changes) /\ committed[j] \in Entry /\ Fits(changes[j], committed[j])
    <3>1. j \in 1..Len(changes) /\ committed[j] \in Entry
      BY <1>1
    <3> QED BY <3>1 DEF Shape
  <2> QED BY <2>1, UndoFits DEF UndoEntry
<1>4. T \in Seq(Seq(Call))
  <2>1. Len(changes) \in 0..Len(changes)
    BY <1>1
  <2> QED BY <2>1, TempsOfIs
<1>5. Rollback = Reverse(U) \o T
  BY DEF Rollback, UndoEntry
<1>6. Rollback' = Reverse(U') \o T
  <2>1. TempsOf(Len(changes))' = TempsOf(Len(changes))
    BY DEF TempsOf
  <2>2. Rollback' = Reverse(U') \o TempsOf(Len(changes))'
    BY DEF Rollback, UndoEntry
  <2> QED BY <2>1, <2>2
<1>7. U' = V
  <2>1. /\ Len(committed') = k+1 /\ committed'[k+1] = e
        /\ \A j \in 1..k : committed'[j] = committed[j]
    BY <1>1, AppendIs
  <2>4. U' = [j \in 1..Len(committed') |-> UndoEntry(j)']
    OBVIOUS
  <2>5. \A j \in 1..k+1 : UndoEntry(j)' = IF j <= k THEN UndoEntry(j) ELSE x
    <3> SUFFICES ASSUME NEW j \in 1..k+1 PROVE UndoEntry(j)' = IF j <= k THEN UndoEntry(j) ELSE x
      OBVIOUS
    <3>1. CASE j <= k
      <4>1. j \in 1..k
        BY <1>1, <3>1
      <4>2. committed'[j] = committed[j]
        BY <2>1, <4>1
      <4>3. UndoEntry(j)' = UndoEntry(j)
        BY <4>2 DEF UndoEntry, Undo, RestoreFinal
      <4> QED BY <3>1, <4>3
    <3>2. CASE ~(j <= k)
      <4>1. j = k+1 /\ j = at.change
        BY <1>1, <3>2
      <4>2. committed'[j] = e
        BY <2>1, <4>1
      <4>3. UndoEntry(j)' = Undo(j, e)
        BY <4>2 DEF UndoEntry, Undo, RestoreFinal
      <4> QED BY <3>2, <4>1, <4>3
    <3> QED BY <3>1, <3>2
  <2> HIDE DEF k
  <2> QED BY <2>1, <2>4, <2>5
<1> HIDE DEF k, x, T
<1>8. /\ V \in Seq(Seq(Call)) /\ Len(V) = k+1 /\ V[k+1] = x
      /\ \A j \in 1..k : V[j] = UndoEntry(j)
  BY <1>1, <1>2, <1>3
<1>9. U \in Seq(Seq(Call)) /\ Len(U) = k /\ \A j \in 1..k : U[j] = UndoEntry(j)
  BY <1>1, <1>3
<1> HIDE DEF U, V
<1>10. Reverse(U) = [j \in 1..k |-> U[(k - j) + 1]] /\ Reverse(V) = [j \in 1..k+1 |-> V[((k+1) - j) + 1]]
  <2>1. \A s : Len(s) = k => Reverse(s) = [j \in 1..k |-> s[(k - j) + 1]]
    BY DEF Reverse
  <2>2. \A s : Len(s) = k+1 => Reverse(s) = [j \in 1..k+1 |-> s[((k+1) - j) + 1]]
    BY DEF Reverse
  <2>3. Reverse(U) = [j \in 1..k |-> U[(k - j) + 1]]
    BY <1>9, <2>1, Zenon
  <2>4. Reverse(V) = [j \in 1..k+1 |-> V[((k+1) - j) + 1]]
    BY <1>8, <2>2, Zenon
  <2> QED BY <2>3, <2>4, Zenon
<1>11. Reverse(V) = << x >> \o Reverse(U) /\ Reverse(U) \in Seq(Seq(Call))
  <2> DEFINE A == [j \in 1..k |-> U[(k - j) + 1]]
             B == [j \in 1..k+1 |-> V[((k+1) - j) + 1]]
  <2>1. \A j \in 1..k : (k - j) + 1 \in 1..k
    BY <1>1
  <2>2. \A j \in 1..k+1 : ((k+1) - j) + 1 \in 1..k+1
    BY <1>1
  <2>3. \A j \in 1..k : U[(k - j) + 1] \in Seq(Call)
    BY <1>9, <2>1
  <2>4. \A j \in 1..k+1 : V[((k+1) - j) + 1] \in Seq(Call)
    BY <1>8, <2>2
  <2>5. A \in Seq(Seq(Call)) /\ Len(A) = k
    BY <1>1, <2>3
  <2>6. B \in Seq(Seq(Call)) /\ Len(B) = k+1
    BY <1>1, <2>4
  <2>7. \A j \in 1..k : A[j] = U[(k - j) + 1]
    OBVIOUS
  <2>8. \A j \in 1..k+1 : B[j] = V[((k+1) - j) + 1]
    OBVIOUS
  <2> DEFINE C == << x >> \o A
  <2> HIDE DEF A, B
  <2>9. /\ C \in Seq(Seq(Call)) /\ Len(C) = k+1 /\ C[1] = x /\ \A j \in 1..k : C[j+1] = A[j]
    BY <1>2, <2>5, ConsIs
  <2> HIDE DEF C
  <2>10. \A j \in 1..k+1 : B[j] = C[j]
    <3> SUFFICES ASSUME NEW j \in 1..k+1 PROVE B[j] = C[j]
      OBVIOUS
    <3>1. CASE j = 1
      <4>1. ((k+1) - j) + 1 = k+1
        BY <1>1, <3>1
      <4> QED BY <1>8, <2>8, <2>9, <3>1, <4>1
    <3>2. CASE j # 1
      <4>1. PICK m \in 1..k : m + 1 = j /\ (k - m) + 1 = ((k+1) - j) + 1 /\ (k - m) + 1 \in 1..k
        <5>1. j-1 \in 1..k /\ (j-1)+1 = j /\ (k-(j-1)) + 1 = ((k+1) - j) + 1 /\ (k-(j-1)) + 1 \in 1..k
          BY <1>1, <3>2
        <5> QED BY <5>1
      <4>2. C[j] = A[m] /\ A[m] = U[(k - m) + 1]
        BY <2>7, <2>9, <4>1
      <4>3. U[(k - m) + 1] = UndoEntry((k - m) + 1) /\ V[(k - m) + 1] = UndoEntry((k - m) + 1)
        BY <1>8, <1>9, <4>1
      <4> QED BY <2>8, <4>1, <4>2, <4>3
    <3> QED BY <3>1, <3>2
  <2>11. B = C
    BY <2>6, <2>9, <2>10, SeqEqual
  <2> QED BY <1>10, <2>5, <2>11 DEF A, B, C
<1>12. (<< x >> \o Reverse(U)) \o T = << x >> \o (Reverse(U) \o T)
  <2>1. << x >> \in Seq(Seq(Call))
    BY <1>2
  <2> QED BY <1>4, <1>11, <2>1, ConcatAssociative
<1> QED BY <1>5, <1>6, <1>7, <1>11, <1>12 DEF x

\* A rename of the program and the call that takes it back.
LEMMA MovesState ==
    ASSUME TypeOK, NEW from \in Held, NEW to \in Held, Exists(from), NEW names, NEW k
    PROVE  After(State(fs), RenameBack(from, to, names, k)) = State(Renamed(fs, from, to))
<1> DEFINE s == RenameBack(from, to, names, k)
           g == State(fs)
<1>1. s.call = "rename" /\ s.from = from /\ s.to = to
  BY DEF RenameBack
<1>2. g[from] # Absent
  BY DEF State, Exists
<1> HIDE DEF s
<1>3. After(g, s) = Renamed(g, from, to)
  BY <1>1, <1>2 DEF After
<1>4. fs \in [Names -> Contents] /\ Held \subseteq Names
  BY NamesDiffer DEF TypeOK
<1>5. Renamed(g, from, to) = State(Renamed(fs, from, to))
  BY <1>4 DEF Renamed, State
<1> QED BY <1>3, <1>5 DEF s

LEMMA MovesBack ==
    ASSUME TypeOK, NEW from \in Held, NEW to \in Held, from # to, Exists(from), ~Exists(to), NEW names, NEW k
    PROVE  After(State(Renamed(fs, from, to)), RenameBack(to, from, names, k)) = State(fs)
<1> DEFINE g == State(fs)
           h == State(Renamed(fs, from, to))
           b == After(h, RenameBack(to, from, names, k))
<1>1. g \in States /\ \A n \in Held : g[n] = fs[n]
  BY StateIs DEF State
<1>2. h \in States /\ h[to] = fs[from] /\ h[from] = Absent /\ \A n \in Held \ {from, to} : h[n] = fs[n]
  BY StateMoves, NamesDiffer
<1>3. fs[from] # Absent /\ fs[to] = Absent
  BY DEF Exists
<1> HIDE DEF g, h
<1>4. b \in States /\ b[from] = h[to] /\ b[to] = Absent /\ \A n \in Held \ {to, from} : b[n] = h[n]
  BY <1>2, <1>3, AfterMove
<1> HIDE DEF b
<1>5. \A n \in Held : b[n] = g[n]
  BY <1>1, <1>2, <1>3, <1>4
<1> QED BY <1>1, <1>4, <1>5, StatesEqual DEF b, g, h

\* Two renames of different files may be done in either order.
LEMMA MovesCommute ==
    ASSUME NEW g \in States, NEW b \in Held, NEW p \in Held, NEW o \in Held, NEW q \in Held,
           b # p, o # q, b # o, b # q, p # o, p # q, g[b] # Absent, g[o] # Absent,
           NEW m, NEW k, NEW n, NEW l
    PROVE  After(After(g, RenameBack(b, p, m, k)), RenameBack(o, q, n, l))
             = After(After(g, RenameBack(o, q, n, l)), RenameBack(b, p, m, k))
<1> DEFINE g1 == After(g, RenameBack(b, p, m, k))
           g2 == After(g1, RenameBack(o, q, n, l))
           h1 == After(g, RenameBack(o, q, n, l))
           h2 == After(h1, RenameBack(b, p, m, k))
<1>1. g1 \in States /\ g1[p] = g[b] /\ g1[b] = Absent /\ \A x \in Held \ {b, p} : g1[x] = g[x]
  BY AfterMove
<1>2. h1 \in States /\ h1[q] = g[o] /\ h1[o] = Absent /\ \A x \in Held \ {o, q} : h1[x] = g[x]
  BY AfterMove
<1>3. g1[o] # Absent /\ h1[b] # Absent
  BY <1>1, <1>2
<1> HIDE DEF g1, h1
<1>4. g2 \in States /\ g2[q] = g1[o] /\ g2[o] = Absent /\ \A x \in Held \ {o, q} : g2[x] = g1[x]
  BY <1>1, <1>3, AfterMove
<1>5. h2 \in States /\ h2[p] = h1[b] /\ h2[b] = Absent /\ \A x \in Held \ {b, p} : h2[x] = h1[x]
  BY <1>2, <1>3, AfterMove
<1> HIDE DEF g2, h2
<1>6. \A x \in Held : g2[x] = h2[x]
  BY <1>1, <1>2, <1>4, <1>5
<1>7. g2 = h2
  BY <1>4, <1>5, <1>6, StatesEqual
<1> QED BY <1>7 DEF g1, g2, h1, h2

\* What a file held before it is replaced does not matter.
LEMMA MovesOver ==
    ASSUME NEW g \in States, NEW h \in States, NEW b \in Held, NEW p \in Held, b # p, g[b] # Absent,
           \A n \in Held \ {p} : h[n] = g[n], NEW m, NEW k
    PROVE  After(h, RenameBack(b, p, m, k)) = After(g, RenameBack(b, p, m, k))
<1> DEFINE g1 == After(g, RenameBack(b, p, m, k))
           h1 == After(h, RenameBack(b, p, m, k))
<1>1. g1 \in States /\ g1[p] = g[b] /\ g1[b] = Absent /\ \A x \in Held \ {b, p} : g1[x] = g[x]
  BY AfterMove
<1>2. h1 \in States /\ h1[p] = h[b] /\ h1[b] = Absent /\ \A x \in Held \ {b, p} : h1[x] = h[x]
  BY AfterMove
<1> HIDE DEF g1, h1
<1>3. \A x \in Held : g1[x] = h1[x]
  BY <1>1, <1>2
<1> QED BY <1>1, <1>2, <1>3, StatesEqual DEF g1, h1

LEMMA RemovesNew ==
    ASSUME NEW g \in States, NEW h \in States, NEW p \in Held, g[p] = Absent,
           \A n \in Held \ {p} : h[n] = g[n], NEW m
    PROVE  After(h, RemoveFile(p, m)) = g
<1> DEFINE h1 == After(h, RemoveFile(p, m))
<1>1. h1 \in States /\ h1[p] = Absent /\ \A x \in Held \ {p} : h1[x] = h[x]
  BY AfterRemove
<1> HIDE DEF h1
<1>2. \A x \in Held : h1[x] = g[x]
  BY <1>1
<1> QED BY <1>1, <1>2, StatesEqual DEF h1

LEMMA EarlyUndo ==
    ASSUME TypeOK, Shape, Undoable, StageChange \/ StageFails \/ UserEdits \/ Allowed \/ Denied
    PROVE  Undoable'
<1>1. /\ fs \in [Names -> Contents] /\ before \in [Paths -> Contents] /\ Paths \subseteq Held /\ Held \subseteq Names
      /\ at.change \in Indices /\ Temp(at.change) \notin Held
  BY NowIs, NamesDiffer DEF TypeOK
<1>2. Early /\ State(fs) = Clean /\ committed = <<>> /\ at.entry = NoEntry
  <2>1. Early
    BY DEF StageChange, StageFails, UserEdits, Allowed, Denied, Early
  <2> QED BY <2>1 DEF Shape, Undoable
<1>3. State(fs) \in States
  BY StateIs
<1>4. CASE StageChange
  <2>1. pc' \in {"staging", "asking"} /\ UNCHANGED before
    BY <1>4 DEF StageChange
  <2>2. fs' = fs \/ fs' = [fs EXCEPT ![Temp(at.change)] = <<"new", at.change>>]
    BY <1>4 DEF StageChange
  <2>3. \A n \in Held : fs'[n] = fs[n]
    BY <1>1, <2>2
  <2>4. State(fs') = State(fs)
    BY <2>3 DEF State
  <2>5. Clean' = Clean
    BY <2>1 DEF Clean
  <2>6. State(fs)' = Clean'
    BY <1>2, <2>4, <2>5
  <2> QED BY <2>1, <2>6 DEF Undoable, Early
<1>5. CASE UserEdits
  <2>1. pc' \in {"staging", "asking"}
    BY <1>5 DEF UserEdits
  <2>2. PICK p \in Paths : \E content : fs' = [fs EXCEPT ![p] = content] /\ before' = [before EXCEPT ![p] = content]
    BY <1>5 DEF UserEdits
  <2>3. \A n \in Held : fs[n] = IF n \in Paths THEN before[n] ELSE Absent
    <3>1. \A n \in Held : State(fs)[n] = Clean[n]
      BY <1>2
    <3> QED BY <3>1 DEF State, Clean
  <2>4. \A n \in Held : fs'[n] = IF n \in Paths THEN before'[n] ELSE Absent
    BY <1>1, <2>2, <2>3
  <2>5. State(fs)' = Clean'
    BY <2>4 DEF State, Clean
  <2> QED BY <2>1, <2>5 DEF Undoable, Early
<1>6. CASE Allowed
  <2>1. pc' = "committing" /\ UNCHANGED <<fs, changes, at, committed, before>>
    BY <1>6 DEF Allowed
  <2>2. Undoes(State(fs), TempsOf(Len(changes)), State(fs))
    <3>1. Len(changes) \in 0..Len(changes)
      BY ChangesIs
    <3> QED BY <1>3, <3>1, UndoesTemps
  <2>3. Rollback = TempsOf(Len(changes))
    BY <1>2, RollbackNone
  <2>4. AfterAll(State(fs), PutBack) = State(fs)
    BY <1>2, PutBackNow
  <2>5. Undoes(AfterAll(State(fs), PutBack), Rollback, Clean)
    BY <1>2, <2>2, <2>3, <2>4
  <2>6. State(fs)' = State(fs) /\ Clean' = Clean
    BY <2>1 DEF State, Clean
  <2>7. PutBack' = PutBack
    BY <2>1 DEF PutBack, PutBackFor, SourceBack, FinalBack, RestoreFinal
  <2>8. Rollback' = Rollback
    BY <2>1 DEF Rollback, Undo, RestoreFinal, TempsOf
  <2>9. Undoes(AfterAll(State(fs), PutBack), Rollback, Clean)'
    BY <2>5, <2>6, <2>7, <2>8
  <2> QED BY <2>1, <2>9 DEF Undoable, Early
<1>7. CASE StageFails \/ Denied
  <2>1. /\ pc' = "clearing" /\ UNCHANGED <<fs, before>>
        /\ \E n \in 0..Len(changes) : todo' = TempsOf(n)
    <3>1. at.change - 1 \in 0..Len(changes) /\ Len(changes) \in 0..Len(changes)
      BY ChangesIs, NowIs
    <3> QED BY <1>7, <3>1 DEF StageFails, Denied, GiveUp
  <2>2. Undoes(State(fs), todo', State(fs))
    BY <1>3, <2>1, UndoesTemps
  <2>3. State(fs)' = State(fs) /\ Clean' = Clean
    BY <2>1 DEF State, Clean
  <2>4. Undoes(State(fs), todo, Clean)'
    BY <1>2, <2>2, <2>3
  <2> QED BY <2>1, <2>4 DEF Undoable, Early
<1> QED BY <1>4, <1>5, <1>6, <1>7

LEMMA BackUndo ==
    ASSUME TypeOK, Shape, BackupsHeld, Undoable, BackUp \/ BackUpSource
    PROVE  Undoable'
<1> DEFINE k == at.change
<1>1. /\ k \in Indices /\ k \in Nat /\ Now = changes[k] /\ Now.path \in Held /\ Backup(k) \in Held /\ OldBackup(k) \in Held
      /\ Now.path # Backup(k)
      /\ Moves(Now) => Now.old \in Held /\ Now.old # OldBackup(k)
  BY NowIs, NamesDiffer
<1>2. /\ pc = "committing" /\ pc' = "committing" /\ UNCHANGED <<changes, committed, before>>
      /\ Len(committed) = k - 1 /\ Len(committed) \in Nat /\ FitsNow
      /\ Undoes(AfterAll(State(fs), PutBack), Rollback, Clean)
  <2>1. pc = "committing" /\ pc' = "committing" /\ UNCHANGED <<changes, committed, before>>
    BY DEF BackUp, BackUpSource
  <2>2. committed \in Seq(Entry)
    BY DEF TypeOK
  <2> QED BY <2>1, <2>2 DEF Shape, Undoable
<1>3. Clean' = Clean /\ Rollback' = Rollback
  BY <1>2 DEF Clean, Rollback, Undo, RestoreFinal, TempsOf
<1>4. ASSUME NEW e, at'.change = k, at'.entry = e,
             AfterAll(State(fs'), PutBackFor(k, e)) = AfterAll(State(fs), PutBack)
      PROVE  Undoable'
  <2>1. PutBack' = PutBackFor(k, e)
    BY <1>2, <1>4 DEF PutBack, PutBackFor, SourceBack, FinalBack, RestoreFinal
  <2>2. Undoes(AfterAll(State(fs), PutBack), Rollback, Clean)'
    BY <1>2, <1>3, <1>4, <2>1
  <2> QED BY <1>2, <2>2 DEF Undoable, Early
<1>5. CASE BackUp
  <2> DEFINE had == Exists(Now.path) /\ Now.op # "delete"
             e == [disposition |-> Disposition(Now, had), hadOriginal |-> had, oldBackup |-> FALSE]
  <2>1. /\ at.step = "backup" /\ at'.change = k /\ at'.entry = e
        /\ fs' = IF had THEN Renamed(fs, Now.path, Backup(k)) ELSE fs
    <3>1. /\ at.step = "backup"
          /\ fs' = IF had THEN Renamed(fs, Now.path, Backup(k)) ELSE fs
          /\ at' = [at EXCEPT !.step = IF Now.op = "edit" THEN "source" ELSE "move", !.entry = e]
      BY <1>5 DEF BackUp
    <3>2. at = [change |-> at.change, step |-> at.step, entry |-> at.entry]
      BY NowIs
    <3> QED BY <3>1, <3>2
  <2>2. at.entry = NoEntry /\ ~Exists(Backup(k))
    <3>1. at.entry = NoEntry
      BY <1>2, <2>1 DEF FitsNow
    <3>2. ~(k <= Len(committed)) /\ ~NoEntry.hadOriginal
      BY <1>1, <1>2 DEF NoEntry
    <3> QED BY <1>1, <1>2, <3>1, <3>2 DEF BackupsHeld
  <2>3. AfterAll(State(fs), PutBack) = State(fs)
    BY <2>2, PutBackNow
  <2>4. e.hadOriginal = had /\ e.oldBackup = FALSE
    OBVIOUS
  <2> HIDE DEF e
  <2> DEFINE h == State(fs')
             put == PutBackFor(k, e)
             restore == FinalBack(k)
  <2>5. /\ had => AfterAll(h, put) = After(h, restore)
        /\ ~had => AfterAll(h, put) = h
    <3> HIDE DEF h, restore, k
    <3>1. /\ e.hadOriginal /\ ~e.oldBackup => AfterAll(h, put) = After(h, restore)
          /\ ~e.hadOriginal /\ ~e.oldBackup => AfterAll(h, put) = h
      BY PutBackIs DEF restore
    <3> QED BY <2>4, <3>1
  <2>6. had => After(State(fs'), FinalBack(k)) = State(fs)
    BY <1>1, <2>1, <2>2, MovesBack DEF FinalBack, RestoreFinal
  <2> QED BY <1>4, <2>1, <2>3, <2>5, <2>6
<1>6. CASE BackUpSource
  <2>1. /\ at.step = "source" /\ Exists(Now.old) /\ fs' = Renamed(fs, Now.old, OldBackup(k))
        /\ at' = [at EXCEPT !.step = "move", !.entry.oldBackup = TRUE]
    BY <1>6 DEF BackUpSource
  <2>2. Now.op = "edit" /\ Moves(Now) /\ at.entry.oldBackup = FALSE /\ at.entry \in Entry
    <3>1. at.entry \in Entry \cup {NoEntry} /\ NoEntry.disposition = "none" /\ ~NoEntry.oldBackup
      BY NowIs DEF NoEntry
    <3>2. Now.op = "edit" /\ ~at.entry.oldBackup /\ at.entry.disposition = Disposition(Now, at.entry.hadOriginal)
      BY <1>2, <2>1 DEF FitsNow
    <3>3. Disposition(Now, at.entry.hadOriginal) = "rename"
      BY <3>2 DEF Disposition, Moves
    <3> QED BY <3>1, <3>2, <3>3 DEF Moves, Entry
  <2> DEFINE e == [at.entry EXCEPT !.oldBackup = TRUE]
  <2>3. at'.change = k /\ at'.entry = e
    <3>1. at = [change |-> at.change, step |-> at.step, entry |-> at.entry]
      BY NowIs
    <3> QED BY <2>1, <3>1
  <2>4. e.hadOriginal = at.entry.hadOriginal /\ e.oldBackup = TRUE
    BY <2>2 DEF Entry
  <2>5. ~Exists(OldBackup(k))
    <3>1. ~(k <= Len(committed))
      BY <1>1, <1>2
    <3> QED BY <1>1, <1>2, <2>2, <3>1 DEF BackupsHeld
  <2> HIDE DEF e
  <2> DEFINE source == SourceBack(k)
             restore == FinalBack(k)
  <2>6. After(State(fs'), source) = State(fs)
    BY <1>1, <2>1, <2>2, <2>5, MovesBack DEF SourceBack
  <2> DEFINE h == State(fs')
             put == PutBackFor(k, e)
  <2>7. /\ e.hadOriginal => AfterAll(h, put) = After(After(h, source), restore)
        /\ ~e.hadOriginal => AfterAll(h, put) = After(h, source)
    <3> HIDE DEF h, k, source, restore
    <3>1. /\ e.hadOriginal /\ e.oldBackup => AfterAll(h, put) = After(After(h, source), restore)
          /\ ~e.hadOriginal /\ e.oldBackup => AfterAll(h, put) = After(h, source)
      BY PutBackIs DEF source, restore
    <3> QED BY <2>4, <3>1
  <2>8. /\ at.entry.hadOriginal => AfterAll(State(fs), PutBack) = After(State(fs), restore)
        /\ ~at.entry.hadOriginal => AfterAll(State(fs), PutBack) = State(fs)
    <3> QED BY <2>2, PutBackNow
  <2> QED BY <1>4, <2>3, <2>4, <2>6, <2>7, <2>8
<1> QED BY <1>5, <1>6

LEMMA FailUndo ==
    ASSUME TypeOK, Shape, BackupsHeld, Undoable, BackUpFails \/ BackUpSourceFails \/ MoveFails
    PROVE  Undoable'
<1> DEFINE k == at.change
           restore == FinalBack(k)
<1>1. /\ k \in Indices /\ Now = changes[k] /\ Now.path \in Held /\ Backup(k) \in Held /\ OldBackup(k) \in Held
      /\ Moves(Now) => Now.old \in Held
  BY NowIs, NamesDiffer
<1>2. /\ pc = "committing" /\ pc' = "clearing" /\ UNCHANGED <<changes, committed, before>> /\ FitsNow
      /\ todo' \in {Rollback, << SelfRepair >> \o Rollback}
      /\ Undoes(AfterAll(State(fs), PutBack), Rollback, Clean)
  <2>1. /\ pc = "committing" /\ pc' = "clearing" /\ UNCHANGED <<changes, committed, before>>
        /\ todo' \in {Rollback, << SelfRepair >> \o Rollback}
    BY DEF BackUpFails, BackUpSourceFails, MoveFails, GiveUp
  <2> QED BY <2>1 DEF Shape, Undoable
<1>3. Clean' = Clean
  BY <1>2 DEF Clean
<1>4. ASSUME Undoes(State(fs'), todo', Clean)
      PROVE  Undoable'
  <2>1. Undoes(State(fs), todo, Clean)'
    BY <1>3, <1>4
  <2> QED BY <1>2, <2>1 DEF Undoable, Early
<1> DEFINE source == SourceBack(k)
           g0 == State(fs)
<1>5. /\ at.entry.hadOriginal /\ at.entry.oldBackup => AfterAll(g0, PutBack) = After(After(g0, source), restore)
      /\ ~at.entry.hadOriginal /\ at.entry.oldBackup => AfterAll(g0, PutBack) = After(g0, source)
      /\ at.entry.hadOriginal /\ ~at.entry.oldBackup => AfterAll(g0, PutBack) = After(g0, restore)
      /\ ~at.entry.hadOriginal /\ ~at.entry.oldBackup => AfterAll(g0, PutBack) = g0
      /\ at.entry = NoEntry => AfterAll(g0, PutBack) = g0
  BY PutBackNow
<1>6. Rollback \in Seq(Seq(Call)) /\ SelfRepair \in Seq(Call) /\ Fit(SelfRepair) /\ \A g : Works(g, SelfRepair)
  BY SelfRepairIs, GivesUp
<1>7. ASSUME State(fs') \in States, todo' = << SelfRepair >> \o Rollback,
             AfterAll(State(fs'), SelfRepair) = AfterAll(State(fs), PutBack)
      PROVE  Undoable'
  <2> DEFINE g == State(fs')
             r == Rollback
             sr == SelfRepair
  <2>1. Undoes(AfterAll(g, sr), r, Clean) /\ g \in States /\ r \in Seq(Seq(Call)) /\ sr \in Seq(Call) /\ Fit(sr) /\ Works(g, sr)
    BY <1>2, <1>6, <1>7
  <2> HIDE DEF g, r, sr
  <2>2. Undoes(g, << sr >> \o r, Clean)
    BY <2>1, UndoesOne
  <2> QED BY <1>4, <1>7, <2>2 DEF g, r, sr
<1>8. CASE BackUpFails
  <2>1. fs' = fs /\ todo' = Rollback /\ at.step = "backup"
    BY <1>8 DEF BackUpFails, GiveUp
  <2>2. at.entry = NoEntry
    BY <1>2, <2>1 DEF FitsNow
  <2>3. AfterAll(State(fs), PutBack) = State(fs)
    BY <1>5, <2>2
  <2> QED BY <1>2, <1>4, <2>1, <2>3
<1>9. CASE BackUpSourceFails
  <2>1. fs' = fs /\ todo' = << SelfRepair >> \o Rollback /\ at.step = "source"
    BY <1>9 DEF BackUpSourceFails, GiveUp
  <2>2. ~at.entry.oldBackup
    BY <1>2, <2>1 DEF FitsNow
  <2>3. AfterAll(State(fs), SelfRepair) = AfterAll(State(fs), PutBack)
    BY <1>5, <2>2, SelfRepairDoes
  <2> QED BY <1>7, <2>1, <2>3, StateIs
<1>10. CASE MoveFails
  <2>1. todo' = << SelfRepair >> \o Rollback /\ at.step = "move"
    BY <1>10 DEF MoveFails, GiveUp
  <2>2. CASE ~stuck'
    <3>1. fs' = IF at.entry.oldBackup THEN Renamed(fs, OldBackup(k), Now.old) ELSE fs
      BY <1>10, <2>2 DEF MoveFails
    <3>2. at.entry.oldBackup => Exists(OldBackup(k)) /\ Moves(Now)
      <4>1. at.step # "backup"
        BY <2>1
      <4> QED BY <1>2, <4>1 DEF BackupsHeld, FitsNow, Moves
    <3>3. at.entry.oldBackup => /\ After(State(fs), source) = State(fs')
                                /\ State(fs') \in States
      <4>1. at.entry.oldBackup => After(State(fs), source) = State(fs')
        BY <1>1, <3>1, <3>2, MovesState DEF SourceBack
      <4>2. at.entry.oldBackup => OldBackup(k) # Now.old /\ Held \subseteq Names
        BY <1>1, <3>2, NowIs, NamesDiffer
      <4>3. at.entry.oldBackup => State(fs') \in States
        BY <1>1, <3>1, <3>2, <4>2, StateMoves
      <4> QED BY <4>1, <4>3
    <3>4. State(fs') \in States
      BY <3>1, <3>3, StateIs
    <3>5. AfterAll(State(fs'), SelfRepair) = AfterAll(State(fs), PutBack)
      BY <1>5, <3>1, <3>3, SelfRepairDoes
    <3> QED BY <1>7, <2>1, <3>4, <3>5
  <2>3. CASE stuck'
    BY <1>2, <2>3 DEF Undoable, Early
  <2> QED BY <2>2, <2>3
<1> QED BY <1>8, <1>9, <1>10

\* Undoing a change that was just moved in is putting back its backups.
LEMMA MoveUndone ==
    ASSUME TypeOK, Shape, BackupsHeld, pc = "committing", at.step = "move", Exists(MovedFrom),
           NEW e, e = IF Now.op = "delete" THEN [at.entry EXCEPT !.hadOriginal = TRUE] ELSE at.entry,
           NEW h, h = State(Renamed(fs, MovedFrom, MovedTo))
    PROVE  /\ h \in States /\ e \in Entry /\ Fits(Now, e)
           /\ Works(h, Undo(at.change, e))
           /\ AfterAll(h, Undo(at.change, e)) = AfterAll(State(fs), PutBack)
<1> DEFINE k == at.change
           g == State(fs)
           p == Now.path
           o == Now.old
           b == Backup(k)
           ob == OldBackup(k)
           restore == FinalBack(k)
           remove == RemoveFile(p, {p})
           source == SourceBack(k)
           move(m) == RenameBack(p, o, {p, o}, m)
           U == Undo(k, e)
<1>1. /\ k \in Indices /\ k \in 1..Len(changes) /\ Now = changes[k] /\ p \in Held /\ b \in Held /\ ob \in Held /\ p # b
      /\ p # ob /\ b # ob /\ Temp(k) \notin Held
      /\ Moves(Now) => o \in Held /\ o # ob /\ o # b /\ o # p /\ Source(Now) = o
      /\ ~Moves(Now) => Source(Now) = p
      /\ Now.op \in {"create", "modify", "delete", "rename", "edit"}
      /\ Moves(Now) <=> Now.op \in {"rename", "edit"}
      /\ HasTemp(Now) <=> Now.op \in {"create", "modify", "edit"}
  BY NowIs, NamesDiffer DEF Moves, HasTemp
<1>2. FitsNow /\ Len(committed) = k - 1 /\ Len(committed) \in Nat
  BY DEF Shape, TypeOK
<1>3. /\ e \in Entry /\ Fits(Now, e) /\ (Now.op # "delete" => e = at.entry)
      /\ (e.hadOriginal <=> Now.op = "delete" \/ at.entry.hadOriginal)
      /\ e.oldBackup = at.entry.oldBackup /\ e.oldBackup <=> Now.op = "edit"
  <2>1. /\ e \in Entry /\ Fits(Now, e) /\ (Now.op # "delete" => e = at.entry)
        /\ (e.hadOriginal <=> Now.op = "delete" \/ at.entry.hadOriginal) /\ e.oldBackup = at.entry.oldBackup
    BY <1>2, EntryNow
  <2> QED BY <2>1 DEF Fits
<1>4. /\ at.entry.hadOriginal => Exists(b)
      /\ Now.op # "delete" => ~Exists(p)
      /\ at.entry.oldBackup => Exists(ob) /\ ~Exists(o)
      /\ Now.op = "delete" => ~Exists(b) /\ ~at.entry.hadOriginal
  <2>1. at.step # "backup"
    OBVIOUS
  <2>2. /\ at.entry.hadOriginal => Exists(b)
        /\ Now.op # "delete" => ~Exists(p)
        /\ at.entry.oldBackup => Exists(ob) /\ ~Exists(o)
    BY <2>1 DEF BackupsHeld
  <2>3. Now.op = "delete" => ~at.entry.hadOriginal
    BY <1>2, <2>1 DEF FitsNow
  <2>4. k \in Nat /\ ~(k <= Len(committed))
    BY <1>2, NowIs
  <2>5. ~at.entry.hadOriginal => ~Exists(b)
    BY <1>1, <2>4 DEF BackupsHeld
  <2> QED BY <2>2, <2>3, <2>5
<1>5. g \in States /\ \A n \in Held : g[n] = fs[n]
  BY StateIs DEF State
<1>6. /\ h \in States /\ h[MovedTo] = fs[MovedFrom] /\ (MovedFrom \in Held => h[MovedFrom] = Absent)
      /\ \A n \in Held \ {MovedFrom, MovedTo} : h[n] = fs[n]
  BY MovedIs, StateMoves
<1>7. /\ at.entry.hadOriginal /\ at.entry.oldBackup => AfterAll(g, PutBack) = After(After(g, source), restore)
      /\ ~at.entry.hadOriginal /\ at.entry.oldBackup => AfterAll(g, PutBack) = After(g, source)
      /\ at.entry.hadOriginal /\ ~at.entry.oldBackup => AfterAll(g, PutBack) = After(g, restore)
      /\ ~at.entry.hadOriginal /\ ~at.entry.oldBackup => AfterAll(g, PutBack) = g
  BY PutBackNow
<1>8. /\ Now.op = "edit" => U = << IF e.hadOriginal THEN restore ELSE remove, source >>
      /\ Now.op = "rename" /\ e.hadOriginal => U = << move(1), restore >>
      /\ Now.op = "rename" /\ ~e.hadOriginal => U = << move(0) >>
      /\ Now.op \in {"create", "modify"} => U = << IF e.hadOriginal THEN restore ELSE remove >>
      /\ Now.op = "delete" => U = << restore >>
  BY <1>1, <1>3, UndoIs DEF FinalBack, SourceBack
<1>9. restore.skips = 0 /\ remove.skips = 0 /\ source.skips = 0 /\ move(0).skips = 0 /\ move(1).from = p
  BY DEF FinalBack, RestoreFinal, RemoveFile, SourceBack, RenameBack
<1>10. restore = RenameBack(b, p, {p}, 0) /\ source = RenameBack(ob, o, {o}, 0)
  BY <1>1 DEF FinalBack, RestoreFinal, SourceBack
<1> HIDE DEF k, g, p, o, b, ob, restore, remove, source, move, U
<1>11. /\ \A f : AfterAll(f, << restore >>) = After(f, restore)
       /\ \A f : AfterAll(f, << remove >>) = After(f, remove)
       /\ AfterAll(h, << move(0) >>) = After(h, move(0))
  BY AfterTwo
<1>12. /\ Works(h, << restore >>) /\ Works(h, << remove >>) /\ Works(h, << move(0) >>)
       /\ Works(h, << restore, source >>) /\ Works(h, << remove, source >>)
  BY <1>9, AfterTwo
<1>13. CASE HasTemp(Now)
  <2>1. MovedFrom = Temp(k) /\ MovedTo = p /\ Now.op # "delete"
    BY <1>1, <1>13 DEF MovedFrom, MovedTo, k, p
  <2>2. \A n \in Held \ {p} : h[n] = g[n]
    BY <1>1, <1>5, <1>6, <2>1
  <2>3. g[p] = Absent /\ (e.hadOriginal => g[b] # Absent) /\ (e.oldBackup => g[ob] # Absent)
    BY <1>1, <1>3, <1>4, <1>5, <2>1 DEF Exists
  <2>4. e.hadOriginal => After(h, restore) = After(g, restore)
    BY <1>1, <1>5, <1>6, <1>10, <2>2, <2>3, MovesOver
  <2>5. After(h, remove) = g
    BY <1>1, <1>5, <1>6, <2>2, <2>3, RemovesNew DEF remove
  <2>6. CASE Now.op = "edit"
    <3>1. e = at.entry /\ e.oldBackup /\ o \in Held /\ o # ob /\ o # b /\ o # p
      BY <1>1, <1>3, <2>6 DEF p, o
    <3>2. e.hadOriginal => After(After(g, restore), source) = After(After(g, source), restore)
      BY <1>1, <1>5, <1>10, <2>3, <3>1, MovesCommute
    <3>3. AfterAll(h, << restore, source >>) = After(After(h, restore), source)
      BY AfterPair
    <3>4. AfterAll(h, << remove, source >>) = After(After(h, remove), source)
      BY AfterPair
    <3>5. CASE e.hadOriginal
      <4>1. U = << restore, source >> /\ AfterAll(g, PutBack) = After(After(g, source), restore)
        BY <1>7, <1>8, <2>6, <3>1, <3>5
      <4> QED BY <1>3, <1>6, <1>12, <2>4, <3>2, <3>3, <3>5, <4>1 DEF U, k, g
    <3>6. CASE ~e.hadOriginal
      <4>1. U = << remove, source >> /\ AfterAll(g, PutBack) = After(g, source)
        BY <1>7, <1>8, <2>6, <3>1, <3>6
      <4> QED BY <1>3, <1>6, <1>12, <2>5, <3>4, <4>1 DEF U, k, g
    <3> QED BY <3>5, <3>6
  <2>7. CASE Now.op \in {"create", "modify"}
    <3>1. e = at.entry /\ ~e.oldBackup
      BY <1>3, <2>1, <2>7
    <3>2. CASE e.hadOriginal
      <4>1. U = << restore >> /\ AfterAll(g, PutBack) = After(g, restore)
        BY <1>7, <1>8, <2>7, <3>1, <3>2
      <4> QED BY <1>3, <1>6, <1>11, <1>12, <2>4, <3>2, <4>1 DEF U, k, g
    <3>3. CASE ~e.hadOriginal
      <4>1. U = << remove >> /\ AfterAll(g, PutBack) = g
        BY <1>7, <1>8, <2>7, <3>1, <3>3
      <4> QED BY <1>3, <1>6, <1>11, <1>12, <2>5, <4>1 DEF U, k, g
    <3> QED BY <3>2, <3>3
  <2> QED BY <1>1, <1>13, <2>6, <2>7
<1>14. CASE Now.op = "rename"
  <2>1. MovedFrom = o /\ MovedTo = p /\ o \in Held /\ p \in Held /\ o # p
    BY <1>1, <1>14 DEF MovedFrom, MovedTo, p, o
  <2>2. e = at.entry /\ ~e.oldBackup
    BY <1>3, <1>14
  <2>3. ~Exists(p) /\ Exists(o)
    BY <1>4, <1>14, <2>1
  <2>4. h = State(Renamed(fs, o, p))
    BY <2>1
  <2>5. \A m : After(h, move(m)) = g
    BY <2>1, <2>3, <2>4, MovesBack DEF move, g
  <2>6. h[p] # Absent
    BY <1>6, <2>1, <2>3 DEF Exists
  <2>7. AfterAll(h, << move(1), restore >>) = After(After(h, move(1)), restore)
    BY AfterPair
  <2>8. Works(h, << move(1), restore >>)
    BY <1>9, <2>1, <2>6, AfterTwo
  <2>9. CASE e.hadOriginal
    <3>1. U = << move(1), restore >> /\ AfterAll(g, PutBack) = After(g, restore)
      BY <1>7, <1>8, <1>14, <2>2, <2>9
    <3> QED BY <1>3, <1>6, <2>5, <2>7, <2>8, <3>1 DEF U, k, g
  <2>10. CASE ~e.hadOriginal
    <3>1. U = << move(0) >> /\ AfterAll(g, PutBack) = g
      BY <1>7, <1>8, <1>14, <2>2, <2>10
    <3> QED BY <1>3, <1>6, <1>11, <1>12, <2>5, <3>1 DEF U, k, g
  <2> QED BY <2>9, <2>10
<1>15. CASE Now.op = "delete"
  <2>1. MovedFrom = p /\ MovedTo = b /\ p \in Held /\ b \in Held /\ p # b
    BY <1>1, <1>15 DEF MovedFrom, MovedTo, p, b, k
  <2>2. U = << restore >> /\ AfterAll(g, PutBack) = g /\ ~Exists(b) /\ Exists(p)
    BY <1>3, <1>4, <1>7, <1>8, <1>15, <2>1
  <2>3. After(h, restore) = g
    BY <1>10, <2>1, <2>2, MovesBack DEF g
  <2>4. Works(h, U) /\ AfterAll(h, U) = g
    BY <1>11, <1>12, <2>2, <2>3
  <2>5. Works(h, U) /\ AfterAll(h, U) = AfterAll(g, PutBack)
    BY <2>2, <2>4
  <2> QED BY <1>3, <1>6, <2>5 DEF U, k, g
<1> QED BY <1>1, <1>13, <1>14, <1>15

LEMMA MoveUndo ==
    ASSUME TypeOK, Shape, BackupsHeld, Undoable, Move
    PROVE  Undoable'
<1> DEFINE e == IF Now.op = "delete" THEN [at.entry EXCEPT !.hadOriginal = TRUE] ELSE at.entry
           h == State(fs')
           x == Undo(at.change, e)
           r == Rollback
<1>1. /\ pc = "committing" /\ at.step = "move" /\ Exists(MovedFrom) /\ fs' = Renamed(fs, MovedFrom, MovedTo)
      /\ committed' = Append(committed, e) /\ UNCHANGED <<changes, before>>
  BY DEF Move
<1>2. Undoes(AfterAll(State(fs), PutBack), r, Clean)
  BY <1>1 DEF Undoable
<1>3. h \in States /\ e \in Entry /\ Fits(Now, e) /\ Works(h, x) /\ AfterAll(h, x) = AfterAll(State(fs), PutBack)
  BY <1>1, MoveUndone
<1>4. Rollback' = << x >> \o r
  BY <1>1, <1>3, RollbackGrows
<1>5. x \in Seq(Call) /\ Fit(x) /\ r \in Seq(Seq(Call))
  <2>1. at.change \in 1..Len(changes) /\ Now = changes[at.change]
    BY NowIs
  <2>2. x \in Seq(Call) /\ Fit(x)
    BY <1>3, <2>1, UndoFits
  <2> QED BY <2>2, GivesUp
<1> HIDE DEF x, r, h, e
<1>6. Undoes(h, << x >> \o r, Clean)
  BY <1>2, <1>3, <1>5, UndoesOne
<1>7. CASE at.change < Len(changes)
  <2>1. pc' = "committing" /\ at'.entry = NoEntry
    BY <1>7 DEF Move
  <2>2. NoEntry.hadOriginal = FALSE /\ NoEntry.oldBackup = FALSE
    BY DEF NoEntry
  <2>3. PutBack' = <<>>
    <3>1. PutBack' = <<>> \o <<>>
      BY <2>1, <2>2 DEF PutBack, PutBackFor
    <3> QED BY <3>1
  <2>4. AfterAll(h, <<>>) = h
    BY AfterTwo
  <2>5. Clean' = Clean
    BY <1>1 DEF Clean
  <2>6. Undoes(AfterAll(State(fs), PutBack), Rollback, Clean)'
    BY <1>4, <1>6, <2>3, <2>4, <2>5 DEF h
  <2> QED BY <2>1, <2>6 DEF Undoable, Early
<1>8. CASE ~(at.change < Len(changes))
  <2>1. pc' = "clearing" /\ result' = "ok"
    BY <1>8 DEF Move, GiveUp
  <2> QED BY <2>1 DEF Undoable, Early
<1> QED BY <1>7, <1>8

LEMMA CallUndo ==
    ASSUME TypeOK, Shape, EntriesFit, Undoable, CallWorks \/ CallFails
    PROVE  Undoable'
<1> DEFINE s == todo[1][1]
           x == todo[1]
           y == todo'[1]
           rest == Tail(todo)
           g == State(fs)
           h == State(fs')
<1>1. /\ pc = "clearing" /\ pc' = "clearing" /\ UNCHANGED <<result, before>>
      /\ todo # <<>> /\ todo[1] # <<>> /\ Fit(todo'[1])
      /\ todo' = <<todo'[1]>> \o Tail(todo)
      /\ CallWorks \/ todo[1][1].skips = 0 => todo'[1] = Tail(todo[1])
      /\ todo[1][1].skips \in {0, 1} /\ (CallFails /\ todo[1][1].skips = 1 => todo'[1] = <<>>)
  BY CallLeaves
<1>2. /\ s \in Call /\ s.from \in Names /\ s.to \in Names /\ s.call \in {"rename", "remove"}
      /\ s.call = "rename" => s.from \in Held /\ s.to \in Held
      /\ CallWorks => /\ Exists(s.from)
                      /\ fs' = IF s.call = "rename" THEN Renamed(fs, s.from, s.to)
                                                    ELSE [fs EXCEPT ![s.from] = Absent]
                      /\ UNCHANGED stuck
      /\ CallFails => /\ UNCHANGED fs
                      /\ ~stuck' => ~stuck /\ ~Exists(s.from)
      /\ fs \in [Names -> Contents] /\ Held \subseteq Names
  BY CallDoes, NamesDiffer
<1>3. HasCall
  BY <1>1 DEF HasCall
<1>4. x \in Seq(Call) /\ Fit(x) /\ rest \in Seq(Seq(Call)) /\ todo = <<x>> \o rest /\ Tail(x) \in Seq(Call)
  BY <1>1, <1>3, CallIs, TailIs
<1>5. g \in States
  BY StateIs
<1>6. Clean' = Clean
  BY <1>1 DEF Clean
<1>7. CASE result # "ok" /\ ~stuck'
  <2>1. ~stuck
    BY <1>2, <1>7
  <2>2. Undoes(g, todo, Clean)
    BY <1>1, <1>7, <2>1 DEF Undoable
  <2>3. Works(g, x) /\ Undoes(AfterAll(g, x), rest, Clean)
    <3> HIDE DEF g, x, rest
    <3>1. Undoes(g, <<x>> \o rest, Clean)
      BY <1>4, <2>2
    <3> QED BY <1>4, <1>5, <3>1, UndoesOne
  <2>4. After(g, s) = h
    <3>1. CASE CallWorks
      <4>1. CASE s.call = "rename"
        <5>1. fs' = Renamed(fs, s.from, s.to) /\ s.from \in Held /\ s.to \in Held /\ fs[s.from] # Absent
          BY <1>2, <3>1, <4>1 DEF Exists
        <5>2. g[s.from] = fs[s.from]
          BY <5>1 DEF State
        <5>3. After(g, s) = Renamed(g, s.from, s.to)
          BY <4>1, <5>1, <5>2 DEF After
        <5>4. Renamed(g, s.from, s.to) = h
          BY <1>2, <5>1 DEF Renamed, State
        <5> QED BY <5>3, <5>4
      <4>2. CASE s.call # "rename"
        <5>1. fs' = [fs EXCEPT ![s.from] = Absent] /\ fs[s.from] # Absent
          BY <1>2, <3>1, <4>2 DEF Exists
        <5>2. CASE s.from \in Held
          <6>1. g[s.from] = fs[s.from]
            BY <5>2 DEF State
          <6>2. After(g, s) = [g EXCEPT ![s.from] = Absent]
            BY <4>2, <5>1, <5>2, <6>1 DEF After
          <6>3. [g EXCEPT ![s.from] = Absent] = h
            BY <1>2, <5>1, <5>2 DEF State
          <6> QED BY <6>2, <6>3
        <5>3. CASE s.from \notin Held
          <6>1. After(g, s) = g
            BY <5>3 DEF After
          <6>2. \A n \in Held : fs'[n] = fs[n]
            BY <1>2, <5>1, <5>3
          <6>3. h = g
            BY <6>2 DEF State
          <6> QED BY <6>1, <6>3
        <5> QED BY <5>2, <5>3
      <4> QED BY <4>1, <4>2
    <3>2. CASE CallFails
      <4>1. fs' = fs /\ fs[s.from] = Absent
        BY <1>2, <1>7, <3>2 DEF Exists
      <4>2. s.from \in Held => g[s.from] = Absent
        BY <4>1 DEF State
      <4>3. After(g, s) = g
        BY <4>2 DEF After
      <4> QED BY <4>1, <4>3
    <3> QED BY <3>1, <3>2
  <2>5. y = Tail(x)
    <3>1. CASE CallWorks \/ s.skips = 0
      BY <1>1, <3>1
    <3>2. CASE CallFails /\ s.skips = 1
      <4>1. s.from \in Held /\ g[s.from] # Absent
        <5>1. 1 > 0
          OBVIOUS
        <5> QED BY <1>1, <2>3, <3>2, <5>1 DEF Works
      <4>2. fs[s.from] = Absent
        BY <1>2, <1>7, <3>2 DEF Exists
      <4> QED BY <4>1, <4>2 DEF State
    <3> QED BY <1>1, <3>1, <3>2
  <2>6. /\ Fit(Tail(x)) /\ AfterAll(g, x) = AfterAll(After(g, s), Tail(x)) /\ Works(h, Tail(x))
    <3>1. x # <<>> /\ s = x[1]
      BY <1>1
    <3> HIDE DEF x, s, g, h
    <3> QED BY <1>4, <1>5, <3>1, AfterAllIs
  <2>7. h \in States
    <3>1. s.call = "rename" => s.to \in Held
      BY <1>2
    <3>2. After(g, s) \in States
      BY <1>2, <1>5, <3>1, AfterIs
    <3> QED BY <2>4, <3>2
  <2>8. Undoes(h, todo', Clean)
    <3>1. todo' = <<y>> \o rest
      BY <1>1
    <3> HIDE DEF x, y, s, g, h, rest
    <3>2. y \in Seq(Call) /\ Fit(y) /\ Works(h, y) /\ Undoes(AfterAll(h, y), rest, Clean)
      BY <1>4, <2>3, <2>4, <2>5, <2>6
    <3>3. Undoes(h, <<y>> \o rest, Clean)
      BY <1>4, <2>7, <3>2, UndoesOne
    <3> QED BY <3>1, <3>3
  <2>9. Undoes(State(fs), todo, Clean)'
    BY <1>6, <2>8
  <2> QED BY <1>1, <2>9 DEF Undoable, Early
<1>8. CASE result = "ok" \/ stuck'
  BY <1>1, <1>8 DEF Undoable, Early
<1> QED BY <1>7, <1>8

LEMMA UndoStep ==
    TypeOK /\ Shape /\ EntriesFit /\ BackupsHeld /\ Undoable /\ [Next]_vars => Undoable'
<1> SUFFICES ASSUME TypeOK, Shape, EntriesFit, BackupsHeld, Undoable, [Next]_vars PROVE Undoable'
  OBVIOUS
<1>1. CASE StageChange \/ StageFails \/ UserEdits \/ Allowed \/ Denied
  BY <1>1, EarlyUndo
<1>2. CASE BackUp \/ BackUpSource
  BY <1>2, BackUndo
<1>3. CASE BackUpFails \/ BackUpSourceFails \/ MoveFails
  BY <1>3, FailUndo
<1>4. CASE Move
  BY <1>4, MoveUndo
<1>5. CASE CallWorks \/ CallFails
  BY <1>5, CallUndo
<1>6. CASE NextEntry
  <2> DEFINE g == State(fs)
             rest == Tail(todo)
  <2>1. /\ pc = "clearing" /\ UNCHANGED <<fs, pc, result, before, stuck>> /\ todo # <<>> /\ todo' = rest
        /\ todo = << <<>> >> \o rest
    BY <1>6, NextLeaves
  <2>2. CASE result # "ok" /\ ~stuck
    <3>1. rest \in Seq(Seq(Call)) /\ <<>> \in Seq(Call) /\ Fit(<<>>) /\ g \in States /\ AfterAll(g, <<>>) = g
      <4>1. todo \in Seq(Seq(Call))
        BY DEF TypeOK
      <4>2. rest \in Seq(Seq(Call))
        BY <2>1, <4>1, TailIs
      <4>3. 1 \in 1..Len(todo) /\ todo[1] = <<>>
        <5>1. Len(todo) \in Nat \ {0} /\ todo[1] = <<>>
          BY <1>6, NextLeaves
        <5> QED BY <5>1
      <4>4. Fit(<<>>)
        BY <4>3 DEF EntriesFit
      <4>5. <<>> \in Seq(Call)
        OBVIOUS
      <4>6. AfterAll(g, <<>>) = g
        BY AfterTwo
      <4> QED BY <4>2, <4>4, <4>5, <4>6, StateIs
    <3>2. Undoes(g, << <<>> >> \o rest, Clean)
      BY <2>1, <2>2 DEF Undoable
    <3> HIDE DEF g, rest
    <3>3. Undoes(g, rest, Clean)
      BY <3>1, <3>2, UndoesOne
    <3>4. State(fs)' = State(fs) /\ Clean' = Clean
      BY <2>1 DEF State, Clean
    <3>5. Undoes(State(fs), todo, Clean)'
      BY <2>1, <3>3, <3>4 DEF g
    <3> QED BY <2>1, <3>5 DEF Undoable, Early
  <2>3. CASE result = "ok" \/ stuck
    BY <2>1, <2>3 DEF Undoable, Early
  <2> QED BY <2>2, <2>3
<1>7. CASE End
  <2>1. pc = "clearing" /\ todo = <<>> /\ pc' = "over" /\ UNCHANGED <<fs, before, stuck>>
        /\ (result' # "ok" => result # "ok")
    BY <1>7 DEF End
  <2>2. result # "ok" /\ ~stuck => Undoes(State(fs), <<>>, Clean)
    BY <2>1 DEF Undoable
  <2>3. result # "ok" /\ ~stuck => State(fs) = Clean
    BY <2>2, StateIs, UndoesNone
  <2>4. State(fs)' = State(fs) /\ Clean' = Clean
    BY <2>1 DEF State, Clean
  <2> QED BY <2>1, <2>3, <2>4 DEF Undoable, Early
<1>8. CASE UNCHANGED vars
  <2>1. UNCHANGED <<fs, changes, pc, at, committed, todo, result, before, stuck>>
    BY <1>8 DEF vars
  <2>2. State(fs)' = State(fs) /\ Clean' = Clean /\ Early' = Early
    BY <2>1 DEF State, Clean, Early
  <2>3. PutBack' = PutBack
    BY <2>1 DEF PutBack, PutBackFor, SourceBack, FinalBack, RestoreFinal
  <2>4. Rollback' = Rollback
    BY <2>1 DEF Rollback, Undo, RestoreFinal, TempsOf
  <2> QED BY <2>1, <2>2, <2>3, <2>4 DEF Undoable
<1> QED BY <1>1, <1>2, <1>3, <1>4, <1>5, <1>6, <1>7, <1>8 DEF Next
-----------------------------------------------------------------------------
(* Patches that name no file twice *)

LEMMA FilesDiffer ==
    ASSUME TypeOK, Disjoint, NEW i \in 1..Len(changes), NEW j \in 1..Len(changes), i # j
    PROVE  FilesOf(i) \cap FilesOf(j) = {}
<1>1. DOMAIN changes = 1..Len(changes) /\ i \in Indices /\ j \in Indices /\ changes[i] \in Change /\ changes[j] \in Change
  BY ChangesIs
<1>2. {changes[i].path, Source(changes[i])} \cap {changes[j].path, Source(changes[j])} = {}
  BY <1>1 DEF Disjoint
<1>3. {changes[i].path, Source(changes[i])} \subseteq Paths /\ {changes[j].path, Source(changes[j])} \subseteq Paths
  BY <1>1, ChangeIs
<1>4. /\ Backup(i) # Backup(j) /\ OldBackup(i) # OldBackup(j) /\ Backup(i) # OldBackup(j) /\ OldBackup(i) # Backup(j)
      /\ {Backup(i), OldBackup(i), Backup(j), OldBackup(j)} \cap Paths = {}
  BY <1>1, NamesDiffer
<1> QED BY <1>2, <1>3, <1>4 DEF FilesOf

LEMMA FilesAre ==
    ASSUME TypeOK, NEW i \in 1..Len(changes)
    PROVE  LET c == changes[i] IN
           /\ FilesOf(i) \subseteq Held
           /\ \A m \in Indices : Temp(m) \notin FilesOf(i)
           /\ {c.path, Source(c), Backup(i), OldBackup(i)} \subseteq FilesOf(i)
           /\ Moves(c) => Source(c) = c.old /\ c.old \in FilesOf(i) /\ c.old # c.path
           /\ c.op \in {"create", "modify", "delete", "rename", "edit"}
           /\ c.path \in Paths /\ Source(c) \in Paths
           /\ c.path # Backup(i) /\ c.path # OldBackup(i) /\ Backup(i) # OldBackup(i)
           /\ Source(c) # Backup(i) /\ Source(c) # OldBackup(i)
           /\ fs \in [Names -> Contents] /\ Held \subseteq Names
           /\ i \in Indices
<1>1. changes[i] \in Change /\ i \in Indices /\ fs \in [Names -> Contents]
  BY ChangesIs DEF TypeOK
<1> DEFINE c == changes[i]
<1>2. /\ c.op \in {"create", "modify", "delete", "rename", "edit"}
      /\ c.path \in Paths /\ Source(c) \in Paths
      /\ Moves(c) => c.old \in Paths /\ c.old # c.path /\ Source(c) = c.old
  BY <1>1, ChangeIs
<1>3. FilesOf(i) = {c.path, Source(c), Backup(i), OldBackup(i)}
  BY DEF FilesOf
<1> HIDE DEF c
<1>4. FilesOf(i) \subseteq Held /\ \A m \in Indices : Temp(m) \notin FilesOf(i)
  BY <1>1, <1>2, <1>3, NamesDiffer
<1>5. /\ c.path # Backup(i) /\ c.path # OldBackup(i) /\ Backup(i) # OldBackup(i)
      /\ Source(c) # Backup(i) /\ Source(c) # OldBackup(i)
  BY <1>1, <1>2, NamesDiffer
<1> QED BY <1>1, <1>2, <1>3, <1>4, <1>5, NamesDiffer DEF c

\* What holds of a change stays so while nothing touches its files.
LEMMA Frame ==
    ASSUME TypeOK, NEW i \in 1..Len(changes), UNCHANGED <<changes, before>>,
           \A n \in FilesOf(i) : fs'[n] = fs[n], Known \subseteq Known'
    PROVE  /\ Untouched(i) => Untouched(i)'
           /\ Applied(i) => Applied(i)'
           /\ Over(i) => Over(i)'
           /\ \A e : Committed(i, e) => Committed(i, e)'
           /\ \A e : InPlace(i, e) => InPlace(i, e)'
           /\ \A calls : Doing(i, calls) => Doing(i, calls)'
<1> DEFINE c == changes[i]
<1>1. changes'[i] = changes[i] /\ c' = c
  OBVIOUS
<1>2. /\ fs'[c.path] = fs[c.path] /\ fs'[Source(c)] = fs[Source(c)]
      /\ fs'[Backup(i)] = fs[Backup(i)] /\ fs'[OldBackup(i)] = fs[OldBackup(i)]
      /\ Moves(c) => fs'[c.old] = fs[c.old]
  BY FilesAre
<1>3. before' = before
  OBVIOUS
<1> HIDE DEF c
<1>4. /\ Untouched(i)' <=> Untouched(i)
      /\ Applied(i)' <=> Applied(i)
      /\ \A e : Backed(i, e)' <=> Backed(i, e)
  BY <1>1, <1>2, <1>3 DEF Untouched, Applied, Backed, Exists, HasTemp, Moves, c
<1>5. /\ PathOver(i) => PathOver(i)'
      /\ SourceOver(i) => SourceOver(i)'
      /\ SourceSafe(i) => SourceSafe(i)'
  BY <1>1, <1>2, <1>3 DEF PathOver, SourceOver, SourceSafe, c
<1>6. \A e : Committed(i, e) => Committed(i, e)'
  <2> SUFFICES ASSUME NEW e, Committed(i, e) PROVE Committed(i, e)'
    OBVIOUS
  <2>1. Backed(i, e.hadOriginal) => Backed(i, e.hadOriginal)'
    BY <1>4
  <2>2. c.op = "edit" => Moves(c)
    BY DEF Moves
  <2> QED BY <1>1, <1>2, <1>3, <1>4, <2>1, <2>2 DEF Committed, c
<1>7. \A e : InPlace(i, e) => InPlace(i, e)'
  <2> SUFFICES ASSUME NEW e, InPlace(i, e) PROVE InPlace(i, e)'
    OBVIOUS
  <2>1. Backed(i, e.hadOriginal) => Backed(i, e.hadOriginal)'
    BY <1>4
  <2> QED BY <1>1, <1>2, <1>3, <1>4, <2>1 DEF InPlace, Exists, c
<1>8. /\ FinalBack(i)' = FinalBack(i) /\ FinalGone(i)' = FinalGone(i) /\ SourceBack(i)' = SourceBack(i)
      /\ MoveBack(i, 0)' = MoveBack(i, 0) /\ MoveBack(i, 1)' = MoveBack(i, 1)
  BY DEF FinalBack, FinalGone, SourceBack, MoveBack, RestoreFinal
<1>9. \A calls : Doing(i, calls) => Doing(i, calls)'
  <2> SUFFICES ASSUME NEW calls, Doing(i, calls) PROVE Doing(i, calls)'
    OBVIOUS
  <2> QED BY <1>1, <1>2, <1>3, <1>5, <1>8 DEF Doing, Over, c
<1>10. Over(i) => Over(i)'
  BY <1>5 DEF Over
<1> QED BY <1>4, <1>6, <1>7, <1>9, <1>10

LEMMA UntouchedIsOver ==
    ASSUME NEW i, Untouched(i)
    PROVE  Over(i)
  BY DEF Untouched, Over, PathOver, SourceOver, Source, Moves

LEMMA CommittedUndo ==
    ASSUME TypeOK, NEW i \in 1..Len(changes), NEW e \in Entry, Fits(changes[i], e), Committed(i, e)
    PROVE  Doing(i, Undo(i, e))
<1> DEFINE c == changes[i]
<1>1. c.op \in {"create", "modify", "delete", "rename", "edit"} /\ (Moves(c) <=> c.op \in {"rename", "edit"})
  BY FilesAre DEF Moves
<1>2. /\ c.op = "edit" => Undo(i, e) = << IF e.hadOriginal THEN FinalBack(i) ELSE FinalGone(i), SourceBack(i) >>
      /\ c.op = "rename" /\ e.hadOriginal => Undo(i, e) = << MoveBack(i, 1), FinalBack(i) >>
      /\ c.op = "rename" /\ ~e.hadOriginal => Undo(i, e) = << MoveBack(i, 0) >>
      /\ c.op \in {"create", "modify"} => Undo(i, e) = << IF e.hadOriginal THEN FinalBack(i) ELSE FinalGone(i) >>
      /\ c.op = "delete" => Undo(i, e) = << FinalBack(i) >>
  BY UndoIs DEF FinalBack, FinalGone, SourceBack, MoveBack
<1>3. /\ IF e.hadOriginal THEN fs[Backup(i)] = before[c.path] ELSE before[c.path] = Absent
      /\ c.op = "edit" => fs[OldBackup(i)] = before[c.old]
      /\ c.op = "rename" => fs[c.path] = before[c.old]
  BY DEF Committed, Applied, Backed
<1>4. ~Moves(c) => SourceSafe(i)
  BY DEF SourceSafe
<1>5. c.op = "delete" => e.hadOriginal
  BY DEF Fits
<1> HIDE DEF c
<1>6. CASE c.op = "edit"
  <2>1. CASE e.hadOriginal
    BY <1>1, <1>2, <1>3, <1>6, <2>1 DEF Doing, c
  <2>2. CASE ~e.hadOriginal
    BY <1>1, <1>2, <1>3, <1>6, <2>2 DEF Doing, c
  <2> QED BY <2>1, <2>2
<1>7. CASE c.op = "rename"
  <2>1. CASE e.hadOriginal
    BY <1>1, <1>2, <1>3, <1>7, <2>1 DEF Doing, c
  <2>2. CASE ~e.hadOriginal
    BY <1>1, <1>2, <1>3, <1>7, <2>2 DEF Doing, c
  <2> QED BY <2>1, <2>2
<1>8. CASE c.op \in {"create", "modify", "delete"}
  <2>1. CASE e.hadOriginal
    BY <1>1, <1>2, <1>3, <1>4, <1>8, <2>1 DEF Doing, c
  <2>2. CASE ~e.hadOriginal
    BY <1>1, <1>2, <1>3, <1>4, <1>5, <1>8, <2>2 DEF Doing, c
  <2> QED BY <2>1, <2>2
<1> QED BY <1>1, <1>6, <1>7, <1>8

LEMMA TailOf == \A x, y : Tail(<< x >>) = <<>> /\ Tail(<< x, y >>) = << y >>
  OBVIOUS

\* A call of the entry of change j, when nothing else touches the files of j.
LEMMA DoingStep ==
    ASSUME TypeOK, Shape, EntriesFit, NEW j \in 1..Len(changes), Doing(j, todo[1]), CallWorks \/ CallFails
    PROVE  /\ Doing(j, todo[1])'
           /\ \A n \in Names \ FilesOf(j) : fs'[n] = fs[n]
<1> DEFINE c == changes[j]
           p == c.path
           o == c.old
           b == Backup(j)
           ob == OldBackup(j)
           s == todo[1][1]
           x == todo[1]
           y == todo'[1]
<1>1. /\ UNCHANGED <<changes, before, told>> /\ x # <<>>
      /\ y \in {Tail(x), <<>>}
      /\ CallWorks \/ s.skips = 0 => y = Tail(x)
      /\ CallFails /\ s.skips = 1 => y = <<>>
  BY CallLeaves
<1>2. /\ CallWorks => /\ Exists(s.from)
                      /\ fs' = IF s.call = "rename" THEN Renamed(fs, s.from, s.to)
                                                    ELSE [fs EXCEPT ![s.from] = Absent]
                      /\ UNCHANGED listed
      /\ CallFails => UNCHANGED fs /\ listed' = listed \cup s.names
  BY CallDoes
<1>3. /\ {p, Source(c), b, ob} \subseteq FilesOf(j) /\ FilesOf(j) \subseteq Names
      /\ Moves(c) => o \in FilesOf(j) /\ o # p /\ o # b /\ o # ob
      /\ p # b /\ p # ob /\ b # ob
      /\ fs \in [Names -> Contents]
  <2>1. /\ {p, Source(c), b, ob} \subseteq FilesOf(j) /\ FilesOf(j) \subseteq Held /\ Held \subseteq Names
        /\ Moves(c) => o = Source(c) /\ o \in FilesOf(j) /\ o # p
        /\ p # b /\ p # ob /\ b # ob /\ Source(c) # b /\ Source(c) # ob
        /\ fs \in [Names -> Contents]
    BY FilesAre
  <2> QED BY <2>1
<1>4. /\ FinalBack(j)' = FinalBack(j) /\ FinalGone(j)' = FinalGone(j) /\ SourceBack(j)' = SourceBack(j)
      /\ c' = c
  BY <1>1 DEF FinalBack, FinalGone, SourceBack, RestoreFinal
<1>5. /\ FinalBack(j) = [call |-> "rename", from |-> b, to |-> p, names |-> {p}, skips |-> 0]
      /\ FinalGone(j) = [call |-> "remove", from |-> p, to |-> p, names |-> {p}, skips |-> 0]
      /\ SourceBack(j) = [call |-> "rename", from |-> ob, to |-> o, names |-> {o}, skips |-> 0]
      /\ \A k : MoveBack(j, k) = [call |-> "rename", from |-> p, to |-> o, names |-> {p, o}, skips |-> k]
  BY DEF FinalBack, FinalGone, SourceBack, MoveBack, RestoreFinal, RemoveFile, RenameBack
<1>6. ASSUME NEW from \in FilesOf(j), NEW to \in FilesOf(j), from # to
      PROVE  LET f == Renamed(fs, from, to) IN
             /\ f[to] = fs[from] /\ f[from] = Absent /\ \A n \in Names \ {from, to} : f[n] = fs[n]
  BY <1>3, <1>6, RenamedIs
<1>7. /\ [fs EXCEPT ![p] = Absent][p] = Absent /\ \A n \in Names \ {p} : [fs EXCEPT ![p] = Absent][n] = fs[n]
  BY <1>3
<1> HIDE DEF c, p, o, b, ob, s, x, y
<1>8. s = x[1] /\ \A u, v : x = << u >> \/ x = << u, v >> => s = u
  BY DEF s, x
<1>0. \/ x = << FinalBack(j) >> /\ SourceSafe(j) /\ fs[b] = before[p]
      \/ x = << FinalGone(j) >> /\ SourceSafe(j) /\ before[p] = Absent
      \/ x = << SourceBack(j) >> /\ Moves(c) /\ PathOver(j) /\ fs[ob] = before[o]
      \/ x = << FinalBack(j), SourceBack(j) >> /\ Moves(c) /\ fs[b] = before[p] /\ fs[ob] = before[o]
      \/ x = << FinalGone(j), SourceBack(j) >> /\ Moves(c) /\ before[p] = Absent /\ fs[ob] = before[o]
      \/ x = << MoveBack(j, 1), FinalBack(j) >> /\ Moves(c) /\ fs[p] = before[o] /\ fs[b] = before[p]
      \/ x = << MoveBack(j, 0) >> /\ Moves(c) /\ fs[p] = before[o] /\ before[p] = Absent
  BY <1>1 DEF Doing, x, c, p, o, b, ob
\* The kinds of call.
<1>9. CASE s = FinalBack(j)
  <2>1. /\ CallWorks => /\ fs'[p] = fs[b] /\ \A n \in Names \ {p, b} : fs'[n] = fs[n]
        /\ CallFails => fs' = fs /\ p \in listed'
        /\ y = Tail(x)
    <3>1. s.call = "rename" /\ s.from = b /\ s.to = p /\ s.names = {p} /\ s.skips = 0
      BY <1>5, <1>9
    <3>2. CallWorks => fs' = Renamed(fs, b, p)
      BY <1>2, <3>1
    <3>3. CallWorks => fs'[p] = fs[b] /\ \A n \in Names \ {p, b} : fs'[n] = fs[n]
      BY <1>3, <1>6, <3>2
    <3>4. CallFails => fs' = fs /\ p \in listed'
      BY <1>2, <3>1
    <3>5. y = Tail(x)
      BY <1>1, <3>1
    <3> QED BY <3>3, <3>4, <3>5
  <2>2. \/ x = << FinalBack(j) >> /\ SourceSafe(j) /\ fs[b] = before[p]
        \/ x = << FinalBack(j), SourceBack(j) >> /\ Moves(c) /\ fs[b] = before[p] /\ fs[ob] = before[o]
    <3>1. FinalBack(j) # FinalGone(j) /\ FinalBack(j) # SourceBack(j) /\ FinalBack(j) # MoveBack(j, 0) /\ FinalBack(j) # MoveBack(j, 1)
      BY <1>3, <1>5
    <3> QED BY <1>0, <1>8, <1>9, <3>1
  <2>3. PathOver(j)'
    <3>1. fs[b] = before[p]
      BY <2>2
    <3>2. CASE CallWorks
      BY <1>1, <1>4, <2>1, <3>1, <3>2 DEF PathOver, c, p
    <3>3. CASE CallFails
      BY <1>1, <1>4, <2>1, <3>1, <3>3 DEF PathOver, Known, c, p, b
    <3> QED BY <3>2, <3>3
  <2>4. fs'[ob] = fs[ob] /\ (Moves(c) => fs'[o] = fs[o]) /\ (\A n \in Names \ FilesOf(j) : fs'[n] = fs[n])
    BY <1>3, <2>1
  <2>5. CASE x = << FinalBack(j) >> /\ SourceSafe(j)
    <3>1. y = <<>>
      BY <2>1, <2>5, TailOf
    <3>2. SourceOver(j)'
      BY <1>1, <1>2, <1>4, <2>4, <2>5 DEF SourceOver, SourceSafe, Known, c, ob, o
    <3> QED BY <2>3, <2>4, <3>1, <3>2 DEF Doing, Over, y
  <2>6. CASE x = << FinalBack(j), SourceBack(j) >> /\ Moves(c) /\ fs[ob] = before[o]
    <3>1. y = << SourceBack(j) >>
      BY <2>1, <2>6, TailOf
    <3>2. Moves(c) /\ fs'[ob] = before[o]
      BY <2>4, <2>6
    <3> QED BY <1>1, <1>4, <2>3, <2>4, <3>1, <3>2 DEF Doing, y, c, o, ob
  <2> QED BY <2>2, <2>5, <2>6
<1>10. CASE s = FinalGone(j)
  <2>1. /\ CallWorks => /\ fs'[p] = Absent /\ \A n \in Names \ {p} : fs'[n] = fs[n]
        /\ CallFails => fs' = fs /\ p \in listed'
        /\ y = Tail(x)
    <3>1. s.call = "remove" /\ s.from = p /\ s.names = {p} /\ s.skips = 0
      BY <1>5, <1>10
    <3>2. CallWorks => fs' = [fs EXCEPT ![p] = Absent]
      BY <1>2, <3>1
    <3>3. CallWorks => fs'[p] = Absent /\ \A n \in Names \ {p} : fs'[n] = fs[n]
      BY <1>7, <3>2
    <3>4. CallFails => fs' = fs /\ p \in listed'
      BY <1>2, <3>1
    <3>5. y = Tail(x)
      BY <1>1, <3>1
    <3> QED BY <3>3, <3>4, <3>5
  <2>2. \/ x = << FinalGone(j) >> /\ SourceSafe(j) /\ before[p] = Absent
        \/ x = << FinalGone(j), SourceBack(j) >> /\ Moves(c) /\ before[p] = Absent /\ fs[ob] = before[o]
    <3>1. FinalGone(j) # FinalBack(j) /\ FinalGone(j) # SourceBack(j) /\ FinalGone(j) # MoveBack(j, 0) /\ FinalGone(j) # MoveBack(j, 1)
      BY <1>3, <1>5
    <3> QED BY <1>0, <1>8, <1>10, <3>1
  <2>3. PathOver(j)'
    <3>1. before[p] = Absent
      BY <2>2
    <3>2. CASE CallWorks
      BY <1>1, <1>4, <2>1, <3>1, <3>2 DEF PathOver, c, p
    <3>3. CASE CallFails
      BY <1>1, <1>4, <2>1, <3>1, <3>3 DEF PathOver, Known, c, p
    <3> QED BY <3>2, <3>3
  <2>4. fs'[ob] = fs[ob] /\ (Moves(c) => fs'[o] = fs[o]) /\ (\A n \in Names \ FilesOf(j) : fs'[n] = fs[n])
    BY <1>3, <2>1
  <2>5. CASE x = << FinalGone(j) >> /\ SourceSafe(j)
    <3>1. y = <<>>
      BY <2>1, <2>5, TailOf
    <3>2. SourceOver(j)'
      BY <1>1, <1>2, <1>4, <2>4, <2>5 DEF SourceOver, SourceSafe, Known, c, ob, o
    <3> QED BY <2>3, <2>4, <3>1, <3>2 DEF Doing, Over, y
  <2>6. CASE x = << FinalGone(j), SourceBack(j) >> /\ Moves(c) /\ fs[ob] = before[o]
    <3>1. y = << SourceBack(j) >>
      BY <2>1, <2>6, TailOf
    <3>2. Moves(c) /\ fs'[ob] = before[o]
      BY <2>4, <2>6
    <3> QED BY <1>1, <1>4, <2>3, <2>4, <3>1, <3>2 DEF Doing, y, c, o, ob
  <2> QED BY <2>2, <2>5, <2>6
<1>11. CASE s = SourceBack(j)
  <2>1. x = << SourceBack(j) >> /\ Moves(c) /\ PathOver(j) /\ fs[ob] = before[o]
    <3>1. SourceBack(j) # FinalBack(j) /\ SourceBack(j) # FinalGone(j)
      BY <1>3, <1>5
    <3>2. Moves(c) => SourceBack(j) # MoveBack(j, 0) /\ SourceBack(j) # MoveBack(j, 1)
      BY <1>3, <1>5
    <3> QED BY <1>0, <1>8, <1>11, <3>1, <3>2
  <2>2. /\ CallWorks => /\ fs'[o] = fs[ob] /\ \A n \in Names \ {o, ob} : fs'[n] = fs[n]
        /\ CallFails => fs' = fs /\ o \in listed'
        /\ y = <<>>
    <3>1. s.call = "rename" /\ s.from = ob /\ s.to = o /\ s.names = {o} /\ s.skips = 0
      BY <1>5, <1>11
    <3>2. CallWorks => fs' = Renamed(fs, ob, o)
      BY <1>2, <3>1
    <3>3. CallWorks => fs'[o] = fs[ob] /\ \A n \in Names \ {o, ob} : fs'[n] = fs[n]
      BY <1>3, <1>6, <2>1, <3>2
    <3>4. CallFails => fs' = fs /\ o \in listed'
      BY <1>2, <3>1
    <3>5. y = <<>>
      BY <1>1, <2>1, <3>1, TailOf
    <3> QED BY <3>3, <3>4, <3>5
  <2>3. fs'[p] = fs[p] /\ fs'[b] = fs[b] /\ (\A n \in Names \ FilesOf(j) : fs'[n] = fs[n]) /\ listed \subseteq listed'
    BY <1>2, <1>3, <2>1, <2>2
  <2>4. PathOver(j)'
    BY <1>1, <1>4, <2>1, <2>3 DEF PathOver, Known, c, p, b
  <2>5. SourceOver(j)'
    <3>1. CASE CallWorks
      BY <1>1, <1>4, <2>1, <2>2, <3>1 DEF SourceOver, c, o
    <3>2. CASE CallFails
      BY <1>1, <1>4, <2>1, <2>2, <3>2 DEF SourceOver, Known, c, o, ob
    <3> QED BY <3>1, <3>2
  <2> QED BY <2>2, <2>3, <2>4, <2>5 DEF Doing, Over, y
<1>12. CASE s = MoveBack(j, 1) /\ x = << MoveBack(j, 1), FinalBack(j) >> /\ Moves(c) /\ fs[p] = before[o] /\ fs[b] = before[p]
  <2>1. /\ CallWorks => /\ fs'[o] = fs[p] /\ \A n \in Names \ {o, p} : fs'[n] = fs[n]
                        /\ y = << FinalBack(j) >>
        /\ CallFails => fs' = fs /\ o \in listed' /\ p \in listed' /\ y = <<>>
    <3>1. s.call = "rename" /\ s.from = p /\ s.to = o /\ s.names = {p, o} /\ s.skips = 1
      BY <1>5, <1>12
    <3>2. CallWorks => fs' = Renamed(fs, p, o)
      BY <1>2, <3>1
    <3>3. CallWorks => fs'[o] = fs[p] /\ \A n \in Names \ {o, p} : fs'[n] = fs[n]
      BY <1>3, <1>6, <1>12, <3>2
    <3>4. CallFails => fs' = fs /\ o \in listed' /\ p \in listed'
      BY <1>2, <3>1
    <3>5. (CallWorks => y = << FinalBack(j) >>) /\ (CallFails => y = <<>>)
      BY <1>1, <1>12, <3>1, TailOf
    <3> QED BY <3>3, <3>4, <3>5
  <2>2. \A n \in Names \ FilesOf(j) : fs'[n] = fs[n]
    BY <1>3, <1>12, <2>1
  <2>3. CASE CallWorks
    <3>1. fs'[b] = before[p] /\ fs'[o] = before[o]
      BY <1>3, <1>12, <2>1, <2>3
    <3>2. SourceSafe(j)'
      BY <1>1, <1>4, <3>1 DEF SourceSafe, c, o
    <3> QED BY <1>1, <1>4, <2>1, <2>2, <2>3, <3>1, <3>2 DEF Doing, y, c, p, b
  <2>4. CASE CallFails
    <3>1. PathOver(j)'
      BY <1>1, <1>4, <1>12, <2>1, <2>4 DEF PathOver, Known, c, p, b
    <3>2. SourceOver(j)'
      BY <1>1, <1>4, <1>12, <2>1, <2>4 DEF SourceOver, Known, c, p, o
    <3> QED BY <2>1, <2>2, <2>4, <3>1, <3>2 DEF Doing, Over, y
  <2> QED BY <2>3, <2>4
<1>13. CASE s = MoveBack(j, 0) /\ x = << MoveBack(j, 0) >> /\ Moves(c) /\ fs[p] = before[o] /\ before[p] = Absent
  <2>1. /\ CallWorks => /\ fs'[o] = fs[p] /\ fs'[p] = Absent /\ \A n \in Names \ {o, p} : fs'[n] = fs[n]
        /\ CallFails => fs' = fs /\ o \in listed' /\ p \in listed'
        /\ y = <<>>
    <3>1. s.call = "rename" /\ s.from = p /\ s.to = o /\ s.names = {p, o} /\ s.skips = 0
      BY <1>5, <1>13
    <3>2. CallWorks => fs' = Renamed(fs, p, o)
      BY <1>2, <3>1
    <3>3. CallWorks => fs'[o] = fs[p] /\ fs'[p] = Absent /\ \A n \in Names \ {o, p} : fs'[n] = fs[n]
      BY <1>3, <1>6, <1>13, <3>2
    <3>4. CallFails => fs' = fs /\ o \in listed' /\ p \in listed'
      BY <1>2, <3>1
    <3>5. y = <<>>
      BY <1>1, <1>13, <3>1, TailOf
    <3> QED BY <3>3, <3>4, <3>5
  <2>2. \A n \in Names \ FilesOf(j) : fs'[n] = fs[n]
    BY <1>3, <1>13, <2>1
  <2>3. PathOver(j)'
    <3>1. CASE CallWorks
      BY <1>1, <1>4, <1>13, <2>1, <3>1 DEF PathOver, c, p
    <3>2. CASE CallFails
      BY <1>1, <1>4, <1>13, <2>1, <3>2 DEF PathOver, Known, c, p
    <3> QED BY <3>1, <3>2
  <2>4. SourceOver(j)'
    <3>1. CASE CallWorks
      BY <1>1, <1>4, <1>13, <2>1, <3>1 DEF SourceOver, c, o
    <3>2. CASE CallFails
      BY <1>1, <1>4, <1>13, <2>1, <3>2 DEF SourceOver, Known, c, o, p
    <3> QED BY <3>1, <3>2
  <2> QED BY <2>1, <2>2, <2>3, <2>4 DEF Doing, Over, y
<1>14. \/ s = FinalBack(j) \/ s = FinalGone(j) \/ s = SourceBack(j)
       \/ s = MoveBack(j, 1) /\ x = << MoveBack(j, 1), FinalBack(j) >> /\ Moves(c) /\ fs[p] = before[o] /\ fs[b] = before[p]
       \/ s = MoveBack(j, 0) /\ x = << MoveBack(j, 0) >> /\ Moves(c) /\ fs[p] = before[o] /\ before[p] = Absent
  BY <1>0, <1>8
<1> QED BY <1>9, <1>10, <1>11, <1>12, <1>13, <1>14

LEMMA EarlyLocal ==
    ASSUME TypeOK, Shape, NEW i \in 1..Len(changes), Local(i),
           StageChange \/ StageFails \/ UserEdits \/ Allowed \/ Denied
    PROVE  Local(i)'
<1>1. /\ Early /\ result = "none" /\ Untouched(i) /\ UNCHANGED <<changes, listed, told>>
      /\ fs \in [Names -> Contents] /\ before \in [Paths -> Contents] /\ at.change \in Indices
  <2>1. Early /\ UNCHANGED <<changes, listed, told>>
    BY DEF StageChange, StageFails, UserEdits, Allowed, Denied, Early, GiveUp
  <2> QED BY <2>1, NowIs DEF Shape, Local, TypeOK
<1>2. Known \subseteq Known'
  BY <1>1 DEF Known
<1>3. /\ FilesOf(i) \subseteq Names /\ \A m \in Indices : Temp(m) \notin FilesOf(i)
      /\ {changes[i].path, Source(changes[i])} \subseteq Paths /\ i \in Indices
  BY FilesAre
<1>4. CASE StageChange
  <2>1. pc' \in {"staging", "asking"} /\ UNCHANGED <<before, result>>
    BY <1>4 DEF StageChange
  <2>2. fs' = fs \/ fs' = [fs EXCEPT ![Temp(at.change)] = <<"new", at.change>>]
    BY <1>4 DEF StageChange
  <2>3. \A n \in FilesOf(i) : fs'[n] = fs[n]
    BY <1>1, <1>3, <2>2
  <2>4. Untouched(i)'
    BY <1>1, <1>2, <2>1, <2>3, Frame
  <2> QED BY <1>1, <2>1, <2>4 DEF Local, Early, Rolling
<1>5. CASE UserEdits
  <2>1. pc' \in {"staging", "asking"} /\ UNCHANGED result
    BY <1>5 DEF UserEdits
  <2>2. PICK p \in Paths : \E content : fs' = [fs EXCEPT ![p] = content] /\ before' = [before EXCEPT ![p] = content]
    BY <1>5 DEF UserEdits
  <2>3. Backup(i) \in Names \ Paths /\ OldBackup(i) \in Names \ Paths /\ Paths \subseteq Names
    BY <1>3, NamesDiffer
  <2>4. fs'[Backup(i)] = fs[Backup(i)] /\ fs'[OldBackup(i)] = fs[OldBackup(i)]
    BY <1>1, <2>2, <2>3
  <2>5. \A q \in Paths : fs[q] = before[q] => fs'[q] = before'[q]
    BY <1>1, <2>2, <2>3
  <2>6. Source(changes[i])' = Source(changes[i])
    BY <1>1 DEF Source, Moves
  <2>7. Untouched(i)'
    BY <1>1, <1>3, <2>4, <2>5, <2>6 DEF Untouched, Exists
  <2> QED BY <1>1, <2>1, <2>7 DEF Local, Early, Rolling
<1>6. CASE Allowed
  <2>1. pc = "asking" /\ pc' = "committing" /\ UNCHANGED <<fs, before, at, committed, result>>
    BY <1>6 DEF Allowed
  <2>2. at.change = 1 /\ at.step = "backup"
    BY <1>1, <2>1 DEF Shape
  <2>3. Untouched(i)'
    BY <1>1, <1>2, <2>1, Frame
  <2>4. ~(i < 1)
    OBVIOUS
  <2> QED BY <1>1, <2>1, <2>2, <2>3, <2>4 DEF Local, Early, Rolling
<1>7. CASE StageFails \/ Denied
  <2>1. pc' = "clearing" /\ result' \in {"not_staged", "denied"} /\ UNCHANGED <<fs, before>>
    BY <1>7 DEF StageFails, Denied, GiveUp
  <2>2. Over(i)'
    BY <1>1, <1>2, <2>1, UntouchedIsOver, Frame
  <2> QED BY <2>1, <2>2 DEF Local, Early, Rolling
<1> QED BY <1>4, <1>5, <1>6, <1>7

LEMMA BackLocal ==
    ASSUME TypeOK, Shape, Disjoint, NEW i \in 1..Len(changes), Local(i), BackUp \/ BackUpSource
    PROVE  Local(i)'
<1> DEFINE k == at.change
<1>1. /\ pc = "committing" /\ pc' = "committing" /\ UNCHANGED <<changes, committed, before, listed, told, result>>
      /\ result = "none" /\ FitsNow
  <2>1. pc = "committing" /\ pc' = "committing" /\ UNCHANGED <<changes, committed, before, listed, told, result>>
    BY DEF BackUp, BackUpSource
  <2> QED BY <2>1 DEF Shape
<1>2. Known \subseteq Known'
  BY <1>1 DEF Known
<1>3. k \in 1..Len(changes) /\ Now = changes[k] /\ k \in Nat /\ at = [change |-> at.change, step |-> at.step, entry |-> at.entry]
  BY NowIs
<1> DEFINE c == changes[k]
<1>4. /\ FilesOf(k) \subseteq Names /\ {c.path, Source(c), Backup(k), OldBackup(k)} \subseteq FilesOf(k)
      /\ Moves(c) => Source(c) = c.old /\ c.old \in FilesOf(k) /\ c.old # c.path
      /\ c.op \in {"create", "modify", "delete", "rename", "edit"}
      /\ c.path # Backup(k) /\ c.path # OldBackup(k) /\ Backup(k) # OldBackup(k)
      /\ Source(c) # Backup(k) /\ Source(c) # OldBackup(k)
      /\ fs \in [Names -> Contents]
  <2> HIDE DEF k
  <2> QED BY <1>3, FilesAre
<1>5. /\ i < k => Committed(i, committed[i])
      /\ i = k => IF at.step = "backup" THEN Untouched(i) ELSE InPlace(i, at.entry)
      /\ i > k => Untouched(i)
  BY <1>1 DEF Local
<1>6. ASSUME at'.change = k, at'.step # "backup", \A n \in Names \ FilesOf(k) : fs'[n] = fs[n],
             NEW e, e = at'.entry, i = k => InPlace(i, e)'
      PROVE  Local(i)'
  <2>1. CASE i = k
    <3>1. InPlace(i, at.entry)'
      BY <1>6, <2>1 DEF InPlace
    <3> QED BY <1>1, <1>3, <1>6, <2>1, <3>1 DEF Local, Early, Rolling
  <2>2. CASE i # k
    <3>1. FilesOf(i) \cap FilesOf(k) = {} /\ FilesOf(i) \subseteq Names
      <4> HIDE DEF k
      <4>1. FilesOf(i) \subseteq Held /\ Held \subseteq Names
        BY FilesAre
      <4> QED BY <1>3, <2>2, <4>1, FilesDiffer
    <3>2. \A n \in FilesOf(i) : fs'[n] = fs[n]
      BY <1>6, <3>1
    <3>3. (Untouched(i) => Untouched(i)') /\ \A f : Committed(i, f) => Committed(i, f)'
      BY <1>1, <1>2, <3>2, Frame
    <3>4. i < k => Committed(i, committed[i])'
      BY <1>1, <1>5, <3>3 DEF Committed
    <3>5. i > k => Untouched(i)'
      BY <1>5, <3>3
    <3> QED BY <1>1, <1>3, <1>6, <2>2, <3>4, <3>5 DEF Local, Early, Rolling
  <2> QED BY <2>1, <2>2
<1>7. CASE BackUp
  <2> DEFINE had == Exists(Now.path) /\ Now.op # "delete"
             v == [disposition |-> Disposition(Now, had), hadOriginal |-> had, oldBackup |-> FALSE]
  <2>0. PICK e : e = v
    OBVIOUS
  <2>1. /\ at.step = "backup" /\ at'.change = k /\ at'.step # "backup" /\ at'.entry = e
        /\ fs' = IF had THEN Renamed(fs, Now.path, Backup(k)) ELSE fs
    <3>1. /\ at.step = "backup"
          /\ fs' = IF had THEN Renamed(fs, Now.path, Backup(k)) ELSE fs
          /\ at' = [at EXCEPT !.step = IF Now.op = "edit" THEN "source" ELSE "move", !.entry = v]
      BY <1>7 DEF BackUp
    <3> QED BY <1>3, <2>0, <3>1
  <2>2. e.hadOriginal = had /\ e.oldBackup = FALSE
    BY <2>0
  <2>3. had <=> (Exists(c.path) /\ c.op # "delete")
    BY <1>3
  <2> HIDE DEF v, had, c
  <2>4. had => /\ fs'[Backup(k)] = fs[c.path] /\ fs'[c.path] = Absent
               /\ \A n \in Names \ {c.path, Backup(k)} : fs'[n] = fs[n]
    <3>1. had => fs' = Renamed(fs, c.path, Backup(k))
      BY <1>3, <2>1 DEF c
    <3> HIDE DEF k
    <3> QED BY <1>4, <3>1, RenamedIs
  <2>5. ~had => fs' = fs
    BY <2>1
  <2>6. \A n \in Names \ FilesOf(k) : fs'[n] = fs[n]
    BY <1>4, <2>4, <2>5
  <2>7. ASSUME i = k PROVE InPlace(i, e)'
    <3>1. /\ fs[c.path] = before[c.path] /\ fs[Source(c)] = before[Source(c)]
          /\ fs[Backup(k)] = Absent /\ fs[OldBackup(k)] = Absent
      BY <1>5, <2>1, <2>7 DEF Untouched, Exists, c
    <3>2. CASE c.op = "delete"
      <4>1. fs' = fs
        BY <2>3, <2>5, <3>2
      <4>2. Untouched(i)'
        BY <1>1, <1>2, <1>5, <2>1, <2>7, <4>1, Frame
      <4> QED BY <1>1, <2>7, <3>2, <4>2 DEF InPlace, c
    <3>3. CASE c.op # "delete" /\ had
      <4>1. /\ fs'[Backup(k)] = before[c.path] /\ fs'[c.path] = Absent
            /\ Moves(c) => fs'[c.old] = before[c.old] /\ fs'[OldBackup(k)] = Absent
        BY <1>4, <2>4, <3>1, <3>3
      <4> QED BY <1>1, <2>2, <2>7, <3>3, <4>1 DEF InPlace, Backed, Exists, c
    <3>4. CASE c.op # "delete" /\ ~had
      <4>1. /\ fs'[Backup(k)] = Absent /\ before[c.path] = Absent /\ fs'[c.path] = Absent
            /\ Moves(c) => fs'[c.old] = before[c.old] /\ fs'[OldBackup(k)] = Absent
        BY <1>4, <2>3, <2>5, <3>1, <3>4 DEF Exists
      <4> QED BY <1>1, <2>2, <2>7, <3>4, <4>1 DEF InPlace, Backed, Exists, c
    <3> QED BY <3>2, <3>3, <3>4
  <2> QED BY <1>6, <2>1, <2>6, <2>7
<1>8. CASE BackUpSource
  <2>0. PICK e : e = [at.entry EXCEPT !.oldBackup = TRUE]
    OBVIOUS
  <2>1. /\ at.step = "source" /\ fs' = Renamed(fs, Now.old, OldBackup(k))
        /\ at' = [at EXCEPT !.step = "move", !.entry.oldBackup = TRUE]
    BY <1>8 DEF BackUpSource
  <2>2. at'.change = k /\ at'.step # "backup" /\ at'.entry = e
    BY <1>3, <2>0, <2>1
  <2>3. Now.op = "edit" /\ ~at.entry.oldBackup /\ at.entry \in Entry
    <3>1. at.entry \in Entry \cup {NoEntry} /\ NoEntry.disposition = "none"
      BY NowIs DEF NoEntry
    <3>2. Now.op = "edit" /\ ~at.entry.oldBackup /\ at.entry.disposition = Disposition(Now, at.entry.hadOriginal)
      BY <1>1, <2>1 DEF FitsNow
    <3>3. Disposition(Now, at.entry.hadOriginal) = "rename"
      BY <3>2 DEF Disposition, Moves
    <3> QED BY <3>1, <3>2, <3>3
  <2>4. e.hadOriginal = at.entry.hadOriginal /\ e.oldBackup = TRUE
    BY <2>0, <2>3 DEF Entry
  <2>5. c.op = "edit" /\ Moves(c) /\ Now.old = c.old
    BY <1>3, <2>3 DEF Moves
  <2> HIDE DEF c
  <2>6. /\ fs'[OldBackup(k)] = fs[c.old] /\ fs'[c.old] = Absent
        /\ \A n \in Names \ {c.old, OldBackup(k)} : fs'[n] = fs[n]
    <3>1. fs' = Renamed(fs, c.old, OldBackup(k))
      BY <2>1, <2>5
    <3> HIDE DEF k
    <3> QED BY <1>4, <2>5, <3>1, RenamedIs
  <2>7. \A n \in Names \ FilesOf(k) : fs'[n] = fs[n]
    BY <1>4, <2>5, <2>6
  <2>8. ASSUME i = k PROVE InPlace(i, e)'
    <3>1. /\ IF at.entry.hadOriginal THEN fs[Backup(k)] = before[c.path]
                                     ELSE fs[Backup(k)] = Absent /\ before[c.path] = Absent
          /\ fs[c.path] = Absent /\ fs[c.old] = before[c.old]
      <4>1. InPlace(i, at.entry)
        BY <1>5, <2>1, <2>8
      <4> QED BY <2>3, <2>5, <2>8, <4>1 DEF InPlace, Backed, Exists, c
    <3>2. /\ IF at.entry.hadOriginal THEN fs'[Backup(k)] = before[c.path]
                                     ELSE fs'[Backup(k)] = Absent /\ before[c.path] = Absent
          /\ fs'[c.path] = Absent /\ fs'[OldBackup(k)] = before[c.old] /\ fs'[c.old] = Absent
      BY <1>4, <2>5, <2>6, <3>1
    <3> QED BY <1>1, <2>4, <2>5, <2>8, <3>2 DEF InPlace, Backed, Exists, c
  <2> QED BY <1>6, <2>2, <2>7, <2>8
<1> QED BY <1>7, <1>8

LEMMA MoveLocal ==
    ASSUME TypeOK, Shape, TempsHeld, Disjoint, NEW i \in 1..Len(changes), Local(i), Move
    PROVE  Local(i)'
<1>0. PICK k, c : k = at.change /\ c = changes[k]
  OBVIOUS
<1> DEFINE E == IF Now.op = "delete" THEN [at.entry EXCEPT !.hadOriginal = TRUE] ELSE at.entry
<1>1. /\ pc = "committing" /\ at.step = "move" /\ UNCHANGED <<changes, before, listed, told>>
      /\ fs' = Renamed(fs, MovedFrom, MovedTo) /\ committed' = Append(committed, E)
  BY DEF Move
<1>2. Known \subseteq Known'
  BY <1>1 DEF Known
<1>3. k \in 1..Len(changes) /\ Now = c /\ k \in Nat /\ Len(changes) \in Nat
  BY <1>0, NowIs, ChangesIs
<1>4. /\ FilesOf(k) \subseteq Names /\ {c.path, Source(c), Backup(k), OldBackup(k)} \subseteq FilesOf(k)
      /\ Moves(c) => Source(c) = c.old /\ c.old \in FilesOf(k) /\ c.old # c.path
      /\ c.op \in {"create", "modify", "delete", "rename", "edit"}
      /\ c.path # Backup(k) /\ c.path # OldBackup(k) /\ Backup(k) # OldBackup(k)
      /\ Source(c) # Backup(k) /\ Source(c) # OldBackup(k)
      /\ fs \in [Names -> Contents]
      /\ Temp(k) \in Names /\ Temp(k) \notin FilesOf(k) /\ k \in Indices
  <2>1. k \in Indices /\ Temp(k) \in Names
    BY <1>0, NowIs, NamesDiffer
  <2> QED BY <1>0, <1>3, <2>1, FilesAre
<1>5. /\ i < k => Committed(i, committed[i])
      /\ i = k => InPlace(i, at.entry)
      /\ i > k => Untouched(i)
  <2>1. at.step # "backup"
    BY <1>1
  <2> QED BY <1>0, <1>1, <2>1 DEF Local
<1>6. PICK e : e = E
  OBVIOUS
<1>7. /\ e \in Entry
      /\ Now.op # "delete" => e = at.entry
      /\ e.hadOriginal <=> Now.op = "delete" \/ at.entry.hadOriginal
      /\ e.oldBackup = at.entry.oldBackup
      /\ (e.oldBackup <=> Now.op = "edit")
  <2>1. FitsNow
    BY <1>1 DEF Shape
  <2>2. /\ e \in Entry /\ Fits(Now, e)
        /\ Now.op # "delete" => e = at.entry
        /\ e.hadOriginal <=> Now.op = "delete" \/ at.entry.hadOriginal
        /\ e.oldBackup = at.entry.oldBackup
    BY <1>1, <1>6, <2>1, EntryNow
  <2> QED BY <2>2 DEF Fits
<1>8. /\ Len(committed) = k - 1 /\ committed'[k] = e
      /\ \A m \in 1..Len(committed) : committed'[m] = committed[m]
  <2>1. committed \in Seq(Entry) /\ Len(committed) \in Nat /\ e \in Entry /\ Len(committed) = k - 1
    <3>1. e \in Entry
      <4>1. FitsNow
        BY <1>1 DEF Shape
      <4> QED BY <1>1, <1>6, <4>1, EntryNow
    <3> QED BY <1>0, <1>1, <3>1 DEF TypeOK, Shape
  <2>2. committed' = Append(committed, e)
    BY <1>1, <1>6
  <2> HIDE DEF E
  <2>3. Append(committed, e)[Len(committed) + 1] = e /\ \A m \in 1..Len(committed) : Append(committed, e)[m] = committed[m]
    BY <2>1, AppendIs
  <2>4. Len(committed) + 1 = k
    BY <1>3, <2>1
  <2> QED BY <2>1, <2>2, <2>3, <2>4
<1>9. /\ fs'[MovedTo] = fs[MovedFrom] /\ fs'[MovedFrom] = Absent
      /\ \A n \in Names \ {MovedFrom, MovedTo} : fs'[n] = fs[n]
  BY <1>1, <1>4, MovedIs, RenamedIs
<1>10. /\ HasTemp(c) => MovedFrom = Temp(k)
       /\ ~HasTemp(c) => MovedFrom = Source(c)
       /\ MovedTo = IF c.op = "delete" THEN Backup(k) ELSE c.path
       /\ HasTemp(c) <=> c.op \in {"create", "modify", "edit"}
       /\ Moves(c) <=> c.op \in {"rename", "edit"}
       /\ ~Moves(c) => Source(c) = c.path
  BY <1>0, <1>3 DEF MovedFrom, MovedTo, HasTemp, Moves, Source
<1>11. \A n \in Names \ (FilesOf(k) \cup {Temp(k)}) : fs'[n] = fs[n]
  BY <1>4, <1>9, <1>10
<1> HIDE DEF E
<1>12. ASSUME i = k PROVE Committed(i, e)'
  <2>1. InPlace(k, at.entry)
    BY <1>5, <1>12
  <2>3. changes[k] = c /\ changes'[k] = c /\ before' = before
    BY <1>0, <1>1
  <2>4. CASE HasTemp(c)
    <3>1. fs[Temp(k)] = <<"new", k>>
      BY <1>0, <1>1, <1>0, <1>3, <2>4 DEF TempsHeld
    <3>2. MovedTo = c.path
      BY <1>10, <2>4
    <3>3. fs'[c.path] = <<"new", k>> /\ \A n \in FilesOf(k) \ {c.path} : fs'[n] = fs[n]
      BY <1>4, <1>9, <1>10, <2>4, <3>1, <3>2
    <3>4. e = at.entry /\ c.op # "delete"
      BY <1>3, <1>7, <1>10, <2>4
    <3>5. /\ IF e.hadOriginal THEN fs[Backup(k)] = before[c.path]
                              ELSE fs[Backup(k)] = Absent /\ before[c.path] = Absent
          /\ c.op = "edit" => fs[OldBackup(k)] = before[c.old] /\ fs[c.old] = Absent
      BY <1>3, <1>7, <1>10, <2>1, <2>3, <3>4 DEF InPlace, Backed, Exists
    <3>6. /\ IF e.hadOriginal THEN fs'[Backup(k)] = before[c.path]
                              ELSE fs'[Backup(k)] = Absent /\ before[c.path] = Absent
          /\ c.op = "edit" => fs'[OldBackup(k)] = before[c.old] /\ fs'[c.old] = Absent
      BY <1>4, <1>10, <3>3, <3>5
    <3>7. Applied(k)'
      BY <1>10, <2>3, <2>4, <3>3, <3>4, <3>6 DEF Applied, Exists
    <3>8. Backed(k, e.hadOriginal)'
      BY <2>3, <3>6 DEF Backed, Exists
    <3> QED BY <1>12, <2>3, <3>6, <3>7, <3>8 DEF Committed
  <2>5. CASE c.op = "rename"
    <3>1. MovedFrom = c.old /\ MovedTo = c.path
      BY <1>4, <1>10, <2>5
    <3>2. e = at.entry /\ ~e.oldBackup
      BY <1>3, <1>7, <2>5
    <3>3. /\ IF e.hadOriginal THEN fs[Backup(k)] = before[c.path]
                              ELSE fs[Backup(k)] = Absent /\ before[c.path] = Absent
          /\ fs[c.old] = before[c.old]
      BY <1>10, <2>1, <2>3, <2>5, <3>2 DEF InPlace, Backed, Exists
    <3>4. fs'[c.path] = before[c.old] /\ fs'[c.old] = Absent /\ fs'[Backup(k)] = fs[Backup(k)]
      BY <1>4, <1>9, <1>10, <2>5, <3>1, <3>3
    <3>5. Applied(k)'
      BY <1>10, <2>3, <2>5, <3>4 DEF Applied, Exists
    <3>6. Backed(k, e.hadOriginal)'
      BY <2>3, <3>3, <3>4 DEF Backed, Exists
    <3> QED BY <1>12, <2>3, <2>5, <3>5, <3>6 DEF Committed
  <2>6. CASE c.op = "delete"
    <3>1. MovedFrom = c.path /\ MovedTo = Backup(k) /\ e.hadOriginal
      BY <1>3, <1>7, <1>10, <2>6
    <3>2. fs[c.path] = before[c.path]
      BY <2>1, <2>3, <2>6 DEF InPlace, Untouched
    <3>3. fs'[Backup(k)] = before[c.path] /\ fs'[c.path] = Absent
      BY <1>9, <3>1, <3>2
    <3>4. Applied(k)'
      BY <1>10, <2>3, <2>6, <3>3 DEF Applied, Exists
    <3>5. Backed(k, e.hadOriginal)'
      BY <2>3, <3>1, <3>3 DEF Backed
    <3> QED BY <1>12, <2>3, <2>6, <3>4, <3>5 DEF Committed
  <2> QED BY <1>4, <1>10, <2>4, <2>5, <2>6
<1>13. ASSUME i # k
       PROVE  (Untouched(i) => Untouched(i)') /\ \A f : Committed(i, f) => Committed(i, f)'
  <2>1. FilesOf(i) \cap FilesOf(k) = {} /\ FilesOf(i) \subseteq Names /\ Temp(k) \notin FilesOf(i)
    <3>1. FilesOf(i) \subseteq Held /\ Held \subseteq Names /\ \A m \in Indices : Temp(m) \notin FilesOf(i)
      BY FilesAre
    <3> QED BY <1>3, <1>4, <1>13, <3>1, FilesDiffer
  <2>2. \A n \in FilesOf(i) : fs'[n] = fs[n]
    BY <1>11, <2>1
  <2> QED BY <1>1, <1>2, <2>2, Frame
<1>14. i <= k => Committed(i, committed[i])'
  <2>1. CASE i = k
    BY <1>8, <1>12, <2>1 DEF Committed
  <2>2. CASE i < k
    <3>1. i \in 1..Len(committed)
      BY <1>3, <1>8, <2>2
    <3>2. committed'[i] = committed[i]
      BY <1>8, <3>1
    <3>3. PICK f : f = committed[i]
      OBVIOUS
    <3>4. Committed(i, f)'
      BY <1>5, <1>13, <2>2, <3>3
    <3> QED BY <3>2, <3>3, <3>4 DEF Committed
  <2> QED BY <1>3, <2>1, <2>2
<1>15. i > k => Untouched(i)'
  BY <1>3, <1>5, <1>13
<1>16. CASE k < Len(changes)
  <2>1. pc' = "committing" /\ at'.change = k + 1 /\ at'.step = "backup" /\ result' = "none"
    <3>1. result = "none"
      BY <1>1 DEF Shape
    <3> QED BY <1>0, <1>16, <3>1 DEF Move
  <2>2. (i < k + 1 => i <= k) /\ (i >= k + 1 => i > k)
    BY <1>3
  <2>3. /\ i < at'.change => Committed(i, committed[i])'
        /\ i = at'.change => Untouched(i)'
        /\ i > at'.change => Untouched(i)'
    <3> HIDE DEF Committed, Untouched
    <3>1. (i = k + 1 => i > k) /\ (i > k + 1 => i > k)
      BY <1>3
    <3> QED BY <1>14, <1>15, <2>1, <2>2, <3>1
  <2> QED BY <2>1, <2>3 DEF Local, Early, Rolling
<1>17. CASE ~(k < Len(changes))
  <2>1. pc' = "clearing" /\ result' = "ok"
    BY <1>0, <1>17 DEF Move, GiveUp
  <2>2. i <= k
    BY <1>3, <1>17
  <2>3. Applied(i)'
    BY <1>14, <2>2 DEF Committed
  <2> QED BY <2>1, <2>3 DEF Local, Early, Rolling
<1> QED BY <1>16, <1>17

LEMMA FailLocal ==
    ASSUME TypeOK, Shape, Disjoint, NEW i \in 1..Len(changes), Local(i),
           BackUpFails \/ BackUpSourceFails \/ MoveFails
    PROVE  Local(i)'
<1> DEFINE k == at.change
           c == changes[k]
           n == Len(changes)
           m == Len(committed)
           left == Len(todo') - n
<1>1. /\ pc = "committing" /\ pc' = "clearing" /\ UNCHANGED <<changes, before, committed, at, listed>>
      /\ result' \in {"backup_failed", "commit_failed"} /\ FitsNow /\ told = {}
  <2>1. /\ pc = "committing" /\ pc' = "clearing" /\ UNCHANGED <<changes, before, committed, at, listed>>
        /\ result' \in {"backup_failed", "commit_failed"}
    BY DEF BackUpFails, BackUpSourceFails, MoveFails, GiveUp
  <2> QED BY <2>1 DEF Shape
<1>2. Known \subseteq Known'
  BY <1>1 DEF Known
<1>3. k \in 1..n /\ Now = c /\ k \in Nat /\ n \in Nat /\ m \in Nat /\ m = k - 1 /\ Left' = left
  <2>1. k \in 1..n /\ Now = c /\ k \in Nat /\ n \in Nat
    BY NowIs, ChangesIs
  <2>2. m \in Nat /\ m = k - 1
    BY <1>1 DEF TypeOK, Shape
  <2> QED BY <1>1, <2>1, <2>2 DEF Left
<1>4. /\ FilesOf(k) \subseteq Names /\ {c.path, Source(c), Backup(k), OldBackup(k)} \subseteq FilesOf(k)
      /\ Moves(c) => Source(c) = c.old /\ c.old \in FilesOf(k) /\ c.old # c.path
      /\ c.op \in {"create", "modify", "delete", "rename", "edit"}
      /\ c.path # Backup(k) /\ c.path # OldBackup(k) /\ Backup(k) # OldBackup(k)
      /\ Source(c) # Backup(k) /\ Source(c) # OldBackup(k)
      /\ fs \in [Names -> Contents]
  <2> HIDE DEF k, n
  <2> QED BY <1>3, FilesAre DEF n
<1>5. /\ i < k => Committed(i, committed[i])
      /\ i = k => IF at.step = "backup" THEN Untouched(i) ELSE InPlace(i, at.entry)
      /\ i > k => Untouched(i)
  BY <1>1 DEF Local
<1>6. /\ n >= 1 /\ Len(Rollback) = m + n /\ Len(<< SelfRepair >> \o Rollback) = m + 1 + n
      /\ (<< SelfRepair >> \o Rollback)[1] = SelfRepair
      /\ \A j \in 1..m : Rollback[m+1-j] = UndoEntry(j)
  BY <1>1, RollbackStarts
<1>7. ASSUME left \in {m, m + 1},
             i < left => Committed(i, committed[i])',
             NEW y, y = todo'[1], i = left => Doing(i, y)',
             i > left => Over(i)'
      PROVE  Local(i)'
  <2>1. i = left => Doing(i, todo[1])'
    BY <1>7 DEF Doing
  <2> QED BY <1>1, <1>3, <1>7, <2>1 DEF Local, Early, Rolling
<1>8. ASSUME i # k \/ fs' = fs
      PROVE  /\ Untouched(i) => Untouched(i)' /\ Over(i)'
             /\ \A f : Committed(i, f) => Committed(i, f)'
             /\ \A f : Doing(i, f) => Doing(i, f)'
             /\ Over(i) => Over(i)'
  <2>1. \A x \in FilesOf(i) : fs'[x] = fs[x]
    <3>1. CASE fs' = fs
      BY <3>1
    <3>2. CASE i # k /\ fs' # fs
      <4>1. FilesOf(i) \cap FilesOf(k) = {} /\ FilesOf(i) \subseteq Names
        <5>1. FilesOf(i) \subseteq Held /\ Held \subseteq Names
          BY FilesAre
        <5> HIDE DEF k, n
        <5> QED BY <1>3, <3>2, <5>1, FilesDiffer DEF n
      <4>2. Moves(c) /\ fs' = Renamed(fs, OldBackup(k), c.old)
        <5>1. at.entry.oldBackup /\ fs' = Renamed(fs, OldBackup(k), Now.old)
          BY <3>2 DEF BackUpFails, BackUpSourceFails, MoveFails
        <5>2. Now.op = "edit"
          <6>1. NoEntry.oldBackup = FALSE
            BY DEF NoEntry
          <6> QED BY <1>1, <5>1, <6>1 DEF FitsNow
        <5> QED BY <1>3, <5>1, <5>2 DEF Moves
      <4>3. \A x \in Names \ {OldBackup(k), c.old} : fs'[x] = fs[x]
        <5> HIDE DEF k, c
        <5> QED BY <1>4, <4>2, RenamedIs
      <4> QED BY <1>4, <4>1, <4>2, <4>3
    <3> QED BY <1>8, <3>1, <3>2
  <2>2. /\ Untouched(i) => Untouched(i)'
        /\ \A f : Committed(i, f) => Committed(i, f)'
        /\ \A f : Doing(i, f) => Doing(i, f)'
        /\ Over(i) => Over(i)'
    BY <1>1, <1>2, <2>1, Frame
  <2>3. Untouched(i) => Over(i)
    BY UntouchedIsOver
  <2> QED BY <2>2, <2>3
<1>9. i < k => Committed(i, committed[i])'
  <2> HAVE i < k
  <2>1. PICK f : f = committed[i]
    OBVIOUS
  <2>2. i # k /\ Committed(i, f)
    BY <1>3, <1>5, <2>1
  <2>3. Committed(i, f)'
    BY <1>8, <2>2
  <2> QED BY <1>1, <2>1, <2>3 DEF Committed
<1>10. i > k => Over(i)'
  <2> HAVE i > k
  <2>1. i # k /\ Untouched(i)
    BY <1>3, <1>5
  <2> QED BY <1>8, <2>1
<1>11. PICK y : y = todo'[1]
  OBVIOUS
<1>12. CASE BackUpFails
  <2>1. todo' = Rollback /\ fs' = fs /\ at.step = "backup"
    BY <1>12 DEF BackUpFails, GiveUp
  <2>2. left = m
    BY <1>3, <1>6, <2>1
  <2>3. i = m => Doing(i, y)'
    <3> HAVE i = m
    <3>1. i \in 1..m /\ i < k /\ m+1-i = 1
      BY <1>3
    <3>2. y = UndoEntry(i)
      BY <1>6, <1>11, <2>1, <3>1
    <3>3. committed[i] \in Entry /\ Fits(changes[i], committed[i]) /\ Committed(i, committed[i])
      <4>1. committed \in Seq(Entry) /\ i \in 1..Len(committed)
        BY <3>1 DEF TypeOK
      <4> QED BY <1>5, <3>1, <4>1 DEF Shape
    <3>4. Doing(i, y)
      BY <3>2, <3>3, CommittedUndo DEF UndoEntry
    <3> QED BY <1>8, <2>1, <3>4
  <2>4. i > m => Over(i)'
    <3>1. CASE i = k
      BY <1>5, <1>8, <2>1, <3>1
    <3>2. CASE i > k
      BY <1>10, <3>2
    <3> QED BY <1>3, <3>1, <3>2
  <2>5. i < m => Committed(i, committed[i])'
    BY <1>3, <1>9
  <2> QED BY <1>7, <1>11, <2>2, <2>3, <2>4, <2>5
<1>13. CASE BackUpSourceFails \/ MoveFails
  <2>1. todo' = << SelfRepair >> \o Rollback /\ at.step \in {"source", "move"} /\ at.step # "backup"
    BY <1>13 DEF BackUpSourceFails, MoveFails, GiveUp
  <2>2. left = m + 1 /\ m + 1 = k
    BY <1>3, <1>6, <2>1
  <2>3. ASSUME i = k PROVE Doing(i, y)'
    <3> DEFINE had == at.entry.hadOriginal
    <3>1. y = IF had THEN << FinalBack(k) >> ELSE <<>>
      BY <1>3, <1>6, <1>11, <2>1 DEF SelfRepair, FinalBack
    <3>2. InPlace(k, at.entry)
      BY <1>5, <2>1, <2>3
    <3>4. FinalBack(i)' = FinalBack(i)
      BY <1>1 DEF FinalBack, RestoreFinal
    <3>5. /\ at.entry.disposition = Disposition(Now, had)
          /\ Now.op = "delete" => ~had
          /\ at.entry.oldBackup <=> (Now.op = "edit" /\ at.step = "move")
      BY <1>1, <2>1 DEF FitsNow
    <3>6. CASE c.op = "delete"
      <4>1. Untouched(i) /\ fs' = fs /\ y = <<>>
        <5>1. Untouched(i) /\ ~had /\ ~at.entry.oldBackup /\ at.step = "move"
          <6>1. at.step # "source"
            BY <1>1, <1>3, <3>6 DEF FitsNow
          <6> QED BY <1>3, <2>1, <2>3, <3>2, <3>5, <3>6, <6>1 DEF InPlace
        <5> QED BY <1>13, <3>1, <5>1 DEF BackUpSourceFails, MoveFails
      <4> QED BY <1>8, <4>1 DEF Doing
    <3>7. CASE c.op # "delete"
      <4>1. /\ IF had THEN fs[Backup(k)] = before[c.path]
                      ELSE fs[Backup(k)] = Absent /\ before[c.path] = Absent
            /\ fs[c.path] = Absent
            /\ Moves(c) => IF at.entry.oldBackup THEN fs[OldBackup(k)] = before[c.old] ELSE fs[c.old] = before[c.old]
        BY <3>2, <3>7 DEF InPlace, Backed, Exists
      <4>2. /\ fs'[c.path] = fs[c.path] /\ fs'[Backup(k)] = fs[Backup(k)]
            /\ Moves(c) => \/ fs'[c.old] = before[c.old]
                           \/ c.old \in told' /\ fs'[OldBackup(k)] = before[c.old]
        <5>1. CASE ~at.entry.oldBackup
          <6>1. fs' = fs
            BY <1>13, <5>1 DEF BackUpSourceFails, MoveFails
          <6> QED BY <4>1, <5>1, <6>1
        <5>2. CASE at.entry.oldBackup
          <6>1. Moves(c) /\ MoveFails
            <7>1. at.step = "move" /\ Now.op = "edit"
              BY <3>5, <5>2
            <7> QED BY <1>3, <1>13, <7>1 DEF Moves, BackUpSourceFails
          <6>2. CASE fs' = Renamed(fs, OldBackup(k), c.old)
            <7>1. fs'[c.old] = fs[OldBackup(k)] /\ \A x \in Names \ {OldBackup(k), c.old} : fs'[x] = fs[x]
              <8> HIDE DEF k, c
              <8> QED BY <1>4, <6>1, <6>2, RenamedIs
            <7> QED BY <1>4, <4>1, <5>2, <6>1, <7>1
          <6>3. CASE fs' = fs /\ told' = {c.old}
            BY <4>1, <5>2, <6>1, <6>3
          <6> QED BY <1>3, <5>2, <6>1, <6>2, <6>3 DEF MoveFails
        <5> QED BY <5>1, <5>2
      <4>3. SourceSafe(i)'
        BY <1>1, <2>3, <4>2 DEF SourceSafe, Known
      <4>4. CASE had
        <5>1. fs'[Backup(k)] = before[c.path] /\ y = << FinalBack(i) >>
          BY <2>3, <3>1, <4>1, <4>2, <4>4
        <5> QED BY <1>1, <2>3, <3>4, <4>3, <5>1 DEF Doing
      <4>5. CASE ~had
        <5>1. fs'[c.path] = before[c.path] /\ before[c.path] = Absent /\ y = <<>>
          BY <3>1, <4>1, <4>2, <4>5
        <5>2. PathOver(i)'
          BY <1>1, <2>3, <5>1 DEF PathOver
        <5>3. SourceOver(i)'
          BY <4>3 DEF SourceOver, SourceSafe
        <5> QED BY <5>1, <5>2, <5>3 DEF Doing, Over
      <4> QED BY <4>4, <4>5
    <3> QED BY <3>6, <3>7
  <2> QED BY <1>7, <1>9, <1>10, <1>11, <2>2, <2>3
<1> QED BY <1>12, <1>13

LEMMA CallLocal ==
    ASSUME TypeOK, Shape, EntriesFit, RollbackShape, GivenUpShape, CleanupShape, Disjoint,
           \A j \in 1..Len(changes) : Local(j), NEW i \in 1..Len(changes), CallWorks \/ CallFails
    PROVE  Local(i)'
<1> DEFINE s == todo[1][1]
<1>1. /\ pc = "clearing" /\ UNCHANGED <<changes, pc, at, committed, result, told, before>>
      /\ todo # <<>> /\ todo[1] # <<>> /\ Len(todo') = Len(todo) /\ Len(todo) \in Nat \ {0}
  BY CallLeaves
<1>2. /\ s.from \in Names /\ s.to \in Names
      /\ CallWorks => fs' = IF s.call = "rename" THEN Renamed(fs, s.from, s.to)
                                                 ELSE [fs EXCEPT ![s.from] = Absent]
      /\ CallWorks => UNCHANGED listed
      /\ CallFails => UNCHANGED fs /\ listed' = listed \cup s.names
      /\ fs \in [Names -> Contents]
  BY CallDoes
<1>3. Known \subseteq Known'
  BY <1>1, <1>2 DEF Known
<1>4. /\ FilesOf(i) \subseteq Names /\ \A m \in Indices : Temp(m) \notin FilesOf(i)
      /\ {changes[i].path, Source(changes[i])} \subseteq FilesOf(i) /\ {changes[i].path, Source(changes[i])} \subseteq Paths
      /\ Moves(changes[i]) => Source(changes[i]) = changes[i].old
      /\ i \in Indices
  <2>1. /\ FilesOf(i) \subseteq Held /\ Held \subseteq Names /\ \A m \in Indices : Temp(m) \notin FilesOf(i)
        /\ {changes[i].path, Source(changes[i])} \subseteq FilesOf(i)
        /\ changes[i].path \in Paths /\ Source(changes[i]) \in Paths
        /\ Moves(changes[i]) => Source(changes[i]) = changes[i].old
        /\ i \in Indices
    BY FilesAre
  <2> QED BY <2>1
<1>5. ASSUME \A n \in FilesOf(i) : fs'[n] = fs[n]
      PROVE  /\ Untouched(i) => Untouched(i)'
             /\ Over(i) => Over(i)'
             /\ \A f : Committed(i, f) => Committed(i, f)'
             /\ \A f : Doing(i, f) => Doing(i, f)'
  BY <1>1, <1>3, <1>5, Frame
<1>6. ASSUME NEW n, s = RemoveFile(n, s.names)
      PROVE  \A m \in Names \ {n} : fs'[m] = fs[m]
  <2>1. s.from = n /\ s.call = "remove"
    BY <1>6 DEF RemoveFile
  <2> HIDE DEF s
  <2> QED BY <1>2, <2>1
<1>7. 1 \in 1..Len(todo) /\ 1 \in 1..Len(todo[1])
  <2>1. todo[1] \in Seq(Call)
    <3>1. HasCall
      BY <1>1 DEF HasCall
    <3> QED BY <3>1, CallIs
  <2>2. Len(todo[1]) \in Nat \ {0}
    BY <1>1, <2>1, TailIs
  <2> QED BY <1>1, <2>2
<1>8. CASE result = "ok"
  <2>1. PICK k \in Indices : s \in {RemoveFile(Backup(k), {}), RemoveFile(OldBackup(k), {})}
    BY <1>1, <1>7, <1>8 DEF CleanupShape
  <2>2. \A p \in Paths : fs'[p] = fs[p]
    <3>1. PICK n \in {Backup(k), OldBackup(k)} : s = RemoveFile(n, {})
      BY <2>1
    <3>2. s.names = {}
      BY <3>1 DEF RemoveFile
    <3>3. n \notin Paths /\ Paths \subseteq Names
      BY <3>1, NamesDiffer
    <3>4. s = RemoveFile(n, s.names)
      BY <3>1, <3>2
    <3>5. \A m \in Names \ {n} : fs'[m] = fs[m]
      BY <1>6, <3>4
    <3> QED BY <3>3, <3>5
  <2>3. Applied(i)
    BY <1>1, <1>8 DEF Local
  <2>4. /\ fs'[changes[i].path] = fs[changes[i].path]
        /\ Moves(changes[i]) => fs'[changes[i].old] = fs[changes[i].old]
    BY <1>4, <2>2
  <2>5. Applied(i)'
    BY <1>1, <2>3, <2>4 DEF Applied, Exists
  <2> QED BY <1>1, <1>8, <2>5 DEF Local, Early, Rolling
<1>9. CASE result \in {"not_staged", "denied"}
  <2>1. PICK m \in Indices : todo[1] = << RemoveFile(Temp(m), {Temp(m)}) >>
    BY <1>1, <1>7, <1>9 DEF GivenUpShape
  <2>2. s = RemoveFile(Temp(m), {Temp(m)}) /\ s.names = {Temp(m)}
    <3>1. s = RemoveFile(Temp(m), {Temp(m)})
      BY <2>1
    <3>2. RemoveFile(Temp(m), {Temp(m)}).names = {Temp(m)}
      BY DEF RemoveFile
    <3> QED BY <3>1, <3>2
  <2>3. \A n \in FilesOf(i) : fs'[n] = fs[n]
    BY <1>4, <1>6, <2>2
  <2>4. Over(i)'
    BY <1>5, <1>9, <2>3 DEF Local
  <2> QED BY <1>1, <1>9, <2>4 DEF Local, Early, Rolling
<1>10. CASE Rolling
  <2> DEFINE j == Left
             n == Len(changes)
  <2>1. /\ Left' = j /\ n \in Nat /\ Len(committed) \in Nat /\ j = Len(todo) - n /\ j <= Len(committed) + 1
        /\ Len(committed) = at.change - 1 /\ at.change \in 1..n
        /\ \A m \in 1..n : j + m = 1 => todo[1] \in {TempEntry(m), <<>>}
    <3>1. Left' = j /\ j = Len(todo) - n
      BY <1>1 DEF Left
    <3>2. n \in Nat /\ Len(committed) \in Nat /\ at.change \in 1..n
      BY ChangesIs, NowIs DEF TypeOK
    <3>3. j <= Len(committed) + 1 /\ \A m \in 1..n : j + m = 1 => todo[1] \in {TempEntry(m), <<>>}
      BY <1>1, <1>10 DEF RollbackShape
    <3> QED BY <1>1, <1>10, <3>1, <3>2, <3>3 DEF Shape
  <2>2. /\ i < j => Committed(i, committed[i])
        /\ i = j => Doing(i, todo[1])
        /\ i > j => Over(i)
    BY <1>1, <1>10 DEF Local
  <2>3. ASSUME i < j => Committed(i, committed[i])', i = j => Doing(i, todo[1])', i > j => Over(i)'
        PROVE  Local(i)'
    <3>1. result \notin {"ok", "not_staged", "denied"}
      BY <1>10 DEF Rolling
    <3> HIDE DEF j
    <3> QED BY <1>1, <1>10, <2>1, <2>3, <3>1 DEF Local, Early, Rolling
  <2>4. CASE j >= 1
    <3>0. PICK l : l = j
      OBVIOUS
    <3>1. l \in 1..n
      BY <1>1, <2>1, <2>4, <3>0
    <3>2. Doing(l, todo[1])
      BY <1>1, <1>10, <3>0, <3>1 DEF Local
    <3>3. Doing(l, todo[1])' /\ \A m \in Names \ FilesOf(l) : fs'[m] = fs[m]
      BY <3>1, <3>2, DoingStep
    <3>4. CASE i = l
      <4>1. ~(i < j) /\ ~(i > j)
        BY <2>1, <3>0, <3>1, <3>4
      <4>2. Doing(i, todo[1])'
        BY <3>3, <3>4
      <4> HIDE DEF j
      <4> QED BY <2>3, <4>1, <4>2
    <3>5. CASE i # l
      <4>1. FilesOf(i) \cap FilesOf(l) = {}
        BY <3>1, <3>5, FilesDiffer
      <4>2. \A m \in FilesOf(i) : fs'[m] = fs[m]
        BY <1>4, <3>3, <4>1
      <4>3. i < j => Committed(i, committed[i])'
        <5> HAVE i < j
        <5>1. PICK f : f = committed[i]
          OBVIOUS
        <5>2. Committed(i, f)'
          BY <1>5, <2>2, <4>2, <5>1
        <5> QED BY <1>1, <5>1, <5>2 DEF Committed
      <4>4. i > j => Over(i)'
        BY <1>5, <2>2, <4>2
      <4>5. ~(i = j)
        BY <3>0, <3>5
      <4> HIDE DEF j
      <4> QED BY <2>3, <4>3, <4>4, <4>5
    <3> QED BY <3>4, <3>5
  <2>5. CASE ~(j >= 1)
    <3>1. PICK m \in 1..n : j + m = 1
      <4>1. 1 - j \in 1..n /\ j + (1 - j) = 1
        BY <1>1, <2>1, <2>5
      <4> QED BY <4>1
    <3>2. todo[1] = << RemoveFile(Temp(m), {Temp(m)}) >> /\ m \in Indices
      BY <1>1, <2>1, <3>1, ChangesIs DEF TempEntry
    <3>3. s = RemoveFile(Temp(m), {Temp(m)}) /\ s.names = {Temp(m)}
      <4>1. s = RemoveFile(Temp(m), {Temp(m)})
        BY <3>2
      <4>2. RemoveFile(Temp(m), {Temp(m)}).names = {Temp(m)}
        BY DEF RemoveFile
      <4> QED BY <4>1, <4>2
    <3>4. \A x \in FilesOf(i) : fs'[x] = fs[x]
      BY <1>4, <1>6, <3>2, <3>3
    <3>5. ~(i < j) /\ ~(i = j)
      BY <1>1, <2>1, <2>5
    <3>6. i > j => Over(i)'
      BY <1>5, <2>2, <3>4
    <3> HIDE DEF j
    <3> QED BY <2>3, <3>5, <3>6
  <2> QED BY <2>4, <2>5
<1> QED BY <1>1, <1>8, <1>9, <1>10 DEF Shape

LEMMA NextLocal ==
    ASSUME TypeOK, Shape, RollbackShape, NEW i \in 1..Len(changes), Local(i), NextEntry
    PROVE  Local(i)'
<1>1. /\ pc = "clearing" /\ UNCHANGED <<fs, changes, pc, at, committed, result, listed, told, before>>
      /\ todo[1] = <<>> /\ Len(todo') = Len(todo) - 1 /\ Len(todo) \in Nat \ {0}
      /\ \A j \in 1..Len(todo)-1 : todo'[j] = todo[j+1]
  BY NextLeaves
<1>2. Known \subseteq Known'
  BY <1>1 DEF Known
<1>3. /\ Applied(i) => Applied(i)'
      /\ Over(i) => Over(i)'
      /\ \A f : Committed(i, f) => Committed(i, f)'
      /\ \A f : Doing(i, f) => Doing(i, f)'
  BY <1>1, <1>2, Frame
<1>4. CASE result = "ok"
  BY <1>1, <1>3, <1>4 DEF Local, Early, Rolling
<1>5. CASE result \in {"not_staged", "denied"}
  BY <1>1, <1>3, <1>5 DEF Local, Early, Rolling
<1>6. CASE Rolling
  <2> DEFINE n == Len(changes)
  <2>0. PICK j : j = Left
    OBVIOUS
  <2>1. /\ Left' = j - 1 /\ n \in Nat /\ j = Len(todo) - n
        /\ j <= Len(committed) + 1 /\ Len(committed) \in Nat /\ Len(committed) <= n
        /\ \A m \in 1..Len(committed) : m < j => todo[j + 1 - m] = UndoEntry(m)
    <3>1. n \in Nat /\ j = Len(todo) - n /\ Len(committed) \in Nat /\ Len(committed) <= n
      BY <2>0, ChangesIs DEF TypeOK, Left
    <3>2. Left' = j - 1
      BY <1>1, <2>0, <3>1 DEF Left
    <3>3. j <= Len(committed) + 1 /\ \A m \in 1..Len(committed) : m < j => todo[j + 1 - m] = UndoEntry(m)
      BY <1>1, <1>6, <2>0 DEF RollbackShape
    <3> QED BY <3>1, <3>2, <3>3
  <2>2. /\ i < j => Committed(i, committed[i])
        /\ i = j => Doing(i, <<>>)
        /\ i > j => Over(i)
    BY <1>1, <1>6, <2>0 DEF Local
  <2>3. i >= j => Over(i)'
    <3>1. Doing(i, <<>>) => Over(i)
      BY DEF Doing
    <3>2. i >= j => i = j \/ i > j
      <4>1. i \in Int /\ j \in Int
        <5>1. Len(todo) \in Int /\ n \in Int
          BY <1>1, <2>1
        <5>2. Len(todo) - n \in Int
          BY <5>1
        <5> QED BY <2>1, <5>2
      <4> QED BY <4>1
    <3> QED BY <1>3, <2>2, <3>1, <3>2
  <2>4. i < j => Committed(i, committed[i])'
    <3> HAVE i < j
    <3>1. PICK f : f = committed[i]
      OBVIOUS
    <3>2. Committed(i, f)'
      BY <1>3, <2>2, <3>1
    <3> QED BY <1>1, <3>1, <3>2 DEF Committed
  <2>5. i = j - 1 => Doing(i, todo[1])'
    <3> HAVE i = j - 1
    <3>1. PICK y : y = todo'[1]
      OBVIOUS
    <3>2. i < j /\ i \in 1..Len(committed) /\ j + 1 - i = 2 /\ 1 \in 1..Len(todo)-1 /\ 1 + 1 = 2
      BY <1>1, <2>1
    <3>3. y = UndoEntry(i)
      BY <1>1, <2>1, <3>1, <3>2
    <3>4. committed[i] \in Entry /\ Fits(changes[i], committed[i])
      <4>1. committed \in Seq(Entry)
        BY DEF TypeOK
      <4> QED BY <3>2, <4>1 DEF Shape
    <3>5. Doing(i, y)
      BY <2>2, <3>2, <3>3, <3>4, CommittedUndo DEF UndoEntry
    <3>6. Doing(i, y)'
      BY <1>3, <3>5
    <3> QED BY <3>1, <3>6 DEF Doing
  <2>6. /\ i < Left' => Committed(i, committed[i])'
        /\ i = Left' => Doing(i, todo[1])'
        /\ i > Left' => Over(i)'
    <3>1. i < j - 1 => i < j
      BY <1>1, <2>1
    <3>2. i > j - 1 => i >= j
      BY <1>1, <2>1
    <3> QED BY <2>1, <2>3, <2>4, <2>5, <3>1, <3>2
  <2>7. result \notin {"ok", "not_staged", "denied"}
    BY <1>6 DEF Rolling
  <2> QED BY <1>1, <1>6, <2>6, <2>7 DEF Local, Early, Rolling
<1> QED BY <1>1, <1>4, <1>5, <1>6 DEF Shape

LEMMA DisjointStep ==
    TypeOK /\ Shape /\ EntriesFit /\ RollbackShape /\ GivenUpShape /\ CleanupShape /\ TempsHeld
      /\ DisjointHolds /\ [Next]_vars
        => DisjointHolds'
<1> SUFFICES ASSUME TypeOK, Shape, EntriesFit, RollbackShape, GivenUpShape, CleanupShape,
                    TempsHeld, DisjointHolds, [Next]_vars
             PROVE  DisjointHolds'
  OBVIOUS
<1> SUFFICES ASSUME Disjoint', NEW i \in DOMAIN changes' PROVE Local(i)'
  BY DEF DisjointHolds
<1>1. changes' = changes /\ DOMAIN changes = 1..Len(changes)
  BY OfThem, ChangesIs
<1>2. Disjoint /\ i \in 1..Len(changes)
  BY <1>1 DEF Disjoint, Source, Moves
<1>3. (\A j \in 1..Len(changes) : Local(j)) /\ Local(i)
  BY <1>1, <1>2 DEF DisjointHolds
<1>4. CASE StageChange \/ StageFails \/ UserEdits \/ Allowed \/ Denied
  BY <1>2, <1>3, <1>4, EarlyLocal
<1>5. CASE BackUp \/ BackUpSource
  BY <1>2, <1>3, <1>5, BackLocal
<1>6. CASE Move
  BY <1>2, <1>3, <1>6, MoveLocal
<1>7. CASE BackUpFails \/ BackUpSourceFails \/ MoveFails
  BY <1>2, <1>3, <1>7, FailLocal
<1>8. CASE CallWorks \/ CallFails
  BY <1>2, <1>3, <1>8, CallLocal
<1>9. CASE NextEntry
  BY <1>2, <1>3, <1>9, NextLocal
<1>10. CASE End
  <2>1. /\ pc = "clearing" /\ todo = <<>> /\ pc' = "over" /\ UNCHANGED <<fs, changes, listed, told, before>>
        /\ (result' = "ok" <=> result = "ok")
        /\ result' \in {"not_staged", "denied"} <=> result \in {"not_staged", "denied"}
    BY <1>10 DEF End
  <2>2. Known \subseteq Known'
    BY <2>1 DEF Known
  <2>3. (Applied(i) => Applied(i)') /\ (Over(i) => Over(i)')
    BY <1>2, <2>1, <2>2, Frame
  <2>4. result = "ok" => Applied(i)
    BY <1>3, <2>1 DEF Local
  <2>5. result # "ok" => Over(i)
    <3>1. CASE result \in {"not_staged", "denied"}
      BY <1>3, <3>1 DEF Local
    <3>2. CASE Rolling
      <4>1. Len(changes) \in Nat /\ Len(todo) = 0 /\ Left = 0 - Len(changes)
        BY <2>1, ChangesIs DEF Left
      <4>2. i > Left
        BY <1>2, <4>1
      <4> QED BY <1>3, <2>1, <3>2, <4>2 DEF Local
    <3> QED BY <2>1, <3>1, <3>2 DEF Shape
  <2> QED BY <2>1, <2>3, <2>4, <2>5 DEF Local, Early, Rolling
<1>11. CASE UNCHANGED vars
  <2>1. UNCHANGED <<fs, changes, pc, at, committed, todo, result, listed, told, before>>
    BY <1>11 DEF vars
  <2>2. PICK l, e, a, y : l = Left /\ e = committed[i] /\ a = at.entry /\ y = todo[1]
    OBVIOUS
  <2>3. /\ Known \subseteq Known' /\ Left' = l /\ Early' = Early /\ Rolling' = Rolling
        /\ committed'[i] = e /\ at'.entry = a /\ todo'[1] = y
    BY <2>1, <2>2 DEF Known, Left, Early, Rolling
  <2>4. /\ Untouched(i) => Untouched(i)'
        /\ Applied(i) => Applied(i)'
        /\ Over(i) => Over(i)'
        /\ Committed(i, e) => Committed(i, e)'
        /\ InPlace(i, a) => InPlace(i, a)'
        /\ Doing(i, y) => Doing(i, y)'
    BY <1>2, <2>1, <2>3, Frame
  <2>5. Committed(i, committed[i]) => Committed(i, committed[i])'
    BY <2>2, <2>3, <2>4 DEF Committed
  <2>6. InPlace(i, at.entry) => InPlace(i, at.entry)'
    BY <2>2, <2>3, <2>4 DEF InPlace
  <2>7. Doing(i, todo[1]) => Doing(i, todo[1])'
    BY <2>2, <2>3, <2>4 DEF Doing
  <2> QED BY <1>3, <2>1, <2>2, <2>3, <2>4, <2>5, <2>6, <2>7 DEF Local
<1> QED BY <1>4, <1>5, <1>6, <1>7, <1>8, <1>9, <1>10, <1>11 DEF Next
-----------------------------------------------------------------------------
(* The invariant *)

LEMMA InitInv == Init => IInv
<1> SUFFICES ASSUME Init PROVE IInv
  OBVIOUS
<1>1. TypeOK /\ Shape /\ EntriesFit
  BY InitKnows
<1>2. /\ pc = "staging" /\ result = "none" /\ at.change = 1 /\ todo = <<>>
      /\ before = [p \in Paths |-> fs[p]]
  BY DEF Init
<1>3. \A n \in Names \ Paths : fs[n] = Absent
  BY DEF Init
<1>4. \A i \in Indices : fs[Temp(i)] = Absent /\ fs[Backup(i)] = Absent /\ fs[OldBackup(i)] = Absent
  BY <1>3, NamesDiffer
<1>5. RollbackShape /\ GivenUpShape /\ CleanupShape /\ BackupsHeld
  BY <1>2 DEF RollbackShape, GivenUpShape, CleanupShape, BackupsHeld
<1>6. TempsHeld
  <2>1. \A i \in 1..Len(changes) : ~(i < 1)
    BY <1>1, ChangesIs
  <2> QED BY <1>2, <1>4, <2>1 DEF TempsHeld, Exists
<1>7. Undoable
  <2>1. \A n \in Held : fs[n] = IF n \in Paths THEN before[n] ELSE Absent
    BY <1>2, <1>3, NamesDiffer
  <2>2. State(fs) = Clean
    BY <2>1 DEF State, Clean
  <2> QED BY <1>2, <2>2 DEF Undoable
<1>8. OthersStay
  BY <1>1, <1>2, NamedIs DEF OthersStay
<1>9. DisjointHolds
  <2> SUFFICES ASSUME NEW i \in 1..Len(changes) PROVE Local(i)
    BY <1>1, ChangesIs DEF DisjointHolds
  <2>1. changes[i].path \in Paths /\ Source(changes[i]) \in Paths /\ i \in Indices
    BY <1>1, FilesAre
  <2>2. Untouched(i)
    BY <1>2, <1>4, <2>1 DEF Untouched, Exists
  <2> QED BY <1>2, <2>2 DEF Local, Rolling
<1> QED BY <1>1, <1>5, <1>6, <1>7, <1>8, <1>9 DEF IInv

LEMMA InvStep == IInv /\ [Next]_vars => IInv'
<1> SUFFICES ASSUME IInv, [Next]_vars PROVE IInv'
  OBVIOUS
<1>1. /\ TypeOK /\ Shape /\ EntriesFit /\ RollbackShape /\ GivenUpShape /\ CleanupShape
      /\ TempsHeld /\ BackupsHeld /\ Undoable /\ OthersStay /\ DisjointHolds
  BY DEF IInv
<1>2. Early => State(fs) = Clean
  BY <1>1 DEF Undoable
<1>3. TypeOK' /\ Shape' /\ EntriesFit'
  BY <1>1, TypeStep, ShapeStep, FitStep
<1>4. RollbackShape' /\ GivenUpShape' /\ CleanupShape'
  BY <1>1, RollStep, GivenStep, CleanStep
<1>5. TempsHeld' /\ BackupsHeld'
  BY <1>1, <1>2, TempsStep, BackupsStep
<1>6. Undoable' /\ OthersStay' /\ DisjointHolds'
  BY <1>1, UndoStep, OthersStep, DisjointStep
<1> QED BY <1>3, <1>4, <1>5, <1>6 DEF IInv

\* The invariant of the module holds in every state.
THEOREM PatchInvariant == Spec => []IInv
<1>1. Init => IInv
  BY InitInv
<1>2. IInv /\ [Next]_vars => IInv'
  BY InvStep
<1> QED BY <1>1, <1>2, PTL DEF Spec

\* Whatever calls fail, the variables hold what they are declared to hold: the
\* calls left of a rollback among them.
THEOREM PatchTypeCorrect == Spec => []TypeOK
<1>1. IInv => TypeOK
  BY DEF IInv
<1> QED BY <1>1, PatchInvariant, PTL
-----------------------------------------------------------------------------
(* All or nothing *)

LEMMA NamesAre ==
    \A n \in Names : n \in Paths \/ \E i \in Indices : n = Temp(i) \/ n = Backup(i) \/ n = OldBackup(i)
  BY DEF Names

LEMMA SucceedsWhole == IInv /\ pc = "over" /\ result = "ok" => AppliedWhole
<1> SUFFICES ASSUME IInv, pc = "over", result = "ok", Disjoint PROVE
        /\ \A i \in DOMAIN changes :
             LET c == changes[i] IN
             /\ HasTemp(c) => fs[c.path] = <<"new", i>>
             /\ c.op = "rename" => fs[c.path] = before[c.old]
             /\ Moves(c) => ~Exists(c.old)
             /\ c.op = "delete" => ~Exists(c.path)
        /\ \A p \in Paths :
             (\A i \in DOMAIN changes : p \notin {changes[i].path, Source(changes[i])}) => fs[p] = before[p]
        /\ ~stuck => NoLitter
  BY DEF AppliedWhole
<1>1. TypeOK /\ Shape /\ TempsHeld /\ BackupsHeld /\ OthersStay /\ DisjointHolds
  BY DEF IInv
<1>2. \A i \in DOMAIN changes : Applied(i)
  BY <1>1 DEF DisjointHolds, Local
<1>3. \A p \in Paths : (\A i \in DOMAIN changes : p \notin {changes[i].path, Source(changes[i])}) => fs[p] = before[p]
  BY <1>1 DEF OthersStay, Named
<1>4. ASSUME ~stuck, NEW n \in Names \ Paths PROVE ~Exists(n)
  <2>1. todo = <<>> /\ 1..Len(todo) = {}
    BY <1>1 DEF Shape
  <2>2. PICK i \in Indices : n = Temp(i) \/ n = Backup(i) \/ n = OldBackup(i)
    BY <1>4, NamesAre
  <2>3. ~Exists(Temp(i))
    BY <1>1 DEF TempsHeld
  <2>4. ~Exists(Backup(i)) /\ ~Exists(OldBackup(i))
    BY <1>1, <1>4, <2>1 DEF BackupsHeld
  <2> QED BY <2>2, <2>3, <2>4
<1> QED BY <1>2, <1>3, <1>4 DEF Applied, NoLitter

LEMMA FailsWithout == IInv /\ pc = "over" /\ result # "ok" => Failed /\ NothingApplied
<1> SUFFICES ASSUME IInv, pc = "over", result # "ok" PROVE Failed /\ NothingApplied
  OBVIOUS
<1>1. TypeOK /\ Shape /\ TempsHeld /\ Undoable /\ OthersStay /\ DisjointHolds
  BY DEF IInv
<1>2. Failed /\ todo = <<>> /\ 1..Len(todo) = {}
  BY <1>1 DEF Shape
<1>3. ASSUME ~stuck PROVE Unchanged /\ NoLitter
  <2>1. State(fs) = Clean
    BY <1>1, <1>3 DEF Undoable
  <2>2. \A n \in Held : fs[n] = IF n \in Paths THEN before[n] ELSE Absent
    <3>1. \A n \in Held : State(fs)[n] = Clean[n]
      BY <2>1
    <3> QED BY <3>1 DEF State, Clean
  <2>3. Unchanged
    BY <2>2, NamesDiffer DEF Unchanged
  <2>4. ASSUME NEW n \in Names \ Paths PROVE ~Exists(n)
    <3>1. CASE n \in Held
      BY <2>2, <2>4, <3>1 DEF Exists
    <3>2. CASE n \notin Held
      <4>1. PICK i \in Indices : n = Temp(i)
        BY <2>4, <3>2, NamesOf
      <4>2. ~Exists(Temp(i))
        BY <1>1, <1>2, <1>3 DEF TempsHeld
      <4> QED BY <4>1, <4>2
    <3> QED BY <3>1, <3>2
  <2> QED BY <2>3, <2>4 DEF NoLitter
<1>4. ASSUME Disjoint, NEW p \in Paths, fs[p] # before[p] PROVE p \in Known
  <2>1. p \in Named
    BY <1>1, <1>4 DEF OthersStay
  <2>2. PICK i \in DOMAIN changes : p \in {changes[i].path, Source(changes[i])}
    BY <2>1 DEF Named
  <2>3. PathOver(i) /\ SourceOver(i)
    BY <1>1, <1>4 DEF DisjointHolds, Local, Over
  <2>4. Source(changes[i]) = IF Moves(changes[i]) THEN changes[i].old ELSE changes[i].path
    BY DEF Source
  <2> QED BY <1>4, <2>2, <2>3, <2>4 DEF PathOver, SourceOver
<1> QED BY <1>2, <1>3, <1>4 DEF NothingApplied, Known

\* A patch is all or nothing, at whatever call it fails: one that succeeds has made
\* all of its changes and left no backup; one that fails has changed no file and left
\* nothing beside, and when undoing it failed as well, the error names each file
\* that is not what it was.
THEOREM PatchIsAllOrNothing == Spec => []AllOrNothing
<1>1. IInv => AllOrNothing
  BY SucceedsWhole, FailsWithout DEF AllOrNothing
<1> QED BY <1>1, PatchInvariant, PTL
-----------------------------------------------------------------------------
(* Nothing is lost *)

\* Every content of h but absence is one of g.
Keeps(g, h) ==
    \A v \in Contents \ {Absent} : (\E n \in Held : h[n] = v) => \E n \in Held : g[n] = v

LEMMA KeepsIs ==
    /\ \A g : Keeps(g, g)
    /\ \A f, g, h : Keeps(f, g) /\ Keeps(g, h) => Keeps(f, h)
  BY DEF Keeps

LEMMA AfterKeeps ==
    ASSUME NEW g \in States, NEW s \in Call, s.call = "rename" => s.to \in Held
    PROVE  Keeps(g, After(g, s))
<1> SUFFICES ASSUME NEW v \in Contents \ {Absent}, NEW n \in Held, After(g, s)[n] = v
             PROVE  \E m \in Held : g[m] = v
  BY DEF Keeps
<1>1. CASE After(g, s) = g
  BY <1>1
<1>2. CASE After(g, s) = Renamed(g, s.from, s.to) /\ s.from \in Held
  <2>1. v = g[s.from] \/ v = g[n] \/ v = Absent
    BY <1>2 DEF Renamed, States
  <2> QED BY <1>2, <2>1
<1>3. CASE After(g, s) = [g EXCEPT ![s.from] = Absent]
  <2>1. v = g[n] \/ v = Absent
    BY <1>3 DEF States
  <2> QED BY <2>1
<1> QED BY <1>1, <1>2, <1>3 DEF After

LEMMA AfterAllKeeps ==
    ASSUME NEW g \in States, NEW calls \in Seq(Call), Fit(calls)
    PROVE  Keeps(g, AfterAll(g, calls))
<1>1. \A m \in 1..Len(calls) : calls[m] \in Call /\ (calls[m].call = "rename" => calls[m].to \in Held)
  BY DEF Fit
<1>2. Len(calls) \in Nat /\ Len(calls) <= 2 /\ (calls = <<>> <=> Len(calls) = 0)
  BY EmptySeq DEF Fit
<1>3. CASE calls = <<>>
  BY <1>3, KeepsIs DEF AfterAll
<1>4. CASE Len(calls) = 1
  <2>1. Keeps(g, After(g, calls[1]))
    BY <1>1, <1>4, AfterKeeps
  <2> QED BY <1>2, <1>4, <2>1 DEF AfterAll
<1>5. CASE Len(calls) = 2
  <2>1. After(g, calls[1]) \in States /\ Keeps(g, After(g, calls[1]))
    BY <1>1, <1>5, AfterIs, AfterKeeps
  <2>2. Keeps(After(g, calls[1]), After(After(g, calls[1]), calls[2]))
    BY <1>1, <1>5, <2>1, AfterKeeps
  <2>3. AfterAll(g, calls) = After(After(g, calls[1]), calls[2])
    BY <1>2, <1>5 DEF AfterAll
  <2> QED BY <2>1, <2>2, <2>3, KeepsIs
<1>6. \A n \in Nat : n <= 2 => n \in {0, 1, 2}
  OBVIOUS
<1>7. Len(calls) \in {0, 1, 2}
  BY <1>2, <1>6, Zenon
<1> QED BY <1>2, <1>3, <1>4, <1>5, <1>7, Zenon

LEMMA LeastOf ==
    ASSUME NEW T, T \subseteq Nat, T # {}
    PROVE  \E m \in T : \A k \in T : m <= k
<1> DEFINE R == OpToRel(<, Nat)
<1>1. IsWellFoundedOn(R, Nat)
  BY NatLessThanWellFounded
<1> HIDE DEF R
<1>2. PICK m \in T : \A k \in T : <<k, m>> \notin R
  BY <1>1, WFMin
<1>3. \A k \in T : ~(k < m)
  BY <1>2 DEF R, OpToRel
<1> QED BY <1>3

\* A chain of states that leads from g to goal loses nothing: there is no first
\* state in it that holds what g does not.
LEMMA UndoesKeeps ==
    ASSUME NEW g, NEW entries \in Seq(Seq(Call)), \A j \in 1..Len(entries) : Fit(entries[j]),
           NEW goal, Undoes(g, entries, goal)
    PROVE  Keeps(g, goal)
<1>1. PICK h \in [0..Len(entries) -> States] :
        /\ h[0] = g /\ h[Len(entries)] = goal
        /\ \A j \in 1..Len(entries) : h[j] = AfterAll(h[j-1], entries[j])
  BY DEF Undoes
<1>2. Len(entries) \in Nat /\ \A j \in 1..Len(entries) : entries[j] \in Seq(Call)
  OBVIOUS
<1> DEFINE T == {j \in 0..Len(entries) : ~Keeps(g, h[j])}
<1>3. CASE T = {}
  BY <1>1, <1>2, <1>3
<1>4. CASE T # {}
  <2>0. T \subseteq Nat
    BY <1>2
  <2>1. PICK m \in T : \A k \in T : m <= k
    <3> HIDE DEF T
    <3> QED BY <1>4, <2>0, LeastOf
  <2>2. m # 0
    BY <1>1, <2>1, KeepsIs
  <2>3. m \in 1..Len(entries) /\ m-1 \in 0..Len(entries) /\ ~(m <= m-1)
    BY <1>2, <2>1, <2>2
  <2>4. Keeps(g, h[m-1])
    BY <2>1, <2>3
  <2>5. Keeps(h[m-1], AfterAll(h[m-1], entries[m]))
    <3>1. h[m-1] \in States /\ entries[m] \in Seq(Call) /\ Fit(entries[m])
      BY <1>2, <2>3
    <3> QED BY <3>1, AfterAllKeeps
  <2>6. Keeps(g, h[m])
    BY <1>1, <2>3, <2>4, <2>5, KeepsIs
  <2> QED BY <2>1, <2>6
<1> QED BY <1>3, <1>4

\* What is done first about the change that failed loses nothing either.
LEMMA PutBackKeeps ==
    ASSUME TypeOK, FitsNow
    PROVE  Keeps(State(fs), AfterAll(State(fs), PutBack))
<1>1. State(fs) \in States
  BY StateIs
<1>2. PICK g : g = State(fs)
  OBVIOUS
<1>3. PICK source, restore : source = SourceBack(at.change) /\ restore = FinalBack(at.change)
  OBVIOUS
<1>4. /\ at.change \in 1..Len(changes) /\ at.change \in Indices /\ Now = changes[at.change]
      /\ Now.path \in Paths
      /\ Moves(Now) => Now.old \in Paths
  BY NowIs
<1>5. restore \in Call /\ restore.to \in Held
  <2>1. {changes[at.change].path} \in SUBSET Names
    BY <1>4, NamesDiffer
  <2>2. RestoreFinal(at.change, {changes[at.change].path}) \in Call
    BY <1>4, <2>1, CallsIs
  <2> QED BY <1>3, <1>4, <2>2, NamesDiffer DEF FinalBack, RestoreFinal, RenameBack
<1>6. at.entry.oldBackup => source \in Call /\ source.to \in Held
  <2> SUFFICES ASSUME at.entry.oldBackup PROVE source \in Call /\ source.to \in Held
    OBVIOUS
  <2>1. Moves(Now)
    BY NowIs DEF FitsNow, NoEntry, Moves
  <2>2. {changes[at.change].old} \in SUBSET Names
    BY <1>4, <2>1, NamesDiffer
  <2>3. RenameBack(OldBackup(at.change), changes[at.change].old, {changes[at.change].old}, 0) \in Call
    BY <1>4, <2>1, <2>2, CallsIs
  <2> QED BY <1>3, <1>4, <2>1, <2>3, NamesDiffer DEF SourceBack, RenameBack
<1>7. at.entry.oldBackup => After(g, source) \in States /\ Keeps(g, After(g, source))
  BY <1>1, <1>2, <1>6, AfterIs, AfterKeeps
<1>8. \A f \in States : Keeps(f, After(f, restore))
  BY <1>5, AfterKeeps
<1>9. /\ at.entry.hadOriginal /\ at.entry.oldBackup => AfterAll(g, PutBack) = After(After(g, source), restore)
      /\ ~at.entry.hadOriginal /\ at.entry.oldBackup => AfterAll(g, PutBack) = After(g, source)
      /\ at.entry.hadOriginal /\ ~at.entry.oldBackup => AfterAll(g, PutBack) = After(g, restore)
      /\ ~at.entry.hadOriginal /\ ~at.entry.oldBackup => AfterAll(g, PutBack) = g
  BY <1>3, PutBackNow
<1>10. CASE at.entry.hadOriginal /\ at.entry.oldBackup
  BY <1>2, <1>7, <1>8, <1>9, <1>10, KeepsIs
<1>11. CASE ~at.entry.hadOriginal /\ at.entry.oldBackup
  BY <1>2, <1>7, <1>9, <1>11
<1>12. CASE at.entry.hadOriginal /\ ~at.entry.oldBackup
  BY <1>1, <1>2, <1>8, <1>9, <1>12
<1>13. CASE ~at.entry.hadOriginal /\ ~at.entry.oldBackup
  BY <1>2, <1>9, <1>13, KeepsIs
<1> QED BY <1>10, <1>11, <1>12, <1>13

\* While no call of the undoing has failed, the files that can be undone are all there.
LEMMA UndoableKeeps ==
    ASSUME IInv, result # "ok", ~stuck
    PROVE  Keeps(State(fs), Clean)
<1>1. TypeOK /\ Shape /\ EntriesFit /\ Undoable
  BY DEF IInv
<1>2. CASE Early \/ pc = "over"
  BY <1>1, <1>2, KeepsIs DEF Undoable
<1>3. CASE pc = "committing"
  <2>1. Undoes(AfterAll(State(fs), PutBack), Rollback, Clean) /\ FitsNow
    BY <1>1, <1>3 DEF Undoable, Shape
  <2>2. Rollback \in Seq(Seq(Call)) /\ \A j \in 1..Len(Rollback) : Fit(Rollback[j])
    BY <1>1, GivesUp
  <2>3. Keeps(AfterAll(State(fs), PutBack), Clean)
    BY <2>1, <2>2, UndoesKeeps
  <2> QED BY <1>1, <2>1, <2>3, PutBackKeeps, KeepsIs
<1>4. CASE pc = "clearing"
  <2>1. Undoes(State(fs), todo, Clean)
    BY <1>1, <1>4 DEF Undoable
  <2>2. todo \in Seq(Seq(Call)) /\ \A j \in 1..Len(todo) : Fit(todo[j])
    BY <1>1 DEF TypeOK, EntriesFit
  <2> QED BY <2>1, <2>2, UndoesKeeps
<1> QED BY <1>1, <1>2, <1>3, <1>4 DEF TypeOK, Early

\* When one has failed, the files of a change hold what they held between them.
Kept(v) == v = Absent \/ \E n \in Names : fs[n] = v

LEMMA DoingKeeps ==
    ASSUME TypeOK, NEW i \in 1..Len(changes), NEW calls, Doing(i, calls)
    PROVE  Kept(before[changes[i].path]) /\ Kept(before[Source(changes[i])])
<1> DEFINE c == changes[i]
<1>1. {c.path, Source(c), Backup(i), OldBackup(i)} \subseteq Names /\ (Moves(c) => c.old \in Names)
  BY FilesAre
<1>2. Source(c) = IF Moves(c) THEN c.old ELSE c.path
  BY DEF Source
<1> HIDE DEF c
<1>3. PathOver(i) => Kept(before[c.path])
  BY <1>1 DEF PathOver, Kept, c
<1>4. /\ SourceOver(i) /\ Moves(c) => Kept(before[c.old])
      /\ SourceSafe(i) /\ Moves(c) => Kept(before[c.old])
  BY <1>1 DEF SourceOver, SourceSafe, Kept, c
<1>5. /\ fs[Backup(i)] = before[c.path] => Kept(before[c.path])
      /\ before[c.path] = Absent => Kept(before[c.path])
      /\ fs[OldBackup(i)] = before[c.old] => Kept(before[c.old])
      /\ fs[c.path] = before[c.old] => Kept(before[c.old])
  BY <1>1 DEF Kept
<1>6. Kept(before[c.path]) /\ (Moves(c) => Kept(before[c.old]))
  BY <1>3, <1>4, <1>5 DEF Doing, Over, c
<1> QED BY <1>2, <1>6 DEF c

LEMMA LocalKeeps ==
    ASSUME IInv, result # "ok", Disjoint, pc \in {"clearing", "over"}, NEW i \in DOMAIN changes
    PROVE  \E calls : Doing(i, calls)
<1>1. TypeOK /\ Shape /\ Local(i) /\ i \in 1..Len(changes)
  BY ChangesIs DEF IInv, DisjointHolds
<1>2. Over(i) => Doing(i, <<>>)
  BY DEF Doing
<1>3. CASE pc = "clearing" /\ Rolling
  <2>1. /\ i < Left => Committed(i, committed[i])
        /\ i = Left => Doing(i, todo[1])
        /\ i > Left => Over(i)
    BY <1>1, <1>3 DEF Local
  <2>2. Left \in Int /\ i \in Nat
    BY <1>1, ChangesIs DEF Left, TypeOK
  <2>3. CASE i < Left
    <3>1. i <= Len(committed)
      <4>1. Left <= Len(committed) + 1 /\ Len(committed) \in Nat
        BY <1>3 DEF IInv, RollbackShape, TypeOK
      <4> QED BY <2>2, <2>3, <4>1
    <3>2. i \in 1..Len(committed)
      BY <1>1, <3>1
    <3>3. committed[i] \in Entry /\ Fits(changes[i], committed[i])
      BY <1>1, <3>2 DEF TypeOK, Shape
    <3>4. Doing(i, Undo(i, committed[i]))
      BY <1>1, <2>1, <2>3, <3>3, CommittedUndo
    <3> QED BY <3>4
  <2>4. CASE i = Left
    BY <2>1, <2>4
  <2>5. CASE i > Left
    BY <1>2, <2>1, <2>5
  <2> QED BY <2>2, <2>3, <2>4, <2>5
<1>4. CASE pc = "over" \/ result \in {"not_staged", "denied"}
  BY <1>1, <1>2, <1>4 DEF Local
<1> QED BY <1>1, <1>3, <1>4 DEF Shape

\* While a patch is committed or undone, and after it failed, what a file held is in
\* that file or in another that is kept, whatever calls fail and wherever the process
\* is killed, unless undoing fails and the patch names a file twice.
THEOREM PatchLosesNothing == Spec => []NothingLost
<1>1. ASSUME IInv, result # "ok", Disjoint \/ ~stuck, NEW p \in Paths, before[p] # Absent
      PROVE  \E n \in Names : fs[n] = before[p]
  <2>1. TypeOK /\ Shape /\ OthersStay /\ before[p] \in Contents /\ Paths \subseteq Names
    BY <1>1, NamesDiffer DEF IInv, TypeOK
  <2>2. CASE ~stuck
    <3>1. Keeps(State(fs), Clean)
      BY <1>1, <2>2, UndoableKeeps
    <3>2. p \in Held /\ Clean[p] = before[p]
      BY NamesDiffer DEF Clean
    <3>3. PICK n \in Held : State(fs)[n] = before[p]
      BY <1>1, <2>1, <3>1, <3>2 DEF Keeps
    <3> QED BY <3>3, NamesDiffer DEF State
  <2>3. CASE stuck /\ p \notin Named
    BY <2>1, <2>3 DEF OthersStay
  <2>4. CASE stuck /\ p \in Named
    <3>1. PICK i \in DOMAIN changes : p \in {changes[i].path, Source(changes[i])}
      BY <2>4 DEF Named
    <3>2. pc \in {"clearing", "over"} /\ Disjoint
      BY <1>1, <2>1, <2>4 DEF Shape, TypeOK, Early
    <3>3. PICK calls : Doing(i, calls)
      BY <1>1, <3>2, LocalKeeps
    <3>4. Kept(before[p])
      BY <2>1, <3>1, <3>3, DoingKeeps, ChangesIs
    <3> QED BY <1>1, <3>4 DEF Kept
  <2> QED BY <2>1, <2>2, <2>3, <2>4 DEF TypeOK
<1>2. IInv => NothingLost
  BY <1>1 DEF NothingLost
<1> QED BY <1>2, PatchInvariant, PTL
=============================================================================
