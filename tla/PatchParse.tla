------------------------------ MODULE PatchParse ------------------------------
(***************************************************************************)
(* Parse (internal/patch/patch.go) reads a unified diff line by line: file *)
(* headers, then hunks whose bodies are counted and not trusted.           *)
(*                                                                         *)
(* The input of a parse is a sequence of lines.  A line is a record [kind, *)
(* arg] of one of the forms the parser tells apart; what a body line says  *)
(* is its argument.  Two forms are both a header and a body line, and the  *)
(* parser has only the text: "--- p" is also the removal of the line "-- p" *)
(* and "+++ p" the addition of "++ p".                                      *)
(***************************************************************************)
EXTENDS Integers, Sequences, SequencesExt

VARIABLES
    text,       \* the lines
    pos,        \* the line looked at
    place,      \* the loop it is in: between files, in a file, in a hunk
    change,     \* the file change being read
    seen,       \* the lines of its header pair met so far
    hunk,       \* the hunk being read
    parsed,     \* the file changes read
    verdict     \* how the parse goes

parseVars == <<text, pos, place, change, seen, hunk, parsed, verdict>>

Line(kind, arg) == [kind |-> kind, arg |-> arg]

\* What a line is as a line of a hunk's body.
Prefix(l) == CASE l.kind \in {" ", "+", "-", "\\"} -> l.kind
               [] l.kind \in {"minus", "signature"} -> "-"
               [] l.kind = "plus" -> "+"
               [] OTHER -> "other"
Says(l)   == CASE l.kind \in {"minus", "plus", "signature"} -> <<l.kind, l.arg>>
               [] OTHER -> l.arg

Counted(lines, prefixes) == Len(SelectSeq(lines, LAMBDA l : l.prefix \in prefixes))
OldCount(lines) == Counted(lines, {" ", "-"})
NewCount(lines) == Counted(lines, {" ", "+"})

NoChange == [op |-> "modify", path |-> "none", old |-> "none", mode |-> "none",
             binary |-> FALSE, header |-> FALSE, hunks |-> <<>>]
NoHunk == [start |-> 0, lines |-> <<>>, old |-> 0, new |-> 0]

Begin(lines) ==
    /\ text = lines
    /\ pos = 1
    /\ place = "between"
    /\ change = NoChange
    /\ seen = {}
    /\ hunk = NoHunk
    /\ parsed = <<>>
    /\ verdict = "reading"

HasLine == verdict = "reading" /\ pos <= Len(text)
Peek == text[pos]
Is(kinds) == HasLine /\ Peek.kind \in kinds
Passes(n) == pos' = pos + n
Refuse(kind) == verdict' = kind /\ UNCHANGED <<text, pos, place, change, seen, hunk, parsed>>

-----------------------------------------------------------------------------
(* parse: between file changes *)

BeginsFile ==
    /\ place = "between" /\ Is({"git", "minus"})
    /\ place' = "file"
    /\ change' = IF Peek.kind = "git"
                 THEN [NoChange EXCEPT !.header = TRUE, !.path = Peek.arg]
                 ELSE NoChange
    /\ seen' = {}
    /\ Passes(IF Peek.kind = "git" THEN 1 ELSE 0)
    /\ UNCHANGED <<text, hunk, parsed, verdict>>

\* extractPaths finds no two paths; or a hunk belongs to no file.
NoFile ==
    /\ place = "between" /\ Is({"badgit", "@@", "bad@@"})
    /\ Refuse("missing_header")

SkipsBetween ==
    /\ place = "between"
    /\ HasLine /\ Peek.kind \notin {"git", "badgit", "minus", "@@", "bad@@"}
    /\ Passes(1)
    /\ UNCHANGED <<text, place, change, seen, hunk, parsed, verdict>>

EndsText ==
    /\ verdict = "reading" /\ place = "between" /\ pos > Len(text)
    /\ verdict' = IF parsed = <<>> THEN "missing_header" ELSE "parsed"
    /\ UNCHANGED <<text, pos, place, change, seen, hunk, parsed>>

-----------------------------------------------------------------------------
(* parseFileChange *)

Reads(c, n) == change' = c /\ Passes(n) /\ UNCHANGED <<text, place, seen, hunk, parsed, verdict>>
Finishes(c, n) ==
    /\ parsed' = Append(parsed, c)
    /\ place' = "between"
    /\ Passes(n)
    /\ UNCHANGED <<text, change, seen, hunk, verdict>>

BothSeen == seen = {"minus", "plus"}

EndsFile ==
    /\ place = "file" /\ verdict = "reading"
    /\ \/ pos > Len(text)
       \/ Is({"git", "badgit"})
       \/ Is({"minus"}) /\ ~change.header /\ BothSeen
    /\ Finishes(change, 0)

\* "new file mode", "deleted file mode", and the pair "old mode", "new mode".
ReadsMode ==
    /\ place = "file"
    /\ \/ Is({"newfile"}) /\ Reads([change EXCEPT !.op = "create"], 1)
       \/ Is({"deleted"}) /\ Reads([change EXCEPT !.op = "delete"], 1)
       \/ /\ Is({"oldmode"})
          /\ IF pos < Len(text) /\ text[pos + 1].kind = "newmode"
             THEN Peek.arg # text[pos + 1].arg
                  /\ Reads([change EXCEPT !.mode = text[pos + 1].arg], 2)
             ELSE Reads(change, 1)

\* A mode that is neither 100644 nor 100755, or one that does not change.
BadMode ==
    /\ place = "file"
    /\ \/ Is({"badmode"})
       \/ /\ Is({"oldmode"}) /\ pos < Len(text)
          /\ text[pos + 1].kind = "newmode" /\ Peek.arg = text[pos + 1].arg
    /\ Refuse("bad_mode")

ReadsRename ==
    /\ place = "file"
    /\ \/ Is({"renamefrom"}) /\ Reads([change EXCEPT !.op = "rename", !.old = Peek.arg], 1)
       \/ Is({"renameto"}) /\ Reads([change EXCEPT !.path = Peek.arg], 1)

\* The data of a "GIT binary patch" is skipped up to an empty line or a file.
ReadsBinary ==
    /\ place = "file" /\ Is({"binary", "gitbinary"})
    /\ LET stops == {i \in pos + 1 .. Len(text) : text[i].kind \in {"git", "badgit", "blank"}}
           end == IF Peek.kind = "binary" THEN pos + 1
                  ELSE CHOOSE i \in stops \cup {Len(text) + 1} :
                         \A j \in stops : i <= j
       IN  Finishes([change EXCEPT !.binary = TRUE], end - pos)

Named(c, path) == IF ~c.header /\ c.path = "none" /\ path # "/dev/null"
                  THEN [c EXCEPT !.path = path] ELSE c
Implies(c, path, op) == IF ~c.header /\ path = "/dev/null" /\ c.op = "modify"
                        THEN [c EXCEPT !.op = op] ELSE c

ReadsPair ==
    /\ place = "file"
    /\ \/ Is({"minus"}) /\ (change.header \/ ~BothSeen)
          /\ change' = Named(Implies(change, Peek.arg, "create"), Peek.arg)
       \/ Is({"plus"})
          /\ change' = Named(Implies(change, Peek.arg, "delete"), Peek.arg)
    /\ seen' = seen \cup {Peek.kind}
    /\ Passes(1)
    /\ UNCHANGED <<text, place, hunk, parsed, verdict>>

BeginsHunk ==
    /\ place = "file" /\ Is({"@@"})
    /\ BothSeen
    /\ place' = "hunk"
    /\ hunk' = [NoHunk EXCEPT !.start = Peek.arg.start, !.old = Peek.arg.old, !.new = Peek.arg.new]
    /\ Passes(1)
    /\ UNCHANGED <<text, change, seen, parsed, verdict>>

BadHunk ==
    /\ place = "file" /\ Is({"@@", "bad@@"})
    /\ \/ ~BothSeen /\ Refuse("missing_header")
       \/ BothSeen /\ Peek.kind = "bad@@" /\ Refuse("hunk_count_mismatch")

SkipsInFile ==
    /\ place = "file"
    /\ Is({"blank", "other", "version", "signature", "newmode", " ", "+", "-", "\\"})
    /\ Passes(1)
    /\ UNCHANGED <<text, place, change, seen, hunk, parsed, verdict>>

-----------------------------------------------------------------------------
(* parseHunk: hunk.old and hunk.new are the declared counts until it ends *)

\* signatureAt: to the end of the text there is one line, a version number.
SignatureAt(i) ==
    \E j \in i..Len(text) :
        text[j].kind = "version" /\ \A k \in (i..Len(text)) \ {j} : text[k].kind = "blank"

HeaderPairAt(i) ==
    /\ i + 2 <= Len(text)
    /\ text[i].kind = "minus" /\ text[i + 1].kind = "plus" /\ text[i + 2].kind \in {"@@", "bad@@"}

\* (mutant) A header-like pair ends every hunk.
HunkEndsAtPair(i, old, new) ==
    LET complete == old >= hunk.old /\ new >= hunk.new IN
    i \in DOMAIN text =>
        \/ text[i].kind \in {"@@", "bad@@", "git", "badgit"}
        \/ text[i].kind = "signature" /\ complete /\ SignatureAt(i + 1)
        \/ HeaderPairAt(i)

HunkEndsAt(i, old, new) ==
    LET complete == old >= hunk.old /\ new >= hunk.new IN
    i \in DOMAIN text =>
        \/ text[i].kind \in {"@@", "bad@@", "git", "badgit"}
        \/ text[i].kind = "signature" /\ complete /\ SignatureAt(i + 1)
        \/ HeaderPairAt(i) /\ ~change.header /\ complete

Old == OldCount(hunk.lines)
New == NewCount(hunk.lines)
EndsHere == HunkEndsAt(pos, Old, New)
IsBody(l) == Prefix(l) # "other"

\* bodyFollowsAt(i): what a line that is not of a patch would cut off.
BodyFollowsAt(i) ==
    \E j \in i..Len(text) : IsBody(text[j]) /\ \A k \in i..j : ~HunkEndsAt(k, Old, New)

\* bodyContinuesAt(i): the first line that is not empty decides.
BodyContinuesAt(i) ==
    \E j \in i..Len(text) :
        /\ IsBody(text[j])
        /\ \A k \in i..(j - 1) : text[k].kind = "blank"
        /\ ~HunkEndsAt(j, Old + (j - i), New + (j - i))

InHunk == place = "hunk" /\ HasLine /\ ~EndsHere

\* An empty line before more of the body is a context line that lost its space.
ReadsBody ==
    /\ InHunk
    /\ IsBody(Peek) \/ (Peek.kind = "blank" /\ BodyContinuesAt(pos))
    /\ hunk' = [hunk EXCEPT !.lines =
                  Append(@, IF Peek.kind = "blank" THEN [prefix |-> " ", says |-> "empty"]
                            ELSE [prefix |-> Prefix(Peek), says |-> Says(Peek)])]
    /\ Passes(1)
    /\ UNCHANGED <<text, place, change, seen, parsed, verdict>>

StrayLine ==
    /\ InHunk
    /\ ~IsBody(Peek) /\ Peek.kind # "blank"
    /\ BodyFollowsAt(pos + 1)
    /\ Refuse("hunk_count_mismatch")

HunkOver ==
    /\ place = "hunk" /\ verdict = "reading"
    /\ \/ EndsHere
       \/ HasLine /\ Peek.kind = "blank" /\ ~BodyContinuesAt(pos)
       \/ HasLine /\ ~IsBody(Peek) /\ Peek.kind # "blank" /\ ~BodyFollowsAt(pos + 1)

\* The declared counts are replaced by what was counted.
EndsHunk ==
    /\ HunkOver
    /\ IF Old + New = 0 THEN Refuse("hunk_count_mismatch")
       ELSE /\ place' = "file"
            /\ change' = [change EXCEPT !.hunks = Append(@, [hunk EXCEPT !.old = Old, !.new = New])]
            /\ UNCHANGED <<text, pos, seen, hunk, parsed, verdict>>

ParseStep ==
    \/ BeginsFile \/ NoFile \/ SkipsBetween \/ EndsText
    \/ EndsFile \/ ReadsMode \/ BadMode \/ ReadsRename \/ ReadsBinary \/ ReadsPair
    \/ BeginsHunk \/ BadHunk \/ SkipsInFile
    \/ ReadsBody \/ StrayLine \/ EndsHunk

-----------------------------------------------------------------------------
(* Render *)

RenderLine(l) ==
    CASE l.says \in {<<"minus", "p">>, <<"plus", "p">>, <<"signature", "p">>} ->
           Line(l.says[1], l.says[2])
      [] OTHER -> Line(l.prefix, l.says)

RenderHunk(h) ==
    << Line("@@", [start |-> h.start, old |-> h.old, new |-> h.new]) >>
        \o [i \in 1..Len(h.lines) |-> RenderLine(h.lines[i])]

OtherMode(mode) == IF mode = "755" THEN "644" ELSE "755"

RenderHeader(c) ==
    << Line("git", c.path) >>
      \o (IF c.mode # "none" THEN << Line("oldmode", OtherMode(c.mode)), Line("newmode", c.mode) >>
                             ELSE <<>>)
      \o (CASE c.op = "rename" -> << Line("renamefrom", c.old), Line("renameto", c.path) >>
            [] c.op = "create" -> << Line("newfile", "644") >>
            [] c.op = "delete" -> << Line("deleted", "644") >>
            [] OTHER -> <<>>)

RenderPair(c) ==
    << Line("minus", CASE c.op = "create" -> "/dev/null" [] c.op = "rename" -> c.old [] OTHER -> c.path),
       Line("plus", IF c.op = "delete" THEN "/dev/null" ELSE c.path) >>

RenderChange(c) ==
    (IF c.header THEN RenderHeader(c) ELSE <<>>)
      \o (IF c.hunks # <<>> \/ c.op \in {"create", "delete"} THEN RenderPair(c) ELSE <<>>)
      \o (IF c.binary THEN << Line("binary", c.path) >>
          ELSE FlattenSeq([i \in 1..Len(c.hunks) |-> RenderHunk(c.hunks[i])]))

Render(changes) == FlattenSeq([i \in 1..Len(changes) |-> RenderChange(changes[i])])
=============================================================================
