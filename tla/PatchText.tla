------------------------------ MODULE PatchText -------------------------------
(***************************************************************************)
(* What the model writes as a patch, read by Parse and placed by           *)
(* applyModify: PatchParse and HunkApply one after the other.              *)
(*                                                                         *)
(* A text is what Render writes of a list of file changes, with what a     *)
(* language model does to it: counts of a header that are wrong, an empty  *)
(* context line without its space, a line that is of no patch, something   *)
(* behind the end.                                                         *)
(***************************************************************************)
EXTENDS PatchParse, HunkApply

CONSTANTS Words,        \* what a line of a file says
          MaxFile,      \* bound: lines of the file
          MaxStart,     \* bound: the line a hunk declares
          MaxBody       \* bound: lines of a hunk

ASSUME TextAssumption == MaxFile \in Nat /\ MaxStart \in Nat /\ MaxBody \in Nat

VARIABLES
    intended,   \* the file changes that were to be written
    slips       \* what went wrong in writing them

textVars == <<parseVars, applyVars, intended, slips>>

-----------------------------------------------------------------------------
(* The texts *)

SeqsUpTo(S, n) == UNION {[1..k -> S] : k \in 1..n}

\* A hunk as the parser leaves it, its counts those of its body.
Hunk(start, body) == [start |-> start, lines |-> body, old |-> OldCount(body), new |-> NewCount(body)]
Body(prefix, says) == [prefix |-> prefix, says |-> says]

Modify(header, hs) == [NoChange EXCEPT !.header = header, !.path = "p", !.hunks = hs]

\* Changes of one file for every placement of one or two hunks in it.
PlainBodies == SeqsUpTo({" ", "+", "-"} \X Words, MaxBody)
PlainHunks == {Hunk(start, [i \in DOMAIN b |-> Body(b[i][1], b[i][2])]) :
                 start \in 0..MaxStart, b \in PlainBodies}
Placements == {<<Modify(FALSE, hs)>> : hs \in SeqsUpTo(PlainHunks, 2)}

\* Bodies of lines that look like something else, followed by more.
Word == CHOOSE w \in Words : TRUE
OddLines == {Body(" ", Word), Body(" ", "empty"), Body("\\", "none"), Body("+", Word),
             Body("-", <<"minus", "p">>), Body("+", <<"plus", "p">>), Body("-", <<"signature", "p">>)}
OddBodies == LET short == {b \in SeqsUpTo(OddLines, MaxBody) : OldCount(b) + NewCount(b) > 0}
             IN  short \cup {<<Body(" ", Word)>> \o b : b \in short}
Follow(header) ==
    {<<>>, <<Modify(header, <<Hunk(1, <<Body("+", Word)>>)>>)>>}
      \cup {<<[NoChange EXCEPT !.header = header, !.path = "q", !.op = op,
                               !.hunks = <<Hunk(1, <<Body(IF op = "create" THEN "+" ELSE "-", Word)>>)>>]>> :
              op \in {"create", "delete"}}
      \cup IF header
           THEN { <<[NoChange EXCEPT !.header = TRUE, !.path = "q", !.op = "rename", !.old = "o"]>>,
                  <<[NoChange EXCEPT !.header = TRUE, !.path = "q", !.mode = "755"]>>,
                  <<[NoChange EXCEPT !.header = TRUE, !.path = "q", !.binary = TRUE]>> }
           ELSE {}
Second == {<<>>, <<Hunk(2, <<Body("-", Word)>>)>>}
OddModify(header) == {Modify(header, <<Hunk(1, b)>> \o second) : b \in OddBodies, second \in Second}
Odd(header) == {<<p[1]>> \o p[2] : p \in OddModify(header) \X Follow(header)}

NoSlips == [counts |-> 0, bare |-> FALSE, tail |-> "none", stray |-> 0]

\* Tails: a format-patch signature, an empty line, a closing remark.
Slips == [counts : {-1, 0, 1}, bare : BOOLEAN, tail : {"none", "signature", "blank", "other"}, stray : {0}]
           \cup [counts : {0}, bare : BOOLEAN, tail : {"none"}, stray : 1..MaxBody]

Declared(c, by) ==
    [c EXCEPT !.hunks = [i \in DOMAIN c.hunks |->
                           [c.hunks[i] EXCEPT !.old = @ + by, !.new = @ + by]]]
Bared(l) == IF l.kind = " " /\ l.arg = "empty" THEN Line("blank", "none") ELSE l
Tail_(tail) == CASE tail = "signature" -> <<Line("signature", "p"), Line("version", "none")>>
                 [] tail = "none" -> <<>>
                 [] OTHER -> <<Line(tail, "none")>>

\* A line that is of no patch behind that many lines of the first hunk's body.
Strayed(changes, behind) ==
    IF behind = 0 THEN changes
    ELSE [changes EXCEPT ![1].hunks[1].lines = InsertAt(@, behind + 1, Body("other", "none"))]

Written(changes, s) ==
    LET wrong == [i \in DOMAIN changes |-> Declared(changes[i], s.counts)]
        ls == Render(Strayed(wrong, s.stray))
    IN  (IF s.bare THEN [i \in DOMAIN ls |-> Bared(ls[i])] ELSE ls) \o Tail_(s.tail)

\* Texts that are no patch at all.
Broken == { <<Line("other", "none"), Line("bad@@", "none")>>,
            <<Line("blank", "none"), Line("badgit", "none")>>,
            <<Line("other", "none")>>,
            <<Line("git", "p"), Line("badmode", "none")>>,
            <<Line("git", "p"), Line("oldmode", "644"), Line("newmode", "644")>>,
            <<Line("git", "p"), Line("oldmode", "644"), Line("gitbinary", "none"), Line("other", "none")>>,
            <<Line("minus", "p"), Line("@@", [start |-> 1, old |-> 1, new |-> 1])>>,
            <<Line("minus", "p"), Line("plus", "p"), Line("bad@@", "none")>> }

TextInit ==
    /\ \/ /\ intended \in Placements /\ slips = NoSlips
          /\ Begin(Written(intended, slips))
       \/ /\ intended \in Odd(TRUE) \cup Odd(FALSE) /\ slips \in Slips
          /\ slips.stray < Len(intended[1].hunks[1].lines)
          /\ slips.bare => \E i \in DOMAIN intended[1].hunks[1].lines :
                              intended[1].hunks[1].lines[i] = Body(" ", "empty")
          /\ Begin(Written(intended, slips))
       \/ /\ intended = <<>> /\ slips = NoSlips
          /\ \E t \in Broken : Begin(t)
    /\ StartOn(<<>>, <<>>)

-----------------------------------------------------------------------------
Parsing == ParseStep /\ UNCHANGED <<applyVars, intended, slips>>

\* Stage, of a patch that modifies one file.
Stages ==
    /\ verdict = "parsed"
    /\ Len(parsed) = 1 /\ parsed[1].op = "modify"
    /\ \A i \in DOMAIN parsed[1].hunks : \A l \in Range(parsed[1].hunks[i].lines) :
         l.says \in Words \/ l.prefix = "\\"
    /\ outcome = "applying" /\ hunks = <<>> /\ file = <<>>
    /\ \E f \in SeqsUpTo(Words, MaxFile) \cup {<<>>} :
         /\ file' = f /\ lines' = f
         /\ hunks' = parsed[1].hunks
    /\ UNCHANGED <<placed, offset, resize, floor, outcome, parseVars, intended, slips>>

Applying == hunks # <<>> /\ ApplyStep /\ UNCHANGED <<parseVars, intended, slips>>

TextNext == Parsing \/ Stages \/ Applying

TextSpec == TextInit /\ [][TextNext]_textVars

-----------------------------------------------------------------------------
FirstBody == intended[1].hunks[1].lines

\* Slips that the parser makes good.  Counts that are wrong do not matter in a
\* change that began with "diff --git", unless they leave a hunk open before a
\* signature; an empty line is context if more of the body follows.
Tolerated ==
    /\ slips.stray = 0
    /\ slips.counts # 0 => intended[1].header /\ ~(slips.counts > 0 /\ slips.tail = "signature")
    /\ slips.bare => Last(FirstBody) # Body(" ", "empty")

\* The stray line has more of the hunk's body behind it; or an empty line of the
\* text right before it.
IsBare(i) == slips.bare /\ FirstBody[i] = Body(" ", "empty")
CutsOff == slips.stray > 0 /\ \E i \in DOMAIN FirstBody : i > slips.stray /\ ~IsBare(i)
BehindBlank == slips.stray > 0 /\ IsBare(slips.stray)

\* What Render writes, Parse reads back, whatever the lines of the hunks look
\* like, with the slips the parser allows for; and a stray line with more of the
\* body behind it is an error, not the end of the hunk (parseHunk's default
\* case), unless it stands behind an empty line.
ReadsWhatIsWritten ==
    (intended # <<>> /\ verdict # "reading") =>
        /\ Tolerated => verdict = "parsed" /\ parsed = intended
        /\ (CutsOff /\ ~BehindBlank) => verdict = "hunk_count_mismatch"

Places == [i \in DOMAIN placed |-> PlaceOf(hunks[i], placed[i])]
PlacedHunks == SubSeq(hunks, 1, Len(placed))

\* The lines are the file's with every hunk put at the place HunkMove reports,
\* counted in the file before any of them; there its old lines stand in the file,
\* and no hunk reaches into the one before (applyModify, "Positions are line
\* numbers in the file before any hunk of the patch was applied").
AppliesWhereItSays ==
    /\ Fit(file, PlacedHunks, Places)
    /\ lines = Rewritten(file, PlacedHunks, Places)

\* A patch of this very file, whose hunks stand where they declare, goes where
\* it declares and into no conflict.
Declares == [i \in DOMAIN hunks |-> PlaceOf(hunks[i], hunks[i].start)]
ExactPatchApplies ==
    Fit(file, hunks, Declares) =>
        /\ outcome # "patch_conflict"
        /\ \A i \in DOMAIN placed : placed[i] = hunks[i].start

\* What the release notes say of the parser (CHANGELOG.md, "apply_patch parser
\* errors replace silent acceptance of malformed patches"): a line inside a hunk
\* that starts with none of the prefixes is an error when hunk body lines follow.
StrayLineIsAnError ==
    (intended # <<>> /\ CutsOff /\ verdict # "reading") => verdict = "hunk_count_mismatch"
=============================================================================
