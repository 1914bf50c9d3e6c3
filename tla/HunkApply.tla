------------------------------ MODULE HunkApply -------------------------------
(***************************************************************************)
(* applyModify (internal/patch/apply.go): the hunks of one file change are *)
(* placed one after the other in the lines of the file.  A hunk goes where *)
(* its header says when its old lines stand there, and else to the nearest *)
(* place within maxRelocation lines, behind the hunk before it.            *)
(*                                                                         *)
(* Lines are values.  Places are 0-based indices, as in the code; line i   *)
(* of the file is lines[i + 1].  The bytes that end a line are left to the *)
(* last step, which only says when they make the code refuse the patch.    *)
(***************************************************************************)
EXTENDS Integers, Sequences, SequencesExt

CONSTANT MaxRelocation

ASSUME RelocationAssumption == MaxRelocation \in Nat

VARIABLES
    file,       \* the lines of the file
    hunks,      \* the hunks of its change
    lines,      \* the lines, the hunks placed so far applied
    placed,     \* for each of these the place HunkMove calls Applied
    offset,     \* from declared places to places in lines
    resize,     \* lines the hunks placed so far have added
    floor,      \* the end of the last of them
    outcome     \* how the change goes

applyVars == <<file, hunks, lines, placed, offset, resize, floor, outcome>>

StartOn(f, hs) ==
    /\ file = f
    /\ hunks = hs
    /\ lines = f
    /\ placed = <<>>
    /\ offset = 0
    /\ resize = 0
    /\ floor = 0
    /\ outcome = "applying"

\* What the lines of a hunk that begin with these prefixes say.
Side(h, prefixes) ==
    LET upTo[i \in 0..Len(h.lines)] ==
          IF i = 0 THEN <<>>
          ELSE IF h.lines[i].prefix \in prefixes THEN Append(upTo[i - 1], h.lines[i].says)
          ELSE upTo[i - 1]
    IN  upTo[Len(h.lines)]
OldSide(h) == Side(h, {" ", "-"})
\* Context is taken from the file, which holds the same line there.
NewSide(h) == Side(h, {" ", "+"})

Inserts(h) == OldSide(h) = <<>>

MatchesAt(ls, old, p) ==
    /\ 0 <= p /\ p + Len(old) <= Len(ls)
    /\ \A k \in 1..Len(old) : ls[p + k] = old[k]

Distance(p, q) == IF p < q THEN q - p ELSE p - q

\* (mutant) The search goes back into the hunks before.
AllPlaces(ls, old, from) == 0..(Len(ls) - Len(old))

\* From the end of the hunk before to the last index with room for the old lines.
PlacesFrom(ls, old, from) == from..(Len(ls) - Len(old))

\* locateHunk: the places found, the one place or those that are as near as each
\* other.
LocateHunk(ls, old, expected, from, window) ==
    LET matches == {p \in PlacesFrom(ls, old, from) :
                      Distance(p, expected) <= window /\ MatchesAt(ls, old, p)}
    IN  IF expected >= from /\ MatchesAt(ls, old, expected) THEN {expected}
        ELSE {p \in matches : \A q \in matches : Distance(p, expected) <= Distance(q, expected)}

Now == hunks[Len(placed) + 1]
Conflict == outcome' = "patch_conflict"
               /\ UNCHANGED <<file, hunks, lines, placed, offset, resize, floor>>

Spliced(ls, p, n, new) == SubSeq(ls, 1, p) \o new \o SubSeq(ls, p + n + 1, Len(ls))

\* (mutant) An insertion's declared end is taken as that of a hunk with old lines.
PutOffByOne(p, applied) ==
    LET n == Len(OldSide(Now)) IN
    /\ lines' = Spliced(lines, p, n, NewSide(Now))
    /\ placed' = Append(placed, applied)
    /\ floor' = p + Len(NewSide(Now))
    /\ offset' = floor' - (Now.start - 1 + n)
    /\ resize' = resize + Len(NewSide(Now)) - n
    /\ UNCHANGED <<file, hunks, outcome>>

\* The hunk replaces its old lines at p; declaredEnd is where they end in the
\* places the headers count in.
Put(p, applied) ==
    LET n == Len(OldSide(Now))
        declaredEnd == IF n = 0 THEN Now.start ELSE Now.start - 1 + n
    IN
    /\ lines' = Spliced(lines, p, n, NewSide(Now))
    /\ placed' = Append(placed, applied)
    /\ floor' = p + Len(NewSide(Now))
    /\ offset' = floor' - declaredEnd
    /\ resize' = resize + Len(NewSide(Now)) - n
    /\ UNCHANGED <<file, hunks, outcome>>

HasHunk == outcome = "applying" /\ Len(placed) < Len(hunks)

\* A pure insertion goes behind line start, shifted as the hunk before it was.
PutInsertion ==
    /\ HasHunk /\ Inserts(Now)
    /\ LET p == Now.start + offset IN
         IF p > Len(lines) \/ p < floor THEN Conflict ELSE Put(p, p - resize)

PutHunk ==
    /\ HasHunk /\ ~Inserts(Now)
    /\ LET found == LocateHunk(lines, OldSide(Now), Now.start - 1 + offset, floor, MaxRelocation) IN
         \/ \E p \in found : found = {p} /\ Put(p, p - resize + 1)
         \/ (\A p \in found : found # {p}) /\ Conflict

\* The result is written with one line ending, the file's most frequent one.
\* Refused are: added lines that end in another way, when a line of the patch
\* carries a CR; and a result whose most frequent ending is not the file's.
Adds == \E i \in 1..Len(hunks) : Side(hunks[i], {"+"}) # <<>>

WritesResult ==
    /\ outcome = "applying" /\ Len(placed) = Len(hunks)
    /\ \E ending \in IF file = <<>> THEN {"LF"} ELSE {"LF", "CRLF"} :
       \E addedCR \in IF Adds THEN SUBSET BOOLEAN ELSE {{}} : \E otherCR \in BOOLEAN :
         LET carries == TRUE \in addedCR \/ otherCR
             noEndLeft == Len(lines) = 0
                            \/ (Len(lines) = 1 /\ hunks # <<>> /\ Last(Last(hunks).lines).prefix = "\\")
         IN  outcome' = IF \/ carries /\ (ending # "CRLF") \in addedCR
                           \/ hunks # <<>> /\ ending = "CRLF" /\ noEndLeft
                        THEN "line_ending_mismatch" ELSE "ok"
    /\ UNCHANGED <<file, hunks, lines, placed, offset, resize, floor>>

ApplyStep == PutInsertion \/ PutHunk \/ WritesResult

-----------------------------------------------------------------------------
(* What the hunks mean, each put at a place of the file itself *)

\* The 0-based place in the file of a hunk that Applied names.
PlaceOf(h, applied) == IF Inserts(h) THEN applied ELSE applied - 1

\* The file up to each hunk's place and beyond the last, every hunk replaced.
Rewritten(f, hs, places) ==
    LET end(i) == IF i = 0 THEN 0 ELSE places[i] + Len(OldSide(hs[i]))
        upTo[i \in 0..Len(hs)] ==
          IF i = 0 THEN <<>>
          ELSE upTo[i - 1] \o SubSeq(f, end(i - 1) + 1, places[i]) \o NewSide(hs[i])
    IN  upTo[Len(hs)] \o SubSeq(f, end(Len(hs)) + 1, Len(f))

\* Hunks that all fit the file at these places and do not overlap.
Fit(f, hs, places) ==
    /\ \A i \in 1..Len(hs) : MatchesAt(f, OldSide(hs[i]), places[i])
    /\ \A i \in 1..(Len(hs) - 1) : places[i] + Len(OldSide(hs[i])) <= places[i + 1]
=============================================================================
