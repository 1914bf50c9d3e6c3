---------------------------- MODULE SessionProofs ----------------------------
(***************************************************************************)
(* A session that is kept.                                                 *)
(*                                                                         *)
(* SessionStore, for any number of recorders, events and crashes, and any  *)
(* queue: the session file is the event log that EventLog describes,       *)
(* whatever a failed write or a crash leaves of it; and what Flush or      *)
(* Close said is safe can be read, but for the two cases Durable names.    *)
(*                                                                         *)
(* SessionReplay, for any conversation, any bounds and any limits of       *)
(* compaction the code's satisfy: Resume makes of the log the conversation *)
(* it recorded, and of each beginning of it a session; and a request has   *)
(* its calls and results in pairs, since what is read of the log has.      *)
(***************************************************************************)
EXTENDS SessionStore, SessionReplay, SequenceTheorems, WellFoundedInduction,
        FiniteSetTheorems, TLAPS

\* The events that can be read are those of the lines up to here.
Reach(lines) ==
    IF Intact(lines) < Len(lines) /\ Intact(lines) + 1 = Len(lines)
         /\ lines[Len(lines)].state = "no_newline"
    THEN Len(lines) ELSE Intact(lines)

\* g is a beginning of the file l, of which the last line may be cut.
CutOf(g, l) ==
    /\ Len(g) <= Len(l)
    /\ \A i \in 1..Len(g) :
         g[i] = l[i] \/ (i = Len(g) /\ g[i].event = l[i].event /\ g[i].state # "good")

\* The smaller of two.
Less(m, n) == IF m < n THEN m ELSE n

-----------------------------------------------------------------------------
(* Lines and events *)

LEMMA PrefixIs ==
    ASSUME NEW S, NEW s \in Seq(S), NEW n \in 0..Len(s)
    PROVE  /\ SubSeq(s, 1, n) \in Seq(S) /\ Len(SubSeq(s, 1, n)) = n
           /\ \A i \in 1..n : SubSeq(s, 1, n)[i] = s[i]
  OBVIOUS

LEMMA ConcatIs ==
    ASSUME NEW S, NEW s \in Seq(S), NEW t \in Seq(S)
    PROVE  /\ s \o t \in Seq(S) /\ Len(s \o t) = Len(s) + Len(t)
           /\ \A i \in 1..(Len(s) + Len(t)) :
                (s \o t)[i] = IF i <= Len(s) THEN s[i] ELSE t[i - Len(s)]
  OBVIOUS

LEMMA NatMin ==
    ASSUME NEW T, T \subseteq Nat, T # {}
    PROVE  \E m \in T : \A k \in T : m <= k
<1> DEFINE R == OpToRel(<, Nat)
<1>1. IsWellFoundedOn(R, Nat)
  BY NatLessThanWellFounded
<1> HIDE DEF R
<1>2. PICK m \in T : \A k \in T : <<k, m>> \notin R
  BY <1>1, WFMin
<1>3. \A k \in T : ~(k < m)
  BY <1>2 DEF R, OpToRel
<1> QED BY <1>3

LEMMA LinesAre ==
    ASSUME NEW es \in Seq(Events)
    PROVE  /\ Lines(es) \in Seq(Line)
           /\ Len(Lines(es)) = Len(es)
           /\ \A i \in 1..Len(es) : Lines(es)[i] = [event |-> es[i], state |-> "good"]
<1>1. Len(es) \in Nat /\ DOMAIN es = 1..Len(es) /\ \A i \in 1..Len(es) : es[i] \in Events
  BY ElementOfSeq, LenProperties
<1>2. \A i \in 1..Len(es) : [event |-> es[i], state |-> "good"] \in Line
  BY <1>1 DEF Line
<1> QED BY <1>1, <1>2 DEF Lines

\* A file with events written to it.
LEMMA WrittenIs ==
    ASSUME NEW f \in Seq(Line), NEW es \in Seq(Events)
    PROVE  /\ f \o Lines(es) \in Seq(Line)
           /\ Len(f \o Lines(es)) = Len(f) + Len(es)
           /\ \A i \in 1..Len(f) : (f \o Lines(es))[i] = f[i]
           /\ \A i \in (Len(f) + 1)..(Len(f) + Len(es)) :
                /\ (f \o Lines(es))[i].event = es[i - Len(f)]
                /\ (f \o Lines(es))[i].state = "good"
<1>1. /\ Lines(es) \in Seq(Line) /\ Len(Lines(es)) = Len(es)
      /\ \A i \in 1..Len(es) : Lines(es)[i] = [event |-> es[i], state |-> "good"]
  BY LinesAre
<1>2. Len(f) \in Nat /\ Len(es) \in Nat
  BY LenProperties
<1> DEFINE l == Lines(es)
<1>3. l \in Seq(Line) /\ Len(l) = Len(es)
  BY <1>1
<1>4. \A i \in 1..Len(es) : l[i] = [event |-> es[i], state |-> "good"]
  BY <1>1
<1> HIDE DEF l
<1>5. /\ f \o l \in Seq(Line) /\ Len(f \o l) = Len(f) + Len(l)
      /\ \A i \in 1..(Len(f) + Len(l)) : (f \o l)[i] = IF i <= Len(f) THEN f[i] ELSE l[i - Len(f)]
  BY <1>3, ConcatIs
<1>6. \A i \in 1..Len(f) : (f \o l)[i] = f[i]
  BY <1>2, <1>3, <1>5
<1>7. ASSUME NEW i \in (Len(f) + 1)..(Len(f) + Len(es))
      PROVE  (f \o l)[i].event = es[i - Len(f)] /\ (f \o l)[i].state = "good"
  <2>1. i \in 1..(Len(f) + Len(l)) /\ ~(i <= Len(f)) /\ i - Len(f) \in 1..Len(es)
    BY <1>2, <1>3
  <2>2. (f \o l)[i] = l[i - Len(f)]
    BY <1>5, <2>1
  <2>3. l[i - Len(f)] = [event |-> es[i - Len(f)], state |-> "good"]
    BY <1>4, <2>1
  <2> QED BY <2>2, <2>3
<1> QED BY <1>3, <1>5, <1>6, <1>7 DEF l

\* There is one number of lines that have their newline.
LEMMA IntactIs ==
    ASSUME NEW lines \in Seq(Line)
    PROVE  /\ Intact(lines) \in 0..Len(lines)
           /\ \A i \in 1..Intact(lines) : lines[i].state = "good"
           /\ Intact(lines) < Len(lines) => lines[Intact(lines) + 1].state # "good"
<1> DEFINE stop(n) == /\ \A i \in 1..n : lines[i].state = "good"
                      /\ n < Len(lines) => lines[n+1].state # "good"
           Ends == {n \in 0..Len(lines) : n < Len(lines) => lines[n+1].state # "good"}
<1>0. Len(lines) \in Nat
  BY LenProperties
<1>1. PICK n \in Ends : \A k \in Ends : n <= k
  <2>1. Len(lines) \in Ends /\ Ends \subseteq Nat
    BY <1>0
  <2> HIDE DEF Ends
  <2> QED BY <2>1, NatMin
<1>2. \A i \in 1..n : lines[i].state = "good"
  <2> SUFFICES ASSUME NEW i \in 1..n, lines[i].state # "good" PROVE FALSE
    OBVIOUS
  <2>1. n \in Nat /\ n <= Len(lines) /\ i - 1 \in 0..Len(lines) /\ (i - 1) + 1 = i
    BY <1>0, <1>1
  <2>2. i - 1 \in Ends
    BY <2>1
  <2> HIDE DEF Ends
  <2>3. n <= i - 1
    BY <1>1, <2>2
  <2> QED BY <2>1, <2>3
<1>3. n \in 0..Len(lines) /\ stop(n)
  BY <1>0, <1>1, <1>2
<1>4. Intact(lines) = CHOOSE m \in 0..Len(lines) : stop(m)
  BY DEF Intact
<1>5. Intact(lines) \in 0..Len(lines) /\ stop(Intact(lines))
  <2> HIDE DEF stop
  <2> QED BY <1>3, <1>4
<1> QED BY <1>5

LEMMA IntactBy ==
    ASSUME NEW lines \in Seq(Line), NEW n \in 0..Len(lines),
           \A i \in 1..n : lines[i].state = "good",
           n < Len(lines) => lines[n+1].state # "good"
    PROVE  Intact(lines) = n
<1>0. Len(lines) \in Nat
  BY LenProperties
<1> DEFINE m == Intact(lines)
<1>1. /\ m \in 0..Len(lines) /\ \A i \in 1..m : lines[i].state = "good"
      /\ m < Len(lines) => lines[m + 1].state # "good"
  BY IntactIs
<1> HIDE DEF m
<1>2. ~(m < n)
  BY <1>0, <1>1
<1>3. ~(n < m)
  BY <1>0, <1>1
<1> QED BY <1>0, <1>1, <1>2, <1>3 DEF m

LEMMA AppendableIs ==
    ASSUME NEW lines \in Seq(Line)
    PROVE  Appendable(lines) <=> Intact(lines) = Len(lines)
<1>0. Len(lines) \in Nat /\ DOMAIN lines = 1..Len(lines)
  BY LenProperties
<1>1. ASSUME Appendable(lines) PROVE Intact(lines) = Len(lines)
  BY <1>0, <1>1, IntactBy DEF Appendable
<1>2. ASSUME Intact(lines) = Len(lines) PROVE Appendable(lines)
  BY <1>0, <1>2, IntactIs DEF Appendable
<1> QED BY <1>1, <1>2

LEMMA ReachIs ==
    ASSUME NEW lines \in Seq(Line)
    PROVE  /\ Reach(lines) \in 0..Len(lines) /\ Intact(lines) <= Reach(lines)
           /\ Intact(lines) \in 0..Len(lines)
           /\ Reach(lines) # Intact(lines) =>
                /\ Reach(lines) = Intact(lines) + 1 /\ Reach(lines) = Len(lines)
                /\ lines[Len(lines)].state = "no_newline"
           /\ Appendable(lines) => Reach(lines) = Len(lines)
<1>0. Len(lines) \in Nat /\ Intact(lines) \in 0..Len(lines)
  BY LenProperties, IntactIs
<1> QED BY <1>0, AppendableIs DEF Reach

LEMMA ReadableIs ==
    ASSUME NEW lines \in Seq(Line)
    PROVE  /\ Readable(lines) = [i \in 1..Reach(lines) |-> lines[i].event]
           /\ Readable(lines) \in Seq(Events)
           /\ Len(Readable(lines)) = Reach(lines)
<1> DEFINE stop(n) == /\ \A i \in 1..n : Valid(lines, i)
                      /\ n < Len(lines) => ~Valid(lines, n+1)
           m == CHOOSE n \in 0..Len(lines) : stop(n)
           r == Reach(lines)
           w == Intact(lines)
<1>0. /\ Len(lines) \in Nat /\ w \in 0..Len(lines) /\ r \in 0..Len(lines)
      /\ \A i \in 1..w : lines[i].state = "good"
      /\ w < Len(lines) => lines[w + 1].state # "good"
      /\ r # w => r = w + 1 /\ r = Len(lines) /\ lines[Len(lines)].state = "no_newline"
      /\ ~(r # w) => ~(w + 1 = Len(lines) /\ lines[Len(lines)].state = "no_newline")
      /\ w <= r
  BY LenProperties, IntactIs, ReachIs DEF Reach
<1> HIDE DEF r, w
<1>1. \A i \in 1..r : Valid(lines, i)
  BY <1>0 DEF Valid
<1>2. r < Len(lines) => ~Valid(lines, r+1)
  BY <1>0 DEF Valid
<1>3. r \in 0..Len(lines) /\ stop(r)
  BY <1>0, <1>1, <1>2
<1>4. m \in 0..Len(lines) /\ stop(m)
  <2> HIDE DEF stop
  <2> QED BY <1>3
<1>5. m = r
  <2> HIDE DEF m
  <2>1. ~(m < r)
    BY <1>0, <1>1, <1>3, <1>4
  <2>2. ~(m > r)
    BY <1>0, <1>2, <1>3, <1>4
  <2> QED BY <1>3, <1>4, <2>1, <2>2
<1>6. Readable(lines) = [i \in 1..m |-> lines[i].event]
  BY DEF Readable
<1>7. \A i \in 1..r : lines[i].event \in Events
  <2> SUFFICES ASSUME NEW i \in 1..r PROVE lines[i].event \in Events
    OBVIOUS
  <2>1. i \in 1..Len(lines)
    BY <1>0
  <2>2. lines[i] \in Line
    BY <2>1, ElementOfSeq
  <2> QED BY <2>2 DEF Line
<1>8. Readable(lines) = [i \in 1..r |-> lines[i].event]
  BY <1>5, <1>6
<1> DEFINE R == [i \in 1..r |-> lines[i].event]
<1>9. R \in Seq(Events) /\ Len(R) = r
  BY <1>0, <1>7
<1> QED BY <1>8, <1>9 DEF r

\* The set of what can be read.
LEMMA ReadableSet ==
    ASSUME NEW lines \in Seq(Line)
    PROVE  ToSet(Readable(lines)) = {lines[i].event : i \in 1..Reach(lines)}
  BY ReadableIs DEF ToSet

\* A repair leaves what can be read.
LEMMA RepairIs ==
    ASSUME NEW lines \in Seq(Line)
    PROVE  /\ RepairSession(lines) \in Seq(Line)
           /\ Reach(lines) <= Len(RepairSession(lines))
           /\ Len(RepairSession(lines)) <= Len(lines)
           /\ \A i \in 1..Len(RepairSession(lines)) : RepairSession(lines)[i] = lines[i]
           /\ Reach(RepairSession(lines)) = Reach(lines)
           /\ Intact(RepairSession(lines)) = Intact(lines)
<1> DEFINE cut(n) == /\ n > 0 => Valid(lines, n)
                     /\ \A i \in (n+1)..Len(lines) : ~Valid(lines, i)
           m == LastGood(lines)
           g == RepairSession(lines)
           r == Reach(lines)
           w == Intact(lines)
           Ends == {n \in 0..Len(lines) : \A i \in (n+1)..Len(lines) : ~Valid(lines, i)}
<1>0. /\ Len(lines) \in Nat /\ w \in 0..Len(lines) /\ r \in 0..Len(lines)
      /\ \A i \in 1..w : lines[i].state = "good"
      /\ w < Len(lines) => lines[w + 1].state # "good"
      /\ r # w => r = w + 1 /\ r = Len(lines) /\ lines[Len(lines)].state = "no_newline"
      /\ ~(r # w) => ~(w + 1 = Len(lines) /\ lines[Len(lines)].state = "no_newline")
      /\ w <= r
  BY LenProperties, IntactIs, ReachIs DEF Reach
<1> HIDE DEF r, w
<1>1. PICK n \in Ends : \A k \in Ends : n <= k
  <2>1. Len(lines) \in Ends /\ Ends \subseteq Nat
    BY <1>0
  <2> HIDE DEF Ends
  <2> QED BY <2>1, NatMin
<1>2. n > 0 => Valid(lines, n)
  <2> SUFFICES ASSUME n > 0, ~Valid(lines, n) PROVE FALSE
    OBVIOUS
  <2>1. n \in Nat /\ n <= Len(lines) /\ n - 1 \in 0..Len(lines) /\ (n - 1) + 1 = n
    BY <1>0, <1>1
  <2>2. \A i \in n..Len(lines) : ~Valid(lines, i)
    BY <1>0, <1>1
  <2>3. n - 1 \in Ends
    BY <2>1, <2>2
  <2> HIDE DEF Ends
  <2>4. n <= n - 1
    BY <1>1, <2>3
  <2> QED BY <2>1, <2>4
<1>3. n \in 0..Len(lines) /\ cut(n)
  BY <1>1, <1>2
<1>4. m = CHOOSE k \in 0..Len(lines) : cut(k)
  BY DEF LastGood
<1>5. m \in 0..Len(lines) /\ cut(m)
  <2> HIDE DEF cut, m
  <2> QED BY <1>3, <1>4
<1>6. r > 0 => Valid(lines, r)
  BY <1>0 DEF Valid
<1> HIDE DEF m
<1>7. r <= m
  BY <1>0, <1>5, <1>6
<1>8. g = SubSeq(lines, 1, m)
  BY DEF RepairSession, m
<1>9. g \in Seq(Line) /\ Len(g) = m /\ \A i \in 1..m : g[i] = lines[i]
  BY <1>5, <1>8, PrefixIs
<1> HIDE DEF g
<1>10. Intact(g) = w
  <2>1. w \in 0..Len(g) /\ w < Len(g) => w < Len(lines)
    BY <1>0, <1>5, <1>7, <1>9
  <2>2. \A i \in 1..w : g[i].state = "good"
    BY <1>0, <1>5, <1>7, <1>9
  <2>3. w < Len(g) => g[w+1].state # "good"
    BY <1>0, <1>5, <1>7, <1>9
  <2>4. w \in 0..Len(g)
    BY <1>0, <1>5, <1>7, <1>9
  <2> QED BY <1>9, <2>2, <2>3, <2>4, IntactBy
<1>11. Reach(g) = r
  <2>1. CASE m = Len(lines)
    <3>1. Reach(g) = IF w < m /\ w + 1 = m /\ g[m].state = "no_newline" THEN m ELSE w
      BY <1>9, <1>10 DEF Reach
    <3>2. m > 0 => g[m] = lines[m]
      BY <1>5, <1>9
    <3> QED BY <1>0, <2>1, <3>1, <3>2
  <2>2. CASE m < Len(lines)
    <3>1. m > 0 => lines[m].state = "good"
      BY <1>0, <1>5, <2>2 DEF Valid
    <3>2. m > 0 => g[m].state = "good"
      BY <1>5, <1>9, <3>1
    <3>3. r = w
      BY <1>0, <1>5, <1>7, <2>2
    <3> QED BY <1>0, <1>5, <1>9, <1>10, <3>2, <3>3 DEF Reach
  <2> QED BY <1>0, <1>5, <2>1, <2>2
<1> QED BY <1>0, <1>5, <1>7, <1>9, <1>10, <1>11 DEF g, r, w

\* What is intact of the part of a file that is on the disk.
LEMMA IntactOfPrefix ==
    ASSUME NEW f \in Seq(Line), NEW s \in 0..Len(f)
    PROVE  Intact(SubSeq(f, 1, s)) = Less(Intact(f), s)
<1> DEFINE p == SubSeq(f, 1, s)
           w == Intact(f)
<1>1. /\ Len(f) \in Nat /\ p \in Seq(Line) /\ Len(p) = s /\ \A i \in 1..s : p[i] = f[i]
      /\ w \in 0..Len(f) /\ \A i \in 1..w : f[i].state = "good"
      /\ w < Len(f) => f[w + 1].state # "good"
  BY LenProperties, PrefixIs, IntactIs
<1> HIDE DEF p, w
<1>2. CASE w < s
  <2>1. w \in 0..Len(p) /\ \A i \in 1..w : p[i].state = "good"
    BY <1>1, <1>2
  <2>2. w < Len(p) => p[w + 1].state # "good"
    BY <1>1, <1>2
  <2>3. Intact(p) = w
    BY <1>1, <2>1, <2>2, IntactBy
  <2> QED BY <1>2, <2>3 DEF Less, p, w
<1>3. CASE ~(w < s)
  <2>1. s \in 0..Len(p) /\ \A i \in 1..s : p[i].state = "good"
    BY <1>1, <1>3
  <2>2. Intact(p) = s
    BY <1>1, <2>1, IntactBy
  <2> QED BY <1>3, <2>2 DEF Less, p, w
<1> QED BY <1>2, <1>3

\* The log that file f and the events p behind it make up.
KeptOf(f, p) == IF Appendable(f) THEN Readable(f) \o p ELSE Readable(f)

\* The events of file f that can be read from the first s lines.
SureIn(f, s) == {f[i].event : i \in {j \in 1..Len(f) : j <= s /\ j <= Reach(f)}}

\* What is left of a file that was written to: no line that was none becomes
\* one, and what is lost of the lines on the disk is the last one at most.
LEMMA CutKeeps ==
    ASSUME NEW f \in Seq(Line), NEW b \in Seq(Events), NEW g \in Seq(Line),
           CutOf(g, f \o Lines(b)), NEW s \in 0..Len(f), s <= Len(g),
           \A i \in 1..s : g[i] = f[i]
    PROVE  /\ Len(g) <= Len(f) + Len(b)
           /\ \A i \in 1..Len(g) : g[i].event = IF i <= Len(f) THEN f[i].event ELSE b[i - Len(f)]
           /\ Less(Intact(g), s) = Less(Intact(f), s)
           /\ ~Appendable(f) => /\ Reach(g) <= Reach(f) + 1 /\ Reach(g) <= Len(f)
                                /\ Intact(g) <= Intact(f)
                                /\ s = Len(f) => Reach(g) <= Reach(f)
           /\ \A i \in 1..s : i <= Reach(f) =>
                 \/ i <= Reach(g)
                 \/ i = Len(f) /\ Len(g) > Len(f) /\ ~Appendable(f)
<1> DEFINE l == f \o Lines(b)
           w == Intact(f)
           v == Intact(g)
<1>1. /\ Len(f) \in Nat /\ Len(b) \in Nat /\ Len(g) \in Nat /\ s \in Nat
      /\ l \in Seq(Line) /\ Len(l) = Len(f) + Len(b)
      /\ \A i \in 1..Len(f) : l[i] = f[i]
      /\ \A i \in (Len(f) + 1)..(Len(f) + Len(b)) :
           l[i].event = b[i - Len(f)] /\ l[i].state = "good"
  BY LenProperties, WrittenIs
<1>2. /\ Len(g) <= Len(l)
      /\ \A i \in 1..Len(g) :
           g[i] = l[i] \/ (i = Len(g) /\ g[i].event = l[i].event /\ g[i].state # "good")
  BY DEF CutOf
<1> HIDE DEF l
<1>3. Len(g) <= Len(f) + Len(b)
  BY <1>1, <1>2
<1>4. ASSUME NEW i \in 1..Len(g)
      PROVE  g[i].event = IF i <= Len(f) THEN f[i].event ELSE b[i - Len(f)]
  <2>1. g[i].event = l[i].event
    BY <1>2
  <2>2. CASE i <= Len(f)
    <3>1. l[i] = f[i]
      BY <1>1, <2>2
    <3> QED BY <2>1, <2>2, <3>1
  <2>3. CASE ~(i <= Len(f))
    BY <1>1, <1>3, <2>3, <2>1
  <2> QED BY <2>2, <2>3
<1>5. /\ w \in 0..Len(f) /\ \A i \in 1..w : f[i].state = "good"
      /\ w < Len(f) => f[w + 1].state # "good"
      /\ v \in 0..Len(g) /\ \A i \in 1..v : g[i].state = "good"
      /\ v < Len(g) => g[v + 1].state # "good"
  BY IntactIs
<1>6. /\ Reach(f) \in 0..Len(f) /\ w <= Reach(f)
      /\ Reach(f) # w => Reach(f) = w + 1 /\ Reach(f) = Len(f) /\ f[Len(f)].state = "no_newline"
      /\ Reach(g) \in 0..Len(g) /\ v <= Reach(g)
      /\ Reach(g) # v => Reach(g) = v + 1 /\ Reach(g) = Len(g) /\ g[Len(g)].state = "no_newline"
  BY ReachIs
<1>7. Appendable(f) <=> w = Len(f)
  BY AppendableIs
<1> HIDE DEF w, v
<1>8. Less(v, s) = Less(w, s)
  <2>1. CASE w < s
    <3>1. ~(w < v)
      BY <1>1, <1>5, <2>1
    <3>2. ~(v < w)
      BY <1>1, <1>5, <2>1
    <3> QED BY <1>5, <3>1, <3>2
  <2>2. CASE ~(w < s)
    <3>1. ~(v < s)
      BY <1>1, <1>5, <2>2
    <3> QED BY <2>2, <3>1 DEF Less
  <2> QED BY <2>1, <2>2
<1>9. ASSUME w < Len(f) PROVE v <= w
  <2> SUFFICES ASSUME w < v PROVE FALSE
    BY <1>5
  <2>1. w + 1 \in 1..Len(g) /\ w + 1 \in 1..v /\ w + 1 \in 1..Len(f)
    BY <1>1, <1>5, <1>9
  <2>2. g[w + 1].state = "good" /\ f[w + 1].state # "good" /\ l[w + 1] = f[w + 1]
    BY <1>1, <1>5, <1>9, <2>1
  <2>3. g[w + 1] = l[w + 1]
    BY <1>2, <2>1, <2>2
  <2> QED BY <2>2, <2>3
<1>10. ASSUME w < Len(f)
       PROVE  /\ Reach(g) <= Reach(f) + 1 /\ Reach(g) <= Len(f) /\ v <= w
              /\ s = Len(f) => Reach(g) <= Reach(f)
  <2>1. v <= w /\ Reach(g) <= v + 1
    BY <1>1, <1>5, <1>6, <1>9, <1>10
  <2>2. Reach(g) <= Reach(f) + 1 /\ Reach(g) <= Len(f)
    BY <1>1, <1>5, <1>6, <1>10, <2>1
  <2>3. ASSUME s = Len(f) PROVE Reach(g) <= Reach(f)
    <3> SUFFICES ASSUME Reach(g) > Reach(f) PROVE FALSE
      BY <1>6
    <3>1. v = w /\ Reach(g) = w + 1 /\ Reach(g) = Len(g) /\ g[Len(g)].state = "no_newline"
          /\ Reach(f) = w
      BY <1>1, <1>5, <1>6, <2>1
    <3>2. Len(f) = w + 1 /\ Len(g) = Len(f)
      BY <1>1, <1>5, <1>10, <2>3, <3>1
    <3>3. f[Len(f)].state = "no_newline"
      BY <1>1, <2>3, <3>1, <3>2
    <3>4. Reach(f) = Len(f)
      BY <1>10, <3>2, <3>3 DEF Reach, w
    <3> QED BY <1>1, <3>1, <3>2, <3>4
  <2> QED BY <2>1, <2>2, <2>3
<1>11. ASSUME NEW i \in 1..s, i <= Reach(f)
       PROVE  \/ i <= Reach(g)
              \/ i = Len(f) /\ Len(g) > Len(f) /\ ~Appendable(f)
  <2>1. CASE i <= w
    <3>1. i <= Less(w, s)
      BY <1>1, <1>5, <2>1 DEF Less
    <3>2. i <= v
      BY <1>1, <1>5, <1>8, <3>1 DEF Less
    <3> QED BY <1>1, <1>5, <1>6, <3>2
  <2>2. CASE w < i
    <3>1. i = w + 1 /\ i = Len(f) /\ f[Len(f)].state = "no_newline" /\ s = Len(f)
      BY <1>1, <1>5, <1>6, <1>11, <2>2
    <3>2. CASE Len(g) > Len(f)
      BY <1>1, <1>5, <1>7, <3>1, <3>2
    <3>3. CASE ~(Len(g) > Len(f))
      <4>1. Len(g) = Len(f)
        BY <1>1, <3>1, <3>3
      <4>2. v = w
        BY <1>1, <1>5, <1>8, <3>1 DEF Less
      <4>3. g[Len(g)].state = "no_newline"
        BY <1>1, <3>1, <4>1
      <4>4. Reach(g) = Len(g)
        <5>1. v < Len(g) /\ v + 1 = Len(g)
          BY <1>1, <1>5, <3>1, <4>1, <4>2
        <5> QED BY <4>3, <5>1 DEF Reach, v
      <4> QED BY <1>1, <3>1, <4>1, <4>4
    <3> QED BY <3>2, <3>3
  <2> QED BY <1>1, <1>5, <2>1, <2>2
<1> QED BY <1>3, <1>4, <1>7, <1>5, <1>8, <1>10, <1>11 DEF w, v

LEMMA KeptOfIs ==
    ASSUME NEW f \in Seq(Line), NEW p \in Seq(Events)
    PROVE  /\ KeptOf(f, p) \in Seq(Events)
           /\ Len(KeptOf(f, p)) = IF Appendable(f) THEN Len(f) + Len(p) ELSE Reach(f)
           /\ \A i \in 1..Len(KeptOf(f, p)) :
                KeptOf(f, p)[i] = IF i <= Len(f) THEN f[i].event ELSE p[i - Len(f)]
<1> DEFINE R == Readable(f)
<1>1. /\ R \in Seq(Events) /\ Len(R) = Reach(f) /\ \A i \in 1..Reach(f) : R[i] = f[i].event
      /\ Reach(f) \in 0..Len(f) /\ Len(f) \in Nat /\ Len(p) \in Nat
      /\ Appendable(f) => Reach(f) = Len(f)
  BY ReadableIs, ReachIs, LenProperties
<1> HIDE DEF R
<1>2. CASE Appendable(f)
  <2>1. KeptOf(f, p) = R \o p
    BY <1>2 DEF KeptOf, R
  <2>2. /\ R \o p \in Seq(Events) /\ Len(R \o p) = Len(R) + Len(p)
        /\ \A i \in 1..(Len(R) + Len(p)) : (R \o p)[i] = IF i <= Len(R) THEN R[i] ELSE p[i - Len(R)]
    BY <1>1, ConcatIs
  <2>3. Len(R) = Len(f)
    BY <1>1, <1>2
  <2>4. \A i \in 1..(Len(f) + Len(p)) : (R \o p)[i] = IF i <= Len(f) THEN f[i].event ELSE p[i - Len(f)]
    BY <1>1, <2>2, <2>3
  <2> QED BY <1>2, <2>1, <2>2, <2>3, <2>4
<1>3. CASE ~Appendable(f)
  BY <1>3, <1>1 DEF KeptOf, R
<1> QED BY <1>2, <1>3

\* Behind lines that have their newlines what is written can be read.
LEMMA ReadableOn ==
    ASSUME NEW f \in Seq(Line), Appendable(f), NEW b \in Seq(Events)
    PROVE  /\ Appendable(f \o Lines(b)) /\ f \o Lines(b) \in Seq(Line)
           /\ Readable(f \o Lines(b)) = Readable(f) \o b
<1> DEFINE l == f \o Lines(b)
           R == Readable(f)
<1>1. /\ Len(f) \in Nat /\ Len(b) \in Nat
      /\ l \in Seq(Line) /\ Len(l) = Len(f) + Len(b)
      /\ \A i \in 1..Len(f) : l[i] = f[i]
      /\ \A i \in (Len(f) + 1)..(Len(f) + Len(b)) :
           l[i].event = b[i - Len(f)] /\ l[i].state = "good"
      /\ DOMAIN l = 1..Len(l) /\ DOMAIN f = 1..Len(f)
  BY LenProperties, WrittenIs
<1> HIDE DEF l
<1>2. Appendable(l)
  BY <1>1 DEF Appendable
<1>3. /\ Readable(l) \in Seq(Events) /\ Len(Readable(l)) = Len(l)
      /\ \A i \in 1..Len(l) : Readable(l)[i] = l[i].event
  BY <1>1, <1>2, ReadableIs, ReachIs
<1>4. R \in Seq(Events) /\ Len(R) = Len(f) /\ \A i \in 1..Len(f) : R[i] = f[i].event
  BY ReadableIs, ReachIs
<1> HIDE DEF R
<1>5. /\ R \o b \in Seq(Events) /\ Len(R \o b) = Len(R) + Len(b)
      /\ \A i \in 1..(Len(R) + Len(b)) : (R \o b)[i] = IF i <= Len(R) THEN R[i] ELSE b[i - Len(R)]
  BY <1>4, ConcatIs
<1>6. ASSUME NEW i \in 1..Len(l) PROVE Readable(l)[i] = (R \o b)[i]
  <2>1. CASE i <= Len(f)
    BY <1>1, <1>3, <1>4, <1>5, <2>1, SMTT(30)
  <2>2. CASE ~(i <= Len(f))
    <3>1. i \in (Len(f) + 1)..(Len(f) + Len(b))
      BY <1>1, <2>2
    <3>2. Readable(l)[i] = b[i - Len(f)]
      BY <1>1, <1>3, <3>1
    <3>3. (R \o b)[i] = b[i - Len(f)]
      BY <1>1, <1>4, <1>5, <2>2
    <3> QED BY <3>2, <3>3
  <2> QED BY <2>1, <2>2
<1>7. Len(Readable(l)) = Len(R \o b)
  BY <1>1, <1>3, <1>4, <1>5
<1>8. Readable(l) = R \o b
  <2>1. \A i \in 1..Len(Readable(l)) : Readable(l)[i] = (R \o b)[i]
    BY <1>3, <1>6
  <2> QED BY <1>3, <1>5, <1>7, <2>1, SeqEqual
<1> QED BY <1>1, <1>2, <1>8 DEF l, R

LEMMA KeptShape ==
    ASSUME NEW f \in Seq(Line), NEW b \in Seq(Events), NEW q \in Seq(Events)
    PROVE  (IF Appendable(f) THEN Readable(f \o Lines(b)) \o q ELSE Readable(f)) = KeptOf(f, b \o q)
<1>1. CASE Appendable(f)
  <2>1. Readable(f \o Lines(b)) = Readable(f) \o b /\ Readable(f) \in Seq(Events)
    BY <1>1, ReadableOn, ReadableIs
  <2>2. (Readable(f) \o b) \o q = Readable(f) \o (b \o q)
    BY <2>1, ConcatAssociative
  <2> QED BY <1>1, <2>1, <2>2 DEF KeptOf
<1>2. CASE ~Appendable(f)
  BY <1>2 DEF KeptOf
<1> QED BY <1>1, <1>2

\* What was on the disk and readable stays so, or is glued.
LEMMA SureKept ==
    ASSUME file \in Seq(Line), NEW b \in Seq(Events), NEW g \in Seq(Line),
           CutOf(g, file \o Lines(b)), NEW s \in 0..Len(file), NEW t \in Nat, s <= t, s <= Len(g),
           \A i \in 1..s : g[i] = file[i]
    PROVE  SureIn(file, s) \subseteq SureIn(g, t) \cup Glued(g)
<1>1. /\ \A i \in 1..Len(g) : g[i].event = IF i <= Len(file) THEN file[i].event ELSE b[i - Len(file)]
      /\ \A i \in 1..s : i <= Reach(file) =>
            \/ i <= Reach(g)
            \/ i = Len(file) /\ Len(g) > Len(file) /\ ~Appendable(file)
  BY CutKeeps
<1>2. Len(file) \in Nat /\ Len(g) \in Nat /\ s \in Nat
  BY LenProperties
<1> SUFFICES ASSUME NEW i \in 1..Len(file), i <= s, i <= Reach(file)
             PROVE  file[i].event \in SureIn(g, t) \cup Glued(g)
  BY DEF SureIn
<1>3. i \in 1..s /\ i \in 1..Len(g) /\ i <= t /\ g[i].event = file[i].event
  BY <1>1, <1>2
<1>4. CASE i <= Reach(g)
  BY <1>3, <1>4 DEF SureIn
<1>5. CASE i = Len(file) /\ Len(g) > Len(file) /\ ~Appendable(file)
  BY <1>2, <1>5, <1>3 DEF Glued
<1> QED BY <1>1, <1>3, <1>4, <1>5

\* When all of a file is on the disk, all that can be read of it is.
LEMMA SureOfAll ==
    ASSUME NEW f \in Seq(Line)
    PROVE  SureIn(f, Len(f)) = ToSet(Readable(f))
<1>1. Reach(f) \in 0..Len(f) /\ Len(f) \in Nat
  BY ReachIs, LenProperties
<1>2. {j \in 1..Len(f) : j <= Len(f) /\ j <= Reach(f)} = 1..Reach(f)
  BY <1>1
<1> QED BY <1>2, ReadableSet DEF SureIn

\* What is written to the file can be read then, or is glued.
LEMMA HeldKept ==
    ASSUME file \in Seq(Line), NEW b \in Seq(Events)
    PROVE  ToSet(Readable(file)) \cup ToSet(b)
             \subseteq ToSet(Readable(file \o Lines(b))) \cup Glued(file \o Lines(b))
<1> DEFINE g == file \o Lines(b)
<1>1. /\ Len(file) \in Nat /\ Len(b) \in Nat
      /\ g \in Seq(Line) /\ Len(g) = Len(file) + Len(b)
      /\ \A i \in 1..Len(file) : g[i] = file[i]
      /\ \A i \in (Len(file) + 1)..(Len(file) + Len(b)) :
           g[i].event = b[i - Len(file)] /\ g[i].state = "good"
  BY LenProperties, WrittenIs
<1>2. CutOf(g, file \o Lines(b))
  BY <1>1 DEF CutOf
<1> HIDE DEF g
<1>3. SureIn(file, Len(file)) \subseteq SureIn(g, Len(g)) \cup Glued(g)
  <2>1. Len(file) \in 0..Len(file) /\ Len(g) \in Nat /\ Len(file) <= Len(g)
    BY <1>1
  <2> QED BY <1>1, <1>2, <2>1, SureKept
<1>4. ASSUME NEW f \in Seq(Line) PROVE SureIn(f, Len(f)) = ToSet(Readable(f))
  BY SureOfAll
<1>5. ASSUME NEW k \in 1..Len(b) PROVE b[k] \in ToSet(Readable(g)) \cup Glued(g)
  <2>1. /\ Len(file) + k \in (Len(file) + 1)..(Len(file) + Len(b)) /\ (Len(file) + k) - Len(file) = k
        /\ Len(file) + k \in 1..Len(g) /\ Len(file) + k \in Len(file)..Len(g)
        /\ ~(Len(g) <= Len(file))
    BY <1>1
  <2>2. g[Len(file) + k].event = b[k]
    BY <1>1, <2>1
  <2>3. CASE Appendable(file)
    <3>1. Appendable(g)
      BY <2>3, ReadableOn DEF g
    <3>2. Reach(g) = Len(g)
      BY <1>1, <3>1, ReachIs
    <3>3. ToSet(Readable(g)) = {g[i].event : i \in 1..Len(g)}
      BY <1>1, <3>2, ReadableSet
    <3> QED BY <2>1, <2>2, <3>3
  <2>4. CASE ~Appendable(file)
    <3>1. Glued(g) = {g[j].event : j \in Len(file)..Len(g)}
      BY <2>1, <2>4 DEF Glued
    <3> QED BY <2>1, <2>2, <3>1
  <2> QED BY <2>3, <2>4
<1>6. ToSet(b) = {b[k] : k \in 1..Len(b)}
  <2>1. DOMAIN b = 1..Len(b)
    BY LenProperties
  <2> QED BY <2>1 DEF ToSet
<1>7. ToSet(Readable(file)) \subseteq ToSet(Readable(g)) \cup Glued(g)
  BY <1>1, <1>3, <1>4
<1>8. ToSet(b) \subseteq ToSet(Readable(g)) \cup Glued(g)
  BY <1>5, <1>6
<1> QED BY <1>7, <1>8 DEF g

\* Only a writer that runs and has not failed has events in its buffer.
NoBuffer == (failed \/ writer = "down") => buf = <<>>

\* The events behind the file that may still reach it.
Pending == buf \o IF failed \/ writer = "down" THEN <<>> ELSE queue

\* The events that are in the file or may still get there.
Held == ToSet(Readable(file)) \cup IF writer = "down" THEN {} ELSE ToSet(buf) \cup ToSet(queue)

\* What was said to be safe is readable on the disk, what will be said is held.
Promises ==
    /\ (acked \ (glued \cup hurried)) \subseteq SureIn(file, synced)
    /\ ~failed /\ flush.stage = "waiting" => (flush.covers \ glued) \subseteq Held
    /\ ~failed => (owed \ glued) \subseteq Held

IInv == TypeOK /\ NoBuffer /\ Promises

-----------------------------------------------------------------------------
(* What a step does to the file *)

\* A beginning of a file, with perhaps a part of the next line.
LEMMA CutIs ==
    ASSUME NEW l \in Seq(Line), NEW n \in 0..Len(l), NEW g,
           \/ g = SubSeq(l, 1, n)
           \/ n < Len(l) /\ \E part \in Cuts(l[n+1]) : g = Append(SubSeq(l, 1, n), part)
    PROVE  /\ g \in Seq(Line) /\ CutOf(g, l) /\ n <= Len(g)
           /\ \A i \in 1..n : g[i] = l[i]
<1> DEFINE p == SubSeq(l, 1, n)
<1>1. Len(l) \in Nat /\ p \in Seq(Line) /\ Len(p) = n /\ \A i \in 1..n : p[i] = l[i]
  BY PrefixIs, LenProperties
<1> HIDE DEF p
<1>2. CASE g = p
  BY <1>1, <1>2 DEF CutOf
<1>3. CASE n < Len(l) /\ \E part \in Cuts(l[n+1]) : g = Append(p, part)
  <2>1. PICK part \in Cuts(l[n+1]) : g = Append(p, part)
    BY <1>3
  <2>2. l[n+1] \in Line
    <3>1. n + 1 \in 1..Len(l)
      BY <1>1, <1>3
    <3> QED BY <3>1, ElementOfSeq
  <2>3. part \in Line /\ part.event = l[n+1].event /\ part.state # "good"
    BY <2>2 DEF Cuts, Line
  <2>4. g \in Seq(Line) /\ Len(g) = n + 1 /\ g[n+1] = part /\ \A i \in 1..n : g[i] = p[i]
    BY <1>1, <2>1, <2>3, AppendProperties
  <2>5. ASSUME NEW i \in 1..Len(g)
        PROVE  g[i] = l[i] \/ (i = Len(g) /\ g[i].event = l[i].event /\ g[i].state # "good")
    <3>1. CASE i = n + 1
      BY <2>3, <2>4, <3>1
    <3>2. CASE i # n + 1
      BY <1>1, <2>4, <3>2
    <3> QED BY <3>1, <3>2
  <2>6. Len(g) <= Len(l) /\ n <= Len(g)
    BY <1>1, <1>3, <2>4
  <2> QED BY <1>1, <2>4, <2>5, <2>6 DEF CutOf
<1> QED BY <1>2, <1>3 DEF p

LEMMA WrittenPart ==
    ASSUME NEW f \in Seq(Line), NEW b \in Seq(Events), NEW n \in 0..Len(b)
    PROVE  /\ f \o Lines(SubSeq(b, 1, n)) = SubSeq(f \o Lines(b), 1, Len(f) + n)
           /\ n < Len(b) => (f \o Lines(b))[Len(f) + n + 1] = Lines(b)[n + 1]
<1> DEFINE m == Lines(b)
           c == SubSeq(b, 1, n)
           k == Lines(c)
           l == f \o m
<1>1. /\ Len(f) \in Nat /\ Len(b) \in Nat
      /\ c \in Seq(Events) /\ Len(c) = n /\ \A i \in 1..n : c[i] = b[i]
  BY LenProperties, PrefixIs
<1>2. m \in Seq(Line) /\ Len(m) = Len(b) /\ \A i \in 1..Len(b) : m[i] = [event |-> b[i], state |-> "good"]
  BY LinesAre
<1> HIDE DEF c, m
<1>3. k \in Seq(Line) /\ Len(k) = n /\ \A i \in 1..n : k[i] = [event |-> c[i], state |-> "good"]
  BY <1>1, LinesAre
<1> HIDE DEF k
<1>4. \A i \in 1..n : k[i] = m[i]
  BY <1>1, <1>2, <1>3
<1>5. /\ f \o k \in Seq(Line) /\ Len(f \o k) = Len(f) + n
      /\ \A i \in 1..(Len(f) + n) : (f \o k)[i] = IF i <= Len(f) THEN f[i] ELSE k[i - Len(f)]
  BY <1>3, ConcatIs
<1>6. /\ l \in Seq(Line) /\ Len(l) = Len(f) + Len(b)
      /\ \A i \in 1..(Len(f) + Len(b)) : l[i] = IF i <= Len(f) THEN f[i] ELSE m[i - Len(f)]
  <2>1. /\ f \o m \in Seq(Line) /\ Len(f \o m) = Len(f) + Len(m)
        /\ \A i \in 1..(Len(f) + Len(m)) :
             (f \o m)[i] = IF i <= Len(f) THEN f[i] ELSE m[i - Len(f)]
    <3>1. m \in Seq(Line)
      BY <1>2
    <3> QED BY <3>1, ConcatIs
  <2> QED BY <1>2, <2>1
<1> HIDE DEF l
<1> DEFINE p == SubSeq(l, 1, Len(f) + n)
<1>7. Len(f) + n \in 0..Len(l)
  BY <1>1, <1>6
<1>8. p \in Seq(Line) /\ Len(p) = Len(f) + n /\ \A i \in 1..(Len(f) + n) : p[i] = l[i]
  BY <1>6, <1>7, PrefixIs
<1> HIDE DEF p
<1>9. ASSUME NEW i \in 1..(Len(f) + n) PROVE (f \o k)[i] = p[i]
  <2>1. i \in 1..(Len(f) + Len(b))
    BY <1>1
  <2>2. CASE i <= Len(f)
    BY <1>5, <1>6, <1>8, <2>1, <2>2
  <2>3. CASE ~(i <= Len(f))
    <3>1. i - Len(f) \in 1..n
      BY <1>1, <2>3
    <3>2. k[i - Len(f)] = m[i - Len(f)]
      BY <1>4, <3>1
    <3> QED BY <1>5, <1>6, <1>8, <2>1, <2>3, <3>2
  <2> QED BY <2>2, <2>3
<1>10. f \o k = p
  BY <1>5, <1>8, <1>9, SeqEqual
<1>11. ASSUME n < Len(b) PROVE l[Len(f) + n + 1] = m[n + 1]
  BY <1>1, <1>11, <1>6
<1> QED BY <1>10, <1>11 DEF c, k, l, m, p

\* The file behind a flush of b.
LEMMA FlushCuts ==
    ASSUME TypeOK, NEW b \in Seq(Events), FlushSucceeds(b) \/ FlushFails(b)
    PROVE  /\ file' \in Seq(Line) /\ CutOf(file', file \o Lines(b)) /\ Len(file) <= Len(file')
           /\ \A i \in 1..Len(file) : file'[i] = file[i]
           /\ synced' \in 0..Len(file') /\ synced <= synced'
           /\ buf' = <<>> /\ failed' \in BOOLEAN
           /\ glued' = glued \cup Glued(file')
           /\ \/ file' = file \o Lines(b) /\ ~failed /\ ~failed'
              \/ failed' /\ synced' = synced
<1> DEFINE l == file \o Lines(b)
<1>1. /\ file \in Seq(Line) /\ Len(file) \in Nat /\ Len(b) \in Nat
      /\ l \in Seq(Line) /\ Len(l) = Len(file) + Len(b)
      /\ \A i \in 1..Len(file) : l[i] = file[i]
      /\ synced \in 0..Len(file) /\ synced \in Nat
  BY WrittenIs, LenProperties DEF TypeOK
<1>2. buf' = <<>> /\ glued' = glued \cup Glued(file')
  BY DEF FlushSucceeds, FlushFails
<1>3. CASE file' = l /\ ~failed /\ ~failed' /\ failed' \in BOOLEAN /\ (synced' = Len(l) \/ synced' = synced)
  <2> HIDE DEF l
  <2>1. CutOf(file', l) /\ Len(file) <= Len(file') /\ synced' \in 0..Len(file') /\ synced <= synced'
    BY <1>1, <1>3 DEF CutOf
  <2> QED BY <1>1, <1>2, <1>3, <2>1 DEF l
<1>4. CASE /\ b # <<>> /\ ~failed
           /\ \E n \in 0..(Len(b) - 1) :
                \/ file' = file \o Lines(SubSeq(b, 1, n))
                \/ \E part \in Cuts(Lines(b)[n+1]) :
                      file' = Append(file \o Lines(SubSeq(b, 1, n)), part)
           /\ failed' = TRUE /\ synced' = synced
  <2>1. PICK n \in 0..(Len(b) - 1) :
             \/ file' = file \o Lines(SubSeq(b, 1, n))
             \/ \E part \in Cuts(Lines(b)[n+1]) :
                   file' = Append(file \o Lines(SubSeq(b, 1, n)), part)
    BY <1>4
  <2>2. n \in 0..Len(b) /\ n < Len(b) /\ n \in Nat
    BY <1>1
  <2>3. /\ file \o Lines(SubSeq(b, 1, n)) = SubSeq(l, 1, Len(file) + n)
        /\ l[Len(file) + n + 1] = Lines(b)[n + 1]
    BY <1>1, <2>2, WrittenPart
  <2> DEFINE k == Len(file) + n
  <2>4. k \in 0..Len(l) /\ k < Len(l) /\ k + 1 = Len(file) + n + 1 /\ Len(file) <= k
    BY <1>1, <2>2
  <2>5. \/ file' = SubSeq(l, 1, k)
        \/ \E part \in Cuts(l[k+1]) : file' = Append(SubSeq(l, 1, k), part)
    BY <2>1, <2>3, <2>4
  <2> HIDE DEF l, k
  <2>6. /\ file' \in Seq(Line) /\ CutOf(file', l) /\ k <= Len(file')
        /\ \A i \in 1..k : file'[i] = l[i]
    BY <1>1, <2>4, <2>5, CutIs
  <2>7. Len(file') \in Nat /\ k \in Nat
    BY <1>1, <2>4, <2>6, LenProperties
  <2>8. Len(file) <= Len(file') /\ \A i \in 1..Len(file) : file'[i] = file[i]
    BY <1>1, <2>4, <2>6, <2>7
  <2>9. synced' \in 0..Len(file') /\ synced <= synced'
    BY <1>1, <1>4, <2>7, <2>8
  <2> QED BY <1>2, <1>4, <2>6, <2>8, <2>9 DEF l
<1>5. CASE failed /\ file' = file /\ failed' = failed /\ synced' = synced
  <2>1. CutOf(file, l)
    <3> HIDE DEF l
    <3> QED BY <1>1 DEF CutOf
  <2> QED BY <1>1, <1>2, <1>5, <2>1 DEF TypeOK
<1>6. FlushSucceeds(b) => file' = l /\ ~failed /\ ~failed' /\ failed' \in BOOLEAN /\ synced' = Len(l)
  BY DEF FlushSucceeds, TypeOK
<1>7. ASSUME FlushFails(b)
      PROVE \/ file' = l /\ ~failed /\ ~failed' /\ failed' \in BOOLEAN /\ synced' = synced
            \/ /\ b # <<>> /\ ~failed
               /\ \E n \in 0..(Len(b) - 1) :
                    \/ file' = file \o Lines(SubSeq(b, 1, n))
                    \/ \E part \in Cuts(Lines(b)[n+1]) :
                          file' = Append(file \o Lines(SubSeq(b, 1, n)), part)
               /\ failed' = TRUE /\ synced' = synced
            \/ failed /\ file' = file /\ failed' = failed /\ synced' = synced
  BY <1>7 DEF FlushFails, TypeOK
<1> QED BY <1>3, <1>4, <1>5, <1>6, <1>7

\* The file behind a crash.
LEMMA CrashCuts ==
    ASSUME TypeOK, NoBuffer, Crash
    PROVE  /\ file' \in Seq(Line) /\ CutOf(file', file \o Lines(buf)) /\ synced <= Len(file')
           /\ \A i \in 1..synced : file'[i] = file[i]
<1> DEFINE l == IF failed THEN file ELSE file \o Lines(buf)
<1>1. /\ file \in Seq(Line) /\ Len(file) \in Nat /\ buf \in Seq(Events)
      /\ synced \in 0..Len(file) /\ synced \in Nat
  BY LenProperties DEF TypeOK
<1>2. l = file \o Lines(buf)
  <2>1. CASE failed
    <3>1. buf = <<>>
      BY <2>1 DEF NoBuffer
    <3>2. Lines(buf) \in Seq(Line) /\ Len(Lines(buf)) = Len(buf)
      BY <1>1, LinesAre
    <3>3. Lines(buf) = <<>>
      BY <3>1, <3>2, EmptySeq
    <3> QED BY <1>1, <2>1, <3>3, ConcatEmptySeq
  <2>2. CASE ~failed
    BY <2>2
  <2> QED BY <2>1, <2>2
<1>3. /\ l \in Seq(Line) /\ Len(file) <= Len(l) /\ Len(l) \in Nat
      /\ \A i \in 1..Len(file) : l[i] = file[i]
  <2>1. Len(buf) \in Nat
    BY <1>1, LenProperties
  <2> QED BY <1>1, <1>2, <2>1, WrittenIs
<1>4. PICK n \in synced..Len(l) :
           \/ file' = SubSeq(l, 1, n)
           \/ n < Len(l) /\ \E part \in Cuts(l[n+1]) : file' = Append(SubSeq(l, 1, n), part)
  BY DEF Crash
<1> HIDE DEF l
<1>5. n \in 0..Len(l) /\ n \in Nat /\ synced <= n
  BY <1>1, <1>3
<1>6. /\ file' \in Seq(Line) /\ CutOf(file', l) /\ n <= Len(file')
      /\ \A i \in 1..n : file'[i] = l[i]
  BY <1>3, <1>4, <1>5, CutIs
<1>7. Len(file') \in Nat
  BY <1>6, LenProperties
<1>8. synced <= Len(file') /\ \A i \in 1..synced : file'[i] = file[i]
  BY <1>1, <1>3, <1>5, <1>6, <1>7
<1> QED BY <1>2, <1>6, <1>8

-----------------------------------------------------------------------------
(* What a step does to the log *)

Holds == Kept' = Kept /\ Hardened' \in Hardened..Len(Kept)
Takes == \E e \in Events : Kept' = Append(Kept, e) /\ Hardened' = Hardened
Loses == \E n \in Hardened..Len(Kept) :
            Kept' = SubSeq(Kept, 1, n) /\ Hardened' \in Hardened..Len(Kept')
StepKind == Holds \/ Takes \/ Loses

LEMMA PendingType == ASSUME TypeOK PROVE Pending \in Seq(Events)
<1> DEFINE q == IF failed \/ writer = "down" THEN <<>> ELSE queue
<1>1. buf \in Seq(Events) /\ q \in Seq(Events)
  BY DEF TypeOK
<1>2. Pending = buf \o q
  BY DEF Pending
<1> HIDE DEF q
<1> QED BY <1>1, <1>2, ConcatIs

LEMMA KeptIs == ASSUME TypeOK PROVE Kept = KeptOf(file, Pending)
<1> DEFINE q == IF failed \/ writer = "down" THEN <<>> ELSE queue
<1>1. file \in Seq(Line) /\ buf \in Seq(Events) /\ q \in Seq(Events)
  BY DEF TypeOK
<1>2. Kept = IF Appendable(file) THEN Readable(file \o Lines(buf)) \o q ELSE Readable(file)
  BY DEF Kept
<1>3. Pending = buf \o q
  BY DEF Pending
<1> HIDE DEF q
<1> QED BY <1>1, <1>2, <1>3, KeptShape

\* The same of the state behind a step.
LEMMA KeptIsThen ==
    ASSUME TypeOK'
    PROVE  Kept' = KeptOf(file', Pending') /\ Pending' \in Seq(Events)
<1> DEFINE q == IF failed' \/ writer' = "down" THEN <<>> ELSE queue'
<1>1. file' \in Seq(Line) /\ buf' \in Seq(Events) /\ q \in Seq(Events)
  BY DEF TypeOK
<1>2. Kept' = IF Appendable(file') THEN Readable(file' \o Lines(buf')) \o q ELSE Readable(file')
  BY DEF Kept
<1>3. Pending' = buf' \o q
  BY DEF Pending
<1> HIDE DEF q
<1> QED BY <1>1, <1>2, <1>3, KeptShape, ConcatIs

LEMMA HardenedIs ==
    ASSUME TypeOK
    PROVE  /\ Hardened = Less(Intact(file), synced) /\ Hardened \in Nat
           /\ Hardened <= Intact(file) /\ Hardened <= Reach(file) /\ Hardened <= synced
           /\ Hardened <= Len(Kept) /\ Kept \in Seq(Events) /\ Len(Kept) \in Nat
<1>1. file \in Seq(Line) /\ synced \in 0..Len(file) /\ Len(file) \in Nat /\ synced \in Nat
  BY LenProperties DEF TypeOK
<1>2. Hardened = Less(Intact(file), synced)
  BY <1>1, IntactOfPrefix DEF Hardened
<1>3. Intact(file) \in 0..Len(file) /\ Intact(file) <= Reach(file) /\ Reach(file) \in 0..Len(file)
  BY <1>1, ReachIs
<1>4. /\ Kept \in Seq(Events)
      /\ Len(Kept) = IF Appendable(file) THEN Len(file) + Len(Pending) ELSE Reach(file)
  BY <1>1, PendingType, KeptIs, KeptOfIs
<1>5. Len(Pending) \in Nat
  BY PendingType, LenProperties
<1> QED BY <1>1, <1>2, <1>3, <1>4, <1>5 DEF Less

LEMMA HardenedIsThen ==
    ASSUME TypeOK'
    PROVE  /\ Hardened' = Less(Intact(file'), synced') /\ Hardened' \in Nat
           /\ Hardened' <= Intact(file') /\ Hardened' <= synced'
           /\ Reach(file') \in 0..Len(file') /\ Intact(file') \in Nat /\ Intact(file') <= Reach(file')
           /\ Hardened' <= Len(Kept') /\ Kept' \in Seq(Events) /\ Len(Kept') \in Nat
<1>1. file' \in Seq(Line) /\ synced' \in 0..Len(file') /\ Len(file') \in Nat /\ synced' \in Nat
  BY LenProperties DEF TypeOK
<1>2. Hardened' = Less(Intact(file'), synced')
  BY <1>1, IntactOfPrefix DEF Hardened
<1>3. Intact(file') \in 0..Len(file') /\ Intact(file') <= Reach(file') /\ Reach(file') \in 0..Len(file')
  BY <1>1, ReachIs
<1>4. /\ Kept' \in Seq(Events)
      /\ Len(Kept') = IF Appendable(file') THEN Len(file') + Len(Pending') ELSE Reach(file')
  BY <1>1, KeptIsThen, KeptOfIs
<1>5. Len(Pending') \in Nat
  BY KeptIsThen, LenProperties
<1> QED BY <1>1, <1>2, <1>3, <1>4, <1>5 DEF Less

\* A file that was written to and perhaps cut, with nothing behind it, keeps a
\* beginning of the log; or the end comes back of a line that was overwritten.
LEMMA CutKind ==
    ASSUME TypeOK, TypeOK', NEW b \in Seq(Events), NEW r \in Seq(Events), Pending = b \o r,
           CutOf(file', file \o Lines(b)), synced <= Len(file'),
           \A i \in 1..synced : file'[i] = file[i],
           Pending' = <<>> \/ (~Appendable(file) /\ ~Appendable(file')),
           synced <= synced',
           \/ synced' = synced
           \/ ~Appendable(file) /\ Len(file) <= Len(file') /\ \A i \in 1..Len(file) : file'[i] = file[i]
    PROVE  StepKind
<1> DEFINE h == Hardened
           K == Kept
           L == Kept'
<1>0. /\ file \in Seq(Line) /\ file' \in Seq(Line) /\ Len(file) \in Nat /\ Len(file') \in Nat
      /\ synced \in 0..Len(file) /\ synced \in Nat /\ synced' \in Nat /\ Len(b) \in Nat /\ Len(r) \in Nat
  BY LenProperties DEF TypeOK
<1>1. /\ h = Less(Intact(file), synced) /\ h \in Nat /\ h <= Len(K) /\ K \in Seq(Events) /\ Len(K) \in Nat
  BY HardenedIs
<1>2. /\ Hardened' = Less(Intact(file'), synced') /\ Hardened' \in Nat
      /\ Hardened' <= Len(L) /\ L \in Seq(Events) /\ Len(L) \in Nat
      /\ Reach(file') \in 0..Len(file') /\ Intact(file') \in Nat /\ Intact(file') <= Reach(file')
  BY HardenedIsThen
<1>3. /\ Len(file') <= Len(file) + Len(b)
      /\ \A i \in 1..Len(file') :
            file'[i].event = IF i <= Len(file) THEN file[i].event ELSE b[i - Len(file)]
      /\ Less(Intact(file'), synced) = h
      /\ ~Appendable(file) => Reach(file') <= Reach(file) + 1 /\ Reach(file') <= Len(file)
  BY <1>0, <1>1, CutKeeps
<1>4. h <= Hardened' /\ (synced' = synced => Hardened' = h) /\ h <= Reach(file')
  BY <1>0, <1>1, <1>2, <1>3 DEF Less
<1>5. /\ Len(K) = IF Appendable(file) THEN Len(file) + (Len(b) + Len(r)) ELSE Reach(file)
      /\ \A i \in 1..Len(K) : K[i] = IF i <= Len(file) THEN file[i].event ELSE (b \o r)[i - Len(file)]
  <2>1. K = KeptOf(file, b \o r) /\ b \o r \in Seq(Events) /\ Len(b \o r) = Len(b) + Len(r)
    BY KeptIs, ConcatIs
  <2> QED BY <1>0, <2>1, KeptOfIs
<1>6. /\ Len(L) = Reach(file')
      /\ \A i \in 1..Len(L) : L[i] = file'[i].event
  BY KeptIsThen, <1>0, KeptOfIs, ReachIs, <1>2
<1>7. Reach(file) \in 0..Len(file) /\ (Appendable(file) => Reach(file) = Len(file))
  BY <1>0, ReachIs
<1> HIDE DEF h, K, L
<1>8. ASSUME NEW i \in 1..Len(L), i <= Len(K) PROVE L[i] = K[i]
  <2>1. i \in 1..Len(file') /\ i \in 1..Len(K)
    BY <1>0, <1>1, <1>2, <1>6, <1>8
  <2>2. L[i] = file'[i].event
    BY <1>6
  <2>3. CASE i <= Len(file)
    BY <1>3, <1>5, <2>1, <2>2, <2>3
  <2>4. CASE ~(i <= Len(file))
    <3>1. i - Len(file) \in 1..Len(b) /\ i - Len(file) \in 1..(Len(b) + Len(r)) /\ i - Len(file) <= Len(b)
      BY <1>0, <1>3, <2>1, <2>4
    <3>2. (b \o r)[i - Len(file)] = b[i - Len(file)]
      BY <3>1, ConcatIs
    <3> QED BY <1>3, <1>5, <2>1, <2>2, <2>4, <3>2
  <2> QED BY <2>3, <2>4
<1>9. CASE Len(L) <= Len(K)
  <2> DEFINE n == Len(L)
  <2>1. n \in 0..Len(K) /\ n \in h..Len(K)
    BY <1>1, <1>2, <1>4, <1>6, <1>9
  <2>2. SubSeq(K, 1, n) \in Seq(Events) /\ Len(SubSeq(K, 1, n)) = n /\ \A i \in 1..n : SubSeq(K, 1, n)[i] = K[i]
    BY <1>1, <2>1, PrefixIs
  <2>3. L = SubSeq(K, 1, n)
    <3>1. \A i \in 1..Len(L) : L[i] = SubSeq(K, 1, n)[i]
      BY <1>1, <1>2, <1>8, <1>9, <2>2
    <3> QED BY <1>2, <2>2, <3>1, SeqEqual
  <2>4. Hardened' \in h..Len(L)
    BY <1>1, <1>2, <1>4
  <2>5. \E k \in h..Len(K) : L = SubSeq(K, 1, k) /\ Hardened' \in h..Len(L)
    BY <2>1, <2>3, <2>4
  <2>6. Loses
    BY <2>5 DEF Loses, h, K, L
  <2> QED BY <2>6 DEF StepKind
<1>10. CASE ~(Len(L) <= Len(K))
  <2>1. ~Appendable(file)
    BY <1>0, <1>1, <1>2, <1>3, <1>5, <1>6, <1>10
  <2>2. Len(L) = Len(K) + 1 /\ Len(L) <= Len(file) /\ Len(K) = Reach(file) /\ Reach(file') > Reach(file)
    BY <1>0, <1>1, <1>2, <1>3, <1>5, <1>6, <1>7, <1>10, <2>1, SMTT(30)
  <2>3. synced' = synced
    <3> SUFFICES ASSUME Len(file) <= Len(file'), \A i \in 1..Len(file) : file'[i] = file[i]
                 PROVE  FALSE
      BY <2>1
    <3>1. Reach(file') <= Reach(file)
      <4>1. Len(file) \in 0..Len(file)
        BY <1>0
      <4> QED BY <1>0, <2>1, <4>1, CutKeeps
    <3> QED BY <1>2, <1>7, <2>2, <3>1
  <2>4. L[Len(L)] \in Events
    <3>1. Len(L) \in 1..Len(L)
      BY <1>1, <1>2, <2>2, SMTT(30)
    <3> QED BY <1>2, <3>1, ElementOfSeq
  <2>5. L = Append(K, L[Len(L)])
    <3> DEFINE e == L[Len(L)]
    <3>1. /\ Append(K, e) \in Seq(Events) /\ Len(Append(K, e)) = Len(K) + 1
          /\ Append(K, e)[Len(K) + 1] = e
          /\ \A i \in 1..Len(K) : Append(K, e)[i] = K[i]
      BY <1>1, <2>4, AppendProperties
    <3>2. \A i \in 1..Len(L) : L[i] = Append(K, e)[i]
      <4> SUFFICES ASSUME NEW i \in 1..Len(L) PROVE L[i] = Append(K, e)[i]
        OBVIOUS
      <4>1. CASE i <= Len(K)
        <5>1. i \in 1..Len(K)
          BY <1>1, <4>1
        <5> QED BY <1>8, <3>1, <4>1, <5>1
      <4>2. CASE ~(i <= Len(K))
        <5>1. i = Len(K) + 1 /\ i = Len(L)
          BY <1>1, <2>2, <4>2
        <5> QED BY <3>1, <5>1
      <4> QED BY <4>1, <4>2
    <3> HIDE DEF e
    <3> QED BY <1>2, <2>2, <3>1, <3>2, SeqEqual DEF e
  <2>6. \E e \in Events : L = Append(K, e) /\ Hardened' = h
    BY <1>4, <2>3, <2>4, <2>5
  <2>7. Takes
    BY <2>6 DEF Takes, h, K, L
  <2> QED BY <2>7 DEF StepKind
<1> QED BY <1>9, <1>10

-----------------------------------------------------------------------------
(* Types *)

LEMMA BufferedType ==
    ASSUME TypeOK, NEW es \in Seq(Events)
    PROVE  Buffered(es) \in Seq(Events)
  BY ConcatIs DEF TypeOK, Buffered

LEMMA QueueHead ==
    ASSUME TypeOK, queue # <<>>
    PROVE  /\ Head(queue) \in Events /\ <<Head(queue)>> \in Seq(Events)
           /\ Tail(queue) \in Seq(Events) /\ Len(Tail(queue)) <= QueueCap
<1>1. /\ queue \in Seq(Events) /\ Len(queue) \in Nat /\ Len(queue) <= QueueCap
      /\ QueueCap \in Nat
  BY StoreAssumption, LenProperties DEF TypeOK
<1>2. Head(queue) \in Events /\ Tail(queue) \in Seq(Events) /\ Len(Tail(queue)) = Len(queue) - 1
  BY <1>1, HeadTailProperties
<1> QED BY <1>1, <1>2


LEMMA RecordedType == ASSUME TypeOK PROVE Recorded \subseteq Events
<1>1. Readable(file) \in Seq(Events) /\ buf \in Seq(Events) /\ queue \in Seq(Events)
  BY ReadableIs DEF TypeOK
<1>2. ASSUME NEW s \in Seq(Events) PROVE ToSet(s) \subseteq Events
  BY LenProperties, ElementOfSeq DEF ToSet
<1> QED BY <1>1, <1>2 DEF Recorded

LEMMA GluedType ==
    ASSUME file \in Seq(Line), NEW g \in Seq(Line)
    PROVE  Glued(g) \subseteq Events
<1> SUFFICES ASSUME ~Appendable(file), Len(g) > Len(file), NEW i \in Len(file)..Len(g)
             PROVE  g[i].event \in Events
  BY LenProperties DEF Glued
<1>1. Len(file) \in Nat /\ Len(g) \in Nat /\ DOMAIN file = 1..Len(file)
  BY LenProperties
<1>2. Len(file) # 0
  BY <1>1 DEF Appendable
<1>3. i \in 1..Len(g)
  BY <1>1, <1>2
<1>4. g[i] \in Line
  BY <1>3, ElementOfSeq
<1> QED BY <1>4 DEF Line

LEMMA FlushType ==
    ASSUME TypeOK, NEW b \in Seq(Events), FlushSucceeds(b) \/ FlushFails(b)
    PROVE  /\ file' \in Seq(Line) /\ synced' \in 0..Len(file')
           /\ buf' \in Seq(Events) /\ failed' \in BOOLEAN /\ glued' \subseteq Events
<1>1. /\ file' \in Seq(Line) /\ synced' \in 0..Len(file') /\ buf' = <<>> /\ failed' \in BOOLEAN
      /\ glued' = glued \cup Glued(file')
  BY FlushCuts
<1>2. file \in Seq(Line) /\ glued \subseteq Events
  BY DEF TypeOK
<1> QED BY <1>1, <1>2, GluedType

\* The file that a store begins with.
LEMMA OpenFile ==
    ASSUME TypeOK, Open
    PROVE  /\ file' \in Seq(Line) /\ Len(file') \in Nat /\ Len(file') <= Len(file)
           /\ \A i \in 1..Len(file') : file'[i] = file[i]
           /\ Reach(file') = Reach(file) /\ Intact(file') = Intact(file)
           /\ Reach(file) <= Len(file')
           /\ synced' \in 0..Len(file') /\ Less(synced, Len(file')) <= synced'
<1>1. /\ file \in Seq(Line) /\ Len(file) \in Nat /\ synced \in 0..Len(file) /\ synced \in Nat
      /\ Reach(file) \in 0..Len(file)
  BY ReachIs, LenProperties DEF TypeOK
<1>2. CASE UNCHANGED <<file, synced>>
  BY <1>1, <1>2 DEF Less
<1>3. CASE /\ file' = RepairSession(file)
           /\ \/ file' # file /\ synced' = Len(file')
              \/ synced' = IF synced < Len(file') THEN synced ELSE Len(file')
  BY <1>1, <1>3, RepairIs, LenProperties DEF Less
<1> QED BY <1>2, <1>3 DEF Open

LEMMA TypeStep == ASSUME TypeOK, NoBuffer, Next PROVE TypeOK'
<1> USE StoreAssumption
<1>0. NoCall \notin Events
  BY DEF NoCall, Events
<1>1. CASE Open
  <2>1. /\ file' \in Seq(Line) /\ Len(file') \in Nat /\ synced' \in 0..Len(file')
    BY <1>1, OpenFile
  <2>2. calls' \in [Recorders -> Events \cup {NoCall}] /\ flush' \in FlushCall
    BY <1>1 DEF Open, NoFlush, FlushCall
  <2>3. opens' \in 0..MaxOpens
    BY <1>1 DEF TypeOK, Open
  <2>4. failed' \in BOOLEAN /\ closed' \in BOOLEAN
    BY <1>1 DEF Open
  <2>5. queue' \in Seq(Events) /\ Len(queue') <= QueueCap
    BY <1>1 DEF Open
  <2>6. writer' = "loop" /\ owed' = {} /\ UNCHANGED <<buf, used, acked, hurried, glued>>
    BY <1>1 DEF Open
  <2> QED BY <2>1, <2>2, <2>3, <2>4, <2>5, <2>6 DEF TypeOK
<1>2. CASE CallClose
  BY <1>2, RecordedType DEF TypeOK, CallClose
<1>3. CASE Crash
  <2>1. /\ file' \in Seq(Line) /\ Len(file') \in Nat /\ synced <= Len(file') /\ synced \in Nat
    BY <1>3, CrashCuts, LenProperties DEF TypeOK
  <2>2. calls' \in [Recorders -> Events \cup {NoCall}] /\ flush' \in FlushCall
    BY <1>3 DEF Crash, NoFlush, FlushCall
  <2>3. synced' \in 0..Len(file')
    BY <1>3, <2>1 DEF Crash
  <2>4. glued' \subseteq Events
    BY <1>3, <2>1, GluedType DEF Crash, TypeOK
  <2>5. /\ writer' = "down" /\ buf' = <<>> /\ failed' = FALSE /\ queue' = <<>> /\ closed' = TRUE
        /\ owed' = {} /\ UNCHANGED <<used, opens, acked, hurried>>
    BY <1>3 DEF Crash
  <2>6. failed' \in BOOLEAN /\ closed' \in BOOLEAN
    BY <2>5
  <2>7. queue' \in Seq(Events) /\ Len(queue') <= QueueCap /\ buf' \in Seq(Events)
    BY <2>5
  <2> QED BY <2>1, <2>2, <2>3, <2>4, <2>5, <2>6, <2>7 DEF TypeOK
<1>4. ASSUME NEW r \in Recorders, CallRecord(r) PROVE TypeOK'
  BY <1>4 DEF CallRecord, Events, TypeOK
<1>5. ASSUME NEW r \in Recorders, RecordEnters(r) PROVE TypeOK'
  BY <1>5, LenProperties DEF RecordEnters, TypeOK
<1>6. ASSUME NEW r \in Recorders, RecordRefused(r) PROVE TypeOK'
  BY <1>6 DEF RecordRefused, TypeOK
<1>7. CASE CallFlush
  BY <1>7, RecordedType DEF TypeOK, CallFlush, FlushCall
<1>8. CASE FlushRefused
  BY <1>8 DEF TypeOK, FlushRefused, FlushCall, NoFlush
<1>9. CASE WriterTakes
  BY <1>9, QueueHead, BufferedType DEF WriterTakes, TypeOK
<1>10. CASE WriterTicks
  <2>1. buf \in Seq(Events)
    BY DEF TypeOK
  <2> QED BY <1>10, <2>1, FlushType DEF TypeOK, WriterTicks
<1>11. CASE WriterFlushes
  <2>1. Buffered(queue) \in Seq(Events)
    BY BufferedType DEF TypeOK
  <2>2. FlushSucceeds(Buffered(queue)) \/ FlushFails(Buffered(queue))
    BY <1>11 DEF WriterFlushes
  <2>3. acked' \subseteq Events /\ flush' \in FlushCall
    BY <1>11 DEF WriterFlushes, TypeOK, FlushCall, NoFlush
  <2>4. queue' \in Seq(Events) /\ Len(queue') <= QueueCap
    BY <1>11 DEF WriterFlushes
  <2>5. /\ file' \in Seq(Line) /\ synced' \in 0..Len(file')
        /\ buf' \in Seq(Events) /\ failed' \in BOOLEAN
    BY <2>1, <2>2, FlushType
  <2>6. UNCHANGED <<writer, closed, calls, used, opens, owed, hurried>> /\ glued' \subseteq Events
    BY <1>11, <2>1, <2>2, FlushType DEF WriterFlushes
  <2> QED BY <2>3, <2>4, <2>5, <2>6 DEF TypeOK
<1>12. CASE WriterSeesClosed
  BY <1>12 DEF TypeOK, WriterSeesClosed
<1>13. CASE WriterDrains
  <2>1. CASE /\ queue # <<>> /\ buf' = Buffered(<<Head(queue)>>) /\ queue' = Tail(queue)
             /\ UNCHANGED <<file, synced, failed, flush, acked, hurried, glued>>
    <3>1. queue' \in Seq(Events) /\ Len(queue') <= QueueCap /\ buf' \in Seq(Events)
      BY <2>1, QueueHead, BufferedType
    <3> QED BY <1>13, <2>1, <3>1 DEF TypeOK, WriterDrains
  <2>2. CASE /\ \/ /\ FlushSucceeds(buf)
                   /\ acked' = acked \cup flush.covers
                   /\ hurried' = hurried \cup (flush.covers \cap ToSet(queue))
                \/ FlushFails(buf) /\ UNCHANGED <<acked, hurried>>
             /\ flush' = NoFlush /\ UNCHANGED queue
    <3>1. buf \in Seq(Events) /\ flush' \in FlushCall /\ flush.covers \subseteq Events
      BY <2>2 DEF TypeOK, FlushCall, NoFlush
    <3>2. FlushSucceeds(buf) \/ FlushFails(buf)
      BY <2>2
    <3>3. /\ file' \in Seq(Line) /\ synced' \in 0..Len(file') /\ buf' \in Seq(Events)
          /\ failed' \in BOOLEAN /\ glued' \subseteq Events
      BY <3>1, <3>2, FlushType
    <3>4. acked' \subseteq Events /\ hurried' \subseteq Events
      BY <2>2, <3>1 DEF TypeOK
    <3>5. UNCHANGED <<writer, closed, calls, used, opens, owed, queue>>
      BY <1>13, <2>2 DEF WriterDrains
    <3> QED BY <3>1, <3>3, <3>4, <3>5 DEF TypeOK
  <2> QED BY <1>13, <2>1, <2>2 DEF WriterDrains
<1>14. CASE WriterEnds
  <2>1. buf \in Seq(Events)
    BY DEF TypeOK
  <2> QED BY <1>14, <2>1, FlushType DEF TypeOK, WriterEnds
<1> QED BY <1>1, <1>2, <1>3, <1>4, <1>5, <1>6, <1>7, <1>8, <1>9, <1>10, <1>11, <1>12, <1>13, <1>14
        DEF Next, Caller, Writer

-----------------------------------------------------------------------------
(* What each action does *)

\* What is sure stays sure, or is glued.
Stays == glued \subseteq glued' /\ SureIn(file, synced) \subseteq SureIn(file', synced') \cup glued'

\* As long as nothing failed what is held stays held, or is glued.
Carries == ~failed' => ~failed /\ Held \subseteq Held' \cup glued'

LEMMA SetOfConcat ==
    ASSUME NEW s \in Seq(Events), NEW t \in Seq(Events)
    PROVE  ToSet(s \o t) = ToSet(s) \cup ToSet(t)
<1>1. /\ s \o t \in Seq(Events) /\ Len(s \o t) = Len(s) + Len(t)
      /\ \A i \in 1..(Len(s) + Len(t)) : (s \o t)[i] = IF i <= Len(s) THEN s[i] ELSE t[i - Len(s)]
      /\ Len(s) \in Nat /\ Len(t) \in Nat
  BY ConcatIs, LenProperties
<1>2. /\ DOMAIN (s \o t) = 1..(Len(s) + Len(t)) /\ DOMAIN s = 1..Len(s) /\ DOMAIN t = 1..Len(t)
  BY <1>1, LenProperties
<1>3. ASSUME NEW i \in 1..(Len(s) + Len(t)) PROVE (s \o t)[i] \in ToSet(s) \cup ToSet(t)
  <2>1. CASE i <= Len(s)
    <3>1. i \in 1..Len(s) /\ (s \o t)[i] = s[i]
      BY <1>1, <2>1
    <3> QED BY <1>2, <3>1 DEF ToSet
  <2>2. CASE ~(i <= Len(s))
    <3>1. i - Len(s) \in 1..Len(t) /\ (s \o t)[i] = t[i - Len(s)]
      BY <1>1, <2>2
    <3> QED BY <1>2, <3>1 DEF ToSet
  <2> QED BY <2>1, <2>2
<1>4. ASSUME NEW i \in 1..Len(s) PROVE s[i] \in ToSet(s \o t)
  <2>1. i \in 1..(Len(s) + Len(t)) /\ (s \o t)[i] = s[i]
    BY <1>1
  <2> QED BY <1>2, <2>1 DEF ToSet
<1>5. ASSUME NEW i \in 1..Len(t) PROVE t[i] \in ToSet(s \o t)
  <2>1. /\ Len(s) + i \in 1..(Len(s) + Len(t)) /\ ~(Len(s) + i <= Len(s)) /\ (Len(s) + i) - Len(s) = i
    BY <1>1
  <2>2. (s \o t)[Len(s) + i] = t[i]
    BY <1>1, <2>1
  <2> QED BY <1>2, <2>1, <2>2 DEF ToSet
<1>6. ToSet(s \o t) \subseteq ToSet(s) \cup ToSet(t)
  BY <1>2, <1>3 DEF ToSet
<1>7. ToSet(s) \subseteq ToSet(s \o t)
  BY <1>2, <1>4 DEF ToSet
<1>8. ToSet(t) \subseteq ToSet(s \o t)
  BY <1>2, <1>5 DEF ToSet
<1> QED BY <1>6, <1>7, <1>8

LEMMA HeadAndTail ==
    ASSUME NEW s \in Seq(Events), s # <<>>
    PROVE  s = <<Head(s)>> \o Tail(s)
<1>1. Len(s) \in 1..Len(s) /\ 1 \in 1..Len(s) /\ Head(s) = s[1]
  BY EmptySeq
<1>2. SubSeq(s, 1, Len(s)) = <<s[1]>> \o SubSeq(s, 1 + 1, Len(s))
  BY <1>1, SubSeqRecursiveFirst
<1>3. Tail(s) = SubSeq(s, 2, Len(s)) /\ SubSeq(s, 1, Len(s)) = s
  BY TailIsSubSeq, SubSeqFull
<1> QED BY <1>1, <1>2, <1>3

LEMMA FlushMoves ==
    ASSUME TypeOK, TypeOK', NoBuffer, NEW b \in Seq(Events), writer # "down",
           FlushSucceeds(b) \/ FlushFails(b),
           ~failed => b \o queue' = buf \o queue,
           writer' \in {writer, "down"}, writer' = "down" => queue' = <<>>
    PROVE  NoBuffer' /\ StepKind /\ Stays /\ Carries
<1>0. /\ file \in Seq(Line) /\ buf \in Seq(Events) /\ queue \in Seq(Events) /\ queue' \in Seq(Events)
      /\ synced \in 0..Len(file) /\ synced \in Nat /\ Len(file) \in Nat
  BY LenProperties DEF TypeOK
<1>1. /\ file' \in Seq(Line) /\ CutOf(file', file \o Lines(b)) /\ Len(file) <= Len(file')
      /\ \A i \in 1..Len(file) : file'[i] = file[i]
      /\ synced' \in 0..Len(file') /\ synced <= synced'
      /\ buf' = <<>> /\ failed' \in BOOLEAN
      /\ glued' = glued \cup Glued(file')
      /\ \/ file' = file \o Lines(b) /\ ~failed /\ ~failed'
         \/ failed' /\ synced' = synced
  BY FlushCuts
<1>2. /\ Len(file') \in Nat /\ synced' \in Nat /\ synced <= Len(file')
      /\ \A i \in 1..synced : file'[i] = file[i]
  BY <1>0, <1>1, LenProperties
<1>3. NoBuffer'
  BY <1>1 DEF NoBuffer
<1>4. Stays
  BY <1>0, <1>1, <1>2, SureKept DEF Stays
<1>5. Carries
  <2> SUFFICES ASSUME ~failed' PROVE ~failed /\ Held \subseteq Held' \cup glued'
    BY DEF Carries
  <2>1. file' = file \o Lines(b) /\ ~failed /\ b \o queue' = buf \o queue
    BY <1>1
  <2>2. ToSet(b) \cup ToSet(queue') = ToSet(buf) \cup ToSet(queue)
    <3>1. ToSet(b \o queue') = ToSet(b) \cup ToSet(queue')
      BY <1>0, SetOfConcat
    <3>2. ToSet(buf \o queue) = ToSet(buf) \cup ToSet(queue)
      BY <1>0, SetOfConcat
    <3> QED BY <2>1, <3>1, <3>2
  <2>3. Held = ToSet(Readable(file)) \cup (ToSet(b) \cup ToSet(queue'))
    BY <2>2 DEF Held
  <2>4. ToSet(Readable(file)) \cup ToSet(b) \subseteq ToSet(Readable(file')) \cup Glued(file')
    BY <1>0, <2>1, HeldKept
  <2>5. ToSet(queue') \subseteq Held'
    <3>1. CASE writer' = "down"
      <4>1. queue' = <<>> /\ DOMAIN queue' = {}
        BY <3>1
      <4> QED BY <4>1 DEF ToSet
    <3>2. CASE writer' # "down"
      BY <3>2 DEF Held
    <3> QED BY <3>1, <3>2
  <2>6. ToSet(Readable(file')) \subseteq Held'
    BY DEF Held
  <2> QED BY <1>1, <2>1, <2>3, <2>4, <2>5, <2>6
<1>6. StepKind
  <2>1. CASE failed
    <3>1. UNCHANGED <<file, synced, failed>>
      BY <2>1 DEF FlushSucceeds, FlushFails
    <3>2. Pending = <<>> /\ Pending' = <<>>
      BY <1>1, <2>1, <3>1 DEF NoBuffer, Pending
    <3>3. Kept' = Kept
      BY KeptIs, KeptIsThen, <3>1, <3>2
    <3>4. Hardened' = Hardened
      BY <3>1 DEF Hardened
    <3> QED BY <3>3, <3>4, HardenedIs DEF Holds, StepKind
  <2>2. CASE ~failed
    <3>1. Pending = b \o queue'
      BY <2>2 DEF Pending
    <3>2. CASE failed'
      <4>1. Pending' = <<>>
        <5>1. <<>> \o <<>> = <<>>
          OBVIOUS
        <5> QED BY <1>1, <3>2, <5>1 DEF Pending
      <4>2. synced' = synced
        BY <1>1, <3>2
      <4> QED BY <1>0, <1>1, <1>2, <3>1, <4>1, <4>2, CutKind
    <3>3. CASE ~failed'
      <4>1. file' = file \o Lines(b)
        BY <1>1, <3>3
      <4>2. Pending' = queue'
        BY <1>0, ConcatEmptySeq, <1>1, <3>3 DEF Pending
      <4>3. CASE Appendable(file)
        <5>1. Appendable(file') /\ Readable(file') = Readable(file) \o b /\ Readable(file) \in Seq(Events)
          BY <1>0, <4>1, <4>3, ReadableOn, ReadableIs
        <5>2. Kept = Readable(file) \o (b \o queue')
          BY <3>1, <4>3, KeptIs DEF KeptOf
        <5>3. Kept' = (Readable(file) \o b) \o queue'
          BY <4>2, <5>1, KeptIsThen DEF KeptOf
        <5>4. (Readable(file) \o b) \o queue' = Readable(file) \o (b \o queue')
          <6> DEFINE R == Readable(file)
          <6>1. R \in Seq(Events) /\ b \in Seq(Events) /\ queue' \in Seq(Events)
            BY <1>0, <5>1
          <6> HIDE DEF R
          <6>2. (R \o b) \o queue' = R \o (b \o queue')
            BY <6>1, ConcatAssociative
          <6> QED BY <6>2 DEF R
        <5>5. Kept' = Kept
          BY <5>2, <5>3, <5>4
        <5>6. /\ Less(Intact(file'), synced) = Less(Intact(file), synced)
          BY <1>0, <1>1, <1>2, CutKeeps
        <5>7. /\ Hardened = Less(Intact(file), synced) /\ Hardened \in Nat
              /\ Hardened' = Less(Intact(file'), synced') /\ Hardened' \in Nat
              /\ Hardened' <= Len(Kept') /\ Len(Kept) \in Nat /\ Intact(file') \in Nat
          BY HardenedIs, HardenedIsThen
        <5>8. Hardened <= Hardened'
          BY <1>0, <1>1, <1>2, <5>6, <5>7 DEF Less
        <5> QED BY <5>5, <5>7, <5>8 DEF Holds, StepKind
      <4>4. CASE ~Appendable(file)
        <5>1. ~Appendable(file')
          <6>1. Intact(file') <= Intact(file)
            <7>1. Len(file) \in 0..Len(file)
              BY <1>0
            <7> QED BY <1>0, <1>1, <4>4, <7>1, CutKeeps
          <6>2. Intact(file) \in 0..Len(file) /\ Intact(file) # Len(file)
            BY <1>0, <4>4, IntactIs, AppendableIs
          <6>3. Intact(file') \in Nat /\ Intact(file') # Len(file')
            BY <1>0, <1>1, <1>2, <6>1, <6>2, HardenedIsThen
          <6> QED BY <1>1, <6>3, AppendableIs
        <5> QED BY <1>0, <1>1, <1>2, <3>1, <4>4, <5>1, CutKind
      <4> QED BY <4>3, <4>4
    <3> QED BY <3>2, <3>3
  <2> QED BY <2>1, <2>2
<1> QED BY <1>3, <1>4, <1>5, <1>6

LEMMA QuietMoves ==
    ASSUME TypeOK, NoBuffer, UNCHANGED <<file, synced, buf, failed, queue, glued>>,
           (writer' = "down") = (writer = "down")
    PROVE  NoBuffer' /\ StepKind /\ Stays /\ Carries
<1>1. Kept' = Kept /\ Hardened' = Hardened
  BY DEF Kept, Hardened
<1>2. StepKind
  BY <1>1, HardenedIs DEF Holds, StepKind
<1>3. NoBuffer'
  BY DEF NoBuffer
<1>4. Held' = Held
  BY DEF Held
<1> QED BY <1>2, <1>3, <1>4 DEF Stays, Carries

LEMMA EnterMoves ==
    ASSUME TypeOK, NoBuffer, NEW r \in Recorders, RecordEnters(r)
    PROVE  NoBuffer' /\ StepKind /\ Stays /\ Carries
<1>0. /\ file \in Seq(Line) /\ buf \in Seq(Events) /\ queue \in Seq(Events) /\ calls[r] \in Events
      /\ queue' = Append(queue, calls[r])
      /\ UNCHANGED <<file, synced, buf, failed, writer, glued>>
  BY DEF TypeOK, RecordEnters
<1>1. NoBuffer'
  BY <1>0 DEF NoBuffer
<1>2. ToSet(queue) \subseteq ToSet(queue')
  <2>1. <<calls[r]>> \in Seq(Events)
    BY <1>0
  <2>2. Append(queue, calls[r]) = queue \o <<calls[r]>>
    BY <1>0, AppendIsConcat
  <2>3. ToSet(queue \o <<calls[r]>>) = ToSet(queue) \cup ToSet(<<calls[r]>>)
    BY <1>0, <2>1, SetOfConcat
  <2> QED BY <1>0, <2>2, <2>3
<1>3. Carries
  <2>1. failed' = failed /\ file' = file /\ writer' = writer /\ buf' = buf
    BY <1>0
  <2> QED BY <1>2, <2>1 DEF Carries, Held
<1>4. Hardened' = Hardened
  BY <1>0 DEF Hardened
<1>5. CASE Appendable(file) /\ ~failed /\ writer # "down"
  <2> DEFINE R == Readable(file \o Lines(buf))
  <2>1. R = Readable(file) \o buf /\ Readable(file) \in Seq(Events)
    BY <1>0, <1>5, ReadableOn, ReadableIs
  <2>2. R \in Seq(Events)
    BY <1>0, <2>1, ConcatIs
  <2>3. Kept = R \o queue /\ Kept' = R \o Append(queue, calls[r])
    BY <1>0, <1>5 DEF Kept
  <2> HIDE DEF R
  <2>4. R \o Append(queue, calls[r]) = Append(R \o queue, calls[r])
    <3>1. /\ Append(queue, calls[r]) = queue \o <<calls[r]>>
          /\ Append(R \o queue, calls[r]) = (R \o queue) \o <<calls[r]>>
      <4>1. R \o queue \in Seq(Events)
        BY <1>0, <2>2, ConcatIs
      <4> QED BY <1>0, <4>1, AppendIsConcat
    <3>2. <<calls[r]>> \in Seq(Events)
      BY <1>0
    <3>3. (R \o queue) \o <<calls[r]>> = R \o (queue \o <<calls[r]>>)
      BY <1>0, <2>2, <3>2, ConcatAssociative
    <3> QED BY <3>1, <3>3
  <2>5. Takes
    BY <1>0, <1>4, <2>3, <2>4 DEF Takes
  <2> QED BY <1>0, <1>1, <1>3, <2>5 DEF StepKind, Stays
<1>6. CASE ~(Appendable(file) /\ ~failed /\ writer # "down")
  <2>1. Kept' = Kept
    BY <1>0, <1>6 DEF Kept
  <2>2. Holds
    BY <1>4, <2>1, HardenedIs DEF Holds
  <2> QED BY <1>0, <1>1, <1>3, <2>2 DEF StepKind, Stays
<1> QED BY <1>5, <1>6

\* The writer takes an event from the queue into its buffer.
LEMMA TakeMoves ==
    ASSUME TypeOK, TypeOK', NoBuffer, writer # "down", queue # <<>>,
           buf' = Buffered(<<Head(queue)>>), queue' = Tail(queue),
           UNCHANGED <<file, synced, failed, writer, glued>>
    PROVE  NoBuffer' /\ StepKind /\ Stays /\ Carries
<1>0. /\ <<Head(queue)>> \in Seq(Events) /\ Tail(queue) \in Seq(Events)
      /\ queue \in Seq(Events) /\ buf \in Seq(Events) /\ queue = <<Head(queue)>> \o Tail(queue)
  BY QueueHead, HeadAndTail DEF TypeOK
<1>1. NoBuffer'
  BY DEF NoBuffer, Buffered
<1>2. Hardened' = Hardened
  BY DEF Hardened
<1>3. ~failed => buf' \o queue' = buf \o queue
  <2> SUFFICES ASSUME ~failed PROVE (buf \o <<Head(queue)>>) \o Tail(queue) = buf \o queue
    BY DEF Buffered
  <2>1. (buf \o <<Head(queue)>>) \o Tail(queue) = buf \o (<<Head(queue)>> \o Tail(queue))
    BY <1>0, ConcatAssociative
  <2> QED BY <1>0, <2>1
<1>4. Pending' = Pending
  <2>1. CASE failed
    <3>1. buf = <<>> /\ buf' = <<>>
      BY <2>1 DEF NoBuffer, Buffered
    <3> QED BY <2>1, <3>1 DEF Pending
  <2>2. CASE ~failed
    BY <1>3, <2>2 DEF Pending
  <2> QED BY <2>1, <2>2
<1>5. Kept' = Kept
  BY <1>4, KeptIs, KeptIsThen
<1>6. Holds
  BY <1>2, <1>5, HardenedIs DEF Holds
<1>7. Carries
  <2> SUFFICES ASSUME ~failed PROVE Held \subseteq Held' \cup glued'
    BY DEF Carries
  <2>1. buf' \in Seq(Events) /\ queue' \in Seq(Events)
    BY DEF TypeOK
  <2>2. ToSet(buf') \cup ToSet(queue') = ToSet(buf) \cup ToSet(queue)
    <3>1. ToSet(buf' \o queue') = ToSet(buf') \cup ToSet(queue')
      BY <2>1, SetOfConcat
    <3>2. ToSet(buf \o queue) = ToSet(buf) \cup ToSet(queue)
      BY <1>0, SetOfConcat
    <3>3. buf' \o queue' = buf \o queue
      BY <1>3
    <3> QED BY <3>1, <3>2, <3>3
  <2> QED BY <2>2 DEF Held
<1> QED BY <1>1, <1>6, <1>7 DEF StepKind, Stays

LEMMA OpenMoves ==
    ASSUME TypeOK, TypeOK', NoBuffer, Open
    PROVE  NoBuffer' /\ StepKind /\ Stays
<1>0. /\ writer = "down" /\ buf = <<>> /\ buf' = <<>> /\ queue' = <<>> /\ glued' = glued
      /\ file \in Seq(Line) /\ Len(file) \in Nat /\ synced \in Nat
  BY LenProperties DEF Open, NoBuffer, TypeOK
<1>1. /\ file' \in Seq(Line) /\ Len(file') \in Nat /\ Len(file') <= Len(file)
      /\ \A i \in 1..Len(file') : file'[i] = file[i]
      /\ Reach(file') = Reach(file) /\ Intact(file') = Intact(file)
      /\ Reach(file) <= Len(file')
      /\ synced' \in 0..Len(file') /\ Less(synced, Len(file')) <= synced'
  BY OpenFile
<1>2. Pending = <<>> /\ Pending' = <<>>
  <2>1. <<>> \o <<>> = <<>>
    OBVIOUS
  <2> QED BY <1>0, <2>1 DEF Pending
<1>3. Readable(file') = Readable(file)
  BY <1>0, <1>1, ReadableIs, ReachIs
<1>4. Kept' = Kept
  <2>1. ASSUME NEW f \in Seq(Line) PROVE KeptOf(f, <<>>) = Readable(f)
    BY ReadableIs, ConcatEmptySeq DEF KeptOf
  <2>2. Kept = KeptOf(file, <<>>) /\ Kept' = KeptOf(file', <<>>)
    BY <1>2, KeptIs, KeptIsThen
  <2> QED BY <1>0, <1>1, <1>3, <2>1, <2>2
<1>5. StepKind
  <2>1. /\ Hardened = Less(Intact(file), synced) /\ Hardened \in Nat /\ Intact(file) <= Reach(file)
        /\ Hardened' = Less(Intact(file'), synced') /\ Hardened' \in Nat
        /\ Hardened' <= Len(Kept') /\ Len(Kept) \in Nat /\ Intact(file') \in Nat
        /\ Reach(file) \in Nat /\ synced' \in Nat
    BY <1>0, <1>1, HardenedIs, HardenedIsThen, ReachIs
  <2>2. Hardened <= Hardened'
    BY <1>0, <1>1, <2>1 DEF Less
  <2> QED BY <1>4, <2>1, <2>2 DEF Holds, StepKind
<1>6. SureIn(file, synced) \subseteq SureIn(file', synced')
  BY <1>0, <1>1, ReachIs DEF SureIn, Less
<1>7. NoBuffer'
  BY <1>0 DEF NoBuffer
<1> QED BY <1>0, <1>5, <1>6, <1>7 DEF Stays

LEMMA CrashMoves ==
    ASSUME TypeOK, TypeOK', NoBuffer, Crash
    PROVE  NoBuffer' /\ StepKind /\ Stays
<1>0. /\ buf' = <<>> /\ writer' = "down" /\ glued' = glued \cup Glued(file') /\ synced' = synced
      /\ file \in Seq(Line) /\ buf \in Seq(Events) /\ synced \in 0..Len(file) /\ synced \in Nat
  BY LenProperties DEF Crash, TypeOK
<1>1. /\ file' \in Seq(Line) /\ CutOf(file', file \o Lines(buf)) /\ synced <= Len(file')
      /\ \A i \in 1..synced : file'[i] = file[i]
  BY CrashCuts
<1>2. NoBuffer'
  BY <1>0 DEF NoBuffer
<1>3. Stays
  BY <1>0, <1>1, SureKept DEF Stays
<1>4. StepKind
  <2> DEFINE q == IF failed \/ writer = "down" THEN <<>> ELSE queue
  <2>1. q \in Seq(Events) /\ Pending = buf \o q
    BY DEF TypeOK, Pending
  <2>2. Pending' = <<>>
    <3>1. <<>> \o <<>> = <<>>
      OBVIOUS
    <3> QED BY <1>0, <3>1 DEF Pending
  <2> HIDE DEF q
  <2>3. /\ Pending' = <<>> \/ (~Appendable(file) /\ ~Appendable(file'))
        /\ synced <= synced' /\ synced' = synced
    BY <1>0, <2>2
  <2>4. buf \in Seq(Events) /\ q \in Seq(Events) /\ Pending = buf \o q
    BY <1>0, <2>1
  <2>5. /\ CutOf(file', file \o Lines(buf)) /\ synced <= Len(file')
        /\ \A i \in 1..synced : file'[i] = file[i]
    BY <1>1
  <2> QED BY <2>3, <2>4, <2>5, CutKind
<1> QED BY <1>2, <1>3, <1>4

LEMMA NextMoves ==
    ASSUME TypeOK, TypeOK', NoBuffer, Next
    PROVE  NoBuffer' /\ StepKind /\ Stays /\ (Open \/ Crash \/ Carries)
<1>1. CASE Open
  BY <1>1, OpenMoves
<1>2. CASE Crash
  BY <1>2, CrashMoves
<1>3. CASE CallClose
  BY <1>3, QuietMoves DEF CallClose
<1>4. ASSUME NEW r \in Recorders, CallRecord(r) \/ Caller(r)
      PROVE  NoBuffer' /\ StepKind /\ Stays /\ Carries
  <2>1. CASE RecordEnters(r)
    BY <2>1, EnterMoves
  <2>2. CASE CallRecord(r) \/ RecordRefused(r)
    BY <2>2, QuietMoves DEF CallRecord, RecordRefused
  <2> QED BY <1>4, <2>1, <2>2 DEF Caller
<1>5. CASE CallFlush \/ FlushRefused
  BY <1>5, QuietMoves DEF CallFlush, FlushRefused
<1>6. CASE WriterTakes
  BY <1>6, TakeMoves DEF WriterTakes
<1>7. CASE WriterTicks
  BY <1>7, FlushMoves DEF WriterTicks, TypeOK
<1>8. CASE WriterFlushes
  <2>1. /\ Buffered(queue) \in Seq(Events) /\ queue' = <<>> /\ writer' = writer /\ writer = "loop"
        /\ FlushSucceeds(Buffered(queue)) \/ FlushFails(Buffered(queue))
    BY <1>8, BufferedType DEF WriterFlushes, TypeOK
  <2>2. ~failed => Buffered(queue) \o queue' = buf \o queue
    BY <2>1, BufferedType, ConcatEmptySeq DEF Buffered
  <2> QED BY <2>1, <2>2, FlushMoves
<1>9. CASE WriterSeesClosed
  BY <1>9, QuietMoves DEF WriterSeesClosed
<1>10. CASE WriterDrains
  <2>1. CASE queue # <<>> /\ buf' = Buffered(<<Head(queue)>>) /\ queue' = Tail(queue)
             /\ UNCHANGED <<file, synced, failed, glued>>
    BY <1>10, <2>1, TakeMoves DEF WriterDrains
  <2>2. CASE (FlushSucceeds(buf) \/ FlushFails(buf)) /\ UNCHANGED queue
    BY <1>10, <2>2, FlushMoves DEF WriterDrains, TypeOK
  <2> QED BY <1>10, <2>1, <2>2 DEF WriterDrains
<1>11. CASE WriterEnds
  BY <1>11, FlushMoves DEF WriterEnds, TypeOK
<1> QED BY <1>1, <1>2, <1>3, <1>4, <1>5, <1>6, <1>7, <1>8, <1>9, <1>10, <1>11 DEF Next, Writer
-----------------------------------------------------------------------------
(* The promises *)

\* The answers to Flush; the rest leaves what was promised alone.
LEMMA AckedMoves ==
    ASSUME Next
    PROVE  \/ UNCHANGED <<acked, hurried>>
           \/ WriterFlushes
           \/ WriterDrains
  BY DEF Next, Open, CallClose, Crash, CallRecord, Caller, RecordEnters, RecordRefused, CallFlush,
         FlushRefused, Writer, WriterTakes, WriterSeesClosed, WriterEnds, WriterTicks

LEMMA OwedMoves == ASSUME Next PROVE UNCHANGED owed \/ owed' = {} \/ CallClose
  BY DEF Next, Open, Crash, CallRecord, Caller, RecordEnters, RecordRefused, CallFlush,
         FlushRefused, Writer, WriterTakes, WriterFlushes, WriterSeesClosed, WriterDrains,
         WriterEnds, WriterTicks

LEMMA CoversMove == ASSUME Next PROVE UNCHANGED flush \/ flush' = NoFlush \/ CallFlush
  BY DEF Next, Open, CallClose, Crash, CallRecord, Caller, RecordEnters, RecordRefused,
         FlushRefused, Writer, WriterTakes, WriterFlushes, WriterSeesClosed, WriterDrains,
         WriterEnds, WriterTicks

\* A flush that succeeds makes what was in the file and in the buffer safe.
LEMMA FlushSecures ==
    ASSUME TypeOK, NEW b \in Seq(Events), FlushSucceeds(b)
    PROVE  ToSet(Readable(file)) \cup ToSet(b) \subseteq SureIn(file', synced') \cup glued'
<1>1. /\ file' = file \o Lines(b) /\ synced' = Len(file') /\ glued' = glued \cup Glued(file')
      /\ file \in Seq(Line)
  BY DEF FlushSucceeds, TypeOK
<1>2. file' \in Seq(Line)
  BY FlushCuts
<1>3. SureIn(file', synced') = ToSet(Readable(file'))
  BY <1>1, <1>2, SureOfAll
<1>4. ToSet(Readable(file)) \cup ToSet(b) \subseteq ToSet(Readable(file')) \cup Glued(file')
  BY <1>1, HeldKept
<1> QED BY <1>1, <1>3, <1>4

LEMMA AckedIsSafe ==
    ASSUME IInv, Next, Stays
    PROVE  (acked' \ (glued' \cup hurried')) \subseteq SureIn(file', synced')
<1>0. /\ TypeOK /\ NoBuffer /\ glued \subseteq glued'
      /\ (acked \ (glued \cup hurried)) \subseteq SureIn(file, synced)
      /\ SureIn(file, synced) \subseteq SureIn(file', synced') \cup glued'
  BY DEF IInv, Promises, Stays
<1>1. CASE acked' = acked /\ hurried' = hurried
  BY <1>0, <1>1
<1>2. CASE WriterFlushes
  <2> DEFINE b == Buffered(queue)
  <2>1. CASE FlushFails(b) /\ UNCHANGED acked
    BY <1>1, <1>2, <2>1 DEF WriterFlushes
  <2>2. CASE FlushSucceeds(b) /\ acked' = acked \cup flush.covers
    <3>1. /\ queue \in Seq(Events) /\ buf \in Seq(Events) /\ b \in Seq(Events)
          /\ flush.stage = "waiting" /\ writer = "loop" /\ hurried' = hurried /\ ~failed
      BY <1>0, <1>2, <2>2, BufferedType DEF WriterFlushes, TypeOK, FlushSucceeds
    <3>2. ToSet(b) = ToSet(buf) \cup ToSet(queue)
      BY <3>1, SetOfConcat DEF Buffered
    <3>3. (flush.covers \ glued) \subseteq Held
      BY <3>1 DEF IInv, Promises
    <3>4. Held = ToSet(Readable(file)) \cup ToSet(b)
      BY <3>1, <3>2 DEF Held
    <3>5. ToSet(Readable(file)) \cup ToSet(b) \subseteq SureIn(file', synced') \cup glued'
      <4> HIDE DEF b
      <4> QED BY <1>0, <2>2, <3>1, FlushSecures
    <3> QED BY <1>0, <2>2, <3>1, <3>3, <3>4, <3>5
  <2> QED BY <1>2, <2>1, <2>2 DEF WriterFlushes
<1>3. CASE WriterDrains
  <2>1. CASE UNCHANGED <<acked, hurried>>
    BY <1>1, <2>1
  <2>2. CASE /\ flush.stage = "waiting" /\ FlushSucceeds(buf)
             /\ acked' = acked \cup flush.covers
             /\ hurried' = hurried \cup (flush.covers \cap ToSet(queue))
    <3>1. buf \in Seq(Events) /\ writer = "draining" /\ ~failed
      BY <1>0, <1>3, <2>2 DEF WriterDrains, TypeOK, FlushSucceeds
    <3>2. (flush.covers \ glued) \subseteq Held
      BY <2>2, <3>1 DEF IInv, Promises
    <3>3. Held = ToSet(Readable(file)) \cup (ToSet(buf) \cup ToSet(queue))
      BY <3>1 DEF Held
    <3>4. ToSet(Readable(file)) \cup ToSet(buf) \subseteq SureIn(file', synced') \cup glued'
      BY <1>0, <2>2, <3>1, FlushSecures
    <3> QED BY <1>0, <2>2, <3>2, <3>3, <3>4
  <2> QED BY <1>3, <2>1, <2>2 DEF WriterDrains
<1> QED BY <1>1, <1>2, <1>3, AckedMoves

LEMMA CoversAreHeld ==
    ASSUME IInv, Next, Stays, Open \/ Crash \/ Carries, ~failed', flush'.stage = "waiting"
    PROVE  (flush'.covers \ glued') \subseteq Held'
<1>1. flush' # NoFlush
  BY DEF NoFlush
<1>2. Carries
  BY <1>1 DEF Open, Crash
<1>3. ~failed /\ Held \subseteq Held' \cup glued' /\ glued \subseteq glued'
  BY <1>2 DEF Carries, Stays
<1>4. CASE UNCHANGED flush
  <2>1. (flush.covers \ glued) \subseteq Held
    BY <1>3, <1>4 DEF IInv, Promises
  <2> QED BY <1>3, <1>4, <2>1
<1>5. CASE CallFlush
  <2>1. flush'.covers = Held
    BY <1>5 DEF CallFlush, Recorded, Held
  <2> QED BY <1>3, <2>1
<1> QED BY <1>1, <1>4, <1>5, CoversMove

LEMMA OwedIsHeld ==
    ASSUME IInv, Next, Stays, Open \/ Crash \/ Carries, ~failed'
    PROVE  (owed' \ glued') \subseteq Held'
<1>1. CASE owed' = {}
  BY <1>1
<1>2. CASE owed' # {}
  <2>1. Carries
    BY <1>2 DEF Open, Crash
  <2>2. ~failed /\ Held \subseteq Held' \cup glued' /\ glued \subseteq glued'
    BY <2>1 DEF Carries, Stays
  <2>3. (owed \ glued) \subseteq Held
    BY <2>2 DEF IInv, Promises
  <2>4. CASE UNCHANGED owed
    BY <2>2, <2>3, <2>4
  <2>5. CASE CallClose
    <3>1. owed' = Held
      BY <2>5 DEF CallClose, Recorded, Held
    <3> QED BY <2>2, <3>1
  <2> QED BY <1>2, <2>4, <2>5, OwedMoves
<1> QED BY <1>1, <1>2

\* What is safe is what can be read of the part that is on the disk.
LEMMA SureIsOnDisk == ASSUME TypeOK PROVE SureIn(file, synced) \subseteq OnDisk
<1> DEFINE p == SubSeq(file, 1, synced)
<1>1. /\ file \in Seq(Line) /\ synced \in 0..Len(file) /\ Len(file) \in Nat /\ synced \in Nat
  BY LenProperties DEF TypeOK
<1>2. p \in Seq(Line) /\ Len(p) = synced /\ \A i \in 1..synced : p[i] = file[i]
  BY <1>1, PrefixIs
<1>3. Intact(p) = Less(Intact(file), synced)
  BY <1>1, IntactOfPrefix
<1>4. synced = Len(file) => p = file
  BY <1>1, SubSeqFull
<1> HIDE DEF p
<1>5. /\ Reach(file) \in 0..Len(file) /\ Intact(file) \in 0..Len(file)
      /\ Reach(file) # Intact(file) => Reach(file) = Intact(file) + 1 /\ Reach(file) = Len(file)
      /\ Reach(p) \in 0..Len(p) /\ Intact(p) <= Reach(p) /\ Intact(p) \in 0..Len(p)
  BY <1>1, <1>2, ReachIs
<1> SUFFICES ASSUME NEW i \in 1..Len(file), i <= synced, i <= Reach(file)
             PROVE  file[i].event \in ToSet(Readable(p))
  BY DEF SureIn, OnDisk, p
<1>6. i <= Reach(p)
  <2>1. CASE i <= Intact(file)
    BY <1>1, <1>2, <1>3, <1>5, <2>1 DEF Less
  <2>2. CASE ~(i <= Intact(file))
    <3>1. i = Len(file) /\ synced = Len(file)
      BY <1>1, <1>5, <2>2
    <3> QED BY <1>4, <3>1
  <2> QED BY <2>1, <2>2
<1>7. i \in 1..Reach(p) /\ p[i].event = file[i].event
  BY <1>1, <1>2, <1>5, <1>6
<1> QED BY <1>2, <1>7, ReadableSet

LEMMA InitHolds == ASSUME Init PROVE IInv
<1>1. TypeOK
  <2>1. /\ file \in Seq(Line) /\ synced \in 0..Len(file)
        /\ buf \in Seq(Events) /\ queue \in Seq(Events) /\ Len(queue) <= QueueCap
    BY StoreAssumption DEF Init
  <2>2. calls \in [Recorders -> Events \cup {NoCall}] /\ flush \in FlushCall
    BY DEF Init, NoFlush, FlushCall
  <2>3. used \in 0..MaxEvents /\ opens \in 0..MaxOpens
    BY StoreAssumption DEF Init
  <2>4. failed \in BOOLEAN /\ closed \in BOOLEAN
    BY DEF Init
  <2> QED BY <2>1, <2>2, <2>3, <2>4 DEF Init, TypeOK
<1>2. NoBuffer
  BY DEF Init, NoBuffer
<1>3. Promises
  <2>1. acked = {} /\ owed = {} /\ flush.stage = "none"
    BY DEF Init, NoFlush
  <2> QED BY <2>1 DEF Promises
<1> QED BY <1>1, <1>2, <1>3 DEF IInv

LEMMA StepHolds ==
    ASSUME IInv, [Next]_vars
    PROVE  IInv' /\ (StepKind \/ UNCHANGED <<Kept, Hardened>>)
<1>0. TypeOK /\ NoBuffer
  BY DEF IInv
<1>1. CASE Next
  <2>1. TypeOK'
    BY <1>0, <1>1, TypeStep
  <2>2. NoBuffer' /\ StepKind /\ Stays /\ (Open \/ Crash \/ Carries)
    BY <1>0, <1>1, <2>1, NextMoves
  <2>3. (acked' \ (glued' \cup hurried')) \subseteq SureIn(file', synced')
    BY <1>1, <2>2, AckedIsSafe
  <2>4. ~failed' /\ flush'.stage = "waiting" => (flush'.covers \ glued') \subseteq Held'
    BY <1>1, <2>2, CoversAreHeld
  <2>5. ~failed' => (owed' \ glued') \subseteq Held'
    BY <1>1, <2>2, OwedIsHeld
  <2>6. Promises'
    BY <2>3, <2>4, <2>5 DEF Promises
  <2> QED BY <2>1, <2>2, <2>6 DEF IInv
<1>2. CASE UNCHANGED vars
  <2>1. Kept' = Kept /\ Hardened' = Hardened
    BY <1>2 DEF vars, Kept, Hardened
  <2>2. TypeOK'
    BY <1>0, <1>2 DEF TypeOK, vars
  <2>3. NoBuffer'
    BY <1>0, <1>2 DEF NoBuffer, vars
  <2>4. Held' = Held /\ SureIn(file', synced') = SureIn(file, synced)
    BY <1>2 DEF vars, Held
  <2>5. Promises'
    BY <1>2, <2>4 DEF IInv, Promises, vars
  <2> QED BY <2>1, <2>2, <2>3, <2>5 DEF IInv
<1> QED BY <1>1, <1>2
-----------------------------------------------------------------------------
\* Types, and the bound of the queue, whatever fails.
THEOREM StoreTypeCorrect == Spec => []TypeOK
<1>1. Init => IInv
  BY InitHolds
<1>2. IInv /\ [Next]_vars => IInv'
  BY StepHolds
<1>3. IInv => TypeOK
  BY DEF IInv
<1> QED BY <1>1, <1>2, <1>3, PTL DEF Spec

\* What a Flush that returned nil covered can be read from the part of the file that
\* is on the disk, and what was accepted before Close from the file when the writer
\* has ended without an error (Store.Flush, Store.Close, repairSession), but for the
\* events that a line without a newline made unreadable and those that drain had
\* left in the queue when it answered.
THEOREM PromisesAreKept == Spec => []Durable
<1>1. IInv /\ [Next]_vars => IInv'
  BY StepHolds
<1>2. IInv => Durable
  <2> SUFFICES ASSUME IInv PROVE Durable
    OBVIOUS
  <2>1. TypeOK /\ Promises
    BY DEF IInv
  <2>2. SureIn(file, synced) \subseteq OnDisk
    BY <2>1, SureIsOnDisk
  <2>3. CloseDrains
    BY <2>1 DEF CloseDrains, Promises, Held
  <2> QED BY <2>1, <2>2, <2>3 DEF Durable, Promises
<1>3. Init => IInv
  BY InitHolds
<1> QED BY <1>1, <1>2, <1>3, PTL DEF Spec

\* The store implements the event log (New, Record, the writer, repairSession): a
\* step accepts an event, makes some safe, or loses some from the unsafe end.
THEOREM StoreImplementsLog == Spec => ImplementsLog
<1>1. Init => Log!Init
  <2> SUFFICES ASSUME Init PROVE Kept = <<>> /\ Hardened = 0
    BY DEF Log!Init
  <2>1. TypeOK
    BY InitHolds DEF IInv
  <2>2. file = <<>> /\ synced = 0 /\ Pending = <<>>
    <3>1. <<>> \o <<>> = <<>>
      OBVIOUS
    <3> QED BY <3>1 DEF Init, Pending
  <2>3. file \in Seq(Line) /\ Len(file) = 0 /\ Appendable(file)
    BY <2>1, <2>2 DEF TypeOK, Appendable
  <2>4. Kept \in Seq(Events) /\ Len(Kept) = 0
    <3>1. Kept = KeptOf(file, Pending) /\ Pending \in Seq(Events) /\ Len(Pending) = 0
      BY <2>1, <2>2, KeptIs, PendingType
    <3>2. Len(KeptOf(file, Pending)) = Len(file) + Len(Pending)
      BY <2>3, <3>1, KeptOfIs
    <3> QED BY <2>1, <2>3, <3>1, <3>2, HardenedIs
  <2>5. Hardened \in Nat /\ Hardened <= 0
    BY <2>1, <2>4, HardenedIs
  <2> QED BY <2>4, <2>5, EmptySeq
<1>2. IInv /\ [Next]_vars => IInv' /\ [Log!Next]_<<Kept, Hardened>>
  <2> SUFFICES ASSUME IInv, [Next]_vars PROVE IInv' /\ [Log!Next]_<<Kept, Hardened>>
    OBVIOUS
  <2>1. IInv' /\ (StepKind \/ UNCHANGED <<Kept, Hardened>>)
    BY StepHolds
  <2>2. CASE Holds
    BY <2>1, <2>2 DEF Holds, Log!Next, Log!Harden
  <2>3. CASE Takes
    BY <2>1, <2>3 DEF Takes, Log!Next, Log!Accept
  <2>4. CASE Loses
    BY <2>1, <2>4 DEF Loses, Log!Next, Log!Lose
  <2> QED BY <2>1, <2>2, <2>3, <2>4 DEF StepKind
<1>3. Init => IInv
  BY InitHolds
<1> QED BY <1>1, <1>2, <1>3, PTL DEF Spec, ImplementsLog, Log!Spec

-----------------------------------------------------------------------------
(* SessionReplay.  A log is read event by event, and every step of the       *)
(* conversation adds events whose reading does to what is read what the step *)
(* did to the conversation.  Thinking is read into messages of its own, so   *)
(* the two may differ in their length and are compared as Canon joins them.  *)
-----------------------------------------------------------------------------
(* The blocks of a kind *)

Picks(u, s, kind) ==
    /\ u[0] = <<>>
    /\ \A i \in 1..Len(s) : u[i] = IF s[i].kind = kind THEN Append(u[i - 1], s[i]) ELSE u[i - 1]

LEMMA BlocksAre ==
    ASSUME NEW m, Len(m.content) \in Nat, NEW kind, NEW S,
           NEW u \in [0..Len(m.content) -> S], Picks(u, m.content, kind)
    PROVE  Blocks(m, kind) = u[Len(m.content)]
<1> DEFINE s == m.content
           n == Len(s)
           Recurs(g) == g = [i \in 0..n |->
                               IF i = 0 THEN <<>>
                               ELSE IF s[i].kind = kind THEN Append(g[i - 1], s[i])
                               ELSE g[i - 1]]
<1>1. Recurs(u)
  <2>1. \A i \in 0..n : i = 0 \/ i \in 1..n
    OBVIOUS
  <2> QED BY <2>1 DEF Picks
<1>2. Blocks(m, kind) = (CHOOSE g : Recurs(g))[n]
  BY DEF Blocks
<1>3. PICK g : g = (CHOOSE x : Recurs(x))
  OBVIOUS
<1>4. Recurs(g)
  <2> HIDE DEF Recurs
  <2> QED BY <1>1, <1>3
<1> DEFINE T == {i \in 0..n : g[i] # u[i]}
<1>5. CASE T = {}
  <2>1. g[n] = u[n]
    BY <1>5
  <2> HIDE DEF Recurs
  <2> QED BY <1>2, <1>3, <2>1
<1>6. CASE T # {}
  <2>1. T \subseteq Nat
    OBVIOUS
  <2>2. PICK k \in T : \A j \in T : k <= j
    <3> HIDE DEF T
    <3> QED BY <1>6, <2>1, NatMin
  <2>3. k # 0
    BY <1>4, <2>2 DEF Picks
  <2>4. k \in 1..n /\ k - 1 \in 0..n /\ ~(k <= k - 1)
    BY <2>2, <2>3
  <2>5. g[k - 1] = u[k - 1]
    BY <2>2, <2>4
  <2>6. g[k] = u[k]
    BY <1>4, <2>3, <2>4, <2>5 DEF Picks
  <2> QED BY <2>2, <2>6
<1> QED BY <1>5, <1>6

\* A function of the numbers up to n, each value made of the one before.
Chained(f, n, S, base, step) ==
    /\ f \in [0..n -> S]
    /\ f[0] = base
    /\ \A i \in 1..n : f[i] = step[<<f[i - 1], i>>]

LEMMA ChainExists ==
    ASSUME NEW n \in Nat, NEW S, NEW base \in S, NEW step \in [S \X (1..n) -> S]
    PROVE  \E f : Chained(f, n, S, base, step)
<1> USE DEF Chained
<1> DEFINE Chain(k, f) == Chained(f, k, S, base, step)
           T == {k \in 0..n : \A f : ~Chain(k, f)}
<1>1. CASE T = {}
  <2>1. n \in 0..n /\ n \notin T
    BY <1>1
  <2>2. PICK f : Chain(n, f)
    BY <2>1
  <2> QED BY <2>2
<1>2. CASE T # {}
  <2>1. T \subseteq Nat
    OBVIOUS
  <2>2. PICK m \in T : \A k \in T : m <= k
    <3> HIDE DEF T
    <3> QED BY <1>2, <2>1, NatMin
  <2>3. m # 0
    <3>1. Chain(0, [i \in 0..0 |-> base])
      OBVIOUS
    <3> QED BY <2>2, <3>1, ZenonT(30)
  <2>4. m \in 1..n /\ m - 1 \in 0..n /\ m - 1 \notin T
    BY <2>2, <2>3
  <2>5. PICK f : Chain(m - 1, f)
    BY <2>4
  <2> DEFINE e == [i \in 0..m |-> IF i = m THEN step[<<f[m - 1], m>>] ELSE f[i]]
  <2>6. f[m - 1] \in S /\ step[<<f[m - 1], m>>] \in S
    BY <2>4, <2>5
  <2>7. \A i \in 0..m : i = m \/ i \in 0..(m - 1)
    BY <2>4
  <2>8. e \in [0..m -> S] /\ e[0] = base /\ e[m] = step[<<f[m - 1], m>>]
    BY <2>4, <2>5, <2>6, <2>7
  <2>9. ASSUME NEW i \in 1..m PROVE e[i] = step[<<e[i - 1], i>>]
    <3>1. i - 1 \in 0..(m - 1) /\ i - 1 # m /\ e[i - 1] = f[i - 1]
      BY <2>4
    <3>2. CASE i = m
      BY <2>8, <3>1, <3>2
    <3>3. CASE i # m
      <4>1. i \in 1..(m - 1) /\ e[i] = f[i]
        BY <2>4, <3>3
      <4> QED BY <2>5, <3>1, <4>1
    <3> QED BY <3>2, <3>3
  <2>10. Chain(m, e)
    <3> HIDE DEF e
    <3> QED BY <2>8, <2>9
  <2> QED BY <2>2, <2>10
<1> QED BY <1>1, <1>2

\* The elements of s of that kind.
OfKind(s, kind) == {b \in {s[i] : i \in 1..Len(s)} : b.kind = kind}

LEMMA PicksExist ==
    ASSUME NEW S, NEW s \in Seq(S), NEW kind
    PROVE  \E u \in [0..Len(s) -> Seq(OfKind(s, kind))] : Picks(u, s, kind)
<1> DEFINE W == OfKind(s, kind)
           n == Len(s)
           E(x, i) == IF s[i].kind = kind THEN Append(x, s[i]) ELSE x
           step == [p \in Seq(W) \X (1..n) |-> E(p[1], p[2])]
<1>1. step \in [Seq(W) \X (1..n) -> Seq(W)]
  <2>1. ASSUME NEW p \in Seq(W) \X (1..n) PROVE E(p[1], p[2]) \in Seq(W)
    BY AppendProperties DEF OfKind
  <2> QED BY <2>1
<1>2. <<>> \in Seq(W) /\ n \in Nat
  OBVIOUS
<1>3. PICK f : Chained(f, n, Seq(W), <<>>, step)
  <2> HIDE DEF step, n, W
  <2> QED BY <1>1, <1>2, ChainExists
<1>4. ASSUME NEW i \in 1..n PROVE f[i] = E(f[i - 1], i)
  <2>1. i - 1 \in 0..n
    OBVIOUS
  <2>2. f[i - 1] \in Seq(W)
    BY <1>3, <2>1 DEF Chained
  <2>3. <<f[i - 1], i>> \in Seq(W) \X (1..n)
    BY <2>2
  <2>4. step[<<f[i - 1], i>>] = E(f[i - 1], i)
    BY <2>3
  <2> HIDE DEF step
  <2> QED BY <1>3, <2>4 DEF Chained
<1>5. f \in [0..n -> Seq(W)] /\ f[0] = <<>>
  BY <1>3 DEF Chained
<1> QED BY <1>4, <1>5 DEF Picks

LEMMA BlocksTyped ==
    ASSUME NEW m, NEW S, m.content \in Seq(S), NEW kind
    PROVE  Blocks(m, kind) \in Seq(OfKind(m.content, kind))
<1>1. PICK u \in [0..Len(m.content) -> Seq(OfKind(m.content, kind))] : Picks(u, m.content, kind)
  BY PicksExist
<1>2. Len(m.content) \in Nat /\ Len(m.content) \in 0..Len(m.content)
  OBVIOUS
<1>3. Blocks(m, kind) = u[Len(m.content)]
  BY <1>1, <1>2, BlocksAre
<1> QED BY <1>1, <1>2, <1>3

LEMMA BlocksThere ==
    ASSUME NEW m, NEW S, m.content \in Seq(S), NEW kind,
           NEW i \in 1..Len(m.content), m.content[i].kind = kind
    PROVE  Blocks(m, kind) # <<>>
<1> DEFINE s == m.content
           n == Len(s)
<1>1. PICK u \in [0..n -> Seq(OfKind(s, kind))] : Picks(u, s, kind)
  BY PicksExist
<1>2. n \in Nat /\ n \in 0..n
  OBVIOUS
<1>3. Blocks(m, kind) = u[n]
  BY <1>1, <1>2, BlocksAre
<1> HIDE DEF n, s
<1> DEFINE T == {j \in i..n : u[j] = <<>>}
<1>4. CASE T = {}
  BY <1>2, <1>3, <1>4, SMTT(30) DEF n, s
<1>5. CASE T # {}
  <2>1. T \subseteq Nat
    BY DEF s, n
  <2>2. PICK k \in T : \A j \in T : k <= j
    <3> HIDE DEF T
    <3> QED BY <1>5, <2>1, NatMin
  <2>3. k \in 1..n /\ k - 1 \in 0..n /\ u[k - 1] \in Seq(OfKind(s, kind)) /\ i \in 1..n
    <3>1. i \in 1..n /\ k \in i..n
      BY <2>2 DEF s, n
    <3>2. k \in 1..n /\ k - 1 \in 0..n
      BY <1>2, <3>1
    <3> QED BY <1>1, <3>1, <3>2
  <2>4. u[k] = IF s[k].kind = kind THEN Append(u[k - 1], s[k]) ELSE u[k - 1]
    BY <1>1, <2>3 DEF Picks, n
  <2>5. s[k].kind # kind /\ u[k - 1] = <<>>
    <3>1. ASSUME s[k].kind = kind PROVE FALSE
      <4>1. u[k] = Append(u[k - 1], s[k]) /\ u[k] = <<>>
        BY <2>2, <2>4, <3>1
      <4>2. s[k] \in OfKind(s, kind)
        BY <2>3, <3>1 DEF OfKind, n
      <4>3. Len(Append(u[k - 1], s[k])) = Len(u[k - 1]) + 1 /\ Len(u[k - 1]) \in Nat
        BY <2>3, <4>2, AppendProperties
      <4>4. Len(<<>>) = 0
        OBVIOUS
      <4> QED BY <4>1, <4>3, <4>4
    <3> QED BY <2>2, <2>4, <3>1
  <2>6. k # i
    BY <2>5 DEF s
  <2>7. k - 1 \in T /\ ~(k <= k - 1)
    BY <2>2, <2>3, <2>5, <2>6
  <2> QED BY <2>2, <2>7
<1> QED BY <1>4, <1>5

\* Calls that carry their place in the reply differ.
LEMMA BlocksDiffer ==
    ASSUME NEW m, NEW S, m.content \in Seq(S), NEW kind,
           \A i \in 1..Len(m.content) : m.content[i].kind = kind => m.content[i].at = i
    PROVE  \A a, b \in 1..Len(Blocks(m, kind)) : Blocks(m, kind)[a] = Blocks(m, kind)[b] => a = b
<1> DEFINE s == m.content
           n == Len(s)
           W == OfKind(s, kind)
<1>1. PICK u \in [0..n -> Seq(W)] : Picks(u, s, kind)
  BY PicksExist
<1>2. n \in Nat /\ n \in 0..n
  OBVIOUS
<1>3. Blocks(m, kind) = u[n]
  BY <1>1, <1>2, BlocksAre
<1> DEFINE Rising(x, i) == /\ \A a \in 1..Len(x) : x[a].at \in 1..i
                           /\ \A a, b \in 1..Len(x) : x[a] = x[b] => a = b
           T == {j \in 0..n : ~Rising(u[j], j)}
<1> HIDE DEF n, s, W
<1>4. CASE T = {}
  <2>1. Rising(u[n], n)
    BY <1>2, <1>4
  <2> QED BY <1>3, <2>1
<1>5. CASE T # {}
  <2>1. T \subseteq Nat
    BY <1>2
  <2>2. PICK k \in T : \A j \in T : k <= j
    <3> HIDE DEF T
    <3> QED BY <1>5, <2>1, NatMin
  <2>3. k # 0
    <3>1. u[0] = <<>>
      BY <1>1 DEF Picks
    <3>2. Rising(<<>>, 0)
      OBVIOUS
    <3> HIDE DEF Rising
    <3> QED BY <2>2, <3>1, <3>2
  <2>4. k \in 1..n /\ k - 1 \in 0..n /\ ~(k <= k - 1) /\ k - 1 + 1 = k /\ k \in Nat
    BY <1>2, <2>2, <2>3
  <2>5. u[k - 1] \in Seq(W) /\ Rising(u[k - 1], k - 1)
    <3> HIDE DEF Rising
    <3> QED BY <1>1, <2>2, <2>4
  <2>6. u[k] = IF s[k].kind = kind THEN Append(u[k - 1], s[k]) ELSE u[k - 1]
    BY <1>1, <2>4 DEF Picks, n
  <2>7. Rising(u[k], k)
    <3>1. CASE s[k].kind # kind
      BY <2>4, <2>5, <2>6, <3>1
    <3>2. CASE s[k].kind = kind
      <4>1. PICK x : x = u[k - 1]
        OBVIOUS
      <4>2. s[k] \in W /\ s[k].at = k
        BY <2>4, <3>2 DEF W, OfKind, n, s
      <4>3. x \in Seq(W) /\ Rising(x, k - 1) /\ u[k] = Append(x, s[k])
        BY <2>5, <2>6, <3>2, <4>1
      <4>4. /\ Len(u[k]) = Len(x) + 1 /\ Len(x) \in Nat
            /\ \A a \in 1..Len(x) : u[k][a] = x[a]
            /\ u[k][Len(x) + 1] = s[k]
        BY <4>2, <4>3, AppendProperties
      <4>5. \A a \in 1..Len(u[k]) : a \in 1..Len(x) \/ a = Len(x) + 1
        BY <4>4
      <4>6. ASSUME NEW a \in 1..Len(u[k]) PROVE u[k][a].at \in 1..k
        BY <2>4, <4>2, <4>3, <4>4, <4>5
      <4>7. ASSUME NEW a \in 1..Len(x) PROVE u[k][a] # s[k]
        <5>1. x[a].at \in 1..(k - 1)
          BY <4>3
        <5> QED BY <2>4, <4>2, <4>4, <5>1
      <4>8. ASSUME NEW a \in 1..Len(u[k]), NEW b \in 1..Len(u[k]), u[k][a] = u[k][b] PROVE a = b
        BY <4>3, <4>4, <4>5, <4>7, <4>8
      <4> QED BY <4>6, <4>8
    <3> QED BY <3>1, <3>2
  <2> QED BY <2>2, <2>7
<1> QED BY <1>4, <1>5

\* When the blocks of the kind stand together, between lo and hi, they are this part.
LEMMA BlocksOfRun ==
    ASSUME NEW m, NEW S, m.content \in Seq(S), NEW kind,
           NEW lo \in Nat, NEW hi \in Nat, lo <= hi, hi <= Len(m.content),
           \A i \in 1..Len(m.content) : m.content[i].kind = kind <=> (lo < i /\ i <= hi)
    PROVE  Blocks(m, kind) = SubSeq(m.content, lo + 1, hi)
<1> DEFINE s == m.content
           n == Len(s)
           top(i) == IF i <= hi THEN i ELSE hi
           u == [i \in 0..n |-> IF i <= lo THEN <<>> ELSE SubSeq(s, lo + 1, top(i))]
<1>1. n \in Nat /\ 0 \in 0..n /\ n \in 0..n
  OBVIOUS
<1>2. u \in [0..n -> Seq(S)]
  OBVIOUS
<1>3. u[0] = <<>>
  BY <1>1
<1>4. ASSUME NEW i \in 1..n
      PROVE  u[i] = IF s[i].kind = kind THEN Append(u[i - 1], s[i]) ELSE u[i - 1]
  <2>0. i \in 0..n /\ i - 1 \in 0..n
    BY <1>1
  <2>1. CASE i <= lo
    BY <2>0, <2>1
  <2>2. CASE lo < i /\ i <= hi
    <3>1. u[i] = SubSeq(s, lo + 1, i) /\ s[i].kind = kind
      BY <2>0, <2>2
    <3>2. u[i - 1] = IF i - 1 <= lo THEN <<>> ELSE SubSeq(s, lo + 1, i - 1)
      BY <2>0, <2>2
    <3>3. SubSeq(s, lo + 1, i) = Append(SubSeq(s, lo + 1, i - 1), s[i])
      BY <2>2
    <3>4. CASE i - 1 <= lo
      <4>1. i - 1 = lo
        BY <2>2, <3>4
      <4>2. SubSeq(s, lo + 1, i - 1) = <<>>
        BY <4>1
      <4> QED BY <3>1, <3>2, <3>3, <3>4, <4>2
    <3>5. CASE ~(i - 1 <= lo)
      BY <3>1, <3>2, <3>3, <3>5
    <3> QED BY <3>4, <3>5
  <2>3. CASE ~(i <= hi)
    <3>1. u[i] = SubSeq(s, lo + 1, hi) /\ s[i].kind # kind
      BY <2>0, <2>3
    <3>2. u[i - 1] = IF i - 1 <= lo THEN <<>> ELSE SubSeq(s, lo + 1, hi)
      <4>1. top(i - 1) = hi
        <5>1. i - 1 <= hi => i - 1 = hi
          BY <2>3
        <5> QED BY <5>1
      <4> QED BY <2>0, <4>1
    <3>3. i - 1 <= lo => SubSeq(s, lo + 1, hi) = <<>>
      BY <2>3
    <3> QED BY <3>1, <3>2, <3>3
  <2> QED BY <2>1, <2>2, <2>3
<1> HIDE DEF u
<1>5. Picks(u, s, kind)
  BY <1>3, <1>4 DEF Picks
<1>6. Blocks(m, kind) = u[n]
  BY <1>1, <1>2, <1>5, BlocksAre
<1>7. u[n] = SubSeq(s, lo + 1, hi)
  <2>1. CASE n <= lo
    BY <2>1, <1>1 DEF u
  <2>2. CASE ~(n <= lo)
    BY <1>1, <2>2 DEF u
  <2> QED BY <2>1, <2>2
<1> QED BY <1>6, <1>7

StandTogether(s, kind, lo, hi) ==
    \A i \in 1..Len(s) : s[i].kind = kind <=> (lo < i /\ i <= hi)

LEMMA BlocksRun ==
    ASSUME NEW S, NEW s \in Seq(S), NEW m, m.content = s, NEW kind,
           NEW lo \in Nat, NEW hi \in Nat, lo <= hi, hi <= Len(s), StandTogether(s, kind, lo, hi)
    PROVE  Blocks(m, kind) = SubSeq(s, lo + 1, hi)
<1>1. m.content \in Seq(S) /\ hi <= Len(m.content)
  OBVIOUS
<1>2. \A i \in 1..Len(m.content) : m.content[i].kind = kind <=> (lo < i /\ i <= hi)
  BY DEF StandTogether
<1> HIDE DEF StandTogether
<1> QED BY <1>1, <1>2, BlocksOfRun

Messages == [role : {"user", "assistant"}, content : Seq(Block)]
LogEvents ==
    [type : {"user.message", "assistant.thinking", "assistant.message", "tool.completed", "compaction.applied"},
     blocks : Seq(Block) \ {<<>>}, from : Nat, to : Nat]
Readings == [conv : Seq(Messages), pending : SUBSET Block, ok : {TRUE}]

\* The readings of a log from r on, event by event; none of them is malformed.
ReadAlong(h, r, es) ==
    /\ h \in [0..Len(es) -> Readings]
    /\ h[0] = r
    /\ \A k \in 1..Len(es) : h[k] = Read(h[k - 1], es[k])
ReadsInto(r, es, q) == \E h : ReadAlong(h, r, es) /\ h[Len(es)] = q

\* Messages that differ at most in what encode does not keep.
Alike(a, b) == a.role = b.role /\ (IF a.role = "user" THEN a = b ELSE Arranged(a) = Arranged(b))
AllAlike(c, d) == Len(c) = Len(d) /\ \A i \in 1..Len(c) : Alike(c[i], d[i])

-----------------------------------------------------------------------------
(* What encode keeps of a reply *)

\* What the assistant.message of a reply holds.
Rest(m) == (IF Blocks(m, "text") = <<>> THEN <<>> ELSE << Head(Blocks(m, "text")) >>) \o Blocks(m, "call")

LEMMA BlocksBlock ==
    ASSUME NEW m, m.content \in Seq(Block), NEW kind
    PROVE  /\ Blocks(m, kind) \in Seq(Block)
           /\ Len(Blocks(m, kind)) \in Nat
           /\ \A i \in 1..Len(Blocks(m, kind)) : Blocks(m, kind)[i] \in Block /\ Blocks(m, kind)[i].kind = kind
<1>1. PICK x : x = Blocks(m, kind)
  OBVIOUS
<1>2. PICK W : W = OfKind(m.content, kind)
  OBVIOUS
<1>3. \A b \in W : b \in Block /\ b.kind = kind
  BY <1>2 DEF OfKind
<1>4. x \in Seq(W)
  BY <1>1, <1>2, BlocksTyped
<1>5. x \in Seq(Block) /\ Len(x) \in Nat /\ \A i \in 1..Len(x) : x[i] \in Block /\ x[i].kind = kind
  BY <1>3, <1>4
<1> QED BY <1>1, <1>5

LEMMA RestIs ==
    ASSUME NEW m, m.content \in Seq(Block)
    PROVE  /\ Rest(m) \in Seq(Block)
           /\ Arranged(m) = Blocks(m, "thinking") \o Rest(m)
           /\ Arranged(m) \in Seq(Block)
           /\ Arranged(AssistantMessage(Rest(m))) = Rest(m)
           /\ Calls(Rest(m)) = {Blocks(m, "call")[i] : i \in 1..Len(Blocks(m, "call"))}
<1>0. PICK t, c, p : t = Blocks(m, "text") /\ c = Blocks(m, "call") /\ p = Blocks(m, "thinking")
  OBVIOUS
<1> DEFINE a == IF t = <<>> THEN <<>> ELSE << Head(t) >>
           r == a \o c
           k == Len(a)
           am == AssistantMessage(r)
<1>1. /\ t \in Seq(Block) /\ \A i \in 1..Len(t) : t[i].kind = "text"
      /\ c \in Seq(Block) /\ \A i \in 1..Len(c) : c[i].kind = "call"
      /\ p \in Seq(Block)
  BY <1>0, BlocksBlock
<1>2. a \in Seq(Block) /\ k \in {0, 1} /\ (k = 0 => a = <<>>) /\ (k = 1 => a[1].kind = "text" /\ a = <<a[1]>>)
  <2>1. CASE t = <<>>
    BY <2>1
  <2>2. CASE t # <<>>
    BY <1>1, <2>2, EmptySeq, ElementOfSeq
  <2> QED BY <2>1, <2>2
<1> HIDE DEF a
<1>3. /\ r \in Seq(Block) /\ Len(r) = k + Len(c) /\ Len(c) \in Nat
      /\ \A i \in 1..(k + Len(c)) : r[i] = IF i <= k THEN a[i] ELSE c[i - k]
  BY <1>1, <1>2, ConcatIs
<1>4. Rest(m) = r
  BY <1>0 DEF Rest, a
<1> HIDE DEF r
<1>5. Arranged(m) = p \o r /\ p \o r \in Seq(Block)
  <2>1. Arranged(m) = (p \o a) \o c
    BY <1>0 DEF Arranged, a
  <2>2. (p \o a) \o c = p \o (a \o c)
    <3>1. p \in Seq(Block) /\ a \in Seq(Block) /\ c \in Seq(Block)
      BY <1>1, <1>2
    <3> QED BY <3>1, ConcatAssociative
  <2> QED BY <1>1, <1>3, <2>1, <2>2, ConcatProperties DEF r
<1>6. \A i \in 1..Len(r) : /\ (i <= k <=> r[i].kind = "text")
                            /\ (~(i <= k) <=> r[i].kind = "call")
                            /\ r[i].kind # "thinking"
  <2> SUFFICES ASSUME NEW i \in 1..Len(r)
               PROVE  r[i].kind = IF i <= k THEN "text" ELSE "call"
    OBVIOUS
  <2>1. CASE i <= k
    <3>1. k = 1 /\ i = 1 /\ a[1].kind = "text"
      <4>1. k # 0
        BY <1>3, <2>1
      <4>2. k = 1
        BY <1>2, <4>1
      <4> QED BY <1>2, <2>1, <4>2
    <3> QED BY <1>3, <2>1, <3>1
  <2>2. CASE ~(i <= k)
    <3>1. i - k \in 1..Len(c)
      BY <1>2, <1>3, <2>2
    <3> QED BY <1>1, <1>3, <2>2, <3>1
  <2> QED BY <2>1, <2>2
<1>7. am.content = r
  BY DEF AssistantMessage
<1>8. Arranged(am) = r
  <2> HIDE DEF am
  <2>0. k \in Nat /\ k <= Len(r) /\ Len(r) \in Nat /\ 0 \in Nat
    BY <1>2, <1>3
  <2>1. Blocks(am, "text") = SubSeq(r, 0 + 1, k)
    <3>1. StandTogether(r, "text", 0, k)
      BY <1>6, <2>0 DEF StandTogether
    <3> QED BY <1>3, <1>7, <2>0, <3>1, BlocksRun
  <2>2. Blocks(am, "call") = SubSeq(r, k + 1, Len(r))
    <3>1. StandTogether(r, "call", k, Len(r))
      BY <1>6, <2>0 DEF StandTogether
    <3> QED BY <1>3, <1>7, <2>0, <3>1, BlocksRun
  <2>3. Blocks(am, "thinking") = SubSeq(r, 0 + 1, 0)
    <3>1. StandTogether(r, "thinking", 0, 0)
      BY <1>6, <2>0 DEF StandTogether
    <3> QED BY <1>3, <1>7, <2>0, <3>1, BlocksRun
  <2>4. SubSeq(r, 1, k) = a
    BY <1>3, <2>0, <1>2, SeqEqual
  <2>5. SubSeq(r, k + 1, Len(r)) = c
    <3>1. /\ SubSeq(r, k + 1, Len(r)) \in Seq(Block) /\ Len(SubSeq(r, k + 1, Len(r))) = Len(c)
          /\ \A i \in 1..Len(c) : SubSeq(r, k + 1, Len(r))[i] = r[k + i]
      <4>1. PICK n : n = Len(r)
        OBVIOUS
      <4>2. n - k = Len(c) /\ k <= n /\ n \in Nat /\ k \in Nat
        BY <1>2, <1>3, <4>1
      <4>3. /\ SubSeq(r, k + 1, n) \in Seq(Block) /\ Len(SubSeq(r, k + 1, n)) = n - k
            /\ \A i \in 1..(n - k) : SubSeq(r, k + 1, n)[i] = r[k + i]
        BY <1>3, <4>1, <4>2
      <4> QED BY <4>1, <4>2, <4>3
    <3>2. \A i \in 1..Len(c) : r[k + i] = c[i]
      BY <1>2, <1>3
    <3> QED BY <1>1, <3>1, <3>2, SeqEqual
  <2>6. SubSeq(r, 1, 0) = <<>>
    OBVIOUS
  <2>7. (IF a = <<>> THEN <<>> ELSE << Head(a) >>) = a
    <3>1. CASE k = 0
      BY <1>2, <3>1
    <3>2. CASE k = 1
      BY <1>2, <3>2
    <3> QED BY <1>2, <3>1, <3>2
  <2>8. Arranged(am) = (<<>> \o a) \o c
    <3>0. 0 + 1 = 1
      OBVIOUS
    <3>1. Blocks(am, "text") = a /\ Blocks(am, "call") = c /\ Blocks(am, "thinking") = <<>>
      <4>1. Blocks(am, "text") = a
        BY <2>1, <2>4, <3>0
      <4>2. Blocks(am, "call") = c
        BY <2>2, <2>5
      <4>3. Blocks(am, "thinking") = <<>>
        BY <2>3, <2>6, <3>0
      <4> QED BY <4>1, <4>2, <4>3
    <3> QED BY <2>7, <3>1 DEF Arranged
  <2>9. <<>> \o a = a
    BY <1>2, ConcatEmptySeq
  <2> QED BY <2>8, <2>9 DEF r
<1>9. Calls(r) = {c[i] : i \in 1..Len(c)}
  <2>1. ASSUME NEW b \in Calls(r) PROVE \E i \in 1..Len(c) : b = c[i]
    <3>1. PICK i \in 1..Len(r) : b = r[i] /\ r[i].kind = "call"
      BY <1>3, <2>1 DEF Calls, ToSet
    <3>2. ~(i <= k)
      BY <1>6, <3>1
    <3>3. i - k \in 1..Len(c) /\ r[i] = c[i - k]
      BY <1>2, <1>3, <3>2
    <3> QED BY <3>1, <3>3
  <2>2. ASSUME NEW i \in 1..Len(c) PROVE c[i] \in Calls(r)
    <3>1. k + i \in 1..Len(r) /\ ~(k + i <= k) /\ k + i - k = i
      BY <1>2, <1>3
    <3>2. r[k + i] = c[i] /\ r[k + i].kind = "call"
      BY <1>3, <1>6, <3>1
    <3>3. DOMAIN r = 1..Len(r)
      BY <1>3
    <3> QED BY <3>1, <3>2, <3>3 DEF Calls, ToSet
  <2> QED BY <2>1, <2>2
<1> QED BY <1>0, <1>3, <1>4, <1>5, <1>8, <1>9

LEMMA ThoughtArranged ==
    ASSUME NEW t \in Block, t.kind = "thinking"
    PROVE  Arranged(AssistantMessage(<<t>>)) = <<t>>
<1>1. PICK am : am = AssistantMessage(<<t>>)
  OBVIOUS
<1>0. PICK s : s = <<t>>
  OBVIOUS
<1>2. am.content = s /\ s \in Seq(Block) /\ Len(s) = 1 /\ s[1] = t
  BY <1>0, <1>1 DEF AssistantMessage
<1>3. Blocks(am, "thinking") = SubSeq(s, 0 + 1, 1)
  <2>1. StandTogether(s, "thinking", 0, 1)
    BY <1>2 DEF StandTogether
  <2>2. 0 \in Nat /\ 1 \in Nat /\ 0 <= 1 /\ 1 <= Len(s)
    BY <1>2
  <2> QED BY <1>2, <2>1, <2>2, BlocksRun
<1>4. ASSUME NEW kind \in {"text", "call"} PROVE Blocks(am, kind) = SubSeq(s, 0 + 1, 0)
  <2>1. StandTogether(s, kind, 0, 0)
    BY <1>2 DEF StandTogether
  <2>2. 0 \in Nat /\ 0 <= 0 /\ 0 <= Len(s)
    BY <1>2
  <2> QED BY <1>2, <2>1, <2>2, BlocksRun
<1>5. SubSeq(s, 1, 1) = s /\ SubSeq(s, 1, 0) = <<>>
  BY <1>2
<1>6. Arranged(am) = (<<t>> \o <<>>) \o <<>>
  <2>1. Blocks(am, "thinking") = <<t>> /\ Blocks(am, "text") = <<>> /\ Blocks(am, "call") = <<>>
    BY <1>0, <1>3, <1>4, <1>5
  <2> QED BY <2>1 DEF Arranged
<1>7. (<<t>> \o <<>>) \o <<>> = <<t>>
  BY <1>0, <1>2, ConcatEmptySeq
<1> QED BY <1>1, <1>6, <1>7

-----------------------------------------------------------------------------
(* Conversations up to what encode keeps *)

LEMMA JoinTyped ==
    ASSUME NEW c \in Seq(Messages), NEW m \in Messages
    PROVE  Join(c, m) \in Seq(Messages)
<1>1. Arranged(m) \in Seq(Block) /\ m.role \in {"user", "assistant"}
  BY RestIs DEF Messages
<1>2. CASE m.role = "user"
  BY <1>2, AppendProperties DEF Join
<1>3. CASE m.role # "user" /\ c # <<>> /\ Last(c).role = "assistant"
  <2>1. Len(c) \in 1..Len(c) /\ Len(c) \in Nat
    BY <1>3, EmptySeq
  <2>2. PICK x : x = c[Len(c)]
    OBVIOUS
  <2>3. x \in Messages
    BY <2>1, <2>2
  <2>4. x.content \o Arranged(m) \in Seq(Block)
    BY <1>1, <2>3, ConcatProperties DEF Messages
  <2>5. [x EXCEPT !.content = @ \o Arranged(m)] \in Messages
    BY <2>3, <2>4 DEF Messages
  <2>6. Join(c, m) = [c EXCEPT ![Len(c)] = [x EXCEPT !.content = @ \o Arranged(m)]]
    BY <1>3, <2>2 DEF Join
  <2> QED BY <2>1, <2>5, <2>6
<1>4. CASE m.role # "user" /\ ~(c # <<>> /\ Last(c).role = "assistant")
  <2>1. AssistantMessage(Arranged(m)) \in Messages
    BY <1>1 DEF AssistantMessage, Messages
  <2>2. Join(c, m) = Append(c, AssistantMessage(Arranged(m)))
    BY <1>4 DEF Join
  <2> QED BY <2>1, <2>2, AppendProperties
<1> QED BY <1>2, <1>3, <1>4

\* A conversation joined message by message.
Joins(u, c) ==
    /\ u \in [0..Len(c) -> Seq(Messages)]
    /\ u[0] = <<>>
    /\ \A i \in 1..Len(c) : u[i] = Join(u[i - 1], c[i])

LEMMA CanonAre ==
    ASSUME NEW c, Len(c) \in Nat, NEW u, Joins(u, c)
    PROVE  Canon(c) = u[Len(c)]
<1> DEFINE n == Len(c)
           Recurs(g) == g = [i \in 0..n |-> IF i = 0 THEN <<>> ELSE Join(g[i - 1], c[i])]
<1>1. Recurs(u)
  <2>1. \A i \in 0..n : i = 0 \/ i \in 1..n
    OBVIOUS
  <2> QED BY <2>1 DEF Joins
<1>2. Canon(c) = (CHOOSE g : Recurs(g))[n]
  BY DEF Canon
<1>3. PICK g : g = (CHOOSE x : Recurs(x))
  OBVIOUS
<1>4. Recurs(g)
  <2> HIDE DEF Recurs
  <2> QED BY <1>1, <1>3
<1> DEFINE T == {i \in 0..n : g[i] # u[i]}
<1>5. CASE T = {}
  <2>1. g[n] = u[n]
    BY <1>5
  <2> HIDE DEF Recurs
  <2> QED BY <1>2, <1>3, <2>1
<1>6. CASE T # {}
  <2>1. T \subseteq Nat
    OBVIOUS
  <2>2. PICK k \in T : \A j \in T : k <= j
    <3> HIDE DEF T
    <3> QED BY <1>6, <2>1, NatMin
  <2>3. k # 0
    BY <1>4, <2>2 DEF Joins
  <2>4. k \in 1..n /\ k - 1 \in 0..n /\ ~(k <= k - 1)
    BY <2>2, <2>3
  <2>5. g[k - 1] = u[k - 1]
    BY <2>2, <2>4
  <2>6. g[k] = u[k]
    BY <1>4, <2>3, <2>4, <2>5 DEF Joins
  <2> QED BY <2>2, <2>6
<1> QED BY <1>5, <1>6

LEMMA JoinsExist ==
    ASSUME NEW c \in Seq(Messages)
    PROVE  \E u : Joins(u, c)
<1> DEFINE n == Len(c)
           S == Seq(Messages)
           step == [p \in S \X (1..n) |-> Join(p[1], c[p[2]])]
<1>1. step \in [S \X (1..n) -> S]
  <2>1. ASSUME NEW p \in S \X (1..n) PROVE Join(p[1], c[p[2]]) \in S
    <3>1. p[1] \in Seq(Messages) /\ c[p[2]] \in Messages
      OBVIOUS
    <3> QED BY <3>1, JoinTyped
  <2> QED BY <2>1
<1>2. <<>> \in S /\ n \in Nat
  OBVIOUS
<1>3. PICK f : Chained(f, n, S, <<>>, step)
  <2> HIDE DEF step, n, S
  <2> QED BY <1>1, <1>2, ChainExists
<1>4. ASSUME NEW i \in 1..n PROVE f[i] = Join(f[i - 1], c[i])
  <2>1. i - 1 \in 0..n
    OBVIOUS
  <2>2. f[i - 1] \in S
    <3> HIDE DEF S, step
    <3> QED BY <1>3, <2>1 DEF Chained
  <2>3. step[<<f[i - 1], i>>] = Join(f[i - 1], c[i])
    BY <2>2
  <2> HIDE DEF step
  <2> QED BY <1>3, <2>3 DEF Chained
<1>5. Joins(f, c)
  BY <1>3, <1>4 DEF Chained, Joins
<1> QED BY <1>5

LEMMA CanonTyped ==
    ASSUME NEW c \in Seq(Messages)
    PROVE  Canon(c) \in Seq(Messages)
<1>1. PICK u : Joins(u, c)
  BY JoinsExist
<1>2. Canon(c) = u[Len(c)] /\ Len(c) \in 0..Len(c)
  BY <1>1, CanonAre
<1> QED BY <1>1, <1>2 DEF Joins

LEMMA CanonNone == Canon(<<>>) = <<>>
<1>1. PICK u : Joins(u, <<>>)
  <2>1. <<>> \in Seq(Messages)
    OBVIOUS
  <2> QED BY <2>1, JoinsExist
<1>2. Canon(<<>>) = u[Len(<<>>)] /\ Len(<<>>) = 0
  BY <1>1, CanonAre
<1> QED BY <1>1, <1>2 DEF Joins

LEMMA CanonAppend ==
    ASSUME NEW c \in Seq(Messages), NEW m \in Messages
    PROVE  Canon(Append(c, m)) = Join(Canon(c), m)
<1>0. PICK d, n : d = Append(c, m) /\ n = Len(c)
  OBVIOUS
<1>1. d \in Seq(Messages) /\ n \in Nat /\ Len(d) = n + 1 /\ d[n + 1] = m /\ \A i \in 1..n : d[i] = c[i]
  BY <1>0, AppendProperties
<1>2. PICK u : Joins(u, d)
  BY <1>1, JoinsExist
<1>3. Canon(d) = u[n + 1] /\ u[n + 1] = Join(u[n], m)
  BY <1>1, <1>2, CanonAre DEF Joins
<1>4. PICK v : v = [i \in 0..n |-> u[i]]
  OBVIOUS
<1>5. Joins(v, c)
  <2>1. ASSUME NEW i \in 1..n PROVE v[i] = Join(v[i - 1], c[i])
    <3>1. i \in 0..n /\ i - 1 \in 0..n /\ i \in 1..(n + 1)
      BY <1>1
    <3> QED BY <1>1, <1>2, <1>4, <3>1 DEF Joins
  <2>2. v \in [0..n -> Seq(Messages)] /\ v[0] = <<>>
    BY <1>1, <1>2, <1>4 DEF Joins
  <2> QED BY <1>0, <2>1, <2>2 DEF Joins
<1>6. Canon(c) = v[n] /\ v[n] = u[n]
  <2>1. n \in 0..n
    BY <1>1
  <2> QED BY <1>0, <1>1, <1>4, <1>5, <2>1, CanonAre
<1> QED BY <1>0, <1>3, <1>6

LEMMA CanonAlike ==
    ASSUME NEW c \in Seq(Messages), NEW d \in Seq(Messages), AllAlike(c, d)
    PROVE  Canon(c) = Canon(d)
<1>1. PICK u : Joins(u, c)
  BY JoinsExist
<1>2. \A i \in 1..Len(c) : \A x : Join(x, c[i]) = Join(x, d[i])
  BY DEF AllAlike, Alike, Join
<1>3. Joins(u, d)
  BY <1>1, <1>2 DEF Joins, AllAlike
<1>4. Len(c) \in Nat /\ Len(d) = Len(c)
  BY DEF AllAlike
<1>5. Canon(c) = u[Len(c)]
  BY <1>1, <1>4, CanonAre
<1>6. Canon(d) = u[Len(d)]
  BY <1>3, <1>4, CanonAre
<1> QED BY <1>4, <1>5, <1>6

\* A conversation that is not empty is its beginning and its last message.
LEMMA FrontAndLast ==
    ASSUME NEW S, NEW c \in Seq(S), c # <<>>
    PROVE  /\ SubSeq(c, 1, Len(c) - 1) \in Seq(S) /\ c[Len(c)] \in S
           /\ c = Append(SubSeq(c, 1, Len(c) - 1), c[Len(c)])
           /\ Len(c) \in Nat \ {0}
<1>1. Len(c) \in Nat \ {0}
  BY EmptySeq
<1>2. c[Len(c)] \in S /\ Len(c) - 1 \in 0..Len(c)
  BY <1>1
<1>3. PICK b : b = SubSeq(c, 1, Len(c) - 1)
  OBVIOUS
<1>4. b \in Seq(S) /\ Len(b) = Len(c) - 1 /\ \A i \in 1..(Len(c) - 1) : b[i] = c[i]
  BY <1>2, <1>3, PrefixIs
<1>5. c = Append(b, c[Len(c)])
  BY <1>1, <1>2, <1>4, SeqEqual
<1> QED BY <1>1, <1>2, <1>3, <1>4, <1>5

LEMMA CanonEnds ==
    ASSUME NEW c \in Seq(Messages)
    PROVE  EndsWithUser(Canon(c)) <=> EndsWithUser(c)
<1>1. CASE c = <<>>
  BY <1>1, CanonNone DEF EndsWithUser
<1>2. CASE c # <<>>
  <2>1. PICK b, m : b = SubSeq(c, 1, Len(c) - 1) /\ m = c[Len(c)]
    OBVIOUS
  <2>2. b \in Seq(Messages) /\ m \in Messages /\ c = Append(b, m)
    BY <1>2, <2>1, FrontAndLast
  <2>3. Canon(c) = Join(Canon(b), m) /\ Canon(b) \in Seq(Messages)
    BY <2>2, CanonAppend, CanonTyped
  <2>4. PICK k : k = Canon(b)
    OBVIOUS
  <2>5. EndsWithUser(c) <=> m.role = "user"
    BY <1>2, <2>1 DEF EndsWithUser, Last
  <2>6. CASE m.role = "user"
    <3>1. Canon(c) = Append(k, m) /\ k \in Seq(Messages)
      BY <2>3, <2>4, <2>6 DEF Join
    <3>2. Append(k, m) # <<>> /\ Append(k, m)[Len(Append(k, m))] = m
      BY <2>2, <3>1
    <3> QED BY <2>5, <2>6, <3>1, <3>2 DEF EndsWithUser, Last
  <2>7. CASE m.role # "user" /\ k # <<>> /\ Last(k).role = "assistant"
    <3>1. Canon(c) = [k EXCEPT ![Len(k)].content = @ \o Arranged(m)]
      BY <2>3, <2>4, <2>7 DEF Join
    <3>2. k \in Seq(Messages) /\ Len(k) \in 1..Len(k) /\ k[Len(k)].role = "assistant" /\ k[Len(k)] \in Messages
      BY <2>3, <2>4, <2>7, FrontAndLast DEF Last
    <3>3. Len(Canon(c)) = Len(k) /\ Canon(c)[Len(k)].role = "assistant"
      BY <3>1, <3>2 DEF Messages
    <3> QED BY <2>5, <2>7, <3>3 DEF EndsWithUser, Last
  <2>8. CASE m.role # "user" /\ ~(k # <<>> /\ Last(k).role = "assistant")
    <3>1. Canon(c) = Append(k, AssistantMessage(Arranged(m))) /\ k \in Seq(Messages)
      BY <2>3, <2>4, <2>8 DEF Join
    <3>2. PICK x : x = AssistantMessage(Arranged(m))
      OBVIOUS
    <3>3. Len(Append(k, x)) = Len(k) + 1 /\ Append(k, x)[Len(k) + 1] = x
      BY <3>1
    <3>4. x.role = "assistant"
      BY <3>2 DEF AssistantMessage
    <3> QED BY <2>5, <2>8, <3>1, <3>2, <3>3, <3>4 DEF EndsWithUser, Last
  <2> QED BY <2>6, <2>7, <2>8
<1> QED BY <1>1, <1>2

LEMMA MergeTyped ==
    ASSUME NEW c \in Seq(Messages), NEW b \in Block
    PROVE  /\ MergeUser(c, b) \in Seq(Messages)
           /\ EndsWithUser(MergeUser(c, b))
           /\ Len(MergeUser(c, b)) = IF EndsWithUser(c) THEN Len(c) ELSE Len(c) + 1
<1>1. CASE EndsWithUser(c)
  <2>0. c # <<>>
    BY <1>1 DEF EndsWithUser
  <2>1. PICK n, x : n = Len(c) /\ x = c[n]
    OBVIOUS
  <2>2. n \in Nat \ {0} /\ x \in Messages /\ x.role = "user"
    BY <1>1, <2>0, <2>1, FrontAndLast DEF EndsWithUser, Last
  <2>3. [x EXCEPT !.content = Append(@, b)] \in Messages
        /\ [x EXCEPT !.content = Append(@, b)].role = "user"
    <3>1. Append(x.content, b) \in Seq(Block)
      BY <2>2, AppendProperties DEF Messages
    <3> QED BY <2>2, <3>1 DEF Messages
  <2>4. PICK y : y = [x EXCEPT !.content = Append(@, b)]
    OBVIOUS
  <2>5. MergeUser(c, b) = [c EXCEPT ![n] = y]
    BY <1>1, <2>1, <2>4 DEF MergeUser
  <2>6. [c EXCEPT ![n] = y] \in Seq(Messages) /\ Len([c EXCEPT ![n] = y]) = n /\ [c EXCEPT ![n] = y][n] = y
    <3>1. n \in 1..Len(c) /\ y \in Messages
      BY <2>1, <2>2, <2>3, <2>4
    <3>2. PICK e : e = [c EXCEPT ![n] = y]
      OBVIOUS
    <3>3. e \in Seq(Messages) /\ Len(e) = Len(c) /\ \A i \in 1..Len(c) : e[i] = IF i = n THEN y ELSE c[i]
      BY <3>1, <3>2, ExceptSeq
    <3> QED BY <2>1, <3>1, <3>2, <3>3
  <2>7. [c EXCEPT ![n] = y] # <<>>
    BY <2>2, <2>6
  <2> QED BY <1>1, <2>1, <2>3, <2>4, <2>5, <2>6, <2>7 DEF EndsWithUser, Last
<1>2. CASE ~EndsWithUser(c)
  <2>1. MergeUser(c, b) = Append(c, UserMessage(<<b>>))
    BY <1>2 DEF MergeUser
  <2>2. PICK x : x = UserMessage(<<b>>)
    OBVIOUS
  <2>3. x \in Messages /\ x.role = "user"
    BY <2>2 DEF UserMessage, Messages
  <2>4. Append(c, x) \in Seq(Messages) /\ Len(Append(c, x)) = Len(c) + 1 /\ Append(c, x)[Len(c) + 1] = x
        /\ Append(c, x) # <<>>
    BY <2>3
  <2> QED BY <1>2, <2>1, <2>2, <2>3, <2>4 DEF EndsWithUser, Last
<1> QED BY <1>1, <1>2

With(m, b) == [m EXCEPT !.content = Append(@, b)]

LEMMA MergeOn ==
    ASSUME NEW c \in Seq(Messages), NEW m \in Messages, m.role = "user", NEW b \in Block,
           NEW x, x = With(m, b)
    PROVE  MergeUser(Append(c, m), b) = Append(c, x)
<1>0. x \in Messages
  <2>1. Append(m.content, b) \in Seq(Block)
    BY AppendProperties DEF Messages
  <2> QED BY <2>1 DEF Messages, With
<1>1. PICK d, n : d = Append(c, m) /\ n = Len(c) + 1
  OBVIOUS
<1>2. /\ d \in Seq(Messages) /\ Len(d) = n /\ d[n] = m /\ n \in Nat \ {0}
      /\ \A i \in 1..Len(c) : d[i] = c[i]
  BY <1>1, AppendProperties
<1>3. MergeUser(d, b) = [d EXCEPT ![n] = x]
  <2>1. d # <<>> /\ Last(d).role = "user"
    BY <1>2 DEF Last
  <2> QED BY <1>2, <2>1 DEF MergeUser, EndsWithUser, With
<1>4. PICK e, f : e = [d EXCEPT ![n] = x] /\ f = Append(c, x)
  OBVIOUS
<1>5. e \in Seq(Messages) /\ Len(e) = n /\ e[n] = x /\ \A i \in 1..Len(c) : e[i] = c[i]
  <2>1. n \in 1..Len(d)
    BY <1>2
  <2>2. e \in Seq(Messages) /\ Len(e) = n /\ \A i \in 1..Len(d) : e[i] = IF i = n THEN x ELSE d[i]
    BY <1>0, <1>2, <1>4, <2>1, ExceptSeq
  <2>3. \A i \in 1..Len(c) : i # n /\ i \in 1..Len(d)
    BY <1>1, <1>2
  <2> QED BY <1>2, <2>1, <2>2, <2>3
<1>6. f \in Seq(Messages) /\ Len(f) = n /\ f[n] = x /\ \A i \in 1..Len(c) : f[i] = c[i]
  BY <1>0, <1>1, <1>4, AppendProperties
<1>7. \A i \in 1..n : e[i] = f[i]
  <2>1. \A i \in 1..n : i = n \/ i \in 1..Len(c)
    BY <1>1, <1>2
  <2> QED BY <1>5, <1>6, <2>1
<1>8. e = f
  BY <1>5, <1>6, <1>7, SeqEqual
<1> QED BY <1>1, <1>3, <1>4, <1>8

\* What is put into the last message stays out of what is joined before.
LEMMA CanonMerge ==
    ASSUME NEW c \in Seq(Messages), NEW b \in Block
    PROVE  Canon(MergeUser(c, b)) = MergeUser(Canon(c), b)
<1>1. CASE EndsWithUser(c)
  <2>1. PICK p, m : p = SubSeq(c, 1, Len(c) - 1) /\ m = c[Len(c)]
    OBVIOUS
  <2>2. p \in Seq(Messages) /\ m \in Messages /\ c = Append(p, m) /\ m.role = "user" /\ Len(p) + 1 = Len(c)
    <3>1. c # <<>>
      BY <1>1 DEF EndsWithUser
    <3>2. p \in Seq(Messages) /\ m \in Messages /\ c = Append(p, m) /\ m.role = "user"
      BY <1>1, <2>1, <3>1, FrontAndLast DEF EndsWithUser, Last
    <3> QED BY <3>2, AppendProperties
  <2>3. PICK x : x = [m EXCEPT !.content = Append(@, b)]
    OBVIOUS
  <2>4. x \in Messages /\ x.role = "user"
    <3>1. Append(m.content, b) \in Seq(Block)
      BY <2>2, AppendProperties DEF Messages
    <3> QED BY <2>2, <2>3, <3>1 DEF Messages
  <2>5. ASSUME NEW q \in Seq(Messages)
        PROVE  MergeUser(Append(q, m), b) = Append(q, x)
    <3>1. x = With(m, b)
      BY <2>3 DEF With
    <3> QED BY <2>2, <3>1, MergeOn
  <2>6. MergeUser(c, b) = Append(p, x)
    BY <2>2, <2>5
  <2>7. Canon(MergeUser(c, b)) = Append(Canon(p), x)
    BY <2>2, <2>4, <2>6, CanonAppend DEF Join
  <2>8. Canon(c) = Append(Canon(p), m)
    BY <2>2, CanonAppend DEF Join
  <2>9. Canon(p) \in Seq(Messages)
    BY <2>2, CanonTyped
  <2> QED BY <2>5, <2>7, <2>8, <2>9
<1>2. CASE ~EndsWithUser(c)
  <2>1. MergeUser(c, b) = Append(c, UserMessage(<<b>>)) /\ MergeUser(Canon(c), b) = Append(Canon(c), UserMessage(<<b>>))
    BY <1>2, CanonEnds DEF MergeUser
  <2>2. UserMessage(<<b>>) \in Messages /\ UserMessage(<<b>>).role = "user"
    BY DEF UserMessage, Messages
  <2>3. Canon(Append(c, UserMessage(<<b>>))) = Join(Canon(c), UserMessage(<<b>>))
    BY <2>2, CanonAppend
  <2> QED BY <2>1, <2>2, <2>3 DEF Join
<1> QED BY <1>1, <1>2

-----------------------------------------------------------------------------
(* Reading a log *)

LEMMA ReadsNone ==
    ASSUME NEW r \in Readings
    PROVE  ReadsInto(r, <<>>, r)
<1>1. PICK h : h = [k \in 0..0 |-> r]
  OBVIOUS
<1>2. Len(<<>>) = 0
  OBVIOUS
<1>3. ReadAlong(h, r, <<>>) /\ h[Len(<<>>)] = r
  BY <1>1, <1>2 DEF ReadAlong
<1> QED BY <1>3 DEF ReadsInto

LEMMA ReadsOne ==
    ASSUME NEW r \in Readings, NEW e, NEW q \in Readings, q = Read(r, e)
    PROVE  ReadsInto(r, <<e>>, q)
<1>1. PICK h : h = [k \in 0..1 |-> IF k = 0 THEN r ELSE q]
  OBVIOUS
<1>2. PICK s : s = <<e>>
  OBVIOUS
<1>3. Len(s) = 1 /\ s[1] = e
  BY <1>2
<1>4. h \in [0..1 -> Readings] /\ h[0] = r /\ h[1] = q
  BY <1>1
<1>5. \A k \in 1..1 : h[k] = Read(h[k - 1], s[k])
  <2>1. \A k \in 1..1 : k = 1 /\ k - 1 = 0
    OBVIOUS
  <2> QED BY <1>3, <1>4, <2>1
<1>6. ReadAlong(h, r, s) /\ h[Len(s)] = q
  BY <1>3, <1>4, <1>5 DEF ReadAlong
<1> QED BY <1>2, <1>6 DEF ReadsInto

LEMMA ReadsOn ==
    ASSUME NEW S, NEW lg \in Seq(S), NEW es \in Seq(S), NEW r, NEW p, NEW q,
           ReadsInto(r, lg, p), ReadsInto(p, es, q)
    PROVE  ReadsInto(r, lg \o es, q)
<1>1. PICK h : ReadAlong(h, r, lg) /\ h[Len(lg)] = p
  BY DEF ReadsInto
<1>2. PICK g : ReadAlong(g, p, es) /\ g[Len(es)] = q
  BY DEF ReadsInto
<1>3. PICK n, m, both : n = Len(lg) /\ m = Len(es) /\ both = lg \o es
  OBVIOUS
<1>4. n \in Nat /\ m \in Nat /\ both \in Seq(S) /\ Len(both) = n + m
      /\ \A i \in 1..(n + m) : both[i] = IF i <= n THEN lg[i] ELSE es[i - n]
  BY <1>3, ConcatIs
<1>5. PICK f : f = [k \in 0..(n + m) |-> IF k <= n THEN h[k] ELSE g[k - n]]
  OBVIOUS
<1>6. f \in [0..(n + m) -> Readings]
  <2>1. ASSUME NEW k \in 0..(n + m), k <= n PROVE h[k] \in Readings
    <3>1. k \in 0..n
      BY <2>1, <1>4
    <3> QED BY <3>1, <1>1, <1>3 DEF ReadAlong
  <2>2. ASSUME NEW k \in 0..(n + m), ~(k <= n) PROVE g[k - n] \in Readings
    <3>1. k - n \in 0..m
      BY <2>2, <1>4
    <3> QED BY <3>1, <1>2, <1>3 DEF ReadAlong
  <2> QED BY <1>5, <2>1, <2>2
<1>7. f[0] = r
  <2>1. 0 \in 0..(n + m) /\ 0 <= n
    BY <1>4
  <2> QED BY <1>1, <1>5, <2>1 DEF ReadAlong
<1>8. f[n + m] = q
  <2>0. n + m \in 0..(n + m)
    BY <1>4
  <2>1. CASE m = 0
    <3>1. n + m = n /\ n <= n
      BY <1>4, <2>1
    <3>2. q = p
      BY <1>2, <1>3, <2>1 DEF ReadAlong
    <3> QED BY <1>1, <1>3, <1>5, <2>0, <3>1, <3>2
  <2>2. CASE m # 0
    <3>1. ~(n + m <= n) /\ (n + m) - n = m
      BY <1>4, <2>2
    <3>2. f[n + m] = g[(n + m) - n]
      BY <1>5, <2>0, <3>1
    <3> QED BY <1>2, <1>3, <3>1, <3>2
  <2> QED BY <2>1, <2>2
<1>9. ASSUME NEW k \in 1..(n + m) PROVE f[k] = Read(f[k - 1], both[k])
  <2>0. k \in 0..(n + m) /\ k - 1 \in 0..(n + m)
    BY <1>4
  <2>1. CASE k <= n
    <3>1. k \in 1..n /\ k - 1 <= n
      BY <2>1, <1>4
    <3>2. f[k] = h[k] /\ f[k - 1] = h[k - 1] /\ both[k] = lg[k]
      BY <1>4, <1>5, <2>0, <2>1, <3>1
    <3> QED BY <1>1, <1>3, <3>1, <3>2 DEF ReadAlong
  <2>2. CASE ~(k <= n)
    <3>0. PICK l : l = k - n
      OBVIOUS
    <3>1. l \in 1..m
      BY <2>2, <1>4, <3>0
    <3>2. f[k] = g[l] /\ both[k] = es[l]
      BY <1>4, <1>5, <2>0, <2>2, <3>0
    <3>3. f[k - 1] = g[l - 1]
      <4>1. CASE k - 1 <= n
        <5>1. k - 1 = n /\ l - 1 = 0
          BY <1>4, <2>2, <3>0, <4>1
        <5>2. f[k - 1] = h[n]
          BY <1>5, <2>0, <4>1, <5>1
        <5> QED BY <1>1, <1>2, <1>3, <5>1, <5>2 DEF ReadAlong
      <4>2. CASE ~(k - 1 <= n)
        BY <1>4, <3>0, <1>5, <2>0, <4>2
      <4> QED BY <4>1, <4>2
    <3> QED BY <1>2, <1>3, <3>1, <3>2, <3>3 DEF ReadAlong
  <2> QED BY <2>1, <2>2
<1>10. ReadAlong(f, r, both) /\ f[Len(both)] = q
  BY <1>4, <1>6, <1>7, <1>8, <1>9 DEF ReadAlong
<1> QED BY <1>3, <1>10 DEF ReadsInto

\* What was read of a log was read of each of its beginnings.
LEMMA ReadsPrefix ==
    ASSUME NEW S, NEW lg \in Seq(S), NEW r, NEW q, ReadsInto(r, lg, q), NEW n \in 0..Len(lg)
    PROVE  \E p \in Readings : ReadsInto(r, SubSeq(lg, 1, n), p)
<1>1. PICK h : ReadAlong(h, r, lg)
  BY DEF ReadsInto
<1>2. PICK s : s = SubSeq(lg, 1, n)
  OBVIOUS
<1>3. Len(s) = n /\ \A i \in 1..n : s[i] = lg[i]
  BY <1>2, PrefixIs
<1>4. PICK f : f = [k \in 0..n |-> h[k]]
  OBVIOUS
<1>5. n \in Nat /\ \A k \in 0..n : k \in 0..Len(lg)
  OBVIOUS
<1>6. f \in [0..n -> Readings] /\ f[0] = r /\ 0 \in 0..n /\ n \in 0..n
  BY <1>1, <1>4, <1>5 DEF ReadAlong
<1>7. ASSUME NEW k \in 1..n PROVE f[k] = Read(f[k - 1], s[k])
  <2>1. k \in 0..n /\ k - 1 \in 0..n /\ k \in 1..Len(lg)
    BY <1>5
  <2> QED BY <1>1, <1>3, <1>4, <2>1 DEF ReadAlong
<1>8. ReadAlong(f, r, s) /\ f[Len(s)] = f[n] /\ f[n] \in Readings
  BY <1>3, <1>6, <1>7 DEF ReadAlong
<1> QED BY <1>2, <1>8 DEF ReadsInto

LEMMA ResumeIs ==
    ASSUME NEW S, NEW lg \in Seq(S), NEW q, ReadsInto(Empty, lg, q)
    PROVE  Resume(lg) = q /\ q \in Readings
<1> DEFINE n == Len(lg)
           Recurs(g) == g = [i \in 0..n |-> IF i = 0 THEN Empty ELSE Read(g[i - 1], lg[i])]
<1>0. PICK u : ReadAlong(u, Empty, lg) /\ u[n] = q
  BY DEF ReadsInto
<1>1. Recurs(u)
  <2>1. \A i \in 0..n : i = 0 \/ i \in 1..n
    OBVIOUS
  <2> QED BY <1>0, <2>1 DEF ReadAlong
<1>2. Resume(lg) = (CHOOSE g : Recurs(g))[n]
  BY DEF Resume
<1>3. PICK g : g = (CHOOSE x : Recurs(x))
  OBVIOUS
<1>4. Recurs(g)
  <2> HIDE DEF Recurs
  <2> QED BY <1>1, <1>3
<1> DEFINE T == {i \in 0..n : g[i] # u[i]}
<1>5. CASE T = {}
  <2>1. n \in 0..n /\ g[n] = u[n]
    BY <1>5
  <2>2. q \in Readings
    BY <1>0, <2>1 DEF ReadAlong
  <2> HIDE DEF Recurs
  <2> QED BY <1>0, <1>2, <1>3, <2>1, <2>2
<1>6. CASE T # {}
  <2>1. T \subseteq Nat
    OBVIOUS
  <2>2. PICK k \in T : \A j \in T : k <= j
    <3> HIDE DEF T
    <3> QED BY <1>6, <2>1, NatMin
  <2>3. k # 0
    BY <1>0, <1>4, <2>2 DEF ReadAlong
  <2>4. k \in 1..n /\ k - 1 \in 0..n /\ ~(k <= k - 1)
    BY <2>2, <2>3
  <2>5. g[k - 1] = u[k - 1]
    BY <2>2, <2>4
  <2>6. g[k] = u[k]
    BY <1>0, <1>4, <2>3, <2>4, <2>5 DEF ReadAlong
  <2> QED BY <2>2, <2>6
<1> QED BY <1>5, <1>6

\* A set of sequences that is closed under Append holds them all.
GrowsIn(G, S) == <<>> \in G /\ \A s \in Seq(S) : \A x \in S : s \in G => Append(s, x) \in G

LEMMA AllSequences ==
    ASSUME NEW S, NEW G, GrowsIn(G, S)
    PROVE  \A s \in Seq(S) : s \in G
<1> SUFFICES ASSUME NEW s \in Seq(S), s \notin G PROVE FALSE
  OBVIOUS
<1> DEFINE T == {n \in 0..Len(s) : SubSeq(s, 1, n) \notin G}
<1>1. Len(s) \in T
  <2>0. Len(s) \in 0..Len(s)
    OBVIOUS
  <2>1. SubSeq(s, 1, Len(s)) = s
    BY PrefixIs, SeqEqual
  <2> QED BY <2>0, <2>1
<1>2. PICK k \in T : \A j \in T : k <= j
  <2>1. T \subseteq Nat /\ T # {}
    BY <1>1
  <2> HIDE DEF T
  <2> QED BY <2>1, NatMin
<1>3. k # 0
  <2>1. SubSeq(s, 1, 0) = <<>>
    OBVIOUS
  <2> QED BY <1>2, <2>1 DEF GrowsIn
<1>4. k - 1 \in 0..Len(s) /\ k \in 1..Len(s) /\ ~(k <= k - 1)
  BY <1>2, <1>3
<1>5. SubSeq(s, 1, k - 1) \in G
  BY <1>2, <1>4
<1>6. SubSeq(s, 1, k) = Append(SubSeq(s, 1, k - 1), s[k])
  BY <1>4
<1>7. SubSeq(s, 1, k - 1) \in Seq(S) /\ s[k] \in S
  BY <1>4, PrefixIs
<1>8. SubSeq(s, 1, k) \in G
  BY <1>5, <1>6, <1>7 DEF GrowsIn
<1> QED BY <1>2, <1>8

-----------------------------------------------------------------------------
(* Reading a reply *)

\* Blocks that an assistant adds to a joined conversation.
Put(c, s) ==
    IF c # <<>> /\ Last(c).role = "assistant" THEN [c EXCEPT ![Len(c)].content = @ \o s]
    ELSE Append(c, AssistantMessage(s))

LEMMA JoinPuts ==
    ASSUME NEW c, NEW m, m.role = "assistant"
    PROVE  Join(c, m) = Put(c, Arranged(m))
  BY DEF Join, Put

LEMMA PutEnds ==
    ASSUME NEW c \in Seq(Messages), NEW s \in Seq(Block)
    PROVE  /\ Put(c, s) \in Seq(Messages)
           /\ Put(c, s) # <<>>
           /\ Last(Put(c, s)).role = "assistant"
<1>1. CASE c # <<>> /\ Last(c).role = "assistant"
  <2>1. PICK n, x : n = Len(c) /\ x = c[n]
    OBVIOUS
  <2>2. n \in Nat \ {0} /\ x \in Messages /\ x.role = "assistant"
    BY <1>1, <2>1, FrontAndLast DEF Last
  <2>3. PICK y : y = [x EXCEPT !.content = @ \o s]
    OBVIOUS
  <2>4. y \in Messages /\ y.role = "assistant"
    <3>1. x.content \o s \in Seq(Block)
      BY <2>2, ConcatProperties DEF Messages
    <3> QED BY <2>2, <2>3, <3>1 DEF Messages
  <2>5. PICK e : e = [c EXCEPT ![n] = y]
    OBVIOUS
  <2>6. Put(c, s) = e
    BY <1>1, <2>1, <2>3, <2>5 DEF Put
  <2>7. n \in 1..Len(c)
    BY <2>1, <2>2
  <2>8. e \in Seq(Messages) /\ Len(e) = n /\ e[n] = y
    BY <2>4, <2>5, <2>7, ExceptSeq, <2>1
  <2>9. e # <<>>
    BY <2>2, <2>8
  <2> QED BY <2>4, <2>6, <2>8, <2>9 DEF Last
<1>2. CASE ~(c # <<>> /\ Last(c).role = "assistant")
  <2>1. PICK x : x = AssistantMessage(s)
    OBVIOUS
  <2>2. x \in Messages /\ x.role = "assistant"
    BY <2>1 DEF AssistantMessage, Messages
  <2>3. Put(c, s) = Append(c, x)
    BY <1>2, <2>1 DEF Put
  <2>4. Append(c, x) \in Seq(Messages) /\ Len(Append(c, x)) = Len(c) + 1 /\ Append(c, x)[Len(c) + 1] = x
        /\ Append(c, x) # <<>>
    BY <2>2
  <2> QED BY <2>2, <2>3, <2>4 DEF Last
<1> QED BY <1>1, <1>2

LEMMA PutTwice ==
    ASSUME NEW c \in Seq(Messages), NEW s \in Seq(Block), NEW t \in Seq(Block)
    PROVE  Put(Put(c, s), t) = Put(c, s \o t)
<1>0. PICK d : d = Put(c, s)
  OBVIOUS
<1>1. d \in Seq(Messages) /\ d # <<>> /\ Last(d).role = "assistant"
  BY <1>0, PutEnds
<1>2. Put(d, t) = [d EXCEPT ![Len(d)].content = @ \o t]
  BY <1>1 DEF Put
<1>3. CASE c # <<>> /\ Last(c).role = "assistant"
  <2>1. PICK n, x : n = Len(c) /\ x = c[n]
    OBVIOUS
  <2>2. n \in Nat \ {0} /\ x \in Messages /\ n \in 1..Len(c)
    BY <1>3, <2>1, FrontAndLast
  <2>3. PICK y, z : y = [x EXCEPT !.content = @ \o s] /\ z = [x EXCEPT !.content = @ \o (s \o t)]
    OBVIOUS
  <2>4. d = [c EXCEPT ![n] = y] /\ Put(c, s \o t) = [c EXCEPT ![n] = z]
    BY <1>0, <1>3, <2>1, <2>3 DEF Put
  <2>5. [y EXCEPT !.content = @ \o t] = z
    <3>1. x.content \in Seq(Block)
      BY <2>2 DEF Messages
    <3>2. (x.content \o s) \o t = x.content \o (s \o t)
      <4>1. PICK w : w = x.content
        OBVIOUS
      <4>2. w \in Seq(Block)
        BY <3>1, <4>1
      <4>3. (w \o s) \o t = w \o (s \o t)
        BY <4>2, ConcatAssociative
      <4> QED BY <4>1, <4>3
    <3>3. [y EXCEPT !.content = @ \o t] = [x EXCEPT !.content = (@ \o s) \o t]
      BY <2>2, <2>3 DEF Messages
    <3> QED BY <2>2, <2>3, <3>2, <3>3
  <2>6. DOMAIN d = DOMAIN c /\ Len(d) = n /\ d[n] = y
    BY <2>1, <2>2, <2>4
  <2>7. [d EXCEPT ![n] = z] = [c EXCEPT ![n] = z]
    BY <2>1, <2>2, <2>4
  <2>8. Put(d, t) = [d EXCEPT ![n] = [y EXCEPT !.content = @ \o t]]
    BY <1>2, <2>6
  <2> QED BY <1>0, <2>4, <2>5, <2>7, <2>8
<1>4. CASE ~(c # <<>> /\ Last(c).role = "assistant")
  <2>1. PICK n, x, z : n = Len(c) + 1 /\ x = AssistantMessage(s) /\ z = AssistantMessage(s \o t)
    OBVIOUS
  <2>2. d = Append(c, x) /\ Put(c, s \o t) = Append(c, z)
    BY <1>0, <1>4, <2>1 DEF Put
  <2>3. x \in Messages /\ z \in Messages /\ [x EXCEPT !.content = @ \o t] = z
    <3>1. PICK w : w = s \o t
      OBVIOUS
    <3>2. w \in Seq(Block)
      BY <3>1, ConcatIs
    <3>3. z = AssistantMessage(w)
      BY <2>1, <3>1
    <3>4. x \in Messages /\ z \in Messages
      BY <2>1, <3>2, <3>3 DEF AssistantMessage, Messages
    <3>5. [x EXCEPT !.content = @ \o t] = z
      <4>1. x = [role |-> "assistant", content |-> s]
        BY <2>1 DEF AssistantMessage
      <4>2. x.content \o t = w
        BY <3>1, <4>1
      <4>3. [x EXCEPT !.content = w] = z
        BY <3>3, <4>1 DEF AssistantMessage
      <4>4. [x EXCEPT !.content = @ \o t] = [x EXCEPT !.content = x.content \o t]
        BY <4>1
      <4> QED BY <4>2, <4>3, <4>4
    <3> QED BY <3>4, <3>5
  <2>4. Len(d) = n /\ d[n] = x /\ n \in Nat /\ n \in 1..Len(d)
    BY <2>1, <2>2, <2>3, AppendProperties
  <2>5. Put(d, t) = [d EXCEPT ![n] = z]
    BY <1>2, <2>3, <2>4
  <2>6. [d EXCEPT ![n] = z] = Append(c, z)
    <3>1. PICK e, f : e = [d EXCEPT ![n] = z] /\ f = Append(c, z)
      OBVIOUS
    <3>2. e \in Seq(Messages) /\ Len(e) = n /\ \A i \in 1..n : e[i] = IF i = n THEN z ELSE d[i]
      BY <1>1, <2>3, <2>4, <3>1, ExceptSeq
    <3>3. f \in Seq(Messages) /\ Len(f) = n /\ \A i \in 1..n : f[i] = IF i = n THEN z ELSE c[i]
      BY <2>1, <2>3, <3>1, AppendProperties
    <3>4. \A i \in 1..n : i # n => d[i] = c[i]
      BY <2>1, <2>2, <2>3, AppendProperties
    <3>5. \A i \in 1..n : e[i] = f[i]
      BY <3>2, <3>3, <3>4
    <3>6. Len(e) = Len(f) /\ \A i \in 1..Len(e) : e[i] = f[i]
      BY <3>2, <3>3, <3>5
    <3>7. e = f
      BY <3>2, <3>3, <3>6, SeqEqual
    <3> QED BY <3>1, <3>7
  <2> QED BY <1>0, <2>2, <2>5, <2>6
<1> QED BY <1>3, <1>4

\* The events of a reply's thinking.
Thoughts(ts) == [i \in DOMAIN ts |-> Event("assistant.thinking", << ts[i] >>)]
Thinking == {b \in Block : b.kind = "thinking"}

LEMMA ThinkingBlocks ==
    ASSUME NEW m, m.content \in Seq(Block)
    PROVE  Blocks(m, "thinking") \in Seq(Thinking)
<1>1. PICK x, W : x = Blocks(m, "thinking") /\ W = OfKind(m.content, "thinking")
  OBVIOUS
<1>2. W \subseteq Thinking
  <2>1. \A i \in 1..Len(m.content) : m.content[i] \in Block
    OBVIOUS
  <2> QED BY <1>1, <2>1 DEF OfKind, Thinking
<1>3. x \in Seq(W)
  BY <1>1, BlocksTyped
<1>4. x \in Seq(Thinking)
  BY <1>2, <1>3
<1> QED BY <1>1, <1>4

LEMMA EventTyped ==
    ASSUME NEW type \in {"user.message", "assistant.thinking", "assistant.message", "tool.completed"},
           NEW bs \in Seq(Block), bs # <<>>
    PROVE  Event(type, bs) \in LogEvents
  BY DEF Event, LogEvents

LEMMA ThoughtsAre ==
    ASSUME NEW ts \in Seq(Thinking)
    PROVE  /\ Thoughts(ts) \in Seq(LogEvents) /\ Len(Thoughts(ts)) = Len(ts)
           /\ \A i \in 1..Len(ts) : Thoughts(ts)[i] = Event("assistant.thinking", << ts[i] >>)
<1>1. ASSUME NEW i \in 1..Len(ts) PROVE Event("assistant.thinking", << ts[i] >>) \in LogEvents
  <2>1. << ts[i] >> \in Seq(Block) /\ << ts[i] >> # <<>>
    <3>1. ts[i] \in Block
      BY DEF Thinking
    <3> QED BY <3>1
  <2> QED BY <2>1, EventTyped
<1>2. DOMAIN ts = 1..Len(ts) /\ Len(ts) \in Nat
  OBVIOUS
<1>3. PICK f : f = Thoughts(ts)
  OBVIOUS
<1>4. f \in [1..Len(ts) -> LogEvents]
  BY <1>1, <1>2, <1>3 DEF Thoughts
<1>5. f \in Seq(LogEvents) /\ Len(f) = Len(ts)
  BY <1>2, <1>4
<1> QED BY <1>2, <1>3, <1>5 DEF Thoughts

LEMMA ThoughtsAppend ==
    ASSUME NEW ts \in Seq(Thinking), NEW t \in Thinking
    PROVE  Thoughts(Append(ts, t)) = Thoughts(ts) \o << Event("assistant.thinking", << t >>) >>
<1>1. PICK a, b, e : a = Thoughts(Append(ts, t)) /\ b = Thoughts(ts) /\ e = Event("assistant.thinking", << t >>)
  OBVIOUS
<1>0. PICK us, n : us = Append(ts, t) /\ n = Len(ts)
  OBVIOUS
<1>2. us \in Seq(Thinking) /\ n \in Nat /\ Len(us) = n + 1 /\ us[n + 1] = t /\ \A i \in 1..n : us[i] = ts[i]
  BY <1>0, AppendProperties
<1>3. a \in Seq(LogEvents) /\ Len(a) = n + 1 /\ \A i \in 1..(n + 1) : a[i] = Event("assistant.thinking", << us[i] >>)
  BY <1>0, <1>1, <1>2, ThoughtsAre
<1>4. b \in Seq(LogEvents) /\ Len(b) = n /\ \A i \in 1..n : b[i] = Event("assistant.thinking", << ts[i] >>)
  BY <1>0, <1>1, ThoughtsAre
<1>5. e \in LogEvents
  BY <1>2, <1>1, <1>3
<1>6. PICK d, u : u = << e >> /\ d = b \o u
  OBVIOUS
<1>7. d \in Seq(LogEvents) /\ Len(d) = n + 1 /\ \A i \in 1..(n + 1) : d[i] = IF i <= n THEN b[i] ELSE u[i - n]
  <2>1. u \in Seq(LogEvents) /\ Len(u) = 1
    BY <1>5, <1>6
  <2> QED BY <1>4, <1>6, <2>1, ConcatIs
<1>8. ASSUME NEW i \in 1..(n + 1) PROVE a[i] = d[i]
  <2>1. CASE i <= n
    <3>1. i \in 1..n
      BY <1>2, <2>1
    <3> QED BY <1>2, <1>3, <1>4, <1>7, <2>1, <3>1
  <2>2. CASE ~(i <= n)
    <3>1. i = n + 1 /\ i - n = 1
      BY <1>2, <2>2
    <3>2. d[i] = e
      BY <1>6, <1>7, <2>2, <3>1
    <3> QED BY <1>1, <1>2, <1>3, <3>1, <3>2
  <2> QED BY <2>1, <2>2
<1>9. a = d
  BY <1>3, <1>7, <1>8, SeqEqual
<1> QED BY <1>1, <1>6, <1>9

ThoughtsInto(r, ts, q) ==
    /\ ReadsInto(r, Thoughts(ts), q)
    /\ q \in Readings
    /\ q.pending = r.pending
    /\ Len(q.conv) = Len(r.conv) + Len(ts)
    /\ IF ts = <<>> THEN q = r
       ELSE Canon(q.conv) = Put(Canon(r.conv), ts) /\ ~EndsWithUser(q.conv)

LEMMA ThoughtRead ==
    ASSUME NEW q \in Readings, NEW t \in Thinking, NEW p,
           p = [q EXCEPT !.conv = Append(@, AssistantMessage(<< t >>))]
    PROVE  /\ p \in Readings
           /\ p = Read(q, Event("assistant.thinking", << t >>))
           /\ p.pending = q.pending
           /\ Len(p.conv) = Len(q.conv) + 1
           /\ Canon(p.conv) = Put(Canon(q.conv), << t >>)
           /\ ~EndsWithUser(p.conv)
<1>1. PICK c, am, s : c = q.conv /\ am = AssistantMessage(<< t >>) /\ s = << t >>
  OBVIOUS
<1>2. c \in Seq(Messages) /\ q.pending \in SUBSET Block /\ q.ok = TRUE /\ s \in Seq(Block)
  <2>1. t \in Block
    BY DEF Thinking
  <2>2. s \in Seq(Block)
    BY <1>1, <2>1
  <2>3. c \in Seq(Messages) /\ q.pending \in SUBSET Block /\ q.ok = TRUE
    BY <1>1 DEF Readings
  <2> QED BY <2>2, <2>3
<1>3. am \in Messages /\ am.role = "assistant" /\ Arranged(am) = s
  <2>1. t \in Block /\ t.kind = "thinking"
    BY DEF Thinking
  <2>2. am = [role |-> "assistant", content |-> s]
    BY <1>1 DEF AssistantMessage
  <2>3. Arranged(am) = s
    BY <1>1, <2>1, ThoughtArranged
  <2> QED BY <1>2, <2>2, <2>3 DEF Messages
<1>4. PICK d : d = Append(c, am)
  OBVIOUS
<1>5. d \in Seq(Messages) /\ d # <<>> /\ Len(d) = Len(c) + 1 /\ d[Len(d)] = am
  BY <1>2, <1>3, <1>4, AppendProperties
<1>6. p = [q EXCEPT !.conv = d]
  BY <1>1, <1>4
<1>7. p \in Readings /\ p.conv = d /\ p.pending = q.pending
  BY <1>5, <1>6 DEF Readings
<1>8. p = Read(q, Event("assistant.thinking", << t >>))
  BY <1>2 DEF Read, Event
<1>9. Canon(d) = Put(Canon(c), s)
  <2>1. Canon(d) = Join(Canon(c), am)
    BY <1>2, <1>3, <1>4, CanonAppend
  <2> QED BY <1>3, <2>1, JoinPuts
<1>10. ~EndsWithUser(d)
  BY <1>3, <1>5 DEF EndsWithUser, Last
<1> QED BY <1>1, <1>5, <1>7, <1>8, <1>9, <1>10

LEMMA ThoughtsRead ==
    ASSUME NEW r \in Readings, NEW ts \in Seq(Thinking)
    PROVE  \E q : ThoughtsInto(r, ts, q)
<1> DEFINE G == {us \in Seq(Thinking) : \E q : ThoughtsInto(r, us, q)}
<1>1. <<>> \in G
  <2>1. Thoughts(<<>>) = <<>>
    BY ThoughtsAre, EmptySeq
  <2>2. ReadsInto(r, Thoughts(<<>>), r)
    BY <2>1, ReadsNone
  <2>3. Len(r.conv) + Len(<<>>) = Len(r.conv)
    BY DEF Readings
  <2>4. ThoughtsInto(r, <<>>, r)
    BY <2>2, <2>3 DEF ThoughtsInto
  <2> QED BY <2>4
<1>2. ASSUME NEW us \in Seq(Thinking), NEW t \in Thinking, us \in G PROVE Append(us, t) \in G
  <2>1. PICK q : ThoughtsInto(r, us, q)
    BY <1>2
  <2>2. PICK p : p = [q EXCEPT !.conv = Append(@, AssistantMessage(<< t >>))]
    OBVIOUS
  <2>3. q \in Readings /\ ReadsInto(r, Thoughts(us), q) /\ q.pending = r.pending /\ Len(q.conv) = Len(r.conv) + Len(us)
    BY <2>1 DEF ThoughtsInto
  <2>4. PICK e, vs : e = Event("assistant.thinking", << t >>) /\ vs = Append(us, t)
    OBVIOUS
  <2>5. /\ p \in Readings /\ p = Read(q, e) /\ p.pending = q.pending /\ Len(p.conv) = Len(q.conv) + 1
        /\ Canon(p.conv) = Put(Canon(q.conv), << t >>) /\ ~EndsWithUser(p.conv)
    BY <2>2, <2>3, <2>4, ThoughtRead
  <2>6. ReadsInto(r, Thoughts(vs), p)
    <3>1. ReadsInto(q, << e >>, p)
      BY <2>3, <2>5, ReadsOne
    <3>2. PICK u : u = << e >>
      OBVIOUS
    <3>3. u \in Seq(LogEvents)
      <4>1. << t >> \in Seq(Block) /\ << t >> # <<>>
        <5>1. t \in Block
          BY DEF Thinking
        <5> QED BY <5>1
      <4>2. e \in LogEvents
        BY <2>4, <4>1, EventTyped
      <4> QED BY <3>2, <4>2
    <3>4. Thoughts(us) \in Seq(LogEvents)
      BY ThoughtsAre
    <3>5. Thoughts(vs) = Thoughts(us) \o u
      BY <2>4, <3>2, ThoughtsAppend
    <3> QED BY <2>3, <3>1, <3>2, <3>3, <3>4, <3>5, ReadsOn
  <2>7. Len(vs) = Len(us) + 1 /\ vs \in Seq(Thinking) /\ vs # <<>>
    BY <2>4, AppendProperties
  <2>8. Len(p.conv) = Len(r.conv) + Len(vs)
    BY <2>3, <2>5, <2>7 DEF Readings
  <2>9. Canon(p.conv) = Put(Canon(r.conv), vs)
    <3>1. CASE us = <<>>
      <4>1. q = r
        BY <2>1, <3>1 DEF ThoughtsInto
      <4>2. vs = << t >>
        BY <2>4, <3>1
      <4> QED BY <2>5, <4>1, <4>2
    <3>2. CASE us # <<>>
      <4>1. Canon(q.conv) = Put(Canon(r.conv), us)
        BY <2>1, <3>2 DEF ThoughtsInto
      <4>2. PICK k, u : k = Canon(r.conv) /\ u = << t >>
        OBVIOUS
      <4>3. k \in Seq(Messages) /\ us \in Seq(Block) /\ u \in Seq(Block)
        BY <4>2, CanonTyped DEF Readings, Thinking
      <4>4. Put(Put(k, us), u) = Put(k, us \o u)
        BY <4>3, PutTwice
      <4>5. us \o u = vs
        BY <2>4, <4>2
      <4> QED BY <2>5, <4>1, <4>2, <4>4, <4>5
    <3> QED BY <3>1, <3>2
  <2>10. ThoughtsInto(r, vs, p)
    BY <2>3, <2>5, <2>6, <2>7, <2>8, <2>9 DEF ThoughtsInto
  <2> QED BY <2>4, <2>7, <2>10
<1>3. GrowsIn(G, Thinking)
  <2> HIDE DEF G
  <2> QED BY <1>1, <1>2 DEF GrowsIn
<1>4. ts \in G
  <2> HIDE DEF G
  <2> QED BY <1>3, AllSequences
<1> QED BY <1>4

\* A reply as Resume makes it of its events.
ReplyInto(r, m, q) ==
    /\ ReadsInto(r, EncodeAppend(m), q)
    /\ q \in Readings
    /\ Canon(q.conv) = Join(Canon(r.conv), m)
    /\ ~EndsWithUser(q.conv)
    /\ Len(r.conv) < Len(q.conv)
    /\ Rest(m) # <<>> => q.pending = {ToolResult(c) : c \in Calls(Rest(m))}
    /\ Blocks(m, "thinking") = <<>> => q.conv = Append(r.conv, AssistantMessage(Rest(m)))

\* The event for the text and the calls of a reply.
LEMMA RestRead ==
    ASSUME NEW q \in Readings, NEW s \in Seq(Block), s # <<>>, Arranged(AssistantMessage(s)) = s,
           NEW p, p = ReadMessage(q, Event("assistant.message", s))
    PROVE  /\ p \in Readings
           /\ p = Read(q, Event("assistant.message", s))
           /\ p.pending = {ToolResult(c) : c \in Calls(s)}
           /\ p.conv = Append(q.conv, AssistantMessage(s))
           /\ Len(p.conv) = Len(q.conv) + 1
           /\ Canon(p.conv) = Put(Canon(q.conv), s)
           /\ ~EndsWithUser(p.conv)
<1>1. PICK c, am : c = q.conv /\ am = AssistantMessage(s)
  OBVIOUS
<1>2. c \in Seq(Messages) /\ q.pending \in SUBSET Block /\ q.ok = TRUE
  BY <1>1 DEF Readings
<1>3. am \in Messages /\ am.role = "assistant" /\ Arranged(am) = s
  <2>1. am = [role |-> "assistant", content |-> s]
    BY <1>1 DEF AssistantMessage
  <2> QED BY <1>1, <2>1 DEF Messages
<1>4. PICK d, w : d = Append(c, am) /\ w = {ToolResult(x) : x \in Calls(s)}
  OBVIOUS
<1>5. d \in Seq(Messages) /\ d # <<>> /\ Len(d) = Len(c) + 1 /\ d[Len(d)] = am
  BY <1>2, <1>3, <1>4, AppendProperties
<1>6. w \in SUBSET Block
  <2>1. ASSUME NEW x \in Calls(s) PROVE ToolResult(x) \in Block
    <3>1. x \in Block
      BY DEF Calls, ToSet
    <3> QED BY <3>1 DEF ToolResult, Block
  <2> QED BY <1>4, <2>1
<1>7. p = [[q EXCEPT !.conv = d] EXCEPT !.pending = w]
  <2>1. Event("assistant.message", s).blocks = s
    BY DEF Event
  <2> QED BY <1>1, <1>4, <2>1 DEF ReadMessage
<1>8. p \in Readings /\ p.conv = d /\ p.pending = w
  BY <1>5, <1>6, <1>7 DEF Readings
<1>9. p = Read(q, Event("assistant.message", s))
  BY <1>2 DEF Event, Read
<1>10. Canon(d) = Put(Canon(c), s)
  <2>1. Canon(d) = Join(Canon(c), am)
    BY <1>2, <1>3, <1>4, CanonAppend
  <2> QED BY <1>3, <2>1, JoinPuts
<1>11. ~EndsWithUser(d)
  BY <1>3, <1>5 DEF EndsWithUser, Last
<1> QED BY <1>1, <1>4, <1>5, <1>8, <1>9, <1>10, <1>11

LEMMA ReplyRead ==
    ASSUME NEW r \in Readings, NEW m \in Messages, m.role = "assistant", Arranged(m) # <<>>
    PROVE  /\ EncodeAppend(m) \in Seq(LogEvents)
           /\ \E q : ReplyInto(r, m, q)
<1>0. PICK ts, s, k : ts = Blocks(m, "thinking") /\ s = Rest(m) /\ k = Canon(r.conv)
  OBVIOUS
<1>1. m.content \in Seq(Block)
  BY DEF Messages
<1>2. ts \in Seq(Thinking) /\ ts \in Seq(Block)
  BY <1>0, <1>1, ThinkingBlocks, BlocksBlock
<1>3. s \in Seq(Block) /\ Arranged(m) = ts \o s /\ Arranged(AssistantMessage(s)) = s
  BY <1>0, <1>1, RestIs
<1>4. k \in Seq(Messages) /\ r.conv \in Seq(Messages)
  BY <1>0, CanonTyped DEF Readings
<1>5. Join(k, m) = Put(k, ts \o s)
  BY <1>3, JoinPuts
<1>6. PICK q : ThoughtsInto(r, ts, q)
  BY <1>2, ThoughtsRead
<1>7. q \in Readings /\ ReadsInto(r, Thoughts(ts), q) /\ q.pending = r.pending /\ Len(q.conv) = Len(r.conv) + Len(ts)
      /\ q.conv \in Seq(Messages)
  BY <1>6 DEF ThoughtsInto, Readings
<1>8. EncodeAppend(m) = Thoughts(ts) \o (IF s = <<>> THEN <<>> ELSE << Event("assistant.message", s) >>)
  BY <1>0 DEF EncodeAppend, EncodeAssistantAppend, Thoughts, Rest
<1>9. Thoughts(ts) \in Seq(LogEvents)
  BY <1>2, ThoughtsAre
<1>10. CASE s = <<>>
  <2>1. ts \o s = ts /\ Thoughts(ts) \o <<>> = Thoughts(ts)
    BY <1>2, <1>9, <1>10, ConcatEmptySeq
  <2>2. EncodeAppend(m) = Thoughts(ts)
    BY <1>8, <1>10, <2>1
  <2>3. ts # <<>>
    BY <1>3, <2>1
  <2>4. Canon(q.conv) = Put(k, ts) /\ ~EndsWithUser(q.conv)
    BY <1>0, <1>6, <2>3 DEF ThoughtsInto
  <2>5. Len(r.conv) < Len(q.conv)
    <3>1. Len(ts) \in Nat \ {0} /\ Len(r.conv) \in Nat
      BY <1>2, <1>4, <2>3, EmptySeq
    <3> QED BY <1>7, <3>1
  <2>6. ReplyInto(r, m, q)
    BY <1>0, <1>5, <1>7, <1>10, <2>1, <2>2, <2>3, <2>4, <2>5 DEF ReplyInto
  <2> QED BY <1>9, <2>2, <2>6
<1>11. CASE s # <<>>
  <2>1. PICK e, u : e = Event("assistant.message", s) /\ u = << e >>
    OBVIOUS
  <2>2. e \in LogEvents /\ u \in Seq(LogEvents)
    <3>1. e \in LogEvents
      BY <1>3, <1>11, <2>1, EventTyped
    <3> QED BY <2>1, <3>1
  <2>3. EncodeAppend(m) = Thoughts(ts) \o u /\ Thoughts(ts) \o u \in Seq(LogEvents)
    <3>1. EncodeAppend(m) = Thoughts(ts) \o u
      BY <1>8, <1>11, <2>1
    <3> QED BY <1>9, <2>2, <3>1, ConcatIs
  <2>4. PICK p : p = ReadMessage(q, e)
    OBVIOUS
  <2>5. /\ p \in Readings /\ p = Read(q, e) /\ p.pending = {ToolResult(c) : c \in Calls(s)}
        /\ p.conv = Append(q.conv, AssistantMessage(s)) /\ Len(p.conv) = Len(q.conv) + 1
        /\ Canon(p.conv) = Put(Canon(q.conv), s) /\ ~EndsWithUser(p.conv)
    BY <1>3, <1>7, <1>11, <2>1, <2>4, RestRead
  <2>6. ReadsInto(r, EncodeAppend(m), p)
    <3>1. ReadsInto(q, u, p)
      BY <1>7, <2>1, <2>5, ReadsOne
    <3> QED BY <1>7, <1>9, <2>2, <2>3, <3>1, ReadsOn
  <2>7. Len(r.conv) < Len(p.conv)
    <3>1. Len(ts) \in Nat /\ Len(r.conv) \in Nat
      BY <1>2, <1>4
    <3> QED BY <1>7, <2>5, <3>1
  <2>8. Canon(p.conv) = Put(k, ts \o s)
    <3>1. CASE ts = <<>>
      <4>1. q = r
        BY <1>6, <3>1 DEF ThoughtsInto
      <4>2. ts \o s = s
        BY <1>3, <3>1, ConcatEmptySeq
      <4> QED BY <1>0, <2>5, <4>1, <4>2
    <3>2. CASE ts # <<>>
      <4>1. Canon(q.conv) = Put(k, ts)
        BY <1>0, <1>6, <3>2 DEF ThoughtsInto
      <4>2. Put(Put(k, ts), s) = Put(k, ts \o s)
        BY <1>2, <1>3, <1>4, PutTwice
      <4> QED BY <2>5, <4>1, <4>2
    <3> QED BY <3>1, <3>2
  <2>9. ts = <<>> => p.conv = Append(r.conv, AssistantMessage(s))
    <3>1. ts = <<>> => q = r
      BY <1>6 DEF ThoughtsInto
    <3> QED BY <2>5, <3>1
  <2>10. ReplyInto(r, m, p)
    BY <1>0, <1>5, <2>5, <2>6, <2>7, <2>8, <2>9 DEF ReplyInto
  <2> QED BY <2>3, <2>10
<1> QED BY <1>10, <1>11

-----------------------------------------------------------------------------
(* Reading a text of the user and the results of a round *)

LEMMA TextRead ==
    ASSUME NEW r \in Readings, NEW b \in Block, NEW p, p = [r EXCEPT !.conv = MergeUser(@, b)]
    PROVE  /\ p \in Readings /\ p.conv = MergeUser(r.conv, b)
           /\ ReadsInto(r, << Event("user.message", << b >>) >>, p)
<1>1. PICK c : c = MergeUser(r.conv, b)
  OBVIOUS
<1>2. r.conv \in Seq(Messages) /\ r.ok = TRUE
  BY DEF Readings
<1>3. c \in Seq(Messages)
  BY <1>1, <1>2, MergeTyped
<1>4. p \in Readings /\ p.conv = c
  BY <1>1, <1>3 DEF Readings
<1>5. PICK e : e = Event("user.message", << b >>)
  OBVIOUS
<1>6. e.type = "user.message" /\ e.blocks[1] = b
  BY <1>5 DEF Event
<1>7. p = Read(r, e)
  BY <1>2, <1>6 DEF Read
<1> QED BY <1>1, <1>4, <1>5, <1>7, ReadsOne

ResultBlocks == {b \in Block : b.kind = "result"}
Answers(rs) == [i \in DOMAIN rs |-> Event("tool.completed", << rs[i] >>)]

LEMMA AnswersAre ==
    ASSUME NEW rs \in Seq(ResultBlocks)
    PROVE  /\ Answers(rs) \in Seq(LogEvents) /\ Len(Answers(rs)) = Len(rs)
           /\ \A i \in 1..Len(rs) : Answers(rs)[i] = Event("tool.completed", << rs[i] >>)
<1>1. ASSUME NEW i \in 1..Len(rs) PROVE Event("tool.completed", << rs[i] >>) \in LogEvents
  <2>1. << rs[i] >> \in Seq(Block) /\ << rs[i] >> # <<>>
    <3>1. rs[i] \in Block
      BY DEF ResultBlocks
    <3> QED BY <3>1
  <2> QED BY <2>1, EventTyped
<1>2. DOMAIN rs = 1..Len(rs) /\ Len(rs) \in Nat
  OBVIOUS
<1>3. PICK f : f = Answers(rs)
  OBVIOUS
<1>4. f \in [1..Len(rs) -> LogEvents]
  BY <1>1, <1>2, <1>3 DEF Answers
<1>5. f \in Seq(LogEvents) /\ Len(f) = Len(rs)
  BY <1>2, <1>4
<1> QED BY <1>2, <1>3, <1>5 DEF Answers

LEMMA AnswersAppend ==
    ASSUME NEW rs \in Seq(ResultBlocks), NEW t \in ResultBlocks
    PROVE  Answers(Append(rs, t)) = Answers(rs) \o << Event("tool.completed", << t >>) >>
<1>1. PICK a, b, e : a = Answers(Append(rs, t)) /\ b = Answers(rs) /\ e = Event("tool.completed", << t >>)
  OBVIOUS
<1>0. PICK us, n : us = Append(rs, t) /\ n = Len(rs)
  OBVIOUS
<1>2. us \in Seq(ResultBlocks) /\ n \in Nat /\ Len(us) = n + 1 /\ us[n + 1] = t /\ \A i \in 1..n : us[i] = rs[i]
  BY <1>0, AppendProperties
<1>3. a \in Seq(LogEvents) /\ Len(a) = n + 1 /\ \A i \in 1..(n + 1) : a[i] = Event("tool.completed", << us[i] >>)
  BY <1>0, <1>1, <1>2, AnswersAre
<1>4. b \in Seq(LogEvents) /\ Len(b) = n /\ \A i \in 1..n : b[i] = Event("tool.completed", << rs[i] >>)
  BY <1>0, <1>1, AnswersAre
<1>5. e \in LogEvents
  BY <1>2, <1>1, <1>3
<1>6. PICK d, u : u = << e >> /\ d = b \o u
  OBVIOUS
<1>7. d \in Seq(LogEvents) /\ Len(d) = n + 1 /\ \A i \in 1..(n + 1) : d[i] = IF i <= n THEN b[i] ELSE u[i - n]
  <2>1. u \in Seq(LogEvents) /\ Len(u) = 1
    BY <1>5, <1>6
  <2> QED BY <1>4, <1>6, <2>1, ConcatIs
<1>8. ASSUME NEW i \in 1..(n + 1) PROVE a[i] = d[i]
  <2>1. CASE i <= n
    <3>1. i \in 1..n
      BY <1>2, <2>1
    <3> QED BY <1>2, <1>3, <1>4, <1>7, <2>1, <3>1
  <2>2. CASE ~(i <= n)
    <3>1. i = n + 1 /\ i - n = 1
      BY <1>2, <2>2
    <3>2. d[i] = e
      BY <1>6, <1>7, <2>2, <3>1
    <3> QED BY <1>1, <1>2, <1>3, <3>1, <3>2
  <2> QED BY <2>1, <2>2
<1>9. a = d
  BY <1>3, <1>7, <1>8, SeqEqual
<1> QED BY <1>1, <1>6, <1>9

Elements(s) == {s[i] : i \in 1..Len(s)}
Differ(s) == \A i, j \in 1..Len(s) : s[i] = s[j] => i = j

LEMMA DifferAppend ==
    ASSUME NEW S, NEW s \in Seq(S), NEW x \in S, Differ(Append(s, x))
    PROVE  /\ Differ(s) /\ x \notin Elements(s)
           /\ Elements(Append(s, x)) = Elements(s) \cup {x}
<1>1. PICK u, n : u = Append(s, x) /\ n = Len(s)
  OBVIOUS
<1>2. n \in Nat /\ Len(u) = n + 1 /\ u[n + 1] = x /\ \A i \in 1..n : u[i] = s[i]
  BY <1>1, AppendProperties
<1>3. \A i \in 1..n : i \in 1..(n + 1) /\ i # n + 1
  BY <1>2
<1>4. n + 1 \in 1..(n + 1) /\ \A i \in 1..(n + 1) : i = n + 1 \/ i \in 1..n
  BY <1>2
<1>5. \A i, j \in 1..(n + 1) : u[i] = u[j] => i = j
  BY <1>1, <1>2 DEF Differ
<1>6. Differ(s)
  BY <1>1, <1>2, <1>3, <1>5 DEF Differ
<1>7. x \notin Elements(s)
  <2>1. ASSUME NEW i \in 1..n, s[i] = x PROVE FALSE
    BY <1>2, <1>3, <1>4, <1>5, <2>1
  <2> QED BY <1>1, <2>1 DEF Elements
<1>8. Elements(u) = Elements(s) \cup {x}
  BY <1>1, <1>2, <1>3, <1>4 DEF Elements
<1> QED BY <1>1, <1>6, <1>7, <1>8

\* The round is answered: the results, in one message, are what the reading waited for.
AnswersInto(r, rs, q) ==
    /\ ReadsInto(r, Answers(rs), q)
    /\ q \in Readings
    /\ q.pending = r.pending \ Elements(rs)
    /\ q.conv = IF rs = <<>> THEN r.conv ELSE Append(r.conv, UserMessage(rs))

LEMMA AnswerRead ==
    ASSUME NEW r \in Readings, NEW t \in ResultBlocks, t \in r.pending, NEW p,
           p = [r EXCEPT !.conv = MergeUser(@, t), !.pending = @ \ {t}]
    PROVE  /\ p \in Readings /\ p.conv = MergeUser(r.conv, t) /\ p.pending = r.pending \ {t}
           /\ p = Read(r, Event("tool.completed", << t >>))
<1>1. PICK c, w : c = MergeUser(r.conv, t) /\ w = r.pending \ {t}
  OBVIOUS
<1>2. r.conv \in Seq(Messages) /\ r.ok = TRUE /\ r.pending \in SUBSET Block /\ t \in Block
  BY DEF Readings, ResultBlocks
<1>3. c \in Seq(Messages) /\ w \in SUBSET Block
  BY <1>1, <1>2, MergeTyped
<1>4. p = [[r EXCEPT !.conv = c] EXCEPT !.pending = w]
  BY <1>1
<1>5. p \in Readings /\ p.conv = c /\ p.pending = w
  BY <1>3, <1>4 DEF Readings
<1>6. PICK e : e = Event("tool.completed", << t >>)
  OBVIOUS
<1>7. e.type = "tool.completed" /\ e.blocks[1] = t
  BY <1>6 DEF Event
<1>8. ReadCompleted(r, e) = p
  BY <1>7 DEF ReadCompleted
<1>9. p = Read(r, e)
  BY <1>2, <1>7, <1>8 DEF Read
<1> QED BY <1>1, <1>5, <1>6, <1>9

LEMMA AnswersRead ==
    ASSUME NEW r \in Readings, ~EndsWithUser(r.conv),
           NEW rs \in Seq(ResultBlocks), Differ(rs), Elements(rs) \subseteq r.pending
    PROVE  \E q : AnswersInto(r, rs, q)
<1> DEFINE G == {us \in Seq(ResultBlocks) :
                   (Differ(us) /\ Elements(us) \subseteq r.pending) => \E q : AnswersInto(r, us, q)}
<1>1. <<>> \in G
  <2>1. Answers(<<>>) = <<>>
    BY AnswersAre, EmptySeq
  <2>2. ReadsInto(r, Answers(<<>>), r)
    BY <2>1, ReadsNone
  <2>3. Elements(<<>>) = {}
    BY DEF Elements
  <2>4. AnswersInto(r, <<>>, r)
    BY <2>2, <2>3 DEF AnswersInto
  <2> QED BY <2>4
<1>2. ASSUME NEW us \in Seq(ResultBlocks), NEW t \in ResultBlocks, us \in G PROVE Append(us, t) \in G
  <2>0. PICK e, vs, u : e = Event("tool.completed", << t >>) /\ vs = Append(us, t) /\ u = << e >>
    OBVIOUS
  <2>1. vs \in Seq(ResultBlocks) /\ vs # <<>>
    BY <2>0, AppendProperties
  <2> SUFFICES ASSUME Differ(vs), Elements(vs) \subseteq r.pending PROVE \E p : AnswersInto(r, vs, p)
    BY <2>0, <2>1
  <2>2. Differ(us) /\ t \notin Elements(us) /\ Elements(vs) = Elements(us) \cup {t}
    BY <2>0, DifferAppend
  <2>3. PICK q : AnswersInto(r, us, q)
    BY <1>2, <2>2
  <2>4. ReadsInto(r, Answers(us), q) /\ q \in Readings /\ q.pending = r.pending \ Elements(us)
    BY <2>3 DEF AnswersInto
  <2>5. t \in q.pending
    BY <2>2, <2>4
  <2>6. PICK p : p = [q EXCEPT !.conv = MergeUser(@, t), !.pending = @ \ {t}]
    OBVIOUS
  <2>7. p \in Readings /\ p.conv = MergeUser(q.conv, t) /\ p.pending = q.pending \ {t} /\ p = Read(q, e)
    BY <2>0, <2>4, <2>5, <2>6, AnswerRead
  <2>8. ReadsInto(r, Answers(vs), p)
    <3>1. ReadsInto(q, u, p)
      BY <2>0, <2>4, <2>7, ReadsOne
    <3>2. u \in Seq(LogEvents)
      <4>1. << t >> \in Seq(Block) /\ << t >> # <<>>
        <5>1. t \in Block
          BY DEF ResultBlocks
        <5> QED BY <5>1
      <4>2. e \in LogEvents
        BY <2>0, <4>1, EventTyped
      <4> QED BY <2>0, <4>2
    <3>3. Answers(us) \in Seq(LogEvents)
      BY AnswersAre
    <3>4. Answers(vs) = Answers(us) \o u
      BY <2>0, AnswersAppend
    <3> QED BY <2>4, <3>1, <3>2, <3>3, <3>4, ReadsOn
  <2>9. p.conv = Append(r.conv, UserMessage(vs))
    <3>0. t \in Block /\ us \in Seq(Block) /\ r.conv \in Seq(Messages)
      <4>1. ResultBlocks \subseteq Block
        BY DEF ResultBlocks
      <4> QED BY <4>1 DEF Readings
    <3>1. CASE us = <<>>
      <4>1. q.conv = r.conv
        BY <2>3, <3>1 DEF AnswersInto
      <4>2. vs = << t >>
        BY <2>0, <3>1
      <4> QED BY <2>7, <4>1, <4>2 DEF MergeUser
    <3>2. CASE us # <<>>
      <4>1. PICK m, x : m = UserMessage(us) /\ x = [m EXCEPT !.content = Append(@, t)]
        OBVIOUS
      <4>2. q.conv = Append(r.conv, m)
        BY <2>3, <3>2, <4>1 DEF AnswersInto
      <4>3. m = [role |-> "user", content |-> us]
        BY <4>1 DEF UserMessage
      <4>4. m \in Messages /\ m.role = "user"
        BY <3>0, <4>3 DEF Messages
      <4>5. MergeUser(Append(r.conv, m), t) = Append(r.conv, x)
        <5>1. x = With(m, t)
          BY <4>1 DEF With
        <5> QED BY <3>0, <4>4, <5>1, MergeOn
      <4>6. x = UserMessage(vs)
        <5>1. m.content = us
          BY <4>3
        <5>2. x = [m EXCEPT !.content = vs]
          BY <2>0, <4>1, <5>1
        <5> QED BY <4>3, <5>2 DEF UserMessage
      <4> QED BY <2>7, <4>2, <4>5, <4>6
    <3> QED BY <3>1, <3>2
  <2>10. p.pending = r.pending \ Elements(vs)
    BY <2>2, <2>4, <2>7
  <2>11. AnswersInto(r, vs, p)
    BY <2>1, <2>7, <2>8, <2>9, <2>10 DEF AnswersInto
  <2> QED BY <2>11
<1>3. GrowsIn(G, ResultBlocks)
  <2> HIDE DEF G
  <2> QED BY <1>1, <1>2 DEF GrowsIn
<1>4. rs \in G
  <2> HIDE DEF G
  <2> QED BY <1>3, AllSequences
<1> QED BY <1>4

-----------------------------------------------------------------------------
(* Where a compaction begins and ends *)

\* Of a finite set of numbers, a member that k of them reach.
LEMMA ReachedByExactly ==
    ASSUME NEW T, NEW b \in Nat, T \subseteq 0..b, NEW k \in Nat \ {0}, k <= Cardinality(T)
    PROVE  /\ IsFiniteSet(T)
           /\ \E s \in T : Cardinality({t \in T : t >= s}) = k
<1> DEFINE From(n) == {t \in T : t >= n}
           A == {n \in Nat : Cardinality(From(n)) < k}
<1>1. IsFiniteSet(T)
  <2>1. IsFiniteSet(0..b)
    BY FS_Interval
  <2> QED BY <2>1, FS_Subset
<1>2. ASSUME NEW n \in Nat PROVE IsFiniteSet(From(n)) /\ Cardinality(From(n)) \in Nat
  <2>1. From(n) \in SUBSET T
    OBVIOUS
  <2>2. IsFiniteSet(From(n))
    <3> HIDE DEF From
    <3> QED BY <1>1, <2>1, FS_Subset
  <2> HIDE DEF From
  <2> QED BY <2>2, FS_CardinalityType
<1>3. b + 1 \in A
  <2>1. From(b + 1) = {}
    <3>1. \A t \in T : t \in 0..b /\ ~(t >= b + 1)
      OBVIOUS
    <3> QED BY <3>1
  <2>2. Cardinality({}) = 0
    BY FS_EmptySet
  <2>3. Cardinality(From(b + 1)) < k
    <3> HIDE DEF From
    <3> QED BY <2>1, <2>2
  <2> QED BY <2>3
<1>4. PICK n \in A : \A j \in A : n <= j
  <2>1. A \subseteq Nat /\ A # {}
    BY <1>3
  <2> HIDE DEF A
  <2> QED BY <2>1, NatMin
<1>5. n # 0
  <2>1. From(0) = T
    <3>1. \A t \in T : t \in 0..b /\ t >= 0
      OBVIOUS
    <3> QED BY <3>1
  <2>2. Cardinality(T) \in Nat
    BY <1>1, FS_CardinalityType
  <2> QED BY <1>4, <2>1, <2>2
<1>6. PICK s : s = n - 1
  OBVIOUS
<1>7. s \in Nat /\ n = s + 1 /\ ~(n <= s)
  BY <1>4, <1>5, <1>6
<1>8. s \notin A
  BY <1>4, <1>7
<1>9. ~(Cardinality(From(s)) < k)
  BY <1>7, <1>8
<1>10. CASE s \notin T
  <2>1. From(s) = From(n)
    <3>1. \A t \in T : t >= s => t >= n
      BY <1>7, <1>10
    <3>2. \A t \in T : t >= n => t >= s
      BY <1>7
    <3> QED BY <3>1, <3>2
  <2> HIDE DEF From
  <2> QED BY <1>4, <1>9, <2>1
<1>11. CASE s \in T
  <2>1. From(s) = From(n) \cup {s} /\ s \notin From(n)
    <3>1. \A t \in T : t >= s <=> (t >= n \/ t = s)
      BY <1>7
    <3> QED BY <1>7, <1>11, <3>1
  <2>2. Cardinality(From(s)) = Cardinality(From(n)) + 1
    <3> HIDE DEF From
    <3> QED BY <1>2, <1>4, <2>1, FS_AddElement
  <2>3. Cardinality(From(n)) \in Nat /\ Cardinality(From(s)) \in Nat /\ Cardinality(From(n)) < k
    BY <1>2, <1>4, <1>7
  <2>4. Cardinality(From(s)) = k
    <3> HIDE DEF From
    <3> QED BY <1>9, <2>2, <2>3
  <2> QED BY <1>1, <1>11, <2>4
<1> QED BY <1>10, <1>11

\* The range that is replaced starts at the second message and ends before the last.
LEMMA CompactsWithin ==
    ASSUME NEW c \in Seq(Messages), CanCompact(c)
    PROVE  /\ CompactTo(c) \in Nat \ {0} /\ CompactTo(c) + 2 <= Len(c)
           /\ CompactTo(c) + 1 \in TurnStarts(c)
           /\ Cardinality({t \in TurnStarts(c) : t >= CompactTo(c) + 1}) = KeepTurns
<1>0. PICK T, n, b : T = TurnStarts(c) /\ n = Len(c) /\ b = n - 1
  OBVIOUS
<1>1. n \in Nat /\ T \subseteq 0..b /\ MinTurns <= Cardinality(T)
  BY <1>0 DEF CanCompact, TurnStarts
<1>2. KeepTurns \in Nat \ {0} /\ MinTurns \in Nat /\ KeepTurns + 2 <= MinTurns
  BY ReplayAssumption
<1>3. n # 0
  <2>1. SUFFICES ASSUME n = 0 PROVE FALSE
    OBVIOUS
  <2>2. T = {}
    BY <1>0, <1>1, <2>1
  <2>3. Cardinality(T) = 0
    BY <2>2, FS_EmptySet
  <2> QED BY <1>1, <1>2, <2>3
<1>4. b \in Nat
  BY <1>0, <1>1, <1>3
<1>5. IsFiniteSet(T) /\ Cardinality(T) \in Nat
  <2>1. IsFiniteSet(0..b)
    BY <1>4, FS_Interval
  <2>2. IsFiniteSet(T)
    BY <1>1, <2>1, FS_Subset
  <2> QED BY <2>2, FS_CardinalityType
<1>6. KeepTurns <= Cardinality(T)
  BY <1>1, <1>2, <1>5
<1>7. \E s \in T : Cardinality({t \in T : t >= s}) = KeepTurns
  BY <1>1, <1>2, <1>4, <1>6, ReachedByExactly
<1>8. PICK s : s = KeptStart(c)
  OBVIOUS
<1>9. s \in T /\ Cardinality({t \in T : t >= s}) = KeepTurns
  BY <1>0, <1>7, <1>8 DEF KeptStart
<1>10. ~(s <= 1)
  <2>1. SUFFICES ASSUME s <= 1 PROVE FALSE
    OBVIOUS
  <2>2. PICK U : U = {t \in T : t >= s}
    OBVIOUS
  <2>3. IsFiniteSet(U)
    BY <1>5, <2>2, FS_Subset
  <2>4. IsFiniteSet(U \cup {0}) /\ Cardinality(U \cup {0}) <= KeepTurns + 1
    <3>1. Cardinality(U) = KeepTurns
      BY <1>9, <2>2
    <3>2. PICK V : V = U \cup {0}
      OBVIOUS
    <3>3. IsFiniteSet(V) /\ Cardinality(V) = IF 0 \in U THEN Cardinality(U) ELSE Cardinality(U) + 1
      BY <2>3, <3>2, FS_AddElement
    <3>4. KeepTurns \in Nat
      BY <1>2
    <3>5. CASE 0 \in U
      BY <3>1, <3>2, <3>3, <3>4, <3>5
    <3>6. CASE 0 \notin U
      BY <3>1, <3>2, <3>3, <3>4, <3>6
    <3> QED BY <3>5, <3>6
  <2>5. T \subseteq U \cup {0}
    <3>1. \A t \in T : t = 0 \/ t >= s
      BY <1>1, <1>4, <1>9, <2>1
    <3> QED BY <2>2, <3>1
  <2>6. Cardinality(T) <= Cardinality(U \cup {0}) /\ Cardinality(U \cup {0}) \in Nat
    BY <2>4, <2>5, FS_Subset, FS_CardinalityType
  <2> QED BY <1>1, <1>2, <1>5, <2>4, <2>6
<1>11. s \in 0..b
  BY <1>1, <1>9
<1>12. CompactTo(c) = s - 1
  BY <1>8 DEF CompactTo
<1>13. s - 1 \in Nat \ {0} /\ (s - 1) + 2 <= n /\ (s - 1) + 1 = s
  BY <1>0, <1>1, <1>4, <1>10, <1>11
<1> QED BY <1>0, <1>9, <1>12, <1>13

\* d is c with the messages up to to, but the first, replaced by m.
Replaced(d, c, to, m) ==
    \A i \in 1..Len(d) : d[i] = IF i = 1 THEN c[1] ELSE IF i = 2 THEN m ELSE c[(i + to) - 1]

LEMMA CompactedIs ==
    ASSUME NEW c \in Seq(Messages), NEW to \in Nat \ {0}, to + 2 <= Len(c), NEW b,
           NEW m \in Messages, m = AssistantMessage(<< b >>),
           NEW d, d = ApplyCompaction(c, 1, to, b)
    PROVE  /\ d \in Seq(Messages)
           /\ Len(d) = (Len(c) - to) + 1
           /\ Replaced(d, c, to, m)
<1>0. PICK n, p, q, r : /\ n = Len(c) /\ p = SubSeq(c, 1, 1) /\ r = SubSeq(c, to + 2, n) /\ q = << m >>
  OBVIOUS
<1>1. n \in Nat /\ to + 2 <= n
  BY <1>0
<1>2. p \in Seq(Messages) /\ Len(p) = 1 /\ p[1] = c[1]
  BY <1>0, <1>1, PrefixIs
<1>3. q \in Seq(Messages) /\ Len(q) = 1 /\ q[1] = m
  BY <1>0
<1>4. r \in Seq(Messages) /\ Len(r) = (n - to) - 1 /\ \A i \in 1..((n - to) - 1) : r[i] = c[(i + to) + 1]
  <2>1. \A i \in (to + 2)..n : c[i] \in Messages
    BY <1>0, <1>1
  <2>2. r \in Seq(Messages)
    BY <1>0, <1>1, <2>1
  <2>3. Len(r) = (n - to) - 1
    BY <1>0, <1>1
  <2>4. ASSUME NEW i \in 1..((n - to) - 1) PROVE r[i] = c[(i + to) + 1]
    BY <1>0, <1>1, <2>4
  <2> QED BY <2>2, <2>3, <2>4
<1>5. PICK pq : pq = p \o q
  OBVIOUS
<1>6. pq \in Seq(Messages) /\ Len(pq) = 2 /\ pq[1] = c[1] /\ pq[2] = m
  <2>0. pq \in Seq(Messages) /\ Len(pq) = Len(p) + Len(q)
        /\ \A i \in 1..(Len(p) + Len(q)) : pq[i] = IF i <= Len(p) THEN p[i] ELSE q[i - Len(p)]
    BY <1>2, <1>3, <1>5, ConcatIs
  <2>1. pq \in Seq(Messages) /\ Len(pq) = 1 + 1 /\ \A i \in 1..(1 + 1) : pq[i] = IF i <= 1 THEN p[i] ELSE q[i - 1]
    BY <1>2, <1>3, <2>0
  <2>2. 1 + 1 = 2 /\ 1 \in 1..2 /\ 2 \in 1..2 /\ 2 - 1 = 1 /\ ~(2 <= 1)
    OBVIOUS
  <2> QED BY <1>2, <1>3, <2>1, <2>2
<1>7. d = pq \o r
  BY <1>0, <1>5 DEF ApplyCompaction
<1>8. d \in Seq(Messages) /\ Len(d) = (n - to) + 1
      /\ \A i \in 1..((n - to) + 1) : d[i] = IF i <= 2 THEN pq[i] ELSE r[i - 2]
  <2>1. d \in Seq(Messages) /\ Len(d) = 2 + ((n - to) - 1)
        /\ \A i \in 1..(2 + ((n - to) - 1)) : d[i] = IF i <= 2 THEN pq[i] ELSE r[i - 2]
    <3>1. d \in Seq(Messages) /\ Len(d) = Len(pq) + Len(r)
          /\ \A i \in 1..(Len(pq) + Len(r)) : d[i] = IF i <= Len(pq) THEN pq[i] ELSE r[i - Len(pq)]
      <4>1. PICK pqr : pqr = pq \o r
        OBVIOUS
      <4>2. pqr \in Seq(Messages) /\ Len(pqr) = Len(pq) + Len(r)
            /\ \A i \in 1..(Len(pq) + Len(r)) : pqr[i] = IF i <= Len(pq) THEN pq[i] ELSE r[i - Len(pq)]
        <5>1. pq \in Seq(Messages) /\ r \in Seq(Messages)
          BY <1>4, <1>6
        <5> QED BY <4>1, <5>1, ConcatIs
      <4>3. d = pqr
        BY <1>7, <4>1
      <4> QED BY <4>2, <4>3
    <3>2. Len(pq) = 2 /\ Len(r) = (n - to) - 1
      BY <1>4, <1>6
    <3> QED BY <3>1, <3>2
  <2>2. 2 + ((n - to) - 1) = (n - to) + 1
    BY <1>1
  <2> QED BY <2>1, <2>2
<1>9. ASSUME NEW i \in 1..Len(d)
      PROVE  d[i] = IF i = 1 THEN c[1] ELSE IF i = 2 THEN m ELSE c[(i + to) - 1]
  <2>1. i \in 1..((n - to) + 1)
    BY <1>8
  <2>2. CASE i <= 2
    <3>1. i = 1 \/ i = 2
      BY <2>1, <2>2
    <3> QED BY <1>6, <1>8, <2>1, <2>2, <3>1
  <2>3. CASE ~(i <= 2)
    BY <1>1, <2>1, <2>3, <1>4, <1>8
  <2> QED BY <2>2, <2>3
<1> QED BY <1>0, <1>8, <1>9 DEF Replaced

LEMMA CompactedEnds ==
    ASSUME NEW c \in Seq(Messages), NEW to \in Nat \ {0}, to + 2 <= Len(c), NEW b \in Block
    PROVE  /\ ApplyCompaction(c, 1, to, b) \in Seq(Messages)
           /\ Len(ApplyCompaction(c, 1, to, b)) = (Len(c) - to) + 1
           /\ EndsWithUser(ApplyCompaction(c, 1, to, b)) <=> EndsWithUser(c)
<1>0. PICK d : d = ApplyCompaction(c, 1, to, b)
  OBVIOUS
<1>1. PICK m, n, k : m = AssistantMessage(<< b >>) /\ n = Len(c) /\ k = Len(d)
  OBVIOUS
<1>2. m \in Messages
  BY <1>1 DEF AssistantMessage, Messages
<1>3. /\ d \in Seq(Messages) /\ k = (n - to) + 1
      /\ \A i \in 1..k : d[i] = IF i = 1 THEN c[1] ELSE IF i = 2 THEN m ELSE c[(i + to) - 1]
  <2>1. d \in Seq(Messages) /\ Len(d) = (Len(c) - to) + 1 /\ Replaced(d, c, to, m)
    BY <1>0, <1>1, <1>2, CompactedIs
  <2> QED BY <1>1, <2>1 DEF Replaced
<1>4. n \in Nat /\ to + 2 <= n
  BY <1>1
<1>5. k \in 1..k /\ k # 1 /\ k # 2 /\ (k + to) - 1 = n
  BY <1>3, <1>4
<1>6. d[k] = c[n]
  BY <1>3, <1>5
<1>7. d # <<>> /\ c # <<>>
  BY <1>1, <1>4, <1>5
<1>8. EndsWithUser(d) <=> EndsWithUser(c)
  BY <1>1, <1>6, <1>7 DEF EndsWithUser, Last
<1> QED BY <1>0, <1>1, <1>3, <1>8

LEMMA CompactedAlike ==
    ASSUME NEW c1 \in Seq(Messages), NEW c2 \in Seq(Messages), AllAlike(c1, c2),
           NEW to \in Nat \ {0}, to + 2 <= Len(c2), NEW b \in Block,
           NEW d1, d1 = ApplyCompaction(c1, 1, to, b), NEW d2, d2 = ApplyCompaction(c2, 1, to, b)
    PROVE  AllAlike(d1, d2)
<1>0. PICK m, n, k : m = AssistantMessage(<< b >>) /\ n = Len(c2) /\ k = (n - to) + 1
  OBVIOUS
<1>1. m \in Messages
  BY <1>0 DEF AssistantMessage, Messages
<1>2. Len(c1) = n /\ n \in Nat /\ to + 2 <= n /\ \A i \in 1..n : Alike(c1[i], c2[i])
  BY <1>0 DEF AllAlike
<1>3. /\ Len(d1) = k
      /\ \A i \in 1..k : d1[i] = IF i = 1 THEN c1[1] ELSE IF i = 2 THEN m ELSE c1[(i + to) - 1]
  <2>1. to + 2 <= Len(c1)
    BY <1>2
  <2>2. /\ Len(d1) = (Len(c1) - to) + 1
        /\ \A i \in 1..Len(d1) : d1[i] = IF i = 1 THEN c1[1] ELSE IF i = 2 THEN m ELSE c1[(i + to) - 1]
    <3>1. Len(d1) = (Len(c1) - to) + 1 /\ Replaced(d1, c1, to, m)
      BY <1>0, <1>1, <2>1, CompactedIs
    <3> QED BY <3>1 DEF Replaced
  <2>3. Len(d1) = k
    BY <1>0, <1>2, <2>2
  <2> QED BY <2>2, <2>3
<1>4. /\ Len(d2) = k
      /\ \A i \in 1..k : d2[i] = IF i = 1 THEN c2[1] ELSE IF i = 2 THEN m ELSE c2[(i + to) - 1]
  <2>1. /\ Len(d2) = (Len(c2) - to) + 1
        /\ \A i \in 1..Len(d2) : d2[i] = IF i = 1 THEN c2[1] ELSE IF i = 2 THEN m ELSE c2[(i + to) - 1]
    <3>1. Len(d2) = (Len(c2) - to) + 1 /\ Replaced(d2, c2, to, m)
      BY <1>0, <1>1, CompactedIs
    <3> QED BY <3>1 DEF Replaced
  <2>2. Len(d2) = k
    BY <1>0, <2>1
  <2> QED BY <2>1, <2>2
<1>5. ASSUME NEW i \in 1..k PROVE Alike(d1[i], d2[i])
  <2>1. CASE i = 1
    <3>1. 1 \in 1..n
      BY <1>2
    <3> QED BY <1>2, <1>3, <1>4, <2>1, <3>1
  <2>2. CASE i = 2
    <3>1. d1[i] = m /\ d2[i] = m
      BY <1>3, <1>4, <2>2
    <3> QED BY <3>1 DEF Alike
  <2>3. CASE i # 1 /\ i # 2
    BY <1>0, <1>2, <2>3, <1>3, <1>4
  <2> QED BY <2>1, <2>2, <2>3
<1> QED BY <1>3, <1>4, <1>5 DEF AllAlike

LEMMA CompactionRead ==
    ASSUME NEW r \in Readings, NEW to \in Nat \ {0}, to + 2 <= Len(r.conv), NEW n, Text(n) \in Block,
           NEW p, p = [r EXCEPT !.conv = ApplyCompaction(@, 1, to, Text(n))]
    PROVE  /\ p \in Readings /\ p.conv = ApplyCompaction(r.conv, 1, to, Text(n))
           /\ ReadsInto(r, << Applied(1, to, n) >>, p)
<1>1. PICK c, b, e : c = ApplyCompaction(r.conv, 1, to, Text(n)) /\ b = Text(n) /\ e = Applied(1, to, n)
  OBVIOUS
<1>2. r.conv \in Seq(Messages) /\ r.ok = TRUE /\ b \in Block
  BY <1>1 DEF Readings
<1>3. c \in Seq(Messages)
  BY <1>1, <1>2, CompactedEnds
<1>4. p \in Readings /\ p.conv = c
  BY <1>1, <1>3 DEF Readings
<1>5. e.type = "compaction.applied" /\ e.blocks[1] = b /\ e.from = 1 /\ e.to = to
  BY <1>1 DEF Applied
<1>6. 1 <= to /\ to < Len(r.conv)
  <2>1. Len(r.conv) \in Nat
    BY <1>2
  <2> QED BY <2>1
<1>7. p = ReadApplied(r, e)
  BY <1>1, <1>5, <1>6 DEF ReadApplied
<1>8. p = Read(r, e)
  BY <1>2, <1>5, <1>7 DEF Read
<1> QED BY <1>1, <1>4, <1>8, ReadsOne

-----------------------------------------------------------------------------
(* How what Resume makes of the log follows the conversation *)

Thought(lg) == \E i \in 1..Len(lg) : lg[i].type = "assistant.thinking"
ThoughtCompacted(lg) ==
    \E i, j \in 1..Len(lg) : i < j /\ lg[i].type = "assistant.thinking"
                                   /\ lg[j].type = "compaction.applied"

\* The calls of the last message are to be answered: they differ, and the
\* reading waits for their results.
Awaits(r, c) ==
    LET round == Blocks(c[Len(c)], "call")
    IN  /\ c # <<>> /\ ~EndsWithUser(c)
        /\ round # <<>> /\ Differ(round)
        /\ r.pending = {ToolResult(round[i]) : i \in 1..Len(round)}

\* The reading r of the log lg follows the conversation c.  Thinking makes it
\* longer; without it, it differs in what encode does not keep, and until a
\* compaction counts the messages differently, that alone.
Follows(r, c, lg, st) ==
    /\ Len(c) <= Len(r.conv)
    /\ EndsWithUser(c) <=> EndsWithUser(r.conv)
    /\ st = "tools" => Awaits(r, c)
    /\ ~Thought(lg) => AllAlike(r.conv, c)
    /\ ~ThoughtCompacted(lg) => Canon(r.conv) = Canon(c)

Followed(lg, c, st) == \E r : ReadsInto(Empty, lg, r) /\ Follows(r, c, lg, st)

Counts == [records : Nat, rounds : Nat, thoughts : Nat, kills : Nat]

ReplayTyped ==
    /\ conv \in Seq(Messages) /\ log \in Seq(LogEvents)
    /\ flushed \in 0..Len(log)
    /\ stage \in {"idle", "reply", "tools"}
    /\ made \in Counts

ReplayInv == ReplayTyped /\ Followed(log, conv, stage)

LEMMA CountsGrow ==
    ASSUME NEW x \in Counts, NEW k \in Nat
    PROVE  /\ [x EXCEPT !.records = @ + 1] \in Counts
           /\ [x EXCEPT !.kills = @ + 1] \in Counts
           /\ [x EXCEPT !.thoughts = @ + k] \in Counts
           /\ [x EXCEPT !.rounds = @ + k] \in Counts
  BY DEF Counts

LEMMA LogGrows ==
    ASSUME NEW lg \in Seq(LogEvents), NEW es \in Seq(LogEvents), NEW both, both = lg \o es
    PROVE  /\ both \in Seq(LogEvents) /\ Len(both) = Len(lg) + Len(es)
           /\ Thought(lg) => Thought(both)
           /\ Thought(es) => Thought(both)
           /\ ThoughtCompacted(lg) => ThoughtCompacted(both)
<1>1. PICK n, m : n = Len(lg) /\ m = Len(es)
  OBVIOUS
<1>2. n \in Nat /\ m \in Nat /\ both \in Seq(LogEvents) /\ Len(both) = n + m
      /\ \A i \in 1..(n + m) : both[i] = IF i <= n THEN lg[i] ELSE es[i - n]
  BY <1>1, ConcatIs
<1>3. \A i \in 1..n : i \in 1..(n + m) /\ both[i] = lg[i]
  <2>1. \A i \in 1..n : i \in 1..(n + m) /\ i <= n
    BY <1>2
  <2> QED BY <1>2, <2>1
<1>4. Thought(lg) => Thought(both)
  BY <1>1, <1>2, <1>3 DEF Thought
<1>5. Thought(es) => Thought(both)
  <2>1. SUFFICES ASSUME NEW i \in 1..m, es[i].type = "assistant.thinking" PROVE Thought(both)
    BY <1>1 DEF Thought
  <2>2. PICK k : k = n + i
    OBVIOUS
  <2>3. k \in 1..(n + m) /\ ~(k <= n) /\ k - n = i
    BY <1>2, <2>1, <2>2
  <2>4. both[k] = es[i]
    BY <1>2, <2>3
  <2> QED BY <1>2, <2>1, <2>3, <2>4 DEF Thought
<1>6. ThoughtCompacted(lg) => ThoughtCompacted(both)
  BY <1>1, <1>2, <1>3 DEF ThoughtCompacted
<1> QED BY <1>1, <1>2, <1>4, <1>5, <1>6

LEMMA AlikeAppend ==
    ASSUME NEW x \in Seq(Messages), NEW y \in Seq(Messages), AllAlike(x, y),
           NEW a \in Messages, NEW b \in Messages, Alike(a, b)
    PROVE  AllAlike(Append(x, a), Append(y, b))
<1>1. PICK u, v, n : u = Append(x, a) /\ v = Append(y, b) /\ n = Len(x)
  OBVIOUS
<1>2. n \in Nat /\ Len(y) = n /\ \A i \in 1..n : Alike(x[i], y[i])
  BY <1>1 DEF AllAlike
<1>3. Len(u) = n + 1 /\ u[n + 1] = a /\ \A i \in 1..n : u[i] = x[i]
  BY <1>1, AppendProperties
<1>4. Len(v) = n + 1 /\ v[n + 1] = b /\ \A i \in 1..n : v[i] = y[i]
  BY <1>1, <1>2, AppendProperties
<1>5. ASSUME NEW i \in 1..(n + 1) PROVE Alike(u[i], v[i])
  <2>1. CASE i \in 1..n
    BY <1>2, <1>3, <1>4, <2>1
  <2>2. CASE i \notin 1..n
    <3>1. i = n + 1
      BY <1>2, <2>2
    <3> QED BY <1>3, <1>4, <3>1
  <2> QED BY <2>1, <2>2
<1> QED BY <1>1, <1>3, <1>4, <1>5 DEF AllAlike

LEMMA MergeAlike ==
    ASSUME NEW x \in Seq(Messages), NEW y \in Seq(Messages), AllAlike(x, y), NEW b \in Block
    PROVE  AllAlike(MergeUser(x, b), MergeUser(y, b))
<1>1. PICK n : n = Len(x)
  OBVIOUS
<1>2. n \in Nat /\ Len(y) = n /\ \A i \in 1..n : Alike(x[i], y[i])
  BY <1>1 DEF AllAlike
<1>3. EndsWithUser(x) <=> EndsWithUser(y)
  <2>1. x = <<>> <=> y = <<>>
    BY <1>1, <1>2, EmptySeq
  <2>2. x # <<>> => n \in 1..n
    BY <1>1, <1>2, EmptySeq
  <2>3. x # <<>> => x[n].role = y[n].role
    BY <1>2, <2>2 DEF Alike
  <2> QED BY <1>1, <1>2, <2>1, <2>3 DEF EndsWithUser, Last
<1>4. CASE EndsWithUser(x)
  <2>1. x # <<>> /\ x[n].role = "user"
    BY <1>1, <1>4 DEF EndsWithUser, Last
  <2>2. n \in 1..n
    BY <1>1, <1>2, <2>1, EmptySeq
  <2>3. x[n] = y[n]
    BY <1>2, <2>1, <2>2 DEF Alike
  <2>4. PICK w : w = With(x[n], b)
    OBVIOUS
  <2>5. PICK u, v : u = [x EXCEPT ![n] = w] /\ v = [y EXCEPT ![n] = w]
    OBVIOUS
  <2>6. MergeUser(x, b) = u
    BY <1>1, <1>4, <2>4, <2>5 DEF MergeUser, With
  <2>7. MergeUser(y, b) = v
    BY <1>2, <1>3, <1>4, <2>3, <2>4, <2>5 DEF MergeUser, With
  <2>8. w \in Messages
    <3>1. x[n] \in Messages
      BY <1>1, <2>2
    <3>2. Append(x[n].content, b) \in Seq(Block)
      BY <3>1, AppendProperties DEF Messages
    <3> QED BY <2>4, <3>1, <3>2 DEF Messages, With
  <2>9. Len(u) = n /\ \A i \in 1..n : u[i] = IF i = n THEN w ELSE x[i]
    BY <1>1, <2>2, <2>5, <2>8, ExceptSeq
  <2>10. Len(v) = n /\ \A i \in 1..n : v[i] = IF i = n THEN w ELSE y[i]
    BY <1>2, <2>2, <2>5, <2>8, ExceptSeq
  <2>11. Alike(w, w)
    BY DEF Alike
  <2>12. AllAlike(u, v)
    BY <1>2, <2>9, <2>10, <2>11 DEF AllAlike
  <2> QED BY <2>6, <2>7, <2>12
<1>5. CASE ~EndsWithUser(x)
  <2>1. PICK w : w = UserMessage(<< b >>)
    OBVIOUS
  <2>2. MergeUser(x, b) = Append(x, w) /\ MergeUser(y, b) = Append(y, w)
    BY <1>3, <1>5, <2>1 DEF MergeUser
  <2>3. w \in Messages /\ Alike(w, w)
    BY <2>1 DEF UserMessage, Messages, Alike
  <2> QED BY <2>2, <2>3, AlikeAppend
<1> QED BY <1>4, <1>5

LEMMA UserFollows ==
    ASSUME NEW lg \in Seq(LogEvents), NEW c \in Seq(Messages), NEW st, NEW r,
           ReadsInto(Empty, lg, r), Follows(r, c, lg, st), NEW b \in Block,
           NEW lg2, lg2 = Append(lg, Event("user.message", << b >>)), NEW d, d = MergeUser(c, b)
    PROVE  Followed(lg2, d, "reply")
<1>1. r \in Readings /\ r.conv \in Seq(Messages)
  <2>1. r \in Readings
    BY ResumeIs
  <2> QED BY <2>1 DEF Readings
<1>2. PICK p : p = [r EXCEPT !.conv = MergeUser(@, b)]
  OBVIOUS
<1>3. PICK e, es : e = Event("user.message", << b >>) /\ es = << e >>
  OBVIOUS
<1>4. e \in LogEvents /\ es \in Seq(LogEvents)
  <2>1. << b >> \in Seq(Block) /\ << b >> # <<>>
    OBVIOUS
  <2>2. e \in LogEvents
    BY <1>3, <2>1, EventTyped
  <2> QED BY <1>3, <2>2
<1>5. lg2 = lg \o es
  BY <1>3, <1>4
<1>6. p.conv = MergeUser(r.conv, b) /\ ReadsInto(r, es, p)
  BY <1>1, <1>2, <1>3, TextRead
<1>7. ReadsInto(Empty, lg2, p)
  BY <1>4, <1>5, <1>6, ReadsOn
<1>8. Len(d) <= Len(p.conv) /\ EndsWithUser(d) /\ EndsWithUser(p.conv)
  BY <1>1, MergeTyped, <1>6 DEF Follows
<1>9. ~Thought(lg2) => AllAlike(p.conv, d)
  <2>1. SUFFICES ASSUME ~Thought(lg2) PROVE AllAlike(p.conv, d)
    OBVIOUS
  <2>2. ~Thought(lg)
    BY <1>4, <1>5, <2>1, LogGrows
  <2>3. AllAlike(r.conv, c)
    BY <2>2 DEF Follows
  <2>4. AllAlike(MergeUser(r.conv, b), MergeUser(c, b))
    BY <1>1, <2>3, MergeAlike
  <2> QED BY <1>6, <2>4
<1>10. ~ThoughtCompacted(lg2) => Canon(p.conv) = Canon(d)
  <2>1. Canon(p.conv) = MergeUser(Canon(r.conv), b) /\ Canon(d) = MergeUser(Canon(c), b)
    BY <1>1, <1>6, CanonMerge
  <2> QED BY <1>4, <1>5, <2>1, LogGrows DEF Follows
<1>11. Follows(p, d, lg2, "reply")
  BY <1>8, <1>9, <1>10 DEF Follows
<1> QED BY <1>7, <1>11 DEF Followed

LEMMA ReplyFollows ==
    ASSUME NEW lg \in Seq(LogEvents), NEW c \in Seq(Messages), NEW st, NEW r,
           ReadsInto(Empty, lg, r), Follows(r, c, lg, st),
           NEW m \in Messages, m.role = "assistant", Arranged(m) # <<>>,
           NEW st2, st2 = "tools" => Blocks(m, "call") # <<>> /\ Differ(Blocks(m, "call")),
           NEW lg2, lg2 = lg \o EncodeAppend(m), NEW d, d = Append(c, m)
    PROVE  Followed(lg2, d, st2)
<1>1. r \in Readings /\ r.conv \in Seq(Messages)
  <2>1. r \in Readings
    BY ResumeIs
  <2> QED BY <2>1 DEF Readings
<1>2. PICK es : es = EncodeAppend(m)
  OBVIOUS
<1>3. es \in Seq(LogEvents)
  BY <1>1, <1>2, ReplyRead
<1>4. PICK p : ReplyInto(r, m, p)
  BY <1>1, ReplyRead
<1>5. /\ ReadsInto(r, es, p) /\ p \in Readings /\ Canon(p.conv) = Join(Canon(r.conv), m) /\ ~EndsWithUser(p.conv)
      /\ Len(r.conv) < Len(p.conv)
  BY <1>2, <1>4 DEF ReplyInto
<1>6. ReadsInto(Empty, lg2, p)
  BY <1>2, <1>3, <1>5, ReadsOn
<1>7. d \in Seq(Messages) /\ d # <<>> /\ Len(d) = Len(c) + 1 /\ d[Len(d)] = m
  BY AppendProperties
<1>8. ~EndsWithUser(d)
  BY <1>7 DEF EndsWithUser, Last
<1>9. Len(d) <= Len(p.conv)
  BY <1>1, <1>5, <1>7 DEF Readings, Follows
<1>10. st2 = "tools" => Awaits(p, d)
  <2>1. SUFFICES ASSUME st2 = "tools" PROVE Awaits(p, d)
    OBVIOUS
  <2>2. PICK round : round = Blocks(m, "call")
    OBVIOUS
  <2>3. round # <<>> /\ Differ(round) /\ round \in Seq(Block)
    <3>1. m.content \in Seq(Block)
      BY DEF Messages
    <3> QED BY <2>1, <2>2, <3>1, BlocksBlock
  <2>4. Calls(Rest(m)) = {round[i] : i \in 1..Len(round)}
    <3>1. m.content \in Seq(Block)
      BY DEF Messages
    <3>2. Calls(Rest(m)) = {Blocks(m, "call")[i] : i \in 1..Len(Blocks(m, "call"))}
      BY <3>1, RestIs
    <3> QED BY <2>2, <3>2
  <2>5. Rest(m) # <<>>
    <3>1. 1 \in 1..Len(round)
      BY <2>3, EmptySeq
    <3>2. round[1] \in Calls(Rest(m))
      BY <2>4, <3>1
    <3>3. Calls(<<>>) = {}
      BY DEF Calls, ToSet
    <3> QED BY <3>2, <3>3
  <2>6. p.pending = {ToolResult(x) : x \in Calls(Rest(m))}
    BY <1>4, <2>5 DEF ReplyInto
  <2>7. p.pending = {ToolResult(round[i]) : i \in 1..Len(round)}
    BY <2>4, <2>6
  <2> QED BY <1>7, <1>8, <2>2, <2>3, <2>7 DEF Awaits
<1>11. ~Thought(lg2) => AllAlike(p.conv, d)
  <2>1. SUFFICES ASSUME ~Thought(lg2) PROVE AllAlike(p.conv, d)
    OBVIOUS
  <2>2. ~Thought(lg) /\ ~Thought(es)
    BY <1>2, <1>3, <2>1, LogGrows
  <2>3. m.content \in Seq(Block)
    BY DEF Messages
  <2>4. PICK ts, s : ts = Blocks(m, "thinking") /\ s = Rest(m)
    OBVIOUS
  <2>5. ts = <<>>
    <3>1. SUFFICES ASSUME ts # <<>> PROVE FALSE
      OBVIOUS
    <3>2. ts \in Seq(Thinking)
      BY <2>3, <2>4, ThinkingBlocks
    <3>3. PICK a, b : a = Thoughts(ts) /\ b = IF s = <<>> THEN <<>> ELSE << Event("assistant.message", s) >>
      OBVIOUS
    <3>4. a \in Seq(LogEvents) /\ Len(a) = Len(ts)
          /\ \A i \in 1..Len(ts) : a[i] = Event("assistant.thinking", << ts[i] >>)
      BY <3>2, <3>3, ThoughtsAre
    <3>5. 1 \in 1..Len(a) /\ a[1].type = "assistant.thinking"
      <4>1. 1 \in 1..Len(ts)
        BY <3>1, <3>2, EmptySeq
      <4>2. a[1] = Event("assistant.thinking", << ts[1] >>)
        BY <3>4, <4>1
      <4>3. Event("assistant.thinking", << ts[1] >>).type = "assistant.thinking"
        BY DEF Event
      <4>4. a[1].type = "assistant.thinking"
        BY <4>2, <4>3
      <4> QED BY <3>4, <4>1, <4>4
    <3>6. b \in Seq(LogEvents)
      BY <2>3, <2>4, RestIs, EventTyped, <3>3
    <3>7. Thought(a)
      BY <3>5 DEF Thought
    <3>8. es = a \o b
      BY <1>2, <2>4, <3>3 DEF EncodeAppend, EncodeAssistantAppend, Thoughts, Rest
    <3>9. Thought(es)
      BY <3>4, <3>6, <3>7, <3>8, LogGrows
    <3> QED BY <2>2, <3>9
  <2>6. PICK x : x = AssistantMessage(s)
    OBVIOUS
  <2>7. p.conv = Append(r.conv, x)
    BY <1>4, <2>4, <2>5, <2>6 DEF ReplyInto
  <2>8. s \in Seq(Block) /\ Arranged(m) = ts \o s /\ Arranged(x) = s
    BY <2>3, <2>4, <2>6, RestIs
  <2>9. x \in Messages /\ x.role = "assistant"
    BY <2>6, <2>8 DEF AssistantMessage, Messages
  <2>10. Alike(x, m)
    <3>1. ts \o s = s
      BY <2>5, <2>8, ConcatEmptySeq
    <3> QED BY <2>8, <2>9, <3>1 DEF Alike
  <2>11. AllAlike(r.conv, c)
    BY <2>2 DEF Follows
  <2> QED BY <1>1, <2>7, <2>9, <2>10, <2>11, AlikeAppend
<1>12. ~ThoughtCompacted(lg2) => Canon(p.conv) = Canon(d)
  <2>1. Canon(d) = Join(Canon(c), m)
    BY CanonAppend
  <2> QED BY <1>2, <1>3, <1>5, <2>1, LogGrows DEF Follows
<1>13. Follows(p, d, lg2, st2)
  BY <1>5, <1>8, <1>9, <1>10, <1>11, <1>12 DEF Follows
<1> QED BY <1>6, <1>13 DEF Followed

\* The results of a round of calls, in its order.
RoundResults(round) == [i \in DOMAIN round |-> ToolResult(round[i])]

LEMMA RoundResultsAre ==
    ASSUME NEW round \in Seq(Block), \A i \in 1..Len(round) : round[i].kind = "call", Differ(round),
           NEW rs, rs = RoundResults(round)
    PROVE  /\ rs \in Seq(ResultBlocks) /\ Differ(rs)
           /\ Elements(rs) = {ToolResult(round[i]) : i \in 1..Len(round)}
           /\ (rs = <<>> <=> round = <<>>)
<1>1. PICK n : n = Len(round)
  OBVIOUS
<1>2. n \in Nat /\ DOMAIN round = 1..n
  BY <1>1
<1>3. ASSUME NEW i \in 1..n PROVE ToolResult(round[i]) \in ResultBlocks
  <2>1. PICK x : x = round[i]
    OBVIOUS
  <2>2. x \in Block
    BY <1>1, <2>1
  <2>3. ToolResult(x) \in Block /\ ToolResult(x).kind = "result"
    BY <2>2 DEF ToolResult, Block
  <2> QED BY <2>1, <2>3 DEF ResultBlocks
<1>4. rs \in [1..n -> ResultBlocks] /\ \A i \in 1..n : rs[i] = ToolResult(round[i])
  BY <1>2, <1>3 DEF RoundResults
<1>5. rs \in Seq(ResultBlocks) /\ Len(rs) = n
  BY <1>2, <1>4
<1>6. Differ(rs)
  <2>1. ASSUME NEW i \in 1..n, NEW j \in 1..n, rs[i] = rs[j] PROVE i = j
    <3>1. PICK x, y : x = round[i] /\ y = round[j]
      OBVIOUS
    <3>2. x \in Block /\ y \in Block /\ x.kind = "call" /\ y.kind = "call"
      BY <1>1, <3>1
    <3>3. ToolResult(x) = ToolResult(y)
      BY <1>4, <2>1, <3>1
    <3>4. ToolResult(x).of = x.of /\ ToolResult(x).at = x.at /\ ToolResult(y).of = y.of /\ ToolResult(y).at = y.at
      BY <3>2 DEF ToolResult, Block
    <3>5. x.of = y.of /\ x.at = y.at
      BY <3>3, <3>4
    <3>6. x = y
      BY <3>2, <3>5, SMTT(30) DEF Block
    <3> QED BY <1>1, <3>1, <3>6 DEF Differ
  <2> QED BY <1>5, <2>1 DEF Differ
<1>7. Elements(rs) = {ToolResult(round[i]) : i \in 1..n}
  BY <1>4, <1>5 DEF Elements
<1>8. rs = <<>> <=> round = <<>>
  BY <1>1, <1>5, EmptySeq
<1> QED BY <1>1, <1>5, <1>6, <1>7, <1>8

\* The message that answers the calls of the last one.
Answer(c) == UserMessage(RoundResults(Blocks(c[Len(c)], "call")))

\* The results rs answer the calls of the last message of c, which the reading r
\* waits for.
Answering(c, r, rs) ==
    /\ rs # <<>> /\ Differ(rs) /\ Elements(rs) = r.pending
    /\ Answer(c) = UserMessage(rs)
    /\ EncodeAppend(Answer(c)) = Answers(rs)

LEMMA AnswersRecorded ==
    ASSUME NEW c \in Seq(Messages), NEW r, Awaits(r, c)
    PROVE  \E rs \in Seq(ResultBlocks) : Answering(c, r, rs)
<1>0. PICK rs, m : /\ rs = RoundResults(Blocks(c[Len(c)], "call"))
                   /\ m = Answer(c) /\ m = UserMessage(rs)
  BY DEF Answer
<1>1. PICK round : round = Blocks(c[Len(c)], "call")
  OBVIOUS
<1>2. /\ c # <<>> /\ ~EndsWithUser(c) /\ round # <<>> /\ Differ(round)
      /\ r.pending = {ToolResult(round[i]) : i \in 1..Len(round)}
  BY <1>1 DEF Awaits
<1>3. round \in Seq(Block) /\ \A i \in 1..Len(round) : round[i].kind = "call"
  <2>1. PICK x : x = c[Len(c)]
    OBVIOUS
  <2>2. x \in Messages
    BY <1>2, <2>1, FrontAndLast
  <2>3. x.content \in Seq(Block)
    BY <2>2 DEF Messages
  <2> QED BY <1>1, <2>1, <2>3, BlocksBlock
<1>4. rs \in Seq(ResultBlocks) /\ Differ(rs) /\ Elements(rs) = {ToolResult(round[i]) : i \in 1..Len(round)}
      /\ (rs = <<>> <=> round = <<>>)
  BY <1>0, <1>1, <1>2, <1>3, RoundResultsAre
<1>5. m = [role |-> "user", content |-> rs]
  BY <1>0 DEF UserMessage
<1>6. EncodeAppend(m) = Answers(rs)
  <2>1. EncodeAppend(m) = [i \in DOMAIN rs |-> Event(IF rs[i].kind = "text" THEN "user.message" ELSE "tool.completed",
                                                    << rs[i] >>)]
    BY <1>5 DEF EncodeAppend, EncodeUserAppend
  <2>2. \A i \in DOMAIN rs : rs[i].kind # "text"
    BY <1>4 DEF ResultBlocks
  <2> QED BY <2>1, <2>2 DEF Answers
<1> QED BY <1>0, <1>2, <1>4, <1>6 DEF Answering

LEMMA AnswersFollow ==
    ASSUME NEW lg \in Seq(LogEvents), NEW c \in Seq(Messages), NEW r,
           ReadsInto(Empty, lg, r), Follows(r, c, lg, "tools")
    PROVE  /\ Append(c, Answer(c)) \in Seq(Messages) /\ EndsWithUser(Append(c, Answer(c)))
           /\ lg \o EncodeAppend(Answer(c)) \in Seq(LogEvents)
           /\ Len(lg) <= Len(lg \o EncodeAppend(Answer(c)))
           /\ \A st : st # "tools" => Followed(lg \o EncodeAppend(Answer(c)), Append(c, Answer(c)), st)
           /\ Resume(lg \o EncodeAppend(Answer(c))).pending = {}
<1>1. r \in Readings /\ r.conv \in Seq(Messages)
  <2>1. r \in Readings
    BY ResumeIs
  <2> QED BY <2>1 DEF Readings
<1>2. Awaits(r, c) /\ ~EndsWithUser(c)
  BY DEF Follows, Awaits
<1>3. PICK rs \in Seq(ResultBlocks) : Answering(c, r, rs)
  BY <1>2, AnswersRecorded
<1>4. /\ rs # <<>> /\ Differ(rs) /\ Elements(rs) = r.pending
      /\ Answer(c) = UserMessage(rs) /\ EncodeAppend(Answer(c)) = Answers(rs)
  BY <1>3 DEF Answering
<1>5. PICK m, lg2, d : /\ m = Answer(c) /\ m = UserMessage(rs)
                       /\ lg2 = lg \o EncodeAppend(m) /\ d = Append(c, m)
  BY <1>4
<1>6. m = [role |-> "user", content |-> rs] /\ m \in Messages /\ m.role = "user"
  <2>1. rs \in Seq(Block)
    <3>1. ResultBlocks \subseteq Block
      BY DEF ResultBlocks
    <3> QED BY <1>3, <3>1
  <2>2. m = [role |-> "user", content |-> rs]
    BY <1>5 DEF UserMessage
  <2> QED BY <2>1, <2>2 DEF Messages
<1>7. PICK es : es = Answers(rs)
  OBVIOUS
<1>8. EncodeAppend(m) = es
  BY <1>5, <1>4, <1>7
<1>9. es \in Seq(LogEvents)
  BY <1>3, <1>7, AnswersAre
<1>10. lg2 = lg \o es /\ lg2 \in Seq(LogEvents) /\ Len(lg) <= Len(lg2)
  BY <1>5, <1>8, <1>9, LogGrows
<1>11. d \in Seq(Messages) /\ d # <<>> /\ Len(d) = Len(c) + 1 /\ d[Len(d)] = m
  BY <1>5, <1>6, AppendProperties
<1>12. ~EndsWithUser(r.conv) /\ Len(c) <= Len(r.conv)
  BY <1>2 DEF Follows
<1>13. PICK p : AnswersInto(r, rs, p)
  BY <1>1, <1>3, <1>4, <1>12, AnswersRead
<1>14. ReadsInto(r, es, p) /\ p \in Readings /\ p.conv = Append(r.conv, m) /\ p.pending = {}
  BY <1>4, <1>13, <1>5, <1>7 DEF AnswersInto
<1>15. ReadsInto(Empty, lg2, p)
  BY <1>9, <1>10, <1>14, ReadsOn
<1>16. p.conv \in Seq(Messages) /\ p.conv # <<>> /\ Len(p.conv) = Len(r.conv) + 1 /\ p.conv[Len(p.conv)] = m
  <2>1. PICK y, k : y = r.conv /\ k = Len(y)
    OBVIOUS
  <2>2. y \in Seq(Messages) /\ k \in Nat
    BY <1>1, <2>1
  <2>3. m \in Messages
    BY <1>6
  <2>4. /\ Append(y, m) \in Seq(Messages) /\ Append(y, m) # <<>>
        /\ Len(Append(y, m)) = Len(y) + 1 /\ Append(y, m)[Len(y) + 1] = m
    BY <2>2, <2>3, AppendProperties
  <2> QED BY <1>14, <2>1, <2>4
<1>17. EndsWithUser(d) /\ EndsWithUser(p.conv)
  BY <1>6, <1>11, <1>16 DEF EndsWithUser, Last
<1>18. Len(d) <= Len(p.conv)
  <2>1. Len(c) \in Nat /\ Len(r.conv) \in Nat
    BY <1>1
  <2> QED BY <1>11, <1>12, <1>16, <2>1
<1>19. ~Thought(lg2) => AllAlike(p.conv, d)
  <2>1. SUFFICES ASSUME ~Thought(lg2) PROVE AllAlike(p.conv, d)
    OBVIOUS
  <2>2. AllAlike(r.conv, c)
    BY <1>9, <1>10, <2>1, LogGrows DEF Follows
  <2>3. Alike(m, m)
    BY DEF Alike
  <2>4. AllAlike(Append(r.conv, m), Append(c, m))
    BY <1>1, <1>6, <2>2, <2>3, AlikeAppend
  <2> QED BY <1>5, <1>14, <2>4
<1>20. ~ThoughtCompacted(lg2) => Canon(p.conv) = Canon(d)
  <2>1. Canon(p.conv) = Join(Canon(r.conv), m) /\ Canon(d) = Join(Canon(c), m)
    BY <1>5, <1>1, <1>6, <1>14, CanonAppend
  <2> QED BY <1>9, <1>10, <2>1, LogGrows DEF Follows
<1>21. ASSUME NEW st, st # "tools" PROVE Followed(lg2, d, st)
  <2>1. Follows(p, d, lg2, st)
    BY <1>17, <1>18, <1>19, <1>20, <1>21 DEF Follows
  <2> QED BY <1>15, <2>1 DEF Followed
<1>22. Resume(lg2).pending = {}
  BY <1>10, <1>14, <1>15, ResumeIs
<1> QED BY <1>5, <1>10, <1>11, <1>17, <1>21, <1>22

LEMMA CompactionFollows ==
    ASSUME NEW lg \in Seq(LogEvents), NEW c \in Seq(Messages), CanCompact(c), NEW r,
           ReadsInto(Empty, lg, r), NEW st, st # "tools", Follows(r, c, lg, st),
           NEW n, Text(n) \in Block, NEW to, to = CompactTo(c)
    PROVE  /\ ApplyCompaction(c, 1, to, Text(n)) \in Seq(Messages)
           /\ Append(lg, Applied(1, to, n)) \in Seq(LogEvents)
           /\ Len(Append(lg, Applied(1, to, n))) = Len(lg) + 1
           /\ Followed(Append(lg, Applied(1, to, n)), ApplyCompaction(c, 1, to, Text(n)), st)
<1>0. PICK lg2, d : lg2 = Append(lg, Applied(1, to, n)) /\ d = ApplyCompaction(c, 1, to, Text(n))
  OBVIOUS
<1>1. r \in Readings /\ r.conv \in Seq(Messages)
  <2>1. r \in Readings
    BY ResumeIs
  <2> QED BY <2>1 DEF Readings
<1>2. to \in Nat \ {0} /\ to + 2 <= Len(c)
  BY CompactsWithin
<1>3. PICK a, k : a = Len(c) /\ k = Len(r.conv)
  OBVIOUS
<1>4. a \in Nat /\ k \in Nat /\ to + 2 <= a /\ a <= k /\ to + 2 <= k
  <2>1. a \in Nat /\ k \in Nat /\ to + 2 <= a /\ a <= k
    BY <1>1, <1>2, <1>3 DEF Follows
  <2> QED BY <1>2, <2>1
<1>5. PICK b, e, es : b = Text(n) /\ e = Applied(1, to, n) /\ es = << e >>
  OBVIOUS
<1>6. e \in LogEvents /\ es \in Seq(LogEvents) /\ lg2 = lg \o es /\ Len(es) = 1
      /\ e.type = "compaction.applied"
  BY <1>2, <1>5, <1>0 DEF Applied, LogEvents
<1>7. lg2 \in Seq(LogEvents) /\ Len(lg2) = Len(lg) + 1
  <2>1. lg2 \in Seq(LogEvents) /\ Len(lg2) = Len(lg) + Len(es)
    BY <1>6, LogGrows
  <2> QED BY <1>6, <2>1
<1>8. PICK p : p = [r EXCEPT !.conv = ApplyCompaction(@, 1, to, Text(n))]
  OBVIOUS
<1>9. p.conv = ApplyCompaction(r.conv, 1, to, b) /\ ReadsInto(r, es, p)
  <2>1. to + 2 <= Len(r.conv)
    BY <1>3, <1>4
  <2> QED BY <1>1, <1>2, <1>5, <1>8, <2>1, CompactionRead
<1>10. ReadsInto(Empty, lg2, p)
  BY <1>6, <1>9, ReadsOn
<1>11. d \in Seq(Messages) /\ Len(d) = (a - to) + 1 /\ (EndsWithUser(d) <=> EndsWithUser(c))
  BY <1>0, <1>2, <1>3, <1>5, CompactedEnds
<1>12. p.conv \in Seq(Messages) /\ Len(p.conv) = (k - to) + 1 /\ (EndsWithUser(p.conv) <=> EndsWithUser(r.conv))
  <2>1. PICK y : y = r.conv
    OBVIOUS
  <2>2. y \in Seq(Messages) /\ to + 2 <= Len(y) /\ b \in Block
    BY <1>1, <1>3, <1>4, <1>5, <2>1
  <2>3. /\ ApplyCompaction(y, 1, to, b) \in Seq(Messages)
        /\ Len(ApplyCompaction(y, 1, to, b)) = (Len(y) - to) + 1
        /\ EndsWithUser(ApplyCompaction(y, 1, to, b)) <=> EndsWithUser(y)
    BY <1>2, <2>2, CompactedEnds
  <2> QED BY <1>3, <1>9, <2>1, <2>3
<1>13. Len(d) <= Len(p.conv)
  BY <1>2, <1>4, <1>11, <1>12
<1>14. ~Thought(lg) => AllAlike(p.conv, d)
  <2>1. SUFFICES ASSUME ~Thought(lg) PROVE AllAlike(p.conv, d)
    OBVIOUS
  <2>2. AllAlike(r.conv, c)
    BY <2>1 DEF Follows
  <2>3. PICK x : x = ApplyCompaction(r.conv, 1, to, b)
    OBVIOUS
  <2>4. AllAlike(x, d)
    BY <1>0, <1>1, <1>2, <1>5, <2>2, <2>3, CompactedAlike
  <2> QED BY <1>9, <2>3, <2>4
<1>15. ~Thought(lg2) => AllAlike(p.conv, d)
  BY <1>6, <1>14, LogGrows
<1>16. ~ThoughtCompacted(lg2) => ~Thought(lg)
  <2>1. SUFFICES ASSUME Thought(lg) PROVE ThoughtCompacted(lg2)
    OBVIOUS
  <2>2. PICK i \in 1..Len(lg) : lg[i].type = "assistant.thinking"
    BY <2>1 DEF Thought
  <2>3. PICK j : j = Len(lg) + 1
    OBVIOUS
  <2>4. j \in 1..Len(lg2) /\ i \in 1..Len(lg2) /\ i < j
    BY <1>7, <2>3
  <2>5. lg2[j] = e /\ lg2[i] = lg[i]
    BY <1>0, <1>5, <1>6, <2>3, AppendProperties
  <2> QED BY <1>6, <2>2, <2>4, <2>5 DEF ThoughtCompacted
<1>17. ~ThoughtCompacted(lg2) => Canon(p.conv) = Canon(d)
  BY <1>11, <1>12, <1>14, <1>16, CanonAlike
<1>18. Follows(p, d, lg2, st)
  BY <1>11, <1>12, <1>13, <1>15, <1>17 DEF Follows
<1>19. Followed(lg2, d, st)
  BY <1>10, <1>18 DEF Followed
<1> QED BY <1>0, <1>7, <1>11, <1>19

\* A process that resumed has the conversation Resume makes.
LEMMA ResumedFollows ==
    ASSUME NEW r \in Readings, NEW lg
    PROVE  Follows(r, r.conv, lg, "idle")
<1>1. r.conv \in Seq(Messages)
  BY DEF Readings
<1>2. PICK c : c = r.conv
  OBVIOUS
<1>3. Len(c) \in Nat
  BY <1>1, <1>2
<1>4. AllAlike(c, c)
  BY DEF AllAlike, Alike
<1> QED BY <1>2, <1>3, <1>4 DEF Follows

-----------------------------------------------------------------------------
(* The steps *)

LEMMA ReplyShape ==
    ASSUME NEW ks \in Shapes, NEW k \in Records,
           NEW bs, bs = [i \in DOMAIN ks |-> [kind |-> ks[i], of |-> k, at |-> IF ks[i] = "call" THEN i ELSE 0]],
           NEW m, m = AssistantMessage(bs)
    PROVE  /\ m \in Messages /\ m.role = "assistant" /\ Arranged(m) # <<>>
           /\ Contains(ks, "call") => Blocks(m, "call") # <<>> /\ Differ(Blocks(m, "call"))
<1>0. MaxBlocks \in Nat
  BY ReplayAssumption
<1>1. PICK n \in 1..MaxBlocks : ks \in [1..n -> {"thinking", "text", "call"}]
  BY DEF Shapes
<1>2. n \in Nat \ {0} /\ DOMAIN ks = 1..n /\ 1 \in 1..n
  BY <1>0, <1>1
<1>3. ASSUME NEW i \in 1..n
      PROVE  [kind |-> ks[i], of |-> k, at |-> IF ks[i] = "call" THEN i ELSE 0] \in Block
  BY <1>1, <1>0 DEF Block
<1>4. /\ bs \in [1..n -> Block]
      /\ \A i \in 1..n : bs[i].kind = ks[i] /\ (ks[i] = "call" => bs[i].at = i)
  BY <1>2, <1>3
<1>5. bs \in Seq(Block) /\ Len(bs) = n
  BY <1>2, <1>4
<1>6. m = [role |-> "assistant", content |-> bs]
  BY DEF AssistantMessage
<1>7. m \in Messages /\ m.role = "assistant" /\ m.content = bs /\ m.content \in Seq(Block)
  BY <1>5, <1>6 DEF Messages
<1>8. \A kind : \A i \in 1..n : ks[i] = kind => Blocks(m, kind) # <<>>
  <2>1. SUFFICES ASSUME NEW kind, NEW i \in 1..n, ks[i] = kind PROVE Blocks(m, kind) # <<>>
    OBVIOUS
  <2>2. i \in 1..Len(m.content) /\ m.content[i].kind = kind
    BY <1>4, <1>5, <1>7, <2>1
  <2> QED BY <1>7, <2>2, BlocksThere
<1>9. Arranged(m) # <<>>
  <2>1. PICK ts, x, s, c : ts = Blocks(m, "thinking") /\ x = Blocks(m, "text") /\ c = Blocks(m, "call") /\ s = Rest(m)
    OBVIOUS
  <2>2. ts \in Seq(Block) /\ x \in Seq(Block) /\ c \in Seq(Block)
    BY <1>7, <2>1, BlocksBlock
  <2>3. s \in Seq(Block) /\ Arranged(m) = ts \o s
    BY <1>7, <2>1, RestIs
  <2>4. ts # <<>> \/ x # <<>> \/ c # <<>>
    <3>1. ks[1] = "thinking" \/ ks[1] = "text" \/ ks[1] = "call"
      BY <1>1, <1>2
    <3> QED BY <1>2, <1>8, <2>1, <3>1
  <2>5. ts # <<>> \/ s # <<>>
    <3>1. SUFFICES ASSUME ts = <<>> PROVE s # <<>>
      OBVIOUS
    <3>2. PICK a : a = IF x = <<>> THEN <<>> ELSE << Head(x) >>
      OBVIOUS
    <3>3. a \in Seq(Block) /\ Len(a) = IF x = <<>> THEN 0 ELSE 1
      <4>1. CASE x = <<>>
        BY <3>2, <4>1
      <4>2. CASE x # <<>>
        <5>1. Head(x) \in Block
          BY <2>2, <4>2
        <5> QED BY <3>2, <4>2, <5>1
      <4> QED BY <4>1, <4>2
    <3>4. s = a \o c
      BY <2>1, <3>2 DEF Rest
    <3>5. Len(s) = Len(a) + Len(c) /\ Len(c) \in Nat /\ (c = <<>> <=> Len(c) = 0)
      <4>1. Len(s) = Len(a) + Len(c)
        BY <2>2, <3>3, <3>4, ConcatIs
      <4>2. Len(c) \in Nat /\ (c = <<>> <=> Len(c) = 0)
        BY <2>2, EmptySeq
      <4> QED BY <4>1, <4>2
    <3>6. Len(s) # 0
      BY <2>4, <3>1, <3>3, <3>5
    <3> QED BY <3>6
  <2>6. Len(ts \o s) = Len(ts) + Len(s) /\ Len(ts) \in Nat /\ Len(s) \in Nat /\ Len(ts) + Len(s) # 0
    BY <2>2, <2>3, ConcatIs, <2>5, EmptySeq
  <2>7. ts \o s # <<>>
    BY <2>6
  <2> QED BY <2>3, <2>7
<1>10. ASSUME Contains(ks, "call") PROVE Blocks(m, "call") # <<>> /\ Differ(Blocks(m, "call"))
  <2>1. PICK i \in 1..n : ks[i] = "call"
    <3>1. Len(ks) = n
      BY <1>1, <1>2
    <3> QED BY <1>10, <3>1 DEF Contains
  <2>2. Blocks(m, "call") # <<>>
    BY <1>8, <2>1
  <2>3. \A j \in 1..Len(m.content) : m.content[j].kind = "call" => m.content[j].at = j
    BY <1>4, <1>5, <1>7
  <2>4. Differ(Blocks(m, "call"))
    BY <1>7, <2>3, BlocksDiffer DEF Differ
  <2> QED BY <2>2, <2>4
<1> QED BY <1>7, <1>9, <1>10

LEMMA InitReplay == ReplayInit => ReplayInv
<1> SUFFICES ASSUME ReplayInit PROVE ReplayInv
  OBVIOUS
<1>1. conv = <<>> /\ log = <<>> /\ flushed = 0 /\ stage = "idle"
      /\ made = [records |-> 0, rounds |-> 0, thoughts |-> 0, kills |-> 0]
  BY DEF ReplayInit
<1>2. ReplayTyped
  BY <1>1 DEF ReplayTyped, Counts
<1>3. PICK r : r = Empty
  OBVIOUS
<1>4. r \in Readings /\ r.conv = <<>>
  <2>1. r = [conv |-> <<>>, pending |-> {}, ok |-> TRUE]
    BY <1>3 DEF Empty
  <2> QED BY <2>1 DEF Readings
<1>5. ReadsInto(Empty, log, r)
  BY <1>1, <1>3, <1>4, ReadsNone
<1>6. Follows(r, conv, log, stage)
  BY <1>1, <1>4, ResumedFollows
<1> QED BY <1>2, <1>5, <1>6 DEF ReplayInv, Followed

LEMMA NewText ==
    ASSUME ReplayTyped, made.records < MaxRecords
    PROVE  New \in Records /\ Text(New) \in Block
<1>1. PICK k : k = New
  OBVIOUS
<1>2. k \in 1..MaxRecords /\ MaxBlocks \in Nat
  BY <1>1, ReplayAssumption DEF ReplayTyped, Counts, New
<1>3. Text(k) \in Block
  BY <1>2 DEF Text, Block, Records
<1> QED BY <1>1, <1>2, <1>3 DEF Records

\* What the user says is merged, and recorded as one event.
LEMMA TextRecorded ==
    ASSUME ReplayTyped, UserSpeaks
    PROVE  /\ Text(New) \in Block
           /\ Event("user.message", << Text(New) >>) \in LogEvents
           /\ conv' = MergeUser(conv, Text(New))
           /\ log' = Append(log, Event("user.message", << Text(New) >>))
<1>1. PICK c, d, lg, lg2, b : c = conv /\ d = conv' /\ lg = log /\ lg2 = log' /\ b = Text(New)
  OBVIOUS
<1>2. c \in Seq(Messages) /\ lg \in Seq(LogEvents)
  BY <1>1 DEF ReplayTyped
<1>3. b \in Block
  BY <1>1, NewText DEF UserSpeaks
<1>4. PICK e, es : e = Event("user.message", << b >>) /\ es = << e >>
  OBVIOUS
<1>5. e \in LogEvents /\ es \in Seq(LogEvents) /\ Len(es) = 1
  <2>1. << b >> \in Seq(Block) /\ << b >> # <<>>
    BY <1>3
  <2>2. e \in LogEvents
    BY <1>4, <2>1, EventTyped
  <2> QED BY <1>4, <2>2
<1>6. d = MergeUser(c, b) /\ lg2 = Append(lg, e)
  <2>1. CASE EndsWithUser(c)
    BY <1>1, <1>4, <2>1 DEF UserSpeaks, AddUserText
  <2>2. CASE ~EndsWithUser(c)
    <3>1. PICK m : m = UserMessage(<< b >>)
      OBVIOUS
    <3>2. d = Append(c, m) /\ lg2 = lg \o EncodeAppend(m)
      BY <1>1, <2>2, <3>1 DEF UserSpeaks, AddUserText, AppendMessage
    <3>3. EncodeAppend(m) = es
      <4>1. m = [role |-> "user", content |-> << b >>]
        BY <3>1 DEF UserMessage
      <4>2. b.kind = "text"
        BY <1>1 DEF Text
      <4>3. EncodeAppend(m) = [i \in DOMAIN << b >> |->
                 Event(IF << b >>[i].kind = "text" THEN "user.message" ELSE "tool.completed", << << b >>[i] >>)]
        BY <4>1 DEF EncodeAppend, EncodeUserAppend
      <4>4. PICK f : f = EncodeAppend(m)
        OBVIOUS
      <4>5. DOMAIN << b >> = 1..1 /\ << b >>[1] = b
        OBVIOUS
      <4>6. f = [i \in 1..1 |-> e]
        <5>1. \A i \in 1..1 : << b >>[i] = b
          BY <4>5
        <5> QED BY <1>4, <4>2, <4>3, <4>4, <4>5, <5>1
      <4>7. f \in Seq(LogEvents) /\ Len(f) = 1 /\ f[1] = e
        BY <1>5, <4>6
      <4>8. f = es
        <5>1. \A i \in 1..1 : f[i] = es[i]
          BY <1>4, <4>7
        <5> QED BY <1>5, <4>7, <5>1, SeqEqual
      <4> QED BY <4>4, <4>8
    <3>4. lg \o es = Append(lg, e)
      BY <1>2, <1>4, <1>5
    <3>5. d = MergeUser(c, b)
      BY <2>2, <3>1, <3>2 DEF MergeUser
    <3> QED BY <3>2, <3>3, <3>4, <3>5
  <2> QED BY <2>1, <2>2
<1> QED BY <1>1, <1>3, <1>4, <1>5, <1>6

LEMMA UserSpeaksKeeps ==
    ASSUME ReplayInv, UserSpeaks
    PROVE  ReplayInv'
<1>1. PICK c, d, lg, lg2, st, b : c = conv /\ d = conv' /\ lg = log /\ lg2 = log' /\ st = stage /\ b = Text(New)
  OBVIOUS
<1>2. ReplayTyped /\ c \in Seq(Messages) /\ lg \in Seq(LogEvents) /\ flushed \in 0..Len(lg)
  BY <1>1 DEF ReplayInv, ReplayTyped
<1>3. PICK r : ReadsInto(Empty, lg, r) /\ Follows(r, c, lg, st)
  BY <1>1 DEF ReplayInv, Followed
<1>4. PICK e : e = Event("user.message", << b >>)
  OBVIOUS
<1>5. b \in Block /\ e \in LogEvents
  BY <1>1, <1>2, <1>4, TextRecorded
<1>6. d = MergeUser(c, b) /\ lg2 = Append(lg, e)
  BY <1>1, <1>2, <1>4, TextRecorded
<1>7. stage' = "reply" /\ flushed' = flushed /\ made' = [made EXCEPT !.records = @ + 1]
  BY DEF UserSpeaks
<1>8. Followed(lg2, d, "reply")
  BY <1>2, <1>3, <1>4, <1>5, <1>6, UserFollows
<1>9. d \in Seq(Messages) /\ lg2 \in Seq(LogEvents) /\ Len(lg2) = Len(lg) + 1
  BY <1>2, <1>5, <1>6, MergeTyped, AppendProperties
<1>10. flushed' \in 0..Len(lg2)
  BY <1>2, <1>7, <1>9
<1>11. made' \in Counts
  BY <1>2, CountsGrow, <1>7 DEF ReplayTyped
<1>12. ReplayTyped'
  BY <1>1, <1>7, <1>9, <1>10, <1>11 DEF ReplayTyped
<1> QED BY <1>1, <1>7, <1>8, <1>12 DEF ReplayInv

LEMMA ReplyFailsKeeps ==
    ASSUME ReplayInv, ReplyFails
    PROVE  ReplayInv'
<1>1. conv' = conv /\ log' = log /\ made' = made /\ stage' = "idle" /\ flushed' = Len(log)
  BY DEF ReplyFails, Idle
<1>2. ReplayTyped /\ Len(log) \in Nat
  BY DEF ReplayInv, ReplayTyped
<1>3. ReplayTyped'
  BY <1>1, <1>2 DEF ReplayTyped
<1>4. PICK r : ReadsInto(Empty, log, r) /\ Follows(r, conv, log, stage)
  BY DEF ReplayInv, Followed
<1>5. Follows(r, conv, log, "idle")
  BY <1>4 DEF Follows
<1>6. ReadsInto(Empty, log', r) /\ Follows(r, conv', log', stage')
  BY <1>1, <1>4, <1>5
<1> QED BY <1>3, <1>6 DEF ReplayInv, Followed

LEMMA RepliesKeeps ==
    ASSUME ReplayInv, NEW ks \in Shapes, Replies(ks)
    PROVE  ReplayInv'
<1>1. PICK c, d, lg, lg2, st, st2, k : /\ c = conv /\ d = conv' /\ lg = log /\ lg2 = log'
                                       /\ st = stage /\ st2 = stage' /\ k = New
  OBVIOUS
<1>2. ReplayTyped /\ c \in Seq(Messages) /\ lg \in Seq(LogEvents) /\ flushed \in 0..Len(lg)
  BY <1>1 DEF ReplayInv, ReplayTyped
<1>3. PICK r : ReadsInto(Empty, lg, r) /\ Follows(r, c, lg, st)
  BY <1>1 DEF ReplayInv, Followed
<1>4. k \in Records
  BY <1>1, <1>2, NewText DEF Replies
<1>5. PICK bs, m, es : /\ bs = [i \in DOMAIN ks |-> [kind |-> ks[i], of |-> k, at |-> IF ks[i] = "call" THEN i ELSE 0]]
                       /\ m = AssistantMessage(bs) /\ es = EncodeAppend(m)
  OBVIOUS
<1>6. d = Append(c, m) /\ lg2 = lg \o es
  <2>1. bs = [i \in DOMAIN ks |-> BlockAt(ks, i)]
    BY <1>1, <1>5 DEF BlockAt
  <2> QED BY <1>1, <1>5, <2>1 DEF Replies, AppendMessage
<1>7. /\ m \in Messages /\ m.role = "assistant" /\ Arranged(m) # <<>>
      /\ Contains(ks, "call") => Blocks(m, "call") # <<>> /\ Differ(Blocks(m, "call"))
  BY <1>4, <1>5, ReplyShape
<1>8. /\ st2 \in {"tools", "idle"} /\ (st2 = "tools" => Contains(ks, "call"))
      /\ (flushed' = flushed \/ flushed' = Len(lg2))
  BY <1>1 DEF Replies, Idle
<1>9. Followed(lg2, d, st2)
  BY <1>2, <1>3, <1>5, <1>6, <1>7, <1>8, ReplyFollows
<1>10. d \in Seq(Messages) /\ lg2 \in Seq(LogEvents) /\ Len(lg) \in Nat /\ Len(lg2) \in Nat /\ Len(lg) <= Len(lg2)
  <2>1. d \in Seq(Messages)
    BY <1>2, <1>6, <1>7, AppendProperties
  <2>2. r \in Readings
    BY <1>2, <1>3, ResumeIs
  <2>3. es \in Seq(LogEvents)
    BY <1>5, <1>7, <2>2, ReplyRead
  <2>4. lg2 \in Seq(LogEvents) /\ Len(lg2) = Len(lg) + Len(es)
    BY <1>2, <1>6, <2>3, ConcatIs
  <2>5. Len(lg) \in Nat /\ Len(es) \in Nat
    BY <1>2, <2>3
  <2> QED BY <2>1, <2>4, <2>5
<1>11. flushed' \in 0..Len(lg2)
  BY <1>2, <1>8, <1>10
<1>12. made' \in Counts
  <2>1. made' = [made EXCEPT !.records = @ + 1,
                             !.thoughts = @ + IF Contains(ks, "thinking") THEN 1 ELSE 0,
                             !.rounds = @ + IF Contains(ks, "call") THEN 1 ELSE 0]
    BY DEF Replies
  <2>2. PICK x, t, u : /\ x = made /\ t = (IF Contains(ks, "thinking") THEN 1 ELSE 0)
                       /\ u = (IF Contains(ks, "call") THEN 1 ELSE 0)
    OBVIOUS
  <2>3. x \in Counts /\ t \in Nat /\ u \in Nat
    BY <1>2, <2>2 DEF ReplayTyped
  <2>4. PICK f, g : f = [x EXCEPT !.records = @ + 1] /\ g = [f EXCEPT !.thoughts = @ + t]
    OBVIOUS
  <2>5. f \in Counts /\ g \in Counts
    BY <2>3, <2>4, CountsGrow
  <2>6. [g EXCEPT !.rounds = @ + u] \in Counts
    BY <2>3, <2>5, CountsGrow
  <2>7. made' = [g EXCEPT !.rounds = @ + u]
    BY <2>1, <2>2, <2>4
  <2> QED BY <2>6, <2>7
<1>13. ReplayTyped'
  BY <1>1, <1>8, <1>10, <1>11, <1>12 DEF ReplayTyped
<1> QED BY <1>1, <1>9, <1>13 DEF ReplayInv

LEMMA ToolsAnswerKeeps ==
    ASSUME ReplayInv, ToolsAnswer
    PROVE  ReplayInv'
<1>1. PICK c, d, lg, lg2, st2 : c = conv /\ d = conv' /\ lg = log /\ lg2 = log' /\ st2 = stage'
  OBVIOUS
<1>2. ReplayTyped /\ c \in Seq(Messages) /\ lg \in Seq(LogEvents) /\ flushed \in 0..Len(lg)
  BY <1>1 DEF ReplayInv, ReplayTyped
<1>3. PICK r : ReadsInto(Empty, lg, r) /\ Follows(r, c, lg, "tools")
  BY <1>1 DEF ReplayInv, Followed, ToolsAnswer
<1>4. PICK m : m = Answer(c)
  OBVIOUS
<1>5. d = Append(c, m) /\ lg2 = lg \o EncodeAppend(m)
  BY <1>1, <1>4 DEF ToolsAnswer, AppendMessage, Answer, RoundResults, Last
<1>6. st2 \in {"reply", "idle"} /\ (flushed' = flushed \/ flushed' = Len(lg2)) /\ made' = made
  BY <1>1 DEF ToolsAnswer, Idle
<1>7. st2 # "tools"
  BY <1>6
<1>8. /\ d \in Seq(Messages) /\ lg2 \in Seq(LogEvents) /\ Len(lg) <= Len(lg2)
      /\ Followed(lg2, d, st2)
  <2>1. /\ Append(c, Answer(c)) \in Seq(Messages)
        /\ lg \o EncodeAppend(Answer(c)) \in Seq(LogEvents)
        /\ Len(lg) <= Len(lg \o EncodeAppend(Answer(c)))
        /\ \A st : st # "tools" => Followed(lg \o EncodeAppend(Answer(c)), Append(c, Answer(c)), st)
    BY <1>2, <1>3, AnswersFollow
  <2> QED BY <1>4, <1>5, <1>7, <2>1
<1>9. Len(lg) \in Nat /\ Len(lg2) \in Nat
  BY <1>2, <1>8
<1>10. flushed' \in 0..Len(lg2)
  BY <1>2, <1>6, <1>8, <1>9
<1>11. ReplayTyped'
  BY <1>1, <1>2, <1>6, <1>8, <1>10 DEF ReplayTyped
<1> QED BY <1>1, <1>8, <1>11 DEF ReplayInv

LEMMA CompactsKeeps ==
    ASSUME ReplayInv, Compacts
    PROVE  ReplayInv'
<1>1. PICK c, d, lg, lg2, st, n, to : /\ c = conv /\ d = conv' /\ lg = log /\ lg2 = log' /\ st = stage
                                      /\ n = New /\ to = CompactTo(conv)
  OBVIOUS
<1>2. ReplayTyped /\ c \in Seq(Messages) /\ lg \in Seq(LogEvents) /\ flushed \in 0..Len(lg)
  BY <1>1 DEF ReplayInv, ReplayTyped
<1>3. PICK r : ReadsInto(Empty, lg, r) /\ Follows(r, c, lg, st)
  BY <1>1 DEF ReplayInv, Followed
<1>4. Text(n) \in Block
  BY <1>1, <1>2, NewText DEF Compacts
<1>5. /\ CanCompact(c) /\ d = ApplyCompaction(c, 1, to, Text(n)) /\ lg2 = Append(lg, Applied(1, to, n))
      /\ to = CompactTo(c)
  BY <1>1 DEF Compacts
<1>6. /\ st = "idle" /\ stage' = st /\ (flushed' = flushed \/ flushed' = Len(lg2))
      /\ made' = [made EXCEPT !.records = @ + 1]
  BY <1>1 DEF Compacts
<1>7. st # "tools"
  BY <1>6
<1>8. /\ d \in Seq(Messages) /\ lg2 \in Seq(LogEvents) /\ Len(lg2) = Len(lg) + 1
      /\ Followed(lg2, d, st)
  <2>1. /\ ApplyCompaction(c, 1, to, Text(n)) \in Seq(Messages)
        /\ Append(lg, Applied(1, to, n)) \in Seq(LogEvents)
        /\ Len(Append(lg, Applied(1, to, n))) = Len(lg) + 1
        /\ Followed(Append(lg, Applied(1, to, n)), ApplyCompaction(c, 1, to, Text(n)), st)
    BY <1>2, <1>3, <1>4, <1>5, <1>7, CompactionFollows
  <2> QED BY <1>5, <2>1
<1>9. Len(lg) \in Nat
  BY <1>2
<1>10. flushed' \in 0..Len(lg2)
  BY <1>2, <1>6, <1>8, <1>9
<1>11. made' \in Counts
  BY <1>2, CountsGrow, <1>6 DEF ReplayTyped
<1>12. ReplayTyped'
  BY <1>1, <1>6, <1>8, <1>10, <1>11 DEF ReplayTyped
<1> QED BY <1>1, <1>6, <1>8, <1>12 DEF ReplayInv

LEMMA RestartsKeeps ==
    ASSUME ReplayInv, Restarts
    PROVE  ReplayInv'
<1>1. ReplayTyped /\ log \in Seq(LogEvents) /\ flushed \in 0..Len(log)
  BY DEF ReplayInv, ReplayTyped
<1>2. PICK n \in flushed..Len(log) :
        LET r == Resume(SubSeq(log, 1, n))
        IN  /\ log' = IF r.ok THEN SubSeq(log, 1, n) ELSE <<>>
            /\ conv' = IF r.ok THEN r.conv ELSE <<>>
            /\ flushed' = Len(log')
  BY DEF Restarts
<1>3. PICK lg, lg2 : lg = log /\ lg2 = SubSeq(log, 1, n)
  OBVIOUS
<1>4. n \in 0..Len(lg)
  BY <1>1, <1>3
<1>5. lg \in Seq(LogEvents) /\ lg2 \in Seq(LogEvents) /\ Len(lg2) = n
  BY <1>1, <1>3, <1>4, PrefixIs
<1>6. PICK q : ReadsInto(Empty, lg, q)
  BY <1>3 DEF ReplayInv, Followed
<1>7. PICK p \in Readings : ReadsInto(Empty, lg2, p)
  <2>1. lg2 = SubSeq(lg, 1, n)
    BY <1>3
  <2> QED BY <1>4, <1>5, <1>6, <2>1, ReadsPrefix
<1>8. Resume(lg2) = p
  BY <1>5, <1>7, ResumeIs
<1>9. p.ok /\ p.conv \in Seq(Messages)
  BY DEF Readings
<1>10. log' = lg2 /\ conv' = p.conv /\ flushed' = n
  <2>1. log' = lg2 /\ conv' = p.conv /\ flushed' = Len(log')
    BY <1>2, <1>3, <1>8, <1>9
  <2> QED BY <1>5, <2>1
<1>11. stage' = "idle" /\ made' = [made EXCEPT !.kills = @ + 1]
  BY DEF Restarts
<1>12. made' \in Counts
  BY <1>1, CountsGrow, <1>11 DEF ReplayTyped
<1>13. n \in 0..Len(lg2)
  BY <1>4, <1>5
<1>14. ReplayTyped'
  BY <1>5, <1>9, <1>10, <1>11, <1>12, <1>13 DEF ReplayTyped
<1>15. Follows(p, conv', log', stage')
  BY <1>10, <1>11, ResumedFollows
<1> QED BY <1>7, <1>10, <1>14, <1>15 DEF ReplayInv, Followed

LEMMA ReplayInvRebuilds ==
    ASSUME ReplayInv
    PROVE  ResumeRebuilds
<1>1. PICK c, lg, f, st : c = conv /\ lg = log /\ f = flushed /\ st = stage
  OBVIOUS
<1>2. lg \in Seq(LogEvents) /\ f \in 0..Len(lg)
  BY <1>1 DEF ReplayInv, ReplayTyped
<1>3. PICK r : ReadsInto(Empty, lg, r) /\ Follows(r, c, lg, st)
  BY <1>1 DEF ReplayInv, Followed
<1>4. ASSUME NEW n \in f..Len(lg) PROVE Resume(SubSeq(lg, 1, n)).ok
  <2>1. n \in 0..Len(lg)
    BY <1>2
  <2>2. PICK s : s = SubSeq(lg, 1, n)
    OBVIOUS
  <2>3. s \in Seq(LogEvents)
    BY <1>2, <2>1, <2>2, PrefixIs
  <2>4. PICK p \in Readings : ReadsInto(Empty, s, p)
    BY <1>2, <1>3, <2>1, <2>2, ReadsPrefix
  <2>5. Resume(s) = p
    BY <2>3, <2>4, ResumeIs
  <2> QED BY <2>2, <2>5 DEF Readings
<1>5. Resume(lg) = r
  BY <1>2, <1>3, ResumeIs
<1>6. ASSUME ~CompactedThinking PROVE Canon(Resume(lg).conv) = Canon(c)
  <2>1. DOMAIN lg = 1..Len(lg)
    BY <1>2
  <2>2. ~ThoughtCompacted(lg)
    BY <1>1, <1>6, <2>1 DEF CompactedThinking, ThoughtCompacted
  <2> QED BY <1>3, <1>5, <2>2 DEF Follows
<1> QED BY <1>1, <1>4, <1>6 DEF ResumeRebuilds

\* Whenever the process ends, whatever reached the file is a well formed session,
\* and Resume makes of the whole log the conversation the process had.
THEOREM ResumeIsFaithful == ReplaySpec => []ResumeRebuilds
<1>1. ReplayInv /\ [ReplayNext]_replayVars => ReplayInv'
  <2> SUFFICES ASSUME ReplayInv, [ReplayNext]_replayVars PROVE ReplayInv'
    OBVIOUS
  <2>1. CASE UserSpeaks
    BY <2>1, UserSpeaksKeeps
  <2>2. CASE ReplyFails
    BY <2>2, ReplyFailsKeeps
  <2>3. CASE ToolsAnswer
    BY <2>3, ToolsAnswerKeeps
  <2>4. CASE Compacts
    BY <2>4, CompactsKeeps
  <2>5. CASE Restarts
    BY <2>5, RestartsKeeps
  <2>6. CASE \E ks \in Shapes : Replies(ks)
    BY <2>6, RepliesKeeps
  <2>7. CASE UNCHANGED replayVars
    BY <2>7 DEF replayVars, ReplayInv, ReplayTyped
  <2> QED BY <2>1, <2>2, <2>3, <2>4, <2>5, <2>6, <2>7 DEF ReplayNext
<1> QED BY <1>1, InitReplay, ReplayInvRebuilds, PTL DEF ReplaySpec

-----------------------------------------------------------------------------
(* What is read of a log has its calls and results in pairs *)

\* The results that the calls of a message need, and the results a message has.
Needs(m) == {ToolResult(b) : b \in Calls(m.content)}
Given(m) == Results(m.content)
HasText(m) == \E i \in 1..Len(m.content) : m.content[i].kind = "text"

\* What the message behind the i-th one has.
Behind(d, i) == IF i < Len(d) THEN Given(d[i + 1]) ELSE {}

\* The message whose calls may still need results: the last but for a user's.
OpenAt(d) == IF EndsWithUser(d) THEN Len(d) - 1 ELSE Len(d)

\* The user speaks first; calls are the assistant's, results the user's, and a
\* text of the user stands apart from results.
Orderly(d) ==
    /\ d # <<>> => d[1].role = "user"
    /\ \A i \in 1..Len(d) : IF d[i].role = "user" THEN Needs(d[i]) = {} ELSE Given(d[i]) = {}
    /\ \A i \in 1..Len(d) : d[i].role = "user" /\ HasText(d[i]) => Given(d[i]) = {}

\* The calls of every message have their results in the next one, and no others
\* are there, but for the pending ones.
Balanced(d, pending) ==
    /\ d # <<>> => Given(d[1]) = {}
    /\ \A i \in 1..Len(d) : Needs(d[i]) = Behind(d, i) \cup (IF i = OpenAt(d) THEN pending ELSE {})
    /\ pending # {} => OpenAt(d) > 0

\* Neighbouring messages are not joined by Canon, nor are their blocks moved.
Joined(c) ==
    \A i \in 1..Len(c) : c[i].role = "assistant" =>
        /\ Arranged(c[i]) = c[i].content
        /\ i = 1 \/ c[i - 1].role = "user"

\* The events that were results since the calls that are pending.
Counted(lg, pending) ==
    /\ IsFiniteSet(pending)
    /\ pending # {} =>
         \E i \in 1..Len(lg) : Cardinality(pending) + (Len(lg) - i) = Cardinality(Calls(lg[i].blocks))

\* The last message of the log is a result.
AnsweredLast(lg) ==
    \E i \in 1..Len(lg) : lg[i].type = "tool.completed"
                            /\ \A k \in (i + 1)..Len(lg) : lg[k].type = "compaction.applied"

Cut(lg) ==
    \E i \in 1..Len(lg) : \E j \in 1..Cardinality(Calls(lg[i].blocks)) :
        i + j <= Len(lg) /\ lg[i + j].type # "tool.completed"
Merged(lg) ==
    \E i, j \in 1..Len(lg) :
        /\ i < j /\ lg[i].type = "tool.completed" /\ lg[j].type = "user.message"
        /\ \A k \in (i + 1)..(j - 1) : lg[k].type = "compaction.applied"
Clean(lg) == ~ThoughtCompacted(lg) /\ ~Cut(lg) /\ ~Merged(lg)

\* The reading r of a log has its calls and results in pairs.
Pairs(lg, r) ==
    /\ ~Thought(lg) => Joined(r.conv)
    /\ Orderly(Canon(r.conv)) /\ Balanced(Canon(r.conv), r.pending)
    /\ EndsWithUser(r.conv) /\ r.pending # {} => ~HasText(Last(Canon(r.conv)))
    /\ EndsWithUser(r.conv) /\ Given(Last(Canon(r.conv))) # {} => AnsweredLast(lg)
    /\ Counted(lg, r.pending)

\* An event that the session records behind lg, when r is what was read of it.
Legal(lg, r, e) ==
    CASE e.type = "user.message" -> \E b \in Block : b.kind = "text" /\ e.blocks = << b >>
      [] e.type = "assistant.thinking" ->
           lg # <<>> /\ \E b \in Block : b.kind = "thinking" /\ e.blocks = << b >>
      [] e.type = "assistant.message" ->
           /\ e.blocks # <<>> /\ Arranged(AssistantMessage(e.blocks)) = e.blocks
           /\ Results(e.blocks) = {}
           /\ Thought(lg) \/ EndsWithUser(r.conv)
      [] e.type = "tool.completed" -> \E b \in Block : b.kind = "result" /\ e.blocks = << b >>
      [] e.type = "compaction.applied" ->
           /\ \E b \in Block : b.kind = "text" /\ e.blocks = << b >>
           /\ e.from = 1
           /\ Thought(lg) \/ (/\ e.to >= 1 /\ e.to + 2 <= Len(r.conv)
                              /\ r.conv[e.to + 2].role = "user" /\ HasText(r.conv[e.to + 2])
                              /\ Cardinality({t \in TurnStarts(r.conv) : t >= e.to + 1}) = KeepTurns)

\* What was read of a log when its n-th event is read.
Before(lg, n) == SubSeq(lg, 1, n - 1)
LegalLog(lg) == \A n \in 1..Len(lg) : Legal(Before(lg, n), Resume(Before(lg, n)), lg[n])

\* A request is sent when nothing is pending.
Ready(lg, c, st) ==
    st = "reply" => EndsWithUser(c) /\ (Clean(lg) => Resume(lg).pending = {})
-----------------------------------------------------------------------------
(* Blocks, calls and results *)

LEMMA BlocksJoined ==
    ASSUME NEW s \in Seq(Block), NEW t \in Seq(Block)
    PROVE  /\ Calls(s \o t) = Calls(s) \cup Calls(t)
           /\ Results(s \o t) = Results(s) \cup Results(t)
<1>1. PICK u, n, k : u = s \o t /\ n = Len(s) /\ k = Len(t)
  OBVIOUS
<1>2. /\ u \in Seq(Block) /\ Len(u) = n + k /\ n \in Nat /\ k \in Nat
      /\ \A i \in 1..(n + k) : u[i] = IF i <= n THEN s[i] ELSE t[i - n]
  BY <1>1, ConcatIs
<1>3. DOMAIN u = 1..(n + k) /\ DOMAIN s = 1..n /\ DOMAIN t = 1..k
  BY <1>1, <1>2
<1>4. ToSet(u) \subseteq ToSet(s) \cup ToSet(t)
  <2>1. SUFFICES ASSUME NEW i \in 1..(n + k) PROVE u[i] \in ToSet(s) \cup ToSet(t)
    BY <1>3 DEF ToSet
  <2>2. CASE i <= n
    <3>1. i \in 1..n
      BY <2>2
    <3>2. u[i] = s[i]
      BY <1>2, <2>2
    <3> QED BY <1>3, <3>1, <3>2 DEF ToSet
  <2>3. CASE ~(i <= n)
    <3>1. i - n \in 1..k
      BY <1>2, <2>3
    <3>2. u[i] = t[i - n]
      BY <1>2, <2>3
    <3> QED BY <1>3, <3>1, <3>2 DEF ToSet
  <2> QED BY <2>2, <2>3
<1>5. ToSet(s) \subseteq ToSet(u)
  BY <1>3, <1>2 DEF ToSet
<1>6. ToSet(t) \subseteq ToSet(u)
  <2>1. SUFFICES ASSUME NEW i \in 1..k PROVE t[i] \in ToSet(u)
    BY <1>3 DEF ToSet
  <2>2. PICK j : j = n + i
    OBVIOUS
  <2>3. j \in 1..(n + k) /\ ~(j <= n) /\ j - n = i
    BY <1>2, <2>2
  <2>4. u[j] = t[i]
    BY <1>2, <2>3
  <2> QED BY <1>3, <2>3, <2>4 DEF ToSet
<1>7. ToSet(u) = ToSet(s) \cup ToSet(t)
  BY <1>4, <1>5, <1>6
<1> QED BY <1>1, <1>7 DEF Calls, Results

LEMMA OneBlock ==
    ASSUME NEW b
    PROVE  /\ Calls(<< b >>) = IF b.kind = "call" THEN {b} ELSE {}
           /\ Results(<< b >>) = IF b.kind = "result" THEN {b} ELSE {}
<1>1. ToSet(<< b >>) = {b}
  BY DEF ToSet
<1> QED BY <1>1 DEF Calls, Results

LEMMA BlockAdded ==
    ASSUME NEW m \in Messages, NEW b \in Block
    PROVE  /\ With(m, b) \in Messages /\ With(m, b).role = m.role
           /\ Calls(With(m, b).content) = Calls(m.content) \cup (IF b.kind = "call" THEN {b} ELSE {})
           /\ Results(With(m, b).content) = Results(m.content) \cup (IF b.kind = "result" THEN {b} ELSE {})
           /\ HasText(With(m, b)) <=> (HasText(m) \/ b.kind = "text")
<1>1. PICK s, t, w : s = m.content /\ t = << b >> /\ w = With(m, b)
  OBVIOUS
<1>2. s \in Seq(Block) /\ t \in Seq(Block) /\ Append(s, b) = s \o t /\ Append(s, b) \in Seq(Block)
  BY <1>1, AppendProperties DEF Messages
<1>3. w \in Messages /\ w.role = m.role /\ w.content = Append(s, b)
  BY <1>1, <1>2 DEF With, Messages
<1>4. Calls(w.content) = Calls(s) \cup Calls(t) /\ Results(w.content) = Results(s) \cup Results(t)
  BY <1>2, <1>3, BlocksJoined
<1>5. /\ Calls(t) = IF b.kind = "call" THEN {b} ELSE {}
      /\ Results(t) = IF b.kind = "result" THEN {b} ELSE {}
  BY <1>1, OneBlock
<1>6. HasText(w) <=> (HasText(m) \/ b.kind = "text")
  <2>1. PICK n : n = Len(s)
    OBVIOUS
  <2>2. n \in Nat /\ Len(w.content) = n + 1 /\ w.content[n + 1] = b
        /\ \A i \in 1..n : w.content[i] = s[i]
    BY <1>2, <1>3, <2>1, AppendProperties
  <2>3. \A i \in 1..(n + 1) : i = n + 1 \/ i \in 1..n
    BY <2>2
  <2>4. n + 1 \in 1..(n + 1) /\ \A i \in 1..n : i \in 1..(n + 1)
    BY <2>2
  <2> QED BY <1>1, <2>1, <2>2, <2>3, <2>4 DEF HasText
<1> QED BY <1>1, <1>3, <1>4, <1>5, <1>6

\* A set of calls is finite, and has as many results.
LEMMA NeedsFinite ==
    ASSUME NEW bs \in Seq(Block)
    PROVE  /\ IsFiniteSet({ToolResult(b) : b \in Calls(bs)})
           /\ Cardinality({ToolResult(b) : b \in Calls(bs)}) = Cardinality(Calls(bs))
           /\ Cardinality(Calls(bs)) \in Nat
<1>1. PICK C, R, n : C = Calls(bs) /\ R = {ToolResult(b) : b \in Calls(bs)} /\ n = Len(bs)
  OBVIOUS
<1>2. n \in Nat /\ C \subseteq {bs[i] : i \in 1..n} /\ C \subseteq Block
      /\ \A b \in C : b.kind = "call"
  BY <1>1 DEF Calls, ToSet
<1>3. IsFiniteSet(C)
  <2>1. PICK I : I = {i \in 1..n : bs[i] \in C}
    OBVIOUS
  <2>2. IsFiniteSet(I)
    <3>1. IsFiniteSet(1..n)
      BY <1>2, FS_Interval
    <3>2. I \in SUBSET (1..n)
      BY <2>1
    <3> QED BY <3>1, <3>2, FS_Subset
  <2>3. PICK f : f = [i \in I |-> bs[i]]
    OBVIOUS
  <2>4. f \in Surjection(I, C)
    <3>1. f \in [I -> C]
      BY <2>1, <2>3
    <3>2. \A b \in C : \E i \in I : f[i] = b
      BY <1>2, <2>1, <2>3
    <3> QED BY <3>1, <3>2 DEF Surjection
  <2> QED BY <2>2, <2>4, FS_Surjection
<1>4. PICK g : g = [b \in C |-> ToolResult(b)]
  OBVIOUS
<1>5. g \in Bijection(C, R)
  <2>1. g \in [C -> R]
    BY <1>1, <1>4
  <2>2. ASSUME NEW a \in C, NEW b \in C, g[a] = g[b] PROVE a = b
    BY <1>4, <2>2, <1>2 DEF ToolResult, Block
  <2>3. \A x \in R : \E b \in C : g[b] = x
    BY <1>1, <1>4
  <2> QED BY <2>1, <2>2, <2>3 DEF Bijection, Injection, Surjection, IsInjective
<1>6. ExistsBijection(C, R)
  BY <1>5 DEF ExistsBijection
<1>7. IsFiniteSet(R) /\ Cardinality(R) = Cardinality(C)
  BY <1>3, <1>6, FS_Bijection
<1>8. Cardinality(C) \in Nat
  BY <1>3, FS_CardinalityType
<1> QED BY <1>1, <1>7, <1>8
-----------------------------------------------------------------------------
(* Calls and results in pairs *)

\* e is d with the message m put at k, behind the last one or in its place.
Placed(e, d, k, m) ==
    /\ e \in Seq(Messages) /\ Len(e) = k
    /\ k \in Nat \ {0} /\ (k = Len(d) \/ k = Len(d) + 1)
    /\ e[k] = m
    /\ \A i \in 1..(k - 1) : e[i] = d[i]

LEMMA PlacedLast ==
    ASSUME NEW d, NEW e, NEW k, NEW m, Placed(e, d, k, m)
    PROVE  /\ e # <<>> /\ Last(e) = m
           /\ EndsWithUser(e) <=> m.role = "user"
           /\ OpenAt(e) = IF m.role = "user" THEN k - 1 ELSE k
<1>1. e # <<>>
  BY DEF Placed
<1>2. Last(e) = m
  BY DEF Placed, Last
<1>3. EndsWithUser(e) <=> m.role = "user"
  BY <1>1, <1>2 DEF EndsWithUser
<1>4. Len(e) = k
  BY DEF Placed
<1> QED BY <1>1, <1>2, <1>3, <1>4 DEF OpenAt

LEMMA PlacedBehind ==
    ASSUME NEW d \in Seq(Messages), NEW e, NEW k, NEW m, Placed(e, d, k, m)
    PROVE  /\ \A i \in 1..(k - 1) : i + 1 # k => Behind(e, i) = Behind(d, i)
           /\ \A i \in 1..(k - 1) : i + 1 = k => Behind(e, i) = Given(m)
           /\ Behind(e, k) = {}
<1>1. /\ Len(e) = k /\ k \in Nat \ {0} /\ e[k] = m /\ (k = Len(d) \/ k = Len(d) + 1)
      /\ \A i \in 1..(k - 1) : e[i] = d[i]
  BY DEF Placed
<1>2. ASSUME NEW i \in 1..(k - 1), i + 1 # k PROVE Behind(e, i) = Behind(d, i)
  BY <1>1, <1>2 DEF Behind
<1>3. ASSUME NEW i \in 1..(k - 1), i + 1 = k PROVE Behind(e, i) = Given(m)
  <2>1. i < k
    BY <1>1
  <2> QED BY <1>1, <1>3, <2>1 DEF Behind
<1>4. Behind(e, k) = {}
  BY <1>1 DEF Behind
<1> QED BY <1>2, <1>3, <1>4

\* A message that fits its role keeps the order.
LEMMA PlacedOrderly ==
    ASSUME NEW d \in Seq(Messages), NEW e, NEW k, NEW m \in Messages, Placed(e, d, k, m),
           Orderly(d),
           IF m.role = "user" THEN Needs(m) = {} /\ (HasText(m) => Given(m) = {})
                              ELSE Given(m) = {} /\ k > 1
    PROVE  Orderly(e)
<1>1. /\ Len(e) = k /\ k \in Nat \ {0} /\ e[k] = m /\ (k = Len(d) \/ k = Len(d) + 1)
      /\ \A i \in 1..(k - 1) : e[i] = d[i]
  BY DEF Placed
<1>2. \A i \in 1..k : i = k \/ (i \in 1..(k - 1) /\ i \in 1..Len(d) /\ e[i] = d[i])
  <2>1. \A i \in 1..k : i = k \/ (i \in 1..(k - 1) /\ i \in 1..Len(d))
    BY <1>1
  <2> QED BY <1>1, <2>1
<1>3. m.role \in {"user", "assistant"}
  BY DEF Messages
<1>4. e[1].role = "user"
  <2>1. CASE k = 1
    BY <1>1, <1>3, <2>1
  <2>2. CASE k # 1
    <3>1. 1 \in 1..(k - 1) /\ d # <<>>
      BY <1>1, <2>2
    <3> QED BY <1>1, <3>1 DEF Orderly
  <2> QED BY <2>1, <2>2
<1>5. \A i \in 1..k : IF e[i].role = "user" THEN Needs(e[i]) = {} ELSE Given(e[i]) = {}
  BY <1>1, <1>2 DEF Orderly
<1>6. \A i \in 1..k : e[i].role = "user" /\ HasText(e[i]) => Given(e[i]) = {}
  BY <1>1, <1>2 DEF Orderly
<1> QED BY <1>1, <1>4, <1>5, <1>6 DEF Orderly

\* The user's message takes results, or a text: what is given and what is
\* pending are together what they were.
LEMMA UserPlaced ==
    ASSUME NEW d \in Seq(Messages), NEW pend, Orderly(d), Balanced(d, pend),
           NEW e, NEW k, NEW m \in Messages, Placed(e, d, k, m),
           m.role = "user", Needs(m) = {}, HasText(m) => Given(m) = {},
           EndsWithUser(d) => k = Len(d) /\ Given(d[k]) \subseteq Given(m),
           ~EndsWithUser(d) => k = Len(d) + 1,
           NEW pend2,
           Given(m) \cup pend2 = (IF EndsWithUser(d) THEN Given(d[k]) ELSE {}) \cup pend
    PROVE  Orderly(e) /\ Balanced(e, pend2)
<1>1. Orderly(e)
  BY PlacedOrderly
<1>2. /\ Len(e) = k /\ k \in Nat \ {0} /\ e[k] = m /\ Len(d) \in Nat
      /\ \A i \in 1..(k - 1) : e[i] = d[i]
  BY DEF Placed
<1>3. OpenAt(e) = k - 1
  BY PlacedLast
<1>4. OpenAt(d) = k - 1
  BY <1>2 DEF OpenAt
<1>5. \A i \in 1..(k - 1) : i \in 1..Len(d)
  BY <1>2
<1>6. k > 1 => Behind(d, k - 1) = IF EndsWithUser(d) THEN Given(d[k]) ELSE {}
  <2>1. CASE EndsWithUser(d)
    <3>1. k - 1 < Len(d) /\ (k - 1) + 1 = k
      BY <1>2, <2>1
    <3> QED BY <2>1, <3>1 DEF Behind
  <2>2. CASE ~EndsWithUser(d)
    <3>1. ~(k - 1 < Len(d))
      BY <1>2, <2>2
    <3> QED BY <2>2, <3>1 DEF Behind
  <2> QED BY <2>1, <2>2
<1>7. ASSUME NEW i \in 1..(k - 1), i + 1 # k PROVE Needs(e[i]) = Behind(e, i)
  <2>1. i # OpenAt(d)
    BY <1>2, <1>4, <1>7
  <2>2. Needs(d[i]) = Behind(d, i) \cup {}
    BY <1>5, <1>7, <2>1 DEF Balanced
  <2>3. Behind(e, i) = Behind(d, i)
    BY <1>7, PlacedBehind
  <2> QED BY <1>2, <1>7, <2>2, <2>3
<1>8. ASSUME NEW i \in 1..(k - 1), i + 1 = k PROVE Needs(e[i]) = Behind(e, i) \cup pend2
  <2>1. i = OpenAt(d) /\ i = k - 1 /\ k > 1
    BY <1>2, <1>4, <1>8
  <2>2. Needs(d[i]) = Behind(d, i) \cup pend
    BY <1>5, <1>8, <2>1 DEF Balanced
  <2>3. Behind(e, i) = Given(m)
    BY <1>8, PlacedBehind
  <2>4. Behind(d, i) = IF EndsWithUser(d) THEN Given(d[k]) ELSE {}
    BY <1>6, <2>1
  <2> QED BY <1>2, <1>8, <2>2, <2>3, <2>4
<1>9. Needs(e[k]) = Behind(e, k)
  BY <1>2, PlacedBehind
<1>10. ASSUME NEW i \in 1..k PROVE Needs(e[i]) = Behind(e, i) \cup (IF i = OpenAt(e) THEN pend2 ELSE {})
  <2>1. CASE i = k
    <3>1. i # OpenAt(e)
      BY <1>2, <1>3, <2>1
    <3> QED BY <1>9, <2>1, <3>1
  <2>2. CASE i # k /\ i + 1 = k
    <3>1. i \in 1..(k - 1) /\ i = OpenAt(e)
      BY <1>2, <1>3, <2>2
    <3> QED BY <1>8, <2>2, <3>1
  <2>3. CASE i # k /\ i + 1 # k
    <3>1. i \in 1..(k - 1) /\ i # OpenAt(e)
      BY <1>2, <1>3, <2>3
    <3> QED BY <1>7, <2>3, <3>1
  <2> QED BY <2>1, <2>2, <2>3
<1>11. k = 1 => Given(m) = {} /\ pend2 = {}
  <2>1. SUFFICES ASSUME k = 1 PROVE Given(m) = {} /\ pend2 = {}
    OBVIOUS
  <2>2. pend = {}
    <3>1. ~(OpenAt(d) > 0)
      BY <1>4, <2>1
    <3> QED BY <3>1 DEF Balanced
  <2>3. EndsWithUser(d) => Given(d[k]) = {}
    BY <2>1 DEF Balanced, EndsWithUser
  <2> QED BY <2>2, <2>3
<1>12. Given(e[1]) = {}
  <2>1. CASE k = 1
    BY <1>2, <1>11, <2>1
  <2>2. CASE k # 1
    <3>1. 1 \in 1..(k - 1) /\ d # <<>>
      BY <1>2, <1>5, <2>2
    <3> QED BY <1>2, <3>1 DEF Balanced
  <2> QED BY <2>1, <2>2
<1>13. pend2 # {} => OpenAt(e) > 0
  BY <1>2, <1>3, <1>11
<1>14. Balanced(e, pend2)
  BY <1>2, <1>10, <1>12, <1>13 DEF Balanced
<1> QED BY <1>1, <1>14

\* A reply needs results of its own when nothing was pending.
LEMMA ReplyPlaced ==
    ASSUME NEW d \in Seq(Messages), d # <<>>, Orderly(d), Balanced(d, {}),
           NEW e, NEW k, NEW m \in Messages, Placed(e, d, k, m),
           m.role = "assistant", Given(m) = {},
           k = Len(d) => ~EndsWithUser(d)
    PROVE  Orderly(e) /\ Balanced(e, Needs(m))
<1>2. /\ Len(e) = k /\ k \in Nat \ {0} /\ e[k] = m /\ Len(d) \in Nat \ {0}
      /\ (k = Len(d) \/ k = Len(d) + 1)
      /\ \A i \in 1..(k - 1) : e[i] = d[i]
  BY DEF Placed
<1>3. k > 1
  BY <1>2 DEF Orderly, EndsWithUser, Last
<1>1. Orderly(e)
  BY <1>3, PlacedOrderly
<1>4. OpenAt(e) = k
  BY PlacedLast
<1>5. \A i \in 1..(k - 1) : i \in 1..Len(d)
  BY <1>2
<1>6. Behind(d, k - 1) = {}
  <2>1. CASE k = Len(d)
    <3>1. k - 1 < Len(d) /\ (k - 1) + 1 = k /\ k \in 1..Len(d)
      BY <1>2, <2>1
    <3>2. d[k].role # "user"
      BY <2>1 DEF EndsWithUser, Last
    <3>3. Given(d[k]) = {}
      BY <3>1, <3>2 DEF Orderly
    <3> QED BY <3>1, <3>3 DEF Behind
  <2>2. CASE k # Len(d)
    <3>1. ~(k - 1 < Len(d))
      BY <1>2, <2>2
    <3> QED BY <3>1 DEF Behind
  <2> QED BY <2>1, <2>2
<1>7. \A i \in 1..(k - 1) : Needs(e[i]) = Behind(d, i)
  <2>1. \A i \in 1..Len(d) : Needs(d[i]) = Behind(d, i)
    BY DEF Balanced
  <2> QED BY <1>2, <1>5, <2>1
<1>8. \A i \in 1..(k - 1) : Behind(e, i) = Behind(d, i)
  <2>1. SUFFICES ASSUME NEW i \in 1..(k - 1) PROVE Behind(e, i) = Behind(d, i)
    OBVIOUS
  <2>2. CASE i + 1 # k
    BY <2>2, PlacedBehind
  <2>3. CASE i + 1 = k
    <3>1. Behind(e, i) = Given(m) /\ i = k - 1
      BY <1>2, <2>3, PlacedBehind
    <3> QED BY <1>6, <3>1
  <2> QED BY <2>2, <2>3
<1>9. Behind(e, k) = {}
  BY PlacedBehind
<1>10. ASSUME NEW i \in 1..k PROVE Needs(e[i]) = Behind(e, i) \cup (IF i = OpenAt(e) THEN Needs(m) ELSE {})
  <2>1. CASE i = k
    BY <1>2, <1>4, <1>9, <2>1
  <2>2. CASE i # k
    <3>1. i \in 1..(k - 1) /\ i # OpenAt(e)
      BY <1>2, <1>4, <2>2
    <3> QED BY <1>7, <1>8, <3>1
  <2> QED BY <2>1, <2>2
<1>11. Given(e[1]) = {}
  <2>1. 1 \in 1..(k - 1)
    BY <1>2, <1>3
  <2> QED BY <1>2, <2>1 DEF Balanced
<1>12. Balanced(e, Needs(m))
  BY <1>2, <1>3, <1>4, <1>10, <1>11 DEF Balanced
<1> QED BY <1>1, <1>12
-----------------------------------------------------------------------------
(* What an event does to the pairs *)

\* Where MergeUser puts a block, and the message it makes.
MergedAt(d) == IF EndsWithUser(d) THEN Len(d) ELSE Len(d) + 1
Merging(d, b) == IF EndsWithUser(d) THEN With(d[Len(d)], b) ELSE UserMessage(<< b >>)

\* The results that are in that message already.
GivenBefore(d) == IF EndsWithUser(d) THEN Given(d[Len(d)]) ELSE {}

LEMMA UserLast ==
    ASSUME NEW d \in Seq(Messages), EndsWithUser(d)
    PROVE  /\ Len(d) \in Nat \ {0} /\ Len(d) \in 1..Len(d)
           /\ d[Len(d)] \in Messages /\ d[Len(d)].role = "user" /\ Last(d) = d[Len(d)]
  BY FrontAndLast DEF EndsWithUser, Last

LEMMA MergePlaced ==
    ASSUME NEW d \in Seq(Messages), NEW b \in Block
    PROVE  /\ Merging(d, b) \in Messages /\ Merging(d, b).role = "user"
           /\ Placed(MergeUser(d, b), d, MergedAt(d), Merging(d, b))
<1>1. PICK n, k, m, e : n = Len(d) /\ k = MergedAt(d) /\ m = Merging(d, b) /\ e = MergeUser(d, b)
  OBVIOUS
<1>2. CASE EndsWithUser(d)
  <2>1. n \in Nat \ {0} /\ n \in 1..n /\ d[n] \in Messages /\ d[n].role = "user"
    BY <1>1, <1>2, UserLast
  <2>2. m = With(d[n], b) /\ k = n
    BY <1>1, <1>2 DEF Merging, MergedAt
  <2>3. m \in Messages /\ m.role = "user"
    BY <2>1, <2>2, BlockAdded
  <2>4. e = [d EXCEPT ![n] = m]
    BY <1>1, <1>2, <2>2 DEF MergeUser, With
  <2>5. e \in Seq(Messages) /\ Len(e) = n /\ \A i \in 1..n : e[i] = IF i = n THEN m ELSE d[i]
    BY <1>1, <2>1, <2>3, <2>4, ExceptSeq
  <2>6. \A i \in 1..(n - 1) : i \in 1..n /\ i # n
    BY <2>1
  <2>7. Placed(e, d, k, m)
    BY <1>1, <2>1, <2>2, <2>5, <2>6 DEF Placed
  <2> QED BY <1>1, <2>3, <2>7
<1>3. CASE ~EndsWithUser(d)
  <2>1. m = UserMessage(<< b >>) /\ k = n + 1 /\ e = Append(d, m)
    BY <1>1, <1>3 DEF Merging, MergedAt, MergeUser
  <2>2. m \in Messages /\ m.role = "user"
    BY <2>1 DEF UserMessage, Messages
  <2>3. e \in Seq(Messages) /\ Len(e) = n + 1 /\ e[n + 1] = m /\ n \in Nat /\ \A i \in 1..n : e[i] = d[i]
    BY <1>1, <2>1, <2>2, AppendProperties
  <2>4. (n + 1) - 1 = n
    BY <2>3
  <2>5. Placed(e, d, k, m)
    BY <1>1, <2>1, <2>3, <2>4 DEF Placed
  <2> QED BY <1>1, <2>2, <2>5
<1> QED BY <1>2, <1>3

LEMMA MergingIs ==
    ASSUME NEW d \in Seq(Messages), NEW b \in Block, b.kind \in {"text", "result"}, Orderly(d)
    PROVE  /\ Needs(Merging(d, b)) = {}
           /\ Given(Merging(d, b)) = GivenBefore(d) \cup (IF b.kind = "result" THEN {b} ELSE {})
           /\ HasText(Merging(d, b)) <=> (EndsWithUser(d) /\ HasText(d[Len(d)])) \/ b.kind = "text"
<1>1. PICK n, m : n = Len(d) /\ m = Merging(d, b)
  OBVIOUS
<1>2. CASE EndsWithUser(d)
  <2>1. n \in 1..n /\ d[n] \in Messages /\ d[n].role = "user"
    BY <1>1, <1>2, UserLast
  <2>2. m = With(d[n], b)
    BY <1>1, <1>2 DEF Merging
  <2>3. /\ Calls(m.content) = Calls(d[n].content) \cup (IF b.kind = "call" THEN {b} ELSE {})
        /\ Results(m.content) = Results(d[n].content) \cup (IF b.kind = "result" THEN {b} ELSE {})
        /\ HasText(m) <=> (HasText(d[n]) \/ b.kind = "text")
    BY <2>1, <2>2, BlockAdded
  <2>4. Calls(m.content) = Calls(d[n].content)
    BY <2>3
  <2>5. Needs(m) = Needs(d[n])
    BY <2>4 DEF Needs
  <2>6. Needs(d[n]) = {}
    BY <1>1, <2>1 DEF Orderly
  <2>7. Given(m) = GivenBefore(d) \cup (IF b.kind = "result" THEN {b} ELSE {})
    BY <1>1, <1>2, <2>3 DEF Given, GivenBefore
  <2> QED BY <1>1, <1>2, <2>3, <2>5, <2>6, <2>7
<1>3. CASE ~EndsWithUser(d)
  <2>1. m.content = << b >>
    BY <1>1, <1>3 DEF Merging, UserMessage
  <2>2. Calls(m.content) = {} /\ Results(m.content) = IF b.kind = "result" THEN {b} ELSE {}
    BY <2>1, OneBlock
  <2>3. Needs(m) = {}
    BY <2>2 DEF Needs
  <2>4. HasText(m) <=> b.kind = "text"
    BY <2>1 DEF HasText
  <2>5. Given(m) = GivenBefore(d) \cup (IF b.kind = "result" THEN {b} ELSE {})
    BY <1>3, <2>2 DEF Given, GivenBefore
  <2> QED BY <1>1, <1>3, <2>3, <2>4, <2>5
<1> QED BY <1>2, <1>3

\* A text of the user, when nothing is pending and it does not join results.
LEMMA TextPairs ==
    ASSUME NEW d \in Seq(Messages), Orderly(d), Balanced(d, {}), GivenBefore(d) = {},
           NEW b \in Block, b.kind = "text"
    PROVE  /\ Orderly(MergeUser(d, b)) /\ Balanced(MergeUser(d, b), {})
           /\ Given(Last(MergeUser(d, b))) = {}
<1>1. PICK k, m, e : k = MergedAt(d) /\ m = Merging(d, b) /\ e = MergeUser(d, b)
  OBVIOUS
<1>2. m \in Messages /\ m.role = "user" /\ Placed(e, d, k, m)
  BY <1>1, MergePlaced
<1>3. Needs(m) = {} /\ Given(m) = {}
  BY <1>1, MergingIs
<1>4. EndsWithUser(d) => k = Len(d) /\ Given(d[k]) = {}
  BY <1>1 DEF MergedAt, GivenBefore
<1>5. ~EndsWithUser(d) => k = Len(d) + 1
  BY <1>1 DEF MergedAt
<1>6. Given(m) \cup {} = (IF EndsWithUser(d) THEN Given(d[k]) ELSE {}) \cup {}
  BY <1>3, <1>4
<1>7. EndsWithUser(d) => k = Len(d) /\ Given(d[k]) \subseteq Given(m)
  BY <1>4
<1>8. Orderly(e) /\ Balanced(e, {})
  BY <1>2, <1>3, <1>5, <1>6, <1>7, UserPlaced
<1>9. Last(e) = m
  BY <1>2, PlacedLast
<1> QED BY <1>1, <1>3, <1>8, <1>9

\* A pending result, when its message has no text.
LEMMA ResultPairs ==
    ASSUME NEW d \in Seq(Messages), NEW pend, Orderly(d), Balanced(d, pend),
           EndsWithUser(d) => ~HasText(d[Len(d)]),
           NEW b \in Block, b.kind = "result", b \in pend
    PROVE  /\ Orderly(MergeUser(d, b)) /\ Balanced(MergeUser(d, b), pend \ {b})
           /\ ~HasText(Last(MergeUser(d, b)))
<1>1. PICK k, m, e, g : k = MergedAt(d) /\ m = Merging(d, b) /\ e = MergeUser(d, b) /\ g = GivenBefore(d)
  OBVIOUS
<1>2. m \in Messages /\ m.role = "user" /\ Placed(e, d, k, m)
  BY <1>1, MergePlaced
<1>3. Needs(m) = {} /\ Given(m) = g \cup {b} /\ ~HasText(m)
  BY <1>1, MergingIs
<1>4. EndsWithUser(d) => k = Len(d) /\ Given(d[k]) = g
  BY <1>1 DEF MergedAt, GivenBefore
<1>5. ~EndsWithUser(d) => k = Len(d) + 1 /\ g = {}
  BY <1>1 DEF MergedAt, GivenBefore
<1>6. Given(m) \cup (pend \ {b}) = (IF EndsWithUser(d) THEN Given(d[k]) ELSE {}) \cup pend
  BY <1>3, <1>4, <1>5
<1>7. EndsWithUser(d) => k = Len(d) /\ Given(d[k]) \subseteq Given(m)
  BY <1>3, <1>4
<1>8. ~EndsWithUser(d) => k = Len(d) + 1
  BY <1>5
<1>9. PICK rest : rest = pend \ {b}
  OBVIOUS
<1>10. Orderly(e) /\ Balanced(e, rest)
  BY <1>2, <1>3, <1>6, <1>7, <1>8, <1>9, UserPlaced
<1>11. Last(e) = m
  BY <1>2, PlacedLast
<1> QED BY <1>1, <1>3, <1>9, <1>10, <1>11

\* Where Put puts blocks of a reply, and the message it makes.
PutAt(d) == IF EndsWithUser(d) THEN Len(d) + 1 ELSE Len(d)
Putting(d, s) ==
    IF EndsWithUser(d) THEN AssistantMessage(s) ELSE [d[Len(d)] EXCEPT !.content = @ \o s]

LEMMA PutPlaced ==
    ASSUME NEW d \in Seq(Messages), d # <<>>, NEW s \in Seq(Block)
    PROVE  /\ Putting(d, s) \in Messages /\ Putting(d, s).role = "assistant"
           /\ Placed(Put(d, s), d, PutAt(d), Putting(d, s))
<1>1. PICK n, k, m, e : n = Len(d) /\ k = PutAt(d) /\ m = Putting(d, s) /\ e = Put(d, s)
  OBVIOUS
<1>2. n \in Nat \ {0} /\ n \in 1..n /\ d[n] \in Messages /\ Last(d) = d[n]
  BY <1>1, FrontAndLast DEF Last
<1>3. EndsWithUser(d) <=> d[n].role = "user"
  BY <1>2 DEF EndsWithUser
<1>4. CASE EndsWithUser(d)
  <2>1. m = AssistantMessage(s) /\ k = n + 1
    BY <1>1, <1>4 DEF Putting, PutAt
  <2>2. m \in Messages /\ m.role = "assistant"
    BY <2>1 DEF AssistantMessage, Messages
  <2>3. e = Append(d, m)
    BY <1>1, <1>2, <1>3, <1>4, <2>1 DEF Put
  <2>4. e \in Seq(Messages) /\ Len(e) = n + 1 /\ e[n + 1] = m /\ \A i \in 1..n : e[i] = d[i]
    BY <1>1, <2>2, <2>3, AppendProperties
  <2>5. (n + 1) - 1 = n
    BY <1>2
  <2>6. Placed(e, d, k, m)
    BY <1>1, <1>2, <2>1, <2>4, <2>5 DEF Placed
  <2> QED BY <1>1, <2>2, <2>6
<1>5. CASE ~EndsWithUser(d)
  <2>0. d[n].role = "assistant"
    BY <1>2, <1>3, <1>5 DEF Messages
  <2>1. m = [d[n] EXCEPT !.content = @ \o s] /\ k = n
    BY <1>1, <1>5 DEF Putting, PutAt
  <2>2. m \in Messages /\ m.role = "assistant"
    <3>1. d[n].content \o s \in Seq(Block)
      BY <1>2, ConcatProperties DEF Messages
    <3> QED BY <1>2, <2>0, <2>1, <3>1 DEF Messages
  <2>3. e = [d EXCEPT ![n] = m]
    BY <1>1, <1>2, <2>0, <2>1 DEF Put
  <2>4. e \in Seq(Messages) /\ Len(e) = n /\ \A i \in 1..n : e[i] = IF i = n THEN m ELSE d[i]
    BY <1>1, <1>2, <2>2, <2>3, ExceptSeq
  <2>5. \A i \in 1..(n - 1) : i \in 1..n /\ i # n
    BY <1>2
  <2>6. Placed(e, d, k, m)
    BY <1>1, <1>2, <2>1, <2>4, <2>5 DEF Placed
  <2> QED BY <1>1, <2>2, <2>6
<1> QED BY <1>4, <1>5

\* Blocks of a reply, when nothing is pending.
LEMMA ReplyPairs ==
    ASSUME NEW d \in Seq(Messages), d # <<>>, Orderly(d), Balanced(d, {}),
           NEW s \in Seq(Block), Results(s) = {}
    PROVE  /\ Orderly(Put(d, s))
           /\ Balanced(Put(d, s), {ToolResult(b) : b \in Calls(s)})
<1>1. PICK n, k, m, e : n = Len(d) /\ k = PutAt(d) /\ m = Putting(d, s) /\ e = Put(d, s)
  OBVIOUS
<1>2. m \in Messages /\ m.role = "assistant" /\ Placed(e, d, k, m)
  BY <1>1, PutPlaced
<1>3. n \in Nat \ {0} /\ n \in 1..n /\ d[n] \in Messages /\ Last(d) = d[n]
  BY <1>1, FrontAndLast DEF Last
<1>4. Calls(m.content) = Calls(s) /\ Results(m.content) = {}
  <2>1. CASE EndsWithUser(d)
    <3>1. m.content = s
      BY <1>1, <2>1 DEF Putting, AssistantMessage
    <3> QED BY <3>1
  <2>2. CASE ~EndsWithUser(d)
    <3>1. m.content = d[n].content \o s /\ d[n].content \in Seq(Block)
      BY <1>1, <1>3, <2>2 DEF Putting, Messages
    <3>2. Calls(m.content) = Calls(d[n].content) \cup Calls(s)
          /\ Results(m.content) = Results(d[n].content) \cup Results(s)
      BY <3>1, BlocksJoined
    <3>3. d[n].role # "user"
      BY <1>3, <2>2 DEF EndsWithUser
    <3>4. Results(d[n].content) = {}
      BY <1>1, <1>3, <3>3 DEF Orderly, Given
    <3>5. Needs(d[n]) = {}
      BY <1>1, <1>3 DEF Balanced, Behind
    <3>6. Calls(d[n].content) = {}
      BY <3>5 DEF Needs
    <3> QED BY <3>2, <3>4, <3>6
  <2> QED BY <2>1, <2>2
<1>5. Needs(m) = {ToolResult(b) : b \in Calls(s)} /\ Given(m) = {}
  BY <1>4 DEF Needs, Given
<1>6. k = Len(d) => ~EndsWithUser(d)
  BY <1>1, <1>3 DEF PutAt
<1>7. Orderly(e) /\ Balanced(e, Needs(m))
  BY <1>2, <1>5, <1>6, ReplyPlaced
<1> QED BY <1>1, <1>5, <1>7

\* A compaction, when nothing is pending and the message behind the range has a
\* text of the user.
LEMMA CompactionPairs ==
    ASSUME NEW d \in Seq(Messages), Orderly(d), Balanced(d, {}),
           NEW to \in Nat \ {0}, to + 2 <= Len(d),
           d[to + 2].role = "user", HasText(d[to + 2]), NEW b \in Block, b.kind = "text"
    PROVE  /\ Orderly(ApplyCompaction(d, 1, to, b))
           /\ Balanced(ApplyCompaction(d, 1, to, b), {})
<1>1. PICK e, m, n, k : /\ e = ApplyCompaction(d, 1, to, b) /\ m = AssistantMessage(<< b >>)
                        /\ n = Len(d) /\ k = Len(e)
  OBVIOUS
<1>2. m \in Messages /\ m.role = "assistant" /\ m.content = << b >>
  BY <1>1 DEF AssistantMessage, Messages
<1>3. /\ e \in Seq(Messages) /\ k = (n - to) + 1
      /\ \A i \in 1..k : e[i] = IF i = 1 THEN d[1] ELSE IF i = 2 THEN m ELSE d[(i + to) - 1]
  <2>1. e \in Seq(Messages) /\ Len(e) = (Len(d) - to) + 1 /\ Replaced(e, d, to, m)
    BY <1>1, <1>2, CompactedIs
  <2> QED BY <1>1, <2>1 DEF Replaced
<1>4. n \in Nat /\ to + 2 <= n /\ k \in Nat /\ k >= 3
  BY <1>1, <1>3
<1>5. Needs(m) = {} /\ Given(m) = {}
  <2>1. Calls(m.content) = {} /\ Results(m.content) = {}
    BY <1>2, OneBlock
  <2> QED BY <2>1 DEF Needs, Given
<1>6. d[1].role = "user" /\ Needs(d[1]) = {} /\ Given(d[1]) = {}
  <2>1. d # <<>> /\ 1 \in 1..Len(d)
    BY <1>1, <1>4
  <2> QED BY <2>1 DEF Orderly, Balanced
<1>7. Given(d[to + 2]) = {}
  <2>1. to + 2 \in 1..Len(d)
    BY <1>1, <1>4
  <2> QED BY <2>1 DEF Orderly
<1>8. e[1] = d[1] /\ e[2] = m /\ e[3] = d[to + 2]
  BY <1>4, <1>3
<1>9. \A i \in 1..k : i = 1 \/ i = 2 \/ (i \in 3..k /\ (i + to) - 1 \in 1..n)
  BY <1>3, <1>4
<1>10. \A i \in 3..k : e[i] = d[(i + to) - 1] /\ (i + to) - 1 \in 1..n
  BY <1>3, <1>4
<1>11. Orderly(e)
  <2>1. \A i \in 1..n : IF d[i].role = "user" THEN Needs(d[i]) = {} ELSE Given(d[i]) = {}
    BY <1>1 DEF Orderly
  <2>2. \A i \in 1..n : d[i].role = "user" /\ HasText(d[i]) => Given(d[i]) = {}
    BY <1>1 DEF Orderly
  <2>3. \A i \in 1..k : IF e[i].role = "user" THEN Needs(e[i]) = {} ELSE Given(e[i]) = {}
    BY <1>2, <1>5, <1>6, <1>8, <1>9, <1>10, <2>1
  <2>4. \A i \in 1..k : e[i].role = "user" /\ HasText(e[i]) => Given(e[i]) = {}
    BY <1>2, <1>6, <1>8, <1>9, <1>10, <2>2
  <2> QED BY <1>1, <1>6, <1>8, <2>3, <2>4 DEF Orderly
<1>12. \A i \in 1..n : Needs(d[i]) = Behind(d, i)
  BY <1>1 DEF Balanced
<1>13. ASSUME NEW i \in 1..k PROVE Needs(e[i]) = Behind(e, i)
  <2>1. CASE i = 1
    <3>1. i < k /\ i + 1 = 2
      BY <1>4, <2>1
    <3>2. Behind(e, i) = Given(m)
      BY <1>1, <1>8, <3>1 DEF Behind
    <3> QED BY <1>5, <1>6, <1>8, <2>1, <3>2
  <2>2. CASE i = 2
    <3>1. i < k /\ i + 1 = 3
      BY <1>4, <2>2
    <3>2. Behind(e, i) = Given(d[to + 2])
      BY <1>1, <1>8, <3>1 DEF Behind
    <3> QED BY <1>5, <1>7, <1>8, <2>2, <3>2
  <2>3. CASE i \in 3..k
    <3>1. PICK j : j = (i + to) - 1
      OBVIOUS
    <3>2. e[i] = d[j] /\ j \in 1..n
      BY <1>10, <2>3, <3>1
    <3>3. CASE i < k
      <4>1. i + 1 \in 3..k /\ ((i + 1) + to) - 1 = j + 1 /\ j < n
        BY <1>3, <1>4, <2>3, <3>1, <3>3
      <4>2. e[i + 1] = d[j + 1]
        BY <1>10, <4>1
      <4>3. Behind(e, i) = Given(e[i + 1]) /\ Behind(d, j) = Given(d[j + 1])
        BY <1>1, <3>3, <4>1 DEF Behind
      <4> QED BY <1>12, <3>2, <4>2, <4>3
    <3>4. CASE ~(i < k)
      <4>1. ~(j < n)
        BY <1>3, <1>4, <2>3, <3>1, <3>4
      <4>2. Behind(e, i) = {} /\ Behind(d, j) = {}
        BY <1>1, <3>4, <4>1 DEF Behind
      <4> QED BY <1>12, <3>2, <4>2
    <3> QED BY <3>3, <3>4
  <2> QED BY <1>9, <2>1, <2>2, <2>3
<1>14. Balanced(e, {})
  BY <1>13, <1>6, <1>8, <1>1 DEF Balanced
<1> QED BY <1>1, <1>11, <1>14
-----------------------------------------------------------------------------
(* Conversations that Canon leaves as they are *)

LEMMA TextArranged ==
    ASSUME NEW t \in Block, t.kind = "text"
    PROVE  Arranged(AssistantMessage(<<t>>)) = <<t>>
<1>1. PICK am, s : am = AssistantMessage(<<t>>) /\ s = <<t>>
  OBVIOUS
<1>2. am.content = s /\ s \in Seq(Block) /\ Len(s) = 1 /\ s[1] = t
  BY <1>1 DEF AssistantMessage
<1>3. Blocks(am, "text") = SubSeq(s, 0 + 1, 1)
  <2>1. StandTogether(s, "text", 0, 1)
    BY <1>2 DEF StandTogether
  <2>2. 0 \in Nat /\ 1 \in Nat /\ 0 <= 1 /\ 1 <= Len(s)
    BY <1>2
  <2> QED BY <1>2, <2>1, <2>2, BlocksRun
<1>4. ASSUME NEW kind \in {"thinking", "call"} PROVE Blocks(am, kind) = SubSeq(s, 0 + 1, 0)
  <2>1. StandTogether(s, kind, 0, 0)
    BY <1>2 DEF StandTogether
  <2>2. 0 \in Nat /\ 0 <= 0 /\ 0 <= Len(s)
    BY <1>2
  <2> QED BY <1>2, <2>1, <2>2, BlocksRun
<1>5. SubSeq(s, 1, 1) = s /\ SubSeq(s, 1, 0) = <<>>
  BY <1>2
<1>6. Arranged(am) = <<>> \o (<<t>> \o <<>>)
  <2>1. Blocks(am, "thinking") = <<>> /\ Blocks(am, "text") = s /\ Blocks(am, "call") = <<>>
    BY <1>3, <1>4, <1>5
  <2>2. s # <<>> /\ Head(s) = t
    BY <1>2
  <2>3. Rest(am) = <<t>> \o <<>>
    BY <2>1, <2>2 DEF Rest
  <2>4. Arranged(am) = Blocks(am, "thinking") \o Rest(am)
    BY <1>2, RestIs
  <2> QED BY <2>1, <2>3, <2>4
<1>7. <<>> \o (<<t>> \o <<>>) = <<t>>
  BY <1>1, <1>2, ConcatEmptySeq
<1> QED BY <1>1, <1>6, <1>7

LEMMA JoinedCanon ==
    ASSUME NEW c \in Seq(Messages), Joined(c)
    PROVE  Canon(c) = c
<1> DEFINE G == {s \in Seq(Messages) : Joined(s) => Canon(s) = s}
<1>1. <<>> \in G
  BY CanonNone
<1>2. ASSUME NEW s \in Seq(Messages), NEW x \in Messages, s \in G PROVE Append(s, x) \in G
  <2>1. PICK t, n : t = Append(s, x) /\ n = Len(s)
    OBVIOUS
  <2>2. /\ t \in Seq(Messages) /\ Len(t) = n + 1 /\ t[n + 1] = x /\ n \in Nat
        /\ \A i \in 1..n : t[i] = s[i]
    BY <2>1, AppendProperties
  <2>3. SUFFICES ASSUME Joined(t) PROVE Canon(t) = t
    BY <2>1, <2>2
  <2>4. Joined(s)
    BY <2>1, <2>2, <2>3 DEF Joined
  <2>5. Canon(t) = Join(s, x)
    BY <1>2, <2>1, <2>4, CanonAppend
  <2>6. CASE x.role = "user"
    BY <2>1, <2>5, <2>6 DEF Join
  <2>7. CASE x.role # "user"
    <3>1. x.role = "assistant"
      BY <2>7 DEF Messages
    <3>2. n + 1 \in 1..(n + 1) /\ (n + 1) - 1 = n
      BY <2>2
    <3>3. Arranged(x) = x.content /\ (n + 1 = 1 \/ t[(n + 1) - 1].role = "user")
      BY <2>2, <2>3, <3>1, <3>2 DEF Joined
    <3>4. s = <<>> \/ Last(s).role = "user"
      <4>1. CASE n = 0
        BY <2>1, <4>1, EmptySeq
      <4>2. CASE n # 0
        <5>1. n \in 1..n /\ n + 1 # 1
          BY <2>2, <4>2
        <5>2. t[n].role = "user"
          BY <3>2, <3>3, <5>1
        <5> QED BY <2>1, <2>2, <5>1, <5>2 DEF Last
      <4> QED BY <4>1, <4>2
    <3>5. ~(s # <<>> /\ Last(s).role = "assistant")
      BY <3>4
    <3>6. AssistantMessage(Arranged(x)) = x
      BY <3>1, <3>3 DEF AssistantMessage, Messages
    <3> QED BY <2>1, <2>5, <2>7, <3>5, <3>6 DEF Join
  <2> QED BY <2>6, <2>7
<1>3. GrowsIn(G, Messages)
  BY <1>1, <1>2 DEF GrowsIn
<1>4. c \in G
  <2> HIDE DEF G
  <2> QED BY <1>3, AllSequences
<1> QED BY <1>4

LEMMA PlacedJoined ==
    ASSUME NEW d \in Seq(Messages), Joined(d), NEW e, NEW k, NEW m, Placed(e, d, k, m),
           m.role = "assistant" => /\ Arranged(m) = m.content
                                   /\ k = Len(d) + 1 /\ EndsWithUser(d)
    PROVE  Joined(e)
<1>1. /\ Len(e) = k /\ k \in Nat \ {0} /\ e[k] = m /\ (k = Len(d) \/ k = Len(d) + 1)
      /\ \A i \in 1..(k - 1) : e[i] = d[i]
  BY DEF Placed
<1>2. SUFFICES ASSUME NEW i \in 1..k, e[i].role = "assistant"
               PROVE  Arranged(e[i]) = e[i].content /\ (i = 1 \/ e[i - 1].role = "user")
  BY <1>1 DEF Joined
<1>3. CASE i = k
  BY <1>1, <1>2, <1>3, UserLast
<1>4. CASE i # k
  <2>1. i \in 1..(k - 1) /\ i \in 1..Len(d) /\ (i # 1 => i - 1 \in 1..(k - 1))
    BY <1>1, <1>4
  <2>2. Arranged(d[i]) = d[i].content /\ (i = 1 \/ d[i - 1].role = "user")
    BY <1>1, <1>2, <2>1 DEF Joined
  <2> QED BY <1>1, <2>1, <2>2
<1> QED BY <1>3, <1>4

LEMMA CompactionJoined ==
    ASSUME NEW d \in Seq(Messages), Joined(d), d[1].role = "user",
           NEW to \in Nat \ {0}, to + 2 <= Len(d), d[to + 2].role = "user",
           NEW b \in Block, b.kind = "text"
    PROVE  /\ Joined(ApplyCompaction(d, 1, to, b))
           /\ Last(ApplyCompaction(d, 1, to, b)) = Last(d)
<1>1. PICK e, m, n, k : /\ e = ApplyCompaction(d, 1, to, b) /\ m = AssistantMessage(<< b >>)
                        /\ n = Len(d) /\ k = Len(e)
  OBVIOUS
<1>2. m \in Messages /\ m.content = << b >> /\ Arranged(m) = m.content
  <2>1. m \in Messages /\ m.content = << b >>
    BY <1>1 DEF AssistantMessage, Messages
  <2> QED BY <1>1, <2>1, TextArranged
<1>3. /\ e \in Seq(Messages) /\ k = (n - to) + 1
      /\ \A i \in 1..k : e[i] = IF i = 1 THEN d[1] ELSE IF i = 2 THEN m ELSE d[(i + to) - 1]
  <2>1. e \in Seq(Messages) /\ Len(e) = (Len(d) - to) + 1 /\ Replaced(e, d, to, m)
    BY <1>1, <1>2, CompactedIs
  <2> QED BY <1>1, <2>1 DEF Replaced
<1>4. n \in Nat /\ to + 2 <= n /\ k \in Nat /\ k >= 3
  BY <1>1, <1>3
<1>5. Last(e) = Last(d)
  <2>1. k \in 1..k /\ k # 1 /\ k # 2 /\ (k + to) - 1 = n
    BY <1>3, <1>4
  <2>2. e[k] = d[n]
    BY <1>3, <2>1
  <2> QED BY <1>1, <2>2 DEF Last
<1>6. ASSUME NEW i \in 1..k, e[i].role = "assistant"
      PROVE  Arranged(e[i]) = e[i].content /\ (i = 1 \/ e[i - 1].role = "user")
  <2>1. i # 1
    BY <1>3, <1>6
  <2>2. CASE i = 2
    <3>1. i - 1 = 1 /\ 1 \in 1..k /\ 2 \in 1..k
      BY <1>4, <2>2
    <3>2. e[1] = d[1] /\ e[2] = m
      BY <1>3, <3>1
    <3> QED BY <1>2, <2>2, <3>1, <3>2
  <2>3. CASE i = 3
    BY <2>3, <1>3, <1>6
  <2>4. CASE i # 2 /\ i # 3
    <3>1. PICK j : j = (i + to) - 1
      OBVIOUS
    <3>2. /\ j \in 1..n /\ j # 1 /\ i - 1 \in 1..k /\ i - 1 # 1 /\ i - 1 # 2
          /\ ((i - 1) + to) - 1 = j - 1
      BY <1>3, <1>4, <2>1, <2>4, <3>1
    <3>3. e[i] = d[j] /\ e[i - 1] = d[j - 1]
      BY <1>3, <2>1, <2>4, <3>1, <3>2
    <3>4. Arranged(d[j]) = d[j].content /\ d[j - 1].role = "user"
      BY <1>1, <1>6, <3>2, <3>3 DEF Joined
    <3> QED BY <3>3, <3>4
  <2> QED BY <2>1, <2>2, <2>3, <2>4
<1>7. Joined(e)
  BY <1>1, <1>6 DEF Joined
<1> QED BY <1>1, <1>5, <1>7

LEMMA CanonSome ==
    ASSUME NEW c \in Seq(Messages), c # <<>>
    PROVE  Canon(c) # <<>>
<1>1. PICK f, m : f = SubSeq(c, 1, Len(c) - 1) /\ m = c[Len(c)]
  OBVIOUS
<1>2. f \in Seq(Messages) /\ m \in Messages /\ c = Append(f, m)
  BY <1>1, FrontAndLast
<1>3. PICK d : d = Canon(f)
  OBVIOUS
<1>4. d \in Seq(Messages) /\ Canon(c) = Join(d, m)
  BY <1>2, <1>3, CanonTyped, CanonAppend
<1>5. CASE m.role = "user"
  BY <1>2, <1>4, <1>5, AppendProperties DEF Join
<1>6. CASE m.role # "user"
  <2>1. m.role = "assistant"
    BY <1>2, <1>6 DEF Messages
  <2>2. Join(d, m) = Put(d, Arranged(m))
    BY <2>1, JoinPuts
  <2>3. Arranged(m) \in Seq(Block)
    <3>1. m.content \in Seq(Block)
      BY <1>2 DEF Messages
    <3> QED BY <3>1, RestIs
  <2> QED BY <1>4, <2>2, <2>3, PutEnds
<1> QED BY <1>5, <1>6
-----------------------------------------------------------------------------
(* A log with one more event *)

LEMMA EventAdded ==
    ASSUME NEW lg \in Seq(LogEvents), NEW e \in LogEvents
    PROVE  /\ Append(lg, e) \in Seq(LogEvents) /\ Append(lg, e) # <<>>
           /\ Len(lg) \in Nat /\ Len(Append(lg, e)) = Len(lg) + 1
           /\ Append(lg, e)[Len(lg) + 1] = e
           /\ \A i \in 1..Len(lg) : i \in 1..(Len(lg) + 1) /\ Append(lg, e)[i] = lg[i]
  BY AppendProperties

LEMMA EventBlocks ==
    ASSUME NEW lg \in Seq(LogEvents), NEW i \in 1..Len(lg)
    PROVE  lg[i].blocks \in Seq(Block) /\ Cardinality(Calls(lg[i].blocks)) \in Nat
<1>1. PICK e : e = lg[i]
  OBVIOUS
<1>2. e \in LogEvents
  BY <1>1
<1>3. e.blocks \in Seq(Block)
  BY <1>2 DEF LogEvents
<1> QED BY <1>1, <1>3, NeedsFinite

LEMMA CleanBefore ==
    ASSUME NEW lg \in Seq(LogEvents), NEW e \in LogEvents, Clean(Append(lg, e))
    PROVE  Clean(lg)
<1>1. PICK n, lg2 : n = Len(lg) /\ lg2 = Append(lg, e)
  OBVIOUS
<1>2. n \in Nat /\ Len(lg2) = n + 1 /\ \A i \in 1..n : i \in 1..(n + 1) /\ lg2[i] = lg[i]
  BY <1>1, EventAdded
<1>3. ThoughtCompacted(lg) => ThoughtCompacted(lg2)
  BY <1>1, <1>2 DEF ThoughtCompacted
<1>4. Cut(lg) => Cut(lg2)
  BY <1>1, EventBlocks, <1>2 DEF Cut
<1>5. Merged(lg) => Merged(lg2)
  BY <1>1, <1>2 DEF Merged
<1> QED BY <1>1, <1>3, <1>4, <1>5 DEF Clean

LEMMA ThoughtAfter ==
    ASSUME NEW lg \in Seq(LogEvents), NEW e \in LogEvents
    PROVE  /\ Thought(lg) => Thought(Append(lg, e))
           /\ e.type = "assistant.thinking" => Thought(Append(lg, e))
           /\ Thought(lg) => lg # <<>>
<1>1. PICK n, lg2 : n = Len(lg) /\ lg2 = Append(lg, e)
  OBVIOUS
<1>2. n \in Nat /\ Len(lg2) = n + 1 /\ lg2[n + 1] = e /\ \A i \in 1..n : i \in 1..(n + 1) /\ lg2[i] = lg[i]
  BY <1>1, EventAdded
<1>3. n + 1 \in 1..(n + 1)
  BY <1>2
<1>4. Thought(lg) => Thought(lg2)
  BY <1>1, <1>2 DEF Thought
<1>5. e.type = "assistant.thinking" => Thought(lg2)
  BY <1>2, <1>3 DEF Thought
<1>6. Thought(lg) => lg # <<>>
  BY DEF Thought
<1> QED BY <1>1, <1>4, <1>5, <1>6

\* While results are pending, a clean log goes on with a result.
LEMMA NothingCut ==
    ASSUME NEW lg \in Seq(LogEvents), NEW e \in LogEvents, e.type # "tool.completed",
           Clean(Append(lg, e)), NEW pend, Counted(lg, pend)
    PROVE  pend = {}
<1> SUFFICES ASSUME pend # {} PROVE FALSE
  OBVIOUS
<1>1. PICK n, lg2, p : n = Len(lg) /\ lg2 = Append(lg, e) /\ p = Cardinality(pend)
  OBVIOUS
<1>2. n \in Nat /\ Len(lg2) = n + 1 /\ lg2[n + 1] = e /\ \A i \in 1..n : i \in 1..(n + 1) /\ lg2[i] = lg[i]
  BY <1>1, EventAdded
<1>3. IsFiniteSet(pend) /\ \E i \in 1..n : p + (n - i) = Cardinality(Calls(lg[i].blocks))
  BY <1>1 DEF Counted
<1>4. p \in Nat /\ p # 0
  <2>1. p \in Nat
    BY <1>1, <1>3, FS_CardinalityType
  <2>2. p # 0
    BY <1>1, <1>3, FS_EmptySet
  <2> QED BY <2>1, <2>2
<1>5. PICK i \in 1..n : p + (n - i) = Cardinality(Calls(lg[i].blocks))
  BY <1>3
<1>6. PICK j, c : j = (n + 1) - i /\ c = Cardinality(Calls(lg[i].blocks))
  OBVIOUS
<1>7. j \in 1..c /\ i + j = n + 1 /\ i + j <= n + 1
  BY <1>2, <1>4, <1>5, <1>6
<1>8. lg2[i] = lg[i] /\ i \in 1..(n + 1) /\ lg2[i + j] = e
  BY <1>2, <1>7
<1>9. Cut(lg2)
  <2>1. j \in 1..Cardinality(Calls(lg2[i].blocks))
    BY <1>6, <1>7, <1>8
  <2>2. i \in 1..Len(lg2) /\ i + j <= Len(lg2)
    BY <1>2, <1>7, <1>8
  <2>3. lg2[i + j].type # "tool.completed"
    BY <1>8
  <2> QED BY <2>1, <2>2, <2>3 DEF Cut
<1> QED BY <1>1, <1>9 DEF Clean

\* A text of the user does not follow a result in a clean log.
LEMMA NothingMerged ==
    ASSUME NEW lg \in Seq(LogEvents), NEW e \in LogEvents, e.type = "user.message",
           Clean(Append(lg, e))
    PROVE  ~AnsweredLast(lg)
<1> SUFFICES ASSUME AnsweredLast(lg) PROVE FALSE
  OBVIOUS
<1>1. PICK n, lg2 : n = Len(lg) /\ lg2 = Append(lg, e)
  OBVIOUS
<1>2. n \in Nat /\ Len(lg2) = n + 1 /\ lg2[n + 1] = e /\ \A i \in 1..n : i \in 1..(n + 1) /\ lg2[i] = lg[i]
  BY <1>1, EventAdded
<1>3. PICK i \in 1..n : lg[i].type = "tool.completed"
                          /\ \A k \in (i + 1)..n : lg[k].type = "compaction.applied"
  BY <1>1 DEF AnsweredLast
<1>4. PICK j : j = n + 1
  OBVIOUS
<1>5. j \in 1..(n + 1) /\ i \in 1..(n + 1) /\ i < j /\ j - 1 = n
  BY <1>2, <1>4
<1>6. \A k \in (i + 1)..n : k \in 1..n
  BY <1>2
<1>7. lg2[i].type = "tool.completed" /\ lg2[j].type = "user.message"
      /\ \A k \in (i + 1)..(j - 1) : lg2[k].type = "compaction.applied"
  BY <1>2, <1>3, <1>4, <1>5, <1>6
<1>8. Merged(lg2)
  BY <1>2, <1>5, <1>7 DEF Merged
<1> QED BY <1>1, <1>8 DEF Clean

LEMMA NothingThought ==
    ASSUME NEW lg \in Seq(LogEvents), NEW e \in LogEvents, e.type = "compaction.applied",
           Clean(Append(lg, e))
    PROVE  ~Thought(lg)
<1> SUFFICES ASSUME Thought(lg) PROVE FALSE
  OBVIOUS
<1>1. PICK n, lg2 : n = Len(lg) /\ lg2 = Append(lg, e)
  OBVIOUS
<1>2. n \in Nat /\ Len(lg2) = n + 1 /\ lg2[n + 1] = e /\ \A i \in 1..n : i \in 1..(n + 1) /\ lg2[i] = lg[i]
  BY <1>1, EventAdded
<1>3. PICK i \in 1..n : lg[i].type = "assistant.thinking"
  BY <1>1 DEF Thought
<1>4. i < n + 1 /\ n + 1 \in 1..(n + 1) /\ i \in 1..(n + 1)
  BY <1>2
<1>5. ThoughtCompacted(lg2)
  BY <1>2, <1>3, <1>4 DEF ThoughtCompacted
<1> QED BY <1>1, <1>5 DEF Clean

LEMMA AnsweredAfter ==
    ASSUME NEW lg \in Seq(LogEvents), NEW e \in LogEvents
    PROVE  /\ e.type = "tool.completed" => AnsweredLast(Append(lg, e))
           /\ e.type = "compaction.applied" /\ AnsweredLast(lg) => AnsweredLast(Append(lg, e))
<1>1. PICK n, lg2 : n = Len(lg) /\ lg2 = Append(lg, e)
  OBVIOUS
<1>2. n \in Nat /\ Len(lg2) = n + 1 /\ lg2[n + 1] = e /\ \A i \in 1..n : i \in 1..(n + 1) /\ lg2[i] = lg[i]
  BY <1>1, EventAdded
<1>3. e.type = "tool.completed" => AnsweredLast(lg2)
  <2>1. n + 1 \in 1..(n + 1) /\ \A k \in ((n + 1) + 1)..(n + 1) : FALSE
    BY <1>2
  <2> QED BY <1>2, <2>1 DEF AnsweredLast
<1>4. ASSUME e.type = "compaction.applied", AnsweredLast(lg) PROVE AnsweredLast(lg2)
  BY <1>1, <1>4, <1>2 DEF AnsweredLast
<1> QED BY <1>1, <1>3, <1>4

LEMMA CountedNone ==
    ASSUME NEW lg
    PROVE  Counted(lg, {})
  BY FS_EmptySet DEF Counted

LEMMA CountedCalls ==
    ASSUME NEW lg \in Seq(LogEvents), NEW e \in LogEvents
    PROVE  Counted(Append(lg, e), {ToolResult(b) : b \in Calls(e.blocks)})
<1>1. PICK n, lg2, pend : n = Len(lg) /\ lg2 = Append(lg, e) /\ pend = {ToolResult(b) : b \in Calls(e.blocks)}
  OBVIOUS
<1>2. n \in Nat /\ Len(lg2) = n + 1 /\ lg2[n + 1] = e
  BY <1>1, EventAdded
<1>3. e.blocks \in Seq(Block)
  BY DEF LogEvents
<1>4. /\ IsFiniteSet(pend) /\ Cardinality(pend) = Cardinality(Calls(e.blocks))
      /\ Cardinality(Calls(e.blocks)) \in Nat
  BY <1>1, <1>3, NeedsFinite
<1>5. n + 1 \in 1..(n + 1) /\ Cardinality(pend) + ((n + 1) - (n + 1)) = Cardinality(Calls(lg2[n + 1].blocks))
  BY <1>2, <1>4
<1>6. Counted(lg2, pend)
  BY <1>2, <1>4, <1>5 DEF Counted
<1> QED BY <1>1, <1>6

LEMMA CountedResult ==
    ASSUME NEW lg \in Seq(LogEvents), NEW e \in LogEvents, NEW pend, Counted(lg, pend), NEW b \in pend
    PROVE  Counted(Append(lg, e), pend \ {b})
<1>1. PICK n, lg2, rest, p, q : /\ n = Len(lg) /\ lg2 = Append(lg, e) /\ rest = pend \ {b}
                                /\ p = Cardinality(pend) /\ q = Cardinality(rest)
  OBVIOUS
<1>2. n \in Nat /\ Len(lg2) = n + 1 /\ \A i \in 1..n : i \in 1..(n + 1) /\ lg2[i] = lg[i]
  BY <1>1, EventAdded
<1>3. IsFiniteSet(pend) /\ \E i \in 1..n : p + (n - i) = Cardinality(Calls(lg[i].blocks))
  BY <1>1 DEF Counted
<1>4. IsFiniteSet(rest) /\ q = p - 1 /\ p \in Nat
  BY <1>1, <1>3, FS_RemoveElement, FS_CardinalityType
<1>5. PICK i \in 1..n : p + (n - i) = Cardinality(Calls(lg[i].blocks))
  BY <1>3
<1>6. q + ((n + 1) - i) = p + (n - i)
  BY <1>2, <1>4
<1>7. i \in 1..(n + 1) /\ q + ((n + 1) - i) = Cardinality(Calls(lg2[i].blocks))
  BY <1>2, <1>5, <1>6
<1>8. Counted(lg2, rest)
  BY <1>1, <1>2, <1>4, <1>7 DEF Counted
<1> QED BY <1>1, <1>8
-----------------------------------------------------------------------------
(* Calls and results of what is read *)

LEMMA ReadLast ==
    ASSUME NEW lg \in Seq(LogEvents), NEW e \in LogEvents, NEW q, ReadsInto(Empty, Append(lg, e), q)
    PROVE  /\ q \in Readings
           /\ \E p \in Readings : ReadsInto(Empty, lg, p) /\ q = Read(p, e)
<1>1. PICK n, both : n = Len(lg) /\ both = Append(lg, e)
  OBVIOUS
<1>2. /\ n \in Nat /\ Len(both) = n + 1 /\ both[n + 1] = e /\ both \in Seq(LogEvents)
      /\ \A i \in 1..n : i \in 1..(n + 1) /\ both[i] = lg[i]
  BY <1>1, EventAdded
<1>3. PICK h : ReadAlong(h, Empty, both) /\ h[Len(both)] = q
  BY <1>1 DEF ReadsInto
<1>4. /\ h \in [0..(n + 1) -> Readings] /\ h[0] = Empty /\ h[n + 1] = q
      /\ \A k \in 1..(n + 1) : h[k] = Read(h[k - 1], both[k])
  BY <1>2, <1>3 DEF ReadAlong
<1>5. n \in 0..(n + 1) /\ n + 1 \in 0..(n + 1) /\ n + 1 \in 1..(n + 1) /\ (n + 1) - 1 = n /\ n \in 0..n /\ 0 \in 0..n
      /\ \A k \in 0..n : k \in 0..(n + 1)
  BY <1>2
<1>6. h[n] \in Readings /\ q \in Readings
  BY <1>4, <1>5
<1>7. q = Read(h[n], e)
  BY <1>2, <1>4, <1>5
<1>8. PICK f : f = [k \in 0..n |-> h[k]]
  OBVIOUS
<1>9. f \in [0..n -> Readings] /\ f[0] = Empty /\ f[n] = h[n]
  BY <1>4, <1>5, <1>8
<1>10. ASSUME NEW k \in 1..n PROVE f[k] = Read(f[k - 1], lg[k])
  <2>1. k \in 0..n /\ k - 1 \in 0..n /\ k \in 1..(n + 1) /\ both[k] = lg[k]
    BY <1>2
  <2> QED BY <1>4, <1>8, <2>1
<1>11. ReadsInto(Empty, lg, h[n])
  BY <1>1, <1>9, <1>10 DEF ReadsInto, ReadAlong
<1> QED BY <1>6, <1>7, <1>11

\* The first event read is a message.
LEMMA ReadSome ==
    ASSUME NEW lg \in Seq(LogEvents), lg # <<>>, NEW q, ReadsInto(Empty, lg, q)
    PROVE  q.conv # <<>>
<1>1. PICK f, e : f = SubSeq(lg, 1, Len(lg) - 1) /\ e = lg[Len(lg)]
  OBVIOUS
<1>2. f \in Seq(LogEvents) /\ e \in LogEvents /\ lg = Append(f, e)
  BY <1>1, FrontAndLast
<1>3. q \in Readings /\ \E p \in Readings : ReadsInto(Empty, f, p) /\ q = Read(p, e)
  BY <1>2, ReadLast
<1>4. PICK p \in Readings : q = Read(p, e)
  BY <1>3
<1>5. p.ok = TRUE /\ q.ok = TRUE /\ p.conv \in Seq(Messages)
  BY <1>3 DEF Readings
<1>6. /\ e.type \in {"user.message", "assistant.thinking", "assistant.message", "tool.completed", "compaction.applied"}
      /\ e.blocks \in Seq(Block) /\ e.blocks # <<>> /\ e.from \in Nat /\ e.to \in Nat
  BY <1>2 DEF LogEvents
<1>7. PICK b, c : b = e.blocks[1] /\ c = p.conv
  OBVIOUS
<1>8. b \in Block /\ c \in Seq(Messages)
  BY <1>5, <1>6, <1>7
<1>9. CASE e.type = "user.message"
  <2>1. q = [p EXCEPT !.conv = MergeUser(@, b)]
    BY <1>4, <1>5, <1>7, <1>9 DEF Read
  <2>2. q.conv = MergeUser(c, b)
    BY <1>4, <1>7, <2>1 DEF Readings
  <2>3. EndsWithUser(MergeUser(c, b))
    BY <1>8, MergeTyped
  <2> QED BY <2>2, <2>3 DEF EndsWithUser
<1>10. CASE e.type = "assistant.thinking" \/ e.type = "assistant.message"
  <2>1. PICK m : m = AssistantMessage(e.blocks)
    OBVIOUS
  <2>2. m \in Messages
    BY <1>6, <2>1 DEF AssistantMessage, Messages
  <2>3. q.conv = Append(c, m)
    <3>1. CASE e.type = "assistant.thinking"
      <4>1. q = [p EXCEPT !.conv = Append(@, m)]
        BY <1>4, <1>5, <2>1, <3>1 DEF Read
      <4> QED BY <1>7, <4>1 DEF Readings
    <3>2. CASE e.type = "assistant.message"
      <4>1. q = ReadMessage(p, e)
        BY <1>4, <1>5, <3>2 DEF Read
      <4> QED BY <1>7, <2>1, <4>1 DEF Readings, ReadMessage
    <3> QED BY <1>10, <3>1, <3>2
  <2> QED BY <1>8, <2>2, <2>3, AppendProperties
<1>11. CASE e.type = "tool.completed"
  <2>1. q = ReadCompleted(p, e)
    BY <1>4, <1>5, <1>11 DEF Read
  <2>2. b \in p.pending
    BY <1>7, <2>1, <1>5 DEF ReadCompleted, Readings
  <2>3. q = [p EXCEPT !.conv = MergeUser(@, b), !.pending = @ \ {b}]
    BY <1>7, <2>1, <2>2 DEF ReadCompleted
  <2>4. q.conv = MergeUser(c, b)
    BY <1>7, <2>3 DEF Readings
  <2>5. EndsWithUser(MergeUser(c, b))
    BY <1>8, MergeTyped
  <2> QED BY <2>4, <2>5 DEF EndsWithUser
<1>12. CASE e.type = "compaction.applied"
  <2>1. q = ReadApplied(p, e)
    BY <1>4, <1>5, <1>12 DEF Read
  <2>2. e.from <= e.to /\ e.to < Len(p.conv)
    BY <2>1, <1>5 DEF ReadApplied, Readings
  <2>3. q.conv = ApplyCompaction(c, e.from, e.to, b)
    BY <2>1, <2>2, <1>7 DEF ReadApplied, Readings
  <2>4. PICK x, y, m : x = SubSeq(c, 1, e.from) /\ y = SubSeq(c, e.to + 2, Len(c)) /\ m = AssistantMessage(<< b >>)
    OBVIOUS
  <2>5. x \in Seq(Messages)
    <3>1. e.from \in 0..Len(c)
      BY <1>6, <1>7, <1>8, <2>2
    <3> QED BY <1>8, <2>4, <3>1, PrefixIs
  <2>6. y \in Seq(Messages)
    <3>1. \A i \in (e.to + 2)..Len(c) : c[i] \in Messages
      BY <1>6, <1>8
    <3> QED BY <1>6, <1>8, <2>4, <3>1
  <2>7. << m >> \in Seq(Messages) /\ Len(<< m >>) = 1
    BY <1>8, <2>4 DEF AssistantMessage, Messages
  <2>8. PICK xm : xm = x \o << m >>
    OBVIOUS
  <2>9. xm \in Seq(Messages) /\ Len(xm) = Len(x) + 1 /\ Len(x) \in Nat
    BY <2>5, <2>7, <2>8, ConcatProperties
  <2>10. PICK all : all = xm \o y
    OBVIOUS
  <2>11. all # <<>>
    BY <2>6, <2>9, <2>10, ConcatIs
  <2> QED BY <2>3, <2>4, <2>8, <2>10, <2>11 DEF ApplyCompaction
<1> QED BY <1>6, <1>9, <1>10, <1>11, <1>12

\* What is read of a clean log, as Pairs says it of the conversation d that Canon
\* makes of it.
PairsOf(lg, d, pend) ==
    /\ Orderly(d) /\ Balanced(d, pend)
    /\ EndsWithUser(d) /\ pend # {} => ~HasText(Last(d))
    /\ EndsWithUser(d) /\ Given(Last(d)) # {} => AnsweredLast(lg)
    /\ Counted(lg, pend)

LEMMA PairsAre ==
    ASSUME NEW lg, NEW r \in Readings
    PROVE  /\ Canon(r.conv) \in Seq(Messages)
           /\ Pairs(lg, r) <=> (~Thought(lg) => Joined(r.conv)) /\ PairsOf(lg, Canon(r.conv), r.pending)
<1>1. r.conv \in Seq(Messages)
  BY DEF Readings
<1>2. PICK c, d : c = r.conv /\ d = Canon(c)
  OBVIOUS
<1>3. d \in Seq(Messages) /\ (EndsWithUser(d) <=> EndsWithUser(c))
  BY <1>1, <1>2, CanonTyped, CanonEnds
<1> QED BY <1>2, <1>3 DEF Pairs, PairsOf

LEMMA TextEvent ==
    ASSUME NEW lg \in Seq(LogEvents), NEW r \in Readings, NEW e \in LogEvents, Pairs(lg, r),
           e.type = "user.message", Legal(lg, r, e), Clean(Append(lg, e))
    PROVE  Pairs(Append(lg, e), Read(r, e))
<1>1. PICK d, c, lg2, q : d = Canon(c) /\ c = r.conv /\ lg2 = Append(lg, e) /\ q = Read(r, e)
  OBVIOUS
<1>2. /\ c \in Seq(Messages) /\ d \in Seq(Messages) /\ r.ok = TRUE
      /\ (~Thought(lg) => Joined(c)) /\ PairsOf(lg, d, r.pending)
  <2>1. c \in Seq(Messages) /\ r.ok = TRUE
    BY <1>1 DEF Readings
  <2> QED BY <1>1, <2>1, PairsAre
<1>3. PICK b \in Block : b.kind = "text" /\ e.blocks = << b >>
  BY DEF Legal
<1>4. r.pending = {}
  BY <1>2, NothingCut DEF PairsOf
<1>5. q = [r EXCEPT !.conv = MergeUser(@, b)]
  BY <1>1, <1>2, <1>3 DEF Read
<1>6. q \in Readings /\ q.conv = MergeUser(c, b) /\ q.pending = {}
  BY <1>5, TextRead, <1>1, <1>4 DEF Readings
<1>7. GivenBefore(d) = {}
  BY <1>2, UserLast, NothingMerged DEF GivenBefore, PairsOf
<1>8. PICK x : x = MergeUser(d, b)
  OBVIOUS
<1>9. Orderly(x) /\ Balanced(x, {}) /\ Given(Last(x)) = {}
  <2>1. Orderly(d) /\ Balanced(d, {})
    BY <1>2, <1>4 DEF PairsOf
  <2> QED BY <1>2, <1>3, <1>7, <1>8, <2>1, TextPairs
<1>10. Canon(q.conv) = x
  BY <1>1, <1>2, <1>6, <1>8, CanonMerge
<1>11. PairsOf(lg2, x, {})
  BY <1>9, CountedNone DEF PairsOf
<1>12. ~Thought(lg2) => Joined(q.conv)
  <2>1. SUFFICES ASSUME ~Thought(lg2) PROVE Joined(q.conv)
    OBVIOUS
  <2>2. Joined(c)
    BY <1>1, <1>2, <2>1, ThoughtAfter
  <2>3. PICK k, m, y : k = MergedAt(c) /\ m = Merging(c, b) /\ y = MergeUser(c, b)
    OBVIOUS
  <2>4. Placed(y, c, k, m) /\ m.role = "user"
    BY <1>2, <2>3, MergePlaced
  <2>5. Joined(y)
    BY <1>2, <2>2, <2>4, PlacedJoined
  <2> QED BY <1>6, <2>3, <2>5
<1>13. Pairs(lg2, q)
  BY <1>6, <1>10, <1>11, <1>12, PairsAre
<1> QED BY <1>1, <1>13

LEMMA ResultEvent ==
    ASSUME NEW lg \in Seq(LogEvents), NEW r \in Readings, NEW e \in LogEvents, Pairs(lg, r),
           e.type = "tool.completed", Legal(lg, r, e), Read(r, e).ok
    PROVE  Pairs(Append(lg, e), Read(r, e))
<1>1. PICK d, c, lg2, q : d = Canon(c) /\ c = r.conv /\ lg2 = Append(lg, e) /\ q = Read(r, e)
  OBVIOUS
<1>2. /\ c \in Seq(Messages) /\ d \in Seq(Messages) /\ r.ok = TRUE
      /\ (~Thought(lg) => Joined(c)) /\ PairsOf(lg, d, r.pending)
  <2>1. c \in Seq(Messages) /\ r.ok = TRUE
    BY <1>1 DEF Readings
  <2> QED BY <1>1, <2>1, PairsAre
<1>3. PICK b \in Block : b.kind = "result" /\ e.blocks = << b >>
  BY DEF Legal
<1>4. q = ReadCompleted(r, e)
  BY <1>1, <1>2 DEF Read
<1>5. b \in r.pending
  BY <1>3, <1>4, <1>1 DEF ReadCompleted, Readings
<1>6. q = [r EXCEPT !.conv = MergeUser(@, b), !.pending = @ \ {b}]
  BY <1>3, <1>4, <1>5 DEF ReadCompleted
<1>7. PICK rest, x : rest = r.pending \ {b} /\ x = MergeUser(d, b)
  OBVIOUS
<1>8. q \in Readings /\ q.conv = MergeUser(c, b) /\ q.pending = rest
  <2>1. b \in ResultBlocks
    BY <1>3 DEF ResultBlocks
  <2>2. q \in Readings /\ q.conv = MergeUser(r.conv, b) /\ q.pending = r.pending \ {b}
    BY <1>5, <1>6, <2>1, AnswerRead
  <2> QED BY <1>1, <1>7, <2>2
<1>9. EndsWithUser(d) => ~HasText(d[Len(d)])
  BY <1>2, UserLast, <1>5 DEF PairsOf
<1>10. Orderly(x) /\ Balanced(x, rest) /\ ~HasText(Last(x))
  <2>1. PICK pend : pend = r.pending
    OBVIOUS
  <2>2. Orderly(d) /\ Balanced(d, pend) /\ b \in pend /\ rest = pend \ {b}
    BY <1>2, <1>5, <1>7, <2>1 DEF PairsOf
  <2>3. /\ Orderly(MergeUser(d, b)) /\ Balanced(MergeUser(d, b), pend \ {b})
        /\ ~HasText(Last(MergeUser(d, b)))
    BY <1>2, <1>3, <1>9, <2>2, ResultPairs
  <2> QED BY <1>7, <2>2, <2>3
<1>11. Canon(q.conv) = x
  BY <1>1, <1>2, <1>7, <1>8, CanonMerge
<1>12. Counted(lg2, rest)
  <2>1. Counted(lg, r.pending)
    BY <1>2 DEF PairsOf
  <2> QED BY <1>1, <1>5, <1>7, <2>1, CountedResult
<1>13. AnsweredLast(lg2)
  BY <1>1, AnsweredAfter
<1>14. PairsOf(lg2, x, rest)
  BY <1>10, <1>12, <1>13 DEF PairsOf
<1>15. ~Thought(lg2) => Joined(q.conv)
  <2>1. SUFFICES ASSUME ~Thought(lg2) PROVE Joined(q.conv)
    OBVIOUS
  <2>2. Joined(c)
    BY <1>1, <1>2, <2>1, ThoughtAfter
  <2>3. PICK k, m, y : k = MergedAt(c) /\ m = Merging(c, b) /\ y = MergeUser(c, b)
    OBVIOUS
  <2>4. Placed(y, c, k, m) /\ m.role = "user"
    BY <1>2, <2>3, MergePlaced
  <2>5. Joined(y)
    BY <1>2, <2>2, <2>4, PlacedJoined
  <2> QED BY <1>8, <2>3, <2>5
<1>16. Pairs(lg2, q)
  BY <1>8, <1>11, <1>14, <1>15, PairsAre
<1> QED BY <1>1, <1>16

LEMMA ThinkingEvent ==
    ASSUME NEW lg \in Seq(LogEvents), NEW r \in Readings, ReadsInto(Empty, lg, r),
           NEW e \in LogEvents, Pairs(lg, r),
           e.type = "assistant.thinking", Legal(lg, r, e), Clean(Append(lg, e))
    PROVE  Pairs(Append(lg, e), Read(r, e))
<1>1. PICK d, c, lg2, q : d = Canon(c) /\ c = r.conv /\ lg2 = Append(lg, e) /\ q = Read(r, e)
  OBVIOUS
<1>2. c \in Seq(Messages) /\ d \in Seq(Messages) /\ r.ok = TRUE /\ PairsOf(lg, d, r.pending)
  <2>1. c \in Seq(Messages) /\ r.ok = TRUE
    BY <1>1 DEF Readings
  <2> QED BY <1>1, <2>1, PairsAre
<1>3. lg # <<>> /\ \E b \in Block : b.kind = "thinking" /\ e.blocks = << b >>
  BY DEF Legal
<1>4. PICK b \in Block : b.kind = "thinking" /\ e.blocks = << b >>
  BY <1>3
<1>5. r.pending = {}
  BY <1>2, NothingCut DEF PairsOf
<1>6. d # <<>>
  <2>1. c # <<>>
    BY <1>1, <1>3, ReadSome
  <2> QED BY <1>1, <1>2, <2>1, CanonSome
<1>7. q = [r EXCEPT !.conv = Append(@, AssistantMessage(<< b >>))]
  BY <1>1, <1>2, <1>4 DEF Read
<1>8. PICK s, x : s = << b >> /\ x = Put(d, s)
  OBVIOUS
<1>9. q \in Readings /\ q.pending = {} /\ Canon(q.conv) = x /\ ~EndsWithUser(q.conv)
  <2>1. b \in Thinking
    BY <1>4 DEF Thinking
  <2>2. q \in Readings /\ q.pending = r.pending /\ Canon(q.conv) = Put(Canon(r.conv), << b >>)
        /\ ~EndsWithUser(q.conv)
    BY <1>7, <2>1, ThoughtRead
  <2> QED BY <1>1, <1>5, <1>8, <2>2
<1>10. Calls(s) = {} /\ Results(s) = {} /\ s \in Seq(Block)
  <2>1. /\ Calls(<< b >>) = IF b.kind = "call" THEN {b} ELSE {}
        /\ Results(<< b >>) = IF b.kind = "result" THEN {b} ELSE {}
    BY OneBlock
  <2> QED BY <1>4, <1>8, <2>1
<1>11. Orderly(x) /\ Balanced(x, {})
  <2>1. Orderly(d) /\ Balanced(d, {})
    BY <1>2, <1>5 DEF PairsOf
  <2>2. Orderly(x) /\ Balanced(x, {ToolResult(y) : y \in Calls(s)})
    BY <1>2, <1>6, <1>8, <1>10, <2>1, ReplyPairs
  <2>3. {ToolResult(y) : y \in Calls(s)} = {}
    BY <1>10
  <2> QED BY <2>2, <2>3
<1>12. ~EndsWithUser(x)
  <2>1. q.conv \in Seq(Messages)
    BY <1>9 DEF Readings
  <2> QED BY <1>9, <2>1, CanonEnds
<1>13. PairsOf(lg2, x, {})
  BY <1>11, <1>12, CountedNone DEF PairsOf
<1>14. Thought(lg2)
  BY <1>1, ThoughtAfter
<1>15. Pairs(lg2, q)
  BY <1>9, <1>13, <1>14, PairsAre
<1> QED BY <1>1, <1>15

LEMMA ReplyEvent ==
    ASSUME NEW lg \in Seq(LogEvents), NEW r \in Readings, ReadsInto(Empty, lg, r),
           NEW e \in LogEvents, Pairs(lg, r),
           e.type = "assistant.message", Legal(lg, r, e), Clean(Append(lg, e))
    PROVE  Pairs(Append(lg, e), Read(r, e))
<1>1. PICK d, c, lg2, q, s : /\ d = Canon(c) /\ c = r.conv /\ lg2 = Append(lg, e) /\ q = Read(r, e)
                             /\ s = e.blocks
  OBVIOUS
<1>2. /\ c \in Seq(Messages) /\ d \in Seq(Messages) /\ r.ok = TRUE
      /\ (~Thought(lg) => Joined(c)) /\ PairsOf(lg, d, r.pending)
  <2>1. c \in Seq(Messages) /\ r.ok = TRUE
    BY <1>1 DEF Readings
  <2> QED BY <1>1, <2>1, PairsAre
<1>3. /\ s # <<>> /\ Arranged(AssistantMessage(s)) = s /\ Results(s) = {}
      /\ Thought(lg) \/ EndsWithUser(c)
  BY <1>1 DEF Legal
<1>4. r.pending = {}
  BY <1>2, NothingCut DEF PairsOf
<1>5. d # <<>>
  <2>1. c # <<>>
    <3>1. CASE Thought(lg)
      <4>1. lg # <<>>
        BY <3>1, ThoughtAfter
      <4> QED BY <1>1, <4>1, ReadSome
    <3>2. CASE EndsWithUser(c)
      BY <3>2 DEF EndsWithUser
    <3> QED BY <1>3, <3>1, <3>2
  <2> QED BY <1>1, <1>2, <2>1, CanonSome
<1>6. s \in Seq(Block) /\ e.type = "assistant.message"
  BY <1>1 DEF LogEvents
<1>7. q = ReadMessage(r, e)
  BY <1>1, <1>2, <1>6 DEF Read
<1>8. PICK x, needs, m, f : /\ x = Put(d, s) /\ needs = {ToolResult(b) : b \in Calls(s)}
                            /\ m = AssistantMessage(s) /\ f = Event("assistant.message", s)
  OBVIOUS
<1>9. /\ q \in Readings /\ q.pending = needs /\ q.conv = Append(c, m)
      /\ Canon(q.conv) = x /\ ~EndsWithUser(q.conv)
  <2>1. f.blocks = s
    BY <1>8 DEF Event
  <2>2. q = ReadMessage(r, f)
    BY <1>1, <1>7, <2>1 DEF ReadMessage
  <2>3. /\ q \in Readings
        /\ q.pending = {ToolResult(b) : b \in Calls(s)}
        /\ q.conv = Append(r.conv, AssistantMessage(s))
        /\ Canon(q.conv) = Put(Canon(r.conv), s)
        /\ ~EndsWithUser(q.conv)
    BY <1>3, <1>6, <1>8, <2>2, RestRead
  <2> QED BY <1>1, <1>8, <2>3
<1>10. Orderly(x) /\ Balanced(x, needs)
  <2>1. Orderly(d) /\ Balanced(d, {})
    BY <1>2, <1>4 DEF PairsOf
  <2>2. Orderly(Put(d, s)) /\ Balanced(Put(d, s), {ToolResult(b) : b \in Calls(s)})
    BY <1>2, <1>3, <1>5, <1>6, <2>1, ReplyPairs
  <2> QED BY <1>8, <2>2
<1>11. ~EndsWithUser(x)
  <2>1. q.conv \in Seq(Messages)
    BY <1>9 DEF Readings
  <2> QED BY <1>9, <2>1, CanonEnds
<1>12. Counted(lg2, needs)
  <2>1. Counted(Append(lg, e), {ToolResult(b) : b \in Calls(e.blocks)})
    BY CountedCalls
  <2> QED BY <1>1, <1>8, <2>1
<1>13. PairsOf(lg2, x, needs)
  BY <1>10, <1>11, <1>12 DEF PairsOf
<1>14. ~Thought(lg2) => Joined(q.conv)
  <2>1. SUFFICES ASSUME ~Thought(lg2) PROVE Joined(q.conv)
    OBVIOUS
  <2>2. ~Thought(lg)
    BY <1>1, <2>1, ThoughtAfter
  <2>3. Joined(c) /\ EndsWithUser(c)
    BY <1>2, <1>3, <2>2
  <2>4. PICK k, y : k = Len(c) + 1 /\ y = Append(c, m)
    OBVIOUS
  <2>5. m \in Messages /\ Arranged(m) = m.content /\ m.role = "assistant"
    BY <1>3, <1>6, <1>8 DEF AssistantMessage, Messages
  <2>6. y \in Seq(Messages) /\ Len(y) = k /\ y[k] = m /\ k - 1 = Len(c) /\ k \in Nat \ {0}
        /\ \A i \in 1..Len(c) : y[i] = c[i]
    BY <1>2, <2>4, <2>5, AppendProperties
  <2>7. Placed(y, c, k, m)
    BY <2>4, <2>6 DEF Placed
  <2>8. Joined(y)
    BY <1>2, <2>3, <2>4, <2>5, <2>7, PlacedJoined
  <2> QED BY <1>9, <2>4, <2>8
<1>15. Pairs(lg2, q)
  BY <1>9, <1>13, <1>14, PairsAre
<1> QED BY <1>1, <1>15

LEMMA CompactionEvent ==
    ASSUME NEW lg \in Seq(LogEvents), NEW r \in Readings, NEW e \in LogEvents, Pairs(lg, r),
           e.type = "compaction.applied", Legal(lg, r, e), Clean(Append(lg, e)), Read(r, e) \in Readings
    PROVE  Pairs(Append(lg, e), Read(r, e))
<1>1. PICK d, c, lg2, q, to : /\ d = Canon(c) /\ c = r.conv /\ lg2 = Append(lg, e) /\ q = Read(r, e)
                              /\ to = e.to
  OBVIOUS
<1>2. /\ c \in Seq(Messages) /\ r.ok = TRUE
      /\ (~Thought(lg) => Joined(c)) /\ PairsOf(lg, d, r.pending)
  <2>1. c \in Seq(Messages) /\ r.ok = TRUE
    BY <1>1 DEF Readings
  <2> QED BY <1>1, <2>1, PairsAre
<1>3. ~Thought(lg)
  BY NothingThought
<1>4. /\ e.from = 1 /\ to >= 1 /\ to + 2 <= Len(c)
      /\ c[to + 2].role = "user" /\ HasText(c[to + 2])
      /\ \E b \in Block : b.kind = "text" /\ e.blocks = << b >>
  BY <1>1, <1>3 DEF Legal
<1>5. PICK b \in Block : b.kind = "text" /\ e.blocks = << b >>
  BY <1>4
<1>6. to \in Nat \ {0}
  <2>1. to \in Nat
    BY <1>1 DEF LogEvents
  <2> QED BY <1>4, <2>1
<1>7. r.pending = {}
  BY <1>2, NothingCut DEF PairsOf
<1>8. Joined(c) /\ d = c
  <2>1. Joined(c)
    BY <1>2, <1>3
  <2> QED BY <1>1, <1>2, <2>1, JoinedCanon
<1>9. PICK x : x = ApplyCompaction(c, 1, to, b)
  OBVIOUS
<1>10. q.conv = x /\ q.pending = {}
  <2>1. 1 <= to /\ to < Len(c)
    BY <1>2, <1>4, <1>6
  <2>2. q = ReadApplied(r, e)
    BY <1>1, <1>2 DEF Read
  <2>3. q = [r EXCEPT !.conv = ApplyCompaction(@, 1, to, b)]
    BY <1>1, <1>4, <1>5, <2>1, <2>2 DEF ReadApplied
  <2> QED BY <1>1, <1>7, <1>9, <2>3 DEF Readings
<1>11. Orderly(x) /\ Balanced(x, {})
  <2>1. Orderly(c) /\ Balanced(c, {})
    BY <1>2, <1>7, <1>8 DEF PairsOf
  <2> QED BY <1>2, <1>4, <1>5, <1>6, <1>9, <2>1, CompactionPairs
<1>12. Joined(x) /\ Last(x) = Last(c)
  <2>1. c # <<>>
    BY <1>2, <1>4, <1>6
  <2>2. c[1].role = "user"
    BY <1>2, <1>8, <2>1 DEF PairsOf, Orderly
  <2> QED BY <1>2, <1>4, <1>5, <1>6, <1>8, <1>9, <2>2, CompactionJoined
<1>13. EndsWithUser(x) => EndsWithUser(c)
  BY <1>2, <1>4, <1>5, <1>6, <1>9, CompactedEnds
<1>14. EndsWithUser(x) /\ Given(Last(x)) # {} => AnsweredLast(lg2)
  <2>1. SUFFICES ASSUME EndsWithUser(x), Given(Last(x)) # {} PROVE AnsweredLast(lg2)
    OBVIOUS
  <2>2. EndsWithUser(d) /\ Given(Last(d)) # {}
    BY <1>8, <1>12, <1>13, <2>1
  <2>3. AnsweredLast(lg)
    BY <1>2, <2>2 DEF PairsOf
  <2> QED BY <1>1, <2>3, AnsweredAfter
<1>15. PairsOf(lg2, x, {})
  BY <1>11, <1>14, CountedNone DEF PairsOf
<1>16. x \in Seq(Messages)
  BY <1>1, <1>10 DEF Readings
<1>17. Canon(q.conv) = x
  BY <1>10, <1>12, <1>16, JoinedCanon
<1>18. Pairs(lg2, q)
  BY <1>1, <1>10, <1>12, <1>15, <1>17, PairsAre
<1> QED BY <1>1, <1>18

LEMMA EventPairs ==
    ASSUME NEW lg \in Seq(LogEvents), NEW r \in Readings, ReadsInto(Empty, lg, r),
           NEW e \in LogEvents, Pairs(lg, r), Read(r, e) \in Readings,
           Legal(lg, r, e), Clean(Append(lg, e))
    PROVE  Pairs(Append(lg, e), Read(r, e))
<1>1. e.type \in {"user.message", "assistant.thinking", "assistant.message", "tool.completed", "compaction.applied"}
  BY DEF LogEvents
<1>2. CASE e.type = "user.message"
  BY <1>2, TextEvent
<1>3. CASE e.type = "assistant.thinking"
  BY <1>3, ThinkingEvent
<1>4. CASE e.type = "assistant.message"
  BY <1>4, ReplyEvent
<1>5. CASE e.type = "tool.completed"
  <2>1. Read(r, e).ok
    BY DEF Readings
  <2> QED BY <1>5, <2>1, ResultEvent
<1>6. CASE e.type = "compaction.applied"
  BY <1>6, CompactionEvent
<1> QED BY <1>1, <1>2, <1>3, <1>4, <1>5, <1>6

LEMMA BeforeAppend ==
    ASSUME NEW lg \in Seq(LogEvents), NEW e \in LogEvents
    PROVE  /\ Before(Append(lg, e), Len(lg) + 1) = lg
           /\ \A n \in 1..Len(lg) : Before(Append(lg, e), n) = Before(lg, n)
<1>1. PICK k, both : k = Len(lg) /\ both = Append(lg, e)
  OBVIOUS
<1>2. k \in Nat /\ Len(both) = k + 1 /\ both \in Seq(LogEvents) /\ \A i \in 1..k : both[i] = lg[i]
  BY <1>1, EventAdded
<1>3. Before(both, k + 1) = lg
  BY <1>2, PrefixIs, <1>1, SeqEqual DEF Before
<1>4. ASSUME NEW n \in 1..k PROVE Before(both, n) = Before(lg, n)
  BY <1>1, <1>2, PrefixIs, SeqEqual DEF Before
<1> QED BY <1>1, <1>3, <1>4

LEMMA LegalAppend ==
    ASSUME NEW lg \in Seq(LogEvents), NEW e \in LogEvents
    PROVE  LegalLog(Append(lg, e)) <=> LegalLog(lg) /\ Legal(lg, Resume(lg), e)
<1>1. PICK k, both : k = Len(lg) /\ both = Append(lg, e)
  OBVIOUS
<1>2. k \in Nat /\ Len(both) = k + 1 /\ both[k + 1] = e /\ \A i \in 1..k : i \in 1..(k + 1) /\ both[i] = lg[i]
  BY <1>1, EventAdded
<1>3. Before(both, k + 1) = lg /\ \A n \in 1..k : Before(both, n) = Before(lg, n)
  BY <1>1, BeforeAppend
<1>4. \A n \in 1..(k + 1) : n = k + 1 \/ n \in 1..k
  BY <1>2
<1>5. k + 1 \in 1..(k + 1)
  BY <1>2
<1>6. ASSUME LegalLog(both) PROVE LegalLog(lg) /\ Legal(lg, Resume(lg), e)
  <2>1. \A n \in 1..(k + 1) : Legal(Before(both, n), Resume(Before(both, n)), both[n])
    BY <1>2, <1>6 DEF LegalLog
  <2>2. Legal(lg, Resume(lg), e)
    BY <1>2, <1>3, <1>5, <2>1
  <2>3. \A n \in 1..k : Legal(Before(lg, n), Resume(Before(lg, n)), lg[n])
    BY <1>2, <1>3, <2>1
  <2> QED BY <1>1, <2>2, <2>3 DEF LegalLog
<1>7. ASSUME LegalLog(lg), Legal(lg, Resume(lg), e) PROVE LegalLog(both)
  <2>1. \A n \in 1..k : Legal(Before(lg, n), Resume(Before(lg, n)), lg[n])
    BY <1>1, <1>7 DEF LegalLog
  <2>2. \A n \in 1..(k + 1) : Legal(Before(both, n), Resume(Before(both, n)), both[n])
    BY <1>2, <1>3, <1>4, <1>7, <2>1
  <2> QED BY <1>2, <2>2 DEF LegalLog
<1> QED BY <1>1, <1>6, <1>7

\* Of what reads as it should, as far as it is clean.
ReadsInPairs(lg) ==
    \A r : ReadsInto(Empty, lg, r) /\ LegalLog(lg) /\ Clean(lg) => Pairs(lg, r)

LEMMA NothingReadPairs == ReadsInPairs(<<>>)
<1>1. SUFFICES ASSUME NEW r, ReadsInto(Empty, <<>>, r) PROVE Pairs(<<>>, r)
  BY DEF ReadsInPairs
<1>2. r = Empty
  BY <1>1 DEF ReadsInto, ReadAlong
<1>3. r.conv = <<>> /\ r.pending = {}
  BY <1>2 DEF Empty
<1>4. Len(<<>>) = 0 /\ ~EndsWithUser(<<>>) /\ 1..0 = {}
  BY DEF EndsWithUser
<1>5. Joined(<<>>) /\ Orderly(<<>>) /\ Balanced(<<>>, {})
  BY <1>4 DEF Joined, Orderly, Balanced
<1> QED BY <1>3, <1>4, <1>5, CanonNone, CountedNone DEF Pairs

LEMMA LogsReadInPairs ==
    ASSUME NEW lg \in Seq(LogEvents)
    PROVE  ReadsInPairs(lg)
<1> DEFINE G == {s \in Seq(LogEvents) : ReadsInPairs(s)}
<1>1. <<>> \in G
  BY NothingReadPairs
<1>2. ASSUME NEW s \in Seq(LogEvents), NEW x \in LogEvents, s \in G PROVE Append(s, x) \in G
  <2>1. PICK t : t = Append(s, x)
    OBVIOUS
  <2>2. t \in Seq(LogEvents)
    BY <2>1, EventAdded
  <2>3. SUFFICES ASSUME NEW q, ReadsInto(Empty, t, q), LegalLog(t), Clean(t) PROVE Pairs(t, q)
    BY <2>1, <2>2 DEF ReadsInPairs
  <2>4. q \in Readings /\ \E p \in Readings : ReadsInto(Empty, s, p) /\ q = Read(p, x)
    BY <2>1, <2>3, ReadLast
  <2>5. PICK p \in Readings : ReadsInto(Empty, s, p) /\ q = Read(p, x)
    BY <2>4
  <2>6. Resume(s) = p
    BY <2>5, ResumeIs
  <2>7. LegalLog(s) /\ Legal(s, p, x)
    BY <2>1, <2>3, <2>6, LegalAppend
  <2>8. Clean(s)
    BY <2>1, <2>3, CleanBefore
  <2>9. Pairs(s, p)
    BY <1>2, <2>5, <2>7, <2>8 DEF ReadsInPairs
  <2>10. Read(p, x) \in Readings /\ Clean(Append(s, x))
    BY <2>1, <2>3, <2>4, <2>5
  <2>11. Pairs(Append(s, x), Read(p, x))
    BY <2>5, <2>7, <2>9, <2>10, EventPairs
  <2> QED BY <2>1, <2>5, <2>11
<1>3. GrowsIn(G, LogEvents)
  BY <1>1, <1>2 DEF GrowsIn
<1>4. lg \in G
  <2> HIDE DEF G
  <2> QED BY <1>3, AllSequences
<1> QED BY <1>4

-----------------------------------------------------------------------------
(* What the steps record is what Legal says *)

LEMMA ConcatLast ==
    ASSUME NEW lg \in Seq(LogEvents), NEW es \in Seq(LogEvents), NEW e \in LogEvents
    PROVE  lg \o (es \o << e >>) = Append(lg \o es, e)
<1>1. PICK u, both : u = << e >> /\ both = lg \o es
  OBVIOUS
<1>2. u \in Seq(LogEvents) /\ both \in Seq(LogEvents)
  BY <1>1, ConcatIs
<1>3. lg \o (es \o u) = both \o u
  BY <1>1, <1>2, ConcatAssociative
<1>4. both \o u = Append(both, e)
  BY <1>1, <1>2
<1> QED BY <1>1, <1>3, <1>4

LEMMA ThoughtsLegal ==
    ASSUME NEW lg \in Seq(LogEvents), lg # <<>>, LegalLog(lg), NEW ts \in Seq(Thinking)
    PROVE  /\ lg \o Thoughts(ts) \in Seq(LogEvents)
           /\ LegalLog(lg \o Thoughts(ts))
<1> DEFINE G == {us \in Seq(Thinking) : LegalLog(lg \o Thoughts(us))}
<1>1. <<>> \in G
  BY ThoughtsAre, EmptySeq, ConcatEmptySeq
<1>2. ASSUME NEW us \in Seq(Thinking), NEW t \in Thinking, us \in G PROVE Append(us, t) \in G
  <2>1. PICK e, es, vs, both : /\ e = Event("assistant.thinking", << t >>) /\ es = Thoughts(us)
                               /\ vs = Append(us, t) /\ both = lg \o es
    OBVIOUS
  <2>2. << t >> \in Seq(Block) /\ << t >> # <<>> /\ t \in Block /\ t.kind = "thinking"
    <3>1. t \in Block /\ t.kind = "thinking"
      BY DEF Thinking
    <3> QED BY <3>1
  <2>3. e \in LogEvents
    BY <2>1, <2>2, EventTyped
  <2>4. es \in Seq(LogEvents) /\ vs \in Seq(Thinking)
    BY <2>1, ThoughtsAre, AppendProperties
  <2>5. lg \o Thoughts(vs) = Append(both, e)
    <3>1. Thoughts(vs) = es \o << e >>
      BY <2>1, ThoughtsAppend
    <3>2. lg \o (es \o << e >>) = Append(lg \o es, e)
      BY <2>3, <2>4, ConcatLast
    <3> QED BY <2>1, <3>1, <3>2
  <2>6. both \in Seq(LogEvents) /\ Len(both) = Len(lg) + Len(es)
    BY <2>1, <2>4, ConcatIs
  <2>7. both # <<>>
    BY <2>4, EmptySeq, <2>6
  <2>8. LegalLog(both)
    BY <1>2, <2>1
  <2>9. Legal(both, Resume(both), e)
    <3>1. e.type = "assistant.thinking" /\ e.blocks = << t >>
      BY <2>1 DEF Event
    <3> QED BY <2>2, <2>7, <3>1 DEF Legal
  <2>10. LegalLog(Append(both, e))
    BY <2>3, <2>6, <2>8, <2>9, LegalAppend
  <2> QED BY <2>1, <2>4, <2>5, <2>10
<1>3. GrowsIn(G, Thinking)
  <2> HIDE DEF G
  <2> QED BY <1>1, <1>2 DEF GrowsIn
<1>4. ts \in G
  <2> HIDE DEF G
  <2> QED BY <1>3, AllSequences
<1>5. Thoughts(ts) \in Seq(LogEvents)
  BY ThoughtsAre
<1> QED BY <1>4, <1>5, ConcatIs

LEMMA AnswersLegal ==
    ASSUME NEW lg \in Seq(LogEvents), LegalLog(lg), NEW rs \in Seq(ResultBlocks)
    PROVE  LegalLog(lg \o Answers(rs))
<1> DEFINE G == {us \in Seq(ResultBlocks) : LegalLog(lg \o Answers(us))}
<1>1. <<>> \in G
  BY AnswersAre, EmptySeq, ConcatEmptySeq
<1>2. ASSUME NEW us \in Seq(ResultBlocks), NEW t \in ResultBlocks, us \in G PROVE Append(us, t) \in G
  <2>1. PICK e, es, vs, both : /\ e = Event("tool.completed", << t >>) /\ es = Answers(us)
                               /\ vs = Append(us, t) /\ both = lg \o es
    OBVIOUS
  <2>2. << t >> \in Seq(Block) /\ << t >> # <<>> /\ t \in Block /\ t.kind = "result"
    <3>1. t \in Block /\ t.kind = "result"
      BY DEF ResultBlocks
    <3> QED BY <3>1
  <2>3. e \in LogEvents
    BY <2>1, <2>2, EventTyped
  <2>4. es \in Seq(LogEvents) /\ vs \in Seq(ResultBlocks)
    BY <2>1, AnswersAre, AppendProperties
  <2>5. lg \o Answers(vs) = Append(both, e)
    <3>1. Answers(vs) = es \o << e >>
      BY <2>1, AnswersAppend
    <3>2. lg \o (es \o << e >>) = Append(lg \o es, e)
      BY <2>3, <2>4, ConcatLast
    <3> QED BY <2>1, <3>1, <3>2
  <2>6. both \in Seq(LogEvents)
    BY <2>1, <2>4, ConcatIs
  <2>7. LegalLog(both)
    BY <1>2, <2>1
  <2>8. Legal(both, Resume(both), e)
    <3>1. e.type = "tool.completed" /\ e.blocks = << t >>
      BY <2>1 DEF Event
    <3> QED BY <2>2, <3>1 DEF Legal
  <2>9. LegalLog(Append(both, e))
    BY <2>3, <2>6, <2>7, <2>8, LegalAppend
  <2> QED BY <2>1, <2>4, <2>5, <2>9
<1>3. GrowsIn(G, ResultBlocks)
  <2> HIDE DEF G
  <2> QED BY <1>1, <1>2 DEF GrowsIn
<1>4. rs \in G
  <2> HIDE DEF G
  <2> QED BY <1>3, AllSequences
<1> QED BY <1>4

\* No result is among what the assistant.message of a reply holds.
LEMMA RestNoResults ==
    ASSUME NEW m, m.content \in Seq(Block)
    PROVE  Results(Rest(m)) = {}
<1>1. PICK t, c, a : /\ t = Blocks(m, "text") /\ c = Blocks(m, "call")
                     /\ a = IF t = <<>> THEN <<>> ELSE << Head(t) >>
  OBVIOUS
<1>2. /\ t \in Seq(Block) /\ \A i \in 1..Len(t) : t[i].kind = "text"
      /\ c \in Seq(Block) /\ \A i \in 1..Len(c) : c[i].kind = "call"
  BY <1>1, BlocksBlock
<1>3. a \in Seq(Block) /\ Results(a) = {}
  <2>1. CASE t = <<>>
    BY <1>1, <2>1 DEF ToSet, Results
  <2>2. CASE t # <<>>
    <3>1. PICK b : b = Head(t)
      OBVIOUS
    <3>2. b \in Block /\ b.kind = "text"
      BY <1>2, <2>2, EmptySeq, <3>1
    <3>3. Results(<< b >>) = {}
      BY <3>2, OneBlock
    <3> QED BY <1>1, <2>2, <3>1, <3>2, <3>3
  <2> QED BY <2>1, <2>2
<1>4. Results(c) = {}
  <2>1. DOMAIN c = 1..Len(c)
    BY <1>2
  <2> QED BY <1>2, <2>1 DEF Results, ToSet
<1>5. Rest(m) = a \o c
  BY <1>1 DEF Rest
<1>6. Results(a \o c) = Results(a) \cup Results(c)
  BY <1>2, <1>3, BlocksJoined
<1> QED BY <1>3, <1>4, <1>5, <1>6

LEMMA ReplyLegal ==
    ASSUME NEW lg \in Seq(LogEvents), LegalLog(lg), NEW r, ReadsInto(Empty, lg, r), EndsWithUser(r.conv),
           NEW m \in Messages, m.role = "assistant"
    PROVE  LegalLog(lg \o EncodeAppend(m))
<1>1. PICK ts, s, both : ts = Blocks(m, "thinking") /\ s = Rest(m) /\ both = lg \o Thoughts(ts)
  OBVIOUS
<1>2. m.content \in Seq(Block)
  BY DEF Messages
<1>3. ts \in Seq(Thinking)
  BY <1>1, <1>2, ThinkingBlocks
<1>4. s \in Seq(Block) /\ Arranged(AssistantMessage(s)) = s /\ Results(s) = {}
  BY <1>1, <1>2, RestIs, RestNoResults
<1>5. EncodeAppend(m) = Thoughts(ts) \o (IF s = <<>> THEN <<>> ELSE << Event("assistant.message", s) >>)
  BY <1>1 DEF EncodeAppend, EncodeAssistantAppend, Thoughts, Rest
<1>6. lg # <<>>
  BY DEF ReadsInto, ReadAlong, Empty, EndsWithUser
<1>7. both \in Seq(LogEvents) /\ LegalLog(both)
  BY <1>1, <1>3, <1>6, ThoughtsLegal
<1>8. Thoughts(ts) \in Seq(LogEvents)
  BY <1>3, ThoughtsAre
<1>9. CASE s = <<>>
  <2>1. Thoughts(ts) \o <<>> = Thoughts(ts)
    BY <1>8, ConcatEmptySeq
  <2> QED BY <1>1, <1>5, <1>7, <1>9, <2>1
<1>10. CASE s # <<>>
  <2>1. PICK e : e = Event("assistant.message", s)
    OBVIOUS
  <2>2. e \in LogEvents
    BY <1>4, <1>10, <2>1, EventTyped
  <2>3. lg \o EncodeAppend(m) = Append(both, e)
    <3>1. EncodeAppend(m) = Thoughts(ts) \o << e >>
      BY <1>5, <1>10, <2>1
    <3>2. lg \o (Thoughts(ts) \o << e >>) = Append(lg \o Thoughts(ts), e)
      BY <1>8, <2>2, ConcatLast
    <3> QED BY <1>1, <3>1, <3>2
  <2>4. Thought(both) \/ EndsWithUser(Resume(both).conv)
    <3>1. CASE ts = <<>>
      <4>1. Len(Thoughts(ts)) = 0
        <5>1. Len(Thoughts(ts)) = Len(ts) /\ Len(ts) = 0
          BY <1>3, <3>1, ThoughtsAre
        <5> QED BY <5>1
      <4>2. Thoughts(ts) = <<>>
        BY <1>8, <4>1, EmptySeq
      <4>3. both = lg
        BY <1>1, <4>2, ConcatEmptySeq
      <4>4. Resume(both) = r
        BY <4>3, ResumeIs
      <4> QED BY <4>4
    <3>2. CASE ts # <<>>
      <4>1. Len(ts) \in Nat \ {0} /\ 1 \in 1..Len(ts)
        <5>1. Len(ts) \in Nat \ {0}
          BY <1>3, <3>2, EmptySeq
        <5> QED BY <5>1
      <4>2. Len(Thoughts(ts)) = Len(ts) /\ Thoughts(ts)[1] = Event("assistant.thinking", << ts[1] >>)
        BY <1>3, <4>1, ThoughtsAre
      <4>3. Event("assistant.thinking", << ts[1] >>).type = "assistant.thinking"
        BY DEF Event
      <4>4. Thought(Thoughts(ts))
        BY <4>1, <4>2, <4>3 DEF Thought
      <4> QED BY <1>1, <1>8, <4>4, LogGrows
    <3> QED BY <3>1, <3>2
  <2>5. Legal(both, Resume(both), e)
    <3>1. e.type = "assistant.message" /\ e.blocks = s
      BY <2>1 DEF Event
    <3> QED BY <1>4, <1>10, <2>4, <3>1 DEF Legal
  <2>6. LegalLog(Append(both, e))
    BY <1>7, <2>2, <2>5, LegalAppend
  <2> QED BY <2>3, <2>6
<1> QED BY <1>9, <1>10

\* The first message that a compaction keeps is a text of the user, in what was
\* read of the log too.
LEMMA CompactionLegal ==
    ASSUME NEW lg \in Seq(LogEvents), NEW c \in Seq(Messages), CanCompact(c), NEW r,
           ReadsInto(Empty, lg, r), NEW st, Follows(r, c, lg, st),
           NEW n, Text(n) \in Block, NEW to, to = CompactTo(c)
    PROVE  Legal(lg, r, Applied(1, to, n))
<1>1. PICK e, k, d : e = Applied(1, to, n) /\ k = to + 2 /\ d = r.conv
  OBVIOUS
<1>2. e.type = "compaction.applied" /\ e.from = 1 /\ e.to = to /\ e.blocks = << Text(n) >>
  BY <1>1 DEF Applied
<1>3. Text(n).kind = "text"
  BY DEF Text
<1>4. /\ to \in Nat \ {0} /\ k <= Len(c) /\ to + 1 \in TurnStarts(c)
      /\ Cardinality({t \in TurnStarts(c) : t >= to + 1}) = KeepTurns
  BY <1>1, CompactsWithin
<1>5. k \in 1..Len(c) /\ (to + 1) + 1 = k /\ to >= 1
  BY <1>1, <1>4
<1>6. c[k].role = "user" /\ \E b \in ToSet(c[k].content) : b.kind = "text"
  BY <1>4, <1>5 DEF TurnStarts
<1>7. HasText(c[k])
  <2>1. PICK s : s = c[k].content
    OBVIOUS
  <2>2. s \in Seq(Block)
    <3>1. c[k] \in Messages
      BY <1>5
    <3> QED BY <2>1, <3>1 DEF Messages
  <2>3. DOMAIN s = 1..Len(s)
    BY <2>2
  <2> QED BY <1>6, <2>1, <2>3 DEF HasText, ToSet
<1>8. ~Thought(lg) => /\ k <= Len(d) /\ d[k].role = "user" /\ HasText(d[k])
                      /\ Cardinality({t \in TurnStarts(d) : t >= to + 1}) = KeepTurns
  <2>1. SUFFICES ASSUME ~Thought(lg)
                 PROVE  /\ k <= Len(d) /\ d[k].role = "user" /\ HasText(d[k])
                        /\ Cardinality({t \in TurnStarts(d) : t >= to + 1}) = KeepTurns
    OBVIOUS
  <2>2. AllAlike(d, c)
    BY <1>1, <2>1 DEF Follows
  <2>3. Len(d) = Len(c) /\ Alike(d[k], c[k])
    BY <1>5, <2>2 DEF AllAlike
  <2>4. d[k] = c[k]
    BY <1>6, <2>3 DEF Alike
  <2>5. TurnStarts(d) = TurnStarts(c)
    BY <2>3, <2>2 DEF AllAlike, Alike, TurnStarts
  <2> QED BY <1>4, <1>6, <1>7, <2>3, <2>4, <2>5
<1> QED BY <1>1, <1>2, <1>3, <1>5, <1>8 DEF Legal

LEMMA LegalPrefix ==
    ASSUME NEW lg \in Seq(LogEvents), LegalLog(lg), NEW k \in 0..Len(lg)
    PROVE  LegalLog(SubSeq(lg, 1, k))
<1>1. PICK s : s = SubSeq(lg, 1, k)
  OBVIOUS
<1>2. s \in Seq(LogEvents) /\ Len(s) = k /\ \A i \in 1..k : s[i] = lg[i]
  BY <1>1, PrefixIs
<1>3. Len(lg) \in Nat /\ k \in Nat /\ k <= Len(lg)
  OBVIOUS
<1>4. ASSUME NEW n \in 1..k PROVE Legal(Before(s, n), Resume(Before(s, n)), s[n])
  <2>1. PICK j, t, u : j = n - 1 /\ t = SubSeq(s, 1, n - 1) /\ u = SubSeq(lg, 1, n - 1)
    OBVIOUS
  <2>2. j \in 0..Len(s) /\ j \in 0..Len(lg) /\ n \in 1..Len(lg) /\ \A i \in 1..j : i \in 1..k
    BY <1>2, <1>3, <2>1
  <2>3. t \in Seq(LogEvents) /\ Len(t) = j /\ \A i \in 1..j : t[i] = s[i]
    BY <1>2, <2>1, <2>2, PrefixIs
  <2>4. u \in Seq(LogEvents) /\ Len(u) = j /\ \A i \in 1..j : u[i] = lg[i]
    BY <2>1, <2>2, PrefixIs
  <2>5. \A i \in 1..j : t[i] = u[i]
    BY <1>2, <2>2, <2>3, <2>4
  <2>6. t = u
    BY <2>3, <2>4, <2>5, SeqEqual
  <2>7. Before(s, n) = Before(lg, n)
    BY <2>1, <2>6 DEF Before
  <2> QED BY <1>2, <2>2, <2>7 DEF LegalLog
<1> QED BY <1>1, <1>2, <1>4 DEF LegalLog

-----------------------------------------------------------------------------
(* The steps, and the requests *)

PairInv == ReplayInv /\ LegalLog(log) /\ Ready(log, conv, stage)

\* When no request is sent, only the log is to be kept as it should.
LEMMA NotAsking ==
    ASSUME NEW lg, NEW c, NEW st, st # "reply"
    PROVE  Ready(lg, c, st)
  BY DEF Ready

LEMMA InitPairs == ReplayInit => PairInv
<1> SUFFICES ASSUME ReplayInit PROVE PairInv
  OBVIOUS
<1>1. log = <<>> /\ stage = "idle"
  BY DEF ReplayInit
<1>2. Len(<<>>) = 0 /\ 1..0 = {}
  OBVIOUS
<1>3. LegalLog(log)
  BY <1>1, <1>2 DEF LegalLog
<1>4. Ready(log, conv, stage)
  BY <1>1, NotAsking
<1> QED BY <1>3, <1>4, InitReplay DEF PairInv

LEMMA UserSpeaksPairs ==
    ASSUME PairInv, UserSpeaks
    PROVE  PairInv'
<1>1. PICK c, d, lg, lg2, st, b, e : /\ c = conv /\ d = conv' /\ lg = log /\ lg2 = log' /\ st = stage
                                     /\ b = Text(New) /\ e = Event("user.message", << b >>)
  OBVIOUS
<1>2. ReplayInv /\ ReplayTyped /\ c \in Seq(Messages) /\ lg \in Seq(LogEvents) /\ LegalLog(lg)
  BY <1>1 DEF PairInv, ReplayInv, ReplayTyped
<1>3. PICK r : ReadsInto(Empty, lg, r) /\ Follows(r, c, lg, st)
  BY <1>1, <1>2 DEF ReplayInv, Followed
<1>4. b \in Block /\ e \in LogEvents /\ d = MergeUser(c, b) /\ lg2 = Append(lg, e)
  BY <1>1, <1>2, TextRecorded
<1>5. e.type = "user.message" /\ e.blocks = << b >> /\ b.kind = "text"
  BY <1>1 DEF Event, Text
<1>6. LegalLog(lg2)
  <2>1. Legal(lg, Resume(lg), e)
    BY <1>4, <1>5 DEF Legal
  <2> QED BY <1>2, <1>4, <2>1, LegalAppend
<1>7. EndsWithUser(d)
  BY <1>2, <1>4, MergeTyped
<1>8. ASSUME Clean(lg2) PROVE Resume(lg2).pending = {}
  <2>1. Clean(lg)
    BY <1>2, <1>4, <1>8, CleanBefore
  <2>2. Pairs(lg, r)
    BY <1>2, <1>3, <2>1, LogsReadInPairs DEF ReadsInPairs
  <2>3. r.pending = {}
    <3>1. Counted(lg, r.pending)
      BY <2>2 DEF Pairs
    <3>2. e.type # "tool.completed" /\ Clean(Append(lg, e))
      BY <1>4, <1>5, <1>8
    <3> QED BY <1>2, <1>4, <3>1, <3>2, NothingCut
  <2>4. PICK p : p = [r EXCEPT !.conv = MergeUser(@, b)]
    OBVIOUS
  <2>5. r \in Readings
    BY <1>2, <1>3, ResumeIs
  <2>6. ReadsInto(r, << e >>, p)
    BY <1>1, <1>4, <2>4, <2>5, TextRead
  <2>7. p.pending = {}
    BY <2>3, <2>4, <2>5 DEF Readings
  <2>8. PICK es : es = << e >>
    OBVIOUS
  <2>9. es \in Seq(LogEvents) /\ lg2 = lg \o es
    BY <1>2, <1>4, <2>8
  <2>10. ReadsInto(Empty, lg \o es, p)
    BY <1>2, <1>3, <2>6, <2>8, <2>9, ReadsOn
  <2>11. lg2 \in Seq(LogEvents)
    BY <1>2, <1>4, EventAdded
  <2>12. Resume(lg2) = p
    BY <2>9, <2>10, <2>11, ResumeIs
  <2> QED BY <2>7, <2>12
<1>9. Ready(lg2, d, "reply")
  BY <1>7, <1>8 DEF Ready
<1>10. ReplayInv' /\ stage' = "reply"
  BY <1>2, UserSpeaksKeeps DEF UserSpeaks
<1> QED BY <1>1, <1>6, <1>9, <1>10 DEF PairInv

LEMMA ReplyFailsPairs ==
    ASSUME PairInv, ReplyFails
    PROVE  PairInv'
<1>1. ReplayInv'
  BY ReplyFailsKeeps DEF PairInv
<1>2. log' = log /\ stage' = "idle"
  BY DEF ReplyFails, Idle
<1>3. Ready(log', conv', stage')
  BY <1>2, NotAsking
<1>4. LegalLog(log')
  BY <1>2 DEF PairInv
<1> QED BY <1>1, <1>3, <1>4 DEF PairInv

LEMMA RepliesPairs ==
    ASSUME PairInv, NEW ks \in Shapes, Replies(ks)
    PROVE  PairInv'
<1>1. PICK c, lg, lg2, st, k, bs, m :
        /\ c = conv /\ lg = log /\ lg2 = log' /\ st = stage /\ k = New
        /\ bs = [i \in DOMAIN ks |-> [kind |-> ks[i], of |-> k, at |-> IF ks[i] = "call" THEN i ELSE 0]]
        /\ m = AssistantMessage(bs)
  OBVIOUS
<1>2. ReplayInv /\ ReplayTyped /\ lg \in Seq(LogEvents) /\ LegalLog(lg) /\ Ready(lg, c, st)
  BY <1>1 DEF PairInv, ReplayInv, ReplayTyped
<1>3. PICK r : ReadsInto(Empty, lg, r) /\ Follows(r, c, lg, st)
  BY <1>1, <1>2 DEF ReplayInv, Followed
<1>4. k \in Records
  BY <1>1, <1>2, NewText DEF Replies
<1>5. m \in Messages /\ m.role = "assistant"
  BY <1>1, <1>4, ReplyShape
<1>6. lg2 = lg \o EncodeAppend(m)
  <2>1. bs = [i \in DOMAIN ks |-> BlockAt(ks, i)]
    BY <1>1 DEF BlockAt
  <2> QED BY <1>1, <2>1 DEF Replies, AppendMessage
<1>7. EndsWithUser(r.conv)
  <2>1. st = "reply"
    BY <1>1 DEF Replies
  <2>2. EndsWithUser(c)
    BY <1>2, <2>1 DEF Ready
  <2> QED BY <1>3, <2>2 DEF Follows
<1>8. LegalLog(lg2)
  BY <1>2, <1>3, <1>5, <1>6, <1>7, ReplyLegal
<1>9. stage' # "reply"
  BY DEF Replies, Idle
<1>10. Ready(log', conv', stage')
  BY <1>9, NotAsking
<1>11. ReplayInv'
  BY <1>2, RepliesKeeps
<1> QED BY <1>1, <1>8, <1>10, <1>11 DEF PairInv

\* The answers to a round: after them nothing is pending.
LEMMA AnswersPairs ==
    ASSUME NEW lg \in Seq(LogEvents), LegalLog(lg), NEW c \in Seq(Messages), NEW r,
           ReadsInto(Empty, lg, r), Follows(r, c, lg, "tools")
    PROVE  /\ LegalLog(lg \o EncodeAppend(Answer(c)))
           /\ \A st : Ready(lg \o EncodeAppend(Answer(c)), Append(c, Answer(c)), st)
<1>1. PICK d, lg2 : d = Append(c, Answer(c)) /\ lg2 = lg \o EncodeAppend(Answer(c))
  OBVIOUS
<1>2. EndsWithUser(Append(c, Answer(c)))
  BY AnswersFollow
<1>3. Resume(lg \o EncodeAppend(Answer(c))).pending = {}
  BY AnswersFollow
<1>4. \A s : Ready(lg2, d, s)
  BY <1>1, <1>2, <1>3 DEF Ready
<1>5. LegalLog(lg2)
  BY AnswersRecorded, AnswersLegal, <1>1 DEF Follows, Answering
<1> QED BY <1>1, <1>4, <1>5

LEMMA ToolsAnswerPairs ==
    ASSUME PairInv, ToolsAnswer
    PROVE  PairInv'
<1>1. PICK c, d, lg, lg2, m : c = conv /\ d = conv' /\ lg = log /\ lg2 = log' /\ m = Answer(c)
  OBVIOUS
<1>2. ReplayInv /\ c \in Seq(Messages) /\ lg \in Seq(LogEvents) /\ LegalLog(lg)
  BY <1>1 DEF PairInv, ReplayInv, ReplayTyped
<1>3. PICK r : ReadsInto(Empty, lg, r) /\ Follows(r, c, lg, "tools")
  BY <1>1, <1>2 DEF ReplayInv, Followed, ToolsAnswer
<1>4. d = Append(c, m) /\ lg2 = lg \o EncodeAppend(m)
  BY <1>1 DEF ToolsAnswer, AppendMessage, Answer, RoundResults, Last
<1>5. /\ LegalLog(lg \o EncodeAppend(Answer(c)))
      /\ \A st : Ready(lg \o EncodeAppend(Answer(c)), Append(c, Answer(c)), st)
  BY <1>2, <1>3, AnswersPairs
<1>6. LegalLog(lg2) /\ Ready(lg2, d, stage')
  BY <1>1, <1>4, <1>5
<1>7. ReplayInv'
  BY <1>2, ToolsAnswerKeeps
<1> QED BY <1>1, <1>6, <1>7 DEF PairInv

LEMMA CompactsPairs ==
    ASSUME PairInv, Compacts
    PROVE  PairInv'
<1>1. PICK c, lg, lg2, st, n, to, e :
        /\ c = conv /\ lg = log /\ lg2 = log' /\ st = stage /\ n = New /\ to = CompactTo(conv)
        /\ e = Applied(1, to, n)
  OBVIOUS
<1>2. ReplayInv /\ ReplayTyped /\ c \in Seq(Messages) /\ lg \in Seq(LogEvents) /\ LegalLog(lg)
  BY <1>1 DEF PairInv, ReplayInv, ReplayTyped
<1>3. PICK r : ReadsInto(Empty, lg, r) /\ Follows(r, c, lg, st)
  BY <1>1, <1>2 DEF ReplayInv, Followed
<1>4. Text(n) \in Block
  BY <1>1, <1>2, NewText DEF Compacts
<1>5. CanCompact(c) /\ to = CompactTo(c) /\ lg2 = Append(lg, e)
  BY <1>1 DEF Compacts
<1>6. Legal(lg, Resume(lg), e)
  <2>1. Legal(lg, r, Applied(1, to, n))
    BY <1>2, <1>3, <1>4, <1>5, CompactionLegal
  <2>2. Resume(lg) = r
    BY <1>2, <1>3, ResumeIs
  <2> QED BY <1>1, <2>1, <2>2
<1>7. e \in LogEvents
  <2>1. to \in Nat
    BY <1>2, <1>5, CompactsWithin
  <2>2. << Text(n) >> \in Seq(Block) /\ << Text(n) >> # <<>>
    BY <1>4
  <2> QED BY <1>1, <2>1, <2>2 DEF Applied, LogEvents
<1>8. LegalLog(lg2)
  BY <1>2, <1>5, <1>6, <1>7, LegalAppend
<1>9. stage' = "idle"
  BY DEF Compacts
<1>10. Ready(log', conv', stage')
  BY <1>9, NotAsking
<1>11. ReplayInv'
  BY <1>2, CompactsKeeps
<1> QED BY <1>1, <1>8, <1>10, <1>11 DEF PairInv

LEMMA RestartsPairs ==
    ASSUME PairInv, Restarts
    PROVE  PairInv'
<1>1. ReplayInv /\ log \in Seq(LogEvents) /\ flushed \in 0..Len(log) /\ LegalLog(log)
  BY DEF PairInv, ReplayInv, ReplayTyped
<1>2. PICK n \in flushed..Len(log) :
        log' = IF Resume(SubSeq(log, 1, n)).ok THEN SubSeq(log, 1, n) ELSE <<>>
  BY DEF Restarts
<1>3. n \in 0..Len(log)
  BY <1>1
<1>4. LegalLog(SubSeq(log, 1, n))
  BY <1>1, <1>3, LegalPrefix
<1>5. LegalLog(<<>>)
  <2>1. Len(<<>>) = 0 /\ 1..0 = {}
    OBVIOUS
  <2> QED BY <2>1 DEF LegalLog
<1>6. LegalLog(log')
  BY <1>2, <1>4, <1>5
<1>7. stage' = "idle"
  BY DEF Restarts
<1>8. Ready(log', conv', stage')
  BY <1>7, NotAsking
<1>9. ReplayInv'
  BY <1>1, RestartsKeeps
<1> QED BY <1>6, <1>8, <1>9 DEF PairInv

\* What Orderly and Balanced say of a conversation without pending calls.
LEMMA BalancedIsPaired ==
    ASSUME NEW d \in Seq(Messages), Balanced(d, {})
    PROVE  CallsAnswered(d) /\ ResultsBelong(d)
<1>1. Len(d) \in Nat /\ DOMAIN d = 1..Len(d)
  OBVIOUS
<1>2. ASSUME NEW i \in 1..Len(d) PROVE Needs(d[i]) = Behind(d, i)
  BY DEF Balanced
<1>3. ASSUME NEW i \in 1..(Len(d) - 1) PROVE i \in 1..Len(d) /\ Needs(d[i]) = Given(d[i + 1])
  <2>1. i \in 1..Len(d) /\ i < Len(d)
    BY <1>1
  <2> QED BY <1>2, <2>1 DEF Behind
<1>4. CallsAnswered(d)
  BY <1>3 DEF CallsAnswered, Needs, Given
<1>5. ResultsBelong(d)
  <2>1. SUFFICES ASSUME NEW i \in 1..Len(d)
                 PROVE  Results(d[i].content) \subseteq
                          IF i = 1 THEN {} ELSE {ToolResult(b) : b \in Calls(d[i - 1].content)}
    BY <1>1 DEF ResultsBelong
  <2>2. CASE i = 1
    <3>1. d # <<>>
      BY <1>1, <2>1
    <3>2. Given(d[1]) = {}
      BY <3>1 DEF Balanced
    <3> QED BY <2>2, <3>2 DEF Given
  <2>3. CASE i # 1
    <3>1. PICK j : j = i - 1
      OBVIOUS
    <3>2. j \in 1..(Len(d) - 1) /\ j + 1 = i
      BY <1>1, <2>3, <3>1
    <3>3. Needs(d[j]) = Given(d[i])
      BY <1>3, <3>2
    <3> QED BY <2>3, <3>1, <3>3 DEF Needs, Given
  <2> QED BY <2>2, <2>3
<1> QED BY <1>4, <1>5

LEMMA PairInvPairs ==
    ASSUME PairInv
    PROVE  RequestPaired
<1>1. PICK c, lg, st : c = conv /\ lg = log /\ st = stage
  OBVIOUS
<1>2. ReplayInv /\ lg \in Seq(LogEvents) /\ LegalLog(lg) /\ Ready(lg, c, st)
  BY <1>1 DEF PairInv, ReplayInv, ReplayTyped
<1>3. PICK r : ReadsInto(Empty, lg, r) /\ Follows(r, c, lg, st)
  BY <1>1, <1>2 DEF ReplayInv, Followed
<1>4. SUFFICES ASSUME st = "reply", ~CompactedThinking, ~CutRound, ~MergedIntoResults
               PROVE  CallsAnswered(Canon(c)) /\ ResultsBelong(Canon(c))
  BY <1>1 DEF RequestPaired
<1>5. DOMAIN lg = 1..Len(lg)
  BY <1>2
<1>6. ~ThoughtCompacted(lg)
  BY <1>1, <1>4, <1>5 DEF CompactedThinking, ThoughtCompacted
<1>7. ~Cut(lg)
  BY <1>1, <1>4, <1>5 DEF CutRound, Cut
<1>8. ~Merged(lg)
  BY <1>1, <1>4, <1>5 DEF MergedIntoResults, Merged
<1>9. Clean(lg)
  BY <1>6, <1>7, <1>8 DEF Clean
<1>10. Resume(lg) = r /\ r \in Readings
  BY <1>2, <1>3, ResumeIs
<1>11. r.pending = {}
  BY <1>2, <1>4, <1>9, <1>10 DEF Ready
<1>12. Canon(r.conv) = Canon(c)
  BY <1>3, <1>6 DEF Follows
<1>13. Balanced(Canon(r.conv), r.pending)
  <2>1. Pairs(lg, r)
    BY <1>2, <1>3, <1>9, LogsReadInPairs DEF ReadsInPairs
  <2> QED BY <2>1 DEF Pairs
<1>14. Canon(r.conv) \in Seq(Messages)
  BY <1>10, PairsAre
<1>15. CallsAnswered(Canon(r.conv)) /\ ResultsBelong(Canon(r.conv))
  BY <1>11, <1>13, <1>14, BalancedIsPaired
<1> QED BY <1>12, <1>15

LEMMA StepPairs ==
    ASSUME PairInv, [ReplayNext]_replayVars
    PROVE  PairInv'
<1>1. CASE UserSpeaks
  BY <1>1, UserSpeaksPairs
<1>2. CASE ReplyFails
  BY <1>2, ReplyFailsPairs
<1>3. CASE ToolsAnswer
  BY <1>3, ToolsAnswerPairs
<1>4. CASE Compacts
  BY <1>4, CompactsPairs
<1>5. CASE Restarts
  BY <1>5, RestartsPairs
<1>6. CASE \E ks \in Shapes : Replies(ks)
  BY <1>6, RepliesPairs
<1>7. CASE UNCHANGED replayVars
  BY <1>7 DEF replayVars, PairInv, ReplayInv, ReplayTyped
<1> QED BY <1>1, <1>2, <1>3, <1>4, <1>5, <1>6, <1>7 DEF ReplayNext

\* A request carries no call without its result and no result without its call,
\* after any turns, compactions and restarts, as long as none of the three that
\* RequestPaired names happened.
THEOREM RequestsArePaired == ReplaySpec => []RequestPaired
<1>1. PairInv /\ [ReplayNext]_replayVars => PairInv'
  BY StepPairs
<1> QED BY <1>1, InitPairs, PairInvPairs, PTL DEF ReplaySpec

-----------------------------------------------------------------------------
(* Sequences one behind the other *)

Flattens(u, ss, S) ==
    /\ u \in [0..Len(ss) -> Seq(S)]
    /\ u[0] = <<>>
    /\ \A i \in 1..Len(ss) : u[i] = u[i - 1] \o ss[i]

LEMMA FlattensExist ==
    ASSUME NEW S, NEW ss \in Seq(Seq(S))
    PROVE  \E u : Flattens(u, ss, S)
<1> DEFINE n == Len(ss)
           W == Seq(S)
           step == [p \in W \X (1..n) |-> p[1] \o ss[p[2]]]
<1>1. step \in [W \X (1..n) -> W]
  <2>1. ASSUME NEW p \in W \X (1..n) PROVE p[1] \o ss[p[2]] \in W
    <3>1. p[1] \in Seq(S) /\ ss[p[2]] \in Seq(S)
      OBVIOUS
    <3> QED BY <3>1, ConcatIs
  <2> QED BY <2>1
<1>2. <<>> \in W /\ n \in Nat
  OBVIOUS
<1>3. PICK f : Chained(f, n, W, <<>>, step)
  <2> HIDE DEF step, n, W
  <2> QED BY <1>1, <1>2, ChainExists
<1>4. ASSUME NEW i \in 1..n PROVE f[i] = f[i - 1] \o ss[i]
  <2>1. i - 1 \in 0..n
    OBVIOUS
  <2>2. f[i - 1] \in W
    <3> HIDE DEF W, step
    <3> QED BY <1>3, <2>1 DEF Chained
  <2>3. step[<<f[i - 1], i>>] = f[i - 1] \o ss[i]
    BY <2>2
  <2> HIDE DEF step
  <2> QED BY <1>3, <2>3 DEF Chained
<1>5. Flattens(f, ss, S)
  BY <1>3, <1>4 DEF Chained, Flattens
<1> QED BY <1>5

LEMMA FlattenIs ==
    ASSUME NEW S, NEW ss \in Seq(Seq(S)), NEW u, Flattens(u, ss, S)
    PROVE  FlattenSeq(ss) = u[Len(ss)] /\ u[Len(ss)] \in Seq(S)
<1> DEFINE n == Len(ss)
           Recurs(g) == g = [i \in 1..n |-> IF i = 1 THEN ss[i] ELSE g[i - 1] \o ss[i]]
<1>0. n \in Nat /\ n \in 0..n /\ u[n] \in Seq(S)
  BY DEF Flattens
<1>1. CASE n = 0
  <2>1. ss = <<>>
    BY <1>1, EmptySeq
  <2>2. FlattenSeq(ss) = <<>>
    BY <1>1, <2>1 DEF FlattenSeq
  <2> QED BY <1>0, <1>1, <2>2 DEF Flattens
<1>2. CASE n # 0
  <2>1. FlattenSeq(ss) = (CHOOSE g : Recurs(g))[n]
    BY <1>2 DEF FlattenSeq
  <2>2. PICK w : w = [i \in 1..n |-> u[i]]
    OBVIOUS
  <2>3. ASSUME NEW i \in 1..n PROVE w[i] = IF i = 1 THEN ss[i] ELSE w[i - 1] \o ss[i]
    <3>1. u[i] = u[i - 1] \o ss[i] /\ ss[i] \in Seq(S) /\ w[i] = u[i]
      <4>1. u[i] = u[i - 1] \o ss[i]
        BY DEF Flattens
      <4>2. ss[i] \in Seq(S)
        OBVIOUS
      <4>3. w[i] = u[i]
        BY <2>2
      <4> QED BY <4>1, <4>2, <4>3
    <3>2. CASE i = 1
      <4>1. u[i - 1] = <<>>
        BY <3>2 DEF Flattens
      <4>2. <<>> \o ss[i] = ss[i]
        BY <3>1, ConcatEmptySeq
      <4> QED BY <3>1, <3>2, <4>1, <4>2
    <3>3. CASE i # 1
      <4>1. i - 1 \in 1..n
        BY <3>3
      <4> QED BY <2>2, <3>1, <3>3, <4>1
    <3> QED BY <3>2, <3>3
  <2>4. Recurs(w)
    <3>1. w = [i \in 1..n |-> w[i]]
      BY <2>2
    <3> QED BY <2>3, <3>1
  <2>5. PICK g : g = (CHOOSE x : Recurs(x))
    OBVIOUS
  <2>6. Recurs(g)
    <3> HIDE DEF Recurs
    <3> QED BY <2>4, <2>5
  <2> DEFINE T == {i \in 1..n : g[i] # w[i]}
  <2>7. T = {}
    <3>1. SUFFICES ASSUME T # {} PROVE FALSE
      OBVIOUS
    <3>2. T \subseteq Nat
      BY <1>0
    <3>3. PICK k \in T : \A j \in T : k <= j
      <4> HIDE DEF T
      <4> QED BY <3>1, <3>2, NatMin
    <3>4. g[k] = IF k = 1 THEN ss[k] ELSE g[k - 1] \o ss[k]
      BY <2>6, <3>3
    <3>5. k # 1
      BY <2>3, <3>3, <3>4
    <3>6. k - 1 \in 1..n /\ ~(k <= k - 1)
      BY <3>3, <3>5
    <3>7. g[k - 1] = w[k - 1]
      BY <3>3, <3>6
    <3>8. g[k] = w[k]
      BY <2>3, <3>3, <3>4, <3>5, <3>7
    <3> QED BY <3>3, <3>8
  <2>8. n \in 1..n
    BY <1>0, <1>2
  <2>9. g[n] = u[n]
    BY <2>2, <2>7, <2>8
  <2> HIDE DEF Recurs
  <2> QED BY <1>0, <2>1, <2>5, <2>9
<1> QED BY <1>1, <1>2

LEMMA FlattenAppend ==
    ASSUME NEW S, NEW ss \in Seq(Seq(S)), NEW x \in Seq(S)
    PROVE  /\ FlattenSeq(ss) \in Seq(S)
           /\ FlattenSeq(Append(ss, x)) = FlattenSeq(ss) \o x
<1>0. PICK tt, n : tt = Append(ss, x) /\ n = Len(ss)
  OBVIOUS
<1>1. tt \in Seq(Seq(S)) /\ n \in Nat /\ Len(tt) = n + 1 /\ tt[n + 1] = x /\ \A i \in 1..n : tt[i] = ss[i]
  BY <1>0, AppendProperties
<1>2. PICK u : Flattens(u, tt, S)
  BY <1>1, FlattensExist
<1>3. FlattenSeq(tt) = u[n + 1] /\ u[n + 1] = u[n] \o x
  <2>1. n + 1 \in 1..(n + 1) /\ n + 1 - 1 = n
    BY <1>1
  <2>2. FlattenSeq(tt) = u[Len(tt)]
    BY <1>1, <1>2, FlattenIs
  <2>3. \A i \in 1..Len(tt) : u[i] = u[i - 1] \o tt[i]
    BY <1>2 DEF Flattens
  <2>4. n + 1 \in 1..Len(tt)
    BY <1>1, <2>1
  <2>5. u[n + 1] = u[(n + 1) - 1] \o tt[n + 1]
    BY <2>3, <2>4
  <2>6. (n + 1) - 1 = n /\ tt[n + 1] = x
    BY <1>1
  <2>7. u[n + 1] = u[n] \o x
    BY <2>5, <2>6
  <2>8. Len(tt) = n + 1
    BY <1>1
  <2> QED BY <2>2, <2>7, <2>8
<1>4. PICK v : v = [i \in 0..n |-> u[i]]
  OBVIOUS
<1>5. Flattens(v, ss, S)
  <2>1. ASSUME NEW i \in 1..n PROVE v[i] = v[i - 1] \o ss[i]
    <3>1. i \in 0..n /\ i - 1 \in 0..n /\ i \in 1..(n + 1)
      BY <1>1
    <3> QED BY <1>1, <1>2, <1>4, <3>1 DEF Flattens
  <2>2. v \in [0..n -> Seq(S)] /\ v[0] = <<>>
    BY <1>1, <1>2, <1>4 DEF Flattens
  <2> QED BY <1>0, <2>1, <2>2 DEF Flattens
<1>6. FlattenSeq(ss) = u[n] /\ FlattenSeq(ss) \in Seq(S)
  <2>1. n \in 0..n
    BY <1>1
  <2>2. FlattenSeq(ss) = v[n] /\ v[n] \in Seq(S)
    BY <1>0, <1>5, FlattenIs
  <2> QED BY <1>4, <2>1, <2>2
<1> QED BY <1>0, <1>3, <1>6

\* A block with who says it; a text of the user.
Voices == [role : {"user", "assistant"}, block : Block]
IsText(v) == v.role = "user" /\ v.block.kind = "text"

LEMMA SpeaksTyped ==
    ASSUME NEW role \in {"user", "assistant"}, NEW bs \in Seq(Block)
    PROVE  /\ Speaks(role, bs) \in Seq(Voices) /\ Len(Speaks(role, bs)) = Len(bs)
           /\ \A i \in 1..Len(bs) : Speaks(role, bs)[i] = [role |-> role, block |-> bs[i]]
<1>1. DOMAIN bs = 1..Len(bs) /\ Len(bs) \in Nat
  OBVIOUS
<1>2. PICK f : f = Speaks(role, bs)
  OBVIOUS
<1>3. f = [i \in 1..Len(bs) |-> [role |-> role, block |-> bs[i]]]
  BY <1>1, <1>2 DEF Speaks
<1>4. \A i \in 1..Len(bs) : [role |-> role, block |-> bs[i]] \in Voices
  BY DEF Voices
<1>5. f \in [1..Len(bs) -> Voices]
  BY <1>3, <1>4
<1>6. f \in Seq(Voices) /\ Len(f) = Len(bs)
  BY <1>1, <1>5
<1> QED BY <1>2, <1>3, <1>6

LEMMA SpeaksJoined ==
    ASSUME NEW role \in {"user", "assistant"}, NEW s \in Seq(Block), NEW t \in Seq(Block)
    PROVE  Speaks(role, s \o t) = Speaks(role, s) \o Speaks(role, t)
<1>1. PICK u, n, k, a, b, f, g : /\ u = s \o t /\ n = Len(s) /\ k = Len(t) /\ a = Speaks(role, s)
                                 /\ b = Speaks(role, t) /\ f = Speaks(role, u) /\ g = a \o b
  OBVIOUS
<1>2. /\ u \in Seq(Block) /\ Len(u) = n + k /\ n \in Nat /\ k \in Nat
      /\ \A i \in 1..(n + k) : u[i] = IF i <= n THEN s[i] ELSE t[i - n]
  BY <1>1, ConcatIs
<1>3. /\ a \in Seq(Voices) /\ Len(a) = n /\ \A i \in 1..n : a[i] = [role |-> role, block |-> s[i]]
  BY <1>1, SpeaksTyped
<1>4. /\ b \in Seq(Voices) /\ Len(b) = k /\ \A i \in 1..k : b[i] = [role |-> role, block |-> t[i]]
  BY <1>1, SpeaksTyped
<1>5. /\ f \in Seq(Voices) /\ Len(f) = n + k /\ \A i \in 1..(n + k) : f[i] = [role |-> role, block |-> u[i]]
  <2>1. /\ f \in Seq(Voices) /\ Len(f) = Len(u)
        /\ \A i \in 1..Len(u) : f[i] = [role |-> role, block |-> u[i]]
    BY <1>1, <1>2, SpeaksTyped
  <2>2. Len(u) = n + k
    BY <1>2
  <2> QED BY <2>1, <2>2
<1>6. /\ g \in Seq(Voices) /\ Len(g) = n + k
      /\ \A i \in 1..(n + k) : g[i] = IF i <= n THEN a[i] ELSE b[i - n]
  <2>1. a \in Seq(Voices) /\ b \in Seq(Voices) /\ g = a \o b
    BY <1>1, <1>3, <1>4
  <2>2. /\ g \in Seq(Voices) /\ Len(g) = Len(a) + Len(b)
        /\ \A i \in 1..(Len(a) + Len(b)) : g[i] = IF i <= Len(a) THEN a[i] ELSE b[i - Len(a)]
    BY <2>1, ConcatIs
  <2>3. Len(a) = n /\ Len(b) = k
    BY <1>3, <1>4
  <2> QED BY <2>2, <2>3
<1>7. ASSUME NEW i \in 1..(n + k) PROVE f[i] = g[i]
  <2>1. CASE i <= n
    <3>1. i \in 1..n
      BY <1>2, <2>1
    <3> QED BY <1>2, <1>3, <1>5, <1>6, <2>1, <3>1
  <2>2. CASE ~(i <= n)
    <3>1. i - n \in 1..k
      BY <1>2, <2>2
    <3> QED BY <1>2, <1>4, <1>5, <1>6, <2>2, <3>1, ZenonT(30)
  <2> QED BY <2>1, <2>2
<1>8. f = g
  BY <1>5, <1>6, <1>7, SeqEqual
<1> QED BY <1>1, <1>8

\* What the messages of c say, one by one.
Speeches(c) == [i \in DOMAIN c |-> Speaks(c[i].role, c[i].content)]

LEMMA FlatNone == Flat(<<>>) = <<>> /\ Said(<<>>) = <<>>
<1>1. DOMAIN <<>> = {} /\ Len(<<>>) = 0
  OBVIOUS
<1>2. PICK f, g : f = [i \in DOMAIN <<>> |-> Speaks(<<>>[i].role, <<>>[i].content)]
                  /\ g = [i \in DOMAIN <<>> |-> Says(<<>>[i])]
  OBVIOUS
<1>3. f = <<>> /\ g = <<>>
  BY <1>1, <1>2
<1>4. FlattenSeq(f) = <<>> /\ FlattenSeq(g) = <<>>
  BY <1>1, <1>3 DEF FlattenSeq
<1>5. Flat(<<>>) = FlattenSeq(f)
  BY <1>2 DEF Flat
<1>6. Said(<<>>) = FlattenSeq(g)
  BY <1>2 DEF Said
<1> QED BY <1>4, <1>5, <1>6

LEMMA SpeechesTyped ==
    ASSUME NEW c \in Seq(Messages)
    PROVE  /\ Speeches(c) \in Seq(Seq(Voices)) /\ Len(Speeches(c)) = Len(c)
           /\ \A i \in 1..Len(c) : Speeches(c)[i] = Speaks(c[i].role, c[i].content)
<1>1. DOMAIN c = 1..Len(c) /\ Len(c) \in Nat
  OBVIOUS
<1>2. PICK f : f = Speeches(c)
  OBVIOUS
<1>3. f = [i \in 1..Len(c) |-> Speaks(c[i].role, c[i].content)]
  BY <1>1, <1>2 DEF Speeches
<1>4. ASSUME NEW i \in 1..Len(c) PROVE Speaks(c[i].role, c[i].content) \in Seq(Voices)
  <2>1. PICK m : m = c[i]
    OBVIOUS
  <2>2. m \in Messages
    BY <2>1
  <2>3. m.role \in {"user", "assistant"} /\ m.content \in Seq(Block)
    BY <2>2 DEF Messages
  <2> QED BY <2>1, <2>3, SpeaksTyped
<1>5. f \in [1..Len(c) -> Seq(Voices)]
  BY <1>3, <1>4
<1>6. f \in Seq(Seq(Voices)) /\ Len(f) = Len(c)
  BY <1>1, <1>5
<1> QED BY <1>2, <1>3, <1>6

LEMMA FlatAppend ==
    ASSUME NEW c \in Seq(Messages), NEW m \in Messages
    PROVE  /\ Flat(c) \in Seq(Voices)
           /\ Flat(Append(c, m)) = Flat(c) \o Speaks(m.role, m.content)
<1>1. PICK d, n, f, g, x : /\ d = Append(c, m) /\ n = Len(c) /\ f = Speeches(c) /\ g = Speeches(d)
                           /\ x = Speaks(m.role, m.content)
  OBVIOUS
<1>2. d \in Seq(Messages) /\ n \in Nat /\ Len(d) = n + 1 /\ d[n + 1] = m /\ \A i \in 1..n : d[i] = c[i]
  BY <1>1, AppendProperties
<1>3. f \in Seq(Seq(Voices)) /\ Len(f) = n /\ \A i \in 1..n : f[i] = Speaks(c[i].role, c[i].content)
  BY <1>1, SpeechesTyped
<1>4. /\ g \in Seq(Seq(Voices)) /\ Len(g) = n + 1
      /\ \A i \in 1..(n + 1) : g[i] = Speaks(d[i].role, d[i].content)
  BY <1>1, <1>2, SpeechesTyped
<1>5. x \in Seq(Voices)
  <2>1. m.role \in {"user", "assistant"} /\ m.content \in Seq(Block)
    BY DEF Messages
  <2> QED BY <1>1, <2>1, SpeaksTyped
<1>6. g = Append(f, x)
  <2>1. PICK h : h = Append(f, x)
    OBVIOUS
  <2>2. h \in Seq(Seq(Voices)) /\ Len(h) = n + 1 /\ h[n + 1] = x /\ \A i \in 1..n : h[i] = f[i]
    BY <1>3, <1>5, <2>1, AppendProperties
  <2>3. ASSUME NEW i \in 1..(n + 1) PROVE g[i] = h[i]
    <3>1. CASE i = n + 1
      BY <1>1, <1>2, <1>4, <2>2, <3>1
    <3>2. CASE i # n + 1
      <4>1. i \in 1..n
        BY <1>2, <3>2
      <4> QED BY <1>2, <1>3, <1>4, <2>2, <4>1
    <3> QED BY <3>1, <3>2
  <2>4. g = h
    BY <1>4, <2>2, <2>3, SeqEqual
  <2> QED BY <2>1, <2>4
<1>7. FlattenSeq(f) \in Seq(Voices) /\ FlattenSeq(Append(f, x)) = FlattenSeq(f) \o x
  BY <1>3, <1>5, FlattenAppend
<1>8. Flat(c) = FlattenSeq(f) /\ Flat(d) = FlattenSeq(g)
  BY <1>1 DEF Flat, Speeches
<1> QED BY <1>1, <1>6, <1>7, <1>8

-----------------------------------------------------------------------------
(* How many texts of the user are in what is said *)

TextsIn(v) == {i \in 1..Len(v) : IsText(v[i])}
TextCount(v) == Cardinality(TextsIn(v))

LEMMA TextCountIs ==
    ASSUME NEW v \in Seq(Voices)
    PROVE  IsFiniteSet(TextsIn(v)) /\ TextCount(v) \in Nat
<1>1. PICK n : n = Len(v)
  OBVIOUS
<1>2. n \in Nat
  BY <1>1
<1>3. IsFiniteSet(1..n)
  BY <1>2, FS_Interval
<1>4. TextsIn(v) \in SUBSET (1..n)
  BY <1>1 DEF TextsIn
<1>5. IsFiniteSet(TextsIn(v))
  BY <1>3, <1>4, FS_Subset
<1> QED BY <1>5, FS_CardinalityType DEF TextCount

LEMMA TextCountNone == TextCount(<<>>) = 0
<1>1. TextsIn(<<>>) = {}
  BY DEF TextsIn
<1> QED BY <1>1, FS_EmptySet DEF TextCount

LEMMA TextCountAppend ==
    ASSUME NEW v \in Seq(Voices), NEW x \in Voices
    PROVE  TextCount(Append(v, x)) = TextCount(v) + (IF IsText(x) THEN 1 ELSE 0)
<1>1. PICK w, n : w = Append(v, x) /\ n = Len(v)
  OBVIOUS
<1>2. n \in Nat /\ Len(w) = n + 1 /\ w[n + 1] = x /\ \A i \in 1..n : w[i] = v[i]
  BY <1>1, AppendProperties
<1>3. PICK T, U : T = TextsIn(v) /\ U = TextsIn(w)
  OBVIOUS
<1>4. IsFiniteSet(T) /\ Cardinality(T) \in Nat
  BY <1>3, TextCountIs DEF TextCount
<1>5. U = IF IsText(x) THEN T \cup {n + 1} ELSE T
  <2>1. \A i \in 1..(n + 1) : i = n + 1 \/ i \in 1..n
    BY <1>2
  <2>2. \A i \in 1..n : i \in 1..(n + 1) /\ i # n + 1
    BY <1>2
  <2>3. T = {i \in 1..n : IsText(v[i])}
    BY <1>1, <1>3 DEF TextsIn
  <2>4. U = {i \in 1..(n + 1) : IsText(w[i])}
    BY <1>2, <1>3 DEF TextsIn
  <2>5. n + 1 \in 1..(n + 1)
    BY <1>2
  <2>6. \A i : i \in U <=> (i \in T \/ (i = n + 1 /\ IsText(x)))
    BY <1>2, <2>1, <2>2, <2>3, <2>4, <2>5
  <2> HIDE DEF IsText
  <2> QED BY <2>6
<1>6. n + 1 \notin T
  <2>1. n + 1 \notin 1..n
    BY <1>2
  <2> QED BY <1>1, <1>3, <2>1 DEF TextsIn
<1>7. CASE IsText(x)
  <2>1. U = T \cup {n + 1}
    BY <1>5, <1>7
  <2>2. Cardinality(U) = Cardinality(T) + 1
    BY <1>4, <1>6, <2>1, FS_AddElement
  <2> QED BY <1>1, <1>3, <1>7, <2>2 DEF TextCount
<1>8. CASE ~IsText(x)
  <2>1. Cardinality(U) = Cardinality(T) + 0
    BY <1>4, <1>5, <1>8
  <2> QED BY <1>1, <1>3, <1>8, <2>1 DEF TextCount
<1> QED BY <1>7, <1>8

\* The empty sequence behind; one more behind two.
LEMMA ConcatAppend ==
    ASSUME NEW S, NEW s \in Seq(S), NEW t \in Seq(S), NEW x \in S
    PROVE  s \o Append(t, x) = Append(s \o t, x)
<1>1. PICK n, k, st, tx, a, b : /\ n = Len(s) /\ k = Len(t) /\ st = s \o t /\ tx = Append(t, x)
                                /\ a = s \o tx /\ b = Append(st, x)
  OBVIOUS
<1>2. n \in Nat /\ k \in Nat
  BY <1>1
<1>3. tx \in Seq(S) /\ Len(tx) = k + 1 /\ tx[k + 1] = x /\ \A i \in 1..k : tx[i] = t[i]
  BY <1>1, AppendProperties
<1>4. st \in Seq(S) /\ Len(st) = n + k /\ \A i \in 1..(n + k) : st[i] = IF i <= n THEN s[i] ELSE t[i - n]
  BY <1>1, ConcatIs
<1>5. b \in Seq(S) /\ Len(b) = (n + k) + 1 /\ b[(n + k) + 1] = x /\ \A i \in 1..(n + k) : b[i] = st[i]
  BY <1>1, <1>4, AppendProperties
<1>6. a \in Seq(S) /\ Len(a) = n + (k + 1) /\ \A i \in 1..(n + (k + 1)) : a[i] = IF i <= n THEN s[i] ELSE tx[i - n]
  <2>0. tx \in Seq(S) /\ a = s \o tx
    BY <1>1, <1>3
  <2>1. /\ a \in Seq(S) /\ Len(a) = Len(s) + Len(tx)
        /\ \A i \in 1..(Len(s) + Len(tx)) : a[i] = IF i <= Len(s) THEN s[i] ELSE tx[i - Len(s)]
    BY <2>0, ConcatIs
  <2>2. Len(tx) = k + 1 /\ Len(s) = n
    BY <1>1, <1>3
  <2> QED BY <2>1, <2>2
<1>7. ASSUME NEW i \in 1..((n + k) + 1) PROVE a[i] = b[i]
  <2>1. i \in 1..(n + (k + 1))
    BY <1>2
  <2>2. CASE i <= n
    <3>1. i \in 1..(n + k)
      BY <1>2, <2>2
    <3> QED BY <1>4, <1>5, <1>6, <2>1, <2>2, <3>1
  <2>3. CASE ~(i <= n) /\ i <= n + k
    <3>1. i \in 1..(n + k) /\ i - n \in 1..k
      BY <1>2, <2>3
    <3> QED BY <1>3, <1>4, <1>5, <1>6, <2>1, <2>3, <3>1
  <2>4. CASE i > n + k
    <3>1. i = (n + k) + 1 /\ i - n = k + 1 /\ ~(i <= n)
      BY <1>2, <2>4
    <3> QED BY <1>3, <1>5, <1>6, <2>1, <3>1
  <2> QED BY <1>2, <2>2, <2>3, <2>4
<1>8. a = b
  <2>1. Len(a) = (n + k) + 1
    BY <1>2, <1>6
  <2> QED BY <1>5, <1>6, <1>7, <2>1, SeqEqual
<1> QED BY <1>1, <1>8

LEMMA TextCountConcat ==
    ASSUME NEW v \in Seq(Voices), NEW w \in Seq(Voices)
    PROVE  TextCount(v \o w) = TextCount(v) + TextCount(w)
<1> DEFINE G == {t \in Seq(Voices) : TextCount(v \o t) = TextCount(v) + TextCount(t)}
<1>1. <<>> \in G
  BY ConcatEmptySeq, TextCountIs, TextCountNone
<1>2. ASSUME NEW s \in Seq(Voices), NEW x \in Voices, s \in G PROVE Append(s, x) \in G
  <2>1. PICK vs : vs = v \o s
    OBVIOUS
  <2>2. vs \in Seq(Voices) /\ v \o Append(s, x) = Append(vs, x)
    BY ConcatIs, ConcatAppend, <2>1
  <2>3. TextCount(vs) = TextCount(v) + TextCount(s)
    BY <1>2, <2>1
  <2>4. PICK k : k = IF IsText(x) THEN 1 ELSE 0
    OBVIOUS
  <2>5. k \in Nat
    BY <2>4
  <2>6. TextCount(Append(vs, x)) = TextCount(vs) + k /\ TextCount(Append(s, x)) = TextCount(s) + k
    BY <2>2, <2>4, TextCountAppend
  <2>7. TextCount(v) \in Nat /\ TextCount(s) \in Nat
    BY TextCountIs
  <2>8. TextCount(Append(vs, x)) = TextCount(v) + TextCount(Append(s, x))
    BY <2>3, <2>5, <2>6, <2>7
  <2>9. Append(s, x) \in Seq(Voices)
    BY AppendProperties
  <2> QED BY <2>2, <2>8, <2>9
<1>3. GrowsIn(G, Voices)
  <2> HIDE DEF G
  <2> QED BY <1>1, <1>2 DEF GrowsIn
<1>4. w \in G
  <2> HIDE DEF G
  <2> QED BY <1>3, AllSequences
<1> QED BY <1>4

LEMMA TextCountOne ==
    ASSUME NEW x \in Voices
    PROVE  << x >> \in Seq(Voices) /\ TextCount(<< x >>) = IF IsText(x) THEN 1 ELSE 0
<1>1. <<>> \in Seq(Voices) /\ Append(<<>>, x) = << x >> /\ << x >> \in Seq(Voices)
  OBVIOUS
<1>2. TextCount(Append(<<>>, x)) = TextCount(<<>>) + (IF IsText(x) THEN 1 ELSE 0)
  BY <1>1, TextCountAppend
<1> QED BY <1>1, <1>2, TextCountNone

\* Two ways to make the same sequence of two.
SameMade(a, b, c, d) == a \o b = c \o d /\ Len(b) <= Len(d)
EndsIn(S, d, b) == \E y \in Seq(S) : d = y \o b

\* Of two ends of a sequence, the shorter is an end of the other.
LEMMA CommonEnd ==
    ASSUME NEW S, NEW a \in Seq(S), NEW b \in Seq(S), NEW c \in Seq(S), NEW d \in Seq(S), SameMade(a, b, c, d)
    PROVE  EndsIn(S, d, b)
<1>0. a \o b = c \o d /\ Len(b) <= Len(d)
  BY DEF SameMade
<1>1. PICK na, nb, nc, nd, ab, cd : /\ na = Len(a) /\ nb = Len(b) /\ nc = Len(c) /\ nd = Len(d)
                                    /\ ab = a \o b /\ cd = c \o d
  OBVIOUS
<1>2. na \in Nat /\ nb \in Nat /\ nc \in Nat /\ nd \in Nat /\ nb <= nd
  BY <1>0, <1>1
<1>3. ab \in Seq(S) /\ Len(ab) = na + nb /\ \A i \in 1..(na + nb) : ab[i] = IF i <= na THEN a[i] ELSE b[i - na]
  BY <1>1, ConcatIs
<1>4. cd \in Seq(S) /\ Len(cd) = nc + nd /\ \A i \in 1..(nc + nd) : cd[i] = IF i <= nc THEN c[i] ELSE d[i - nc]
  BY <1>1, ConcatIs
<1>5. ab = cd /\ na + nb = nc + nd
  BY <1>0, <1>1, <1>3, <1>4
<1>6. PICK k, y, e : k = nd - nb /\ y = SubSeq(d, 1, k) /\ e = y \o b
  OBVIOUS
<1>7. k \in 0..nd /\ k \in Nat /\ k + nb = nd
  BY <1>2, <1>6
<1>8. y \in Seq(S) /\ Len(y) = k /\ \A i \in 1..k : y[i] = d[i]
  BY <1>1, <1>6, <1>7, PrefixIs
<1>9. e \in Seq(S) /\ Len(e) = k + nb /\ \A i \in 1..(k + nb) : e[i] = IF i <= k THEN y[i] ELSE b[i - k]
  <2>0. y \in Seq(S) /\ e = y \o b
    BY <1>6, <1>8
  <2>1. /\ e \in Seq(S) /\ Len(e) = Len(y) + Len(b)
        /\ \A i \in 1..(Len(y) + Len(b)) : e[i] = IF i <= Len(y) THEN y[i] ELSE b[i - Len(y)]
    BY <2>0, ConcatIs
  <2>2. Len(y) = k /\ Len(b) = nb
    BY <1>1, <1>8
  <2> QED BY <2>1, <2>2
<1>10. ASSUME NEW i \in 1..nd PROVE e[i] = d[i]
  <2>0. i \in 1..(k + nb)
    BY <1>7
  <2>1. CASE i <= k
    <3>1. i \in 1..k
      BY <2>1, <1>7
    <3> QED BY <1>8, <1>9, <2>0, <2>1, <3>1
  <2>2. CASE ~(i <= k)
    <3>1. PICK j : j = nc + i
      OBVIOUS
    <3>2. j \in 1..(nc + nd) /\ ~(j <= nc) /\ j - nc = i
      BY <1>2, <3>1
    <3>3. j \in 1..(na + nb) /\ ~(j <= na) /\ j - na = i - k
      BY <1>2, <1>5, <1>6, <2>2, <3>1
    <3>4. ab[j] = b[i - k]
      BY <1>3, <3>3
    <3>5. cd[j] = d[i]
      BY <1>4, <3>2
    <3>6. e[i] = b[i - k]
      BY <1>9, <2>0, <2>2
    <3> QED BY <1>5, <3>4, <3>5, <3>6
  <2> QED BY <2>1, <2>2
<1>11. e = d
  <2>1. Len(e) = nd
    BY <1>7, <1>9
  <2>2. Len(d) = nd
    BY <1>1
  <2> QED BY <1>9, <1>10, <2>1, <2>2, SeqEqual
<1>12. d = y \o b
  BY <1>6, <1>11
<1> QED BY <1>8, <1>12 DEF EndsIn

-----------------------------------------------------------------------------
(* What conversations and logs say, joined and with one more *)

LEMMA FlatIs == ASSUME NEW c \in Seq(Messages) PROVE Flat(c) \in Seq(Voices)
<1>1. Speeches(c) \in Seq(Seq(Voices))
  BY SpeechesTyped
<1>2. <<>> \in Seq(Voices)
  OBVIOUS
<1>3. FlattenSeq(Speeches(c)) \in Seq(Voices)
  BY <1>1, <1>2, FlattenAppend
<1> QED BY <1>3 DEF Flat, Speeches

LEMMA FlatConcat ==
    ASSUME NEW s \in Seq(Messages), NEW t \in Seq(Messages)
    PROVE  Flat(s \o t) = Flat(s) \o Flat(t)
<1> DEFINE G == {u \in Seq(Messages) : Flat(s \o u) = Flat(s) \o Flat(u)}
<1>1. <<>> \in G
  BY ConcatEmptySeq, FlatIs, FlatNone
<1>2. ASSUME NEW u \in Seq(Messages), NEW m \in Messages, u \in G PROVE Append(u, m) \in G
  <2>1. PICK su, x : su = s \o u /\ x = Speaks(m.role, m.content)
    OBVIOUS
  <2>2. su \in Seq(Messages) /\ s \o Append(u, m) = Append(su, m)
    BY ConcatIs, ConcatAppend, <2>1
  <2>3. Flat(Append(su, m)) = Flat(su) \o x
    BY <2>1, <2>2, FlatAppend
  <2>4. Flat(Append(u, m)) = Flat(u) \o x
    BY <2>1, FlatAppend
  <2>5. Flat(su) = Flat(s) \o Flat(u)
    BY <1>2, <2>1
  <2>6. x \in Seq(Voices)
    <3>1. m.role \in {"user", "assistant"} /\ m.content \in Seq(Block)
      BY DEF Messages
    <3> QED BY <2>1, <3>1, SpeaksTyped
  <2>7. PICK fs, fu : fs = Flat(s) /\ fu = Flat(u)
    OBVIOUS
  <2>8. fs \in Seq(Voices) /\ fu \in Seq(Voices)
    BY <2>7, FlatIs
  <2>9. (fs \o fu) \o x = fs \o (fu \o x)
    BY <2>6, <2>8, ConcatAssociative, SMTT(30)
  <2>10. Append(u, m) \in Seq(Messages)
    BY AppendProperties
  <2>11. Flat(s \o Append(u, m)) = Flat(s) \o Flat(Append(u, m))
    BY <2>2, <2>3, <2>4, <2>5, <2>7, <2>9
  <2> QED BY <2>10, <2>11
<1>3. GrowsIn(G, Messages)
  <2> HIDE DEF G
  <2> QED BY <1>1, <1>2 DEF GrowsIn
<1>4. t \in G
  <2> HIDE DEF G
  <2> QED BY <1>3, AllSequences
<1> QED BY <1>4

LEMMA FlatOne ==
    ASSUME NEW m \in Messages
    PROVE  << m >> \in Seq(Messages) /\ Flat(<< m >>) = Speaks(m.role, m.content)
<1>1. <<>> \in Seq(Messages) /\ Append(<<>>, m) = << m >> /\ << m >> \in Seq(Messages)
  OBVIOUS
<1>2. Flat(Append(<<>>, m)) = Flat(<<>>) \o Speaks(m.role, m.content)
  BY <1>1, FlatAppend
<1>3. Speaks(m.role, m.content) \in Seq(Voices)
  <2>1. m.role \in {"user", "assistant"} /\ m.content \in Seq(Block)
    BY DEF Messages
  <2> QED BY <2>1, SpeaksTyped
<1>4. <<>> \o Speaks(m.role, m.content) = Speaks(m.role, m.content)
  BY <1>3, ConcatEmptySeq
<1> QED BY <1>1, <1>2, <1>4, FlatNone

LEMMA SpeaksNone == Speaks("user", <<>>) = <<>> /\ Speaks("assistant", <<>>) = <<>>
<1>1. <<>> \in Seq(Block) /\ Len(<<>>) = 0
  OBVIOUS
<1>2. ASSUME NEW role \in {"user", "assistant"} PROVE Speaks(role, <<>>) = <<>>
  BY <1>1, SpeaksTyped, EmptySeq
<1> QED BY <1>2

LEMMA SpeaksOne ==
    ASSUME NEW role \in {"user", "assistant"}, NEW b \in Block
    PROVE  Speaks(role, << b >>) = << [role |-> role, block |-> b] >>
<1>1. PICK s, f, v, g : /\ s = << b >> /\ f = Speaks(role, s) /\ v = [role |-> role, block |-> b]
                        /\ g = << v >>
  OBVIOUS
<1>2. s \in Seq(Block) /\ Len(s) = 1 /\ s[1] = b
  BY <1>1
<1>3. f \in Seq(Voices) /\ Len(f) = Len(s) /\ \A i \in 1..Len(s) : f[i] = [role |-> role, block |-> s[i]]
  BY <1>1, <1>2, SpeaksTyped
<1>4. f[1] = v /\ Len(f) = 1
  BY <1>1, <1>2, <1>3
<1>5. v \in Voices
  BY <1>1 DEF Voices
<1>6. g \in Seq(Voices) /\ Len(g) = 1 /\ g[1] = v
  BY <1>1, <1>5
<1>7. \A i \in 1..1 : f[i] = g[i]
  BY <1>4, <1>6
<1>8. f = g
  BY <1>3, <1>4, <1>6, <1>7, SeqEqual
<1> QED BY <1>1, <1>8

\* The message m at k is the one of d that is there with s put into it, or holds s.
Adds(d, k, m, s) ==
    IF k = Len(d) THEN m.role = d[k].role /\ m.content = d[k].content \o s ELSE m.content = s

\* A message at the end says what it did and what is put into it.
LEMMA PlacedSays ==
    ASSUME NEW d \in Seq(Messages), NEW e, NEW k, NEW m \in Messages, Placed(e, d, k, m),
           NEW s \in Seq(Block), Adds(d, k, m, s)
    PROVE  Flat(e) = Flat(d) \o Speaks(m.role, s)
<1>1. /\ e \in Seq(Messages) /\ Len(e) = k /\ k \in Nat \ {0} /\ (k = Len(d) \/ k = Len(d) + 1) /\ e[k] = m
      /\ \A i \in 1..(k - 1) : e[i] = d[i]
  BY DEF Placed
<1>2. PICK f, g : f = SubSeq(e, 1, k - 1) /\ g = SubSeq(d, 1, k - 1)
  OBVIOUS
<1>3. k - 1 \in 0..Len(e) /\ k - 1 \in 0..Len(d)
  BY <1>1
<1>4. f \in Seq(Messages) /\ Len(f) = k - 1 /\ \A i \in 1..(k - 1) : f[i] = e[i]
  BY <1>1, <1>2, <1>3, PrefixIs
<1>5. g \in Seq(Messages) /\ Len(g) = k - 1 /\ \A i \in 1..(k - 1) : g[i] = d[i]
  BY <1>2, <1>3, PrefixIs
<1>6. f = g
  <2>1. \A i \in 1..(k - 1) : f[i] = g[i]
    BY <1>1, <1>4, <1>5
  <2> QED BY <1>4, <1>5, <2>1, SeqEqual
<1>7. e = Append(f, m)
  BY <1>1, FrontAndLast, <1>2
<1>8. m.role \in {"user", "assistant"} /\ m.content \in Seq(Block)
  BY DEF Messages
<1>9. PICK y : y = Speaks(m.role, s)
  OBVIOUS
<1>10. y \in Seq(Voices)
  BY <1>8, <1>9, SpeaksTyped
<1>11. Flat(e) = Flat(g) \o Speaks(m.role, m.content)
  BY <1>5, <1>6, <1>7, FlatAppend
<1>12. CASE k = Len(d)
  <2>1. PICK x : x = d[k]
    OBVIOUS
  <2>2. d # <<>>
    BY <1>1, <1>12
  <2>3. x \in Messages /\ d = Append(g, x)
    BY <1>2, <1>12, <2>1, <2>2, FrontAndLast
  <2>4. x.content \in Seq(Block) /\ x.role = m.role /\ m.content = x.content \o s
    BY <1>12, <2>1, <2>3 DEF Adds, Messages
  <2>5. Flat(d) = Flat(g) \o Speaks(x.role, x.content)
    BY <1>5, <2>3, FlatAppend
  <2>6. PICK a, z : a = Flat(g) /\ z = Speaks(m.role, x.content)
    OBVIOUS
  <2>7. a \in Seq(Voices) /\ z \in Seq(Voices)
    BY <1>5, <1>8, <2>4, <2>6, FlatIs, SpeaksTyped
  <2>8. Speaks(m.role, m.content) = z \o y
    BY <1>8, <1>9, <2>4, <2>6, SpeaksJoined, ZenonT(30)
  <2>9. (a \o z) \o y = a \o (z \o y)
    BY <1>10, <2>7, ConcatAssociative, SMTT(60)
  <2> QED BY <1>9, <1>11, <2>4, <2>5, <2>6, <2>8, <2>9
<1>13. CASE k # Len(d)
  <2>1. k - 1 = Len(d)
    BY <1>1, <1>13
  <2>2. g = d
    <3>1. Len(g) = Len(d) /\ \A i \in 1..Len(d) : g[i] = d[i]
      BY <1>5, <2>1
    <3> QED BY <1>5, <3>1, SeqEqual
  <2>3. m.content = s
    BY <1>13 DEF Adds
  <2> QED BY <1>11, <2>2, <2>3
<1> QED BY <1>12, <1>13

LEMMA MergingAdds ==
    ASSUME NEW d \in Seq(Messages), NEW b \in Block
    PROVE  Adds(d, MergedAt(d), Merging(d, b), << b >>)
<1>1. PICK k, m, s : k = MergedAt(d) /\ m = Merging(d, b) /\ s = << b >>
  OBVIOUS
<1>2. Len(d) \in Nat
  OBVIOUS
<1>3. CASE EndsWithUser(d)
  <2>1. k = Len(d)
    BY <1>1, <1>3 DEF MergedAt
  <2>2. d[k] \in Messages
    BY <1>3, <2>1, UserLast
  <2>3. m = With(d[k], b)
    BY <1>1, <1>3, <2>1 DEF Merging
  <2>4. m.role = d[k].role /\ m.content = Append(d[k].content, b) /\ d[k].content \in Seq(Block)
    BY <2>2, <2>3 DEF With, Messages
  <2>5. Append(d[k].content, b) = d[k].content \o s
    BY <1>1, <2>4
  <2> QED BY <1>1, <2>1, <2>4, <2>5 DEF Adds
<1>4. CASE ~EndsWithUser(d)
  <2>1. k # Len(d)
    BY <1>1, <1>2, <1>4 DEF MergedAt
  <2>2. m.content = s
    BY <1>1, <1>4 DEF Merging, UserMessage
  <2> QED BY <1>1, <2>1, <2>2 DEF Adds
<1> QED BY <1>3, <1>4

LEMMA PuttingAdds ==
    ASSUME NEW d \in Seq(Messages), d # <<>>, NEW s \in Seq(Block)
    PROVE  Adds(d, PutAt(d), Putting(d, s), s)
<1>1. PICK k, m : k = PutAt(d) /\ m = Putting(d, s)
  OBVIOUS
<1>2. Len(d) \in Nat /\ d[Len(d)] \in Messages
  BY FrontAndLast
<1>3. CASE EndsWithUser(d)
  <2>1. k # Len(d)
    BY <1>1, <1>2, <1>3 DEF PutAt
  <2>2. m.content = s
    BY <1>1, <1>3 DEF Putting, AssistantMessage
  <2> QED BY <1>1, <2>1, <2>2 DEF Adds
<1>4. CASE ~EndsWithUser(d)
  <2>1. k = Len(d)
    BY <1>1, <1>4 DEF PutAt
  <2>2. m = [d[k] EXCEPT !.content = @ \o s]
    BY <1>1, <1>4, <2>1 DEF Putting
  <2>3. m.role = d[k].role /\ m.content = d[k].content \o s
    BY <1>2, <2>1, <2>2 DEF Messages
  <2> QED BY <1>1, <2>1, <2>3 DEF Adds
<1> QED BY <1>3, <1>4

LEMMA FlatMerge ==
    ASSUME NEW d \in Seq(Messages), NEW b \in Block
    PROVE  Flat(MergeUser(d, b)) = Flat(d) \o << [role |-> "user", block |-> b] >>
<1>1. PICK k, m, e, s : k = MergedAt(d) /\ m = Merging(d, b) /\ e = MergeUser(d, b) /\ s = << b >>
  OBVIOUS
<1>2. m \in Messages /\ m.role = "user" /\ Placed(e, d, k, m) /\ Adds(d, k, m, s)
  BY <1>1, MergePlaced, MergingAdds
<1>3. s \in Seq(Block)
  BY <1>1
<1>4. Flat(e) = Flat(d) \o Speaks(m.role, s)
  BY <1>2, <1>3, PlacedSays
<1> QED BY <1>1, <1>2, <1>4, SpeaksOne

LEMMA FlatPut ==
    ASSUME NEW d \in Seq(Messages), d # <<>>, NEW s \in Seq(Block)
    PROVE  Flat(Put(d, s)) = Flat(d) \o Speaks("assistant", s)
<1>1. PICK k, m, e : k = PutAt(d) /\ m = Putting(d, s) /\ e = Put(d, s)
  OBVIOUS
<1>2. m \in Messages /\ m.role = "assistant" /\ Placed(e, d, k, m) /\ Adds(d, k, m, s)
  BY <1>1, PutPlaced, PuttingAdds
<1>3. Flat(e) = Flat(d) \o Speaks(m.role, s)
  BY <1>2, PlacedSays
<1> QED BY <1>1, <1>2, <1>3

-----------------------------------------------------------------------------
(* What a log says; the texts of the user there and in the turns of a conversation *)

LEMMA SaysTyped == ASSUME NEW e \in LogEvents PROVE Says(e) \in Seq(Voices)
<1>1. e.blocks \in Seq(Block)
  BY DEF LogEvents
<1>2. <<>> \in Seq(Voices)
  OBVIOUS
<1>3. Speaks("user", e.blocks) \in Seq(Voices) /\ Speaks("assistant", e.blocks) \in Seq(Voices)
  BY <1>1, SpeaksTyped
<1> QED BY <1>2, <1>3 DEF Says

\* What the events of lg say, one by one.
Sayings(lg) == [i \in DOMAIN lg |-> Says(lg[i])]

LEMMA SayingsTyped ==
    ASSUME NEW lg \in Seq(LogEvents)
    PROVE  /\ Sayings(lg) \in Seq(Seq(Voices)) /\ Len(Sayings(lg)) = Len(lg)
           /\ \A i \in 1..Len(lg) : Sayings(lg)[i] = Says(lg[i])
<1>1. DOMAIN lg = 1..Len(lg) /\ Len(lg) \in Nat
  OBVIOUS
<1>2. PICK f : f = Sayings(lg)
  OBVIOUS
<1>3. f = [i \in 1..Len(lg) |-> Says(lg[i])]
  BY <1>1, <1>2 DEF Sayings
<1>4. ASSUME NEW i \in 1..Len(lg) PROVE Says(lg[i]) \in Seq(Voices)
  <2>1. lg[i] \in LogEvents
    OBVIOUS
  <2> QED BY <2>1, SaysTyped
<1>5. f \in [1..Len(lg) -> Seq(Voices)]
  BY <1>3, <1>4
<1>6. f \in Seq(Seq(Voices)) /\ Len(f) = Len(lg)
  BY <1>1, <1>5
<1> QED BY <1>2, <1>3, <1>6

LEMMA SaidAppend ==
    ASSUME NEW lg \in Seq(LogEvents), NEW e \in LogEvents
    PROVE  /\ Said(lg) \in Seq(Voices)
           /\ Said(Append(lg, e)) = Said(lg) \o Says(e)
<1>1. PICK lg2, n, f, g, x : /\ lg2 = Append(lg, e) /\ n = Len(lg) /\ f = Sayings(lg) /\ g = Sayings(lg2)
                             /\ x = Says(e)
  OBVIOUS
<1>2. lg2 \in Seq(LogEvents) /\ n \in Nat /\ Len(lg2) = n + 1 /\ lg2[n + 1] = e /\ \A i \in 1..n : lg2[i] = lg[i]
  BY <1>1, AppendProperties
<1>3. f \in Seq(Seq(Voices)) /\ Len(f) = n /\ \A i \in 1..n : f[i] = Says(lg[i])
  BY <1>1, SayingsTyped
<1>4. g \in Seq(Seq(Voices)) /\ Len(g) = n + 1 /\ \A i \in 1..(n + 1) : g[i] = Says(lg2[i])
  BY <1>1, <1>2, SayingsTyped
<1>5. x \in Seq(Voices)
  BY <1>1, SaysTyped
<1>6. g = Append(f, x)
  <2>1. PICK h : h = Append(f, x)
    OBVIOUS
  <2>2. h \in Seq(Seq(Voices)) /\ Len(h) = n + 1 /\ h[n + 1] = x /\ \A i \in 1..n : h[i] = f[i]
    BY <1>3, <1>5, <2>1, AppendProperties
  <2>3. ASSUME NEW i \in 1..(n + 1) PROVE g[i] = h[i]
    <3>1. CASE i = n + 1
      BY <1>1, <1>2, <1>4, <2>2, <3>1
    <3>2. CASE i # n + 1
      <4>1. i \in 1..n
        BY <1>2, <3>2
      <4> QED BY <1>2, <1>3, <1>4, <2>2, <4>1
    <3> QED BY <3>1, <3>2
  <2>4. g = h
    BY <1>4, <2>2, <2>3, SeqEqual
  <2> QED BY <2>1, <2>4
<1>7. FlattenSeq(f) \in Seq(Voices) /\ FlattenSeq(Append(f, x)) = FlattenSeq(f) \o x
  BY <1>3, <1>5, FlattenAppend
<1>8. Said(lg) = FlattenSeq(f) /\ Said(lg2) = FlattenSeq(g)
  BY <1>1 DEF Said, Sayings
<1> QED BY <1>1, <1>6, <1>7, <1>8

LEMMA SaidIs == ASSUME NEW lg \in Seq(LogEvents) PROVE Said(lg) \in Seq(Voices)
<1>1. Sayings(lg) \in Seq(Seq(Voices)) /\ <<>> \in Seq(Voices)
  BY SayingsTyped
<1>2. FlattenSeq(Sayings(lg)) \in Seq(Voices)
  BY <1>1, FlattenAppend
<1> QED BY <1>2 DEF Said, Sayings

LEMMA SaidConcat ==
    ASSUME NEW s \in Seq(LogEvents), NEW t \in Seq(LogEvents)
    PROVE  Said(s \o t) = Said(s) \o Said(t)
<1> DEFINE G == {u \in Seq(LogEvents) : Said(s \o u) = Said(s) \o Said(u)}
<1>1. <<>> \in G
  BY ConcatEmptySeq, SaidIs, FlatNone
<1>2. ASSUME NEW u \in Seq(LogEvents), NEW e \in LogEvents, u \in G PROVE Append(u, e) \in G
  <2>1. PICK su, x : su = s \o u /\ x = Says(e)
    OBVIOUS
  <2>2. su \in Seq(LogEvents) /\ s \o Append(u, e) = Append(su, e)
    BY ConcatIs, ConcatAppend, <2>1
  <2>3. Said(Append(su, e)) = Said(su) \o x
    BY <2>1, <2>2, SaidAppend
  <2>4. Said(Append(u, e)) = Said(u) \o x
    BY <2>1, SaidAppend
  <2>5. Said(su) = Said(s) \o Said(u)
    BY <1>2, <2>1
  <2>6. PICK V, fs, fu : V = Voices /\ fs = Said(s) /\ fu = Said(u)
    OBVIOUS
  <2>7. fs \in Seq(V) /\ fu \in Seq(V) /\ x \in Seq(V)
    BY <2>1, <2>6, SaidIs, SaysTyped
  <2>8. (fs \o fu) \o x = fs \o (fu \o x)
    BY <2>7, ConcatAssociative
  <2>9. Append(u, e) \in Seq(LogEvents)
    BY AppendProperties
  <2>10. Said(s \o Append(u, e)) = Said(s) \o Said(Append(u, e))
    BY <2>2, <2>3, <2>4, <2>5, <2>6, <2>8
  <2> QED BY <2>9, <2>10
<1>3. GrowsIn(G, LogEvents)
  <2> HIDE DEF G
  <2> QED BY <1>1, <1>2 DEF GrowsIn
<1>4. t \in G
  <2> HIDE DEF G
  <2> QED BY <1>3, AllSequences
<1> QED BY <1>4

LEMMA AssistantSays ==
    ASSUME NEW bs \in Seq(Block)
    PROVE  TextCount(Speaks("assistant", bs)) = 0
<1>1. PICK v : v = Speaks("assistant", bs)
  OBVIOUS
<1>2. v \in Seq(Voices) /\ Len(v) = Len(bs) /\ \A i \in 1..Len(bs) : v[i] = [role |-> "assistant", block |-> bs[i]]
  BY <1>1, SpeaksTyped
<1>3. ASSUME NEW i \in 1..Len(v) PROVE v[i].role = "assistant"
  <2>1. v[i] = [role |-> "assistant", block |-> bs[i]]
    BY <1>2
  <2> QED BY <2>1
<1>4. TextsIn(v) = {}
  BY <1>3 DEF TextsIn, IsText
<1> QED BY <1>1, <1>4, FS_EmptySet DEF TextCount

LEMMA TurnSays ==
    ASSUME NEW bs \in Seq(Block), NEW i \in 1..Len(bs), bs[i].kind = "text"
    PROVE  TextCount(Speaks("user", bs)) >= 1
<1>1. PICK v : v = Speaks("user", bs)
  OBVIOUS
<1>2. v \in Seq(Voices) /\ Len(v) = Len(bs) /\ \A j \in 1..Len(bs) : v[j] = [role |-> "user", block |-> bs[j]]
  BY <1>1, SpeaksTyped
<1>3. v[i] = [role |-> "user", block |-> bs[i]] /\ i \in 1..Len(v)
  BY <1>2
<1>4. IsText(v[i])
  BY <1>3 DEF IsText
<1>5. i \in TextsIn(v)
  BY <1>3, <1>4 DEF TextsIn
<1>6. IsFiniteSet(TextsIn(v)) /\ TextCount(v) \in Nat
  BY <1>2, TextCountIs
<1>7. TextCount(v) # 0
  BY <1>5, <1>6, FS_EmptySet DEF TextCount
<1> QED BY <1>1, <1>6, <1>7

\* An event of the user holds one block, as Legal says.
Shaped(e) ==
    /\ e.type = "user.message" => \E b \in Block : b.kind = "text" /\ e.blocks = << b >>
    /\ e.type = "tool.completed" => \E b \in Block : b.kind = "result" /\ e.blocks = << b >>
ShapedEvents == {e \in LogEvents : Shaped(e)}

LEMMA ShapedSays ==
    ASSUME NEW e \in ShapedEvents
    PROVE  TextCount(Says(e)) = IF e.type = "user.message" THEN 1 ELSE 0
<1>1. e \in LogEvents /\ Shaped(e)
  BY DEF ShapedEvents
<1>2. /\ e.type \in {"user.message", "assistant.thinking", "assistant.message", "tool.completed", "compaction.applied"}
      /\ e.blocks \in Seq(Block)
  BY <1>1 DEF LogEvents
<1>3. CASE e.type \in {"user.message", "tool.completed"}
  <2>1. PICK b \in Block : e.blocks = << b >> /\ b.kind = IF e.type = "user.message" THEN "text" ELSE "result"
    BY <1>1, <1>3 DEF Shaped
  <2>2. PICK v : v = [role |-> "user", block |-> b]
    OBVIOUS
  <2>3. v \in Voices /\ v.role = "user" /\ v.block = b
    BY <2>2 DEF Voices
  <2>4. Says(e) = Speaks("user", << b >>)
    BY <1>3, <2>1 DEF Says
  <2>5. Says(e) = << v >>
    BY <2>2, <2>4, SpeaksOne
  <2>6. IsText(v) <=> e.type = "user.message"
    BY <2>1, <2>3 DEF IsText
  <2>7. TextCount(<< v >>) = IF IsText(v) THEN 1 ELSE 0
    BY <2>3, TextCountOne
  <2> QED BY <2>5, <2>6, <2>7
<1>4. CASE e.type \in {"assistant.thinking", "assistant.message"}
  <2>1. Says(e) = Speaks("assistant", e.blocks)
    BY <1>4 DEF Says
  <2> QED BY <1>2, <1>4, <2>1, AssistantSays
<1>5. CASE e.type = "compaction.applied"
  <2>1. Says(e) = <<>>
    BY <1>5 DEF Says
  <2> QED BY <1>5, <2>1, TextCountNone
<1> QED BY <1>2, <1>3, <1>4, <1>5

\* The end of a sequence.
LEMMA EndIs ==
    ASSUME NEW S, NEW s \in Seq(S), NEW k \in 1..(Len(s) + 1)
    PROVE  /\ SubSeq(s, k, Len(s)) \in Seq(S) /\ Len(SubSeq(s, k, Len(s))) = (Len(s) + 1) - k
           /\ \A i \in 1..((Len(s) + 1) - k) : SubSeq(s, k, Len(s))[i] = s[(i + k) - 1]
<1>1. PICK n : n = Len(s)
  OBVIOUS
<1>2. n \in Nat /\ k \in Nat \ {0} /\ k <= n + 1
  BY <1>1
<1>3. \A i \in k..n : s[i] \in S
  BY <1>1, <1>2
<1>4. SubSeq(s, k, n) \in Seq(S)
  BY <1>2, <1>3
<1>5. Len(SubSeq(s, k, n)) = (n + 1) - k
  BY <1>2
<1>6. ASSUME NEW i \in 1..((n + 1) - k) PROVE SubSeq(s, k, n)[i] = s[(i + k) - 1]
  BY <1>2, <1>6
<1> QED BY <1>1, <1>4, <1>5, <1>6

LEMMA BeginningAndEnd ==
    ASSUME NEW S, NEW s \in Seq(S), NEW k \in 0..Len(s)
    PROVE  s = SubSeq(s, 1, k) \o SubSeq(s, k + 1, Len(s))
<1>1. PICK n, a, b, ab : n = Len(s) /\ a = SubSeq(s, 1, k) /\ b = SubSeq(s, k + 1, Len(s)) /\ ab = a \o b
  OBVIOUS
<1>2. n \in Nat /\ k \in Nat /\ k <= n /\ k + 1 \in 1..(Len(s) + 1)
  BY <1>1
<1>3. a \in Seq(S) /\ Len(a) = k /\ \A i \in 1..k : a[i] = s[i]
  BY <1>1, PrefixIs
<1>4. b \in Seq(S) /\ Len(b) = n - k /\ \A i \in 1..(n - k) : b[i] = s[i + k]
  BY <1>1, <1>2, EndIs
<1>5. ab \in Seq(S) /\ Len(ab) = n /\ \A i \in 1..n : ab[i] = IF i <= k THEN a[i] ELSE b[i - k]
  <2>1. a \in Seq(S) /\ b \in Seq(S)
    BY <1>3, <1>4
  <2>2. /\ ab \in Seq(S) /\ Len(ab) = Len(a) + Len(b)
        /\ \A i \in 1..(Len(a) + Len(b)) : ab[i] = IF i <= Len(a) THEN a[i] ELSE b[i - Len(a)]
    BY <1>1, <2>1, ConcatIs
  <2>3. Len(a) = k /\ Len(a) + Len(b) = n
    BY <1>2, <1>3, <1>4
  <2> QED BY <2>2, <2>3
<1>6. ASSUME NEW i \in 1..n PROVE ab[i] = s[i]
  <2>1. CASE i <= k
    BY <1>2, <1>3, <1>5, <2>1
  <2>2. CASE ~(i <= k)
    <3>1. i - k \in 1..(n - k) /\ (i - k) + k = i
      BY <1>2, <2>2
    <3> QED BY <1>4, <1>5, <2>2, <3>1
  <2> QED BY <2>1, <2>2
<1>7. ab = s
  BY <1>1, <1>5, <1>6, SeqEqual
<1> QED BY <1>1, <1>7

LEMMA EndAppend ==
    ASSUME NEW S, NEW s \in Seq(S), NEW x \in S, NEW k \in 1..(Len(s) + 1)
    PROVE  SubSeq(Append(s, x), k, Len(s) + 1) = Append(SubSeq(s, k, Len(s)), x)
<1>1. PICK n, t, a, b, c : /\ n = Len(s) /\ t = Append(s, x) /\ a = SubSeq(t, k, n + 1)
                           /\ b = SubSeq(s, k, Len(s)) /\ c = Append(b, x)
  OBVIOUS
<1>2. n \in Nat /\ k \in 1..(n + 1)
  BY <1>1
<1>3. t \in Seq(S) /\ Len(t) = n + 1 /\ t[n + 1] = x /\ \A i \in 1..n : t[i] = s[i]
  BY <1>1, AppendProperties
<1>4. b \in Seq(S) /\ Len(b) = (n + 1) - k /\ \A i \in 1..((n + 1) - k) : b[i] = s[(i + k) - 1]
  BY <1>1, EndIs
<1>5. a \in Seq(S) /\ Len(a) = (n + 2) - k /\ \A i \in 1..((n + 2) - k) : a[i] = t[(i + k) - 1]
  BY <1>1, <1>2, <1>3, EndIs
<1>6. PICK l : l = (n + 1) - k
  OBVIOUS
<1>7. l \in Nat /\ (n + 2) - k = l + 1
  BY <1>2, <1>6
<1>8. c \in Seq(S) /\ Len(c) = l + 1 /\ c[l + 1] = x /\ \A i \in 1..l : c[i] = b[i]
  BY <1>1, <1>4, AppendProperties, <1>6
<1>9. ASSUME NEW i \in 1..(l + 1) PROVE a[i] = c[i]
  <2>0. i \in 1..((n + 2) - k)
    BY <1>7
  <2>1. CASE i = l + 1
    <3>1. (i + k) - 1 = n + 1
      BY <1>2, <1>6, <2>1
    <3> QED BY <1>3, <1>5, <1>8, <2>0, <2>1, <3>1
  <2>2. CASE i # l + 1
    <3>1. i \in 1..l /\ i \in 1..((n + 1) - k) /\ (i + k) - 1 \in 1..n
      BY <1>2, <1>6, <1>7, <2>2
    <3> QED BY <1>3, <1>4, <1>5, <1>8, <2>0, <3>1
  <2> QED BY <2>1, <2>2
<1>10. a = c
  <2>1. Len(a) = l + 1
    BY <1>5, <1>7
  <2> QED BY <1>5, <1>8, <1>9, <2>1, SeqEqual
<1> QED BY <1>1, <1>10

\* Since any event of a log, it says as many texts as the user's messages are.
LEMMA LogTexts ==
    ASSUME NEW lg \in Seq(ShapedEvents), NEW k \in 1..(Len(lg) + 1)
    PROVE  TextCount(Said(SubSeq(lg, k, Len(lg)))) = Cardinality({j \in UserTexts(lg) : j >= k})
<1> DEFINE From(s, i) == {j \in UserTexts(s) : j >= i}
           G == {s \in Seq(ShapedEvents) :
                   \A i \in 1..(Len(s) + 1) : /\ IsFiniteSet(From(s, i))
                                              /\ TextCount(Said(SubSeq(s, i, Len(s)))) = Cardinality(From(s, i))}
<1>0. ASSUME NEW s \in Seq(ShapedEvents) PROVE s \in Seq(LogEvents) /\ UserTexts(s) = {j \in 1..Len(s) : s[j].type = "user.message"}
  BY DEF ShapedEvents, UserTexts
<1>1. <<>> \in G
  <2>1. Len(<<>>) = 0 /\ <<>> \in Seq(ShapedEvents)
    OBVIOUS
  <2>2. UserTexts(<<>>) = {}
    BY DEF UserTexts
  <2>3. ASSUME NEW i \in 1..(0 + 1) PROVE IsFiniteSet(From(<<>>, i)) /\ TextCount(Said(SubSeq(<<>>, i, 0))) = Cardinality(From(<<>>, i))
    <3>1. From(<<>>, i) = {}
      BY <2>2
    <3>2. i = 1 /\ SubSeq(<<>>, 1, 0) = <<>>
      BY <2>3
    <3>3. Said(SubSeq(<<>>, i, 0)) = <<>>
      BY <3>2, FlatNone
    <3> HIDE DEF From
    <3> QED BY <3>1, <3>3, TextCountNone, FS_EmptySet
  <2> HIDE DEF From
  <2> QED BY <2>1, <2>3
<1>2. ASSUME NEW s \in Seq(ShapedEvents), NEW e \in ShapedEvents, s \in G PROVE Append(s, e) \in G
  <2>1. PICK n, t : n = Len(s) /\ t = Append(s, e)
    OBVIOUS
  <2>2. t \in Seq(ShapedEvents) /\ n \in Nat /\ Len(t) = n + 1 /\ t[n + 1] = e /\ \A j \in 1..n : t[j] = s[j]
    BY <2>1, AppendProperties
  <2>3. s \in Seq(LogEvents) /\ e \in LogEvents
    BY <1>0 DEF ShapedEvents
  <2>4. UserTexts(t) = UserTexts(s) \cup (IF e.type = "user.message" THEN {n + 1} ELSE {})
    <3>1. UserTexts(s) = {j \in 1..n : s[j].type = "user.message"}
      BY <1>0, <2>1
    <3>2. UserTexts(t) = {j \in 1..(n + 1) : t[j].type = "user.message"}
      BY <1>0, <2>2
    <3>3. \A j : j \in 1..(n + 1) <=> (j = n + 1 \/ j \in 1..n)
      BY <2>2
    <3>4. n + 1 \notin 1..n
      BY <2>2
    <3> QED BY <2>2, <3>1, <3>2, <3>3, <3>4
  <2>5. ASSUME NEW i \in 1..((n + 1) + 1)
        PROVE  IsFiniteSet(From(t, i)) /\ TextCount(Said(SubSeq(t, i, n + 1))) = Cardinality(From(t, i))
    <3>1. CASE i = (n + 1) + 1
      <4>1. SubSeq(t, i, n + 1) = <<>>
        BY <2>2, <3>1
      <4>2. From(t, i) = {}
        BY <1>0, <2>2, <3>1
      <4> HIDE DEF From
      <4> QED BY <4>1, <4>2, FlatNone, TextCountNone, FS_EmptySet
    <3>2. CASE i # (n + 1) + 1
      <4>1. i \in 1..(n + 1) /\ n + 1 >= i
        BY <2>2, <3>2
      <4>2. PICK u, F, H : u = SubSeq(s, i, n) /\ F = From(s, i) /\ H = From(t, i)
        OBVIOUS
      <4>3. IsFiniteSet(F) /\ TextCount(Said(u)) = Cardinality(F)
        BY <1>2, <2>1, <4>1, <4>2
      <4>4. SubSeq(t, i, n + 1) = Append(u, e) /\ u \in Seq(LogEvents)
        <5>1. i \in 1..(Len(s) + 1)
          BY <2>1, <4>1
        <5>2. SubSeq(Append(s, e), i, Len(s) + 1) = Append(SubSeq(s, i, Len(s)), e)
          BY <2>3, <5>1, EndAppend
        <5>3. SubSeq(s, i, Len(s)) \in Seq(LogEvents)
          BY <2>3, <5>1, EndIs
        <5> QED BY <2>1, <4>2, <5>2, <5>3
      <4>5. Said(Append(u, e)) = Said(u) \o Says(e)
        BY <2>3, <4>4, SaidAppend
      <4>6. TextCount(Said(u) \o Says(e)) = TextCount(Said(u)) + TextCount(Says(e))
        <5>1. Said(u) \in Seq(Voices) /\ Says(e) \in Seq(Voices)
          BY <2>3, <4>4, SaidIs, SaysTyped
        <5> QED BY <5>1, TextCountConcat
      <4>7. TextCount(Says(e)) = IF e.type = "user.message" THEN 1 ELSE 0
        BY ShapedSays
      <4>8. H = F \cup (IF e.type = "user.message" THEN {n + 1} ELSE {})
        BY <2>4, <4>1, <4>2
      <4>9. n + 1 \notin F
        BY <1>0, <2>1, <2>2, <4>2
      <4>10. Cardinality(F) \in Nat
        BY <4>3, FS_CardinalityType
      <4>11. CASE e.type = "user.message"
        <5>1. H = F \cup {n + 1}
          BY <4>8, <4>11
        <5>2. IsFiniteSet(H) /\ Cardinality(H) = Cardinality(F) + 1
          BY <4>3, <4>9, <5>1, FS_AddElement
        <5>3. TextCount(Said(Append(u, e))) = Cardinality(F) + 1
          BY <4>3, <4>5, <4>6, <4>7, <4>11
        <5> HIDE DEF From
        <5> QED BY <4>2, <4>4, <5>2, <5>3
      <4>12. CASE e.type # "user.message"
        <5>1. H = F
          BY <4>8, <4>12
        <5>2. TextCount(Said(Append(u, e))) = Cardinality(F)
          BY <4>3, <4>5, <4>6, <4>7, <4>10, <4>12
        <5> HIDE DEF From
        <5> QED BY <4>2, <4>3, <4>4, <5>1, <5>2
      <4> QED BY <4>11, <4>12
    <3> QED BY <3>1, <3>2
  <2> HIDE DEF From
  <2> QED BY <2>1, <2>2, <2>5
<1>3. GrowsIn(G, ShapedEvents)
  <2> HIDE DEF G
  <2> QED BY <1>1, <1>2 DEF GrowsIn
<1>4. lg \in G
  <2> HIDE DEF G
  <2> QED BY <1>3, AllSequences
<1> QED BY <1>4

\* Since any message of a conversation, it says no fewer texts than turns start.
LEMMA TurnTexts ==
    ASSUME NEW c \in Seq(Messages), NEW k \in 1..(Len(c) + 1)
    PROVE  Cardinality({t \in TurnStarts(c) : t + 1 >= k}) <= TextCount(Flat(SubSeq(c, k, Len(c))))
<1> DEFINE From(s, i) == {t \in TurnStarts(s) : t + 1 >= i}
           G == {s \in Seq(Messages) :
                   \A i \in 1..(Len(s) + 1) : /\ IsFiniteSet(From(s, i))
                                              /\ Cardinality(From(s, i)) <= TextCount(Flat(SubSeq(s, i, Len(s))))}
<1>0. ASSUME NEW s \in Seq(Messages)
      PROVE  TurnStarts(s) = {t \in 0..(Len(s) - 1) : s[t + 1].role = "user" /\ HasText(s[t + 1])}
  <2>1. ASSUME NEW t \in 0..(Len(s) - 1)
        PROVE  (\E b \in ToSet(s[t + 1].content) : b.kind = "text") <=> HasText(s[t + 1])
    <3>1. PICK bs : bs = s[t + 1].content
      OBVIOUS
    <3>2. t + 1 \in 1..Len(s)
      BY <2>1
    <3>3. s[t + 1] \in Messages
      BY <3>2
    <3>4. bs \in Seq(Block)
      BY <3>1, <3>3 DEF Messages
    <3>5. DOMAIN bs = 1..Len(bs)
      BY <3>4
    <3> QED BY <3>1, <3>5 DEF HasText, ToSet
  <2> QED BY <2>1 DEF TurnStarts
<1>1. <<>> \in G
  <2>1. Len(<<>>) = 0 /\ <<>> \in Seq(Messages)
    OBVIOUS
  <2>2. TurnStarts(<<>>) = {}
    <3>1. \A t : t \notin 0..(0 - 1)
      OBVIOUS
    <3> QED BY <2>1, <3>1 DEF TurnStarts
  <2>3. ASSUME NEW i \in 1..(0 + 1) PROVE IsFiniteSet(From(<<>>, i)) /\ Cardinality(From(<<>>, i)) <= TextCount(Flat(SubSeq(<<>>, i, 0)))
    <3>1. From(<<>>, i) = {}
      BY <2>2
    <3>2. i = 1 /\ SubSeq(<<>>, 1, 0) = <<>>
      BY <2>3
    <3>3. Flat(SubSeq(<<>>, i, 0)) = <<>>
      BY <3>2, FlatNone
    <3>4. 0 <= 0
      OBVIOUS
    <3> HIDE DEF From
    <3> QED BY <3>1, <3>3, <3>4, TextCountNone, FS_EmptySet
  <2> HIDE DEF From
  <2> QED BY <2>1, <2>3
<1>2. ASSUME NEW s \in Seq(Messages), NEW m \in Messages, s \in G PROVE Append(s, m) \in G
  <2>1. PICK n, v : n = Len(s) /\ v = Append(s, m)
    OBVIOUS
  <2>2. v \in Seq(Messages) /\ n \in Nat /\ Len(v) = n + 1 /\ v[n + 1] = m /\ \A j \in 1..n : v[j] = s[j]
    BY <2>1, AppendProperties
  <2>3. m.role \in {"user", "assistant"} /\ m.content \in Seq(Block)
    BY DEF Messages
  <2>4. TurnStarts(v) = TurnStarts(s) \cup (IF m.role = "user" /\ HasText(m) THEN {n} ELSE {})
    <3>1. TurnStarts(s) = {t \in 0..(n - 1) : s[t + 1].role = "user" /\ HasText(s[t + 1])}
      BY <1>0, <2>1
    <3>2. TurnStarts(v) = {t \in 0..((n + 1) - 1) : v[t + 1].role = "user" /\ HasText(v[t + 1])}
      BY <1>0, <2>2
    <3>3. \A t : t \in 0..((n + 1) - 1) <=> (t = n \/ t \in 0..(n - 1))
      BY <2>2
    <3>4. \A t \in 0..(n - 1) : t # n /\ t + 1 \in 1..n
      BY <2>2
    <3>5. \A t \in 0..(n - 1) : v[t + 1] = s[t + 1]
      BY <2>2, <3>4
    <3> QED BY <2>2, <3>1, <3>2, <3>3, <3>4, <3>5
  <2>5. ASSUME NEW i \in 1..((n + 1) + 1)
        PROVE  IsFiniteSet(From(v, i)) /\ Cardinality(From(v, i)) <= TextCount(Flat(SubSeq(v, i, n + 1)))
    <3>1. CASE i = (n + 1) + 1
      <4>1. SubSeq(v, i, n + 1) = <<>>
        BY <2>2, <3>1
      <4>2. From(v, i) = {}
        <5>1. TurnStarts(v) \subseteq 0..n
          <6>1. (n + 1) - 1 = n
            BY <2>2
          <6> QED BY <1>0, <2>2, <6>1
        <5>2. \A j \in 0..n : ~(j + 1 >= i)
          BY <2>2, <3>1
        <5> QED BY <5>1, <5>2
      <4>3. 0 <= 0
        OBVIOUS
      <4> HIDE DEF From
      <4> QED BY <4>1, <4>2, <4>3, FlatNone, TextCountNone, FS_EmptySet
    <3>2. CASE i # (n + 1) + 1
      <4>1. i \in 1..(n + 1) /\ n + 1 >= i
        BY <2>2, <3>2
      <4>2. PICK u, F, H, x : u = SubSeq(s, i, n) /\ F = From(s, i) /\ H = From(v, i) /\ x = Speaks(m.role, m.content)
        OBVIOUS
      <4>3. IsFiniteSet(F) /\ Cardinality(F) <= TextCount(Flat(u))
        BY <1>2, <2>1, <4>1, <4>2
      <4>4. SubSeq(v, i, n + 1) = Append(u, m) /\ u \in Seq(Messages)
        BY <2>1, <4>1, EndAppend, EndIs, <4>2
      <4>5. Flat(Append(u, m)) = Flat(u) \o x
        BY <4>2, <4>4, FlatAppend
      <4>6. x \in Seq(Voices) /\ Flat(u) \in Seq(Voices)
        BY <2>3, <4>2, <4>4, SpeaksTyped, FlatIs
      <4>7. TextCount(Flat(u) \o x) = TextCount(Flat(u)) + TextCount(x)
        BY <4>6, TextCountConcat
      <4>8. TextCount(Flat(u)) \in Nat /\ TextCount(x) \in Nat
        BY <4>6, TextCountIs
      <4>9. H = F \cup (IF m.role = "user" /\ HasText(m) THEN {n} ELSE {})
        BY <2>4, <4>1, <4>2
      <4>10. n \notin F
        BY <1>0, <2>1, <2>2, <4>2
      <4>11. Cardinality(F) \in Nat
        BY <4>3, FS_CardinalityType
      <4>12. CASE m.role = "user" /\ HasText(m)
        <5>1. H = F \cup {n}
          BY <4>9, <4>12
        <5>2. IsFiniteSet(H) /\ Cardinality(H) = Cardinality(F) + 1
          BY <4>3, <4>10, <5>1, FS_AddElement
        <5>3. PICK j \in 1..Len(m.content) : m.content[j].kind = "text"
          BY <4>12 DEF HasText
        <5>4. TextCount(Speaks("user", m.content)) >= 1
          BY <2>3, <5>3, TurnSays
        <5>5. TextCount(x) >= 1
          BY <4>2, <4>12, <5>4
        <5>6. Cardinality(H) <= TextCount(Flat(Append(u, m)))
          BY <4>3, <4>5, <4>7, <4>8, <4>11, <5>2, <5>5
        <5> HIDE DEF From
        <5> QED BY <4>2, <4>4, <5>2, <5>6
      <4>13. CASE ~(m.role = "user" /\ HasText(m))
        <5>1. H = F
          BY <4>9, <4>13
        <5>2. Cardinality(H) <= TextCount(Flat(Append(u, m)))
          BY <4>3, <4>5, <4>7, <4>8, <4>11, <5>1
        <5> HIDE DEF From
        <5> QED BY <4>2, <4>3, <4>4, <5>1, <5>2
      <4> QED BY <4>12, <4>13
    <3> QED BY <3>1, <3>2
  <2> HIDE DEF From
  <2> QED BY <2>1, <2>2, <2>5
<1>3. GrowsIn(G, Messages)
  <2> HIDE DEF G
  <2> QED BY <1>1, <1>2 DEF GrowsIn
<1>4. c \in G
  <2> HIDE DEF G
  <2> QED BY <1>3, AllSequences
<1> QED BY <1>4

-----------------------------------------------------------------------------
(* What is read of a log begins and ends as the log does *)

\* What a conversation says ends as what its log does, since at least the
\* KeepTurns-th last text of the user, or all along.
EndsAlike(a, b) ==
    \E pre, rest, post \in Seq(Voices) :
        /\ a = pre \o post
        /\ b = rest \o post
        /\ rest = <<>> \/ TextCount(post) >= KeepTurns

\* A conversation begins with the first block of the log, the user's.
Begins(lg, d) ==
    IF lg = <<>> THEN d = <<>>
    ELSE /\ d # <<>> /\ d[1].role = "user" /\ d[1].content # <<>>
         /\ d[1].content[1] = lg[1].blocks[1]

\* The reading r of a log recalls it.
Recalls(lg, r) ==
    /\ ~Thought(lg) => Joined(r.conv)
    /\ Begins(lg, Canon(r.conv))
    /\ EndsAlike(Flat(Canon(r.conv)), Said(lg))

LEMMA AlikeOn ==
    ASSUME NEW a \in Seq(Voices), NEW b \in Seq(Voices), NEW x \in Seq(Voices), EndsAlike(a, b)
    PROVE  EndsAlike(a \o x, b \o x)
<1>1. PICK pre, rest, post \in Seq(Voices) :
        /\ a = pre \o post /\ b = rest \o post /\ (rest = <<>> \/ TextCount(post) >= KeepTurns)
  BY DEF EndsAlike
<1>a. pre \in Seq(Voices) /\ rest \in Seq(Voices) /\ post \in Seq(Voices)
  BY <1>1
<1>2. PICK px : px = post \o x
  OBVIOUS
<1>3. px \in Seq(Voices)
  BY <1>2, ConcatIs
<1>4. a \o x = pre \o px
  <2>1. (pre \o post) \o x = pre \o (post \o x)
    BY <1>a, ConcatAssociative, SMTT(60)
  <2> QED BY <1>1, <1>2, <2>1
<1>5. b \o x = rest \o px
  <2>1. (rest \o post) \o x = rest \o (post \o x)
    BY <1>a, ConcatAssociative, SMTT(60)
  <2> QED BY <1>1, <1>2, <2>1
<1>6. TextCount(px) = TextCount(post) + TextCount(x)
  BY <1>2, TextCountConcat
<1>7. TextCount(post) \in Nat /\ TextCount(x) \in Nat /\ KeepTurns \in Nat
  BY TextCountIs, ReplayAssumption
<1>8. rest = <<>> \/ TextCount(px) >= KeepTurns
  BY <1>1, <1>6, <1>7
<1> QED BY <1>3, <1>4, <1>5, <1>8 DEF EndsAlike

\* A beginning is replaced before an end with as many texts.
LEMMA AlikeCut ==
    ASSUME NEW a \in Seq(Voices), NEW b \in Seq(Voices), EndsAlike(a, b),
           NEW x \in Seq(Voices), NEW y \in Seq(Voices), NEW z \in Seq(Voices),
           a = x \o z, TextCount(z) >= KeepTurns
    PROVE  EndsAlike(y \o z, b)
<1>1. PICK pre, rest, post \in Seq(Voices) :
        /\ a = pre \o post /\ b = rest \o post /\ (rest = <<>> \/ TextCount(post) >= KeepTurns)
  BY DEF EndsAlike
<1>a. pre \in Seq(Voices) /\ rest \in Seq(Voices) /\ post \in Seq(Voices)
  BY <1>1
<1>2. x \o z = pre \o post /\ Len(z) \in Nat /\ Len(post) \in Nat
  BY <1>1
<1>3. CASE Len(z) <= Len(post)
  <2>1. PICK w \in Seq(Voices) : post = w \o z
    <3>1. SameMade(x, z, pre, post)
      BY <1>2, <1>3 DEF SameMade
    <3>2. EndsIn(Voices, post, z)
      BY <3>1, <1>a, CommonEnd
    <3> QED BY <3>2 DEF EndsIn
  <2>2. PICK rw : rw = rest \o w
    OBVIOUS
  <2>3. rw \in Seq(Voices)
    BY <2>2, ConcatIs
  <2>4. b = rw \o z
    <3>1. (rest \o w) \o z = rest \o (w \o z)
      BY <2>1, <1>a, ConcatAssociative, SMTT(60)
    <3> QED BY <1>1, <2>1, <2>2, <3>1
  <2> QED BY <2>3, <2>4 DEF EndsAlike
<1>4. CASE ~(Len(z) <= Len(post))
  <2>1. PICK w \in Seq(Voices) : z = w \o post
    <3>1. SameMade(pre, post, x, z)
      BY <1>2, <1>4 DEF SameMade
    <3>2. EndsIn(Voices, z, post)
      BY <3>1, <1>a, CommonEnd
    <3> QED BY <3>2 DEF EndsIn
  <2>2. PICK yw : yw = y \o w
    OBVIOUS
  <2>3. yw \in Seq(Voices)
    BY <2>2, ConcatIs
  <2>4. y \o z = yw \o post
    <3>1. (y \o w) \o post = y \o (w \o post)
      BY <2>1, <1>a, ConcatAssociative, SMTT(60)
    <3> QED BY <2>1, <2>2, <3>1
  <2> QED BY <1>1, <2>3, <2>4 DEF EndsAlike
<1> QED BY <1>3, <1>4

LEMMA BeginsOn ==
    ASSUME NEW lg \in Seq(LogEvents), NEW ev \in LogEvents, lg # <<>>,
           NEW d \in Seq(Messages), Begins(lg, d),
           NEW e, NEW k, NEW m \in Messages, Placed(e, d, k, m), NEW s \in Seq(Block), Adds(d, k, m, s)
    PROVE  Begins(Append(lg, ev), e)
<1>1. d # <<>> /\ d[1].role = "user" /\ d[1].content # <<>> /\ d[1].content[1] = lg[1].blocks[1]
  BY DEF Begins
<1>2. PICK n, lg2 : n = Len(lg) /\ lg2 = Append(lg, ev)
  OBVIOUS
<1>3. lg2 # <<>> /\ lg2[1] = lg[1]
  <2>1. n \in Nat \ {0}
    BY <1>2, EmptySeq
  <2>2. 1 \in 1..n
    BY <2>1
  <2> QED BY <1>2, <2>2, EventAdded
<1>4. /\ e \in Seq(Messages) /\ Len(e) = k /\ k \in Nat \ {0} /\ (k = Len(d) \/ k = Len(d) + 1) /\ e[k] = m
      /\ \A i \in 1..(k - 1) : e[i] = d[i]
  BY DEF Placed
<1>5. Len(d) \in Nat \ {0}
  BY <1>1, EmptySeq
<1>6. e # <<>>
  BY <1>4
<1>7. e[1].role = "user" /\ e[1].content # <<>> /\ e[1].content[1] = d[1].content[1]
  <2>1. CASE k = 1
    <3>1. k = Len(d) /\ d[1] \in Messages
      BY <1>4, <1>5, <2>1
    <3>2. PICK x : x = d[1].content
      OBVIOUS
    <3>3. x \in Seq(Block) /\ x # <<>>
      BY <1>1, <3>1, <3>2 DEF Messages
    <3>4. Len(x) \in Nat \ {0}
      BY <3>3, EmptySeq
    <3>5. m.role = d[1].role /\ m.content = x \o s
      BY <2>1, <3>1, <3>2 DEF Adds
    <3>6. x \o s \in Seq(Block) /\ Len(x \o s) = Len(x) + Len(s)
          /\ \A i \in 1..(Len(x) + Len(s)) : (x \o s)[i] = IF i <= Len(x) THEN x[i] ELSE s[i - Len(x)]
      BY <3>3, ConcatIs
    <3>7. Len(s) \in Nat
      OBVIOUS
    <3>8. 1 \in 1..(Len(x) + Len(s)) /\ 1 <= Len(x)
      BY <3>4, <3>7
    <3>9. (x \o s)[1] = x[1]
      BY <3>6, <3>8
    <3>10. x \o s # <<>>
      BY <3>4, <3>6, <3>7
    <3> QED BY <1>1, <1>4, <2>1, <3>2, <3>5, <3>9, <3>10
  <2>2. CASE k # 1
    <3>1. 1 \in 1..(k - 1)
      BY <1>4, <2>2
    <3>2. e[1] = d[1]
      BY <1>4, <3>1
    <3> QED BY <1>1, <3>2
  <2> QED BY <2>1, <2>2
<1>8. Begins(lg2, e)
  BY <1>1, <1>3, <1>6, <1>7 DEF Begins
<1> QED BY <1>2, <1>8

LEMMA ThoughtsBefore ==
    ASSUME NEW lg \in Seq(LogEvents), NEW e \in LogEvents, ~ThoughtCompacted(Append(lg, e))
    PROVE  /\ ~ThoughtCompacted(lg)
           /\ e.type = "compaction.applied" => ~Thought(lg)
<1>1. PICK n, lg2 : n = Len(lg) /\ lg2 = Append(lg, e)
  OBVIOUS
<1>2. n \in Nat /\ Len(lg2) = n + 1 /\ lg2[n + 1] = e /\ \A i \in 1..n : i \in 1..(n + 1) /\ lg2[i] = lg[i]
  BY <1>1, EventAdded
<1>3. ThoughtCompacted(lg) => ThoughtCompacted(lg2)
  BY <1>1, <1>2 DEF ThoughtCompacted
<1>4. ASSUME e.type = "compaction.applied", Thought(lg) PROVE ThoughtCompacted(lg2)
  BY <1>1, <1>4, <1>2 DEF Thought, ThoughtCompacted
<1> QED BY <1>1, <1>3, <1>4

\* A text or a result of the user.
LEMMA MergeRecalls ==
    ASSUME NEW lg \in Seq(LogEvents), NEW r \in Readings, NEW e \in LogEvents, Recalls(lg, r),
           e.type \in {"user.message", "tool.completed"}, NEW b \in Block, e.blocks = << b >>,
           NEW q \in Readings, q.conv = MergeUser(r.conv, b)
    PROVE  Recalls(Append(lg, e), q)
<1>1. PICK c, d, lg2, x, v : /\ c = r.conv /\ d = Canon(c) /\ lg2 = Append(lg, e) /\ x = MergeUser(d, b)
                             /\ v = << [role |-> "user", block |-> b] >>
  OBVIOUS
<1>2. c \in Seq(Messages) /\ d \in Seq(Messages) /\ (~Thought(lg) => Joined(c)) /\ Begins(lg, d) /\ EndsAlike(Flat(d), Said(lg))
  BY <1>1, CanonTyped DEF Readings, Recalls
<1>3. Canon(q.conv) = x
  BY <1>1, <1>2, CanonMerge
<1>4. Says(e) = v
  <2>1. Says(e) = Speaks("user", << b >>)
    BY DEF Says
  <2> QED BY <1>1, <2>1, SpeaksOne
<1>5. EndsAlike(Flat(x), Said(lg2))
  <2>1. Flat(x) = Flat(d) \o v
    BY <1>1, <1>2, FlatMerge
  <2>2. Said(lg2) = Said(lg) \o v
    BY <1>1, <1>4, SaidAppend
  <2>3. Flat(d) \in Seq(Voices) /\ Said(lg) \in Seq(Voices) /\ v \in Seq(Voices)
    BY <1>2, <1>4, FlatIs, SaidIs, SaysTyped
  <2>4. EndsAlike(Flat(d) \o v, Said(lg) \o v)
    BY <1>2, <2>3, AlikeOn
  <2> QED BY <2>1, <2>2, <2>4
<1>6. Begins(lg2, x)
  <2>1. CASE lg = <<>>
    <3>1. d = <<>>
      BY <1>2, <2>1 DEF Begins
    <3>2. PICK m : m = UserMessage(<< b >>)
      OBVIOUS
    <3>3. x = Append(<<>>, m)
      BY <1>1, <3>1, <3>2 DEF MergeUser, EndsWithUser
    <3>4. x = << m >> /\ x # <<>> /\ x[1] = m
      BY <3>3
    <3>5. m.role = "user" /\ m.content = << b >> /\ m.content # <<>> /\ m.content[1] = b
      BY <3>2 DEF UserMessage
    <3>6. lg2 = << e >> /\ lg2 # <<>> /\ lg2[1] = e
      BY <1>1, <2>1
    <3>7. e.blocks[1] = b
      OBVIOUS
    <3> QED BY <3>4, <3>5, <3>6, <3>7 DEF Begins
  <2>2. CASE lg # <<>>
    <3>1. PICK k, m, s : k = MergedAt(d) /\ m = Merging(d, b) /\ s = << b >>
      OBVIOUS
    <3>2. m \in Messages /\ Placed(x, d, k, m) /\ Adds(d, k, m, s) /\ s \in Seq(Block)
      BY <1>1, <1>2, <3>1, MergePlaced, MergingAdds
    <3> QED BY <1>1, <1>2, <2>2, <3>2, BeginsOn
  <2> QED BY <2>1, <2>2
<1>7. ~Thought(lg2) => Joined(q.conv)
  BY <1>1, <1>2, ThoughtAfter, MergePlaced, PlacedJoined
<1>8. Recalls(lg2, q)
  BY <1>3, <1>5, <1>6, <1>7 DEF Recalls
<1> QED BY <1>1, <1>8

\* A reply, or thinking.
LEMMA PutRecalls ==
    ASSUME NEW lg \in Seq(LogEvents), NEW r \in Readings, NEW e \in LogEvents, Recalls(lg, r), lg # <<>>,
           e.type \in {"assistant.thinking", "assistant.message"},
           NEW q \in Readings, Canon(q.conv) = Put(Canon(r.conv), e.blocks),
           ~Thought(Append(lg, e)) => Joined(q.conv)
    PROVE  Recalls(Append(lg, e), q)
<1>1. PICK c, d, lg2, x, s, v : /\ c = r.conv /\ d = Canon(c) /\ lg2 = Append(lg, e)
                                /\ s = e.blocks /\ x = Put(d, s) /\ v = Speaks("assistant", s)
  OBVIOUS
<1>2. c \in Seq(Messages) /\ d \in Seq(Messages) /\ Begins(lg, d) /\ EndsAlike(Flat(d), Said(lg)) /\ s \in Seq(Block)
  BY <1>1, CanonTyped DEF Readings, LogEvents, Recalls
<1>3. d # <<>>
  BY <1>2 DEF Begins
<1>4. Says(e) = v
  BY <1>1 DEF Says
<1>5. EndsAlike(Flat(x), Said(lg2))
  <2>1. Flat(x) = Flat(d) \o v
    BY <1>1, <1>2, <1>3, FlatPut
  <2>2. Said(lg2) = Said(lg) \o v
    BY <1>1, <1>4, SaidAppend
  <2>3. Flat(d) \in Seq(Voices) /\ Said(lg) \in Seq(Voices) /\ v \in Seq(Voices)
    BY <1>2, <1>4, FlatIs, SaidIs, SaysTyped
  <2>4. EndsAlike(Flat(d) \o v, Said(lg) \o v)
    BY <1>2, <2>3, AlikeOn
  <2> QED BY <2>1, <2>2, <2>4
<1>6. Begins(lg2, x)
  <2>1. PICK k, m : k = PutAt(d) /\ m = Putting(d, s)
    OBVIOUS
  <2>2. m \in Messages /\ Placed(x, d, k, m) /\ Adds(d, k, m, s)
    BY <1>1, <1>2, <1>3, <2>1, PutPlaced, PuttingAdds
  <2> QED BY <1>1, <1>2, <2>2, BeginsOn
<1>7. Recalls(lg2, q)
  BY <1>1, <1>5, <1>6 DEF Recalls
<1> QED BY <1>1, <1>7

LEMMA CompactionRecalls ==
    ASSUME NEW lg \in Seq(LogEvents), NEW r \in Readings, NEW e \in LogEvents, Recalls(lg, r),
           e.type = "compaction.applied", Legal(lg, r, e), ~Thought(lg), Read(r, e) \in Readings
    PROVE  Recalls(Append(lg, e), Read(r, e))
<1>1. PICK c, lg2, q, to : c = r.conv /\ lg2 = Append(lg, e) /\ q = Read(r, e) /\ to = e.to
  OBVIOUS
<1>2. c \in Seq(Messages) /\ r.ok = TRUE /\ r.pending \in SUBSET Block
  BY <1>1 DEF Readings
<1>3. Joined(c) /\ Canon(c) = c
  <2>1. Joined(c)
    BY <1>1 DEF Recalls
  <2> QED BY <1>2, <2>1, JoinedCanon
<1>4. Begins(lg, c) /\ EndsAlike(Flat(c), Said(lg))
  BY <1>1, <1>3 DEF Recalls
<1>5. /\ e.from = 1 /\ to >= 1 /\ to + 2 <= Len(c)
      /\ c[to + 2].role = "user"
      /\ \E b \in Block : b.kind = "text" /\ e.blocks = << b >>
      /\ Cardinality({t \in TurnStarts(c) : t >= to + 1}) = KeepTurns
  BY <1>1 DEF Legal
<1>6. PICK b \in Block : b.kind = "text" /\ e.blocks = << b >>
  BY <1>5
<1>7. to \in Nat \ {0} /\ Len(c) \in Nat
  <2>1. to \in Nat
    BY <1>1 DEF LogEvents
  <2> QED BY <1>2, <1>5, <2>1
<1>8. PICK m, x : m = AssistantMessage(<< b >>) /\ x = ApplyCompaction(c, 1, to, b)
  OBVIOUS
<1>9. m \in Messages
  BY <1>6, <1>8 DEF AssistantMessage, Messages
<1>10. q.conv = x
  <2>1. 1 <= to /\ to < Len(c)
    BY <1>5, <1>7
  <2>2. q = ReadApplied(r, e)
    BY <1>1, <1>2 DEF Read
  <2>3. q = [r EXCEPT !.conv = ApplyCompaction(@, 1, to, b)]
    BY <1>1, <1>5, <1>6, <2>1, <2>2 DEF ReadApplied
  <2> QED BY <1>1, <1>8, <2>3 DEF Readings
<1>11. lg # <<>> /\ c # <<>> /\ c[1].role = "user" /\ c[1].content # <<>> /\ c[1].content[1] = lg[1].blocks[1]
  <2>1. c # <<>>
    BY <1>5, <1>7
  <2> QED BY <1>4, <2>1 DEF Begins
<1>12. Joined(x)
  BY <1>2, <1>3, <1>5, <1>6, <1>7, <1>8, <1>11, CompactionJoined
<1>13. x \in Seq(Messages) /\ x # <<>> /\ x[1] = c[1]
  <2>1. x \in Seq(Messages) /\ Len(x) = (Len(c) - to) + 1 /\ Replaced(x, c, to, m)
    BY <1>2, <1>5, <1>7, <1>8, <1>9, CompactedIs
  <2>2. PICK n, k : n = Len(c) /\ k = Len(x)
    OBVIOUS
  <2>3. k \in Nat \ {0} /\ 1 \in 1..k
    BY <1>5, <1>7, <2>1, <2>2
  <2>4. x[1] = c[1]
    BY <2>2, <2>3, <2>1 DEF Replaced
  <2>5. x # <<>>
    BY <2>2, <2>3
  <2> QED BY <2>1, <2>4, <2>5
<1>14. Canon(q.conv) = x
  BY <1>10, <1>12, <1>13, JoinedCanon
<1>15. PICK n, u, z, p, y, pm : /\ n = Len(c) /\ u = SubSeq(c, 1, to + 1) /\ z = SubSeq(c, to + 2, n)
                                /\ p = SubSeq(c, 1, 1) /\ y = << m >> /\ pm = p \o y
  OBVIOUS
<1>16. /\ u \in Seq(Messages) /\ z \in Seq(Messages) /\ p \in Seq(Messages) /\ y \in Seq(Messages)
       /\ pm \in Seq(Messages) /\ c = u \o z /\ x = pm \o z
  <2>1. to + 1 \in 0..n /\ 1 \in 0..n /\ to + 2 \in 1..(n + 1) /\ (to + 1) + 1 = to + 2
    BY <1>5, <1>7, <1>15
  <2>2. u \in Seq(Messages) /\ p \in Seq(Messages)
    BY <1>2, <1>15, <2>1, PrefixIs
  <2>3. z \in Seq(Messages)
    BY <1>2, <1>15, <2>1, EndIs
  <2>4. y \in Seq(Messages)
    BY <1>9, <1>15
  <2>5. pm \in Seq(Messages)
    BY <1>15, <2>2, <2>4, ConcatIs
  <2>6. c = u \o z
    BY <1>2, <1>15, <2>1, BeginningAndEnd
  <2>7. x = pm \o z
    BY <1>8, <1>15 DEF ApplyCompaction
  <2> QED BY <2>2, <2>3, <2>4, <2>5, <2>6, <2>7
<1>17. TextCount(Flat(z)) >= KeepTurns
  <2>1. to + 2 \in 1..(Len(c) + 1)
    BY <1>5, <1>7
  <2>2. Cardinality({t \in TurnStarts(c) : t + 1 >= to + 2}) <= TextCount(Flat(SubSeq(c, to + 2, Len(c))))
    BY <1>2, <2>1, TurnTexts
  <2>3. {t \in TurnStarts(c) : t + 1 >= to + 2} = {t \in TurnStarts(c) : t >= to + 1}
    <3>1. \A t \in TurnStarts(c) : t \in Nat
      BY <1>7 DEF TurnStarts
    <3> QED BY <1>7, <3>1
  <2>4. KeepTurns <= TextCount(Flat(z))
    BY <1>5, <1>15, <2>2, <2>3
  <2>5. TextCount(Flat(z)) \in Nat /\ KeepTurns \in Nat
    <3>1. Flat(z) \in Seq(Voices)
      BY <1>16, FlatIs
    <3> QED BY <3>1, TextCountIs, ReplayAssumption
  <2> QED BY <2>4, <2>5
<1>18. EndsAlike(Flat(x), Said(lg))
  <2>1. PICK fu, fz, fp : fu = Flat(u) /\ fz = Flat(z) /\ fp = Flat(pm)
    OBVIOUS
  <2>2. fu \in Seq(Voices) /\ fz \in Seq(Voices) /\ fp \in Seq(Voices)
    BY <1>16, <2>1, FlatIs
  <2>3. Flat(c) = fu \o fz
    BY <1>16, <2>1, FlatConcat
  <2>4. Flat(x) = fp \o fz
    BY <1>16, <2>1, FlatConcat
  <2>5. Flat(c) \in Seq(Voices) /\ Said(lg) \in Seq(Voices)
    BY <1>2, FlatIs, SaidIs
  <2>6. TextCount(fz) >= KeepTurns
    BY <1>17, <2>1
  <2>7. EndsAlike(fp \o fz, Said(lg))
    BY <1>4, <2>2, <2>3, <2>5, <2>6, AlikeCut
  <2> QED BY <2>4, <2>7
<1>19. Said(lg2) = Said(lg)
  BY <1>1, SaidAppend, ConcatEmptySeq DEF Says
<1>20. Begins(lg2, x)
  <2>1. lg2 # <<>> /\ lg2[1] = lg[1]
    BY <1>11, EmptySeq, <1>1, EventAdded
  <2> QED BY <1>11, <1>13, <2>1 DEF Begins
<1>21. Recalls(lg2, q)
  BY <1>10, <1>12, <1>14, <1>18, <1>19, <1>20 DEF Recalls
<1> QED BY <1>1, <1>21

LEMMA UserRecalls ==
    ASSUME NEW lg \in Seq(LogEvents), NEW r \in Readings, NEW e \in LogEvents, Recalls(lg, r),
           e.type \in {"user.message", "tool.completed"}, Shaped(e), Read(r, e) \in Readings
    PROVE  Recalls(Append(lg, e), Read(r, e))
<1>1. PICK q : q = Read(r, e)
  OBVIOUS
<1>2. r.ok = TRUE /\ q \in Readings /\ q.ok = TRUE
  BY <1>1 DEF Readings
<1>3. \E b \in Block : e.blocks = << b >>
  BY DEF Shaped
<1>4. PICK b \in Block : e.blocks = << b >>
  BY <1>3
<1>5. e.blocks[1] = b
  BY <1>4
<1>6. q.conv = MergeUser(r.conv, b)
  <2>1. CASE e.type = "user.message"
    <3>1. q = [r EXCEPT !.conv = MergeUser(@, b)]
      BY <1>1, <1>2, <1>5, <2>1 DEF Read
    <3> QED BY <3>1 DEF Readings
  <2>2. CASE e.type = "tool.completed"
    <3>1. q = ReadCompleted(r, e)
      BY <1>1, <1>2, <2>2 DEF Read
    <3>2. b \in r.pending
      BY <1>5, <3>1, <1>2 DEF ReadCompleted, Readings
    <3>3. q = [r EXCEPT !.conv = MergeUser(@, b), !.pending = @ \ {b}]
      BY <1>5, <3>1, <3>2 DEF ReadCompleted
    <3> QED BY <3>3 DEF Readings
  <2> QED BY <2>1, <2>2
<1>7. Recalls(Append(lg, e), q)
  BY <1>2, <1>4, <1>6, MergeRecalls
<1> QED BY <1>1, <1>7

LEMMA ThinkingRecalls ==
    ASSUME NEW lg \in Seq(LogEvents), NEW r \in Readings, NEW e \in LogEvents, Recalls(lg, r),
           e.type = "assistant.thinking", Legal(lg, r, e)
    PROVE  Recalls(Append(lg, e), Read(r, e))
<1>1. PICK q : q = Read(r, e)
  OBVIOUS
<1>2. r.ok = TRUE
  BY DEF Readings
<1>3. lg # <<>> /\ \E b \in Block : b.kind = "thinking" /\ e.blocks = << b >>
  BY DEF Legal
<1>4. PICK b \in Block : b.kind = "thinking" /\ e.blocks = << b >>
  BY <1>3
<1>5. q = [r EXCEPT !.conv = Append(@, AssistantMessage(<< b >>))]
  BY <1>1, <1>2, <1>4 DEF Read
<1>6. q \in Readings /\ Canon(q.conv) = Put(Canon(r.conv), e.blocks)
  <2>1. b \in Thinking
    BY <1>4 DEF Thinking
  <2>2. q \in Readings /\ Canon(q.conv) = Put(Canon(r.conv), << b >>)
    BY <1>5, <2>1, ThoughtRead
  <2> QED BY <1>4, <2>2
<1>7. Thought(Append(lg, e))
  BY ThoughtAfter
<1>8. Recalls(Append(lg, e), q)
  BY <1>3, <1>6, <1>7, PutRecalls
<1> QED BY <1>1, <1>8

LEMMA ReplyRecalls ==
    ASSUME NEW lg \in Seq(LogEvents), NEW r \in Readings, NEW e \in LogEvents, Recalls(lg, r),
           e.type = "assistant.message", Legal(lg, r, e)
    PROVE  Recalls(Append(lg, e), Read(r, e))
<1>1. PICK c, q, s, m, f : /\ c = r.conv /\ q = Read(r, e) /\ s = e.blocks /\ m = AssistantMessage(s)
                           /\ f = Event("assistant.message", s)
  OBVIOUS
<1>2. c \in Seq(Messages) /\ r.ok = TRUE
  BY <1>1 DEF Readings
<1>3. /\ s # <<>> /\ Arranged(AssistantMessage(s)) = s
      /\ Thought(lg) \/ EndsWithUser(c)
  BY <1>1 DEF Legal
<1>4. s \in Seq(Block)
  BY <1>1 DEF LogEvents
<1>5. q \in Readings /\ q.conv = Append(c, m) /\ Canon(q.conv) = Put(Canon(c), s)
  <2>1. f.blocks = s
    BY <1>1 DEF Event
  <2>2. q = ReadMessage(r, e)
    BY <1>1, <1>2 DEF Read
  <2>3. q = ReadMessage(r, f)
    BY <1>1, <2>1, <2>2 DEF ReadMessage
  <2>4. /\ q \in Readings
        /\ q.conv = Append(r.conv, AssistantMessage(s))
        /\ Canon(q.conv) = Put(Canon(r.conv), s)
    BY <1>1, <1>3, <1>4, <2>3, RestRead
  <2> QED BY <1>1, <2>4
<1>6. lg # <<>>
  <2>1. CASE Thought(lg)
    BY <2>1, ThoughtAfter
  <2>2. CASE EndsWithUser(c)
    <3>1. SUFFICES ASSUME lg = <<>> PROVE FALSE
      OBVIOUS
    <3>2. EndsWithUser(Canon(c))
      BY <1>2, <2>2, CanonEnds
    <3>3. Canon(c) # <<>>
      BY <3>2 DEF EndsWithUser
    <3> QED BY <1>1, <3>1, <3>3 DEF Recalls, Begins
  <2> QED BY <1>3, <2>1, <2>2
<1>7. ~Thought(Append(lg, e)) => Joined(q.conv)
  <2>1. SUFFICES ASSUME ~Thought(Append(lg, e)) PROVE Joined(q.conv)
    OBVIOUS
  <2>2. ~Thought(lg)
    BY <2>1, ThoughtAfter
  <2>3. Joined(c) /\ EndsWithUser(c)
    BY <1>1, <1>3, <2>2 DEF Recalls
  <2>4. PICK k, y : k = Len(c) + 1 /\ y = Append(c, m)
    OBVIOUS
  <2>5. m \in Messages /\ Arranged(m) = m.content /\ m.role = "assistant"
    BY <1>1, <1>3, <1>4 DEF AssistantMessage, Messages
  <2>6. y \in Seq(Messages) /\ Len(y) = k /\ y[k] = m /\ k - 1 = Len(c) /\ k \in Nat \ {0}
        /\ \A i \in 1..Len(c) : y[i] = c[i]
    BY <1>2, <2>4, <2>5, AppendProperties
  <2>7. Placed(y, c, k, m)
    BY <2>4, <2>6 DEF Placed
  <2>8. Joined(y)
    BY <1>2, <2>3, <2>4, <2>5, <2>7, PlacedJoined
  <2> QED BY <1>5, <2>4, <2>8
<1>8. Canon(q.conv) = Put(Canon(r.conv), e.blocks)
  BY <1>1, <1>5
<1>9. Recalls(Append(lg, e), q)
  BY <1>5, <1>6, <1>7, <1>8, PutRecalls
<1> QED BY <1>1, <1>9

LEMMA EventShaped ==
    ASSUME NEW lg, NEW r, NEW e \in LogEvents, Legal(lg, r, e)
    PROVE  Shaped(e)
<1>1. CASE e.type = "user.message"
  <2>1. \E b \in Block : b.kind = "text" /\ e.blocks = << b >>
    BY <1>1 DEF Legal
  <2> QED BY <1>1, <2>1 DEF Shaped
<1>2. CASE e.type = "tool.completed"
  <2>1. \E b \in Block : b.kind = "result" /\ e.blocks = << b >>
    BY <1>2 DEF Legal
  <2> QED BY <1>2, <2>1 DEF Shaped
<1>3. CASE e.type # "user.message" /\ e.type # "tool.completed"
  BY <1>3 DEF Shaped
<1> QED BY <1>1, <1>2, <1>3

LEMMA EventRecalls ==
    ASSUME NEW lg \in Seq(LogEvents), NEW r \in Readings, NEW e \in LogEvents, Recalls(lg, r),
           Read(r, e) \in Readings, Legal(lg, r, e), ~ThoughtCompacted(Append(lg, e))
    PROVE  Recalls(Append(lg, e), Read(r, e))
<1>1. e.type \in {"user.message", "assistant.thinking", "assistant.message", "tool.completed", "compaction.applied"}
  BY DEF LogEvents
<1>2. CASE e.type \in {"user.message", "tool.completed"}
  <2>1. Shaped(e)
    BY EventShaped
  <2> QED BY <1>2, <2>1, UserRecalls
<1>3. CASE e.type = "assistant.thinking"
  BY <1>3, ThinkingRecalls
<1>4. CASE e.type = "assistant.message"
  BY <1>4, ReplyRecalls
<1>5. CASE e.type = "compaction.applied"
  <2>1. ~Thought(lg)
    BY <1>5, ThoughtsBefore
  <2> QED BY <1>5, <2>1, CompactionRecalls
<1> QED BY <1>1, <1>2, <1>3, <1>4, <1>5

\* A log that Legal says of is read as what it recalls.
ReadsAsRecalled(lg) ==
    \A r : ReadsInto(Empty, lg, r) /\ LegalLog(lg) /\ ~ThoughtCompacted(lg) =>
             Recalls(lg, r) /\ lg \in Seq(ShapedEvents)

LEMMA NothingRecalled == ReadsAsRecalled(<<>>)
<1>1. SUFFICES ASSUME NEW r, ReadsInto(Empty, <<>>, r) PROVE Recalls(<<>>, r) /\ <<>> \in Seq(ShapedEvents)
  BY DEF ReadsAsRecalled
<1>2. r = Empty
  BY <1>1 DEF ReadsInto, ReadAlong
<1>3. r.conv = <<>>
  BY <1>2 DEF Empty
<1>4. Len(<<>>) = 0 /\ 1..0 = {}
  OBVIOUS
<1>5. Joined(<<>>) /\ Begins(<<>>, <<>>)
  BY <1>4 DEF Joined, Begins
<1>6. EndsAlike(Flat(<<>>), Said(<<>>))
  <2>1. <<>> \in Seq(Voices) /\ <<>> = <<>> \o <<>>
    BY ConcatEmptySeq
  <2> QED BY <2>1, FlatNone DEF EndsAlike
<1>7. Recalls(<<>>, r)
  BY <1>3, <1>5, <1>6, CanonNone DEF Recalls
<1> QED BY <1>7

LEMMA LogsRecall ==
    ASSUME NEW lg \in Seq(LogEvents)
    PROVE  ReadsAsRecalled(lg)
<1> DEFINE G == {s \in Seq(LogEvents) : ReadsAsRecalled(s)}
<1>1. <<>> \in G
  BY NothingRecalled
<1>2. ASSUME NEW s \in Seq(LogEvents), NEW x \in LogEvents, s \in G PROVE Append(s, x) \in G
  <2>1. PICK t : t = Append(s, x)
    OBVIOUS
  <2>2. t \in Seq(LogEvents)
    BY <2>1, EventAdded
  <2>3. SUFFICES ASSUME NEW q, ReadsInto(Empty, t, q), LegalLog(t), ~ThoughtCompacted(t)
                 PROVE  Recalls(t, q) /\ t \in Seq(ShapedEvents)
    BY <2>1, <2>2 DEF ReadsAsRecalled
  <2>4. q \in Readings /\ \E p \in Readings : ReadsInto(Empty, s, p) /\ q = Read(p, x)
    BY <2>1, <2>3, ReadLast
  <2>5. PICK p \in Readings : ReadsInto(Empty, s, p) /\ q = Read(p, x)
    BY <2>4
  <2>6. Resume(s) = p
    BY <2>5, ResumeIs
  <2>7. LegalLog(s) /\ Legal(s, p, x)
    BY <2>1, <2>3, <2>6, LegalAppend
  <2>8. ~ThoughtCompacted(s)
    BY <2>1, <2>3, ThoughtsBefore
  <2>9. Recalls(s, p) /\ s \in Seq(ShapedEvents)
    BY <1>2, <2>5, <2>7, <2>8 DEF ReadsAsRecalled
  <2>10. Read(p, x) \in Readings /\ ~ThoughtCompacted(Append(s, x))
    BY <2>1, <2>3, <2>4, <2>5
  <2>11. Recalls(Append(s, x), Read(p, x))
    BY <2>5, <2>7, <2>9, <2>10, EventRecalls
  <2>12. x \in ShapedEvents
    BY <2>7, EventShaped DEF ShapedEvents
  <2>13. Append(s, x) \in Seq(ShapedEvents)
    BY <2>9, <2>12, AppendProperties
  <2> QED BY <2>1, <2>5, <2>11, <2>13
<1>3. GrowsIn(G, LogEvents)
  BY <1>1, <1>2 DEF GrowsIn
<1>4. lg \in G
  <2> HIDE DEF G
  <2> QED BY <1>3, AllSequences
<1> QED BY <1>4

-----------------------------------------------------------------------------
(* What is kept *)

LEMMA ReverseIs ==
    ASSUME NEW S, NEW s \in Seq(S)
    PROVE  /\ Reverse(s) \in Seq(S) /\ Len(Reverse(s)) = Len(s)
           /\ \A i \in 1..Len(s) : Reverse(s)[i] = s[(Len(s) - i) + 1]
<1>1. PICK n, r : n = Len(s) /\ r = Reverse(s)
  OBVIOUS
<1>2. n \in Nat /\ \A i \in 1..n : s[i] \in S
  BY <1>1
<1>3. \A i \in 1..n : (n - i) + 1 \in 1..n
  BY <1>2
<1>4. r = [i \in 1..n |-> s[(n - i) + 1]]
  BY <1>1 DEF Reverse
<1>5. r \in Seq(S) /\ Len(r) = n /\ \A i \in 1..n : r[i] = s[(n - i) + 1]
  BY <1>2, <1>3, <1>4
<1> QED BY <1>1, <1>5

LEMMA SuffixIs ==
    ASSUME NEW S, NEW x \in Seq(S), NEW b \in Seq(S), NEW a, a = x \o b
    PROVE  IsSuffix(b, a)
<1>1. PICK nx, nb, n, rb, ra : nx = Len(x) /\ nb = Len(b) /\ n = Len(a) /\ rb = Reverse(b) /\ ra = Reverse(a)
  OBVIOUS
<1>2. /\ a \in Seq(S) /\ n = nx + nb /\ nx \in Nat /\ nb \in Nat /\ n \in Nat
      /\ \A i \in 1..n : a[i] = IF i <= nx THEN x[i] ELSE b[i - nx]
  BY ConcatIs, <1>1
<1>3. rb \in Seq(S) /\ Len(rb) = nb /\ \A i \in 1..nb : rb[i] = b[(nb - i) + 1]
  BY <1>1, ReverseIs
<1>4. ra \in Seq(S) /\ Len(ra) = n /\ \A i \in 1..n : ra[i] = a[(n - i) + 1]
  <2>1. PICK w : w = a
    OBVIOUS
  <2>2. w \in Seq(S) /\ n = Len(w) /\ ra = Reverse(w)
    BY <1>1, <1>2, <2>1
  <2>3. ra \in Seq(S) /\ Len(ra) = n /\ \A i \in 1..n : ra[i] = w[(n - i) + 1]
    BY <2>2, ReverseIs
  <2> QED BY <2>1, <2>3
<1>5. PICK s, t : s = SubSeq(rb, 1, nb) /\ t = SubSeq(ra, 1, nb)
  OBVIOUS
<1>6. nb \in 0..Len(rb) /\ nb \in 0..Len(ra)
  BY <1>2, <1>3, <1>4
<1>7. s \in Seq(S) /\ Len(s) = nb /\ \A i \in 1..nb : s[i] = rb[i]
  BY <1>3, <1>5, <1>6, PrefixIs
<1>8. t \in Seq(S) /\ Len(t) = nb /\ \A i \in 1..nb : t[i] = ra[i]
  BY <1>4, <1>5, <1>6, PrefixIs
<1>9. ASSUME NEW i \in 1..nb PROVE s[i] = t[i]
  <2>1. PICK j : j = (n - i) + 1
    OBVIOUS
  <2>2. j \in 1..n /\ ~(j <= nx) /\ j - nx = (nb - i) + 1 /\ i \in 1..n
    BY <1>2, <2>1
  <2>3. a[j] = b[(nb - i) + 1]
    BY <1>2, <2>2
  <2>4. ra[i] = a[j]
    BY <1>4, <2>1, <2>2
  <2>5. rb[i] = b[(nb - i) + 1]
    BY <1>3
  <2> QED BY <1>7, <1>8, <2>3, <2>4, <2>5
<1>10. s = t
  BY <1>7, <1>8, <1>9, SeqEqual
<1>11. Len(rb) <= Len(ra)
  BY <1>2, <1>3, <1>4
<1> QED BY <1>1, <1>3, <1>5, <1>10, <1>11 DEF IsSuffix, IsPrefix

\* A conversation says first what its first message holds first.
LEMMA FirstSaid ==
    ASSUME NEW d \in Seq(Messages), d # <<>>, d[1].role = "user", d[1].content # <<>>
    PROVE  Head(Flat(d)) = [role |-> "user", block |-> d[1].content[1]]
<1>1. PICK n, m, p, z, s : /\ n = Len(d) /\ m = d[1] /\ p = SubSeq(d, 1, 1) /\ z = SubSeq(d, 2, Len(d))
                           /\ s = d[1].content
  OBVIOUS
<1>2. n \in Nat \ {0} /\ 1 \in 1..n
  <2>1. n \in Nat \ {0}
    BY <1>1, EmptySeq
  <2> QED BY <2>1
<1>3. m \in Messages /\ s \in Seq(Block) /\ s # <<>>
  <2>1. m \in Messages
    BY <1>1, <1>2
  <2> QED BY <1>1, <2>1 DEF Messages
<1>4. p = << m >>
  <2>1. 1 \in 0..Len(d)
    BY <1>1, <1>2
  <2>2. p \in Seq(Messages) /\ Len(p) = 1 /\ \A i \in 1..1 : p[i] = d[i]
    BY <1>1, <2>1, PrefixIs
  <2>3. p[1] = m
    BY <1>1, <2>2
  <2> QED BY <2>2, <2>3
<1>5. z \in Seq(Messages) /\ d = p \o z
  BY <1>1, <1>2, EndIs, BeginningAndEnd
<1>6. PICK sp, fz, f : sp = Speaks("user", s) /\ fz = Flat(z) /\ f = Flat(d)
  OBVIOUS
<1>7. f = sp \o fz
  <2>1. p \in Seq(Messages) /\ Flat(p) = sp
    BY <1>1, <1>3, <1>4, <1>6, FlatOne
  <2> QED BY <1>5, <1>6, <2>1, FlatConcat
<1>8. fz \in Seq(Voices)
  BY <1>5, <1>6, FlatIs
<1>9. sp \in Seq(Voices) /\ Len(sp) = Len(s) /\ \A i \in 1..Len(s) : sp[i] = [role |-> "user", block |-> s[i]]
  BY <1>3, <1>6, SpeaksTyped
<1>10. Len(s) \in Nat \ {0} /\ 1 \in 1..Len(s)
  <2>1. Len(s) \in Nat \ {0}
    BY <1>3, EmptySeq
  <2> QED BY <2>1
<1>11. f \in Seq(Voices) /\ Len(f) = Len(sp) + Len(fz)
       /\ \A i \in 1..(Len(sp) + Len(fz)) : f[i] = IF i <= Len(sp) THEN sp[i] ELSE fz[i - Len(sp)]
  BY <1>7, <1>8, <1>9, ConcatIs
<1>12. Len(fz) \in Nat
  BY <1>8
<1>13. 1 \in 1..(Len(sp) + Len(fz)) /\ 1 <= Len(sp)
  BY <1>9, <1>10, <1>12
<1>14. f[1] = sp[1] /\ sp[1] = [role |-> "user", block |-> s[1]]
  BY <1>9, <1>10, <1>11, <1>13
<1>15. Head(f) = f[1]
  <2>1. Len(f) # 0
    BY <1>9, <1>10, <1>11, <1>12
  <2> QED BY <1>11, <2>1
<1> QED BY <1>1, <1>6, <1>14, <1>15

\* Where the last texts of the user begin: n of them are there, the first at k.
RecentFrom(lg, k, n) ==
    /\ k \in 1..Len(lg) /\ lg[k].type = "user.message"
    /\ n \in Nat /\ n <= KeepTurns
    /\ Cardinality({j \in UserTexts(lg) : j >= k}) = n

LEMMA RecentStarts ==
    ASSUME NEW lg \in Seq(LogEvents), UserTexts(lg) # {}
    PROVE  \E n : RecentFrom(lg, RecentStart(lg), n)
<1>1. PICK T, b, c : T = UserTexts(lg) /\ b = Len(lg) /\ c = Cardinality(T)
  OBVIOUS
<1>2. b \in Nat /\ T \subseteq 0..b /\ T \subseteq 1..b /\ T # {}
  BY <1>1 DEF UserTexts
<1>3. c \in Nat \ {0}
  <2>1. IsFiniteSet(0..b)
    BY <1>2, FS_Interval
  <2>2. IsFiniteSet(T)
    BY <1>2, <2>1, FS_Subset
  <2>3. c \in Nat
    BY <1>1, <2>2, FS_CardinalityType
  <2>4. c # 0
    BY <1>1, <1>2, <2>2, FS_EmptySet
  <2> QED BY <2>3, <2>4
<1>4. KeepTurns \in Nat \ {0}
  BY ReplayAssumption
<1>5. PICK n : n = IF c > KeepTurns THEN KeepTurns ELSE c
  OBVIOUS
<1>6. n \in Nat \ {0} /\ n <= c /\ n <= KeepTurns
  BY <1>3, <1>4, <1>5
<1>7. \E s \in T : Cardinality({t \in T : t >= s}) = n
  <2>1. n <= Cardinality(T)
    BY <1>1, <1>6
  <2> QED BY <1>2, <1>6, <2>1, ReachedByExactly
<1>8. RecentStart(lg) = CHOOSE i \in T : Cardinality({j \in T : j >= i}) = n
  BY <1>1, <1>5 DEF RecentStart
<1>9. PICK k : k = RecentStart(lg)
  OBVIOUS
<1>10. k \in T /\ Cardinality({j \in T : j >= k}) = n
  BY <1>7, <1>8, <1>9
<1>11. lg[k].type = "user.message"
  BY <1>1, <1>10 DEF UserTexts
<1>12. RecentFrom(lg, k, n)
  BY <1>1, <1>2, <1>6, <1>10, <1>11 DEF RecentFrom
<1> QED BY <1>9, <1>12

\* What is said first by what begins with a text of the user.
LEMMA TextFirst ==
    ASSUME NEW lg \in Seq(ShapedEvents), NEW k \in 1..Len(lg), lg[k].type = "user.message"
    PROVE  /\ Said(SubSeq(lg, k, Len(lg))) \in Seq(Voices) \ {<<>>}
           /\ IsText(Said(SubSeq(lg, k, Len(lg)))[1])
<1>1. PICK n, e, u, p, z : /\ n = Len(lg) /\ e = lg[k] /\ u = SubSeq(lg, k, Len(lg))
                           /\ p = << e >> /\ z = SubSeq(u, 2, Len(u))
  OBVIOUS
<1>2. k \in 1..(Len(lg) + 1) /\ (Len(lg) + 1) - k \in Nat \ {0} /\ e \in ShapedEvents
  BY <1>1
<1>3. u \in Seq(ShapedEvents) /\ Len(u) \in Nat \ {0} /\ u[1] = e
  BY <1>1, <1>2, EndIs
<1>4. ShapedEvents \subseteq LogEvents
  BY DEF ShapedEvents
<1>5. e \in LogEvents /\ \E b \in Block : b.kind = "text" /\ e.blocks = << b >>
  BY <1>1, <1>2 DEF ShapedEvents, Shaped
<1>6. PICK b \in Block : b.kind = "text" /\ e.blocks = << b >>
  BY <1>5
<1>7. PICK v : v = [role |-> "user", block |-> b]
  OBVIOUS
<1>8. Says(e) = << v >> /\ v \in Voices /\ IsText(v)
  <2>1. Says(e) = Speaks("user", << b >>)
    BY <1>1, <1>6 DEF Says
  <2>2. Speaks("user", << b >>) = << [role |-> "user", block |-> b] >>
    BY SpeaksOne
  <2> QED BY <1>6, <1>7, <2>1, <2>2 DEF Voices, IsText
<1>9. u = p \o z /\ p \in Seq(LogEvents) /\ z \in Seq(LogEvents)
  <2>1. 1 \in 0..Len(u) /\ 2 \in 1..(Len(u) + 1)
    BY <1>3
  <2>2. u = SubSeq(u, 1, 1) \o SubSeq(u, 1 + 1, Len(u))
    BY <1>3, <2>1, BeginningAndEnd
  <2>3. PICK w : w = SubSeq(u, 1, 1)
    OBVIOUS
  <2>4. w \in Seq(ShapedEvents) /\ Len(w) = 1 /\ \A i \in 1..1 : w[i] = u[i]
    BY <1>3, <2>1, <2>3, PrefixIs
  <2>5. w = << u[1] >>
    BY <2>4
  <2>6. z \in Seq(ShapedEvents)
    BY <1>1, <1>3, <2>1, EndIs
  <2>7. z \in Seq(LogEvents)
    BY <1>4, <2>6
  <2>8. w = p
    BY <1>1, <1>3, <2>5
  <2>9. u = w \o SubSeq(u, 2, Len(u))
    BY <2>2, <2>3
  <2>10. p \in Seq(LogEvents)
    BY <1>1, <1>5
  <2> QED BY <1>1, <2>7, <2>8, <2>9, <2>10
<1>10. PICK sz, all : sz = Said(z) /\ all = Said(u)
  OBVIOUS
<1>11. sz \in Seq(Voices) /\ Said(p) = << v >> /\ all = << v >> \o sz
  <2>1. sz \in Seq(Voices)
    BY <1>9, <1>10, SaidIs
  <2>2. Said(Append(<<>>, e)) = Said(<<>>) \o Says(e)
    <3>1. <<>> \in Seq(LogEvents)
      OBVIOUS
    <3> QED BY <1>5, <3>1, SaidAppend
  <2>3. Said(p) = << v >>
    BY <1>1, <1>8, ConcatEmptySeq, <2>2, FlatNone
  <2>4. Said(p \o z) = Said(p) \o Said(z)
    BY <1>9, SaidConcat
  <2> QED BY <1>9, <1>10, <2>1, <2>3, <2>4
<1>12. all \in Seq(Voices) /\ Len(all) \in Nat \ {0} /\ all[1] = v
  BY <1>8, <1>11
<1> QED BY <1>1, <1>8, <1>10, <1>12

\* The last texts of the user, with all that was said since, are the end of what
\* the conversation says.
LEMMA EndSaid ==
    ASSUME NEW lg \in Seq(ShapedEvents), NEW a \in Seq(Voices), EndsAlike(a, Said(lg)),
           NEW k, NEW n, RecentFrom(lg, k, n)
    PROVE  IsSuffix(Said(SubSeq(lg, k, Len(lg))), a)
<1>1. PICK f, u, sf, s, b : /\ f = SubSeq(lg, 1, k - 1) /\ u = SubSeq(lg, k, Len(lg))
                            /\ sf = Said(f) /\ s = Said(u) /\ b = Said(lg)
  OBVIOUS
<1>2. /\ k \in 1..Len(lg) /\ lg[k].type = "user.message" /\ n \in Nat /\ n <= KeepTurns
      /\ Cardinality({j \in UserTexts(lg) : j >= k}) = n
  BY DEF RecentFrom
<1>3. ShapedEvents \subseteq LogEvents
  BY DEF ShapedEvents
<1>4. lg \in Seq(LogEvents) /\ f \in Seq(LogEvents) /\ u \in Seq(LogEvents) /\ lg = f \o u
  <2>1. lg \in Seq(LogEvents)
    BY <1>3
  <2>2. k - 1 \in 0..Len(lg) /\ k \in 1..(Len(lg) + 1) /\ (k - 1) + 1 = k
    BY <1>2
  <2>3. f \in Seq(LogEvents)
    BY <1>1, <2>1, <2>2, PrefixIs
  <2>4. u \in Seq(LogEvents)
    BY <1>1, <2>1, <2>2, EndIs
  <2>5. lg = SubSeq(lg, 1, k - 1) \o SubSeq(lg, (k - 1) + 1, Len(lg))
    BY <2>1, <2>2, BeginningAndEnd
  <2> QED BY <1>1, <2>1, <2>2, <2>3, <2>4, <2>5
<1>5. sf \in Seq(Voices) /\ s \in Seq(Voices) /\ b = sf \o s
  <2>1. Said(f \o u) = Said(f) \o Said(u)
    BY <1>4, SaidConcat
  <2> QED BY <1>1, <1>4, <2>1, SaidIs
<1>6. TextCount(s) = n
  BY <1>2, LogTexts, <1>1
<1>7. s # <<>> /\ IsText(s[1])
  BY <1>1, <1>2, TextFirst
<1>8. PICK pre, rest, post \in Seq(Voices) :
        /\ a = pre \o post /\ b = rest \o post /\ (rest = <<>> \/ TextCount(post) >= KeepTurns)
  BY <1>1 DEF EndsAlike
<1>9. pre \in Seq(Voices) /\ rest \in Seq(Voices) /\ post \in Seq(Voices)
  BY <1>8
<1>10. sf \o s = rest \o post /\ Len(s) \in Nat \ {0} /\ Len(post) \in Nat
  <2>1. Len(s) \in Nat \ {0}
    BY <1>5, <1>7, EmptySeq
  <2> QED BY <1>5, <1>8, <1>9, <2>1
<1>11. CASE Len(s) <= Len(post)
  <2>1. SameMade(sf, s, rest, post)
    BY <1>10, <1>11 DEF SameMade
  <2>2. EndsIn(Voices, post, s)
    BY <1>5, <1>9, <2>1, CommonEnd
  <2>3. PICK y \in Seq(Voices) : post = y \o s
    BY <2>2 DEF EndsIn
  <2>4. PICK py : py = pre \o y
    OBVIOUS
  <2>5. y \in Seq(Voices) /\ py \in Seq(Voices)
    BY <1>9, <2>3, <2>4, ConcatIs
  <2>6. a = py \o s
    <3>1. (pre \o y) \o s = pre \o (y \o s)
      BY <1>5, <1>9, <2>5, ConcatAssociative, SMTT(60)
    <3> QED BY <1>8, <2>3, <2>4, <3>1
  <2>7. IsSuffix(s, a)
    BY <1>5, <2>5, <2>6, SuffixIs
  <2> QED BY <1>1, <2>7
<1>12. CASE ~(Len(s) <= Len(post))
  <2> SUFFICES FALSE
    OBVIOUS
  <2>1. SameMade(rest, post, sf, s)
    BY <1>10, <1>12 DEF SameMade
  <2>2. EndsIn(Voices, s, post)
    BY <1>5, <1>9, <2>1, CommonEnd
  <2>3. PICK y \in Seq(Voices) : s = y \o post
    BY <2>2 DEF EndsIn
  <2>4. y \in Seq(Voices) /\ TextCount(s) = TextCount(y) + TextCount(post)
    BY <1>9, <2>3, TextCountConcat
  <2>5. PICK ny, np : ny = Len(y) /\ np = Len(post)
    OBVIOUS
  <2>6. /\ ny \in Nat /\ np \in Nat /\ Len(s) = ny + np
        /\ \A i \in 1..(ny + np) : s[i] = IF i <= ny THEN y[i] ELSE post[i - ny]
    BY <1>9, <2>3, <2>4, <2>5, ConcatIs
  <2>7. 1 \in 1..ny /\ 1 \in 1..(ny + np)
    BY <1>12, <2>5, <2>6
  <2>8. IsText(y[1])
    BY <1>7, <2>6, <2>7
  <2>9. TextCount(y) \in Nat \ {0}
    <3>1. IsFiniteSet(TextsIn(y)) /\ TextCount(y) \in Nat
      BY <2>4, TextCountIs
    <3>2. 1 \in TextsIn(y)
      BY <2>5, <2>7, <2>8 DEF TextsIn
    <3>3. Cardinality(TextsIn(y)) # 0
      BY <3>1, <3>2, FS_EmptySet
    <3> QED BY <3>1, <3>3 DEF TextCount
  <2>10. rest # <<>>
    <3>1. SUFFICES ASSUME rest = <<>> PROVE FALSE
      OBVIOUS
    <3>2. sf \o s = post
      <4>1. rest \o post = post
        BY <1>9, <3>1, ConcatEmptySeq
      <4> QED BY <1>10, <4>1
    <3>3. Len(sf \o s) = Len(sf) + Len(s)
      BY <1>5, ConcatIs
    <3>4. Len(sf) \in Nat
      BY <1>5
    <3> QED BY <1>10, <1>12, <3>2, <3>3, <3>4
  <2>11. TextCount(post) >= KeepTurns /\ TextCount(post) \in Nat /\ KeepTurns \in Nat
    BY <1>8, <1>9, <2>10, TextCountIs, ReplayAssumption
  <2> QED BY <1>2, <1>6, <2>4, <2>9, <2>11
<1> QED BY <1>11, <1>12

\* RecentKept of any state that PairInv says of.
LEMMA PairInvKeeps ==
    ASSUME PairInv
    PROVE  RecentKept
<1>1. PICK c, lg, st, d : c = conv /\ lg = log /\ st = stage /\ d = Canon(conv)
  OBVIOUS
<1>2. ReplayInv /\ lg \in Seq(LogEvents) /\ LegalLog(lg)
  BY <1>1 DEF PairInv, ReplayInv, ReplayTyped
<1>3. PICK r : ReadsInto(Empty, lg, r) /\ Follows(r, c, lg, st)
  BY <1>1, <1>2 DEF ReplayInv, Followed
<1>4. SUFFICES ASSUME UserTexts(lg) # {}, ~CompactedThinking
               PROVE  /\ Head(Flat(d)) = [role |-> "user", block |-> lg[1].blocks[1]]
                      /\ IsSuffix(Said(SubSeq(lg, RecentStart(lg), Len(lg))), Flat(d))
  BY <1>1 DEF RecentKept
<1>5. ~ThoughtCompacted(lg)
  <2>1. DOMAIN lg = 1..Len(lg)
    BY <1>2
  <2> QED BY <1>1, <1>4, <2>1 DEF CompactedThinking, ThoughtCompacted
<1>6. Recalls(lg, r) /\ lg \in Seq(ShapedEvents)
  BY <1>2, <1>3, <1>5, LogsRecall DEF ReadsAsRecalled
<1>7. r \in Readings
  BY <1>2, <1>3, ResumeIs
<1>8. Canon(r.conv) = d
  BY <1>1, <1>3, <1>5 DEF Follows
<1>9. d \in Seq(Messages)
  <2>1. r.conv \in Seq(Messages)
    BY <1>7 DEF Readings
  <2> QED BY <1>8, <2>1, CanonTyped
<1>10. Begins(lg, d) /\ EndsAlike(Flat(d), Said(lg))
  BY <1>6, <1>8 DEF Recalls
<1>11. lg # <<>>
  BY <1>4 DEF UserTexts
<1>12. Head(Flat(d)) = [role |-> "user", block |-> lg[1].blocks[1]]
  BY <1>10, <1>11, <1>9, FirstSaid DEF Begins
<1>13. IsSuffix(Said(SubSeq(lg, RecentStart(lg), Len(lg))), Flat(d))
  <2>1. PICK k, a : k = RecentStart(lg) /\ a = Flat(d)
    OBVIOUS
  <2>2. PICK n : RecentFrom(lg, k, n)
    BY <1>2, <1>4, <2>1, RecentStarts
  <2>3. a \in Seq(Voices) /\ EndsAlike(a, Said(lg))
    BY <1>9, <1>10, <2>1, FlatIs
  <2>4. IsSuffix(Said(SubSeq(lg, k, Len(lg))), a)
    BY <1>6, <2>2, <2>3, EndSaid
  <2> QED BY <2>1, <2>4
<1> QED BY <1>12, <1>13

\* However often the conversation was compacted and the process restarted, it
\* still begins with the first text of the user, and ends with everything since
\* the KeepTurns-th last one.
THEOREM RecentTurnsAreKept == ReplaySpec => []RecentKept
<1>1. PairInv /\ [ReplayNext]_replayVars => PairInv'
  BY StepPairs
<1> QED BY <1>1, InitPairs, PairInvKeeps, PTL DEF ReplaySpec
=============================================================================
